CONSTANTS
    Threads = {poller, listener}
    Backends = 2
    Retries = 1
    Cooldown = 2
    PostTime = 2
SPECIFICATION Spec
INVARIANT TypeOK OutcomeIsTrue EmailHoldsItsCooldown SuppressedOnlyByAnEmail
PROPERTY FailingDestinationIsReported
