SPECIFICATION Spec
CONSTANTS
    Requests = {q1, q2}
    Pause = 3
    AlertAfter = 2
    Cooldown = 6
    MailMayFail = TRUE
INVARIANTS TypeOK BlipsStaySilent
PROPERTIES LoopKeepsPolling LastingOutageIsReported
