------------------------------ MODULE Lifecycle ------------------------------
(***************************************************************************)
(* The life of the droplet that runs the relay, as the operator's commands *)
(* drive it: cli/core/deploy.py, sync.py, pause.py, resume.py, destroy.py. *)
(* Every command is a list of remote calls; any of them may fail, and then *)
(* the command dies where it stands (die() in cli/core/__init__.py, or an  *)
(* exception), the effects so far remaining.  What a command knows of an   *)
(* earlier one is the file .pause-state and Terraform's state.             *)
(*                                                                         *)
(* The relay's database lives on the disk of the droplet.  Its content is  *)
(* the set of records written so far, each of them written once.           *)
(* One command runs at a time: the operator waits for its end.             *)
(***************************************************************************)
EXTENDS Naturals, FiniteSets

CONSTANTS
    Commands,      \* those the operator uses
    MaxDroplets,   \* bound: droplets at a time; no command that needs one more begins
    MaxSnapshots,  \* bound: snapshots ever taken; no further pause begins
    MaxRecords,    \* bound: records the relay writes
    MaxDeaths      \* bound: commands that die

VARIABLES
    machine,     \* what each droplet is doing, "none" before it exists
    disk,        \* the records on its disk
    snapshots,   \* what has become of each snapshot
    image,       \* the records in it
    reservedIp,  \* the droplet it is assigned to, 0 for none
    ipExists,    \* whether the account still has it
    pauseState,  \* the snapshot .pause-state names, 0 without the file
    tfDroplet,   \* the droplet in Terraform's state, 0 for none
    tfIp,        \* whether the reserved IP is in it
    command,     \* the running command: its name, next step, droplet and snapshot
    deaths,      \* commands that died
    written,     \* ghost: records the relay has written
    forgone      \* ghost: those on droplets the operator has destroyed or moved to another region

cloud == <<machine, disk, snapshots, image, reservedIp, ipExists>>
local == <<pauseState, tfDroplet, tfIp>>
ghost == <<written, forgone>>
vars  == <<cloud, local, command, deaths, ghost>>

-----------------------------------------------------------------------------
Droplets  == 1..MaxDroplets
SnapIds   == 1..MaxSnapshots
Records   == 1..MaxRecords

Idle == [name |-> "none", step |-> "none", droplet |-> 0, snapshot |-> 0]

Init ==
    /\ machine = [d \in Droplets |-> "none"]
    /\ disk = [d \in Droplets |-> {}]
    /\ snapshots = [s \in SnapIds |-> "none"]
    /\ image = [s \in SnapIds |-> {}]
    /\ reservedIp = 0 /\ pauseState = 0 /\ tfDroplet = 0 /\ tfIp = FALSE
    /\ ipExists = FALSE
    /\ command = Idle /\ deaths = 0 /\ written = {} /\ forgone = {}

Exists(d)  == d # 0 /\ machine[d] \notin {"none", "deleted"}
\* The stack of a droplet that is on runs: its containers restart with the machine.
Running(d) == machine[d] \in {"on", "stopping"}

At(name, step) == command.name = name /\ command.step = step
Goes(step) == command' = [command EXCEPT !.step = step]
Ends == command' = Idle

Lowest(ids) == {i \in ids : \A j \in ids : i <= j}

\* The number of a deleted droplet is used again when nothing refers to it.
NewDroplet == Lowest({d \in Droplets : ~Exists(d) /\ d \notin {tfDroplet, reservedIp}})
NewSnapshot == Lowest({s \in SnapIds : snapshots[s] = "none"})

\* die(), a failed subprocess or the operator's Ctrl-C.
Dies ==
    /\ command # Idle /\ deaths < MaxDeaths
    /\ Ends
    /\ deaths' = deaths + 1
    /\ UNCHANGED <<cloud, local, ghost>>

-----------------------------------------------------------------------------
(* pause *)

PauseBegins ==
    /\ command = Idle /\ "pause" \in Commands
    /\ pauseState = 0 /\ Exists(reservedIp) /\ NewSnapshot # {}
    /\ command' = [name |-> "pause", step |-> "power_off", droplet |-> reservedIp, snapshot |-> 0]
    /\ UNCHANGED <<cloud, local, deaths, ghost>>

PowerOff ==
    LET d == command.droplet
    IN  /\ At("pause", "power_off") /\ machine[d] \in {"on", "stopping", "off"}
        /\ machine' = [machine EXCEPT ![d] = IF @ = "off" THEN @ ELSE "stopping"]
        /\ Goes("snapshot")
        /\ UNCHANGED <<disk, snapshots, image, reservedIp, ipExists, local, deaths, ghost>>

\* Mutant: the snapshot does not wait for the droplet to be off.
PoweredOffUnawaited(d) == Exists(d)

PoweredOff(d) == machine[d] = "off"

TakeSnapshot(s) ==
    LET d == command.droplet
    IN  /\ At("pause", "snapshot") /\ PoweredOff(d)
        /\ snapshots' = [snapshots EXCEPT ![s] = "taking"]
        /\ image' = [image EXCEPT ![s] = disk[d]]
        /\ command' = [command EXCEPT !.step = "unassign", !.snapshot = s]
        /\ UNCHANGED <<machine, disk, reservedIp, ipExists, local, deaths, ghost>>

Unassign ==
    /\ At("pause", "unassign") /\ snapshots[command.snapshot] = "taken"
    /\ reservedIp' = 0
    /\ Goes("delete")
    /\ UNCHANGED <<machine, disk, snapshots, image, ipExists, local, deaths, ghost>>

DeleteDroplet ==
    /\ At("pause", "delete")
    /\ machine' = [machine EXCEPT ![command.droplet] = "deleted"]
    /\ Goes("save")
    /\ UNCHANGED <<disk, snapshots, image, reservedIp, ipExists, local, deaths, ghost>>

SavePauseState ==
    /\ At("pause", "save")
    /\ pauseState' = command.snapshot
    /\ Ends
    /\ UNCHANGED <<cloud, tfDroplet, tfIp, deaths, ghost>>

-----------------------------------------------------------------------------
(* resume *)

ResumeBegins ==
    /\ command = Idle /\ "resume" \in Commands
    /\ pauseState # 0 /\ NewDroplet # {}
    /\ command' = [name |-> "resume", step |-> "create", droplet |-> 0, snapshot |-> pauseState]
    /\ UNCHANGED <<cloud, local, deaths, ghost>>

\* Mutant: the snapshot is deleted as soon as a droplet has been made of it.
ImageUsedUp(s) == [snapshots EXCEPT ![s] = "deleted"]

\* The snapshot stays until the stack is up.
ImageKept(s) == snapshots

CreateDroplet(d) ==
    LET s == command.snapshot
    IN  /\ At("resume", "create") /\ snapshots[s] = "taken"
        /\ machine' = [machine EXCEPT ![d] = "booting"]
        /\ disk' = [disk EXCEPT ![d] = image[s]]
        /\ snapshots' = ImageKept(s)
        /\ command' = [command EXCEPT !.step = "assign", !.droplet = d]
        /\ UNCHANGED <<image, reservedIp, ipExists, local, deaths, ghost>>

AssignIp ==
    /\ At("resume", "assign") /\ ipExists /\ machine[command.droplet] = "on"
    /\ reservedIp' = command.droplet
    /\ Goes("up")
    /\ UNCHANGED <<machine, disk, snapshots, image, ipExists, local, deaths, ghost>>

\* .env is pushed and the containers are recreated, both over the reserved IP.
ResumeUp ==
    /\ At("resume", "up") /\ Exists(reservedIp) /\ machine[reservedIp] = "on"
    /\ Goes("delete_snapshot")
    /\ UNCHANGED <<cloud, local, deaths, ghost>>

DeleteSnapshot ==
    /\ At("resume", "delete_snapshot")
    /\ snapshots' = [snapshots EXCEPT ![command.snapshot] = "deleted"]
    /\ Goes("unlink")
    /\ UNCHANGED <<machine, disk, image, reservedIp, ipExists, local, deaths, ghost>>

RemovePauseState ==
    /\ At("resume", "unlink")
    /\ pauseState' = 0
    /\ Ends
    /\ UNCHANGED <<cloud, tfDroplet, tfIp, deaths, ghost>>

\* The API refuses an image that is gone and a reserved IP that is: resume dies.
CallRefused ==
    /\ \/ At("resume", "create") /\ snapshots[command.snapshot] = "deleted"
       \/ At("resume", "assign") /\ ~ipExists
    /\ Ends
    /\ UNCHANGED <<cloud, local, deaths, ghost>>

-----------------------------------------------------------------------------
(* deploy, standalone: Terraform brings its droplet and the reserved IP into being, then
   the files and the environment are pushed and the services started.                   *)

DeployBegins ==
    /\ command = Idle /\ "deploy" \in Commands /\ (Exists(tfDroplet) \/ NewDroplet # {})
    /\ command' = [Idle EXCEPT !.name = "deploy", !.step = "import"]
    /\ UNCHANGED <<cloud, local, deaths, ghost>>

\* A reserved IP named by DROPLET_IP enters the state unless it is there.
ImportIp ==
    /\ At("deploy", "import")
    /\ tfIp' = ipExists
    /\ Goes("apply")
    /\ UNCHANGED <<cloud, pauseState, tfDroplet, deaths, ghost>>

\* A droplet of the state that is gone is created anew; pause and resume leave the state alone.
Apply(d) ==
    /\ At("deploy", "apply")
    /\ IF Exists(tfDroplet)
       THEN d = tfDroplet /\ UNCHANGED machine
       ELSE d \in NewDroplet /\ machine' = [machine EXCEPT ![d] = "booting"]
    /\ tfDroplet' = d
    /\ reservedIp' = d /\ ipExists' = TRUE /\ tfIp' = TRUE
    /\ command' = [command EXCEPT !.step = "up", !.droplet = d]
    /\ disk' = [disk EXCEPT ![d] = IF Exists(d) THEN @ ELSE {}]
    /\ UNCHANGED <<snapshots, image, pauseState, deaths, ghost>>

\* With another DROPLET_REGION the droplet of the state is destroyed and made anew over there.
Replace(d) ==
    /\ At("deploy", "apply") /\ Exists(tfDroplet) /\ d \in NewDroplet
    /\ machine' = [machine EXCEPT ![tfDroplet] = "deleted", ![d] = "booting"]
    /\ disk' = [disk EXCEPT ![d] = {}]
    /\ forgone' = forgone \cup disk[tfDroplet]
    /\ tfDroplet' = d
    /\ reservedIp' = d /\ ipExists' = TRUE /\ tfIp' = TRUE
    /\ command' = [command EXCEPT !.step = "up", !.droplet = d]
    /\ UNCHANGED <<snapshots, image, pauseState, deaths, written>>

DeployUp ==
    /\ At("deploy", "up") /\ machine[command.droplet] = "on"
    /\ Ends
    /\ UNCHANGED <<cloud, local, deaths, ghost>>

-----------------------------------------------------------------------------
(* destroy *)

DestroyBegins ==
    /\ command = Idle /\ "destroy" \in Commands
    /\ command' = [Idle EXCEPT !.name = "destroy", !.step = "preserve"]
    /\ UNCHANGED <<cloud, local, deaths, ghost>>

\* A failed state operation is a warning only.
PreserveIp ==
    /\ At("destroy", "preserve")
    /\ tfIp' \in {FALSE, tfIp}
    /\ Goes("destroy")
    /\ UNCHANGED <<cloud, pauseState, tfDroplet, deaths, ghost>>

Destroy ==
    /\ At("destroy", "destroy")
    /\ machine' = [d \in Droplets |-> IF d = tfDroplet /\ Exists(d) THEN "deleted" ELSE machine[d]]
    /\ reservedIp' = IF tfIp \/ reservedIp = tfDroplet THEN 0 ELSE reservedIp
    /\ ipExists' = (ipExists /\ ~tfIp)
    /\ tfDroplet' = 0 /\ tfIp' = FALSE
    /\ Goes("destroyed")
    /\ forgone' = forgone \cup UNION {disk[d] : d \in {e \in Droplets : e = tfDroplet /\ Exists(e)}}
    /\ UNCHANGED <<disk, snapshots, image, pauseState, deaths, written>>

DestroyEnds ==
    /\ At("destroy", "destroyed")
    /\ Ends
    /\ UNCHANGED <<cloud, local, deaths, ghost>>

-----------------------------------------------------------------------------
(* The machines, and the relay on them. *)

DropletTurns(d, from, to) ==
    /\ machine[d] = from
    /\ machine' = [machine EXCEPT ![d] = to]
    /\ UNCHANGED <<disk, snapshots, image, reservedIp, ipExists, local, command, deaths, ghost>>

Boots(d) == DropletTurns(d, "booting", "on")
Stops(d) == DropletTurns(d, "stopping", "off")

\* The operator turns a droplet that a dead pause left off on again, in the console.
TurnedOn(d) == command = Idle /\ DropletTurns(d, "off", "on")

SnapshotTaken(s) ==
    /\ snapshots[s] = "taking"
    /\ snapshots' = [snapshots EXCEPT ![s] = "taken"]
    /\ UNCHANGED <<machine, disk, image, reservedIp, ipExists, local, command, deaths, ghost>>

\* A fill is delivered and marked, the watermark moves: something the next start needs.
RelayWrites(d, r) ==
    /\ Running(d)
    /\ r \in Records /\ r = Cardinality(written) + 1
    /\ disk' = [disk EXCEPT ![d] = @ \cup {r}]
    /\ written' = written \cup {r}
    /\ UNCHANGED <<machine, snapshots, image, reservedIp, ipExists, local, command, deaths, forgone>>

-----------------------------------------------------------------------------
ResumeStep ==
    \/ \E d \in NewDroplet : CreateDroplet(d)
    \/ CallRefused \/ AssignIp \/ ResumeUp \/ DeleteSnapshot \/ RemovePauseState

PauseStep ==
    \/ PowerOff
    \/ \E s \in NewSnapshot : TakeSnapshot(s)
    \/ Unassign \/ DeleteDroplet \/ SavePauseState

DeployStep == ImportIp \/ (\E d \in Droplets : Apply(d) \/ Replace(d)) \/ DeployUp

DestroyStep == PreserveIp \/ Destroy \/ DestroyEnds

CommandStep == PauseStep \/ ResumeStep \/ DeployStep \/ DestroyStep

CloudStep == (\E d \in Droplets : Boots(d) \/ Stops(d)) \/ \E s \in SnapIds : SnapshotTaken(s)

Next ==
    \/ CommandStep \/ CloudStep \/ Dies
    \/ PauseBegins \/ ResumeBegins \/ DeployBegins \/ DestroyBegins
    \/ \E d \in Droplets : TurnedOn(d) \/ \E r \in Records : RelayWrites(d, r)

(* A call that does not fail returns; among other commands the operator comes
   back to resume until it has worked. *)
Fairness == WF_vars(CommandStep) /\ WF_vars(CloudStep) /\ SF_vars(ResumeBegins)

Spec == Init /\ [][Next]_vars /\ Fairness

-----------------------------------------------------------------------------
TypeOK ==
    /\ machine \in [Droplets -> {"none", "booting", "on", "stopping", "off", "deleted"}]
    /\ disk \in [Droplets -> SUBSET Records]
    /\ snapshots \in [SnapIds -> {"none", "taking", "taken", "deleted"}]
    /\ image \in [SnapIds -> SUBSET Records]
    /\ reservedIp \in 0..MaxDroplets /\ tfDroplet \in 0..MaxDroplets
    /\ pauseState \in 0..MaxSnapshots /\ tfIp \in BOOLEAN
    /\ command.droplet \in 0..MaxDroplets /\ command.snapshot \in 0..MaxSnapshots
    /\ deaths \in 0..MaxDeaths
    /\ written \subseteq Records /\ forgone \subseteq written
    /\ ipExists \in BOOLEAN /\ (reservedIp # 0 => ipExists)

(* README: "To stop billing for the droplet without losing state".  Whatever command dies
   where and is repeated, every record is on a droplet that exists or in a snapshot, unless the operator destroyed it
   or gave it another region. *)
StateIsKept ==
    written \ forgone \subseteq UNION ({disk[d] : d \in {e \in Droplets : Exists(e)}}
                                  \cup {image[s] : s \in {t \in SnapIds : snapshots[t] = "taken"}})

(* What was paused comes back however often resume dies: as long as .pause-state exists,
   the relay ends up running on a droplet that holds the records it was paused with. *)
PausedComesBack ==
    \A s \in SnapIds :
        pauseState = s ~> \E d \in Droplets : machine[d] = "on" /\ image[s] \subseteq disk[d]
=============================================================================
