----------------------------- MODULE FlexReport -----------------------------
(***************************************************************************)
(* One poll of IBKR's Flex Web Service: the report is requested, asked for *)
(* until it is ready (relays/ibkr/flex_fetch.py), and parsed row by row    *)
(* (flex_parser.py).  A row names an execution, or none; it may be broken, *)
(* so that no fill can be made of it, or garbled, so that its fill carries *)
(* a zero or "other" where a field could not be read.  Two rows may name   *)
(* the same execution, under the same tag or under two.                    *)
(***************************************************************************)
EXTENDS Naturals, Sequences, FiniteSets

CONSTANTS
    ExecIds,   \* of the executions a report may list
    MaxRows,   \* bound: rows of a report
    MaxReady   \* bound: when a report is ready at the latest, in units of 5 seconds

VARIABLES
    phase,    \* where the poll is
    waits,    \* how many of the waits before GetStatement are over
    readyAt,  \* IBKR: when the report will be ready, counted from the request
    report,   \* its rows
    toDo,     \* the rows the parser has still to look at
    seen,     \* the executions of this document that have a fill
    fills,    \* the fills made so far, in order, each with the row it is made of
    reported  \* the rows an error has been reported of

vars == <<phase, waits, readyAt, report, toDo, seen, fills, reported>>

-----------------------------------------------------------------------------
NoId == "none"
Tags == 1..2  \* two of _FILL_TAGS, in their order

Rows == [tag : Tags, id : ExecIds \cup {NoId}, state : {"sound", "garbled", "broken"}]

\* _GET_STATEMENT_WAITS_S: 5, 10, 15 and 30 seconds.
Waits == <<1, 2, 3, 6>>

\* How long after the request the n-th GetStatement asks.
WaitsUpTo[n \in 0..Len(Waits)] == IF n = 0 THEN 0 ELSE WaitsUpTo[n - 1] + Waits[n]

Init ==
    /\ phase = "idle" /\ waits = 0 /\ readyAt = 0
    /\ report = <<>> /\ toDo = {} /\ seen = {} /\ fills = <<>> /\ reported = {}

-----------------------------------------------------------------------------
(* fetch_flex_report *)

SendRequest(r) ==
    /\ phase = "idle"
    /\ phase' = "waiting" /\ readyAt' = r
    /\ UNCHANGED <<waits, report, toDo, seen, fills, reported>>

\* An error response of either step, a broken answer or no answer: FetchError, or
\* FetchConfigError for the codes that need the operator.  The poll gets no report.
Refused ==
    /\ phase \in {"idle", "waiting"}
    /\ phase' \in {"failed", "misconfigured"}
    /\ UNCHANGED <<waits, readyAt, report, toDo, seen, fills, reported>>

\* The attempt after which "still generating" is an error.
LastAttempt == Len(Waits)

\* IBKR answers 1019, generation in progress.
StillGenerating ==
    /\ phase = "waiting"
    /\ WaitsUpTo[waits + 1] < readyAt
    /\ waits' = waits + 1
    /\ phase' = IF waits' = LastAttempt THEN "gaveUp" ELSE "waiting"
    /\ UNCHANGED <<readyAt, report, toDo, seen, fills, reported>>

\* With the report there, it is of no more interest when it came.
GetStatement(rows) ==
    /\ phase = "waiting"
    /\ WaitsUpTo[waits + 1] >= readyAt
    /\ report' = rows /\ toDo' = DOMAIN rows
    /\ phase' = "parsing" /\ waits' = 0 /\ readyAt' = 0
    /\ UNCHANGED <<seen, fills, reported>>

-----------------------------------------------------------------------------
(* parse_fills: a row at a time *)

\* The order of `for tag in _FILL_TAGS: for el in root.iter(tag)`.
ComesBefore(i, j) ==
    report[i].tag < report[j].tag \/ (report[i].tag = report[j].tag /\ i < j)

Takes(i) ==
    /\ phase = "parsing" /\ \A j \in toDo \ {i} : ComesBefore(i, j)
    /\ toDo' = toDo \ {i}

\* No execId: neither ibExecId, nor transactionId, nor tradeID.  Or no side, option
\* contract, date or Fill can be made of the row.
Unusable(i) == report[i].id = NoId \/ report[i].state = "broken"

\* Mutant: an execution counts as seen from its first row, whatever becomes of the row.
SeenAtFirstSight(i) == seen \cup {report[i].id}

\* The executions seen, after a row that no fill is made of.
SeenAfterSkip(i) == seen

Skip(i) ==
    /\ Takes(i) /\ Unusable(i)
    /\ reported' = reported \cup {i}
    /\ seen' = SeenAfterSkip(i)
    /\ UNCHANGED <<phase, waits, readyAt, report, fills>>

SkipDuplicate(i) ==
    /\ Takes(i) /\ ~Unusable(i) /\ report[i].id \in seen
    /\ UNCHANGED <<phase, waits, readyAt, report, seen, fills, reported>>

MakeFill(i) ==
    /\ Takes(i) /\ ~Unusable(i) /\ report[i].id \notin seen
    /\ seen' = seen \cup {report[i].id}
    /\ fills' = Append(fills, i)
    /\ reported' = IF report[i].state = "garbled" THEN reported \cup {i} ELSE reported
    /\ UNCHANGED <<phase, waits, readyAt, report>>

Parsed ==
    /\ phase = "parsing" /\ toDo = {}
    /\ phase' = "parsed"
    /\ UNCHANGED <<waits, readyAt, report, toDo, seen, fills, reported>>

\* The engine has what it asked for, or the error; its next poll starts from nothing.
NextPoll ==
    /\ phase \in {"parsed", "failed", "misconfigured", "gaveUp"}
    /\ phase' = "idle" /\ waits' = 0 /\ readyAt' = 0
    /\ report' = <<>> /\ toDo' = {} /\ seen' = {} /\ fills' = <<>> /\ reported' = {}

Reports == UNION {[1..n -> Rows] : n \in 0..MaxRows}

Next ==
    \/ \E r \in 0..MaxReady : SendRequest(r)
    \/ Refused \/ StillGenerating
    \/ \E rows \in Reports : GetStatement(rows)
    \/ \E i \in toDo : Skip(i) \/ SkipDuplicate(i) \/ MakeFill(i)
    \/ Parsed \/ NextPoll

Spec == Init /\ [][Next]_vars

-----------------------------------------------------------------------------
TypeOK ==
    /\ phase \in {"idle", "waiting", "failed", "misconfigured", "gaveUp", "parsing", "parsed"}
    /\ waits \in 0..Len(Waits) /\ readyAt \in 0..MaxReady
    /\ report \in Seq(Rows) /\ seen \subseteq ExecIds
    /\ toDo \subseteq DOMAIN report /\ fills \in Seq(DOMAIN report)
    /\ reported \subseteq DOMAIN report

Usable(i) == report[i].id # NoId /\ report[i].state # "broken"

(* Whatever rows of an execution a report has, in whatever order and under whatever tags:
   one usable row is enough for one fill, several make no second one, and a row that makes
   no fill has its error or the fill of another row to show for it. *)
EachExecutionOnce ==
    phase = "parsed" =>
        /\ \A id \in {report[i].id : i \in {j \in DOMAIN report : Usable(j)}} :
              Cardinality({k \in DOMAIN fills : report[fills[k]].id = id}) = 1
        /\ \A k \in DOMAIN fills : Usable(fills[k])
        /\ \A i \in DOMAIN report : Usable(i) \/ i \in reported

=============================================================================
