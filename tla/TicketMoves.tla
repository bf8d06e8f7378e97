---------------------------- MODULE TicketMoves ----------------------------
(***************************************************************************)
(* What the lifecycle engine promises of one ticket, whatever its workers, *)
(* messages and callbacks do (ADR-0028): a ticket has one status and at    *)
(* most one move in flight.  While a move is in flight nobody but the      *)
(* triage pipeline, or the deletion of the ticket's status, takes the      *)
(* ticket elsewhere, and either ends the move.  A ticket in triage has no  *)
(* move in flight, and only the pipeline takes it out.                     *)
(*                                                                         *)
(* Lifecycle implements this specification (Lifecycle!MovesAsPromised).    *)
(***************************************************************************)
CONSTANTS Statuses, PipelineKeys, TriageKeys, InitStatus

VARIABLES
  status,  \* where the ticket is
  moves    \* the move in flight: a set of at most one [to, entered]

vars == <<status, moves>>

IsPipeline(s) == s.key \in PipelineKeys
IsTriage(s) == s.key \in TriageKeys

Init == status = InitStatus /\ moves = {}

Move(to, entered) == [to |-> to, entered |-> entered]

\* A person or an automation asks for a move: it waits, or enters at once with or without
\* actions left to run.
Request(to) ==
  /\ moves = {}
  /\ to.workflow = status.workflow /\ to # status
  /\ ~IsTriage(status) /\ ~IsPipeline(to)
  /\ \/ moves' = {Move(to, FALSE)} /\ status' = status
     \/ moves' \in {{}, {Move(to, TRUE)}} /\ status' = to

\* A waiting move enters its target.
Enter ==
  \E m \in moves : /\ ~m.entered
                   /\ status' = m.to
                   /\ moves' = {Move(m.to, TRUE)}

\* The move in flight succeeds or fails: the ticket stays where it is.
End == moves # {} /\ moves' = {} /\ status' = status

\* A failed move is taken up again, if the ticket is still where the move left it.
Reopen(to) ==
  /\ moves = {}
  /\ ~IsTriage(status) /\ ~IsPipeline(to)
  /\ \/ moves' = {Move(to, FALSE)}
     \/ moves' = {Move(to, TRUE)} /\ to = status
  /\ status' = status

\* The pipeline overrides everybody.
Triage(to) ==
  /\ IsPipeline(to) /\ to.workflow = status.workflow
  /\ status' = to
  /\ moves' = {}

\* The ticket changes workflow, keeping its pipeline status if it is at one and the whole
\* workflow is adopted.
Transplant(to) ==
  /\ moves = {}
  /\ to.workflow # status.workflow
  /\ IsPipeline(to) \/ IsTriage(status) => to.key = status.key
  /\ status' = to
  /\ moves' = {}

\* The ticket's status is deleted.
Evacuate(to) ==
  /\ ~IsPipeline(status) /\ ~IsPipeline(to) /\ to.workflow = status.workflow
  /\ status' = to
  /\ moves' = {}

Next ==
  \/ \E to \in Statuses : Request(to) \/ Reopen(to) \/ Triage(to) \/ Transplant(to) \/ Evacuate(to)
  \/ Enter \/ End

Spec == Init /\ [][Next]_vars
=============================================================================
