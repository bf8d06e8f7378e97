----------------------------- MODULE Lifecycle -----------------------------
(***************************************************************************)
(* The lifecycle engine of one ticket (apps/lifecycle/utils/engine.py and  *)
(* runner.py, ADR-0028).                                                   *)
(*                                                                         *)
(* Every status change is a Transfer row; every action it runs is an       *)
(* ActionRun row.  Celery workers run the actions phase by phase, a        *)
(* watchdog re-queues lost work, people retry failed moves, the triage     *)
(* pipeline overrides everybody.  All of them share three tables and       *)
(* synchronise only through the row lock of the ticket and through         *)
(* conditional UPDATEs on the runs, so the model has one action per        *)
(* database transaction: what happens between two of them interleaves.     *)
(*                                                                         *)
(* Every lock, constraint and query of the engine is confined to one       *)
(* ticket, so one ticket is modelled.                                      *)
(***************************************************************************)
EXTENDS Integers, Sequences, FiniteSets

CONSTANTS
  Workers,            \* Celery workers; each runs one task at a time (prefetch 1)
  NoWorker,           \* not a worker
  Statuses,           \* the workflow statuses, records [workflow, key]
  PipelineKeys,       \* the keys reserved to the triage pipeline
  TriageKeys,         \* those of a ticket that triage or its requester owns
  CompletedStatuses,  \* the statuses whose kind is `completed`
  InitStatus,         \* where the ticket is when the model starts
  Links,              \* the modelled transitions, pairs of statuses
  Ruled,              \* the transitions with rules on the ticket's field values
  OpenPolicy,         \* TRUE: workflows allow moves no transition models
  BeforeActions,      \* the actions each transition runs before the move, in their order
  AfterActions,       \* those it runs after the move (position `both`: in either)
  EnterActions,       \* the actions run on entering each status
  Deletable,          \* the statuses an administrator may delete
  SlowWorkers,        \* TRUE: a live worker may outlast LIFECYCLE_RUN_STUCK_SEC
  MaxAttempts,        \* thresholds lifecycle.action_max_attempts
  MaxDepth,           \* thresholds lifecycle.max_chain_depth
  MaxTransfers,       \* bound: transfers recorded in a behaviour
  MaxCopies,          \* bound: waiting copies of one run_phase message
  MaxRetries,         \* bound: a person's retries
  MaxCrashes,         \* bound: worker crashes
  MaxLosses           \* bound: messages lost after the commit that queued them

StatusOf(key, s) == [workflow |-> s.workflow, key |-> key]

IsPipeline(s) == s.key \in PipelineKeys
IsTriage(s) == s.key \in TriageKeys

TransferIds == 1..MaxTransfers
Phases == {"before", "enter", "after"}
Kinds == {"local", "webhook", "n8n", "move", "change"}
Actions == [kind : Kinds, to : Statuses]

ASSUME WorkersAssumption == NoWorker \notin Workers
ASSUME StatusesAssumption ==
  /\ \A s \in Statuses : s = [workflow |-> s.workflow, key |-> s.key]
  /\ \A s \in Statuses, key \in PipelineKeys : StatusOf(key, s) \in Statuses
  /\ TriageKeys \subseteq PipelineKeys
  /\ CompletedStatuses \subseteq Statuses
  /\ InitStatus \in Statuses
  /\ Deletable \subseteq {s \in Statuses : ~IsPipeline(s)}
ASSUME ActionsAssumption ==
  /\ Links \subseteq Statuses \X Statuses
  /\ Ruled \subseteq Links
  /\ BeforeActions \in [Links -> Seq(Actions)]
  /\ AfterActions \in [Links -> Seq(Actions)]
  /\ EnterActions \in [Statuses -> Seq(Actions)]
ASSUME SwitchesAssumption == OpenPolicy \in BOOLEAN /\ SlowWorkers \in BOOLEAN
ASSUME BoundsAssumption ==
  /\ MaxAttempts \in Nat \ {0}
  /\ MaxDepth \in Nat
  /\ MaxTransfers \in Nat
  /\ MaxCopies \in Nat \ {0}
  /\ MaxRetries \in Nat
  /\ MaxCrashes \in Nat
  /\ MaxLosses \in Nat

VARIABLES
  ticket,       \* the ticket's row
  transfers,    \* its Transfer rows, in the order they were created
  runs,         \* runs[t]: the ActionRun rows of transfer t, by seq
  messages,     \* waiting copies of each run_phase(transfer, phase) message
  workers,      \* what each worker is doing
  calls,        \* the runs whose n8n workflow was started and has yet to call back
  rulesBroken,  \* whether the field values break the rules of the transitions
  deletion,     \* the status deletion an administrator is in the middle of
  deleted,      \* the statuses deleted
  spent         \* how much of each bound is used up

vars == <<ticket, transfers, runs, messages, workers, calls, rulesBroken,
          deletion, deleted, spent>>

---------------------------------------------------------------------------
(* Rows *)

TransferStates == {"pending", "committed", "completed", "failed", "cancelled"}
Triggers == {"manual", "action", "system", "force"}

Ticket == [status : Statuses, waiting : BOOLEAN, version : Nat,
           resolved : BOOLEAN, resolutions : Nat]
Transfer == [state : TransferStates, trigger : Triggers, before : Statuses,
             after : Statuses, entered : BOOLEAN, depth : Nat]
\* `owner` is the worker whose claim made the run running, while that worker lives: no
\* column of the table, it says whose attempt the row records.
Run == [phase : Phases, action : Actions,
        state : {"queued", "running", "succeeded", "failed", "skipped"},
        attempt : Nat, awaiting : BOOLEAN, deferred : BOOLEAN,
        owner : Workers \union {NoWorker}]

IsOpen(t) == transfers[t].state \in {"pending", "committed"}
OpenIds == {t \in DOMAIN transfers : IsOpen(t)}

Latest == Len(transfers)

Linked(from, to) == <<from, to>> \in Links

\* Ticket.enter_status
EnterStatus(row, s) ==
  [row EXCEPT !.status = s,
              !.version = @ + 1,
              !.resolved = s \in CompletedStatuses,
              !.resolutions = IF s \in CompletedStatuses /\ ~row.resolved THEN @ + 1 ELSE @]

\* Updates the rows of `rs` in one of `states` to `skipped`.
Skip(rs, states) ==
  [i \in DOMAIN rs |->
     IF rs[i].state \in states
     THEN [rs[i] EXCEPT !.state = "skipped", !.awaiting = FALSE, !.owner = NoWorker]
     ELSE rs[i]]

---------------------------------------------------------------------------
(* Planning a move *)

NewRun(phase, action) ==
  [phase |-> phase, action |-> action, state |-> "queued",
   attempt |-> 0, awaiting |-> FALSE, deferred |-> FALSE, owner |-> NoWorker]

Planned(phase, actions) == [i \in 1..Len(actions) |-> NewRun(phase, actions[i])]

\* The runs of a move, in execution order: before, enter, after.
PlanRuns(from, to) ==
  LET moving(actions) == IF Linked(from, to) THEN actions[<<from, to>>] ELSE <<>>
  IN Planned("before", moving(BeforeActions))
       \o Planned("enter", EnterActions[to])
       \o Planned("after", moving(AfterActions))

HasPhase(rs, phase) == \E i \in 1..Len(rs) : rs[i].phase = phase

\* The open transfer's lock: `waiting_transform`, or the open row itself.
Transforming == ticket.waiting \/ OpenIds # {}

Resolves_FromTriage(target, trigger) ==
  /\ target.workflow = ticket.status.workflow
  /\ ~IsPipeline(target)
  /\ target # ticket.status
  /\ trigger = "force" \/ OpenPolicy \/ Linked(ticket.status, target)

\* resolve: whether the workflow lets `trigger` take the ticket to `target`.
Resolves(target, trigger) ==
  /\ target.workflow = ticket.status.workflow
  /\ ~IsTriage(ticket.status)
  /\ ~IsPipeline(target)
  /\ target # ticket.status
  /\ trigger = "force" \/ OpenPolicy \/ Linked(ticket.status, target)

\* broken_rules and check_transition_rules: a forced move and a move no transition
\* models have no rules to break.
Breaks(from, to, trigger) == trigger # "force" /\ <<from, to>> \in Ruled /\ rulesBroken

MayMove_Unlocked(target, trigger) ==
  /\ Latest < MaxTransfers
  /\ target \in Statuses \ deleted
  /\ Resolves(target, trigger)
  /\ ~Breaks(ticket.status, target, trigger)

MayMove_Deleted(target, trigger) ==
  /\ Latest < MaxTransfers
  /\ ~Transforming
  /\ target \in Statuses
  /\ Resolves(target, trigger)
  /\ ~Breaks(ticket.status, target, trigger)

\* request_move records nothing unless all of its checks pass under the ticket's lock.
MayMove(target, trigger) ==
  /\ Latest < MaxTransfers
  /\ ~Transforming
  /\ target \in Statuses \ deleted
  /\ Resolves(target, trigger)
  /\ ~Breaks(ticket.status, target, trigger)

\* schedule: the message is sent once the transaction has committed.
Sent(t, phase) ==
  [messages EXCEPT ![<<t, phase>>] = IF @ < MaxCopies THEN @ + 1 ELSE @]

\* record_move: a move with no `before` run commits at once, one with no run at all is
\* completed at once; any other locks the ticket and queues its first phase.
RecordMove(target, trigger, depth) ==
  LET planned == PlanRuns(ticket.status, target)
      direct == ~HasPhase(planned, "before")
      state == CASE planned = <<>> -> "completed"
                 [] planned # <<>> /\ direct -> "committed"
                 [] OTHER -> "pending"
  IN /\ transfers' = Append(transfers,
          [state |-> state, trigger |-> trigger, before |-> ticket.status,
           after |-> target, entered |-> direct, depth |-> depth])
     /\ runs' = Append(runs, planned)
     /\ ticket' = [(IF direct THEN EnterStatus(ticket, target) ELSE ticket)
                     EXCEPT !.waiting = planned # <<>>]
     /\ messages' = IF planned = <<>> THEN messages
                    ELSE Sent(Latest + 1, planned[1].phase)

---------------------------------------------------------------------------
(* Ending a move *)

\* close: ends open transfer t in `state`, skips its queued runs and unlocks the ticket.
\* A run still running keeps running.
Closed(t, state) == [transfers EXCEPT ![t].state = state]
Unqueued(t) == [runs EXCEPT ![t] = Skip(@, {"queued"})]
Unlocked == [ticket EXCEPT !.waiting = FALSE]

Close(t, state) ==
  /\ transfers' = Closed(t, state)
  /\ runs' = Unqueued(t)
  /\ ticket' = Unlocked

\* cancel_open: cancels the move in flight, its running runs included.
Cancelled_Pending == [t \in DOMAIN transfers |->
                        IF transfers[t].state = "pending"
                        THEN [transfers[t] EXCEPT !.state = "cancelled"] ELSE transfers[t]]

Cancelled == [t \in DOMAIN transfers |->
                IF IsOpen(t) THEN [transfers[t] EXCEPT !.state = "cancelled"] ELSE transfers[t]]
CancelledRuns == [t \in DOMAIN runs |->
                    IF IsOpen(t) THEN Skip(runs[t], {"queued", "running"}) ELSE runs[t]]
CancelledTicket == IF OpenIds = {} THEN ticket ELSE Unlocked

\* record_system_transfer, on the rows a cancellation may have changed first: the ticket is
\* in `target` at once, with no rules and no actions.
RecordSystemTransfer(row, moves, plans, target) ==
  /\ Latest < MaxTransfers
  /\ transfers' = Append(moves,
       [state |-> "completed", trigger |-> "system", before |-> row.status,
        after |-> target, entered |-> TRUE, depth |-> 0])
  /\ runs' = Append(plans, <<>>)
  /\ ticket' = EnterStatus(row, target)

\* system_move: the triage pipeline's move to one of its statuses.
SystemMove(key) ==
  LET target == StatusOf(key, ticket.status)
  IN /\ key \in PipelineKeys
     /\ \/ /\ target # ticket.status
           /\ RecordSystemTransfer(CancelledTicket, Cancelled, CancelledRuns, target)
        \/ /\ target = ticket.status
           /\ transfers' = Cancelled /\ runs' = CancelledRuns /\ ticket' = CancelledTicket
     /\ UNCHANGED <<messages, workers, calls, rulesBroken, deletion, deleted, spent>>

---------------------------------------------------------------------------
(* Moves people and automations ask for *)

\* move and automatic_move.  A version other than the one the person expects is refused,
\* which leaves nothing to model but what a version stands for: StatusIsAccountedFor.
RequestMove(target, trigger) ==
  /\ MayMove(target, trigger)
  /\ RecordMove(target, trigger, 0)
  /\ UNCHANGED <<workers, calls, rulesBroken, deletion, deleted, spent>>

\* change_workflow: into a status of another workflow, with no transition and no actions.
MayChangeWorkflow(target) ==
  /\ Latest < MaxTransfers
  /\ ~Transforming
  /\ ~IsTriage(ticket.status)
  /\ target \in Statuses \ deleted
  /\ target.workflow # ticket.status.workflow
  /\ ~IsPipeline(target)

ChangeWorkflow(target) ==
  /\ MayChangeWorkflow(target)
  /\ RecordSystemTransfer(ticket, transfers, runs, target)
  /\ UNCHANGED <<messages, workers, calls, rulesBroken, deletion, deleted, spent>>

\* destinations: a pipeline status goes to the same status of the other workflow, any other
\* status where the administrator's mapping (or its key) sends it.
IsDestination(from, to) ==
  /\ to \in Statuses \ deleted
  /\ to.workflow # from.workflow
  /\ IF IsPipeline(from) THEN to.key = from.key ELSE ~IsPipeline(to)

\* adopt_tickets, for this ticket: one whose move is in flight is skipped.
AdoptTicket(target) ==
  /\ ~Transforming
  /\ IsDestination(ticket.status, target)
  /\ RecordSystemTransfer(ticket, transfers, runs, target)
  /\ UNCHANGED <<messages, workers, calls, rulesBroken, deletion, deleted, spent>>

\* field_values.apply: nothing keeps a value from changing while a move waits.
EditFields ==
  /\ Ruled # {}
  /\ rulesBroken' = ~rulesBroken
  /\ UNCHANGED <<ticket, transfers, runs, messages, workers, calls, deletion, deleted, spent>>

---------------------------------------------------------------------------
(* A person's retry *)

Requeued_All(rs) ==
  [i \in DOMAIN rs |-> [rs[i] EXCEPT !.state = "queued", !.attempt = 0, !.awaiting = FALSE,
                                     !.owner = NoWorker]]

\* What retry makes of the runs of a failed transfer: all but the succeeded ones start over.
Requeued(rs) ==
  [i \in DOMAIN rs |->
     IF rs[i].state = "succeeded" THEN rs[i]
     ELSE [rs[i] EXCEPT !.state = "queued", !.attempt = 0, !.awaiting = FALSE,
                        !.owner = NoWorker]]

\* The status the ticket must still be at for its latest transfer to be retried.
ExpectedAt(t) == IF transfers[t].entered THEN transfers[t].after ELSE transfers[t].before

MayRetry ==
  /\ Latest > 0
  /\ transfers[Latest].state \in {"failed", "pending", "committed"}
  /\ ticket.status = ExpectedAt(Latest)

HasRunning(t) == \E i \in DOMAIN runs[t] : runs[t][i].state = "running"

FirstPhase(t) == IF transfers[t].entered THEN "enter" ELSE "before"

\* retry of a failed transfer: it is open again, and the ticket locked again.
RetryFailed ==
  /\ MayRetry /\ ~IsOpen(Latest)
  /\ spent.retries < MaxRetries
  /\ transfers' = [transfers EXCEPT ![Latest].state =
                     IF transfers[Latest].entered THEN "committed" ELSE "pending"]
  /\ runs' = [runs EXCEPT ![Latest] = Requeued(@)]
  /\ ticket' = [ticket EXCEPT !.waiting = TRUE]
  /\ messages' = Sent(Latest, FirstPhase(Latest))
  /\ spent' = [spent EXCEPT !.retries = @ + 1]
  /\ UNCHANGED <<workers, calls, rulesBroken, deletion, deleted>>

\* resume_stalled: an open transfer is only queued again, and not while a run is running.
RetryStalled ==
  /\ MayRetry /\ IsOpen(Latest) /\ ~HasRunning(Latest)
  /\ spent.retries < MaxRetries
  /\ messages' = Sent(Latest, FirstPhase(Latest))
  /\ spent' = [spent EXCEPT !.retries = @ + 1]
  /\ UNCHANGED <<ticket, transfers, runs, workers, calls, rulesBroken, deletion, deleted>>

---------------------------------------------------------------------------
(* Deleting a status (config.delete_status): three transactions *)

NoDeletion == [status |-> InitStatus, step |-> "none"]

\* No open transfer may leave or enter the status; tickets in it need somewhere to go.
CheckDeletion(s) ==
  /\ deletion = NoDeletion
  /\ s \in Deletable \ deleted
  /\ \A t \in OpenIds : s \notin {transfers[t].before, transfers[t].after}
  /\ deletion' = [status |-> s, step |-> IF ticket.status = s THEN "evacuate" ELSE "delete"]
  /\ UNCHANGED <<ticket, transfers, runs, messages, workers, calls, rulesBroken, deleted, spent>>

\* evacuate: moves the ticket on if it is still there, cancelling its move in flight.
Evacuate(to) ==
  /\ deletion.step = "evacuate"
  /\ to \in Statuses \ deleted
  /\ to.workflow = deletion.status.workflow /\ to # deletion.status /\ ~IsPipeline(to)
  /\ deletion' = [deletion EXCEPT !.step = "delete"]
  /\ IF ticket.status = deletion.status
     THEN RecordSystemTransfer(CancelledTicket, Cancelled, CancelledRuns, to)
     ELSE UNCHANGED <<ticket, transfers, runs>>
  /\ UNCHANGED <<messages, workers, calls, rulesBroken, deleted, spent>>

\* The row goes, unless a ticket's foreign key protects it.  Transfers that name it keep
\* no status there (SET_NULL).
DeleteStatus ==
  /\ deletion.step = "delete"
  /\ deleted' = IF ticket.status = deletion.status THEN deleted
                ELSE deleted \union {deletion.status}
  /\ deletion' = NoDeletion
  /\ UNCHANGED <<ticket, transfers, runs, messages, workers, calls, rulesBroken, spent>>

---------------------------------------------------------------------------
(* Workers: one run_phase task                                             *)
(*                                                                         *)
(* A task checks its transfer, reads the phase's runs once, claims and     *)
(* runs each one it saw queued, then advances the transfer.  `todo` and    *)
(* `then` are what it read: the runs left to claim, and what follows them; *)
(* `run` is the one it has claimed, for the `attempt` it made of it.       *)

Idle == [pc |-> "idle", job |-> <<0, "before">>, phase |-> "before", todo |-> {},
         then |-> "return", run |-> 0, attempt |-> 0, view |-> "open", outcome |-> "succeed"]

Worker == [pc : {"idle", "check", "read", "claim", "load", "handle", "finish", "fail",
                 "advance", "remaining", "finalize", "deferred"},
           job : ({0} \union TransferIds) \X Phases, phase : Phases, todo : SUBSET Nat,
           then : {"return", "fail", "advance"}, run : Nat, attempt : Nat,
           view : {"open", "closed", "there"},
           outcome : {"succeed", "defer", "retry", "fail", "await"}]

Task(w) == workers[w].job[1]
CurrentRun(w) == runs[Task(w)][workers[w].run]
IsFirst(i, S) == i \in S /\ \A j \in S : i <= j
Do(w, pc) == [workers EXCEPT ![w].pc = pc]
Return(w) == [workers EXCEPT ![w] = Idle]

\* What worker w does when `todo` is what is left of the phase it read, and `then` follows.
Continue(w, todo, then) ==
  LET pc == CASE todo # {} -> "claim"
              [] todo = {} /\ then = "return" -> "idle"
              [] todo = {} /\ then = "fail" -> "fail"
              [] OTHER -> IF workers[w].phase = "before" THEN "advance" ELSE "remaining"
  IN IF pc = "idle" THEN Return(w)
     ELSE [workers EXCEPT ![w] =
             [Idle EXCEPT !.pc = pc, !.job = workers[w].job, !.phase = workers[w].phase,
                          !.todo = todo, !.then = then]]

\* run_phase reads the transfer, and leaves one that is not where the phase expects it.
Expected(t, phase) ==
  transfers[t].state = IF phase = "before" THEN "pending" ELSE "committed"

\* A worker takes a message and reads the transfer.  The message is acknowledged when the
\* task ends (acks_late): a worker that dies gives it back.
Deliver(w, t, phase) ==
  /\ workers[w].pc = "idle"
  /\ messages[<<t, phase>>] > 0
  /\ messages' = [messages EXCEPT ![<<t, phase>>] = @ - 1]
  /\ workers' =
       IF Expected(t, phase)
       THEN [workers EXCEPT ![w] =
               [Idle EXCEPT !.pc = "read", !.job = <<t, phase>>, !.phase = phase]]
       ELSE workers
  /\ UNCHANGED <<ticket, transfers, runs, calls, rulesBroken, deletion, deleted, spent>>

\* The same, for a later phase of the same task.
Check(w) ==
  /\ workers[w].pc = "check"
  /\ workers' = IF Expected(Task(w), workers[w].phase) THEN Do(w, "read") ELSE Return(w)
  /\ UNCHANGED <<ticket, transfers, runs, messages, calls, rulesBroken, deletion, deleted, spent>>

\* The runs of a phase that end its loop: one running, or one failed before the move.
Stops(run) == run.state = "running" \/ (run.state = "failed" /\ run.phase = "before")

\* run_phase reads the phase's runs: it goes by the states it saw, whatever becomes of the rows.
ReadRuns(w) ==
  LET rs == runs[Task(w)]
      own == {i \in DOMAIN rs : rs[i].phase = workers[w].phase}
      stops == {i \in own : Stops(rs[i])}
      seen == {i \in own : rs[i].state = "queued" /\ \A j \in stops : i < j}
      running == \E i \in stops : IsFirst(i, stops) /\ rs[i].state = "running"
      then == CASE stops = {} -> "advance"
                [] stops # {} /\ running -> "return"
                [] OTHER -> "fail"
  IN /\ workers[w].pc = "read"
     /\ workers' = Continue(w, seen, then)
     /\ UNCHANGED <<ticket, transfers, runs, messages, calls, rulesBroken, deletion, deleted, spent>>

\* The conditional UPDATE takes a queued run only.
Claimable_Running(run) == run.state \in {"queued", "running"}

Claimable(run) == run.state = "queued"
Claimed(run, w) == [run EXCEPT !.state = "running", !.attempt = @ + 1, !.owner = w]
Claiming(w, i, run) ==
  [workers[w] EXCEPT !.pc = IF run.action.kind \in {"move", "change"} THEN "load" ELSE "handle",
                     !.run = i, !.attempt = run.attempt + 1, !.todo = @ \ {i}]

\* runner.execute claims the run with a conditional UPDATE, or leaves it to its owner.  Its
\* callback token is new: an answer to an earlier attempt no longer counts.
Claim(w) ==
  \E i \in workers[w].todo :
    LET t == Task(w)
        run == runs[t][i]
    IN /\ workers[w].pc = "claim"
       /\ IsFirst(i, workers[w].todo)
       /\ IF Claimable(run)
          THEN /\ runs' = [runs EXCEPT ![t][i] = Claimed(run, w)]
               /\ workers' = [workers EXCEPT ![w] = Claiming(w, i, run)]
               /\ calls' = calls \ {<<t, i>>}
          ELSE workers' = Return(w) /\ UNCHANGED <<runs, calls>>
       /\ UNCHANGED <<ticket, transfers, messages, rulesBroken, deletion, deleted, spent>>

\* Then it loads the run, its transfer and the ticket, without a lock.  Only the actions that
\* move the ticket look at them.
Load(w) ==
  LET action == CurrentRun(w).action
  IN /\ workers[w].pc = "load"
     /\ workers' = [workers EXCEPT ![w].pc = "handle", ![w].view =
                      CASE action.kind = "move" /\ ticket.status = action.to -> "there"
                        [] ~(action.kind = "move" /\ ticket.status = action.to)
                             /\ IsOpen(Task(w)) -> "open"
                        [] OTHER -> "closed"]
     /\ UNCHANGED <<ticket, transfers, runs, messages, calls, rulesBroken, deletion, deleted, spent>>

\* What runner.finish writes to the row of a run that is still running.
Written(run, outcome) ==
  CASE outcome \in {"succeed", "defer"} ->
         [run EXCEPT !.state = "succeeded", !.deferred = (outcome = "defer"), !.owner = NoWorker]
    [] outcome = "retry" -> [run EXCEPT !.state = "queued", !.owner = NoWorker]
    [] outcome = "fail" ->
         [run EXCEPT !.state = "failed", !.awaiting = FALSE, !.owner = NoWorker]
    [] OTHER -> [run EXCEPT !.awaiting = TRUE, !.owner = NoWorker]

\* finish: whether the run is still running is all it asks.  A run it may not write belongs
\* to another worker, and a run to retry is queued anew by a message of its own.
FinishWith(w, outcome) ==
  LET t == Task(w)
      writes == CurrentRun(w).state = "running"
  IN /\ runs' = IF writes
                THEN [runs EXCEPT ![t][workers[w].run] = Written(@, outcome)] ELSE runs
     /\ messages' = IF writes /\ outcome = "retry" THEN Sent(t, workers[w].phase) ELSE messages
     /\ workers' =
          CASE ~writes \/ outcome \in {"retry", "await"} -> Return(w)
            [] writes /\ outcome = "fail" /\ workers[w].phase = "before" ->
                 Continue(w, {}, "fail")
            [] OTHER -> Continue(w, workers[w].todo, workers[w].then)
     /\ UNCHANGED <<ticket, transfers, calls, rulesBroken, deletion, deleted, spent>>

\* A transient error is retried until the attempts run out.
Result(w, outcome) ==
  IF outcome = "retry" /\ workers[w].attempt >= MaxAttempts THEN "fail" ELSE outcome

Finishing(w, outcome) ==
  [workers EXCEPT ![w].pc = "finish", ![w].view = "open", ![w].outcome = Result(w, outcome)]

\* How a call that is not left waiting can end.
Outcomes(kind) ==
  CASE kind = "local" -> {"succeed", "fail"}
    [] kind = "webhook" -> {"succeed", "retry", "fail"}
    [] kind = "n8n" -> {"retry", "fail"}
    [] OTHER -> {}

\* A handler with an effect of its own, and what is made of its answer.
HandleEffect(w, outcome) ==
  /\ workers[w].pc = "handle"
  /\ outcome \in Outcomes(CurrentRun(w).action.kind)
  /\ FinishWith(w, Result(w, outcome))

\* Once n8n has taken the call it may answer at any time, before this worker has even noted
\* that the run waits.
HandleCall(w) ==
  /\ workers[w].pc = "handle"
  /\ CurrentRun(w).action.kind = "n8n"
  /\ workers' = Finishing(w, "await")
  /\ calls' = calls \union {<<Task(w), workers[w].run>>}
  /\ UNCHANGED <<ticket, transfers, runs, messages, rulesBroken, deletion, deleted, spent>>

MoveOutcome_Deep(w, to) ==
  CASE workers[w].view = "there" -> "succeed"
    [] workers[w].view = "open" -> "defer"
    [] OTHER -> CASE Transforming -> "retry"
                  [] ~Transforming /\ (MayMove(to, "action") \/ ticket.status = to) -> "succeed"
                  [] OTHER -> "fail"

\* MoveStatus: deferred while its own transfer is open, else a move of its own.
MoveOutcome(w, to) ==
  CASE transfers[Task(w)].depth + 1 > MaxDepth -> "fail"
    [] transfers[Task(w)].depth + 1 <= MaxDepth /\ workers[w].view = "there" -> "succeed"
    [] transfers[Task(w)].depth + 1 <= MaxDepth /\ workers[w].view = "open" -> "defer"
    [] OTHER -> CASE Transforming -> "retry"
                  [] ~Transforming /\ (MayMove(to, "action") \/ ticket.status = to) -> "succeed"
                  [] OTHER -> "fail"

HandleMove(w) ==
  LET to == CurrentRun(w).action.to
      outcome == MoveOutcome(w, to)
  IN /\ workers[w].pc = "handle"
     /\ CurrentRun(w).action.kind = "move"
     /\ workers' = Finishing(w, outcome)
     /\ IF outcome = "succeed" /\ workers[w].view = "closed" /\ MayMove(to, "action")
        THEN RecordMove(to, "action", transfers[Task(w)].depth + 1)
        ELSE UNCHANGED <<ticket, transfers, runs, messages>>
     /\ UNCHANGED <<calls, rulesBroken, deletion, deleted, spent>>

\* ChangeWorkflow, the same way.
HandleChange(w) ==
  LET to == CurrentRun(w).action.to
      outcome == CASE workers[w].view = "open" -> "defer"
                   [] workers[w].view # "open" /\ Transforming -> "retry"
                   [] workers[w].view # "open" /\ MayChangeWorkflow(to) -> "succeed"
                   [] OTHER -> "fail"
  IN /\ workers[w].pc = "handle"
     /\ CurrentRun(w).action.kind = "change"
     /\ workers' = Finishing(w, outcome)
     /\ IF outcome = "succeed"
        THEN RecordSystemTransfer(ticket, transfers, runs, to)
        ELSE UNCHANGED <<ticket, transfers, runs>>
     /\ UNCHANGED <<messages, calls, rulesBroken, deletion, deleted, spent>>

Finish(w) == workers[w].pc = "finish" /\ FinishWith(w, workers[w].outcome)

\* fail: a pending move never moves the ticket.
Fail(w) ==
  /\ workers[w].pc = "fail"
  /\ IF IsOpen(Task(w)) THEN Close(Task(w), "failed") ELSE UNCHANGED <<ticket, transfers, runs>>
  /\ workers' = Return(w)
  /\ UNCHANGED <<messages, calls, rulesBroken, deletion, deleted, spent>>

CommitResult_Unchecked(t) ==
  LET tr == transfers[t]
  IN CASE tr.state # "pending" -> IF tr.state = "committed" THEN "go on" ELSE "stop"
       [] tr.state = "pending" /\ ticket.status # tr.before -> "stale"
       [] OTHER -> IF tr.after \in deleted THEN "stop" ELSE "enter"

\* commit: what becomes of a transfer whose `before` runs are over.  A deleted target makes
\* it raise before it has changed anything.
CommitResult(t) ==
  LET tr == transfers[t]
  IN CASE tr.state # "pending" -> IF tr.state = "committed" THEN "go on" ELSE "stop"
       [] tr.state = "pending" /\ ticket.status # tr.before -> "stale"
       [] tr.state = "pending" /\ ticket.status = tr.before
            /\ Breaks(tr.before, tr.after, tr.trigger) -> "broken"
       [] OTHER -> IF tr.after \in deleted THEN "stop" ELSE "enter"

\* commit_locked
CommitLocked(t) ==
  /\ transfers' = [transfers EXCEPT ![t].state = "committed", ![t].entered = TRUE]
  /\ ticket' = EnterStatus(ticket, transfers[t].after)
  /\ UNCHANGED runs

Commit(w) ==
  LET t == Task(w)
      result == CommitResult(t)
  IN /\ workers[w].pc = "advance"
     /\ CASE result = "enter" -> CommitLocked(t)
          [] result = "stale" -> Close(t, "cancelled")
          [] result = "broken" -> Close(t, "failed")
          [] OTHER -> UNCHANGED <<ticket, transfers, runs>>
     /\ workers' = IF result \in {"enter", "go on"} THEN Do(w, "remaining") ELSE Return(w)
     /\ UNCHANGED <<messages, calls, rulesBroken, deletion, deleted, spent>>

\* advance: the first later phase with work left is run by the same task.
HasWork(t, phase) ==
  \E i \in DOMAIN runs[t] :
    runs[t][i].phase = phase /\ runs[t][i].state \notin {"succeeded", "skipped"}

Advance(w) ==
  LET t == Task(w)
      next == CASE workers[w].phase = "before" /\ HasWork(t, "enter") -> "enter"
                [] ~(workers[w].phase = "before" /\ HasWork(t, "enter"))
                     /\ workers[w].phase # "after" /\ HasWork(t, "after") -> "after"
                [] OTHER -> "none"
  IN /\ workers[w].pc = "remaining"
     /\ workers' = IF next = "none" THEN Do(w, "finalize")
                   ELSE [workers EXCEPT ![w].pc = "check", ![w].phase = next]
     /\ UNCHANGED <<ticket, transfers, runs, messages, calls, rulesBroken, deletion, deleted, spent>>

\* finalize: failed if a run failed, else completed, and then the moves its runs deferred.
HasFailed_First(t) == runs[t] # <<>> /\ runs[t][1].state = "failed"

HasFailed(t) == \E i \in DOMAIN runs[t] : runs[t][i].state = "failed"

DeferredRuns(t) ==
  {i \in DOMAIN runs[t] : runs[t][i].state = "succeeded" /\ runs[t][i].deferred}

Finalize(w) ==
  LET t == Task(w)
      completes == transfers[t].state = "committed" /\ ~HasFailed(t)
  IN /\ workers[w].pc = "finalize"
     /\ IF transfers[t].state = "committed"
        THEN Close(t, IF completes THEN "completed" ELSE "failed")
        ELSE UNCHANGED <<ticket, transfers, runs>>
     /\ workers' = IF completes /\ DeferredRuns(t) # {}
                   THEN [workers EXCEPT ![w].pc = "deferred", ![w].todo = DeferredRuns(t)]
                   ELSE Return(w)
     /\ UNCHANGED <<messages, calls, rulesBroken, deletion, deleted, spent>>

\* make_deferred: each in its own transaction; one that is refused is only audited.
MakeDeferred(w) ==
  \E i \in workers[w].todo :
    LET action == runs[Task(w)][i].action
    IN /\ workers[w].pc = "deferred"
       /\ IsFirst(i, workers[w].todo)
       /\ CASE action.kind = "move" /\ MayMove(action.to, "action") ->
                 RecordMove(action.to, "action", transfers[Task(w)].depth + 1)
            [] action.kind = "change" /\ MayChangeWorkflow(action.to) ->
                 RecordSystemTransfer(ticket, transfers, runs, action.to) /\ UNCHANGED messages
            [] OTHER -> UNCHANGED <<ticket, transfers, runs, messages>>
       /\ workers' = IF workers[w].todo = {i} THEN Return(w)
                     ELSE [workers EXCEPT ![w].todo = @ \ {i}]
       /\ UNCHANGED <<calls, rulesBroken, deletion, deleted, spent>>

---------------------------------------------------------------------------
(* Answers, time and failures *)

Failed(run) == [run EXCEPT !.state = "failed", !.awaiting = FALSE, !.owner = NoWorker]

\* complete_callback: n8n calls back, once.  An answer to a run that does not wait is refused.
Hears(run) == run.state = "running" /\ run.awaiting

Answer(t, i, success) ==
  LET run == runs[t][i]
  IN /\ <<t, i>> \in calls
     /\ calls' = calls \ {<<t, i>>}
     /\ IF Hears(run)
        THEN /\ runs' = [runs EXCEPT ![t][i] =
                           IF success THEN [run EXCEPT !.state = "succeeded", !.awaiting = FALSE,
                                                       !.owner = NoWorker]
                           ELSE Failed(run)]
             /\ messages' = Sent(t, run.phase)
        ELSE UNCHANGED <<runs, messages>>
     /\ UNCHANGED <<ticket, transfers, workers, rulesBroken, deletion, deleted, spent>>

Overdue_Awaiting(run) == run.state = "running" /\ run.awaiting

\* sweep, first part: a run past its wait, or running too long with nothing to wait for.
Overdue(run) ==
  /\ run.state = "running"
  /\ run.awaiting \/ run.owner = NoWorker \/ SlowWorkers

TimeOut(t, i) ==
  LET run == runs[t][i]
  IN /\ Overdue(run)
     /\ runs' = [runs EXCEPT ![t][i] = Failed(run)]
     /\ messages' = Sent(t, run.phase)
     /\ UNCHANGED <<ticket, transfers, workers, calls, rulesBroken, deletion, deleted, spent>>

\* sweep, second part: an open transfer with nothing running is queued again, and a ticket
\* left locked with no open transfer is unlocked.
Resume(t) ==
  /\ IsOpen(t) /\ ~HasRunning(t)
  /\ messages' = Sent(t, FirstPhase(t))
  /\ ticket' = [ticket EXCEPT !.waiting = @ /\ OpenIds # {}]
  /\ UNCHANGED <<transfers, runs, workers, calls, rulesBroken, deletion, deleted, spent>>

\* A worker dies between two transactions: its message is delivered again
\* (task_reject_on_worker_lost), its run stays running.
Crash(w) ==
  /\ workers[w].pc # "idle"
  /\ spent.crashes < MaxCrashes
  /\ workers' = Return(w)
  /\ runs' = [t \in DOMAIN runs |-> [i \in DOMAIN runs[t] |->
                IF runs[t][i].owner = w THEN [runs[t][i] EXCEPT !.owner = NoWorker]
                ELSE runs[t][i]]]
  /\ messages' = Sent(Task(w), workers[w].job[2])
  /\ spent' = [spent EXCEPT !.crashes = @ + 1]
  /\ UNCHANGED <<ticket, transfers, calls, rulesBroken, deletion, deleted>>

\* The sender dies between its commit and the send.
Lose(t, phase) ==
  /\ messages[<<t, phase>>] > 0
  /\ spent.losses < MaxLosses
  /\ messages' = [messages EXCEPT ![<<t, phase>>] = @ - 1]
  /\ spent' = [spent EXCEPT !.losses = @ + 1]
  /\ UNCHANGED <<ticket, transfers, runs, workers, calls, rulesBroken, deletion, deleted>>

---------------------------------------------------------------------------
(* The specification *)

Init ==
  /\ ticket = [status |-> InitStatus, waiting |-> FALSE, version |-> 0,
               resolved |-> InitStatus \in CompletedStatuses, resolutions |-> 0]
  /\ transfers = <<>>
  /\ runs = <<>>
  /\ messages = [m \in TransferIds \X Phases |-> 0]
  /\ workers = [w \in Workers |-> Idle]
  /\ calls = {}
  /\ rulesBroken = FALSE
  /\ deletion = NoDeletion
  /\ deleted = {}
  /\ spent = [retries |-> 0, crashes |-> 0, losses |-> 0]

\* The triage pipeline, people, automations and administrators.
Environment ==
  \/ \E key \in PipelineKeys : SystemMove(key)
  \/ \E s \in Statuses, trigger \in Triggers \ {"system"} : RequestMove(s, trigger)
  \/ \E s \in Statuses : ChangeWorkflow(s) \/ AdoptTicket(s)
  \/ EditFields
  \/ RetryFailed \/ RetryStalled
  \/ \E s \in Statuses : CheckDeletion(s) \/ Evacuate(s)
  \/ DeleteStatus

Work(w) ==
  \/ Check(w) \/ ReadRuns(w) \/ Claim(w) \/ Load(w)
  \/ \E outcome \in {"succeed", "retry", "fail"} : HandleEffect(w, outcome)
  \/ HandleCall(w) \/ HandleMove(w) \/ HandleChange(w)
  \/ Finish(w) \/ Fail(w) \/ Commit(w) \/ Advance(w) \/ Finalize(w) \/ MakeDeferred(w)

TakeMessage(w) == \E t \in DOMAIN transfers, phase \in Phases : Deliver(w, t, phase)

Sweep ==
  \/ \E t \in DOMAIN runs : \E i \in DOMAIN runs[t] : TimeOut(t, i)
  \/ \E t \in DOMAIN transfers : Resume(t)

External ==
  \/ \E t \in DOMAIN runs : \E i \in DOMAIN runs[t], success \in BOOLEAN : Answer(t, i, success)
  \/ \E w \in Workers : Crash(w)
  \/ \E t \in DOMAIN transfers, phase \in Phases : Lose(t, phase)

Next ==
  \/ Environment
  \/ \E w \in Workers : TakeMessage(w) \/ Work(w)
  \/ Sweep
  \/ External

Spec == Init /\ [][Next]_vars

\* Workers keep working and taking messages, and celery beat keeps running the watchdog.
Fairness ==
  /\ \A w \in Workers : WF_vars(Work(w)) /\ WF_vars(TakeMessage(w))
  /\ WF_vars(\E t \in DOMAIN runs : \E i \in DOMAIN runs[t] : TimeOut(t, i))
  /\ WF_vars(\E t \in DOMAIN transfers : Resume(t))

FairSpec == Spec /\ Fairness

---------------------------------------------------------------------------
(* Properties *)

TypeOK ==
  /\ ticket \in Ticket
  /\ transfers \in Seq(Transfer)
  /\ Len(transfers) <= MaxTransfers
  /\ runs \in Seq(Seq(Run))
  /\ Len(runs) = Len(transfers)
  /\ messages \in [TransferIds \X Phases -> 0..MaxCopies]
  /\ workers \in [Workers -> Worker]
  /\ calls \subseteq TransferIds \X Nat
  /\ rulesBroken \in BOOLEAN
  /\ deletion \in [status : Statuses, step : {"none", "evacuate", "delete"}]
  /\ deleted \subseteq Deletable
  /\ spent \in [retries : 0..MaxRetries, crashes : 0..MaxCrashes, losses : 0..MaxLosses]

\* At most one move is in flight, it is the ticket's latest, and the ticket is locked exactly
\* while there is one.
LockedWhileOpen ==
  /\ ticket.waiting = (OpenIds # {})
  /\ OpenIds \subseteq {Latest}

\* The ticket of a move in flight is where that move left it: at its start while the move
\* is pending, at its target once committed.  (So commit never meets a stale transfer.)
OpenMoveHoldsTicket ==
  \A t \in OpenIds :
    ticket.status = IF transfers[t].state = "committed"
                    THEN transfers[t].after ELSE transfers[t].before

\* A ticket that belongs to triage or its requester has no move in flight: no worker, retry
\* or deferred move may bring it away (ADR-0028 section 2, TRIAGE_STATUSES).
TriageIsUndisturbed == IsTriage(ticket.status) => OpenIds = {}

\* uq_one_open_transfer_per_ticket never has to refuse anything and no commit is stale,
\* whoever retries, resumes, cancels or finishes a move, or takes the ticket back for triage.
MovesHoldTheTicket == LockedWhileOpen /\ OpenMoveHoldsTicket /\ TriageIsUndisturbed

\* Every change of status is accounted for, at whatever moment a queued move commits: it makes
\* a new version (so `expected_version` tells a person's stale view), and one into a pipeline
\* status or out of triage is the pipeline's own (or a whole workflow's adoption).
StatusIsAccountedFor ==
  [][ticket'.status # ticket.status =>
       /\ ticket'.version > ticket.version
       /\ IsPipeline(ticket'.status) \/ IsTriage(ticket.status) =>
            transfers'[Len(transfers')].trigger = "system" /\ Len(transfers') = Latest + 1]_vars

\* A move of the workflow never lands while the transition's rules are broken, though the
\* values may change between the request and the commit (the rules are checked again).
RulesHoldOnEntry ==
  [][\A t \in DOMAIN transfers' :
       /\ t \in DOMAIN transfers => ~transfers[t].entered
       /\ transfers'[t].entered
       /\ transfers'[t].trigger \in {"manual", "action"}
       /\ <<transfers'[t].before, transfers'[t].after>> \in Ruled
       => ~rulesBroken]_vars

\* What is finished stays finished, though workers finish late, callbacks and timeouts come
\* and people retry: a cancelled move with each of its runs (ADR-0028, "Amended 2026-10-15"),
\* and a succeeded run, which "is never re-executed" (ADR-0028 section 4).
FinishedStays ==
  [][\A t \in DOMAIN transfers :
       /\ transfers[t].state = "cancelled" => transfers'[t] = transfers[t] /\ runs'[t] = runs[t]
       /\ \A i \in DOMAIN runs[t] :
            runs[t][i].state = "succeeded" => runs'[t][i] = runs[t][i]]_vars

\* Automations that move the ticket on and on stop: no chain of moves is longer than
\* max_chain_depth, through deferred moves as well as direct ones.
ChainsAreBounded == \A t \in DOMAIN transfers : transfers[t].depth <= MaxDepth

\* Without a person's retry, a move is recorded as completed only when every one of its runs
\* succeeded: duplicate phase messages, crashes and timeouts never make the engine drop one.
CompletedRanEverything ==
  \A t \in DOMAIN transfers :
    transfers[t].state = "completed" =>
      \A i \in DOMAIN runs[t] : runs[t][i].state = "succeeded"

\* A ticket is never left at a status that no longer exists, though a status is checked,
\* evacuated and deleted in separate transactions while tickets move.
TicketHasAStatus == ticket.status \notin deleted

\* Every move in flight ends: lost messages, dead workers and silent callbacks are all
\* caught by the watchdog, so no ticket stays locked.
EveryMoveEnds == \A t \in TransferIds : t \in OpenIds ~> t \notin OpenIds

\* The engine, with its workers, messages, retries and failures, keeps what TicketMoves
\* promises of a ticket: the move in flight is the open transfer.
OpenMoves == {[to |-> transfers[t].after, entered |-> transfers[t].entered] : t \in OpenIds}

Moves == INSTANCE TicketMoves WITH status <- ticket.status, moves <- OpenMoves

MovesAsPromised == Moves!Spec

\* A worker ends a run whose attempt on record is not the one it claimed.
Trespasses(w) ==
  /\ workers[w].pc \in {"handle", "finish"} /\ Work(w)
  /\ runs'[Task(w)][workers[w].run] # CurrentRun(w)
  /\ CurrentRun(w).owner # w

\* finish "returns OWNED when the run was cancelled or finished elsewhere meanwhile": a
\* worker writes only the attempt it claimed, until a person retries.
OnlyTheOwnerWrites == [][spent.retries = 0 => \A w \in Workers : ~Trespasses(w)]_vars
=============================================================================
