-------------------------- MODULE LifecycleProofs --------------------------
(***************************************************************************)
(* Proofs about Lifecycle, for every workflow and every value of the       *)
(* bounds.                                                                 *)
(*                                                                         *)
(* TypeInv adds to TypeOK what a worker in a task relies on: its transfer  *)
(* exists, and so do the runs it noted.  It is inductive.  Safe then adds  *)
(* what the engine does to the transfers; MovesAreSafe shows it inductive  *)
(* and the theorems on the ticket follow from it.  MoveStep says all that  *)
(* a step may do to the ticket, its transfers and their runs; the step     *)
(* properties and the refinement of TicketMoves follow from it and Safe.   *)
(* Owned, Over and Chains add what a run says of its worker, of its        *)
(* transfer and of the moves that are still to come.  InOrder adds how far *)
(* the phases of a move have come wherever a worker or a message is.       *)
(***************************************************************************)
EXTENDS Lifecycle, SequenceTheorems, TLAPS

(* Rows *)

\* The tables of the ticket are well typed: one sequence of runs per transfer.
RowsOK ==
  /\ ticket \in Ticket
  /\ transfers \in Seq(Transfer)
  /\ Len(transfers) <= MaxTransfers
  /\ runs \in Seq(Seq(Run))
  /\ Len(runs) = Len(transfers)

\* Rows are added, never removed.
Grow ==
  /\ Len(transfers) <= Len(transfers')
  /\ \A t \in DOMAIN runs : DOMAIN runs[t] = DOMAIN runs'[t]

\* A worker in a task has a transfer, and the runs it noted are that transfer's.
TaskOK(w) ==
  workers[w].pc # "idle" =>
    /\ Task(w) \in DOMAIN transfers
    /\ workers[w].todo \subseteq DOMAIN runs[Task(w)]
    /\ workers[w].pc \in {"load", "handle", "finish"} => workers[w].run \in DOMAIN runs[Task(w)]

\* Only a status that may go is being deleted.
DeletionOK == deletion.step # "none" => deletion.status \in Deletable

TypeInv ==
  /\ TypeOK
  /\ \A w \in Workers : TaskOK(w)
  /\ DeletionOK

\* A ticket stays a ticket, wherever it goes.
LEMMA EnterStatusType ==
  ASSUME NEW row \in Ticket, NEW s \in Statuses
  PROVE  /\ EnterStatus(row, s) \in Ticket
         /\ EnterStatus(row, s).status = s
         /\ EnterStatus(row, s).waiting = row.waiting
         /\ EnterStatus(row, s).version = row.version + 1
<1> DEFINE r == s \in CompletedStatuses
           n == IF s \in CompletedStatuses /\ ~row.resolved
                THEN row.resolutions + 1 ELSE row.resolutions
           v == row.version + 1
<1>1. r \in BOOLEAN /\ n \in Nat /\ v \in Nat
  BY DEF Ticket
<1> DEFINE new == [row EXCEPT !.status = s, !.version = v, !.resolved = r, !.resolutions = n]
<1>2. new \in Ticket /\ new.status = s /\ new.waiting = row.waiting /\ new.version = v
  <2> HIDE DEF r, n, v
  <2> QED
    BY <1>1 DEF Ticket
<1>3. EnterStatus(row, s) = new
  BY DEF EnterStatus
<1> QED
  BY <1>2, <1>3, Zenon

LEMMA WaitingType ==
  ASSUME NEW row \in Ticket, NEW b \in BOOLEAN
  PROVE  /\ [row EXCEPT !.waiting = b] \in Ticket
         /\ [row EXCEPT !.waiting = b].status = row.status
         /\ [row EXCEPT !.waiting = b].waiting = b
         /\ [row EXCEPT !.waiting = b].version = row.version
BY DEF Ticket

\* A run stays a run in whatever state the engine puts it.
LEMMA RunFields ==
  ASSUME NEW run \in Run, NEW s \in {"queued", "running", "succeeded", "failed", "skipped"},
         NEW n \in Nat, NEW a \in BOOLEAN, NEW d \in BOOLEAN, NEW o \in Workers \union {NoWorker}
  PROVE  [run EXCEPT !.state = s, !.attempt = n, !.awaiting = a, !.deferred = d, !.owner = o] \in Run
BY DEF Run

\* A function on the indexes of a sequence is a sequence.
LEMMA SeqOf ==
  ASSUME NEW S, NEW n \in Nat, NEW f \in [1..n -> S]
  PROVE  f \in Seq(S) /\ Len(f) = n /\ DOMAIN f = 1..n
BY SeqDef

LEMMA SkipType ==
  ASSUME NEW rs \in Seq(Run), NEW states
  PROVE  Skip(rs, states) \in Seq(Run) /\ DOMAIN Skip(rs, states) = DOMAIN rs
<1>1. DOMAIN rs = 1..Len(rs) /\ Len(rs) \in Nat /\ \A i \in 1..Len(rs) : rs[i] \in Run
  BY LenProperties, ElementOfSeq
<1>2. Skip(rs, states) \in [1..Len(rs) -> Run]
  BY <1>1 DEF Skip, Run
<1> QED
  BY <1>1, <1>2, SeqOf

LEMMA RequeuedType ==
  ASSUME NEW rs \in Seq(Run)
  PROVE  Requeued(rs) \in Seq(Run) /\ DOMAIN Requeued(rs) = DOMAIN rs
<1>1. DOMAIN rs = 1..Len(rs) /\ Len(rs) \in Nat /\ \A i \in 1..Len(rs) : rs[i] \in Run
  BY LenProperties, ElementOfSeq
<1>2. Requeued(rs) \in [1..Len(rs) -> Run]
  BY <1>1 DEF Requeued, Run
<1> QED
  BY <1>1, <1>2, SeqOf

LEMMA PlannedType ==
  ASSUME NEW phase \in Phases, NEW actions \in Seq(Actions)
  PROVE  Planned(phase, actions) \in Seq(Run)
<1>1. Len(actions) \in Nat /\ \A i \in 1..Len(actions) : actions[i] \in Actions
  BY LenProperties, ElementOfSeq
<1>2. Planned(phase, actions) \in [1..Len(actions) -> Run]
  BY <1>1 DEF Planned, NewRun, Run
<1> QED
  BY <1>1, <1>2, SeqOf

\* Whatever the workflow, a move plans a sequence of runs.
LEMMA PlanRunsType ==
  ASSUME NEW from \in Statuses, NEW to \in Statuses
  PROVE  PlanRuns(from, to) \in Seq(Run)
<1> DEFINE moving(actions) == IF Linked(from, to) THEN actions[<<from, to>>] ELSE <<>>
<1>1. moving(BeforeActions) \in Seq(Actions) /\ moving(AfterActions) \in Seq(Actions)
  BY ActionsAssumption, EmptySeq DEF Linked
<1>2. EnterActions[to] \in Seq(Actions)
  BY ActionsAssumption
<1>3. /\ Planned("before", moving(BeforeActions)) \in Seq(Run)
      /\ Planned("enter", EnterActions[to]) \in Seq(Run)
      /\ Planned("after", moving(AfterActions)) \in Seq(Run)
  BY <1>1, <1>2, PlannedType DEF Phases
<1> QED
  BY <1>3, ConcatProperties DEF PlanRuns

\* Changing one run of one transfer.
LEMMA RunUpdate ==
  ASSUME RowsOK, NEW t \in DOMAIN runs, NEW i \in DOMAIN runs[t], NEW run \in Run,
         runs' = [runs EXCEPT ![t][i] = run], UNCHANGED <<ticket, transfers>>
  PROVE  RowsOK' /\ Grow
<1>1. t \in 1..Len(runs) /\ runs[t] \in Seq(Run)
  BY LenProperties, ElementOfSeq DEF RowsOK
<1>2. i \in 1..Len(runs[t])
  BY <1>1, LenProperties
<1> DEFINE rs == [runs[t] EXCEPT ![i] = run]
<1>3. rs \in Seq(Run) /\ DOMAIN rs = DOMAIN runs[t]
  BY <1>1, <1>2, ExceptSeq
<1>4. runs' = [runs EXCEPT ![t] = rs]
  OBVIOUS
<1>5. runs' \in Seq(Seq(Run)) /\ Len(runs') = Len(runs)
  BY <1>1, <1>3, <1>4, ExceptSeq DEF RowsOK
<1>6. \A u \in DOMAIN runs : DOMAIN runs[u] = DOMAIN runs'[u]
  BY <1>3, <1>4
<1> QED
  BY <1>5, <1>6, LenProperties DEF RowsOK, Grow

\* Changing every run of one transfer, or of every transfer.
LEMMA RunsUpdate ==
  ASSUME RowsOK, NEW t \in DOMAIN runs, NEW rs \in Seq(Run), DOMAIN rs = DOMAIN runs[t]
  PROVE  /\ [runs EXCEPT ![t] = rs] \in Seq(Seq(Run))
         /\ Len([runs EXCEPT ![t] = rs]) = Len(runs)
         /\ \A u \in DOMAIN runs : DOMAIN [runs EXCEPT ![t] = rs][u] = DOMAIN runs[u]
<1>1. t \in 1..Len(runs)
  BY LenProperties DEF RowsOK
<1> QED
  BY <1>1, ExceptSeq DEF RowsOK

LEMMA TransferUpdate ==
  ASSUME RowsOK, NEW t \in DOMAIN transfers, NEW state \in TransferStates, NEW entered \in BOOLEAN
  PROVE  LET new == [transfers EXCEPT ![t].state = state, ![t].entered = entered]
             ended == [transfers EXCEPT ![t].state = state]
         IN /\ new \in Seq(Transfer) /\ Len(new) = Len(transfers)
            /\ ended \in Seq(Transfer) /\ Len(ended) = Len(transfers)
<1> DEFINE tr == [transfers[t] EXCEPT !.state = state, !.entered = entered]
           end == [transfers[t] EXCEPT !.state = state]
<1>1. t \in 1..Len(transfers) /\ transfers[t] \in Transfer
  BY LenProperties, ElementOfSeq DEF RowsOK
<1>2. tr \in Transfer /\ end \in Transfer
  BY <1>1 DEF Transfer
<1>3. /\ [transfers EXCEPT ![t].state = state, ![t].entered = entered] = [transfers EXCEPT ![t] = tr]
      /\ [transfers EXCEPT ![t].state = state] = [transfers EXCEPT ![t] = end]
  BY <1>1, LenProperties DEF RowsOK
<1> QED
  BY <1>1, <1>2, <1>3, ExceptSeq DEF RowsOK

\* Adding a transfer and its runs, which may have changed others first.
LEMMA RowsAppended ==
  ASSUME RowsOK, Latest < MaxTransfers,
         NEW moves \in Seq(Transfer), Len(moves) = Len(transfers),
         NEW plans \in Seq(Seq(Run)), Len(plans) = Len(runs),
         \A t \in DOMAIN runs : DOMAIN plans[t] = DOMAIN runs[t],
         NEW tr \in Transfer, NEW rs \in Seq(Run),
         transfers' = Append(moves, tr), runs' = Append(plans, rs), ticket' \in Ticket
  PROVE  RowsOK' /\ Grow
<1>1. /\ transfers' \in Seq(Transfer) /\ Len(transfers') = Len(transfers) + 1
      /\ runs' \in Seq(Seq(Run)) /\ Len(runs') = Len(runs) + 1
      /\ \A t \in 1..Len(runs) : runs'[t] = plans[t]
  BY AppendProperties
<1>2. Len(transfers) \in Nat /\ DOMAIN runs = 1..Len(runs)
  BY LenProperties DEF RowsOK
<1>3. RowsOK'
  BY <1>1, <1>2, BoundsAssumption DEF RowsOK, Latest
<1>4. Grow
  BY <1>1, <1>2 DEF Grow
<1> QED
  BY <1>3, <1>4

LEMMA RecordMoveRows ==
  ASSUME RowsOK, NEW target, NEW trigger \in Triggers, NEW depth \in Nat,
         MayMove(target, trigger), RecordMove(target, trigger, depth)
  PROVE  RowsOK' /\ Grow
<1> DEFINE planned == PlanRuns(ticket.status, target)
           direct == ~HasPhase(planned, "before")
           state == CASE planned = <<>> -> "completed"
                      [] planned # <<>> /\ direct -> "committed"
                      [] OTHER -> "pending"
           tr == [state |-> state, trigger |-> trigger, before |-> ticket.status,
                  after |-> target, entered |-> direct, depth |-> depth]
<1>1. target \in Statuses /\ Latest < MaxTransfers /\ ticket.status \in Statuses
  BY DEF MayMove, RowsOK, Ticket
<1>2. planned \in Seq(Run)
  BY <1>1, PlanRunsType
<1>3. transfers' = Append(transfers, tr) /\ runs' = Append(runs, planned)
  BY DEF RecordMove
<1>4. tr \in Transfer
  <2>1. state \in TransferStates /\ direct \in BOOLEAN
    BY DEF TransferStates
  <2> HIDE DEF state, direct
  <2> QED
    BY <1>1, <2>1 DEF Transfer
<1>5. ticket' \in Ticket
  <2>1. EnterStatus(ticket, target) \in Ticket /\ ticket \in Ticket
    BY <1>1, EnterStatusType DEF RowsOK
  <2>2. (IF direct THEN EnterStatus(ticket, target) ELSE ticket) \in Ticket
    BY <2>1
  <2>3. PICK row \in Ticket : ticket' = [row EXCEPT !.waiting = planned # <<>>]
    BY <2>2 DEF RecordMove
  <2>4. (planned # <<>>) \in BOOLEAN
    OBVIOUS
  <2> QED
    BY <2>3, <2>4, WaitingType
<1> HIDE DEF planned, tr
<1> QED
  BY <1>1, <1>2, <1>3, <1>4, <1>5, RowsAppended DEF RowsOK

LEMMA SystemTransferRows ==
  ASSUME RowsOK, NEW row \in Ticket, NEW target \in Statuses,
         NEW moves \in Seq(Transfer), Len(moves) = Len(transfers),
         NEW plans \in Seq(Seq(Run)), Len(plans) = Len(runs),
         \A t \in DOMAIN runs : DOMAIN plans[t] = DOMAIN runs[t],
         RecordSystemTransfer(row, moves, plans, target)
  PROVE  RowsOK' /\ Grow
<1> DEFINE tr == [state |-> "completed", trigger |-> "system", before |-> row.status,
                  after |-> target, entered |-> TRUE, depth |-> 0]
<1>1. tr \in Transfer
  BY DEF Transfer, Triggers, TransferStates, Ticket
<1>2. transfers' = Append(moves, tr) /\ runs' = Append(plans, <<>>) /\ Latest < MaxTransfers
  BY DEF RecordSystemTransfer
<1>3. ticket' \in Ticket
  BY EnterStatusType DEF RecordSystemTransfer
<1>4. <<>> \in Seq(Run)
  BY EmptySeq
<1> HIDE DEF tr
<1> QED
  BY <1>1, <1>2, <1>3, <1>4, RowsAppended

LEMMA KeptRows ==
  ASSUME RowsOK
  PROVE  /\ ticket \in Ticket
         /\ transfers \in Seq(Transfer)
         /\ runs \in Seq(Seq(Run))
         /\ ticket.status \in Statuses
         /\ Len(transfers) \in Nat
         /\ DOMAIN runs = 1..Len(transfers)
         /\ DOMAIN transfers = 1..Len(transfers)
         /\ \A t \in DOMAIN runs : runs[t] \in Seq(Run)
         /\ \A t \in DOMAIN transfers : transfers[t] \in Transfer
         /\ Len(transfers) <= MaxTransfers
BY LenProperties, ElementOfSeq DEF RowsOK, Ticket

LEMMA CancelledRows ==
  ASSUME RowsOK
  PROVE  /\ Cancelled \in Seq(Transfer) /\ Len(Cancelled) = Len(transfers)
         /\ CancelledRuns \in Seq(Seq(Run)) /\ Len(CancelledRuns) = Len(runs)
         /\ \A t \in DOMAIN runs : DOMAIN CancelledRuns[t] = DOMAIN runs[t]
         /\ CancelledTicket \in Ticket
<1>1. Cancelled \in [1..Len(transfers) -> Transfer]
  BY KeptRows DEF Cancelled, Transfer, TransferStates
<1>2. \A t \in DOMAIN runs : /\ CancelledRuns[t] \in Seq(Run)
                             /\ DOMAIN CancelledRuns[t] = DOMAIN runs[t]
  BY KeptRows, SkipType DEF CancelledRuns
<1>3. CancelledRuns \in [1..Len(transfers) -> Seq(Run)]
  BY <1>2, KeptRows DEF CancelledRuns
<1>4. CancelledTicket \in Ticket
  BY KeptRows, WaitingType DEF CancelledTicket, Unlocked
<1> QED
  BY <1>1, <1>2, <1>3, <1>4, KeptRows, SeqOf DEF RowsOK

\* close, commit and retry rewrite one transfer.
LEMMA CloseRows ==
  ASSUME RowsOK, NEW t \in DOMAIN transfers, NEW state \in TransferStates, Close(t, state)
  PROVE  RowsOK' /\ Grow
<1>1. transfers' \in Seq(Transfer) /\ Len(transfers') = Len(transfers)
  BY TransferUpdate DEF Close, Closed
<1>2. /\ runs' \in Seq(Seq(Run)) /\ Len(runs') = Len(runs)
      /\ \A u \in DOMAIN runs : DOMAIN runs'[u] = DOMAIN runs[u]
  BY KeptRows, SkipType, RunsUpdate DEF Close, Unqueued
<1>3. ticket' \in Ticket
  BY KeptRows, WaitingType DEF Close, Unlocked
<1> QED
  BY <1>1, <1>2, <1>3, KeptRows DEF RowsOK, Grow

LEMMA CommitRows ==
  ASSUME RowsOK, NEW t \in DOMAIN transfers, CommitLocked(t)
  PROVE  RowsOK' /\ Grow
<1>1. transfers' \in Seq(Transfer) /\ Len(transfers') = Len(transfers)
  BY TransferUpdate DEF CommitLocked, TransferStates
<1>2. ticket' \in Ticket
  BY KeptRows, EnterStatusType DEF CommitLocked, Transfer
<1> QED
  BY <1>1, <1>2, KeptRows DEF RowsOK, Grow, CommitLocked

LEMMA RetryRows ==
  ASSUME RowsOK, RetryFailed
  PROVE  RowsOK' /\ Grow
<1>1. Latest \in DOMAIN transfers
  BY KeptRows DEF RetryFailed, MayRetry, Latest
<1>2. transfers' \in Seq(Transfer) /\ Len(transfers') = Len(transfers)
  BY <1>1, TransferUpdate DEF RetryFailed, TransferStates
<1>3. /\ runs' \in Seq(Seq(Run)) /\ Len(runs') = Len(runs)
      /\ \A u \in DOMAIN runs : DOMAIN runs'[u] = DOMAIN runs[u]
  BY <1>1, KeptRows, RequeuedType, RunsUpdate DEF RetryFailed
<1>4. ticket' \in Ticket
  BY KeptRows, WaitingType DEF RetryFailed
<1> QED
  BY <1>2, <1>3, <1>4, KeptRows DEF RowsOK, Grow

---------------------------------------------------------------------------
(* Workers *)

\* What TaskOK asks of a worker's record.
Tasked(k) ==
  k.pc # "idle" =>
    /\ k.job[1] \in DOMAIN transfers
    /\ k.todo \subseteq DOMAIN runs[k.job[1]]
    /\ k.pc \in {"load", "handle", "finish"} => k.run \in DOMAIN runs[k.job[1]]

WorkersOK == workers \in [Workers -> Worker] /\ \A w \in Workers : TaskOK(w)

LEMMA TypeInvRows == ASSUME TypeInv PROVE RowsOK /\ WorkersOK
BY DEF TypeInv, TypeOK, RowsOK, WorkersOK

\* Rows that grow leave every task as well off as it was.
LEMMA TasksGrow ==
  ASSUME RowsOK, RowsOK', Grow, NEW k, Tasked(k)
  PROVE  /\ k.pc # "idle" =>
              /\ k.job[1] \in DOMAIN transfers'
              /\ k.todo \subseteq DOMAIN runs'[k.job[1]]
              /\ k.pc \in {"load", "handle", "finish"} => k.run \in DOMAIN runs'[k.job[1]]
<1>1. DOMAIN transfers = 1..Len(transfers) /\ DOMAIN runs = 1..Len(transfers) /\ Len(transfers) \in Nat
  BY KeptRows
<1>2. transfers' \in Seq(Transfer)
  BY DEF RowsOK
<1>3. DOMAIN transfers' = 1..Len(transfers') /\ Len(transfers') \in Nat
  BY <1>2, LenProperties
<1> QED
  BY <1>1, <1>3 DEF Tasked, Grow

LEMMA WorkersKept ==
  ASSUME RowsOK, WorkersOK, RowsOK', Grow, UNCHANGED workers
  PROVE  WorkersOK'
<1>1. \A w \in Workers : Tasked(workers[w])
  BY DEF WorkersOK, TaskOK, Tasked, Task
<1>2. ASSUME NEW w \in Workers PROVE TaskOK(w)'
  BY <1>1, TasksGrow DEF TaskOK, Task
<1> QED
  BY <1>2 DEF WorkersOK

LEMMA WorkersStep ==
  ASSUME RowsOK, WorkersOK, RowsOK', Grow, NEW w \in Workers, NEW k \in Worker,
         workers' = [workers EXCEPT ![w] = k], Tasked(k)
  PROVE  WorkersOK'
<1>1. workers' \in [Workers -> Worker]
  BY DEF WorkersOK
<1>2. \A v \in Workers : Tasked(workers'[v])
  BY DEF WorkersOK, TaskOK, Tasked, Task
<1>3. ASSUME NEW v \in Workers PROVE TaskOK(v)'
  BY <1>2, TasksGrow DEF TaskOK, Task
<1> QED
  BY <1>1, <1>3 DEF WorkersOK

LEMMA IdleType == Idle \in Worker /\ Tasked(Idle)
BY DEF Idle, Worker, Tasked, Phases

LEMMA WorkersReturn ==
  ASSUME RowsOK, WorkersOK, RowsOK', Grow, NEW w \in Workers, workers' = Return(w)
  PROVE  WorkersOK'
<1> HIDE DEF Idle
<1> QED
  BY IdleType, WorkersStep DEF Return

LEMMA WorkersContinue ==
  ASSUME RowsOK, WorkersOK, RowsOK', Grow, NEW w \in Workers, workers[w].pc # "idle",
         NEW todo \in SUBSET DOMAIN runs[Task(w)], NEW then \in {"return", "fail", "advance"},
         workers' = Continue(w, todo, then)
  PROVE  WorkersOK'
<1> DEFINE pc == CASE todo # {} -> "claim"
                   [] todo = {} /\ then = "return" -> "idle"
                   [] todo = {} /\ then = "fail" -> "fail"
                   [] OTHER -> IF workers[w].phase = "before" THEN "advance" ELSE "remaining"
           k == [Idle EXCEPT !.pc = pc, !.job = workers[w].job, !.phase = workers[w].phase,
                             !.todo = todo, !.then = then]
<1>1. pc \in {"claim", "idle", "fail", "advance", "remaining"}
  OBVIOUS
<1>2. CASE pc = "idle"
  BY <1>2, WorkersReturn DEF Continue
<1>3. CASE pc # "idle"
  <2>1. workers' = [workers EXCEPT ![w] = k]
    BY <1>3 DEF Continue
  <2>2. workers[w] \in Worker /\ Task(w) \in DOMAIN transfers
    BY DEF WorkersOK, TaskOK
  <2>3. todo \subseteq Nat
    BY <2>2, KeptRows, LenProperties
  <2> HIDE DEF pc
  <2>4. k \in Worker
    BY <1>1, <2>2, <2>3, IdleType DEF Worker
  <2>5. Tasked(k)
    BY <1>1, <2>2, IdleType DEF Tasked, Worker, Task
  <2> HIDE DEF k
  <2> QED
    BY <2>1, <2>4, <2>5, WorkersStep
<1> QED
  BY <1>2, <1>3

---------------------------------------------------------------------------
(* Type correctness: one step per action *)

RestOK ==
  /\ messages \in [TransferIds \X Phases -> 0..MaxCopies]
  /\ calls \subseteq TransferIds \X Nat
  /\ rulesBroken \in BOOLEAN
  /\ deletion \in [status : Statuses, step : {"none", "evacuate", "delete"}]
  /\ deleted \subseteq Deletable
  /\ spent \in [retries : 0..MaxRetries, crashes : 0..MaxCrashes, losses : 0..MaxLosses]
  /\ DeletionOK

LEMMA TypeInvParts == TypeInv <=> RowsOK /\ WorkersOK /\ RestOK
BY DEF TypeInv, TypeOK, RowsOK, WorkersOK, RestOK, DeletionOK

LEMMA TypeInvNext == TypeInv' <=> RowsOK' /\ WorkersOK' /\ RestOK'
BY DEF TypeInv, TypeOK, RowsOK, WorkersOK, RestOK, DeletionOK

LEMMA SentType ==
  ASSUME RestOK, NEW t, NEW phase
  PROVE  Sent(t, phase) \in [TransferIds \X Phases -> 0..MaxCopies]
<1> DEFINE n == messages[<<t, phase>>]
           sent == IF n < MaxCopies THEN n + 1 ELSE n
<1>1. Sent(t, phase) = [messages EXCEPT ![<<t, phase>>] = sent]
  BY DEF Sent
<1>2. <<t, phase>> \in TransferIds \X Phases => sent \in 0..MaxCopies
  BY BoundsAssumption DEF RestOK, DeletionOK
<1> HIDE DEF sent
<1> QED
  BY <1>1, <1>2 DEF RestOK, DeletionOK

\* The run a worker has claimed.
LEMMA ClaimedRun ==
  ASSUME RowsOK, WorkersOK, NEW w \in Workers, workers[w].pc \in {"load", "handle", "finish"}
  PROVE  /\ Task(w) \in DOMAIN transfers /\ Task(w) \in DOMAIN runs /\ Task(w) \in TransferIds
         /\ workers[w].run \in DOMAIN runs[Task(w)] /\ workers[w].run \in Nat
         /\ CurrentRun(w) \in Run
         /\ workers[w] \in Worker
         /\ workers[w].todo \in SUBSET DOMAIN runs[Task(w)]
<1>1. TaskOK(w) /\ workers[w] \in Worker
  BY DEF WorkersOK
<1>2. runs[Task(w)] \in Seq(Run) /\ Task(w) \in DOMAIN runs /\ Task(w) \in TransferIds
  BY <1>1, KeptRows, BoundsAssumption DEF TaskOK, TransferIds
<1> QED
  BY <1>1, <1>2, LenProperties, ElementOfSeq DEF TaskOK, CurrentRun, Worker

LEMMA WrittenType ==
  ASSUME NEW run \in Run, NEW outcome \in {"succeed", "defer", "retry", "fail", "await"}
  PROVE  Written(run, outcome) \in Run
<1> DEFINE deferred == outcome = "defer"
<1>1. deferred \in BOOLEAN
  OBVIOUS
<1>2. [run EXCEPT !.state = "succeeded", !.deferred = deferred, !.owner = NoWorker] \in Run
  <2> HIDE DEF deferred
  <2> QED
    BY <1>1 DEF Run
<1>3. /\ [run EXCEPT !.state = "queued", !.owner = NoWorker] \in Run
      /\ [run EXCEPT !.state = "failed", !.awaiting = FALSE, !.owner = NoWorker] \in Run
      /\ [run EXCEPT !.awaiting = TRUE, !.owner = NoWorker] \in Run
  BY DEF Run
<1> QED
  BY <1>2, <1>3 DEF Written

LEMMA ClaimedType ==
  ASSUME NEW run \in Run, NEW w \in Workers
  PROVE  Claimed(run, w) \in Run
<1> DEFINE n == run.attempt + 1
<1>1. n \in Nat
  BY DEF Run
<1>2. Claimed(run, w) = [run EXCEPT !.state = "running", !.attempt = n, !.owner = w]
  BY DEF Claimed
<1> HIDE DEF n
<1> QED
  BY <1>1, <1>2 DEF Run

LEMMA ResultType ==
  ASSUME NEW w, NEW outcome \in {"succeed", "defer", "retry", "fail", "await"}
  PROVE  Result(w, outcome) \in {"succeed", "defer", "retry", "fail", "await"}
BY DEF Result

LEMMA FinishWithType ==
  ASSUME TypeInv, NEW w \in Workers, workers[w].pc \in {"handle", "finish"},
         NEW outcome \in {"succeed", "defer", "retry", "fail", "await"}, FinishWith(w, outcome)
  PROVE  TypeInv'
<1>1. RowsOK /\ WorkersOK /\ RestOK
  BY TypeInvParts
<1> DEFINE t == Task(w)
           i == workers[w].run
           run == Written(runs[t][i], outcome)
           writes == CurrentRun(w).state = "running"
<1>2. t \in DOMAIN runs /\ i \in DOMAIN runs[t] /\ runs[t][i] \in Run /\ workers[w] \in Worker
  BY <1>1, ClaimedRun DEF CurrentRun
<1>3. UNCHANGED <<ticket, transfers>>
  BY DEF FinishWith
<1>4. RowsOK' /\ Grow
  <2>1. CASE writes
    <3>1. run \in Run
      BY <1>2, WrittenType
    <3>2. runs' = [runs EXCEPT ![t][i] = run]
      BY <2>1, <1>2 DEF FinishWith
    <3> HIDE DEF run
    <3> QED
      BY <1>1, <1>2, <1>3, <3>1, <3>2, RunUpdate
  <2>2. CASE ~writes
    <3>1. UNCHANGED runs
      BY <2>2 DEF FinishWith
    <3> QED
      BY <1>1, <1>3, <3>1, KeptRows DEF RowsOK, Grow
  <2> QED
    BY <2>1, <2>2
<1>5. WorkersOK'
  <2>1. /\ {} \in SUBSET DOMAIN runs[t]
        /\ workers[w].todo \in SUBSET DOMAIN runs[t]
        /\ workers[w].then \in {"return", "fail", "advance"}
    BY <1>1, ClaimedRun DEF Worker
  <2>2. \/ workers' = Return(w)
        \/ workers' = Continue(w, {}, "fail")
        \/ workers' = Continue(w, workers[w].todo, workers[w].then)
    BY DEF FinishWith
  <2> QED
    BY <1>1, <1>4, <2>1, <2>2, WorkersReturn, WorkersContinue
<1>6. RestOK'
  BY <1>1, SentType DEF FinishWith, RestOK, DeletionOK
<1> QED
  BY <1>4, <1>5, <1>6, TypeInvNext

\* Actions that leave the rows alone.
LEMMA SameRows ==
  ASSUME RowsOK, UNCHANGED <<ticket, transfers, runs>>
  PROVE  RowsOK' /\ Grow
BY KeptRows DEF RowsOK, Grow

\* What the pipeline, people, automations and administrators do: rows of the ticket change,
\* the workers do not notice.
LEMMA EnvironmentType == ASSUME TypeInv, Environment PROVE TypeInv'
<1>1. RowsOK /\ WorkersOK /\ RestOK
  BY TypeInvParts
<1>2. ASSUME RowsOK' /\ Grow, UNCHANGED workers, RestOK' PROVE TypeInv'
  BY <1>1, <1>2, WorkersKept, TypeInvNext
<1>3. ASSUME NEW target \in Statuses,
             RecordSystemTransfer(CancelledTicket, Cancelled, CancelledRuns, target)
      PROVE  RowsOK' /\ Grow
  BY <1>1, <1>3, CancelledRows, SystemTransferRows
<1>4. ASSUME NEW target \in Statuses, RecordSystemTransfer(ticket, transfers, runs, target)
      PROVE  RowsOK' /\ Grow
  BY <1>1, <1>4, KeptRows, SystemTransferRows
<1>5. ASSUME NEW key \in PipelineKeys, SystemMove(key) PROVE TypeInv'
  <2>1. StatusOf(key, ticket.status) \in Statuses
    BY <1>1, KeptRows, StatusesAssumption
  <2>2. ASSUME transfers' = Cancelled, runs' = CancelledRuns, ticket' = CancelledTicket
        PROVE  RowsOK' /\ Grow
    BY <1>1, <2>2, CancelledRows, KeptRows DEF RowsOK, Grow
  <2>3. RowsOK' /\ Grow
    BY <1>3, <1>5, <2>1, <2>2 DEF SystemMove
  <2> QED
    BY <1>1, <1>2, <1>5, <2>3 DEF SystemMove, RestOK, DeletionOK
<1>6. ASSUME NEW s \in Statuses, NEW trigger \in Triggers \ {"system"}, RequestMove(s, trigger)
      PROVE  TypeInv'
  <2>1. RowsOK' /\ Grow
    BY <1>1, <1>6, RecordMoveRows DEF RequestMove
  <2>2. messages' \in [TransferIds \X Phases -> 0..MaxCopies]
    BY <1>1, <1>6, SentType DEF RequestMove, RecordMove, RestOK, DeletionOK
  <2> QED
    BY <1>1, <1>2, <1>6, <2>1, <2>2 DEF RequestMove, RestOK, DeletionOK
<1>7. ASSUME NEW s \in Statuses, ChangeWorkflow(s) \/ AdoptTicket(s) PROVE TypeInv'
  BY <1>1, <1>2, <1>4, <1>7 DEF ChangeWorkflow, AdoptTicket, RestOK, DeletionOK
<1>8. CASE EditFields
  BY <1>1, <1>2, <1>8, SameRows DEF EditFields, RestOK, DeletionOK
<1>9. CASE RetryFailed
  <2>1. spent' \in [retries : 0..MaxRetries, crashes : 0..MaxCrashes, losses : 0..MaxLosses]
    BY <1>1, <1>9, BoundsAssumption DEF RetryFailed, RestOK, DeletionOK
  <2>2. messages' \in [TransferIds \X Phases -> 0..MaxCopies]
    BY <1>1, <1>9, SentType DEF RetryFailed
  <2> QED
    BY <1>1, <1>2, <1>9, <2>1, <2>2, RetryRows DEF RetryFailed, RestOK, DeletionOK
<1>10. CASE RetryStalled
  <2>1. spent' \in [retries : 0..MaxRetries, crashes : 0..MaxCrashes, losses : 0..MaxLosses]
    BY <1>1, <1>10, BoundsAssumption DEF RetryStalled, RestOK, DeletionOK
  <2>2. messages' \in [TransferIds \X Phases -> 0..MaxCopies]
    BY <1>1, <1>10, SentType DEF RetryStalled
  <2> QED
    BY <1>1, <1>2, <1>10, <2>1, <2>2, SameRows DEF RetryStalled, RestOK, DeletionOK
<1>11. ASSUME NEW s \in Statuses, CheckDeletion(s) PROVE TypeInv'
  BY <1>1, <1>2, <1>11, SameRows DEF CheckDeletion, RestOK, DeletionOK
<1>12. ASSUME NEW to \in Statuses, Evacuate(to) PROVE TypeInv'
  <2>1. RowsOK' /\ Grow
    BY <1>1, <1>3, <1>12, SameRows DEF Evacuate
  <2> QED
    BY <1>1, <1>2, <1>12, <2>1 DEF Evacuate, RestOK, DeletionOK
<1>13. CASE DeleteStatus
  BY <1>1, <1>2, <1>13, SameRows, StatusesAssumption DEF DeleteStatus, RestOK, DeletionOK, NoDeletion
<1> QED
  BY <1>5, <1>6, <1>7, <1>8, <1>9, <1>10, <1>11, <1>12, <1>13 DEF Environment

\* A worker's record whose task, notes and run stay, or shrink.
LEMMA KeptTask ==
  ASSUME RowsOK, WorkersOK, NEW w \in Workers, workers[w].pc # "idle"
  PROVE  /\ workers[w] \in Worker
         /\ Task(w) = workers[w].job[1]
         /\ Task(w) \in DOMAIN transfers /\ Task(w) \in DOMAIN runs
         /\ workers[w].todo \in SUBSET DOMAIN runs[Task(w)]
         /\ runs[Task(w)] \in Seq(Run)
         /\ DOMAIN runs[Task(w)] \subseteq Nat
         /\ \A i \in DOMAIN runs[Task(w)] : runs[Task(w)][i] \in Run
         /\ transfers[Task(w)] \in Transfer
<1>1. workers[w] \in Worker /\ TaskOK(w)
  BY DEF WorkersOK
<1>2. Task(w) \in DOMAIN runs /\ runs[Task(w)] \in Seq(Run) /\ transfers[Task(w)] \in Transfer
  BY <1>1, KeptRows DEF TaskOK
<1> QED
  BY <1>1, <1>2, LenProperties, ElementOfSeq DEF TaskOK, Task

LEMMA WorkType == ASSUME TypeInv, NEW w \in Workers, Work(w) PROVE TypeInv'
<1>1. RowsOK /\ WorkersOK /\ RestOK
  BY TypeInvParts
<1>w. workers[w].pc # "idle"
  BY DEF Work, Check, ReadRuns, Claim, Load, HandleEffect, HandleCall, HandleMove, HandleChange,
         Finish, Fail, Commit, Advance, Finalize, MakeDeferred
<1>t. /\ workers[w] \in Worker
      /\ Task(w) = workers[w].job[1]
      /\ Task(w) \in DOMAIN transfers /\ Task(w) \in DOMAIN runs
      /\ workers[w].todo \in SUBSET DOMAIN runs[Task(w)]
      /\ runs[Task(w)] \in Seq(Run)
      /\ DOMAIN runs[Task(w)] \subseteq Nat
      /\ \A i \in DOMAIN runs[Task(w)] : runs[Task(w)][i] \in Run
      /\ transfers[Task(w)] \in Transfer
  BY <1>1, <1>w, KeptTask
<1>k. Tasked(workers[w])
  BY <1>1 DEF WorkersOK, TaskOK, Tasked, Task
<1>2. ASSUME NEW pc \in {"read", "remaining", "finalize"}, workers[w].pc # "idle",
             RowsOK' /\ Grow, workers' = Do(w, pc)
      PROVE  WorkersOK'
  <2> DEFINE k == [workers[w] EXCEPT !.pc = pc]
  <2>1. k \in Worker /\ Tasked(k)
    BY <1>1, <1>2, <1>t, <1>k DEF Worker, Tasked
  <2>2. workers' = [workers EXCEPT ![w] = k]
    BY <1>2 DEF Do
  <2> HIDE DEF k
  <2> QED
    BY <1>1, <1>2, <2>1, <2>2, WorkersStep
<1>3. CASE Check(w)
  <2>1. WorkersOK'
    BY <1>1, <1>2, <1>3, SameRows, WorkersReturn DEF Check
  <2> QED
    BY <1>1, <1>3, <2>1, SameRows, TypeInvNext DEF Check, RestOK, DeletionOK
<1>4. CASE ReadRuns(w)
  <2> DEFINE rs == runs[Task(w)]
             own == {i \in DOMAIN rs : rs[i].phase = workers[w].phase}
             stops == {i \in own : Stops(rs[i])}
             seen == {i \in own : rs[i].state = "queued" /\ \A j \in stops : i < j}
             running == \E i \in stops : IsFirst(i, stops) /\ rs[i].state = "running"
             then == CASE stops = {} -> "advance"
                       [] stops # {} /\ running -> "return"
                       [] OTHER -> "fail"
  <2>1. seen \in SUBSET DOMAIN runs[Task(w)] /\ then \in {"return", "fail", "advance"}
    OBVIOUS
  <2>2. workers' = Continue(w, seen, then) /\ workers[w].pc # "idle"
    BY <1>4 DEF ReadRuns
  <2>3. RowsOK' /\ Grow
    BY <1>1, <1>4, SameRows DEF ReadRuns
  <2> HIDE DEF seen, then
  <2>4. WorkersOK'
    BY <1>1, <2>1, <2>2, <2>3, WorkersContinue
  <2> QED
    BY <1>1, <1>4, <2>3, <2>4, TypeInvNext DEF ReadRuns, RestOK, DeletionOK
<1>5. CASE Claim(w)
  <2>1. PICK i \in workers[w].todo : Claim(w)!(i)
    BY <1>5 DEF Claim
  <2>2. workers[w].pc = "claim"
    BY <2>1
  <2>3. CASE ~Claimable(runs[Task(w)][i])
    <3>1. workers' = Return(w) /\ RowsOK' /\ Grow
      BY <1>1, <2>1, <2>3, SameRows
    <3> QED
      BY <1>1, <2>1, <2>3, <3>1, WorkersReturn, TypeInvNext DEF RestOK, DeletionOK
  <2>4. CASE Claimable(runs[Task(w)][i])
    <3> DEFINE t == Task(w)
               run == runs[t][i]
               k == Claiming(w, i, run)
    <3>1. t \in DOMAIN runs /\ i \in DOMAIN runs[t] /\ i \in Nat /\ run \in Run
      BY <1>t
    <3>2. Claimed(run, w) \in Run
      BY <3>1, ClaimedType
    <3>3. runs' = [runs EXCEPT ![t][i] = Claimed(run, w)] /\ UNCHANGED <<ticket, transfers>>
      BY <2>1, <2>4
    <3>4. workers' = [workers EXCEPT ![w] = k]
      BY <2>1, <2>4
    <3>6. k \in Worker /\ Tasked(k)
      <4>1. /\ k.pc \in {"load", "handle"} /\ k.run = i /\ k.todo = workers[w].todo \ {i}
            /\ k.job = workers[w].job /\ k \in Worker
        <5> DEFINE n == run.attempt + 1
                   pc == IF run.action.kind \in {"move", "change"} THEN "load" ELSE "handle"
        <5>1. n \in Nat /\ pc \in {"load", "handle"}
          BY <3>1 DEF Run
        <5>2. k = [workers[w] EXCEPT !.pc = pc, !.run = i, !.attempt = n, !.todo = @ \ {i}]
          BY DEF Claiming
        <5> HIDE DEF n, pc, k
        <5> QED
          BY <1>t, <3>1, <5>1, <5>2 DEF Worker
      <4> HIDE DEF k
      <4> QED
        BY <1>t, <3>1, <4>1 DEF Tasked
    <3>7. RowsOK' /\ Grow
      BY <1>1, <3>1, <3>2, <3>3, RunUpdate
    <3>8. WorkersOK'
      <4> HIDE DEF k
      <4> QED
        BY <1>1, <3>4, <3>6, <3>7, WorkersStep
    <3>9. RestOK'
      BY <1>1, <2>1, <2>4 DEF RestOK, DeletionOK
    <3> QED
      BY <3>7, <3>8, <3>9, TypeInvNext
  <2> QED
    BY <2>3, <2>4
<1>6. CASE Load(w)
  <2>1. PICK view \in {"there", "open", "closed"} :
          workers' = [workers EXCEPT ![w].pc = "handle", ![w].view = view]
    BY <1>6 DEF Load
  <2> DEFINE k == [workers[w] EXCEPT !.pc = "handle", !.view = view]
  <2>2. workers[w].pc = "load"
    BY <1>6 DEF Load
  <2>3. k \in Worker /\ Tasked(k)
    BY <1>1, <2>2, <1>t, <1>k DEF Worker, Tasked
  <2>4. workers' = [workers EXCEPT ![w] = k]
    BY <2>1
  <2>5. RowsOK' /\ Grow
    BY <1>1, <1>6, SameRows DEF Load
  <2> HIDE DEF k
  <2>6. WorkersOK'
    BY <1>1, <2>3, <2>4, <2>5, WorkersStep
  <2> QED
    BY <1>1, <1>6, <2>5, <2>6, TypeInvNext DEF Load, RestOK, DeletionOK
<1>7. ASSUME NEW outcome \in {"succeed", "retry", "fail"}, HandleEffect(w, outcome)
      PROVE  TypeInv'
  <2>1. Result(w, outcome) \in {"succeed", "defer", "retry", "fail", "await"}
    BY ResultType
  <2> QED
    BY <1>7, <2>1, FinishWithType DEF HandleEffect
<1>8. CASE Finish(w)
  <2>1. workers[w].pc = "finish" /\ FinishWith(w, workers[w].outcome)
    BY <1>8 DEF Finish
  <2>2. workers[w].outcome \in {"succeed", "defer", "retry", "fail", "await"}
    BY <1>1 DEF WorkersOK, Worker
  <2> QED
    BY <2>1, <2>2, FinishWithType
<1>9. ASSUME NEW outcome \in {"succeed", "defer", "retry", "fail", "await"},
             workers[w].pc = "handle", RowsOK' /\ Grow, workers' = Finishing(w, outcome)
      PROVE  WorkersOK'
  <2> DEFINE k == [workers[w] EXCEPT !.pc = "finish", !.view = "open",
                                     !.outcome = Result(w, outcome)]
  <2>1. k \in Worker /\ Tasked(k)
    BY <1>1, <1>9, ClaimedRun, <1>t, <1>k, ResultType DEF Worker, Tasked
  <2>2. workers' = [workers EXCEPT ![w] = k]
    BY <1>9 DEF Finishing
  <2> HIDE DEF k
  <2> QED
    BY <1>1, <1>9, <2>1, <2>2, WorkersStep
<1>10. CASE HandleCall(w)
  <2>1. RowsOK' /\ Grow
    BY <1>1, <1>10, SameRows DEF HandleCall
  <2>2. WorkersOK'
    BY <1>9, <1>10, <2>1 DEF HandleCall
  <2>3. calls' \subseteq TransferIds \X Nat
    <3>1. Task(w) \in TransferIds /\ workers[w].run \in Nat
      BY <1>1, <1>10, ClaimedRun DEF HandleCall
    <3> QED
      BY <1>1, <1>10, <3>1 DEF HandleCall, RestOK
  <2> QED
    BY <1>1, <1>10, <2>1, <2>2, <2>3, TypeInvNext DEF HandleCall, RestOK, DeletionOK
<1>11. ASSUME NEW to, workers[w].pc # "idle", MayMove(to, "action"),
              RecordMove(to, "action", transfers[Task(w)].depth + 1)
       PROVE  /\ RowsOK' /\ Grow
              /\ messages' \in [TransferIds \X Phases -> 0..MaxCopies]
  <2>1. transfers[Task(w)].depth + 1 \in Nat
    BY <1>1, <1>11, <1>t, <1>k DEF Transfer
  <2>2. RowsOK' /\ Grow
    BY <1>1, <1>11, <2>1, RecordMoveRows DEF Triggers
  <2> QED
    BY <1>1, <1>11, <2>2, SentType DEF RecordMove, RestOK
<1>12. CASE HandleMove(w)
  <2> DEFINE to == CurrentRun(w).action.to
             outcome == MoveOutcome(w, to)
  <2>1. outcome \in {"succeed", "defer", "retry", "fail", "await"}
    BY DEF MoveOutcome
  <2>2. workers[w].pc = "handle"
    BY <1>12 DEF HandleMove
  <2>3. RowsOK' /\ Grow /\ messages' \in [TransferIds \X Phases -> 0..MaxCopies]
    <3>1. CASE outcome = "succeed" /\ workers[w].view = "closed" /\ MayMove(to, "action")
      BY <1>11, <1>12, <2>2, <3>1 DEF HandleMove
    <3>2. CASE ~(outcome = "succeed" /\ workers[w].view = "closed" /\ MayMove(to, "action"))
      BY <1>1, <1>12, <3>2, SameRows DEF HandleMove, RestOK
    <3> QED
      BY <3>1, <3>2
  <2>4. workers' = Finishing(w, outcome)
    BY <1>12 DEF HandleMove
  <2> HIDE DEF outcome
  <2>5. WorkersOK'
    BY <1>9, <2>1, <2>2, <2>3, <2>4
  <2> QED
    BY <1>1, <1>12, <2>3, <2>5, TypeInvNext DEF HandleMove, RestOK, DeletionOK
<1>13. CASE HandleChange(w)
  <2> DEFINE to == CurrentRun(w).action.to
             outcome == CASE workers[w].view = "open" -> "defer"
                          [] workers[w].view # "open" /\ Transforming -> "retry"
                          [] workers[w].view # "open" /\ MayChangeWorkflow(to) -> "succeed"
                          [] OTHER -> "fail"
  <2>1. outcome \in {"succeed", "defer", "retry", "fail", "await"}
    OBVIOUS
  <2>2. workers[w].pc = "handle" /\ workers' = Finishing(w, outcome)
    BY <1>13 DEF HandleChange
  <2>3. RowsOK' /\ Grow
    <3>1. CASE outcome = "succeed"
      <4>1. to \in Statuses
        BY <3>1 DEF MayChangeWorkflow, Transforming
      <4>2. RecordSystemTransfer(ticket, transfers, runs, to)
        BY <1>13, <3>1 DEF HandleChange
      <4> QED
        BY <1>1, <4>1, <4>2, KeptRows, SystemTransferRows
    <3>2. CASE outcome # "succeed"
      BY <1>1, <1>13, <3>2, SameRows DEF HandleChange
    <3> QED
      BY <3>1, <3>2
  <2> HIDE DEF outcome
  <2>4. WorkersOK'
    BY <1>9, <2>1, <2>2, <2>3
  <2> QED
    BY <1>1, <1>13, <2>3, <2>4, TypeInvNext DEF HandleChange, RestOK, DeletionOK
<1>14. CASE Fail(w)
  <2>1. workers[w].pc # "idle"
    BY <1>14 DEF Fail
  <2>2. RowsOK' /\ Grow
    BY <1>1, <1>14, <2>1, <1>t, CloseRows, SameRows DEF Fail, TransferStates
  <2> QED
    BY <1>1, <1>14, <2>2, WorkersReturn, TypeInvNext DEF Fail, RestOK, DeletionOK
<1>15. CASE Commit(w)
  <2>1. workers[w].pc # "idle"
    BY <1>15 DEF Commit
  <2>2. RowsOK' /\ Grow
    <3>1. \/ CommitLocked(Task(w))
          \/ Close(Task(w), "cancelled")
          \/ Close(Task(w), "failed")
          \/ UNCHANGED <<ticket, transfers, runs>>
      BY <1>15 DEF Commit
    <3> QED
      BY <1>1, <2>1, <3>1, <1>t, CloseRows, CommitRows, SameRows DEF TransferStates
  <2>3. WorkersOK'
    BY <1>1, <1>2, <1>15, <2>1, <2>2, WorkersReturn DEF Commit
  <2> QED
    BY <1>1, <1>15, <2>2, <2>3, TypeInvNext DEF Commit, RestOK, DeletionOK
<1>16. CASE Advance(w)
  <2>1. RowsOK' /\ Grow
    BY <1>1, <1>16, SameRows DEF Advance
  <2>2. WorkersOK'
    <3>1. workers[w].pc = "remaining"
      BY <1>16 DEF Advance
    <3>2. CASE workers' = Do(w, "finalize")
      BY <1>2, <2>1, <3>1, <3>2
    <3>3. CASE workers' # Do(w, "finalize")
      <4>1. PICK phase \in Phases :
              workers' = [workers EXCEPT ![w].pc = "check", ![w].phase = phase]
        BY <1>16, <3>3 DEF Advance, Phases
      <4> DEFINE k == [workers[w] EXCEPT !.pc = "check", !.phase = phase]
      <4>2. k \in Worker /\ Tasked(k)
        BY <1>1, <3>1, <1>t, <1>k DEF Worker, Tasked
      <4>3. workers' = [workers EXCEPT ![w] = k]
        BY <4>1
      <4> HIDE DEF k
      <4> QED
        BY <1>1, <2>1, <4>2, <4>3, WorkersStep
    <3> QED
      BY <3>2, <3>3
  <2> QED
    BY <1>1, <1>16, <2>1, <2>2, TypeInvNext DEF Advance, RestOK, DeletionOK
<1>17. CASE Finalize(w)
  <2>1. workers[w].pc = "finalize"
    BY <1>17 DEF Finalize
  <2>2. RowsOK' /\ Grow
    <3>1. \/ Close(Task(w), "completed")
          \/ Close(Task(w), "failed")
          \/ UNCHANGED <<ticket, transfers, runs>>
      BY <1>17 DEF Finalize
    <3> QED
      BY <1>1, <2>1, <3>1, <1>t, CloseRows, SameRows DEF TransferStates
  <2>3. WorkersOK'
    <3>1. CASE workers' = Return(w)
      BY <1>1, <2>2, <3>1, WorkersReturn
    <3>2. CASE workers' # Return(w)
      <4> DEFINE k == [workers[w] EXCEPT !.pc = "deferred", !.todo = DeferredRuns(Task(w))]
      <4>1. DeferredRuns(Task(w)) \subseteq DOMAIN runs[Task(w)]
        BY DEF DeferredRuns
      <4>2. k \in Worker /\ Tasked(k)
        BY <1>1, <2>1, <4>1, <1>t, <1>k DEF Worker, Tasked
      <4>3. workers' = [workers EXCEPT ![w] = k]
        BY <1>17, <3>2 DEF Finalize
      <4> HIDE DEF k
      <4> QED
        BY <1>1, <2>2, <4>2, <4>3, WorkersStep
    <3> QED
      BY <3>1, <3>2
  <2> QED
    BY <1>1, <1>17, <2>2, <2>3, TypeInvNext DEF Finalize, RestOK, DeletionOK
<1>18. CASE MakeDeferred(w)
  <2>1. PICK i \in workers[w].todo : MakeDeferred(w)!(i)
    BY <1>18 DEF MakeDeferred
  <2> DEFINE action == runs[Task(w)][i].action
  <2>2. workers[w].pc = "deferred"
    BY <2>1
  <2>3. \/ MayMove(action.to, "action") /\ RecordMove(action.to, "action", transfers[Task(w)].depth + 1)
        \/ /\ MayChangeWorkflow(action.to)
           /\ RecordSystemTransfer(ticket, transfers, runs, action.to)
           /\ UNCHANGED messages
        \/ UNCHANGED <<ticket, transfers, runs, messages>>
    BY <2>1
  <2>4. RowsOK' /\ Grow /\ messages' \in [TransferIds \X Phases -> 0..MaxCopies]
    <3>1. MayChangeWorkflow(action.to) => action.to \in Statuses
      BY DEF MayChangeWorkflow
    <3> QED
      BY <1>1, <1>11, <2>2, <2>3, <3>1, KeptRows, SystemTransferRows, SameRows DEF RestOK
  <2>5. WorkersOK'
    <3>1. CASE workers' = Return(w)
      BY <1>1, <2>4, <3>1, WorkersReturn
    <3>2. CASE workers' # Return(w)
      <4> DEFINE k == [workers[w] EXCEPT !.todo = @ \ {i}]
      <4>1. k \in Worker /\ Tasked(k)
        BY <1>1, <2>2, <1>t, <1>k DEF Worker, Tasked
      <4>2. workers' = [workers EXCEPT ![w] = k]
        BY <2>1, <3>2
      <4> HIDE DEF k
      <4> QED
        BY <1>1, <2>4, <4>1, <4>2, WorkersStep
    <3> QED
      BY <3>1, <3>2
  <2> QED
    BY <1>1, <2>1, <2>4, <2>5, TypeInvNext DEF RestOK, DeletionOK
<1> QED
  BY <1>3, <1>4, <1>5, <1>6, <1>7, <1>8, <1>10, <1>12, <1>13, <1>14, <1>15, <1>16, <1>17, <1>18
     DEF Work

LEMMA DeliverType ==
  ASSUME TypeInv, NEW w \in Workers, NEW t \in DOMAIN transfers, NEW phase \in Phases,
         Deliver(w, t, phase)
  PROVE  TypeInv'
<1>1. RowsOK /\ WorkersOK /\ RestOK
  BY TypeInvParts
<1>2. RowsOK' /\ Grow
  BY <1>1, SameRows DEF Deliver
<1>3. messages' \in [TransferIds \X Phases -> 0..MaxCopies]
  <2> DEFINE n == messages[<<t, phase>>] - 1
  <2>1. <<t, phase>> \in TransferIds \X Phases
    BY <1>1, KeptRows, BoundsAssumption DEF TransferIds
  <2>2. n \in 0..MaxCopies
    BY <1>1, <2>1, BoundsAssumption DEF Deliver, RestOK
  <2>3. messages' = [messages EXCEPT ![<<t, phase>>] = n]
    BY DEF Deliver
  <2> HIDE DEF n
  <2> QED
    BY <1>1, <2>2, <2>3 DEF RestOK
<1>4. WorkersOK'
  <2>1. CASE UNCHANGED workers
    BY <1>1, <1>2, <2>1, WorkersKept
  <2>2. CASE ~UNCHANGED workers
    <3> DEFINE k == [Idle EXCEPT !.pc = "read", !.job = <<t, phase>>, !.phase = phase]
    <3>1. t \in TransferIds
      BY <1>1, KeptRows, BoundsAssumption DEF TransferIds
    <3>2. k \in Worker /\ Tasked(k)
      BY <3>1 DEF Idle, Worker, Tasked, Phases
    <3>3. workers' = [workers EXCEPT ![w] = k]
      BY <2>2 DEF Deliver
    <3> HIDE DEF k
    <3> QED
      BY <1>1, <1>2, <3>2, <3>3, WorkersStep
  <2> QED
    BY <2>1, <2>2
<1> QED
  BY <1>1, <1>2, <1>3, <1>4, TypeInvNext DEF Deliver, RestOK, DeletionOK

\* The watchdog.
LEMMA SweepType == ASSUME TypeInv, Sweep PROVE TypeInv'
<1>1. RowsOK /\ WorkersOK /\ RestOK
  BY TypeInvParts
<1>2. ASSUME NEW t \in DOMAIN runs, NEW i \in DOMAIN runs[t], TimeOut(t, i) PROVE TypeInv'
  <2>1. runs[t][i] \in Run
    BY <1>1, KeptRows, LenProperties, ElementOfSeq
  <2>2. Failed(runs[t][i]) \in Run
    BY <2>1 DEF Failed, Run
  <2>3. RowsOK' /\ Grow
    BY <1>1, <1>2, <2>2, RunUpdate DEF TimeOut
  <2>4. messages' \in [TransferIds \X Phases -> 0..MaxCopies]
    BY <1>1, <1>2, SentType DEF TimeOut
  <2> QED
    BY <1>1, <1>2, <2>3, <2>4, WorkersKept, TypeInvNext DEF TimeOut, RestOK, DeletionOK
<1>3. ASSUME NEW t \in DOMAIN transfers, Resume(t) PROVE TypeInv'
  <2> DEFINE waiting == ticket.waiting /\ OpenIds # {}
  <2>1. ticket' = [ticket EXCEPT !.waiting = waiting]
    BY <1>3 DEF Resume
  <2>2. waiting \in BOOLEAN
    OBVIOUS
  <2> HIDE DEF waiting
  <2>3. ticket' \in Ticket
    BY <1>1, <2>1, <2>2, KeptRows, WaitingType
  <2>4. RowsOK' /\ Grow
    BY <1>1, <1>3, <2>3, KeptRows DEF Resume, RowsOK, Grow
  <2>5. messages' \in [TransferIds \X Phases -> 0..MaxCopies]
    BY <1>1, <1>3, SentType DEF Resume
  <2> QED
    BY <1>1, <1>3, <2>4, <2>5, WorkersKept, TypeInvNext DEF Resume, RestOK, DeletionOK
<1> QED
  BY <1>2, <1>3 DEF Sweep

\* Callbacks, crashes and losses.
LEMMA ExternalType == ASSUME TypeInv, External PROVE TypeInv'
<1>1. RowsOK /\ WorkersOK /\ RestOK
  BY TypeInvParts
<1>2. ASSUME NEW t \in DOMAIN runs, NEW i \in DOMAIN runs[t], NEW success \in BOOLEAN,
             Answer(t, i, success)
      PROVE  TypeInv'
  <2>1. runs[t][i] \in Run
    BY <1>1, KeptRows, LenProperties, ElementOfSeq
  <2> DEFINE done == [runs[t][i] EXCEPT !.state = "succeeded", !.awaiting = FALSE,
                                        !.owner = NoWorker]
  <2>2. Failed(runs[t][i]) \in Run /\ done \in Run
    BY <2>1 DEF Failed, Run
  <2>3. \/ UNCHANGED <<ticket, transfers, runs>>
        \/ /\ UNCHANGED <<ticket, transfers>>
           /\ \/ runs' = [runs EXCEPT ![t][i] = Failed(runs[t][i])]
              \/ runs' = [runs EXCEPT ![t][i] = done]
    BY <1>2 DEF Answer
  <2> HIDE DEF done
  <2>4. RowsOK' /\ Grow
    BY <1>1, <2>2, <2>3, RunUpdate, SameRows
  <2>5. messages' \in [TransferIds \X Phases -> 0..MaxCopies]
    BY <1>1, <1>2, SentType DEF Answer, RestOK
  <2>6. calls' \subseteq TransferIds \X Nat
    BY <1>1, <1>2 DEF Answer, RestOK
  <2>7. UNCHANGED <<workers, rulesBroken, deletion, deleted, spent>>
    BY <1>2 DEF Answer
  <2> QED
    BY <1>1, <2>4, <2>5, <2>6, <2>7, WorkersKept, TypeInvNext DEF RestOK, DeletionOK
<1>3. ASSUME NEW w \in Workers, Crash(w) PROVE TypeInv'
  <2> DEFINE left(rs) == [i \in DOMAIN rs |-> IF rs[i].owner = w
                                              THEN [rs[i] EXCEPT !.owner = NoWorker] ELSE rs[i]]
  <2>1. ASSUME NEW t \in DOMAIN runs
        PROVE  left(runs[t]) \in Seq(Run) /\ DOMAIN left(runs[t]) = DOMAIN runs[t]
    <3>1. /\ Len(runs[t]) \in Nat /\ DOMAIN runs[t] = 1..Len(runs[t])
          /\ \A i \in DOMAIN runs[t] : runs[t][i] \in Run
      BY <1>1, KeptRows, LenProperties, ElementOfSeq
    <3>2. left(runs[t]) \in [1..Len(runs[t]) -> Run]
      BY <3>1 DEF Run
    <3> QED
      BY <3>1, <3>2, SeqOf
  <2>2. runs' = [t \in DOMAIN runs |-> left(runs[t])]
    BY <1>3 DEF Crash
  <2> HIDE DEF left
  <2>3. runs' \in [1..Len(transfers) -> Seq(Run)]
    BY <1>1, <2>1, <2>2, KeptRows
  <2>4. RowsOK' /\ Grow
    <3>1. runs' \in Seq(Seq(Run)) /\ Len(runs') = Len(transfers)
      BY <1>1, <2>3, KeptRows, SeqOf
    <3>2. UNCHANGED <<ticket, transfers>>
      BY <1>3 DEF Crash
    <3>3. \A t \in DOMAIN runs : DOMAIN runs'[t] = DOMAIN runs[t]
      BY <2>1, <2>2
    <3> QED
      BY <1>1, <3>1, <3>2, <3>3, KeptRows DEF RowsOK, Grow
  <2>5. WorkersOK'
    BY <1>1, <1>3, <2>4, WorkersReturn DEF Crash
  <2>6. spent' \in [retries : 0..MaxRetries, crashes : 0..MaxCrashes, losses : 0..MaxLosses]
    BY <1>1, <1>3, BoundsAssumption DEF Crash, RestOK
  <2>7. messages' \in [TransferIds \X Phases -> 0..MaxCopies]
    BY <1>1, <1>3, SentType DEF Crash
  <2> QED
    BY <1>1, <1>3, <2>4, <2>5, <2>6, <2>7, TypeInvNext DEF Crash, RestOK, DeletionOK
<1>4. ASSUME NEW t \in DOMAIN transfers, NEW phase \in Phases, Lose(t, phase) PROVE TypeInv'
  <2>1. RowsOK' /\ Grow
    BY <1>1, <1>4, SameRows DEF Lose
  <2>2. messages' \in [TransferIds \X Phases -> 0..MaxCopies]
    <3> DEFINE n == messages[<<t, phase>>] - 1
    <3>1. <<t, phase>> \in TransferIds \X Phases
      BY <1>1, KeptRows, BoundsAssumption DEF TransferIds
    <3>2. n \in 0..MaxCopies
      BY <1>1, <1>4, <3>1, BoundsAssumption DEF Lose, RestOK
    <3>3. messages' = [messages EXCEPT ![<<t, phase>>] = n]
      BY <1>4 DEF Lose
    <3> HIDE DEF n
    <3> QED
      BY <1>1, <3>2, <3>3 DEF RestOK
  <2>3. spent' \in [retries : 0..MaxRetries, crashes : 0..MaxCrashes, losses : 0..MaxLosses]
    BY <1>1, <1>4, BoundsAssumption DEF Lose, RestOK
  <2> QED
    BY <1>1, <1>4, <2>1, <2>2, <2>3, WorkersKept, TypeInvNext DEF Lose, RestOK, DeletionOK
<1> QED
  BY <1>2, <1>3, <1>4 DEF External

LEMMA InitType == Init => TypeInv
<1> SUFFICES ASSUME Init PROVE TypeInv
  OBVIOUS
<1>1. ticket \in Ticket
  <2> DEFINE resolved == InitStatus \in CompletedStatuses
  <2>1. ticket = [status |-> InitStatus, waiting |-> FALSE, version |-> 0,
                  resolved |-> resolved, resolutions |-> 0] /\ resolved \in BOOLEAN
    BY DEF Init
  <2> HIDE DEF resolved
  <2> QED
    BY <2>1, StatusesAssumption DEF Ticket
<1>2. RowsOK
  BY <1>1, BoundsAssumption, EmptySeq DEF Init, RowsOK
<1>3. WorkersOK
  BY IdleType DEF Init, WorkersOK, TaskOK, Idle
<1>4. RestOK
  <2>1. messages \in [TransferIds \X Phases -> 0..MaxCopies]
    BY BoundsAssumption DEF Init
  <2>2. spent \in [retries : 0..MaxRetries, crashes : 0..MaxCrashes, losses : 0..MaxLosses]
    BY BoundsAssumption DEF Init
  <2> QED
    BY <2>1, <2>2, StatusesAssumption DEF Init, RestOK, DeletionOK, NoDeletion
<1> QED
  BY <1>2, <1>3, <1>4, TypeInvParts

LEMMA StutterType == ASSUME TypeInv, UNCHANGED vars PROVE TypeInv'
BY SameRows, WorkersKept, TypeInvParts, TypeInvNext
   DEF vars, RestOK, DeletionOK

LEMMA TypeInvariant == Spec => []TypeInv
<1>1. TypeInv /\ [Next]_vars => TypeInv'
  <2> SUFFICES ASSUME TypeInv, [Next]_vars PROVE TypeInv'
    OBVIOUS
  <2>1. CASE UNCHANGED vars
    BY <2>1, StutterType
  <2>2. CASE Next
    BY <2>2, EnvironmentType, WorkType, DeliverType, SweepType, ExternalType DEF Next, TakeMessage
  <2> QED
    BY <2>1, <2>2
<1> QED
  BY <1>1, InitType, PTL DEF Spec

\* The rows of the ticket and the records of the workers are always well typed, whatever
\* the workflows, the actions and the failures are.
THEOREM TypeCorrect == Spec => []TypeOK
<1>1. TypeInv => TypeOK
  BY DEF TypeInv
<1> QED
  BY <1>1, TypeInvariant, PTL

---------------------------------------------------------------------------
(* Safety: the move in flight *)

\* A pending move has not entered its target, a committed one has; neither leaves triage or
\* enters a status of the pipeline, and no failed move that may be retried does.
Sound(tr) ==
  /\ tr.state = "pending" => ~tr.entered
  /\ tr.state = "committed" => tr.entered
  /\ tr.state \in {"pending", "committed", "failed"} => ~IsTriage(tr.before) /\ ~IsPipeline(tr.after)

Safe ==
  /\ LockedWhileOpen
  /\ OpenMoveHoldsTicket
  /\ \A t \in DOMAIN transfers : Sound(transfers[t])

\* A transfer recorded after the others were closed is the only one that may be open.
LEMMA SafeAppend ==
  ASSUME RowsOK, NEW moves \in Seq(Transfer), Len(moves) = Len(transfers), NEW tr \in Transfer,
         transfers' = Append(moves, tr),
         \A t \in 1..Len(moves) : moves[t].state \notin {"pending", "committed"} /\ Sound(moves[t]),
         Sound(tr),
         ticket'.waiting = (tr.state \in {"pending", "committed"}),
         tr.state \in {"pending", "committed"} =>
           ticket'.status = IF tr.state = "committed" THEN tr.after ELSE tr.before
  PROVE  Safe'
<1> DEFINE n == Len(moves) + 1
<1>1. /\ n \in Nat /\ DOMAIN transfers' = 1..n /\ Len(transfers') = n
      /\ \A t \in 1..n : transfers'[t] = IF t = n THEN tr ELSE moves[t]
  BY AppendProperties, LenProperties
<1>2. OpenIds' = IF tr.state \in {"pending", "committed"} THEN {n} ELSE {}
  BY <1>1 DEF OpenIds, IsOpen
<1>3. LockedWhileOpen'
  BY <1>1, <1>2 DEF LockedWhileOpen, Latest
<1>4. OpenMoveHoldsTicket'
  BY <1>1, <1>2 DEF OpenMoveHoldsTicket
<1>5. (\A t \in DOMAIN transfers : Sound(transfers[t]))'
  BY <1>1
<1> QED
  BY <1>3, <1>4, <1>5 DEF Safe

\* A move the engine records is a move between statuses of people.
LEMMA SafeRecordMove ==
  ASSUME RowsOK, Safe, NEW target, NEW trigger \in Triggers, NEW depth \in Nat,
         MayMove(target, trigger), RecordMove(target, trigger, depth)
  PROVE  Safe'
<1> DEFINE planned == PlanRuns(ticket.status, target)
           direct == ~HasPhase(planned, "before")
           state == CASE planned = <<>> -> "completed"
                      [] planned # <<>> /\ direct -> "committed"
                      [] OTHER -> "pending"
           tr == [state |-> state, trigger |-> trigger, before |-> ticket.status,
                  after |-> target, entered |-> direct, depth |-> depth]
<1>1. /\ OpenIds = {} /\ target \in Statuses
      /\ ~IsTriage(ticket.status) /\ ~IsPipeline(target)
  BY DEF MayMove, Transforming, Resolves
<1>2. planned = <<>> => direct
  BY DEF HasPhase
<1>3. state \in TransferStates /\ direct \in BOOLEAN
  BY DEF TransferStates
<1>4. /\ state = "pending" => ~direct
      /\ state = "committed" => direct
      /\ state \in {"completed", "committed", "pending"}
      /\ planned # <<>> <=> state \in {"pending", "committed"}
  BY <1>2
<1>5. transfers' = Append(transfers, tr)
  BY DEF RecordMove
<1>6. /\ ticket'.waiting = (state \in {"pending", "committed"})
      /\ ticket'.status = IF direct THEN target ELSE ticket.status
  <2> DEFINE row == IF direct THEN EnterStatus(ticket, target) ELSE ticket
             waiting == planned # <<>>
  <2>1. row \in Ticket /\ row.status = IF direct THEN target ELSE ticket.status
    BY <1>1, KeptRows, EnterStatusType
  <2>2. ticket' = [row EXCEPT !.waiting = waiting] /\ waiting \in BOOLEAN
    BY DEF RecordMove
  <2>3. waiting = (state \in {"pending", "committed"})
    BY <1>4
  <2> HIDE DEF row, waiting, state
  <2> QED
    BY <2>1, <2>2, <2>3, WaitingType
<1> HIDE DEF planned, direct, state
<1>7. tr \in Transfer
  BY <1>1, <1>3, KeptRows DEF Transfer
<1>8. Sound(tr)
  BY <1>1, <1>4 DEF Sound
<1>9. \A t \in 1..Len(transfers) :
        transfers[t].state \notin {"pending", "committed"} /\ Sound(transfers[t])
  BY <1>1, KeptRows DEF Safe, OpenIds, IsOpen
<1> QED
  BY <1>4, <1>5, <1>6, <1>7, <1>8, <1>9, KeptRows, SafeAppend

LEMMA SafeSystemTransfer ==
  ASSUME RowsOK, NEW row \in Ticket, ~row.waiting, NEW target \in Statuses,
         NEW moves \in Seq(Transfer), Len(moves) = Len(transfers), NEW plans,
         \A t \in 1..Len(moves) : moves[t].state \notin {"pending", "committed"} /\ Sound(moves[t]),
         RecordSystemTransfer(row, moves, plans, target)
  PROVE  Safe'
<1> DEFINE tr == [state |-> "completed", trigger |-> "system", before |-> row.status,
                  after |-> target, entered |-> TRUE, depth |-> 0]
<1>1. tr \in Transfer /\ Sound(tr) /\ tr.state \notin {"pending", "committed"}
  BY DEF Transfer, Triggers, TransferStates, Ticket, Sound
<1>2. transfers' = Append(moves, tr)
  BY DEF RecordSystemTransfer
<1>3. ticket'.waiting = FALSE
  BY EnterStatusType DEF RecordSystemTransfer, Ticket
<1> HIDE DEF tr
<1> DEFINE open == tr.state \in {"pending", "committed"}
<1>4. ticket'.waiting = open
  <2>1. open \in BOOLEAN /\ ~open
    BY <1>1
  <2> HIDE DEF open
  <2> QED
    BY <1>3, <2>1
<1> QED
  BY <1>1, <1>2, <1>4, SafeAppend

\* The move in flight is the latest transfer.
LEMMA OnlyOpen ==
  ASSUME RowsOK, Safe, NEW t \in DOMAIN transfers, IsOpen(t)
  PROVE  t = Latest /\ OpenIds = {t}
BY DEF Safe, LockedWhileOpen, OpenIds

LEMMA SafeClose ==
  ASSUME RowsOK, Safe, NEW t \in DOMAIN transfers, IsOpen(t),
         NEW state \in {"completed", "failed", "cancelled"}, Close(t, state)
  PROVE  Safe'
<1> DEFINE tr == [transfers[t] EXCEPT !.state = state]
<1>1. tr.state = state /\ tr.before = transfers[t].before /\ tr.after = transfers[t].after
  BY KeptRows DEF Transfer
<1>2. Sound(tr)
  BY <1>1 DEF Safe, Sound, IsOpen
<1>3. transfers' = [transfers EXCEPT ![t] = tr]
  BY DEF Close, Closed
<1>4. DOMAIN transfers' = DOMAIN transfers /\ Len(transfers') = Len(transfers)
  BY CloseRows, KeptRows, TransferUpdate DEF Close, Closed, TransferStates
<1> HIDE DEF tr
<1>5. /\ \A u \in DOMAIN transfers : Sound(transfers'[u])
      /\ transfers'[t].state = state /\ \A u \in DOMAIN transfers : u # t => transfers'[u] = transfers[u]
  BY <1>1, <1>2, <1>3 DEF Safe
<1>6. OpenIds' = {}
  BY <1>4, <1>5, OnlyOpen DEF OpenIds, IsOpen
<1>7. ticket'.waiting = FALSE
  BY KeptRows, WaitingType DEF Close, Unlocked
<1> QED
  BY <1>4, <1>5, <1>6, <1>7 DEF Safe, LockedWhileOpen, OpenMoveHoldsTicket

LEMMA SafeCommit ==
  ASSUME RowsOK, Safe, NEW t \in DOMAIN transfers, transfers[t].state = "pending", CommitLocked(t)
  PROVE  Safe'
<1> DEFINE tr == [transfers[t] EXCEPT !.state = "committed", !.entered = TRUE]
<1>1. /\ tr.state = "committed" /\ tr.entered
      /\ tr.before = transfers[t].before /\ tr.after = transfers[t].after
      /\ tr.after \in Statuses
  BY KeptRows DEF Transfer
<1>2. Sound(tr)
  BY <1>1 DEF Safe, Sound
<1>3. transfers' = [transfers EXCEPT ![t] = tr]
  BY DEF CommitLocked
<1>4. DOMAIN transfers' = DOMAIN transfers /\ Len(transfers') = Len(transfers)
  BY KeptRows, TransferUpdate DEF CommitLocked, TransferStates
<1>5. ticket'.status = tr.after /\ ticket'.waiting = ticket.waiting
  BY <1>1, KeptRows, EnterStatusType DEF CommitLocked
<1> HIDE DEF tr
<1>6. /\ \A u \in DOMAIN transfers : Sound(transfers'[u])
      /\ transfers'[t] = tr /\ \A u \in DOMAIN transfers : u # t => transfers'[u] = transfers[u]
  BY <1>1, <1>2, <1>3 DEF Safe
<1>7. OpenIds' = OpenIds /\ OpenIds = {t} /\ t = Latest
  BY <1>1, <1>4, <1>6, OnlyOpen DEF OpenIds, IsOpen
<1>8. LockedWhileOpen'
  BY <1>4, <1>5, <1>7 DEF Safe, LockedWhileOpen, Latest
<1>9. OpenMoveHoldsTicket'
  BY <1>1, <1>5, <1>6, <1>7 DEF OpenMoveHoldsTicket
<1> QED
  BY <1>4, <1>6, <1>8, <1>9 DEF Safe

LEMMA SafeRetry ==
  ASSUME RowsOK, Safe, RetryFailed
  PROVE  Safe'
<1> DEFINE t == Latest
           state == IF transfers[t].entered THEN "committed" ELSE "pending"
           tr == [transfers[t] EXCEPT !.state = state]
<1>1. t \in DOMAIN transfers /\ transfers[t].state = "failed" /\ OpenIds = {}
  BY KeptRows DEF RetryFailed, MayRetry, IsOpen, Latest, Safe, LockedWhileOpen, OpenIds
<1>2. /\ tr.state = state /\ tr.entered = transfers[t].entered
      /\ tr.before = transfers[t].before /\ tr.after = transfers[t].after
  BY <1>1, KeptRows DEF Transfer
<1>3. transfers' = [transfers EXCEPT ![t] = tr]
  BY DEF RetryFailed
<1>4. DOMAIN transfers' = DOMAIN transfers /\ Len(transfers') = Len(transfers)
  BY <1>1, KeptRows, TransferUpdate DEF RetryFailed, TransferStates
<1>5. Sound(tr)
  BY <1>1, <1>2 DEF Safe, Sound
<1>6. ticket'.waiting = TRUE /\ ticket'.status = ExpectedAt(t)
  BY KeptRows, WaitingType DEF RetryFailed, MayRetry
<1> HIDE DEF tr
<1>7. /\ \A u \in DOMAIN transfers : Sound(transfers'[u])
      /\ transfers'[t] = tr /\ \A u \in DOMAIN transfers : u # t => transfers'[u] = transfers[u]
  BY <1>1, <1>5, <1>3 DEF Safe
<1>8. OpenIds' = {t}
  BY <1>1, <1>2, <1>4, <1>7 DEF OpenIds, IsOpen
<1>9. LockedWhileOpen'
  BY <1>4, <1>6, <1>8 DEF LockedWhileOpen, Latest
<1>10. OpenMoveHoldsTicket'
  BY <1>2, <1>6, <1>7, <1>8 DEF OpenMoveHoldsTicket, ExpectedAt
<1> QED
  BY <1>4, <1>7, <1>9, <1>10 DEF Safe

LEMMA SafeCancel ==
  ASSUME RowsOK, Safe
  PROVE  /\ \A t \in 1..Len(Cancelled) :
              Cancelled[t].state \notin {"pending", "committed"} /\ Sound(Cancelled[t])
         /\ ~CancelledTicket.waiting
         /\ CancelledTicket.waiting \in BOOLEAN
<1>1. ASSUME NEW t \in DOMAIN transfers
      PROVE  Cancelled[t].state \notin {"pending", "committed"} /\ Sound(Cancelled[t])
  <2>1. CASE IsOpen(t)
    <3>1. Cancelled[t].state = "cancelled"
      BY <2>1, KeptRows DEF Cancelled, Transfer
    <3> QED
      BY <3>1 DEF Sound
  <2>2. CASE ~IsOpen(t)
    BY <2>2 DEF Cancelled, Safe, IsOpen
  <2> QED
    BY <2>1, <2>2
<1>2. DOMAIN transfers = 1..Len(Cancelled)
  BY KeptRows, CancelledRows
<1>3. ~CancelledTicket.waiting /\ CancelledTicket.waiting \in BOOLEAN
  BY KeptRows, WaitingType DEF CancelledTicket, Unlocked, Safe, LockedWhileOpen
<1> QED
  BY <1>1, <1>2, <1>3

\* Actions that leave the transfers, and where the ticket is, alone.
LEMMA SafeSame ==
  ASSUME Safe, UNCHANGED transfers, ticket'.waiting = ticket.waiting, ticket'.status = ticket.status
  PROVE  Safe'
BY DEF Safe, LockedWhileOpen, OpenMoveHoldsTicket, OpenIds, IsOpen, Latest

LEMMA SafeEnvironment == ASSUME TypeInv, Safe, Environment PROVE Safe'
<1>1. RowsOK
  BY TypeInvParts
<1>2. ASSUME NEW target \in Statuses,
             RecordSystemTransfer(CancelledTicket, Cancelled, CancelledRuns, target)
      PROVE  Safe'
  BY <1>1, <1>2, CancelledRows, SafeCancel, SafeSystemTransfer
<1>3. ASSUME NEW target \in Statuses, ~Transforming,
             RecordSystemTransfer(ticket, transfers, runs, target)
      PROVE  Safe'
  <2>1. /\ ~ticket.waiting
        /\ \A t \in 1..Len(transfers) :
             transfers[t].state \notin {"pending", "committed"} /\ Sound(transfers[t])
    BY <1>1, <1>3, KeptRows DEF Transforming, OpenIds, IsOpen, Safe
  <2> QED
    BY <1>1, <1>3, <2>1, KeptRows, SafeSystemTransfer
<1>4. ASSUME NEW key \in PipelineKeys, SystemMove(key) PROVE Safe'
  <2>1. StatusOf(key, ticket.status) \in Statuses
    BY <1>1, KeptRows, StatusesAssumption
  <2>2. CASE transfers' = Cancelled /\ runs' = CancelledRuns /\ ticket' = CancelledTicket
    <3>1. /\ DOMAIN transfers' = 1..Len(Cancelled)
          /\ \A t \in DOMAIN transfers' :
               transfers'[t].state \notin {"pending", "committed"} /\ Sound(transfers'[t])
      BY <1>1, <2>2, SafeCancel, CancelledRows, LenProperties
    <3>2. OpenIds' = {}
      BY <3>1 DEF OpenIds, IsOpen
    <3>3. ticket'.waiting = FALSE
      BY <1>1, <2>2, SafeCancel
    <3> QED
      BY <3>1, <3>2, <3>3 DEF Safe, LockedWhileOpen, OpenMoveHoldsTicket
  <2> QED
    BY <1>2, <1>4, <2>1, <2>2 DEF SystemMove
<1>5. ASSUME NEW s \in Statuses, NEW trigger \in Triggers \ {"system"}, RequestMove(s, trigger)
      PROVE  Safe'
  BY <1>1, <1>5, SafeRecordMove DEF RequestMove
<1>6. ASSUME NEW s \in Statuses, ChangeWorkflow(s) \/ AdoptTicket(s) PROVE Safe'
  BY <1>3, <1>6 DEF ChangeWorkflow, AdoptTicket, MayChangeWorkflow
<1>7. CASE RetryFailed
  BY <1>1, <1>7, SafeRetry
<1>8. CASE EditFields \/ RetryStalled \/ DeleteStatus
  BY <1>8, SafeSame DEF EditFields, RetryStalled, DeleteStatus
<1>9. ASSUME NEW s \in Statuses, CheckDeletion(s) PROVE Safe'
  BY <1>9, SafeSame DEF CheckDeletion
<1>10. ASSUME NEW to \in Statuses, Evacuate(to) PROVE Safe'
  BY <1>2, <1>10, SafeSame DEF Evacuate
<1> QED
  BY <1>4, <1>5, <1>6, <1>7, <1>8, <1>9, <1>10 DEF Environment

LEMMA SafeWork == ASSUME TypeInv, Safe, NEW w \in Workers, Work(w) PROVE Safe'
<1>1. RowsOK /\ WorkersOK
  BY TypeInvParts
<1>2. workers[w].pc # "idle" => /\ Task(w) \in DOMAIN transfers
                                /\ transfers[Task(w)].depth + 1 \in Nat
  <2> SUFFICES ASSUME workers[w].pc # "idle"
               PROVE  /\ Task(w) \in DOMAIN transfers
                      /\ transfers[Task(w)].depth + 1 \in Nat
    OBVIOUS
  <2>1. Task(w) \in DOMAIN transfers /\ transfers[Task(w)] \in Transfer
    BY <1>1, KeptTask
  <2> QED
    BY <2>1 DEF Transfer
<1>3. ASSUME UNCHANGED <<ticket, transfers>> PROVE Safe'
  BY <1>3, SafeSame
<1>4. ASSUME NEW to, MayMove(to, "action"), workers[w].pc # "idle",
             RecordMove(to, "action", transfers[Task(w)].depth + 1)
      PROVE  Safe'
  BY <1>1, <1>2, <1>4, SafeRecordMove DEF Triggers
<1>5. ASSUME NEW to, MayChangeWorkflow(to), RecordSystemTransfer(ticket, transfers, runs, to)
      PROVE  Safe'
  <2>1. /\ ~ticket.waiting /\ to \in Statuses
        /\ \A t \in 1..Len(transfers) :
             transfers[t].state \notin {"pending", "committed"} /\ Sound(transfers[t])
    BY <1>1, <1>5, KeptRows DEF MayChangeWorkflow, Transforming, OpenIds, IsOpen, Safe
  <2> QED
    BY <1>1, <1>5, <2>1, KeptRows, SafeSystemTransfer
<1>6. CASE \/ Check(w) \/ ReadRuns(w) \/ Load(w) \/ HandleCall(w) \/ Advance(w)
           \/ Finish(w) \/ \E outcome \in {"succeed", "retry", "fail"} : HandleEffect(w, outcome)
  BY <1>3, <1>6 DEF Check, ReadRuns, Load, HandleCall, Advance, Finish, HandleEffect, FinishWith
<1>7. CASE Claim(w)
  BY <1>3, <1>7 DEF Claim
<1>8. CASE HandleMove(w)
  BY <1>3, <1>4, <1>8 DEF HandleMove
<1>9. CASE HandleChange(w)
  BY <1>3, <1>5, <1>9 DEF HandleChange
<1>10. CASE Fail(w)
  BY <1>1, <1>2, <1>3, <1>10, SafeClose DEF Fail
<1>11. CASE Commit(w)
  <2>1. CASE CommitResult(Task(w)) = "enter"
    BY <1>1, <1>2, <1>11, <2>1, SafeCommit DEF Commit, CommitResult
  <2>2. CASE CommitResult(Task(w)) \in {"stale", "broken"}
    <3>1. transfers[Task(w)].state = "pending" /\ Task(w) \in DOMAIN transfers
      BY <1>2, <1>11, <2>2 DEF Commit, CommitResult
    <3>2. IsOpen(Task(w))
      BY <3>1 DEF IsOpen
    <3> QED
      BY <1>1, <1>11, <2>2, <3>1, <3>2, SafeClose DEF Commit
  <2>3. CASE CommitResult(Task(w)) \notin {"enter", "stale", "broken"}
    BY <1>3, <1>11, <2>3 DEF Commit
  <2> QED
    BY <2>1, <2>2, <2>3
<1>12. CASE Finalize(w)
  <2>1. transfers[Task(w)].state = "committed" => IsOpen(Task(w))
    BY DEF IsOpen
  <2> QED
    BY <1>1, <1>2, <1>3, <1>12, <2>1, SafeClose DEF Finalize
<1>13. CASE MakeDeferred(w)
  BY <1>3, <1>4, <1>5, <1>13 DEF MakeDeferred
<1> QED
  BY <1>6, <1>7, <1>8, <1>9, <1>10, <1>11, <1>12, <1>13 DEF Work

LEMMA SafeStep == ASSUME TypeInv, Safe, [Next]_vars PROVE Safe'
<1>1. RowsOK
  BY TypeInvParts
<1>2. CASE UNCHANGED vars
  BY <1>2, SafeSame DEF vars
<1>3. ASSUME NEW w \in Workers, NEW t \in DOMAIN transfers, NEW phase \in Phases, Deliver(w, t, phase)
      PROVE  Safe'
  BY <1>3, SafeSame DEF Deliver
<1>4. CASE Sweep
  <2>1. ASSUME NEW t \in DOMAIN runs, NEW i \in DOMAIN runs[t], TimeOut(t, i) PROVE Safe'
    BY <2>1, SafeSame DEF TimeOut
  <2>2. ASSUME NEW t \in DOMAIN transfers, Resume(t) PROVE Safe'
    <3>1. OpenIds # {}
      BY <2>2 DEF Resume, OpenIds
    <3>2. ticket.waiting = TRUE
      BY <3>1 DEF Safe, LockedWhileOpen
    <3>3. ticket'.waiting = TRUE /\ ticket'.status = ticket.status
      BY <1>1, <2>2, <3>1, <3>2, KeptRows DEF Resume, Ticket
    <3> QED
      BY <2>2, <3>2, <3>3, SafeSame DEF Resume
  <2> QED
    BY <1>4, <2>1, <2>2 DEF Sweep
<1>5. CASE External
  BY <1>5, SafeSame DEF External, Answer, Crash, Lose
<1> QED
  BY <1>2, <1>3, <1>4, <1>5, SafeEnvironment, SafeWork DEF Next, TakeMessage

LEMMA SafeInvariant == Spec => [](TypeInv /\ Safe)
<1>1. Init => Safe
  <2> SUFFICES ASSUME Init PROVE Safe
    OBVIOUS
  <2>1. DOMAIN transfers = {} /\ OpenIds = {} /\ ticket.waiting = FALSE
    BY EmptySeq, LenProperties DEF Init, OpenIds
  <2> QED
    BY <2>1 DEF Safe, LockedWhileOpen, OpenMoveHoldsTicket
<1>2. (TypeInv /\ Safe) /\ [Next]_vars => Safe'
  BY SafeStep
<1> QED
  BY <1>1, <1>2, TypeInvariant, PTL DEF Spec

\* At most one move of a ticket is in flight, its latest, the ticket is locked exactly then
\* and is where that move left it, and none is in flight in triage: the unique index on open
\* transfers never refuses anything, and whatever moves a ticket past the lock cancels first.
THEOREM OneMoveInFlight == Spec => []MovesHoldTheTicket
<1>1. TypeInv /\ Safe => LockedWhileOpen /\ OpenMoveHoldsTicket
  BY DEF Safe
<1>2. TypeInv /\ Safe => TriageIsUndisturbed
  <2> SUFFICES ASSUME TypeInv, Safe, IsTriage(ticket.status), OpenIds # {} PROVE FALSE
    BY DEF TriageIsUndisturbed
  <2>1. PICK t \in OpenIds : TRUE
    OBVIOUS
  <2>2. /\ transfers[t].state \in {"pending", "committed"}
        /\ ~IsTriage(transfers[t].before) /\ ~IsPipeline(transfers[t].after)
    BY <2>1 DEF OpenIds, IsOpen, Safe, Sound
  <2>3. ~IsTriage(ticket.status)
    BY <2>1, <2>2, StatusesAssumption DEF Safe, OpenMoveHoldsTicket, IsTriage, IsPipeline
  <2> QED
    BY <2>3
<1> QED
  BY <1>1, <1>2, SafeInvariant, PTL DEF MovesHoldTheTicket

---------------------------------------------------------------------------
(* What a step may do to the ticket, its transfers and their runs *)

\* A run that is over, whatever came of it.
Ended(run) == run.state \in {"succeeded", "failed", "skipped"}

\* Where a worker is while a run it claimed is its own.
Holding == {"load", "handle", "finish"}

\* A worker is about to claim run i of transfer t.
Takes(t, i) ==
  \E w \in Workers : workers[w].pc = "claim" /\ Task(w) = t /\ i \in workers[w].todo

\* A worker lets go of run i of transfer t, which it claimed.
LetsGo(t, i) ==
  \E w \in Workers : /\ workers[w].pc \in Holding /\ Task(w) = t /\ workers[w].run = i
                     /\ workers'[w].pc \notin Holding

\* A worker is about to note that run i of transfer t moves the ticket later.
Defers(t, i) ==
  \E w \in Workers : /\ workers[w].pc = "finish" /\ workers[w].outcome = "defer"
                     /\ Task(w) = t /\ workers[w].run = i

\* What may become of a run while its transfer stays: only a queued or a running one changes.
Writes(t, i, run) ==
  /\ runs[t][i].state \in {"queued", "running"}
  /\ run \in Run /\ run.action = runs[t][i].action
  /\ run.owner # NoWorker => run.state = "running"
  /\ run.deferred => runs[t][i].deferred \/ Defers(t, i)
  /\ run.phase = runs[t][i].phase /\ run.state # "skipped"
  /\ runs[t][i].state = "queued" => run.state = "running" /\ Takes(t, i)
  /\ runs[t][i].state = "running" => Ended(run) \/ LetsGo(t, i)

\* Worker w dies.
Orphans(w) ==
  /\ workers'[w].pc = "idle"
  /\ runs' = [t \in DOMAIN runs |-> [i \in DOMAIN runs[t] |->
             IF runs[t][i].owner = w THEN [runs[t][i] EXCEPT !.owner = NoWorker]
             ELSE runs[t][i]]]

RunsWritten ==
  \/ UNCHANGED runs
  \/ \E t \in DOMAIN runs : \E i \in DOMAIN runs[t] : \E run :
       Writes(t, i, run) /\ runs' = [runs EXCEPT ![t][i] = run]
  \/ \E w \in Workers : Orphans(w)

Stays ==
  /\ UNCHANGED transfers /\ ticket'.status = ticket.status /\ ticket'.version = ticket.version
  /\ RunsWritten

\* A worker moves the ticket on for a run of a completed transfer.
MovesOn(depth) ==
  \E w \in Workers : \E i \in workers[w].todo :
    /\ workers[w].pc = "deferred" /\ runs[Task(w)][i].action.kind = "move"
    /\ depth = transfers[Task(w)].depth + 1

Records ==
  \E target \in Statuses, trigger \in Triggers \ {"system"}, depth \in Nat :
    /\ MayMove(target, trigger) /\ RecordMove(target, trigger, depth)
    /\ depth <= MaxDepth \/ MovesOn(depth)

\* The pipeline, or the deletion of the ticket's status, takes the ticket elsewhere.
Overrides ==
  \E target \in Statuses :
    /\ RecordSystemTransfer(CancelledTicket, Cancelled, CancelledRuns, target)
    /\ target.workflow = ticket.status.workflow
    /\ IsPipeline(target) \/ (~IsPipeline(ticket.status) /\ target \notin deleted)

Cancels ==
  transfers' = Cancelled /\ ticket' = CancelledTicket /\ runs' = CancelledRuns

\* The ticket changes workflow.
Transplants ==
  \E target \in Statuses \ deleted :
    /\ ~Transforming /\ target.workflow # ticket.status.workflow
    /\ IsPipeline(target) \/ IsTriage(ticket.status) => target.key = ticket.status.key
    /\ RecordSystemTransfer(ticket, transfers, runs, target)

\* A worker of transfer t is at `pc`.
At(t, pc) == \E w \in Workers : workers[w].pc = pc /\ Task(w) = t

Ends == \E t \in DOMAIN transfers, state \in {"completed", "failed"} :
          /\ IsOpen(t) /\ Close(t, state)
          /\ state = "completed" => ~HasFailed(t) /\ At(t, "finalize")

Enters == \E t \in DOMAIN transfers :
            CommitResult(t) = "enter" /\ CommitLocked(t) /\ At(t, "advance")

\* All that a step of the engine may do to the ticket and its moves.
MoveStep ==
  Stays \/ Records \/ Overrides \/ Cancels \/ Transplants \/ RetryFailed \/ Ends \/ Enters

LEMMA EnvironmentMoves == ASSUME TypeInv, Environment PROVE MoveStep
<1>1. RowsOK /\ DeletionOK
  BY TypeInvParts DEF TypeInv
<1>2. ASSUME NEW key \in PipelineKeys, SystemMove(key) PROVE MoveStep
  <2>1. /\ StatusOf(key, ticket.status) \in Statuses
        /\ StatusOf(key, ticket.status).workflow = ticket.status.workflow
        /\ IsPipeline(StatusOf(key, ticket.status))
    BY <1>1, KeptRows, StatusesAssumption DEF StatusOf, IsPipeline
  <2> QED
    BY <1>2, <2>1 DEF SystemMove, MoveStep, Overrides, Cancels
<1>3. ASSUME NEW s \in Statuses, NEW trigger \in Triggers \ {"system"}, RequestMove(s, trigger)
      PROVE  MoveStep
  BY <1>3, BoundsAssumption DEF RequestMove, MoveStep, Records
<1>4. ASSUME NEW s \in Statuses, ChangeWorkflow(s) PROVE MoveStep
  BY <1>4 DEF ChangeWorkflow, MayChangeWorkflow, MoveStep, Transplants
<1>5. ASSUME NEW s \in Statuses, AdoptTicket(s) PROVE MoveStep
  <2>1. IsTriage(ticket.status) => IsPipeline(ticket.status)
    BY StatusesAssumption DEF IsTriage, IsPipeline
  <2> QED
    BY <1>5, <2>1 DEF AdoptTicket, IsDestination, MoveStep, Transplants
<1>6. CASE EditFields \/ RetryStalled \/ DeleteStatus
  BY <1>6 DEF EditFields, RetryStalled, DeleteStatus, MoveStep, Stays, RunsWritten
<1>7. ASSUME NEW s \in Statuses, CheckDeletion(s) PROVE MoveStep
  BY <1>7 DEF CheckDeletion, MoveStep, Stays, RunsWritten
<1>8. ASSUME NEW to \in Statuses, Evacuate(to) PROVE MoveStep
  <2>1. ~IsPipeline(deletion.status)
    BY <1>1, <1>8, StatusesAssumption DEF Evacuate, DeletionOK
  <2> QED
    BY <1>8, <2>1 DEF Evacuate, MoveStep, Overrides, Stays, RunsWritten
<1> QED
  BY <1>2, <1>3, <1>4, <1>5, <1>6, <1>7, <1>8 DEF Environment, MoveStep

LEMMA ContinueQuiet ==
  ASSUME WorkersOK, NEW w \in Workers, NEW todo, NEW then \in {"return", "fail", "advance"},
         workers' = Continue(w, todo, then) \/ workers' = Return(w)
  PROVE  /\ workers'[w].pc \notin Holding \union {"finish", "deferred"}
         /\ \A v \in Workers \ {w} : workers'[v] = workers[v]
<1>1. workers \in [Workers -> Worker]
  BY DEF WorkersOK
<1>2. CASE workers' = Return(w)
  BY <1>1, <1>2 DEF Return, Idle, Holding
<1>3. CASE workers' = Continue(w, todo, then)
  <2> DEFINE pc == CASE todo # {} -> "claim"
                     [] todo = {} /\ then = "return" -> "idle"
                     [] todo = {} /\ then = "fail" -> "fail"
                     [] OTHER -> IF workers[w].phase = "before" THEN "advance" ELSE "remaining"
             k == [Idle EXCEPT !.pc = pc, !.job = workers[w].job, !.phase = workers[w].phase,
                               !.todo = todo, !.then = then]
  <2>1. pc \in {"claim", "idle", "fail", "advance", "remaining"}
    OBVIOUS
  <2>2. workers' = Return(w) \/ workers' = [workers EXCEPT ![w] = k]
    BY <1>3 DEF Continue
  <2>3. k.pc = pc
    BY DEF Idle
  <2> HIDE DEF pc, k
  <2> QED
    BY <1>1, <1>2, <2>1, <2>2, <2>3 DEF Holding
<1> QED
  BY <1>2, <1>3

\* A worker writes only a run that is running, and notes a later move only as it finishes.
LEMMA FinishWrites ==
  ASSUME RowsOK, WorkersOK, NEW w \in Workers, workers[w].pc \in {"handle", "finish"},
         NEW outcome \in {"succeed", "defer", "retry", "fail", "await"}, FinishWith(w, outcome),
         outcome = "defer" => workers[w].pc = "finish" /\ workers[w].outcome = "defer"
  PROVE  RunsWritten
<1> DEFINE t == Task(w)
           i == workers[w].run
           run == Written(runs[t][i], outcome)
<1>1. t \in DOMAIN runs /\ i \in DOMAIN runs[t] /\ runs[t][i] \in Run
  BY ClaimedRun DEF CurrentRun
<1>2. CASE CurrentRun(w).state = "running"
  <2>0. run \in Run
    BY <1>1, WrittenType
  <2>1. run.action = runs[t][i].action
    BY <1>1 DEF Written, Run
  <2>2. run.owner = NoWorker
    BY <1>1 DEF Written, Run
  <2>3. run.deferred => runs[t][i].deferred \/ outcome = "defer"
    BY <1>1 DEF Written, Run
  <2>4. runs[t][i].state = "running" /\ runs' = [runs EXCEPT ![t][i] = run]
    BY <1>1, <1>2 DEF FinishWith, CurrentRun
  <2>5. outcome = "defer" => Defers(t, i)
    BY DEF Defers
  <2>7. run.phase = runs[t][i].phase /\ run.state # "skipped"
    BY <1>1, <1>2 DEF Written, Run, CurrentRun
  <2>8. LetsGo(t, i)
    <3>1. workers[w].then \in {"return", "fail", "advance"}
      BY DEF WorkersOK, Worker
    <3>2. \/ workers' = Return(w)
          \/ workers' = Continue(w, {}, "fail")
          \/ workers' = Continue(w, workers[w].todo, workers[w].then)
      BY DEF FinishWith
    <3>3. workers'[w].pc \notin Holding
      BY <3>1, <3>2, ContinueQuiet
    <3> QED
      BY <3>3 DEF LetsGo, Holding
  <2> HIDE DEF run
  <2>6. Writes(t, i, run)
    BY <2>0, <2>1, <2>2, <2>3, <2>4, <2>5, <2>7, <2>8 DEF Writes
  <2> QED
    BY <1>1, <2>4, <2>6 DEF RunsWritten
<1>3. CASE CurrentRun(w).state # "running"
  BY <1>3 DEF FinishWith, RunsWritten
<1> QED
  BY <1>2, <1>3

LEMMA ClaimWrites ==
  ASSUME RowsOK, WorkersOK, NEW w \in Workers, Claim(w)
  PROVE  RunsWritten
<1> DEFINE t == Task(w)
<1>1. PICK i \in workers[w].todo :
        IF Claimable(runs[t][i]) THEN runs' = [runs EXCEPT ![t][i] = Claimed(runs[t][i], w)]
        ELSE UNCHANGED runs
  BY DEF Claim
<1>2. t \in DOMAIN runs /\ i \in DOMAIN runs[t] /\ runs[t][i] \in Run
  BY KeptTask DEF Claim
<1>3. CASE Claimable(runs[t][i])
  <2> DEFINE run == Claimed(runs[t][i], w)
  <2>1. run \in Run
    BY <1>2, ClaimedType
  <2>2. /\ run.state = "running" /\ run.action = runs[t][i].action
        /\ run.deferred = runs[t][i].deferred /\ run.phase = runs[t][i].phase
    BY <1>2 DEF Claimed, Run
  <2>5. Takes(t, i)
    BY DEF Takes, Claim
  <2>4. runs' = [runs EXCEPT ![t][i] = run]
    BY <1>1, <1>3
  <2> HIDE DEF run
  <2>3. Writes(t, i, run)
    BY <1>3, <2>1, <2>2, <2>5 DEF Writes, Claimable
  <2> QED
    BY <1>2, <2>3, <2>4 DEF RunsWritten
<1>4. CASE ~Claimable(runs[t][i])
  BY <1>1, <1>4 DEF RunsWritten
<1> QED
  BY <1>3, <1>4

\* A callback or the watchdog writes only a run that is running.
LEMMA AnswerWrites ==
  ASSUME RowsOK, NEW t \in DOMAIN runs, NEW i \in DOMAIN runs[t],
         TimeOut(t, i) \/ \E success \in BOOLEAN : Answer(t, i, success)
  PROVE  RunsWritten
<1>1. runs[t][i] \in Run
  BY KeptRows, LenProperties, ElementOfSeq
<1> DEFINE over == [runs[t][i] EXCEPT !.state = "succeeded", !.awaiting = FALSE, !.owner = NoWorker]
           failed == Failed(runs[t][i])
<1>2. over \in Run /\ failed \in Run
  BY <1>1 DEF Run, Failed
<1>3. /\ over.owner = NoWorker /\ over.action = runs[t][i].action
      /\ over.deferred = runs[t][i].deferred /\ over.phase = runs[t][i].phase
      /\ over.state = "succeeded" /\ failed.state = "failed"
      /\ failed.owner = NoWorker /\ failed.action = runs[t][i].action
      /\ failed.deferred = runs[t][i].deferred /\ failed.phase = runs[t][i].phase
  BY <1>1 DEF Run, Failed
<1>4. \/ UNCHANGED runs
      \/ /\ runs[t][i].state = "running"
         /\ (runs' = [runs EXCEPT ![t][i] = over]) \/ (runs' = [runs EXCEPT ![t][i] = failed])
  BY DEF TimeOut, Answer, Overdue, Hears
<1> HIDE DEF over, failed
<1> QED
  BY <1>2, <1>3, <1>4 DEF RunsWritten, Writes, Ended

LEMMA WorkMoves == ASSUME TypeInv, Safe, NEW w \in Workers, Work(w) PROVE MoveStep
<1>1. RowsOK /\ WorkersOK
  BY TypeInvParts
<1>2. workers[w].pc # "idle" => /\ Task(w) \in DOMAIN transfers
                                /\ transfers[Task(w)].depth + 1 \in Nat
  <2> SUFFICES ASSUME workers[w].pc # "idle"
               PROVE  /\ Task(w) \in DOMAIN transfers
                      /\ transfers[Task(w)].depth + 1 \in Nat
    OBVIOUS
  <2>1. Task(w) \in DOMAIN transfers /\ transfers[Task(w)] \in Transfer
    BY <1>1, KeptTask
  <2> QED
    BY <2>1 DEF Transfer
<1>3. ASSUME UNCHANGED <<ticket, transfers>>, RunsWritten PROVE MoveStep
  BY <1>3 DEF MoveStep, Stays
<1>4. ASSUME NEW to, MayMove(to, "action"), workers[w].pc # "idle",
             RecordMove(to, "action", transfers[Task(w)].depth + 1),
             transfers[Task(w)].depth + 1 <= MaxDepth \/ MovesOn(transfers[Task(w)].depth + 1)
      PROVE  MoveStep
  BY <1>2, <1>4 DEF MoveStep, Records, Triggers, MayMove
<1>5. ASSUME NEW to, MayChangeWorkflow(to), RecordSystemTransfer(ticket, transfers, runs, to)
      PROVE  MoveStep
  BY <1>5 DEF MayChangeWorkflow, MoveStep, Transplants
<1>6. CASE Check(w) \/ ReadRuns(w) \/ Load(w) \/ HandleCall(w) \/ Advance(w)
  BY <1>3, <1>6 DEF Check, ReadRuns, Load, HandleCall, Advance, RunsWritten
<1>7. CASE Claim(w)
  BY <1>1, <1>3, <1>7, ClaimWrites DEF Claim
<1>14. CASE Finish(w)
  <2>1. workers[w].outcome \in {"succeed", "defer", "retry", "fail", "await"}
    BY <1>1 DEF WorkersOK, Worker
  <2>2. RunsWritten
    BY <1>1, <1>14, <2>1, FinishWrites DEF Finish
  <2> QED
    BY <1>3, <1>14, <2>2 DEF Finish, FinishWith
<1>15. ASSUME NEW outcome \in {"succeed", "retry", "fail"}, HandleEffect(w, outcome) PROVE MoveStep
  <2>1. Result(w, outcome) \in {"succeed", "retry", "fail"}
    BY DEF Result
  <2>2. RunsWritten
    BY <1>1, <1>15, <2>1, FinishWrites DEF HandleEffect
  <2> QED
    BY <1>3, <1>15, <2>2 DEF HandleEffect, FinishWith
<1>8. CASE HandleMove(w)
  <2>1. MoveOutcome(w, CurrentRun(w).action.to) = "succeed" => transfers[Task(w)].depth + 1 <= MaxDepth
    BY <1>2, <1>8, BoundsAssumption DEF MoveOutcome, HandleMove
  <2>2. UNCHANGED runs => RunsWritten
    BY DEF RunsWritten
  <2> QED
    BY <1>3, <1>4, <1>8, <2>1, <2>2 DEF HandleMove
<1>9. CASE HandleChange(w)
  BY <1>3, <1>5, <1>9 DEF HandleChange, RunsWritten
<1>10. CASE Fail(w)
  BY <1>2, <1>3, <1>10 DEF Fail, MoveStep, Ends, RunsWritten
<1>11. CASE Commit(w)
  <2>1. CASE CommitResult(Task(w)) = "enter"
    BY <1>2, <1>11, <2>1 DEF Commit, MoveStep, Enters, At
  <2>2. CASE CommitResult(Task(w)) \in {"stale", "broken"}
    <3>1. IsOpen(Task(w)) /\ Task(w) \in DOMAIN transfers /\ transfers[Task(w)].state = "pending"
      BY <1>2, <1>11, <2>2 DEF Commit, CommitResult, IsOpen
    <3>2. CommitResult(Task(w)) # "stale"
      BY <3>1 DEF CommitResult, Safe, OpenMoveHoldsTicket, OpenIds
    <3> QED
      BY <1>11, <2>2, <3>1, <3>2 DEF Commit, MoveStep, Ends
  <2>3. CASE CommitResult(Task(w)) \notin {"enter", "stale", "broken"}
    BY <1>3, <1>11, <2>3 DEF Commit, RunsWritten
  <2> QED
    BY <2>1, <2>2, <2>3
<1>12. CASE Finalize(w)
  <2>1. transfers[Task(w)].state = "committed" => IsOpen(Task(w))
    BY DEF IsOpen
  <2> QED
    BY <1>2, <1>3, <1>12, <2>1 DEF Finalize, MoveStep, Ends, At, RunsWritten
<1>13. CASE MakeDeferred(w)
  <2>1. PICK i \in workers[w].todo :
          /\ workers[w].pc = "deferred"
          /\ LET action == runs[Task(w)][i].action
             IN CASE action.kind = "move" /\ MayMove(action.to, "action") ->
                       RecordMove(action.to, "action", transfers[Task(w)].depth + 1)
                  [] action.kind = "change" /\ MayChangeWorkflow(action.to) ->
                       RecordSystemTransfer(ticket, transfers, runs, action.to)
                  [] OTHER -> UNCHANGED <<ticket, transfers, runs>>
    BY <1>13 DEF MakeDeferred
  <2>2. runs[Task(w)][i].action.kind = "move" => MovesOn(transfers[Task(w)].depth + 1)
    BY <2>1 DEF MovesOn
  <2>3. UNCHANGED runs => RunsWritten
    BY DEF RunsWritten
  <2> QED
    BY <1>3, <1>4, <1>5, <2>1, <2>2, <2>3
<1> QED
  BY <1>6, <1>7, <1>8, <1>9, <1>10, <1>11, <1>12, <1>13, <1>14, <1>15 DEF Work

LEMMA EveryStepMoves == ASSUME TypeInv, Safe, [Next]_vars PROVE MoveStep
<1>1. RowsOK
  BY TypeInvParts
<1>2. CASE UNCHANGED vars
  BY <1>2 DEF vars, MoveStep, Stays, RunsWritten
<1>3. ASSUME NEW w \in Workers, TakeMessage(w) PROVE MoveStep
  BY <1>3 DEF TakeMessage, Deliver, MoveStep, Stays, RunsWritten
<1>4. CASE Sweep
  <2>1. ASSUME NEW t \in DOMAIN runs, NEW i \in DOMAIN runs[t], TimeOut(t, i) PROVE MoveStep
    BY <1>1, <2>1, AnswerWrites DEF TimeOut, MoveStep, Stays
  <2>2. ASSUME NEW t \in DOMAIN transfers, Resume(t) PROVE MoveStep
    BY <1>1, <2>2, KeptRows DEF Resume, Ticket, MoveStep, Stays, RunsWritten
  <2> QED
    BY <1>4, <2>1, <2>2 DEF Sweep
<1>5. CASE External
  <2>1. ASSUME NEW t \in DOMAIN runs, NEW i \in DOMAIN runs[t], NEW success \in BOOLEAN,
               Answer(t, i, success)
        PROVE  MoveStep
    BY <1>1, <2>1, AnswerWrites DEF Answer, MoveStep, Stays
  <2>2. ASSUME NEW w \in Workers, Crash(w) PROVE MoveStep
    <3>1. workers'[w].pc = "idle"
      BY <2>2, TypeInvParts DEF Crash, Return, Idle, WorkersOK
    <3> QED
      BY <2>2, <3>1 DEF Crash, MoveStep, Stays, RunsWritten, Orphans
  <2>3. ASSUME NEW t \in DOMAIN transfers, NEW phase \in Phases, Lose(t, phase) PROVE MoveStep
    BY <2>3 DEF Lose, MoveStep, Stays, RunsWritten
  <2> QED
    BY <1>5, <2>1, <2>2, <2>3 DEF External
<1> QED
  BY <1>2, <1>3, <1>4, <1>5, EnvironmentMoves, WorkMoves DEF Next

\* What a recorded move leaves: the moves before it, and itself.
LEMMA RecordEffect ==
  ASSUME RowsOK, NEW target \in Statuses, NEW trigger \in Triggers, NEW depth \in Nat,
         RecordMove(target, trigger, depth)
  PROVE  /\ Len(transfers') = Latest + 1 /\ DOMAIN transfers' = 1..(Latest + 1)
         /\ \A t \in DOMAIN transfers : transfers'[t] = transfers[t]
         /\ \E new \in Transfer :
              /\ transfers'[Latest + 1] = new
              /\ new.trigger = trigger /\ new.before = ticket.status /\ new.after = target
              /\ new.depth = depth
              /\ \/ new.entered /\ new.state \in {"completed", "committed"}
                    /\ ticket'.status = target /\ ticket'.version = ticket.version + 1
                 \/ ~new.entered /\ new.state = "pending"
                    /\ ticket'.status = ticket.status /\ ticket'.version = ticket.version
<1> DEFINE planned == PlanRuns(ticket.status, target)
           direct == ~HasPhase(planned, "before")
           state == CASE planned = <<>> -> "completed"
                      [] planned # <<>> /\ direct -> "committed"
                      [] OTHER -> "pending"
           waits == planned # <<>>
           row == IF direct THEN EnterStatus(ticket, target) ELSE ticket
           tr == [state |-> state, trigger |-> trigger, before |-> ticket.status,
                  after |-> target, entered |-> direct, depth |-> depth]
<1>1. transfers' = Append(transfers, tr) /\ ticket' = [row EXCEPT !.waiting = waits]
  BY DEF RecordMove
<1>2. planned = <<>> => direct
  <2>1. Len(<<>>) = 0
    BY EmptySeq
  <2> QED
    BY <2>1 DEF HasPhase
<1>3. /\ direct \in BOOLEAN /\ waits \in BOOLEAN
      /\ (direct /\ state \in {"completed", "committed"}) \/ (~direct /\ state = "pending")
  BY <1>2
<1>4. /\ row \in Ticket
      /\ row.status = IF direct THEN target ELSE ticket.status
      /\ row.version = IF direct THEN ticket.version + 1 ELSE ticket.version
  BY KeptRows, EnterStatusType
<1> HIDE DEF row, waits, planned, direct, state
<1>5. ticket'.status = row.status /\ ticket'.version = row.version
  BY <1>1, <1>3, <1>4, WaitingType
<1>6. /\ tr \in Transfer /\ tr.trigger = trigger /\ tr.before = ticket.status
      /\ tr.after = target /\ tr.depth = depth /\ tr.entered = direct /\ tr.state = state
  BY <1>3, KeptRows DEF Transfer, TransferStates
<1> HIDE DEF tr
<1>7. /\ Len(transfers') = Latest + 1 /\ DOMAIN transfers' = 1..(Latest + 1)
      /\ \A t \in DOMAIN transfers : transfers'[t] = transfers[t]
      /\ transfers'[Latest + 1] = tr
  BY <1>1, <1>6, KeptRows, AppendProperties, LenProperties DEF Latest
<1> QED
  BY <1>3, <1>4, <1>5, <1>6, <1>7

\* The same for a transfer of the system's.
LEMMA SystemEffect ==
  ASSUME RowsOK, NEW row \in Ticket, NEW target \in Statuses,
         NEW moves \in Seq(Transfer), Len(moves) = Len(transfers), NEW plans,
         RecordSystemTransfer(row, moves, plans, target)
  PROVE  /\ Len(transfers') = Latest + 1 /\ DOMAIN transfers' = 1..(Latest + 1)
         /\ \A t \in DOMAIN transfers : transfers'[t] = moves[t]
         /\ transfers'[Latest + 1].trigger = "system"
         /\ transfers'[Latest + 1].state = "completed"
         /\ transfers'[Latest + 1].depth = 0
         /\ ticket'.status = target /\ ticket'.version = row.version + 1
<1> DEFINE tr == [state |-> "completed", trigger |-> "system", before |-> row.status,
                  after |-> target, entered |-> TRUE, depth |-> 0]
<1>1. transfers' = Append(moves, tr) /\ ticket' = EnterStatus(row, target)
  BY DEF RecordSystemTransfer
<1>2. /\ tr \in Transfer /\ tr.trigger = "system" /\ tr.state = "completed" /\ tr.depth = 0
  BY DEF Transfer, TransferStates, Triggers, Ticket
<1> HIDE DEF tr
<1>3. /\ Len(transfers') = Latest + 1 /\ DOMAIN transfers' = 1..(Latest + 1)
      /\ \A t \in DOMAIN transfers : transfers'[t] = moves[t]
      /\ transfers'[Latest + 1] = tr
  BY <1>1, <1>2, KeptRows, AppendProperties, LenProperties DEF Latest
<1> QED
  BY <1>1, <1>2, <1>3, EnterStatusType

\* One transfer changes its state, and whether it has entered its target.
LEMMA OneEffect ==
  ASSUME RowsOK, NEW t \in DOMAIN transfers, NEW state \in TransferStates
  PROVE  /\ transfers' = [transfers EXCEPT ![t].state = state] =>
              /\ Len(transfers') = Latest /\ DOMAIN transfers' = DOMAIN transfers
              /\ \A u \in DOMAIN transfers \ {t} : transfers'[u] = transfers[u]
              /\ transfers'[t].state = state
              /\ transfers'[t].trigger = transfers[t].trigger
              /\ transfers'[t].before = transfers[t].before
              /\ transfers'[t].after = transfers[t].after
              /\ transfers'[t].entered = transfers[t].entered
              /\ transfers'[t].depth = transfers[t].depth
         /\ CommitLocked(t) =>
              /\ Len(transfers') = Latest /\ DOMAIN transfers' = DOMAIN transfers
              /\ \A u \in DOMAIN transfers \ {t} : transfers'[u] = transfers[u]
              /\ transfers'[t].state = "committed"
              /\ transfers'[t].trigger = transfers[t].trigger
              /\ transfers'[t].before = transfers[t].before
              /\ transfers'[t].after = transfers[t].after
              /\ transfers'[t].entered
              /\ transfers'[t].depth = transfers[t].depth
              /\ ticket'.status = transfers[t].after /\ ticket'.version = ticket.version + 1
<1>1. transfers[t] \in Transfer /\ Len(transfers) \in Nat /\ DOMAIN transfers = 1..Len(transfers)
  BY KeptRows
<1>2. ASSUME transfers' = [transfers EXCEPT ![t].state = state]
      PROVE  /\ Len(transfers') = Latest /\ DOMAIN transfers' = DOMAIN transfers
             /\ \A u \in DOMAIN transfers \ {t} : transfers'[u] = transfers[u]
             /\ transfers'[t] = [transfers[t] EXCEPT !.state = state]
  BY <1>1, <1>2, TransferUpdate DEF Latest
<1>3. ASSUME CommitLocked(t)
      PROVE  /\ Len(transfers') = Latest /\ DOMAIN transfers' = DOMAIN transfers
             /\ \A u \in DOMAIN transfers \ {t} : transfers'[u] = transfers[u]
             /\ transfers'[t] = [transfers[t] EXCEPT !.state = "committed", !.entered = TRUE]
             /\ ticket' = EnterStatus(ticket, transfers[t].after)
  <2>1. Len(transfers') = Len(transfers)
    BY <1>3, TransferUpdate DEF CommitLocked, TransferStates
  <2> QED
    BY <1>1, <1>3, <2>1 DEF CommitLocked, Latest
<1>4. ASSUME CommitLocked(t)
      PROVE  ticket'.status = transfers[t].after /\ ticket'.version = ticket.version + 1
  <2>1. ticket \in Ticket /\ transfers[t].after \in Statuses
    BY <1>1, KeptRows DEF Transfer
  <2> QED
    BY <1>3, <1>4, <2>1, EnterStatusType
<1>5. /\ [transfers[t] EXCEPT !.state = state].state = state
      /\ [transfers[t] EXCEPT !.state = state].trigger = transfers[t].trigger
      /\ [transfers[t] EXCEPT !.state = state].before = transfers[t].before
      /\ [transfers[t] EXCEPT !.state = state].after = transfers[t].after
      /\ [transfers[t] EXCEPT !.state = state].entered = transfers[t].entered
      /\ [transfers[t] EXCEPT !.state = state].depth = transfers[t].depth
  BY <1>1 DEF Transfer
<1> DEFINE tr == [transfers[t] EXCEPT !.state = "committed", !.entered = TRUE]
<1>6. /\ tr.state = "committed" /\ tr.trigger = transfers[t].trigger
      /\ tr.before = transfers[t].before /\ tr.after = transfers[t].after
      /\ tr.entered = TRUE /\ tr.depth = transfers[t].depth
  BY <1>1 DEF Transfer
<1> QED
  BY <1>2, <1>3, <1>4, <1>5, <1>6

\* A cancellation changes nothing of a move but that it is cancelled if it was open.
LEMMA CancelEffect ==
  ASSUME RowsOK
  PROVE  /\ Cancelled \in Seq(Transfer) /\ Len(Cancelled) = Len(transfers)
         /\ DOMAIN Cancelled = DOMAIN transfers
         /\ \A t \in DOMAIN transfers :
              /\ ~IsOpen(t) => Cancelled[t] = transfers[t]
              /\ IsOpen(t) => Cancelled[t].state = "cancelled"
              /\ Cancelled[t].trigger = transfers[t].trigger
              /\ Cancelled[t].before = transfers[t].before
              /\ Cancelled[t].after = transfers[t].after
              /\ Cancelled[t].entered = transfers[t].entered
              /\ Cancelled[t].depth = transfers[t].depth
         /\ CancelledTicket \in Ticket /\ CancelledTicket.status = ticket.status
         /\ CancelledTicket.version = ticket.version
<1>1. DOMAIN Cancelled = DOMAIN transfers
  BY DEF Cancelled
<1>2. CancelledTicket.status = ticket.status /\ CancelledTicket.version = ticket.version
  BY KeptRows DEF CancelledTicket, Unlocked, Ticket
<1>3. ASSUME NEW t \in DOMAIN transfers
      PROVE  /\ ~IsOpen(t) => Cancelled[t] = transfers[t]
             /\ IsOpen(t) => Cancelled[t].state = "cancelled"
             /\ Cancelled[t].trigger = transfers[t].trigger
             /\ Cancelled[t].before = transfers[t].before
             /\ Cancelled[t].after = transfers[t].after
             /\ Cancelled[t].entered = transfers[t].entered
             /\ Cancelled[t].depth = transfers[t].depth
  <2>1. transfers[t] \in Transfer
    BY KeptRows
  <2> QED
    BY <2>1 DEF Cancelled, Transfer
<1> QED
  BY <1>1, <1>2, <1>3, CancelledRows

---------------------------------------------------------------------------
(* Where the ticket goes *)

LEMMA StatusAccounted ==
  ASSUME TypeInv, Safe, MoveStep, ticket'.status # ticket.status
  PROVE  /\ ticket'.version > ticket.version
         /\ IsPipeline(ticket'.status) \/ IsTriage(ticket.status) =>
              transfers'[Len(transfers')].trigger = "system" /\ Len(transfers') = Latest + 1
<1>1. RowsOK /\ ticket.version \in Nat
  BY TypeInvParts, KeptRows DEF Ticket
<1>2. ~Stays
  BY DEF Stays
<1>3. CASE Records
  <2>1. PICK target \in Statuses, trigger \in Triggers \ {"system"}, depth \in Nat :
          MayMove(target, trigger) /\ RecordMove(target, trigger, depth)
    BY <1>3 DEF Records
  <2>2. ticket'.status = target /\ ticket'.version = ticket.version + 1
    BY <1>1, <2>1, RecordEffect
  <2> QED
    BY <1>1, <2>1, <2>2 DEF MayMove, Resolves
<1>4. CASE Overrides
  <2>1. PICK target \in Statuses :
          RecordSystemTransfer(CancelledTicket, Cancelled, CancelledRuns, target)
    BY <1>4 DEF Overrides
  <2> QED
    BY <1>1, <2>1, CancelEffect, SystemEffect
<1>5. CASE Cancels
  BY <1>1, <1>5, CancelEffect DEF Cancels
<1>6. CASE Transplants
  <2>1. PICK target \in Statuses : RecordSystemTransfer(ticket, transfers, runs, target)
    BY <1>6 DEF Transplants
  <2> QED
    BY <1>1, <2>1, KeptRows, SystemEffect
<1>7. CASE RetryFailed
  BY <1>1, <1>7, KeptRows DEF RetryFailed, Ticket
<1>8. CASE Ends
  BY <1>1, <1>8, KeptRows DEF Ends, Close, Unlocked, Ticket
<1>9. CASE Enters
  <2>1. PICK t \in DOMAIN transfers : CommitResult(t) = "enter" /\ CommitLocked(t)
    BY <1>9 DEF Enters
  <2>2. /\ transfers[t].state = "pending" /\ ticket.status = transfers[t].before
    BY <2>1 DEF CommitResult
  <2>3. ~IsTriage(ticket.status) /\ ~IsPipeline(transfers[t].after)
    BY <2>2 DEF Safe, Sound
  <2>4. ticket'.status = transfers[t].after /\ ticket'.version = ticket.version + 1
    BY <1>1, <2>1, OneEffect DEF TransferStates
  <2> QED
    BY <1>1, <2>3, <2>4
<1> QED
  BY <1>2, <1>3, <1>4, <1>5, <1>6, <1>7, <1>8, <1>9 DEF MoveStep

\* Every change of a ticket's status makes a new version, and only the system takes it out of
\* triage or into a status of the pipeline, at whatever moment a queued move commits.
THEOREM StatusIsTheSystems == Spec => StatusIsAccountedFor
<1>1. TypeInv /\ Safe /\ [Next]_vars =>
        [ticket'.status # ticket.status =>
           /\ ticket'.version > ticket.version
           /\ IsPipeline(ticket'.status) \/ IsTriage(ticket.status) =>
                transfers'[Len(transfers')].trigger = "system" /\ Len(transfers') = Latest + 1]_vars
  BY StatusAccounted, EveryStepMoves
<1> QED
  BY <1>1, SafeInvariant, PTL DEF Spec, StatusIsAccountedFor

LEMMA RulesHold ==
  ASSUME TypeInv, Safe, MoveStep, NEW t \in DOMAIN transfers',
         t \in DOMAIN transfers => ~transfers[t].entered,
         transfers'[t].entered, transfers'[t].trigger \in {"manual", "action"},
         <<transfers'[t].before, transfers'[t].after>> \in Ruled
  PROVE  ~rulesBroken
<1>1. RowsOK /\ Latest \in Nat /\ DOMAIN transfers = 1..Latest
  BY TypeInvParts, KeptRows DEF Latest
<1>2. CASE Stays
  BY <1>2 DEF Stays
<1>3. CASE Records
  <2>1. PICK target \in Statuses, trigger \in Triggers \ {"system"}, depth \in Nat :
          MayMove(target, trigger) /\ RecordMove(target, trigger, depth)
    BY <1>3 DEF Records
  <2>2. t = Latest + 1
    BY <1>1, <2>1, RecordEffect
  <2>3. /\ transfers'[t].trigger = trigger /\ transfers'[t].before = ticket.status
        /\ transfers'[t].after = target
    BY <1>1, <2>1, <2>2, RecordEffect
  <2> QED
    BY <2>1, <2>3 DEF MayMove, Breaks
<1>4. CASE Overrides
  <2>1. PICK target \in Statuses :
          RecordSystemTransfer(CancelledTicket, Cancelled, CancelledRuns, target)
    BY <1>4 DEF Overrides
  <2> QED
    BY <1>1, <2>1, CancelEffect, SystemEffect
<1>5. CASE Cancels
  BY <1>1, <1>5, CancelEffect DEF Cancels
<1>6. CASE Transplants
  <2>1. PICK target \in Statuses : RecordSystemTransfer(ticket, transfers, runs, target)
    BY <1>6 DEF Transplants
  <2>2. ticket \in Ticket /\ transfers \in Seq(Transfer)
    BY <1>1, KeptRows
  <2>3. /\ DOMAIN transfers' = 1..(Latest + 1)
        /\ \A u \in DOMAIN transfers : transfers'[u] = transfers[u]
        /\ transfers'[Latest + 1].trigger = "system"
    BY <1>1, <2>1, <2>2, SystemEffect
  <2> QED
    BY <1>1, <2>3
<1>7. CASE RetryFailed
  <2>1. Latest \in DOMAIN transfers
    BY <1>1, <1>7 DEF RetryFailed, MayRetry
  <2> DEFINE state == IF transfers[Latest].entered THEN "committed" ELSE "pending"
  <2>2. state \in TransferStates /\ transfers' = [transfers EXCEPT ![Latest].state = state]
    BY <1>7 DEF RetryFailed, TransferStates
  <2> HIDE DEF state
  <2> QED
    BY <1>1, <2>1, <2>2, OneEffect
<1>8. CASE Ends
  <2>1. PICK u \in DOMAIN transfers, state \in {"completed", "failed", "cancelled"} :
          transfers' = [transfers EXCEPT ![u].state = state]
    BY <1>8 DEF Ends, Close, Closed
  <2> QED
    BY <1>1, <2>1, OneEffect DEF TransferStates
<1>9. CASE Enters
  <2>1. PICK u \in DOMAIN transfers : CommitResult(u) = "enter" /\ CommitLocked(u)
    BY <1>9 DEF Enters
  <2>2. ~Breaks(transfers[u].before, transfers[u].after, transfers[u].trigger)
    BY <2>1 DEF CommitResult
  <2>3. t = u
    BY <1>1, <2>1, OneEffect DEF TransferStates
  <2>4. /\ transfers'[t].trigger = transfers[t].trigger
        /\ transfers'[t].before = transfers[t].before
        /\ transfers'[t].after = transfers[t].after
    BY <1>1, <2>1, <2>3, OneEffect DEF TransferStates
  <2> QED
    BY <2>2, <2>3, <2>4 DEF Breaks
<1> QED
  BY <1>2, <1>3, <1>4, <1>5, <1>6, <1>7, <1>8, <1>9 DEF MoveStep

\* A move of the workflow enters its target only while the transition's rules hold, however
\* long after the request its `before` actions end.
THEOREM RulesHoldOnEveryEntry == Spec => RulesHoldOnEntry
<1>1. TypeInv /\ Safe /\ [Next]_vars =>
        [\A t \in DOMAIN transfers' :
           /\ t \in DOMAIN transfers => ~transfers[t].entered
           /\ transfers'[t].entered
           /\ transfers'[t].trigger \in {"manual", "action"}
           /\ <<transfers'[t].before, transfers'[t].after>> \in Ruled
           => ~rulesBroken]_vars
  BY RulesHold, EveryStepMoves
<1> QED
  BY <1>1, SafeInvariant, PTL DEF Spec, RulesHoldOnEntry

LEMMA DeletedGrows ==
  ASSUME [Next]_vars
  PROVE  deleted' = deleted \/ DeleteStatus
<1>1. CASE UNCHANGED vars
  BY <1>1 DEF vars
<1>2. CASE Environment
  BY <1>2 DEF Environment, SystemMove, RequestMove, ChangeWorkflow, AdoptTicket, EditFields,
              RetryFailed, RetryStalled, CheckDeletion, Evacuate
<1>3. ASSUME NEW w \in Workers, TakeMessage(w) \/ Work(w)
      PROVE  deleted' = deleted
  BY <1>3 DEF TakeMessage, Deliver, Work, Check, ReadRuns, Claim, Load, HandleEffect, FinishWith,
              HandleCall, HandleMove, HandleChange, Finish, Fail, Commit, Advance, Finalize,
              MakeDeferred
<1>4. CASE Sweep \/ External
  BY <1>4 DEF Sweep, TimeOut, Resume, External, Answer, Crash, Lose
<1> QED
  BY <1>1, <1>2, <1>3, <1>4 DEF Next

LEMMA StatusKept == ASSUME TypeInv, Safe, TicketHasAStatus, [Next]_vars PROVE TicketHasAStatus'
<1>1. RowsOK /\ \A s \in deleted : ~IsPipeline(s)
  BY TypeInvParts, StatusesAssumption DEF TypeInv, TypeOK
<1>2. CASE DeleteStatus
  BY <1>2 DEF DeleteStatus, TicketHasAStatus
<1>3. CASE deleted' = deleted
  <2>1. CASE Stays
    BY <1>3, <2>1 DEF Stays, TicketHasAStatus
  <2>2. CASE Records
    <3>1. PICK target \in Statuses, trigger \in Triggers \ {"system"}, depth \in Nat :
            MayMove(target, trigger) /\ RecordMove(target, trigger, depth)
      BY <2>2 DEF Records
    <3>2. ticket'.status \in {target, ticket.status}
      BY <1>1, <3>1, RecordEffect
    <3> QED
      BY <1>3, <3>1, <3>2 DEF MayMove, TicketHasAStatus
  <2>3. CASE Overrides
    <3>1. PICK target \in Statuses :
            /\ RecordSystemTransfer(CancelledTicket, Cancelled, CancelledRuns, target)
            /\ IsPipeline(target) \/ target \notin deleted
      BY <2>3 DEF Overrides
    <3>2. ticket'.status = target
      BY <1>1, <3>1, CancelEffect, SystemEffect
    <3> QED
      BY <1>1, <1>3, <3>1, <3>2 DEF TicketHasAStatus
  <2>4. CASE Cancels
    BY <1>1, <1>3, <2>4, CancelEffect DEF Cancels, TicketHasAStatus
  <2>5. CASE Transplants
    <3>1. PICK target \in Statuses \ deleted : RecordSystemTransfer(ticket, transfers, runs, target)
      BY <2>5 DEF Transplants
    <3>2. ticket'.status = target
      BY <1>1, <3>1, KeptRows, SystemEffect
    <3> QED
      BY <1>3, <3>1, <3>2 DEF TicketHasAStatus
  <2>6. CASE RetryFailed
    BY <1>1, <1>3, <2>6, KeptRows DEF RetryFailed, Ticket, TicketHasAStatus
  <2>7. CASE Ends
    BY <1>1, <1>3, <2>7, KeptRows DEF Ends, Close, Unlocked, Ticket, TicketHasAStatus
  <2>8. CASE Enters
    <3>1. PICK t \in DOMAIN transfers : CommitResult(t) = "enter" /\ CommitLocked(t)
      BY <2>8 DEF Enters
    <3>2. transfers[t].after \notin deleted
      BY <3>1 DEF CommitResult
    <3>3. ticket'.status = transfers[t].after
      BY <1>1, <3>1, OneEffect DEF TransferStates
    <3> QED
      BY <1>3, <3>2, <3>3 DEF TicketHasAStatus
  <2> QED
    BY <2>1, <2>2, <2>3, <2>4, <2>5, <2>6, <2>7, <2>8, EveryStepMoves DEF MoveStep
<1> QED
  BY <1>2, <1>3, DeletedGrows

\* No ticket is ever left at a status that was deleted.
THEOREM EveryTicketHasAStatus == Spec => []TicketHasAStatus
<1>1. Init => TicketHasAStatus
  BY DEF Init, TicketHasAStatus
<1> QED
  BY <1>1, StatusKept, SafeInvariant, PTL DEF Spec

---------------------------------------------------------------------------
(* The engine implements TicketMoves *)

LEMMA OpenMovesAre ==
  ASSUME RowsOK, Safe
  PROVE  /\ OpenIds = {} => OpenMoves = {}
         /\ \A t \in OpenIds :
              /\ OpenIds = {t} /\ t = Latest /\ t \in DOMAIN transfers
              /\ OpenMoves = {[to |-> transfers[t].after, entered |-> transfers[t].entered]}
<1>1. ASSUME NEW t \in OpenIds
      PROVE  OpenIds = {t} /\ t = Latest /\ t \in DOMAIN transfers
  BY <1>1 DEF Safe, LockedWhileOpen, OpenIds
<1> QED
  BY <1>1 DEF OpenMoves

\* No transfer is open after a step that records one that is not and leaves none open.
LEMMA NoneOpen ==
  ASSUME \A t \in DOMAIN transfers' : transfers'[t].state \notin {"pending", "committed"}
  PROVE  OpenMoves' = {}
BY DEF OpenMoves, OpenIds, IsOpen

\* The one transfer that is open after a step is the move in flight.
LEMMA OneOpen ==
  ASSUME NEW t \in DOMAIN transfers', transfers'[t].state \in {"pending", "committed"},
         \A u \in DOMAIN transfers' \ {t} : transfers'[u].state \notin {"pending", "committed"}
  PROVE  OpenMoves' = {[to |-> transfers'[t].after, entered |-> transfers'[t].entered]}
<1>1. OpenIds' = {t}
  BY DEF OpenIds, IsOpen
<1> QED
  BY <1>1 DEF OpenMoves

LEMMA RecordsRequest == ASSUME TypeInv, Safe, Records PROVE \E to \in Statuses : Moves!Request(to)
<1>1. PICK target \in Statuses, trigger \in Triggers \ {"system"}, depth \in Nat :
        MayMove(target, trigger) /\ RecordMove(target, trigger, depth)
  BY DEF Records
<1>2. RowsOK /\ Latest \in Nat /\ DOMAIN transfers = 1..Latest
  BY TypeInvParts, KeptRows DEF Latest
<1>3. /\ OpenIds = {} /\ target.workflow = ticket.status.workflow /\ target # ticket.status
      /\ ~IsTriage(ticket.status) /\ ~IsPipeline(target)
  BY <1>1 DEF MayMove, Transforming, Resolves
<1>4. /\ DOMAIN transfers' = 1..(Latest + 1)
      /\ \A t \in DOMAIN transfers : transfers'[t] = transfers[t]
  BY <1>1, <1>2, RecordEffect
<1>5. PICK new \in Transfer :
        /\ transfers'[Latest + 1] = new /\ new.after = target
        /\ \/ new.entered /\ new.state \in {"completed", "committed"} /\ ticket'.status = target
           \/ ~new.entered /\ new.state = "pending" /\ ticket'.status = ticket.status
  BY <1>1, <1>2, RecordEffect
<1>6. \A t \in DOMAIN transfers : transfers'[t].state \notin {"pending", "committed"}
  BY <1>3, <1>4 DEF OpenIds, IsOpen
<1>7. /\ OpenMoves = {} /\ new.entered \in BOOLEAN
      /\ Moves!IsTriage(ticket.status) = IsTriage(ticket.status)
      /\ Moves!IsPipeline(target) = IsPipeline(target)
  BY <1>2, <1>3, OpenMovesAre DEF Transfer, Moves!IsTriage, Moves!IsPipeline, IsTriage, IsPipeline
<1>8. CASE new.state = "completed"
  <2>1. OpenMoves' = {}
    BY <1>2, <1>4, <1>5, <1>6, <1>8, NoneOpen
  <2> QED
    BY <1>3, <1>5, <1>7, <1>8, <2>1 DEF Moves!Request
<1>9. CASE new.state # "completed"
  <2>1. OpenMoves' = {[to |-> target, entered |-> new.entered]}
    BY <1>2, <1>4, <1>5, <1>6, <1>9, OneOpen
  <2>2. OpenMoves' = {Moves!Move(target, new.entered)}
    BY <2>1 DEF Moves!Move
  <2>3. \/ OpenMoves' = {Moves!Move(target, FALSE)} /\ ticket'.status = ticket.status
        \/ OpenMoves' = {Moves!Move(target, TRUE)} /\ ticket'.status = target
    BY <1>5, <1>7, <2>2
  <2> QED
    BY <1>3, <1>7, <2>3 DEF Moves!Request
<1> QED
  BY <1>8, <1>9

\* A transfer of the system's leaves no move in flight.
LEMMA SystemLeavesNone ==
  ASSUME RowsOK, NEW row \in Ticket, NEW target \in Statuses,
         NEW moves \in Seq(Transfer), Len(moves) = Len(transfers), NEW plans,
         \A t \in DOMAIN transfers : moves[t].state \notin {"pending", "committed"},
         RecordSystemTransfer(row, moves, plans, target)
  PROVE  OpenMoves' = {} /\ ticket'.status = target
<1>1. /\ DOMAIN transfers' = 1..(Latest + 1) /\ transfers'[Latest + 1].state = "completed"
      /\ \A t \in DOMAIN transfers : transfers'[t] = moves[t]
      /\ ticket'.status = target
  BY SystemEffect
<1>2. Latest \in Nat /\ DOMAIN transfers = 1..Latest
  BY KeptRows DEF Latest
<1> QED
  BY <1>1, <1>2, NoneOpen

LEMMA ReopensAfterRetry == ASSUME TypeInv, Safe, RetryFailed PROVE \E to \in Statuses : Moves!Reopen(to)
<1> DEFINE t == Latest
           state == IF transfers[t].entered THEN "committed" ELSE "pending"
<1>1. RowsOK /\ t \in DOMAIN transfers /\ transfers[t] \in Transfer
  BY TypeInvParts, KeptRows DEF RetryFailed, MayRetry, Latest
<1>2. transfers[t].state = "failed" /\ OpenIds = {}
  BY <1>1 DEF RetryFailed, MayRetry, IsOpen, Safe, LockedWhileOpen, OpenIds
<1>3. transfers' = [transfers EXCEPT ![t].state = state] /\ state \in {"pending", "committed"}
  BY DEF RetryFailed
<1>4. ticket'.status = ticket.status /\ ticket.status = ExpectedAt(t)
  BY <1>1, KeptRows DEF RetryFailed, MayRetry, Ticket
<1>5. ~IsTriage(transfers[t].before) /\ ~IsPipeline(transfers[t].after)
  BY <1>1, <1>2 DEF Safe, Sound
<1>6. ~IsTriage(ticket.status)
  BY <1>4, <1>5, StatusesAssumption DEF ExpectedAt, IsTriage, IsPipeline
<1> HIDE DEF t, state
<1>7. OpenMoves' = {[to |-> transfers[t].after, entered |-> transfers[t].entered]}
  <2>1. /\ DOMAIN transfers' = DOMAIN transfers /\ transfers'[t].state = state
        /\ \A u \in DOMAIN transfers \ {t} : transfers'[u] = transfers[u]
        /\ transfers'[t].after = transfers[t].after
        /\ transfers'[t].entered = transfers[t].entered
    BY <1>1, <1>3, OneEffect DEF TransferStates
  <2>2. \A u \in DOMAIN transfers : transfers[u].state \notin {"pending", "committed"}
    BY <1>2 DEF OpenIds, IsOpen
  <2> QED
    BY <1>1, <1>3, <2>1, <2>2, OneOpen
<1>8. /\ OpenMoves = {} /\ transfers[t].entered \in BOOLEAN /\ transfers[t].after \in Statuses
      /\ ~Moves!IsTriage(ticket.status) /\ ~Moves!IsPipeline(transfers[t].after)
  BY <1>1, <1>2, <1>5, <1>6, OpenMovesAre
     DEF Transfer, Moves!IsTriage, Moves!IsPipeline, IsTriage, IsPipeline
<1>9. \/ OpenMoves' = {Moves!Move(transfers[t].after, FALSE)}
      \/ /\ OpenMoves' = {Moves!Move(transfers[t].after, TRUE)}
         /\ transfers[t].after = ticket.status
  BY <1>4, <1>7, <1>8 DEF Moves!Move, ExpectedAt
<1> QED
  BY <1>4, <1>8, <1>9 DEF Moves!Reopen

LEMMA EndsMove == ASSUME TypeInv, Safe, Ends PROVE Moves!End
<1>1. PICK t \in DOMAIN transfers, state \in {"completed", "failed", "cancelled"} :
        IsOpen(t) /\ Close(t, state)
  BY DEF Ends
<1>2. RowsOK /\ t \in OpenIds /\ OpenIds = {t}
  BY <1>1, TypeInvParts, OnlyOpen DEF OpenIds
<1>3. /\ DOMAIN transfers' = DOMAIN transfers /\ transfers'[t].state = state
      /\ \A u \in DOMAIN transfers \ {t} : transfers'[u] = transfers[u]
  BY <1>1, <1>2, OneEffect DEF Close, Closed, TransferStates
<1>4. OpenMoves' = {}
  <2>1. \A u \in DOMAIN transfers \ {t} : transfers[u].state \notin {"pending", "committed"}
    BY <1>2 DEF OpenIds, IsOpen
  <2> QED
    BY <1>3, <2>1, NoneOpen
<1>5. OpenMoves # {} /\ ticket'.status = ticket.status
  BY <1>1, <1>2, OpenMovesAre, KeptRows DEF Close, Unlocked, Ticket
<1> QED
  BY <1>4, <1>5 DEF Moves!End

LEMMA EntersTarget == ASSUME TypeInv, Safe, Enters PROVE Moves!Enter
<1>1. PICK t \in DOMAIN transfers : CommitResult(t) = "enter" /\ CommitLocked(t)
  BY DEF Enters
<1>2. RowsOK /\ transfers[t].state = "pending" /\ ~transfers[t].entered
  BY <1>1, TypeInvParts DEF CommitResult, Safe, Sound
<1>3. t \in OpenIds /\ OpenIds = {t}
  BY <1>2, OnlyOpen DEF OpenIds, IsOpen
<1>4. /\ DOMAIN transfers' = DOMAIN transfers /\ transfers'[t].state = "committed"
      /\ transfers'[t].after = transfers[t].after /\ transfers'[t].entered
      /\ \A u \in DOMAIN transfers \ {t} : transfers'[u] = transfers[u]
      /\ ticket'.status = transfers[t].after
  BY <1>1, <1>2, OneEffect DEF TransferStates
<1>5. transfers'[t].entered = TRUE
  <2>1. RowsOK'
    BY <1>1, <1>2, CommitRows
  <2>2. transfers'[t] \in Transfer
    BY <1>4, <2>1, ElementOfSeq, LenProperties DEF RowsOK
  <2> QED
    BY <1>4, <2>2 DEF Transfer
<1>6. OpenMoves' = {[to |-> transfers[t].after, entered |-> TRUE]}
  <2>1. \A u \in DOMAIN transfers \ {t} : transfers[u].state \notin {"pending", "committed"}
    BY <1>3 DEF OpenIds, IsOpen
  <2>2. OpenMoves' = {[to |-> transfers'[t].after, entered |-> transfers'[t].entered]}
    BY <1>4, <2>1, OneOpen
  <2> QED
    BY <1>4, <1>5, <2>2
<1> DEFINE m == [to |-> transfers[t].after, entered |-> transfers[t].entered]
<1>7. m \in OpenMoves /\ m.to = transfers[t].after /\ ~m.entered
  BY <1>2, <1>3, OpenMovesAre
<1> HIDE DEF m
<1> QED
  BY <1>4, <1>6, <1>7 DEF Moves!Enter, Moves!Move

LEMMA Implements == ASSUME TypeInv, Safe, MoveStep PROVE [Moves!Next]_(Moves!vars)
<1>1. RowsOK
  BY TypeInvParts
<1>2. CASE Stays
  BY <1>2 DEF Stays, Moves!vars, OpenMoves, OpenIds, IsOpen
<1>3. CASE Records
  BY <1>3, RecordsRequest DEF Moves!Next
<1>4. CASE Overrides
  <2>1. PICK target \in Statuses :
          /\ RecordSystemTransfer(CancelledTicket, Cancelled, CancelledRuns, target)
          /\ target.workflow = ticket.status.workflow
          /\ IsPipeline(target) \/ ~IsPipeline(ticket.status)
    BY <1>4 DEF Overrides
  <2>2. \A t \in DOMAIN transfers : Cancelled[t].state \notin {"pending", "committed"}
    BY <1>1, CancelEffect, SafeCancel, KeptRows
  <2>3. OpenMoves' = {} /\ ticket'.status = target
    BY <1>1, <2>1, <2>2, CancelEffect, SystemLeavesNone
  <2>4. Moves!Triage(target) \/ Moves!Evacuate(target)
    BY <2>1, <2>3 DEF Moves!Triage, Moves!Evacuate, Moves!IsPipeline, IsPipeline
  <2> QED
    BY <2>4 DEF Moves!Next
<1>5. CASE Cancels
  <2>1. OpenMoves' = {} /\ ticket'.status = ticket.status
    <3>1. \A t \in DOMAIN Cancelled : Cancelled[t].state \notin {"pending", "committed"}
      BY <1>1, CancelEffect, SafeCancel, KeptRows
    <3> QED
      BY <1>1, <1>5, <3>1, CancelEffect, NoneOpen DEF Cancels
  <2> QED
    BY <2>1 DEF Moves!Next, Moves!End, Moves!vars
<1>6. CASE Transplants
  <2>1. PICK target \in Statuses :
          /\ ~Transforming /\ target.workflow # ticket.status.workflow
          /\ IsPipeline(target) \/ IsTriage(ticket.status) => target.key = ticket.status.key
          /\ RecordSystemTransfer(ticket, transfers, runs, target)
    BY <1>6 DEF Transplants
  <2>2. /\ OpenIds = {} /\ OpenMoves = {}
        /\ \A t \in DOMAIN transfers : transfers[t].state \notin {"pending", "committed"}
    BY <1>1, <2>1, OpenMovesAre DEF Transforming, OpenIds, IsOpen
  <2>3. OpenMoves' = {} /\ ticket'.status = target
    BY <1>1, <2>1, <2>2, KeptRows, SystemLeavesNone
  <2>4. Moves!Transplant(target)
    BY <2>1, <2>2, <2>3 DEF Moves!Transplant, Moves!IsPipeline, Moves!IsTriage, IsPipeline, IsTriage
  <2> QED
    BY <2>4 DEF Moves!Next
<1>7. CASE RetryFailed
  BY <1>7, ReopensAfterRetry DEF Moves!Next
<1>8. CASE Ends
  BY <1>8, EndsMove DEF Moves!Next
<1>9. CASE Enters
  BY <1>9, EntersTarget DEF Moves!Next
<1> QED
  BY <1>2, <1>3, <1>4, <1>5, <1>6, <1>7, <1>8, <1>9 DEF MoveStep

\* The engine implements TicketMoves: every step of workers, people, callbacks and the watchdog
\* is a step of what ADR-0028 promises of a ticket, or none.
THEOREM EngineKeepsItsPromise == Spec => MovesAsPromised
<1>1. Init => Moves!Init
  <2> SUFFICES ASSUME Init PROVE Moves!Init
    OBVIOUS
  <2>1. DOMAIN transfers = {} /\ ticket.status = InitStatus
    BY EmptySeq, LenProperties DEF Init
  <2> QED
    BY <2>1 DEF Moves!Init, OpenMoves, OpenIds
<1>2. TypeInv /\ Safe /\ [Next]_vars => [Moves!Next]_(Moves!vars)
  BY Implements, EveryStepMoves
<1> QED
  BY <1>1, <1>2, SafeInvariant, PTL DEF Spec, MovesAsPromised, Moves!Spec
---------------------------------------------------------------------------
(* What is finished stays, and chains of moves end *)

\* Only a running run has an owner, and a cancelled move has nothing left to run.
Owned == \A t \in DOMAIN runs : \A i \in DOMAIN runs[t] :
           runs[t][i].owner # NoWorker => runs[t][i].state = "running"

Over == \A t \in DOMAIN transfers : transfers[t].state = "cancelled" =>
          \A i \in DOMAIN runs[t] : runs[t][i].state \notin {"queued", "running"}

\* What a step keeps of a run.
RunKept(t, i) ==
  /\ runs'[t][i].action = runs[t][i].action
  /\ runs'[t][i].deferred => runs[t][i].deferred \/ Defers(t, i)
  /\ runs'[t][i].owner # NoWorker => runs'[t][i].state = "running"
  /\ runs[t][i].state = "succeeded" => runs'[t][i] = runs[t][i]
  /\ transfers'[t].state = "cancelled" => runs'[t][i].state \notin {"queued", "running"}

\* What it keeps of a transfer.
Kept(t) ==
  /\ t \in DOMAIN transfers' /\ transfers'[t].depth = transfers[t].depth
  /\ t \in DOMAIN runs' /\ DOMAIN runs'[t] = DOMAIN runs[t]
  /\ \A i \in DOMAIN runs[t] : RunKept(t, i)
  /\ transfers[t].state = "cancelled" => transfers'[t] = transfers[t] /\ runs'[t] = runs[t]

\* A transfer it records.
Recorded(t) ==
  /\ transfers'[t].depth <= MaxDepth \/ MovesOn(transfers'[t].depth)
  /\ transfers'[t].state # "cancelled"
  /\ \A i \in DOMAIN runs'[t] : ~runs'[t][i].deferred /\ runs'[t][i].owner = NoWorker

KeepsRows ==
  /\ \A t \in DOMAIN transfers : Kept(t)
  /\ \A t \in DOMAIN transfers' : t \notin DOMAIN transfers => Recorded(t)
  /\ DOMAIN runs' = DOMAIN transfers'

LEMMA SameKept ==
  ASSUME RowsOK, Owned, Over, NEW t \in DOMAIN transfers,
         t \in DOMAIN transfers', t \in DOMAIN runs',
         transfers'[t] = transfers[t], runs'[t] = runs[t]
  PROVE  Kept(t)
BY KeptRows DEF Kept, RunKept, Owned, Over

\* What Skip leaves of a run.
LEMMA SkipKeeps ==
  ASSUME NEW rs \in Seq(Run), NEW states, NEW i \in DOMAIN rs
  PROVE  /\ Skip(rs, states)[i].action = rs[i].action
         /\ Skip(rs, states)[i].phase = rs[i].phase
         /\ Skip(rs, states)[i].deferred = rs[i].deferred
         /\ rs[i].state \notin states => Skip(rs, states)[i] = rs[i]
         /\ rs[i].state \in states =>
              Skip(rs, states)[i].state = "skipped" /\ Skip(rs, states)[i].owner = NoWorker
<1>1. rs[i] \in Run
  BY LenProperties, ElementOfSeq
<1> QED
  BY <1>1 DEF Skip, Run

LEMMA RequeuedKeeps ==
  ASSUME NEW rs \in Seq(Run), NEW i \in DOMAIN rs
  PROVE  /\ Requeued(rs)[i].action = rs[i].action
         /\ Requeued(rs)[i].deferred = rs[i].deferred
         /\ rs[i].state = "succeeded" => Requeued(rs)[i] = rs[i]
         /\ rs[i].state # "succeeded" => Requeued(rs)[i].owner = NoWorker
<1>1. rs[i] \in Run
  BY LenProperties, ElementOfSeq
<1> QED
  BY <1>1 DEF Requeued, Run

\* The runs of a new move defer nothing and belong to nobody.
LEMMA PlannedAnew ==
  ASSUME NEW from \in Statuses, NEW to \in Statuses, NEW i \in DOMAIN PlanRuns(from, to)
  PROVE  ~PlanRuns(from, to)[i].deferred /\ PlanRuns(from, to)[i].owner = NoWorker
<1> DEFINE Anew == {run \in Run : ~run.deferred /\ run.owner = NoWorker}
           moving(actions) == IF Linked(from, to) THEN actions[<<from, to>>] ELSE <<>>
<1>1. /\ moving(BeforeActions) \in Seq(Actions) /\ moving(AfterActions) \in Seq(Actions)
      /\ EnterActions[to] \in Seq(Actions)
  BY ActionsAssumption, EmptySeq DEF Linked
<1>2. ASSUME NEW phase \in Phases, NEW actions \in Seq(Actions)
      PROVE  Planned(phase, actions) \in Seq(Anew)
  <2>1. Len(actions) \in Nat /\ \A j \in 1..Len(actions) : actions[j] \in Actions
    BY LenProperties, ElementOfSeq
  <2>2. Planned(phase, actions) \in [1..Len(actions) -> Anew]
    BY <2>1 DEF Planned, NewRun, Run
  <2> HIDE DEF Anew
  <2> QED
    BY <2>1, <2>2, SeqOf
<1>3. PlanRuns(from, to) \in Seq(Anew)
  <2> HIDE DEF Anew
  <2>1. /\ Planned("before", moving(BeforeActions)) \in Seq(Anew)
        /\ Planned("enter", EnterActions[to]) \in Seq(Anew)
        /\ Planned("after", moving(AfterActions)) \in Seq(Anew)
    BY <1>1, <1>2 DEF Phases
  <2> QED
    BY <2>1, ConcatProperties DEF PlanRuns
<1>4. PlanRuns(from, to)[i] \in Anew
  <2> HIDE DEF Anew
  <2> QED
    BY <1>3, LenProperties, ElementOfSeq
<1> QED
  BY <1>4

\* A step that leaves the transfers alone.
LEMMA StaysKeeps == ASSUME RowsOK, Owned, Over, Stays PROVE KeepsRows
<1>1. /\ UNCHANGED transfers /\ RunsWritten
      /\ DOMAIN runs = DOMAIN transfers /\ DOMAIN transfers' = DOMAIN transfers
      /\ \A t \in DOMAIN runs : runs[t] \in Seq(Run)
      /\ \A t \in DOMAIN runs : \A i \in DOMAIN runs[t] : runs[t][i] \in Run
  <2>1. \A t \in DOMAIN runs : \A i \in DOMAIN runs[t] : runs[t][i] \in Run
    BY KeptRows, LenProperties, ElementOfSeq
  <2> QED
    BY <2>1, KeptRows DEF Stays
<1>2. CASE UNCHANGED runs
  BY <1>1, <1>2, SameKept DEF KeepsRows
<1>3. ASSUME NEW u \in DOMAIN runs, NEW j \in DOMAIN runs[u], NEW run,
             Writes(u, j, run), runs' = [runs EXCEPT ![u][j] = run]
      PROVE  KeepsRows
  <2>1. /\ DOMAIN runs' = DOMAIN runs
        /\ \A t \in DOMAIN runs \ {u} : runs'[t] = runs[t]
        /\ DOMAIN runs'[u] = DOMAIN runs[u] /\ runs'[u][j] = run
        /\ \A i \in DOMAIN runs[u] \ {j} : runs'[u][i] = runs[u][i]
    BY <1>3
  <2>2. transfers[u].state # "cancelled"
    BY <1>1, <1>3 DEF Writes, Over
  <2>3. \A i \in DOMAIN runs[u] : RunKept(u, i)
    BY <1>1, <1>3, <2>1, <2>2 DEF Writes, RunKept, Owned
  <2>4. Kept(u)
    BY <1>1, <2>1, <2>2, <2>3 DEF Kept
  <2>5. ASSUME NEW t \in DOMAIN transfers \ {u} PROVE Kept(t)
    BY <1>1, <2>1, <2>5, SameKept
  <2> QED
    BY <1>1, <2>1, <2>4, <2>5 DEF KeepsRows
<1>4. ASSUME NEW w \in Workers, Orphans(w) PROVE KeepsRows
  <2>1. /\ DOMAIN runs' = DOMAIN runs
        /\ \A t \in DOMAIN runs : DOMAIN runs'[t] = DOMAIN runs[t]
        /\ \A t \in DOMAIN runs : \A i \in DOMAIN runs[t] :
             runs'[t][i] = IF runs[t][i].owner = w
                           THEN [runs[t][i] EXCEPT !.owner = NoWorker] ELSE runs[t][i]
    BY <1>4 DEF Orphans
  <2>2. ASSUME NEW t \in DOMAIN runs, NEW i \in DOMAIN runs[t]
        PROVE  RunKept(t, i) /\ (runs[t][i].state # "running" => runs'[t][i] = runs[t][i])
    <3>1. runs[t][i].owner = w => runs[t][i].state = "running"
      BY WorkersAssumption DEF Owned
    <3>2. CASE runs[t][i].owner = w
      <4>1. /\ runs'[t][i].action = runs[t][i].action /\ runs'[t][i].owner = NoWorker
            /\ runs'[t][i].deferred = runs[t][i].deferred
            /\ runs'[t][i].state = "running"
        BY <1>1, <2>1, <3>1, <3>2 DEF Run
      <4> QED
        BY <1>1, <3>1, <3>2, <4>1 DEF RunKept, Over
    <3>3. CASE runs[t][i].owner # w
      BY <1>1, <2>1, <3>3 DEF RunKept, Owned, Over
    <3> QED
      BY <3>2, <3>3, <3>1
  <2>3. ASSUME NEW t \in DOMAIN transfers, transfers[t].state = "cancelled"
        PROVE  runs'[t] = runs[t]
    <3>1. \A i \in DOMAIN runs[t] : runs'[t][i] = runs[t][i]
      BY <1>1, <2>2, <2>3 DEF Over
    <3>2. runs'[t] = [i \in DOMAIN runs[t] |-> runs'[t][i]]
      BY <1>1, <1>4 DEF Orphans
    <3>3. runs[t] = [i \in DOMAIN runs[t] |-> runs[t][i]]
      BY <1>1, LenProperties
    <3> QED
      BY <3>1, <3>2, <3>3
  <2> QED
    BY <1>1, <2>1, <2>2, <2>3 DEF Kept, KeepsRows
<1> QED
  BY <1>1, <1>2, <1>3, <1>4 DEF RunsWritten

\* Moves are recorded after the others, which a cancellation may have changed.
LEMMA RecordsKeeps == ASSUME RowsOK, Owned, Over, Records PROVE KeepsRows
<1>1. PICK target \in Statuses, trigger \in Triggers \ {"system"}, depth \in Nat :
        /\ RecordMove(target, trigger, depth)
        /\ depth <= MaxDepth \/ MovesOn(depth)
  BY DEF Records, MayMove
<1> DEFINE planned == PlanRuns(ticket.status, target)
<1>2. /\ DOMAIN transfers' = 1..(Latest + 1)
      /\ \A t \in DOMAIN transfers : transfers'[t] = transfers[t]
      /\ transfers'[Latest + 1].depth = depth
      /\ transfers'[Latest + 1].state # "cancelled"
  BY <1>1, RecordEffect DEF Triggers
<1>3. /\ planned \in Seq(Run) /\ runs' = Append(runs, planned)
      /\ \A i \in DOMAIN planned : ~planned[i].deferred /\ planned[i].owner = NoWorker
  BY <1>1, KeptRows, PlanRunsType, PlannedAnew DEF RecordMove
<1> HIDE DEF planned
<1>4. /\ DOMAIN runs' = 1..(Latest + 1) /\ runs'[Latest + 1] = planned
      /\ \A t \in DOMAIN runs : runs'[t] = runs[t]
  BY <1>3, KeptRows, AppendProperties, LenProperties DEF Latest, RowsOK
<1>5. ASSUME NEW t \in DOMAIN transfers PROVE Kept(t)
  BY <1>2, <1>4, KeptRows, SameKept DEF Latest
<1>6. ASSUME NEW t \in DOMAIN transfers', t \notin DOMAIN transfers PROVE Recorded(t)
  <2>1. t = Latest + 1
    BY <1>2, <1>6, KeptRows DEF Latest
  <2> QED
    BY <1>1, <1>2, <1>3, <1>4, <2>1 DEF Recorded
<1> QED
  BY <1>2, <1>4, <1>5, <1>6 DEF KeepsRows

\* What a cancellation keeps, whatever is recorded after it.
LEMMA CancelKeeps ==
  ASSUME RowsOK, Owned, Over, NEW t \in DOMAIN transfers,
         t \in DOMAIN transfers', t \in DOMAIN runs',
         transfers'[t] = Cancelled[t], runs'[t] = CancelledRuns[t]
  PROVE  Kept(t)
<1>1. t \in DOMAIN runs /\ runs[t] \in Seq(Run)
  BY KeptRows
<1>2. CASE IsOpen(t)
  <2>1. /\ transfers'[t].state = "cancelled" /\ transfers'[t].depth = transfers[t].depth
        /\ transfers[t].state # "cancelled"
    BY <1>2, CancelEffect DEF IsOpen
  <2>2. runs'[t] = Skip(runs[t], {"queued", "running"})
    BY <1>1, <1>2 DEF CancelledRuns
  <2>3. DOMAIN runs'[t] = DOMAIN runs[t]
    BY <1>1, <2>2, SkipType
  <2>4. ASSUME NEW i \in DOMAIN runs[t] PROVE RunKept(t, i)
    BY <1>1, <2>2, SkipKeeps DEF RunKept, Owned
  <2> QED
    BY <1>1, <2>1, <2>3, <2>4 DEF Kept
<1>3. CASE ~IsOpen(t)
  BY <1>1, <1>3, CancelEffect, SameKept DEF CancelledRuns
<1> QED
  BY <1>2, <1>3

\* A transfer of the system's, recorded after others.
LEMMA SystemKeeps ==
  ASSUME RowsOK, Owned, Over, NEW row \in Ticket, NEW target \in Statuses,
         NEW moves \in Seq(Transfer), Len(moves) = Len(transfers),
         NEW plans \in Seq(Seq(Run)), Len(plans) = Len(runs),
         RecordSystemTransfer(row, moves, plans, target),
         \/ moves = transfers /\ plans = runs
         \/ moves = Cancelled /\ plans = CancelledRuns
  PROVE  KeepsRows
<1>1. /\ DOMAIN transfers' = 1..(Latest + 1)
      /\ \A t \in DOMAIN transfers : transfers'[t] = moves[t]
      /\ transfers'[Latest + 1].depth = 0 /\ transfers'[Latest + 1].state = "completed"
  BY SystemEffect
<1>2. runs' = Append(plans, <<>>) /\ <<>> \in Seq(Run)
  BY EmptySeq DEF RecordSystemTransfer
<1>3. /\ DOMAIN runs' = 1..(Latest + 1) /\ runs'[Latest + 1] = <<>>
      /\ \A t \in DOMAIN runs : runs'[t] = plans[t]
  BY <1>2, KeptRows, AppendProperties, LenProperties DEF Latest, RowsOK
<1>4. ASSUME NEW t \in DOMAIN transfers PROVE Kept(t)
  <2>1. t \in DOMAIN transfers' /\ t \in DOMAIN runs' /\ t \in DOMAIN runs
    BY <1>1, <1>3, KeptRows DEF Latest
  <2> QED
    BY <1>1, <1>3, <2>1, SameKept, CancelKeeps
<1>5. ASSUME NEW t \in DOMAIN transfers', t \notin DOMAIN transfers PROVE Recorded(t)
  <2>1. t = Latest + 1
    BY <1>1, <1>5, KeptRows DEF Latest
  <2>2. DOMAIN runs'[t] = {}
    BY <1>3, <2>1
  <2> QED
    BY <1>1, <2>1, <2>2, BoundsAssumption DEF Recorded
<1> QED
  BY <1>1, <1>3, <1>4, <1>5 DEF KeepsRows

\* Every step keeps what has finished.
LEMMA EveryStepKeeps == ASSUME TypeInv, Safe, Owned, Over, [Next]_vars PROVE KeepsRows
<1>1. RowsOK
  BY TypeInvParts
<1>2. CASE Overrides
  <2>1. PICK target \in Statuses :
          RecordSystemTransfer(CancelledTicket, Cancelled, CancelledRuns, target)
    BY <1>2 DEF Overrides
  <2> QED
    BY <1>1, <2>1, CancelledRows, SystemKeeps
<1>3. CASE Transplants
  <2>1. PICK target \in Statuses : RecordSystemTransfer(ticket, transfers, runs, target)
    BY <1>3 DEF Transplants
  <2> QED
    BY <1>1, <2>1, KeptRows, SystemKeeps DEF RowsOK
<1>4. CASE Cancels
  <2>1. /\ transfers' = Cancelled /\ runs' = CancelledRuns
        /\ DOMAIN transfers' = DOMAIN transfers /\ DOMAIN runs' = DOMAIN transfers
    BY <1>1, <1>4, KeptRows, CancelEffect DEF Cancels, CancelledRuns
  <2> QED
    BY <1>1, <2>1, CancelKeeps DEF KeepsRows
<1>5. CASE RetryFailed
  <2> DEFINE state == IF transfers[Latest].entered THEN "committed" ELSE "pending"
  <2>1. /\ Latest \in DOMAIN transfers /\ transfers[Latest].state # "cancelled"
        /\ transfers' = [transfers EXCEPT ![Latest].state = state]
        /\ runs' = [runs EXCEPT ![Latest] = Requeued(@)]
        /\ state \in TransferStates /\ state # "cancelled"
    BY <1>1, <1>5, KeptRows DEF RetryFailed, MayRetry, Latest, TransferStates
  <2> HIDE DEF state
  <2>2. /\ DOMAIN transfers' = DOMAIN transfers
        /\ \A u \in DOMAIN transfers \ {Latest} : transfers'[u] = transfers[u]
        /\ transfers'[Latest].state = state
        /\ transfers'[Latest].depth = transfers[Latest].depth
    BY <1>1, <2>1, OneEffect
  <2>3. /\ DOMAIN runs' = DOMAIN transfers /\ DOMAIN runs = DOMAIN transfers
        /\ runs'[Latest] = Requeued(runs[Latest]) /\ runs[Latest] \in Seq(Run)
        /\ \A u \in DOMAIN transfers \ {Latest} : runs'[u] = runs[u]
    BY <1>1, <2>1, KeptRows
  <2>4. DOMAIN runs'[Latest] = DOMAIN runs[Latest]
    BY <2>3, RequeuedType
  <2>5. ASSUME NEW i \in DOMAIN runs[Latest] PROVE RunKept(Latest, i)
    BY <2>1, <2>2, <2>3, RequeuedKeeps DEF RunKept, Owned
  <2>6. Kept(Latest)
    BY <2>1, <2>2, <2>3, <2>4, <2>5 DEF Kept
  <2>7. ASSUME NEW t \in DOMAIN transfers \ {Latest} PROVE Kept(t)
    BY <1>1, <2>2, <2>3, SameKept
  <2> QED
    BY <2>2, <2>3, <2>6, <2>7 DEF KeepsRows
<1>6. CASE Ends
  <2>1. PICK u \in DOMAIN transfers, state \in {"completed", "failed"} :
          IsOpen(u) /\ Close(u, state)
    BY <1>6 DEF Ends
  <2>2. /\ DOMAIN transfers' = DOMAIN transfers
        /\ \A t \in DOMAIN transfers \ {u} : transfers'[t] = transfers[t]
        /\ transfers'[u].state = state /\ transfers'[u].depth = transfers[u].depth
    BY <1>1, <2>1, OneEffect DEF Close, Closed, TransferStates
  <2>3. /\ DOMAIN runs' = DOMAIN transfers /\ DOMAIN runs = DOMAIN transfers
        /\ runs'[u] = Skip(runs[u], {"queued"}) /\ runs[u] \in Seq(Run)
        /\ \A t \in DOMAIN transfers \ {u} : runs'[t] = runs[t]
    BY <1>1, <2>1, KeptRows DEF Close, Unqueued
  <2>4. DOMAIN runs'[u] = DOMAIN runs[u]
    BY <2>3, SkipType
  <2>5. ASSUME NEW i \in DOMAIN runs[u] PROVE RunKept(u, i)
    BY <2>2, <2>3, SkipKeeps DEF RunKept, Owned
  <2>6. Kept(u)
    BY <2>1, <2>2, <2>3, <2>4, <2>5 DEF Kept, IsOpen
  <2>7. ASSUME NEW t \in DOMAIN transfers \ {u} PROVE Kept(t)
    BY <1>1, <2>2, <2>3, SameKept
  <2> QED
    BY <2>2, <2>3, <2>6, <2>7 DEF KeepsRows
<1>7. CASE Enters
  <2>1. PICK u \in DOMAIN transfers : CommitResult(u) = "enter" /\ CommitLocked(u)
    BY <1>7 DEF Enters
  <2>2. /\ DOMAIN transfers' = DOMAIN transfers
        /\ \A t \in DOMAIN transfers \ {u} : transfers'[t] = transfers[t]
        /\ transfers'[u].state = "committed" /\ transfers'[u].depth = transfers[u].depth
        /\ transfers[u].state = "pending"
    BY <1>1, <2>1, OneEffect DEF CommitResult, TransferStates
  <2>3. runs' = runs /\ DOMAIN runs = DOMAIN transfers
    BY <1>1, <2>1, KeptRows DEF CommitLocked
  <2>4. Kept(u)
    BY <2>2, <2>3 DEF Kept, RunKept, Owned
  <2>5. ASSUME NEW t \in DOMAIN transfers \ {u} PROVE Kept(t)
    BY <1>1, <2>2, <2>3, SameKept
  <2> QED
    BY <2>2, <2>3, <2>4, <2>5 DEF KeepsRows
<1> QED
  BY <1>1, <1>2, <1>3, <1>4, <1>5, <1>6, <1>7, StaysKeeps, RecordsKeeps, EveryStepMoves DEF MoveStep

LEMMA FinishedStep ==
  ASSUME TypeInv, Safe, Owned, Over, [Next]_vars
  PROVE  Owned' /\ Over'
<1>1. RowsOK /\ KeepsRows /\ DOMAIN runs = DOMAIN transfers
  BY TypeInvParts, EveryStepKeeps, KeptRows
<1>2. ASSUME NEW t \in DOMAIN runs', NEW i \in DOMAIN runs'[t], runs'[t][i].owner # NoWorker
      PROVE  runs'[t][i].state = "running"
  BY <1>1, <1>2 DEF KeepsRows, Kept, RunKept, Recorded
<1>3. ASSUME NEW t \in DOMAIN transfers', transfers'[t].state = "cancelled", NEW i \in DOMAIN runs'[t]
      PROVE  runs'[t][i].state \notin {"queued", "running"}
  BY <1>1, <1>3 DEF KeepsRows, Kept, RunKept, Recorded
<1> QED
  BY <1>2, <1>3 DEF Owned, Over

LEMMA FinishedInvariant == Spec => [](Owned /\ Over)
<1>1. Init => Owned /\ Over
  <2> SUFFICES ASSUME Init PROVE Owned /\ Over
    OBVIOUS
  <2>1. DOMAIN transfers = {} /\ DOMAIN runs = {}
    BY EmptySeq, LenProperties DEF Init
  <2> QED
    BY <2>1 DEF Owned, Over
<1> QED
  BY <1>1, FinishedStep, SafeInvariant, PTL DEF Spec

\* A cancelled move keeps its runs and itself as they are, and a succeeded run is never run or
\* judged again: no late worker, callback, timeout or retry of the engine reaches them.
THEOREM FinishedIsFinal == Spec => FinishedStays
<1>1. TypeInv /\ Safe /\ Owned /\ Over /\ [Next]_vars =>
        [\A t \in DOMAIN transfers :
           /\ transfers[t].state = "cancelled" => transfers'[t] = transfers[t] /\ runs'[t] = runs[t]
           /\ \A i \in DOMAIN runs[t] :
                runs[t][i].state = "succeeded" => runs'[t][i] = runs[t][i]]_vars
  BY EveryStepKeeps DEF KeepsRows, Kept, RunKept
<1> QED
  BY <1>1, SafeInvariant, FinishedInvariant, PTL DEF Spec, FinishedStays
---------------------------------------------------------------------------
(* Chains of moves *)

\* Run i of transfer t may still move the ticket.
MayGoOn(t, i) == runs[t][i].action.kind = "move" => transfers[t].depth + 1 <= MaxDepth

\* A worker notes a later move, and makes one, only for a run that may.
Heeds(w) ==
  /\ workers[w].pc = "finish" /\ workers[w].outcome = "defer" => MayGoOn(Task(w), workers[w].run)
  /\ workers[w].pc = "deferred" => \A i \in workers[w].todo : MayGoOn(Task(w), i)

Chains ==
  /\ ChainsAreBounded
  /\ \A t \in DOMAIN runs : \A i \in DOMAIN runs[t] : runs[t][i].deferred => MayGoOn(t, i)
  /\ \A w \in Workers : Heeds(w)

\* A run that may move the ticket may after any step, as its action and depth stay.
LEMMA GoesOn ==
  ASSUME RowsOK, KeepsRows, NEW t \in DOMAIN transfers, NEW i \in DOMAIN runs[t], MayGoOn(t, i)
  PROVE  MayGoOn(t, i)'
BY KeptRows DEF KeepsRows, Kept, RunKept, MayGoOn

\* A step that changes one worker, whose new record notes no later move.
LEMMA HeedsKept ==
  ASSUME RowsOK, WorkersOK, KeepsRows, \A v \in Workers : Heeds(v), NEW w \in Workers,
         \A v \in Workers \ {w} : workers'[v] = workers[v],
         Heeds(w)'
  PROVE  \A v \in Workers : Heeds(v)'
<1>1. ASSUME NEW v \in Workers \ {w} PROVE Heeds(v)'
  <2>1. workers'[v] = workers[v] /\ TaskOK(v)
    BY DEF WorkersOK
  <2>2. CASE workers[v].pc = "finish" /\ workers[v].outcome = "defer"
    <3>1. /\ Task(v) \in DOMAIN transfers /\ workers[v].run \in DOMAIN runs[Task(v)]
          /\ MayGoOn(Task(v), workers[v].run)
      BY <2>1, <2>2 DEF TaskOK, Heeds
    <3>2. MayGoOn(Task(v), workers[v].run)'
      BY <2>1, <3>1 DEF KeepsRows, Kept, RunKept, MayGoOn, Task
    <3> QED
      BY <2>1, <2>2, <3>2 DEF Heeds, Task
  <2>3. CASE workers[v].pc = "deferred"
    <3>1. /\ Task(v) \in DOMAIN transfers /\ workers[v].todo \subseteq DOMAIN runs[Task(v)]
          /\ \A i \in workers[v].todo : MayGoOn(Task(v), i)
      BY <2>1, <2>3 DEF TaskOK, Heeds
    <3>2. \A i \in workers'[v].todo : MayGoOn(Task(v), i)'
      BY <2>1, <3>1 DEF KeepsRows, Kept, RunKept, MayGoOn, Task
    <3> QED
      BY <2>1, <2>3, <3>2 DEF Heeds, Task
  <2> QED
    BY <2>1, <2>2, <2>3 DEF Heeds
<1> QED
  BY <1>1

\* A worker that continues, returns or goes on to another step notes nothing.
LEMMA QuietHeeds ==
  ASSUME NEW w \in Workers,
         workers'[w].pc \notin {"finish", "deferred"}
  PROVE  Heeds(w)'
BY DEF Heeds

LEMMA FinishHeeds ==
  ASSUME RowsOK, WorkersOK, KeepsRows, \A v \in Workers : Heeds(v), NEW w \in Workers,
         workers[w].pc # "idle", NEW outcome, FinishWith(w, outcome)
  PROVE  \A v \in Workers : Heeds(v)'
<1>1. workers[w].then \in {"return", "fail", "advance"}
  BY DEF WorkersOK, Worker
<1>2. \/ workers' = Return(w)
      \/ workers' = Continue(w, {}, "fail")
      \/ workers' = Continue(w, workers[w].todo, workers[w].then)
  BY DEF FinishWith
<1>3. /\ workers'[w].pc \notin {"finish", "deferred"}
      /\ \A v \in Workers \ {w} : workers'[v] = workers[v]
  BY <1>1, <1>2, ContinueQuiet
<1> QED
  BY <1>3, HeedsKept, QuietHeeds

\* A worker that goes on to write a result notes a later move only below the depth.
LEMMA FinishingHeeds ==
  ASSUME RowsOK, WorkersOK, KeepsRows, \A v \in Workers : Heeds(v), NEW w \in Workers,
         workers[w].pc = "handle", NEW outcome \in {"succeed", "defer", "retry", "fail", "await"},
         workers' = Finishing(w, outcome),
         outcome = "defer" => MayGoOn(Task(w), workers[w].run)
  PROVE  \A v \in Workers : Heeds(v)'
<1> DEFINE result == Result(w, outcome)
<1>1. workers \in [Workers -> Worker] /\ TaskOK(w)
  BY DEF WorkersOK
<1>2. result \in {"succeed", "defer", "retry", "fail", "await"} /\ (result = "defer" => outcome = "defer")
  BY DEF Result
<1> HIDE DEF result
<1>3. workers' = [workers EXCEPT ![w].pc = "finish", ![w].view = "open", ![w].outcome = result]
  BY DEF Finishing, result
<1>4. /\ workers'[w].pc = "finish" /\ workers'[w].outcome = result
      /\ workers'[w].job = workers[w].job /\ workers'[w].run = workers[w].run
      /\ \A v \in Workers \ {w} : workers'[v] = workers[v]
  BY <1>1, <1>3 DEF Worker
<1>5. Task(w) \in DOMAIN transfers /\ workers[w].run \in DOMAIN runs[Task(w)]
  BY <1>1 DEF TaskOK
<1>6. result = "defer" => MayGoOn(Task(w), workers[w].run)'
  BY <1>2, <1>4, <1>5 DEF KeepsRows, Kept, RunKept, MayGoOn, Task
<1>7. Heeds(w)'
  BY <1>4, <1>6 DEF Heeds, Task
<1> QED
  BY <1>4, <1>7, HeedsKept

LEMMA WorkHeeds ==
  ASSUME TypeInv, KeepsRows, Chains, NEW w \in Workers, Work(w)
  PROVE  \A v \in Workers : Heeds(v)'
<1>1. /\ RowsOK /\ WorkersOK /\ workers \in [Workers -> Worker] /\ TaskOK(w)
      /\ \A v \in Workers : Heeds(v)
  BY TypeInvParts DEF WorkersOK, Chains
<1>2. ASSUME \/ workers' = Return(w)
             \/ \E todo : \E then \in {"return", "fail", "advance"} :
                  workers' = Continue(w, todo, then)
      PROVE  \A v \in Workers : Heeds(v)'
  <2>1. /\ workers'[w].pc \notin {"finish", "deferred"}
        /\ \A v \in Workers \ {w} : workers'[v] = workers[v]
    BY <1>1, <1>2, ContinueQuiet
  <2> QED
    BY <1>1, <2>1, HeedsKept, QuietHeeds
<1>3. ASSUME NEW k, workers' = [workers EXCEPT ![w] = k], k.pc \notin {"finish", "deferred"}
      PROVE  \A v \in Workers : Heeds(v)'
  <2>1. /\ workers'[w].pc \notin {"finish", "deferred"}
        /\ \A v \in Workers \ {w} : workers'[v] = workers[v]
    BY <1>1, <1>3
  <2> QED
    BY <1>1, <2>1, HeedsKept, QuietHeeds
<1>4. ASSUME NEW pc \in {"read", "remaining", "finalize"}, workers' = Do(w, pc)
      PROVE  \A v \in Workers : Heeds(v)'
  <2>1. /\ workers' = [workers EXCEPT ![w] = [workers[w] EXCEPT !.pc = pc]]
        /\ [workers[w] EXCEPT !.pc = pc].pc = pc
    BY <1>1, <1>4 DEF Do, Worker
  <2> QED
    BY <1>3, <2>1
<1>5. CASE Check(w)
  BY <1>2, <1>4, <1>5 DEF Check
<1>6. CASE ReadRuns(w)
  <2> DEFINE rs == runs[Task(w)]
             own == {i \in DOMAIN rs : rs[i].phase = workers[w].phase}
             stops == {i \in own : Stops(rs[i])}
             seen == {i \in own : rs[i].state = "queued" /\ \A j \in stops : i < j}
             running == \E i \in stops : IsFirst(i, stops) /\ rs[i].state = "running"
             then == CASE stops = {} -> "advance"
                       [] stops # {} /\ running -> "return"
                       [] OTHER -> "fail"
  <2>1. workers' = Continue(w, seen, then)
    BY <1>6 DEF ReadRuns
  <2>2. then \in {"return", "fail", "advance"}
    OBVIOUS
  <2> HIDE DEF seen, then
  <2> QED
    BY <1>2, <2>1, <2>2
<1>7. CASE Claim(w)
  <2>1. PICK i \in workers[w].todo :
          \/ workers' = [workers EXCEPT ![w] = Claiming(w, i, runs[Task(w)][i])]
          \/ workers' = Return(w)
    BY <1>7 DEF Claim
  <2>2. Claiming(w, i, runs[Task(w)][i]).pc \in {"load", "handle"}
    BY <1>1 DEF Claiming, Worker
  <2> QED
    BY <1>2, <1>3, <2>1, <2>2
<1>8. CASE Load(w)
  <2>1. PICK view \in {"open", "closed", "there"} :
          workers' = [workers EXCEPT ![w].pc = "handle", ![w].view = view]
    BY <1>8 DEF Load
  <2>2. /\ workers'[w].pc = "handle"
        /\ \A v \in Workers \ {w} : workers'[v] = workers[v]
    BY <1>1, <2>1 DEF Worker
  <2> QED
    BY <1>1, <2>2, HeedsKept, QuietHeeds
<1>9. ASSUME NEW outcome, HandleEffect(w, outcome) PROVE \A v \in Workers : Heeds(v)'
  BY <1>1, <1>9, FinishHeeds DEF HandleEffect
<1>10. CASE Finish(w)
  BY <1>1, <1>10, FinishHeeds DEF Finish
<1>11. CASE HandleCall(w)
  BY <1>1, <1>11, FinishingHeeds DEF HandleCall
<1>12. CASE HandleMove(w)
  <2> DEFINE outcome == MoveOutcome(w, CurrentRun(w).action.to)
  <2>1. outcome \in {"succeed", "defer", "retry", "fail", "await"}
    BY DEF MoveOutcome
  <2>2. outcome = "defer" => transfers[Task(w)].depth + 1 <= MaxDepth
    <3>1. workers[w].pc # "idle"
      BY <1>12 DEF HandleMove
    <3>2. transfers[Task(w)] \in Transfer
      BY <1>1, <3>1, KeptTask
    <3>3. transfers[Task(w)].depth + 1 \in Nat
      BY <3>2 DEF Transfer
    <3> QED
      BY <3>3, BoundsAssumption DEF MoveOutcome
  <2> HIDE DEF outcome
  <2>3. workers[w].pc = "handle" /\ workers' = Finishing(w, outcome)
    BY <1>12 DEF HandleMove, outcome
  <2> QED
    BY <1>1, <2>1, <2>2, <2>3, FinishingHeeds DEF MayGoOn
<1>13. CASE HandleChange(w)
  <2>1. PICK outcome \in {"succeed", "defer", "retry", "fail", "await"} :
          workers' = Finishing(w, outcome)
    BY <1>13 DEF HandleChange
  <2>2. MayGoOn(Task(w), workers[w].run)
    BY <1>13 DEF HandleChange, MayGoOn, CurrentRun
  <2> QED
    BY <1>1, <1>13, <2>1, <2>2, FinishingHeeds DEF HandleChange
<1>14. CASE Fail(w)
  BY <1>2, <1>14 DEF Fail
<1>15. CASE Commit(w)
  BY <1>2, <1>4, <1>15 DEF Commit
<1>16. CASE Advance(w)
  <2>1. \/ workers' = Do(w, "finalize")
        \/ \E next : workers' = [workers EXCEPT ![w].pc = "check", ![w].phase = next]
    BY <1>16 DEF Advance
  <2>2. ASSUME NEW next, workers' = [workers EXCEPT ![w].pc = "check", ![w].phase = next]
        PROVE  \A v \in Workers : Heeds(v)'
    <3>1. PICK task \in Worker : task = workers[w]
      BY <1>1
    <3>2. [task EXCEPT !.pc = "check", !.phase = next].pc = "check"
      BY DEF Worker
    <3>3. workers' = [workers EXCEPT ![w] = [task EXCEPT !.pc = "check", !.phase = next]]
      BY <2>2, <3>1
    <3> QED
      BY <1>3, <3>2, <3>3
  <2> QED
    BY <1>4, <2>1, <2>2
<1>17. CASE Finalize(w)
  <2> DEFINE todo == DeferredRuns(Task(w))
  <2>1. workers[w].pc = "finalize"
    BY <1>17 DEF Finalize
  <2>2. /\ Task(w) \in DOMAIN transfers /\ Task(w) \in DOMAIN runs
        /\ todo \subseteq DOMAIN runs[Task(w)] /\ \A i \in todo : MayGoOn(Task(w), i)
    BY <1>1, <2>1, KeptTask DEF DeferredRuns, Chains
  <2> HIDE DEF todo
  <2>3. \/ workers' = Return(w)
        \/ workers' = [workers EXCEPT ![w].pc = "deferred", ![w].todo = todo]
    BY <1>17 DEF Finalize, todo
  <2>4. CASE workers' = [workers EXCEPT ![w].pc = "deferred", ![w].todo = todo]
    <3>1. /\ workers'[w].pc = "deferred" /\ workers'[w].todo = todo
          /\ workers'[w].job = workers[w].job
          /\ \A v \in Workers \ {w} : workers'[v] = workers[v]
      BY <1>1, <2>4 DEF Worker
    <3>2. \A i \in todo : MayGoOn(Task(w), i)'
      BY <2>2, <3>1 DEF KeepsRows, Kept, RunKept, MayGoOn, Task
    <3>3. Heeds(w)'
      BY <3>1, <3>2 DEF Heeds, Task
    <3> QED
      BY <1>1, <3>1, <3>3, HeedsKept
  <2> QED
    BY <1>2, <2>3, <2>4
<1>18. CASE MakeDeferred(w)
  <2>1. PICK i \in workers[w].todo :
          \/ workers' = Return(w)
          \/ workers' = [workers EXCEPT ![w].todo = @ \ {i}]
    BY <1>18 DEF MakeDeferred
  <2>2. workers[w].pc = "deferred"
    BY <1>18 DEF MakeDeferred
  <2>3. CASE workers' = [workers EXCEPT ![w].todo = @ \ {i}]
    <3>1. /\ workers'[w].pc = "deferred" /\ workers'[w].todo = workers[w].todo \ {i}
          /\ workers'[w].job = workers[w].job
          /\ \A v \in Workers \ {w} : workers'[v] = workers[v]
      BY <1>1, <2>2, <2>3 DEF Worker
    <3>2. /\ Task(w) \in DOMAIN transfers /\ workers[w].todo \subseteq DOMAIN runs[Task(w)]
          /\ \A j \in workers[w].todo : MayGoOn(Task(w), j)
      BY <1>1, <2>2 DEF TaskOK, Heeds
    <3>3. \A j \in workers'[w].todo : MayGoOn(Task(w), j)'
      BY <3>1, <3>2 DEF KeepsRows, Kept, RunKept, MayGoOn, Task
    <3>4. Heeds(w)'
      BY <3>1, <3>3 DEF Heeds, Task
    <3> QED
      BY <1>1, <3>1, <3>4, HeedsKept
  <2> QED
    BY <1>2, <2>1, <2>3
<1> QED
  BY <1>5, <1>6, <1>7, <1>8, <1>9, <1>10, <1>11, <1>12, <1>13, <1>14, <1>15, <1>16, <1>17, <1>18
     DEF Work

LEMMA OthersHeed ==
  ASSUME TypeInv, KeepsRows, Chains,
         \/ UNCHANGED workers
         \/ \E w \in Workers : TakeMessage(w) \/ Crash(w)
  PROVE  \A v \in Workers : Heeds(v)'
<1>1. /\ RowsOK /\ WorkersOK /\ workers \in [Workers -> Worker]
      /\ \A v \in Workers : Heeds(v)
  BY TypeInvParts DEF WorkersOK, Chains
<1>2. CASE UNCHANGED workers
  <2>1. ASSUME NEW v \in Workers PROVE Heeds(v)'
    <3>1. TaskOK(v) /\ Heeds(v) /\ workers'[v] = workers[v] /\ Task(v)' = Task(v)
      BY <1>1, <1>2 DEF WorkersOK, Task
    <3> QED
      BY <3>1 DEF TaskOK, Heeds, KeepsRows, Kept, RunKept, MayGoOn
  <2> QED
    BY <2>1
<1>3. ASSUME NEW w \in Workers, Crash(w) PROVE \A v \in Workers : Heeds(v)'
  BY <1>1, <1>3, ContinueQuiet, HeedsKept, QuietHeeds DEF Crash
<1>4. ASSUME NEW w \in Workers, NEW t, NEW phase, Deliver(w, t, phase)
      PROVE  \A v \in Workers : Heeds(v)'
  <2> DEFINE k == [Idle EXCEPT !.pc = "read", !.job = <<t, phase>>, !.phase = phase]
  <2>1. k.pc = "read"
    BY DEF Idle
  <2>2. UNCHANGED workers \/ workers' = [workers EXCEPT ![w] = k]
    BY <1>4 DEF Deliver
  <2> HIDE DEF k
  <2>3. CASE workers' = [workers EXCEPT ![w] = k]
    <3>1. /\ workers'[w].pc \notin {"finish", "deferred"}
          /\ \A v \in Workers \ {w} : workers'[v] = workers[v]
      BY <1>1, <2>1, <2>3
    <3> QED
      BY <1>1, <3>1, HeedsKept, QuietHeeds
  <2> QED
    BY <1>2, <2>2, <2>3
<1> QED
  BY <1>2, <1>3, <1>4 DEF TakeMessage

LEMMA ChainsStep ==
  ASSUME TypeInv, Safe, Owned, Over, Chains, [Next]_vars
  PROVE  Chains'
<1>1. RowsOK /\ WorkersOK /\ KeepsRows /\ DOMAIN runs = DOMAIN transfers
  BY TypeInvParts, EveryStepKeeps, KeptRows
<1>2. \/ UNCHANGED workers
      \/ \E w \in Workers : TakeMessage(w) \/ Crash(w)
      \/ \E w \in Workers : Work(w)
  BY DEF Next, vars, Environment, SystemMove, RequestMove, ChangeWorkflow, AdoptTicket, EditFields,
         RetryFailed, RetryStalled, CheckDeletion, Evacuate, DeleteStatus, Sweep, TimeOut, Resume,
         External, Answer, Lose
<1>3. \A w \in Workers : Heeds(w)'
  <2>1. CASE \/ UNCHANGED workers
             \/ \E w \in Workers : TakeMessage(w) \/ Crash(w)
    BY <1>1, <2>1, OthersHeed
  <2>2. ASSUME NEW w \in Workers, Work(w) PROVE \A v \in Workers : Heeds(v)'
    BY <1>1, <2>2, WorkHeeds
  <2> QED
    BY <1>2, <2>1, <2>2
<1>4. ASSUME NEW t \in DOMAIN transfers' PROVE transfers'[t].depth <= MaxDepth
  <2>1. CASE t \in DOMAIN transfers
    BY <1>1, <2>1 DEF KeepsRows, Kept, Chains, ChainsAreBounded
  <2>2. ASSUME MovesOn(transfers'[t].depth) PROVE transfers'[t].depth <= MaxDepth
    BY <2>2 DEF MovesOn, Chains, Heeds, MayGoOn
  <2> QED
    BY <1>1, <2>1, <2>2 DEF KeepsRows, Recorded
<1>5. ASSUME NEW t \in DOMAIN runs', NEW i \in DOMAIN runs'[t], runs'[t][i].deferred
      PROVE  MayGoOn(t, i)'
  <2>1. t \in DOMAIN transfers /\ i \in DOMAIN runs[t]
    BY <1>1, <1>5 DEF KeepsRows, Kept, Recorded
  <2>2. Defers(t, i) => MayGoOn(t, i)
    BY DEF Defers, Chains, Heeds
  <2>3. MayGoOn(t, i)
    BY <1>1, <1>5, <2>1, <2>2 DEF KeepsRows, Kept, RunKept, Chains
  <2> QED
    BY <1>1, <2>1, <2>3, GoesOn
<1>6. ChainsAreBounded'
  BY <1>4 DEF ChainsAreBounded
<1> QED
  BY <1>3, <1>5, <1>6 DEF Chains

\* No chain of moves is deeper than the limit, whatever the actions of the statuses are: what a
\* run defers was checked against the limit before it was noted, and its transfer keeps its depth.
THEOREM ChainsEnd == Spec => []ChainsAreBounded
<1>1. Init => Chains
  <2> SUFFICES ASSUME Init PROVE Chains
    OBVIOUS
  <2>1. /\ DOMAIN transfers = {} /\ DOMAIN runs = {}
        /\ \A w \in Workers : workers[w].pc = "idle"
    BY EmptySeq, LenProperties DEF Init, Idle
  <2> QED
    BY <2>1 DEF Chains, ChainsAreBounded, Heeds
<1>2. Chains => ChainsAreBounded
  BY DEF Chains
<1> QED
  BY <1>1, <1>2, ChainsStep, SafeInvariant, FinishedInvariant, PTL DEF Spec
---------------------------------------------------------------------------
(* A completed move ran everything, and a worker writes only what it claimed *)

\* The phases that come before another.
Earlier(phase) ==
  CASE phase = "before" -> {}
    [] phase = "enter" -> {"before"}
    [] OTHER -> {"before", "enter"}

\* Every run of these phases is over.
Through(rs, phases) == \A i \in DOMAIN rs : rs[i].phase \in phases => Ended(rs[i])

\* Every phase before this one is over, which is what a message to run it supposes.
Ready(rs, phase) == Through(rs, Earlier(phase))

\* What becomes of the runs of a transfer, unless a person retries it.
Proceeds(rs, new) ==
  /\ DOMAIN new = DOMAIN rs
  /\ \A i \in DOMAIN rs : new[i].phase = rs[i].phase /\ (Ended(rs[i]) => Ended(new[i]))

\* The runs of its phase that a worker with record k has yet to see the end of.
Left(k) == k.todo \union (IF k.pc \in Holding THEN {k.run} ELSE {})

\* What worker w relies on: the run it claimed is its own until it is over.
Owns(rs, k, w) ==
  k.pc \in Holding =>
    /\ k.run \notin k.todo
    /\ rs[k.run].phase = k.phase
    /\ Ended(rs[k.run]) \/ (rs[k.run].state = "running" /\ rs[k.run].owner = w)

\* How far the phases have come where a worker with record k is.
Reached(rs, k) ==
  k.pc # "idle" =>
    /\ Ready(rs, k.job[2]) /\ Ready(rs, k.phase)
    /\ k.pc \in Holding \union {"claim"} =>
         /\ \A i \in k.todo : rs[i].phase = k.phase
         /\ k.then = "advance" =>
              \A i \in DOMAIN rs \ Left(k) : rs[i].phase = k.phase => Ended(rs[i])
    /\ k.pc = "advance" => k.phase = "before"
    /\ k.pc \in {"advance", "remaining"} => Through(rs, {k.phase})
    /\ k.pc = "finalize" => Through(rs, Phases)

MessagesReady ==
  \A t \in TransferIds, phase \in Phases :
    messages[<<t, phase>>] > 0 => t \in DOMAIN transfers /\ Ready(runs[t], phase)

\* A transfer enters its target when its `before` runs are over, a run starts when the phases
\* before its own are, and no run of an open transfer is skipped.
RowReady(t) ==
  /\ transfers[t].entered => Ready(runs[t], "enter")
  /\ \A i \in DOMAIN runs[t] :
       /\ runs[t][i].state = "running" => Ready(runs[t], runs[t][i].phase)
       /\ IsOpen(t) => runs[t][i].state # "skipped"

WorkerReady(w) == Owns(runs[Task(w)], workers[w], w) /\ Reached(runs[Task(w)], workers[w])

InOrder ==
  /\ MessagesReady
  /\ \A t \in DOMAIN transfers : RowReady(t)
  /\ \A w \in Workers : WorkerReady(w)
  /\ CompletedRanEverything

\* Until a person retries a move, its runs are in order.
InOrderUntilRetried == spent.retries = 0 => InOrder

\* Phases that are over stay over.
LEMMA ThroughStays ==
  ASSUME NEW rs, NEW new, Proceeds(rs, new), NEW phases, Through(rs, phases)
  PROVE  Through(new, phases)
BY DEF Proceeds, Through

LEMMA ReadyStays ==
  ASSUME NEW rs, NEW new, Proceeds(rs, new), NEW phase, Ready(rs, phase)
  PROVE  Ready(new, phase)
BY ThroughStays DEF Ready

LEMMA ReachedStays ==
  ASSUME NEW rs, NEW new, Proceeds(rs, new), NEW k, Reached(rs, k),
         k.pc # "idle" => k.todo \subseteq DOMAIN rs
  PROVE  Reached(new, k)
<1> SUFFICES ASSUME k.pc # "idle" PROVE Reached(new, k)
  BY DEF Reached
<1>1. Ready(new, k.job[2]) /\ Ready(new, k.phase)
  BY ReadyStays DEF Reached
<1>2. ASSUME k.pc \in Holding \union {"claim"}
      PROVE  /\ \A i \in k.todo : new[i].phase = k.phase
             /\ k.then = "advance" =>
                  \A i \in DOMAIN new \ Left(k) : new[i].phase = k.phase => Ended(new[i])
  BY <1>2 DEF Reached, Proceeds
<1>3. /\ k.pc = "advance" => k.phase = "before"
      /\ k.pc \in {"advance", "remaining"} => Through(new, {k.phase})
      /\ k.pc = "finalize" => Through(new, Phases)
  BY ThroughStays DEF Reached
<1> QED
  BY <1>1, <1>2, <1>3 DEF Reached

\* What a step makes of run i of transfer t.
RunProceeds(t, i) ==
  /\ runs'[t][i].phase = runs[t][i].phase
  /\ Ended(runs[t][i]) => Ended(runs'[t][i])
  /\ runs'[t][i].state = "skipped" =>
       runs[t][i].state = "skipped" \/ transfers'[t].state \notin {"pending", "committed"}
  /\ runs'[t][i].state = "running" => runs[t][i].state = "running" \/ Takes(t, i)
  /\ runs[t][i].state = "running" =>
       \/ Ended(runs'[t][i]) \/ runs'[t][i] = runs[t][i] \/ LetsGo(t, i)
       \/ \E w \in Workers : runs[t][i].owner = w /\ workers'[w].pc = "idle"

\* What it makes of transfer t.
TransferProceeds(t) ==
  /\ transfers'[t].state \in {"pending", "committed"} => IsOpen(t)
  /\ transfers'[t].entered => transfers[t].entered \/ At(t, "advance")
  /\ transfers'[t].state = "completed" =>
       \/ transfers[t].state = "completed"
       \/ IsOpen(t) /\ ~HasFailed(t) /\ At(t, "finalize")
  /\ \A i \in DOMAIN runs[t] : RunProceeds(t, i)

\* A transfer it records.
Begins(t) ==
  /\ \A i \in DOMAIN runs'[t] : runs'[t][i].state = "queued"
  /\ transfers'[t].entered => \A i \in DOMAIN runs'[t] : runs'[t][i].phase # "before"
  /\ transfers'[t].state = "completed" => DOMAIN runs'[t] = {}

RowsProceed ==
  /\ \A t \in DOMAIN transfers : TransferProceeds(t)
  /\ \A t \in DOMAIN transfers' : t \notin DOMAIN transfers => Begins(t)

LEMMA SameProceeds ==
  ASSUME NEW t, transfers'[t] = transfers[t], runs'[t] = runs[t]
  PROVE  TransferProceeds(t)
BY DEF TransferProceeds, RunProceeds, IsOpen

LEMMA StaysProceeds == ASSUME RowsOK, Owned, Stays PROVE RowsProceed
<1>1. /\ UNCHANGED transfers /\ RunsWritten /\ DOMAIN runs = DOMAIN transfers
      /\ \A t \in DOMAIN runs : \A i \in DOMAIN runs[t] : runs[t][i] \in Run
  <2>1. \A t \in DOMAIN runs : \A i \in DOMAIN runs[t] : runs[t][i] \in Run
    BY KeptRows, LenProperties, ElementOfSeq
  <2> QED
    BY <2>1, KeptRows DEF Stays
<1>2. ASSUME \A t \in DOMAIN runs : \A i \in DOMAIN runs[t] : RunProceeds(t, i)
      PROVE  RowsProceed
  BY <1>1, <1>2 DEF RowsProceed, TransferProceeds, IsOpen
<1>3. CASE UNCHANGED runs
  BY <1>1, <1>2, <1>3 DEF RunProceeds
<1>4. ASSUME NEW u \in DOMAIN runs, NEW j \in DOMAIN runs[u], NEW run,
             Writes(u, j, run), runs' = [runs EXCEPT ![u][j] = run]
      PROVE  RowsProceed
  <2>1. /\ runs'[u][j] = run
        /\ \A t \in DOMAIN runs : \A i \in DOMAIN runs[t] :
             t # u \/ i # j => runs'[t][i] = runs[t][i]
    BY <1>4
  <2>2. RunProceeds(u, j)
    BY <1>4, <2>1 DEF Writes, RunProceeds, Ended
  <2>3. ASSUME NEW t \in DOMAIN runs, NEW i \in DOMAIN runs[t], t # u \/ i # j
        PROVE  RunProceeds(t, i)
    BY <2>1, <2>3 DEF RunProceeds
  <2> QED
    BY <1>2, <2>2, <2>3
<1>5. ASSUME NEW w \in Workers, Orphans(w) PROVE RowsProceed
  <2>1. ASSUME NEW t \in DOMAIN runs, NEW i \in DOMAIN runs[t] PROVE RunProceeds(t, i)
    <3>1. runs'[t][i] = IF runs[t][i].owner = w
                        THEN [runs[t][i] EXCEPT !.owner = NoWorker] ELSE runs[t][i]
      BY <1>5 DEF Orphans
    <3>2. CASE runs[t][i].owner = w
      <4>1. runs'[t][i].phase = runs[t][i].phase /\ runs'[t][i].state = runs[t][i].state
        BY <1>1, <3>1, <3>2 DEF Run
      <4>2. workers'[w].pc = "idle"
        BY <1>5 DEF Orphans
      <4> QED
        BY <3>2, <4>1, <4>2 DEF RunProceeds, Ended
    <3>3. CASE runs[t][i].owner # w
      BY <3>1, <3>3 DEF RunProceeds
    <3> QED
      BY <3>2, <3>3
  <2> QED
    BY <1>2, <2>1
<1> QED
  BY <1>1, <1>3, <1>4, <1>5 DEF RunsWritten

\* The runs of a new move wait, in the order of their phases.
LEMMA PlannedInOrder ==
  ASSUME NEW from \in Statuses, NEW to \in Statuses
  PROVE  LET planned == PlanRuns(from, to)
         IN /\ \A i \in DOMAIN planned : planned[i].state = "queued"
            /\ planned # <<>> => Ready(planned, planned[1].phase)
<1> DEFINE Queued(phases) == {run \in Run : run.state = "queued" /\ run.phase \in phases}
           moving(actions) == IF Linked(from, to) THEN actions[<<from, to>>] ELSE <<>>
           a == Planned("before", moving(BeforeActions))
           b == Planned("enter", EnterActions[to])
           c == Planned("after", moving(AfterActions))
<1>1. /\ moving(BeforeActions) \in Seq(Actions) /\ moving(AfterActions) \in Seq(Actions)
      /\ EnterActions[to] \in Seq(Actions)
  BY ActionsAssumption, EmptySeq DEF Linked
<1>2. ASSUME NEW phase \in Phases, NEW actions \in Seq(Actions)
      PROVE  Planned(phase, actions) \in Seq(Queued({phase}))
  <2>1. Len(actions) \in Nat /\ \A j \in 1..Len(actions) : actions[j] \in Actions
    BY LenProperties, ElementOfSeq
  <2>2. Planned(phase, actions) \in [1..Len(actions) -> Queued({phase})]
    BY <2>1 DEF Planned, NewRun, Run
  <2> HIDE DEF Queued
  <2> QED
    BY <2>1, <2>2, SeqOf
<1>3. a \in Seq(Queued({"before"})) /\ b \in Seq(Queued({"enter"})) /\ c \in Seq(Queued({"after"}))
  <2> HIDE DEF Queued
  <2> QED
    BY <1>1, <1>2 DEF Phases
<1> HIDE DEF a, b, c
<1>4. PlanRuns(from, to) = (a \o b) \o c
  BY DEF PlanRuns, a, b, c
<1>5. /\ Len(a) \in Nat /\ Len(b) \in Nat /\ Len(c) \in Nat
      /\ DOMAIN a = 1..Len(a) /\ DOMAIN b = 1..Len(b) /\ DOMAIN c = 1..Len(c)
      /\ \A i \in DOMAIN a : a[i].state = "queued" /\ a[i].phase = "before"
      /\ \A i \in DOMAIN b : b[i].state = "queued" /\ b[i].phase = "enter"
      /\ \A i \in DOMAIN c : c[i].state = "queued" /\ c[i].phase = "after"
  <2>1. /\ Len(a) \in Nat /\ DOMAIN a = 1..Len(a)
        /\ \A i \in DOMAIN a : a[i] \in Queued({"before"})
    <3> HIDE DEF Queued
    <3> QED
      BY <1>3, LenProperties, ElementOfSeq
  <2>2. /\ Len(b) \in Nat /\ DOMAIN b = 1..Len(b)
        /\ \A i \in DOMAIN b : b[i] \in Queued({"enter"})
    <3> HIDE DEF Queued
    <3> QED
      BY <1>3, LenProperties, ElementOfSeq
  <2>3. /\ Len(c) \in Nat /\ DOMAIN c = 1..Len(c)
        /\ \A i \in DOMAIN c : c[i] \in Queued({"after"})
    <3> HIDE DEF Queued
    <3> QED
      BY <1>3, LenProperties, ElementOfSeq
  <2> QED
    BY <2>1, <2>2, <2>3
<1> DEFINE ab == a \o b
           p == ab \o c
<1>6. /\ ab \in Seq(Run) /\ Len(ab) = Len(a) + Len(b) /\ DOMAIN ab = 1..Len(ab)
      /\ \A i \in 1..Len(ab) : ab[i] = IF i <= Len(a) THEN a[i] ELSE b[i - Len(a)]
  <2>1. a \in Seq(Run) /\ b \in Seq(Run)
    BY <1>1, PlannedType DEF a, b, Phases
  <2> QED
    BY <2>1, ConcatProperties, LenProperties
<1> HIDE DEF ab
<1>7. /\ p \in Seq(Run) /\ Len(p) = Len(ab) + Len(c) /\ DOMAIN p = 1..Len(p)
      /\ \A i \in 1..Len(p) : p[i] = IF i <= Len(ab) THEN ab[i] ELSE c[i - Len(ab)]
  <2>1. ab \in Seq(Run) /\ c \in Seq(Run)
    BY <1>1, <1>6, PlannedType DEF c, Phases
  <2>2. /\ p \in Seq(Run) /\ Len(p) = Len(ab) + Len(c)
        /\ \A i \in 1..Len(p) : p[i] = IF i <= Len(ab) THEN ab[i] ELSE c[i - Len(ab)]
    BY <2>1, ConcatProperties
  <2> QED
    BY <2>2, LenProperties
<1> HIDE DEF p
<1>8. ASSUME NEW i \in DOMAIN p
      PROVE  /\ p[i].state = "queued"
             /\ i <= Len(a) => p[i].phase = "before"
             /\ Len(a) < i /\ i <= Len(ab) => p[i].phase = "enter"
             /\ Len(ab) < i => p[i].phase = "after"
  <2>1. CASE i <= Len(a)
    <3>1. i \in DOMAIN a /\ p[i] = a[i] /\ i <= Len(ab)
      BY <1>5, <1>6, <1>7, <2>1
    <3> QED
      BY <1>5, <1>6, <2>1, <3>1
  <2>2. CASE Len(a) < i /\ i <= Len(ab)
    <3>1. i - Len(a) \in DOMAIN b /\ p[i] = b[i - Len(a)]
      BY <1>5, <1>6, <1>7, <2>2
    <3> QED
      BY <1>5, <1>6, <1>7, <2>2, <3>1
  <2>3. CASE Len(ab) < i
    <3>1. i - Len(ab) \in DOMAIN c /\ p[i] = c[i - Len(ab)] /\ Len(a) <= Len(ab)
      BY <1>5, <1>6, <1>7, <2>3
    <3> QED
      BY <1>5, <1>6, <1>7, <2>3, <3>1
  <2> QED
    BY <1>5, <1>6, <1>7, <2>1, <2>2, <2>3
<1>9. p # <<>> => 1 \in DOMAIN p
  BY <1>5, <1>6, <1>7, EmptySeq
<1>10. ASSUME p # <<>>, NEW i \in DOMAIN p PROVE p[i].phase \notin Earlier(p[1].phase)
  <2>1. i \in Nat /\ 1 <= i /\ 1 \in DOMAIN p
    BY <1>5, <1>6, <1>7, <1>9, <1>10
  <2> QED
    BY <1>5, <1>6, <1>8, <2>1 DEF Earlier
<1>11. /\ \A i \in DOMAIN p : p[i].state = "queued"
       /\ p # <<>> => Ready(p, p[1].phase)
  BY <1>8, <1>10 DEF Ready, Through
<1> QED
  BY <1>4, <1>11 DEF p, ab

LEMMA RecordsProceeds == ASSUME RowsOK, Records PROVE RowsProceed
<1>1. PICK target \in Statuses, trigger \in Triggers \ {"system"}, depth \in Nat :
        RecordMove(target, trigger, depth)
  BY DEF Records, MayMove
<1> DEFINE planned == PlanRuns(ticket.status, target)
           direct == ~HasPhase(planned, "before")
           state == CASE planned = <<>> -> "completed"
                      [] planned # <<>> /\ direct -> "committed"
                      [] OTHER -> "pending"
           tr == [state |-> state, trigger |-> trigger, before |-> ticket.status,
                  after |-> target, entered |-> direct, depth |-> depth]
<1>2. /\ DOMAIN transfers' = 1..(Latest + 1)
      /\ \A t \in DOMAIN transfers : transfers'[t] = transfers[t]
  BY <1>1, RecordEffect DEF Triggers
<1>3. /\ planned \in Seq(Run) /\ runs' = Append(runs, planned)
      /\ transfers' = Append(transfers, tr)
      /\ \A i \in DOMAIN planned : planned[i].state = "queued"
  BY <1>1, KeptRows, PlanRunsType, PlannedInOrder DEF RecordMove
<1>4. /\ DOMAIN runs' = 1..(Latest + 1) /\ runs'[Latest + 1] = planned
      /\ \A t \in DOMAIN runs : runs'[t] = runs[t]
  <2> HIDE DEF planned
  <2> QED
    BY <1>3, KeptRows, AppendProperties, LenProperties DEF Latest, RowsOK
<1>5. /\ transfers'[Latest + 1].entered => ~HasPhase(planned, "before")
      /\ transfers'[Latest + 1].state = "completed" => planned = <<>>
  <2>1. tr.entered = direct /\ tr.state = state
    OBVIOUS
  <2>2. state = "completed" => planned = <<>>
    OBVIOUS
  <2>3. tr \in Transfer
    <3>1. state \in TransferStates /\ direct \in BOOLEAN
      BY DEF TransferStates
    <3> HIDE DEF planned, state, direct
    <3> QED
      BY <1>1, <3>1, KeptRows DEF Transfer
  <2> HIDE DEF tr
  <2>4. transfers'[Latest + 1] = tr
    BY <1>3, <2>3, KeptRows, AppendProperties, LenProperties DEF Latest
  <2> QED
    BY <2>1, <2>2, <2>4
<1> HIDE DEF planned
<1>6. ASSUME NEW t \in DOMAIN transfers PROVE TransferProceeds(t)
  BY <1>2, <1>4, KeptRows, SameProceeds DEF Latest
<1>7. ASSUME NEW t \in DOMAIN transfers', t \notin DOMAIN transfers PROVE Begins(t)
  <2>1. t = Latest + 1
    BY <1>2, <1>7, KeptRows DEF Latest
  <2>2. DOMAIN planned = 1..Len(planned) /\ (planned = <<>> => DOMAIN planned = {})
    BY <1>3, LenProperties, EmptySeq
  <2> QED
    BY <1>3, <1>4, <1>5, <2>1, <2>2 DEF Begins, HasPhase
<1> QED
  BY <1>6, <1>7 DEF RowsProceed

LEMMA CancelProceeds ==
  ASSUME RowsOK, NEW t \in DOMAIN transfers,
         transfers'[t] = Cancelled[t], runs'[t] = CancelledRuns[t]
  PROVE  TransferProceeds(t)
<1>1. t \in DOMAIN runs /\ runs[t] \in Seq(Run)
  BY KeptRows
<1>2. CASE IsOpen(t)
  <2>1. transfers'[t].state = "cancelled" /\ transfers'[t].entered = transfers[t].entered
    BY <1>2, CancelEffect
  <2>2. runs'[t] = Skip(runs[t], {"queued", "running"})
    BY <1>1, <1>2 DEF CancelledRuns
  <2>3. ASSUME NEW i \in DOMAIN runs[t] PROVE RunProceeds(t, i)
    <3>2. CASE runs[t][i].state \in {"queued", "running"}
      <4>1. runs'[t][i].phase = runs[t][i].phase /\ runs'[t][i].state = "skipped"
        BY <1>1, <2>2, <3>2, SkipKeeps
      <4> QED
        BY <2>1, <3>2, <4>1 DEF RunProceeds, Ended
    <3>3. CASE runs[t][i].state \notin {"queued", "running"}
      <4>1. runs'[t][i] = runs[t][i]
        BY <1>1, <2>2, <3>3, SkipKeeps
      <4> QED
        BY <4>1 DEF RunProceeds
    <3> QED
      BY <3>2, <3>3
  <2> QED
    BY <2>1, <2>3 DEF TransferProceeds
<1>3. CASE ~IsOpen(t)
  BY <1>1, <1>3, CancelEffect, SameProceeds DEF CancelledRuns
<1> QED
  BY <1>2, <1>3

LEMMA SystemProceeds ==
  ASSUME RowsOK, NEW row \in Ticket, NEW target \in Statuses,
         NEW moves \in Seq(Transfer), Len(moves) = Len(transfers),
         NEW plans \in Seq(Seq(Run)), Len(plans) = Len(runs),
         RecordSystemTransfer(row, moves, plans, target),
         \/ moves = transfers /\ plans = runs
         \/ moves = Cancelled /\ plans = CancelledRuns
  PROVE  RowsProceed
<1>1. /\ DOMAIN transfers' = 1..(Latest + 1)
      /\ \A t \in DOMAIN transfers : transfers'[t] = moves[t]
  BY SystemEffect
<1>2. runs' = Append(plans, <<>>) /\ <<>> \in Seq(Run)
  BY EmptySeq DEF RecordSystemTransfer
<1>3. /\ DOMAIN runs' = 1..(Latest + 1) /\ runs'[Latest + 1] = <<>>
      /\ \A t \in DOMAIN runs : runs'[t] = plans[t]
  BY <1>2, KeptRows, AppendProperties, LenProperties DEF Latest, RowsOK
<1>4. ASSUME NEW t \in DOMAIN transfers PROVE TransferProceeds(t)
  <2>1. t \in DOMAIN runs
    BY KeptRows
  <2> QED
    BY <1>1, <1>3, <2>1, SameProceeds, CancelProceeds
<1>5. ASSUME NEW t \in DOMAIN transfers', t \notin DOMAIN transfers PROVE Begins(t)
  <2>1. t = Latest + 1
    BY <1>1, <1>5, KeptRows DEF Latest
  <2>2. DOMAIN runs'[t] = {}
    BY <1>3, <2>1
  <2> QED
    BY <2>2 DEF Begins
<1> QED
  BY <1>4, <1>5 DEF RowsProceed

\* What every step but a person's retry makes of the moves and their runs.
LEMMA EveryStepProceeds ==
  ASSUME TypeInv, Safe, Owned, [Next]_vars, ~RetryFailed
  PROVE  RowsProceed
<1>1. RowsOK /\ DOMAIN runs = DOMAIN transfers
  BY TypeInvParts, KeptRows
<1>2. CASE Overrides
  <2>1. PICK target \in Statuses :
          RecordSystemTransfer(CancelledTicket, Cancelled, CancelledRuns, target)
    BY <1>2 DEF Overrides
  <2> QED
    BY <1>1, <2>1, CancelledRows, SystemProceeds
<1>3. CASE Transplants
  <2>1. PICK target \in Statuses : RecordSystemTransfer(ticket, transfers, runs, target)
    BY <1>3 DEF Transplants
  <2> QED
    BY <1>1, <2>1, KeptRows, SystemProceeds DEF RowsOK
<1>4. CASE Cancels
  <2>1. /\ transfers' = Cancelled /\ runs' = CancelledRuns
        /\ DOMAIN transfers' = DOMAIN transfers
    BY <1>1, <1>4, CancelEffect DEF Cancels
  <2> QED
    BY <1>1, <2>1, CancelProceeds DEF RowsProceed
<1>5. CASE Ends
  <2>1. PICK u \in DOMAIN transfers, state \in {"completed", "failed"} :
          /\ IsOpen(u) /\ Close(u, state)
          /\ state = "completed" => ~HasFailed(u) /\ At(u, "finalize")
    BY <1>5 DEF Ends
  <2>2. /\ DOMAIN transfers' = DOMAIN transfers
        /\ \A t \in DOMAIN transfers \ {u} : transfers'[t] = transfers[t]
        /\ transfers'[u].state = state /\ transfers'[u].entered = transfers[u].entered
    BY <1>1, <2>1, OneEffect DEF Close, Closed, TransferStates
  <2>3. /\ runs'[u] = Skip(runs[u], {"queued"}) /\ runs[u] \in Seq(Run)
        /\ \A t \in DOMAIN transfers \ {u} : runs'[t] = runs[t]
    BY <1>1, <2>1, KeptRows DEF Close, Unqueued
  <2>4. ASSUME NEW i \in DOMAIN runs[u] PROVE RunProceeds(u, i)
    <3>2. CASE runs[u][i].state = "queued"
      <4>1. runs'[u][i].phase = runs[u][i].phase /\ runs'[u][i].state = "skipped"
        BY <2>3, <3>2, SkipKeeps
      <4> QED
        BY <2>2, <3>2, <4>1 DEF RunProceeds, Ended
    <3>3. CASE runs[u][i].state # "queued"
      <4>1. runs'[u][i] = runs[u][i]
        BY <2>3, <3>3, SkipKeeps
      <4> QED
        BY <4>1 DEF RunProceeds
    <3> QED
      BY <3>2, <3>3
  <2>5. TransferProceeds(u)
    BY <2>1, <2>2, <2>4 DEF TransferProceeds
  <2>6. ASSUME NEW t \in DOMAIN transfers \ {u} PROVE TransferProceeds(t)
    BY <2>2, <2>3, SameProceeds
  <2> QED
    BY <2>2, <2>5, <2>6 DEF RowsProceed
<1>6. CASE Enters
  <2>1. PICK u \in DOMAIN transfers :
          CommitResult(u) = "enter" /\ CommitLocked(u) /\ At(u, "advance")
    BY <1>6 DEF Enters
  <2>2. /\ DOMAIN transfers' = DOMAIN transfers
        /\ \A t \in DOMAIN transfers \ {u} : transfers'[t] = transfers[t]
        /\ transfers'[u].state = "committed" /\ transfers[u].state = "pending"
    BY <1>1, <2>1, OneEffect DEF CommitResult, TransferStates
  <2>3. runs' = runs
    BY <2>1 DEF CommitLocked
  <2>4. TransferProceeds(u)
    BY <2>1, <2>2, <2>3 DEF TransferProceeds, RunProceeds, IsOpen
  <2>5. ASSUME NEW t \in DOMAIN transfers \ {u} PROVE TransferProceeds(t)
    BY <2>2, <2>3, SameProceeds
  <2> QED
    BY <2>2, <2>4, <2>5 DEF RowsProceed
<1> QED
  BY <1>1, <1>2, <1>3, <1>4, <1>5, <1>6, StaysProceeds, RecordsProceeds, EveryStepMoves DEF MoveStep

LEMMA RunsProceed ==
  ASSUME RowsOK, KeepsRows, RowsProceed, NEW t \in DOMAIN transfers
  PROVE  Proceeds(runs[t], runs'[t])
BY DEF KeepsRows, Kept, RowsProceed, TransferProceeds, RunProceeds, Proceeds

\* A worker at work in its task, after a step: how far the phases have come.
LEMMA TaskProceeds ==
  ASSUME RowsOK, WorkersOK, KeepsRows, RowsProceed, NEW w \in Workers, workers[w].pc # "idle",
         WorkerReady(w)
  PROVE  /\ Proceeds(runs[Task(w)], runs'[Task(w)])
         /\ Reached(runs'[Task(w)], workers[w])
<1>1. Task(w) \in DOMAIN transfers /\ workers[w].todo \subseteq DOMAIN runs[Task(w)]
  BY KeptTask
<1> QED
  BY <1>1, RunsProceed, ReachedStays DEF WorkerReady

\* A worker that does nothing stays as well off as it was, whatever the others do: a run it
\* owns only it lets go.
LEMMA OthersReady ==
  ASSUME RowsOK, WorkersOK, KeepsRows, RowsProceed, \A w \in Workers : WorkerReady(w),
         NEW v \in Workers, workers'[v] = workers[v]
  PROVE  WorkerReady(v)'
<1>1. CASE workers[v].pc = "idle"
  BY <1>1 DEF WorkerReady, Owns, Reached, Holding
<1>2. CASE workers[v].pc # "idle"
  <2> DEFINE t == Task(v)
             i == workers[v].run
  <2>1. t \in DOMAIN transfers /\ Reached(runs'[t], workers[v]) /\ Proceeds(runs[t], runs'[t])
    BY <1>2, KeptTask, TaskProceeds
  <2>2. ASSUME workers[v].pc \in Holding
        PROVE  /\ i \notin workers[v].todo /\ runs'[t][i].phase = workers[v].phase
               /\ Ended(runs'[t][i]) \/ (runs'[t][i].state = "running" /\ runs'[t][i].owner = v)
    <3>1. i \in DOMAIN runs[t]
      BY <2>2, ClaimedRun DEF Holding
    <3>2. /\ i \notin workers[v].todo /\ runs[t][i].phase = workers[v].phase
          /\ Ended(runs[t][i]) \/ (runs[t][i].state = "running" /\ runs[t][i].owner = v)
      BY <2>2 DEF WorkerReady, Owns
    <3>3. CASE Ended(runs[t][i])
      BY <2>1, <3>1, <3>2, <3>3 DEF Proceeds
    <3>4. CASE runs[t][i].state = "running" /\ runs[t][i].owner = v
      <4>1. ~LetsGo(t, i)
        <5> SUFFICES ASSUME NEW w \in Workers, workers[w].pc \in Holding, Task(w) = t,
                            workers[w].run = i, workers'[w].pc \notin Holding
                     PROVE  FALSE
          BY DEF LetsGo
        <5>1. w # v
          BY <2>2
        <5>2. runs[t][i].owner = w
          BY <3>4 DEF WorkerReady, Owns, Ended
        <5> QED
          BY <3>4, <5>1, <5>2
      <4>2. ~ \E w \in Workers : runs[t][i].owner = w /\ workers'[w].pc = "idle"
        BY <1>2, <3>4
      <4>3. Ended(runs'[t][i]) \/ runs'[t][i] = runs[t][i]
        BY <2>1, <3>1, <3>4, <4>1, <4>2 DEF RowsProceed, TransferProceeds, RunProceeds
      <4> QED
        BY <2>1, <3>1, <3>2, <3>4, <4>3 DEF Proceeds
    <3> QED
      BY <3>2, <3>3, <3>4
  <2>3. Task(v)' = t /\ workers'[v] = workers[v]
    BY DEF Task
  <2> HIDE DEF t, i
  <2>4. Owns(runs'[t], workers[v], v)
    BY <2>2 DEF Owns, i
  <2> QED
    BY <2>1, <2>3, <2>4 DEF WorkerReady
<1> QED
  BY <1>1, <1>2

\* A worker is ready after a step that leaves it in its task.
LEMMA StepReady ==
  ASSUME NEW w \in Workers, workers'[w].job = workers[w].job,
         Owns(runs'[Task(w)], workers'[w], w), Reached(runs'[Task(w)], workers'[w])
  PROVE  WorkerReady(w)'
<1>1. Task(w)' = Task(w)
  BY DEF Task
<1> QED
  BY <1>1 DEF WorkerReady

LEMMA ReturnReady ==
  ASSUME WorkersOK, NEW w \in Workers, workers' = Return(w)
  PROVE  WorkerReady(w)'
<1>1. workers'[w].pc = "idle"
  BY DEF WorkersOK, Return, Idle
<1> QED
  BY <1>1 DEF WorkerReady, Owns, Reached, Holding

\* A worker that goes on with what is left of its phase.
LEMMA ContinueReady ==
  ASSUME WorkersOK, NEW w \in Workers, workers[w].pc # "idle", NEW rs, rs = runs'[Task(w)],
         NEW todo, NEW then \in {"return", "fail", "advance"},
         Ready(rs, workers[w].job[2]), Ready(rs, workers[w].phase),
         \A i \in todo : rs[i].phase = workers[w].phase,
         then = "advance" =>
           \A i \in DOMAIN rs \ todo : rs[i].phase = workers[w].phase => Ended(rs[i]),
         workers' = Continue(w, todo, then)
  PROVE  WorkerReady(w)'
<1> DEFINE pc == CASE todo # {} -> "claim"
                   [] todo = {} /\ then = "return" -> "idle"
                   [] todo = {} /\ then = "fail" -> "fail"
                   [] OTHER -> IF workers[w].phase = "before" THEN "advance" ELSE "remaining"
           k == [Idle EXCEPT !.pc = pc, !.job = workers[w].job, !.phase = workers[w].phase,
                             !.todo = todo, !.then = then]
<1>1. CASE pc = "idle"
  BY <1>1, ReturnReady DEF Continue
<1>2. CASE pc # "idle"
  <2>1. workers' = [workers EXCEPT ![w] = k]
    BY <1>2 DEF Continue
  <2>2. /\ pc \in {"claim", "fail", "advance", "remaining"}
        /\ pc \in {"advance", "remaining"} => todo = {} /\ then = "advance"
        /\ pc = "advance" => workers[w].phase = "before"
    BY <1>2
  <2>3. /\ k.pc = pc /\ k.job = workers[w].job /\ k.phase = workers[w].phase
        /\ k.todo = todo /\ k.then = then
    BY DEF Idle
  <2> HIDE DEF pc, k
  <2>4. workers'[w] = k
    BY <2>1 DEF WorkersOK
  <2>5. Owns(rs, k, w)
    BY <2>2, <2>3 DEF Owns, Holding
  <2>6. k.pc \in {"advance", "remaining"} => Through(rs, {k.phase})
    BY <2>2, <2>3 DEF Through
  <2>7. ASSUME k.pc \in Holding \union {"claim"}
        PROVE  /\ \A i \in k.todo : rs[i].phase = k.phase
               /\ k.then = "advance" =>
                    \A i \in DOMAIN rs \ Left(k) : rs[i].phase = k.phase => Ended(rs[i])
    BY <2>3 DEF Left
  <2>8. Ready(rs, k.job[2]) /\ Ready(rs, k.phase) /\ (k.pc = "advance" => k.phase = "before")
        /\ k.pc # "finalize"
    BY <2>2, <2>3
  <2>9. Reached(rs, k)
    BY <2>6, <2>7, <2>8 DEF Reached
  <2> QED
    BY <2>3, <2>4, <2>5, <2>9, StepReady
<1> QED
  BY <1>1, <1>2

\* A worker that ends its run goes on only when the run is over.
LEMMA FinishReady ==
  ASSUME RowsOK, WorkersOK, KeepsRows, RowsProceed, NEW w \in Workers, WorkerReady(w),
         workers[w].pc \in {"handle", "finish"},
         NEW outcome \in {"succeed", "defer", "retry", "fail", "await"}, FinishWith(w, outcome)
  PROVE  WorkerReady(w)'
<1> DEFINE t == Task(w)
           i == workers[w].run
           k == workers[w]
           rs == runs'[t]
<1>1. /\ t \in DOMAIN runs /\ i \in DOMAIN runs[t] /\ runs[t][i] \in Run
      /\ k.todo \subseteq DOMAIN runs[t] /\ k.then \in {"return", "fail", "advance"}
  BY ClaimedRun DEF CurrentRun, Worker
<1>2. Reached(rs, k) /\ Proceeds(runs[t], rs)
  BY TaskProceeds
<1>3. /\ Ready(rs, k.job[2]) /\ Ready(rs, k.phase)
      /\ \A j \in k.todo : rs[j].phase = k.phase
      /\ k.then = "advance" =>
           \A j \in DOMAIN rs \ (k.todo \union {i}) : rs[j].phase = k.phase => Ended(rs[j])
  BY <1>2 DEF Reached, Left, Holding
<1>4. CASE workers' = Return(w)
  BY <1>4, ReturnReady
<1>5. CASE workers' = Continue(w, {}, "fail")
  BY <1>3, <1>5, ContinueReady
<1>6. CASE /\ CurrentRun(w).state = "running" /\ outcome \in {"succeed", "defer", "fail"}
           /\ workers' = Continue(w, k.todo, k.then)
  <2>1. rs[i] = Written(runs[t][i], outcome)
    BY <1>1, <1>6 DEF FinishWith
  <2>2. Ended(rs[i])
    BY <1>1, <1>6, <2>1 DEF Written, Ended, Run
  <2>3. k.then = "advance" =>
          \A j \in DOMAIN rs \ k.todo : rs[j].phase = k.phase => Ended(rs[j])
    BY <1>3, <2>2
  <2> QED
    BY <1>1, <1>3, <1>6, <2>3, ContinueReady
<1> QED
  BY <1>4, <1>5, <1>6 DEF FinishWith

\* A worker that stays with the run it claimed.
LEMMA HoldReady ==
  ASSUME RowsOK, WorkersOK, KeepsRows, RowsProceed, NEW w \in Workers, WorkerReady(w),
         workers[w].pc \in Holding,
         runs'[Task(w)] = runs[Task(w)],
         workers'[w].pc \in Holding,
         workers'[w].job = workers[w].job, workers'[w].phase = workers[w].phase,
         workers'[w].todo = workers[w].todo, workers'[w].then = workers[w].then,
         workers'[w].run = workers[w].run
  PROVE  WorkerReady(w)'
<1>1. Reached(runs'[Task(w)], workers[w]) /\ Owns(runs[Task(w)], workers[w], w)
  BY TaskProceeds DEF WorkerReady, Holding
<1>2. Owns(runs'[Task(w)], workers'[w], w)
  BY <1>1 DEF Owns
<1>3. Left(workers'[w]) = Left(workers[w])
  BY DEF Left
<1>4. Reached(runs'[Task(w)], workers'[w])
  BY <1>1, <1>3 DEF Reached, Holding
<1> QED
  BY <1>2, <1>4, StepReady

\* A worker that goes on to a step of its task that supposes less.
LEMMA QuietReady ==
  ASSUME RowsOK, WorkersOK, KeepsRows, RowsProceed, NEW w \in Workers, WorkerReady(w),
         workers[w].pc # "idle",
         workers'[w].pc \in {"check", "read", "deferred"},
         workers'[w].job = workers[w].job,
         Ready(runs'[Task(w)], workers'[w].phase)
  PROVE  WorkerReady(w)'
<1>1. Ready(runs'[Task(w)], workers[w].job[2])
  BY TaskProceeds DEF Reached
<1>2. Owns(runs'[Task(w)], workers'[w], w) /\ Reached(runs'[Task(w)], workers'[w])
  BY <1>1 DEF Owns, Reached, Holding
<1> QED
  BY <1>2, StepReady

\* The runs a worker reads: those it does not see queued, nor to stop at, are over.
LEMMA ReadReady ==
  ASSUME RowsOK, WorkersOK, KeepsRows, RowsProceed, NEW w \in Workers, WorkerReady(w), ReadRuns(w)
  PROVE  WorkerReady(w)'
<1> DEFINE rs == runs[Task(w)]
           own == {i \in DOMAIN rs : rs[i].phase = workers[w].phase}
           stops == {i \in own : Stops(rs[i])}
           seen == {i \in own : rs[i].state = "queued" /\ \A j \in stops : i < j}
           running == \E i \in stops : IsFirst(i, stops) /\ rs[i].state = "running"
           then == CASE stops = {} -> "advance"
                     [] stops # {} /\ running -> "return"
                     [] OTHER -> "fail"
<1>1. workers[w].pc = "read" /\ workers' = Continue(w, seen, then) /\ runs' = runs
  BY DEF ReadRuns
<1>2. then \in {"return", "fail", "advance"} /\ (then = "advance" => stops = {})
  OBVIOUS
<1>3. \A i \in DOMAIN rs : rs[i] \in Run
  BY <1>1, KeptTask
<1>4. ASSUME stops = {}, NEW i \in DOMAIN rs \ seen, rs[i].phase = workers[w].phase
      PROVE  Ended(rs[i])
  <2>1. rs[i].state # "queued" /\ ~Stops(rs[i])
    BY <1>4
  <2> QED
    BY <1>3, <2>1 DEF Stops, Ended, Run
<1>5. /\ Ready(rs, workers[w].job[2]) /\ Ready(rs, workers[w].phase)
      /\ \A i \in seen : rs[i].phase = workers[w].phase
  BY <1>1 DEF WorkerReady, Reached
<1>6. rs = runs'[Task(w)]
  BY <1>1
<1> HIDE DEF rs, own, stops, seen, then
<1>7. then = "advance" =>
        \A i \in DOMAIN rs \ seen : rs[i].phase = workers[w].phase => Ended(rs[i])
  BY <1>2, <1>4
<1>8. workers[w].pc # "idle"
  BY <1>1
<1> QED
  BY <1>1, <1>2, <1>5, <1>6, <1>7, <1>8, ContinueReady

LEMMA ClaimReady ==
  ASSUME RowsOK, WorkersOK, KeepsRows, RowsProceed, NEW w \in Workers, WorkerReady(w), Claim(w)
  PROVE  WorkerReady(w)'
<1> DEFINE t == Task(w)
           k == workers[w]
<1>1. PICK i \in k.todo :
        IF Claimable(runs[t][i])
        THEN /\ runs' = [runs EXCEPT ![t][i] = Claimed(runs[t][i], w)]
             /\ workers' = [workers EXCEPT ![w] = Claiming(w, i, runs[t][i])]
        ELSE workers' = Return(w)
  BY DEF Claim
<1>2. k.pc = "claim"
  BY DEF Claim
<1>3. t \in DOMAIN runs /\ i \in DOMAIN runs[t] /\ runs[t][i] \in Run /\ k \in Worker
  BY <1>2, KeptTask
<1>4. CASE ~Claimable(runs[t][i])
  BY <1>1, <1>4, ReturnReady
<1>5. CASE Claimable(runs[t][i])
  <2> DEFINE new == Claiming(w, i, runs[t][i])
             rs == runs'[t]
  <2>1. workers'[w] = new
    BY <1>1, <1>5 DEF WorkersOK
  <2>2. /\ new.pc \in {"load", "handle"} /\ new.run = i /\ new.todo = k.todo \ {i}
        /\ new.job = k.job /\ new.phase = k.phase /\ new.then = k.then
    BY <1>3 DEF Claiming, Worker
  <2>3. rs[i] = Claimed(runs[t][i], w)
    BY <1>1, <1>3, <1>5
  <2>4. rs[i].state = "running" /\ rs[i].owner = w
    BY <1>3, <2>3 DEF Claimed, Run
  <2>5. Reached(rs, k)
    BY <1>2, TaskProceeds
  <2> HIDE DEF new, rs, k
  <2>6. rs[i].phase = k.phase
    BY <1>2, <2>5 DEF Reached, k
  <2>7. Owns(rs, new, w)
    BY <2>2, <2>4, <2>6 DEF Owns
  <2>8. Left(new) = Left(k)
    BY <1>1, <1>2, <2>2 DEF Left, Holding, k
  <2>9. /\ Ready(rs, new.job[2]) /\ Ready(rs, new.phase)
        /\ \A j \in new.todo : rs[j].phase = new.phase
        /\ new.then = "advance" =>
             \A j \in DOMAIN rs \ Left(new) : rs[j].phase = new.phase => Ended(rs[j])
    BY <1>2, <2>2, <2>5, <2>8 DEF Reached, k
  <2>10. Reached(rs, new)
    BY <2>2, <2>9 DEF Reached
  <2> QED
    BY <2>1, <2>2, <2>7, <2>10, StepReady DEF rs, k
<1> QED
  BY <1>4, <1>5

\* Once the runs of its phase are over, a worker goes to the next phase with work left.
LEMMA AdvanceReady ==
  ASSUME RowsOK, WorkersOK, KeepsRows, RowsProceed, NEW w \in Workers, WorkerReady(w), Advance(w)
  PROVE  WorkerReady(w)'
<1> DEFINE t == Task(w)
           k == workers[w]
           rs == runs[t]
<1>1. k.pc = "remaining" /\ runs' = runs
  BY DEF Advance
<1>2. k \in Worker /\ \A i \in DOMAIN rs : rs[i] \in Run
  BY <1>1, KeptTask
<1>3. Ready(rs, k.job[2]) /\ Ready(rs, k.phase) /\ Through(rs, {k.phase})
  BY <1>1 DEF WorkerReady, Reached
<1>4. ASSUME NEW phase, ~HasWork(t, phase) PROVE Through(rs, {phase})
  BY <1>2, <1>4 DEF HasWork, Through, Ended, Run
<1>6. k.phase \in {"before", "enter", "after"}
  BY <1>2 DEF Worker, Phases
<1>7. /\ k.phase \in {"enter", "after"} => Through(rs, {"before"})
      /\ k.phase = "after" => Through(rs, {"enter"})
  BY <1>3 DEF Ready, Earlier, Through
<1> HIDE DEF rs, k
<1>8. CASE /\ workers' = Do(w, "finalize")
           /\ k.phase = "before" => ~HasWork(t, "enter")
           /\ k.phase # "after" => ~HasWork(t, "after")
  <2>1. workers'[w].pc = "finalize" /\ workers'[w].job = k.job /\ workers'[w].phase = k.phase
    BY <1>2, <1>8 DEF Do, Worker, WorkersOK, k
  <2>2. Through(rs, {"before"}) /\ Through(rs, {"enter"}) /\ Through(rs, {"after"})
    BY <1>3, <1>4, <1>6, <1>7, <1>8
  <2>3. Through(rs, Phases)
    BY <2>2 DEF Through, Phases
  <2>4. Owns(rs, workers'[w], w) /\ Reached(rs, workers'[w])
    BY <1>3, <2>1, <2>3 DEF Owns, Reached, Holding
  <2> QED
    BY <1>1, <2>1, <2>4, StepReady DEF k, rs
<1>9. ASSUME NEW next \in Phases, workers' = [workers EXCEPT ![w].pc = "check", ![w].phase = next],
             \/ k.phase = "before" /\ next = "enter"
             \/ /\ next = "after" /\ k.phase # "after"
                /\ k.phase = "before" => ~HasWork(t, "enter")
      PROVE  WorkerReady(w)'
  <2>1. workers'[w].pc = "check" /\ workers'[w].job = k.job /\ workers'[w].phase = next
    BY <1>2, <1>9 DEF Worker, WorkersOK, k
  <2>2. Through(rs, {"before"}) /\ (next = "after" => Through(rs, {"enter"}))
    BY <1>3, <1>4, <1>6, <1>7, <1>9
  <2>3. Ready(rs, next)
    BY <1>9, <2>2 DEF Ready, Earlier, Through
  <2> QED
    BY <1>1, <2>1, <2>3, QuietReady DEF k, rs
<1>10. CASE k.phase = "before" /\ HasWork(t, "enter")
  <2>1. workers' = [workers EXCEPT ![w].pc = "check", ![w].phase = "enter"]
    BY <1>10 DEF Advance, k
  <2> QED
    BY <1>9, <1>10, <2>1 DEF Phases
<1>11. CASE /\ ~(k.phase = "before" /\ HasWork(t, "enter"))
            /\ k.phase # "after" /\ HasWork(t, "after")
  <2>1. workers' = [workers EXCEPT ![w].pc = "check", ![w].phase = "after"]
    BY <1>11 DEF Advance, k
  <2> QED
    BY <1>9, <1>11, <2>1 DEF Phases
<1>12. CASE /\ ~(k.phase = "before" /\ HasWork(t, "enter"))
            /\ ~(k.phase # "after" /\ HasWork(t, "after"))
  <2>1. workers' = Do(w, "finalize")
    BY <1>12 DEF Advance, k
  <2> QED
    BY <1>8, <1>12, <2>1
<1> QED
  BY <1>10, <1>11, <1>12

\* What a worker asks of the ticket leaves the run it claimed, and its other runs, alone.
LEMMA HandleKeeps ==
  ASSUME RowsOK, WorkersOK, NEW w \in Workers, HandleCall(w) \/ HandleMove(w) \/ HandleChange(w)
  PROVE  runs'[Task(w)] = runs[Task(w)]
<1>1. workers[w].pc = "handle"
  BY DEF HandleCall, HandleMove, HandleChange
<1>2. Task(w) \in DOMAIN runs /\ DOMAIN runs = 1..Len(runs)
  BY <1>1, ClaimedRun, KeptRows DEF RowsOK
<1>3. ASSUME NEW planned \in Seq(Run), runs' = Append(runs, planned)
      PROVE  runs'[Task(w)] = runs[Task(w)]
  BY <1>2, <1>3, KeptRows, AppendProperties DEF RowsOK
<1>4. ASSUME NEW to, NEW depth, MayMove(to, "action"), RecordMove(to, "action", depth)
      PROVE  runs'[Task(w)] = runs[Task(w)]
  <2>1. PlanRuns(ticket.status, to) \in Seq(Run)
    BY <1>4, KeptRows, PlanRunsType DEF MayMove
  <2>2. runs' = Append(runs, PlanRuns(ticket.status, to))
    BY <1>4 DEF RecordMove
  <2> QED
    BY <1>3, <2>1, <2>2
<1>5. ASSUME NEW to, RecordSystemTransfer(ticket, transfers, runs, to)
      PROVE  runs'[Task(w)] = runs[Task(w)]
  BY <1>3, <1>5, EmptySeq DEF RecordSystemTransfer
<1> QED
  BY <1>4, <1>5 DEF HandleCall, HandleMove, HandleChange

\* What a worker does in its task leaves it ready for what it does next.
LEMMA WorkReady ==
  ASSUME TypeInv, KeepsRows, RowsProceed, NEW w \in Workers, WorkerReady(w), Work(w)
  PROVE  WorkerReady(w)'
<1>1. RowsOK /\ WorkersOK /\ workers \in [Workers -> Worker]
  BY TypeInvParts DEF WorkersOK
<1>2. workers[w] \in Worker /\ (workers[w].pc # "idle" => Task(w) \in DOMAIN transfers)
  BY <1>1, KeptTask
<1>3. ASSUME workers[w].pc # "idle", workers' = Do(w, "read") PROVE WorkerReady(w)'
  <2>1. /\ workers'[w].pc = "read" /\ workers'[w].job = workers[w].job
        /\ workers'[w].phase = workers[w].phase
    BY <1>1, <1>3 DEF Do, Worker
  <2>2. Ready(runs'[Task(w)], workers[w].phase)
    BY <1>1, <1>3, TaskProceeds DEF Reached
  <2> QED
    BY <1>1, <1>3, <2>1, <2>2, QuietReady
<1>4. CASE Check(w)
  BY <1>1, <1>3, <1>4, ReturnReady DEF Check
<1>5. CASE ReadRuns(w)
  BY <1>1, <1>5, ReadReady
<1>6. CASE Claim(w)
  BY <1>1, <1>6, ClaimReady
<1>7. CASE Load(w)
  <2>1. PICK view \in {"open", "closed", "there"} :
          workers' = [workers EXCEPT ![w].pc = "handle", ![w].view = view]
    BY <1>7 DEF Load
  <2>2. /\ workers'[w].pc = "handle"
        /\ workers'[w].job = workers[w].job /\ workers'[w].phase = workers[w].phase
        /\ workers'[w].todo = workers[w].todo /\ workers'[w].then = workers[w].then
        /\ workers'[w].run = workers[w].run
    BY <1>1, <2>1 DEF Worker
  <2>3. workers[w].pc = "load" /\ runs' = runs
    BY <1>7 DEF Load
  <2> QED
    BY <1>1, <2>2, <2>3, HoldReady DEF Holding
<1>8. CASE HandleCall(w) \/ HandleMove(w) \/ HandleChange(w)
  <2>1. PICK result : workers' = [workers EXCEPT ![w].pc = "finish", ![w].view = "open",
                                                 ![w].outcome = result]
    BY <1>8 DEF HandleCall, HandleMove, HandleChange, Finishing
  <2>2. /\ workers'[w].pc = "finish"
        /\ workers'[w].job = workers[w].job /\ workers'[w].phase = workers[w].phase
        /\ workers'[w].todo = workers[w].todo /\ workers'[w].then = workers[w].then
        /\ workers'[w].run = workers[w].run
    BY <1>1, <2>1 DEF Worker
  <2>3. workers[w].pc = "handle"
    BY <1>8 DEF HandleCall, HandleMove, HandleChange
  <2>4. runs'[Task(w)] = runs[Task(w)]
    BY <1>1, <1>8, HandleKeeps
  <2> QED
    BY <1>1, <2>2, <2>3, <2>4, HoldReady DEF Holding
<1>9. ASSUME NEW outcome \in {"succeed", "retry", "fail"}, HandleEffect(w, outcome)
      PROVE  WorkerReady(w)'
  <2>1. Result(w, outcome) \in {"succeed", "retry", "fail"}
    BY DEF Result
  <2> QED
    BY <1>1, <1>9, <2>1, FinishReady DEF HandleEffect
<1>10. CASE Finish(w)
  BY <1>1, <1>2, <1>10, FinishReady DEF Finish, Worker
<1>11. CASE Fail(w)
  BY <1>1, <1>11, ReturnReady DEF Fail
<1>12. CASE Commit(w)
  <2>1. workers[w].pc = "advance"
    BY <1>12 DEF Commit
  <2>2. CASE workers' = Do(w, "remaining")
    <3>1. /\ workers'[w].pc = "remaining" /\ workers'[w].job = workers[w].job
          /\ workers'[w].phase = workers[w].phase
      BY <1>1, <2>2 DEF Do, Worker
    <3>2. Reached(runs'[Task(w)], workers[w])
      BY <1>1, <2>1, TaskProceeds
    <3>3. Owns(runs'[Task(w)], workers'[w], w) /\ Reached(runs'[Task(w)], workers'[w])
      BY <2>1, <3>1, <3>2 DEF Owns, Reached, Holding
    <3> QED
      BY <3>1, <3>3, StepReady
  <2>3. CASE workers' = Return(w)
    BY <1>1, <2>3, ReturnReady
  <2> QED
    BY <1>12, <2>2, <2>3 DEF Commit
<1>13. CASE Advance(w)
  BY <1>1, <1>13, AdvanceReady
<1>14. ASSUME NEW todo, workers[w].pc \in {"finalize", "deferred"},
              workers' = [workers EXCEPT ![w].pc = "deferred", ![w].todo = todo]
       PROVE  WorkerReady(w)'
  <2>1. /\ workers'[w].pc = "deferred" /\ workers'[w].job = workers[w].job
        /\ workers'[w].phase = workers[w].phase
    BY <1>1, <1>14 DEF Worker
  <2>2. Ready(runs'[Task(w)], workers[w].phase)
    BY <1>1, <1>14, TaskProceeds DEF Reached
  <2> QED
    BY <1>1, <1>14, <2>1, <2>2, QuietReady
<1>15. CASE Finalize(w)
  <2>1. /\ workers[w].pc = "finalize"
        /\ \/ workers' = Return(w)
           \/ \E todo : workers' = [workers EXCEPT ![w].pc = "deferred", ![w].todo = todo]
    BY <1>15 DEF Finalize
  <2> QED
    BY <1>1, <1>14, <2>1, ReturnReady
<1>16. CASE MakeDeferred(w)
  <2>1. PICK i \in workers[w].todo :
          \/ workers' = Return(w)
          \/ workers' = [workers EXCEPT ![w].todo = @ \ {i}]
    BY <1>16 DEF MakeDeferred
  <2>2. workers[w].pc = "deferred"
    BY <1>16 DEF MakeDeferred
  <2>3. CASE workers' = [workers EXCEPT ![w].todo = @ \ {i}]
    <3>1. /\ workers'[w].pc = "deferred" /\ workers'[w].job = workers[w].job
          /\ workers'[w].phase = workers[w].phase
      BY <1>1, <2>2, <2>3 DEF Worker
    <3>2. Ready(runs'[Task(w)], workers[w].phase)
      BY <1>1, <2>2, TaskProceeds DEF Reached
    <3> QED
      BY <1>1, <2>2, <3>1, <3>2, QuietReady
  <2> QED
    BY <1>1, <2>1, <2>3, ReturnReady
<1> QED
  BY <1>4, <1>5, <1>6, <1>7, <1>8, <1>9, <1>10, <1>11, <1>12, <1>13, <1>15, <1>16 DEF Work

\* Who does not act is as it was.
LEMMA OthersStay ==
  ASSUME TypeInv, NEW w \in Workers, Work(w) \/ TakeMessage(w) \/ Crash(w)
  PROVE  \A v \in Workers \ {w} : workers'[v] = workers[v]
<1>1. workers \in [Workers -> Worker]
  BY TypeInvParts DEF WorkersOK
<1>2. ASSUME \E todo, then : workers' = Continue(w, todo, then)
      PROVE  \A v \in Workers \ {w} : workers'[v] = workers[v]
  BY <1>1, <1>2 DEF Continue, Return
<1>3. ASSUME NEW outcome, FinishWith(w, outcome)
      PROVE  \A v \in Workers \ {w} : workers'[v] = workers[v]
  <2>1. workers' = Return(w) \/ \E todo, then : workers' = Continue(w, todo, then)
    BY <1>3 DEF FinishWith
  <2> QED
    BY <1>1, <1>2, <2>1 DEF Return
<1>10. CASE Commit(w)
  <2>1. workers' = Do(w, "remaining") \/ workers' = Return(w)
    BY <1>10 DEF Commit
  <2> QED
    BY <1>1, <2>1 DEF Do, Return
<1>4. CASE Check(w) \/ Load(w) \/ Fail(w) \/ Advance(w) \/ Finalize(w)
  <2>1. \E k : workers' = [workers EXCEPT ![w] = k]
    BY <1>1, <1>4 DEF Check, Load, Fail, Advance, Finalize, Do, Return
  <2> QED
    BY <1>1, <2>1
<1>5. CASE Claim(w) \/ MakeDeferred(w)
  BY <1>1, <1>5 DEF Claim, MakeDeferred, Return
<1>6. CASE HandleCall(w) \/ HandleMove(w) \/ HandleChange(w)
  BY <1>1, <1>6 DEF HandleCall, HandleMove, HandleChange, Finishing
<1>7. CASE Finish(w) \/ \E outcome \in {"succeed", "retry", "fail"} : HandleEffect(w, outcome)
  BY <1>3, <1>7 DEF Finish, HandleEffect
<1>8. CASE ReadRuns(w)
  <2>1. \E todo, then : workers' = Continue(w, todo, then)
    BY <1>8 DEF ReadRuns
  <2> QED
    BY <1>2, <2>1
<1>9. CASE TakeMessage(w) \/ Crash(w)
  <2>1. UNCHANGED workers \/ \E k : workers' = [workers EXCEPT ![w] = k]
    BY <1>9 DEF TakeMessage, Deliver, Crash, Return
  <2> QED
    BY <1>1, <2>1
<1> QED
  BY <1>4, <1>5, <1>6, <1>7, <1>8, <1>9, <1>10 DEF Work

\* A message that a step sends is one a transfer is ready for.
LEMMA SentReady ==
  ASSUME RestOK, MessagesReady, DOMAIN transfers \subseteq DOMAIN transfers',
         \A t \in DOMAIN transfers : Proceeds(runs[t], runs'[t]),
         NEW u \in DOMAIN transfers', NEW q \in Phases, Ready(runs'[u], q),
         messages' = Sent(u, q)
  PROVE  MessagesReady'
<1> SUFFICES ASSUME NEW t \in TransferIds, NEW phase \in Phases, messages'[<<t, phase>>] > 0
             PROVE  t \in DOMAIN transfers' /\ Ready(runs'[t], phase)
  BY DEF MessagesReady
<1>1. CASE t = u /\ phase = q
  BY <1>1
<1>2. CASE ~(t = u /\ phase = q)
  <2>1. <<t, phase>> # <<u, q>> /\ <<t, phase>> \in DOMAIN messages
    BY <1>2 DEF RestOK
  <2>2. messages[<<t, phase>>] > 0
    BY <2>1 DEF Sent
  <2> QED
    BY <2>2, ReadyStays DEF MessagesReady
<1> QED
  BY <1>1, <1>2

\* Messages that are taken, lost or stay.
LEMMA FewerReady ==
  ASSUME MessagesReady, DOMAIN transfers \subseteq DOMAIN transfers',
         \A t \in DOMAIN transfers : Proceeds(runs[t], runs'[t]),
         \A t \in TransferIds, phase \in Phases :
           messages'[<<t, phase>>] > 0 => messages[<<t, phase>>] > 0
  PROVE  MessagesReady'
<1> SUFFICES ASSUME NEW t \in TransferIds, NEW phase \in Phases, messages'[<<t, phase>>] > 0
             PROVE  t \in DOMAIN transfers' /\ Ready(runs'[t], phase)
  BY DEF MessagesReady
<1>1. messages[<<t, phase>>] > 0
  OBVIOUS
<1> QED
  BY <1>1, ReadyStays DEF MessagesReady

LEMMA RecordedReady ==
  ASSUME RowsOK, RestOK, MessagesReady, KeepsRows, RowsProceed,
         NEW target, NEW trigger \in Triggers, NEW depth \in Nat,
         MayMove(target, trigger), RecordMove(target, trigger, depth)
  PROVE  MessagesReady'
<1> DEFINE planned == PlanRuns(ticket.status, target)
<1>1. target \in Statuses
  BY DEF MayMove
<1>2. /\ DOMAIN transfers' = 1..(Latest + 1)
      /\ planned \in Seq(Run) /\ runs' = Append(runs, planned)
      /\ planned # <<>> => Ready(planned, planned[1].phase)
  BY <1>1, KeptRows, RecordEffect, PlanRunsType, PlannedInOrder DEF RecordMove
<1>3. \/ messages' = messages
      \/ planned # <<>> /\ messages' = Sent(Latest + 1, planned[1].phase)
  BY DEF RecordMove
<1> HIDE DEF planned
<1>4. ASSUME planned # <<>> PROVE planned[1].phase \in Phases
  <2>1. Len(planned) \in Nat /\ Len(planned) # 0
    BY <1>2, <1>4, LenProperties, EmptySeq
  <2>2. planned[1] \in Run
    BY <1>2, <2>1, ElementOfSeq
  <2> QED
    BY <2>2 DEF Run
<1>5. runs'[Latest + 1] = planned /\ Latest + 1 \in DOMAIN transfers'
  BY <1>2, KeptRows, AppendProperties, LenProperties DEF Latest, RowsOK
<1>6. /\ DOMAIN transfers \subseteq DOMAIN transfers'
      /\ \A t \in DOMAIN transfers : Proceeds(runs[t], runs'[t])
  BY RunsProceed DEF KeepsRows, Kept
<1>7. CASE messages' = messages
  BY <1>6, <1>7, FewerReady
<1>8. CASE planned # <<>> /\ messages' = Sent(Latest + 1, planned[1].phase)
  BY <1>2, <1>4, <1>5, <1>6, <1>8, SentReady
<1> QED
  BY <1>3, <1>7, <1>8

LEMMA WorkSends ==
  ASSUME TypeInv, KeepsRows, RowsProceed, MessagesReady, NEW w \in Workers, WorkerReady(w), Work(w)
  PROVE  MessagesReady'
<1>1. RowsOK /\ WorkersOK /\ RestOK
  BY TypeInvParts
<1>2. /\ DOMAIN transfers \subseteq DOMAIN transfers'
      /\ \A t \in DOMAIN transfers : Proceeds(runs[t], runs'[t])
  BY <1>1, RunsProceed DEF KeepsRows, Kept
<1>3. ASSUME UNCHANGED messages PROVE MessagesReady'
  BY <1>2, <1>3, FewerReady
<1>4. ASSUME NEW to, workers[w].pc # "idle", MayMove(to, "action"),
             RecordMove(to, "action", transfers[Task(w)].depth + 1)
      PROVE  MessagesReady'
  <2>1. transfers[Task(w)] \in Transfer
    BY <1>1, <1>4, KeptTask
  <2>2. transfers[Task(w)].depth + 1 \in Nat /\ "action" \in Triggers
    BY <2>1 DEF Transfer, Triggers
  <2> QED
    BY <1>1, <1>4, <2>2, RecordedReady
<1>5. ASSUME NEW outcome, workers[w].pc # "idle", FinishWith(w, outcome) PROVE MessagesReady'
  <2>1. UNCHANGED messages \/ messages' = Sent(Task(w), workers[w].phase)
    BY <1>5 DEF FinishWith
  <2>2. /\ Task(w) \in DOMAIN transfers /\ workers[w].phase \in Phases
        /\ Ready(runs'[Task(w)], workers[w].phase)
    BY <1>1, <1>5, KeptTask, TaskProceeds DEF Reached, Worker
  <2> QED
    BY <1>1, <1>2, <1>3, <2>1, <2>2, SentReady
<1>6. CASE Check(w) \/ ReadRuns(w) \/ Claim(w) \/ Load(w) \/ HandleCall(w) \/ HandleChange(w)
  BY <1>3, <1>6 DEF Check, ReadRuns, Claim, Load, HandleCall, HandleChange
<1>7. CASE Fail(w) \/ Commit(w) \/ Advance(w) \/ Finalize(w)
  BY <1>3, <1>7 DEF Fail, Commit, Advance, Finalize
<1>8. CASE Finish(w) \/ \E outcome \in {"succeed", "retry", "fail"} : HandleEffect(w, outcome)
  BY <1>5, <1>8 DEF Finish, HandleEffect
<1>9. CASE HandleMove(w)
  BY <1>3, <1>4, <1>9 DEF HandleMove
<1>10. CASE MakeDeferred(w)
  BY <1>3, <1>4, <1>10 DEF MakeDeferred
<1> QED
  BY <1>6, <1>7, <1>8, <1>9, <1>10 DEF Work

LEMMA EveryStepSends ==
  ASSUME TypeInv, KeepsRows, RowsProceed, InOrder, [Next]_vars, ~RetryFailed, ~RetryStalled
  PROVE  MessagesReady'
<1>1. RowsOK /\ WorkersOK /\ RestOK /\ MessagesReady /\ DOMAIN runs = DOMAIN transfers
  BY TypeInvParts, KeptRows DEF InOrder
<1>2. /\ DOMAIN transfers \subseteq DOMAIN transfers'
      /\ \A t \in DOMAIN transfers : Proceeds(runs[t], runs'[t])
  BY <1>1, RunsProceed DEF KeepsRows, Kept
<1>3. ASSUME UNCHANGED messages PROVE MessagesReady'
  BY <1>1, <1>2, <1>3, FewerReady
<1>4. ASSUME NEW u, NEW q, messages' = [messages EXCEPT ![<<u, q>>] = @ - 1] PROVE MessagesReady'
  <2>1. ASSUME NEW t \in TransferIds, NEW phase \in Phases, messages'[<<t, phase>>] > 0
        PROVE  messages[<<t, phase>>] > 0
    BY <1>1, <1>4, <2>1, BoundsAssumption DEF RestOK
  <2> QED
    BY <1>1, <1>2, <2>1, FewerReady
<1>5. ASSUME NEW t \in DOMAIN runs, NEW i \in DOMAIN runs[t], runs[t][i].state = "running",
             messages' = Sent(t, runs[t][i].phase)
      PROVE  MessagesReady'
  <2>1. runs[t][i] \in Run
    BY <1>1, KeptRows, LenProperties, ElementOfSeq
  <2>2. runs[t][i].phase \in Phases /\ Ready(runs'[t], runs[t][i].phase)
    BY <1>1, <1>2, <1>5, <2>1, ReadyStays DEF InOrder, RowReady, Run
  <2> QED
    BY <1>1, <1>2, <1>5, <2>2, SentReady
<1>6. CASE Environment
  <2>1. ASSUME NEW s \in Statuses, NEW trigger \in Triggers \ {"system"}, RequestMove(s, trigger)
        PROVE  MessagesReady'
    BY <1>1, <2>1, RecordedReady DEF RequestMove
  <2>2. CASE EditFields \/ DeleteStatus \/ \E key \in PipelineKeys : SystemMove(key)
    BY <1>3, <2>2 DEF EditFields, DeleteStatus, SystemMove
  <2>3. CASE \E s \in Statuses : ChangeWorkflow(s) \/ AdoptTicket(s) \/ CheckDeletion(s) \/ Evacuate(s)
    BY <1>3, <2>3 DEF ChangeWorkflow, AdoptTicket, CheckDeletion, Evacuate
  <2> QED
    BY <1>6, <2>1, <2>2, <2>3 DEF Environment
<1>7. ASSUME NEW w \in Workers, Work(w) PROVE MessagesReady'
  BY <1>1, <1>7, WorkSends DEF InOrder
<1>8. ASSUME NEW w \in Workers, TakeMessage(w) PROVE MessagesReady'
  BY <1>4, <1>8 DEF TakeMessage, Deliver
<1>9. ASSUME NEW t \in DOMAIN runs, NEW i \in DOMAIN runs[t], TimeOut(t, i) PROVE MessagesReady'
  BY <1>5, <1>9 DEF TimeOut, Overdue
<1>10. ASSUME NEW t \in DOMAIN transfers, Resume(t) PROVE MessagesReady'
  <2>1. FirstPhase(t) \in Phases /\ Ready(runs[t], FirstPhase(t))
    BY <1>1 DEF FirstPhase, Phases, InOrder, RowReady, Ready, Through, Earlier
  <2>2. Ready(runs'[t], FirstPhase(t)) /\ messages' = Sent(t, FirstPhase(t))
    BY <1>2, <1>10, <2>1, ReadyStays DEF Resume
  <2> HIDE DEF FirstPhase
  <2> QED
    BY <1>1, <1>2, <2>1, <2>2, SentReady
<1>11. ASSUME NEW t \in DOMAIN runs, NEW i \in DOMAIN runs[t], NEW success \in BOOLEAN,
              Answer(t, i, success)
       PROVE  MessagesReady'
  BY <1>3, <1>5, <1>11 DEF Answer, Hears
<1>12. ASSUME NEW w \in Workers, Crash(w) PROVE MessagesReady'
  <2>1. workers[w].pc # "idle" /\ messages' = Sent(Task(w), workers[w].job[2])
    BY <1>12 DEF Crash
  <2>2. /\ Task(w) \in DOMAIN transfers /\ workers[w].job[2] \in Phases
        /\ Ready(runs'[Task(w)], workers[w].job[2])
    BY <1>1, <2>1, KeptTask, TaskProceeds DEF InOrder, Reached, Worker
  <2> QED
    BY <1>1, <1>2, <2>1, <2>2, SentReady
<1>13. ASSUME NEW t \in DOMAIN transfers, NEW phase \in Phases, Lose(t, phase) PROVE MessagesReady'
  BY <1>4, <1>13 DEF Lose
<1>14. CASE UNCHANGED vars
  BY <1>3, <1>14 DEF vars
<1> QED
  BY <1>6, <1>7, <1>8, <1>9, <1>10, <1>11, <1>12, <1>13, <1>14 DEF Next, Sweep, External

\* The message a worker takes is one its transfer is ready for.
LEMMA TakenReady ==
  ASSUME TypeInv, KeepsRows, RowsProceed, MessagesReady, NEW w \in Workers, WorkerReady(w),
         TakeMessage(w)
  PROVE  WorkerReady(w)'
<1>1. RowsOK /\ WorkersOK /\ workers \in [Workers -> Worker]
  BY TypeInvParts DEF WorkersOK
<1>2. PICK t \in DOMAIN transfers, phase \in Phases : Deliver(w, t, phase)
  BY DEF TakeMessage
<1> DEFINE k == [Idle EXCEPT !.pc = "read", !.job = <<t, phase>>, !.phase = phase]
<1>3. k.pc = "read" /\ k.job = <<t, phase>> /\ k.phase = phase
  BY DEF Idle
<1>4. UNCHANGED workers \/ workers' = [workers EXCEPT ![w] = k]
  BY <1>2 DEF Deliver
<1>5. workers[w].pc = "idle" /\ messages[<<t, phase>>] > 0
  BY <1>2 DEF Deliver
<1> HIDE DEF k
<1>6. CASE UNCHANGED workers
  BY <1>5, <1>6 DEF WorkerReady, Owns, Reached, Holding
<1>7. CASE workers' = [workers EXCEPT ![w] = k]
  <2>1. t \in TransferIds
    BY <1>1, KeptRows, BoundsAssumption DEF TransferIds
  <2>2. Ready(runs'[t], phase)
    BY <1>1, <1>5, <2>1, RunsProceed, ReadyStays DEF MessagesReady
  <2>3. workers'[w] = k /\ Task(w)' = t
    BY <1>1, <1>3, <1>7 DEF Task
  <2>4. k.job[2] = phase
    BY <1>3
  <2>5. Owns(runs'[t], k, w) /\ Reached(runs'[t], k)
    BY <1>3, <2>2, <2>4 DEF Owns, Reached, Holding
  <2> QED
    BY <2>3, <2>5 DEF WorkerReady
<1> QED
  BY <1>4, <1>6, <1>7

\* No step but a person's retry takes the runs of a move out of their order.
LEMMA InOrderStep ==
  ASSUME TypeInv, Safe, Owned, Over, InOrder, [Next]_vars, ~RetryFailed, ~RetryStalled
  PROVE  InOrder'
<1>1. /\ RowsOK /\ WorkersOK /\ KeepsRows /\ RowsProceed /\ DOMAIN runs = DOMAIN transfers
      /\ \A w \in Workers : WorkerReady(w)
  BY TypeInvParts, EveryStepKeeps, EveryStepProceeds, KeptRows DEF InOrder
<1>2. MessagesReady'
  BY <1>1, EveryStepSends
<1>3. \A w \in Workers : WorkerReady(w)'
  <2>1. \/ UNCHANGED workers
        \/ \E w \in Workers : TakeMessage(w) \/ Crash(w) \/ Work(w)
    BY DEF Next, vars, Environment, SystemMove, RequestMove, ChangeWorkflow, AdoptTicket, EditFields,
           RetryFailed, RetryStalled, CheckDeletion, Evacuate, DeleteStatus, Sweep, TimeOut, Resume,
           External, Answer, Lose
  <2>2. CASE UNCHANGED workers
    BY <1>1, <2>2, OthersReady
  <2>3. ASSUME NEW w \in Workers, TakeMessage(w) \/ Crash(w) \/ Work(w)
        PROVE  \A v \in Workers : WorkerReady(v)'
    <3>1. \A v \in Workers \ {w} : workers'[v] = workers[v]
      BY <2>3, OthersStay
    <3>2. WorkerReady(w)'
      BY <1>1, <2>3, TakenReady, WorkReady, ReturnReady DEF InOrder, Crash
    <3> QED
      BY <1>1, <3>1, <3>2, OthersReady
  <2> QED
    BY <2>1, <2>2, <2>3
<1>4. ASSUME NEW t \in DOMAIN transfers'
      PROVE  /\ RowReady(t)'
             /\ transfers'[t].state = "completed" =>
                  \A i \in DOMAIN runs'[t] : runs'[t][i].state = "succeeded"
  <2>1. CASE t \notin DOMAIN transfers
    <3>1. Begins(t)
      BY <1>1, <2>1 DEF RowsProceed
    <3>2. transfers'[t].entered => Ready(runs'[t], "enter")
      BY <3>1 DEF Begins, Ready, Through, Earlier
    <3> QED
      BY <3>1, <3>2 DEF Begins, RowReady
  <2>2. CASE t \in DOMAIN transfers
    <3>1. /\ TransferProceeds(t) /\ Proceeds(runs[t], runs'[t]) /\ RowReady(t)
          /\ DOMAIN runs'[t] = DOMAIN runs[t]
          /\ \A i \in DOMAIN runs[t] : RunKept(t, i)
      BY <1>1, <2>2, RunsProceed DEF RowsProceed, InOrder, KeepsRows, Kept
    <3>2. ASSUME transfers'[t].entered PROVE Ready(runs'[t], "enter")
      <4>1. CASE transfers[t].entered
        BY <3>1, <4>1, ReadyStays DEF RowReady
      <4>2. CASE At(t, "advance")
        <5>1. Through(runs[t], {"before"})
          BY <1>1, <4>2 DEF At, WorkerReady, Reached
        <5> QED
          BY <3>1, <5>1, ThroughStays DEF Ready, Earlier
      <4> QED
        BY <3>1, <3>2, <4>1, <4>2 DEF TransferProceeds
    <3>3. ASSUME NEW i \in DOMAIN runs'[t], runs'[t][i].state = "running"
          PROVE  Ready(runs'[t], runs'[t][i].phase)
      <4>1. /\ RunProceeds(t, i) /\ i \in DOMAIN runs[t]
            /\ runs'[t][i].phase = runs[t][i].phase
        BY <3>1 DEF TransferProceeds, RunProceeds
      <4>2. Ready(runs[t], runs[t][i].phase)
        <5>1. CASE runs[t][i].state = "running"
          BY <3>1, <4>1, <5>1 DEF RowReady
        <5>2. CASE Takes(t, i)
          BY <1>1, <5>2 DEF Takes, WorkerReady, Reached
        <5> QED
          BY <3>3, <4>1, <5>1, <5>2 DEF RunProceeds
      <4> QED
        BY <3>1, <4>1, <4>2, ReadyStays
    <3>4. ASSUME NEW i \in DOMAIN runs'[t], IsOpen(t)' PROVE runs'[t][i].state # "skipped"
      BY <3>1, <3>4 DEF TransferProceeds, RunProceeds, RowReady, IsOpen
    <3>5. ASSUME transfers'[t].state = "completed", NEW i \in DOMAIN runs'[t]
          PROVE  runs'[t][i].state = "succeeded"
      <4>1. runs[t][i].state = "succeeded"
        <5>1. CASE transfers[t].state = "completed"
          BY <2>2, <3>1, <5>1 DEF InOrder, CompletedRanEverything
        <5>2. CASE IsOpen(t) /\ ~HasFailed(t) /\ At(t, "finalize")
          <6>1. Through(runs[t], Phases)
            BY <1>1, <5>2 DEF At, WorkerReady, Reached
          <6>2. runs[t][i] \in Run
            BY <1>1, <2>2, <3>1, KeptRows, LenProperties, ElementOfSeq
          <6>3. Ended(runs[t][i])
            BY <3>1, <6>1, <6>2 DEF Through, Run
          <6> QED
            BY <3>1, <5>2, <6>3 DEF Ended, HasFailed, RowReady
        <5> QED
          BY <3>1, <3>5, <5>1, <5>2 DEF TransferProceeds
      <4> QED
        BY <3>1, <4>1 DEF RunKept
    <3> QED
      BY <3>2, <3>3, <3>4, <3>5 DEF RowReady
  <2> QED
    BY <2>1, <2>2
<1>5. CompletedRanEverything'
  BY <1>4 DEF CompletedRanEverything
<1> QED
  BY <1>2, <1>3, <1>4, <1>5 DEF InOrder

LEMMA InOrderInvariant == Spec => []InOrderUntilRetried
<1>1. Init => InOrder
  <2> SUFFICES ASSUME Init PROVE InOrder
    OBVIOUS
  <2>1. /\ DOMAIN transfers = {} /\ \A w \in Workers : workers[w].pc = "idle"
        /\ \A t \in TransferIds, phase \in Phases : messages[<<t, phase>>] = 0
    BY EmptySeq, LenProperties DEF Init, Idle
  <2> QED
    BY <2>1 DEF InOrder, MessagesReady, WorkerReady, Owns, Reached, Holding, CompletedRanEverything
<1>2. ASSUME TypeInv, Safe, Owned, Over, InOrderUntilRetried, [Next]_vars
      PROVE  InOrderUntilRetried'
  <2>1. spent \in [retries : 0..MaxRetries, crashes : 0..MaxCrashes, losses : 0..MaxLosses]
    BY <1>2 DEF TypeInv, TypeOK
  <2>2. ASSUME RetryFailed \/ RetryStalled PROVE spent'.retries # 0
    <3>1. spent' = [spent EXCEPT !.retries = @ + 1]
      BY <2>2 DEF RetryFailed, RetryStalled
    <3> QED
      BY <2>1, <3>1, BoundsAssumption
  <2>3. ASSUME ~RetryFailed, ~RetryStalled PROVE spent'.retries = spent.retries
    <3>1. \/ UNCHANGED spent
          \/ spent' = [spent EXCEPT !.crashes = @ + 1]
          \/ spent' = [spent EXCEPT !.losses = @ + 1]
      <4>1. ASSUME NEW w \in Workers, Work(w) PROVE UNCHANGED spent
        BY <4>1 DEF Work, Check, ReadRuns, Claim, Load, HandleEffect, HandleCall, HandleMove,
                    HandleChange, Finish, FinishWith, Fail, Commit, Advance, Finalize, MakeDeferred
      <4> QED
        BY <1>2, <2>3, <4>1
           DEF Next, vars, Environment, SystemMove, RequestMove, ChangeWorkflow, AdoptTicket,
               EditFields, CheckDeletion, Evacuate, DeleteStatus, TakeMessage, Deliver, Sweep,
               TimeOut, Resume, External, Answer, Crash, Lose
    <3> QED
      BY <2>1, <3>1
  <2> QED
    BY <1>2, <2>2, <2>3, InOrderStep DEF InOrderUntilRetried
<1>3. Init => InOrderUntilRetried
  BY <1>1 DEF InOrderUntilRetried
<1> QED
  BY <1>2, <1>3, SafeInvariant, FinishedInvariant, PTL DEF Spec

\* Until a person retries, a move is recorded as completed only when every one of its runs
\* succeeded, whatever is delivered twice, lost, timed out or crashes: the phases end in their
\* order, and a worker passes one only when each run of it is over.
THEOREM NothingIsDropped == Spec => [](spent.retries = 0 => CompletedRanEverything)
<1>1. InOrderUntilRetried => (spent.retries = 0 => CompletedRanEverything)
  BY DEF InOrderUntilRetried, InOrder
<1> QED
  BY <1>1, InOrderInvariant, PTL

\* Until a person retries, a worker that ends a run writes only the attempt it claimed itself.
THEOREM WritesItsOwn == Spec => OnlyTheOwnerWrites
<1>1. ASSUME TypeInv, InOrderUntilRetried, spent.retries = 0,
             NEW w \in Workers, workers[w].pc \in {"handle", "finish"}, Work(w),
             runs'[Task(w)][workers[w].run] # CurrentRun(w)
      PROVE  CurrentRun(w).owner = w
  <2>1. RowsOK /\ WorkersOK /\ WorkerReady(w)
    BY <1>1, TypeInvParts DEF InOrderUntilRetried, InOrder
  <2>2. \/ Ended(CurrentRun(w))
        \/ CurrentRun(w).state = "running" /\ CurrentRun(w).owner = w
    BY <1>1, <2>1 DEF WorkerReady, Owns, CurrentRun, Holding
  <2>3. ASSUME Ended(CurrentRun(w)) PROVE runs'[Task(w)] = runs[Task(w)]
    <3>1. CASE HandleCall(w) \/ HandleMove(w) \/ HandleChange(w)
      BY <2>1, <3>1, HandleKeeps
    <3>2. ASSUME NEW outcome, FinishWith(w, outcome) PROVE runs'[Task(w)] = runs[Task(w)]
      BY <2>3, <3>2 DEF FinishWith, Ended
    <3> QED
      BY <1>1, <3>1, <3>2
         DEF Work, Check, ReadRuns, Claim, Load, HandleEffect, Finish, Fail, Commit, Advance,
             Finalize, MakeDeferred
  <2> QED
    BY <1>1, <2>2, <2>3 DEF CurrentRun
<1>2. TypeInv /\ InOrderUntilRetried /\ [Next]_vars =>
        [spent.retries = 0 => \A w \in Workers : ~Trespasses(w)]_vars
  BY <1>1 DEF Trespasses
<1> QED
  BY <1>2, InOrderInvariant, SafeInvariant, PTL DEF Spec, OnlyTheOwnerWrites
=============================================================================
