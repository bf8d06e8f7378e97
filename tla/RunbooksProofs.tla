--------------------------- MODULE RunbooksProofs ---------------------------
(***************************************************************************)
(* Proofs about Runbooks, for any number of workers, executions, changes,  *)
(* crashes and losses.                                                     *)
(*                                                                         *)
(* An execution has at most one worker, and its effect is either still to  *)
(* come or on record (StagesOK).  So a failed execution whose effect may   *)
(* come or has come is one that a person misjudged (Wrong), and only the   *)
(* last execution is not failed: the effects are as many as the misjudged  *)
(* ones, and one.                                                          *)
(***************************************************************************)
EXTENDS Runbooks, FiniteSetTheorems, SequenceTheorems, TLAPS

States == {"queued", "running"} \cup Finals

Row == [state : States, version : Nat, executor : Executors, between : BOOLEAN]

Worker == [pc : {"idle", "call", "finish"}, e : 0..MaxAttempts,
           executor : Executors \cup {"none"}, outcome : Finals \cup {"running", "none"}]

Bounds == {"changes", "revocations", "misjudged", "crashes", "losses"}

\* What a worker holds, by what it is about to do.
WorkerOK(w) ==
  /\ workers[w].pc = "idle" <=> workers[w] = Idle
  /\ workers[w].pc = "call" => workers[w].executor # "none"
  /\ workers[w].pc = "finish" => workers[w].outcome # "none"

\* An execution that does not exist yet has left no trace.
FreshOK == \A e \in (1..MaxAttempts) \ Attempts : flows[e] = "none" /\ ran[e] = 0

TypeInv == TypeOK /\ (\A w \in Workers : WorkerOK(w)) /\ FreshOK

Effected == Range(happened)

\* How far an execution is: its effect is still to come, may come once, or has come.
StageOK(e) ==
  /\ State(e) = "queued" => flows[e] = "none" /\ e \notin Effected
  /\ flows[e] \in {"started", "failed"} => e \notin Effected
  /\ flows[e] = "did" => e \in Effected
  /\ State(e) = "succeeded" => e \in Effected

TaskOK(w) == workers[w].pc # "idle" =>
  /\ executions[workers[w].e].state # "queued"
  /\ workers[w].pc = "call" \/ workers[w].outcome = "failed" =>
       flows[workers[w].e] = "none" /\ workers[w].e \notin Effected
  /\ workers[w].outcome = "succeeded" => workers[w].e \in Effected

StagesOK ==
  /\ \A e \in Attempts : StageOK(e)
  /\ \A w \in Workers : TaskOK(w)
  /\ \A w, v \in Workers : workers[w].pc # "idle" /\ workers[w].e = workers[v].e => w = v
  /\ Len(happened) = Cardinality(Effected)

\* The failed executions that took effect, or may.
Wrong == {e \in Attempts : State(e) = "failed" /\ (e \in Effected \/ OnItsWay(e))}

Judged == Cardinality(Wrong) <= spent.misjudged

\* A run queued since the last change was checked against what is live.
VersionsOK ==
  /\ \A e \in Attempts :
       e > runbook.since => executions[e].version = runbook.version \/ executions[e].between
  /\ change.open => \A e \in Attempts : e > change.at => executions[e].between

Safe == StagesOK /\ OneOpenAttempt /\ Judged /\ VersionsOK /\ RunsWhatWasChecked

---------------------------------------------------------------------------
(* Types *)

LEMMA AttemptsType ==
  ASSUME TypeOK
  PROVE  /\ Attempts = 1..Len(executions) /\ Len(executions) \in 0..MaxAttempts
         /\ Attempts \subseteq 1..MaxAttempts
<1>1. executions \in Seq(Row)
  BY DEF TypeOK, Row, States
<1>2. Len(executions) \in Nat /\ DOMAIN executions = 1..Len(executions)
  BY <1>1
<1> QED
  BY <1>2, BoundsAssumption DEF TypeOK, Attempts

LEMMA SpendType ==
  ASSUME spent \in [Bounds -> Nat], NEW bound \in Bounds, Spend(bound)
  PROVE  /\ spent' \in [Bounds -> Nat] /\ spent'[bound] = spent[bound] + 1
         /\ \A other \in Bounds \ {bound} : spent'[other] = spent[other]
BY DEF Spend

\* One execution changes its state.
LEMMA StateUpdate ==
  ASSUME executions \in Seq(Row), NEW e \in Attempts, NEW s \in States,
         executions' = [executions EXCEPT ![e].state = s]
  PROVE  /\ executions' \in Seq(Row) /\ Len(executions') = Len(executions)
         /\ Attempts' = Attempts
         /\ executions'[e].state = s
         /\ executions'[e].version = executions[e].version
         /\ executions'[e].between = executions[e].between
         /\ executions'[e].executor = executions[e].executor
         /\ \A f \in Attempts \ {e} : executions'[f] = executions[f]
<1>1. Attempts = 1..Len(executions) /\ executions[e] \in Row
  BY DEF Attempts
<1> DEFINE new == [executions[e] EXCEPT !.state = s]
<1>2. /\ new \in Row /\ new.state = s /\ new.version = executions[e].version
      /\ new.between = executions[e].between /\ new.executor = executions[e].executor
  BY <1>1 DEF Row
<1>3. executions' = [executions EXCEPT ![e] = new]
  OBVIOUS
<1> HIDE DEF new
<1> QED
  BY <1>1, <1>2, <1>3 DEF Attempts

\* One worker's record is replaced by another.
LEMMA WorkerUpdate ==
  ASSUME workers \in [Workers -> Worker], NEW w \in Workers, NEW record \in Worker,
         workers' = [workers EXCEPT ![w] = record]
  PROVE  /\ workers' \in [Workers -> Worker] /\ workers'[w] = record
         /\ \A v \in Workers \ {w} : workers'[v] = workers[v]
OBVIOUS

LEMMA AppendType ==
  ASSUME NEW S, NEW s \in Seq(S), NEW e \in S
  PROVE  Append(s, e) \in Seq(S)
OBVIOUS

LEMMA IdleType == Idle \in Worker
BY BoundsAssumption DEF Idle, Worker

\* A step that adds no execution, as far as types go.
LEMMA TypesKept ==
  ASSUME TypeInv,
         runbook' \in [version : Nat, active : BOOLEAN, executor : Executors,
                       since : 0..MaxAttempts],
         change' \in [open : BOOLEAN, at : 0..MaxAttempts], permitted' \in BOOLEAN,
         executions' \in Seq(Row), Len(executions') = Len(executions),
         Attempts' = Attempts, messages' \subseteq Attempts, lost' \subseteq Attempts,
         workers' \in [Workers -> Worker],
         \A w \in Workers : /\ workers'[w] # Idle => workers'[w].e \in Attempts
                            /\ WorkerOK(w)',
         flows' \in [1..MaxAttempts -> {"none", "started", "did", "failed", "answered"}],
         \A e \in (1..MaxAttempts) \ Attempts : flows'[e] = flows[e] /\ ran'[e] = ran[e],
         happened' \in Seq(Attempts), ran' \in [1..MaxAttempts -> Nat],
         spent' \in [Bounds -> Nat]
  PROVE  TypeInv'
<1>1. TypeOK'
  BY DEF TypeInv, TypeOK, Row, States, Worker, Bounds
<1>2. FreshOK'
  BY DEF TypeInv, FreshOK
<1> QED
  BY <1>1, <1>2 DEF TypeInv

\* What TypeInv says, in the names of this module.
LEMMA Typed ==
  ASSUME TypeInv
  PROVE  /\ runbook \in [version : Nat, active : BOOLEAN, executor : Executors,
                         since : 0..MaxAttempts]
         /\ change \in [open : BOOLEAN, at : 0..MaxAttempts] /\ permitted \in BOOLEAN
         /\ executions \in Seq(Row) /\ Len(executions) \in 0..MaxAttempts
         /\ Attempts = 1..Len(executions) /\ Attempts \subseteq 1..MaxAttempts
         /\ messages \subseteq Attempts /\ lost \subseteq Attempts
         /\ workers \in [Workers -> Worker]
         /\ \A w \in Workers : /\ workers[w] # Idle => workers[w].e \in Attempts
                               /\ workers[w].pc # "idle" => workers[w].e \in Attempts
                               /\ WorkerOK(w)
         /\ flows \in [1..MaxAttempts -> {"none", "started", "did", "failed", "answered"}]
         /\ FreshOK
         /\ happened \in Seq(Attempts) /\ ran \in [1..MaxAttempts -> Nat]
         /\ spent \in [Bounds -> Nat]
<1>1. Attempts = 1..Len(executions) /\ Len(executions) \in 0..MaxAttempts
      /\ Attempts \subseteq 1..MaxAttempts
  BY AttemptsType DEF TypeInv
<1>2. \A w \in Workers : WorkerOK(w) /\ (workers[w] # Idle => workers[w].e \in Attempts)
  BY DEF TypeInv, TypeOK
<1>3. \A w \in Workers : workers[w].pc # "idle" => workers[w].e \in Attempts
  BY <1>2 DEF WorkerOK
<1> QED
  BY <1>1, <1>2, <1>3 DEF TypeInv, TypeOK, Row, States, Worker, Bounds

LEMMA TypeInvInit == Init => TypeInv
<1> SUFFICES ASSUME Init PROVE TypeInv
  OBVIOUS
<1>1. executions = <<>> /\ Attempts = {} /\ Len(executions) = 0 /\ happened = <<>>
  BY DEF Init, Attempts
<1>2. PICK executor \in Executors :
        runbook = [version |-> 1, active |-> TRUE, executor |-> executor, since |-> 0]
  BY DEF Init
<1>3. \A w \in Workers : workers[w] = Idle
  BY DEF Init
<1>4. workers \in [Workers -> Worker]
  BY IdleType DEF Init
<1>5. TypeOK
  BY <1>1, <1>2, <1>3, <1>4, BoundsAssumption DEF Init, TypeOK, Worker
<1>6. \A w \in Workers : WorkerOK(w)
  BY <1>3 DEF WorkerOK, Idle
<1>7. FreshOK
  BY <1>1 DEF FreshOK, Init
<1> QED
  BY <1>5, <1>6, <1>7 DEF TypeInv

LEMMA TypeExecute == ASSUME TypeInv, Execute PROVE TypeInv'
<1> DEFINE row == [state |-> "queued", version |-> runbook.version,
                   executor |-> runbook.executor, between |-> change.open]
           n == Len(executions)
<1>1. row \in Row
  BY Typed DEF Row, States
<1>2. executions' = Append(executions, row) /\ n < MaxAttempts
      /\ messages' = messages \cup {n + 1}
  BY DEF Execute
<1>3. /\ executions' \in Seq(Row) /\ Len(executions') = n + 1 /\ n \in Nat
      /\ n + 1 \in 1..MaxAttempts
      /\ Attempts = 1..n /\ Attempts' = 1..(n + 1)
  <2>1. executions \in Seq(Row) /\ n \in 0..MaxAttempts /\ Attempts = 1..n
    BY Typed
  <2>2. executions' \in Seq(Row) /\ Len(executions') = n + 1
        /\ DOMAIN executions' = 1..(n + 1)
    <3> HIDE DEF row
    <3> QED
      BY <1>1, <1>2, <2>1
  <2> QED
    BY <1>2, <2>1, <2>2, BoundsAssumption DEF Attempts
<1> HIDE DEF row, n
<1>4. Attempts \subseteq Attempts'
  BY <1>3
<1>5. TypeOK'
  <2>1. messages' \subseteq Attempts' /\ lost' \subseteq Attempts'
    BY <1>2, <1>3, Typed DEF Execute
  <2>2. happened' \in Seq(Attempts')
    <3>1. happened' = happened /\ happened \in Seq(Attempts)
      BY Typed DEF Execute, world
    <3> QED
      BY <1>4, <3>1
  <2>3. \A w \in Workers : workers'[w] # Idle => workers'[w].e \in Attempts'
    BY <1>4, Typed DEF Execute
  <2>4. Len(executions') <= MaxAttempts
    BY <1>3, BoundsAssumption
  <2> QED
    BY <1>3, <2>1, <2>2, <2>3, <2>4 DEF TypeInv, TypeOK, Execute, Row, States, catalog, world
<1>6. (\A w \in Workers : WorkerOK(w)') /\ FreshOK'
  BY <1>4, Typed DEF Execute, WorkerOK, FreshOK, world
<1> QED
  BY <1>5, <1>6 DEF TypeInv

LEMMA TypeStart == ASSUME TypeInv, NEW w \in Workers, Start(w) PROVE TypeInv'
<1>1. PICK e \in messages :
        /\ messages' = messages \ {e}
        /\ \/ UNCHANGED <<executions, workers, ran>>
           \/ SetState(e, "failed") /\ UNCHANGED <<workers, ran>>
           \/ /\ SetState(e, "running")
              /\ workers' = [workers EXCEPT ![w] =
                   [Idle EXCEPT !.pc = "call", !.e = e, !.executor = runbook.executor]]
              /\ ran' = [ran EXCEPT ![e] = runbook.version]
        /\ UNCHANGED <<catalog, flows, happened, lost, spent>>
  BY DEF Start
<1>2. e \in Attempts /\ e \in 1..MaxAttempts
  BY Typed
<1>3. CASE UNCHANGED <<executions, workers, ran>>
  BY <1>1, <1>3, Typed, TypesKept DEF catalog, WorkerOK, Attempts
<1>4. CASE SetState(e, "failed") /\ UNCHANGED <<workers, ran>>
  <2>1. /\ executions' \in Seq(Row) /\ Len(executions') = Len(executions)
        /\ Attempts' = Attempts
    BY <1>2, <1>4, Typed, StateUpdate DEF SetState, States, Finals
  <2> QED
    BY <1>1, <1>4, <2>1, Typed, TypesKept DEF catalog, WorkerOK
<1>5. CASE /\ SetState(e, "running")
           /\ workers' = [workers EXCEPT ![w] =
                [Idle EXCEPT !.pc = "call", !.e = e, !.executor = runbook.executor]]
           /\ ran' = [ran EXCEPT ![e] = runbook.version]
  <2> DEFINE record ==
        [Idle EXCEPT !.pc = "call", !.e = e, !.executor = runbook.executor]
  <2>1. /\ executions' \in Seq(Row) /\ Len(executions') = Len(executions)
        /\ Attempts' = Attempts
    BY <1>2, <1>5, Typed, StateUpdate DEF SetState, States
  <2>2. record \in Worker /\ record.e = e /\ record.pc = "call" /\ record.executor # "none"
        /\ record # Idle
    <3>1. runbook.executor \in Executors /\ e \in 0..MaxAttempts
      BY <1>2, Typed, BoundsAssumption
    <3>2. Idle \in Worker /\ Idle.pc = "idle"
      BY IdleType DEF Idle
    <3> QED
      BY <3>1, <3>2 DEF Worker, Executors
  <2> HIDE DEF record
  <2>3. workers' \in [Workers -> Worker] /\ workers'[w] = record
        /\ \A v \in Workers \ {w} : workers'[v] = workers[v]
    BY <1>5, <2>2, Typed, WorkerUpdate DEF record
  <2>4. \A v \in Workers : /\ workers'[v] # Idle => workers'[v].e \in Attempts
                           /\ WorkerOK(v)'
    BY <1>2, <2>2, <2>3, Typed DEF WorkerOK
  <2>5. /\ ran' \in [1..MaxAttempts -> Nat]
        /\ \A f \in (1..MaxAttempts) \ Attempts : ran'[f] = ran[f]
    BY <1>2, <1>5, Typed
  <2> QED
    BY <1>1, <2>1, <2>3, <2>4, <2>5, Typed, TypesKept DEF catalog
<1> QED
  BY <1>1, <1>3, <1>4, <1>5

\* What a call comes to.
LEMMA Calls ==
  ASSUME TypeInv, NEW w \in Workers, Call(w)
  PROVE  \E did \in BOOLEAN, outcome \in Finals \cup {"running"} :
           LET e == workers[w].e IN
           /\ outcome \in {"succeeded", "running"} => did
           /\ outcome = "failed" => ~did
           /\ workers' = [workers EXCEPT ![w].pc = "finish", ![w].outcome = outcome]
           /\ \/ /\ outcome # "running"
                 /\ happened' = (IF did THEN Append(happened, e) ELSE happened)
                 /\ UNCHANGED flows
              \/ /\ outcome # "succeeded"
                 /\ flows' = (IF did THEN [flows EXCEPT ![e] = "started"] ELSE flows)
                 /\ UNCHANGED happened
<1> DEFINE e == workers[w].e
<1>1. CASE \E r \in KeycloakOutcomes :
             /\ workers' = [workers EXCEPT ![w].pc = "finish", ![w].outcome = r.outcome]
             /\ happened' = IF r.did THEN Append(happened, e) ELSE happened
             /\ UNCHANGED flows
  <2>1. \A r \in KeycloakOutcomes :
          /\ r.did \in BOOLEAN /\ r.outcome \in Finals
          /\ r.outcome = "succeeded" => r.did
          /\ r.outcome = "failed" => ~r.did
    <3> SUFFICES ASSUME NEW r \in KeycloakOutcomes
                 PROVE  /\ r.did \in BOOLEAN /\ r.outcome \in Finals
                        /\ r.outcome = "succeeded" => r.did
                        /\ r.outcome = "failed" => ~r.did
      OBVIOUS
    <3>1. \/ r.did = TRUE /\ r.outcome = "succeeded"
          \/ r.did = FALSE /\ r.outcome = "failed"
          \/ r.did = TRUE /\ r.outcome = "unknown"
          \/ r.did = FALSE /\ r.outcome = "unknown"
      <4> DEFINE yes == TRUE
                 no == FALSE
      <4>1. KeycloakOutcomes = {[did |-> yes, outcome |-> "succeeded"], [did |-> no, outcome |-> "failed"],
                     [did |-> yes, outcome |-> "unknown"], [did |-> no, outcome |-> "unknown"]}
        BY DEF KeycloakOutcomes
      <4>2. yes = TRUE /\ no = FALSE
        OBVIOUS
      <4> HIDE DEF yes, no
      <4>3. \/ r.did = yes /\ r.outcome = "succeeded"
            \/ r.did = no /\ r.outcome = "failed"
            \/ r.did = yes /\ r.outcome = "unknown"
            \/ r.did = no /\ r.outcome = "unknown"
        BY <4>1
      <4> QED
        BY <4>2, <4>3
    <3> QED
      BY <3>1 DEF Finals
  <2>2. PICK r \in KeycloakOutcomes :
          /\ workers' = [workers EXCEPT ![w].pc = "finish", ![w].outcome = r.outcome]
          /\ happened' = IF r.did THEN Append(happened, e) ELSE happened
          /\ UNCHANGED flows
    BY <1>1
  <2>3. r.outcome # "running"
    BY <2>1 DEF Finals
  <2> QED
    BY <2>1, <2>2, <2>3
<1>2. CASE \E r \in N8nOutcomes :
             /\ workers' = [workers EXCEPT ![w].pc = "finish", ![w].outcome = r.outcome]
             /\ flows' = IF r.did THEN [flows EXCEPT ![e] = "started"] ELSE flows
             /\ UNCHANGED happened
  <2>1. \A r \in N8nOutcomes :
          /\ r.did \in BOOLEAN /\ r.outcome \in (Finals \cup {"running"}) \ {"succeeded"}
          /\ r.outcome = "running" => r.did
          /\ r.outcome = "failed" => ~r.did
    <3> SUFFICES ASSUME NEW r \in N8nOutcomes
                 PROVE  /\ r.did \in BOOLEAN
                        /\ r.outcome \in (Finals \cup {"running"}) \ {"succeeded"}
                        /\ r.outcome = "running" => r.did
                        /\ r.outcome = "failed" => ~r.did
      OBVIOUS
    <3>1. \/ r.did = TRUE /\ r.outcome = "running"
          \/ r.did = FALSE /\ r.outcome = "failed"
          \/ r.did = TRUE /\ r.outcome = "unknown"
          \/ r.did = FALSE /\ r.outcome = "unknown"
      <4> DEFINE yes == TRUE
                 no == FALSE
      <4>1. N8nOutcomes = {[did |-> yes, outcome |-> "running"], [did |-> no, outcome |-> "failed"],
                     [did |-> yes, outcome |-> "unknown"], [did |-> no, outcome |-> "unknown"]}
        BY DEF N8nOutcomes
      <4>2. yes = TRUE /\ no = FALSE
        OBVIOUS
      <4> HIDE DEF yes, no
      <4>3. \/ r.did = yes /\ r.outcome = "running"
            \/ r.did = no /\ r.outcome = "failed"
            \/ r.did = yes /\ r.outcome = "unknown"
            \/ r.did = no /\ r.outcome = "unknown"
        BY <4>1
      <4> QED
        BY <4>2, <4>3
    <3> QED
      BY <3>1 DEF Finals
  <2>2. PICK r \in N8nOutcomes :
          /\ workers' = [workers EXCEPT ![w].pc = "finish", ![w].outcome = r.outcome]
          /\ flows' = IF r.did THEN [flows EXCEPT ![e] = "started"] ELSE flows
          /\ UNCHANGED happened
    BY <1>2
  <2> QED
    BY <2>1, <2>2
<1> QED
  BY <1>1, <1>2 DEF Call

LEMMA FinishingWorker ==
  ASSUME TypeInv, NEW w \in Workers, workers[w].pc = "call",
         NEW outcome \in Finals \cup {"running"},
         workers' = [workers EXCEPT ![w].pc = "finish", ![w].outcome = outcome]
  PROVE  /\ workers' \in [Workers -> Worker]
         /\ workers'[w].pc = "finish" /\ workers'[w].e = workers[w].e
         /\ workers'[w].outcome = outcome /\ workers'[w] # Idle
         /\ \A v \in Workers \ {w} : workers'[v] = workers[v]
<1> DEFINE record == [workers[w] EXCEPT !.pc = "finish", !.outcome = outcome]
<1>1. workers[w] \in Worker /\ workers \in [Workers -> Worker]
  BY Typed
<1>2. record \in Worker /\ record.pc = "finish" /\ record.e = workers[w].e
      /\ record.outcome = outcome /\ record # Idle
  BY <1>1 DEF Worker, Idle
<1>3. workers' = [workers EXCEPT ![w] = record]
  OBVIOUS
<1> HIDE DEF record
<1> QED
  BY <1>1, <1>2, <1>3, WorkerUpdate

LEMMA TypeCall == ASSUME TypeInv, NEW w \in Workers, Call(w) PROVE TypeInv'
<1> DEFINE e == workers[w].e
<1>1. workers[w].pc = "call" /\ UNCHANGED <<catalog, executions, messages, ran, lost, spent>>
  BY DEF Call
<1>2. e \in Attempts /\ e \in 1..MaxAttempts
  BY <1>1, Typed
<1>3. PICK did \in BOOLEAN, outcome \in Finals \cup {"running"} :
        /\ workers' = [workers EXCEPT ![w].pc = "finish", ![w].outcome = outcome]
        /\ happened' \in {happened, Append(happened, e)}
        /\ flows' \in {flows, [flows EXCEPT ![e] = "started"]}
  BY Calls
<1>4. /\ workers' \in [Workers -> Worker]
      /\ workers'[w].pc = "finish" /\ workers'[w].e = e
      /\ workers'[w].outcome = outcome /\ workers'[w] # Idle
      /\ \A v \in Workers \ {w} : workers'[v] = workers[v]
  BY <1>1, <1>3, FinishingWorker
<1>5. \A v \in Workers : /\ workers'[v] # Idle => workers'[v].e \in Attempts
                         /\ WorkerOK(v)'
  BY <1>2, <1>4, Typed DEF WorkerOK, Finals
<1>6. /\ flows' \in [1..MaxAttempts -> {"none", "started", "did", "failed", "answered"}]
      /\ \A f \in (1..MaxAttempts) \ Attempts : flows'[f] = flows[f]
  BY <1>2, <1>3, Typed
<1>7. happened' \in Seq(Attempts)
  <2>1. happened \in Seq(Attempts)
    BY Typed
  <2>2. Append(happened, e) \in Seq(Attempts)
    BY ONLY <2>1, <1>2, AppendType
  <2> QED
    BY <1>3, <2>1, <2>2
<1>8. Attempts' = Attempts
  BY <1>1 DEF Attempts
<1> QED
  BY <1>1, <1>4, <1>5, <1>6, <1>7, <1>8, Typed, TypesKept DEF catalog

\* A worker that is through with its execution, or dies at it.
LEMMA IdleAgain ==
  ASSUME TypeInv, NEW w \in Workers, workers' = [workers EXCEPT ![w] = Idle]
  PROVE  /\ workers' \in [Workers -> Worker] /\ workers'[w] = Idle
         /\ \A v \in Workers \ {w} : workers'[v] = workers[v]
         /\ \A v \in Workers : /\ workers'[v] # Idle => workers'[v].e \in Attempts
                               /\ WorkerOK(v)'
<1>1. workers' \in [Workers -> Worker] /\ workers'[w] = Idle
      /\ \A v \in Workers \ {w} : workers'[v] = workers[v]
  BY Typed, IdleType, WorkerUpdate
<1>2. \A v \in Workers : WorkerOK(v)'
  BY <1>1, Typed DEF WorkerOK, Idle
<1> QED
  BY <1>1, <1>2, Typed

\* What a worker that closes an execution does to it.
LEMMA Finishes ==
  ASSUME TypeInv, NEW w \in Workers, Finish(w)
  PROVE  /\ workers[w].pc = "finish" /\ workers[w].e \in Attempts
         /\ \/ UNCHANGED executions
            \/ /\ State(workers[w].e) = "running" /\ workers[w].outcome \in Finals
               /\ SetState(workers[w].e, workers[w].outcome)
<1>1. workers[w].pc = "finish" /\ workers[w].e \in Attempts
      /\ workers[w].outcome \in Finals \cup {"running"}
  BY Typed DEF Finish, WorkerOK, Worker
<1> QED
  BY <1>1 DEF Finish, SetState

LEMMA TypeFinish == ASSUME TypeInv, NEW w \in Workers, Finish(w) PROVE TypeInv'
<1>1. /\ workers' \in [Workers -> Worker]
      /\ \A v \in Workers : /\ workers'[v] # Idle => workers'[v].e \in Attempts
                            /\ WorkerOK(v)'
  BY IdleAgain DEF Finish
<1>2. /\ executions' \in Seq(Row) /\ Len(executions') = Len(executions)
      /\ Attempts' = Attempts
  BY Finishes, Typed, StateUpdate DEF SetState, States, Attempts
<1> QED
  BY <1>1, <1>2, Typed, TypesKept DEF Finish, catalog, world

LEMMA TypeFlow == ASSUME TypeInv, NEW e \in Attempts, FlowActs(e) PROVE TypeInv'
<1>1. /\ flows' \in [1..MaxAttempts -> {"none", "started", "did", "failed", "answered"}]
      /\ \A f \in (1..MaxAttempts) \ Attempts : flows'[f] = flows[f]
  BY Typed DEF FlowActs
<1>2. happened' \in Seq(Attempts)
  <2>1. happened \in Seq(Attempts)
    BY Typed
  <2>2. Append(happened, e) \in Seq(Attempts)
    BY ONLY <2>1, AppendType, e \in Attempts
  <2> QED
    BY <2>1, <2>2 DEF FlowActs
<1> QED
  BY <1>1, <1>2, Typed, TypesKept DEF FlowActs, catalog, WorkerOK, Attempts

\* A step that closes an execution and does nothing else to the rows and workers.
LEMMA TypeClose ==
  ASSUME TypeInv, NEW e \in Attempts, NEW s \in States,
         UNCHANGED executions \/ SetState(e, s),
         UNCHANGED <<catalog, messages, workers, happened, ran, lost>>,
         flows' \in [1..MaxAttempts -> {"none", "started", "did", "failed", "answered"}],
         \A f \in (1..MaxAttempts) \ Attempts : flows'[f] = flows[f],
         spent' \in [Bounds -> Nat]
  PROVE  TypeInv'
<1>1. /\ executions' \in Seq(Row) /\ Len(executions') = Len(executions)
      /\ Attempts' = Attempts
  BY Typed, StateUpdate DEF SetState, Attempts
<1> QED
  BY <1>1, Typed, TypesKept DEF catalog, WorkerOK

LEMMA TypeCallback == ASSUME TypeInv, NEW e \in Attempts, Callback(e) PROVE TypeInv'
<1>1. /\ flows' \in [1..MaxAttempts -> {"none", "started", "did", "failed", "answered"}]
      /\ \A f \in (1..MaxAttempts) \ Attempts : flows'[f] = flows[f]
  BY Typed DEF Callback
<1>2. \E s \in States : UNCHANGED executions \/ SetState(e, s)
  BY DEF Callback, States, Finals
<1> QED
  BY <1>1, <1>2, Typed, TypeClose DEF Callback

LEMMA TypeSweep == ASSUME TypeInv, NEW e \in Attempts, Sweep(e) PROVE TypeInv'
<1>1. "unknown" \in States /\ SetState(e, "unknown")
  BY DEF Sweep, States, Finals
<1> QED
  BY <1>1, Typed, TypeClose DEF Sweep, world

LEMMA TypeResolve == ASSUME TypeInv, NEW e \in Attempts, Resolve(e) PROVE TypeInv'
<1>1. \E s \in States : SetState(e, s)
  BY DEF Resolve, States, Finals
<1>2. spent' \in [Bounds -> Nat]
  BY Typed, SpendType DEF Resolve, Bounds
<1> QED
  BY <1>1, <1>2, Typed, TypeClose DEF Resolve, world

LEMMA TypeCatalog ==
  ASSUME TypeInv, Stamp \/ Commit \/ Revoke \/ Grant
  PROVE  TypeInv'
<1>1. runbook' \in [version : Nat, active : BOOLEAN, executor : Executors,
                    since : 0..MaxAttempts]
  BY Typed DEF Stamp, Commit, Revoke, Grant
<1>2. change' \in [open : BOOLEAN, at : 0..MaxAttempts] /\ permitted' \in BOOLEAN
  <2>1. CASE Stamp
    BY <2>1, Typed DEF Stamp
  <2>2. CASE Commit
    BY <2>2, Typed DEF Commit
  <2>3. CASE Revoke
    BY <2>3, Typed DEF Revoke
  <2>4. CASE Grant
    BY <2>4, Typed DEF Grant
  <2> QED
    BY <2>1, <2>2, <2>3, <2>4
<1>3. spent' \in [Bounds -> Nat]
  BY Typed, SpendType DEF Stamp, Commit, Revoke, Grant, Bounds
<1> QED
  BY <1>1, <1>2, <1>3, Typed, TypesKept
  DEF Stamp, Commit, Revoke, Grant, world, WorkerOK, Attempts

LEMMA TypeAccident ==
  ASSUME TypeInv, Lose \/ \E w \in Workers : Crash(w)
  PROVE  TypeInv'
<1>1. CASE Lose
  <2>1. spent' \in [Bounds -> Nat]
    BY <1>1, Typed, SpendType DEF Lose, Bounds
  <2> QED
    BY <1>1, <2>1, Typed, TypesKept DEF Lose, catalog, world, WorkerOK, Attempts
<1>2. ASSUME NEW w \in Workers, Crash(w) PROVE TypeInv'
  <2>1. /\ workers' \in [Workers -> Worker]
        /\ \A v \in Workers : /\ workers'[v] # Idle => workers'[v].e \in Attempts
                              /\ WorkerOK(v)'
    BY <1>2, IdleAgain DEF Crash
  <2>2. spent' \in [Bounds -> Nat]
    BY <1>2, Typed, SpendType DEF Crash, Bounds
  <2> QED
    BY <1>2, <2>1, <2>2, Typed, TypesKept DEF Crash, catalog, world, Attempts
<1> QED
  BY <1>1, <1>2

LEMMA TypeStep == TypeInv /\ [Next]_vars => TypeInv'
<1> SUFFICES ASSUME TypeInv, [Next]_vars PROVE TypeInv'
  OBVIOUS
<1>1. CASE UNCHANGED vars
  BY <1>1, Typed, TypesKept DEF vars, catalog, WorkerOK, Attempts
<1>2. CASE Next
  BY <1>2, TypeExecute, TypeStart, TypeCall, TypeFinish, TypeFlow, TypeCallback, TypeSweep,
     TypeResolve, TypeCatalog, TypeAccident DEF Next, Work
<1> QED
  BY <1>1, <1>2

\* What is stored and what is on its way is well formed at every step, and a worker's and a
\* task's execution exists (apps/itsm_mock/utils/runbooks.py).
THEOREM TypeCorrect == Spec => []TypeOK
<1>1. TypeInv => TypeOK
  BY DEF TypeInv
<1> QED
  BY <1>1, TypeInvInit, TypeStep, PTL DEF Spec

---------------------------------------------------------------------------
(* Attempts and versions *)

\* A step changes at most the state of one execution that has not failed.
Closes ==
  \/ UNCHANGED executions
  \/ \E e \in Attempts, s \in States : State(e) # "failed" /\ SetState(e, s)

LEMMA StepCloses ==
  ASSUME TypeInv, Next
  PROVE  Execute \/ Closes
<1>1. ASSUME NEW w \in Workers, Start(w) PROVE Closes
  <2>1. "failed" \in States /\ "running" \in States /\ messages \subseteq Attempts
    BY Typed DEF States, Finals
  <2> QED
    BY <1>1, <2>1 DEF Start, Closes
<1>2. ASSUME NEW w \in Workers, Finish(w) PROVE Closes
  BY <1>2, Finishes DEF Closes, States, Finals
<1>3. ASSUME NEW e \in Attempts, Callback(e) \/ Sweep(e) \/ Resolve(e) PROVE Closes
  <2>1. {"succeeded", "failed", "unknown"} \subseteq States
    BY DEF States, Finals
  <2>2. CASE Callback(e)
    BY <2>1, <2>2 DEF Callback, Closes
  <2>3. CASE Sweep(e)
    BY <2>1, <2>3 DEF Sweep, Closes
  <2>4. CASE Resolve(e)
    BY <2>1, <2>4 DEF Resolve, Closes
  <2> QED
    BY <1>3, <2>2, <2>3, <2>4
<1>4. ASSUME UNCHANGED executions PROVE Closes
  BY <1>4 DEF Closes
<1> QED
  BY <1>1, <1>2, <1>3, <1>4
  DEF Next, Work, Stamp, Commit, Revoke, Grant, Lose, Call, Crash, FlowActs

LEMMA ExecuteAppends ==
  ASSUME TypeInv, Execute
  PROVE  LET n == Len(executions) IN
         /\ n \in Nat /\ Len(executions') = n + 1 /\ n + 1 \in 1..MaxAttempts
         /\ Attempts = 1..n /\ Attempts' = 1..(n + 1)
         /\ \A e \in Attempts : executions'[e] = executions[e] /\ State(e) = "failed"
         /\ executions'[n + 1].state = "queued"
         /\ executions'[n + 1].version = runbook.version
         /\ executions'[n + 1].between = change.open
<1> DEFINE row == [state |-> "queued", version |-> runbook.version,
                   executor |-> runbook.executor, between |-> change.open]
           n == Len(executions)
<1>1. row \in Row /\ row.state = "queued" /\ row.version = runbook.version
  BY Typed DEF Row, States
<1>2. executions' = Append(executions, row) /\ n < MaxAttempts
      /\ \A e \in Attempts : State(e) = "failed"
  BY DEF Execute, Blocked
<1>3. executions \in Seq(Row) /\ n \in 0..MaxAttempts /\ Attempts = 1..n
  BY Typed
<1>4. row.between = change.open
  <2> DEFINE open == change.open
             new == [state |-> "queued", version |-> runbook.version,
                     executor |-> runbook.executor, between |-> open]
  <2>1. row = new /\ open = change.open
    OBVIOUS
  <2>2. new.between = open
    <3> HIDE DEF open
    <3> QED
      OBVIOUS
  <2> QED
    BY <2>1, <2>2
<1> HIDE DEF row
<1>5. /\ Len(executions') = n + 1 /\ DOMAIN executions' = 1..(n + 1)
      /\ executions'[n + 1] = row /\ \A e \in 1..n : executions'[e] = executions[e]
  BY <1>1, <1>2, <1>3
<1> QED
  BY <1>1, <1>2, <1>3, <1>4, <1>5, BoundsAssumption DEF Attempts

LEMMA OneOpenStep ==
  ASSUME TypeInv, OneOpenAttempt, Next
  PROVE  OneOpenAttempt'
<1>1. CASE Execute
  BY <1>1, ExecuteAppends DEF OneOpenAttempt, State
<1>2. CASE UNCHANGED executions
  BY <1>2 DEF OneOpenAttempt, Attempts, State
<1>3. ASSUME NEW e \in Attempts, NEW s \in States, State(e) # "failed", SetState(e, s)
      PROVE  OneOpenAttempt'
  <2>1. /\ Len(executions') = Len(executions) /\ Attempts' = Attempts
        /\ \A f \in Attempts \ {e} : executions'[f] = executions[f]
    BY <1>3, Typed, StateUpdate DEF SetState
  <2>2. ~(e < Len(executions))
    BY <1>3 DEF OneOpenAttempt
  <2> QED
    BY <2>1, <2>2 DEF OneOpenAttempt, State
<1> QED
  BY <1>1, <1>2, <1>3, StepCloses DEF Closes

LEMMA VersionsStep ==
  ASSUME TypeInv, VersionsOK, Next
  PROVE  VersionsOK'
<1>1. CASE Execute
  <2>1. UNCHANGED <<runbook, change>>
    BY <1>1 DEF Execute, catalog
  <2> QED
    BY <1>1, <2>1, ExecuteAppends DEF VersionsOK
<1>2. CASE Closes
  <2>1. /\ Attempts' = Attempts
        /\ \A e \in Attempts : /\ executions'[e].version = executions[e].version
                               /\ executions'[e].between = executions[e].between
    BY <1>2, Typed, StateUpdate DEF SetState, Closes, Attempts
  <2>2. CASE UNCHANGED <<runbook, change>>
    BY <2>1, <2>2 DEF VersionsOK
  <2>3. CASE Stamp
    <3>1. change'.at = Len(executions) /\ runbook' = runbook
      BY <2>3 DEF Stamp
    <3>2. \A e \in Attempts : ~(e > change'.at)
      BY <3>1, Typed
    <3> QED
      BY <2>1, <3>1, <3>2 DEF VersionsOK
  <2>4. CASE Commit
    <3>1. change.open /\ ~change'.open /\ runbook'.since = change.at
      BY <2>4, Typed DEF Commit
    <3> QED
      BY <2>1, <3>1 DEF VersionsOK
  <2> QED
    BY <2>2, <2>3, <2>4
    DEF Next, Work, Execute, Revoke, Grant, Lose, Start, Call, Finish, Crash, FlowActs,
        Callback, Sweep, Resolve, catalog
<1> QED
  BY <1>1, <1>2, StepCloses

LEMMA RunsStep ==
  ASSUME TypeInv, VersionsOK, RunsWhatWasChecked, Next
  PROVE  RunsWhatWasChecked'
<1>1. CASE Execute
  <2>1. ran' = ran /\ \A e \in (1..MaxAttempts) \ Attempts : ran[e] = 0
    BY <1>1, Typed DEF Execute, world, FreshOK
  <2> QED
    BY <1>1, <2>1, ExecuteAppends DEF RunsWhatWasChecked
<1>2. CASE Closes
  <2>1. /\ Attempts' = Attempts
        /\ \A e \in Attempts : /\ executions'[e].version = executions[e].version
                               /\ executions'[e].between = executions[e].between
    BY <1>2, Typed, StateUpdate DEF SetState, Closes, Attempts
  <2>2. CASE UNCHANGED ran
    BY <2>1, <2>2 DEF RunsWhatWasChecked
  <2>3. ASSUME NEW w \in Workers, Start(w), ~UNCHANGED ran
        PROVE  RunsWhatWasChecked'
    <3>1. PICK e \in messages : ~Refused(e) /\ ran' = [ran EXCEPT ![e] = runbook.version]
      BY <2>3 DEF Start
    <3>2. e \in Attempts /\ e \in 1..MaxAttempts /\ runbook.since \in Int
      BY Typed
    <3>3. executions[e].version = runbook.version \/ executions[e].between
      BY <3>1, <3>2 DEF Refused, VersionsOK
    <3>4. ran'[e] = runbook.version /\ \A f \in Attempts \ {e} : ran'[f] = ran[f]
      BY <3>1, <3>2, Typed
    <3> QED
      BY <2>1, <3>3, <3>4 DEF RunsWhatWasChecked
  <2> QED
    BY <2>2, <2>3
    DEF Next, Work, Execute, Stamp, Commit, Revoke, Grant, Lose, Call, Finish, Crash,
        FlowActs, Callback, Sweep, Resolve, world
<1> QED
  BY <1>1, <1>2, StepCloses

---------------------------------------------------------------------------
(* Effects *)

LEMMA Finiteness ==
  ASSUME TypeInv
  PROVE  /\ Effected \subseteq Attempts /\ IsFiniteSet(Attempts)
         /\ IsFiniteSet(Effected) /\ IsFiniteSet(Wrong)
         /\ Cardinality(Effected) \in Nat /\ Cardinality(Wrong) \in Nat
         /\ spent.misjudged \in Nat
<1>1. Attempts = 1..Len(executions) /\ Len(executions) \in Int
      /\ happened \in Seq(Attempts) /\ spent.misjudged \in Nat
  BY Typed DEF Bounds
<1>2. Effected \subseteq Attempts
  BY <1>1 DEF Effected, Range
<1>3. IsFiniteSet(Attempts)
  <2>1. 1 \in Int
    OBVIOUS
  <2> QED
    BY <1>1, <2>1, FS_Interval
<1>4. IsFiniteSet(Effected) /\ IsFiniteSet(Wrong)
  BY <1>2, <1>3, FS_Subset DEF Wrong
<1> QED
  BY <1>1, <1>2, <1>3, <1>4, FS_CardinalityType

LEMMA RangeOfAppend ==
  ASSUME NEW S, NEW s \in Seq(S), NEW e \in S
  PROVE  Range(Append(s, e)) = Range(s) \cup {e}
<1> DEFINE t == Append(s, e)
<1>1. /\ DOMAIN t = 1..(Len(s) + 1) /\ DOMAIN s = 1..Len(s) /\ Len(s) \in Nat
      /\ t[Len(s) + 1] = e /\ \A i \in 1..Len(s) : t[i] = s[i]
  OBVIOUS
<1> HIDE DEF t
<1>2. ASSUME NEW x \in Range(t) PROVE x \in Range(s) \cup {e}
  BY <1>1, <1>2 DEF Range
<1>3. ASSUME NEW x \in Range(s) PROVE x \in Range(t)
  <2>1. PICK i \in DOMAIN s : x = s[i]
    BY <1>3 DEF Range
  <2>2. i \in DOMAIN t /\ t[i] = x
    BY <1>1, <2>1
  <2> QED
    BY <2>2 DEF Range
<1>4. e \in Range(t)
  BY <1>1 DEF Range
<1> QED
  BY <1>2, <1>3, <1>4 DEF t

\* An execution takes effect for the first time.
LEMMA EffectAppears ==
  ASSUME TypeInv, Len(happened) = Cardinality(Effected), NEW e \in Attempts, e \notin Effected,
         happened' = Append(happened, e)
  PROVE  Effected' = Effected \cup {e} /\ Len(happened') = Cardinality(Effected')
<1>1. happened \in Seq(Attempts) /\ IsFiniteSet(Effected) /\ Cardinality(Effected) \in Nat
  BY Typed, Finiteness
<1>2. /\ Len(happened') = Len(happened) + 1 /\ DOMAIN happened' = 1..(Len(happened) + 1)
      /\ DOMAIN happened = 1..Len(happened) /\ Len(happened) \in Nat
      /\ happened'[Len(happened) + 1] = e
      /\ \A i \in 1..Len(happened) : happened'[i] = happened[i]
  BY <1>1
<1>3. Effected' = Effected \cup {e}
  BY <1>1, RangeOfAppend DEF Effected
<1>4. Cardinality(Effected \cup {e}) = Cardinality(Effected) + 1
  BY <1>1, FS_AddElement
<1> QED
  BY <1>2, <1>3, <1>4

\* An execution that a worker has is no other worker's.
LEMMA OneWorker ==
  ASSUME TypeInv, StagesOK, NEW w \in Workers, workers[w].pc # "idle"
  PROVE  \A v \in Workers \ {w} : workers[v].e # workers[w].e
BY DEF StagesOK

\* Nothing is on its way for an execution that still waits.
LEMMA QueuedIsUntouched ==
  ASSUME TypeInv, StagesOK, NEW e \in Attempts, State(e) = "queued"
  PROVE  /\ \A w \in Workers : workers[w].e # e
         /\ flows[e] = "none" /\ e \notin Effected
<1>1. \A w \in Workers : workers[w].pc = "idle" => workers[w].e = 0
  BY Typed DEF WorkerOK, Idle
<1>2. e # 0
  BY Typed
<1> QED
  BY <1>1, <1>2 DEF StagesOK, StageOK, TaskOK, State

LEMMA OneMore ==
  ASSUME NEW S, IsFiniteSet(S), NEW x
  PROVE  /\ IsFiniteSet(S \cup {x}) /\ Cardinality(S \cup {x}) \in Nat
         /\ Cardinality(S \cup {x}) <= Cardinality(S) + 1
<1>1. CASE x \in S
  <2>1. S \cup {x} = S
    BY <1>1
  <2>2. Cardinality(S) \in Nat
    BY FS_CardinalityType
  <2>3. Cardinality(S) <= Cardinality(S) + 1
    BY <2>2
  <2> QED
    BY <2>1, <2>2, <2>3
<1>2. CASE x \notin S
  <2>1. IsFiniteSet(S \cup {x}) /\ Cardinality(S \cup {x}) = Cardinality(S) + 1
    BY <1>2, FS_AddElement
  <2> QED
    BY <2>1, FS_CardinalityType
<1> QED
  BY <1>1, <1>2

\* The counting, when no more is misjudged.
LEMMA JudgedKept ==
  ASSUME TypeInv, TypeInv', Judged, Wrong' \subseteq Wrong, spent'.misjudged = spent.misjudged
  PROVE  Judged'
<1>1. Cardinality(Wrong') <= Cardinality(Wrong)
  BY Finiteness, FS_Subset
<1>2. Cardinality(Wrong') \in Nat
  <2>1. IsFiniteSet(Wrong')
    BY Finiteness, FS_Subset
  <2> QED
    BY <2>1, FS_CardinalityType
<1> DEFINE new == Cardinality(Wrong')
           spentNew == spent'.misjudged
<1>3. new <= Cardinality(Wrong) /\ new \in Nat /\ spentNew = spent.misjudged
  BY <1>1, <1>2
<1>4. new <= spentNew
  <2> HIDE DEF new, spentNew
  <2> QED
    BY <1>3, Finiteness DEF Judged
<1> QED
  BY <1>4 DEF Judged

---------------------------------------------------------------------------
(* Steps *)

Effects == StagesOK /\ Judged

LEMMA EffectsExecute == ASSUME TypeInv, TypeInv', Effects, Execute PROVE Effects'
<1> DEFINE n == Len(executions)
<1>1. UNCHANGED <<workers, flows, happened>> /\ spent'.misjudged = spent.misjudged
      /\ Effected' = Effected
  BY DEF Execute, world, Effected, Range
<1>2. /\ Attempts = 1..n /\ Attempts' = 1..(n + 1) /\ n \in Nat /\ n + 1 \in 1..MaxAttempts
      /\ \A e \in Attempts : executions'[e] = executions[e]
      /\ executions'[n + 1].state = "queued"
  BY ExecuteAppends
<1> HIDE DEF n
<1>3. Effected \subseteq Attempts /\ n + 1 \notin Attempts
  BY <1>2, Finiteness
<1>4. flows[n + 1] = "none"
  BY <1>2, <1>3, Typed DEF FreshOK
<1>5. \A e \in Attempts' : StageOK(e)'
  BY <1>1, <1>2, <1>3, <1>4 DEF Effects, StagesOK, StageOK, State
<1>6. \A w \in Workers : TaskOK(w)'
  BY <1>1, <1>2, Typed DEF Effects, StagesOK, TaskOK
<1>7. StagesOK'
  BY <1>1, <1>5, <1>6 DEF Effects, StagesOK
<1>8. Wrong' \subseteq Wrong
  BY <1>1, <1>2 DEF Wrong, State, OnItsWay
<1> QED
  BY <1>1, <1>7, <1>8, JudgedKept DEF Effects

\* Steps that touch neither executions, nor workers, nor the world.
LEMMA EffectsKept ==
  ASSUME TypeInv, TypeInv', Effects, UNCHANGED <<executions, workers, flows, happened>>,
         spent'.misjudged = spent.misjudged
  PROVE  Effects'
<1>1. Attempts' = Attempts /\ Effected' = Effected /\ Wrong' = Wrong
  BY DEF Attempts, Effected, Range, Wrong, State, OnItsWay
<1>2. StagesOK'
  BY <1>1 DEF Effects, StagesOK, StageOK, TaskOK, State
<1> QED
  BY <1>1, <1>2, JudgedKept DEF Effects

\* An execution changes its state and nothing else does.
LEMMA EffectsClose ==
  ASSUME TypeInv, TypeInv', Effects, NEW e \in Attempts, NEW s \in States \ {"queued"},
         SetState(e, s), UNCHANGED <<workers, flows, happened>>,
         s = "succeeded" => e \in Effected
  PROVE  /\ StagesOK' /\ Wrong' \subseteq Wrong \cup {e}
         /\ \/ Wrong' \subseteq Wrong
            \/ s = "failed" /\ (e \in Effected \/ OnItsWay(e))
<1>1. /\ Attempts' = Attempts /\ executions'[e].state = s
      /\ \A f \in Attempts \ {e} : executions'[f] = executions[f]
  BY Typed, StateUpdate DEF SetState
<1>2. Effected' = Effected
  BY DEF Effected, Range
<1>3. \A f \in Attempts : StageOK(f)'
  BY <1>1, <1>2 DEF Effects, StagesOK, StageOK, State
<1>4. \A w \in Workers : TaskOK(w)'
  BY <1>1, <1>2, Typed DEF Effects, StagesOK, TaskOK
<1>5. StagesOK'
  BY <1>1, <1>2, <1>3, <1>4 DEF Effects, StagesOK
<1>6. Wrong' \subseteq Wrong \cup {e}
  BY <1>1, <1>2 DEF Wrong, State, OnItsWay
<1>7. s # "failed" => Wrong' \subseteq Wrong
  BY <1>1, <1>6 DEF Wrong, State
<1>8. e \notin Effected /\ ~OnItsWay(e) => Wrong' \subseteq Wrong
  BY <1>2, <1>6 DEF Wrong, OnItsWay
<1> QED
  BY <1>5, <1>6, <1>7, <1>8

LEMMA EffectsStart == ASSUME TypeInv, TypeInv', Effects, NEW w \in Workers, Start(w) PROVE Effects'
<1>1. PICK e \in messages :
        /\ workers[w] = Idle
        /\ \/ UNCHANGED <<executions, workers, ran>>
           \/ /\ State(e) = "queued" /\ SetState(e, "failed")
              /\ UNCHANGED <<workers, ran>>
           \/ /\ State(e) = "queued" /\ SetState(e, "running")
              /\ workers' = [workers EXCEPT ![w] =
                   [Idle EXCEPT !.pc = "call", !.e = e, !.executor = runbook.executor]]
        /\ UNCHANGED <<flows, happened, spent>>
  BY DEF Start
<1>2. e \in Attempts
  BY Typed
<1>3. CASE UNCHANGED <<executions, workers, ran>>
  BY <1>1, <1>3, EffectsKept
<1>4. CASE State(e) = "queued" /\ SetState(e, "failed") /\ UNCHANGED <<workers, ran>>
  <2>1. e \notin Effected /\ ~OnItsWay(e)
    BY <1>2, <1>4, QueuedIsUntouched DEF Effects, OnItsWay
  <2>2. "failed" \in States \ {"queued"}
    BY DEF States, Finals
  <2>3. StagesOK' /\ Wrong' \subseteq Wrong
    BY <1>1, <1>2, <1>4, <2>1, <2>2, EffectsClose
  <2> QED
    BY <1>1, <2>3, JudgedKept DEF Effects
<1>5. CASE /\ State(e) = "queued" /\ SetState(e, "running")
           /\ workers' = [workers EXCEPT ![w] =
                [Idle EXCEPT !.pc = "call", !.e = e, !.executor = runbook.executor]]
  <2>1. /\ \A v \in Workers : workers[v].e # e
        /\ flows[e] = "none" /\ e \notin Effected
    BY <1>2, <1>5, QueuedIsUntouched DEF Effects
  <2>2. /\ Attempts' = Attempts /\ executions'[e].state = "running"
        /\ \A f \in Attempts \ {e} : executions'[f] = executions[f]
    BY <1>2, <1>5, Typed, StateUpdate DEF SetState, States
  <2>3. /\ workers'[w].e = e /\ workers'[w].pc = "call" /\ workers'[w].outcome = "none"
        /\ \A v \in Workers \ {w} : workers'[v] = workers[v]
    <3>1. Idle.outcome = "none" /\ Idle \in Worker
      BY IdleType DEF Idle
    <3> QED
      BY <1>5, <3>1, Typed DEF Worker
  <2>4. Effected' = Effected /\ flows' = flows
    BY <1>1 DEF Effected, Range
  <2>5. \A f \in Attempts : StageOK(f)'
    BY <2>1, <2>2, <2>4 DEF Effects, StagesOK, StageOK, State
  <2>6. \A v \in Workers : TaskOK(v)'
    <3>1. TaskOK(w)'
      BY <2>1, <2>2, <2>3, <2>4 DEF TaskOK
    <3>2. ASSUME NEW v \in Workers \ {w} PROVE TaskOK(v)'
      <4>1. workers'[v] = workers[v] /\ workers[v].e # e /\ TaskOK(v)
            /\ (workers[v].pc # "idle" => workers[v].e \in Attempts)
        BY <2>1, <2>3, Typed DEF Effects, StagesOK
      <4> QED
        BY <2>2, <2>4, <4>1 DEF TaskOK
    <3> QED
      BY <3>1, <3>2
  <2>7. \A v, u \in Workers : workers'[v].pc # "idle" /\ workers'[v].e = workers'[u].e => v = u
    BY <2>1, <2>3 DEF Effects, StagesOK
  <2>8. StagesOK'
    BY <1>1, <2>2, <2>4, <2>5, <2>6, <2>7 DEF Effects, StagesOK
  <2>9. Wrong' \subseteq Wrong
    BY <2>2, <2>3, <2>4 DEF Wrong, State, OnItsWay
  <2> QED
    BY <1>1, <2>8, <2>9, JudgedKept DEF Effects
<1> QED
  BY <1>1, <1>3, <1>4, <1>5

LEMMA EffectsCall == ASSUME TypeInv, TypeInv', Effects, NEW w \in Workers, Call(w) PROVE Effects'
<1>1. /\ workers[w].pc = "call"
      /\ UNCHANGED <<executions, spent>>
  BY DEF Call
<1>2. PICK e \in Attempts : e = workers[w].e /\ e \in 1..MaxAttempts
  BY <1>1, Typed
<1>3. PICK did \in BOOLEAN, outcome \in Finals \cup {"running"} :
        /\ outcome \in {"succeeded", "running"} => did
        /\ outcome = "failed" => ~did
        /\ workers' = [workers EXCEPT ![w].pc = "finish", ![w].outcome = outcome]
        /\ \/ /\ outcome # "running"
              /\ happened' = (IF did THEN Append(happened, e) ELSE happened)
              /\ UNCHANGED flows
           \/ /\ outcome # "succeeded"
              /\ flows' = (IF did THEN [flows EXCEPT ![e] = "started"] ELSE flows)
              /\ UNCHANGED happened
  BY <1>2, Calls
<1>4. /\ workers'[w].pc = "finish" /\ workers'[w].e = e /\ workers'[w].outcome = outcome
      /\ \A v \in Workers \ {w} : workers'[v] = workers[v]
  BY <1>1, <1>2, <1>3, FinishingWorker
<1>5. /\ executions[e].state # "queued" /\ flows[e] = "none" /\ e \notin Effected
      /\ \A v \in Workers \ {w} : workers[v].e # e
  BY <1>1, <1>2, OneWorker DEF Effects, StagesOK, TaskOK
<1>6. Attempts' = Attempts /\ executions' = executions
  BY <1>1 DEF Attempts
\* What the call leaves behind.
<1>7. /\ Effected' \in {Effected, Effected \cup {e}} /\ Len(happened') = Cardinality(Effected')
      /\ flows'[e] \in {"none", "started"} /\ \A f \in Attempts \ {e} : flows'[f] = flows[f]
      /\ flows'[e] = "started" => e \notin Effected'
      /\ outcome = "failed" => flows'[e] = "none" /\ e \notin Effected'
      /\ outcome = "succeeded" => e \in Effected'
  <2>1. Len(happened) = Cardinality(Effected)
    BY DEF Effects, StagesOK
  <2>2. CASE UNCHANGED <<happened, flows>> /\ outcome # "succeeded"
    <3>1. Effected' = Effected
      BY <2>2 DEF Effected, Range
    <3> QED
      BY <1>5, <2>1, <2>2, <3>1
  <2>3. CASE happened' = Append(happened, e) /\ UNCHANGED flows /\ outcome # "failed"
    <3>1. Effected' = Effected \cup {e} /\ Len(happened') = Cardinality(Effected')
      BY <1>2, <1>5, <2>1, <2>3, EffectAppears
    <3> QED
      BY <1>5, <2>3, <3>1
  <2>4. CASE /\ flows' = [flows EXCEPT ![e] = "started"] /\ UNCHANGED happened
             /\ outcome \notin {"failed", "succeeded"}
    <3>1. Effected' = Effected
      BY <2>4 DEF Effected, Range
    <3>2. flows'[e] = "started" /\ \A f \in Attempts \ {e} : flows'[f] = flows[f]
      BY <1>2, <2>4, Typed
    <3> QED
      BY <1>5, <2>1, <2>4, <3>1, <3>2
  <2> QED
    BY <1>3, <2>2, <2>3, <2>4
<1>8. \A f \in Attempts : StageOK(f)'
  <2>1. StageOK(e)'
    BY <1>2, <1>5, <1>6, <1>7 DEF Effects, StagesOK, StageOK, State
  <2>2. ASSUME NEW f \in Attempts \ {e} PROVE StageOK(f)'
    BY <1>6, <1>7 DEF Effects, StagesOK, StageOK, State
  <2> QED
    BY <2>1, <2>2
<1>9. \A v \in Workers : TaskOK(v)'
  <2>1. TaskOK(w)'
    BY <1>4, <1>5, <1>6, <1>7 DEF TaskOK
  <2>2. ASSUME NEW v \in Workers \ {w} PROVE TaskOK(v)'
    <3>1. workers'[v] = workers[v] /\ workers[v].e # e /\ TaskOK(v)
          /\ (workers[v].pc # "idle" => workers[v].e \in Attempts)
      BY <1>4, <1>5, Typed DEF Effects, StagesOK
    <3> QED
      BY <1>6, <1>7, <3>1 DEF TaskOK
  <2> QED
    BY <2>1, <2>2
<1>10. StagesOK'
  <2>1. \A v, u \in Workers : workers'[v].pc # "idle" /\ workers'[v].e = workers'[u].e => v = u
    BY <1>4, <1>5 DEF Effects, StagesOK
  <2> QED
    BY <1>6, <1>7, <1>8, <1>9, <2>1 DEF StagesOK
<1>11. Wrong' \subseteq Wrong
  <2>1. ASSUME NEW f \in Wrong', f # e PROVE f \in Wrong
    BY <1>4, <1>6, <1>7, <2>1 DEF Wrong, State, OnItsWay
  <2>2. e \in Wrong' => e \in Wrong
    BY <1>1, <1>2, <1>6 DEF Wrong, State, OnItsWay
  <2> QED
    BY <2>1, <2>2
<1> QED
  BY <1>1, <1>10, <1>11, JudgedKept DEF Effects

\* A worker that lets go of its execution, where nothing else happens.
LEMMA EffectsIdle ==
  ASSUME TypeInv, TypeInv', Effects, NEW w \in Workers, workers' = [workers EXCEPT ![w] = Idle],
         UNCHANGED <<executions, flows, happened>>, spent'.misjudged = spent.misjudged
  PROVE  Effects'
<1>1. /\ workers'[w] = Idle /\ Idle.pc = "idle" /\ Idle.e = 0
      /\ \A v \in Workers \ {w} : workers'[v] = workers[v]
  BY IdleAgain DEF Idle
<1>2. Attempts' = Attempts /\ Effected' = Effected
  BY DEF Attempts, Effected, Range
<1>3. \A v, u \in Workers : workers'[v].pc # "idle" /\ workers'[v].e = workers'[u].e => v = u
  <2>1. \A v \in Workers : workers'[v].pc # "idle" => workers'[v].e # 0
    BY <1>1, Typed
  <2> QED
    BY <1>1, <2>1 DEF Effects, StagesOK
<1>4. \A v \in Workers : TaskOK(v)'
  BY <1>1, <1>2 DEF Effects, StagesOK, TaskOK
<1>5. StagesOK'
  BY <1>2, <1>3, <1>4 DEF Effects, StagesOK, StageOK, State
<1>6. Wrong' \subseteq Wrong
  BY <1>1, <1>2 DEF Wrong, State, OnItsWay
<1> QED
  BY <1>5, <1>6, JudgedKept DEF Effects

LEMMA EffectsFinish ==
  ASSUME TypeInv, TypeInv', Effects, NEW w \in Workers, Finish(w)
  PROVE  Effects'
<1>1. /\ workers' = [workers EXCEPT ![w] = Idle] /\ UNCHANGED <<flows, happened, spent>>
      /\ workers[w].pc = "finish"
  BY Finishes DEF Finish, world
<1>2. PICK e \in Attempts : e = workers[w].e
  BY Finishes
<1>3. PICK s : s = workers[w].outcome
  OBVIOUS
<1>4. CASE UNCHANGED executions
  BY <1>1, <1>4, EffectsIdle
<1>5. CASE s \in Finals /\ SetState(e, s)
  <2>1. /\ Attempts' = Attempts /\ executions'[e].state = s
        /\ \A f \in Attempts \ {e} : executions'[f] = executions[f]
    BY <1>1, <1>5, Typed, StateUpdate DEF SetState, States
  <2>2. /\ workers'[w] = Idle /\ Idle.pc = "idle" /\ Idle.e = 0
        /\ \A v \in Workers \ {w} : workers'[v] = workers[v] /\ workers[v].e # e
    BY <1>1, <1>2, IdleAgain, OneWorker DEF Idle, Effects
  <2>3. /\ s = "failed" => flows[e] = "none" /\ e \notin Effected
        /\ s = "succeeded" => e \in Effected
    BY <1>1, <1>2, <1>3 DEF Effects, StagesOK, TaskOK
  <2>4. Effected' = Effected /\ flows' = flows /\ s # "queued"
    BY <1>1, <1>5 DEF Effected, Range, Finals
  <2>5. \A f \in Attempts : StageOK(f)'
    BY <2>1, <2>3, <2>4 DEF Effects, StagesOK, StageOK, State
  <2>6. ASSUME NEW v \in Workers PROVE TaskOK(v)'
    <3>1. v # w => /\ workers'[v] = workers[v] /\ workers[v].e # e /\ TaskOK(v)
                   /\ (workers[v].pc # "idle" => workers[v].e \in Attempts)
      BY <2>2, Typed DEF Effects, StagesOK
    <3> QED
      BY <2>1, <2>2, <2>4, <3>1 DEF TaskOK
  <2>7. \A v, u \in Workers : workers'[v].pc # "idle" /\ workers'[v].e = workers'[u].e => v = u
    <3>1. \A v \in Workers : workers'[v].pc # "idle" => workers'[v].e # 0
      <4>1. \A v \in Workers : workers[v].pc # "idle" => workers[v].e \in Attempts
        BY Typed
      <4>2. 0 \notin Attempts
        BY Typed
      <4> QED
        BY <2>2, <4>1, <4>2
    <3> QED
      BY <2>2, <3>1 DEF Effects, StagesOK
  <2>8. StagesOK'
    BY <1>1, <2>1, <2>4, <2>5, <2>6, <2>7 DEF Effects, StagesOK
  <2>9. Wrong' \subseteq Wrong
    <3>1. e \notin Wrong'
      <4>1. s = "failed" => ~OnItsWay(e)'
        <5>1. \A v \in Workers : workers'[v].e # e \/ workers'[v].pc # "call"
          BY <2>2
        <5> QED
          BY <2>3, <2>4, <5>1 DEF OnItsWay
      <4> QED
        BY <2>1, <2>3, <2>4, <4>1 DEF Wrong, State
    <3>2. ASSUME NEW f \in Wrong', f # e PROVE f \in Wrong
      BY <2>1, <2>2, <2>4, <3>2 DEF Wrong, State, OnItsWay
    <3> QED
      BY <3>1, <3>2
  <2> QED
    BY <1>1, <2>8, <2>9, JudgedKept DEF Effects
<1> QED
  BY <1>4, <1>5, <1>2, <1>3, Finishes

LEMMA EffectsFlow ==
  ASSUME TypeInv, TypeInv', Effects, NEW e \in Attempts, FlowActs(e)
  PROVE  Effects'
<1>1. /\ flows[e] = "started" /\ UNCHANGED <<executions, workers, spent>>
      /\ e \notin Effected /\ State(e) # "queued" /\ Attempts' = Attempts
      /\ Len(happened) = Cardinality(Effected)
  BY DEF FlowActs, Effects, StagesOK, StageOK, Attempts
<1>2. /\ Len(happened') = Cardinality(Effected') /\ flows'[e] \in {"did", "failed"}
      /\ \A f \in Attempts \ {e} : flows'[f] = flows[f]
      /\ flows'[e] = "did" => Effected' = Effected \cup {e}
      /\ flows'[e] = "failed" => Effected' = Effected
  <2>1. CASE flows' = [flows EXCEPT ![e] = "did"] /\ happened' = Append(happened, e)
    BY <1>1, <2>1, Typed, EffectAppears
  <2>2. CASE flows' = [flows EXCEPT ![e] = "failed"] /\ UNCHANGED happened
    <3>1. Effected' = Effected
      BY <2>2 DEF Effected, Range
    <3> QED
      BY <1>1, <2>2, <3>1, Typed
  <2> QED
    BY <2>1, <2>2 DEF FlowActs
<1>3. \A f \in Attempts : StageOK(f)'
  <2>1. StageOK(e)'
    BY <1>1, <1>2 DEF Effects, StagesOK, StageOK, State
  <2>2. ASSUME NEW f \in Attempts \ {e} PROVE StageOK(f)'
    BY <1>1, <1>2 DEF Effects, StagesOK, StageOK, State
  <2> QED
    BY <2>1, <2>2
<1>4. ASSUME NEW w \in Workers PROVE TaskOK(w)'
  <2>1. TaskOK(w) /\ (workers[w].pc # "idle" => workers[w].e \in Attempts)
    BY Typed DEF Effects, StagesOK
  <2> QED
    BY <1>1, <1>2, <2>1 DEF TaskOK
<1>5. StagesOK'
  BY <1>1, <1>2, <1>3, <1>4 DEF Effects, StagesOK
<1>6. Wrong' \subseteq Wrong
  BY <1>1, <1>2 DEF Wrong, State, OnItsWay
<1> QED
  BY <1>1, <1>5, <1>6, JudgedKept DEF Effects

LEMMA EffectsCallback ==
  ASSUME TypeInv, TypeInv', Effects, NEW e \in Attempts, Callback(e)
  PROVE  Effects'
<1>1. /\ flows[e] \in {"did", "failed"} /\ UNCHANGED <<workers, happened, spent>>
      /\ State(e) # "queued"
      /\ flows[e] = "did" => e \in Effected
      /\ flows[e] = "failed" => e \notin Effected
  BY DEF Callback, Effects, StagesOK, StageOK
<1>2. flows'[e] = "answered" /\ \A f \in Attempts \ {e} : flows'[f] = flows[f]
  BY Typed DEF Callback
<1>3. Effected' = Effected
  BY <1>1 DEF Effected, Range
<1>4. /\ Attempts' = Attempts
      /\ \A f \in Attempts \ {e} : executions'[f] = executions[f]
      /\ \/ executions'[e].state = executions[e].state
         \/ executions'[e].state = "succeeded" /\ flows[e] = "did"
         \/ executions'[e].state = "failed" /\ flows[e] = "failed"
  <2>1. CASE UNCHANGED executions
    BY <2>1 DEF Attempts
  <2>2. CASE SetState(e, "succeeded") /\ flows[e] = "did"
    BY <2>2, Typed, StateUpdate DEF SetState, States, Finals
  <2>3. CASE SetState(e, "failed") /\ flows[e] = "failed"
    BY <2>3, Typed, StateUpdate DEF SetState, States, Finals
  <2> QED
    BY <1>1, <2>1, <2>2, <2>3 DEF Callback
<1>5. \A f \in Attempts : StageOK(f)'
  <2>1. StageOK(e)'
    BY <1>1, <1>2, <1>3, <1>4 DEF Effects, StagesOK, StageOK, State
  <2>2. ASSUME NEW f \in Attempts \ {e} PROVE StageOK(f)'
    BY <1>2, <1>3, <1>4 DEF Effects, StagesOK, StageOK, State
  <2> QED
    BY <2>1, <2>2
<1>6. ASSUME NEW w \in Workers PROVE TaskOK(w)'
  <2>1. TaskOK(w) /\ (workers[w].pc # "idle" => workers[w].e \in Attempts)
    BY Typed DEF Effects, StagesOK
  <2> QED
    BY <1>1, <1>2, <1>3, <1>4, <2>1 DEF TaskOK, State
<1>7. StagesOK'
  BY <1>1, <1>3, <1>4, <1>5, <1>6 DEF Effects, StagesOK
<1>8. Wrong' \subseteq Wrong
  <2>1. ASSUME NEW f \in Wrong', f # e PROVE f \in Wrong
    BY <1>1, <1>2, <1>3, <1>4, <2>1 DEF Wrong, State, OnItsWay
  <2>2. e \in Wrong' => e \in Wrong
    <3>1. \A w \in Workers : ~(workers[w].pc = "call" /\ workers[w].e = e)
      BY <1>1 DEF Effects, StagesOK, TaskOK
    <3> QED
      BY <1>1, <1>2, <1>3, <1>4, <3>1 DEF Wrong, State, OnItsWay
  <2> QED
    BY <2>1, <2>2
<1> QED
  BY <1>1, <1>7, <1>8, JudgedKept DEF Effects

LEMMA EffectsSweep ==
  ASSUME TypeInv, TypeInv', Effects, NEW e \in Attempts, Sweep(e)
  PROVE  Effects'
<1>1. StagesOK' /\ Wrong' \subseteq Wrong
  BY EffectsClose DEF Sweep, world, States, Finals
<1> QED
  BY <1>1, JudgedKept DEF Effects, Sweep

LEMMA EffectsResolve ==
  ASSUME TypeInv, TypeInv', Effects, NEW e \in Attempts, Resolve(e)
  PROVE  Effects'
<1>1. UNCHANGED <<workers, flows, happened>>
      /\ {"succeeded", "failed"} \subseteq States \ {"queued"}
  BY DEF Resolve, world, States, Finals
<1>2. CASE SetState(e, "succeeded") /\ e \in Effected /\ UNCHANGED spent
  <2>1. StagesOK' /\ Wrong' \subseteq Wrong
    BY <1>1, <1>2, EffectsClose
  <2> QED
    BY <1>2, <2>1, JudgedKept DEF Effects
<1>3. CASE SetState(e, "failed") /\ e \notin Effected /\ ~OnItsWay(e) /\ UNCHANGED spent
  <2>1. StagesOK' /\ Wrong' \subseteq Wrong
    BY <1>1, <1>3, EffectsClose
  <2> QED
    BY <1>3, <2>1, JudgedKept DEF Effects
<1>4. CASE SetState(e, "failed") /\ Spend("misjudged")
  <2>1. StagesOK' /\ Wrong' \subseteq Wrong \cup {e}
    BY <1>1, <1>4, EffectsClose
  <2>2. spent'.misjudged = spent.misjudged + 1
    BY <1>4, Typed, SpendType DEF Bounds
  <2>3. /\ IsFiniteSet(Wrong \cup {e}) /\ Cardinality(Wrong \cup {e}) \in Nat
        /\ Cardinality(Wrong \cup {e}) <= Cardinality(Wrong) + 1
    BY Finiteness, OneMore
  <2>4. IsFiniteSet(Wrong') /\ Cardinality(Wrong') <= Cardinality(Wrong \cup {e})
        /\ Cardinality(Wrong') \in Nat
    BY <2>1, <2>3, FS_Subset, FS_CardinalityType
  <2> DEFINE new == Cardinality(Wrong')
             spentNew == spent'.misjudged
  <2>5. new <= Cardinality(Wrong \cup {e}) /\ new \in Nat /\ spentNew = spent.misjudged + 1
    BY <2>2, <2>4
  <2>6. new <= spentNew
    <3> HIDE DEF new, spentNew
    <3> QED
      BY <2>3, <2>5, Finiteness DEF Effects, Judged
  <2> QED
    BY <2>1, <2>6 DEF Effects, Judged
<1> QED
  BY <1>2, <1>3, <1>4 DEF Resolve, Effected

LEMMA EffectsStep == ASSUME TypeInv, TypeInv', Effects, Next PROVE Effects'
<1>1. CASE Stamp \/ Commit \/ Revoke \/ Grant \/ Lose
  <2>1. spent'.misjudged = spent.misjudged
    BY <1>1, Typed, SpendType DEF Stamp, Commit, Revoke, Grant, Lose, Bounds
  <2> QED
    BY <1>1, <2>1, EffectsKept DEF Stamp, Commit, Revoke, Grant, Lose, world, catalog
<1>2. ASSUME NEW w \in Workers, Crash(w) PROVE Effects'
  <2>1. spent'.misjudged = spent.misjudged
    BY <1>2, Typed, SpendType DEF Crash, Bounds
  <2> QED
    BY <1>2, <2>1, EffectsIdle DEF Crash, world
<1> QED
  BY <1>1, <1>2, EffectsExecute, EffectsStart, EffectsCall, EffectsFinish, EffectsFlow,
     EffectsCallback, EffectsSweep, EffectsResolve DEF Next, Work

LEMMA SafeInit == Init => Safe
<1> SUFFICES ASSUME Init PROVE Safe
  OBVIOUS
<1>1. /\ Attempts = {} /\ Effected = {} /\ Len(happened) = 0 /\ Wrong = {}
      /\ \A w \in Workers : workers[w].pc = "idle"
  BY DEF Init, Attempts, Effected, Range, Wrong, Idle
<1>2. Cardinality({}) = 0
  BY FS_EmptySet
<1>3. spent.misjudged = 0 /\ ~change.open
  BY DEF Init
<1> QED
  BY <1>1, <1>2, <1>3
  DEF Safe, StagesOK, TaskOK, OneOpenAttempt, Judged, VersionsOK, RunsWhatWasChecked

LEMMA SafeStep == ASSUME TypeInv, TypeInv', Safe, [Next]_vars PROVE Safe'
<1>1. CASE UNCHANGED vars
  <2>1. Effects'
    BY <1>1, EffectsKept DEF Safe, Effects, vars
  <2>2. OneOpenAttempt' /\ VersionsOK' /\ RunsWhatWasChecked'
    BY <1>1 DEF Safe, vars, OneOpenAttempt, VersionsOK, RunsWhatWasChecked, Attempts, State
  <2> QED
    BY <2>1, <2>2 DEF Safe, Effects
<1>2. CASE Next
  BY <1>2, EffectsStep, OneOpenStep, VersionsStep, RunsStep DEF Safe, Effects
<1> QED
  BY <1>1, <1>2

LEMMA Safety == Spec => [](TypeInv /\ Safe)
<1>1. TypeInv /\ Safe /\ [Next]_vars => (TypeInv /\ Safe)'
  BY TypeStep, SafeStep
<1> QED
  BY <1>1, TypeInvInit, SafeInit, PTL DEF Spec

---------------------------------------------------------------------------
(* Theorems *)

\* A person may try again only what is known to have failed, and nothing late - a worker, an
\* answer of n8n, the sweep - makes anything else of it (Runbooks.execute, close).
LEMMA LastAttemptCounts == Spec => []OneOpenAttempt
<1>1. TypeInv /\ Safe => OneOpenAttempt
  BY DEF Safe
<1> QED
  BY <1>1, Safety, PTL

\* An approved proposal has one live attempt, and takes effect once, and once more at most for
\* each failure that a person confirmed while something was on its way, for any number of
\* attempts, workers, crashes and losses (Runbooks.run, BR-F12-06).
THEOREM EffectsAreSingle == Spec => []OneEffect
<1>1. ASSUME TypeInv, Safe PROVE NoDoubleEffect
  <2> DEFINE n == Len(executions)
  <2>1. Effected \subseteq Wrong \cup {n}
    <3>1. \A e \in Effected : e \in Attempts /\ (e < n => State(e) = "failed")
      BY <1>1, Finiteness DEF Safe, OneOpenAttempt
    <3>2. Attempts = 1..n /\ n \in Nat
      BY <1>1, Typed
    <3> QED
      BY <3>1, <3>2 DEF Wrong
  <2>2. /\ IsFiniteSet(Wrong \cup {n}) /\ Cardinality(Wrong \cup {n}) \in Nat
        /\ Cardinality(Wrong \cup {n}) <= Cardinality(Wrong) + 1
    BY <1>1, Finiteness, OneMore
  <2>3. Cardinality(Effected) <= Cardinality(Wrong \cup {n})
    BY <2>1, <2>2, FS_Subset
  <2>4. Len(happened) = Cardinality(Effected) /\ Cardinality(Wrong) <= spent.misjudged
    BY <1>1 DEF Safe, StagesOK, Judged
  <2> QED
    BY <1>1, <2>2, <2>3, <2>4, Finiteness DEF NoDoubleEffect
<1> QED
  BY <1>1, LastAttemptCounts, Safety, PTL DEF OneEffect

\* What the row of an execution says is what happened to the target system, unless a person
\* confirmed a failure too early (Runbooks.finish, complete_callback, resolve); and what ran is
\* the version its payload was checked against, except for a run queued while a change was being
\* saved (Runbooks.why_not_runnable).
THEOREM RecordsAreTrue == Spec => []TheTrailIsTrue
<1>1. ASSUME TypeInv, Safe PROVE OutcomesAreTrue
  <2>1. \A e \in Attempts : State(e) = "succeeded" => e \in Effected
    BY <1>1 DEF Safe, StagesOK, StageOK
  <2>2. ASSUME NEW e \in Attempts, State(e) = "failed", e \in Effected
        PROVE  spent.misjudged > 0
    <3>1. Wrong # {}
      BY <2>2 DEF Wrong
    <3>2. Cardinality(Wrong) # 0
      BY <1>1, <3>1, Finiteness, FS_EmptySet
    <3> QED
      BY <1>1, <3>2, Finiteness DEF Safe, Judged
  <2> QED
    BY <2>1, <2>2 DEF OutcomesAreTrue, Effected
<1>2. TypeInv /\ Safe => TheTrailIsTrue
  BY <1>1 DEF Safe, TheTrailIsTrue
<1> QED
  BY <1>2, Safety, PTL
=============================================================================
