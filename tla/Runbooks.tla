------------------------------ MODULE Runbooks ------------------------------
(***************************************************************************)
(* Runbooks (apps/itsm_mock/utils/runbooks.py): how one approved proposal  *)
(* is carried out on a target system that may act without being heard.     *)
(*                                                                         *)
(* The proposal is a review item; each of its executions is queued by a    *)
(* person under the item's lock, started by a worker, and closed by the    *)
(* worker, by n8n's callback, by the sweep or by a person who looks at the *)
(* target system.  A workflow admin changes the runbook meanwhile.         *)
(***************************************************************************)
EXTENDS Integers, Sequences, Functions

CONSTANTS
  Workers,         \* Celery workers
  MaxAttempts,     \* bound: executions of the proposal
  MaxChanges,      \* bound: changes of the runbook
  MaxRevocations,  \* bound: how often the approver loses the permission
  MaxMisjudged,    \* bound: failures confirmed while something is still on its way
  MaxCrashes,      \* bound: worker crashes
  MaxLosses        \* bound: tasks lost after the commit they follow

ASSUME BoundsAssumption ==
  {MaxAttempts, MaxChanges, MaxRevocations, MaxMisjudged, MaxCrashes, MaxLosses} \subseteq Nat

VARIABLES
  runbook,     \* the catalog entry; `since`: the executions there were at its approved_at
  change,      \* a change that is stamped and not committed, `at` as `since`
  permitted,   \* whether the approver holds runbooks.execute
  executions,  \* the proposal's executions in the order of their attempts
  messages,    \* executions with a waiting `execute` task
  workers,     \* what each worker is doing
  flows,       \* n8n's workflow of each execution
  happened,    \* history: the executions that took effect on the target, in order
  ran,         \* history: the version of the runbook each was run by, 0 if none
  lost,        \* history: executions whose task is lost
  spent        \* how much of each bound is used up

vars == <<runbook, change, permitted, executions, messages, workers, flows, happened, ran,
          lost, spent>>

catalog == <<runbook, change, permitted>>
world == <<flows, happened, ran>>

---------------------------------------------------------------------------
(* Executions *)

Executors == {"keycloak", "n8n"}  \* the mock executor is a Keycloak that always answers

Finals == {"succeeded", "failed", "unknown"}

Attempts == DOMAIN executions
State(e) == executions[e].state

SetState(e, state) == executions' = [executions EXCEPT ![e].state = state]

Spend(bound) == spent' = [spent EXCEPT ![bound] = @ + 1]

Idle == [pc |-> "idle", e |-> 0, executor |-> "none", outcome |-> "none"]

\* RunbookExecutionQuerySet.blocking_a_new_attempt.
Blocked == \E e \in Attempts : State(e) # "failed"

\* The payload is checked against the runbook as it is committed; `between` tells of a change
\* that has its approved_at already.
Execute ==
  /\ permitted /\ runbook.active
  /\ ~Blocked /\ Len(executions) < MaxAttempts
  /\ executions' = Append(executions,
       [state |-> "queued", version |-> runbook.version, executor |-> runbook.executor,
        between |-> change.open])
  /\ messages' = messages \cup {Len(executions) + 1}
  /\ UNCHANGED <<catalog, world, workers, lost, spent>>

\* An INSERT waits, by its foreign key, for the change that holds the runbook's row.
Committed(e) == ~(change.open /\ e > change.at)

---------------------------------------------------------------------------
(* The worker: Runbooks.run *)

Refused_OnceApproved(e) == ~permitted \/ ~runbook.active

\* why_not_runnable: executed_at lies before approved_at when the runbook changed since.
Refused(e) == ~permitted \/ ~runbook.active \/ e <= runbook.since

Start_AnyOpen(w) == \E e \in messages :
  /\ workers[w] = Idle /\ Committed(e)
  /\ messages' = messages \ {e}
  /\ \/ /\ State(e) \notin {"queued", "running"}
        /\ UNCHANGED <<executions, workers, ran>>
     \/ /\ State(e) \in {"queued", "running"} /\ Refused(e)
        /\ SetState(e, "failed")
        /\ UNCHANGED <<workers, ran>>
     \/ /\ State(e) \in {"queued", "running"} /\ ~Refused(e)
        /\ SetState(e, "running")
        /\ workers' = [workers EXCEPT ![w] =
             [Idle EXCEPT !.pc = "call", !.e = e, !.executor = runbook.executor]]
        /\ ran' = [ran EXCEPT ![e] = runbook.version]
  /\ UNCHANGED <<catalog, flows, happened, lost, spent>>

\* Runs a queued execution once; a row past `queued` is never sent again.
Start(w) == \E e \in messages :
  /\ workers[w] = Idle /\ Committed(e)
  /\ messages' = messages \ {e}
  /\ \/ /\ State(e) # "queued"
        /\ UNCHANGED <<executions, workers, ran>>
     \/ /\ State(e) = "queued" /\ Refused(e)
        /\ SetState(e, "failed")
        /\ UNCHANGED <<workers, ran>>
     \/ /\ State(e) = "queued" /\ ~Refused(e)
        /\ SetState(e, "running")
        /\ workers' = [workers EXCEPT ![w] =
             [Idle EXCEPT !.pc = "call", !.e = e, !.executor = runbook.executor]]
        /\ ran' = [ran EXCEPT ![e] = runbook.version]
  /\ UNCHANGED <<catalog, flows, happened, lost, spent>>

\* What a Keycloak call can come to: the one call that changes something either has its
\* effect or not, and is heard or not; a failure before it is a failure.
KeycloakOutcomes ==
  {[did |-> TRUE, outcome |-> "succeeded"], [did |-> FALSE, outcome |-> "failed"],
   [did |-> TRUE, outcome |-> "unknown"], [did |-> FALSE, outcome |-> "unknown"]}

\* n8n takes the workflow and answers later; or refuses it; or gives no answer.
N8nOutcomes ==
  {[did |-> TRUE, outcome |-> "running"], [did |-> FALSE, outcome |-> "failed"],
   [did |-> TRUE, outcome |-> "unknown"], [did |-> FALSE, outcome |-> "unknown"]}

\* Executor.run, with no lock held.
Call(w) ==
  /\ workers[w].pc = "call"
  /\ LET e == workers[w].e IN
     \/ \E r \in KeycloakOutcomes :
          /\ workers[w].executor = "keycloak"
          /\ workers' = [workers EXCEPT ![w].pc = "finish", ![w].outcome = r.outcome]
          /\ happened' = IF r.did THEN Append(happened, e) ELSE happened
          /\ UNCHANGED flows
     \/ \E r \in N8nOutcomes :
          /\ workers[w].executor = "n8n"
          /\ workers' = [workers EXCEPT ![w].pc = "finish", ![w].outcome = r.outcome]
          /\ flows' = IF r.did THEN [flows EXCEPT ![e] = "started"] ELSE flows
          /\ UNCHANGED happened
  /\ UNCHANGED <<catalog, executions, messages, ran, lost, spent>>

\* Closes the execution if it is still running; n8n's `running` waits on.
Finish(w) ==
  /\ workers[w].pc = "finish"
  /\ LET e == workers[w].e
         closes == State(e) = "running" /\ workers[w].outcome # "running" IN
     executions' = IF closes THEN [executions EXCEPT ![e].state = workers[w].outcome]
                   ELSE executions
  /\ workers' = [workers EXCEPT ![w] = Idle]
  /\ UNCHANGED <<catalog, world, messages, lost, spent>>

---------------------------------------------------------------------------
(* Answers from outside, from time and from people *)

\* n8n's workflow reaches its target, or fails without; nothing limits how long it takes.
FlowActs(e) ==
  /\ flows[e] = "started"
  /\ \/ /\ flows' = [flows EXCEPT ![e] = "did"] /\ happened' = Append(happened, e)
     \/ /\ flows' = [flows EXCEPT ![e] = "failed"] /\ UNCHANGED happened
  /\ UNCHANGED <<catalog, executions, messages, workers, ran, lost, spent>>

\* complete_callback: the workflow's one answer, refused unless the execution is waiting.
Callback(e) ==
  /\ flows[e] \in {"did", "failed"}
  /\ flows' = [flows EXCEPT ![e] = "answered"]
  /\ IF State(e) = "running" /\ executions[e].executor = "n8n"
     THEN SetState(e, IF flows[e] = "did" THEN "succeeded" ELSE "failed")
     ELSE UNCHANGED executions
  /\ UNCHANGED <<catalog, messages, workers, happened, ran, lost, spent>>

Sweep_N8nOnly(e) ==
  /\ State(e) = "running" /\ executions[e].executor = "n8n"
  /\ SetState(e, "unknown")
  /\ UNCHANGED <<catalog, world, messages, workers, lost, spent>>

\* An execution past its wait, whoever is still at it; its list is read without a lock and
\* rechecks only that the execution runs, so one that has just started to wait is swept too.
Sweep(e) ==
  /\ State(e) = "running"
  /\ SetState(e, "unknown")
  /\ UNCHANGED <<catalog, world, messages, workers, lost, spent>>

\* A call or a workflow of the execution that may still take effect.
OnItsWay(e) ==
  \/ \E w \in Workers : workers[w].pc = "call" /\ workers[w].e = e
  \/ flows[e] = "started"

\* A person's verdict on an unknown outcome, true to what the target system shows by then.
Resolve(e) ==
  /\ State(e) = "unknown"
  /\ \/ /\ e \in Range(happened)
        /\ SetState(e, "succeeded") /\ UNCHANGED spent
     \/ /\ e \notin Range(happened) /\ ~OnItsWay(e)
        /\ SetState(e, "failed") /\ UNCHANGED spent
     \/ /\ e \notin Range(happened) /\ OnItsWay(e)
        /\ spent.misjudged < MaxMisjudged /\ Spend("misjudged")
        /\ SetState(e, "failed")
  /\ UNCHANGED <<catalog, world, messages, workers, lost>>

---------------------------------------------------------------------------
(* The catalog *)

\* A change or an activation locks the runbook and reads the clock ...
Stamp ==
  /\ ~change.open /\ spent.changes < MaxChanges /\ Spend("changes")
  /\ change' = [open |-> TRUE, at |-> Len(executions)]
  /\ UNCHANGED <<runbook, permitted, executions, messages, workers, world, lost>>

\* ... and is live when it commits.
Commit ==
  /\ change.open
  /\ change' = [change EXCEPT !.open = FALSE]
  /\ \E active \in BOOLEAN, executor \in Executors :
       runbook' = [version |-> runbook.version + 1, active |-> active,
                   executor |-> executor, since |-> change.at]
  /\ UNCHANGED <<permitted, executions, messages, workers, world, lost, spent>>

\* The approver loses the permission, or is given it back.
Revoke ==
  /\ permitted /\ spent.revocations < MaxRevocations /\ Spend("revocations")
  /\ permitted' = FALSE
  /\ UNCHANGED <<runbook, change, executions, messages, workers, world, lost>>

Grant ==
  /\ ~permitted /\ permitted' = TRUE
  /\ UNCHANGED <<runbook, change, executions, messages, workers, world, lost, spent>>

---------------------------------------------------------------------------
(* Accidents *)

\* The task of a worker that dies is delivered again.
Crash(w) ==
  /\ workers[w] # Idle /\ spent.crashes < MaxCrashes /\ Spend("crashes")
  /\ messages' = messages \cup {workers[w].e}
  /\ workers' = [workers EXCEPT ![w] = Idle]
  /\ UNCHANGED <<catalog, world, executions, lost>>

\* The broker refuses a task after the commit (`robust=True`), or its process dies.
Lose == \E e \in messages :
  /\ spent.losses < MaxLosses /\ Spend("losses")
  /\ messages' = messages \ {e}
  /\ lost' = lost \cup {e}
  /\ UNCHANGED <<catalog, world, executions, workers>>

---------------------------------------------------------------------------
(* The specification *)

\* An approved proposal for a runbook that is live.
Init ==
  /\ \E executor \in Executors :
       runbook = [version |-> 1, active |-> TRUE, executor |-> executor, since |-> 0]
  /\ change = [open |-> FALSE, at |-> 0]
  /\ permitted = TRUE
  /\ executions = <<>> /\ messages = {} /\ happened = <<>> /\ lost = {}
  /\ workers = [w \in Workers |-> Idle]
  /\ flows = [e \in 1..MaxAttempts |-> "none"]
  /\ ran = [e \in 1..MaxAttempts |-> 0]
  /\ spent = [bound \in {"changes", "revocations", "misjudged", "crashes", "losses"} |-> 0]

Work(w) == Call(w) \/ Finish(w)

Next ==
  \/ Execute \/ Stamp \/ Commit \/ Revoke \/ Grant \/ Lose
  \/ \E w \in Workers : Start(w) \/ Work(w) \/ Crash(w)
  \/ \E e \in Attempts : FlowActs(e) \/ Callback(e) \/ Sweep(e) \/ Resolve(e)

Spec == Init /\ [][Next]_vars

\* Workers take tasks and calls time out; a change commits; celery beat runs the sweep.
FairSpec ==
  /\ Spec
  /\ WF_vars(Commit)
  /\ \A w \in Workers : WF_vars(Start(w)) /\ WF_vars(Work(w))
  /\ \A e \in 1..MaxAttempts : WF_vars(e \in Attempts /\ Sweep(e))

---------------------------------------------------------------------------
(* Properties *)

TypeOK ==
  /\ runbook \in [version : Nat, active : BOOLEAN, executor : Executors, since : 0..MaxAttempts]
  /\ change \in [open : BOOLEAN, at : 0..MaxAttempts]
  /\ permitted \in BOOLEAN
  /\ executions \in Seq([state : {"queued", "running"} \cup Finals, version : Nat,
                         executor : Executors, between : BOOLEAN])
  /\ Len(executions) <= MaxAttempts
  /\ messages \subseteq Attempts /\ lost \subseteq Attempts
  /\ workers \in [Workers -> [pc : {"idle", "call", "finish"}, e : 0..MaxAttempts,
                              executor : Executors \cup {"none"},
                              outcome : Finals \cup {"running", "none"}]]
  /\ \A w \in Workers : workers[w] # Idle => workers[w].e \in Attempts
  /\ flows \in [1..MaxAttempts -> {"none", "started", "did", "failed", "answered"}]
  /\ happened \in Seq(Attempts)
  /\ ran \in [1..MaxAttempts -> Nat]
  /\ spent \in [{"changes", "revocations", "misjudged", "crashes", "losses"} -> Nat]

\* "Never retried automatically" (BR-F12-06): whatever crashes, is slow, or comes late, an
\* approved proposal takes effect once, and once more at most for each time a person confirms
\* a failure of something still on its way.
NoDoubleEffect == Len(happened) <= 1 + spent.misjudged

\* A new attempt follows failed ones only, and a failed one stays failed, so that what the
\* proposal came to is what its last execution says.
OneOpenAttempt == \A e \in Attempts : e < Len(executions) => State(e) = "failed"

\* Whoever tries again, and whatever comes late, a proposal has one live attempt and one
\* effect.
OneEffect == OneOpenAttempt /\ NoDoubleEffect

\* What is recorded is what happened to the target: a success had its effect, and a failure
\* had none, unless a person confirmed it too early.
OutcomesAreTrue ==
  /\ \A e \in Attempts : State(e) = "succeeded" => e \in Range(happened)
  /\ \A e \in Attempts :
       State(e) = "failed" /\ e \in Range(happened) => spent.misjudged > 0

\* "A run queued before a change still fails" (ADR-0043): a worker runs the definition that
\* the payload was checked against, unless the run was queued while a change was being saved.
RunsWhatWasChecked ==
  \A e \in Attempts : ran[e] \in {0, executions[e].version} \/ executions[e].between

\* The trail of the runs can be relied on, in what was run and in what came of it.
TheTrailIsTrue == RunsWhatWasChecked /\ OutcomesAreTrue

\* A run does not stay queued or running: it ends, or its outcome is unknown and up to a
\* person, unless its task was lost, which no sweep looks for.
EveryRunEnds ==
  \A e \in 1..MaxAttempts :
    (e \in Attempts /\ State(e) \notin Finals) ~>
      (e \in lost \/ (e \in Attempts /\ State(e) \in Finals))
=============================================================================
