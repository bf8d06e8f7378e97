---------------------------- MODULE MCLifecycle ----------------------------
(***************************************************************************)
(* Small instances of Lifecycle: a workflow in which a ticket handed over  *)
(* by triage (`review`) is worked on (`work`) and resolved (`done`), with  *)
(* `new`, which belongs to triage, and a second workflow.                  *)
(***************************************************************************)
EXTENDS Lifecycle, TLC

CONSTANTS w1, w2

OneWorker == {w1}
TwoWorkers == {w1, w2}
Symmetry == Permutations(TwoWorkers)

Status(workflow, key) == [workflow |-> workflow, key |-> key]
new == Status("main", "new")
review == Status("main", "review")
work == Status("main", "work")
done == Status("main", "done")

MainStatuses == {new, review, work, done}
BothStatuses == MainStatuses \union {Status("side", k) : k \in {"new", "review", "work"}}
MCPipelineKeys == {"new", "review"}
MCTriageKeys == {"new"}
MCCompleted == {done}
MCDeletable == {work}

Act(kind, to) == [kind |-> kind, to |-> to]
NoActions == [s \in Statuses |-> <<>>]
MCLinks == {<<review, work>>, <<work, done>>}
LoopLinks == {<<review, work>>, <<work, done>>, <<done, work>>}
RuledLinks == {<<review, work>>}

\* The actions of the way from `review` to `work`; the other transitions have none.
ToWork(actions) == [link \in Links |-> IF link = <<review, work>> THEN actions ELSE <<>>]
Unguarded == ToWork(<<>>)
Guarded == ToWork(<<Act("webhook", work)>>)
GuardedByN8n == ToWork(<<Act("n8n", work)>>)

\* Entering `work` moves the ticket on, or starts an effect; and on and on, leaving for the
\* other workflow as well.
MovingOn == [NoActions EXCEPT ![work] = <<Act("move", done)>>]
Notifying == [NoActions EXCEPT ![work] = <<Act("local", work)>>]
Busy ==
  [MovingOn EXCEPT ![done] = <<Act("move", work), Act("change", Status("side", "work"))>>]
=============================================================================
