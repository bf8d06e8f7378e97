------------------------------- MODULE Outbox -------------------------------
(***************************************************************************)
(* The notification outbox (apps/notifications/utils/dispatcher.py): one   *)
(* email or webhook message, from the commit of the event it tells of      *)
(* until it is delivered or has failed.                                    *)
(*                                                                         *)
(* A worker claims the message, sends it without a lock, and writes how    *)
(* that went; a sweep takes a message back that has been `sending` for too *)
(* long, whether its worker is dead or only slow.  One message, because    *)
(* every lock and every UPDATE of the dispatcher is confined to its row.   *)
(***************************************************************************)
EXTENDS Integers, FiniteSets

CONSTANTS
  Workers,      \* Celery workers
  MaxAttempts,  \* thresholds notifications.max_attempts
  MaxCopies,    \* bound: waiting `dispatch` tasks; more change nothing
  MaxCrashes,   \* bound: worker crashes
  MaxLosses,    \* bound: tasks lost after the commit they follow
  MaxLate,      \* bound: sends that outlast stuck_after_sec
  MaxUnheard,   \* bound: messages that were taken and whose answer got lost
  MaxRetries    \* bound: people's retries of the failed message

ASSUME WorkersAssumption == IsFiniteSet(Workers)
ASSUME AttemptsAssumption == MaxAttempts \in Nat \ {0}
ASSUME BoundsAssumption ==
  /\ MaxCopies \in Nat \ {0}
  /\ {MaxCrashes, MaxLosses, MaxLate, MaxUnheard, MaxRetries} \subseteq Nat

VARIABLES
  row,       \* the message's row; `due`: next_attempt_at is empty or has come
  copies,    \* waiting `dispatch` tasks of it
  workers,   \* what each worker is doing with it
  claims,    \* history: how often it has been claimed
  accepted,  \* history: how often its recipient's side has taken it
  again,     \* history: how often there was a reason to send it once more
  spent      \* how much of each bound is used up

vars == <<row, copies, workers, claims, accepted, again, spent>>

---------------------------------------------------------------------------
(* The row *)

Enqueued == IF copies < MaxCopies THEN copies + 1 ELSE copies

Sending == row.state = "sending"

Spend(bound) == spent' = [spent EXCEPT ![bound] = @ + 1]

Idle == [pc |-> "idle", claim |-> 0, attempts |-> 0, outcome |-> "none"]

\* A worker that is still at the latest claim of the message.
InHand == \E w \in Workers : workers[w].pc # "idle" /\ workers[w].claim = claims

---------------------------------------------------------------------------
(* The task: Dispatcher.dispatch *)

Claim_AnyState(w) ==
  /\ workers[w].pc = "idle" /\ copies > 0
  /\ row.state \in {"queued", "sending"} /\ row.due
  /\ row' = [row EXCEPT !.state = "sending", !.attempts = @ + 1]
  /\ claims' = claims + 1
  /\ workers' = [workers EXCEPT ![w] = [Idle EXCEPT !.pc = "send", !.claim = claims + 1,
                                                    !.attempts = row.attempts + 1]]
  /\ copies' = copies - 1
  /\ UNCHANGED <<accepted, again, spent>>

\* Marks a due, queued message and counts the attempt.
Claim(w) ==
  /\ workers[w].pc = "idle" /\ copies > 0
  /\ row.state = "queued" /\ row.due
  /\ row' = [row EXCEPT !.state = "sending", !.attempts = @ + 1]
  /\ claims' = claims + 1
  /\ workers' = [workers EXCEPT ![w] = [Idle EXCEPT !.pc = "send", !.claim = claims + 1,
                                                    !.attempts = row.attempts + 1]]
  /\ copies' = copies - 1
  /\ UNCHANGED <<accepted, again, spent>>

\* A task whose message is not to be sent; one that finds the row locked by another claim is
\* skipped too, as if it came after that claim.
Skip(w) ==
  /\ workers[w].pc = "idle" /\ copies > 0
  /\ ~(row.state = "queued" /\ row.due)
  /\ copies' = copies - 1
  /\ UNCHANGED <<row, workers, claims, accepted, again, spent>>

Sent(w, outcome) == workers' = [workers EXCEPT ![w].pc = "write", ![w].outcome = outcome]

\* The relay or the host takes the message, refuses it for now or for good, or takes it and
\* is not heard to.
Send(w) ==
  /\ workers[w].pc = "send"
  /\ \/ /\ Sent(w, "ok")
        /\ accepted' = accepted + 1
        /\ UNCHANGED <<again, spent>>
     \/ /\ \E outcome \in {"transient", "permanent"} : Sent(w, outcome)
        /\ UNCHANGED <<accepted, again, spent>>
     \/ /\ spent.unheard < MaxUnheard /\ Spend("unheard")
        /\ Sent(w, "transient")
        /\ accepted' = accepted + 1 /\ again' = again + 1
  /\ UNCHANGED <<row, copies, claims>>

\* The last attempt, as the worker counted it when it claimed the message.
GiveUp(w) ==
  \/ workers[w].outcome = "permanent"
  \/ workers[w].outcome = "transient" /\ workers[w].attempts >= MaxAttempts

\* Delivered, failed (`fail`), or again later (`retry_later`): onto whatever claim the
\* message is being sent under by then, and onto nothing else.
Write(w) ==
  /\ workers[w].pc = "write"
  /\ row' = IF ~Sending THEN row
            ELSE CASE workers[w].outcome = "ok" -> [row EXCEPT !.state = "delivered"]
                   [] GiveUp(w) -> [row EXCEPT !.state = "failed", !.due = TRUE]
                   [] OTHER -> [row EXCEPT !.state = "queued", !.due = FALSE]
  /\ copies' = IF Sending /\ workers[w].outcome # "ok" /\ ~GiveUp(w) THEN Enqueued ELSE copies
  /\ workers' = [workers EXCEPT ![w] = Idle]
  /\ UNCHANGED <<claims, accepted, again, spent>>

---------------------------------------------------------------------------
(* Time, people and accidents *)

\* The backoff passes.
Wait ==
  /\ row.state = "queued" /\ ~row.due
  /\ row' = [row EXCEPT !.due = TRUE]
  /\ UNCHANGED <<copies, workers, claims, accepted, again, spent>>

\* The sweep's first half: a message whose worker is dead, or slower than stuck_after_sec.
Requeue ==
  /\ Sending
  /\ \/ InHand /\ spent.late < MaxLate /\ Spend("late")
     \/ ~InHand /\ UNCHANGED spent
  /\ row' = [row EXCEPT !.state = "queued", !.due = TRUE]
  /\ again' = again + 1
  /\ UNCHANGED <<copies, workers, claims, accepted>>

SweepDue_Tried ==
  /\ row.state = "queued" /\ row.due /\ row.attempts > 0
  /\ copies' = Enqueued
  /\ UNCHANGED <<row, workers, claims, accepted, again, spent>>

\* Its second half: every due message gets a task, as often as it is swept.
SweepDue ==
  /\ row.state = "queued" /\ row.due
  /\ copies' = Enqueued
  /\ UNCHANGED <<row, workers, claims, accepted, again, spent>>

\* A person puts the failed message back for a fresh set of attempts.
Retry ==
  /\ row.state = "failed" /\ spent.retries < MaxRetries /\ Spend("retries")
  /\ row' = [row EXCEPT !.state = "queued", !.attempts = 0, !.due = TRUE]
  /\ copies' = Enqueued
  /\ again' = again + 1
  /\ UNCHANGED <<workers, claims, accepted>>

\* A worker dies; its task is delivered again, and finds the message `sending`.
Crash(w) ==
  /\ workers[w].pc # "idle" /\ spent.crashes < MaxCrashes /\ Spend("crashes")
  /\ workers' = [workers EXCEPT ![w] = Idle]
  /\ copies' = Enqueued
  /\ UNCHANGED <<row, claims, accepted, again>>

\* A task is lost: its sender dies after the commit, or the broker refuses it.
Lose ==
  /\ copies > 0 /\ spent.losses < MaxLosses /\ Spend("losses")
  /\ copies' = copies - 1
  /\ UNCHANGED <<row, workers, claims, accepted, again>>

---------------------------------------------------------------------------
(* The specification *)

\* Notifier.emit has committed with its caller's transaction and queued the first task.
Init ==
  /\ row = [state |-> "queued", attempts |-> 0, due |-> TRUE]
  /\ copies = 1
  /\ workers = [w \in Workers |-> Idle]
  /\ claims = 0 /\ accepted = 0 /\ again = 0
  /\ spent = [bound \in {"crashes", "losses", "late", "unheard", "retries"} |-> 0]

Take(w) == Claim(w) \/ Skip(w)
Work(w) == Send(w) \/ Write(w)

Next ==
  \/ \E w \in Workers : Take(w) \/ Work(w) \/ Crash(w)
  \/ Wait \/ Requeue \/ SweepDue \/ Retry \/ Lose

Spec == Init /\ [][Next]_vars

\* Workers keep taking tasks and a send returns; time passes; celery beat runs the sweep.
FairSpec ==
  /\ Spec
  /\ \A w \in Workers : WF_vars(Take(w)) /\ WF_vars(Work(w))
  /\ WF_vars(Wait) /\ WF_vars(Requeue) /\ WF_vars(SweepDue)

---------------------------------------------------------------------------
(* Properties *)

TypeOK ==
  /\ row \in [state : {"queued", "sending", "delivered", "failed"}, attempts : Nat,
              due : BOOLEAN]
  /\ copies \in 0..MaxCopies
  /\ workers \in [Workers -> [pc : {"idle", "send", "write"}, claim : Nat, attempts : Nat,
                              outcome : {"none", "ok", "transient", "permanent"}]]
  /\ claims \in Nat /\ accepted \in Nat /\ again \in Nat
  /\ spent \in [{"crashes", "losses", "late", "unheard", "retries"} -> Nat]

\* "Sends one message at most once per claim", and a claim is made of a queued message only:
\* a recipient gets it once, and once more at most for each time the sweep took it from a
\* worker, an answer was not heard, or a person retried it.
NoDuplicates == accepted <= 1 + again

\* Attempts end, though a slow worker counts them by its own claim: each time the sweep takes
\* a message from its worker it may be tried once more.
AttemptsAreBounded == row.attempts <= MaxAttempts + again

\* "A delivered one is never sent again": what slow workers, the sweep and people write comes
\* to nothing.
DeliveredIsFinal == [][row.state = "delivered" => row'.state = "delivered"]_vars

\* However slow its workers are and whatever is lost or unheard, a message is neither sent nor
\* tried more often than once and once for each reason there was to take it up again; and once
\* it is known to be delivered there is no such reason.
OnceForEachReason == [](NoDuplicates /\ AttemptsAreBounded) /\ DeliveredIsFinal

\* "The sweep re-queues stuck messages and dispatches due ones": whatever worker or task is
\* lost, the message is delivered, or it is listed as failed, and so again after a retry.
EveryMessageEnds ==
  (row.state \in {"queued", "sending"}) ~> (row.state \in {"delivered", "failed"})
=============================================================================
