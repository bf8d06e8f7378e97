--------------------------- MODULE TicketPipeline ---------------------------
(***************************************************************************)
(* The triage pipeline of one ticket (apps/tickets/utils/pipeline.py and   *)
(* clarification.py), from its submission until support or an answer has   *)
(* it.                                                                     *)
(*                                                                         *)
(* A Celery task analyses the ticket and finalizes one routing decision: a *)
(* chat ticket's requester may be asked a question, or offered support,    *)
(* before the decision is carried out; a decision of any other kind is     *)
(* carried out at once.  The task holds no lock while it works and its     *)
(* message is acknowledged when it ends, so a worker that dies leaves the  *)
(* ticket to another one.  One action per transaction or unlocked read.    *)
(***************************************************************************)
EXTENDS Router

CONSTANTS
  Workers,      \* Celery workers; each runs one task at a time
  Sources,      \* where tickets come from: chat, form
  ShadowMode,   \* settings.SHADOW_MODE: nothing is automated
  Analyses,     \* the signals ai-engine may find; the ticket's own replace `pii` and `asked`
  FirstLevels,  \* what masking may have made of the submission
  AnswerLevels, \* and may make of an answer
  MaxCrashes,   \* bound: worker crashes
  MaxLosses     \* bound: messages lost after the commit they follow

ASSUME SourceAssumption == Sources \subseteq {"chat", "form"} /\ ShadowMode \in BOOLEAN
ASSUME SignalsAssumption ==
  Analyses \subseteq Signals /\ FirstLevels \subseteq PIILevels /\ AnswerLevels \subseteq PIILevels
ASSUME BoundsAssumption == MaxCrashes \in Nat /\ MaxLosses \in Nat

VARIABLES
  ticket,     \* the ticket's row
  aiRuns,     \* its AiRun rows: the intent each one proposed, by attempt
  decisions,  \* its RoutingDecision rows, in the order they were committed
  questions,  \* its TicketClarification rows
  items,      \* the review queue items made for it
  attached,   \* whether a confirmed incident has taken it in
  alerts,     \* security alerts raised about it
  messages,   \* waiting process_ticket messages
  workers,    \* what each worker is doing
  clock,      \* the next time stamp
  spent       \* how much of each bound is used up

rows == <<aiRuns, decisions, questions, items, attached, alerts>>
vars == <<ticket, rows, messages, workers, clock, spent>>

---------------------------------------------------------------------------
(* Rows *)

\* `working` stands for every status people use.
Triage == {"new", "awaiting_requester"}
Statuses == Triage \union {"pending_review", "blocked", "escalated", "auto_replied",
                           "auto_routed", "reopened", "working"}
NotHeld == Decision("none", "none", NoQueue, FALSE)

\* Masking makes of two texts the worse of their levels (PIILevel.worse).
Severity == <<"routine", "sensitive", "mask_failed", "critical">>
SeverityOf(level) == CHOOSE i \in DOMAIN Severity : Severity[i] = level
Worse(level, other) == IF SeverityOf(other) > SeverityOf(level) THEN other ELSE level

LatestDecision_First ==
  decisions[CHOOSE i \in DOMAIN decisions :
              \A j \in DOMAIN decisions : decisions[i].stamp <= decisions[j].stamp]

\* The row decided_at puts last: decisions are stamped before the ticket's lock is asked
\* for, so it need not be the one committed last.
LatestDecision ==
  decisions[CHOOSE i \in DOMAIN decisions :
              \A j \in DOMAIN decisions : decisions[j].stamp <= decisions[i].stamp]

\* Ticket.open_clarification: the latest question, while it can be answered.
OpenQuestion ==
  /\ ticket.status = "awaiting_requester" /\ ticket.held # NotHeld
  /\ questions # << >>
  /\ questions[Len(questions)] = "open"

---------------------------------------------------------------------------
(* Carrying out a decision *)

\* _execute_or_enqueue: where the ticket goes.
Handed(d, shadow) ==
  CASE d.branch = "block" -> "blocked"
    [] d.branch = "escalate" -> "escalated"
    [] d.branch = "auto_reply" /\ ~shadow -> "auto_replied"
    [] d.branch = "auto_route" /\ ~shadow -> "auto_routed"
    [] OTHER -> "pending_review"

\* The queue its review item goes to, if a person is to look at it.
QueueOf(d, shadow) ==
  CASE d.branch = "block" -> IF d.reason = "injection_detected" THEN "injection" ELSE "pii_verify"
    [] d.branch = "hitl" -> IF d.queue = NoQueue THEN "low_confidence" ELSE d.queue
    [] d.branch = "clarify" -> "clarification"
    [] OTHER -> "low_confidence"

NeedsPerson_Blind(d, shadow, taken) == d.branch \notin {"auto_reply", "auto_route"} /\ ~taken

NeedsPerson(d, shadow, taken) ==
  ~(d.branch \in {"auto_reply", "auto_route"} /\ ~shadow) /\ ~taken

\* A live mass incident takes the ticket in when it is confirmed (incidents.attach).
Takes(d, shadow) ==
  IF d.branch = "escalate" /\ d.reason = "mass_incident" /\ ~shadow THEN BOOLEAN ELSE {FALSE}

\* On the row as it is once `held` is written.
Execute(held, d, run, shadow) ==
  \E taken \in Takes(d, shadow) :
    /\ ticket' = [ticket EXCEPT !.held = held, !.status = Handed(d, shadow)]
    /\ items' = IF NeedsPerson(d, shadow, taken)
                THEN Append(items, [queue |-> QueueOf(d, shadow), run |-> run]) ELSE items
    /\ attached' = (attached \/ taken)

\* _hold_for_requester
Hold(d) ==
  /\ ticket' = [ticket EXCEPT !.held = d, !.status = "awaiting_requester"]
  /\ UNCHANGED <<items, attached>>

---------------------------------------------------------------------------
(* The task: ticket_process *)

Idle == [pc |-> "idle", pii |-> "routine", attempt |-> 0, asked |-> 0, decision |-> NotHeld,
         stamp |-> 0]

Do(w, pc) == [workers EXCEPT ![w].pc = pc]

\* It reads the ticket and numbers its attempt: every delivery is a new one.
Receive(w) ==
  /\ workers[w].pc = "idle" /\ messages > 0
  /\ messages' = messages - 1
  /\ workers' = [workers EXCEPT ![w] = [Idle EXCEPT !.pc = "embed", !.pii = ticket.pii,
                                                    !.attempt = Len(aiRuns) + 1]]
  /\ UNCHANGED <<ticket, rows, clock, spent>>

\* _persist_ai_run: an attempt that another worker has recorded keeps the other's row, and
\* goes on with its own decision.
Persist(w, proposal, decision) ==
  /\ aiRuns' = IF workers[w].attempt > Len(aiRuns) THEN Append(aiRuns, proposal) ELSE aiRuns
  /\ workers' = [workers EXCEPT ![w].pc = "stamp", ![w].decision = decision]

\* A part of the machinery is down, or the day's money is spent: a person, without the router.
Degraded(reason) == Doubt(reason)

\* An open incident the ticket belongs to: the router, with signals that say nothing else.
MassSignals == [injection |-> FALSE, pii |-> "routine", mass |-> TRUE, grounded |-> FALSE,
                proposal |-> "none", category |-> "none", security |-> FALSE,
                options |-> FALSE, asked |-> 0, passed |-> {}, trust |-> Below]

Embed_Raises(w) ==
  /\ workers[w].pc = "embed"
  /\ \/ workers' = [workers EXCEPT ![w] = Idle] /\ UNCHANGED aiRuns
     \/ Persist(w, "none", Route(MassSignals))
     \/ /\ workers' = [workers EXCEPT ![w].pc = "analyse", ![w].asked = Len(questions)]
        /\ UNCHANGED aiRuns
  /\ UNCHANGED <<ticket, decisions, questions, items, attached, alerts, messages, clock, spent>>

\* The embedding, the incidents and the budget: each may end the analysis before ai-engine.
Embed(w) ==
  /\ workers[w].pc = "embed"
  /\ \/ \E reason \in {"embedding_unavailable", "budget_exceeded"} :
          Persist(w, "none", Degraded(reason))
     \/ Persist(w, "none", Route(MassSignals))
     \/ /\ workers' = [workers EXCEPT ![w].pc = "analyse", ![w].asked = Len(questions)]
        /\ UNCHANGED aiRuns
  /\ UNCHANGED <<ticket, decisions, questions, items, attached, alerts, messages, clock, spent>>

\* trust_signals: ai-engine's findings under the policy core-api knows itself.
Policed(signals, w) == [signals EXCEPT !.pii = workers[w].pii, !.asked = workers[w].asked]

\* ai-engine answers, or fails.
Analyse(w) ==
  /\ workers[w].pc = "analyse"
  /\ \/ \E reason \in {"ai_engine_unavailable", "all_llm_down"} :
          Persist(w, "none", Degraded(reason))
     \/ \E signals \in Analyses : Persist(w, signals.proposal, Route(Policed(signals, w)))
  /\ UNCHANGED <<ticket, decisions, questions, items, attached, alerts, messages, clock, spent>>

\* The decision's row is stamped before it waits for the ticket's lock.
Stamp(w) ==
  /\ workers[w].pc = "stamp"
  /\ workers' = [workers EXCEPT ![w].pc = "finalize", ![w].stamp = clock]
  /\ clock' = clock + 1
  /\ UNCHANGED <<ticket, rows, messages, spent>>

NeverHeld == {"pii_mask_failed", "clarify_security"}
NeverHeldPII == {"mask_failed", "critical"}

\* waits_for_requester, on the level the task read when it began.
Waits_AnyLevel(d, shadow, pii) ==
  /\ ~shadow
  /\ ~d.alert /\ d.reason \notin NeverHeld
  /\ d.branch \in {"hitl", "clarify", "auto_route"}

Waits(d, shadow, pii) ==
  /\ ~shadow
  /\ ~d.alert /\ d.reason \notin NeverHeld
  /\ pii \notin NeverHeldPII
  /\ d.branch \in {"hitl", "clarify", "auto_route"}

\* _finalize, under whatever rollout flags an administrator has set by then.  `live` is
\* whether the branch's own flag is on, `asking` whether questions are.
Finalize(w, live, asking) ==
  LET d == workers[w].decision
      shadow == ShadowMode \/ (d.branch \in {"auto_route", "auto_reply"} /\ ~live)
      waits == ticket.source = "chat" /\ Waits(d, ShadowMode \/ ~asking, workers[w].pii)
  IN /\ workers[w].pc = "finalize"
     /\ decisions' = Append(decisions, [run |-> workers[w].attempt, decision |-> d,
                                        shadow |-> shadow, stamp |-> workers[w].stamp])
     /\ alerts' = IF d.alert THEN alerts + 1 ELSE alerts
     /\ \/ /\ waits /\ d.branch = "clarify"
           /\ questions' = Append(questions, "open")
           /\ Hold(d)
        \/ waits /\ d.branch # "clarify" /\ Hold(d) /\ UNCHANGED questions
        \* Not to wait, or a question with fewer than two pages to offer.
        \/ /\ ~waits \/ d.branch = "clarify"
           /\ Execute(ticket.held, d, workers[w].attempt, shadow)
           /\ UNCHANGED questions
     /\ workers' = Do(w, "acknowledge")
     /\ UNCHANGED <<aiRuns, messages, clock, spent>>

\* The task ends and its message is acknowledged.
Acknowledge(w) ==
  /\ workers[w].pc = "acknowledge"
  /\ workers' = [workers EXCEPT ![w] = Idle]
  /\ UNCHANGED <<ticket, rows, messages, clock, spent>>

---------------------------------------------------------------------------
(* The requester, people and time *)

\* release_to_support: what was held is carried out, as the latest decision's row says.
Release ==
  /\ ticket.status = "awaiting_requester" /\ ticket.held # NotHeld
  /\ decisions # << >>
  /\ Execute(NotHeld, ticket.held, LatestDecision.run, LatestDecision.shadow)
  /\ UNCHANGED <<aiRuns, decisions, questions, alerts, messages, workers, clock, spent>>

Answer_Unmarked(level) ==
  /\ OpenQuestion
  /\ ticket' = [ticket EXCEPT !.status = "new", !.held = NotHeld, !.pii = Worse(@, level)]
  /\ messages' = messages + 1
  /\ UNCHANGED <<questions, aiRuns, decisions, items, attached, alerts, workers, clock, spent>>

\* Clarifications.answer: the ticket, worse masked perhaps, is analysed again.  Its message
\* is sent once that has committed.
Answer(level) ==
  /\ OpenQuestion
  /\ questions' = [questions EXCEPT ![Len(questions)] = "answered"]
  /\ ticket' = [ticket EXCEPT !.status = "new", !.held = NotHeld, !.pii = Worse(@, level)]
  /\ messages' = messages + 1
  /\ UNCHANGED <<aiRuns, decisions, items, attached, alerts, workers, clock, spent>>

\* clarification.wait_minutes pass.
Expire ==
  /\ questions # << >> /\ questions[Len(questions)] = "open"
  /\ questions' = [questions EXCEPT ![Len(questions)] = "expired"]
  /\ UNCHANGED <<ticket, aiRuns, decisions, items, attached, alerts, messages, workers, clock,
                 spent>>

\* People move the ticket on: never out of triage (Lifecycle!Resolves).
TakeUp ==
  /\ ticket.status \notin Triage \union {"working"}
  /\ ticket' = [ticket EXCEPT !.status = "working"]
  /\ UNCHANGED <<rows, messages, workers, clock, spent>>

\* The requester is not content with an answer, or with what support did.
Reopen ==
  /\ ticket.status \in {"auto_replied", "working"}
  /\ ticket' = [ticket EXCEPT !.status = "reopened"]
  /\ UNCHANGED <<rows, messages, workers, clock, spent>>

\* A worker dies; its message is delivered again (task_reject_on_worker_lost).
Crash(w) ==
  /\ workers[w].pc # "idle" /\ spent.crashes < MaxCrashes
  /\ workers' = [workers EXCEPT ![w] = Idle]
  /\ messages' = messages + 1
  /\ spent' = [spent EXCEPT !.crashes = @ + 1]
  /\ UNCHANGED <<ticket, rows, clock>>

\* The process that was to send a message dies after its commit, or the broker refuses it.
Lose ==
  /\ messages > 0 /\ spent.losses < MaxLosses
  /\ messages' = messages - 1
  /\ spent' = [spent EXCEPT !.losses = @ + 1]
  /\ UNCHANGED <<ticket, rows, workers, clock>>

---------------------------------------------------------------------------
(* The specification *)

\* TicketManager.submit has committed and sent the first message.
Init ==
  /\ ticket \in [status : {"new"}, held : {NotHeld}, pii : FirstLevels, source : Sources]
  /\ aiRuns = << >> /\ decisions = << >> /\ questions = << >> /\ items = << >>
  /\ attached = FALSE /\ alerts = 0
  /\ messages = 1
  /\ workers = [w \in Workers |-> Idle]
  /\ clock = 1
  /\ spent = [crashes |-> 0, losses |-> 0]

Work(w) ==
  \/ Embed(w) \/ Analyse(w) \/ Stamp(w)
  \/ \E live, asking \in BOOLEAN : Finalize(w, live, asking)
  \/ Acknowledge(w)

Requester == Release \/ (\E level \in AnswerLevels : Answer(level)) \/ Reopen

Next ==
  \/ \E w \in Workers : Receive(w) \/ Work(w) \/ Crash(w)
  \/ Requester \/ Expire \/ TakeUp
  \/ Lose

Spec == Init /\ [][Next]_vars

\* Workers keep working and taking messages; nothing is asked of the requester or of people.
FairSpec == Spec /\ \A w \in Workers : WF_vars(Receive(w)) /\ WF_vars(Work(w))

---------------------------------------------------------------------------
(* Properties *)

DecisionRow == [run : Nat, decision : Decisions, shadow : BOOLEAN, stamp : Nat]
Item == [queue : Queues, run : Nat]
Worker == [pc : {"idle", "embed", "analyse", "stamp", "finalize", "acknowledge"},
           pii : PIILevels, attempt : Nat, asked : Nat, decision : Decisions, stamp : Nat]

\* The rows have their types, and every decision and review item names a run that exists.
TypeOK ==
  /\ ticket \in [status : Statuses, held : Decisions, pii : PIILevels, source : Sources]
  /\ aiRuns \in Seq(Proposals)
  /\ decisions \in Seq(DecisionRow)
  /\ \A i \in DOMAIN decisions : decisions[i].run \in DOMAIN aiRuns
  /\ questions \in Seq({"open", "answered", "expired"})
  /\ items \in Seq(Item)
  /\ \A i \in DOMAIN items : items[i].run \in DOMAIN aiRuns
  /\ attached \in BOOLEAN /\ alerts \in Nat /\ messages \in Nat /\ clock \in Nat
  /\ workers \in [Workers -> Worker]
  /\ spent \in [crashes : 0..MaxCrashes, losses : 0..MaxLosses]

\* No worker has died, so no message was delivered again.
Undisturbed == spent.crashes = 0

\* "a worker dying mid-task cannot send a double auto-reply": a submission and each answer
\* to a question is decided once.
Answered == {i \in DOMAIN questions : questions[i] = "answered"}
DecidedOnce == Len(decisions) <= 1 + Cardinality(Answered)

\* "One question per ticket, then a person" (ADR-0023), though the questions are counted
\* long before one is asked and deliveries repeat.
AskedOnce == Len(questions) <= MaxRounds

\* A submission and each answer to a question is decided once while no worker dies, and asks
\* no more questions than the policy allows (with the one round it allows by default, when
\* one dies too).
OneDecisionPerRequest ==
  /\ Undisturbed => DecidedOnce
  /\ Undisturbed \/ MaxRounds = 1 => AskedOnce

\* What is held for the requester is the decision on record ("what was decided and what was
\* done cannot drift apart", Ticket.held_decision), through questions, answers and expiry;
\* and "the requester closing the tab must not be able to keep those from support": a ticket
\* whose masking failed, or that holds a secret, never waits, whatever an answer adds to it.
HeldAsDecided ==
  ticket.status = "awaiting_requester" /\ Undisturbed =>
    /\ ticket.held # NotHeld
    /\ decisions # << >> /\ ticket.held = LatestDecision.decision
    /\ ticket.pii \notin NeverHeldPII

\* Nothing is done without a person but what was decided.  "The auto-reply the router allowed:
\* the proposal of the run its decision was made on": the answer the chat shows
\* (turns._answer, by the latest decision's run) is one the router let through.  Release
\* carries a decision out "with the shadow mode that decision was recorded under": a ticket
\* is routed only by a decision made while routing was on.
AutomationIsAuthorised ==
  /\ ticket.status = "auto_replied" /\ Undisturbed =>
       /\ LatestDecision.decision.branch = "auto_reply" /\ ~LatestDecision.shadow
       /\ aiRuns[LatestDecision.run] = "auto_reply"
  /\ ticket.status = "auto_routed" /\ Undisturbed =>
       \E i \in DOMAIN decisions :
         decisions[i].decision.branch = "auto_route" /\ ~decisions[i].shadow

\* Nobody else finds a ticket that has left `new`: either its requester is asked about a
\* decision that can still be carried out, or a person has an item to find it by, or an
\* incident, an answer or a team has it.
Decided(branch) == \E i \in DOMAIN decisions : decisions[i].decision.branch = branch

NothingIsDropped ==
  CASE ticket.status = "awaiting_requester" -> ticket.held # NotHeld /\ decisions # << >>
    [] ticket.status \in {"pending_review", "blocked"} -> items # << >>
    [] ticket.status = "escalated" -> items # << >> \/ attached
    [] ticket.status = "auto_replied" -> Decided("auto_reply")
    [] ticket.status = "auto_routed" -> Decided("auto_route")
    [] OTHER -> TRUE

\* A new ticket is always in somebody's hands, unless its message was lost: then nothing
\* ever looks for it.
Busy(w) == workers[w].pc \in {"embed", "analyse", "stamp", "finalize"}
NewTicketsAreInHand ==
  ticket.status = "new" => messages > 0 \/ (\E w \in Workers : Busy(w)) \/ spent.losses > 0

\* Whatever fails and whoever dies, every ticket can be found by somebody.
EveryTicketIsInHand == NothingIsDropped /\ NewTicketsAreInHand

\* A ticket is not left at `new` unless its message was lost: deliveries repeat until one is
\* decided.
EveryTicketIsDecided ==
  (ticket.status = "new") ~> (ticket.status # "new" \/ spent.losses > 0)

\* "Injection detection and critical-PII detection are hard gates": a ticket that holds a
\* secret is blocked and security told, whatever part of the machinery is down.
CriticalIsBlocked ==
  ticket.pii = "critical" /\ decisions # << >> /\ ticket.status # "new" => alerts > 0
=============================================================================
