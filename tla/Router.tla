------------------------------- MODULE Router -------------------------------
(***************************************************************************)
(* The switch router (apps/tickets/utils/router.py): the only code that    *)
(* decides what becomes of a ticket (ADR-0001).  It is a pure function of  *)
(* the ticket's signals and of the language model's proposal: a row of     *)
(* gates, whose order has meaning, and the decision of the first one that  *)
(* fires.                                                                  *)
(*                                                                         *)
(* A score is abstracted to what its thresholds tell apart: `grounded` is  *)
(* rerank_total >= retrieval_floor with a passage chosen, `category` a     *)
(* category chosen with or without the confidence to act on it, `trust`    *)
(* the thresholds the trust score reaches.                                 *)
(***************************************************************************)
EXTENDS Integers, Sequences, FiniteSets, FiniteSetsExt

CONSTANTS MaxRounds  \* thresholds clarification.max_rounds

ASSUME MaxRoundsAssumption == MaxRounds \in Nat

PIILevels == {"routine", "sensitive", "mask_failed", "critical"}
Proposals == {"none", "insufficient", "clarify", "auto_reply", "runbook", "route"}

\* The checks of an auto-reply, each ai-engine's or the knowledge base's word.
Checks == {"kb_authorized", "quote_source", "quote_match", "negation", "rerank_agrees",
           "rerank_sure"}

Below == 0    \* below t_route
ForRoute == 1 \* t_route reached
ForAuto == 2  \* t_auto reached
TrustLevels == {Below, ForRoute, ForAuto}

Signals == [injection : BOOLEAN, pii : PIILevels, mass : BOOLEAN, grounded : BOOLEAN,
            proposal : Proposals, category : {"none", "unsure", "sure"}, security : BOOLEAN,
            options : BOOLEAN, asked : Nat, passed : SUBSET Checks, trust : TrustLevels]

---------------------------------------------------------------------------
(* Decisions *)

NoQueue == "none"
Branches == {"block", "escalate", "hitl", "clarify", "auto_reply", "auto_route"}
Queues == {"pii_verify", "low_confidence", "injection", "mask_failed", "runbook_approval",
           "clarification"}
Reasons == {"injection_detected", "pii_critical", "pii_mask_failed", "schema_invalid",
            "mass_incident", "retrieval_below_floor", "kb_not_authorized", "quote_invalid",
            "quote_source_not_in_topk", "negation_mismatch", "rerank_disagrees",
            "rerank_low_confidence", "trust_below_auto_threshold", "trust_below_route_threshold",
            "category_low_confidence", "clarify_security", "clarify_options_not_shown",
            "clarify_round_cap", "ai_engine_unavailable", "embedding_unavailable",
            "budget_exceeded", "all_llm_down", "all_checks_passed"}
Decisions == [branch : Branches \union {"none"}, reason : Reasons \union {"none"},
              queue : Queues \union {NoQueue}, alert : BOOLEAN]

Decision(branch, reason, queue, alert) ==
  [branch |-> branch, reason |-> reason, queue |-> queue, alert |-> alert]

Block(reason) == Decision("block", reason, NoQueue, TRUE)
Escalate(reason) == Decision("escalate", reason, NoQueue, FALSE)
Hitl(reason, queue) == Decision("hitl", reason, queue, FALSE)
Doubt(reason) == Hitl(reason, "low_confidence")
Automated(branch, queue) == Decision(branch, "all_checks_passed", queue, FALSE)

---------------------------------------------------------------------------
(* The gates *)

Gate(fires, decision) == [fires |-> fires, decision |-> decision]
Failing(s, check, reason) == Gate(check \notin s.passed, Doubt(reason))

\* What no proposal can get past.
HardGates(s) ==
  << Gate(s.injection, Block("injection_detected")),
     Gate(s.pii = "critical", Block("pii_critical")),
     Gate(s.mass, Escalate("mass_incident")),
     Gate(s.pii = "mask_failed", Hitl("pii_mask_failed", "mask_failed")),
     Gate(~s.grounded, Doubt("retrieval_below_floor")),
     Gate(s.proposal = "none", Doubt("schema_invalid")),
     Gate(s.proposal = "insufficient", Doubt("retrieval_below_floor")) >>

\* A question grants nothing, so trust is not asked; a security matter never waits for it.
ClarifyGates(s) ==
  << Gate(s.security, Doubt("clarify_security")),
     Gate(s.category # "sure", Doubt("category_low_confidence")),
     Gate(~s.options, Doubt("clarify_options_not_shown")),
     Gate(s.asked >= MaxRounds, Hitl("clarify_round_cap", "clarification")),
     Gate(TRUE, Automated("clarify", "clarification")) >>

AutoReplyGates_TrustForRoute(s) ==
  << Failing(s, "kb_authorized", "kb_not_authorized"),
     Failing(s, "quote_source", "quote_source_not_in_topk"),
     Failing(s, "quote_match", "quote_invalid"),
     Failing(s, "negation", "negation_mismatch"),
     Failing(s, "rerank_agrees", "rerank_disagrees"),
     Failing(s, "rerank_sure", "rerank_low_confidence"),
     Gate(s.trust < ForRoute, Doubt("trust_below_auto_threshold")),
     Gate(TRUE, Automated("auto_reply", NoQueue)) >>

\* Authority first: it is the knowledge base's, never the model's (ADR-0002).
AutoReplyGates(s) ==
  << Failing(s, "kb_authorized", "kb_not_authorized"),
     Failing(s, "quote_source", "quote_source_not_in_topk"),
     Failing(s, "quote_match", "quote_invalid"),
     Failing(s, "negation", "negation_mismatch"),
     Failing(s, "rerank_agrees", "rerank_disagrees"),
     Failing(s, "rerank_sure", "rerank_low_confidence"),
     Gate(s.trust < ForAuto, Doubt("trust_below_auto_threshold")),
     Gate(TRUE, Automated("auto_reply", NoQueue)) >>

RouteGates_Flipped(s) ==
  << Gate(s.category # "sure", Doubt("category_low_confidence")),
     Gate(s.trust >= ForRoute, Doubt("trust_below_route_threshold")),
     Gate(TRUE, Automated("auto_route", NoQueue)) >>

RouteGates(s) ==
  << Gate(s.category # "sure", Doubt("category_low_confidence")),
     Gate(s.trust < ForRoute, Doubt("trust_below_route_threshold")),
     Gate(TRUE, Automated("auto_route", NoQueue)) >>

\* A runbook writes to a real system: always a person, at any trust (ADR-0006).
RunbookGates == << Gate(TRUE, Hitl("all_checks_passed", "runbook_approval")) >>

\* Nothing falls through: the last gate always fires.
Gates(s) ==
  HardGates(s)
    \o (CASE s.proposal = "clarify" -> ClarifyGates(s)
          [] s.proposal = "auto_reply" -> AutoReplyGates(s)
          [] s.proposal = "runbook" -> RunbookGates
          [] s.proposal = "route" -> RouteGates(s)
          [] OTHER -> << >>)
    \o << Gate(TRUE, Doubt("schema_invalid")) >>

\* Router.route
Route(s) ==
  LET gates == Gates(s)
  IN gates[Min({i \in DOMAIN gates : gates[i].fires})].decision

---------------------------------------------------------------------------
(* Properties *)

\* Nothing about the ticket itself stands in the way of what was proposed for it.
Unharmed(s) == ~s.injection /\ s.pii \in {"routine", "sensitive"} /\ ~s.mass /\ s.grounded

\* What the ADRs ask of each branch, as one condition instead of a row of gates: a reply, a
\* route and a question have each earned exactly that, and nothing else happens without a
\* person; an attack or a leaked secret is blocked and security told, in the middle of an
\* outage too; then an outage is escalated, though the ticket's masking failed.
BranchIsEarned(s) ==
  /\ Route(s).branch = "auto_reply" <=>
       /\ Unharmed(s) /\ s.proposal = "auto_reply" /\ s.passed = Checks /\ s.trust = ForAuto
  /\ Route(s).branch = "auto_route" <=>
       /\ Unharmed(s) /\ s.proposal = "route" /\ s.category = "sure" /\ s.trust # Below
  /\ Route(s).branch = "clarify" <=>
       /\ Unharmed(s) /\ s.proposal = "clarify" /\ s.category = "sure" /\ ~s.security
       /\ s.options /\ s.asked < MaxRounds
  /\ Route(s).alert <=> s.injection \/ s.pii = "critical"
  /\ Route(s).branch = "block" <=> Route(s).alert
  /\ Route(s).branch = "escalate" <=> s.mass /\ ~Route(s).alert

\* How much is done without a person.
Rank(branch) ==
  CASE branch = "block" -> 0
    [] branch \in {"hitl", "escalate"} -> 1
    [] branch = "clarify" -> 2
    [] branch \in {"auto_reply", "auto_route"} -> 3
=============================================================================
