------------------------ MODULE TicketPipelineProofs ------------------------
(***************************************************************************)
(* Proofs about Router, for every combination of signals and every cap on  *)
(* the questions, and about TicketPipeline, for any number of workers, of  *)
(* crashes and of losses, and whatever ai-engine finds.                    *)
(*                                                                         *)
(* TypeInv adds to TypeOK that a worker's attempt is recorded once it has  *)
(* decided, and is the next one until then.                                *)
(***************************************************************************)
EXTENDS TicketPipeline, RouterSignals, FiniteSetTheorems, SequenceTheorems, WellFoundedInduction, TLAPS

-----------------------------------------------------------------------------
(* What the router decides, for every combination of signals and every cap *)

LEMMA LeastNatural ==
  ASSUME NEW T \in SUBSET Nat, T # {}
  PROVE  \E x \in T : \A y \in T : x <= y
<1> DEFINE Less == OpToRel(<, Nat)
<1>1. IsWellFoundedOn(Less, Nat)
  BY NatLessThanWellFounded
<1>2. \A x, y \in Nat : <<y, x>> \in Less <=> y < x
  BY DEF OpToRel
<1> HIDE DEF Less
<1>3. PICK x \in T : \A y \in T : ~(<<y, x>> \in Less)
  BY <1>1, WFMin
<1>4. \A y \in T : ~(y < x)
  BY <1>2, <1>3, Zenon
<1>5. x \in Nat /\ \A y \in T : y \in Nat
  OBVIOUS
<1> QED
  BY <1>4, <1>5

GateRow == [fires : BOOLEAN, decision : Decisions]

\* A gate is a gate, whatever its condition.
LEMMA GateType ==
  ASSUME NEW f \in BOOLEAN, NEW d \in Decisions
  PROVE  Gate(f, d) \in GateRow /\ Gate(f, d).fires = f /\ Gate(f, d).decision = d
BY DEF Gate, GateRow

LEMMA DecisionType ==
  ASSUME NEW branch \in Branches, NEW reason \in Reasons, NEW queue \in Queues \union {NoQueue},
         NEW alert \in BOOLEAN
  PROVE  /\ Decision(branch, reason, queue, alert) \in Decisions
         /\ Decision(branch, reason, queue, alert).branch = branch
BY DEF Decision, Decisions

\* Every way to decide makes a decision, of the branch it stands for.
LEMMA DecisionTypes ==
  ASSUME NEW reason \in Reasons, NEW queue \in Queues \union {NoQueue}
  PROVE  /\ Block(reason) \in Decisions /\ Block(reason).branch = "block"
         /\ Escalate(reason) \in Decisions /\ Escalate(reason).branch = "escalate"
         /\ Hitl(reason, queue) \in Decisions /\ Hitl(reason, queue).branch = "hitl"
         /\ Doubt(reason) \in Decisions /\ Doubt(reason).branch = "hitl"
         /\ \A branch \in Branches : /\ Automated(branch, queue) \in Decisions
                                     /\ Automated(branch, queue).branch = branch
<1>1. {"block", "escalate", "hitl"} \subseteq Branches
  BY DEF Branches
<1>2. "low_confidence" \in Queues /\ "all_checks_passed" \in Reasons
  BY DEF Queues, Reasons
<1> QED
  BY <1>1, <1>2, DecisionType DEF Block, Escalate, Hitl, Doubt, Automated

\* Gates whose decision leaves the ticket to a person, and gates that do not.
LEMMA DoubtGate ==
  ASSUME NEW f \in BOOLEAN, NEW reason \in Reasons
  PROVE  /\ Gate(f, Doubt(reason)) \in GateRow /\ Gate(f, Doubt(reason)).fires = f
         /\ Gate(f, Doubt(reason)).decision.branch = "hitl"
BY GateType, DecisionTypes

LEMMA HitlGate ==
  ASSUME NEW f \in BOOLEAN, NEW reason \in Reasons, NEW queue \in Queues
  PROVE  /\ Gate(f, Hitl(reason, queue)) \in GateRow /\ Gate(f, Hitl(reason, queue)).fires = f
         /\ Gate(f, Hitl(reason, queue)).decision.branch = "hitl"
BY GateType, DecisionTypes

LEMMA AutomatedGate ==
  ASSUME NEW f \in BOOLEAN, NEW branch \in Branches, NEW queue \in Queues \union {NoQueue}
  PROVE  /\ Gate(f, Automated(branch, queue)) \in GateRow
         /\ Gate(f, Automated(branch, queue)).fires = f
         /\ Gate(f, Automated(branch, queue)).decision.branch = branch
<1>1. "all_checks_passed" \in Reasons
  BY DEF Reasons
<1> QED
  BY <1>1, GateType, DecisionTypes

LEMMA GraveGate ==
  ASSUME NEW f \in BOOLEAN, NEW reason \in Reasons
  PROVE  /\ Gate(f, Block(reason)) \in GateRow /\ Gate(f, Escalate(reason)) \in GateRow
         /\ Gate(f, Block(reason)).fires = f /\ Gate(f, Escalate(reason)).fires = f
         /\ Gate(f, Block(reason)).decision.branch = "block"
         /\ Gate(f, Escalate(reason)).decision.branch = "escalate"
BY GateType, DecisionTypes

\* The hard gates, none of which automates anything.
LEMMA HardGatesType ==
  ASSUME NEW s \in Signals
  PROVE  /\ HardGates(s) \in Seq(GateRow) /\ Len(HardGates(s)) = 7
         /\ \A i \in 1..7 : HardGates(s)[i].decision.branch \in {"block", "escalate", "hitl"}
<1> DEFINE f1 == s.injection
           f2 == s.pii = "critical"
           f3 == s.mass
           f4 == s.pii = "mask_failed"
           f5 == ~s.grounded
           f6 == s.proposal = "none"
           f7 == s.proposal = "insufficient"
           g1 == Gate(f1, Block("injection_detected"))
           g2 == Gate(f2, Block("pii_critical"))
           g3 == Gate(f3, Escalate("mass_incident"))
           g4 == Gate(f4, Hitl("pii_mask_failed", "mask_failed"))
           g5 == Gate(f5, Doubt("retrieval_below_floor"))
           g6 == Gate(f6, Doubt("schema_invalid"))
           g7 == Gate(f7, Doubt("retrieval_below_floor"))
<1>1. HardGates(s) = <<g1, g2, g3, g4, g5, g6, g7>>
  BY DEF HardGates
<1>2. /\ f1 \in BOOLEAN /\ f2 \in BOOLEAN /\ f3 \in BOOLEAN /\ f4 \in BOOLEAN
      /\ f5 \in BOOLEAN /\ f6 \in BOOLEAN /\ f7 \in BOOLEAN
  BY DEF Signals
<1> HIDE DEF f1, f2, f3, f4, f5, f6, f7
<1>3. /\ g1 \in GateRow /\ g1.decision.branch = "block" /\ g1.fires = f1
      /\ g2 \in GateRow /\ g2.decision.branch = "block" /\ g2.fires = f2
      /\ g3 \in GateRow /\ g3.decision.branch = "escalate" /\ g3.fires = f3
      /\ g4 \in GateRow /\ g4.decision.branch = "hitl" /\ g4.fires = f4
      /\ g5 \in GateRow /\ g5.decision.branch = "hitl" /\ g5.fires = f5
      /\ g6 \in GateRow /\ g6.decision.branch = "hitl" /\ g6.fires = f6
      /\ g7 \in GateRow /\ g7.decision.branch = "hitl" /\ g7.fires = f7
  <2>1. {"injection_detected", "mass_incident", "pii_critical", "pii_mask_failed",
         "retrieval_below_floor", "schema_invalid"} \subseteq Reasons
    BY DEF Reasons
  <2>2. /\ {"clarification", "mask_failed", "runbook_approval"} \subseteq Queues
        /\ {"clarify", "auto_reply", "auto_route"} \subseteq Branches
    BY DEF Queues, Branches
  <2> QED
    BY <1>2, <2>1, <2>2, GraveGate, HitlGate, DoubtGate
<1> HIDE DEF g1, g2, g3, g4, g5, g6, g7
<1> QED
  BY <1>1, <1>3

\* The gates of a question: the last asks it, and the one before says whether it may be asked.
LEMMA ClarifyGatesType ==
  ASSUME NEW s \in Signals
  PROVE  /\ ClarifyGates(s) \in Seq(GateRow) /\ Len(ClarifyGates(s)) = 5
         /\ \A i \in 1..4 : ClarifyGates(s)[i].decision.branch = "hitl"
         /\ s.asked >= MaxRounds => ClarifyGates(s)[4].fires
<1> DEFINE f1 == s.security
           f2 == s.category # "sure"
           f3 == ~s.options
           f4 == s.asked >= MaxRounds
           f5 == TRUE
           g1 == Gate(f1, Doubt("clarify_security"))
           g2 == Gate(f2, Doubt("category_low_confidence"))
           g3 == Gate(f3, Doubt("clarify_options_not_shown"))
           g4 == Gate(f4, Hitl("clarify_round_cap", "clarification"))
           g5 == Gate(f5, Automated("clarify", "clarification"))
<1>1. ClarifyGates(s) = <<g1, g2, g3, g4, g5>>
  BY DEF ClarifyGates
<1>2. f1 \in BOOLEAN /\ f2 \in BOOLEAN /\ f3 \in BOOLEAN /\ f4 \in BOOLEAN /\ f5 \in BOOLEAN
  BY DEF Signals
<1>4. s.asked >= MaxRounds => f4 = TRUE
  OBVIOUS
<1> HIDE DEF f1, f2, f3, f4, f5
<1>3. /\ g1 \in GateRow /\ g1.decision.branch = "hitl" /\ g1.fires = f1
      /\ g2 \in GateRow /\ g2.decision.branch = "hitl" /\ g2.fires = f2
      /\ g3 \in GateRow /\ g3.decision.branch = "hitl" /\ g3.fires = f3
      /\ g4 \in GateRow /\ g4.decision.branch = "hitl" /\ g4.fires = f4
      /\ g5 \in GateRow /\ g5.decision.branch = "clarify" /\ g5.fires = f5
  <2>1. {"category_low_confidence", "clarify_options_not_shown", "clarify_round_cap",
         "clarify_security"} \subseteq Reasons
    BY DEF Reasons
  <2>2. /\ {"clarification", "mask_failed", "runbook_approval"} \subseteq Queues
        /\ {"clarify", "auto_reply", "auto_route"} \subseteq Branches
    BY DEF Queues, Branches
  <2> QED
    BY <1>2, <2>1, <2>2, DoubtGate, HitlGate, AutomatedGate
<1> HIDE DEF g1, g2, g3, g4, g5
<1> QED
  BY <1>1, <1>3, <1>4

\* The gates of a reply.
LEMMA AutoReplyGatesType ==
  ASSUME NEW s \in Signals
  PROVE  /\ AutoReplyGates(s) \in Seq(GateRow)
         /\ \A i \in DOMAIN AutoReplyGates(s) :
              AutoReplyGates(s)[i].decision.branch \in {"hitl", "auto_reply"}
<1> DEFINE f1 == "kb_authorized" \notin s.passed
           f2 == "quote_source" \notin s.passed
           f3 == "quote_match" \notin s.passed
           f4 == "negation" \notin s.passed
           f5 == "rerank_agrees" \notin s.passed
           f6 == "rerank_sure" \notin s.passed
           f7 == s.trust < ForAuto
           f8 == TRUE
           g1 == Gate(f1, Doubt("kb_not_authorized"))
           g2 == Gate(f2, Doubt("quote_source_not_in_topk"))
           g3 == Gate(f3, Doubt("quote_invalid"))
           g4 == Gate(f4, Doubt("negation_mismatch"))
           g5 == Gate(f5, Doubt("rerank_disagrees"))
           g6 == Gate(f6, Doubt("rerank_low_confidence"))
           g7 == Gate(f7, Doubt("trust_below_auto_threshold"))
           g8 == Gate(f8, Automated("auto_reply", NoQueue))
<1>1. AutoReplyGates(s) = <<g1, g2, g3, g4, g5, g6, g7, g8>>
  BY DEF AutoReplyGates, Failing
<1>2. /\ f1 \in BOOLEAN /\ f2 \in BOOLEAN /\ f3 \in BOOLEAN /\ f4 \in BOOLEAN
      /\ f5 \in BOOLEAN /\ f6 \in BOOLEAN /\ f7 \in BOOLEAN /\ f8 \in BOOLEAN
  BY DEF Signals
<1> HIDE DEF f1, f2, f3, f4, f5, f6, f7, f8
<1>3. /\ g1 \in GateRow /\ g1.decision.branch = "hitl" /\ g1.fires = f1
      /\ g2 \in GateRow /\ g2.decision.branch = "hitl" /\ g2.fires = f2
      /\ g3 \in GateRow /\ g3.decision.branch = "hitl" /\ g3.fires = f3
      /\ g4 \in GateRow /\ g4.decision.branch = "hitl" /\ g4.fires = f4
      /\ g5 \in GateRow /\ g5.decision.branch = "hitl" /\ g5.fires = f5
      /\ g6 \in GateRow /\ g6.decision.branch = "hitl" /\ g6.fires = f6
      /\ g7 \in GateRow /\ g7.decision.branch = "hitl" /\ g7.fires = f7
      /\ g8 \in GateRow /\ g8.decision.branch = "auto_reply" /\ g8.fires = f8
  <2>1. {"kb_not_authorized", "negation_mismatch", "quote_invalid",
         "quote_source_not_in_topk", "rerank_disagrees", "rerank_low_confidence",
         "trust_below_auto_threshold"} \subseteq Reasons
    BY DEF Reasons
  <2>2. /\ {"clarification", "mask_failed", "runbook_approval"} \subseteq Queues
        /\ {"clarify", "auto_reply", "auto_route"} \subseteq Branches
    BY DEF Queues, Branches
  <2> QED
    BY <1>2, <2>1, <2>2, DoubtGate, AutomatedGate
<1> HIDE DEF g1, g2, g3, g4, g5, g6, g7, g8
<1> QED
  BY <1>1, <1>3

\* The gates of a route.
LEMMA RouteGatesType ==
  ASSUME NEW s \in Signals
  PROVE  /\ RouteGates(s) \in Seq(GateRow)
         /\ \A i \in DOMAIN RouteGates(s) :
              RouteGates(s)[i].decision.branch \in {"hitl", "auto_route"}
<1> DEFINE f1 == s.category # "sure"
           f2 == s.trust < ForRoute
           f3 == TRUE
           g1 == Gate(f1, Doubt("category_low_confidence"))
           g2 == Gate(f2, Doubt("trust_below_route_threshold"))
           g3 == Gate(f3, Automated("auto_route", NoQueue))
<1>1. RouteGates(s) = <<g1, g2, g3>>
  BY DEF RouteGates
<1>2. f1 \in BOOLEAN /\ f2 \in BOOLEAN /\ f3 \in BOOLEAN
  BY DEF Signals
<1> HIDE DEF f1, f2, f3
<1>3. /\ g1 \in GateRow /\ g1.decision.branch = "hitl" /\ g1.fires = f1
      /\ g2 \in GateRow /\ g2.decision.branch = "hitl" /\ g2.fires = f2
      /\ g3 \in GateRow /\ g3.decision.branch = "auto_route" /\ g3.fires = f3
  <2>1. {"category_low_confidence", "trust_below_route_threshold"} \subseteq Reasons
    BY DEF Reasons
  <2>2. /\ {"clarification", "mask_failed", "runbook_approval"} \subseteq Queues
        /\ {"clarify", "auto_reply", "auto_route"} \subseteq Branches
    BY DEF Queues, Branches
  <2> QED
    BY <1>2, <2>1, <2>2, DoubtGate, AutomatedGate
<1> HIDE DEF g1, g2, g3
<1> QED
  BY <1>1, <1>3

\* The gate of a runbook.
LEMMA RunbookGatesType ==
  /\ RunbookGates \in Seq(GateRow)
  /\ \A i \in DOMAIN RunbookGates : RunbookGates[i].decision.branch = "hitl"
<1> DEFINE f1 == TRUE
           g1 == Gate(f1, Hitl("all_checks_passed", "runbook_approval"))
<1>1. RunbookGates = <<g1>>
  BY DEF RunbookGates
<1>2. f1 \in BOOLEAN
  OBVIOUS
<1> HIDE DEF f1
<1>3. /\ g1 \in GateRow /\ g1.decision.branch = "hitl" /\ g1.fires = f1
  <2>1. {"all_checks_passed"} \subseteq Reasons
    BY DEF Reasons
  <2>2. /\ {"clarification", "mask_failed", "runbook_approval"} \subseteq Queues
        /\ {"clarify", "auto_reply", "auto_route"} \subseteq Branches
    BY DEF Queues, Branches
  <2> QED
    BY <1>2, <2>1, <2>2, HitlGate
<1> HIDE DEF g1
<1> QED
  BY <1>1, <1>3

\* The gates a proposal adds to the hard ones.
Middle(s) ==
  CASE s.proposal = "clarify" -> ClarifyGates(s)
    [] s.proposal = "auto_reply" -> AutoReplyGates(s)
    [] s.proposal = "runbook" -> RunbookGates
    [] s.proposal = "route" -> RouteGates(s)
    [] OTHER -> << >>

LEMMA MiddleType ==
  ASSUME NEW s \in Signals
  PROVE  /\ Middle(s) \in Seq(GateRow)
         /\ s.proposal # "clarify" =>
              \A i \in DOMAIN Middle(s) : Middle(s)[i].decision.branch # "clarify"
<1>1. CASE s.proposal = "clarify"
  BY <1>1, ClarifyGatesType DEF Middle
<1>2. CASE s.proposal = "auto_reply"
  BY <1>2, AutoReplyGatesType DEF Middle
<1>3. CASE s.proposal = "runbook"
  BY <1>3, RunbookGatesType DEF Middle
<1>4. CASE s.proposal = "route"
  BY <1>4, RouteGatesType DEF Middle
<1>5. CASE s.proposal \notin {"clarify", "auto_reply", "runbook", "route"}
  <2>1. Middle(s) = << >>
    BY <1>5 DEF Middle
  <2> QED
    BY <2>1
<1> QED
  BY <1>1, <1>2, <1>3, <1>4, <1>5

\* Nothing falls through: the last gate fires whatever the signals.
LEMMA GatesType ==
  ASSUME NEW s \in Signals
  PROVE  /\ Gates(s) \in Seq(GateRow)
         /\ Gates(s) # << >> /\ Gates(s)[Len(Gates(s))].fires
         /\ Len(Gates(s)) = 8 + Len(Middle(s))
         /\ \A i \in 1..7 : Gates(s)[i] = HardGates(s)[i]
         /\ \A i \in 1..Len(Middle(s)) : Gates(s)[7 + i] = Middle(s)[i]
         /\ Gates(s)[8 + Len(Middle(s))].decision.branch = "hitl"
<1> DEFINE hard == HardGates(s)
           middle == Middle(s)
           other == Gate(TRUE, Doubt("schema_invalid"))
<1>1. Gates(s) = hard \o middle \o <<other>>
  BY DEF Gates, Middle
<1>2. other \in GateRow /\ other.fires /\ other.decision.branch = "hitl"
  <2>1. "schema_invalid" \in Reasons /\ TRUE \in BOOLEAN
    BY DEF Reasons
  <2> QED
    BY <2>1, DoubtGate
<1>3. hard \in Seq(GateRow) /\ Len(hard) = 7 /\ middle \in Seq(GateRow)
  BY HardGatesType, MiddleType
<1> HIDE DEF hard, middle, other
<1>4. hard \o middle \in Seq(GateRow) /\ Len(hard \o middle) = 7 + Len(middle)
  <2>1. Len(hard \o middle) = Len(hard) + Len(middle) /\ hard \o middle \in Seq(GateRow)
    BY <1>3, ConcatProperties, Zenon
  <2> QED
    BY <1>3, <2>1
<1>5. /\ (hard \o middle) \o <<other>> \in Seq(GateRow)
      /\ Len((hard \o middle) \o <<other>>) = 8 + Len(middle)
      /\ ((hard \o middle) \o <<other>>)[8 + Len(middle)] = other
      /\ \A i \in 1..7 : ((hard \o middle) \o <<other>>)[i] = hard[i]
      /\ \A i \in 1..Len(middle) : ((hard \o middle) \o <<other>>)[7 + i] = middle[i]
  BY <1>2, <1>3, <1>4
<1> QED
  BY <1>1, <1>2, <1>3, <1>5 DEF hard, middle

\* The router takes the first gate that fires.
LEMMA RouteIsFirst ==
  ASSUME NEW s \in Signals
  PROVE  \E i \in 1..Len(Gates(s)) :
           /\ Gates(s)[i].fires /\ Route(s) = Gates(s)[i].decision
           /\ \A j \in 1..(i - 1) : ~Gates(s)[j].fires
<1> DEFINE gates == Gates(s)
           firing == {i \in DOMAIN gates : gates[i].fires}
<1>1. gates \in Seq(GateRow) /\ gates # << >> /\ gates[Len(gates)].fires
  BY GatesType
<1>2. Route(s) = gates[Min(firing)].decision
  BY DEF Route
<1>3. DOMAIN gates = 1..Len(gates) /\ Len(gates) \in Nat
  BY <1>1
<1> HIDE DEF gates
<1>4. firing \in SUBSET Nat /\ firing # {}
  BY <1>1, <1>3
<1>5. \E x \in firing : \A y \in firing : x <= y
  BY <1>4, LeastNatural
<1>6. Min(firing) \in firing /\ \A y \in firing : Min(firing) <= y
  BY <1>5 DEF Min
<1> DEFINE first == Min(firing)
<1>7. first \in 1..Len(gates) /\ gates[first].fires
  BY <1>3, <1>6
<1>8. \A y \in firing : first <= y
  BY <1>6
<1> HIDE DEF first
<1>9. ASSUME NEW j \in 1..(first - 1), gates[j].fires PROVE FALSE
  <2>1. j \in 1..Len(gates) /\ j < first
    BY <1>3, <1>7
  <2>2. j \in firing
    BY <1>3, <1>9, <2>1
  <2> QED
    BY <1>7, <1>8, <2>1, <2>2
<1> QED
  BY <1>2, <1>7, <1>9 DEF gates, first

\* Whatever the signals, the router decides.
LEMMA RouteType ==
  ASSUME NEW s \in Signals
  PROVE  Route(s) \in Decisions
<1>1. PICK i \in 1..Len(Gates(s)) : Route(s) = Gates(s)[i].decision
  BY RouteIsFirst
<1>2. Gates(s) \in Seq(GateRow)
  BY GatesType
<1>3. Gates(s)[i] \in GateRow
  BY <1>2
<1> QED
  BY <1>1, <1>3 DEF GateRow

\* What the fields of a gate and of a decision are.
LEMMA GateFields ==
  ASSUME NEW f, NEW d
  PROVE  Gate(f, d).fires = f /\ Gate(f, d).decision = d
BY DEF Gate

LEMMA CertainGate == \A d : Gate(TRUE, d).fires
BY DEF Gate

LEMMA DecisionFields ==
  /\ \A reason : Block(reason).branch = "block" /\ Block(reason).alert = TRUE
  /\ \A reason : Escalate(reason).branch = "escalate" /\ Escalate(reason).alert = FALSE
  /\ \A reason, queue :
       Hitl(reason, queue).branch = "hitl" /\ Hitl(reason, queue).alert = FALSE
  /\ \A reason : Doubt(reason).branch = "hitl" /\ Doubt(reason).alert = FALSE
  /\ \A branch, queue :
       Automated(branch, queue).branch = branch /\ Automated(branch, queue).alert = FALSE
BY DEF Decision, Block, Escalate, Hitl, Doubt, Automated

\* Whatever fires with none before it decides.
LEMMA FirstDecides ==
  ASSUME NEW s \in Signals, NEW i \in 1..Len(Gates(s)), Gates(s)[i].fires,
         \A j \in 1..(i - 1) : ~Gates(s)[j].fires
  PROVE  Route(s) = Gates(s)[i].decision
<1>1. PICK k \in 1..Len(Gates(s)) :
        /\ Gates(s)[k].fires /\ Route(s) = Gates(s)[k].decision
        /\ \A j \in 1..(k - 1) : ~Gates(s)[j].fires
  BY RouteIsFirst
<1>2. Len(Gates(s)) \in Nat
  BY GatesType
<1>3. ~(k < i) /\ ~(i < k)
  <2>1. CASE k < i
    <3>1. k \in 1..(i - 1)
      BY <1>2, <2>1
    <3> QED
      BY <1>1, <3>1
  <2>2. CASE i < k
    <3>1. i \in 1..(k - 1)
      BY <1>2, <2>2
    <3> QED
      BY <1>1, <3>1
  <2> QED
    BY <2>1, <2>2, <1>2
<1>4. k = i
  BY <1>2, <1>3
<1> QED
  BY <1>1, <1>4

\* When each hard gate fires, and what it decides.
LEMMA HardGatesFire ==
  ASSUME NEW s \in Signals
  PROVE  /\ Len(Gates(s)) >= 8 /\ Len(Gates(s)) \in Nat
         /\ Gates(s)[1].fires <=> s.injection
         /\ Gates(s)[2].fires <=> s.pii = "critical"
         /\ Gates(s)[3].fires <=> s.mass
         /\ Gates(s)[4].fires <=> s.pii = "mask_failed"
         /\ Gates(s)[5].fires <=> ~s.grounded
         /\ Gates(s)[6].fires <=> s.proposal = "none"
         /\ Gates(s)[7].fires <=> s.proposal = "insufficient"
         /\ \A i \in 1..2 : Gates(s)[i].decision.alert = TRUE
         /\ \A i \in 3..7 : Gates(s)[i].decision.alert = FALSE
         /\ \A i \in 1..7 : Gates(s)[i].decision.branch =
              IF i \in {1, 2} THEN "block" ELSE IF i = 3 THEN "escalate" ELSE "hitl"
<1>1. Len(Gates(s)) >= 8 /\ Len(Gates(s)) \in Nat
  BY GatesType, MiddleType
<1> DEFINE f1 == s.injection
           f2 == s.pii = "critical"
           f3 == s.mass
           f4 == s.pii = "mask_failed"
           f5 == ~s.grounded
           f6 == s.proposal = "none"
           f7 == s.proposal = "insufficient"
           g == Gates(s)
<1>2. /\ HardGates(s)[1] = Gate(f1, Block("injection_detected"))
      /\ HardGates(s)[2] = Gate(f2, Block("pii_critical"))
      /\ HardGates(s)[3] = Gate(f3, Escalate("mass_incident"))
      /\ HardGates(s)[4] = Gate(f4, Hitl("pii_mask_failed", "mask_failed"))
      /\ HardGates(s)[5] = Gate(f5, Doubt("retrieval_below_floor"))
      /\ HardGates(s)[6] = Gate(f6, Doubt("schema_invalid"))
      /\ HardGates(s)[7] = Gate(f7, Doubt("retrieval_below_floor"))
  BY DEF HardGates
<1>3. \A i \in 1..7 : g[i] = HardGates(s)[i]
  BY GatesType
<1> HIDE DEF f1, f2, f3, f4, f5, f6, f7, g
<1>4. /\ g[1] = Gate(f1, Block("injection_detected"))
      /\ g[2] = Gate(f2, Block("pii_critical"))
      /\ g[3] = Gate(f3, Escalate("mass_incident"))
      /\ g[4] = Gate(f4, Hitl("pii_mask_failed", "mask_failed"))
      /\ g[5] = Gate(f5, Doubt("retrieval_below_floor"))
      /\ g[6] = Gate(f6, Doubt("schema_invalid"))
      /\ g[7] = Gate(f7, Doubt("retrieval_below_floor"))
  BY <1>2, <1>3
<1>5. /\ g[1].fires = f1 /\ g[1].decision = Block("injection_detected")
      /\ g[2].fires = f2 /\ g[2].decision = Block("pii_critical")
      /\ g[3].fires = f3 /\ g[3].decision = Escalate("mass_incident")
      /\ g[4].fires = f4 /\ g[4].decision = Hitl("pii_mask_failed", "mask_failed")
      /\ g[5].fires = f5 /\ g[5].decision = Doubt("retrieval_below_floor")
      /\ g[6].fires = f6 /\ g[6].decision = Doubt("schema_invalid")
      /\ g[7].fires = f7 /\ g[7].decision = Doubt("retrieval_below_floor")
  BY <1>4 DEF Gate
<1>6. /\ g[1].decision.branch = "block" /\ g[1].decision.alert = TRUE
      /\ g[2].decision.branch = "block" /\ g[2].decision.alert = TRUE
      /\ g[3].decision.branch = "escalate" /\ g[3].decision.alert = FALSE
      /\ g[4].decision.branch = "hitl" /\ g[4].decision.alert = FALSE
      /\ g[5].decision.branch = "hitl" /\ g[5].decision.alert = FALSE
      /\ g[6].decision.branch = "hitl" /\ g[6].decision.alert = FALSE
      /\ g[7].decision.branch = "hitl" /\ g[7].decision.alert = FALSE
  BY <1>5, DecisionFields
<1>7. /\ \A i \in 1..2 : g[i].decision.alert = TRUE
      /\ \A i \in 3..7 : g[i].decision.alert = FALSE
  BY <1>6
<1>8. \A i \in 1..7 : g[i].decision.branch =
        IF i \in {1, 2} THEN "block" ELSE IF i = 3 THEN "escalate" ELSE "hitl"
  BY <1>6
<1>9. /\ g[1].fires <=> f1
      /\ g[2].fires <=> f2
      /\ g[3].fires <=> f3
      /\ g[4].fires <=> f4
      /\ g[5].fires <=> f5
      /\ g[6].fires <=> f6
      /\ g[7].fires <=> f7
  BY <1>5
<1> QED
  BY <1>1, <1>7, <1>8, <1>9, Zenon DEF f1, f2, f3, f4, f5, f6, f7, g

\* What the router does with a ticket that is harmed, or for which nothing was proposed.
LEMMA HardRoute ==
  ASSUME NEW s \in Signals, ~Unharmed(s) \/ s.proposal \in {"none", "insufficient"}
  PROVE  /\ Route(s).branch =
              IF s.injection \/ s.pii = "critical" THEN "block"
              ELSE IF s.mass THEN "escalate" ELSE "hitl"
         /\ (Route(s).alert <=> s.injection \/ s.pii = "critical")
<1>1. PICK i \in 1..Len(Gates(s)) :
        /\ Gates(s)[i].fires /\ Route(s) = Gates(s)[i].decision
        /\ \A j \in 1..(i - 1) : ~Gates(s)[j].fires
  BY RouteIsFirst
<1> DEFINE f(j) == Gates(s)[j].fires
<1>2. /\ f(1) <=> s.injection
      /\ f(2) <=> s.pii = "critical"
      /\ f(3) <=> s.mass
      /\ f(4) <=> s.pii = "mask_failed"
      /\ f(5) <=> ~s.grounded
      /\ f(6) <=> s.proposal = "none"
      /\ f(7) <=> s.proposal = "insufficient"
  BY HardGatesFire
<1>3. f(1) \/ f(2) \/ f(3) \/ f(4) \/ f(5) \/ f(6) \/ f(7)
  <2>1. s.pii \in PIILevels /\ s.injection \in BOOLEAN /\ s.mass \in BOOLEAN
        /\ s.grounded \in BOOLEAN
    BY DEF Signals
  <2> QED
    BY <1>2, <2>1 DEF Unharmed, PIILevels
<1>4. Len(Gates(s)) \in Nat
  BY HardGatesFire
<1>5. i \in 1..7
  <2>1. \A j \in 1..7 : j \in 1..(i - 1) => ~f(j)
    BY <1>1
  <2> HIDE DEF f
  <2>2. PICK j \in 1..7 : f(j)
    BY <1>3
  <2>3. ~(j <= i - 1)
    BY <2>1, <2>2, <1>4
  <2> QED
    BY <2>2, <2>3, <1>4
<1>6. f(i) /\ \A j \in 1..(i - 1) : ~f(j)
  BY <1>1, <1>5
<1>7. /\ i \in 1..2 => Route(s).alert = TRUE /\ Route(s).branch = "block"
      /\ i = 3 => Route(s).alert = FALSE /\ Route(s).branch = "escalate"
      /\ i \in 4..7 => Route(s).alert = FALSE /\ Route(s).branch = "hitl"
  <2>1. /\ \A k \in 1..2 : Gates(s)[k].decision.alert = TRUE
        /\ \A k \in 3..7 : Gates(s)[k].decision.alert = FALSE
    BY HardGatesFire
  <2>2. \A k \in 1..7 : Gates(s)[k].decision.branch =
          IF k \in {1, 2} THEN "block" ELSE IF k = 3 THEN "escalate" ELSE "hitl"
    BY HardGatesFire
  <2> QED
    BY <1>1, <1>5, <2>1, <2>2
<1> HIDE DEF f
<1>8. CASE i = 1
  BY <1>2, <1>6, <1>7, <1>8
<1>9. CASE i = 2
  BY <1>2, <1>6, <1>7, <1>9
<1>10. CASE i = 3
  <2>1. ~f(1) /\ ~f(2) /\ f(3)
    BY <1>6, <1>10
  <2> QED
    BY <1>2, <1>7, <1>10, <2>1
<1>11. CASE i \in 4..7
  <2>1. ~f(1) /\ ~f(2) /\ ~f(3)
    BY <1>6, <1>11
  <2> QED
    BY <1>2, <1>7, <1>11, <2>1
<1> QED
  BY <1>5, <1>8, <1>9, <1>10, <1>11

\* For a ticket nothing stands in the way of, the gates of what was proposed decide.
LEMMA MiddleRoute ==
  ASSUME NEW s \in Signals, Unharmed(s), s.proposal \notin {"none", "insufficient"},
         NEW i \in 1..Len(Middle(s)), Middle(s)[i].fires,
         \A j \in 1..(i - 1) : ~Middle(s)[j].fires
  PROVE  Route(s) = Middle(s)[i].decision
<1>1. Len(Middle(s)) \in Nat /\ Len(Gates(s)) = 8 + Len(Middle(s))
  BY MiddleType, GatesType
<1>2. \A k \in 1..Len(Middle(s)) : Gates(s)[7 + k] = Middle(s)[k]
  BY GatesType
<1>3. \A j \in 1..7 : ~Gates(s)[j].fires
  <2>1. /\ ~s.injection /\ ~(s.pii = "critical") /\ ~s.mass /\ ~(s.pii = "mask_failed")
        /\ s.grounded /\ ~(s.proposal = "none") /\ ~(s.proposal = "insufficient")
    BY DEF Unharmed
  <2>2. /\ ~Gates(s)[1].fires /\ ~Gates(s)[2].fires /\ ~Gates(s)[3].fires
        /\ ~Gates(s)[4].fires /\ ~Gates(s)[5].fires /\ ~Gates(s)[6].fires
        /\ ~Gates(s)[7].fires
    BY <2>1, HardGatesFire
  <2> QED
    BY <2>2
<1>4. ASSUME NEW j \in 1..((7 + i) - 1) PROVE ~Gates(s)[j].fires
  <2>1. CASE j \in 1..7
    BY <1>3, <2>1
  <2>2. CASE j > 7
    <3>1. j - 7 \in 1..Len(Middle(s)) /\ j - 7 \in 1..(i - 1) /\ j = 7 + (j - 7)
      BY <1>1, <2>2
    <3>2. Gates(s)[7 + (j - 7)] = Middle(s)[j - 7]
      BY <1>2, <3>1
    <3> QED
      BY <3>1, <3>2
  <2> QED
    BY <2>1, <2>2
<1>5. 7 + i \in 1..Len(Gates(s)) /\ Gates(s)[7 + i] = Middle(s)[i]
  BY <1>1, <1>2
<1> DEFINE k == 7 + i
<1>6. k \in 1..Len(Gates(s)) /\ Gates(s)[k].fires /\ \A j \in 1..(k - 1) : ~Gates(s)[j].fires
  BY <1>4, <1>5
<1> HIDE DEF k
<1>7. Route(s) = Gates(s)[k].decision
  BY <1>6, FirstDecides
<1> QED
  BY <1>5, <1>7 DEF k

\* A row of gates that ends in one that always fires: it is reached exactly when no other
\* fires, and otherwise a person decides.
LEMMA LastOfMiddle ==
  ASSUME NEW s \in Signals, Unharmed(s), s.proposal \notin {"none", "insufficient"},
         NEW n \in Nat, Len(Middle(s)) = n + 1, Middle(s)[n + 1].fires,
         \A i \in 1..n : Middle(s)[i].decision.branch = "hitl",
         \A i \in 1..n : Middle(s)[i].decision.alert = FALSE
  PROVE  \/ Route(s) = Middle(s)[n + 1].decision /\ \A i \in 1..n : ~Middle(s)[i].fires
         \/ /\ Route(s).branch = "hitl" /\ Route(s).alert = FALSE
            /\ \E i \in 1..n : Middle(s)[i].fires
<1>1. CASE \A i \in 1..n : ~Middle(s)[i].fires
  <2>1. n + 1 \in 1..Len(Middle(s)) /\ (n + 1) - 1 = n
    OBVIOUS
  <2>2. Route(s) = Middle(s)[n + 1].decision
    BY <1>1, <2>1, MiddleRoute
  <2> QED
    BY <1>1, <2>2
<1>2. CASE \E i \in 1..n : Middle(s)[i].fires
  <2> DEFINE firing == {i \in 1..n : Middle(s)[i].fires}
  <2>1. firing \in SUBSET Nat /\ firing # {}
    BY <1>2
  <2>2. PICK i \in firing : \A j \in firing : i <= j
    BY <2>1, LeastNatural
  <2>3. i \in 1..n /\ Middle(s)[i].fires /\ \A j \in 1..(i - 1) : ~Middle(s)[j].fires
    BY <2>2
  <2>4. i \in 1..Len(Middle(s))
    BY <2>3
  <2>5. Route(s) = Middle(s)[i].decision
    BY <2>3, <2>4, MiddleRoute
  <2> QED
    BY <2>3, <2>5, <1>2
<1> QED
  BY <1>1, <1>2

\* A reply is decided exactly when the knowledge base grants it, every check passes and the
\* trust score reaches the bar for replies.
LEMMA AutoReplyRoute ==
  ASSUME NEW s \in Signals, Unharmed(s), s.proposal = "auto_reply"
  PROVE  /\ Route(s).branch = IF s.passed = Checks /\ s.trust = ForAuto
                              THEN "auto_reply" ELSE "hitl"
         /\ Route(s).alert = FALSE
<1>1. Middle(s) = AutoReplyGates(s)
  BY DEF Middle
<1> DEFINE f1 == "kb_authorized" \notin s.passed
           f2 == "quote_source" \notin s.passed
           f3 == "quote_match" \notin s.passed
           f4 == "negation" \notin s.passed
           f5 == "rerank_agrees" \notin s.passed
           f6 == "rerank_sure" \notin s.passed
           f7 == s.trust < ForAuto
           f8 == TRUE
           g == AutoReplyGates(s)
<1>2. /\ Len(AutoReplyGates(s)) = 8
      /\ AutoReplyGates(s)[1] = Gate(f1, Doubt("kb_not_authorized"))
      /\ AutoReplyGates(s)[2] = Gate(f2, Doubt("quote_source_not_in_topk"))
      /\ AutoReplyGates(s)[3] = Gate(f3, Doubt("quote_invalid"))
      /\ AutoReplyGates(s)[4] = Gate(f4, Doubt("negation_mismatch"))
      /\ AutoReplyGates(s)[5] = Gate(f5, Doubt("rerank_disagrees"))
      /\ AutoReplyGates(s)[6] = Gate(f6, Doubt("rerank_low_confidence"))
      /\ AutoReplyGates(s)[7] = Gate(f7, Doubt("trust_below_auto_threshold"))
      /\ AutoReplyGates(s)[8] = Gate(f8, Automated("auto_reply", NoQueue))
  BY DEF AutoReplyGates, Failing
<1>3. g[8].fires
  <2>1. g[8] = Gate(TRUE, Automated("auto_reply", NoQueue))
    BY <1>2
  <2> QED
    BY <2>1, CertainGate, Zenon
<1> HIDE DEF f1, f2, f3, f4, f5, f6, f7, f8, g
<1>4. /\ g[1].fires = f1 /\ g[1].decision = Doubt("kb_not_authorized")
      /\ g[2].fires = f2 /\ g[2].decision = Doubt("quote_source_not_in_topk")
      /\ g[3].fires = f3 /\ g[3].decision = Doubt("quote_invalid")
      /\ g[4].fires = f4 /\ g[4].decision = Doubt("negation_mismatch")
      /\ g[5].fires = f5 /\ g[5].decision = Doubt("rerank_disagrees")
      /\ g[6].fires = f6 /\ g[6].decision = Doubt("rerank_low_confidence")
      /\ g[7].fires = f7 /\ g[7].decision = Doubt("trust_below_auto_threshold")
      /\ g[8].fires = f8 /\ g[8].decision = Automated("auto_reply", NoQueue)
  BY <1>2 DEF Gate, g
<1>5. /\ g[1].decision.branch = "hitl" /\ g[1].decision.alert = FALSE
      /\ g[2].decision.branch = "hitl" /\ g[2].decision.alert = FALSE
      /\ g[3].decision.branch = "hitl" /\ g[3].decision.alert = FALSE
      /\ g[4].decision.branch = "hitl" /\ g[4].decision.alert = FALSE
      /\ g[5].decision.branch = "hitl" /\ g[5].decision.alert = FALSE
      /\ g[6].decision.branch = "hitl" /\ g[6].decision.alert = FALSE
      /\ g[7].decision.branch = "hitl" /\ g[7].decision.alert = FALSE
      /\ g[8].decision.branch = "auto_reply" /\ g[8].decision.alert = FALSE
  BY <1>4, DecisionFields
<1>6. \/ Route(s) = g[8].decision /\ \A i \in 1..7 : ~g[i].fires
      \/ Route(s).branch = "hitl" /\ Route(s).alert = FALSE /\ \E i \in 1..7 : g[i].fires
  <2>1. Middle(s) = g /\ s.proposal \notin {"none", "insufficient"}
    BY <1>1 DEF g
  <2>2. /\ \A i \in 1..7 : Middle(s)[i].decision.branch = "hitl"
        /\ \A i \in 1..7 : Middle(s)[i].decision.alert = FALSE
    BY <1>5, <2>1
  <2>3. 7 \in Nat /\ Len(Middle(s)) = 7 + 1
    BY <1>2, <2>1 DEF g
  <2>4. Middle(s)[7 + 1].fires
    BY <1>3, <2>1
  <2>5. \/ Route(s) = Middle(s)[7 + 1].decision /\ \A i \in 1..7 : ~Middle(s)[i].fires
        \/ /\ Route(s).branch = "hitl" /\ Route(s).alert = FALSE
           /\ \E i \in 1..7 : Middle(s)[i].fires
    BY <2>1, <2>2, <2>3, <2>4, LastOfMiddle
  <2> QED
    BY <2>1, <2>5
<1>7. (\A i \in 1..7 : ~g[i].fires) <=> ~f1 /\ ~f2 /\ ~f3 /\ ~f4 /\ ~f5 /\ ~f6 /\ ~f7
  <2>1. 1..7 = {1, 2, 3, 4, 5, 6, 7}
    OBVIOUS
  <2>2. /\ g[1].fires <=> f1
        /\ g[2].fires <=> f2
        /\ g[3].fires <=> f3
        /\ g[4].fires <=> f4
        /\ g[5].fires <=> f5
        /\ g[6].fires <=> f6
        /\ g[7].fires <=> f7
    BY <1>4
  <2> QED
    BY <2>1, <2>2
<1>8. (~f1 /\ ~f2 /\ ~f3 /\ ~f4 /\ ~f5 /\ ~f6 /\ ~f7) <=> s.passed = Checks /\ s.trust = ForAuto
  <2>1. s.passed \subseteq Checks /\ s.trust \in {Below, ForRoute, ForAuto}
    BY DEF Signals, TrustLevels
  <2>2. ~f7 <=> s.trust = ForAuto
    BY <2>1 DEF Below, ForRoute, ForAuto, f7
  <2>3. (~f1 /\ ~f2 /\ ~f3 /\ ~f4 /\ ~f5 /\ ~f6) <=> s.passed = Checks
    BY <2>1 DEF Checks, f1, f2, f3, f4, f5, f6
  <2> QED
    BY <2>2, <2>3
<1> QED
  BY <1>5, <1>6, <1>7, <1>8

\* A route is decided exactly when the category is sure and the trust score reaches its bar.
LEMMA RouteRoute ==
  ASSUME NEW s \in Signals, Unharmed(s), s.proposal = "route"
  PROVE  /\ Route(s).branch = IF s.category = "sure" /\ s.trust # Below
                              THEN "auto_route" ELSE "hitl"
         /\ Route(s).alert = FALSE
<1>1. Middle(s) = RouteGates(s)
  BY DEF Middle
<1> DEFINE f1 == s.category # "sure"
           f2 == s.trust < ForRoute
           f3 == TRUE
           g == RouteGates(s)
<1>2. /\ Len(RouteGates(s)) = 3
      /\ RouteGates(s)[1] = Gate(f1, Doubt("category_low_confidence"))
      /\ RouteGates(s)[2] = Gate(f2, Doubt("trust_below_route_threshold"))
      /\ RouteGates(s)[3] = Gate(f3, Automated("auto_route", NoQueue))
  BY DEF RouteGates
<1>3. g[3].fires
  <2>1. g[3] = Gate(TRUE, Automated("auto_route", NoQueue))
    BY <1>2
  <2> QED
    BY <2>1, CertainGate, Zenon
<1> HIDE DEF f1, f2, f3, g
<1>4. /\ g[1].fires = f1 /\ g[1].decision = Doubt("category_low_confidence")
      /\ g[2].fires = f2 /\ g[2].decision = Doubt("trust_below_route_threshold")
      /\ g[3].fires = f3 /\ g[3].decision = Automated("auto_route", NoQueue)
  BY <1>2 DEF Gate, g
<1>5. /\ g[1].decision.branch = "hitl" /\ g[1].decision.alert = FALSE
      /\ g[2].decision.branch = "hitl" /\ g[2].decision.alert = FALSE
      /\ g[3].decision.branch = "auto_route" /\ g[3].decision.alert = FALSE
  BY <1>4, DecisionFields
<1>6. \/ Route(s) = g[3].decision /\ \A i \in 1..2 : ~g[i].fires
      \/ Route(s).branch = "hitl" /\ Route(s).alert = FALSE /\ \E i \in 1..2 : g[i].fires
  <2>1. Middle(s) = g /\ s.proposal \notin {"none", "insufficient"}
    BY <1>1 DEF g
  <2>2. /\ \A i \in 1..2 : Middle(s)[i].decision.branch = "hitl"
        /\ \A i \in 1..2 : Middle(s)[i].decision.alert = FALSE
    BY <1>5, <2>1
  <2>3. 2 \in Nat /\ Len(Middle(s)) = 2 + 1
    BY <1>2, <2>1 DEF g
  <2>4. Middle(s)[2 + 1].fires
    BY <1>3, <2>1
  <2>5. \/ Route(s) = Middle(s)[2 + 1].decision /\ \A i \in 1..2 : ~Middle(s)[i].fires
        \/ /\ Route(s).branch = "hitl" /\ Route(s).alert = FALSE
           /\ \E i \in 1..2 : Middle(s)[i].fires
    BY <2>1, <2>2, <2>3, <2>4, LastOfMiddle
  <2> QED
    BY <2>1, <2>5
<1>7. (\A i \in 1..2 : ~g[i].fires) <=> ~f1 /\ ~f2
  <2>1. 1..2 = {1, 2}
    OBVIOUS
  <2>2. /\ g[1].fires <=> f1
        /\ g[2].fires <=> f2
    BY <1>4
  <2> QED
    BY <2>1, <2>2
<1>8. (~f1 /\ ~f2) <=> s.category = "sure" /\ s.trust # Below
  <2>1. s.trust \in {Below, ForRoute, ForAuto}
    BY DEF Signals, TrustLevels
  <2>2. ~f2 <=> s.trust # Below
    BY <2>1 DEF Below, ForRoute, ForAuto, f2
  <2> QED
    BY <2>2 DEF f1
<1> QED
  BY <1>5, <1>6, <1>7, <1>8

\* A question is decided exactly when it is worth asking and may still be asked.
LEMMA ClarifyRoute ==
  ASSUME NEW s \in Signals, Unharmed(s), s.proposal = "clarify"
  PROVE  /\ Route(s).branch = IF /\ s.category = "sure" /\ ~s.security /\ s.options
                                 /\ s.asked < MaxRounds
                              THEN "clarify" ELSE "hitl"
         /\ Route(s).alert = FALSE
<1>1. Middle(s) = ClarifyGates(s)
  BY DEF Middle
<1> DEFINE f1 == s.security
           f2 == s.category # "sure"
           f3 == ~s.options
           f4 == s.asked >= MaxRounds
           f5 == TRUE
           g == ClarifyGates(s)
<1>2. /\ Len(ClarifyGates(s)) = 5
      /\ ClarifyGates(s)[1] = Gate(f1, Doubt("clarify_security"))
      /\ ClarifyGates(s)[2] = Gate(f2, Doubt("category_low_confidence"))
      /\ ClarifyGates(s)[3] = Gate(f3, Doubt("clarify_options_not_shown"))
      /\ ClarifyGates(s)[4] = Gate(f4, Hitl("clarify_round_cap", "clarification"))
      /\ ClarifyGates(s)[5] = Gate(f5, Automated("clarify", "clarification"))
  BY DEF ClarifyGates
<1>3. g[5].fires
  <2>1. g[5] = Gate(TRUE, Automated("clarify", "clarification"))
    BY <1>2
  <2> QED
    BY <2>1, CertainGate, Zenon
<1> HIDE DEF f1, f2, f3, f4, f5, g
<1>4. /\ g[1].fires = f1 /\ g[1].decision = Doubt("clarify_security")
      /\ g[2].fires = f2 /\ g[2].decision = Doubt("category_low_confidence")
      /\ g[3].fires = f3 /\ g[3].decision = Doubt("clarify_options_not_shown")
      /\ g[4].fires = f4 /\ g[4].decision = Hitl("clarify_round_cap", "clarification")
      /\ g[5].fires = f5 /\ g[5].decision = Automated("clarify", "clarification")
  BY <1>2 DEF Gate, g
<1>5. /\ g[1].decision.branch = "hitl" /\ g[1].decision.alert = FALSE
      /\ g[2].decision.branch = "hitl" /\ g[2].decision.alert = FALSE
      /\ g[3].decision.branch = "hitl" /\ g[3].decision.alert = FALSE
      /\ g[4].decision.branch = "hitl" /\ g[4].decision.alert = FALSE
      /\ g[5].decision.branch = "clarify" /\ g[5].decision.alert = FALSE
  BY <1>4, DecisionFields
<1>6. \/ Route(s) = g[5].decision /\ \A i \in 1..4 : ~g[i].fires
      \/ Route(s).branch = "hitl" /\ Route(s).alert = FALSE /\ \E i \in 1..4 : g[i].fires
  <2>1. Middle(s) = g /\ s.proposal \notin {"none", "insufficient"}
    BY <1>1 DEF g
  <2>2. /\ \A i \in 1..4 : Middle(s)[i].decision.branch = "hitl"
        /\ \A i \in 1..4 : Middle(s)[i].decision.alert = FALSE
    BY <1>5, <2>1
  <2>3. 4 \in Nat /\ Len(Middle(s)) = 4 + 1
    BY <1>2, <2>1 DEF g
  <2>4. Middle(s)[4 + 1].fires
    BY <1>3, <2>1
  <2>5. \/ Route(s) = Middle(s)[4 + 1].decision /\ \A i \in 1..4 : ~Middle(s)[i].fires
        \/ /\ Route(s).branch = "hitl" /\ Route(s).alert = FALSE
           /\ \E i \in 1..4 : Middle(s)[i].fires
    BY <2>1, <2>2, <2>3, <2>4, LastOfMiddle
  <2> QED
    BY <2>1, <2>5
<1>7. (\A i \in 1..4 : ~g[i].fires) <=> ~f1 /\ ~f2 /\ ~f3 /\ ~f4
  <2>1. 1..4 = {1, 2, 3, 4}
    OBVIOUS
  <2>2. /\ g[1].fires <=> f1
        /\ g[2].fires <=> f2
        /\ g[3].fires <=> f3
        /\ g[4].fires <=> f4
    BY <1>4
  <2> QED
    BY <2>1, <2>2
<1>8. (~f1 /\ ~f2 /\ ~f3 /\ ~f4) <=>
        s.category = "sure" /\ ~s.security /\ s.options /\ s.asked < MaxRounds
  <2>1. s.asked \in Nat /\ MaxRounds \in Nat
    BY MaxRoundsAssumption DEF Signals
  <2>2. ~f4 <=> s.asked < MaxRounds
    BY <2>1 DEF f4
  <2> QED
    BY <2>2 DEF f1, f2, f3
<1> QED
  BY <1>5, <1>6, <1>7, <1>8

\* A runbook always goes to a person.
LEMMA RunbookRoute ==
  ASSUME NEW s \in Signals, Unharmed(s), s.proposal = "runbook"
  PROVE  Route(s).branch = "hitl" /\ Route(s).alert = FALSE
<1>1. Middle(s) = RunbookGates
  BY DEF Middle
<1> DEFINE f1 == TRUE
<1>2. Len(RunbookGates) = 1 /\ RunbookGates[1] = Gate(f1, Hitl("all_checks_passed", "runbook_approval"))
  BY DEF RunbookGates
<1>3. RunbookGates[1].fires
  BY <1>2, CertainGate, Zenon
<1> HIDE DEF f1
<1>4. RunbookGates[1].decision = Hitl("all_checks_passed", "runbook_approval")
  BY <1>2 DEF Gate
<1>6. RunbookGates[1].decision.branch = "hitl" /\ RunbookGates[1].decision.alert = FALSE
  BY <1>4, DecisionFields
<1>7. /\ 1 \in 1..Len(Middle(s)) /\ Middle(s)[1].fires
      /\ s.proposal \notin {"none", "insufficient"}
  BY <1>1, <1>2, <1>3, <1>4
<1>8. \A j \in 1..(1 - 1) : ~Middle(s)[j].fires
  OBVIOUS
<1>9. Route(s) = Middle(s)[1].decision
  BY <1>7, <1>8, MiddleRoute
<1> QED
  BY <1>1, <1>6, <1>9

\* Every branch the router takes has been earned, and is taken when it has: the row of gates,
\* with its order, is exactly the condition the ADRs put on each branch.
THEOREM BranchesEarned ==
  ASSUME NEW s \in Signals
  PROVE  BranchIsEarned(s)
<1>1. s.proposal \in Proposals /\ s.injection \in BOOLEAN /\ s.mass \in BOOLEAN
  BY DEF Signals
<1>2. CASE ~Unharmed(s) \/ s.proposal \in {"none", "insufficient"}
  <2>1. /\ Route(s).branch =
              IF s.injection \/ s.pii = "critical" THEN "block"
              ELSE IF s.mass THEN "escalate" ELSE "hitl"
        /\ Route(s).alert <=> s.injection \/ s.pii = "critical"
    BY <1>2, HardRoute
  <2> QED
    BY <1>1, <1>2, <2>1 DEF BranchIsEarned
<1>3. CASE Unharmed(s) /\ s.proposal = "auto_reply"
  BY <1>1, <1>3, AutoReplyRoute DEF BranchIsEarned, Unharmed
<1>4. CASE Unharmed(s) /\ s.proposal = "route"
  BY <1>1, <1>4, RouteRoute DEF BranchIsEarned, Unharmed
<1>5. CASE Unharmed(s) /\ s.proposal = "clarify"
  BY <1>1, <1>5, ClarifyRoute DEF BranchIsEarned, Unharmed
<1>6. CASE Unharmed(s) /\ s.proposal = "runbook"
  BY <1>1, <1>6, RunbookRoute DEF BranchIsEarned, Unharmed
<1> QED
  BY <1>1, <1>2, <1>3, <1>4, <1>5, <1>6 DEF Proposals

\* A question is only ever decided when ai-engine proposed one, and while fewer have been
\* asked than the cap.
THEOREM QuestionsAreCapped ==
  ASSUME NEW s \in Signals, Route(s).branch = "clarify"
  PROVE  s.proposal = "clarify" /\ s.asked < MaxRounds
BY BranchesEarned DEF BranchIsEarned

\* The router always takes one of the six branches.
LEMMA RouteTakesABranch ==
  ASSUME NEW s \in Signals
  PROVE  Route(s).branch \in Branches
<1>1. s.proposal \in Proposals
  BY DEF Signals
<1>2. CASE ~Unharmed(s) \/ s.proposal \in {"none", "insufficient"}
  BY <1>2, HardRoute DEF Branches
<1>3. CASE Unharmed(s) /\ s.proposal = "auto_reply"
  BY <1>3, AutoReplyRoute DEF Branches
<1>4. CASE Unharmed(s) /\ s.proposal = "route"
  BY <1>4, RouteRoute DEF Branches
<1>5. CASE Unharmed(s) /\ s.proposal = "clarify"
  BY <1>5, ClarifyRoute DEF Branches
<1>6. CASE Unharmed(s) /\ s.proposal = "runbook"
  BY <1>6, RunbookRoute DEF Branches
<1> QED
  BY <1>1, <1>2, <1>3, <1>4, <1>5, <1>6 DEF Proposals

\* The same proposal, and no signal worse.
NoWorse(t, s) ==
  /\ t.proposal = s.proposal
  /\ t.injection => s.injection
  /\ t.mass => s.mass
  /\ t.security => s.security
  /\ s.grounded => t.grounded
  /\ s.options => t.options
  /\ t.pii = "critical" => s.pii = "critical"
  /\ t.pii = "mask_failed" => s.pii \in {"mask_failed", "critical"}
  /\ s.category = "sure" => t.category = "sure"
  /\ s.passed \subseteq t.passed /\ s.trust <= t.trust /\ t.asked <= s.asked

\* However many of its signals improve, as little human work as before, or less, is spent on a
\* ticket: the order of the gates never makes a better signal count against it.
THEOREM BetterSignals ==
  ASSUME NEW s \in Signals, NEW t \in Signals, NoWorse(t, s)
  PROVE  Rank(Route(t).branch) >= Rank(Route(s).branch)
<1>1. BranchIsEarned(s) /\ BranchIsEarned(t)
  BY BranchesEarned
<1>2. Route(s).branch \in Branches /\ Route(t).branch \in Branches
  BY RouteTakesABranch
<1>3. Unharmed(s) => Unharmed(t)
  BY DEF NoWorse, Unharmed, Signals, PIILevels
<1>4. Route(s).branch \in {"auto_reply", "auto_route", "clarify"} =>
        Route(t).branch = Route(s).branch
  <2>1. s.passed = Checks /\ s.trust = ForAuto => t.passed = Checks /\ t.trust = ForAuto
    <3>1. s.passed \subseteq t.passed /\ t.passed \subseteq Checks
      BY DEF NoWorse, Signals
    <3>2. s.passed = Checks => t.passed = Checks
      BY <3>1
    <3>3. s.trust = ForAuto => t.trust = ForAuto
      BY DEF NoWorse, Signals, TrustLevels, Below, ForRoute, ForAuto
    <3> QED
      BY <3>2, <3>3
  <2>2. s.trust # Below => t.trust # Below
    BY DEF NoWorse, Signals, TrustLevels, Below, ForRoute, ForAuto
  <2>3. s.asked < MaxRounds => t.asked < MaxRounds
    BY MaxRoundsAssumption DEF NoWorse, Signals
  <2> QED
    BY <1>1, <1>3, <2>1, <2>2, <2>3 DEF NoWorse, BranchIsEarned
<1>5. Route(t).branch = "block" => Route(s).branch = "block"
  <2>1. (t.injection \/ t.pii = "critical") => s.injection \/ s.pii = "critical"
    BY DEF NoWorse
  <2> QED
    BY <1>1, <2>1 DEF BranchIsEarned
<1> QED
  BY <1>2, <1>4, <1>5 DEF Branches, Rank

---------------------------------------------------------------------------
(* A ticket whose signals improve *)

SignalsAreInputs == signals \in Inputs

LEMMA SignalsStayInputs == SignalsSpec => []SignalsAreInputs
<1>1. SignalsInit => SignalsAreInputs
  BY DEF SignalsInit, SignalsAreInputs
<1>2. SignalsAreInputs /\ [Improve]_signals => SignalsAreInputs'
  BY DEF SignalsAreInputs, Improve, Become
<1> QED
  BY <1>1, <1>2, PTL DEF SignalsSpec

\* Whichever signal improves, none gets worse.
LEMMA ImprovingIsNoWorse ==
  ASSUME signals \in Signals, Improve
  PROVE  NoWorse(signals', signals)
<1>1. signals.asked \in Nat /\ signals.trust \in TrustLevels
  BY DEF Signals
<1>2. signals.pii \in PIILevels /\ signals.category \in {"none", "unsure", "sure"}
  BY DEF Signals
<1>3. NextLevel.mask_failed = "sensitive" /\ NextLevel.sensitive = "routine"
      /\ NextLevel.critical = "mask_failed"
  BY DEF NextLevel
<1>4. CASE signals.injection /\ Become([signals EXCEPT !.injection = FALSE])
  BY <1>1, <1>4 DEF Become, NoWorse, Signals, TrustLevels, Below, ForRoute, ForAuto
<1>5. CASE signals.mass /\ Become([signals EXCEPT !.mass = FALSE])
  BY <1>1, <1>5 DEF Become, NoWorse, Signals, TrustLevels, Below, ForRoute, ForAuto
<1>6. CASE signals.security /\ Become([signals EXCEPT !.security = FALSE])
  BY <1>1, <1>6 DEF Become, NoWorse, Signals, TrustLevels, Below, ForRoute, ForAuto
<1>7. CASE ~signals.grounded /\ Become([signals EXCEPT !.grounded = TRUE])
  BY <1>1, <1>7 DEF Become, NoWorse, Signals, TrustLevels, Below, ForRoute, ForAuto
<1>8. CASE ~signals.options /\ Become([signals EXCEPT !.options = TRUE])
  BY <1>1, <1>8 DEF Become, NoWorse, Signals, TrustLevels, Below, ForRoute, ForAuto
<1>9. CASE signals.pii # "routine" /\ Become([signals EXCEPT !.pii = NextLevel[@]])
  BY <1>1, <1>2, <1>3, <1>9
     DEF Become, NoWorse, Signals, PIILevels, NextLevel, TrustLevels, Below, ForRoute, ForAuto
<1>10. CASE signals.category # "sure" /\ Become([signals EXCEPT !.category = NextCategory[@]])
  BY <1>1, <1>2, <1>10 DEF Become, NoWorse, Signals, TrustLevels, Below, ForRoute, ForAuto
<1>11. CASE \E check \in Checks \ signals.passed :
              Become([signals EXCEPT !.passed = @ \union {check}])
  BY <1>1, <1>11 DEF Become, NoWorse, Signals, TrustLevels, Below, ForRoute, ForAuto
<1>12. CASE signals.trust # ForAuto /\ Become([signals EXCEPT !.trust = @ + 1])
  BY <1>1, <1>12 DEF Become, NoWorse, Signals, TrustLevels, Below, ForRoute, ForAuto
<1>13. CASE signals.asked # 0 /\ Become([signals EXCEPT !.asked = @ - 1])
  BY <1>1, <1>13 DEF Become, NoWorse, Signals, TrustLevels, Below, ForRoute, ForAuto
<1> QED
  BY <1>4, <1>5, <1>6, <1>7, <1>8, <1>9, <1>10, <1>11, <1>12, <1>13 DEF Improve

\* Whatever the signals of a ticket are and become, the branch it takes is one they have earned.
THEOREM EarnedThroughout == SignalsSpec => []BranchesAreEarned
<1>1. SignalsAreInputs => BranchesAreEarned
  BY InputsAssumption, BranchesEarned DEF SignalsAreInputs, BranchesAreEarned
<1> QED
  BY <1>1, SignalsStayInputs, PTL

\* Whichever signal of a ticket improves, it is handled with as little human work, or less.
THEOREM ImprovementsNeverHurt == SignalsSpec => BetterSignalsNeverHurt
<1>1. SignalsAreInputs /\ SignalsAreInputs' /\ [Improve]_signals =>
        [Rank(Route(signals').branch) >= Rank(Route(signals).branch)]_signals
  <2> SUFFICES ASSUME SignalsAreInputs, SignalsAreInputs', Improve
               PROVE  Rank(Route(signals').branch) >= Rank(Route(signals).branch)
    OBVIOUS
  <2>1. signals \in Signals /\ signals' \in Signals
    BY InputsAssumption DEF SignalsAreInputs
  <2>2. NoWorse(signals', signals)
    BY <2>1, ImprovingIsNoWorse
  <2> QED
    BY <2>1, <2>2, BetterSignals
<1> QED
  BY <1>1, SignalsStayInputs, PTL DEF SignalsSpec, BetterSignalsNeverHurt

-----------------------------------------------------------------------------
(* The pipeline *)

TicketRow == [status : Statuses, held : Decisions, pii : PIILevels, source : Sources]

WorkerOK(w) ==
  /\ workers[w].pc \in {"embed", "analyse"} => workers[w].attempt \in 1..(Len(aiRuns) + 1)
  /\ workers[w].pc \in {"stamp", "finalize"} => workers[w].attempt \in 1..Len(aiRuns)

\* No stamp is in the future.
StampsOK ==
  /\ \A w \in Workers : workers[w].stamp <= clock
  /\ \A i \in DOMAIN decisions : decisions[i].stamp <= clock

TypeInv == TypeOK /\ (\A w \in Workers : WorkerOK(w)) /\ StampsOK

---------------------------------------------------------------------------
(* Rows and decisions *)

LEMMA NotHeldType == NotHeld \in Decisions
BY DEF NotHeld, Decision, Decisions, NoQueue

LEMMA DoubtType ==
  \A reason \in Reasons : Doubt(reason) \in Decisions /\ Doubt(reason).branch = "hitl"
<1>1. "low_confidence" \in Queues
  BY DEF Queues
<1> QED
  BY <1>1, DecisionTypes

\* The worse of two levels is one of them.
LEMMA WorseType ==
  ASSUME NEW level \in PIILevels, NEW other \in PIILevels
  PROVE  Worse(level, other) \in PIILevels
BY DEF Worse

\* A sequence of rows with one more.
LEMMA AppendType ==
  ASSUME NEW S, NEW rows_ \in Seq(S), NEW row \in S
  PROVE  /\ Append(rows_, row) \in Seq(S)
         /\ Len(Append(rows_, row)) = Len(rows_) + 1
         /\ DOMAIN Append(rows_, row) = 1..(Len(rows_) + 1)
         /\ \A i \in 1..Len(rows_) : Append(rows_, row)[i] = rows_[i]
         /\ Append(rows_, row)[Len(rows_) + 1] = row
         /\ Append(rows_, row) # << >>
OBVIOUS

\* Some decision has the latest stamp.
LEMMA LatestType ==
  ASSUME decisions \in Seq(DecisionRow), decisions # << >>, clock \in Nat,
         \A i \in DOMAIN decisions : decisions[i].stamp <= clock
  PROVE  \E i \in DOMAIN decisions : LatestDecision = decisions[i]
<1> DEFINE gaps == {clock - decisions[i].stamp : i \in DOMAIN decisions}
<1>1. 1 \in DOMAIN decisions /\ \A i \in DOMAIN decisions : decisions[i].stamp \in Nat
  <2>1. \A i \in DOMAIN decisions : decisions[i] \in DecisionRow
    BY ElementOfSeq, LenProperties
  <2>2. 1 \in DOMAIN decisions
    OBVIOUS
  <2> QED
    BY <2>1, <2>2 DEF DecisionRow
<1>2. gaps \in SUBSET Nat /\ gaps # {}
  BY <1>1
<1>3. PICK gap \in gaps : \A other \in gaps : gap <= other
  BY <1>2, LeastNatural
<1>4. PICK i \in DOMAIN decisions : gap = clock - decisions[i].stamp
  BY <1>3
<1>5. ASSUME NEW j \in DOMAIN decisions PROVE decisions[j].stamp <= decisions[i].stamp
  <2>1. clock - decisions[j].stamp \in gaps
    OBVIOUS
  <2>2. clock - decisions[i].stamp <= clock - decisions[j].stamp
    BY <1>3, <1>4, <2>1
  <2> QED
    BY <1>1, <2>2
<1> QED
  BY <1>5 DEF LatestDecision

---------------------------------------------------------------------------
(* What the steps are made of *)

\* One worker's record is replaced by another.
LEMMA WorkerUpdate ==
  ASSUME workers \in [Workers -> Worker], NEW w \in Workers, NEW record \in Worker,
         workers' = [workers EXCEPT ![w] = record]
  PROVE  /\ workers' \in [Workers -> Worker] /\ workers'[w] = record
         /\ \A v \in Workers \ {w} : workers'[v] = workers[v]
OBVIOUS

\* A step of one worker that leaves the rows alone.
LEMMA WorkerStep ==
  ASSUME TypeInv, NEW w \in Workers, NEW record \in Worker,
         workers' = [workers EXCEPT ![w] = record],
         record.pc \in {"embed", "analyse"} => record.attempt \in 1..(Len(aiRuns) + 1),
         record.pc \in {"stamp", "finalize"} => record.attempt \in 1..Len(aiRuns),
         record.stamp <= clock', clock' \in Nat, clock <= clock',
         messages' \in Nat, spent' \in [crashes : 0..MaxCrashes, losses : 0..MaxLosses],
         UNCHANGED ticket, UNCHANGED rows
  PROVE  TypeInv'
<1>1. /\ workers' \in [Workers -> Worker] /\ workers'[w] = record
      /\ \A v \in Workers \ {w} : workers'[v] = workers[v]
  BY WorkerUpdate DEF TypeInv, TypeOK
<1>2. TypeOK'
  BY <1>1 DEF TypeInv, TypeOK, rows
<1>3. ASSUME NEW v \in Workers PROVE WorkerOK(v)'
  BY <1>1 DEF TypeInv, WorkerOK, rows
<1>4. StampsOK'
  <2>1. ASSUME NEW v \in Workers PROVE workers'[v].stamp <= clock'
    <3>1. workers[v].stamp \in Nat /\ workers[v].stamp <= clock /\ clock \in Nat
      BY DEF TypeInv, TypeOK, StampsOK, Worker
    <3>2. CASE v = w
      BY <1>1, <3>2
    <3>3. CASE v # w
      BY <1>1, <3>1, <3>3
    <3> QED
      BY <3>2, <3>3
  <2>2. ASSUME NEW i \in DOMAIN decisions PROVE decisions[i].stamp <= clock'
    <3>1. decisions[i] \in DecisionRow
      BY ElementOfSeq, LenProperties DEF TypeInv, TypeOK
    <3> QED
      BY <3>1 DEF TypeInv, TypeOK, StampsOK, DecisionRow
  <2> QED
    BY <2>1, <2>2 DEF StampsOK, rows
<1> QED
  BY <1>2, <1>3, <1>4 DEF TypeInv

LEMMA IdleType ==
  /\ Idle \in Worker /\ Idle.pc = "idle" /\ Idle.stamp = 0
  /\ Idle.decision = NotHeld /\ Idle.asked = 0
<1>1. "routine" \in PIILevels
  BY DEF PIILevels
<1> QED
  BY <1>1, NotHeldType DEF Idle, Worker

\* Recording an attempt: its own, or one that another worker has recorded.
LEMMA PersistType ==
  ASSUME TypeInv, NEW w \in Workers, workers[w].pc \in {"embed", "analyse"},
         NEW proposal \in Proposals, NEW d \in Decisions, Persist(w, proposal, d),
         UNCHANGED <<ticket, decisions, questions, items, attached, alerts, messages, clock, spent>>
  PROVE  TypeInv'
<1> DEFINE record == [workers[w] EXCEPT !.pc = "stamp", !.decision = d]
<1>1. workers[w] \in Worker
  BY DEF TypeInv, TypeOK
<1>2. /\ record \in Worker /\ record.pc = "stamp" /\ record.stamp = workers[w].stamp
      /\ record.attempt = workers[w].attempt
  BY <1>1 DEF Worker
<1>3. workers' = [workers EXCEPT ![w] = record]
  BY DEF Persist
<1> HIDE DEF record
<1>4. /\ workers' \in [Workers -> Worker] /\ workers'[w] = record
      /\ \A v \in Workers \ {w} : workers'[v] = workers[v]
  BY <1>2, <1>3, WorkerUpdate DEF TypeInv, TypeOK
<1>5. workers[w].attempt \in 1..(Len(aiRuns) + 1) /\ aiRuns \in Seq(Proposals)
  BY DEF TypeInv, TypeOK, WorkerOK
<1>6. /\ aiRuns' \in Seq(Proposals) /\ DOMAIN aiRuns = 1..Len(aiRuns)
      /\ DOMAIN aiRuns' = 1..Len(aiRuns')
      /\ Len(aiRuns) <= Len(aiRuns') /\ workers[w].attempt \in 1..Len(aiRuns')
      /\ Len(aiRuns) \in Nat /\ Len(aiRuns') \in Nat
  BY <1>5, AppendType DEF Persist
<1>7. TypeOK'
  <2>1. \A i \in DOMAIN decisions : decisions[i].run \in DOMAIN aiRuns'
    BY <1>6 DEF TypeInv, TypeOK
  <2>2. \A i \in DOMAIN items : items[i].run \in DOMAIN aiRuns'
    BY <1>6 DEF TypeInv, TypeOK
  <2> QED
    BY <1>4, <1>6, <2>1, <2>2 DEF TypeInv, TypeOK
<1>8. ASSUME NEW v \in Workers PROVE WorkerOK(v)'
  <2>1. CASE v = w
    BY <1>2, <1>4, <1>6, <2>1 DEF WorkerOK
  <2>2. CASE v # w
    <3>1. WorkerOK(v)
      BY DEF TypeInv
    <3>2. workers[v].attempt \in Nat
      BY DEF TypeInv, TypeOK, Worker
    <3> QED
      BY <1>4, <1>6, <2>2, <3>1, <3>2 DEF WorkerOK
  <2> QED
    BY <2>1, <2>2
<1>9. StampsOK'
  <2>1. \A v \in Workers : workers'[v].stamp = workers[v].stamp
    BY <1>2, <1>4
  <2> QED
    BY <2>1 DEF TypeInv, StampsOK
<1> QED
  BY <1>7, <1>8, <1>9 DEF TypeInv

\* Carrying a decision out, and holding it.
LEMMA ExecuteType ==
  ASSUME TypeInv, NEW held \in Decisions, NEW d \in Decisions, NEW run \in DOMAIN aiRuns,
         NEW shadow \in BOOLEAN, Execute(held, d, run, shadow), UNCHANGED aiRuns
  PROVE  /\ ticket' \in TicketRow /\ ticket'.held = held /\ ticket'.status = Handed(d, shadow)
         /\ items' \in Seq(Item) /\ \A i \in DOMAIN items' : items'[i].run \in DOMAIN aiRuns'
         /\ attached' \in BOOLEAN
<1>1. PICK taken \in Takes(d, shadow) :
        /\ ticket' = [ticket EXCEPT !.held = held, !.status = Handed(d, shadow)]
        /\ items' = IF NeedsPerson(d, shadow, taken)
                    THEN Append(items, [queue |-> QueueOf(d, shadow), run |-> run]) ELSE items
        /\ attached' = (attached \/ taken)
  BY DEF Execute
<1>2. ticket \in TicketRow /\ items \in Seq(Item) /\ attached \in BOOLEAN
  BY DEF TypeInv, TypeOK, TicketRow
<1>3. Handed(d, shadow) \in Statuses
  BY DEF Handed, Statuses
<1>4. ticket' \in TicketRow /\ ticket'.held = held /\ ticket'.status = Handed(d, shadow)
  BY <1>1, <1>2, <1>3 DEF TicketRow
<1>5. attached' \in BOOLEAN
  BY <1>1
<1>6. QueueOf(d, shadow) \in Queues
  BY DEF QueueOf, Queues, Decisions, NoQueue
<1>7. run \in Nat /\ DOMAIN aiRuns = 1..Len(aiRuns)
  BY DEF TypeInv, TypeOK
<1> DEFINE item == [queue |-> QueueOf(d, shadow), run |-> run]
<1>8. item \in Item /\ item.run = run
  BY <1>6, <1>7 DEF Item
<1> HIDE DEF item
<1>9. items' = Append(items, item) \/ items' = items
  BY <1>1 DEF item
<1>10. DOMAIN items = 1..Len(items) /\ Len(items) \in Nat
       /\ \A i \in DOMAIN items : items[i].run \in DOMAIN aiRuns
  BY <1>2 DEF TypeInv, TypeOK
<1>11. items' \in Seq(Item) /\ \A i \in DOMAIN items' : items'[i].run \in DOMAIN aiRuns
  BY <1>2, <1>8, <1>9, <1>10, AppendType
<1> QED
  BY <1>4, <1>5, <1>11

LEMMA HoldType ==
  ASSUME TypeInv, NEW d \in Decisions, Hold(d), UNCHANGED aiRuns
  PROVE  /\ ticket' \in TicketRow /\ ticket'.held = d /\ ticket'.status = "awaiting_requester"
         /\ items' \in Seq(Item) /\ \A i \in DOMAIN items' : items'[i].run \in DOMAIN aiRuns'
         /\ attached' \in BOOLEAN
<1>1. ticket \in TicketRow
  BY DEF TypeInv, TypeOK, TicketRow
<1>2. "awaiting_requester" \in Statuses
  BY DEF Statuses, Triage
<1>3. ticket' \in TicketRow /\ ticket'.held = d /\ ticket'.status = "awaiting_requester"
  BY <1>1, <1>2 DEF Hold, TicketRow
<1> QED
  BY <1>3 DEF Hold, TypeInv, TypeOK

---------------------------------------------------------------------------
(* Types *)

LEMMA EmbedType ==
  ASSUME TypeInv, NEW w \in Workers, Embed(w)
  PROVE  TypeInv'
<1>1. MassSignals \in Signals
  BY DEF MassSignals, Signals, PIILevels, Proposals, TrustLevels, Below
<1>2. "none" \in Proposals /\ Route(MassSignals) \in Decisions
  BY <1>1, RouteType DEF Proposals
<1>3. \A reason \in {"embedding_unavailable", "budget_exceeded"} : Degraded(reason) \in Decisions
  BY DoubtType DEF Degraded, Reasons
<1>4. CASE workers' = [workers EXCEPT ![w].pc = "analyse", ![w].asked = Len(questions)]
           /\ UNCHANGED aiRuns
  <2> DEFINE asked == Len(questions)
             record == [workers[w] EXCEPT !.pc = "analyse", !.asked = asked]
  <2>1. workers[w] \in Worker /\ asked \in Nat
    BY DEF TypeInv, TypeOK
  <2>2. workers' = [workers EXCEPT ![w] = record]
    BY <1>4
  <2> HIDE DEF asked
  <2>3. /\ record \in Worker /\ record.pc = "analyse" /\ record.stamp = workers[w].stamp
        /\ record.attempt = workers[w].attempt
    BY <2>1 DEF Worker
  <2> HIDE DEF record
  <2>4. /\ workers[w].attempt \in 1..(Len(aiRuns) + 1) /\ workers[w].stamp <= clock
        /\ clock \in Nat
    BY DEF Embed, TypeInv, TypeOK, WorkerOK, StampsOK
  <2>5. /\ UNCHANGED ticket /\ UNCHANGED rows /\ clock' = clock
        /\ messages' \in Nat /\ spent' \in [crashes : 0..MaxCrashes, losses : 0..MaxLosses]
    BY <1>4 DEF Embed, rows, TypeInv, TypeOK
  <2>6. record.stamp <= clock' /\ clock' \in Nat /\ clock <= clock'
    BY <2>3, <2>4, <2>5
  <2>7. /\ record.pc \in {"embed", "analyse"} => record.attempt \in 1..(Len(aiRuns) + 1)
        /\ record.pc \in {"stamp", "finalize"} => record.attempt \in 1..Len(aiRuns)
    BY <2>3, <2>4
  <2> QED
    BY <2>2, <2>3, <2>5, <2>6, <2>7, WorkerStep
<1>5. CASE \E reason \in {"embedding_unavailable", "budget_exceeded"} :
             Persist(w, "none", Degraded(reason))
  BY <1>2, <1>3, <1>5, PersistType DEF Embed
<1>6. CASE Persist(w, "none", Route(MassSignals))
  BY <1>2, <1>6, PersistType DEF Embed
<1> QED
  BY <1>4, <1>5, <1>6 DEF Embed

\* What core-api adds to ai-engine's findings leaves them signals.
LEMMA PolicedType ==
  ASSUME TypeInv, NEW w \in Workers, NEW found \in Analyses
  PROVE  Policed(found, w) \in Signals /\ Policed(found, w).asked = workers[w].asked
<1> DEFINE pii == workers[w].pii
           asked == workers[w].asked
<1>1. pii \in PIILevels /\ asked \in Nat
  BY DEF TypeInv, TypeOK, Worker
<1>2. found \in Signals
  BY SignalsAssumption
<1>3. Policed(found, w) = [found EXCEPT !.pii = pii, !.asked = asked]
  BY DEF Policed
<1> HIDE DEF pii, asked
<1>4. [found EXCEPT !.pii = pii, !.asked = asked] \in Signals
      /\ [found EXCEPT !.pii = pii, !.asked = asked].asked = asked
  BY <1>1, <1>2 DEF Signals
<1> QED
  BY <1>3, <1>4 DEF asked

LEMMA AnalyseType ==
  ASSUME TypeInv, NEW w \in Workers, Analyse(w)
  PROVE  TypeInv'
<1>1. CASE \E reason \in {"ai_engine_unavailable", "all_llm_down"} :
             Persist(w, "none", Degraded(reason))
  <2>1. "none" \in Proposals
        /\ \A reason \in {"ai_engine_unavailable", "all_llm_down"} : Degraded(reason) \in Decisions
    BY DoubtType DEF Degraded, Reasons, Proposals
  <2> QED
    BY <1>1, <2>1, PersistType DEF Analyse
<1>2. CASE \E found \in Analyses : Persist(w, found.proposal, Route(Policed(found, w)))
  <2>1. PICK found \in Analyses : Persist(w, found.proposal, Route(Policed(found, w)))
    BY <1>2
  <2>2. found.proposal \in Proposals
    BY SignalsAssumption DEF Signals
  <2>3. Route(Policed(found, w)) \in Decisions
    BY PolicedType, RouteType
  <2> QED
    BY <2>1, <2>2, <2>3, PersistType DEF Analyse
<1> QED
  BY <1>1, <1>2 DEF Analyse

LEMMA StampType ==
  ASSUME TypeInv, NEW w \in Workers, Stamp(w)
  PROVE  TypeInv'
<1> DEFINE record == [workers[w] EXCEPT !.pc = "finalize", !.stamp = clock]
<1>1. workers[w] \in Worker /\ clock \in Nat /\ workers[w].attempt \in 1..Len(aiRuns)
  BY DEF Stamp, TypeInv, TypeOK, WorkerOK
<1>2. workers' = [workers EXCEPT ![w] = record]
  BY DEF Stamp
<1>3. /\ record \in Worker /\ record.pc = "finalize" /\ record.stamp = clock
      /\ record.attempt = workers[w].attempt
  BY <1>1 DEF Worker
<1> HIDE DEF record
<1>4. /\ UNCHANGED ticket /\ UNCHANGED rows /\ clock' = clock + 1
      /\ messages' \in Nat /\ spent' \in [crashes : 0..MaxCrashes, losses : 0..MaxLosses]
  BY DEF Stamp, TypeInv, TypeOK
<1>5. record.stamp <= clock' /\ clock' \in Nat /\ clock <= clock'
  BY <1>1, <1>3, <1>4
<1>6. /\ record.pc \in {"embed", "analyse"} => record.attempt \in 1..(Len(aiRuns) + 1)
      /\ record.pc \in {"stamp", "finalize"} => record.attempt \in 1..Len(aiRuns)
  BY <1>1, <1>3
<1> QED
  BY <1>2, <1>3, <1>4, <1>5, <1>6, WorkerStep

\* A worker that ends its task, or dies.
LEMMA BackToIdle ==
  ASSUME TypeInv, NEW w \in Workers, workers' = [workers EXCEPT ![w] = Idle],
         messages' \in Nat, spent' \in [crashes : 0..MaxCrashes, losses : 0..MaxLosses],
         UNCHANGED <<ticket, rows, clock>>
  PROVE  TypeInv'
<1>1. clock \in Nat /\ clock' = clock
  BY DEF TypeInv, TypeOK
<1>2. Idle.stamp <= clock' /\ clock' \in Nat /\ clock <= clock'
  BY <1>1, IdleType
<1>3. Idle \in Worker /\ Idle.pc \notin {"embed", "analyse", "stamp", "finalize"}
  BY IdleType
<1>4. UNCHANGED ticket /\ UNCHANGED rows
  OBVIOUS
<1> QED
  BY <1>2, <1>3, <1>4, WorkerStep

LEMMA ReceiveType ==
  ASSUME TypeInv, NEW w \in Workers, Receive(w)
  PROVE  TypeInv'
<1> DEFINE attempt == Len(aiRuns) + 1
           record == [Idle EXCEPT !.pc = "embed", !.pii = ticket.pii, !.attempt = attempt]
<1>1. attempt \in Nat /\ attempt \in 1..(Len(aiRuns) + 1) /\ clock \in Nat
      /\ ticket.pii \in PIILevels /\ messages - 1 \in Nat
  BY DEF Receive, TypeInv, TypeOK
<1>2. workers' = [workers EXCEPT ![w] = record]
  BY DEF Receive
<1> HIDE DEF attempt
<1>3. /\ record \in Worker /\ record.pc = "embed" /\ record.stamp = 0
      /\ record.attempt = attempt
  BY <1>1, IdleType DEF Worker
<1> HIDE DEF record
<1>4. /\ UNCHANGED ticket /\ UNCHANGED rows /\ clock' = clock
      /\ messages' \in Nat /\ spent' \in [crashes : 0..MaxCrashes, losses : 0..MaxLosses]
  BY <1>1 DEF Receive, TypeInv, TypeOK
<1>5. record.stamp <= clock' /\ clock' \in Nat /\ clock <= clock'
  BY <1>1, <1>3, <1>4
<1>6. /\ record.pc \in {"embed", "analyse"} => record.attempt \in 1..(Len(aiRuns) + 1)
      /\ record.pc \in {"stamp", "finalize"} => record.attempt \in 1..Len(aiRuns)
  BY <1>1, <1>3
<1> QED
  BY <1>2, <1>3, <1>4, <1>5, <1>6, WorkerStep

LEMMA FinalizeType ==
  ASSUME TypeInv, NEW w \in Workers, NEW live \in BOOLEAN, NEW asking \in BOOLEAN,
         Finalize(w, live, asking)
  PROVE  TypeInv'
<1> DEFINE d == workers[w].decision
           shadow == ShadowMode \/ (d.branch \in {"auto_route", "auto_reply"} /\ ~live)
           waits == ticket.source = "chat" /\ Waits(d, ShadowMode \/ ~asking, workers[w].pii)
           row == [run |-> workers[w].attempt, decision |-> d, shadow |-> shadow,
                   stamp |-> workers[w].stamp]
           record == [workers[w] EXCEPT !.pc = "acknowledge"]
<1>1. /\ workers[w] \in Worker /\ d \in Decisions /\ workers[w].stamp \in Nat
      /\ workers[w].stamp <= clock /\ clock \in Nat
      /\ workers[w].attempt \in 1..Len(aiRuns) /\ DOMAIN aiRuns = 1..Len(aiRuns)
  BY DEF Finalize, TypeInv, TypeOK, WorkerOK, StampsOK, Worker
<1>2. shadow \in BOOLEAN
  BY SourceAssumption
<1>3. /\ decisions' = Append(decisions, row)
      /\ alerts' = IF d.alert THEN alerts + 1 ELSE alerts
      /\ \/ questions' = Append(questions, "open") /\ Hold(d)
         \/ Hold(d) /\ UNCHANGED questions
         \/ Execute(ticket.held, d, workers[w].attempt, shadow) /\ UNCHANGED questions
      /\ workers' = [workers EXCEPT ![w] = record]
      /\ UNCHANGED <<aiRuns, messages, clock, spent>>
  BY DEF Finalize, Do
<1>4. record \in Worker /\ record.pc = "acknowledge" /\ record.stamp = workers[w].stamp
  BY <1>1 DEF Worker
<1> HIDE DEF record, shadow
<1>5. row \in DecisionRow /\ row.run = workers[w].attempt /\ row.stamp = workers[w].stamp
  BY <1>1, <1>2 DEF DecisionRow
<1> HIDE DEF row
<1>6. ticket.held \in Decisions
  BY DEF TypeInv, TypeOK
<1>7. ASSUME Hold(d)
      PROVE  /\ ticket' \in TicketRow /\ attached' \in BOOLEAN
             /\ items' \in Seq(Item) /\ \A i \in DOMAIN items' : items'[i].run \in DOMAIN aiRuns'
  BY <1>1, <1>3, <1>7, HoldType
<1>8. ASSUME Execute(ticket.held, d, workers[w].attempt, shadow)
      PROVE  /\ ticket' \in TicketRow /\ attached' \in BOOLEAN
             /\ items' \in Seq(Item) /\ \A i \in DOMAIN items' : items'[i].run \in DOMAIN aiRuns'
  BY <1>1, <1>2, <1>3, <1>6, <1>8, ExecuteType
<1>9. /\ ticket' \in TicketRow /\ attached' \in BOOLEAN
      /\ items' \in Seq(Item) /\ \A i \in DOMAIN items' : items'[i].run \in DOMAIN aiRuns'
  BY <1>3, <1>7, <1>8
<1>10. /\ workers' \in [Workers -> Worker] /\ workers'[w] = record
       /\ \A v \in Workers \ {w} : workers'[v] = workers[v]
  BY <1>3, <1>4, WorkerUpdate DEF TypeInv, TypeOK
<1>11. questions' \in Seq({"open", "answered", "expired"})
  <2>1. questions \in Seq({"open", "answered", "expired"})
    BY DEF TypeInv, TypeOK
  <2> QED
    BY <1>3, <2>1, AppendType
<1>12. decisions \in Seq(DecisionRow) /\ Len(decisions) \in Nat /\ DOMAIN decisions = 1..Len(decisions)
  BY LenProperties DEF TypeInv, TypeOK
<1>13. /\ decisions' \in Seq(DecisionRow)
       /\ \A i \in DOMAIN decisions' : decisions'[i].run \in DOMAIN aiRuns'
       /\ \A i \in DOMAIN decisions' : decisions'[i].stamp <= clock'
  <2>1. /\ decisions' \in Seq(DecisionRow) /\ DOMAIN decisions' = 1..(Len(decisions) + 1)
        /\ \A i \in 1..Len(decisions) : decisions'[i] = decisions[i]
        /\ decisions'[Len(decisions) + 1] = row
    BY <1>3, <1>5, <1>12, AppendType
  <2>2. \A i \in DOMAIN decisions : decisions[i].run \in DOMAIN aiRuns /\ decisions[i].stamp <= clock
    BY DEF TypeInv, TypeOK, StampsOK
  <2>3. aiRuns' = aiRuns /\ clock' = clock
    BY <1>3
  <2>4. ASSUME NEW i \in DOMAIN decisions'
        PROVE  decisions'[i].run \in DOMAIN aiRuns' /\ decisions'[i].stamp <= clock'
    <3>1. CASE i \in 1..Len(decisions)
      BY <1>12, <2>1, <2>2, <2>3, <3>1
    <3>2. CASE i = Len(decisions) + 1
      BY <1>1, <1>5, <2>1, <2>3, <3>2
    <3> QED
      BY <1>12, <2>1, <3>1, <3>2
  <2> QED
    BY <2>1, <2>4
<1>14. TypeOK'
  <2>1. alerts' \in Nat
    BY <1>3 DEF TypeInv, TypeOK
  <2> QED
    BY <1>3, <1>9, <1>10, <1>11, <1>13, <2>1 DEF TypeInv, TypeOK, TicketRow
<1>15. ASSUME NEW v \in Workers PROVE WorkerOK(v)' /\ workers'[v].stamp <= clock'
  <2>1. CASE v = w
    BY <1>1, <1>3, <1>4, <1>10, <2>1 DEF WorkerOK
  <2>2. CASE v # w
    BY <1>3, <1>10, <2>2 DEF TypeInv, WorkerOK, StampsOK
  <2> QED
    BY <2>1, <2>2
<1> QED
  BY <1>13, <1>14, <1>15 DEF TypeInv, StampsOK

\* A step that leaves the workers and what they decided alone.
LEMMA TicketStep ==
  ASSUME TypeInv, ticket' \in TicketRow, questions' \in Seq({"open", "answered", "expired"}),
         items' \in Seq(Item), \A i \in DOMAIN items' : items'[i].run \in DOMAIN aiRuns',
         attached' \in BOOLEAN, messages' \in Nat,
         spent' \in [crashes : 0..MaxCrashes, losses : 0..MaxLosses],
         UNCHANGED <<aiRuns, decisions, alerts, workers, clock>>
  PROVE  TypeInv'
BY DEF TypeInv, TypeOK, TicketRow, WorkerOK, StampsOK

LEMMA ReleaseType ==
  ASSUME TypeInv, Release
  PROVE  TypeInv'
<1>1. PICK i \in DOMAIN decisions : LatestDecision = decisions[i]
  BY LatestType DEF Release, TypeInv, TypeOK, StampsOK
<1>2. LatestDecision \in DecisionRow /\ LatestDecision.run \in DOMAIN aiRuns
  BY <1>1, ElementOfSeq, LenProperties DEF TypeInv, TypeOK
<1>3. LatestDecision.shadow \in BOOLEAN
  BY <1>2 DEF DecisionRow
<1>4. NotHeld \in Decisions /\ ticket.held \in Decisions
  BY NotHeldType DEF TypeInv, TypeOK
<1>5. Execute(NotHeld, ticket.held, LatestDecision.run, LatestDecision.shadow)
  BY DEF Release
<1>6. UNCHANGED <<aiRuns, decisions, questions, alerts, messages, workers, clock, spent>>
  BY DEF Release
<1>7. /\ ticket' \in TicketRow /\ attached' \in BOOLEAN
      /\ items' \in Seq(Item) /\ \A j \in DOMAIN items' : items'[j].run \in DOMAIN aiRuns'
  BY <1>2, <1>3, <1>4, <1>5, <1>6, ExecuteType
<1>8. /\ questions' \in Seq({"open", "answered", "expired"}) /\ messages' \in Nat
      /\ spent' \in [crashes : 0..MaxCrashes, losses : 0..MaxLosses]
  BY <1>6 DEF TypeInv, TypeOK
<1> QED
  BY <1>6, <1>7, <1>8, TicketStep

\* Steps of the ticket's row, the questions and the messages.
LEMMA RowType ==
  ASSUME TypeInv, ticket' \in TicketRow, questions' \in Seq({"open", "answered", "expired"}),
         messages' \in Nat, spent' \in [crashes : 0..MaxCrashes, losses : 0..MaxLosses],
         UNCHANGED <<aiRuns, decisions, items, attached, alerts, workers, clock>>
  PROVE  TypeInv'
<1>1. /\ items' \in Seq(Item) /\ attached' \in BOOLEAN
      /\ \A i \in DOMAIN items' : items'[i].run \in DOMAIN aiRuns'
  BY DEF TypeInv, TypeOK
<1> QED
  BY <1>1, TicketStep

\* The last question gets another state.
LEMMA QuestionType ==
  ASSUME TypeInv, NEW state \in {"open", "answered", "expired"}
  PROVE  [questions EXCEPT ![Len(questions)] = state] \in Seq({"open", "answered", "expired"})
<1>1. questions \in Seq({"open", "answered", "expired"})
  BY DEF TypeInv, TypeOK
<1>2. CASE Len(questions) \in 1..Len(questions)
  BY <1>1, <1>2, ExceptSeq
<1>3. CASE Len(questions) \notin 1..Len(questions)
  <2>1. Len(questions) \notin DOMAIN questions
    BY <1>1, <1>3
  <2>2. [questions EXCEPT ![Len(questions)] = state] = questions
    BY <1>1, <2>1
  <2> QED
    BY <1>1, <2>2
<1> QED
  BY <1>2, <1>3

LEMMA AnswerType ==
  ASSUME TypeInv, NEW level \in AnswerLevels, Answer(level)
  PROVE  TypeInv'
<1> DEFINE worse == Worse(ticket.pii, level)
<1>1. ticket \in TicketRow /\ level \in PIILevels
  BY SignalsAssumption DEF TypeInv, TypeOK, TicketRow
<1>2. worse \in PIILevels /\ "new" \in Statuses /\ NotHeld \in Decisions
  BY <1>1, WorseType, NotHeldType DEF TicketRow, Statuses, Triage
<1>3. ticket' = [ticket EXCEPT !.status = "new", !.held = NotHeld, !.pii = worse]
  BY DEF Answer
<1> HIDE DEF worse
<1>4. ticket' \in TicketRow
  BY <1>1, <1>2, <1>3 DEF TicketRow
<1>5. questions' \in Seq({"open", "answered", "expired"})
  BY QuestionType DEF Answer
<1>6. /\ messages' \in Nat /\ spent' \in [crashes : 0..MaxCrashes, losses : 0..MaxLosses]
      /\ UNCHANGED <<aiRuns, decisions, items, attached, alerts, workers, clock>>
  BY DEF Answer, TypeInv, TypeOK
<1> QED
  BY <1>4, <1>5, <1>6, RowType

\* The steps of people, of time and of the broker.
LEMMA OthersType ==
  ASSUME TypeInv, Expire \/ TakeUp \/ Reopen \/ Lose
  PROVE  TypeInv'
<1>1. /\ ticket \in TicketRow /\ questions \in Seq({"open", "answered", "expired"})
      /\ messages \in Nat /\ spent \in [crashes : 0..MaxCrashes, losses : 0..MaxLosses]
  BY DEF TypeInv, TypeOK, TicketRow
<1>2. CASE Expire
  <2>1. questions' \in Seq({"open", "answered", "expired"})
    BY <1>2, QuestionType DEF Expire
  <2> QED
    BY <1>1, <1>2, <2>1, RowType DEF Expire
<1>3. CASE TakeUp
  <2>1. ticket' \in TicketRow
    BY <1>1, <1>3 DEF TakeUp, TicketRow, Statuses
  <2> QED
    BY <1>1, <1>3, <2>1, RowType DEF TakeUp, rows
<1>4. CASE Reopen
  <2>1. ticket' \in TicketRow
    BY <1>1, <1>4 DEF Reopen, TicketRow, Statuses
  <2> QED
    BY <1>1, <1>4, <2>1, RowType DEF Reopen, rows
<1>5. CASE Lose
  <2>1. messages' \in Nat
    BY <1>1, <1>5 DEF Lose
  <2>2. spent' \in [crashes : 0..MaxCrashes, losses : 0..MaxLosses]
    <3> DEFINE used == spent.losses + 1
    <3>1. spent.losses \in 0..MaxLosses /\ spent.losses < MaxLosses
      BY <1>1, <1>5 DEF Lose
    <3>2. used \in 0..MaxLosses
      BY <3>1, BoundsAssumption
    <3>3. spent' = [spent EXCEPT !.losses = used]
      BY <1>5 DEF Lose
    <3> HIDE DEF used
    <3> QED
      BY <1>1, <3>2, <3>3
  <2> QED
    BY <1>1, <1>5, <2>1, <2>2, RowType DEF Lose, rows
<1> QED
  BY <1>2, <1>3, <1>4, <1>5

LEMMA CrashType ==
  ASSUME TypeInv, NEW w \in Workers, Crash(w)
  PROVE  TypeInv'
<1> DEFINE used == spent.crashes + 1
<1>1. spent \in [crashes : 0..MaxCrashes, losses : 0..MaxLosses] /\ messages \in Nat
  BY DEF TypeInv, TypeOK
<1>2. used \in 0..MaxCrashes
  BY <1>1, BoundsAssumption DEF Crash
<1>3. spent' = [spent EXCEPT !.crashes = used]
  BY DEF Crash
<1> HIDE DEF used
<1>4. spent' \in [crashes : 0..MaxCrashes, losses : 0..MaxLosses]
  BY <1>1, <1>2, <1>3
<1>5. messages' \in Nat /\ workers' = [workers EXCEPT ![w] = Idle] /\ UNCHANGED <<ticket, rows, clock>>
  BY <1>1 DEF Crash
<1> QED
  BY <1>4, <1>5, BackToIdle

LEMMA AcknowledgeType ==
  ASSUME TypeInv, NEW w \in Workers, Acknowledge(w)
  PROVE  TypeInv'
<1>1. messages \in Nat /\ spent \in [crashes : 0..MaxCrashes, losses : 0..MaxLosses]
  BY DEF TypeInv, TypeOK
<1> QED
  BY <1>1, BackToIdle DEF Acknowledge

LEMMA InitType == Init => TypeInv
<1> SUFFICES ASSUME Init PROVE TypeInv
  OBVIOUS
<1>1. \A w \in Workers : workers[w] = Idle
  BY DEF Init
<1>2. TypeOK
  <2>1. workers \in [Workers -> Worker]
    BY IdleType DEF Init
  <2>2. ticket \in [status : Statuses, held : Decisions, pii : PIILevels, source : Sources]
    BY NotHeldType, SignalsAssumption DEF Init, Statuses, Triage
  <2>3. spent \in [crashes : 0..MaxCrashes, losses : 0..MaxLosses]
    BY BoundsAssumption DEF Init
  <2>4. /\ aiRuns \in Seq(Proposals) /\ decisions \in Seq(DecisionRow) /\ items \in Seq(Item)
        /\ questions \in Seq({"open", "answered", "expired"})
        /\ DOMAIN decisions = {} /\ DOMAIN items = {}
    BY DEF Init
  <2> QED
    BY <2>1, <2>2, <2>3, <2>4 DEF Init, TypeOK
<1>3. \A w \in Workers : WorkerOK(w) /\ workers[w].stamp <= clock
  BY <1>1, IdleType DEF Init, WorkerOK
<1>4. \A i \in DOMAIN decisions : decisions[i].stamp <= clock
  BY DEF Init
<1> QED
  BY <1>2, <1>3, <1>4 DEF TypeInv, StampsOK

LEMMA StepType == TypeInv /\ [Next]_vars => TypeInv'
<1> SUFFICES ASSUME TypeInv, [Next]_vars PROVE TypeInv'
  OBVIOUS
<1>1. CASE UNCHANGED vars
  BY <1>1 DEF vars, rows, TypeInv, TypeOK, WorkerOK, StampsOK
<1>2. ASSUME NEW w \in Workers, Receive(w) \/ Crash(w) PROVE TypeInv'
  BY <1>2, ReceiveType, CrashType
<1>3. ASSUME NEW w \in Workers, Work(w) PROVE TypeInv'
  BY <1>3, EmbedType, AnalyseType, StampType, FinalizeType, AcknowledgeType DEF Work
<1>4. CASE Requester
  BY <1>4, ReleaseType, AnswerType, OthersType DEF Requester
<1>5. CASE Expire \/ TakeUp \/ Lose
  BY <1>5, OthersType
<1> QED
  BY <1>1, <1>2, <1>3, <1>4, <1>5 DEF Next

\* Every row has its type, and every decision and review item names a run that exists: the
\* attempt is recorded (_persist_ai_run) before the decision that names it.
THEOREM TypeCorrect == Spec => []TypeOK
<1>1. Init => TypeInv
  BY InitType
<1>2. TypeInv /\ [Next]_vars => TypeInv'
  BY StepType
<1>3. TypeInv => TypeOK
  BY DEF TypeInv
<1> QED
  BY <1>1, <1>2, <1>3, PTL DEF Spec

\* The types as an invariant, for the proofs below.
LEMMA TypeInvariant == Spec => []TypeInv
BY InitType, StepType, PTL DEF Spec

---------------------------------------------------------------------------
(* New tickets are in somebody's hands *)

\* What a worker's own step does to its record: nobody else's changes.
LEMMA OthersKeep ==
  ASSUME TypeInv, NEW w \in Workers, Receive(w) \/ Work(w) \/ Crash(w)
  PROVE  \A v \in Workers \ {w} : workers'[v] = workers[v]
<1>1. workers \in [Workers -> Worker]
  BY DEF TypeInv, TypeOK
<1> QED
  BY <1>1 DEF Receive, Work, Crash, Embed, Analyse, Stamp, Finalize, Acknowledge, Persist, Do

\* Carrying a decision out, or holding it, ends triage or makes the ticket wait.
LEMMA DecidedIsNotNew ==
  ASSUME TypeInv, NEW w \in Workers, NEW live \in BOOLEAN, NEW asking \in BOOLEAN,
         Finalize(w, live, asking)
  PROVE  ticket'.status # "new"
<1> DEFINE d == workers[w].decision
<1>1. \/ Hold(d)
      \/ \E shadow \in BOOLEAN : Execute(ticket.held, d, workers[w].attempt, shadow)
  BY SourceAssumption DEF Finalize
<1>2. ticket \in TicketRow
  BY DEF TypeInv, TypeOK, TicketRow
<1>3. CASE Hold(d)
  BY <1>2, <1>3 DEF Hold, TicketRow
<1>4. ASSUME NEW shadow \in BOOLEAN, Execute(ticket.held, d, workers[w].attempt, shadow)
      PROVE  ticket'.status # "new"
  BY <1>2, <1>4 DEF Execute, TicketRow, Handed
<1> QED
  BY <1>1, <1>3, <1>4

LEMMA InHandStep ==
  ASSUME TypeInv, NewTicketsAreInHand, [Next]_vars
  PROVE  NewTicketsAreInHand'
<1>1. /\ ticket \in TicketRow /\ messages \in Nat /\ workers \in [Workers -> Worker]
      /\ spent \in [crashes : 0..MaxCrashes, losses : 0..MaxLosses]
  BY DEF TypeInv, TypeOK, TicketRow
<1>2. CASE UNCHANGED vars
  BY <1>2 DEF vars, NewTicketsAreInHand, Busy
<1>3. ASSUME NEW w \in Workers, Receive(w) PROVE NewTicketsAreInHand'
  <2>1. workers'[w].pc = "embed"
    BY <1>1, <1>3 DEF Receive, Idle
  <2> QED
    BY <2>1 DEF NewTicketsAreInHand, Busy
<1>4. ASSUME NEW w \in Workers, Embed(w) \/ Analyse(w) \/ Stamp(w) PROVE NewTicketsAreInHand'
  <2>1. workers'[w].pc \in {"analyse", "stamp", "finalize"}
    <3>1. workers[w] \in Worker /\ DOMAIN workers = Workers
      BY <1>1
    <3>2. ASSUME NEW proposal, NEW d, Persist(w, proposal, d) PROVE workers'[w].pc = "stamp"
      <4> DEFINE record == [workers[w] EXCEPT !.pc = "stamp", !.decision = d]
      <4>1. workers' = [workers EXCEPT ![w] = record]
        BY <3>2 DEF Persist
      <4>2. record.pc = "stamp"
        BY <3>1 DEF Worker
      <4> QED
        BY <3>1, <4>1, <4>2
    <3>3. CASE workers' = [workers EXCEPT ![w].pc = "analyse", ![w].asked = Len(questions)]
      <4> DEFINE record == [workers[w] EXCEPT !.pc = "analyse", !.asked = Len(questions)]
      <4>1. workers' = [workers EXCEPT ![w] = record]
        BY <3>3
      <4>2. record.pc = "analyse"
        BY <3>1 DEF Worker
      <4> QED
        BY <3>1, <4>1, <4>2
    <3>4. CASE Stamp(w)
      <4> DEFINE record == [workers[w] EXCEPT !.pc = "finalize", !.stamp = clock]
      <4>1. workers' = [workers EXCEPT ![w] = record]
        BY <3>4 DEF Stamp
      <4>2. record.pc = "finalize"
        BY <3>1 DEF Worker
      <4> QED
        BY <3>1, <4>1, <4>2
    <3> QED
      BY <1>4, <3>2, <3>3, <3>4 DEF Embed, Analyse
  <2> QED
    BY <2>1 DEF NewTicketsAreInHand, Busy
<1>5. ASSUME NEW w \in Workers, NEW live \in BOOLEAN, NEW asking \in BOOLEAN,
             Finalize(w, live, asking)
      PROVE  NewTicketsAreInHand'
  BY <1>5, DecidedIsNotNew DEF NewTicketsAreInHand
<1>6. ASSUME NEW w \in Workers, Acknowledge(w) PROVE NewTicketsAreInHand'
  <2>1. ticket' = ticket /\ messages' = messages /\ spent' = spent
    BY <1>6 DEF Acknowledge
  <2>2. ASSUME NEW v \in Workers, Busy(v) PROVE Busy(v)'
    BY <1>1, <1>6, <2>2 DEF Acknowledge, Busy
  <2> QED
    BY <2>1, <2>2 DEF NewTicketsAreInHand
<1>7. ASSUME NEW w \in Workers, Crash(w) PROVE NewTicketsAreInHand'
  BY <1>1, <1>7 DEF Crash, NewTicketsAreInHand
<1>8. CASE Requester
  <2>1. CASE Release
    <3>1. PICK run, shadow : Execute(NotHeld, ticket.held, run, shadow)
      BY <2>1 DEF Release
    <3> QED
      BY <1>1, <3>1 DEF Execute, Handed, TicketRow, NewTicketsAreInHand
  <2>2. ASSUME NEW level \in AnswerLevels, Answer(level) PROVE NewTicketsAreInHand'
    BY <1>1, <2>2 DEF Answer, NewTicketsAreInHand
  <2>3. CASE Reopen
    BY <1>1, <2>3 DEF Reopen, TicketRow, NewTicketsAreInHand
  <2> QED
    BY <1>8, <2>1, <2>2, <2>3 DEF Requester
<1>9. CASE Expire
  BY <1>9 DEF Expire, NewTicketsAreInHand, Busy
<1>10. CASE TakeUp
  BY <1>1, <1>10 DEF TakeUp, TicketRow, NewTicketsAreInHand
<1>11. CASE Lose
  <2>1. spent'.losses = spent.losses + 1 /\ spent.losses \in Nat
    BY <1>1, <1>11 DEF Lose
  <2> QED
    BY <2>1 DEF NewTicketsAreInHand
<1> QED
  BY <1>2, <1>3, <1>4, <1>5, <1>6, <1>7, <1>8, <1>9, <1>10, <1>11 DEF Next, Work

\* A ticket is never left at `new` with nothing to take it further, however often workers
\* die: only a lost message can leave it there, and then nothing looks for it.
LEMMA NewTicketsFound == Spec => []NewTicketsAreInHand
<1>1. Init => NewTicketsAreInHand
  BY DEF Init, NewTicketsAreInHand
<1>2. TypeInv /\ NewTicketsAreInHand /\ [Next]_vars => NewTicketsAreInHand'
  BY InHandStep
<1> QED
  BY <1>1, <1>2, TypeInvariant, PTL DEF Spec

---------------------------------------------------------------------------
(* Nothing is dropped *)

\* Behind what is held there is a decision on record.
HeldIsRecorded ==
  ticket.held # NotHeld => \E i \in DOMAIN decisions : decisions[i].decision = ticket.held

\* Wherever a decision sends a ticket, somebody finds it there.
LEMMA ExecutedIsFound ==
  ASSUME TypeInv, NEW held, NEW d \in Decisions, NEW run, NEW shadow \in BOOLEAN,
         Execute(held, d, run, shadow),
         \E i \in DOMAIN decisions' : decisions'[i].decision.branch = d.branch
  PROVE  NothingIsDropped' /\ ticket'.held = held
<1>1. ticket \in TicketRow /\ items \in Seq(Item)
  BY DEF TypeInv, TypeOK, TicketRow
<1> DEFINE item == [queue |-> QueueOf(d, shadow), run |-> run]
<1>2. PICK taken \in Takes(d, shadow) :
        /\ ticket' = [ticket EXCEPT !.held = held, !.status = Handed(d, shadow)]
        /\ items' = IF NeedsPerson(d, shadow, taken) THEN Append(items, item) ELSE items
        /\ attached' = (attached \/ taken)
  BY DEF Execute
<1>3. ticket'.held = held /\ ticket'.status = Handed(d, shadow)
  BY <1>1, <1>2 DEF TicketRow
<1> HIDE DEF item
<1>4. NeedsPerson(d, shadow, taken) => items' # << >>
  BY <1>1, <1>2
<1>5. CASE d.branch = "block"
  BY <1>3, <1>4, <1>5 DEF Handed, NeedsPerson, Takes, NothingIsDropped
<1>6. CASE d.branch = "escalate"
  <2>1. Handed(d, shadow) = "escalated"
    BY <1>6 DEF Handed
  <2>2. CASE taken = TRUE
    <3>1. attached' = TRUE
      BY <1>2, <2>2
    <3> QED
      BY <1>3, <2>1, <3>1 DEF NothingIsDropped
  <2>3. CASE taken = FALSE
    <3>1. NeedsPerson(d, shadow, taken)
      BY <1>6, <2>3 DEF NeedsPerson
    <3> QED
      BY <1>3, <1>4, <2>1, <3>1 DEF NothingIsDropped
  <2> QED
    BY <1>2, <2>2, <2>3 DEF Takes
<1>7. CASE d.branch = "auto_reply" /\ ~shadow
  BY <1>3, <1>7 DEF Handed, NothingIsDropped, Decided
<1>8. CASE d.branch = "auto_route" /\ ~shadow
  BY <1>3, <1>8 DEF Handed, NothingIsDropped, Decided
<1>9. CASE /\ d.branch \notin {"block", "escalate"}
           /\ ~(d.branch \in {"auto_reply", "auto_route"} /\ ~shadow)
  <2>1. Handed(d, shadow) = "pending_review" /\ taken = FALSE
    BY <1>2, <1>9 DEF Handed, Takes
  <2>2. NeedsPerson(d, shadow, taken)
    BY <1>9, <2>1 DEF NeedsPerson
  <2> QED
    BY <1>3, <1>4, <2>1, <2>2 DEF NothingIsDropped
<1> QED
  BY <1>3, <1>5, <1>6, <1>7, <1>8, <1>9

\* A step that leaves the ticket and its rows alone, but for the runs and the questions.
LEMMA DroppedSame ==
  ASSUME HeldIsRecorded, NothingIsDropped, UNCHANGED <<ticket, decisions, items, attached>>
  PROVE  (HeldIsRecorded /\ NothingIsDropped)'
BY DEF HeldIsRecorded, NothingIsDropped, Decided

\* One that moves a ticket on to where people work, or back to the pipeline.
LEMMA DroppedMoved ==
  ASSUME HeldIsRecorded, ticket'.status \in {"new", "working", "reopened"},
         ticket'.held \in {ticket.held, NotHeld}, UNCHANGED decisions
  PROVE  (HeldIsRecorded /\ NothingIsDropped)'
BY DEF HeldIsRecorded, NothingIsDropped

LEMMA DroppedFinalize ==
  ASSUME TypeInv, HeldIsRecorded, NothingIsDropped, NEW w \in Workers, NEW live \in BOOLEAN,
         NEW asking \in BOOLEAN, Finalize(w, live, asking)
  PROVE  (HeldIsRecorded /\ NothingIsDropped)'
<1> DEFINE d == workers[w].decision
           shadow == ShadowMode \/ (d.branch \in {"auto_route", "auto_reply"} /\ ~live)
           waits == ticket.source = "chat" /\ Waits(d, ShadowMode \/ ~asking, workers[w].pii)
           row == [run |-> workers[w].attempt, decision |-> d, shadow |-> shadow,
                   stamp |-> workers[w].stamp]
<1>1. d \in Decisions /\ shadow \in BOOLEAN /\ ticket.held \in Decisions /\ ticket \in TicketRow
  BY SourceAssumption DEF TypeInv, TypeOK, Worker, TicketRow
<1>2. /\ decisions' = Append(decisions, row)
      /\ \/ waits /\ Hold(d)
         \/ Execute(ticket.held, d, workers[w].attempt, shadow)
  BY DEF Finalize
<1>3. waits => d.branch \in {"hitl", "clarify", "auto_route"}
  BY DEF Waits
<1>4. row.decision = d
  OBVIOUS
<1> HIDE DEF shadow, waits, row
<1>5. /\ decisions' # << >> /\ \E i \in DOMAIN decisions' : decisions'[i].decision = d
      /\ \A i \in DOMAIN decisions : i \in DOMAIN decisions' /\ decisions'[i] = decisions[i]
  <2>1. decisions \in Seq(DecisionRow)
    BY DEF TypeInv, TypeOK
  <2>2. /\ decisions' # << >> /\ DOMAIN decisions' = 1..(Len(decisions) + 1)
        /\ decisions'[Len(decisions) + 1] = row /\ Len(decisions) \in Nat
        /\ DOMAIN decisions = 1..Len(decisions)
        /\ \A i \in 1..Len(decisions) : decisions'[i] = decisions[i]
    BY <1>2, <2>1
  <2>3. Len(decisions) + 1 \in DOMAIN decisions'
    BY <2>2
  <2> QED
    BY <1>4, <2>2, <2>3
<1>6. \E i \in DOMAIN decisions' : decisions'[i].decision.branch = d.branch
  BY <1>5
<1>7. CASE waits /\ Hold(d)
  <2>1. ticket'.held = d /\ ticket'.status = "awaiting_requester"
    BY <1>1, <1>7 DEF Hold, TicketRow
  <2>2. d # NotHeld
    BY <1>3, <1>7 DEF NotHeld, Decision
  <2> QED
    BY <1>5, <2>1, <2>2 DEF HeldIsRecorded, NothingIsDropped
<1>8. CASE Execute(ticket.held, d, workers[w].attempt, shadow)
  <2>1. NothingIsDropped' /\ ticket'.held = ticket.held
    BY <1>1, <1>6, <1>8, ExecutedIsFound
  <2>2. HeldIsRecorded'
    BY <1>5, <2>1 DEF HeldIsRecorded
  <2> QED
    BY <2>1, <2>2
<1> QED
  BY <1>2, <1>7, <1>8

LEMMA DroppedRelease ==
  ASSUME TypeInv, HeldIsRecorded, Release
  PROVE  (HeldIsRecorded /\ NothingIsDropped)'
<1>1. PICK i \in DOMAIN decisions : LatestDecision = decisions[i]
  BY LatestType DEF Release, TypeInv, TypeOK, StampsOK
<1>2. LatestDecision \in DecisionRow
  BY <1>1, ElementOfSeq, LenProperties DEF TypeInv, TypeOK
<1>3. LatestDecision.shadow \in BOOLEAN /\ ticket.held \in Decisions
  BY <1>2 DEF DecisionRow, TypeInv, TypeOK
<1>4. /\ Execute(NotHeld, ticket.held, LatestDecision.run, LatestDecision.shadow)
      /\ UNCHANGED decisions /\ ticket.held # NotHeld
  BY DEF Release
<1>5. \E j \in DOMAIN decisions' : decisions'[j].decision.branch = ticket.held.branch
  BY <1>4 DEF HeldIsRecorded
<1>6. NothingIsDropped' /\ ticket'.held = NotHeld
  BY <1>3, <1>4, <1>5, ExecutedIsFound
<1> QED
  BY <1>6 DEF HeldIsRecorded

LEMMA DroppedStep ==
  ASSUME TypeInv, HeldIsRecorded, NothingIsDropped, [Next]_vars
  PROVE  (HeldIsRecorded /\ NothingIsDropped)'
<1>1. ticket \in TicketRow
  BY DEF TypeInv, TypeOK, TicketRow
<1>2. CASE UNCHANGED vars
  BY <1>2, DroppedSame DEF vars, rows
<1>3. ASSUME NEW w \in Workers,
             Receive(w) \/ Embed(w) \/ Analyse(w) \/ Stamp(w) \/ Acknowledge(w) \/ Crash(w)
      PROVE  (HeldIsRecorded /\ NothingIsDropped)'
  BY <1>3, DroppedSame DEF Receive, Embed, Analyse, Stamp, Acknowledge, Crash, rows
<1>4. ASSUME NEW w \in Workers, NEW live \in BOOLEAN, NEW asking \in BOOLEAN,
             Finalize(w, live, asking)
      PROVE  (HeldIsRecorded /\ NothingIsDropped)'
  BY <1>4, DroppedFinalize
<1>5. CASE Release
  BY <1>5, DroppedRelease
<1>6. ASSUME NEW level \in AnswerLevels, Answer(level)
      PROVE  (HeldIsRecorded /\ NothingIsDropped)'
  <2>1. ticket'.status = "new" /\ ticket'.held = NotHeld /\ UNCHANGED decisions
    BY <1>1, <1>6 DEF Answer, TicketRow
  <2> QED
    BY <2>1, DroppedMoved
<1>7. CASE TakeUp \/ Reopen
  <2>1. /\ ticket'.status \in {"working", "reopened"} /\ ticket'.held = ticket.held
        /\ UNCHANGED decisions
    BY <1>1, <1>7 DEF TakeUp, Reopen, TicketRow, rows
  <2> QED
    BY <2>1, DroppedMoved
<1>8. CASE Expire \/ Lose
  BY <1>8, DroppedSame DEF Expire, Lose, rows
<1> QED
  BY <1>2, <1>3, <1>4, <1>5, <1>6, <1>7, <1>8 DEF Next, Work, Requester

\* Wherever the pipeline leaves a ticket, somebody finds it there: its requester, a person
\* with an item of the review queue, an incident, a team, or the answer its decision allowed.
LEMMA NothingDropped == Spec => []NothingIsDropped
<1>1. Init => HeldIsRecorded /\ NothingIsDropped
  BY DEF Init, HeldIsRecorded, NothingIsDropped
<1>2. TypeInv /\ (HeldIsRecorded /\ NothingIsDropped) /\ [Next]_vars
        => (HeldIsRecorded /\ NothingIsDropped)'
  BY DroppedStep
<1> QED
  BY <1>1, <1>2, TypeInvariant, PTL DEF Spec

\* Whatever part of the machinery fails and whoever dies, every ticket is in somebody's hands:
\* a new one until its message is lost, and every other by what was decided of it.
THEOREM EveryTicketFound == Spec => []EveryTicketIsInHand
<1>1. NothingIsDropped /\ NewTicketsAreInHand => EveryTicketIsInHand
  BY DEF EveryTicketIsInHand
<1> QED
  BY <1>1, NewTicketsFound, NothingDropped, PTL

---------------------------------------------------------------------------
(* One question per ticket *)

\* Until a ticket has been asked a question there is one delivery of it at most, waiting or
\* being worked on: only an answer sends another.
OneDelivery ==
  questions = << >> =>
    /\ messages <= 1
    /\ messages = 1 => \A w \in Workers : workers[w].pc = "idle"
    /\ \A v, w \in Workers : workers[v].pc # "idle" /\ workers[w].pc # "idle" => v = w

\* A worker that may still ask has counted no question, and there is none.
Unasked(w) ==
  /\ workers[w].pc = "analyse" /\ workers[w].asked < MaxRounds => questions = << >>
  /\ workers[w].pc \in {"stamp", "finalize"} /\ workers[w].decision.branch = "clarify" =>
       questions = << >> /\ 1 <= MaxRounds

Asking == AskedOnce /\ OneDelivery /\ \A w \in Workers : Unasked(w)

\* A step of one worker, no question added, that neither starts nor ends its task.
LEMMA AskingWork ==
  ASSUME Asking, NEW w \in Workers, NEW record, workers \in [Workers -> Worker],
         workers' = [workers EXCEPT ![w] = record], workers[w].pc # "idle", record.pc # "idle",
         UNCHANGED <<questions, messages>>,
         record.pc = "analyse" /\ record.asked < MaxRounds => questions = << >>,
         record.pc \in {"stamp", "finalize"} /\ record.decision.branch = "clarify" =>
           questions = << >> /\ 1 <= MaxRounds
  PROVE  Asking'
<1>1. workers'[w] = record /\ \A v \in Workers \ {w} : workers'[v] = workers[v]
  OBVIOUS
<1>2. OneDelivery'
  BY <1>1 DEF Asking, OneDelivery
<1>3. ASSUME NEW v \in Workers PROVE Unasked(v)'
  BY <1>1 DEF Asking, Unasked
<1> QED
  BY <1>2, <1>3 DEF Asking, AskedOnce

LEMMA AskingPersist ==
  ASSUME TypeInv, Asking, NEW w \in Workers, workers[w].pc \in {"embed", "analyse"},
         NEW proposal, NEW d \in Decisions, Persist(w, proposal, d),
         d.branch = "clarify" => questions = << >> /\ 1 <= MaxRounds,
         UNCHANGED <<questions, messages>>
  PROVE  Asking'
<1> DEFINE record == [workers[w] EXCEPT !.pc = "stamp", !.decision = d]
<1>1. workers[w] \in Worker /\ workers \in [Workers -> Worker]
  BY DEF TypeInv, TypeOK
<1>2. record.pc = "stamp" /\ record.decision = d
  BY <1>1 DEF Worker
<1>3. workers' = [workers EXCEPT ![w] = record]
  BY DEF Persist
<1> HIDE DEF record
<1> QED
  BY <1>1, <1>2, <1>3, AskingWork

LEMMA AskingEmbed ==
  ASSUME TypeInv, Asking, MaxRounds <= 1, NEW w \in Workers, Embed(w)
  PROVE  Asking'
<1>1. \A reason \in {"embedding_unavailable", "budget_exceeded"} :
        Degraded(reason) \in Decisions /\ Degraded(reason).branch = "hitl"
  BY DoubtType DEF Degraded, Reasons
<1>2. Route(MassSignals) \in Decisions /\ Route(MassSignals).branch # "clarify"
  <2>1. MassSignals \in Signals /\ MassSignals.proposal = "none"
    BY DEF MassSignals, Signals, PIILevels, Proposals, TrustLevels, Below
  <2> QED
    BY <2>1, RouteType, QuestionsAreCapped
<1>3. workers[w].pc = "embed" /\ UNCHANGED <<questions, messages>>
  BY DEF Embed
<1>4. CASE \E reason \in {"embedding_unavailable", "budget_exceeded"} :
             Persist(w, "none", Degraded(reason))
  BY <1>1, <1>3, <1>4, AskingPersist
<1>5. CASE Persist(w, "none", Route(MassSignals))
  BY <1>2, <1>3, <1>5, AskingPersist
<1>6. CASE workers' = [workers EXCEPT ![w].pc = "analyse", ![w].asked = Len(questions)]
  <2> DEFINE asked == Len(questions)
             record == [workers[w] EXCEPT !.pc = "analyse", !.asked = asked]
  <2>1. workers[w] \in Worker /\ workers \in [Workers -> Worker]
    BY DEF TypeInv, TypeOK
  <2>2. asked \in Nat /\ (asked < 1 => questions = << >>)
    <3>1. questions \in Seq({"open", "answered", "expired"})
      BY DEF TypeInv, TypeOK
    <3> QED
      BY <3>1
  <2>3. workers' = [workers EXCEPT ![w] = record]
    BY <1>6
  <2> HIDE DEF asked
  <2>4. record.pc = "analyse" /\ record.asked = asked
    BY <2>1 DEF Worker
  <2> HIDE DEF record
  <2>5. record.asked < MaxRounds => questions = << >>
    BY <2>2, <2>4, MaxRoundsAssumption
  <2> QED
    BY <1>3, <2>1, <2>3, <2>4, <2>5, AskingWork
<1> QED
  BY <1>4, <1>5, <1>6 DEF Embed

LEMMA AskingAnalyse ==
  ASSUME TypeInv, Asking, NEW w \in Workers, Analyse(w)
  PROVE  Asking'
<1>1. workers[w].pc = "analyse" /\ UNCHANGED <<questions, messages>>
  BY DEF Analyse
<1>2. CASE \E reason \in {"ai_engine_unavailable", "all_llm_down"} :
             Persist(w, "none", Degraded(reason))
  <2>1. \A reason \in {"ai_engine_unavailable", "all_llm_down"} :
          Degraded(reason) \in Decisions /\ Degraded(reason).branch = "hitl"
    BY DoubtType DEF Degraded, Reasons
  <2> QED
    BY <1>1, <1>2, <2>1, AskingPersist
<1>3. ASSUME NEW found \in Analyses,
             Persist(w, found.proposal, Route(Policed(found, w)))
      PROVE  Asking'
  <2>1. Policed(found, w) \in Signals /\ Policed(found, w).asked = workers[w].asked
    BY PolicedType
  <2>2. Route(Policed(found, w)).branch = "clarify" => workers[w].asked < MaxRounds
    BY <2>1, QuestionsAreCapped
  <2>3. workers[w].asked \in Nat
    BY DEF TypeInv, TypeOK, Worker
  <2>4. Route(Policed(found, w)).branch = "clarify" => questions = << >> /\ 1 <= MaxRounds
    BY <1>1, <2>2, <2>3, MaxRoundsAssumption DEF Asking, Unasked
  <2>5. Route(Policed(found, w)) \in Decisions
    BY <2>1, RouteType
  <2> QED
    BY <1>1, <1>3, <2>4, <2>5, AskingPersist
<1> QED
  BY <1>2, <1>3 DEF Analyse

LEMMA AskingStamp ==
  ASSUME TypeInv, Asking, NEW w \in Workers, Stamp(w)
  PROVE  Asking'
<1> DEFINE record == [workers[w] EXCEPT !.pc = "finalize", !.stamp = clock]
<1>1. workers[w] \in Worker /\ workers \in [Workers -> Worker]
  BY DEF TypeInv, TypeOK
<1>2. record.pc = "finalize" /\ record.decision = workers[w].decision
  BY <1>1 DEF Worker
<1>3. /\ workers' = [workers EXCEPT ![w] = record] /\ workers[w].pc = "stamp"
      /\ UNCHANGED <<questions, messages>>
  BY DEF Stamp, rows
<1>4. record.decision.branch = "clarify" => questions = << >> /\ 1 <= MaxRounds
  BY <1>2, <1>3 DEF Asking, Unasked
<1> HIDE DEF record
<1> QED
  BY <1>1, <1>2, <1>3, <1>4, AskingWork

LEMMA AskingFinalize ==
  ASSUME TypeInv, Asking, NEW w \in Workers, NEW live \in BOOLEAN, NEW asking \in BOOLEAN,
         Finalize(w, live, asking)
  PROVE  Asking'
<1> DEFINE record == [workers[w] EXCEPT !.pc = "acknowledge"]
<1>1. workers[w] \in Worker /\ workers \in [Workers -> Worker]
      /\ questions \in Seq({"open", "answered", "expired"})
  BY DEF TypeInv, TypeOK
<1>2. record.pc = "acknowledge"
  BY <1>1 DEF Worker
<1>3. /\ workers' = [workers EXCEPT ![w] = record] /\ workers[w].pc = "finalize"
      /\ messages' = messages
      /\ \/ UNCHANGED questions
         \/ workers[w].decision.branch = "clarify" /\ questions' = Append(questions, "open")
  BY DEF Finalize, Do
<1> HIDE DEF record
<1>4. CASE UNCHANGED questions
  BY <1>1, <1>2, <1>3, <1>4, AskingWork
<1>5. CASE workers[w].decision.branch = "clarify" /\ questions' = Append(questions, "open")
  <2>1. questions = << >> /\ 1 <= MaxRounds
    BY <1>3, <1>5 DEF Asking, Unasked
  <2>2. questions' # << >> /\ Len(questions') = 1
    BY <1>1, <1>5, <2>1
  <2>3. ASSUME NEW v \in Workers PROVE workers'[v].pc \in {"idle", "acknowledge"}
    <3>1. v # w => workers[v].pc = "idle"
      BY <1>3, <2>1 DEF Asking, OneDelivery
    <3> QED
      BY <1>1, <1>2, <1>3, <3>1
  <2> QED
    BY <2>1, <2>2, <2>3 DEF Asking, AskedOnce, OneDelivery, Unasked
<1> QED
  BY <1>3, <1>4, <1>5

\* A worker that takes the delivery, ends it, or dies with it.
LEMMA AskingTask ==
  ASSUME TypeInv, Asking, NEW w \in Workers, Receive(w) \/ Acknowledge(w) \/ Crash(w)
  PROVE  Asking'
<1>1. workers \in [Workers -> Worker] /\ messages \in Nat
  BY DEF TypeInv, TypeOK
<1>2. CASE Receive(w)
  <2>1. /\ workers'[w].pc = "embed" /\ \A v \in Workers \ {w} : workers'[v] = workers[v]
        /\ UNCHANGED questions /\ messages' = messages - 1 /\ messages > 0
    BY <1>1, <1>2, IdleType DEF Receive, rows, Idle
  <2>2. OneDelivery'
    BY <1>1, <2>1 DEF Asking, OneDelivery
  <2>3. ASSUME NEW v \in Workers PROVE Unasked(v)'
    BY <2>1 DEF Asking, Unasked
  <2> QED
    BY <2>1, <2>2, <2>3 DEF Asking, AskedOnce
<1>3. CASE Acknowledge(w)
  <2>1. /\ workers'[w].pc = "idle" /\ \A v \in Workers \ {w} : workers'[v] = workers[v]
        /\ UNCHANGED questions /\ messages' = messages
    BY <1>1, <1>3, IdleType DEF Acknowledge, rows
  <2>2. OneDelivery'
    BY <1>1, <2>1 DEF Asking, OneDelivery
  <2>3. ASSUME NEW v \in Workers PROVE Unasked(v)'
    BY <2>1 DEF Asking, Unasked
  <2> QED
    BY <2>1, <2>2, <2>3 DEF Asking, AskedOnce
<1>4. CASE Crash(w)
  <2>1. /\ workers'[w].pc = "idle" /\ \A v \in Workers \ {w} : workers'[v] = workers[v]
        /\ UNCHANGED questions /\ messages' = messages + 1 /\ workers[w].pc # "idle"
    BY <1>1, <1>4, IdleType DEF Crash, rows
  <2>2. questions = << >> => messages = 0 /\ \A v \in Workers \ {w} : workers[v].pc = "idle"
    BY <1>1, <2>1 DEF Asking, OneDelivery
  <2>3. OneDelivery'
    BY <2>1, <2>2 DEF OneDelivery
  <2>4. ASSUME NEW v \in Workers PROVE Unasked(v)'
    BY <2>1 DEF Asking, Unasked
  <2> QED
    BY <2>1, <2>3, <2>4 DEF Asking, AskedOnce
<1> QED
  BY <1>2, <1>3, <1>4

\* A step that takes no message up and asks nothing; it may add messages once there has been
\* a question.
LEMMA AskingElse ==
  ASSUME TypeInv, Asking, UNCHANGED workers,
         Len(questions') = Len(questions), questions' = << >> <=> questions = << >>,
         messages' \in Nat, questions = << >> => messages' <= messages
  PROVE  Asking'
<1>1. messages \in Nat
  BY DEF TypeInv, TypeOK
<1>2. OneDelivery'
  BY <1>1 DEF Asking, OneDelivery
<1>3. \A w \in Workers : Unasked(w)'
  BY DEF Asking, Unasked
<1> QED
  BY <1>2, <1>3 DEF Asking, AskedOnce

LEMMA AskingOthers ==
  ASSUME TypeInv, Asking, Requester \/ Expire \/ TakeUp \/ Lose
  PROVE  Asking'
<1>1. questions \in Seq({"open", "answered", "expired"}) /\ messages \in Nat
  BY DEF TypeInv, TypeOK
<1>2. CASE Release \/ TakeUp \/ Reopen \/ Lose
  <2>1. /\ UNCHANGED <<workers, questions>> /\ messages' \in Nat /\ messages' <= messages
    BY <1>1, <1>2 DEF Release, TakeUp, Reopen, Lose, rows
  <2> QED
    BY <2>1, AskingElse
<1>3. ASSUME NEW state, questions # << >>,
             questions' = [questions EXCEPT ![Len(questions)] = state]
      PROVE  questions' # << >> /\ Len(questions') = Len(questions)
  <2>1. Len(questions) \in Nat /\ DOMAIN questions = 1..Len(questions) /\ Len(questions) # 0
    BY <1>1, <1>3
  <2>2. DOMAIN questions' = 1..Len(questions)
    BY <1>3, <2>1
  <2>3. questions' \in Seq({"open", "answered", "expired", state})
    BY <1>1, <1>3
  <2> QED
    BY <2>1, <2>2, <2>3
<1>4. CASE Expire
  <2>1. questions' # << >> /\ Len(questions') = Len(questions) /\ questions # << >>
    BY <1>3, <1>4 DEF Expire
  <2>2. UNCHANGED workers /\ messages' = messages
    BY <1>4 DEF Expire
  <2> QED
    BY <1>1, <2>1, <2>2, AskingElse
<1>5. ASSUME NEW level \in AnswerLevels, Answer(level) PROVE Asking'
  <2>1. questions' # << >> /\ Len(questions') = Len(questions) /\ questions # << >>
    BY <1>3, <1>5 DEF Answer, OpenQuestion
  <2>2. UNCHANGED workers /\ messages' \in Nat
    BY <1>1, <1>5 DEF Answer
  <2> QED
    BY <2>1, <2>2, AskingElse
<1> QED
  BY <1>2, <1>4, <1>5 DEF Requester

LEMMA AskingStep ==
  ASSUME TypeInv, Asking, MaxRounds <= 1, [Next]_vars
  PROVE  Asking'
<1>1. CASE UNCHANGED vars
  BY <1>1 DEF vars, rows, Asking, AskedOnce, OneDelivery, Unasked
<1>2. ASSUME NEW w \in Workers, Receive(w) \/ Work(w) \/ Crash(w) PROVE Asking'
  BY <1>2, AskingTask, AskingEmbed, AskingAnalyse, AskingStamp, AskingFinalize DEF Work
<1> QED
  BY <1>1, <1>2, AskingOthers DEF Next

LEMMA AskingInit == Init => Asking
<1> SUFFICES ASSUME Init PROVE Asking
  OBVIOUS
<1>1. Len(questions) = 0 /\ messages = 1 /\ \A w \in Workers : workers[w].pc = "idle"
  BY IdleType DEF Init
<1> QED
  BY <1>1, MaxRoundsAssumption DEF Asking, AskedOnce, OneDelivery, Unasked

\* "One question per ticket, then a person" (ADR-0023): with a cap of one question, and the
\* questions counted long before one is asked, a ticket is still asked once, however often
\* it is delivered and however many workers have it.  A cap of two does not hold so.
THEOREM OneQuestion ==
  ASSUME MaxRounds <= 1
  PROVE  Spec => []AskedOnce
<1>1. Init => Asking
  BY AskingInit
<1>2. TypeInv /\ Asking /\ [Next]_vars => Asking'
  BY AskingStep
<1>3. Asking => AskedOnce
  BY DEF Asking
<1> QED
  BY <1>1, <1>2, <1>3, TypeInvariant, PTL DEF Spec

---------------------------------------------------------------------------
(* One decision at a time, while no worker dies *)

InFlight == messages > 0 \/ \E w \in Workers : Busy(w)

\* There is one delivery at most, and one only while the ticket is new.
OneAtATime ==
  /\ messages <= 1
  /\ messages = 1 => \A w \in Workers : ~Busy(w)
  /\ \A v, w \in Workers : Busy(v) /\ Busy(w) => v = w
  /\ InFlight => ticket.status = "new"

\* What was asked for is decided, or in flight.
Counted ==
  /\ Len(decisions) <= 1 + Cardinality(Answered)
  /\ InFlight => Len(decisions) <= Cardinality(Answered)

\* What a worker has read is still so when it uses it.
UpToDate(w) ==
  /\ Busy(w) => workers[w].pii = ticket.pii
  /\ workers[w].pc \in {"embed", "analyse"} => workers[w].attempt = Len(aiRuns) + 1
  /\ workers[w].pc = "analyse" => workers[w].asked = Len(questions)
  /\ workers[w].pc \in {"stamp", "finalize"} =>
       /\ workers[w].decision.branch = "clarify" => Len(questions) < MaxRounds
       /\ workers[w].decision.branch = "auto_reply" => aiRuns[workers[w].attempt] = "auto_reply"

\* Decisions are committed in the order of their stamps.
InOrder ==
  /\ \A i \in DOMAIN decisions : decisions[i].stamp < clock
  /\ \A i, j \in DOMAIN decisions : i < j => decisions[i].stamp < decisions[j].stamp
  /\ \A w \in Workers : workers[w].pc = "finalize" =>
       /\ workers[w].stamp < clock
       /\ \A i \in DOMAIN decisions : decisions[i].stamp < workers[w].stamp

\* Where the ticket is, is what the last decision made of it.
Last == decisions[Len(decisions)]

AsDecided ==
  /\ ticket.status = "awaiting_requester" =>
       /\ decisions # << >> /\ ticket.held = Last.decision
       /\ ticket.held.branch \in {"hitl", "clarify", "auto_route"}
       /\ ticket.pii \notin NeverHeldPII
  /\ ticket.status = "auto_replied" =>
       /\ decisions # << >> /\ Last.decision.branch = "auto_reply" /\ ~Last.shadow
       /\ aiRuns[Last.run] = "auto_reply"
  /\ ticket.status = "auto_routed" =>
       decisions # << >> /\ Last.decision.branch = "auto_route" /\ ~Last.shadow

Orderly ==
  /\ AskedOnce /\ OneAtATime /\ Counted /\ InOrder /\ AsDecided
  /\ \A w \in Workers : UpToDate(w)

\* The decision stamped last is the one committed last.
LEMMA LatestIsLast ==
  ASSUME TypeInv, InOrder, decisions # << >>
  PROVE  LatestDecision = Last
<1>1. decisions \in Seq(DecisionRow)
  BY DEF TypeInv, TypeOK
<1> DEFINE n == Len(decisions)
           latest(i) == \A j \in DOMAIN decisions : decisions[j].stamp <= decisions[i].stamp
<1>2. n \in DOMAIN decisions /\ n \in Nat /\ DOMAIN decisions = 1..n
  BY <1>1
<1>3. \A i \in DOMAIN decisions : decisions[i].stamp \in Nat
  <2>1. \A i \in DOMAIN decisions : decisions[i] \in DecisionRow
    BY <1>1, ElementOfSeq, LenProperties
  <2> QED
    BY <2>1 DEF DecisionRow
<1> HIDE DEF n
<1>4. latest(n)
  <2>1. ASSUME NEW j \in DOMAIN decisions PROVE decisions[j].stamp <= decisions[n].stamp
    <3>1. j = n \/ j < n
      BY <1>2
    <3>2. j < n => decisions[j].stamp < decisions[n].stamp
      BY <1>2 DEF InOrder
    <3> QED
      BY <1>2, <1>3, <3>1, <3>2
  <2> QED
    BY <2>1
<1>5. ASSUME NEW i \in DOMAIN decisions, latest(i) PROVE i = n
  <2>1. i < n => decisions[i].stamp < decisions[n].stamp
    BY <1>2 DEF InOrder
  <2>2. decisions[n].stamp <= decisions[i].stamp
    BY <1>2, <1>5
  <2> QED
    BY <1>2, <1>3, <2>1, <2>2
<1> DEFINE i0 == CHOOSE i \in DOMAIN decisions : latest(i)
<1>6. i0 \in DOMAIN decisions /\ latest(i0)
  BY <1>2, <1>4
<1>7. i0 = n
  BY <1>5, <1>6
<1> QED
  BY <1>7 DEF LatestDecision, Last, n

\* The answered questions can be counted, and are no fewer when a question is added or closed.
LEMMA AnsweredCount ==
  ASSUME TypeInv
  PROVE  /\ IsFiniteSet(Answered) /\ Cardinality(Answered) \in Nat
         /\ Answered \subseteq 1..Len(questions) /\ Len(questions) \in Nat
         /\ DOMAIN questions = 1..Len(questions)
<1>1. questions \in Seq({"open", "answered", "expired"})
  BY DEF TypeInv, TypeOK
<1>2. Len(questions) \in Nat /\ DOMAIN questions = 1..Len(questions)
  BY <1>1
<1>3. Answered \subseteq 1..Len(questions)
  BY <1>2 DEF Answered
<1>4. IsFiniteSet(1..Len(questions))
  BY <1>2, FS_Interval
<1>5. IsFiniteSet(Answered)
  BY <1>3, <1>4, FS_Subset
<1> QED
  BY <1>2, <1>3, <1>5, FS_CardinalityType

\* A step of a busy worker towards its decision, by what it makes of its own record.
LEMMA OrderlyWork ==
  ASSUME TypeInv, Orderly, NEW w \in Workers, NEW record \in Worker, Busy(w),
         workers' = [workers EXCEPT ![w] = record],
         record.pc \in {"analyse", "stamp", "finalize"},
         UpToDate(w)',
         record.pc = "finalize" =>
           record.stamp < clock' /\ \A i \in DOMAIN decisions : decisions[i].stamp < record.stamp,
         clock' \in Nat, clock <= clock',
         UNCHANGED <<ticket, decisions, questions, messages>>
  PROVE  Orderly'
<1>1. /\ workers' \in [Workers -> Worker] /\ workers'[w] = record
      /\ \A v \in Workers \ {w} : workers'[v] = workers[v]
  BY WorkerUpdate DEF TypeInv, TypeOK
<1>2. \A v \in Workers : Busy(v)' <=> Busy(v)
  BY <1>1 DEF Busy
<1>3. OneAtATime'
  BY <1>2 DEF Orderly, OneAtATime, InFlight
<1>4. AskedOnce' /\ Counted'
  BY <1>2 DEF Orderly, AskedOnce, Counted, Answered, InFlight
<1>5. ticket.status = "new"
  BY DEF Orderly, OneAtATime, InFlight
<1>6. AsDecided'
  BY <1>5 DEF AsDecided
<1>7. ASSUME NEW v \in Workers PROVE UpToDate(v)'
  <2>1. CASE v = w
    BY <2>1
  <2>2. CASE v # w
    <3>1. ~Busy(v)'
      BY <1>2, <2>2 DEF Orderly, OneAtATime
    <3> QED
      BY <3>1 DEF UpToDate, Busy
  <2> QED
    BY <2>1, <2>2
<1>8. InOrder'
  <2>1. \A i \in DOMAIN decisions : decisions[i].stamp \in Nat
    <3>1. \A i \in DOMAIN decisions : decisions[i] \in DecisionRow
      BY ElementOfSeq, LenProperties DEF TypeInv, TypeOK
    <3> QED
      BY <3>1 DEF DecisionRow
  <2>2. \A i \in DOMAIN decisions : decisions[i].stamp < clock'
    BY <2>1 DEF TypeInv, TypeOK, Orderly, InOrder
  <2>3. ASSUME NEW v \in Workers, workers'[v].pc = "finalize"
        PROVE  /\ workers'[v].stamp < clock'
               /\ \A i \in DOMAIN decisions : decisions[i].stamp < workers'[v].stamp
    <3>1. v = w
      BY <1>2, <2>3 DEF Orderly, OneAtATime, Busy
    <3> QED
      BY <1>1, <2>3, <3>1
  <2> QED
    BY <2>2, <2>3 DEF Orderly, InOrder
<1> QED
  BY <1>3, <1>4, <1>6, <1>7, <1>8 DEF Orderly

\* An attempt is recorded with the decision made on it.
LEMMA OrderlyPersist ==
  ASSUME TypeInv, Orderly, NEW w \in Workers, workers[w].pc \in {"embed", "analyse"},
         NEW proposal \in Proposals, NEW d \in Decisions, Persist(w, proposal, d),
         d.branch = "clarify" => Len(questions) < MaxRounds,
         d.branch = "auto_reply" => proposal = "auto_reply",
         UNCHANGED <<ticket, decisions, questions, items, attached, alerts, messages, clock, spent>>
  PROVE  Orderly'
<1> DEFINE record == [workers[w] EXCEPT !.pc = "stamp", !.decision = d]
<1>1. workers[w] \in Worker /\ workers \in [Workers -> Worker]
  BY DEF TypeInv, TypeOK
<1>2. /\ record \in Worker /\ record.pc = "stamp" /\ record.decision = d
      /\ record.attempt = workers[w].attempt /\ record.pii = workers[w].pii
  BY <1>1 DEF Worker
<1>3. workers' = [workers EXCEPT ![w] = record]
  BY DEF Persist
<1> HIDE DEF record
<1>4. workers'[w] = record
  BY <1>1, <1>3
<1>5. workers[w].attempt = Len(aiRuns) + 1 /\ workers[w].pii = ticket.pii /\ Busy(w)
  BY DEF Orderly, UpToDate, Busy
<1>6. aiRuns' = Append(aiRuns, proposal) /\ aiRuns'[Len(aiRuns) + 1] = proposal
  <2>1. aiRuns \in Seq(Proposals)
    BY DEF TypeInv, TypeOK
  <2>2. Len(aiRuns) + 1 > Len(aiRuns)
    BY <2>1
  <2>3. aiRuns' = Append(aiRuns, proposal)
    BY <1>5, <2>2 DEF Persist
  <2> QED
    BY <2>1, <2>3
<1>7. UpToDate(w)'
  BY <1>2, <1>4, <1>5, <1>6 DEF UpToDate, Busy
<1>8. clock' \in Nat /\ clock <= clock'
  BY DEF TypeInv, TypeOK
<1>9. record.pc \in {"analyse", "stamp", "finalize"} /\ record.pc # "finalize"
  BY <1>2
<1>10. UNCHANGED <<ticket, decisions, questions, messages>>
  OBVIOUS
<1> QED
  BY <1>2, <1>3, <1>5, <1>7, <1>8, <1>9, <1>10, OrderlyWork

LEMMA DegradedType ==
  ASSUME NEW reason \in Reasons
  PROVE  /\ Degraded(reason) \in Decisions
         /\ Degraded(reason).branch \notin {"clarify", "auto_reply"}
BY DoubtType DEF Degraded

LEMMA OrderlyEmbed ==
  ASSUME TypeInv, Orderly, NEW w \in Workers, Embed(w)
  PROVE  Orderly'
<1>1. MassSignals \in Signals /\ MassSignals.proposal = "none"
  BY DEF MassSignals, Signals, PIILevels, Proposals, TrustLevels, Below
<1>2. /\ Route(MassSignals) \in Decisions
      /\ Route(MassSignals).branch \notin {"clarify", "auto_reply"}
  BY <1>1, RouteType, BranchesEarned DEF BranchIsEarned
<1>3. /\ "none" \in Proposals /\ workers[w].pc = "embed"
      /\ UNCHANGED <<ticket, decisions, questions, items, attached, alerts, messages, clock, spent>>
  BY DEF Embed, Proposals
<1>4. CASE \E reason \in {"embedding_unavailable", "budget_exceeded"} :
             Persist(w, "none", Degraded(reason))
  <2>1. PICK reason \in {"embedding_unavailable", "budget_exceeded"} :
          Persist(w, "none", Degraded(reason))
    BY <1>4
  <2>2. reason \in Reasons
    BY DEF Reasons
  <2>3. /\ Degraded(reason) \in Decisions
        /\ Degraded(reason).branch \notin {"clarify", "auto_reply"}
    BY <2>2, DegradedType
  <2> QED
    BY <1>3, <2>1, <2>3, OrderlyPersist
<1>5. CASE Persist(w, "none", Route(MassSignals))
  BY <1>2, <1>3, <1>5, OrderlyPersist
<1>6. CASE /\ workers' = [workers EXCEPT ![w].pc = "analyse", ![w].asked = Len(questions)]
           /\ UNCHANGED aiRuns
  <2> DEFINE asked == Len(questions)
             record == [workers[w] EXCEPT !.pc = "analyse", !.asked = asked]
  <2>1. workers[w] \in Worker /\ workers \in [Workers -> Worker] /\ asked \in Nat
    BY DEF TypeInv, TypeOK
  <2>2. workers' = [workers EXCEPT ![w] = record]
    BY <1>6
  <2>3. asked = Len(questions)
    OBVIOUS
  <2> HIDE DEF asked
  <2>4. /\ record \in Worker /\ record.pc = "analyse" /\ record.asked = asked
        /\ record.attempt = workers[w].attempt /\ record.pii = workers[w].pii
    BY <2>1 DEF Worker
  <2> HIDE DEF record
  <2>5. workers'[w] = record
    BY <2>1, <2>2
  <2>6. workers[w].attempt = Len(aiRuns) + 1 /\ workers[w].pii = ticket.pii /\ Busy(w)
    BY <1>3 DEF Orderly, UpToDate, Busy
  <2>7. UpToDate(w)'
    BY <1>3, <1>6, <2>3, <2>4, <2>5, <2>6 DEF UpToDate, Busy
  <2>8. clock' \in Nat /\ clock <= clock'
    BY <1>3 DEF TypeInv, TypeOK
  <2>9. record.pc \in {"analyse", "stamp", "finalize"} /\ record.pc # "finalize"
    BY <2>4
  <2>10. UNCHANGED <<ticket, decisions, questions, messages>>
    BY <1>3
  <2> QED
    BY <2>2, <2>4, <2>6, <2>7, <2>8, <2>9, <2>10, OrderlyWork
<1> QED
  BY <1>4, <1>5, <1>6 DEF Embed

LEMMA OrderlyAnalyse ==
  ASSUME TypeInv, Orderly, NEW w \in Workers, Analyse(w)
  PROVE  Orderly'
<1>1. /\ workers[w].pc = "analyse" /\ workers[w].asked = Len(questions)
      /\ UNCHANGED <<ticket, decisions, questions, items, attached, alerts, messages, clock, spent>>
  BY DEF Analyse, Orderly, UpToDate
<1>2. CASE \E reason \in {"ai_engine_unavailable", "all_llm_down"} :
             Persist(w, "none", Degraded(reason))
  <2>1. PICK reason \in {"ai_engine_unavailable", "all_llm_down"} :
          Persist(w, "none", Degraded(reason))
    BY <1>2
  <2>2. reason \in Reasons /\ "none" \in Proposals
    BY DEF Reasons, Proposals
  <2>3. /\ Degraded(reason) \in Decisions
        /\ Degraded(reason).branch \notin {"clarify", "auto_reply"}
    BY <2>2, DegradedType
  <2> QED
    BY <1>1, <2>1, <2>2, <2>3, OrderlyPersist
<1>3. ASSUME NEW found \in Analyses,
             Persist(w, found.proposal, Route(Policed(found, w)))
      PROVE  Orderly'
  <2> DEFINE policed == Policed(found, w)
  <2>1. policed \in Signals /\ policed.asked = workers[w].asked
    BY PolicedType
  <2>2. found \in Signals /\ found.proposal \in Proposals
    BY SignalsAssumption DEF Signals
  <2>3. policed.proposal = found.proposal
    BY <2>2 DEF Policed, Signals
  <2>4. Persist(w, found.proposal, Route(policed))
    BY <1>3
  <2> HIDE DEF policed
  <2>5. /\ Route(policed) \in Decisions
        /\ Route(policed).branch = "clarify" => policed.asked < MaxRounds
        /\ Route(policed).branch = "auto_reply" => policed.proposal = "auto_reply"
    BY <2>1, RouteType, BranchesEarned DEF BranchIsEarned
  <2> DEFINE d == Route(policed)
             proposal == found.proposal
  <2>6. /\ d \in Decisions /\ proposal \in Proposals /\ Persist(w, proposal, d)
        /\ d.branch = "clarify" => Len(questions) < MaxRounds
        /\ d.branch = "auto_reply" => proposal = "auto_reply"
    BY <1>1, <2>1, <2>2, <2>3, <2>4, <2>5
  <2> HIDE DEF d, proposal
  <2> QED
    BY <1>1, <2>6, OrderlyPersist
<1> QED
  BY <1>2, <1>3 DEF Analyse

LEMMA OrderlyStamp ==
  ASSUME TypeInv, Orderly, NEW w \in Workers, Stamp(w)
  PROVE  Orderly'
<1> DEFINE record == [workers[w] EXCEPT !.pc = "finalize", !.stamp = clock]
<1>1. workers[w] \in Worker /\ workers \in [Workers -> Worker] /\ clock \in Nat
  BY DEF TypeInv, TypeOK
<1>2. workers' = [workers EXCEPT ![w] = record]
  BY DEF Stamp
<1>3. /\ record \in Worker /\ record.pc = "finalize" /\ record.stamp = clock
      /\ record.attempt = workers[w].attempt /\ record.pii = workers[w].pii
      /\ record.decision = workers[w].decision
  BY <1>1 DEF Worker
<1> HIDE DEF record
<1>4. workers'[w] = record
  BY <1>1, <1>2
<1>5. /\ workers[w].pc = "stamp" /\ clock' = clock + 1 /\ UNCHANGED aiRuns
      /\ UNCHANGED <<ticket, decisions, questions, messages>>
  BY DEF Stamp, rows
<1>6. Busy(w) /\ UpToDate(w)
  BY <1>5 DEF Busy, Orderly
<1>7. UpToDate(w)'
  BY <1>3, <1>4, <1>5, <1>6 DEF UpToDate, Busy
<1>8. clock' \in Nat /\ clock <= clock'
  BY <1>1, <1>5
<1>9. record.stamp < clock' /\ \A i \in DOMAIN decisions : decisions[i].stamp < record.stamp
  BY <1>1, <1>3, <1>5 DEF Orderly, InOrder
<1>10. record.pc \in {"analyse", "stamp", "finalize"}
  BY <1>3
<1> QED
  BY <1>2, <1>3, <1>5, <1>6, <1>7, <1>8, <1>9, <1>10, OrderlyWork

\* One question more, and not yet answered.
LEMMA QuestionAsked ==
  ASSUME TypeInv, questions' = Append(questions, "open")
  PROVE  Answered' = Answered /\ Len(questions') = Len(questions) + 1
<1>1. questions \in Seq({"open", "answered", "expired"})
  BY DEF TypeInv, TypeOK
<1> DEFINE state == "open"
<1>2. state # "answered" /\ state \in {"open", "answered", "expired"}
      /\ questions' = Append(questions, state)
  OBVIOUS
<1> HIDE DEF state
<1>3. /\ DOMAIN questions' = 1..(Len(questions) + 1) /\ DOMAIN questions = 1..Len(questions)
      /\ \A i \in 1..Len(questions) : questions'[i] = questions[i]
      /\ questions'[Len(questions) + 1] = state /\ Len(questions') = Len(questions) + 1
      /\ Len(questions) \in Nat
  BY <1>1, <1>2, AppendType
<1>4. ASSUME NEW i PROVE i \in Answered' <=> i \in Answered
  BY <1>2, <1>3 DEF Answered
<1> QED
  BY <1>3, <1>4

\* The row of the decision a worker ends with.
LEMMA OrderlyFinalize ==
  ASSUME TypeInv, Orderly, NEW w \in Workers, NEW live \in BOOLEAN, NEW asking \in BOOLEAN,
         Finalize(w, live, asking)
  PROVE  Orderly'
<1> DEFINE d == workers[w].decision
           shadow == ShadowMode \/ (d.branch \in {"auto_route", "auto_reply"} /\ ~live)
           waits == ticket.source = "chat" /\ Waits(d, ShadowMode \/ ~asking, workers[w].pii)
           row == [run |-> workers[w].attempt, decision |-> d, shadow |-> shadow,
                   stamp |-> workers[w].stamp]
           record == [workers[w] EXCEPT !.pc = "acknowledge"]
           n == Len(decisions)
<1>1. /\ workers[w] \in Worker /\ d \in Decisions /\ workers[w].stamp \in Nat
      /\ workers \in [Workers -> Worker] /\ ticket \in TicketRow /\ clock \in Nat
  BY DEF TypeInv, TypeOK, Worker, TicketRow
<1>2. /\ workers[w].pc = "finalize"
      /\ decisions' = Append(decisions, row)
      /\ \/ waits /\ Hold(d)
         \/ Execute(ticket.held, d, workers[w].attempt, shadow)
      /\ \/ questions' = questions
         \/ d.branch = "clarify" /\ questions' = Append(questions, "open")
      /\ workers' = [workers EXCEPT ![w] = record]
      /\ UNCHANGED <<aiRuns, messages, clock, spent>>
  BY DEF Finalize, Do
<1>3. waits => d.branch \in {"hitl", "clarify", "auto_route"} /\ workers[w].pii \notin NeverHeldPII
  BY DEF Waits
<1>4. shadow \in BOOLEAN
  BY SourceAssumption
<1>5. record.pc = "acknowledge"
  BY <1>1 DEF Worker
<1> HIDE DEF shadow, waits, record
<1>6. /\ row.run = workers[w].attempt /\ row.decision = d /\ row.stamp = workers[w].stamp
      /\ row.shadow = shadow
  OBVIOUS
<1>7. row \in DecisionRow
  BY <1>1, <1>4 DEF Worker, DecisionRow
<1> HIDE DEF row
<1>8. workers'[w] = record /\ \A v \in Workers \ {w} : workers'[v] = workers[v]
  BY <1>1, <1>2
<1>9. Busy(w) /\ UpToDate(w)
  BY <1>2 DEF Busy, Orderly
<1>10. /\ ticket.status = "new" /\ messages = 0
       /\ \A v \in Workers : Busy(v) => v = w
  <2>1. messages \in Nat
    BY DEF TypeInv, TypeOK
  <2> QED
    BY <1>9, <2>1 DEF Orderly, OneAtATime, InFlight
<1>11. \A v \in Workers : ~Busy(v)'
  BY <1>5, <1>8, <1>10 DEF Busy
<1>12. ~InFlight'
  BY <1>2, <1>10, <1>11 DEF InFlight
<1>13. OneAtATime'
  BY <1>2, <1>10, <1>11, <1>12 DEF OneAtATime
<1>14. /\ n \in Nat /\ DOMAIN decisions = 1..n /\ DOMAIN decisions' = 1..(n + 1)
       /\ Len(decisions') = n + 1 /\ decisions'[n + 1] = row /\ decisions' # << >>
       /\ \A i \in 1..n : decisions'[i] = decisions[i]
  <2>1. decisions \in Seq(DecisionRow)
    BY DEF TypeInv, TypeOK
  <2>2. n \in Nat /\ DOMAIN decisions = 1..n
    BY <2>1
  <2> QED
    BY <1>2, <1>7, <2>1, <2>2, AppendType
<1>15. Answered' = Answered
  <2>1. CASE questions' = questions
    BY <2>1 DEF Answered
  <2>2. CASE questions' = Append(questions, "open")
    BY <2>2, QuestionAsked
  <2> QED
    BY <1>2, <2>1, <2>2
<1>16. Counted'
  <2>1. n <= Cardinality(Answered)
    BY <1>9 DEF Orderly, Counted, InFlight
  <2>2. Cardinality(Answered) \in Nat
    BY AnsweredCount
  <2>3. Len(decisions') <= 1 + Cardinality(Answered')
    BY <1>14, <1>15, <2>1, <2>2
  <2> QED
    BY <1>12, <2>3 DEF Counted
<1>17. AskedOnce'
  <2>1. CASE questions' = questions
    BY <2>1 DEF Orderly, AskedOnce
  <2>2. CASE d.branch = "clarify" /\ questions' = Append(questions, "open")
    <3>1. Len(questions) < MaxRounds
      BY <1>2, <1>9, <2>2 DEF UpToDate
    <3>2. Len(questions') = Len(questions) + 1 /\ Len(questions) \in Nat
      BY <2>2, QuestionAsked, AnsweredCount
    <3> QED
      BY <3>1, <3>2, MaxRoundsAssumption DEF AskedOnce
  <2> QED
    BY <1>2, <2>1, <2>2
<1>18. InOrder'
  <2>1. \A i \in 1..n : decisions[i].stamp < clock /\ decisions[i].stamp < row.stamp
    BY <1>2, <1>6, <1>14 DEF Orderly, InOrder
  <2>2. row.stamp < clock
    BY <1>2, <1>6 DEF Orderly, InOrder
  <2>3. \A i \in DOMAIN decisions' : decisions'[i].stamp < clock'
    BY <1>2, <1>14, <2>1, <2>2
  <2>4. ASSUME NEW i \in DOMAIN decisions', NEW j \in DOMAIN decisions', i < j
        PROVE  decisions'[i].stamp < decisions'[j].stamp
    <3>1. i \in 1..n
      BY <1>14, <2>4
    <3>2. CASE j \in 1..n
      BY <1>14, <2>4, <3>1, <3>2 DEF Orderly, InOrder
    <3>3. CASE j = n + 1
      BY <1>14, <2>1, <3>1, <3>3
    <3> QED
      BY <1>14, <3>2, <3>3
  <2>5. \A v \in Workers : workers'[v].pc # "finalize"
    BY <1>11 DEF Busy
  <2> QED
    BY <2>3, <2>4, <2>5 DEF InOrder
<1>19. \A v \in Workers : UpToDate(v)'
  BY <1>11 DEF UpToDate, Busy
<1>20. AsDecided'
  <2>1. Last' = row
    BY <1>14 DEF Last
  <2>2. CASE waits /\ Hold(d)
    <3>1. /\ ticket'.held = d /\ ticket'.status = "awaiting_requester"
          /\ ticket'.pii = ticket.pii
      BY <1>1, <2>2 DEF Hold, TicketRow
    <3>2. workers[w].pii = ticket.pii
      BY <1>9 DEF UpToDate
    <3> QED
      BY <1>3, <1>6, <1>14, <2>1, <2>2, <3>1, <3>2 DEF AsDecided
  <2>3. CASE Execute(ticket.held, d, workers[w].attempt, shadow)
    <3>1. ticket'.status = Handed(d, shadow)
      BY <1>1, <2>3 DEF Execute, TicketRow
    <3>2. ticket'.status # "awaiting_requester"
      BY <3>1 DEF Handed
    <3>3. ticket'.status = "auto_replied" => d.branch = "auto_reply" /\ ~shadow
      BY <3>1 DEF Handed
    <3>4. ticket'.status = "auto_routed" => d.branch = "auto_route" /\ ~shadow
      BY <3>1 DEF Handed
    <3>5. d.branch = "auto_reply" => aiRuns'[row.run] = "auto_reply"
      BY <1>2, <1>6, <1>9 DEF UpToDate
    <3> QED
      BY <1>6, <1>14, <2>1, <3>2, <3>3, <3>4, <3>5 DEF AsDecided
  <2> QED
    BY <1>2, <2>2, <2>3
<1> QED
  BY <1>13, <1>16, <1>17, <1>18, <1>19, <1>20 DEF Orderly

\* The delivery is taken up, or ends.
LEMMA OrderlyTask ==
  ASSUME TypeInv, Orderly, NEW w \in Workers, Receive(w) \/ Acknowledge(w)
  PROVE  Orderly'
<1>1. workers \in [Workers -> Worker] /\ messages \in Nat
  BY DEF TypeInv, TypeOK
<1>2. CASE Receive(w)
  <2> DEFINE attempt == Len(aiRuns) + 1
             record == [Idle EXCEPT !.pc = "embed", !.pii = ticket.pii, !.attempt = attempt]
  <2>1. workers' = [workers EXCEPT ![w] = record]
    BY <1>2 DEF Receive
  <2>2. attempt \in Nat /\ attempt = Len(aiRuns) + 1 /\ ticket.pii \in PIILevels
    BY DEF TypeInv, TypeOK
  <2> HIDE DEF attempt
  <2>3. record.pc = "embed" /\ record.pii = ticket.pii /\ record.attempt = attempt
    BY DEF Idle
  <2> HIDE DEF record
  <2>4. /\ workers'[w] = record /\ \A v \in Workers \ {w} : workers'[v] = workers[v]
    BY <1>1, <2>1
  <2>5. /\ messages > 0 /\ messages' = messages - 1 /\ workers[w].pc = "idle"
        /\ UNCHANGED <<ticket, aiRuns, decisions, questions, clock>>
    BY <1>2 DEF Receive, rows
  <2>6. messages = 1 /\ messages' = 0 /\ \A v \in Workers : ~Busy(v)
    BY <1>1, <2>5 DEF Orderly, OneAtATime
  <2>7. ticket.status = "new" /\ InFlight
    BY <2>5 DEF Orderly, OneAtATime, InFlight
  <2>8. \A v \in Workers : Busy(v)' => v = w
    BY <2>4, <2>6 DEF Busy
  <2>9. OneAtATime'
    BY <2>5, <2>6, <2>7, <2>8 DEF OneAtATime
  <2>10. Counted' /\ AskedOnce' /\ AsDecided'
    BY <2>5, <2>7 DEF Orderly, Counted, Answered, AskedOnce, AsDecided, Last
  <2>11. ASSUME NEW v \in Workers PROVE UpToDate(v)'
    <3>1. CASE v = w
      BY <2>2, <2>3, <2>4, <2>5, <3>1 DEF UpToDate, Busy
    <3>2. CASE v # w
      BY <2>8, <3>2 DEF UpToDate, Busy
    <3> QED
      BY <3>1, <3>2
  <2>12. \A v \in Workers : workers'[v].pc # "finalize"
    BY <2>3, <2>4, <2>6 DEF Busy
  <2>13. InOrder'
    BY <2>5, <2>12 DEF Orderly, InOrder
  <2> QED
    BY <2>9, <2>10, <2>11, <2>13 DEF Orderly
<1>3. CASE Acknowledge(w)
  <2>1. /\ workers' = [workers EXCEPT ![w] = Idle] /\ workers[w].pc = "acknowledge"
        /\ UNCHANGED <<ticket, aiRuns, decisions, questions, messages, clock>>
    BY <1>3 DEF Acknowledge, rows
  <2>2. workers'[w] = Idle /\ \A v \in Workers \ {w} : workers'[v] = workers[v]
    BY <1>1, <2>1
  <2>3. \A v \in Workers : Busy(v)' => Busy(v) /\ workers'[v] = workers[v]
    BY <2>2, IdleType DEF Busy
  <2>4. InFlight' => InFlight
    BY <2>1, <2>3 DEF InFlight
  <2>5. OneAtATime'
    BY <2>1, <2>3, <2>4 DEF Orderly, OneAtATime
  <2>6. Counted' /\ AskedOnce' /\ AsDecided'
    BY <2>1, <2>4 DEF Orderly, Counted, Answered, AskedOnce, AsDecided, Last
  <2>7. ASSUME NEW v \in Workers PROVE UpToDate(v)'
    BY <2>1, <2>3 DEF Orderly, UpToDate, Busy
  <2>8. InOrder'
    BY <2>1, <2>3 DEF Orderly, InOrder, Busy
  <2> QED
    BY <2>5, <2>6, <2>7, <2>8 DEF Orderly
<1> QED
  BY <1>2, <1>3

\* A step of the ticket's row that no delivery is in flight for, before or after.
LEMMA OrderlyMoved ==
  ASSUME TypeInv, Orderly, ticket.status # "new", ticket'.status # "new",
         AsDecided', UNCHANGED <<aiRuns, decisions, questions, messages, workers, clock>>
  PROVE  Orderly'
<1>1. ~InFlight /\ ~InFlight'
  BY DEF Orderly, OneAtATime, InFlight, Busy
<1>2. \A w \in Workers : ~Busy(w)
  BY <1>1 DEF InFlight
<1>3. OneAtATime' /\ Counted'
  BY <1>1, <1>2 DEF Orderly, OneAtATime, Counted, Answered, Busy
<1>4. \A w \in Workers : UpToDate(w)'
  BY <1>2 DEF UpToDate, Busy
<1>5. AskedOnce' /\ InOrder'
  BY DEF Orderly, AskedOnce, InOrder
<1> QED
  BY <1>3, <1>4, <1>5 DEF Orderly

LEMMA OrderlyRelease ==
  ASSUME TypeInv, Orderly, Release
  PROVE  Orderly'
<1>1. /\ ticket.status = "awaiting_requester" /\ decisions # << >>
      /\ Execute(NotHeld, ticket.held, LatestDecision.run, LatestDecision.shadow)
      /\ UNCHANGED <<aiRuns, decisions, questions, messages, workers, clock>>
  BY DEF Release
<1>2. LatestDecision = Last
  BY <1>1, LatestIsLast DEF Orderly
<1> DEFINE d == ticket.held
           shadow == LatestDecision.shadow
<1>3. /\ d = Last.decision /\ d.branch \in {"hitl", "clarify", "auto_route"}
  BY <1>1 DEF Orderly, AsDecided
<1>4. ticket \in TicketRow
  BY DEF TypeInv, TypeOK, TicketRow
<1>5. ticket'.status = Handed(d, shadow)
  BY <1>1, <1>4 DEF Execute, TicketRow
<1>6. shadow = Last.shadow
  BY <1>2
<1>7. Last' = Last
  BY <1>1 DEF Last
<1> HIDE DEF d, shadow
<1>8. ticket'.status \in {"pending_review", "auto_routed"}
      /\ (ticket'.status = "auto_routed" => d.branch = "auto_route" /\ ~shadow)
  BY <1>3, <1>5 DEF Handed
<1>9. AsDecided'
  BY <1>1, <1>3, <1>6, <1>7, <1>8 DEF AsDecided
<1> QED
  BY <1>1, <1>8, <1>9, OrderlyMoved

\* A question gets its answer, and only then is the ticket delivered again.
LEMMA OrderlyAnswer ==
  ASSUME TypeInv, Orderly, NEW level \in AnswerLevels, Answer(level)
  PROVE  Orderly'
<1> DEFINE last == Len(questions)
<1>1. /\ ticket.status = "awaiting_requester" /\ questions # << >> /\ questions[last] = "open"
      /\ questions' = [questions EXCEPT ![last] = "answered"] /\ messages' = messages + 1
      /\ UNCHANGED <<aiRuns, decisions, workers, clock>>
  BY DEF Answer, OpenQuestion
<1>2. ticket'.status = "new"
  BY DEF Answer, TypeInv, TypeOK
<1>3. messages = 0 /\ \A w \in Workers : ~Busy(w)
  <2>1. messages \in Nat
    BY DEF TypeInv, TypeOK
  <2> QED
    BY <1>1, <2>1 DEF Orderly, OneAtATime, InFlight
<1>4. \A w \in Workers : ~Busy(w)'
  BY <1>1, <1>3 DEF Busy
<1>5. OneAtATime'
  BY <1>1, <1>2, <1>3, <1>4 DEF OneAtATime
<1>6. /\ IsFiniteSet(Answered) /\ Cardinality(Answered) \in Nat /\ last \in Nat
      /\ DOMAIN questions = 1..last /\ questions \in Seq({"open", "answered", "expired"})
  BY AnsweredCount DEF TypeInv, TypeOK
<1> HIDE DEF last
<1>7. last \in DOMAIN questions /\ Len(questions') = Len(questions) /\ last \notin Answered
  <2>1. last # 0
    BY <1>1, <1>6 DEF last
  <2>2. last \in DOMAIN questions
    BY <1>6, <2>1
  <2>3. Len(questions') = Len(questions)
    BY <1>1, <1>6
  <2> QED
    BY <1>1, <2>2, <2>3 DEF Answered
<1>8. Answered' = Answered \union {last}
  <2>1. DOMAIN questions' = DOMAIN questions
        /\ \A i \in DOMAIN questions :
             questions'[i] = IF i = last THEN "answered" ELSE questions[i]
    BY <1>1, <1>7
  <2>2. ASSUME NEW i PROVE i \in Answered' <=> i \in Answered \union {last}
    BY <1>7, <2>1 DEF Answered
  <2> QED
    BY <2>2
<1>9. Cardinality(Answered') = Cardinality(Answered) + 1
  BY <1>6, <1>7, <1>8, FS_AddElement
<1>10. Counted'
  <2>1. Len(decisions) <= 1 + Cardinality(Answered) /\ Len(decisions) \in Nat
    BY DEF Orderly, Counted, TypeInv, TypeOK
  <2>2. decisions' = decisions
    BY <1>1
  <2>3. Len(decisions') <= Cardinality(Answered') /\ Len(decisions') <= 1 + Cardinality(Answered')
    BY <1>6, <1>9, <2>1, <2>2
  <2> QED
    BY <2>3 DEF Counted
<1>11. AskedOnce' /\ InOrder' /\ AsDecided'
  BY <1>1, <1>2, <1>7 DEF Orderly, AskedOnce, InOrder, AsDecided
<1>12. \A w \in Workers : UpToDate(w)'
  BY <1>4 DEF UpToDate, Busy
<1> QED
  BY <1>5, <1>10, <1>11, <1>12 DEF Orderly

LEMMA OrderlyExpire ==
  ASSUME TypeInv, Orderly, Expire
  PROVE  Orderly'
<1> DEFINE last == Len(questions)
<1>1. /\ questions # << >> /\ questions[last] = "open"
      /\ questions' = [questions EXCEPT ![last] = "expired"]
      /\ UNCHANGED <<ticket, aiRuns, decisions, messages, workers, clock>>
  BY DEF Expire
<1>2. /\ last \in Nat /\ DOMAIN questions = 1..last
      /\ questions \in Seq({"open", "answered", "expired"})
  BY AnsweredCount DEF TypeInv, TypeOK
<1>3. Len(questions') = Len(questions)
  BY <1>1, <1>2
<1> HIDE DEF last
<1>4. Answered' = Answered
  <2>1. DOMAIN questions' = DOMAIN questions
        /\ \A i \in DOMAIN questions :
             questions'[i] = IF i = last THEN "expired" ELSE questions[i]
    BY <1>1
  <2>2. ASSUME NEW i PROVE i \in Answered' <=> i \in Answered
    BY <1>1, <2>1 DEF Answered
  <2> QED
    BY <2>2
<1>5. OneAtATime' /\ Counted'
  BY <1>1, <1>4 DEF Orderly, OneAtATime, Counted, InFlight, Busy
<1>6. AskedOnce' /\ InOrder' /\ AsDecided'
  BY <1>1, <1>3 DEF Orderly, AskedOnce, InOrder, AsDecided, Last
<1>7. \A w \in Workers : UpToDate(w)'
  BY <1>1, <1>3 DEF Orderly, UpToDate, Busy
<1> QED
  BY <1>5, <1>6, <1>7 DEF Orderly

LEMMA OrderlyOthers ==
  ASSUME TypeInv, Orderly, TakeUp \/ Reopen \/ Lose
  PROVE  Orderly'
<1>1. ticket \in TicketRow /\ messages \in Nat
  BY DEF TypeInv, TypeOK, TicketRow
<1>2. CASE TakeUp \/ Reopen
  <2>1. /\ ticket.status # "new" /\ ticket'.status \in {"working", "reopened"}
        /\ UNCHANGED <<aiRuns, decisions, questions, messages, workers, clock>>
    BY <1>1, <1>2 DEF TakeUp, Reopen, TicketRow, Triage, rows
  <2>2. AsDecided'
    BY <2>1 DEF AsDecided
  <2> QED
    BY <2>1, <2>2, OrderlyMoved
<1>3. CASE Lose
  <2>1. /\ messages > 0 /\ messages' = messages - 1
        /\ UNCHANGED <<ticket, aiRuns, decisions, questions, workers, clock>>
    BY <1>3 DEF Lose, rows
  <2>2. messages' = 0 /\ \A w \in Workers : ~Busy(w)
    BY <1>1, <2>1 DEF Orderly, OneAtATime
  <2>3. OneAtATime' /\ Counted'
    BY <2>1, <2>2 DEF Orderly, OneAtATime, Counted, Answered, InFlight, Busy
  <2>4. AskedOnce' /\ InOrder' /\ AsDecided'
    BY <2>1 DEF Orderly, AskedOnce, InOrder, AsDecided, Last
  <2>5. \A w \in Workers : UpToDate(w)'
    BY <2>1 DEF Orderly, UpToDate, Busy
  <2> QED
    BY <2>3, <2>4, <2>5 DEF Orderly
<1> QED
  BY <1>2, <1>3

LEMMA OrderlyStep ==
  TypeInv /\ (Undisturbed => Orderly) /\ [Next]_vars => (Undisturbed => Orderly)'
<1> SUFFICES ASSUME TypeInv, Undisturbed => Orderly, [Next]_vars, Undisturbed'
             PROVE  Orderly'
  OBVIOUS
<1>1. spent \in [crashes : 0..MaxCrashes, losses : 0..MaxLosses]
  BY DEF TypeInv, TypeOK
<1>2. ASSUME NEW w \in Workers PROVE ~Crash(w)
  <2>1. SUFFICES ASSUME Crash(w) PROVE FALSE
    OBVIOUS
  <2>2. spent'.crashes = spent.crashes + 1 /\ spent.crashes \in Nat
    BY <1>1, <2>1 DEF Crash
  <2> QED
    BY <2>2 DEF Undisturbed
<1>3. Undisturbed
  <2>1. CASE UNCHANGED spent
    BY <2>1 DEF Undisturbed
  <2>2. CASE Lose
    BY <1>1, <2>2 DEF Lose, Undisturbed
  <2>3. UNCHANGED spent \/ Lose
    BY <1>2 DEF Next, vars, Receive, Work, Embed, Analyse, Stamp, Finalize, Acknowledge,
                Requester, Release, Answer, Reopen, Expire, TakeUp
  <2> QED
    BY <2>1, <2>2, <2>3
<1>4. Orderly
  BY <1>3
<1>5. CASE UNCHANGED vars
  BY <1>4, <1>5 DEF vars, rows, Orderly, AskedOnce, OneAtATime, Counted, Answered, InFlight,
                    Busy, InOrder, AsDecided, Last, UpToDate
<1>6. ASSUME NEW w \in Workers, Receive(w) \/ Work(w) PROVE Orderly'
  BY <1>4, <1>6, OrderlyTask, OrderlyEmbed, OrderlyAnalyse, OrderlyStamp, OrderlyFinalize DEF Work
<1>7. CASE Requester
  BY <1>4, <1>7, OrderlyRelease, OrderlyAnswer, OrderlyOthers DEF Requester
<1>8. CASE Expire \/ TakeUp \/ Lose
  BY <1>4, <1>8, OrderlyExpire, OrderlyOthers
<1> QED
  BY <1>2, <1>5, <1>6, <1>7, <1>8 DEF Next

LEMMA OrderlyInit == Init => Orderly
<1> SUFFICES ASSUME Init PROVE Orderly
  OBVIOUS
<1>1. /\ decisions = << >> /\ questions = << >> /\ messages = 1 /\ ticket.status = "new"
      /\ \A w \in Workers : workers[w].pc = "idle"
  BY IdleType DEF Init
<1>2. Len(decisions) = 0 /\ DOMAIN decisions = {} /\ Len(questions) = 0 /\ TypeInv
  BY <1>1, InitType
<1>3. Cardinality(Answered) \in Nat
  BY <1>2, AnsweredCount
<1>4. Counted /\ AskedOnce
  BY <1>2, <1>3, MaxRoundsAssumption DEF Counted, AskedOnce
<1>5. OneAtATime /\ InOrder /\ AsDecided /\ \A w \in Workers : UpToDate(w)
  BY <1>1, <1>2 DEF OneAtATime, InFlight, Busy, InOrder, AsDecided, UpToDate
<1> QED
  BY <1>4, <1>5 DEF Orderly

LEMMA OrderlyInvariant == Spec => [](Undisturbed => Orderly)
<1>1. Init => (Undisturbed => Orderly)
  BY OrderlyInit
<1> QED
  BY <1>1, OrderlyStep, TypeInvariant, PTL DEF Spec

\* While no worker dies, a submission and each answer to a question is decided once, and no
\* more questions are asked than the policy allows, whatever its cap; with a cap of one
\* question the second holds though workers die.
THEOREM DecidedOnceEach == Spec => []OneDecisionPerRequest
<1>1. Init => (MaxRounds <= 1 => Asking)
  BY AskingInit
<1>2. TypeInv /\ (MaxRounds <= 1 => Asking) /\ [Next]_vars => (MaxRounds <= 1 => Asking)'
  BY AskingStep
<1>3. (Undisturbed => Orderly) /\ (MaxRounds <= 1 => Asking) => OneDecisionPerRequest
  BY DEF OneDecisionPerRequest, Orderly, Counted, DecidedOnce, Asking
<1> QED
  BY <1>1, <1>2, <1>3, OrderlyInvariant, TypeInvariant, PTL DEF Spec

\* While no worker dies, what is held for the requester is the last decision on record, and a
\* ticket that holds a secret, or whose masking failed, is never held.
THEOREM HeldIsDecided == Spec => []HeldAsDecided
<1>1. TypeInv /\ NothingIsDropped /\ (Undisturbed => Orderly) => HeldAsDecided
  <2> SUFFICES ASSUME TypeInv, NothingIsDropped, Undisturbed, Orderly,
                      ticket.status = "awaiting_requester"
               PROVE  /\ ticket.held # NotHeld
                      /\ decisions # << >> /\ ticket.held = LatestDecision.decision
                      /\ ticket.pii \notin NeverHeldPII
    BY DEF HeldAsDecided
  <2>1. ticket.held # NotHeld /\ decisions # << >>
    BY DEF NothingIsDropped
  <2>2. LatestDecision = Last
    BY <2>1, LatestIsLast DEF Orderly
  <2> QED
    BY <2>1, <2>2 DEF Orderly, AsDecided
<1> QED
  BY <1>1, TypeInvariant, NothingDropped, OrderlyInvariant, PTL

\* While no worker dies, nothing is answered or routed without a person but what the last
\* decision said, on the run it was made on and while automation was on.
THEOREM AutomationAuthorised == Spec => []AutomationIsAuthorised
<1>1. TypeInv /\ (Undisturbed => Orderly) => AutomationIsAuthorised
  <2> SUFFICES ASSUME TypeInv, Undisturbed, Orderly PROVE AutomationIsAuthorised
    BY DEF AutomationIsAuthorised
  <2>1. decisions # << >> => LatestDecision = Last
    BY LatestIsLast DEF Orderly
  <2>2. decisions # << >> => Len(decisions) \in DOMAIN decisions
    BY DEF TypeInv, TypeOK
  <2> QED
    BY <2>1, <2>2 DEF Orderly, AsDecided, AutomationIsAuthorised, Last
<1> QED
  BY <1>1, TypeInvariant, OrderlyInvariant, PTL
=============================================================================
