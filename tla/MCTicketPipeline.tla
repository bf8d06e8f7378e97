-------------------------- MODULE MCTicketPipeline --------------------------
(***************************************************************************)
(* Small instances of TicketPipeline: one analysis of each kind that the   *)
(* router treats differently.                                              *)
(***************************************************************************)
EXTENDS TicketPipeline, TLC

CONSTANTS w1, w2

OneWorker == {w1}
TwoWorkers == {w1, w2}
Symmetry == Permutations(TwoWorkers)

Found(proposal, category, passed, trust) ==
  [injection |-> FALSE, pii |-> "routine", mass |-> FALSE, grounded |-> TRUE,
   proposal |-> proposal, category |-> category, security |-> FALSE, options |-> TRUE,
   asked |-> 0, passed |-> passed, trust |-> trust]

Reply == Found("auto_reply", "none", Checks, ForAuto)
DoubtfulReply == Found("auto_reply", "none", Checks, ForRoute)
ToTeam == Found("route", "sure", {}, ForRoute)
Question == Found("clarify", "sure", {}, Below)
SecurityQuestion == [Question EXCEPT !.security = TRUE]
Attack == [Reply EXCEPT !.injection = TRUE]

AllAnalyses == {Reply, DoubtfulReply, ToTeam, Question, SecurityQuestion, Attack}
FewAnalyses == {Reply, ToTeam, Question}
BothSources == {"chat", "form"}
OnlyChat == {"chat"}
AnyLevel == PIILevels
Routine == {"routine"}
RoutineOrCritical == {"routine", "critical"}
=============================================================================
