---------------------------- MODULE MCAlgorithms ----------------------------
(***************************************************************************)
(* Three separate instances in one: the two pure algorithms over all their *)
(* inputs within bounds (the router, with what may become of a ticket when *)
(* one of its signals improves, and business time against a count of the   *)
(* working units), and the organisation of MCOrganisation.  In a behaviour *)
(* about one of them the others rest at a state of theirs that has no      *)
(* next.                                                                   *)
(***************************************************************************)
EXTENDS RouterSignals, BusinessTime, MCOrganisation

-----------------------------------------------------------------------------
(* The router *)

\* The signals that the gates of the proposal do not look at are fixed.
Fixed(t) ==
  /\ t.proposal \notin {"clarify", "route"} => t.category = "none"
  /\ t.proposal # "clarify" => ~t.security /\ ~t.options /\ t.asked = 0
  /\ t.proposal # "auto_reply" => t.passed = {}
  /\ t.proposal \notin {"auto_reply", "route"} => t.trust = Below

MCInputs ==
  {t \in [injection : BOOLEAN, pii : PIILevels, mass : BOOLEAN, grounded : BOOLEAN,
          proposal : Proposals, category : {"none", "unsure", "sure"}, security : BOOLEAN,
          options : BOOLEAN, asked : 0..MaxRounds, passed : SUBSET Checks, trust : TrustLevels] :
     Fixed(t)}

-----------------------------------------------------------------------------
(* Business time *)

MCDay == 3
Units == 0 .. MCDay
Intervals == [from : Units, to : Units]
RawDays == {<<>>} \union {<<i>> : i \in Intervals} \union {<<i, j>> : i, j \in Intervals}
Days == {d \in RawDays : FitsDay(d)}
Week(first, second) == (0 :> first) @@ (1 :> second)

\* Any hours a client may send for a day, beside a day of rest or a working one.
MCHours ==
  {Week(first, second) : first \in RawDays, second \in {<<>>, <<[from |-> 1, to |-> 3]>>}}
\* Around the clock, or any two days with or without holidays.
MCCalendars ==
  {[always |-> TRUE, hours |-> Week(<<>>, <<>>), holidays |-> {0}]}
  \union {[always |-> FALSE, hours |-> Week(first, second), holidays |-> off] :
            first \in Days, second \in Days \ {<<>>}, off \in SUBSET {0, 1}}
MCMoments == {0, 1, 2, 4}

-----------------------------------------------------------------------------
\* A runbook with nothing left to improve.
RouterRests ==
  signals = [injection |-> FALSE, pii |-> "routine", mass |-> FALSE, grounded |-> TRUE,
             proposal |-> "runbook", category |-> "none", security |-> FALSE, options |-> FALSE,
             asked |-> 0, passed |-> {}, trust |-> Below]
TimeRests == asked = [raw |-> Week(<<>>, <<>>)]

MCInit ==
  \/ SignalsInit /\ TimeRests /\ Starts(Leaving0)
  \/ RouterRests /\ TimeInit /\ Starts(Leaving0)
  \/ RouterRests /\ TimeRests /\ Init
MCNext ==
  \/ Improve /\ UNCHANGED <<asked, vars>>
  \/ TimePasses /\ UNCHANGED <<signals, vars>>
  \/ RouterRests /\ TimeRests /\ Next /\ UNCHANGED <<signals, asked>>
MCSpec == MCInit /\ [][MCNext]_<<signals, asked, vars>>
=============================================================================
