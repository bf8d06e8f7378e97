---------------------------- MODULE RouterSignals ----------------------------
(***************************************************************************)
(* The router asked about one ticket whose signals improve one at a time:  *)
(* a check that failed passes, a worse reading gives way to a better one.  *)
(* The router keeps no state, so that what a step changes is only what it  *)
(* is asked; two readings of a ticket are compared by comparing what it    *)
(* decides before and after.                                               *)
(***************************************************************************)
EXTENDS Router

CONSTANT Inputs  \* the signals and proposals a ticket may have

ASSUME InputsAssumption == \A s \in Inputs : s \in Signals

VARIABLE signals

NextLevel == [critical |-> "mask_failed", mask_failed |-> "sensitive", sensitive |-> "routine"]
NextCategory == [none |-> "unsure", unsure |-> "sure"]

Become(better) == better \in Inputs /\ signals' = better

Improve ==
  \/ signals.injection /\ Become([signals EXCEPT !.injection = FALSE])
  \/ signals.mass /\ Become([signals EXCEPT !.mass = FALSE])
  \/ signals.security /\ Become([signals EXCEPT !.security = FALSE])
  \/ ~signals.grounded /\ Become([signals EXCEPT !.grounded = TRUE])
  \/ ~signals.options /\ Become([signals EXCEPT !.options = TRUE])
  \/ signals.pii # "routine" /\ Become([signals EXCEPT !.pii = NextLevel[@]])
  \/ signals.category # "sure" /\ Become([signals EXCEPT !.category = NextCategory[@]])
  \/ \E check \in Checks \ signals.passed : Become([signals EXCEPT !.passed = @ \union {check}])
  \/ signals.trust # ForAuto /\ Become([signals EXCEPT !.trust = @ + 1])
  \/ signals.asked # 0 /\ Become([signals EXCEPT !.asked = @ - 1])

SignalsInit == signals \in Inputs
SignalsSpec == SignalsInit /\ [][Improve]_signals

-----------------------------------------------------------------------------
(* Properties *)

\* Every branch the router takes is one the signals have earned (Router!BranchIsEarned).
BranchesAreEarned == BranchIsEarned(signals)

\* The order of the gates never makes a better signal count against a ticket: whichever
\* signal improves, it is handled with as little human work as before, or less.
BetterSignalsNeverHurt ==
  [][Rank(Route(signals').branch) >= Rank(Route(signals).branch)]_signals
=============================================================================
