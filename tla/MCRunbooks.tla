----------------------------- MODULE MCRunbooks -----------------------------
(***************************************************************************)
(* A small instance of Runbooks: two workers, so that a redelivered task   *)
(* is taken while the first worker is still calling.                       *)
(***************************************************************************)
EXTENDS Runbooks

CONSTANTS w1, w2

TwoWorkers == {w1, w2}
=============================================================================
