------------------------------ MODULE MCOutbox ------------------------------
(***************************************************************************)
(* A small instance of Outbox: two workers, so that a slow one meets       *)
(* another's claim.                                                        *)
(***************************************************************************)
EXTENDS Outbox

CONSTANTS w1, w2

TwoWorkers == {w1, w2}
=============================================================================
