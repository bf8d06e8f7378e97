---------------------------- MODULE MCSlaClocks ----------------------------
(***************************************************************************)
(* A small instance of SlaClocks: four moments with a pause in the working *)
(* time, and targets a unit or two apart.                                  *)
(***************************************************************************)
EXTENDS SlaClocks

Horizon == 0 .. 9
WorkedAfter == <<1, 1, 2, 3, 4, 5, 6, 7, 8>>
BusinessTime == [t \in Horizon |-> IF t = 0 THEN 0 ELSE WorkedAfter[t]]
Goal(warn, due, escalate) ==
  [warn |-> warn, due |-> due, escalate |-> escalate]
ByTarget(p1, p3, override) ==
  [P1 |-> p1, P3 |-> p3, override |-> override]
MCGoals ==
  [response |-> ByTarget(Goal(1, 1, 2), Goal(1, 2, 3), Goal(1, 1, 1)),
   resolution |-> ByTarget(Goal(1, 2, 3), Goal(2, 3, 4), Goal(1, 1, 2))]

\* The engine alone over a long time; with people's changes and failures; the incident over
\* moves of the ticket; all of it, shortly.
Budget(ticks, moves, changes, handlings) ==
  [ticks |-> ticks, moves |-> moves, changes |-> changes, handlings |-> handlings]
MCBudgets == {Budget(3, 3, 0, 0), Budget(2, 2, 2, 0), Budget(0, 2, 0, 3), Budget(1, 1, 1, 2),
              Budget(0, 2, 1, 2)}
=============================================================================
