------------------------------- MODULE MCDesk -------------------------------
(***************************************************************************)
(* A small instance of Desk: two teams that share a member, one with a     *)
(* lead, where each may hold one ticket, and two tickets.                  *)
(***************************************************************************)
EXTENDS Desk, TLC

CONSTANTS t1, t2, network, access, lead, member, other, h1, h2

MCTickets == {t1, t2}
MCPeople == {lead, member, other}
MCTeams == {network, access}
MCMembers == network :> {lead, member} @@ access :> {member, other}
MCLeads == network :> {lead} @@ access :> {}
MCHome == t1 :> network @@ t2 :> network
MCHandlers == {h1, h2}

\* Three requests, or two amid the changes of others.
MCBudgets == {[requests |-> 3, changes |-> 0], [requests |-> 2, changes |-> 1]}

\* A ticket in each stage beside one that a reviewer has yet to see.
MCStarts ==
  {t1 :> Row0("pending_review", NoTeam, Nobody) @@ t2 :> row :
     row \in {Row0("resolved", network, member),
              [Row0("waiting", network, member) EXCEPT !.before = "in_progress"]}}
=============================================================================
