-------------------------------- MODULE Desk --------------------------------
(***************************************************************************)
(* The service desk: what requesters and support do to tickets that have   *)
(* left triage (apps/requester/utils/tickets.py, apps/teams/utils/         *)
(* assignment.py, apps/review/utils.py).                                   *)
(*                                                                         *)
(* A handler is a person at a screen with the request it sends, a beat of  *)
(* the sweep, or a workflow action.  Handlers share the tickets and        *)
(* synchronise by row locks, by the advisory lock of each team and by the  *)
(* version a screen was loaded with.  One action is a transaction, or the  *)
(* part of one up to the lock it waits for.                                *)
(*                                                                         *)
(* A workflow may refuse any move (Lifecycle), so each may be refused here.*)
(***************************************************************************)
EXTENDS Integers, FiniteSets

CONSTANTS
  Tickets,
  People,       \* who may hold a ticket
  Nobody,       \* not a person
  Teams,
  NoTeam,       \* not a team
  Members,      \* the members of each team
  Leads,        \* those of them who lead it
  Supervisors,  \* who holds teams.supervise for every team
  Home,         \* the team that owns each ticket's category, or else the fallback team
  Cap,          \* max_open_per_member of each team
  Handlers,     \* the requests, screens and tasks that are open at once
  NoHandler,    \* not a handler
  Starts,       \* the tickets a behaviour may begin with
  Budgets       \* bounds: how many requests, and how many absences, returns and assignments
                \* by workflow actions a behaviour may have

Statuses == {"pending_review", "in_progress", "waiting", "resolved", "reopened"}
Pipeline == {"pending_review", "reopened"}

ASSUME NobodyAssumption == Nobody \notin People /\ NoTeam \notin Teams /\ NoHandler \notin Handlers
ASSUME HandlersAssumption == IsFiniteSet(Handlers)
ASSUME TeamsAssumption ==
  /\ Members \in [Teams -> SUBSET People] /\ Leads \in [Teams -> SUBSET People]
  /\ Supervisors \subseteq People /\ Home \in [Tickets -> Teams]
ASSUME BoundsAssumption == Cap \in Nat /\ Budgets \subseteq [requests : Nat, changes : Nat]

VARIABLES
  tickets,   \* the tickets' rows
  items,     \* the tickets with a review item that is not resolved
  away,      \* who is unavailable or on leave
  handlers,  \* what each handler is doing
  rowLock,   \* who holds each ticket's row lock beyond one step
  teamLock,  \* who holds each team's advisory lock beyond one step
  left       \* what is left of each bound

vars == <<tickets, items, away, handlers, rowLock, teamLock, left>>
locks == <<rowLock, teamLock>>

-----------------------------------------------------------------------------
(* Rows *)

\* `before` is the status the latest wait began from and `waited` whether that wait has lasted
\* auto_close_after_business_days.  `told` and `placed` are no columns: whether the version
\* tells the current assignee and team, and the team under whose lock the assignee was given
\* the ticket, as long as it has been open since.
Ticket == [status : Statuses, before : Statuses, waited : BOOLEAN,
           team : Teams \union {NoTeam}, assignee : People \union {Nobody},
           version : Nat, refusedAt : Nat, resolutions : Nat, reopenings : Nat,
           told : BOOLEAN, placed : Teams \union {NoTeam}]

Resolved(row) == row.status = "resolved"
OpenOf(person) == {t \in Tickets : tickets[t].assignee = person /\ ~Resolved(tickets[t])}

\* Ticket.enter_status, with the transfer that `resume` and the sweep look up.
Entered(row, status) ==
  [row EXCEPT !.status = status, !.version = @ + 1, !.waited = FALSE,
              !.before = IF status = "waiting" THEN row.status ELSE @,
              !.resolutions = IF status = "resolved" THEN @ + 1 ELSE @,
              !.placed = IF Resolved(row) THEN NoTeam ELSE @]

Placed_Unversioned(row, team, person) ==
  [row EXCEPT !.team = team, !.assignee = person, !.told = TRUE, !.placed = team]

\* Assignment.place and place_person, on the row as it is by then.
Placed(row, team, person) ==
  [row EXCEPT !.team = team, !.assignee = person, !.version = @ + 1,
              !.told = TRUE, !.placed = team]

-----------------------------------------------------------------------------
(* Handlers *)

Idle == [pc |-> "idle", ticket |-> CHOOSE t \in Tickets : TRUE, by |-> Nobody, trigger |-> "none",
         seen |-> [status |-> "resolved", team |-> NoTeam, assignee |-> Nobody, version |-> 0],
         to |-> [team |-> NoTeam, person |-> Nobody]]

Seen(t) == [status |-> tickets[t].status, team |-> tickets[t].team,
            assignee |-> tickets[t].assignee, version |-> tickets[t].version]

TicketOf(h) == handlers[h].ticket
Row(h) == tickets[TicketOf(h)]
Unlocked(h) == rowLock[TicketOf(h)] = NoHandler
IsAt(h, pc) == handlers[h].pc = pc
Goes(h, pc) == handlers' = [handlers EXCEPT ![h].pc = pc]
Ends(h) == handlers' = [handlers EXCEPT ![h] = Idle]
Writes(h, row) == tickets' = [tickets EXCEPT ![TicketOf(h)] = row]

\* A new request on `t`, of what the handler reads of it now.
Opens(h, t, pc, by, trigger, team) ==
  /\ IsAt(h, "idle") /\ left.requests > 0
  /\ handlers' = [handlers EXCEPT ![h] =
       [pc |-> pc, ticket |-> t, by |-> by, trigger |-> trigger, seen |-> Seen(t),
        to |-> [team |-> team, person |-> Nobody]]]
  /\ left' = [left EXCEPT !.requests = @ - 1]
  /\ UNCHANGED <<tickets, items, away, rowLock, teamLock>>

-----------------------------------------------------------------------------
(* Who a team gives a ticket to *)

\* TeamMembershipQuerySet.eligible
Eligible(team) == {p \in Members[team] \ away : Cardinality(OpenOf(p)) < Cap}

\* Assignment.pick: one of them, by the team's strategy.
Picks(team) == IF Eligible(team) = {} THEN {Nobody} ELSE Eligible(team)

\* Assignment.inherited, else the strategy's choice; nobody, when only the team changes.
Chosen(h, team) ==
  CASE handlers[h].trigger = "team" -> {Nobody}
    [] handlers[h].trigger = "reopen" /\ handlers[h].seen.assignee \in Eligible(team) ->
         {handlers[h].seen.assignee}
    [] OTHER -> Picks(team)

\* The team a ticket goes to: a reopened one stays with the team it was read with.
TeamFor(h) ==
  LET seen == handlers[h].seen
  IN CASE handlers[h].trigger \in {"review", "action", "team"} -> handlers[h].to.team
       [] handlers[h].trigger = "reopen" /\ seen.team # NoTeam -> seen.team
       [] OTHER -> Home[TicketOf(h)]

HandoffLocks_NoLock(h) ==
  /\ IsAt(h, "handoff")
  /\ \E person \in Chosen(h, TeamFor(h)) :
       handlers' = [handlers EXCEPT ![h].pc = "place",
                                    ![h].to = [team |-> TeamFor(h), person |-> person]]
  /\ UNCHANGED <<tickets, items, away, rowLock, teamLock, left>>

\* hand_to_team chooses under the team's lock, and so does move_to_team.
HandoffLocks(h) ==
  /\ IsAt(h, "handoff") /\ teamLock[TeamFor(h)] = NoHandler
  /\ teamLock' = [teamLock EXCEPT ![TeamFor(h)] = h]
  /\ \E person \in Chosen(h, TeamFor(h)) :
       handlers' = [handlers EXCEPT ![h].pc = "place",
                                    ![h].to = [team |-> TeamFor(h), person |-> person]]
  /\ UNCHANGED <<tickets, items, away, rowLock, left>>

\* The row's lock, when `h` has it, is released.
Releases(h) == rowLock' = [rowLock EXCEPT ![TicketOf(h)] = IF @ = h THEN NoHandler ELSE @]

\* The transaction of a hand-off ends, and with it its locks and, of a review, the item.
HandoffEnds(h) ==
  /\ teamLock' = [team \in Teams |-> IF teamLock[team] = h THEN NoHandler ELSE teamLock[team]]
  /\ items' = IF handlers[h].trigger = "review" THEN items \ {TicketOf(h)} ELSE items
  /\ Releases(h) /\ Ends(h)

\* place, or the team's two columns and no new version.
HandedOff(h) ==
  LET to == handlers[h].to
  IN IF handlers[h].trigger = "team" THEN [Row(h) EXCEPT !.team = to.team, !.told = FALSE]
     ELSE Placed(Row(h), to.team, to.person)

HandoffPlaces_KeepsLock(h) ==
  /\ IsAt(h, "place") /\ rowLock[TicketOf(h)] \in {NoHandler, h}
  /\ Writes(h, HandedOff(h))
  /\ Releases(h) /\ Ends(h)
  /\ UNCHANGED <<items, away, teamLock, left>>

\* The row is written, which waits for whoever holds it, whatever became of it meanwhile.
HandoffPlaces(h) ==
  /\ IsAt(h, "place") /\ rowLock[TicketOf(h)] \in {NoHandler, h}
  /\ Writes(h, HandedOff(h))
  /\ HandoffEnds(h)
  /\ UNCHANGED <<away, left>>

-----------------------------------------------------------------------------
(* Support *)

\* A person opens the ticket; what they send carries the version they were shown.
Views(h, p, t) == Opens(h, t, "screen", p, "none", NoTeam)

Closes(h) ==
  /\ IsAt(h, "screen")
  /\ Ends(h)
  /\ UNCHANGED <<tickets, items, away, locks, left>>

Current(h) == Row(h).version = handlers[h].seen.version

\* move: committed at once, or refused by the workflow (Lifecycle has those with actions).
\* The API takes a move without a version too; the console's screens always send theirs.
Moves(h, status) ==
  /\ IsAt(h, "screen") /\ Unlocked(h)
  /\ Current(h) /\ status # Row(h).status
  /\ Writes(h, Entered(Row(h), status))
  /\ Ends(h)
  /\ UNCHANGED <<items, away, locks, left>>

\* is_owned: whether the assignee can work the ticket now, or is not of its team at all.
IsOwned(row) ==
  row.assignee # Nobody /\ ~(row.assignee \in Members[row.team] /\ row.assignee \in away)

Locks(h, pc, to) ==
  /\ rowLock' = [rowLock EXCEPT ![TicketOf(h)] = h]
  /\ handlers' = [handlers EXCEPT ![h].pc = pc, ![h].to = to]
  /\ UNCHANGED <<tickets, items, away, teamLock, left>>

\* take, on an open ticket of the person's team, up to the team's lock.
Takes(h) ==
  LET row == Row(h)
      p == handlers[h].by
  IN /\ IsAt(h, "screen") /\ Unlocked(h)
     /\ ~Resolved(row) /\ row.team # NoTeam /\ p \in Supervisors \union Members[row.team]
     /\ Current(h) /\ ~IsOwned(row)
     /\ Locks(h, "take", [team |-> row.team, person |-> p])

\* check_reassigner
MayReassign(p, row, target) ==
  \/ p \in Supervisors
  \/ row.team # NoTeam /\ p \in Leads[row.team]
  \/ row.assignee = p /\ target = row.team

\* reassign, up to the target team's lock, to a member or (Nobody) to whom its strategy picks.
Reassigns(h, target, person) ==
  LET row == Row(h)
  IN /\ IsAt(h, "screen") /\ Unlocked(h)
     /\ ~Resolved(row) /\ Current(h)
     /\ MayReassign(handlers[h].by, row, target)
     /\ person \in Members[target] \union {Nobody}
     /\ Locks(h, "reassign", [team |-> target, person |-> person])

\* With the team's lock, take and reassign place the ticket and commit.
Assigns(h) ==
  LET to == handlers[h].to
  IN /\ handlers[h].pc \in {"take", "reassign"} /\ teamLock[to.team] = NoHandler
     /\ \E person \in IF IsAt(h, "reassign") /\ to.person = Nobody THEN Picks(to.team)
                       ELSE {to.person} :
          Writes(h, Placed(Row(h), to.team, person))
     /\ rowLock' = [rowLock EXCEPT ![TicketOf(h)] = NoHandler]
     /\ Ends(h)
     /\ UNCHANGED <<items, away, teamLock, left>>

\* A reviewer opens an item of the queue.
Reviews(h, t) == t \in items /\ Opens(h, t, "review", Nobody, "review", NoTeam)

Deciding(h) == handlers[h].trigger = "review" /\ handlers[h].pc \in {"correct", "handoff", "place"}

\* decide, of an item in any state by then: it answers, closes or escalates, or hands the ticket
\* off in the same transaction, which keeps the item's row till it ends: by the category it has,
\* or by another.
Decides(h) ==
  /\ IsAt(h, "review")
  /\ ~\E k \in Handlers : Deciding(k) /\ TicketOf(k) = TicketOf(h)
  /\ \/ Ends(h) /\ items' = items \ {TicketOf(h)}
     \/ /\ \E pc \in {"handoff", "correct"}, team \in Teams :
             /\ pc = "handoff" => team = Home[TicketOf(h)]
             /\ handlers' = [handlers EXCEPT ![h].pc = pc, ![h].to.team = team]
        /\ UNCHANGED items
  /\ UNCHANGED <<tickets, away, locks, left>>

\* The corrected category is written, and locks the ticket's row till the decision commits.
Corrects(h) == IsAt(h, "correct") /\ Unlocked(h) /\ Locks(h, "handoff", handlers[h].to)

-----------------------------------------------------------------------------
(* The requester and the sweep *)

\* reply: on a ticket that is not resolved.
Replies(h, t) == ~Resolved(tickets[t]) /\ Opens(h, t, "reply", Nobody, "none", NoTeam)

\* The comment is stored under the row's lock and committed.
Comments(h) ==
  /\ IsAt(h, "reply") /\ Unlocked(h)
  /\ Goes(h, "resume")
  /\ UNCHANGED <<tickets, items, away, locks, left>>

\* The status before the latest wait, unless triage's.
ResumeTo(row) == IF row.before \in Pipeline THEN "in_progress" ELSE row.before

Resumes_AnyStatus(h) ==
  /\ IsAt(h, "resume") /\ Unlocked(h)
  /\ \/ UNCHANGED tickets
     \/ Row(h).status # ResumeTo(Row(h)) /\ Writes(h, Entered(Row(h), ResumeTo(Row(h))))
  /\ Ends(h)
  /\ UNCHANGED <<items, away, locks, left>>

\* resume: by the status the reply read, moves the ticket as it is now; or is refused.
Resumes(h) ==
  /\ IsAt(h, "resume") /\ Unlocked(h)
  /\ \/ UNCHANGED tickets
     \/ /\ handlers[h].seen.status = "waiting" /\ Row(h).status # ResumeTo(Row(h))
        /\ Writes(h, Entered(Row(h), ResumeTo(Row(h))))
  /\ Ends(h)
  /\ UNCHANGED <<items, away, locks, left>>

\* reopen: of a ticket it reads as resolved, within the window.
Reopens(h, t) == Resolved(tickets[t]) /\ Opens(h, t, "reopen", Nobody, "reopen", NoTeam)

Reopened(row) == [Entered(row, "reopened") EXCEPT !.reopenings = @ + 1]

\* reopen_now, under the row's lock; the hand-off that follows works on what it read there.
ReopensNow(h) ==
  /\ IsAt(h, "reopen") /\ Unlocked(h)
  /\ \/ ~Resolved(Row(h)) /\ Ends(h) /\ UNCHANGED tickets
     \/ /\ Resolved(Row(h))
        /\ LET row == Reopened(Row(h))
           IN /\ Writes(h, row)
              /\ handlers' = [handlers EXCEPT ![h].pc = "handoff", ![h].seen =
                   [status |-> row.status, team |-> row.team, assignee |-> row.assignee,
                    version |-> row.version]]
  /\ UNCHANGED <<items, away, locks, left>>

\* The wait lasts auto_close_after_business_days.
Waits(t) ==
  /\ tickets[t].status = "waiting" /\ ~tickets[t].waited
  /\ tickets' = [tickets EXCEPT ![t].waited = TRUE]
  /\ UNCHANGED <<items, away, handlers, locks, left>>

\* close_stale finds a wait that has lasted.
Sweeps(h, t) == tickets[t].waited /\ Opens(h, t, "close", Nobody, "none", NoTeam)

\* close: resolves the ticket if it still waits; a refusal is remembered for its version.
SweepCloses(h) ==
  LET row == Row(h)
  IN /\ IsAt(h, "close") /\ Unlocked(h)
     /\ IF row.status # "waiting" \/ row.refusedAt = row.version THEN UNCHANGED tickets
        ELSE \/ Writes(h, Entered(row, "resolved"))
             \/ Writes(h, [row EXCEPT !.refusedAt = row.version])
     /\ Ends(h)
     /\ UNCHANGED <<items, away, locks, left>>

-----------------------------------------------------------------------------
(* Automations, absences and the database *)

Changes == left.changes > 0 /\ left' = [left EXCEPT !.changes = @ - 1]

\* assign_user: an UPDATE of the one column, and no new version.
Automates(t) ==
  /\ rowLock[t] = NoHandler /\ Changes
  /\ \E p \in People :
       tickets' = [tickets EXCEPT ![t].assignee = p, ![t].told = FALSE, ![t].placed = NoTeam]
  /\ UNCHANGED <<items, away, handlers, locks>>

\* assign_team, with a pick or without.
AutomatesTeam(h, t, team) ==
  \E trigger \in {"action", "team"} : Opens(h, t, "handoff", Nobody, trigger, team)

\* A person goes on leave, or comes back.
ComesOrGoes(p) ==
  /\ Changes
  /\ away' = IF p \in away THEN away \ {p} ELSE away \union {p}
  /\ UNCHANGED <<tickets, items, handlers, locks>>

\* `k` holds what `h` waits for: a ticket's row, a team's lock or a review item.
Awaits(h, k) ==
  \/ /\ handlers[h].pc \in {"correct", "place", "reply", "resume", "reopen", "close"}
     /\ rowLock[TicketOf(h)] = k /\ k # h
  \/ IsAt(h, "handoff") /\ teamLock[TeamFor(h)] = k
  \/ handlers[h].pc \in {"take", "reassign"} /\ teamLock[handlers[h].to.team] = k
  \/ IsAt(h, "review") /\ Deciding(k) /\ TicketOf(h) = TicketOf(k)

\* A cycle, or several: hand-offs hold a team's lock and wait for a row, whose holders (people, or
\* a hand-off with its category corrected) wait for the lock of that team or of another.
Deadlocked(D) ==
  /\ D # {}
  /\ \A h \in D : (\E k \in D : Awaits(h, k)) /\ (\E k \in D : Awaits(k, h))

\* The person is told of an error; a failed hand-off is audited (assign_after_handoff) and
\* leaves the ticket as it is.
Aborts(h) ==
  \/ handlers[h].pc \in {"handoff", "place"} /\ HandoffEnds(h)
  \/ /\ handlers[h].pc \in {"take", "reassign"} /\ Releases(h) /\ Ends(h)
     /\ UNCHANGED <<items, teamLock>>

\* The database aborts one of them.
BreaksDeadlock ==
  \E D \in SUBSET Handlers :
    /\ Deadlocked(D) /\ \E h \in D : Aborts(h)
    /\ UNCHANGED <<tickets, away, left>>

-----------------------------------------------------------------------------
(* The specification *)

Row0(status, team, assignee) ==
  [status |-> status, before |-> "pending_review", waited |-> FALSE, team |-> team,
   assignee |-> assignee, version |-> 1, refusedAt |-> 0,
   resolutions |-> IF status = "resolved" THEN 1 ELSE 0, reopenings |-> 0,
   told |-> TRUE, placed |-> IF status = "resolved" THEN NoTeam ELSE team]

ASSUME StartsAssumption ==
  /\ Tickets # {} /\ IsFiniteSet(Tickets)
  /\ Starts \subseteq [Tickets -> Ticket]
  /\ \A rows \in Starts, t \in Tickets :
       /\ rows[t].reopenings = 0
       /\ Resolved(rows[t]) => rows[t].resolutions > 0

Init ==
  /\ tickets \in Starts
  /\ items = {t \in Tickets : tickets[t].status = "pending_review"}
  /\ away = {}
  /\ handlers = [h \in Handlers |-> Idle]
  /\ rowLock = [t \in Tickets |-> NoHandler] /\ teamLock = [team \in Teams |-> NoHandler]
  /\ left \in Budgets

Requests(h) ==
  \E t \in Tickets :
    \/ \E p \in People : Views(h, p, t)
    \/ Reviews(h, t) \/ Replies(h, t) \/ Reopens(h, t) \/ Sweeps(h, t)
    \/ \E team \in Teams : AutomatesTeam(h, t, team)

\* What a person may do next, or not.
Acts(h) ==
  \/ Takes(h)
  \/ \E status \in Statuses \ Pipeline : Moves(h, status)
  \/ \E target \in Teams, person \in People \union {Nobody} : Reassigns(h, target, person)

\* What goes on by itself once sent.
Works(h) ==
  \/ Closes(h) \/ Assigns(h) \/ Decides(h) \/ Corrects(h) \/ HandoffLocks(h) \/ HandoffPlaces(h)
  \/ Comments(h) \/ Resumes(h) \/ ReopensNow(h) \/ SweepCloses(h)

Next ==
  \/ \E h \in Handlers : Requests(h) \/ Acts(h) \/ Works(h)
  \/ \E t \in Tickets : Waits(t) \/ Automates(t)
  \/ \E p \in People : ComesOrGoes(p)
  \/ BreaksDeadlock

Spec == Init /\ [][Next]_vars

\* Requests are carried out, screens are closed in the end, and the database resolves
\* deadlocks (deadlock_timeout).
FairSpec == Spec /\ (\A h \in Handlers : WF_vars(Works(h))) /\ WF_vars(BreaksDeadlock)

-----------------------------------------------------------------------------
(* Properties *)

TypeOK ==
  /\ tickets \in [Tickets -> Ticket]
  /\ items \subseteq Tickets /\ away \subseteq People
  /\ handlers \in [Handlers ->
       [pc : {"idle", "screen", "take", "reassign", "review", "correct", "handoff", "place",
              "reply", "resume", "reopen", "close"},
        ticket : Tickets, by : People \union {Nobody},
        trigger : {"none", "review", "reopen", "action", "team"},
        seen : [status : Statuses, team : Teams \union {NoTeam},
                assignee : People \union {Nobody}, version : Nat],
        to : [team : Teams \union {NoTeam}, person : People \union {Nobody}]]]
  /\ rowLock \in [Tickets -> Handlers \union {NoHandler}]
  /\ teamLock \in [Teams -> Handlers \union {NoHandler}]
  /\ left \in [requests : Nat, changes : Nat]

\* "The ticket changed; reload and try again": whatever others do between a screen and its
\* request, a person moves, takes or reassigns the ticket they were shown: its status, and its
\* assignee and team but for the workflow's own assignments, which make no version.
PeopleActOnWhatTheySaw ==
  [][\A h \in Handlers :
       /\ handlers[h].pc \in {"screen", "take", "reassign"}
       /\ tickets'[TicketOf(h)] # Row(h) /\ handlers'[h] = Idle
       => LET seen == handlers[h].seen
          IN /\ Row(h).status = seen.status
             /\ Row(h).told => Row(h).assignee = seen.assignee /\ Row(h).team = seen.team]_vars

\* "Reopen within the window": a resolution is reopened once, from however many tabs.
OneReopeningPerResolution ==
  \A t \in Tickets : tickets[t].reopenings <= tickets[t].resolutions

\* "Concurrent assignments to one team are serialized" (BR-F2-08) so that a strategy's pick
\* fits the cap (BR-F2-03): counting what the team has given the member, and not what reached
\* them without its lock, by a reopening, a workflow action or another team.
HeldSince(person, team) ==
  {t \in Tickets : /\ tickets'[t].assignee = person /\ ~Resolved(tickets'[t])
                   /\ tickets'[t].placed = team}
PicksKeepTheCap ==
  [][\A h \in Handlers :
       HandoffPlaces(h) /\ handlers[h].to.person # Nobody =>
         Cardinality(HeldSince(handlers[h].to.person, handlers[h].to.team)) <= Cap]_vars

\* A resolution is undone by its one reopening, by a person who was shown it, or by the resume of
\* a reply to a ticket that was waiting when the requester sent it; nothing else revives a ticket.
ResolutionsStand ==
  /\ []OneReopeningPerResolution
  /\ [][\A t \in Tickets : Resolved(tickets[t]) /\ ~Resolved(tickets'[t]) =>
          \/ tickets'[t].reopenings = tickets[t].reopenings + 1
          \/ \E h \in Handlers :
               /\ TicketOf(h) = t
               /\ \/ IsAt(h, "screen") /\ handlers[h].seen.status = "resolved"
                  \/ IsAt(h, "resume") /\ handlers[h].seen.status = "waiting"]_vars

\* No lock outlives its transaction: following who waits for whom, one comes to a request that
\* can go on, or to a deadlock that the database breaks.  A set of requests in which each waits,
\* and only for others of the set, holds a deadlock.
Busy == {h \in Handlers : handlers[h].pc \notin {"idle", "screen"}}
Stalled(W) ==
  W # {} /\ \A h \in W : /\ \E k \in Handlers : Awaits(h, k)
                         /\ \A k \in Busy : Awaits(h, k) => k \in W
NobodyWaitsInVain ==
  \A W \in SUBSET Busy : Stalled(W) => \E D \in SUBSET W : Deadlocked(D)

\* Every request ends, though hand-offs and people lock a team and a ticket in opposite orders.
EveryRequestEnds == \A h \in Handlers : handlers[h].pc # "idle" ~> handlers[h].pc = "idle"
=============================================================================
