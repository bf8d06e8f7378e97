----------------------------- MODULE DeskProofs -----------------------------
(***************************************************************************)
(* Proofs about Desk, for any number of tickets, people, teams and         *)
(* handlers.                                                               *)
(*                                                                         *)
(* Rows only move on (Follows): a row of the same version has the same     *)
(* status and, as long as its version tells them, the same team and        *)
(* assignee.  So what a screen was shown holds while the version it was    *)
(* loaded with is current (ScreensOK); and from the check of the version   *)
(* to the write the row's lock keeps it current (LocksOK).  A hand-off has *)
(* room for whom it chose as long as it holds its team's lock (Capped).    *)
(***************************************************************************)
EXTENDS Desk, TLAPS, FiniteSetTheorems

Pcs == {"idle", "screen", "take", "reassign", "review", "correct", "handoff", "place", "reply",
        "resume", "reopen", "close"}
Triggers == {"none", "review", "reopen", "action", "team"}
View == [status : Statuses, team : Teams \union {NoTeam}, assignee : People \union {Nobody},
         version : Nat]
Target == [team : Teams \union {NoTeam}, person : People \union {Nobody}]
Handler == [pc : Pcs, ticket : Tickets, by : People \union {Nobody}, trigger : Triggers,
            seen : View, to : Target]

\* Whose request names a team, or who is about to place the ticket, has a team to place it with.
Aimed(pc, trigger) ==
  \/ trigger \in {"action", "team"} \/ (trigger = "review" /\ pc # "review")
  \/ pc \in {"take", "reassign", "place"}
Fits(r) == r \in Handler /\ (Aimed(r.pc, r.trigger) => r.to.team \in Teams)

TypeInv == TypeOK /\ \A h \in Handlers : Fits(handlers[h])

\* A resolved ticket has been resolved once more than reopened, at least.
Counted(row) ==
  /\ row.reopenings <= row.resolutions
  /\ Resolved(row) => row.reopenings < row.resolutions

\* The row `new` is `old` some writes later.
Follows(old, new) ==
  /\ old.version <= new.version
  /\ new.version = old.version =>
       /\ new.status = old.status
       /\ new.told => old.told /\ new.team = old.team /\ new.assignee = old.assignee
  /\ Counted(old) => Counted(new)

Locking == {"take", "reassign"}
Watching == {"screen"} \union Locking

\* What the person of `r` was shown is the row, or an older one of a lower version.
Shown(r, row) ==
  /\ r.seen.version <= row.version
  /\ r.seen.version = row.version =>
       /\ row.status = r.seen.status
       /\ row.told => row.assignee = r.seen.assignee /\ row.team = r.seen.team

ScreensOK == \A h \in Handlers : handlers[h].pc \in Watching => Shown(handlers[h], Row(h))
LocksOK == \A h \in Handlers :
             handlers[h].pc \in Locking => rowLock[TicketOf(h)] = h /\ Current(h)
CountsOK == \A t \in Tickets : Counted(tickets[t])

Safe == ScreensOK /\ LocksOK /\ CountsOK

-----------------------------------------------------------------------------
(* Rows *)

\* A status entered, and the row follows.
LEMMA EnteredFollows ==
  ASSUME NEW row \in Ticket, NEW status \in Statuses, status # row.status
  PROVE  /\ Entered(row, status) \in Ticket
         /\ Follows(row, Entered(row, status))
         /\ Entered(row, status).version > row.version
<1> DEFINE new == Entered(row, status)
           before == IF status = "waiting" THEN row.status ELSE row.before
           resolutions == IF status = "resolved" THEN row.resolutions + 1 ELSE row.resolutions
           placed == IF Resolved(row) THEN NoTeam ELSE row.placed
           version == row.version + 1
           no == FALSE
<1>0. version \in Nat /\ version = row.version + 1 /\ no \in BOOLEAN
  BY DEF Ticket
<1>1. /\ before \in Statuses /\ resolutions \in Nat /\ placed \in Teams \union {NoTeam}
      /\ row.resolutions <= resolutions
      /\ status = "resolved" => resolutions = row.resolutions + 1
  BY DEF Ticket
<1>2. new = [row EXCEPT !.status = status, !.version = version, !.waited = no,
                        !.before = before, !.resolutions = resolutions, !.placed = placed]
  BY DEF Entered
<1> HIDE DEF before, resolutions, placed, new, version, no
<1>3. /\ new \in Ticket /\ new.version = version /\ new.status = status
      /\ new.resolutions = resolutions /\ new.reopenings = row.reopenings
  BY <1>0, <1>1, <1>2 DEF Ticket
<1>4. row.version \in Nat /\ row.resolutions \in Nat /\ row.reopenings \in Nat
  BY DEF Ticket
<1>5. Follows(row, new) /\ new.version > row.version
  BY <1>0, <1>1, <1>3, <1>4 DEF Follows, Counted, Resolved
<1> QED
  BY <1>3, <1>5 DEF new

\* A ticket placed, and the row follows.
LEMMA PlacedFollows ==
  ASSUME NEW row \in Ticket, NEW team \in Teams, NEW person \in People \union {Nobody}
  PROVE  /\ Placed(row, team, person) \in Ticket
         /\ Follows(row, Placed(row, team, person))
<1> DEFINE new == Placed(row, team, person)
           version == row.version + 1
           yes == TRUE
<1>1. version \in Nat /\ version > row.version /\ yes \in BOOLEAN /\ row.version \in Nat
  BY DEF Ticket
<1>2. new = [row EXCEPT !.team = team, !.assignee = person, !.version = version,
                        !.told = yes, !.placed = team]
  BY DEF Placed
<1> HIDE DEF version, yes, new
<1>3. /\ new \in Ticket /\ new.version = version /\ new.status = row.status
      /\ new.resolutions = row.resolutions /\ new.reopenings = row.reopenings
  BY <1>1, <1>2 DEF Ticket
<1>4. Follows(row, new)
  BY <1>1, <1>3 DEF Follows, Counted, Resolved
<1> QED
  BY <1>3, <1>4 DEF new

\* A row written is a row, and the others stay.
LEMMA RowWritten ==
  ASSUME tickets \in [Tickets -> Ticket], NEW t \in Tickets, NEW row \in Ticket,
         Follows(tickets[t], row), tickets' = [tickets EXCEPT ![t] = row]
  PROVE  /\ tickets' \in [Tickets -> Ticket]
         /\ \A u \in Tickets : Follows(tickets[u], tickets'[u])
         /\ tickets'[t] = row
<1>1. \A u \in Tickets \ {t} : tickets'[u] = tickets[u] /\ tickets[u].version \in Nat
  BY DEF Ticket
<1> QED
  BY <1>1 DEF Follows

LEMMA RowsKept ==
  ASSUME tickets \in [Tickets -> Ticket], tickets' = tickets
  PROVE  \A u \in Tickets : Follows(tickets[u], tickets'[u])
<1>1. \A u \in Tickets : tickets[u].version \in Nat
  BY DEF Ticket
<1> QED
  BY <1>1 DEF Follows

-----------------------------------------------------------------------------
(* Handlers *)

LEMMA IdleFits == Fits(Idle) /\ Idle.pc = "idle"
<1> DEFINE some == CHOOSE t \in Tickets : TRUE
<1>1. some \in Tickets
  BY StartsAssumption
<1> HIDE DEF some
<1>2. Idle = [pc |-> "idle", ticket |-> some, by |-> Nobody, trigger |-> "none",
              seen |-> [status |-> "resolved", team |-> NoTeam, assignee |-> Nobody,
                        version |-> 0],
              to |-> [team |-> NoTeam, person |-> Nobody]]
  BY DEF Idle, some
<1> QED
  BY <1>1, <1>2 DEF Fits, Aimed, Handler, Pcs, Triggers, View, Target, Statuses

\* What a step of `h` may do to the handlers, the rows and the types.
StepOf(h) ==
  /\ TypeInv'
  /\ \A t \in Tickets : Follows(tickets[t], tickets'[t])
  /\ \A k \in Handlers \ {h} : handlers'[k] = handlers[k]

LEMMA StepsFit ==
  ASSUME TypeInv, NEW h \in Handlers, NEW r, Fits(r),
         handlers' = [handlers EXCEPT ![h] = r],
         tickets' \in [Tickets -> Ticket], items' \subseteq Tickets, away' \subseteq People,
         rowLock' \in [Tickets -> Handlers \union {NoHandler}],
         teamLock' \in [Teams -> Handlers \union {NoHandler}],
         left' \in [requests : Nat, changes : Nat],
         \A t \in Tickets : Follows(tickets[t], tickets'[t])
  PROVE  StepOf(h) /\ handlers'[h] = r
<1>1. handlers \in [Handlers -> Handler]
  BY DEF TypeInv, TypeOK, Handler, Pcs, Triggers, View, Target
<1>2. /\ handlers' \in [Handlers -> Handler] /\ handlers'[h] = r
      /\ \A k \in Handlers \ {h} : handlers'[k] = handlers[k]
  BY <1>1 DEF Fits
<1>3. \A k \in Handlers : Fits(handlers'[k])
  BY <1>2 DEF TypeInv
<1>4. TypeOK'
  BY <1>2 DEF TypeOK, Handler, Pcs, Triggers, View, Target
<1> QED
  BY <1>2, <1>3, <1>4 DEF TypeInv, StepOf

\* What TypeInv says, in the names of this module.
LEMMA Typed ==
  ASSUME TypeInv
  PROVE  /\ tickets \in [Tickets -> Ticket] /\ items \subseteq Tickets /\ away \subseteq People
         /\ handlers \in [Handlers -> Handler]
         /\ \A h \in Handlers : Fits(handlers[h]) /\ handlers[h] \in Handler
         /\ rowLock \in [Tickets -> Handlers \union {NoHandler}]
         /\ teamLock \in [Teams -> Handlers \union {NoHandler}]
         /\ left \in [requests : Nat, changes : Nat]
BY DEF TypeInv, TypeOK, Handler, Pcs, Triggers, View, Target, Fits

LEMMA TypeInvInit == Init => TypeInv /\ Safe
<1> SUFFICES ASSUME Init PROVE TypeInv /\ Safe
  OBVIOUS
<1>1. tickets \in [Tickets -> Ticket] /\ \A t \in Tickets : Counted(tickets[t])
  BY StartsAssumption DEF Init, Ticket, Counted, Resolved
<1>2. \A h \in Handlers : handlers[h] = Idle
  BY DEF Init
<1>3. handlers \in [Handlers -> Handler]
  BY <1>2, IdleFits DEF Init, Fits
<1>4. items \subseteq Tickets /\ away \subseteq People /\ left \in [requests : Nat, changes : Nat]
  BY BoundsAssumption DEF Init
<1>5. /\ rowLock \in [Tickets -> Handlers \union {NoHandler}]
      /\ teamLock \in [Teams -> Handlers \union {NoHandler}]
  BY DEF Init
<1>6. TypeOK
  BY <1>1, <1>3, <1>4, <1>5 DEF TypeOK, Handler, Pcs, Triggers, View, Target
<1>7. TypeInv
  BY <1>2, <1>6, IdleFits DEF TypeInv
<1>8. \A h \in Handlers : handlers[h].pc \notin Watching
  BY <1>2, IdleFits DEF Watching, Locking
<1> QED
  BY <1>1, <1>7, <1>8 DEF Safe, ScreensOK, LocksOK, CountsOK, Watching


\* What the person of `h` was shown is the ticket, if the step writes it.
Sighted(h) ==
  handlers[h].pc \in Watching /\ tickets'[TicketOf(h)] # Row(h) =>
    /\ Row(h).status = handlers[h].seen.status
    /\ Row(h).told => /\ Row(h).assignee = handlers[h].seen.assignee
                      /\ Row(h).team = handlers[h].seen.team

Good(h) == StepOf(h) /\ Safe' /\ Sighted(h)

LEMMA ShownStays ==
  ASSUME NEW r \in Handler, NEW row \in Ticket, NEW new \in Ticket,
         Shown(r, row), Follows(row, new)
  PROVE  Shown(r, new)
<1>1. r.seen.version \in Nat /\ row.version \in Nat /\ new.version \in Nat
  BY DEF Handler, View, Ticket
<1> QED
  BY <1>1 DEF Shown, Follows

\* A step of `h` that changes no version of a row, and no lock, that another holds.
LEMMA SafeKept ==
  ASSUME TypeInv, Safe, NEW h \in Handlers, StepOf(h),
         \A t \in Tickets :
           tickets'[t].version # tickets[t].version \/ rowLock'[t] # rowLock[t]
             => rowLock[t] \in {NoHandler, h},
         handlers'[h].pc \in Watching => Shown(handlers'[h], tickets'[handlers'[h].ticket]),
         handlers'[h].pc \in Locking =>
           /\ rowLock'[handlers'[h].ticket] = h
           /\ tickets'[handlers'[h].ticket].version = handlers'[h].seen.version
  PROVE  Safe'
<1>1. TypeInv'
  BY DEF StepOf
<1>2. ASSUME NEW k \in Handlers, handlers'[k].pc \in Watching
      PROVE  Shown(handlers'[k], tickets'[handlers'[k].ticket])
  <2>1. CASE k = h
    BY <1>2, <2>1
  <2>2. CASE k # h
    <3>1. handlers'[k] = handlers[k] /\ TicketOf(k) \in Tickets
      BY <2>2, Typed DEF StepOf, TicketOf, Handler
    <3>2. tickets[TicketOf(k)] \in Ticket /\ tickets'[TicketOf(k)] \in Ticket
      BY <1>1, <3>1, Typed DEF TypeInv, TypeOK
    <3>3. Shown(handlers[k], tickets[TicketOf(k)])
      BY <1>2, <3>1 DEF Safe, ScreensOK, Row
    <3>4. Follows(tickets[TicketOf(k)], tickets'[TicketOf(k)])
      BY <3>1 DEF StepOf
    <3> QED
      BY <3>1, <3>2, <3>3, <3>4, ShownStays, Typed DEF TicketOf
  <2> QED
    BY <2>1, <2>2
<1>3. ASSUME NEW k \in Handlers, handlers'[k].pc \in Locking
      PROVE  /\ rowLock'[handlers'[k].ticket] = k
             /\ tickets'[handlers'[k].ticket].version = handlers'[k].seen.version
  <2>1. CASE k = h
    BY <1>3, <2>1
  <2>2. CASE k # h
    <3>1. handlers'[k] = handlers[k] /\ TicketOf(k) \in Tickets
      BY <2>2, Typed DEF StepOf, TicketOf, Handler
    <3>2. rowLock[TicketOf(k)] = k /\ tickets[TicketOf(k)].version = handlers[k].seen.version
      BY <1>3, <3>1 DEF Safe, LocksOK, Row, Current
    <3>3. rowLock[TicketOf(k)] \notin {NoHandler, h}
      BY <2>2, <3>2, NobodyAssumption
    <3> QED
      BY <3>1, <3>2, <3>3 DEF TicketOf
  <2> QED
    BY <2>1, <2>2
<1>4. \A t \in Tickets : Counted(tickets'[t])
  BY DEF StepOf, Safe, CountsOK, Follows
<1> QED
  BY <1>2, <1>3, <1>4 DEF Safe, ScreensOK, LocksOK, CountsOK, Row, TicketOf, Current

\* One that writes nothing and locks nothing, and leaves no screen to watch.
LEMMA QuietStep ==
  ASSUME TypeInv, Safe, NEW h \in Handlers, StepOf(h),
         tickets' = tickets, rowLock' = rowLock, handlers'[h].pc \notin Watching
  PROVE  Good(h)
<1>1. Safe'
  BY SafeKept DEF Watching
<1> QED
  BY <1>1 DEF Good, Sighted, Row

\* One that writes a row nobody has locked, or the one `h` has.
LEMMA WritingStep ==
  ASSUME TypeInv, Safe, NEW h \in Handlers, StepOf(h),
         rowLock[TicketOf(h)] \in {NoHandler, h},
         \A t \in Tickets \ {TicketOf(h)} : tickets'[t] = tickets[t] /\ rowLock'[t] = rowLock[t],
         handlers'[h].pc \notin Watching,
         handlers[h].pc \in Watching => Current(h)
  PROVE  Good(h)
<1>1. Safe'
  BY SafeKept DEF Watching
<1>2. Sighted(h)
  BY DEF Sighted, Safe, ScreensOK, Shown, Current
<1> QED
  BY <1>1, <1>2 DEF Good

-----------------------------------------------------------------------------
(* The steps of handlers *)

LEMMA OpensStep ==
  ASSUME TypeInv, Safe, NEW h \in Handlers, NEW t \in Tickets,
         NEW pc \in Pcs \ Locking, NEW by \in People \union {Nobody},
         NEW trigger \in Triggers, NEW team \in Teams \union {NoTeam},
         Aimed(pc, trigger) => team \in Teams,
         Opens(h, t, pc, by, trigger, team)
  PROVE  Good(h)
<1> DEFINE r == [pc |-> pc, ticket |-> t, by |-> by, trigger |-> trigger, seen |-> Seen(t),
                 to |-> [team |-> team, person |-> Nobody]]
<1>1. tickets[t] \in Ticket
  BY Typed
<1>2. Seen(t) \in View /\ Shown([seen |-> Seen(t)], tickets[t])
  BY <1>1 DEF Seen, View, Ticket, Shown
<1>3. Fits(r)
  BY <1>2 DEF Fits, Handler, Target
<1>4. /\ tickets' = tickets /\ items' = items /\ away' = away
      /\ rowLock' = rowLock /\ teamLock' = teamLock
      /\ handlers' = [handlers EXCEPT ![h] = r] /\ handlers[h].pc = "idle"
  BY DEF Opens, IsAt
<1>5. left' \in [requests : Nat, changes : Nat]
  <2> DEFINE n == left.requests - 1
  <2>1. n \in Nat /\ left' = [left EXCEPT !.requests = n]
    BY Typed DEF Opens
  <2> HIDE DEF n
  <2> QED
    BY <2>1, Typed
<1>6. r.seen = Seen(t) /\ r.ticket = t /\ r.pc = pc
  OBVIOUS
<1> HIDE DEF r
<1>7. StepOf(h) /\ handlers'[h] = r
  BY <1>3, <1>4, <1>5, StepsFit, Typed, RowsKept
<1>8. Shown(r, tickets[t])
  BY <1>2, <1>6 DEF Shown
<1>9. Safe'
  BY <1>4, <1>6, <1>7, <1>8, SafeKept DEF Locking
<1> QED
  BY <1>4, <1>7, <1>9 DEF Good, Sighted, Row

LEMMA RequestsStep ==
  ASSUME TypeInv, Safe, NEW h \in Handlers, Requests(h)
  PROVE  Good(h)
<1>1. PICK t \in Tickets :
        \/ \E p \in People : Views(h, p, t)
        \/ Reviews(h, t) \/ Replies(h, t) \/ Reopens(h, t) \/ Sweeps(h, t)
        \/ \E team \in Teams : AutomatesTeam(h, t, team)
  BY DEF Requests
<1>2. ASSUME NEW p \in People, Views(h, p, t) PROVE Good(h)
  BY <1>2, OpensStep DEF Views, Pcs, Triggers, Aimed, Locking
<1>3. CASE Reviews(h, t)
  BY <1>3, OpensStep DEF Reviews, Pcs, Triggers, Aimed, Locking
<1>4. CASE Replies(h, t)
  BY <1>4, OpensStep DEF Replies, Pcs, Triggers, Aimed, Locking
<1>5. CASE Reopens(h, t)
  BY <1>5, OpensStep DEF Reopens, Pcs, Triggers, Aimed, Locking
<1>6. CASE Sweeps(h, t)
  BY <1>6, OpensStep DEF Sweeps, Pcs, Triggers, Aimed, Locking
<1>7. ASSUME NEW team \in Teams, AutomatesTeam(h, t, team) PROVE Good(h)
  BY <1>7, OpensStep DEF AutomatesTeam, Pcs, Triggers, Aimed, Locking
<1> QED
  BY <1>1, <1>2, <1>3, <1>4, <1>5, <1>6, <1>7

LEMMA ClosesStep ==
  ASSUME TypeInv, Safe, NEW h \in Handlers, Closes(h)
  PROVE  Good(h)
<1>1. StepOf(h) /\ handlers'[h] = Idle
  BY StepsFit, Typed, IdleFits, RowsKept DEF Closes, Ends, locks
<1> QED
  BY <1>1, IdleFits, QuietStep DEF Closes, locks, Watching, Locking

\* What `h` holds while it works.
LEMMA AtWork ==
  ASSUME TypeInv, NEW h \in Handlers
  PROVE  /\ TicketOf(h) \in Tickets /\ Row(h) \in Ticket /\ Row(h) = tickets[TicketOf(h)]
         /\ Fits(handlers[h]) /\ handlers[h] \in Handler
BY Typed DEF TicketOf, Row, Handler

LEMMA MovesStep ==
  ASSUME TypeInv, Safe, NEW h \in Handlers, NEW status \in Statuses, Moves(h, status)
  PROVE  Good(h)
<1>1. Entered(Row(h), status) \in Ticket /\ Follows(Row(h), Entered(Row(h), status))
  BY AtWork, EnteredFollows DEF Moves
<1>2. /\ tickets' \in [Tickets -> Ticket]
      /\ \A u \in Tickets : Follows(tickets[u], tickets'[u])
      /\ \A u \in Tickets \ {TicketOf(h)} : tickets'[u] = tickets[u]
  BY <1>1, AtWork, RowWritten, Typed DEF Moves, Writes
<1>3. StepOf(h) /\ handlers'[h] = Idle
  BY <1>2, StepsFit, Typed, IdleFits DEF Moves, Ends, locks
<1> QED
  BY <1>2, <1>3, IdleFits, WritingStep DEF Moves, locks, Watching, Locking, Unlocked

\* take and reassign lock the row of the ticket they checked.
LEMMA LocksStep ==
  ASSUME TypeInv, Safe, NEW h \in Handlers, NEW pc \in Locking, NEW team \in Teams,
         NEW person \in People \union {Nobody}, handlers[h].pc = "screen", Unlocked(h),
         Current(h), Locks(h, pc, [team |-> team, person |-> person])
  PROVE  Good(h)
<1> DEFINE to == [team |-> team, person |-> person]
           r == [handlers[h] EXCEPT !.pc = pc, !.to = to]
<1>1. to \in Target /\ to.team = team
  BY DEF Target
<1> HIDE DEF to
<1>2. /\ Fits(r) /\ r.pc = pc /\ r.ticket = TicketOf(h) /\ r.seen = handlers[h].seen
  BY <1>1, AtWork DEF Fits, Handler, Pcs, Locking, TicketOf
<1>3. handlers' = [handlers EXCEPT ![h] = r]
  BY Typed DEF Locks, to
<1> HIDE DEF r
<1>4. /\ tickets' = tickets /\ items' = items /\ away' = away /\ teamLock' = teamLock
      /\ left' = left /\ rowLock' = [rowLock EXCEPT ![TicketOf(h)] = h]
  BY DEF Locks
<1>5. rowLock' \in [Tickets -> Handlers \union {NoHandler}] /\ rowLock'[TicketOf(h)] = h
  BY <1>4, AtWork, Typed
<1>6. StepOf(h) /\ handlers'[h] = r
  BY <1>2, <1>3, <1>4, <1>5, StepsFit, Typed, RowsKept
<1>7. Shown(r, Row(h))
  BY <1>2 DEF Safe, ScreensOK, Watching, Shown
<1>8. \A t \in Tickets : rowLock'[t] # rowLock[t] => rowLock[t] \in {NoHandler, h}
  BY <1>4, Typed DEF Unlocked
<1>9. Safe'
  BY <1>2, <1>4, <1>5, <1>6, <1>7, <1>8, SafeKept, AtWork DEF Current
<1> QED
  BY <1>4, <1>6, <1>9 DEF Good, Sighted, Row

LEMMA TakesStep ==
  ASSUME TypeInv, Safe, NEW h \in Handlers, Takes(h)
  PROVE  Good(h)
<1>1. /\ Row(h).team \in Teams /\ handlers[h].by \in People \union {Nobody}
      /\ handlers[h].pc = "screen" /\ Unlocked(h) /\ Current(h)
  BY AtWork DEF Takes, Ticket, Handler, IsAt
<1> QED
  BY <1>1, LocksStep DEF Takes, Locking

LEMMA ReassignsStep ==
  ASSUME TypeInv, Safe, NEW h \in Handlers, NEW target \in Teams,
         NEW person \in People \union {Nobody}, Reassigns(h, target, person)
  PROVE  Good(h)
BY LocksStep DEF Reassigns, Locking, IsAt

\* Whom a team picks is one of its members, or nobody.
LEMMA PicksPeople ==
  ASSUME NEW team \in Teams
  PROVE  Eligible(team) \subseteq People /\ Picks(team) \subseteq People \union {Nobody}
BY TeamsAssumption DEF Picks, Eligible

LEMMA AssignsStep ==
  ASSUME TypeInv, Safe, NEW h \in Handlers, Assigns(h)
  PROVE  Good(h)
<1>1. handlers[h].pc \in Locking /\ handlers[h].to.team \in Teams
      /\ handlers[h].to.person \in People \union {Nobody}
  BY AtWork DEF Assigns, Fits, Aimed, Locking, Handler, Target
<1>2. PICK person \in People \union {Nobody} :
        Writes(h, Placed(Row(h), handlers[h].to.team, person))
  BY <1>1, PicksPeople DEF Assigns
<1> DEFINE row == Placed(Row(h), handlers[h].to.team, person)
<1>3. row \in Ticket /\ Follows(Row(h), row)
  BY <1>1, AtWork, PlacedFollows
<1>4. tickets' = [tickets EXCEPT ![TicketOf(h)] = row]
  BY <1>2 DEF Writes
<1> HIDE DEF row
<1>5. /\ tickets' \in [Tickets -> Ticket]
      /\ \A u \in Tickets : Follows(tickets[u], tickets'[u])
      /\ \A u \in Tickets \ {TicketOf(h)} : tickets'[u] = tickets[u]
  BY <1>3, <1>4, AtWork, RowWritten, Typed
<1>6. /\ rowLock' = [rowLock EXCEPT ![TicketOf(h)] = NoHandler]
      /\ rowLock' \in [Tickets -> Handlers \union {NoHandler}]
  BY Typed DEF Assigns
<1>7. StepOf(h) /\ handlers'[h] = Idle
  BY <1>5, <1>6, StepsFit, Typed, IdleFits DEF Assigns, Ends
<1>8. rowLock[TicketOf(h)] = h /\ Current(h)
  BY <1>1 DEF Safe, LocksOK
<1>9. \A u \in Tickets \ {TicketOf(h)} : rowLock'[u] = rowLock[u]
  BY <1>6, Typed
<1> QED
  BY <1>5, <1>7, <1>8, <1>9, IdleFits, WritingStep DEF Watching, Locking


LEMMA ReviewsStep ==
  ASSUME TypeInv, Safe, NEW h \in Handlers, Decides(h)
  PROVE  Good(h)
<1>1. CASE handlers' = [handlers EXCEPT ![h] = Idle]
  <2>1. StepOf(h) /\ handlers'[h] = Idle
    BY <1>1, StepsFit, Typed, IdleFits, RowsKept DEF Decides, locks
  <2> QED
    BY <2>1, IdleFits, QuietStep DEF Decides, locks, Watching, Locking
<1>2. ASSUME NEW pc \in {"handoff", "correct"}, NEW team \in Teams, items' = items,
             handlers' = [handlers EXCEPT ![h].pc = pc, ![h].to.team = team]
      PROVE  Good(h)
  <2> DEFINE to == [handlers[h].to EXCEPT !.team = team]
             r == [handlers[h] EXCEPT !.pc = pc, !.to = to]
  <2>0. to \in Target /\ to.team = team /\ handlers' = [handlers EXCEPT ![h] = r]
    BY <1>2, AtWork, Typed DEF Handler, Target
  <2> HIDE DEF to
  <2>1. Fits(r) /\ r.pc = pc /\ handlers' = [handlers EXCEPT ![h] = r]
    BY <2>0, AtWork, Typed DEF Fits, Handler, Pcs
  <2> HIDE DEF r
  <2>2. StepOf(h) /\ handlers'[h] = r
    BY <1>2, <2>1, StepsFit, Typed, RowsKept DEF Decides, locks
  <2> QED
    BY <1>2, <2>1, <2>2, QuietStep DEF Decides, locks, Watching, Locking
<1> QED
  BY <1>1, <1>2 DEF Decides, Ends

\* A review that corrects the category locks a row nobody has locked.
LEMMA CorrectsStep ==
  ASSUME TypeInv, Safe, NEW h \in Handlers, Corrects(h)
  PROVE  Good(h)
<1> DEFINE r == [handlers[h] EXCEPT !.pc = "handoff"]
<1>1. Fits(r) /\ r.pc = "handoff" /\ handlers' = [handlers EXCEPT ![h] = r]
  <2>1. handlers' = [handlers EXCEPT ![h].pc = "handoff", ![h].to = handlers[h].to]
    BY DEF Corrects, Locks
  <2>2. [handlers[h] EXCEPT !.pc = "handoff", !.to = handlers[h].to] = r
    BY AtWork DEF Handler
  <2>3. handlers' = [handlers EXCEPT ![h] = r]
    BY <2>1, <2>2, Typed
  <2>4. Fits(r) /\ r.pc = "handoff"
    BY AtWork DEF Corrects, IsAt, Fits, Aimed, Handler, Pcs
  <2> QED
    BY <2>3, <2>4
<1> HIDE DEF r
<1>2. /\ tickets' = tickets /\ items' = items /\ away' = away /\ teamLock' = teamLock
      /\ left' = left /\ rowLock' = [rowLock EXCEPT ![TicketOf(h)] = h]
  BY DEF Corrects, Locks
<1>3. /\ rowLock' \in [Tickets -> Handlers \union {NoHandler}]
      /\ \A t \in Tickets \ {TicketOf(h)} : rowLock'[t] = rowLock[t]
  BY <1>2, Typed
<1>4. StepOf(h) /\ handlers'[h] = r
  BY <1>1, <1>2, <1>3, StepsFit, Typed, RowsKept
<1>5. rowLock[TicketOf(h)] = NoHandler /\ handlers[h].pc \notin Watching
  BY DEF Corrects, Unlocked, IsAt, Watching, Locking
<1> QED
  BY <1>1, <1>2, <1>3, <1>4, <1>5, WritingStep DEF Watching, Locking

\* The team of a hand-off is a team.
LEMMA TeamForType ==
  ASSUME TypeInv, NEW h \in Handlers, handlers[h].pc = "handoff"
  PROVE  TeamFor(h) \in Teams /\ Chosen(h, TeamFor(h)) \subseteq People \union {Nobody}
<1>1. TicketOf(h) \in Tickets /\ Home[TicketOf(h)] \in Teams
  BY AtWork, TeamsAssumption
<1>2. handlers[h].seen.team \in Teams \union {NoTeam}
  BY AtWork DEF Handler, View
<1>3. handlers[h].trigger \in {"review", "action", "team"} => handlers[h].to.team \in Teams
  BY AtWork DEF Fits, Aimed
<1>4. TeamFor(h) \in Teams
  BY <1>1, <1>2, <1>3 DEF TeamFor
<1>5. ASSUME NEW team \in Teams PROVE Chosen(h, team) \subseteq People \union {Nobody}
  BY PicksPeople DEF Chosen
<1> QED
  BY <1>4, <1>5

LEMMA HandoffLocksStep ==
  ASSUME TypeInv, Safe, NEW h \in Handlers, HandoffLocks(h)
  PROVE  Good(h)
<1>1. PICK person \in Chosen(h, TeamFor(h)) :
        handlers' = [handlers EXCEPT ![h].pc = "place",
                                     ![h].to = [team |-> TeamFor(h), person |-> person]]
  BY DEF HandoffLocks
<1>2. TeamFor(h) \in Teams /\ person \in People \union {Nobody}
  BY TeamForType DEF HandoffLocks, IsAt
<1> DEFINE to == [team |-> TeamFor(h), person |-> person]
           r == [handlers[h] EXCEPT !.pc = "place", !.to = to]
<1>3. to \in Target /\ to.team \in Teams
  BY <1>2 DEF Target
<1>4. handlers' = [handlers EXCEPT ![h] = r]
  BY <1>1, Typed
<1> HIDE DEF to
<1>5. Fits(r) /\ r.pc = "place"
  BY <1>3, AtWork DEF Fits, Handler, Pcs
<1> HIDE DEF r
<1>6. /\ tickets' = tickets /\ items' = items /\ away' = away /\ left' = left
      /\ rowLock' = rowLock /\ teamLock' \in [Teams -> Handlers \union {NoHandler}]
  BY Typed DEF HandoffLocks
<1>7. StepOf(h) /\ handlers'[h] = r
  BY <1>4, <1>5, <1>6, StepsFit, Typed, RowsKept
<1> QED
  BY <1>5, <1>6, <1>7, QuietStep DEF Watching, Locking

\* A workflow action's assignment of a row: no new version, and the version no longer tells it.
LEMMA UntoldFollows ==
  ASSUME NEW row \in Ticket, NEW person \in People \union {Nobody},
         NEW team \in Teams \union {NoTeam}, NEW no \in BOOLEAN, ~no, NEW placed \in Teams \union {NoTeam},
         NEW new, new = [row EXCEPT !.assignee = person, !.team = team, !.told = no,
                                    !.placed = placed]
  PROVE  new \in Ticket /\ new.version = row.version /\ Follows(row, new)
<1>1. /\ new \in Ticket /\ new.version = row.version /\ new.status = row.status
      /\ new.told = no /\ new.resolutions = row.resolutions /\ new.reopenings = row.reopenings
  BY DEF Ticket
<1>2. row.version \in Nat
  BY DEF Ticket
<1> QED
  BY <1>1, <1>2 DEF Follows, Counted, Resolved

\* The row a hand-off writes follows, its status stays, and only its team gives it.
LEMMA HandedOffFollows ==
  ASSUME TypeInv, NEW h \in Handlers, handlers[h].pc = "place"
  PROVE  /\ HandedOff(h) \in Ticket /\ Follows(Row(h), HandedOff(h))
         /\ HandedOff(h).status = Row(h).status
         /\ \/ HandedOff(h).placed = handlers[h].to.team
            \/ /\ HandedOff(h).placed = Row(h).placed
               /\ HandedOff(h).assignee = Row(h).assignee
<1> DEFINE team == handlers[h].to.team
           person == handlers[h].to.person
           no == FALSE
<1>1. Row(h) \in Ticket /\ team \in Teams /\ person \in People \union {Nobody} /\ no \in BOOLEAN
  BY AtWork DEF Fits, Aimed, Handler, Target
<1> HIDE DEF no
<1>2. CASE handlers[h].trigger = "team"
  <2> DEFINE new == [Row(h) EXCEPT !.assignee = Row(h).assignee, !.team = team, !.told = no,
                                   !.placed = Row(h).placed]
  <2>1. HandedOff(h) = new
    BY <1>1, <1>2 DEF HandedOff, Ticket, no
  <2>2. /\ Row(h).assignee \in People \union {Nobody} /\ Row(h).placed \in Teams \union {NoTeam}
        /\ ~no /\ team \in Teams \union {NoTeam}
    BY <1>1 DEF Ticket, no
  <2> HIDE DEF team
  <2>3. new \in Ticket /\ Follows(Row(h), new)
    <3> DEFINE row == Row(h)
               assignee == row.assignee
               placed == row.placed
    <3>1. row \in Ticket /\ assignee \in People \union {Nobody} /\ placed \in Teams \union {NoTeam}
      BY <1>1, <2>2
    <3>2. new = [row EXCEPT !.assignee = assignee, !.team = team, !.told = no, !.placed = placed]
      OBVIOUS
    <3> HIDE DEF new, assignee, placed, row
    <3>3. new \in Ticket /\ Follows(row, new)
      BY <1>1, <2>2, <3>1, <3>2, UntoldFollows
    <3> QED
      BY <3>3 DEF row
  <2>4. /\ new.status = Row(h).status /\ new.placed = Row(h).placed
        /\ new.assignee = Row(h).assignee
    BY <1>1 DEF Ticket
  <2> QED
    BY <2>1, <2>3, <2>4
<1>3. CASE handlers[h].trigger # "team"
  <2>1. HandedOff(h) = Placed(Row(h), team, person)
    BY <1>3 DEF HandedOff
  <2>2. Placed(Row(h), team, person).placed = team /\ Placed(Row(h), team, person).status = Row(h).status
    BY <1>1 DEF Placed, Ticket
  <2> QED
    BY <1>1, <2>1, <2>2, PlacedFollows
<1> QED
  BY <1>2, <1>3

\* A row's lock released is a row's lock, and the others stay.
LEMMA RowReleased ==
  ASSUME TypeInv, NEW h \in Handlers, Releases(h)
  PROVE  /\ rowLock' \in [Tickets -> Handlers \union {NoHandler}]
         /\ rowLock'[TicketOf(h)] # h
         /\ rowLock'[TicketOf(h)] \in {rowLock[TicketOf(h)], NoHandler}
         /\ rowLock[TicketOf(h)] = h => rowLock'[TicketOf(h)] = NoHandler
         /\ rowLock[TicketOf(h)] # h => rowLock' = rowLock
         /\ \A t \in Tickets \ {TicketOf(h)} : rowLock'[t] = rowLock[t]
<1> DEFINE lock == IF rowLock[TicketOf(h)] = h THEN NoHandler ELSE rowLock[TicketOf(h)]
<1>1. rowLock' = [rowLock EXCEPT ![TicketOf(h)] = lock]
  BY DEF Releases
<1>2. /\ lock \in Handlers \union {NoHandler} /\ lock # h
      /\ lock \in {rowLock[TicketOf(h)], NoHandler}
      /\ rowLock[TicketOf(h)] = h => lock = NoHandler
      /\ rowLock[TicketOf(h)] # h => lock = rowLock[TicketOf(h)]
  BY AtWork, Typed, NobodyAssumption
<1> HIDE DEF lock
<1> QED
  BY <1>1, <1>2, AtWork, Typed

LEMMA HandoffPlacesStep ==
  ASSUME TypeInv, Safe, NEW h \in Handlers, HandoffPlaces(h)
  PROVE  Good(h)
<1> DEFINE row == HandedOff(h)
<1>1. row \in Ticket /\ Follows(Row(h), row)
  BY HandedOffFollows DEF HandoffPlaces, IsAt
<1>2. tickets' = [tickets EXCEPT ![TicketOf(h)] = row]
  BY DEF HandoffPlaces, Writes
<1> HIDE DEF row
<1>3. /\ tickets' \in [Tickets -> Ticket]
      /\ \A u \in Tickets : Follows(tickets[u], tickets'[u])
      /\ \A u \in Tickets \ {TicketOf(h)} : tickets'[u] = tickets[u]
  BY <1>1, <1>2, AtWork, RowWritten, Typed
<1>4. items' \subseteq Tickets /\ teamLock' \in [Teams -> Handlers \union {NoHandler}]
  BY Typed DEF HandoffPlaces, HandoffEnds
<1>5. /\ rowLock' \in [Tickets -> Handlers \union {NoHandler}]
      /\ \A u \in Tickets \ {TicketOf(h)} : rowLock'[u] = rowLock[u]
  BY RowReleased DEF HandoffPlaces, HandoffEnds
<1>6. StepOf(h) /\ handlers'[h] = Idle
  BY <1>3, <1>4, <1>5, StepsFit, Typed, IdleFits DEF HandoffPlaces, HandoffEnds, Ends
<1> QED
  BY <1>3, <1>5, <1>6, IdleFits, WritingStep DEF HandoffPlaces, IsAt, Watching, Locking

LEMMA CommentsStep ==
  ASSUME TypeInv, Safe, NEW h \in Handlers, Comments(h)
  PROVE  Good(h)
<1> DEFINE r == [handlers[h] EXCEPT !.pc = "resume"]
<1>1. Fits(r) /\ r.pc = "resume" /\ handlers' = [handlers EXCEPT ![h] = r]
  BY AtWork, Typed DEF Comments, Goes, IsAt, Fits, Aimed, Handler, Pcs
<1> HIDE DEF r
<1>2. StepOf(h) /\ handlers'[h] = r
  BY <1>1, StepsFit, Typed, RowsKept DEF Comments, locks
<1> QED
  BY <1>1, <1>2, QuietStep DEF Comments, locks, Watching, Locking

\* One that ends with a write of the row, which nobody has locked, or with none.
LEMMA EndingStep ==
  ASSUME TypeInv, Safe, NEW h \in Handlers, Ends(h), Unlocked(h),
         handlers[h].pc \notin Watching,
         \/ tickets' = tickets
         \/ \E row \in Ticket : Follows(Row(h), row) /\ Writes(h, row),
         items' = items, away' = away, rowLock' = rowLock, teamLock' = teamLock, left' = left
  PROVE  Good(h)
<1>1. /\ tickets' \in [Tickets -> Ticket]
      /\ \A u \in Tickets : Follows(tickets[u], tickets'[u])
      /\ \A u \in Tickets \ {TicketOf(h)} : tickets'[u] = tickets[u]
  <2>1. CASE tickets' = tickets
    BY <2>1, RowsKept, Typed
  <2>2. ASSUME NEW row \in Ticket, Follows(Row(h), row), Writes(h, row)
        PROVE  /\ tickets' \in [Tickets -> Ticket]
               /\ \A u \in Tickets : Follows(tickets[u], tickets'[u])
               /\ \A u \in Tickets \ {TicketOf(h)} : tickets'[u] = tickets[u]
    <3>1. /\ tickets \in [Tickets -> Ticket] /\ TicketOf(h) \in Tickets
          /\ Follows(tickets[TicketOf(h)], row)
          /\ tickets' = [tickets EXCEPT ![TicketOf(h)] = row]
      BY <2>2, AtWork, Typed DEF Writes
    <3> QED
      BY <3>1, RowWritten
  <2> QED
    BY <2>1, <2>2
<1>2. StepOf(h) /\ handlers'[h] = Idle
  BY <1>1, StepsFit, Typed, IdleFits DEF Ends
<1> QED
  BY <1>1, <1>2, IdleFits, WritingStep DEF Watching, Locking, Unlocked

LEMMA ResumesStep ==
  ASSUME TypeInv, Safe, NEW h \in Handlers, Resumes(h)
  PROVE  Good(h)
<1>1. ResumeTo(Row(h)) \in Statuses
  BY AtWork DEF ResumeTo, Ticket, Statuses
<1>2. ASSUME ResumeTo(Row(h)) # Row(h).status
      PROVE  /\ Entered(Row(h), ResumeTo(Row(h))) \in Ticket
             /\ Follows(Row(h), Entered(Row(h), ResumeTo(Row(h))))
  BY <1>1, <1>2, AtWork, EnteredFollows
<1>3. \/ tickets' = tickets
      \/ \E row \in Ticket : Follows(Row(h), row) /\ Writes(h, row)
  BY <1>2 DEF Resumes
<1> QED
  BY <1>3, EndingStep DEF Resumes, locks, IsAt, Watching, Locking

LEMMA SweepClosesStep ==
  ASSUME TypeInv, Safe, NEW h \in Handlers, SweepCloses(h)
  PROVE  Good(h)
<1>1. ASSUME Row(h).status = "waiting"
      PROVE  /\ Entered(Row(h), "resolved") \in Ticket
             /\ Follows(Row(h), Entered(Row(h), "resolved"))
  BY <1>1, AtWork, EnteredFollows DEF Statuses
<1>2. [Row(h) EXCEPT !.refusedAt = Row(h).version] \in Ticket
  BY AtWork DEF Ticket
<1>3. Follows(Row(h), [Row(h) EXCEPT !.refusedAt = Row(h).version])
  BY AtWork DEF Follows, Counted, Resolved, Ticket
<1>4. \/ tickets' = tickets
      \/ \E row \in Ticket : Follows(Row(h), row) /\ Writes(h, row)
  BY <1>1, <1>2, <1>3 DEF SweepCloses
<1> QED
  BY <1>4, EndingStep DEF SweepCloses, locks, IsAt, Watching, Locking

\* A resolution reopened.
LEMMA ReopenedFollows ==
  ASSUME NEW row \in Ticket, Resolved(row)
  PROVE  Reopened(row) \in Ticket /\ Follows(row, Reopened(row))
<1> DEFINE e == Entered(row, "reopened")
           n == row.reopenings + 1
<1>1. e \in Ticket /\ Follows(row, e) /\ e.version > row.version
  BY EnteredFollows DEF Resolved, Statuses
<1>2. e.reopenings = row.reopenings /\ e.resolutions = row.resolutions /\ e.status = "reopened"
  BY DEF Entered, Ticket
<1>3. Reopened(row) = [e EXCEPT !.reopenings = n]
  BY <1>2 DEF Reopened
<1>4. n \in Nat /\ n = row.reopenings + 1
  BY DEF Ticket
<1> DEFINE new == Reopened(row)
<1>5. row.version \in Nat /\ row.reopenings \in Nat /\ row.resolutions \in Nat /\ e.version \in Nat
  BY <1>1 DEF Ticket
<1> HIDE DEF e, n, new
<1>6. /\ new \in Ticket /\ new.version = e.version /\ new.status = e.status
      /\ new.reopenings = n /\ new.resolutions = e.resolutions
  BY <1>1, <1>3, <1>4 DEF Ticket, new
<1>7. Follows(row, new)
  BY <1>1, <1>2, <1>4, <1>5, <1>6 DEF Follows, Counted, Resolved
<1> QED
  BY <1>6, <1>7 DEF new

LEMMA ReopensNowStep ==
  ASSUME TypeInv, Safe, NEW h \in Handlers, ReopensNow(h)
  PROVE  Good(h)
<1>1. CASE ~Resolved(Row(h)) /\ Ends(h) /\ UNCHANGED tickets
  BY <1>1, EndingStep DEF ReopensNow, locks, IsAt, Watching, Locking
<1>2. CASE Resolved(Row(h))
  <2> DEFINE row == Reopened(Row(h))
             seen == [status |-> row.status, team |-> row.team, assignee |-> row.assignee,
                      version |-> row.version]
             r == [handlers[h] EXCEPT !.pc = "handoff", !.seen = seen]
  <2>1. row \in Ticket /\ Follows(Row(h), row)
    BY <1>2, AtWork, ReopenedFollows
  <2>2. Writes(h, row) /\ handlers' = [handlers EXCEPT ![h].pc = "handoff", ![h].seen = seen]
    BY <1>2 DEF ReopensNow
  <2> HIDE DEF row
  <2>3. seen \in View
    BY <2>1 DEF View, Ticket
  <2> HIDE DEF seen
  <2>4. Fits(r) /\ r.pc = "handoff" /\ handlers' = [handlers EXCEPT ![h] = r]
    BY <2>2, <2>3, AtWork, Typed DEF ReopensNow, IsAt, Fits, Aimed, Handler, Pcs
  <2> HIDE DEF r
  <2>5. tickets' = [tickets EXCEPT ![TicketOf(h)] = row]
    BY <2>2 DEF Writes
  <2>6. /\ tickets' \in [Tickets -> Ticket]
        /\ \A u \in Tickets : Follows(tickets[u], tickets'[u])
        /\ \A u \in Tickets \ {TicketOf(h)} : tickets'[u] = tickets[u]
    BY <2>1, <2>5, AtWork, RowWritten, Typed
  <2>7. StepOf(h) /\ handlers'[h] = r
    BY <2>4, <2>6, StepsFit, Typed DEF ReopensNow, locks
  <2> QED
    BY <2>4, <2>6, <2>7, WritingStep DEF ReopensNow, locks, IsAt, Watching, Locking, Unlocked
<1> QED
  BY <1>1, <1>2 DEF ReopensNow


-----------------------------------------------------------------------------
(* The steps of no handler *)

\* Handlers and locks stay, and the rows' versions.
LEMMA OutsideStep ==
  ASSUME TypeInv, Safe, handlers' = handlers, rowLock' = rowLock, items' = items,
         teamLock' = teamLock, tickets' \in [Tickets -> Ticket], away' \subseteq People,
         left' \in [requests : Nat, changes : Nat],
         \A t \in Tickets : Follows(tickets[t], tickets'[t])
                            /\ tickets'[t].version = tickets[t].version
  PROVE  TypeInv' /\ Safe'
<1>1. TypeOK'
  BY Typed DEF TypeOK, Handler, Pcs, Triggers, View, Target
<1>2. TypeInv'
  BY <1>1 DEF TypeInv
<1>3. ASSUME NEW h \in Handlers, handlers[h].pc \in Watching
      PROVE  Shown(handlers[h], tickets'[TicketOf(h)])
  <2>1. Shown(handlers[h], Row(h))
    BY <1>3 DEF Safe, ScreensOK
  <2>2. tickets'[TicketOf(h)] \in Ticket /\ Follows(Row(h), tickets'[TicketOf(h)])
    BY AtWork
  <2> QED
    BY <2>1, <2>2, ShownStays, AtWork
<1>4. ASSUME NEW h \in Handlers, handlers[h].pc \in Locking
      PROVE  /\ rowLock[TicketOf(h)] = h
             /\ tickets'[TicketOf(h)].version = handlers[h].seen.version
  BY <1>4, AtWork DEF Safe, LocksOK, Current
<1>5. \A t \in Tickets : Counted(tickets'[t])
  BY DEF Safe, CountsOK, Follows
<1>6. ScreensOK' /\ LocksOK' /\ CountsOK'
  BY <1>3, <1>4, <1>5 DEF ScreensOK, LocksOK, CountsOK, Row, TicketOf, Current
<1> QED
  BY <1>2, <1>6 DEF Safe


LEMMA LeftType ==
  ASSUME left \in [requests : Nat, changes : Nat], left.changes > 0,
         left' = [left EXCEPT !.changes = left.changes - 1]
  PROVE  left' \in [requests : Nat, changes : Nat]
<1> DEFINE n == left.changes - 1
<1>1. n \in Nat /\ left' = [left EXCEPT !.changes = n]
  OBVIOUS
<1> HIDE DEF n
<1> QED
  BY <1>1

LEMMA WaitsStep ==
  ASSUME TypeInv, Safe, NEW t \in Tickets, Waits(t)
  PROVE  TypeInv' /\ Safe'
<1> DEFINE yes == TRUE
           row == [tickets[t] EXCEPT !.waited = yes]
<1>1. tickets' = [tickets EXCEPT ![t] = row]
  BY Typed DEF Waits
<1>2. yes \in BOOLEAN /\ tickets[t] \in Ticket
  BY Typed
<1> HIDE DEF yes
<1>3. row \in Ticket /\ row.version = tickets[t].version /\ Follows(tickets[t], row)
  BY <1>2 DEF Ticket, Follows, Counted, Resolved
<1> HIDE DEF row
<1>4. /\ tickets' \in [Tickets -> Ticket]
      /\ \A u \in Tickets : Follows(tickets[u], tickets'[u])
                            /\ tickets'[u].version = tickets[u].version
  BY <1>1, <1>3, RowWritten, Typed
<1> QED
  BY <1>4, OutsideStep, Typed DEF Waits, locks

LEMMA AutomatesStep ==
  ASSUME TypeInv, Safe, NEW t \in Tickets, Automates(t)
  PROVE  TypeInv' /\ Safe'
<1> DEFINE no == FALSE
<1>1. /\ tickets[t] \in Ticket /\ no \in BOOLEAN /\ ~no
      /\ tickets[t].team \in Teams \union {NoTeam}
  BY Typed DEF Ticket
<1>2. PICK p \in People : tickets' = [tickets EXCEPT ![t].assignee = p, ![t].told = FALSE,
                                                    ![t].placed = NoTeam]
  BY DEF Automates
<1> DEFINE row == [tickets[t] EXCEPT !.assignee = p, !.team = tickets[t].team, !.told = no,
                                     !.placed = NoTeam]
<1>3. tickets' = [tickets EXCEPT ![t] = row]
  BY <1>1, <1>2, Typed DEF Ticket
<1> HIDE DEF no
<1>4. row \in Ticket /\ row.version = tickets[t].version /\ Follows(tickets[t], row)
  BY <1>1, UntoldFollows
<1> HIDE DEF row
<1>5. /\ tickets' \in [Tickets -> Ticket]
      /\ \A u \in Tickets : Follows(tickets[u], tickets'[u])
                            /\ tickets'[u].version = tickets[u].version
  BY <1>3, <1>4, RowWritten, Typed
<1>6. left.changes > 0 /\ left' = [left EXCEPT !.changes = left.changes - 1]
  BY DEF Automates, Changes
<1>7. left' \in [requests : Nat, changes : Nat]
  BY <1>6, LeftType, Typed
<1> QED
  BY <1>5, <1>7, OutsideStep, Typed DEF Automates, locks

LEMMA ComesOrGoesStep ==
  ASSUME TypeInv, Safe, NEW p \in People, ComesOrGoes(p)
  PROVE  TypeInv' /\ Safe'
<1>1. left' \in [requests : Nat, changes : Nat]
  <2>1. left.changes > 0 /\ left' = [left EXCEPT !.changes = left.changes - 1]
    BY DEF ComesOrGoes, Changes
  <2> QED
    BY <2>1, LeftType, Typed
<1>2. away' \subseteq People /\ tickets' = tickets
  BY Typed DEF ComesOrGoes
<1> QED
  BY <1>1, <1>2, OutsideStep, RowsKept, Typed DEF ComesOrGoes, locks

LEMMA AbortsStep ==
  ASSUME TypeInv, Safe, NEW h \in Handlers, Aborts(h), UNCHANGED <<tickets, away, left>>
  PROVE  Good(h)
<1>0. /\ Releases(h) /\ Ends(h) /\ items' \subseteq Tickets
      /\ teamLock' \in [Teams -> Handlers \union {NoHandler}]
  BY Typed DEF Aborts, HandoffEnds
<1>1. /\ rowLock' \in [Tickets -> Handlers \union {NoHandler}]
      /\ \A u \in Tickets \ {TicketOf(h)} : rowLock'[u] = rowLock[u]
  BY <1>0, RowReleased
<1>2. StepOf(h) /\ handlers'[h] = Idle
  BY <1>0, <1>1, StepsFit, Typed, IdleFits, RowsKept DEF Ends
<1>3. CASE rowLock[TicketOf(h)] = h
  <2>1. handlers[h].pc \in Watching => Current(h)
    BY DEF Aborts, Safe, LocksOK, Watching, Locking
  <2> QED
    BY <1>1, <1>2, <1>3, <2>1, IdleFits, WritingStep DEF Watching, Locking
<1>4. CASE rowLock[TicketOf(h)] # h
  <2>1. rowLock' = rowLock
    BY <1>0, <1>4, RowReleased
  <2> QED
    BY <1>2, <2>1, IdleFits, QuietStep DEF Watching, Locking
<1> QED
  BY <1>3, <1>4

LEMMA DeadlockStep ==
  ASSUME TypeInv, Safe, BreaksDeadlock
  PROVE  \E h \in Handlers : Good(h)
BY AbortsStep DEF BreaksDeadlock

-----------------------------------------------------------------------------
(* The theorems *)

\* The steps of handlers, one by one.
LEMMA HandlersStep ==
  ASSUME TypeInv, Safe, NEW h \in Handlers, Requests(h) \/ Acts(h) \/ Works(h)
  PROVE  Good(h)
<1>1. CASE Acts(h)
  <2>1. ASSUME NEW status \in Statuses \ Pipeline, Moves(h, status) PROVE Good(h)
    BY <2>1, MovesStep
  <2> QED
    BY <1>1, <2>1, TakesStep, ReassignsStep DEF Acts
<1>2. CASE Works(h)
  BY <1>2, ClosesStep, AssignsStep, ReviewsStep, CorrectsStep, HandoffLocksStep, HandoffPlacesStep,
     CommentsStep, ResumesStep, ReopensNowStep, SweepClosesStep DEF Works
<1> QED
  BY <1>1, <1>2, RequestsStep

\* A person that acts in a step acts on what it was shown.
Honest ==
  \A h \in Handlers :
    /\ handlers[h].pc \in {"screen", "take", "reassign"}
    /\ tickets'[TicketOf(h)] # Row(h) /\ handlers'[h] = Idle
    => LET seen == handlers[h].seen
       IN /\ Row(h).status = seen.status
          /\ Row(h).told => Row(h).assignee = seen.assignee /\ Row(h).team = seen.team

LEMMA NextStep ==
  ASSUME TypeInv, Safe, Next
  PROVE  TypeInv' /\ Safe' /\ Honest
<1>1. ASSUME NEW h \in Handlers, Good(h) PROVE TypeInv' /\ Safe' /\ Honest
  <2>1. TypeInv' /\ Safe' /\ \A k \in Handlers \ {h} : handlers'[k] = handlers[k]
    BY <1>1 DEF Good, StepOf
  <2>2. \A k \in Handlers : k # h /\ handlers[k].pc \in Watching => handlers'[k] # Idle
    BY <2>1, IdleFits DEF Watching, Locking
  <2>3. Sighted(h)
    BY <1>1 DEF Good
  <2> QED
    BY <2>1, <2>2, <2>3 DEF Honest, Sighted, Watching, Locking
<1>2. ASSUME TypeInv' /\ Safe', handlers' = handlers PROVE TypeInv' /\ Safe' /\ Honest
  BY <1>2, IdleFits DEF Honest
<1>3. ASSUME NEW t \in Tickets, Waits(t) PROVE TypeInv' /\ Safe' /\ Honest
  BY <1>2, <1>3, WaitsStep DEF Waits
<1>4. ASSUME NEW t \in Tickets, Automates(t) PROVE TypeInv' /\ Safe' /\ Honest
  BY <1>2, <1>4, AutomatesStep DEF Automates
<1>5. ASSUME NEW p \in People, ComesOrGoes(p) PROVE TypeInv' /\ Safe' /\ Honest
  BY <1>2, <1>5, ComesOrGoesStep DEF ComesOrGoes
<1>6. CASE BreaksDeadlock
  BY <1>1, <1>6, DeadlockStep
<1> QED
  BY <1>1, <1>3, <1>4, <1>5, <1>6, HandlersStep DEF Next

LEMMA Inductive == TypeInv /\ Safe /\ [Next]_vars => TypeInv' /\ Safe'
<1> SUFFICES ASSUME TypeInv, Safe, [Next]_vars PROVE TypeInv' /\ Safe'
  OBVIOUS
<1>1. CASE Next
  BY <1>1, NextStep
<1>2. CASE UNCHANGED vars
  <2>1. /\ tickets' = tickets /\ items' = items /\ away' = away /\ handlers' = handlers
        /\ rowLock' = rowLock /\ teamLock' = teamLock /\ left' = left
    BY <1>2 DEF vars
  <2> QED
    BY <2>1, OutsideStep, RowsKept, Typed
<1> QED
  BY <1>1, <1>2

LEMMA Safety == Spec => [](TypeInv /\ Safe)
<1> QED
  BY TypeInvInit, Inductive, PTL DEF Spec

\* The rows, the screens and the locks keep their types (tickets, assignment, requester).
THEOREM TypeCorrect == Spec => []TypeOK
<1>1. TypeInv => TypeOK
  BY DEF TypeInv
<1> QED
  BY <1>1, Safety, PTL

\* However many people, beats and workflow actions work on a ticket at once, a person moves,
\* takes or reassigns it only as it was shown (Assignment.take and reassign, tickets' moves).
THEOREM PeopleSeeWhatTheyDo == Spec => PeopleActOnWhatTheySaw
<1>1. TypeInv /\ Safe /\ [Next]_vars => [Honest]_vars
  BY NextStep
<1> QED
  BY <1>1, Safety, PTL DEF Spec, PeopleActOnWhatTheySaw, Honest

\* A resolution is reopened once, from however many tabs (requester reopen_now).
THEOREM ReopenedOnce == Spec => []OneReopeningPerResolution
<1>1. TypeInv /\ Safe => OneReopeningPerResolution
  BY DEF Safe, CountsOK, Counted, OneReopeningPerResolution
<1> QED
  BY <1>1, Safety, PTL

-----------------------------------------------------------------------------
(* The cap of a team *)

\* What a team has given a person, open since.
Held(person, team) ==
  {t \in Tickets : /\ tickets[t].assignee = person /\ ~Resolved(tickets[t])
                   /\ tickets[t].placed = team}

\* A hand-off that has chosen holds its team's lock, and has room for whom it chose.
RoomToPlace(h) ==
  LET to == handlers[h].to
  IN handlers[h].pc = "place" =>
       /\ teamLock[to.team] = h
       /\ to.person # Nobody => Cardinality(Held(to.person, to.team)) < Cap

Capped == \A h \in Handlers : RoomToPlace(h)

\* The row `new` is with what `team` gave its assignee only if the row `old` was.
GivesNone(old, new, team) ==
  ~Resolved(new) /\ new.placed = team =>
    ~Resolved(old) /\ old.placed = team /\ old.assignee = new.assignee

LEMMA HeldCardinality ==
  ASSUME NEW S, S \subseteq Tickets
  PROVE  IsFiniteSet(S) /\ Cardinality(S) \in Nat
BY StartsAssumption, FS_Subset, FS_CardinalityType

LEMMA SmallerHeld ==
  ASSUME NEW S, NEW T, S \subseteq T, T \subseteq Tickets, Cardinality(T) < Cap
  PROVE  Cardinality(S) < Cap
<1>1. Cardinality(S) \in Nat /\ Cardinality(T) \in Nat /\ Cardinality(S) <= Cardinality(T)
  BY HeldCardinality, FS_Subset
<1> QED
  BY <1>1, BoundsAssumption

\* The room of a hand-off that stays where it is, while its team gives nothing.
LEMMA RoomStays ==
  ASSUME TypeInv, TypeInv', Capped, NEW h \in Handlers, handlers'[h] = handlers[h],
         handlers[h].pc = "place" =>
           /\ teamLock'[handlers[h].to.team] = teamLock[handlers[h].to.team]
           /\ \A t \in Tickets : GivesNone(tickets[t], tickets'[t], handlers[h].to.team)
  PROVE  RoomToPlace(h)'
<1> DEFINE team == handlers[h].to.team
           person == handlers[h].to.person
<1> SUFFICES ASSUME handlers[h].pc = "place"
             PROVE  /\ teamLock'[team] = h
                    /\ person # Nobody => Cardinality(Held(person, team)') < Cap
  BY DEF RoomToPlace, Held
<1>1. teamLock[team] = h /\ (person # Nobody => Cardinality(Held(person, team)) < Cap)
  BY DEF Capped, RoomToPlace
<1>2. Held(person, team)' \subseteq Held(person, team) /\ Held(person, team) \subseteq Tickets
  BY DEF Held, GivesNone
<1> HIDE DEF team, person
<1> QED
  BY <1>1, <1>2, SmallerHeld DEF team

\* A step of `h` that leaves it without a hand-off, and in which no team gives a ticket.
LEMMA CalmStep ==
  ASSUME TypeInv, TypeInv', Capped, NEW h \in Handlers,
         \A k \in Handlers \ {h} : handlers'[k] = handlers[k],
         handlers'[h].pc # "place", teamLock' = teamLock,
         \A t \in Tickets, team \in Teams : GivesNone(tickets[t], tickets'[t], team)
  PROVE  Capped'
<1>1. ASSUME NEW k \in Handlers \ {h} PROVE RoomToPlace(k)'
  BY <1>1, RoomStays, AtWork DEF Fits, Aimed
<1>2. RoomToPlace(h)'
  BY DEF RoomToPlace
<1> QED
  BY <1>1, <1>2 DEF Capped

\* One of no handler.
LEMMA CalmOutside ==
  ASSUME TypeInv, TypeInv', Capped, handlers' = handlers, teamLock' = teamLock,
         \A t \in Tickets, team \in Teams : GivesNone(tickets[t], tickets'[t], team)
  PROVE  Capped'
<1>1. ASSUME NEW k \in Handlers PROVE RoomToPlace(k)'
  BY <1>1, RoomStays, AtWork DEF Fits, Aimed
<1> QED
  BY <1>1 DEF Capped

LEMMA EnteredGivesNone ==
  ASSUME NEW row \in Ticket, NEW status \in Statuses, NEW team \in Teams
  PROVE  /\ GivesNone(row, Entered(row, status), team)
         /\ GivesNone(row, Reopened(row), team)
<1>1. /\ Entered(row, status).assignee = row.assignee
      /\ Entered(row, status).placed = IF Resolved(row) THEN NoTeam ELSE row.placed
  BY DEF Entered, Ticket
<1>2. /\ Reopened(row).assignee = row.assignee
      /\ Reopened(row).placed = IF Resolved(row) THEN NoTeam ELSE row.placed
  BY DEF Reopened, Entered, Ticket
<1> QED
  BY <1>1, <1>2, NobodyAssumption DEF GivesNone

\* A row of `h` written so that no team gives it.
LEMMA RowGivesNone ==
  ASSUME TypeInv, NEW t \in Tickets, NEW row,
         tickets' = [tickets EXCEPT ![t] = row],
         \A team \in Teams : GivesNone(tickets[t], row, team)
  PROVE  \A u \in Tickets, team \in Teams : GivesNone(tickets[u], tickets'[u], team)
<1>1. tickets'[t] = row /\ \A u \in Tickets \ {t} : tickets'[u] = tickets[u]
  BY Typed
<1> QED
  BY <1>1 DEF GivesNone

\* The handlers' steps, but for the two in which a team gives a ticket.
LEMMA HandlersGiveNone ==
  ASSUME TypeInv, TypeInv', NEW h \in Handlers,
         \/ Requests(h) \/ Acts(h) \/ Closes(h) \/ Decides(h) \/ Corrects(h) \/ Comments(h)
         \/ Resumes(h) \/ ReopensNow(h) \/ SweepCloses(h)
  PROVE  /\ handlers'[h].pc # "place" /\ teamLock' = teamLock
         /\ \A t \in Tickets, team \in Teams : GivesNone(tickets[t], tickets'[t], team)
<1> DEFINE Calm == /\ handlers'[h].pc # "place" /\ teamLock' = teamLock
                   /\ \A t \in Tickets, team \in Teams : GivesNone(tickets[t], tickets'[t], team)
<1>0. /\ tickets' = tickets => \A t \in Tickets, team \in Teams :
                                 GivesNone(tickets[t], tickets'[t], team)
      /\ Ends(h) => handlers'[h].pc # "place"
      /\ \A pc \in Pcs \ {"place"} : Goes(h, pc) => handlers'[h].pc # "place"
  BY AtWork, Typed, IdleFits DEF GivesNone, Ends, Goes, Handler
<1>w. ASSUME NEW row, Writes(h, row), \A team \in Teams : GivesNone(Row(h), row, team)
      PROVE  \A t \in Tickets, team \in Teams : GivesNone(tickets[t], tickets'[t], team)
  BY <1>w, AtWork, RowGivesNone DEF Writes
<1>e. \A status \in Statuses, team \in Teams :
        /\ GivesNone(Row(h), Entered(Row(h), status), team)
        /\ GivesNone(Row(h), Reopened(Row(h)), team)
  BY AtWork, EnteredGivesNone
<1>1. CASE Requests(h)
  <2>1. PICK t, pc, by, trigger, team :
          t \in Tickets /\ pc \in Pcs \ {"place"} /\ Opens(h, t, pc, by, trigger, team)
    BY <1>1 DEF Requests, Views, Reviews, Replies, Reopens, Sweeps, AutomatesTeam, Pcs
  <2> QED
    BY <1>0, <2>1, Typed DEF Opens
<1>2. ASSUME NEW status \in Statuses \ Pipeline, Moves(h, status) PROVE Calm
  BY <1>0, <1>2, <1>w, <1>e DEF Moves, locks
<1>3. ASSUME NEW pc \in Locking \union {"handoff"}, NEW to, Locks(h, pc, to) PROVE Calm
  BY <1>0, <1>3, Typed, AtWork DEF Locks, Locking, Handler
<1>4. CASE Acts(h)
  <2>1. CASE Takes(h)
    BY <1>3, <2>1 DEF Takes, Locking
  <2>2. ASSUME NEW target \in Teams, NEW person, Reassigns(h, target, person) PROVE Calm
    BY <1>3, <2>2 DEF Reassigns, Locking
  <2> QED
    BY <1>2, <1>4, <2>1, <2>2 DEF Acts
<1>5. CASE Closes(h)
  BY <1>0, <1>5 DEF Closes, locks
<1>6. CASE Decides(h)
  <2>1. ASSUME NEW pc \in {"handoff", "correct"}, NEW team \in Teams,
               handlers' = [handlers EXCEPT ![h].pc = pc, ![h].to.team = team]
        PROVE  handlers'[h].pc # "place"
    BY <2>1, AtWork, Typed DEF Handler, Target
  <2> QED
    BY <1>0, <1>6, <2>1 DEF Decides, locks
<1>11. CASE Corrects(h)
  BY <1>3, <1>11 DEF Corrects
<1>7. CASE Comments(h)
  BY <1>0, <1>7 DEF Comments, locks, Pcs
<1>8. CASE Resumes(h)
  <2>1. ResumeTo(Row(h)) \in Statuses
    BY AtWork DEF ResumeTo, Ticket, Statuses
  <2> QED
    BY <1>0, <1>8, <1>w, <1>e, <2>1 DEF Resumes, locks
<1>9. CASE ReopensNow(h)
  <2>1. CASE ~Resolved(Row(h)) /\ Ends(h) /\ UNCHANGED tickets
    BY <1>0, <1>9, <2>1 DEF ReopensNow, locks
  <2>2. CASE Resolved(Row(h))
    <3> DEFINE row == Reopened(Row(h))
               seen == [status |-> row.status, team |-> row.team, assignee |-> row.assignee,
                        version |-> row.version]
    <3>1. Writes(h, row) /\ handlers' = [handlers EXCEPT ![h].pc = "handoff", ![h].seen = seen]
      BY <1>9, <2>2 DEF ReopensNow
    <3>2. "reopened" \in Statuses
      BY DEF Statuses
    <3>3. \A team \in Teams : GivesNone(Row(h), row, team)
      BY <1>e, <3>2
    <3> HIDE DEF row, seen
    <3>4. handlers'[h].pc = "handoff"
      BY <3>1, AtWork, Typed DEF Handler
    <3> QED
      BY <1>9, <1>w, <3>1, <3>3, <3>4 DEF ReopensNow, locks
  <2> QED
    BY <1>9, <2>1, <2>2 DEF ReopensNow
<1>10. CASE SweepCloses(h)
  <2>1. ASSUME NEW team \in Teams
        PROVE  GivesNone(Row(h), [Row(h) EXCEPT !.refusedAt = Row(h).version], team)
    BY AtWork DEF GivesNone, Resolved, Ticket
  <2>2. "resolved" \in Statuses
    BY DEF Statuses
  <2>3. \/ tickets' = tickets
        \/ \E row : Writes(h, row) /\ \A team \in Teams : GivesNone(Row(h), row, team)
    BY <1>e, <1>10, <2>1, <2>2 DEF SweepCloses
  <2> QED
    BY <1>0, <1>10, <1>w, <2>3 DEF SweepCloses, locks
<1> QED
  BY <1>1, <1>4, <1>5, <1>6, <1>7, <1>8, <1>9, <1>10, <1>11

\* take and reassign give a ticket while nobody holds the team's lock.
LEMMA AssignsCapped ==
  ASSUME TypeInv, TypeInv', Capped, NEW h \in Handlers, Assigns(h)
  PROVE  Capped'
<1> DEFINE team == handlers[h].to.team
<1>1. PICK person \in People \union {Nobody} : Writes(h, Placed(Row(h), team, person))
  <2>1. handlers[h].to.person \in People \union {Nobody} /\ team \in Teams
    BY AtWork DEF Assigns, Fits, Aimed, Handler, Target
  <2> QED
    BY <2>1, PicksPeople DEF Assigns
<1>2. /\ handlers' = [handlers EXCEPT ![h] = Idle] /\ teamLock' = teamLock
      /\ teamLock[team] = NoHandler
  BY DEF Assigns, Ends
<1>3. /\ handlers'[h].pc # "place"
      /\ \A k \in Handlers \ {h} : handlers'[k] = handlers[k]
  BY <1>2, Typed, IdleFits
<1>4. /\ tickets'[TicketOf(h)].placed = team
      /\ \A u \in Tickets \ {TicketOf(h)} : tickets'[u] = tickets[u]
  <2>1. Placed(Row(h), team, person).placed = team
    BY AtWork DEF Placed, Ticket
  <2> QED
    BY <1>1, <2>1, AtWork, Typed DEF Writes
<1> HIDE DEF team
<1>5. ASSUME NEW k \in Handlers \ {h} PROVE RoomToPlace(k)'
  <2>1. handlers[k].pc = "place" => handlers[k].to.team # team
    BY <1>2, NobodyAssumption DEF Capped, RoomToPlace
  <2>2. handlers[k].pc = "place" =>
          \A t \in Tickets : GivesNone(tickets[t], tickets'[t], handlers[k].to.team)
    BY <1>4, <2>1 DEF GivesNone
  <2> QED
    BY <1>2, <1>3, <2>2, RoomStays
<1>6. RoomToPlace(h)'
  BY <1>3 DEF RoomToPlace
<1> QED
  BY <1>5, <1>6 DEF Capped

\* A hand-off chooses under the lock it takes, of the members that have room.
LEMMA HandoffLocksCapped ==
  ASSUME TypeInv, TypeInv', Capped, NEW h \in Handlers, HandoffLocks(h)
  PROVE  Capped'
<1> DEFINE team == TeamFor(h)
<1>0. team \in Teams
  BY TeamForType DEF HandoffLocks, IsAt
<1>1. PICK person \in Chosen(h, team) :
        handlers' = [handlers EXCEPT ![h].pc = "place",
                                     ![h].to = [team |-> team, person |-> person]]
  BY DEF HandoffLocks
<1>2. /\ teamLock[team] = NoHandler /\ teamLock' = [teamLock EXCEPT ![team] = h]
      /\ tickets' = tickets /\ team \in Teams
  BY <1>0 DEF HandoffLocks
<1>3. person # Nobody => Cardinality(OpenOf(person)) < Cap
  BY DEF Chosen, Picks, Eligible
<1> HIDE DEF team
<1>4. /\ handlers'[h].to.team = team /\ handlers'[h].to.person = person
      /\ \A k \in Handlers \ {h} : handlers'[k] = handlers[k]
  BY <1>1, AtWork, Typed DEF Handler, Target
<1>5. teamLock'[team] = h /\ \A other \in Teams \ {team} : teamLock'[other] = teamLock[other]
  BY <1>2, Typed
<1>6. ASSUME NEW k \in Handlers \ {h} PROVE RoomToPlace(k)'
  <2>1. handlers[k].pc = "place" => handlers[k].to.team \in Teams \ {team}
    BY <1>2, AtWork, NobodyAssumption DEF Capped, RoomToPlace, Fits, Aimed
  <2>2. \A t \in Tickets : GivesNone(tickets[t], tickets'[t], handlers[k].to.team)
    BY <1>2 DEF GivesNone
  <2> QED
    BY <1>4, <1>5, <2>1, <2>2, RoomStays
<1>7. RoomToPlace(h)'
  <2> DEFINE held == {t \in Tickets : /\ tickets'[t].assignee = person
                                     /\ ~Resolved(tickets'[t]) /\ tickets'[t].placed = team}
  <2>1. held \subseteq OpenOf(person) /\ OpenOf(person) \subseteq Tickets
    BY <1>2 DEF OpenOf
  <2>2. person # Nobody => Cardinality(held) < Cap
    BY <1>3, <2>1, SmallerHeld
  <2>3. RoomToPlace(h)' <=>
          (handlers'[h].pc = "place" =>
             /\ teamLock'[handlers'[h].to.team] = h
             /\ handlers'[h].to.person # Nobody =>
                  Cardinality({t \in Tickets :
                     /\ tickets'[t].assignee = handlers'[h].to.person
                     /\ ~Resolved(tickets'[t])
                     /\ tickets'[t].placed = handlers'[h].to.team}) < Cap)
    BY DEF RoomToPlace, Held, Resolved
  <2> QED
    BY <1>4, <1>5, <2>2, <2>3
<1> QED
  BY <1>6, <1>7 DEF Capped

\* A hand-off ends: its team's lock is free, and the other teams give nothing.
LEMMA HandoffEndsCapped ==
  ASSUME TypeInv, TypeInv', Capped, NEW h \in Handlers,
         HandoffEnds(h), \A u \in Tickets \ {TicketOf(h)} : tickets'[u] = tickets[u],
         \/ tickets'[TicketOf(h)] = Row(h)
         \/ /\ handlers[h].pc = "place"
            /\ \A team \in Teams \ {handlers[h].to.team} :
                 GivesNone(Row(h), tickets'[TicketOf(h)], team)
  PROVE  Capped'
<1>1. /\ handlers' = [handlers EXCEPT ![h] = Idle]
      /\ \A team \in Teams : teamLock[team] # h => teamLock'[team] = teamLock[team]
  BY DEF HandoffEnds, Ends
<1>2. /\ handlers'[h].pc # "place"
      /\ \A k \in Handlers \ {h} : handlers'[k] = handlers[k]
  BY <1>1, Typed, IdleFits
<1>3. ASSUME NEW k \in Handlers \ {h} PROVE RoomToPlace(k)'
  <2> DEFINE team == handlers[k].to.team
  <2>1. handlers[k].pc = "place" =>
          team \in Teams /\ teamLock[team] = k /\ teamLock'[team] = teamLock[team]
    BY <1>1, AtWork DEF Capped, RoomToPlace, Fits, Aimed
  <2>2. handlers[k].pc = "place" /\ handlers[h].pc = "place" => team # handlers[h].to.team
    BY <2>1 DEF Capped, RoomToPlace
  <2>3. handlers[k].pc = "place" =>
          \A t \in Tickets : GivesNone(tickets[t], tickets'[t], team)
    BY <2>1, <2>2 DEF GivesNone, Row
  <2> HIDE DEF team
  <2> QED
    BY <1>2, <2>1, <2>3, RoomStays DEF team
<1>4. RoomToPlace(h)'
  BY <1>2 DEF RoomToPlace
<1> QED
  BY <1>3, <1>4 DEF Capped

\* The row a hand-off writes: no other team gives it.
LEMMA HandoffRow ==
  ASSUME TypeInv, NEW h \in Handlers, HandoffPlaces(h)
  PROVE  /\ \A team \in Teams \ {handlers[h].to.team} :
              GivesNone(Row(h), tickets'[TicketOf(h)], team)
         /\ \A u \in Tickets \ {TicketOf(h)} : tickets'[u] = tickets[u]
<1> DEFINE row == HandedOff(h)
<1>1. /\ row.status = Row(h).status
      /\ \/ row.placed = handlers[h].to.team
         \/ row.placed = Row(h).placed /\ row.assignee = Row(h).assignee
  BY HandedOffFollows DEF HandoffPlaces, IsAt
<1>2. tickets' = [tickets EXCEPT ![TicketOf(h)] = row]
  BY DEF HandoffPlaces, Writes
<1> HIDE DEF row
<1>3. tickets'[TicketOf(h)] = row /\ \A u \in Tickets \ {TicketOf(h)} : tickets'[u] = tickets[u]
  BY <1>2, AtWork, Typed
<1> QED
  BY <1>1, <1>3 DEF GivesNone, Resolved

LEMMA CappedNext ==
  ASSUME TypeInv, Safe, Capped, Next
  PROVE  Capped'
<1>0. TypeInv'
  BY NextStep
<1>1. ASSUME NEW h \in Handlers,
             \/ Requests(h) \/ Acts(h) \/ Closes(h) \/ Decides(h) \/ Corrects(h) \/ Comments(h)
             \/ Resumes(h) \/ ReopensNow(h) \/ SweepCloses(h)
      PROVE  Capped'
  <2>1. Good(h)
    BY <1>1, HandlersStep DEF Works
  <2>2. \A k \in Handlers \ {h} : handlers'[k] = handlers[k]
    BY <2>1 DEF Good, StepOf
  <2> QED
    BY <1>0, <1>1, <2>2, HandlersGiveNone, CalmStep
<1>2. ASSUME NEW h \in Handlers, HandoffPlaces(h) PROVE Capped'
  BY <1>0, <1>2, HandoffRow, HandoffEndsCapped DEF HandoffPlaces, IsAt
<1>3. ASSUME NEW h \in Handlers, Requests(h) \/ Acts(h) \/ Works(h) PROVE Capped'
  BY <1>0, <1>1, <1>2, <1>3, AssignsCapped, HandoffLocksCapped DEF Works
<1>4. ASSUME NEW t \in Tickets, Waits(t) PROVE Capped'
  <2>1. \A u \in Tickets : /\ tickets'[u].status = tickets[u].status
                           /\ tickets'[u].placed = tickets[u].placed
                           /\ tickets'[u].assignee = tickets[u].assignee
    BY <1>4, Typed DEF Waits, Ticket
  <2> QED
    BY <1>0, <1>4, <2>1, CalmOutside DEF Waits, locks, GivesNone, Resolved
<1>5. ASSUME NEW t \in Tickets, Automates(t) PROVE Capped'
  <2>1. PICK p \in People : tickets' = [tickets EXCEPT ![t].assignee = p, ![t].told = FALSE,
                                                      ![t].placed = NoTeam]
    BY <1>5 DEF Automates
  <2>2. \A u \in Tickets : \/ u = t /\ tickets'[u].placed = NoTeam
                           \/ u # t /\ tickets'[u] = tickets[u]
    BY <2>1, Typed DEF Ticket
  <2> QED
    BY <1>0, <1>5, <2>2, CalmOutside, NobodyAssumption DEF Automates, locks, GivesNone
<1>6. ASSUME NEW p \in People, ComesOrGoes(p) PROVE Capped'
  BY <1>0, <1>6, CalmOutside DEF ComesOrGoes, locks, GivesNone
<1>7. CASE BreaksDeadlock
  <2>1. PICK h \in Handlers : Aborts(h) /\ UNCHANGED <<tickets, away, left>>
    BY <1>7 DEF BreaksDeadlock
  <2>2. CASE HandoffEnds(h)
    BY <1>0, <2>1, <2>2, HandoffEndsCapped DEF Row
  <2>3. CASE Ends(h) /\ UNCHANGED <<items, teamLock>>
    <3>1. /\ handlers'[h].pc # "place"
          /\ \A j \in Handlers \ {h} : handlers'[j] = handlers[j]
      BY <2>3, Typed, IdleFits DEF Ends
    <3> QED
      BY <1>0, <2>1, <2>3, <3>1, CalmStep DEF GivesNone
  <2> QED
    BY <2>1, <2>2, <2>3 DEF Aborts
<1> QED
  BY <1>3, <1>4, <1>5, <1>6, <1>7 DEF Next

LEMMA CappedInvariant == Spec => []Capped
<1>1. Init => Capped
  BY IdleFits DEF Init, Capped, RoomToPlace
<1>2. TypeInv /\ Safe /\ Capped /\ [Next]_vars => Capped'
  <2> SUFFICES ASSUME TypeInv, Safe, Capped, [Next]_vars PROVE Capped'
    OBVIOUS
  <2>1. CASE UNCHANGED vars
    BY <2>1 DEF vars, Capped, RoomToPlace, Held, Resolved
  <2> QED
    BY <2>1, CappedNext
<1> QED
  BY <1>1, <1>2, Safety, PTL DEF Spec

\* A hand-off fits the cap of its team.
Fitting ==
  \A h \in Handlers :
    HandoffPlaces(h) /\ handlers[h].to.person # Nobody =>
      Cardinality(HeldSince(handlers[h].to.person, handlers[h].to.team)) <= Cap

LEMMA CappedFits ==
  ASSUME TypeInv, Capped
  PROVE  Fitting
<1> SUFFICES ASSUME NEW h \in Handlers, HandoffPlaces(h), handlers[h].to.person # Nobody
             PROVE  Cardinality(HeldSince(handlers[h].to.person, handlers[h].to.team)) <= Cap
  BY DEF Fitting
<1> DEFINE team == handlers[h].to.team
           person == handlers[h].to.person
           before == Held(person, team)
           after == HeldSince(person, team)
<1>1. Cardinality(before) < Cap /\ before \subseteq Tickets /\ after \subseteq Tickets
  BY DEF HandoffPlaces, IsAt, Capped, RoomToPlace, Held, HeldSince
<1>2. after \subseteq before \union {TicketOf(h)}
  BY HandoffRow DEF Held, HeldSince, Resolved
<1> HIDE DEF before, after
<1>3. IsFiniteSet(before) /\ Cardinality(before) \in Nat /\ Cardinality(after) \in Nat
  BY <1>1, HeldCardinality
<1>4. /\ IsFiniteSet(before \union {TicketOf(h)})
      /\ Cardinality(before \union {TicketOf(h)}) \in {Cardinality(before), Cardinality(before) + 1}
  BY <1>3, FS_AddElement
<1>5. Cardinality(after) <= Cardinality(before \union {TicketOf(h)})
  BY <1>2, <1>4, FS_Subset
<1> QED
  BY <1>1, <1>3, <1>4, <1>5, BoundsAssumption DEF after

\* However many hand-offs, takes and reassignments run at once, what a team's hand-off gives
\* the member it picked keeps to the cap, as far as the team's lock guards it (hand_to_team).
THEOREM PicksFitTheCap == Spec => PicksKeepTheCap
<1>1. TypeInv /\ Capped /\ [Next]_vars => [Fitting]_vars
  BY CappedFits
<1> QED
  BY <1>1, Safety, CappedInvariant, PTL DEF Spec, PicksKeepTheCap, Fitting

-----------------------------------------------------------------------------
(* Who waits for whom *)

\* A row is locked by who takes, reassigns or hands off its ticket, a team by a hand-off to it.
Owning == Locking \union {"handoff", "place"}
LocksOwned ==
  /\ \A t \in Tickets, h \in Handlers :
       rowLock[t] = h => handlers[h].pc \in Owning /\ handlers[h].ticket = t
  /\ \A team \in Teams, h \in Handlers :
       teamLock[team] = h => handlers[h].pc = "place" /\ handlers[h].to.team = team

\* A step of `h` that locks for `h` alone, and leaves it the locks it has a use for.
LEMMA OwnedKept ==
  ASSUME LocksOwned, NEW h \in Handlers,
         \A k \in Handlers \ {h} : handlers'[k] = handlers[k],
         \A t \in Tickets : rowLock'[t] \in {rowLock[t], NoHandler, h},
         \A team \in Teams : teamLock'[team] \in {teamLock[team], NoHandler, h},
         \A t \in Tickets :
           rowLock'[t] = h => handlers'[h].pc \in Owning /\ handlers'[h].ticket = t,
         \A team \in Teams :
           teamLock'[team] = h => handlers'[h].pc = "place" /\ handlers'[h].to.team = team
  PROVE  LocksOwned'
<1>1. ASSUME NEW t \in Tickets, NEW k \in Handlers, rowLock'[t] = k
      PROVE  handlers'[k].pc \in Owning /\ handlers'[k].ticket = t
  BY <1>1, NobodyAssumption DEF LocksOwned
<1>2. ASSUME NEW team \in Teams, NEW k \in Handlers, teamLock'[team] = k
      PROVE  handlers'[k].pc = "place" /\ handlers'[k].to.team = team
  BY <1>2, NobodyAssumption DEF LocksOwned
<1> QED
  BY <1>1, <1>2 DEF LocksOwned

\* A step of a handler that holds no lock, and locks nothing.
LEMMA OwnsNothing ==
  ASSUME LocksOwned, NEW h \in Handlers,
         \A k \in Handlers \ {h} : handlers'[k] = handlers[k],
         handlers[h].pc \notin Owning, rowLock' = rowLock, teamLock' = teamLock
  PROVE  LocksOwned'
<1>1. /\ \A t \in Tickets : rowLock'[t] # h
      /\ \A team \in Teams : teamLock'[team] # h
  BY DEF LocksOwned, Owning
<1> QED
  BY <1>1, OwnedKept

\* A step of a handler leaves the others alone.
LEMMA OthersStay ==
  ASSUME TypeInv, Safe, NEW h \in Handlers, Requests(h) \/ Acts(h) \/ Works(h)
  PROVE  \A k \in Handlers \ {h} : handlers'[k] = handlers[k]
<1>1. Good(h)
  BY HandlersStep
<1> QED
  BY <1>1 DEF Good, StepOf

LEMMA LocksOwnedNext ==
  ASSUME TypeInv, Safe, LocksOwned, Next
  PROVE  LocksOwned'
<1>1. ASSUME NEW h \in Handlers,
             \/ Requests(h) \/ Closes(h) \/ Decides(h) \/ Comments(h) \/ Resumes(h)
             \/ ReopensNow(h) \/ SweepCloses(h)
             \/ \E status \in Statuses \ Pipeline : Moves(h, status)
      PROVE  LocksOwned'
  <2>1. \A k \in Handlers \ {h} : handlers'[k] = handlers[k]
    BY <1>1, OthersStay DEF Acts, Works
  <2>2. handlers[h].pc \notin Owning /\ rowLock' = rowLock /\ teamLock' = teamLock
    <3>1. CASE Requests(h)
      BY <3>1 DEF Requests, Views, Reviews, Replies, Reopens, Sweeps, AutomatesTeam, Opens,
         IsAt, Owning, Locking
    <3>2. CASE Closes(h) \/ Decides(h) \/ Comments(h)
      BY <3>2 DEF Closes, Decides, Comments, IsAt, Owning, Locking, locks
    <3>3. CASE Resumes(h) \/ ReopensNow(h) \/ SweepCloses(h)
      BY <3>3 DEF Resumes, ReopensNow, SweepCloses, IsAt, Owning, Locking, locks
    <3>4. CASE \E status \in Statuses \ Pipeline : Moves(h, status)
      BY <3>4 DEF Moves, IsAt, Owning, Locking, locks
    <3> QED
      BY <1>1, <3>1, <3>2, <3>3, <3>4
  <2> QED
    BY <2>1, <2>2, OwnsNothing
<1>2. ASSUME NEW h \in Handlers, NEW pc \in Owning, NEW to, handlers[h].pc \notin Owning,
             Locks(h, pc, to), Acts(h) \/ Works(h)
      PROVE  LocksOwned'
  <2>1. /\ rowLock' = [rowLock EXCEPT ![TicketOf(h)] = h] /\ teamLock' = teamLock
        /\ handlers' = [handlers EXCEPT ![h].pc = pc, ![h].to = to]
    BY <1>2 DEF Locks
  <2>2. /\ \A t \in Tickets : rowLock[t] # h
        /\ \A team \in Teams : teamLock[team] # h
    BY <1>2 DEF LocksOwned, Owning
  <2>3. handlers'[h].pc = pc /\ handlers'[h].ticket = TicketOf(h)
    BY <2>1, AtWork, Typed DEF Handler, TicketOf
  <2>4. \A t \in Tickets : rowLock'[t] = IF t = TicketOf(h) THEN h ELSE rowLock[t]
    BY <2>1, Typed
  <2>5. /\ \A t \in Tickets : rowLock'[t] \in {rowLock[t], NoHandler, h}
        /\ \A t \in Tickets :
             rowLock'[t] = h => handlers'[h].pc \in Owning /\ handlers'[h].ticket = t
    BY <1>2, <2>2, <2>3, <2>4
  <2>6. /\ \A team \in Teams : teamLock'[team] \in {teamLock[team], NoHandler, h}
        /\ \A team \in Teams : teamLock'[team] # h
    BY <2>1, <2>2
  <2>7. \A k \in Handlers \ {h} : handlers'[k] = handlers[k]
    BY <1>2, OthersStay
  <2> QED
    BY <2>5, <2>6, <2>7, OwnedKept
<1>3. ASSUME NEW h \in Handlers, Takes(h) \/ \E target \in Teams, person \in People \union {Nobody} :
                                   Reassigns(h, target, person)
      PROVE  LocksOwned'
  BY <1>2, <1>3 DEF Takes, Reassigns, Acts, IsAt, Owning, Locking
<1>15. ASSUME NEW h \in Handlers, Corrects(h)
       PROVE  LocksOwned'
  BY <1>2, <1>15 DEF Corrects, Works, IsAt, Owning, Locking
\* The row's lock is released, by its holder.
<1>4. ASSUME NEW h \in Handlers, Ends(h), Releases(h),
             \A team \in Teams : teamLock'[team] \in {teamLock[team], NoHandler}
                                 /\ teamLock'[team] # h
      PROVE  LocksOwned'
  <2>1. \A t \in Tickets : rowLock'[t] \in {rowLock[t], NoHandler} /\ rowLock'[t] # h
    BY <1>4, RowReleased DEF LocksOwned, TicketOf
  <2>2. \A k \in Handlers \ {h} : handlers'[k] = handlers[k]
    BY <1>4, Typed DEF Ends
  <2> QED
    BY <1>4, <2>1, <2>2, OwnedKept
<1>5. ASSUME NEW h \in Handlers, Assigns(h)
      PROVE  LocksOwned'
  <2>1. handlers[h].pc \in Locking /\ Ends(h) /\ teamLock' = teamLock
    BY <1>5 DEF Assigns, Locking
  <2>2. rowLock[TicketOf(h)] = h
    BY <2>1 DEF Safe, LocksOK
  <2>3. Releases(h)
    BY <1>5, <2>2 DEF Assigns, Releases
  <2>4. \A team \in Teams : teamLock[team] # h
    BY <2>1 DEF LocksOwned, Locking
  <2> QED
    BY <1>4, <2>1, <2>3, <2>4
<1>6. ASSUME NEW h \in Handlers, HandoffLocks(h)
      PROVE  LocksOwned'
  <2>1. PICK person :
          /\ teamLock' = [teamLock EXCEPT ![TeamFor(h)] = h] /\ rowLock' = rowLock
          /\ handlers' = [handlers EXCEPT ![h].pc = "place",
                                          ![h].to = [team |-> TeamFor(h), person |-> person]]
          /\ handlers[h].pc = "handoff"
    BY <1>6 DEF HandoffLocks, IsAt
  <2>2. /\ \A t \in Tickets : rowLock[t] = h => t = TicketOf(h)
        /\ \A team \in Teams : teamLock[team] # h
    BY <2>1 DEF LocksOwned, TicketOf
  <2>3. /\ handlers'[h].pc = "place" /\ handlers'[h].to.team = TeamFor(h)
        /\ handlers'[h].ticket = TicketOf(h)
    BY <2>1, AtWork, Typed DEF Handler, TicketOf
  <2>4. \A team \in Teams : teamLock'[team] = IF team = TeamFor(h) THEN h ELSE teamLock[team]
    BY <2>1, Typed
  <2>5. \A k \in Handlers \ {h} : handlers'[k] = handlers[k]
    BY <1>6, OthersStay DEF Works
  <2>6. /\ \A team \in Teams : teamLock'[team] \in {teamLock[team], NoHandler, h}
        /\ \A team \in Teams :
             teamLock'[team] = h => handlers'[h].pc = "place" /\ handlers'[h].to.team = team
    BY <2>2, <2>3, <2>4
  <2>7. /\ \A t \in Tickets : rowLock'[t] \in {rowLock[t], NoHandler, h}
        /\ \A t \in Tickets :
             rowLock'[t] = h => handlers'[h].pc \in Owning /\ handlers'[h].ticket = t
    BY <2>1, <2>2, <2>3 DEF Owning
  <2> QED
    BY <2>5, <2>6, <2>7, OwnedKept
\* The locks of a hand-off are released, by their holder.
<1>7. ASSUME NEW h \in Handlers, HandoffEnds(h)
      PROVE  LocksOwned'
  <2>1. \A team \in Teams :
          teamLock'[team] \in {teamLock[team], NoHandler} /\ teamLock'[team] # h
    BY <1>7, NobodyAssumption DEF HandoffEnds
  <2> QED
    BY <1>4, <1>7, <2>1 DEF HandoffEnds
<1>8. ASSUME NEW h \in Handlers, HandoffPlaces(h)
      PROVE  LocksOwned'
  BY <1>7, <1>8 DEF HandoffPlaces
<1>9. ASSUME NEW h \in Handlers, Aborts(h)
      PROVE  LocksOwned'
  <2>1. CASE handlers[h].pc \in Locking /\ Releases(h) /\ Ends(h) /\ UNCHANGED teamLock
    <3>1. \A team \in Teams : teamLock[team] # h
      BY <2>1 DEF LocksOwned, Locking
    <3> QED
      BY <1>4, <2>1, <3>1
  <2> QED
    BY <1>7, <1>9, <2>1 DEF Aborts, Locking
<1>10. CASE BreaksDeadlock
  BY <1>9, <1>10 DEF BreaksDeadlock
<1>11. ASSUME handlers' = handlers, rowLock' = rowLock, teamLock' = teamLock
       PROVE  LocksOwned'
  BY <1>11 DEF LocksOwned
<1>12. ASSUME NEW t \in Tickets, Waits(t) \/ Automates(t)
       PROVE  LocksOwned'
  BY <1>11, <1>12 DEF Waits, Automates, locks
<1>13. ASSUME NEW p \in People, ComesOrGoes(p)
       PROVE  LocksOwned'
  BY <1>11, <1>13 DEF ComesOrGoes, locks
<1>14. ASSUME NEW h \in Handlers, Requests(h) \/ Acts(h) \/ Works(h)
       PROVE  LocksOwned'
  BY <1>1, <1>3, <1>5, <1>6, <1>8, <1>14, <1>15 DEF Acts, Works
<1> QED
  BY <1>10, <1>12, <1>13, <1>14 DEF Next

LEMMA LocksOwnedInvariant == Spec => []LocksOwned
<1>1. Init => LocksOwned
  <2> SUFFICES ASSUME Init PROVE LocksOwned
    OBVIOUS
  <2>1. /\ \A t \in Tickets : rowLock[t] = NoHandler
        /\ \A team \in Teams : teamLock[team] = NoHandler
    BY DEF Init
  <2> QED
    BY <2>1, NobodyAssumption DEF LocksOwned
<1>2. TypeInv /\ Safe /\ LocksOwned /\ [Next]_vars => LocksOwned'
  <2> SUFFICES ASSUME TypeInv, Safe, LocksOwned, [Next]_vars PROVE LocksOwned'
    OBVIOUS
  <2>1. CASE UNCHANGED vars
    BY <2>1 DEF vars, LocksOwned
  <2> QED
    BY <2>1, LocksOwnedNext
<1> QED
  BY <1>1, <1>2, Safety, PTL DEF Spec

\* Whoever is waited for is at work.
LEMMA AwaitedIsBusy ==
  ASSUME TypeInv, LocksOwned, NEW h \in Handlers, NEW k \in Handlers, Awaits(h, k)
  PROVE  k \in Busy
<1>1. CASE rowLock[TicketOf(h)] = k
  BY <1>1, AtWork DEF LocksOwned, Owning, Locking, Busy
<1>2. ASSUME NEW team \in Teams, teamLock[team] = k PROVE k \in Busy
  BY <1>2 DEF LocksOwned, Busy
<1>3. CASE IsAt(h, "handoff") /\ teamLock[TeamFor(h)] = k
  BY <1>2, <1>3, TeamForType DEF IsAt
<1>4. CASE handlers[h].pc \in {"take", "reassign"} /\ teamLock[handlers[h].to.team] = k
  BY <1>2, <1>4, AtWork DEF Fits, Aimed
<1>5. CASE Deciding(k)
  BY <1>5 DEF Deciding, Busy
<1> QED
  BY <1>1, <1>3, <1>4, <1>5 DEF Awaits

Closed(D) == D # {} /\ \A h \in D : \E k \in D : Awaits(h, k)

\* Of the sets of handlers that wait for each other, the least have nobody at their edge.
LEMMA LeastIsDeadlocked ==
  ASSUME NEW W \in SUBSET Handlers, Closed(W)
  PROVE  \E D \in SUBSET W : Deadlocked(D)
<1> DEFINE Candidates == {D \in SUBSET W : Closed(D)}
           Smaller == StrictSubsetOrdering(W)
<1>1. IsFiniteSet(W)
  BY HandlersAssumption, FS_Subset
<1>2. \A D \in SUBSET W : IsFiniteSet(D)
  BY <1>1, FS_Subset
<1>3. IsWellFoundedOn(Smaller, FiniteSubsetsOf(W))
  BY FS_StrictSubsetOrderingWellFounded
<1>4. Candidates \subseteq FiniteSubsetsOf(W) /\ W \in Candidates
  BY <1>2 DEF FiniteSubsetsOf
<1>5. \A D, E \in SUBSET W : E \subseteq D /\ E # D => <<E, D>> \in Smaller
  BY DEF StrictSubsetOrdering
<1> HIDE DEF Smaller
<1>6. PICK D \in Candidates : \A E \in Candidates : ~(<<E, D>> \in Smaller)
  <2> HIDE DEF Candidates
  <2> QED
    BY <1>3, <1>4, WFMin
<1>7. ASSUME NEW h \in D, \A k \in D : ~Awaits(k, h)
      PROVE  FALSE
  <2> DEFINE E == D \ {h}
  <2>1. PICK k \in D : Awaits(h, k)
    BY DEF Closed
  <2>2. k \in E
    BY <1>7, <2>1
  <2>3. \A g \in E : \E j \in E : Awaits(g, j)
    BY <1>7 DEF Closed
  <2>4. E \in Candidates
    BY <2>2, <2>3 DEF Closed
  <2>5. <<E, D>> \in Smaller
    BY <1>5
  <2> QED
    BY <1>6, <2>4, <2>5
<1>8. Deadlocked(D)
  BY <1>7 DEF Deadlocked, Closed
<1> QED
  BY <1>8

\* However many requests, reviews and beats wait for rows, teams and items at once, whoever waits
\* does so in the end for somebody that can go on, or for a deadlock (the locks of
\* apps/teams/utils/assignment.py).
THEOREM WaitsEndSomewhere == Spec => []NobodyWaitsInVain
<1>1. TypeInv /\ LocksOwned => NobodyWaitsInVain
  <2> SUFFICES ASSUME TypeInv, LocksOwned, NEW W \in SUBSET Busy, Stalled(W)
               PROVE  \E D \in SUBSET W : Deadlocked(D)
    BY DEF NobodyWaitsInVain
  <2>1. W \in SUBSET Handlers
    BY DEF Busy
  <2>2. ASSUME NEW h \in W PROVE \E k \in W : Awaits(h, k)
    <3>1. PICK k \in Handlers : Awaits(h, k)
      BY DEF Stalled
    <3>2. k \in Busy
      BY <2>1, <3>1, AwaitedIsBusy
    <3> QED
      BY <3>1, <3>2 DEF Stalled
  <2>3. Closed(W)
    BY <2>2 DEF Closed, Stalled
  <2> QED
    BY <2>1, <2>3, LeastIsDeadlocked
<1> QED
  BY <1>1, Safety, LocksOwnedInvariant, PTL

-----------------------------------------------------------------------------
(* What undoes a resolution *)

Revived(t) == Resolved(tickets[t]) /\ ~Resolved(tickets'[t])

\* As ResolutionsStand has it.
Knowingly(t) ==
  \/ tickets'[t].reopenings = tickets[t].reopenings + 1
  \/ \E h \in Handlers :
       /\ TicketOf(h) = t
       /\ \/ IsAt(h, "screen") /\ handlers[h].seen.status = "resolved"
          \/ IsAt(h, "resume") /\ handlers[h].seen.status = "waiting"

Stands == \A t \in Tickets : Revived(t) => Knowingly(t)

\* A step that writes one row.
LEMMA RowStands ==
  ASSUME TypeInv, NEW t \in Tickets, NEW row, tickets' = [tickets EXCEPT ![t] = row],
         Resolved(tickets[t]) /\ ~Resolved(row) => Knowingly(t)
  PROVE  Stands
<1>1. tickets'[t] = row /\ \A u \in Tickets \ {t} : tickets'[u] = tickets[u]
  BY Typed
<1> QED
  BY <1>1 DEF Stands, Revived

\* One by a handler that leaves the ticket's status.
LEMMA StatusStands ==
  ASSUME TypeInv, NEW h \in Handlers, NEW row, Writes(h, row), row.status = Row(h).status
  PROVE  Stands
BY AtWork, RowStands DEF Writes, Resolved

LEMMA NextStands ==
  ASSUME TypeInv, Safe, Next
  PROVE  Stands
<1>1. ASSUME tickets' = tickets PROVE Stands
  BY <1>1 DEF Stands, Revived
<1>2. ASSUME NEW h \in Handlers, Requests(h) \/ Closes(h) \/ Decides(h) \/ Corrects(h)
                                   \/ HandoffLocks(h) \/ Comments(h)
      PROVE  Stands
  <2>1. CASE Requests(h)
    BY <1>1, <2>1 DEF Requests, Views, Reviews, Replies, Reopens, Sweeps, AutomatesTeam, Opens
  <2>2. CASE Closes(h) \/ Decides(h) \/ Corrects(h) \/ HandoffLocks(h) \/ Comments(h)
    BY <1>1, <2>2 DEF Closes, Decides, Corrects, Locks, HandoffLocks, Comments
  <2> QED
    BY <1>2, <2>1, <2>2
<1>3. ASSUME NEW h \in Handlers, NEW status, Moves(h, status) PROVE Stands
  <2>1. IsAt(h, "screen") /\ Row(h).status = handlers[h].seen.status
    BY <1>3 DEF Moves, IsAt, Safe, ScreensOK, Watching, Shown, Current
  <2>2. Resolved(Row(h)) => Knowingly(TicketOf(h))
    BY <2>1 DEF Resolved, Knowingly
  <2> QED
    BY <1>3, <2>2, AtWork, RowStands DEF Moves, Writes
<1>4. ASSUME NEW h \in Handlers, Takes(h) \/ \E target \in Teams, person \in People \union {Nobody} :
                                   Reassigns(h, target, person)
      PROVE  Stands
  BY <1>1, <1>4 DEF Takes, Reassigns, Locks
<1>5. ASSUME NEW h \in Handlers, Assigns(h) \/ HandoffPlaces(h) PROVE Stands
  <2>1. ASSUME NEW team, NEW person
        PROVE  Placed(Row(h), team, person).status = Row(h).status
    BY AtWork DEF Placed, Ticket
  <2>2. CASE Assigns(h)
    BY <2>1, <2>2, StatusStands DEF Assigns
  <2>3. CASE HandoffPlaces(h)
    <3>1. HandedOff(h).status = Row(h).status /\ Writes(h, HandedOff(h))
      BY <2>3, HandedOffFollows DEF HandoffPlaces, IsAt
    <3> QED
      BY <3>1, StatusStands
  <2> QED
    BY <1>5, <2>2, <2>3
<1>6. ASSUME NEW h \in Handlers, Resumes(h) PROVE Stands
  <2>1. CASE tickets' = tickets
    BY <1>1, <2>1
  <2>2. CASE /\ handlers[h].seen.status = "waiting"
             /\ Writes(h, Entered(Row(h), ResumeTo(Row(h))))
    <3>1. Knowingly(TicketOf(h))
      BY <1>6, <2>2 DEF Resumes, Knowingly
    <3> QED
      BY <2>2, <3>1, AtWork, RowStands DEF Writes
  <2> QED
    BY <1>6, <2>1, <2>2 DEF Resumes
<1>7. ASSUME NEW h \in Handlers, ReopensNow(h) PROVE Stands
  <2>1. CASE UNCHANGED tickets
    BY <1>1, <2>1
  <2>2. CASE Writes(h, Reopened(Row(h)))
    <3>1. Reopened(Row(h)).reopenings = Row(h).reopenings + 1
      BY AtWork DEF Reopened, Entered, Ticket
    <3>2. tickets'[TicketOf(h)] = Reopened(Row(h))
      BY <2>2, AtWork, Typed DEF Writes
    <3>3. Knowingly(TicketOf(h))
      BY <3>1, <3>2, AtWork DEF Knowingly
    <3> QED
      BY <2>2, <3>3, AtWork, RowStands DEF Writes
  <2> QED
    BY <1>7, <2>1, <2>2 DEF ReopensNow
<1>8. ASSUME NEW h \in Handlers, SweepCloses(h) PROVE Stands
  <2>1. CASE UNCHANGED tickets
    BY <1>1, <2>1
  <2>2. CASE Row(h).status = "waiting" /\ Writes(h, Entered(Row(h), "resolved"))
    BY <2>2, AtWork, RowStands DEF Writes, Resolved
  <2>3. CASE Writes(h, [Row(h) EXCEPT !.refusedAt = Row(h).version])
    <3>1. [Row(h) EXCEPT !.refusedAt = Row(h).version].status = Row(h).status
      BY AtWork DEF Ticket
    <3> QED
      BY <2>3, <3>1, AtWork, RowStands DEF Writes, Resolved
  <2> QED
    BY <1>8, <2>1, <2>2, <2>3 DEF SweepCloses
<1>9. ASSUME NEW t \in Tickets, Waits(t) \/ Automates(t) PROVE Stands
  <2>1. \A u \in Tickets : tickets'[u].status = tickets[u].status
    <3>1. CASE Waits(t)
      BY <3>1, Typed DEF Waits, Ticket
    <3>2. ASSUME NEW p \in People,
                 tickets' = [tickets EXCEPT ![t].assignee = p, ![t].told = FALSE,
                                            ![t].placed = NoTeam]
          PROVE  \A u \in Tickets : tickets'[u].status = tickets[u].status
      BY <3>2, Typed DEF Ticket
    <3> QED
      BY <1>9, <3>1, <3>2 DEF Automates
  <2> QED
    BY <2>1 DEF Stands, Revived, Resolved
<1>10. ASSUME NEW p \in People, ComesOrGoes(p) PROVE Stands
  BY <1>1, <1>10 DEF ComesOrGoes
<1>11. CASE BreaksDeadlock
  BY <1>1, <1>11 DEF BreaksDeadlock
<1>12. ASSUME NEW h \in Handlers, Requests(h) \/ Acts(h) \/ Works(h) PROVE Stands
  BY <1>2, <1>3, <1>4, <1>5, <1>6, <1>7, <1>8, <1>12 DEF Acts, Works
<1> QED
  BY <1>9, <1>10, <1>11, <1>12 DEF Next

\* However the handlers cross, a ticket leaves `resolved` only by its one reopening, by a person
\* who was shown it resolved, or by the resume of a reply sent while it waited (move, resume, reopen_now).
THEOREM ResolutionsAreUndoneKnowingly == Spec => ResolutionsStand
<1>1. TypeInv /\ Safe /\ [Next]_vars => [Stands]_vars
  BY NextStands
<1> QED
  BY <1>1, ReopenedOnce, Safety, PTL DEF Spec, ResolutionsStand, Stands, Revived, Knowingly
=============================================================================
