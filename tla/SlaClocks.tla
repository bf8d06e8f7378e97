----------------------------- MODULE SlaClocks -----------------------------
(***************************************************************************)
(* The two SLA clocks of a ticket (apps/sla/utils/clocks.py) and the mass  *)
(* incident that holds them (apps/incidents/utils/incidents.py).           *)
(*                                                                         *)
(* One ticket, one incident.  The transaction of a status move holds the   *)
(* ticket's row, and changes to clocks hold the clocks' rows, so each is   *)
(* one step here.  What the code does outside those locks is several       *)
(* steps: a rebuild and an incident's handlers act on a copy of the ticket *)
(* they read before, a triage worker on the incident it found, and         *)
(* resolving an incident takes a transaction per part.                     *)
(*                                                                         *)
(* A status is its class: "backlog" (triage), "active", "waiting" (on the  *)
(* requester: it pauses the SLA) or "completed".  Business time is the     *)
(* function Worked: Worked[t] units of working time pass before moment t   *)
(* (BusinessTime.tla checks how calendars yield it).                       *)
(***************************************************************************)
EXTENDS Integers, Sequences

CONSTANTS
  Times,          \* the moments a due time may fall on
  Worked,         \* business time by each moment
  MaxTime,        \* bound on the moments at which something happens
  Budgets,        \* bounds: how often each kind of thing happens, one choice per behaviour
  Goals,          \* Goals[kind][target][level]: the business time of a level of a clock
  CanCrash        \* the server of a resolving manager may stop

Kinds == {"response", "resolution"}
Levels == {"warn", "due", "escalate"}
Priorities == {"P1", "P3"}
Targets == Priorities \union {"override"}
CountingStates == {"running", "breached"}
OpenStates == CountingStates \union {"paused"}
ClockStates == OpenStates \union {"absent", "met", "cancelled"}
StatusClasses == {"backlog", "active", "waiting", "completed"}
Never == -1

ASSUME TimeAssumption ==
  /\ MaxTime \in Nat /\ Times \subseteq Nat /\ 0 .. MaxTime \subseteq Times
  /\ Worked \in [Times -> Nat]
  /\ \A s, t \in Times : s <= t => Worked[s] <= Worked[t]
ASSUME GoalAssumption ==
  /\ Goals \in [Kinds -> [Targets -> [warn: Nat, due: Nat, escalate: Nat]]]
  /\ \A k \in Kinds, g \in Targets, t \in 0 .. MaxTime :
       LET goal == Goals[k][g]
       IN \A units \in {goal.warn, goal.due, goal.escalate} :
            \E u \in Times : u >= t /\ Worked[u] - Worked[t] >= units

\* Ticks of the clock; transfers and responses; priority changes, overrides, failures and asked
\* rebuilds; what managers and the detector do to the incident.
Bounded == {"ticks", "moves", "changes", "handlings"}
ASSUME BudgetAssumption == Budgets \subseteq [Bounded -> Nat] /\ CanCrash \in BOOLEAN

VARIABLES
  now,
  status,     \* the class of the ticket's workflow status
  priority,   \* the ticket's priority, "unset" until its first handoff
  mirror,     \* the ticket's copy of when its resolution is due
  clocks,
  rebuild,    \* a rebuild of the clocks is asked for
  record,     \* the committed transfers, review decisions and staff replies, in order
  sweeping,   \* what the SLA sweep does next
  copied,     \* the ticket as the sweep read it, to rebuild its clocks
  asked,      \* a person's request to rebuild them, with the ticket as it read it
  triage,     \* a triage worker that found the incident, and what it read
  incident,   \* the incident's status
  link,       \* the ticket's link to it, and how far close-all has got
  manager,    \* a handler that holds the incident's row
  resolver,   \* a handler that resolved the incident and goes on after the commit
  closer,     \* close-all's copy of the ticket it is moving
  left,       \* what is left of the budget
  spent,      \* history: business time since the start that a clock was counting
  marks       \* history: what happened to the clocks that the record or a hold does not tell
vars == <<now, status, priority, mirror, clocks, rebuild, record, sweeping, copied, asked, triage,
          incident, link, manager, resolver, closer, left, spent, marks>>

workers == <<sweeping, copied, asked, triage>>
deskVars == <<now, status, record, workers>>
clockVars == <<priority, mirror, clocks, rebuild, spent, marks>>
incidentVars == <<incident, link>>
handlers == <<manager, resolver, closer>>

Dues == Times \union {Never}
Clock == [kind: Kinds, state: ClockStates, started: 0 .. MaxTime, elapsed: Nat, asOf: 0 .. MaxTime,
          target: Targets, at: [warn: Dues, due: Dues, escalate: Dues], fired: SUBSET Levels]
Clocks == [response: Clock, resolution: Clock]
Event == [kind: {"move"}, at: 0 .. MaxTime, before: StatusClasses, after: StatusClasses,
          staff: BOOLEAN]
         \union [kind: {"response"}, at: 0 .. MaxTime]
\* What a handler read of the ticket: is it waiting on its requester, and its copy of the due time.
Seen == [waiting: BOOLEAN, due: Dues]
\* What a rebuild uses of the ticket: its due time, its priority and whether it has an incident.
Copies == [due: Dues, priority: Priorities \union {"unset"}, linked: BOOLEAN]
NoCopy == [due |-> Never, priority |-> "unset", linked |-> FALSE]
Idle == [op |-> "idle"]
Operations == {"confirm", "declare", "dismiss", "link", "unlink", "reopen"}

NoTime == [response |-> 0, resolution |-> 0]

-----------------------------------------------------------------------------
(* One clock *)

Counting(c) == c.state \in CountingStates
Open(c) == c.state \in OpenStates
Unset == [warn |-> Never, due |-> Never, escalate |-> Never]

\* Clock.elapsed_at: the business time counted by `at`.
ElapsedAt(c, at) ==
  IF Counting(c) /\ c.asOf < at THEN c.elapsed + Worked[at] - Worked[c.asOf] ELSE c.elapsed

Elapsed(cs, at) == [response |-> ElapsedAt(cs.response, at),
                    resolution |-> ElapsedAt(cs.resolution, at)]

Fold(c, at) == [c EXCEPT !.elapsed = ElapsedAt(c, at), !.asOf = at]

\* BusinessCalendar.add: the first moment by which `units` of business time have passed.
AddTime(at, units) ==
  IF units <= 0 THEN at
  ELSE LET late == {u \in Times : u >= at /\ Worked[u] - Worked[at] >= units}
       IN CHOOSE u \in late : \A v \in late : u <= v

LevelTime_Known(known, rest, at) ==
  IF known # Never /\ known <= at THEN known ELSE AddTime(at, rest)

\* When a level is reached; one passed already keeps the moment known for it.
LevelTime(known, rest, at) ==
  IF rest <= 0 /\ known # Never /\ known <= at THEN known ELSE AddTime(at, rest)
Recompute(c, at) ==
  LET goal == Goals[c.kind][c.target]
      f == Fold(c, at)
  IN [f EXCEPT !.at = [warn |-> LevelTime(@.warn, goal.warn - f.elapsed, at),
                       due |-> LevelTime(@.due, goal.due - f.elapsed, at),
                       escalate |-> LevelTime(@.escalate, goal.escalate - f.elapsed, at)]]

Pause(c, at) == [Fold(c, at) EXCEPT !.state = "paused", !.at = Unset]
Running(c) == IF "due" \in c.fired THEN "breached" ELSE "running"
Resume_PauseCounts(c, at) == Recompute([c EXCEPT !.state = Running(c)], at)

Resume(c, at) == Recompute([c EXCEPT !.state = Running(c), !.asOf = at], at)

Finish(c, state, at) ==
  [Fold(c, at) EXCEPT !.state = state, !.at = [Unset EXCEPT !.due = c.at.due]]

Absent(k) == [kind |-> k, state |-> "absent", started |-> 0, elapsed |-> 0, asOf |-> 0,
              target |-> "P3", at |-> Unset, fired |-> {}]
NoClocks == [response |-> Absent("response"), resolution |-> Absent("resolution")]
Started(k, at, p) ==
  Recompute([Absent(k) EXCEPT !.state = "running", !.started = at, !.asOf = at, !.target = p], at)

-----------------------------------------------------------------------------
(* The clocks of the ticket *)

Each(cs, Picks(_), Op(_)) ==
  LET done(c) == IF Picks(c) THEN Op(c) ELSE c
  IN [response |-> done(cs.response), resolution |-> done(cs.resolution)]

Respond(cs, at) ==
  IF Open(cs.response) THEN [cs EXCEPT !.response = Finish(@, "met", at)] ELSE cs

Live(cs) == \E c \in {cs.response, cs.resolution} : c.state \notin {"absent", "cancelled"}

\* The clocks a status entered finds to work on: it starts them unless the ticket is done.
Starts(cs, after) == ~Live(cs) /\ after \in {"active", "waiting"}
OrStarted(cs, after, at, p) ==
  IF Starts(cs, after)
  THEN [response |-> Started("response", at, p), resolution |-> Started("resolution", at, p)]
  ELSE cs

\* Every clock that is still open ends.
Settled(cs, state, at) == LET Done(c) == Finish(c, state, at) IN Each(cs, Open, Done)

\* SlaClocks.apply.  `held`: the ticket's incident is confirmed.
Apply(cs, before, after, at, staff, held, p) ==
  LET begun == OrStarted(cs, after, at, p)
      answered == IF staff /\ Live(begun) THEN Respond(begun, at) ELSE begun
      again == IF answered.resolution.state = "met"
               THEN [answered EXCEPT !.resolution = Resume(@, at)] ELSE answered
      Paused(c) == c.state = "paused" /\ ~(held /\ c.kind = "resolution")
      Waits(c) == Pause(c, at)
      Runs(c) == Resume(c, at)
  IN IF after = "backlog" THEN Settled(cs, "cancelled", at)
     ELSE IF after = "completed" THEN Settled(answered, "met", at)
     ELSE IF after = "waiting" /\ before # "waiting" THEN Each(again, Counting, Waits)
     ELSE IF after # "waiting" /\ before = "waiting" THEN Each(again, Paused, Runs)
     ELSE again

\* SlaClocks.mirror: writes only when the copy the caller holds says something else.
DueOf(cs) == IF Counting(cs.resolution) THEN cs.resolution.at.due ELSE Never
Mirrored(copy) == mirror' = IF copy # DueOf(clocks') THEN DueOf(clocks') ELSE mirror

Linked == link # "none"
Held == Linked /\ incident = "confirmed"
IncidentOpen == incident \in {"proposed", "confirmed"}

\* SlaClocks.start: the priority of a ticket that has none.
InitialPriority(linked) == IF linked /\ IncidentOpen THEN "P1" ELSE "P3"
PriorityAfter(cs, after) ==
  IF priority = "unset" /\ Starts(cs, after) THEN InitialPriority(Linked) ELSE priority

Spend(uses) ==
  /\ \A b \in uses : left[b] > 0
  /\ left' = [b \in Bounded |-> IF b \in uses THEN left[b] - 1 ELSE left[b]]

\* SlaClocks.guarded: the change, or a rebuild asked for when it fails.
Fails(uses) ==
  /\ Spend(uses \union {"changes"})
  /\ rebuild' = TRUE /\ UNCHANGED <<priority, mirror, clocks, spent>>

\* SlaClocks.incident_hold, with what the caller had read of the ticket.
HeldBy(cs, held, seen) ==
  LET c == cs.resolution
  IN IF held /\ Counting(c) THEN [cs EXCEPT !.resolution = Pause(c, now)]
     ELSE IF ~held /\ c.state = "paused" /\ ~seen.waiting
     THEN [cs EXCEPT !.resolution = Resume(c, now)]
     ELSE cs
\* What a hold or a release gets wrong because its caller's copy is old by now.
Marks(held, seen) ==
  (IF ~held /\ clocks' # clocks /\ (status = "waiting" \/ Held')
   THEN {"late"} ELSE {})
  \union (IF ~held /\ clocks.resolution.state = "paused" /\ seen.waiting /\ status # "waiting"
          THEN {"kept"} ELSE {})
  \union (IF mirror' # DueOf(clocks') THEN {"copy"} ELSE {})
Hold(held, seen) ==
  /\ \/ /\ clocks' = HeldBy(clocks, held, seen)
        /\ IF clocks.resolution.state = "absent" THEN UNCHANGED mirror ELSE Mirrored(seen.due)
        /\ UNCHANGED <<priority, rebuild, spent, left>>
     \/ Fails({})
  /\ marks' = marks \union Marks(held, seen)
NoHold == UNCHANGED <<clockVars, left>>

-----------------------------------------------------------------------------
(* The engine's moves and people's responses *)

Init ==
  /\ now = 0 /\ status = "backlog" /\ priority = "unset" /\ mirror = Never
  /\ clocks = NoClocks
  /\ rebuild = FALSE /\ record = <<>> /\ sweeping = "read" /\ copied = NoCopy /\ asked = Idle
  /\ incident = "none" /\ link = "none" /\ triage = Idle
  /\ manager = Idle /\ resolver = Idle /\ closer = Idle
  /\ left \in Budgets
  /\ spent = NoTime /\ marks = {}

Passing(c) == IF Counting(c) THEN Worked[now + 1] - Worked[now] ELSE 0
Tick ==
  /\ now < MaxTime /\ Spend({"ticks"})
  /\ now' = now + 1
  /\ spent' = [response |-> spent.response + Passing(clocks.response),
               resolution |-> spent.resolution + Passing(clocks.resolution)]
  /\ UNCHANGED <<status, priority, mirror, clocks, rebuild, record, workers, marks,
                 incidentVars, handlers>>

\* on_status_entered for a committed transfer, in the transaction that holds the ticket.
Entered(after, staff, uses) ==
  LET p == PriorityAfter(clocks, after)
  IN /\ status' = after
     /\ record' = Append(record, [kind |-> "move", at |-> now, before |-> status,
                                  after |-> after, staff |-> staff])
     /\ \/ /\ Spend(uses)
           /\ priority' = p
           /\ clocks' = Apply(clocks, status, after, now, staff, Held, p)
           /\ IF Live(clocks') \/ after = "backlog" THEN Mirrored(mirror) ELSE UNCHANGED mirror
           /\ spent' = IF Starts(clocks, after) THEN NoTime ELSE spent
           /\ UNCHANGED rebuild
        \/ Fails(uses)

\* A clock that starts, reopens or resumes while the incident is confirmed is not held.
Escapes == IF Held /\ Counting(clocks'.resolution) /\ ~Counting(clocks.resolution)
           THEN {"unheld"} ELSE {}

Move ==
  /\ \E after \in StatusClasses, staff \in BOOLEAN : Entered(after, staff, {"moves"})
  /\ marks' = marks \union Escapes
  /\ UNCHANGED <<now, workers, incidentVars, handlers>>

\* A staff reply to the requester, or a review decision.
Answer ==
  /\ record' = Append(record, [kind |-> "response", at |-> now])
  /\ \/ /\ Spend({"moves"})
        /\ clocks' = Respond(clocks, now)
        /\ UNCHANGED <<priority, mirror, rebuild, spent>>
     \/ Fails({"moves"})
  /\ UNCHANGED <<now, status, workers, marks, incidentVars, handlers>>

\* change_priority: open clocks move to the new policy's targets with their business time kept.
Retarget(c, p) ==
  LET f == IF c.state = "paused" THEN c ELSE Fold(c, now)
      t == [f EXCEPT !.target = IF @ = "override" THEN @ ELSE p]
      over == t.elapsed >= Goals[t.kind][t.target].due /\ "due" \notin t.fired
  IN IF t.state = "paused" THEN t
     ELSE Recompute(IF over THEN [t EXCEPT !.state = "breached", !.fired = @ \union {"due"}]
                    ELSE t, now)

ChangePriority ==
  /\ Spend({"changes"})
  /\ \E p \in Priorities :
       /\ priority' = p
       /\ LET Moved(c) == Retarget(c, p) IN clocks' = Each(clocks, Open, Moved)
  /\ Mirrored(mirror)
  /\ marks' = marks \union {"edited"}
  /\ UNCHANGED <<deskVars, rebuild, spent, incidentVars, handlers>>

Override_NoMirror ==
  LET c == [clocks.resolution EXCEPT !.target = "override"]
  IN /\ Spend({"changes"})
     /\ Open(c)
     /\ clocks' = [clocks EXCEPT !.resolution = IF c.state = "paused" THEN c
                                                ELSE Recompute(c, now)]
     /\ marks' = marks \union {"edited"}
     /\ UNCHANGED <<deskVars, priority, mirror, rebuild, spent, incidentVars, handlers>>

\* override: a workflow action's own target for the resolution clock.
Override ==
  LET c == [clocks.resolution EXCEPT !.target = "override"]
  IN /\ Spend({"changes"})
     /\ Open(c)
     /\ clocks' = [clocks EXCEPT !.resolution = IF c.state = "paused" THEN c
                                                ELSE Recompute(c, now)]
     /\ Mirrored(mirror)
     /\ marks' = marks \union {"edited"}
     /\ UNCHANGED <<deskVars, priority, rebuild, spent, incidentVars, handlers>>

-----------------------------------------------------------------------------
(* The sweep *)

Replay_MovesOnly(p, held) ==
  LET moves == SelectSeq(record, LAMBDA e : e.kind = "move")
      upTo[n \in 0 .. Len(record)] ==
        IF n = 0 THEN NoClocks
        ELSE IF n > Len(moves) THEN upTo[n - 1]
        ELSE Apply(upTo[n - 1], moves[n].before, moves[n].after, moves[n].at, moves[n].staff,
                   held, p)
  IN upTo

\* What the record makes of the clocks, event by event: whatever the incident, a person's change
\* of priority or an override made of them since.
Replay(p, held) ==
  LET step(cs, e) == IF e.kind = "response" THEN Respond(cs, e.at)
                     ELSE Apply(cs, e.before, e.after, e.at, e.staff, held, p)
      upTo[n \in 0 .. Len(record)] == IF n = 0 THEN NoClocks ELSE step(upTo[n - 1], record[n])
  IN upTo

\* rebuild: the clocks the record gives, brought up to now.
Replayed(p, held) ==
  LET Brought(c) == Recompute(c, now)
  IN Each(Replay(p, held)[Len(record)], Counting, Brought)

\* The ticket as a handler reads it, and what a rebuild takes from such a copy later: the link is
\* the copy's, the incident's status is read when it is asked for.
Copy == [due |-> mirror, priority |-> priority, linked |-> Linked]
PriorityOf(copy) ==
  IF copy.priority = "unset" THEN InitialPriority(copy.linked) ELSE copy.priority
HeldIn(copy) == copy.linked /\ incident = "confirmed"

\* The due times a replay mirrors: that of each move replayed, and that at its end.
Mirrors(replay) ==
  {DueOf(clocks')} \union
    {DueOf(replay[n]) : n \in {m \in 1 .. Len(record) :
       record[m].kind = "move" /\ (Live(replay[m]) \/ record[m].after = "backlog")}}

\* In one transaction, with a copy of the ticket read before it.
Rebuild(copy) ==
  /\ clocks' = Replayed(PriorityOf(copy), HeldIn(copy))
  /\ priority' = IF copy.priority = "unset" /\ clocks'.resolution.state # "absent"
                 THEN PriorityOf(copy) ELSE priority
  /\ mirror' = IF Mirrors(Replay(PriorityOf(copy), HeldIn(copy))) # {copy.due}
               THEN DueOf(clocks') ELSE mirror
  /\ rebuild' = FALSE
  /\ spent' = Elapsed(clocks', now)
  /\ marks' = (IF Held /\ Counting(clocks'.resolution) THEN {"unheld"} ELSE {})
              \union (IF mirror' # DueOf(clocks') THEN {"copy"} ELSE {})
              \union (IF priority' \notin {copy.priority, PriorityOf(copy)}
                      THEN {"edited"} ELSE {})
              \union (IF HeldIn(copy) /\ ~Linked THEN {"kept"} ELSE {})

SweepReads_NoRebuilds ==
  /\ sweeping = "read" /\ sweeping' = "fire"
  /\ UNCHANGED <<now, status, record, copied, asked, triage, clockVars, left, incidentVars,
                 handlers>>

\* Its first part reads the asked rebuilds with their tickets, ...
SweepReads ==
  /\ sweeping = "read"
  /\ IF rebuild THEN sweeping' = "rebuild" /\ copied' = Copy
     ELSE sweeping' = "fire" /\ UNCHANGED copied
  /\ UNCHANGED <<now, status, record, asked, triage, clockVars, left, incidentVars, handlers>>

\* ... rebuilds each in a transaction of its own, ...
SweepRebuilds ==
  /\ sweeping = "rebuild" /\ sweeping' = "fire"
  /\ Rebuild(copied) /\ copied' = NoCopy
  /\ UNCHANGED <<now, status, record, asked, triage, left, incidentVars, handlers>>

\* ... and then fires what is due.
Reached(c, l, time) == time # Never /\ time <= now /\ l \notin c.fired
\* The three passes of the sweep, each over the clocks as the one before left them.
Warned(c) ==
  IF c.state = "running" /\ Reached(c, "warn", c.at.warn)
  THEN [c EXCEPT !.fired = @ \union {"warn"}] ELSE c
Breached(c) ==
  IF c.state = "running" /\ Reached(c, "due", c.at.due)
  THEN [c EXCEPT !.fired = @ \union {"due"}, !.state = "breached"] ELSE c
Escalated(c) ==
  IF Counting(c) /\ Reached(c, "escalate", c.at.escalate)
  THEN [c EXCEPT !.fired = @ \union {"escalate"}] ELSE c

SweepFires ==
  /\ sweeping = "fire" /\ sweeping' = "read"
  /\ LET Fired(c) == Escalated(Breached(Warned(c))) IN clocks' = Each(clocks, Open, Fired)
  /\ UNCHANGED <<now, status, record, copied, asked, triage, priority, mirror, rebuild, spent,
                 marks, left, incidentVars, handlers>>

\* A person asks for a rebuild of the ticket's clocks: the request reads the ticket, ...
RebuildAsked ==
  /\ Spend({"changes"}) /\ asked = Idle
  /\ asked' = [op |-> "rebuild", copy |-> Copy]
  /\ UNCHANGED <<now, status, record, sweeping, copied, triage, clockVars, incidentVars, handlers>>

\* ... then rebuilds them.
AskedRebuilds ==
  /\ asked # Idle /\ asked' = Idle
  /\ Rebuild(asked.copy)
  /\ UNCHANGED <<now, status, record, sweeping, copied, triage, left, incidentVars, handlers>>

-----------------------------------------------------------------------------
(* The incident *)

SeenNow == [waiting |-> status = "waiting", due |-> mirror]

\* classify, under the lock of all detections: the detector proposes an incident for tickets
\* alike, ours or not, or the worker of a ticket in triage finds the open one ...
Detected ==
  /\ Spend({"handlings"})
  /\ \/ /\ incident = "none" /\ manager = Idle /\ ~Linked
        /\ incident' = "proposed" /\ link' \in {link, "linked"} /\ UNCHANGED triage
     \/ /\ IncidentOpen /\ status = "backlog" /\ triage = Idle
        /\ triage' = [op |-> "join", confirmed |-> incident = "confirmed", linked |-> Linked,
                      due |-> mirror]
        /\ UNCHANGED incidentVars
  /\ UNCHANGED <<now, status, record, sweeping, copied, asked, clockVars, handlers>>

\* ... and links its ticket once the incident's row is free, whatever became of the incident; the
\* ticket keeps the incident as it was found, or, linked before, asks for it later.
TriageJoins ==
  /\ triage.op = "join" /\ manager = Idle
  /\ link' = IF Linked THEN link ELSE "linked"
  /\ triage' = IF ~Linked /\ triage.confirmed THEN [op |-> "attach", due |-> triage.due]
               ELSE IF Linked /\ triage.linked THEN [op |-> "ask", due |-> triage.due]
               ELSE Idle
  /\ marks' = marks \union IF incident = "confirmed" /\ Counting(clocks.resolution)
                          THEN {"unheld"} ELSE {}
  /\ UNCHANGED <<now, status, record, sweeping, copied, asked, priority, mirror, clocks, rebuild,
                 spent, left, incident, handlers>>

\* The router escalates the ticket into that incident: the move starts the clocks, then attach
\* holds them if the incident it has is confirmed, with the ticket as the worker loaded it.
Attached ==
  LET p == PriorityAfter(clocks, "active")
      begun == Apply(clocks, status, "active", now, FALSE, Held, p)
      holds == triage.op = "attach" \/ incident = "confirmed"
      due == DueOf(clocks')
  IN /\ triage.op \in {"attach", "ask"} /\ triage' = Idle /\ Spend({"moves"})
     /\ status' = "active" /\ priority' = p
     /\ record' = Append(record, [kind |-> "move", at |-> now, before |-> status,
                                  after |-> "active", staff |-> FALSE])
     /\ clocks' = IF holds THEN HeldBy(begun, TRUE, [waiting |-> FALSE, due |-> triage.due])
                  ELSE begun
     /\ mirror' = IF holds /\ triage.due # due THEN due ELSE DueOf(begun)
     /\ spent' = IF Starts(clocks, "active") THEN NoTime ELSE spent
     /\ marks' = marks \union (IF mirror' # due THEN {"copy"} ELSE {})
                        \union (IF holds /\ ~Held THEN {"kept"} ELSE {})
     /\ UNCHANGED <<now, sweeping, copied, asked, rebuild, incidentVars, handlers>>

\* A manager's request takes the incident's row, checks its status and reads its tickets ...
MayHandle(op) ==
  CASE op \in {"confirm", "dismiss"} -> incident = "proposed"
    [] op = "declare" -> incident = "none"
    [] op = "link" -> IncidentOpen /\ ~Linked
    [] op = "unlink" -> Linked
    [] op = "reopen" -> incident = "resolved"
ManagerReads ==
  /\ Spend({"handlings"}) /\ manager = Idle
  /\ \E op \in Operations :
       /\ MayHandle(op)
       /\ manager' = [op |-> op, seen |-> SeenNow, resolved |-> status = "completed"]
  /\ UNCHANGED <<deskVars, clockVars, incidentVars, resolver, closer>>

\* ... then changes the clocks' rows and commits.
Confirms ==
  /\ manager.op \in {"confirm", "declare"}
  /\ incident' = "confirmed"
  /\ link' \in IF manager.op = "declare" THEN {link, "linked"} ELSE {link}
  /\ IF Linked' THEN Hold(TRUE, manager.seen) ELSE NoHold
Dismisses ==
  /\ manager.op = "dismiss"
  /\ incident' = "dismissed" /\ link' = "none"
  /\ IF Linked THEN Hold(FALSE, manager.seen) ELSE NoHold
Links ==
  /\ manager.op = "link"
  /\ link' = "linked" /\ UNCHANGED incident
  /\ IF incident = "confirmed" THEN Hold(TRUE, manager.seen) ELSE NoHold
Unlinks_NoRelease ==
  /\ manager.op = "unlink"
  /\ link' = "none" /\ UNCHANGED incident
  /\ NoHold

Unlinks ==
  /\ manager.op = "unlink"
  /\ link' = "none" /\ UNCHANGED incident
  /\ Hold(FALSE, manager.seen)
Reopens ==
  /\ manager.op = "reopen"
  /\ incident' = "confirmed"
  /\ link' = IF link = "closing" THEN "linked" ELSE link
  /\ \/ Linked /\ ~manager.resolved /\ Hold(TRUE, manager.seen)
     \/ /\ ~Linked \/ manager.resolved
        /\ marks' = marks \union IF Linked /\ Counting(clocks.resolution) THEN {"late"} ELSE {}
        /\ UNCHANGED <<priority, mirror, clocks, rebuild, spent, left>>

ManagerCommits ==
  /\ manager # Idle /\ manager' = Idle
  /\ Confirms \/ Dismisses \/ Links \/ Unlinks \/ Reopens
  /\ UNCHANGED <<deskVars, resolver, closer>>

\* resolve: the status in a transaction of its own, then the broadcast in another, then each
\* ticket in one more.
Resolve ==
  /\ Spend({"handlings"}) /\ manager = Idle /\ resolver = Idle
  /\ incident = "confirmed" /\ incident' = "resolved"
  /\ \E closeAll \in BOOLEAN : resolver' = [op |-> "broadcast", closeAll |-> closeAll]
  /\ UNCHANGED <<deskVars, clockVars, link, manager, closer>>

\* The broadcast answers the ticket: it meets the response clock, off the record.
ResolverBroadcasts ==
  /\ resolver.op = "broadcast" /\ manager = Idle
  /\ incident \in {"confirmed", "resolved"}
  /\ resolver' = [op |-> IF resolver.closeAll THEN "mark" ELSE "read"]
  /\ \/ /\ clocks' = IF Linked THEN Respond(clocks, now) ELSE clocks
        /\ UNCHANGED <<priority, mirror, rebuild, spent, left>>
     \/ Linked /\ Fails({})
  /\ UNCHANGED <<deskVars, marks, incidentVars, manager, closer>>

\* Masking the note once more fails, or the server stops: nobody goes on from there.
Abandoned == IF Linked THEN {"unreleased"} ELSE {}
ResolverStops ==
  /\ CanCrash /\ resolver # Idle /\ resolver' = Idle
  /\ marks' = marks \union Abandoned
  /\ UNCHANGED <<deskVars, priority, mirror, clocks, rebuild, spent, left, incidentVars, manager,
                 closer>>

ResolverReads ==
  /\ resolver.op = "read"
  /\ resolver' = IF Linked THEN [op |-> "release", seen |-> SeenNow] ELSE Idle
  /\ UNCHANGED <<deskVars, clockVars, left, incidentVars, manager, closer>>

ResolverReleases ==
  /\ resolver.op = "release" /\ resolver' = Idle
  /\ UNCHANGED <<deskVars, incidentVars, manager, closer>>
  /\ Hold(FALSE, resolver.seen)

\* close_all: the open tickets are marked; the sweep carries on with them.
ResolverMarks ==
  /\ resolver.op = "mark" /\ resolver' = Idle
  /\ link' = IF Linked /\ status # "completed" THEN "closing" ELSE link
  /\ UNCHANGED <<deskVars, clockVars, left, incident, manager, closer>>

\* continue_closing: reads a link that is closing, then moves its ticket as far as it goes.
CloserReads ==
  /\ closer = Idle /\ link = "closing"
  /\ closer' = [op |-> "move", seen |-> SeenNow]
  /\ UNCHANGED <<deskVars, clockVars, left, incidentVars, manager, resolver>>

\* The ticket arrives at `resolved`, or was there.
CloserArrives ==
  /\ closer.op = "move" /\ closer' = Idle
  /\ link' = IF Linked THEN "closed" ELSE link
  /\ IF status = "completed"
     THEN UNCHANGED <<status, record, priority, mirror, clocks, rebuild, spent, left>>
     ELSE Entered("completed", FALSE, {"moves"})
  /\ UNCHANGED <<now, workers, marks, incident, manager, resolver>>

\* It is refused, or a move on the way failed: not_closed notes it, then releases the clock.
CloserRefused ==
  /\ closer.op = "move"
  /\ closer' = [closer EXCEPT !.op = "release"]
  /\ link' = IF Linked THEN "failed" ELSE link
  /\ UNCHANGED <<deskVars, clockVars, left, incident, manager, resolver>>
CloserReleases ==
  /\ closer.op = "release" /\ closer' = Idle
  /\ UNCHANGED <<deskVars, incidentVars, manager, resolver>>
  /\ Hold(FALSE, closer.seen)

\* It waits for an action on the way (the next sweep looks again), or the server stops.
CloserLeaves ==
  /\ closer # Idle /\ (closer.op = "move" \/ CanCrash)
  /\ closer' = Idle
  /\ marks' = marks \union IF closer.op = "release" THEN Abandoned ELSE {}
  /\ UNCHANGED <<deskVars, priority, mirror, clocks, rebuild, spent, left, incidentVars, manager,
                 resolver>>

\* The incident sweep closes an incident resolved long ago.
IncidentCloses ==
  /\ incident = "resolved" /\ manager = Idle /\ resolver = Idle
  /\ incident' = "closed"
  /\ UNCHANGED <<deskVars, clockVars, left, link, handlers>>

Next ==
  \/ Tick \/ Move \/ Answer \/ ChangePriority \/ Override
  \/ SweepReads \/ SweepRebuilds \/ SweepFires \/ RebuildAsked \/ AskedRebuilds
  \/ Detected \/ TriageJoins \/ Attached \/ ManagerReads \/ ManagerCommits
  \/ Resolve \/ ResolverBroadcasts \/ ResolverStops \/ ResolverReads \/ ResolverReleases
  \/ ResolverMarks \/ CloserReads \/ CloserArrives \/ CloserRefused \/ CloserReleases
  \/ CloserLeaves \/ IncidentCloses

Spec == Init /\ [][Next]_vars

\* Beat runs the sweep every minute, and neither of its parts ever waits: it keeps turning.
SweepParts == {"read", "rebuild", "fire"}
SweepTurns == sweeping' \in SweepParts \ {sweeping}
FairSpec == Spec /\ WF_sweeping(SweepTurns)

-----------------------------------------------------------------------------
TypeOK ==
  /\ now \in 0 .. MaxTime /\ status \in StatusClasses
  /\ priority \in Priorities \union {"unset"} /\ mirror \in Dues
  /\ clocks \in Clocks /\ rebuild \in BOOLEAN
  /\ record \in Seq(Event) /\ sweeping \in SweepParts /\ copied \in Copies
  /\ asked = Idle \/ asked \in [op: {"rebuild"}, copy: Copies]
  /\ \/ triage = Idle \/ triage \in [op: {"attach", "ask"}, due: Dues]
     \/ triage \in [op: {"join"}, confirmed: BOOLEAN, linked: BOOLEAN, due: Dues]
  /\ incident \in {"none", "proposed", "confirmed", "resolved", "closed", "dismissed"}
  /\ link \in {"none", "linked", "closing", "closed", "failed"}
  /\ manager = Idle \/ manager \in [op: Operations, seen: Seen, resolved: BOOLEAN]
  /\ \/ resolver = Idle
     \/ resolver \in [op: {"broadcast"}, closeAll: BOOLEAN]
     \/ resolver \in [op: {"mark", "read"}]
     \/ resolver \in [op: {"release"}, seen: Seen]
  /\ closer = Idle \/ closer \in [op: {"move", "release"}, seen: Seen]
  /\ left \in [Bounded -> Nat]
  /\ spent \in [response: Nat, resolution: Nat]
  /\ marks \subseteq {"edited", "late", "kept", "copy", "unheld", "unreleased"}

\* The business time a clock shows is the working time that passed while it was counting, however
\* it was folded, paused, resumed, met, reopened or retargeted since it started or was last rebuilt
\* (fold, Clock.elapsed_at); ReplayAgrees is about what a rebuild gives.
ElapsedIsTrue == Elapsed(clocks, now) = spent

SameClock(c, d) ==
  /\ c.started = d.started /\ ElapsedAt(c, now) = ElapsedAt(d, now) /\ c.target = d.target
  /\ Open(c) = Open(d) /\ Counting(c) = Counting(d)
  /\ ~Open(c) => c.state = d.state
  /\ Counting(c) => c.at.due = d.at.due

\* A rebuild gives a ticket the clocks it has: the record of its moves, decisions and replies tells
\* all there is to them, but for people's changes of targets, which a rebuild from a copy of the
\* ticket read before them undoes, and for incidents (rebuild, sweep).
ReplayAgrees ==
  ~rebuild /\ "edited" \notin marks /\ incident = "none" =>
  LET replayed == Replayed(PriorityOf(Copy), Held)
  IN /\ SameClock(replayed.response, clocks.response)
     /\ SameClock(replayed.resolution, clocks.resolution)

\* No clock stays open on a ticket that is done or back in triage, paused by an incident or not
\* (apply).
StoppedWithTheTicket ==
  status \in {"backlog", "completed"} => ~Open(clocks.response) /\ ~Open(clocks.resolution)

\* A clock waits only while the ticket waits on its requester or, for the resolution clock, while
\* its incident is confirmed or being resolved, and it waits then (apply, incident_hold, attach,
\* Incidents.resolve, not_closed).  BR-F1-15 and BR-F7-07 say so without exception; the code falls
\* short when a handler, a rebuild or a triage worker acts on a ticket or an incident it read
\* before ("late", "kept", "unheld"), when a clock starts, reopens or is linked to a confirmed
\* incident while it runs ("unheld"), and when a resolver stops half way ("unreleased").
PausedForAReason ==
  LET c == clocks.resolution
  IN /\ clocks.response.state = "paused" => status = "waiting"
     /\ status = "waiting" => ~Counting(clocks.response)
     /\ status = "waiting" /\ "late" \notin marks => ~Counting(c)
     /\ c.state = "paused" /\ marks \intersect {"kept", "unreleased"} = {} =>
          \/ status = "waiting"
          \/ Linked /\ (incident = "confirmed" \/ link = "closing" \/ resolver # Idle
                        \/ closer # Idle)
     /\ Held /\ marks \intersect {"late", "unheld"} = {} => ~Counting(c)

\* Between the ticket's moves and its incident's, clocks stop and wait when they should and never
\* longer, unless the sweep is to rebuild them.
ClocksFollowTheTicket == ~rebuild => StoppedWithTheTicket /\ PausedForAReason

\* The ticket's own due time is that of its counting resolution clock, as long as nobody wrote it
\* by an older copy of the ticket (mirror).
MirrorFollows == "copy" \notin marks => mirror = DueOf(clocks)

\* A warning, breach or escalation fires only when the business time counted has reached that
\* level of the target the clock has then, whatever moved the target or the clock before (recompute,
\* retarget, sweep).
FiredOnTime ==
  [][\A k \in Kinds : \A l \in clocks'[k].fired \ clocks[k].fired :
       spent'[k] >= Goals[k][clocks'[k].target][l]]_vars

Late(c) == c.state = "running" /\ Reached(c, "due", c.at.due)

\* The sweep catches up: a rebuild asked for is made, and a clock running past its due time is
\* marked breached, or stops, or gets a later due time (sweep).
SweepCatchesUp ==
  /\ rebuild ~> ~rebuild
  /\ Late(clocks.response) ~> ~Late(clocks.response)
  /\ Late(clocks.resolution) ~> ~Late(clocks.resolution)
=============================================================================
