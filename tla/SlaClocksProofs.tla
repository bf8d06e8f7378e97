-------------------------- MODULE SlaClocksProofs --------------------------
(***************************************************************************)
(* Proofs about SlaClocks, for any business time, targets, bounds, and     *)
(* interleaving of the sweep, the managers and the ticket.                 *)
(*                                                                         *)
(* Whatever is done to a clock at a moment leaves the business time it     *)
(* shows at that moment (Works), so the time it shows is the time it       *)
(* counted; and no level of a counting clock has a moment before its       *)
(* target's business time is counted (OnTime), so it fires on time.        *)
(* Rebuilds replay a record of any length: induction over it is by the     *)
(* least counterexample (Least, ReplayedThrough).                          *)
(*                                                                         *)
(* The clocks follow the ticket's status (Follows), through every move of  *)
(* it and every replay of its moves, and the resolution clock waits for a  *)
(* reason that somebody is yet to lift (ResolutionWaits).                  *)
(*                                                                         *)
(* Twins are clocks that no later event can tell apart: folded at other    *)
(* moments, but showing the same time.  The record leads to twins of the   *)
(* ticket's clocks (Telling), and a rebuild gives twins of what the record *)
(* leads to, so it gives the ticket the clocks it has.                     *)
(***************************************************************************)
EXTENDS SlaClocks, WellFoundedInduction, TLAPS

Moments == 0 .. MaxTime

\* The clocks of the ticket, each of its kind.
ClocksOK(cs) ==
  cs \in Clocks /\ cs.response.kind = "response" /\ cs.resolution.kind = "resolution"

\* From a level's moment on, the business time counted has reached that level.
OnTime(c) ==
  \A l \in Levels, t \in Moments :
    c.at[l] # Never /\ c.at[l] <= t /\ c.asOf <= t =>
      c.elapsed + Worked[t] - Worked[c.asOf] >= Goals[c.kind][c.target][l]

Timed(c, at) == Counting(c) => c.asOf <= at /\ OnTime(c)

\* What is done at `at` makes d of the clock c.
Works(c, d, at) ==
  /\ d \in Clock /\ d.kind = c.kind /\ d.fired = c.fired
  /\ ElapsedAt(d, at) = ElapsedAt(c, at)
  /\ Timed(c, at) => Timed(d, at)

-----------------------------------------------------------------------------
(* The least natural number of a set *)

Before == {ss \in Nat \X Nat : ss[1] < ss[2]}

LEMMA BeforeIsWellFounded == IsWellFoundedOn(Before, Nat)
<1>1. OpToRel(<, Nat) = Before
  BY Zenon DEF OpToRel, Before
<1> QED
  BY <1>1, NatLessThanWellFounded, Zenon

LEMMA Least ==
  ASSUME NEW S, S \subseteq Nat, S # {}
  PROVE  \E n \in S : \A m \in S : n <= m
<1>1. PICK n \in S : \A m \in S : ~(<<m, n>> \in Before)
  BY BeforeIsWellFounded, WFMin, Zenon
<1>2. \A m \in S : ~(m < n)
  BY <1>1 DEF Before
<1> QED
  BY <1>2

-----------------------------------------------------------------------------
(* One clock *)

\* What the assumptions say of moments.
LEMMA MomentsType ==
  ASSUME NEW t \in Moments
  PROVE  t \in Times /\ t \in Nat /\ Worked[t] \in Nat
BY TimeAssumption DEF Moments

LEMMA WorkedGrows ==
  ASSUME NEW s \in Times, NEW t \in Times, s <= t
  PROVE  Worked[s] <= Worked[t] /\ Worked[s] \in Nat /\ Worked[t] \in Nat
BY TimeAssumption

\* AddTime finds the moment it looks for.
LEMMA AddTimeIs ==
  ASSUME NEW at \in Moments, NEW units \in Int, NEW goal \in Nat, units <= goal,
         \E u \in Times : u >= at /\ Worked[u] - Worked[at] >= goal
  PROVE  /\ AddTime(at, units) \in Times /\ AddTime(at, units) >= at
         /\ Worked[AddTime(at, units)] - Worked[at] >= units
         /\ \A u \in Times : u >= at /\ Worked[u] - Worked[at] >= units =>
              AddTime(at, units) <= u
<1>1. at \in Times /\ at \in Nat /\ Worked[at] \in Nat
  BY MomentsType
<1>2. CASE units <= 0
  BY <1>1, <1>2 DEF AddTime
<1>3. CASE ~(units <= 0)
  <2> DEFINE late == {u \in Times : u >= at /\ Worked[u] - Worked[at] >= units}
  <2>1. late \subseteq Nat /\ late # {}
    <3>1. PICK u \in Times : u >= at /\ Worked[u] - Worked[at] >= goal
      OBVIOUS
    <3>2. Worked[u] \in Nat /\ Times \subseteq Nat
      BY TimeAssumption
    <3>3. Worked[u] - Worked[at] >= units
      BY <1>1, <3>1, <3>2
    <3> QED
      BY <3>1, <3>2, <3>3
  <2>2. AddTime(at, units) = CHOOSE u \in late : \A v \in late : u <= v
    BY <1>3 DEF AddTime
  <2>3. AddTime(at, units) \in late /\ \A u \in late : AddTime(at, units) <= u
    <3> HIDE DEF late
    <3> QED
      BY <2>1, <2>2, Least
  <2> QED
    BY <2>3
<1> QED
  BY <1>2, <1>3

LEMMA ElapsedType ==
  ASSUME NEW c \in Clock, NEW at \in Moments
  PROVE  ElapsedAt(c, at) \in Nat
<1>1. c.asOf \in Moments /\ c.elapsed \in Nat
  BY DEF Clock, Moments
<1>2. CASE c.asOf < at
  BY <1>1, <1>2, MomentsType, WorkedGrows DEF ElapsedAt
<1> QED
  BY <1>1, <1>2 DEF ElapsedAt

LEMMA FoldIs ==
  ASSUME NEW c \in Clock, NEW at \in Moments
  PROVE  /\ Fold(c, at) \in Clock
         /\ Fold(c, at).elapsed = ElapsedAt(c, at) /\ Fold(c, at).asOf = at
         /\ Fold(c, at).kind = c.kind /\ Fold(c, at).state = c.state
         /\ Fold(c, at).started = c.started /\ Fold(c, at).target = c.target
         /\ Fold(c, at).at = c.at /\ Fold(c, at).fired = c.fired
<1> DEFINE e == ElapsedAt(c, at)
<1>1. e \in Nat
  BY ElapsedType
<1>2. Fold(c, at) = [c EXCEPT !.elapsed = e, !.asOf = at]
  BY DEF Fold
<1> HIDE DEF e
<1>3. Fold(c, at).elapsed = e
  BY <1>2 DEF Clock
<1> QED
  BY <1>1, <1>2, <1>3 DEF Clock, Moments, e

\* The time a level asks for is a time, and is reached some day.
LEMMA GoalIs ==
  ASSUME NEW c \in Clock, NEW at \in Moments, NEW l \in Levels
  PROVE  /\ Goals[c.kind][c.target][l] \in Nat
         /\ \E u \in Times : u >= at /\ Worked[u] - Worked[at] >= Goals[c.kind][c.target][l]
<1> DEFINE goal == Goals[c.kind][c.target][l]
<1>1. c.kind \in Kinds /\ c.target \in Targets
  BY DEF Clock
<1>2. Goals[c.kind][c.target] \in [warn: Nat, due: Nat, escalate: Nat]
  BY <1>1, GoalAssumption
<1>3. LET g == Goals[c.kind][c.target]
      IN \A units \in {g.warn, g.due, g.escalate} :
           \E u \in Times : u >= at /\ Worked[u] - Worked[at] >= units
  BY <1>1, GoalAssumption DEF Moments
<1>4. goal \in {Goals[c.kind][c.target].warn, Goals[c.kind][c.target].due,
                Goals[c.kind][c.target].escalate}
  BY DEF Levels
<1> QED
  BY <1>2, <1>3, <1>4

\* The moment of a level is one, and the level's business time is counted by then.
LEMMA LevelTimeIs ==
  ASSUME NEW c \in Clock, NEW at \in Moments, NEW l \in Levels, NEW elapsed \in Nat,
         NEW time, time = LevelTime(c.at[l], Goals[c.kind][c.target][l] - elapsed, at)
  PROVE  /\ time \in Dues
         /\ \A t \in Moments : time <= t /\ at <= t =>
              elapsed + Worked[t] - Worked[at] >= Goals[c.kind][c.target][l]
<1> DEFINE goal == Goals[c.kind][c.target][l]
           rest == goal - elapsed
<1>1. /\ goal \in Nat
      /\ \E u \in Times : u >= at /\ Worked[u] - Worked[at] >= goal
  BY GoalIs
<1>2. rest \in Int /\ rest <= goal
  BY <1>1
<1>3. c.at[l] \in Dues
  BY DEF Clock, Levels
<1>4. \A t \in Moments : at <= t => Worked[at] <= Worked[t] /\ Worked[t] \in Nat
                                    /\ Worked[at] \in Nat
  BY MomentsType, WorkedGrows
<1>5. CASE rest <= 0 /\ c.at[l] # Never /\ c.at[l] <= at
  BY <1>1, <1>2, <1>3, <1>4, <1>5 DEF LevelTime
<1>6. CASE ~(rest <= 0 /\ c.at[l] # Never /\ c.at[l] <= at)
  <2>1. time = AddTime(at, rest)
    BY <1>6 DEF LevelTime
  <2>2. time \in Times /\ time >= at /\ Worked[time] - Worked[at] >= rest
    BY <1>1, <1>2, <2>1, AddTimeIs
  <2>3. \A t \in Moments : time <= t => Worked[time] <= Worked[t] /\ Worked[t] \in Nat
                                        /\ Worked[time] \in Nat /\ Worked[at] \in Nat
    BY <2>2, MomentsType, WorkedGrows
  <2> HIDE DEF goal
  <2>4. ASSUME NEW t \in Moments, time <= t, at <= t
        PROVE  elapsed + Worked[t] - Worked[at] >= goal
    <3>1. PICK a \in Nat, b \in Nat, x \in Nat : a = Worked[at] /\ b = Worked[time] /\ x = Worked[t]
      BY <2>3, <2>4
    <3>2. b - a >= goal - elapsed /\ b <= x
      BY <2>2, <2>3, <2>4, <3>1
    <3>3. elapsed + x - a >= goal
      BY <1>1, <3>2
    <3> QED
      BY <3>1, <3>3
  <2> QED
    BY <2>2, <2>4 DEF Dues, goal
<1> QED
  BY <1>5, <1>6


LEMMA RecomputeIs ==
  ASSUME NEW c \in Clock, NEW at \in Moments
  PROVE  /\ Recompute(c, at) \in Clock
         /\ Recompute(c, at).elapsed = ElapsedAt(c, at) /\ Recompute(c, at).asOf = at
         /\ Recompute(c, at).kind = c.kind /\ Recompute(c, at).state = c.state
         /\ Recompute(c, at).target = c.target /\ Recompute(c, at).fired = c.fired
         /\ Recompute(c, at).started = c.started
         /\ Recompute(c, at).at.due =
              LevelTime(c.at.due, Goals[c.kind][c.target].due - ElapsedAt(c, at), at)
         /\ OnTime(Recompute(c, at))
<1> DEFINE f == Fold(c, at)
           goal == Goals[c.kind][c.target]
           time(l) == LevelTime(f.at[l], goal[l] - f.elapsed, at)
           warn == time("warn")
           due == time("due")
           escalate == time("escalate")
           times == [warn |-> warn, due |-> due, escalate |-> escalate]
           new == Recompute(c, at)
<1>1. /\ f \in Clock /\ f.elapsed = ElapsedAt(c, at) /\ f.asOf = at /\ f.kind = c.kind
      /\ f.state = c.state /\ f.target = c.target /\ f.fired = c.fired /\ f.elapsed \in Nat
      /\ f.started = c.started /\ f.at = c.at
  BY FoldIs, ElapsedType
<1>2. \A l \in Levels :
        /\ time(l) \in Dues
        /\ \A t \in Moments : time(l) <= t /\ at <= t =>
             f.elapsed + Worked[t] - Worked[at] >= goal[l]
  <2> HIDE DEF f
  <2> QED
    BY <1>1, LevelTimeIs
<1>3. new = [f EXCEPT !.at = times]
  <2>1. new = [f EXCEPT !.at = [warn |-> LevelTime(@.warn, goal.warn - f.elapsed, at),
                                due |-> LevelTime(@.due, goal.due - f.elapsed, at),
                                escalate |-> LevelTime(@.escalate, goal.escalate - f.elapsed, at)]]
    BY DEF Recompute
  <2> HIDE DEF f, goal
  <2> QED
    BY <1>1, <2>1 DEF Clock
<1>4. times \in [warn: Dues, due: Dues, escalate: Dues]
  <2> HIDE DEF time
  <2> QED
    BY <1>2 DEF Levels
<1>5. times["warn"] = warn /\ times["due"] = due /\ times["escalate"] = escalate
  OBVIOUS
<1>6. \A l \in Levels : times[l] = time(l)
  <2> HIDE DEF times, time
  <2> QED
    BY <1>5 DEF Levels
<1> HIDE DEF f
<1>9. times.due = LevelTime(c.at.due, Goals[c.kind][c.target].due - ElapsedAt(c, at), at)
  BY <1>1
<1> HIDE DEF times, new, time
<1>7. /\ new \in Clock /\ new.elapsed = f.elapsed /\ new.asOf = at /\ new.kind = c.kind
      /\ new.state = c.state /\ new.target = c.target /\ new.fired = c.fired
      /\ new.at = times /\ new.started = c.started
  BY <1>1, <1>3, <1>4 DEF Clock
<1>8. OnTime(new)
  BY <1>2, <1>6, <1>7 DEF OnTime
<1> QED
  BY <1>1, <1>7, <1>8, <1>9 DEF new

\* A clock that is not counting shows what it has.
LEMMA StillElapsed ==
  ASSUME NEW c, ~Counting(c), NEW at
  PROVE  ElapsedAt(c, at) = c.elapsed
BY DEF ElapsedAt

\* One brought up to date at `at` shows what it has.
LEMMA FreshElapsed ==
  ASSUME NEW c \in Clock, NEW at \in Moments, c.asOf = at
  PROVE  ElapsedAt(c, at) = c.elapsed
BY MomentsType DEF ElapsedAt

LEMMA RecomputeWorks ==
  ASSUME NEW c \in Clock, NEW at \in Moments
  PROVE  Works(c, Recompute(c, at), at) /\ Timed(Recompute(c, at), at)
<1>1. at <= at
  BY MomentsType
<1> QED
  BY <1>1, RecomputeIs, FreshElapsed DEF Works, Timed

LEMMA WorksSame ==
  ASSUME NEW c \in Clock, NEW at
  PROVE  Works(c, c, at)
BY DEF Works

LEMMA WorksThrough ==
  ASSUME NEW c, NEW d, NEW e, NEW at, Works(c, d, at), Works(d, e, at)
  PROVE  Works(c, e, at)
BY DEF Works

\* A clock that is folded and stops counting.
LEMMA StopWorks ==
  ASSUME NEW c \in Clock, NEW at \in Moments, NEW d \in Clock, d.kind = c.kind,
         d.fired = c.fired, d.elapsed = ElapsedAt(c, at), d.state \notin CountingStates
  PROVE  Works(c, d, at)
<1>1. ~Counting(d)
  BY DEF Counting
<1> QED
  BY <1>1, StillElapsed DEF Works, Timed

LEMMA PauseWorks ==
  ASSUME NEW c \in Clock, NEW at \in Moments
  PROVE  /\ Works(c, Pause(c, at), at) /\ Pause(c, at).state = "paused"
         /\ Pause(c, at).started = c.started /\ Pause(c, at).target = c.target
         /\ Pause(c, at).elapsed = ElapsedAt(c, at) /\ Pause(c, at).at = Unset
<1> DEFINE f == Fold(c, at)
           d == Pause(c, at)
           paused == "paused"
<1>1. /\ f \in Clock /\ f.elapsed = ElapsedAt(c, at) /\ f.kind = c.kind /\ f.fired = c.fired
      /\ f.started = c.started /\ f.target = c.target
  BY FoldIs
<1>2. Unset \in [warn: Dues, due: Dues, escalate: Dues]
  BY DEF Unset, Dues
<1>3. paused \in ClockStates /\ paused \notin CountingStates
  BY DEF ClockStates, OpenStates, CountingStates
<1>4. d = [f EXCEPT !.state = paused, !.at = Unset]
  BY DEF Pause
<1> HIDE DEF d, f, paused
<1>5. d \in Clock /\ d.elapsed = f.elapsed /\ d.kind = f.kind /\ d.fired = f.fired
      /\ d.state = paused /\ d.started = f.started /\ d.target = f.target /\ d.at = Unset
  BY <1>1, <1>2, <1>3, <1>4 DEF Clock
<1>6. Works(c, d, at)
  BY <1>1, <1>3, <1>5, StopWorks
<1> QED
  BY <1>1, <1>5, <1>6 DEF d, paused

LEMMA FinishWorks ==
  ASSUME NEW c \in Clock, NEW at \in Moments, NEW final \in {"met", "cancelled"}
  PROVE  /\ Works(c, Finish(c, final, at), at) /\ Finish(c, final, at).state = final
         /\ Finish(c, final, at).started = c.started /\ Finish(c, final, at).target = c.target
         /\ Finish(c, final, at).elapsed = ElapsedAt(c, at)
         /\ Finish(c, final, at).at.due = c.at.due
<1> DEFINE f == Fold(c, at)
           d == Finish(c, final, at)
           due == c.at.due
           times == [Unset EXCEPT !.due = due]
<1>1. /\ f \in Clock /\ f.elapsed = ElapsedAt(c, at) /\ f.kind = c.kind /\ f.fired = c.fired
      /\ f.started = c.started /\ f.target = c.target
  BY FoldIs
<1>2. due \in Dues
  BY DEF Clock
<1>3. times = [warn |-> Never, due |-> due, escalate |-> Never]
  BY DEF Unset
<1>4. times \in [warn: Dues, due: Dues, escalate: Dues]
  BY <1>2, <1>3 DEF Dues
<1>5. final \in ClockStates /\ final \notin CountingStates
  BY DEF ClockStates, OpenStates, CountingStates
<1>9. times.due = due
  BY <1>3
<1>6. d = [f EXCEPT !.state = final, !.at = times]
  BY DEF Finish
<1> HIDE DEF d, f, times
<1>7. d \in Clock /\ d.elapsed = f.elapsed /\ d.kind = f.kind /\ d.fired = f.fired
      /\ d.state = final /\ d.started = f.started /\ d.target = f.target /\ d.at = times
  BY <1>1, <1>4, <1>5, <1>6 DEF Clock
<1>8. Works(c, d, at)
  BY <1>1, <1>5, <1>7, StopWorks
<1> QED
  BY <1>1, <1>7, <1>8, <1>9 DEF d

\* One that was not counting counts again from `at` on.
LEMMA ResumeWorks ==
  ASSUME NEW c \in Clock, NEW at \in Moments, ~Counting(c)
  PROVE  /\ Works(c, Resume(c, at), at) /\ Timed(Resume(c, at), at)
         /\ Resume(c, at).state \in CountingStates /\ Resume(c, at).asOf = at
         /\ Resume(c, at).started = c.started /\ Resume(c, at).target = c.target
         /\ Resume(c, at).elapsed = c.elapsed
         /\ Resume(c, at).at.due =
              LevelTime(c.at.due, Goals[c.kind][c.target].due - c.elapsed, at)
<1> DEFINE state == Running(c)
           r == [c EXCEPT !.state = state, !.asOf = at]
<1>1. state \in CountingStates /\ state \in ClockStates
  BY DEF Running, CountingStates, ClockStates, OpenStates
<1> HIDE DEF state
<1>2. /\ r \in Clock /\ r.kind = c.kind /\ r.fired = c.fired /\ r.elapsed = c.elapsed
      /\ r.asOf = at /\ r.state = state /\ r.started = c.started /\ r.target = c.target
      /\ r.at = c.at
  BY <1>1 DEF Clock, Moments
<1>3. Resume(c, at) = Recompute(r, at)
  BY DEF Resume, state
<1> HIDE DEF r
<1>4. ElapsedAt(r, at) = ElapsedAt(c, at) /\ ElapsedAt(r, at) = c.elapsed
  BY <1>2, FreshElapsed, StillElapsed
<1>5. Works(r, Recompute(r, at), at) /\ Timed(Recompute(r, at), at)
      /\ Recompute(r, at).state = state /\ Recompute(r, at).asOf = at
      /\ Recompute(r, at).started = r.started /\ Recompute(r, at).target = r.target
      /\ Recompute(r, at).elapsed = ElapsedAt(r, at)
      /\ Recompute(r, at).at.due =
           LevelTime(r.at.due, Goals[r.kind][r.target].due - ElapsedAt(r, at), at)
  BY <1>2, RecomputeWorks, RecomputeIs
<1> QED
  BY <1>1, <1>2, <1>3, <1>4, <1>5 DEF Works

LEMMA StartedIs ==
  ASSUME NEW k \in Kinds, NEW at \in Moments, NEW p \in Priorities
  PROVE  /\ Started(k, at, p) \in Clock /\ Started(k, at, p).kind = k
         /\ Started(k, at, p).fired = {} /\ Started(k, at, p).state = "running"
         /\ ElapsedAt(Started(k, at, p), at) = 0 /\ Timed(Started(k, at, p), at)
<1> DEFINE a == Absent(k)
           running == "running"
           s == [a EXCEPT !.state = running, !.started = at, !.asOf = at, !.target = p]
<1>1. Started(k, at, p) = Recompute(s, at)
  BY DEF Started
<1>2. /\ a \in Clock /\ a.kind = k /\ a.fired = {} /\ a.elapsed = 0
      /\ running \in ClockStates /\ running = "running" /\ p \in Targets
  <2>1. 0 \in 0 .. MaxTime
    BY TimeAssumption
  <2> QED
    BY <2>1 DEF Absent, Clock, Unset, Dues, ClockStates, OpenStates, CountingStates, Targets,
                Priorities
<1> HIDE DEF a, running
<1>3. /\ s \in Clock /\ s.kind = k /\ s.fired = {} /\ s.state = running /\ s.elapsed = 0
      /\ s.asOf = at
  BY <1>2 DEF Clock, Moments
<1> HIDE DEF s
<1>4. ElapsedAt(s, at) = 0
  BY <1>3, FreshElapsed
<1> QED
  BY <1>1, <1>2, <1>3, <1>4, RecomputeIs, RecomputeWorks DEF Works

-----------------------------------------------------------------------------
(* Both clocks *)

BothWork(cs, ds, at) ==
  /\ ClocksOK(ds)
  /\ Works(cs.response, ds.response, at) /\ Works(cs.resolution, ds.resolution, at)

Alive(c) == c.state \notin {"absent", "cancelled"}

\* What lives goes on to.
Lasts(cs, ds) ==
  /\ Alive(cs.response) => Alive(ds.response)
  /\ Alive(cs.resolution) => Alive(ds.resolution)

LEMMA ClocksType ==
  ASSUME NEW cs, ClocksOK(cs)
  PROVE  /\ cs.response \in Clock /\ cs.resolution \in Clock
         /\ cs = [response |-> cs.response, resolution |-> cs.resolution]
BY DEF ClocksOK, Clocks

LEMMA PairWorks ==
  ASSUME NEW cs, ClocksOK(cs), NEW r, NEW s, NEW at, NEW ds,
         Works(cs.response, r, at), Works(cs.resolution, s, at),
         ds = [response |-> r, resolution |-> s]
  PROVE  BothWork(cs, ds, at) /\ ds.response = r /\ ds.resolution = s
<1>1. r \in Clock /\ s \in Clock /\ r.kind = "response" /\ s.kind = "resolution"
  BY DEF Works, ClocksOK
<1>2. ds.response = r /\ ds.resolution = s /\ ds \in Clocks
  BY <1>1 DEF Clocks
<1> QED
  BY <1>1, <1>2 DEF BothWork, ClocksOK

LEMMA BothThrough ==
  ASSUME NEW cs, NEW ds, NEW es, NEW at, BothWork(cs, ds, at), BothWork(ds, es, at),
         Lasts(cs, ds), Lasts(ds, es)
  PROVE  BothWork(cs, es, at) /\ Lasts(cs, es)
BY WorksThrough DEF BothWork, Lasts

LEMMA BothSame ==
  ASSUME NEW cs, ClocksOK(cs), NEW at
  PROVE  BothWork(cs, cs, at) /\ Lasts(cs, cs)
BY ClocksType, WorksSame DEF BothWork, Lasts

LEMMA RespondWorks ==
  ASSUME NEW cs, ClocksOK(cs), NEW at \in Moments
  PROVE  /\ BothWork(cs, Respond(cs, at), at) /\ Lasts(cs, Respond(cs, at))
         /\ Respond(cs, at).resolution = cs.resolution
<1>1. CASE Open(cs.response)
  <2> DEFINE met == Finish(cs.response, "met", at)
  <2>1. Works(cs.response, met, at) /\ met.state = "met"
    BY ClocksType, FinishWorks
  <2>2. Works(cs.resolution, cs.resolution, at)
    BY ClocksType, WorksSame
  <2> HIDE DEF met
  <2>3. Respond(cs, at) = [cs EXCEPT !.response = met]
    BY <1>1 DEF Respond, met
  <2>4. Respond(cs, at) = [response |-> met, resolution |-> cs.resolution]
    BY <2>3, ClocksType
  <2>5. /\ BothWork(cs, Respond(cs, at), at)
        /\ Respond(cs, at).response = met /\ Respond(cs, at).resolution = cs.resolution
    BY <2>1, <2>2, <2>4, PairWorks
  <2> QED
    BY <2>1, <2>5 DEF Lasts, Alive
<1>2. CASE ~Open(cs.response)
  BY <1>2, BothSame DEF Respond
<1> QED
  BY <1>1, <1>2

LEMMA SettledWorks ==
  ASSUME NEW cs, ClocksOK(cs), NEW at \in Moments, NEW final \in {"met", "cancelled"}
  PROVE  /\ BothWork(cs, Settled(cs, final, at), at)
         /\ final = "met" => Lasts(cs, Settled(cs, final, at))
<1> DEFINE done(c) == IF Open(c) THEN Finish(c, final, at) ELSE c
           ds == Settled(cs, final, at)
<1>1. ds = [response |-> done(cs.response), resolution |-> done(cs.resolution)]
  BY DEF Settled, Each
<1>2. \A c \in Clock : /\ Works(c, done(c), at)
                       /\ final = "met" /\ Alive(c) => Alive(done(c))
  BY FinishWorks, WorksSame DEF Alive
<1> HIDE DEF done, ds
<1>3. BothWork(cs, ds, at) /\ ds.response = done(cs.response)
      /\ ds.resolution = done(cs.resolution)
  BY <1>1, <1>2, ClocksType, PairWorks
<1> QED
  BY <1>2, <1>3, ClocksType DEF Lasts, ds

\* Clocks that start at `at`, or those there are.
LEMMA OrStartedIs ==
  ASSUME NEW cs, ClocksOK(cs), NEW after, NEW at \in Moments, NEW p,
         Starts(cs, after) => p \in Priorities
  PROVE  /\ ClocksOK(OrStarted(cs, after, at, p))
         /\ Starts(cs, after) =>
              LET ds == OrStarted(cs, after, at, p)
              IN /\ ds.response = Started("response", at, p)
                 /\ ds.resolution = Started("resolution", at, p)
         /\ ~Starts(cs, after) => OrStarted(cs, after, at, p) = cs
<1>1. CASE Starts(cs, after)
  <2> DEFINE r == Started("response", at, p)
             s == Started("resolution", at, p)
             ds == OrStarted(cs, after, at, p)
  <2>1. r \in Clock /\ s \in Clock /\ r.kind = "response" /\ s.kind = "resolution"
    BY <1>1, StartedIs DEF Kinds
  <2>2. ds = [response |-> r, resolution |-> s]
    BY <1>1 DEF OrStarted
  <2> HIDE DEF r, s, ds
  <2>3. ds.response = r /\ ds.resolution = s /\ ClocksOK(ds)
    BY <2>1, <2>2 DEF ClocksOK, Clocks
  <2> QED
    BY <1>1, <2>3 DEF r, s, ds
<1>2. CASE ~Starts(cs, after)
  BY <1>2 DEF OrStarted
<1> QED
  BY <1>1, <1>2

\* A status entered works the clocks it finds or starts.
LEMMA ApplyWorks ==
  ASSUME NEW cs, ClocksOK(cs), NEW before, NEW after, NEW at \in Moments,
         NEW staff \in BOOLEAN, NEW held \in BOOLEAN, NEW p,
         Starts(cs, after) => p \in Priorities
  PROVE  /\ BothWork(OrStarted(cs, after, at, p),
                     Apply(cs, before, after, at, staff, held, p), at)
         /\ after # "backlog" => Lasts(OrStarted(cs, after, at, p),
                                       Apply(cs, before, after, at, staff, held, p))
<1> DEFINE begun == OrStarted(cs, after, at, p)
           answered == IF staff /\ Live(begun) THEN Respond(begun, at) ELSE begun
           reopened == Resume(answered.resolution, at)
           again == IF answered.resolution.state = "met"
                    THEN [answered EXCEPT !.resolution = reopened] ELSE answered
           paused(c) == c.state = "paused" /\ ~(held /\ c.kind = "resolution")
           waits(c) == IF Counting(c) THEN Pause(c, at) ELSE c
           runs(c) == IF paused(c) THEN Resume(c, at) ELSE c
           waited == [response |-> waits(again.response), resolution |-> waits(again.resolution)]
           ran == [response |-> runs(again.response), resolution |-> runs(again.resolution)]
           new == Apply(cs, before, after, at, staff, held, p)
<1>1. ClocksOK(begun)
  BY OrStartedIs
<1>2. BothWork(begun, answered, at) /\ Lasts(begun, answered) /\ ClocksOK(answered)
  <2> HIDE DEF begun
  <2> QED
    BY <1>1, RespondWorks, BothSame DEF BothWork
<1>3. BothWork(begun, again, at) /\ Lasts(begun, again) /\ ClocksOK(again)
  <2> HIDE DEF begun, answered
  <2>1. CASE answered.resolution.state = "met"
    <3>1. ~Counting(answered.resolution) /\ answered.resolution \in Clock
      BY <1>2, <2>1, ClocksType DEF Counting, CountingStates
    <3>2. Works(answered.resolution, reopened, at) /\ reopened.state \in CountingStates
      BY <3>1, ResumeWorks
    <3>3. Works(answered.response, answered.response, at)
      BY <1>2, ClocksType, WorksSame
    <3> HIDE DEF reopened
    <3>4. again = [response |-> answered.response, resolution |-> reopened]
      BY <1>2, <2>1, ClocksType
    <3> HIDE DEF again
    <3>5. BothWork(answered, again, at) /\ again.response = answered.response
          /\ again.resolution = reopened
      BY <1>2, <3>2, <3>3, <3>4, PairWorks
    <3>6. Lasts(answered, again)
      BY <3>2, <3>5 DEF Lasts, Alive, CountingStates
    <3> QED
      BY <1>2, <3>5, <3>6, BothThrough DEF BothWork
  <2>2. CASE answered.resolution.state # "met"
    BY <1>2, <2>2
  <2> QED
    BY <2>1, <2>2
<1>4. \A c \in Clock : /\ Works(c, waits(c), at) /\ (Alive(c) => Alive(waits(c)))
                       /\ Works(c, runs(c), at) /\ (Alive(c) => Alive(runs(c)))
  <2>1. ASSUME NEW c \in Clock
        PROVE Works(c, waits(c), at) /\ (Alive(c) => Alive(waits(c)))
    BY PauseWorks, WorksSame DEF Alive
  <2>2. ASSUME NEW c \in Clock
        PROVE Works(c, runs(c), at) /\ (Alive(c) => Alive(runs(c)))
    <3>1. CASE paused(c)
      <4>1. ~Counting(c)
        BY <3>1 DEF Counting, CountingStates
      <4>2. Works(c, Resume(c, at), at) /\ Resume(c, at).state \in CountingStates
        BY <4>1, ResumeWorks
      <4> QED
        BY <3>1, <4>2 DEF Alive, CountingStates
    <3>2. CASE ~paused(c)
      BY <3>2, WorksSame
    <3> QED
      BY <3>1, <3>2
  <2> QED
    BY <2>1, <2>2
<1>5. again.response \in Clock /\ again.resolution \in Clock
  <2> HIDE DEF again
  <2> QED
    BY <1>3, ClocksType
<1>6. BothWork(begun, waited, at) /\ Lasts(begun, waited)
  <2> HIDE DEF begun, again, waits
  <2>1. BothWork(again, waited, at) /\ Lasts(again, waited)
    BY <1>3, <1>4, <1>5, PairWorks DEF Lasts
  <2> QED
    BY <1>3, <2>1, BothThrough
<1>7. BothWork(begun, ran, at) /\ Lasts(begun, ran)
  <2> HIDE DEF begun, again, runs
  <2>1. BothWork(again, ran, at) /\ Lasts(again, ran)
    BY <1>3, <1>4, <1>5, PairWorks DEF Lasts
  <2> QED
    BY <1>3, <2>1, BothThrough
<1>8. CASE after = "backlog"
  <2>1. new = Settled(cs, "cancelled", at)
    BY <1>8 DEF Apply
  <2>2. begun = cs
    BY <1>8, OrStartedIs DEF Starts
  <2> HIDE DEF begun, new
  <2> QED
    BY <1>8, <2>1, <2>2, SettledWorks DEF begun, new
<1>9. CASE after = "completed"
  <2>1. new = Settled(answered, "met", at)
    BY <1>9 DEF Apply
  <2>2. BothWork(answered, new, at) /\ Lasts(answered, new)
    <3> HIDE DEF answered, new
    <3> QED
      BY <1>2, <2>1, SettledWorks
  <2>3. BothWork(begun, new, at) /\ Lasts(begun, new)
    <3> HIDE DEF begun, answered, new
    <3> QED
      BY <1>2, <2>2, BothThrough
  <2> QED
    BY <2>3
<1>10. CASE after # "backlog" /\ after # "completed"
  <2>1. \/ new = waited \/ new = ran \/ new = again
    BY <1>10 DEF Apply, Each
  <2>2. BothWork(begun, new, at) /\ Lasts(begun, new)
    <3> HIDE DEF begun, waited, ran, again, new
    <3> QED
      BY <1>3, <1>6, <1>7, <2>1
  <2> QED
    BY <2>2
<1> QED
  BY <1>8, <1>9, <1>10

-----------------------------------------------------------------------------
(* The states of the clocks *)

\* Running and breached clocks are alike: both count.
Alike(c, d) == d.state = c.state \/ (Counting(c) /\ Counting(d))

LEMMA RespondStates ==
  ASSUME NEW cs, ClocksOK(cs), NEW at \in Moments, NEW ds, ds = Respond(cs, at)
  PROVE  /\ ClocksOK(ds) /\ ds.resolution = cs.resolution
         /\ Open(cs.response) => ds.response.state = "met"
         /\ ~Open(cs.response) => ds.response = cs.response
<1>1. ClocksOK(ds) /\ ds.resolution = cs.resolution
  BY RespondWorks DEF BothWork
<1>2. CASE Open(cs.response)
  <2> DEFINE met == Finish(cs.response, "met", at)
  <2>1. met.state = "met"
    BY ClocksType, FinishWorks
  <2> HIDE DEF met
  <2>2. ds = [cs EXCEPT !.response = met]
    BY <1>2 DEF Respond, met
  <2>3. ds = [response |-> met, resolution |-> cs.resolution]
    BY <2>2, ClocksType
  <2> QED
    BY <1>1, <1>2, <2>1, <2>3
<1>3. CASE ~Open(cs.response)
  BY <1>1, <1>3 DEF Respond
<1> QED
  BY <1>2, <1>3

LEMMA SettledStates ==
  ASSUME NEW cs, ClocksOK(cs), NEW at \in Moments, NEW final \in {"met", "cancelled"}, NEW ds,
         ds = Settled(cs, final, at)
  PROVE  /\ ~Open(ds.response) /\ ~Open(ds.resolution)
         /\ ~Open(cs.response) => ds.response = cs.response
         /\ ~Open(cs.resolution) => ds.resolution = cs.resolution
<1> DEFINE done(c) == IF Open(c) THEN Finish(c, final, at) ELSE c
<1>1. ds = [response |-> done(cs.response), resolution |-> done(cs.resolution)]
  BY DEF Settled, Each
<1>2. \A c \in Clock : ~Open(done(c)) /\ (~Open(c) => done(c) = c)
  BY FinishWorks DEF Open, OpenStates, CountingStates
<1> HIDE DEF done
<1>3. ds.response = done(cs.response) /\ ds.resolution = done(cs.resolution)
  BY <1>1
<1> QED
  BY <1>2, <1>3, ClocksType

\* The states a status entered leaves: r and q are the clocks it found, once it has started,
\* answered and reopened them.
LEMMA ApplyStates ==
  ASSUME NEW cs, ClocksOK(cs), NEW before \in StatusClasses, NEW after \in StatusClasses,
         NEW at \in Moments, NEW staff \in BOOLEAN, NEW held \in BOOLEAN, NEW p,
         Starts(cs, after) => p \in Priorities,
         NEW ds, ds = Apply(cs, before, after, at, staff, held, p)
  PROVE  \E r, q \in Clock :
           /\ r.state = "met" \/ r.state = IF Starts(cs, after) THEN "running"
                                           ELSE cs.response.state
           /\ q.state # "met" /\ q.kind = "resolution" /\ r.kind = "response"
           /\ \/ Counting(q) /\ (Starts(cs, after) \/ cs.resolution.state = "met")
              \/ ~Starts(cs, after) /\ q.state = cs.resolution.state
           /\ after \in {"backlog", "completed"} => ~Open(ds.response) /\ ~Open(ds.resolution)
           /\ after = "waiting" /\ before # "waiting" =>
                /\ ds.response.state = IF Counting(r) THEN "paused" ELSE r.state
                /\ ds.resolution.state = IF Counting(q) THEN "paused" ELSE q.state
           /\ after = "active" /\ before = "waiting" =>
                /\ IF r.state = "paused" THEN Counting(ds.response) ELSE ds.response = r
                /\ IF q.state = "paused" /\ ~held THEN Counting(ds.resolution)
                   ELSE ds.resolution = q
           /\ after \in {"active", "waiting"} /\ (after = "waiting" <=> before = "waiting") =>
                ds.response = r /\ ds.resolution = q
<1> DEFINE begun == OrStarted(cs, after, at, p)
           answered == IF staff /\ Live(begun) THEN Respond(begun, at) ELSE begun
           reopened == Resume(answered.resolution, at)
           again == IF answered.resolution.state = "met"
                    THEN [answered EXCEPT !.resolution = reopened] ELSE answered
           paused(c) == c.state = "paused" /\ ~(held /\ c.kind = "resolution")
           waits(c) == IF Counting(c) THEN Pause(c, at) ELSE c
           runs(c) == IF paused(c) THEN Resume(c, at) ELSE c
           waited == [response |-> waits(again.response), resolution |-> waits(again.resolution)]
           ran == [response |-> runs(again.response), resolution |-> runs(again.resolution)]
<1>1. /\ ClocksOK(begun)
      /\ begun.response.state = IF Starts(cs, after) THEN "running" ELSE cs.response.state
      /\ begun.resolution.state = IF Starts(cs, after) THEN "running" ELSE cs.resolution.state
  <2> HIDE DEF begun
  <2>1. CASE Starts(cs, after)
    <3>1. /\ begun.response = Started("response", at, p)
          /\ begun.resolution = Started("resolution", at, p) /\ ClocksOK(begun)
      BY <2>1, OrStartedIs DEF begun
    <3> QED
      BY <2>1, <3>1, StartedIs DEF Kinds
  <2>2. CASE ~Starts(cs, after)
    BY <2>2, OrStartedIs DEF begun
  <2> QED
    BY <2>1, <2>2
<1>2. /\ ClocksOK(answered) /\ answered.resolution = begun.resolution
      /\ answered.response.state \in {"met", begun.response.state}
  <2> HIDE DEF begun
  <2> QED
    BY <1>1, RespondStates
<1>3. /\ ClocksOK(again) /\ again.response = answered.response
      /\ answered.resolution.state = "met" => Counting(again.resolution)
      /\ answered.resolution.state # "met" => again.resolution = answered.resolution
  <2> HIDE DEF begun, answered
  <2>1. CASE answered.resolution.state = "met"
    <3>1. ~Counting(answered.resolution) /\ answered.resolution \in Clock
      BY <1>2, <2>1, ClocksType DEF Counting, CountingStates
    <3>2. /\ Works(answered.resolution, reopened, at) /\ reopened.state \in CountingStates
      BY <3>1, ResumeWorks
    <3>3. Works(answered.response, answered.response, at)
      BY <1>2, ClocksType, WorksSame
    <3> HIDE DEF reopened
    <3>4. again = [response |-> answered.response, resolution |-> reopened]
      BY <1>2, <2>1, ClocksType
    <3> HIDE DEF again
    <3>5. BothWork(answered, again, at) /\ again.response = answered.response
          /\ again.resolution = reopened
      BY <1>2, <3>2, <3>3, <3>4, PairWorks
    <3> QED
      BY <2>1, <3>2, <3>5 DEF BothWork, Counting
  <2>2. CASE answered.resolution.state # "met"
    BY <1>2, <2>2
  <2> QED
    BY <2>1, <2>2
<1> DEFINE r == again.response
           q == again.resolution
<1>4. r \in Clock /\ q \in Clock /\ r.kind = "response" /\ q.kind = "resolution"
  <2> HIDE DEF again
  <2> QED
    BY <1>3, ClocksType DEF ClocksOK
<1>5. /\ r.state = "met" \/ r.state = IF Starts(cs, after) THEN "running" ELSE cs.response.state
      /\ q.state # "met"
      /\ \/ Counting(q) /\ (Starts(cs, after) \/ cs.resolution.state = "met")
         \/ ~Starts(cs, after) /\ q.state = cs.resolution.state
  <2> HIDE DEF begun, answered, again
  <2> QED
    BY <1>1, <1>2, <1>3 DEF Counting, CountingStates
<1>6. after \in {"backlog", "completed"} => ~Open(ds.response) /\ ~Open(ds.resolution)
  <2>1. CASE after = "backlog"
    <3>1. ds = Settled(cs, "cancelled", at)
      BY <2>1 DEF Apply
    <3> QED
      BY <2>1, <3>1, SettledStates
  <2>2. CASE after = "completed"
    <3>1. ds = Settled(answered, "met", at)
      BY <2>2 DEF Apply
    <3> HIDE DEF answered
    <3> QED
      BY <1>2, <2>2, <3>1, SettledStates
  <2> QED
    BY <2>1, <2>2
<1>7. ASSUME after = "waiting", before # "waiting"
      PROVE  /\ ds.response.state = IF Counting(r) THEN "paused" ELSE r.state
             /\ ds.resolution.state = IF Counting(q) THEN "paused" ELSE q.state
  <2>1. ds = waited
    BY <1>7 DEF Apply, Each
  <2>2. \A c \in Clock : waits(c).state = IF Counting(c) THEN "paused" ELSE c.state
    BY PauseWorks
  <2> HIDE DEF again, waits
  <2>3. ds.response = waits(r) /\ ds.resolution = waits(q)
    BY <2>1
  <2> QED
    BY <1>4, <2>2, <2>3
<1>8. ASSUME after = "active", before = "waiting"
      PROVE  /\ IF r.state = "paused" THEN Counting(ds.response) ELSE ds.response = r
             /\ IF q.state = "paused" /\ ~held THEN Counting(ds.resolution)
                ELSE ds.resolution = q
  <2>1. ds = ran
    BY <1>8 DEF Apply, Each
  <2>2. ASSUME NEW c \in Clock
        PROVE  IF paused(c) THEN Counting(runs(c)) ELSE runs(c) = c
    <3>1. CASE paused(c)
      <4>1. ~Counting(c)
        BY <3>1 DEF Counting, CountingStates
      <4>2. Resume(c, at).state \in CountingStates
        BY <4>1, ResumeWorks
      <4> QED
        BY <3>1, <4>2 DEF Counting
    <3> QED
      BY <3>1
  <2> HIDE DEF again, runs
  <2>3. ds.response = runs(r) /\ ds.resolution = runs(q)
    BY <2>1
  <2> QED
    BY <1>4, <2>2, <2>3
<1>9. ASSUME after \in {"active", "waiting"}, after = "waiting" <=> before = "waiting"
      PROVE  ds.response = r /\ ds.resolution = q
  <2>1. ds = again
    BY <1>9 DEF Apply
  <2> QED
    BY <2>1
<1> HIDE DEF r, q, again
<1> QED
  BY <1>4, <1>5, <1>6, <1>7, <1>8, <1>9

-----------------------------------------------------------------------------
(* The clocks of a ticket in a class of statuses *)

\* Nothing is open on a ticket that is done or in triage, the response waits exactly with the
\* ticket, a ticket being worked on has clocks, and its resolution is not met yet.
Follows(cs, class) ==
  /\ class \in {"backlog", "completed"} => ~Open(cs.response) /\ ~Open(cs.resolution)
  /\ cs.response.state = "paused" => class = "waiting"
  /\ class = "waiting" => ~Counting(cs.response)
  /\ class \in {"active", "waiting"} => Live(cs)
  /\ cs.resolution.state = "met" => class \in {"backlog", "completed"}

\* A status entered, by a ticket whose clocks followed the one before.
LEMMA ApplyFollows ==
  ASSUME NEW cs, ClocksOK(cs), NEW before \in StatusClasses, NEW after \in StatusClasses,
         NEW at \in Moments, NEW staff \in BOOLEAN, NEW held \in BOOLEAN, NEW p,
         Starts(cs, after) => p \in Priorities,
         NEW ds, ds = Apply(cs, before, after, at, staff, held, p), Follows(cs, before)
  PROVE  /\ ClocksOK(ds) /\ Follows(ds, after)
         /\ after = "waiting" /\ Counting(ds.resolution) =>
              before = "waiting" /\ Counting(cs.resolution)
         /\ ds.resolution.state = "paused" =>
              \/ after = "waiting"
              \/ cs.resolution.state = "paused" /\ (held \/ before # "waiting")
<1> DEFINE begun == OrStarted(cs, after, at, p)
<1>1. BothWork(begun, ds, at) /\ (after # "backlog" => Lasts(begun, ds))
  BY ApplyWorks
<1>2. after \in {"active", "waiting"} => Live(ds)
  <2>1. CASE Starts(cs, after)
    <3>1. begun.response = Started("response", at, p)
      BY <2>1, OrStartedIs
    <3>2. begun.response.state = "running"
      BY <2>1, <3>1, StartedIs DEF Kinds
    <3> HIDE DEF begun
    <3> QED
      BY <1>1, <3>2 DEF Lasts, Alive, Live
  <2>2. CASE ~Starts(cs, after)
    <3>1. begun = cs
      BY <2>2, OrStartedIs
    <3> HIDE DEF begun
    <3> QED
      BY <1>1, <2>2, <3>1 DEF Starts, Lasts, Alive, Live
  <2> QED
    BY <2>1, <2>2
<1>3. PICK r, q \in Clock :
        /\ r.state = "met" \/ r.state = IF Starts(cs, after) THEN "running"
                                        ELSE cs.response.state
        /\ q.state # "met" /\ q.kind = "resolution" /\ r.kind = "response"
        /\ \/ Counting(q) /\ (Starts(cs, after) \/ cs.resolution.state = "met")
           \/ ~Starts(cs, after) /\ q.state = cs.resolution.state
        /\ after \in {"backlog", "completed"} => ~Open(ds.response) /\ ~Open(ds.resolution)
        /\ after = "waiting" /\ before # "waiting" =>
             /\ ds.response.state = IF Counting(r) THEN "paused" ELSE r.state
             /\ ds.resolution.state = IF Counting(q) THEN "paused" ELSE q.state
        /\ after = "active" /\ before = "waiting" =>
             /\ IF r.state = "paused" THEN Counting(ds.response) ELSE ds.response = r
             /\ IF q.state = "paused" /\ ~held THEN Counting(ds.resolution)
                ELSE ds.resolution = q
        /\ after \in {"active", "waiting"} /\ (after = "waiting" <=> before = "waiting") =>
             ds.response = r /\ ds.resolution = q
  BY ApplyStates
<1>4. ClocksOK(ds)
  BY <1>1 DEF BothWork
<1>5. before = "waiting" => ~Starts(cs, after)
  BY DEF Follows, Starts
<1>6. Counting(q) => q.state # "paused" /\ Open(q)
  BY DEF Counting, CountingStates, Open, OpenStates
<1> HIDE DEF begun
<1>7. CASE after \in {"backlog", "completed"}
  BY <1>3, <1>4, <1>7 DEF Follows, Open, OpenStates, CountingStates, Counting
<1>8. CASE after = "waiting" /\ before # "waiting"
  BY <1>2, <1>3, <1>4, <1>8 DEF Follows, Counting, CountingStates
<1>9. CASE after = "waiting" /\ before = "waiting"
  BY <1>2, <1>3, <1>4, <1>5, <1>9 DEF Follows, Counting, CountingStates
<1>10. CASE after = "active" /\ before = "waiting"
  BY <1>2, <1>3, <1>4, <1>5, <1>6, <1>10 DEF Follows, Counting, CountingStates
<1>11. CASE after = "active" /\ before # "waiting"
  BY <1>2, <1>3, <1>4, <1>6, <1>11 DEF Follows, Counting, CountingStates
<1> QED
  BY <1>7, <1>8, <1>9, <1>10, <1>11 DEF StatusClasses

-----------------------------------------------------------------------------
(* A rebuild *)

\* Clocks that have fired nothing yet.
Unfired(cs) == ClocksOK(cs) /\ cs.response.fired = {} /\ cs.resolution.fired = {}

LEMMA NoClocksUnfired == Unfired(NoClocks)
<1> DEFINE r == Absent("response")
           s == Absent("resolution")
<1>1. r \in Clock /\ s \in Clock /\ r.kind = "response" /\ s.kind = "resolution"
      /\ r.fired = {} /\ s.fired = {}
  <2>1. 0 \in 0 .. MaxTime
    BY TimeAssumption
  <2> QED
    BY <2>1 DEF Absent, Clock, Kinds, ClockStates, Targets, Priorities, Unset, Dues
<1>2. NoClocks = [response |-> r, resolution |-> s]
  BY DEF NoClocks
<1> HIDE DEF r, s
<1>3. NoClocks.response = r /\ NoClocks.resolution = s /\ NoClocks \in Clocks
  BY <1>1, <1>2 DEF Clocks
<1> QED
  BY <1>1, <1>3 DEF Unfired, ClocksOK

LEMMA UnfiredStays ==
  ASSUME NEW cs, Unfired(cs), NEW ds, NEW at, BothWork(cs, ds, at)
  PROVE  Unfired(ds)
BY DEF Unfired, BothWork, Works

LEMMA ApplyUnfired ==
  ASSUME NEW cs, Unfired(cs), NEW before, NEW after, NEW at \in Moments,
         NEW staff \in BOOLEAN, NEW held \in BOOLEAN, NEW p,
         Starts(cs, after) => p \in Priorities
  PROVE  Unfired(Apply(cs, before, after, at, staff, held, p))
<1> DEFINE begun == OrStarted(cs, after, at, p)
           new == Apply(cs, before, after, at, staff, held, p)
<1>1. BothWork(begun, new, at)
  BY ApplyWorks DEF Unfired
<1>2. Unfired(begun)
  BY OrStartedIs, StartedIs DEF Unfired, Kinds
<1> HIDE DEF begun, new
<1>3. Unfired(new)
  BY <1>1, <1>2, UnfiredStays
<1> QED
  BY <1>3 DEF new

\* An event applied to clocks that have fired nothing.
LEMMA EventUnfired ==
  ASSUME NEW cs, Unfired(cs), NEW e \in Event, NEW held \in BOOLEAN, NEW p \in Priorities
  PROVE  Unfired(IF e.kind = "response" THEN Respond(cs, e.at)
                 ELSE Apply(cs, e.before, e.after, e.at, e.staff, held, p))
<1>1. e.at \in Moments
  BY DEF Event, Moments
<1>2. CASE e.kind = "response"
  <2>1. BothWork(cs, Respond(cs, e.at), e.at)
    BY <1>1, RespondWorks DEF Unfired
  <2>2. Unfired(Respond(cs, e.at))
    BY <2>1, UnfiredStays
  <2> QED
    BY <1>2, <2>2
<1>3. CASE e.kind # "response"
  <2>1. e.staff \in BOOLEAN
    BY <1>3 DEF Event
  <2>2. Unfired(Apply(cs, e.before, e.after, e.at, e.staff, held, p))
    BY <1>1, <2>1, ApplyUnfired
  <2> QED
    BY <1>3, <2>2
<1> QED
  BY <1>2, <1>3

\* What an event of the record makes of the clocks, replayed with a priority and with or without
\* an incident that holds the ticket.
Redone(cs, e, p, held) ==
  IF e.kind = "response" THEN Respond(cs, e.at)
  ELSE Apply(cs, e.before, e.after, e.at, e.staff, held, p)
BroughtUp(c) == IF Counting(c) THEN Recompute(c, now) ELSE c

\* The clocks that the record leads to, one event after the other.
Leads(g, cs, p, held) ==
  /\ g[0] = NoClocks /\ g[Len(record)] = cs
  /\ \A n \in 1 .. Len(record) : g[n] = Redone(g[n - 1], record[n], p, held)
Replays(cs, p, held) == \E g : Leads(g, cs, p, held)

\* What a rebuild gives: if each event of the record leads from the clocks of one set into the
\* next set, a rebuild brings clocks of the last set up to date.
LEMMA ReplayedThrough ==
  ASSUME record \in Seq(Event), NEW p, NEW held, NEW Good, NoClocks \in Good[0],
         \A n \in 1 .. Len(record) : \A cs \in Good[n - 1] :
           Redone(cs, record[n], p, held) \in Good[n]
  PROVE  \E last \in Good[Len(record)] :
           /\ Replays(last, p, held)
           /\ Replayed(p, held) = [response |-> BroughtUp(last.response),
                                   resolution |-> BroughtUp(last.resolution)]
<1> DEFINE replay(cs, e) == Redone(cs, e, p, held)
           Brought(c) == Recompute(c, now)
           upTo[n \in 0 .. Len(record)] ==
             IF n = 0 THEN NoClocks ELSE replay(upTo[n - 1], record[n])
           Made(m, g) == g = [n \in 0 .. m |-> IF n = 0 THEN NoClocks
                                               ELSE replay(g[n - 1], record[n])]
<1>1. Len(record) \in Nat
  OBVIOUS
<1>2. Replayed(p, held) = Each(upTo[Len(record)], Counting, Brought)
  BY DEF Replayed, Replay, Redone
<1>3. \E g : Made(Len(record), g)
  <2> DEFINE Bad == {m \in Nat : ~ \E g : Made(m, g)}
  <2>1. SUFFICES ASSUME Bad # {} PROVE FALSE
    BY <1>1
  <2>2. Bad \subseteq Nat
    OBVIOUS
  <2>3. PICK m \in Bad : \A k \in Bad : m <= k
    <3> HIDE DEF Bad
    <3> QED
      BY <2>1, <2>2, Least
  <2>4. CASE m = 0
    <3>1. Made(0, [n \in 0 .. 0 |-> NoClocks])
      <4> HIDE DEF replay
      <4> QED
        OBVIOUS
    <3> QED
      BY <2>4, <3>1
  <2>5. CASE m > 0
    <3>1. m - 1 \in Nat /\ m - 1 \notin Bad
      <4> HIDE DEF Bad
      <4> QED
        BY <2>2, <2>3, <2>5
    <3>2. PICK g : Made(m - 1, g)
      <4> HIDE DEF Made
      <4> QED
        BY <3>1
    <3> DEFINE h == [n \in 0 .. m |-> IF n = m THEN replay(g[m - 1], record[m]) ELSE g[n]]
    <3>3. ASSUME NEW n \in 0 .. m
          PROVE  h[n] = IF n = 0 THEN NoClocks ELSE replay(h[n - 1], record[n])
      <4> HIDE DEF replay
      <4>1. CASE n = m
        <5>1. h[n - 1] = g[m - 1] /\ h[n] = replay(g[m - 1], record[m])
          BY <2>5, <4>1
        <5> QED
          BY <2>5, <4>1, <5>1
      <4>2. CASE n # m
        <5>1. n \in 0 .. (m - 1) /\ h[n] = g[n]
          BY <4>2
        <5>2. g[n] = IF n = 0 THEN NoClocks ELSE replay(g[n - 1], record[n])
          BY <3>2, <5>1
        <5>3. n # 0 => h[n - 1] = g[n - 1]
          BY <4>2
        <5> QED
          BY <5>1, <5>2, <5>3
      <4> QED
        BY <4>1, <4>2
    <3>4. Made(m, h)
      <4>1. h = [n \in 0 .. m |-> h[n]]
        OBVIOUS
      <4> HIDE DEF h, replay
      <4> QED
        BY <3>3, <4>1
    <3> QED
      <4> HIDE DEF Made, h
      <4> QED
        BY <3>4
  <2> QED
    BY <2>3, <2>4, <2>5
<1>4. Made(Len(record), upTo)
  <2> HIDE DEF replay
  <2> QED
    BY <1>3
<1>5. \A n \in 0 .. Len(record) : upTo[n] \in Good[n]
  <2> HIDE DEF replay
  <2>1. \A n \in 0 .. Len(record) :
          upTo[n] = IF n = 0 THEN NoClocks ELSE replay(upTo[n - 1], record[n])
    BY <1>4
  <2> HIDE DEF upTo
  <2> DEFINE Bad == {n \in 0 .. Len(record) : upTo[n] \notin Good[n]}
  <2>2. SUFFICES ASSUME Bad # {} PROVE FALSE
    OBVIOUS
  <2>3. Bad \subseteq Nat /\ Bad \subseteq 0 .. Len(record)
    BY <1>1
  <2>4. PICK n \in Bad : \A k \in Bad : n <= k
    <3> HIDE DEF Bad
    <3> QED
      BY <2>2, <2>3, Least
  <2>5. n # 0
    BY <2>1, <2>4
  <2>6. n \in 1 .. Len(record) /\ n - 1 \in 0 .. Len(record) /\ n - 1 \notin Bad
    <3> HIDE DEF Bad
    <3> QED
      BY <1>1, <2>3, <2>4, <2>5
  <2>7. upTo[n - 1] \in Good[n - 1]
    BY <2>6
  <2>8. replay(upTo[n - 1], record[n]) \in Good[n]
    BY <2>6, <2>7 DEF replay
  <2> QED
    BY <2>1, <2>4, <2>5, <2>8
<1> DEFINE last == upTo[Len(record)]
<1>6. last \in Good[Len(record)]
  BY <1>1, <1>5
<1>7. Replayed(p, held) = [response |-> BroughtUp(last.response),
                           resolution |-> BroughtUp(last.resolution)]
  <2> HIDE DEF replay, upTo
  <2> QED
    BY <1>2 DEF Each, BroughtUp
<1>8. Replays(last, p, held)
  <2>1. \A n \in 0 .. Len(record) :
          upTo[n] = IF n = 0 THEN NoClocks ELSE Redone(upTo[n - 1], record[n], p, held)
    <3> HIDE DEF replay
    <3>1. \A n \in 0 .. Len(record) :
            upTo[n] = IF n = 0 THEN NoClocks ELSE replay(upTo[n - 1], record[n])
      BY <1>4
    <3> HIDE DEF upTo
    <3> QED
      BY <3>1 DEF replay
  <2> HIDE DEF upTo
  <2>2. upTo[0] = NoClocks /\ \A n \in 1 .. Len(record) :
                                  upTo[n] = Redone(upTo[n - 1], record[n], p, held)
    BY <1>1, <2>1
  <2>3. Leads(upTo, last, p, held)
    BY <2>2 DEF Leads
  <2> QED
    BY <2>3 DEF Replays
<1> HIDE DEF last
<1> QED
  BY <1>6, <1>7, <1>8

LEMMA BroughtUpIs ==
  ASSUME now \in Moments, NEW cs, ClocksOK(cs), NEW ds,
         ds = [response |-> BroughtUp(cs.response), resolution |-> BroughtUp(cs.resolution)]
  PROVE  /\ BothWork(cs, ds, now)
         /\ ds.response.state = cs.response.state /\ ds.resolution.state = cs.resolution.state
         /\ Timed(ds.response, now) /\ Timed(ds.resolution, now)
<1>1. \A c \in Clock : /\ Works(c, BroughtUp(c), now) /\ Timed(BroughtUp(c), now)
                       /\ BroughtUp(c).state = c.state
  BY RecomputeWorks, RecomputeIs, WorksSame DEF BroughtUp, Timed
<1>2. cs.response \in Clock /\ cs.resolution \in Clock
  BY ClocksType
<1>3. /\ BothWork(cs, ds, now)
      /\ ds.response = BroughtUp(cs.response) /\ ds.resolution = BroughtUp(cs.resolution)
  BY <1>1, <1>2, PairWorks
<1> QED
  BY <1>1, <1>2, <1>3

\* Clocks rebuilt are clocks, which have fired nothing, and whose levels are on time.
LEMMA ReplayedIs ==
  ASSUME record \in Seq(Event), now \in Moments, NEW p \in Priorities, NEW held \in BOOLEAN,
         NEW ds, ds = Replayed(p, held)
  PROVE  Unfired(ds) /\ Timed(ds.response, now) /\ Timed(ds.resolution, now)
<1> DEFINE Good == [n \in 0 .. Len(record) |-> {cs \in Clocks : Unfired(cs)}]
<1>2. \A n \in 1 .. Len(record) : record[n] \in Event /\ n - 1 \in 0 .. Len(record)
  OBVIOUS
<1>3. \A cs : Unfired(cs) => cs \in Clocks
  BY DEF Unfired, ClocksOK
<1>4. NoClocks \in Good[0]
  BY <1>3, NoClocksUnfired
<1>5. \A n \in 1 .. Len(record) : \A cs \in Good[n - 1] : Redone(cs, record[n], p, held) \in Good[n]
  <2> SUFFICES ASSUME NEW n \in 1 .. Len(record), NEW cs \in Good[n - 1]
               PROVE  Redone(cs, record[n], p, held) \in Good[n]
    OBVIOUS
  <2>1. Unfired(cs)
    BY <1>2
  <2>2. Unfired(Redone(cs, record[n], p, held))
    BY <1>2, <2>1, EventUnfired DEF Redone
  <2> QED
    BY <1>3, <2>2
<1> HIDE DEF Good
<1>6. PICK last \in Good[Len(record)] :
        ds = [response |-> BroughtUp(last.response), resolution |-> BroughtUp(last.resolution)]
  BY <1>4, <1>5, ReplayedThrough
<1>7. Unfired(last)
  BY <1>6 DEF Good
<1>8. /\ BothWork(last, ds, now)
      /\ Timed(ds.response, now) /\ Timed(ds.resolution, now)
  BY <1>6, <1>7, BroughtUpIs DEF Unfired
<1> QED
  BY <1>7, <1>8, UnfiredStays

\* What a replay keeps: the clocks follow the class the ticket had then, and the resolution waits
\* with it, or for an incident that holds the ticket.
Traces(cs, class, held) ==
  /\ ClocksOK(cs) /\ Follows(cs, class)
  /\ class = "waiting" => ~Counting(cs.resolution)
  /\ cs.resolution.state = "paused" => class = "waiting" \/ held

\* The record is that of the classes a ticket went through.
Journey(classes) ==
  /\ classes \in [0 .. Len(record) -> StatusClasses]
  /\ classes[0] = "backlog" /\ classes[Len(record)] = status
  /\ \A n \in 1 .. Len(record) :
       IF record[n].kind = "move"
       THEN record[n].before = classes[n - 1] /\ record[n].after = classes[n]
       ELSE classes[n] = classes[n - 1]
Recorded == \E classes : Journey(classes)

LEMMA ReplayedTraces ==
  ASSUME record \in Seq(Event), now \in Moments, Recorded,
         NEW p \in Priorities, NEW held \in BOOLEAN, NEW rs, rs = Replayed(p, held)
  PROVE  Traces(rs, status, held)
<1>1. PICK classes : Journey(classes)
  BY DEF Recorded
<1> DEFINE Good == [n \in 0 .. Len(record) |-> {cs \in Clocks : Traces(cs, classes[n], held)}]
<1>3. \A n \in 1 .. Len(record) : record[n] \in Event /\ n - 1 \in 0 .. Len(record)
  OBVIOUS
<1>4. \A cs, class : Traces(cs, class, held) => cs \in Clocks
  BY DEF Traces, ClocksOK
<1>5. NoClocks \in Good[0]
  <2>1. /\ NoClocks.response.state = "absent" /\ NoClocks.resolution.state = "absent"
    BY DEF NoClocks, Absent
  <2>2. Traces(NoClocks, "backlog", held)
    BY <2>1, NoClocksUnfired DEF Traces, Follows, Unfired, Open, OpenStates, Counting, CountingStates
  <2> QED
    BY <1>1, <1>4, <2>2 DEF Journey
<1>6. \A n \in 1 .. Len(record) : \A cs \in Good[n - 1] : Redone(cs, record[n], p, held) \in Good[n]
  <2> SUFFICES ASSUME NEW n \in 1 .. Len(record), NEW cs \in Good[n - 1]
               PROVE  Redone(cs, record[n], p, held) \in Good[n]
    OBVIOUS
  <2> DEFINE e == record[n]
             ds == Redone(cs, e, p, held)
             before == classes[n - 1]
             after == classes[n]
  <2>1. /\ Traces(cs, before, held) /\ before \in StatusClasses /\ after \in StatusClasses
        /\ e \in Event /\ e.at \in Moments
    BY <1>1, <1>3 DEF Journey, Event, Moments
  <2>2. CASE e.kind = "response"
    <3>1. after = before /\ ds = Respond(cs, e.at)
      BY <1>1, <2>2 DEF Journey, Redone
    <3> HIDE DEF e, ds, before, after
    <3>2. /\ ClocksOK(ds) /\ ds.resolution = cs.resolution
          /\ Open(cs.response) => ds.response.state = "met"
          /\ ~Open(cs.response) => ds.response = cs.response
      BY <2>1, <3>1, RespondStates DEF Traces
    <3>3. Traces(ds, after, held)
      BY <2>1, <3>1, <3>2 DEF Traces, Follows, Live, Open, OpenStates, Counting, CountingStates
    <3> QED
      BY <1>4, <3>3 DEF ds, e, after
  <2>3. CASE e.kind # "response"
    <3>1. e.kind = "move" /\ e.staff \in BOOLEAN
      BY <2>1, <2>3 DEF Event
    <3>2. e.before = before /\ e.after = after
      BY <1>1, <3>1 DEF Journey
    <3>3. ds = Apply(cs, before, after, e.at, e.staff, held, p)
      BY <2>3, <3>2 DEF Redone
    <3> HIDE DEF e, ds, before, after
    <3>4. /\ ClocksOK(ds) /\ Follows(ds, after)
          /\ after = "waiting" /\ Counting(ds.resolution) =>
               before = "waiting" /\ Counting(cs.resolution)
          /\ ds.resolution.state = "paused" =>
               \/ after = "waiting"
               \/ cs.resolution.state = "paused" /\ (held \/ before # "waiting")
      BY <2>1, <3>1, <3>3, ApplyFollows DEF Traces
    <3>5. Traces(ds, after, held)
      BY <2>1, <3>4 DEF Traces
    <3> QED
      BY <1>4, <3>5 DEF ds, e, after
  <2> QED
    BY <2>2, <2>3
<1> HIDE DEF Good
<1>7. PICK last \in Good[Len(record)] :
        rs = [response |-> BroughtUp(last.response), resolution |-> BroughtUp(last.resolution)]
  BY <1>5, <1>6, ReplayedThrough
<1>8. Traces(last, status, held)
  BY <1>1, <1>7 DEF Good, Journey
<1>9. /\ BothWork(last, rs, now) /\ rs.response.state = last.response.state
      /\ rs.resolution.state = last.resolution.state
  BY <1>7, <1>8, BroughtUpIs DEF Traces
<1> QED
  BY <1>8, <1>9 DEF Traces, Follows, Live, Open, Counting, BothWork

-----------------------------------------------------------------------------
(* The invariant *)

Manager == [op: Operations, seen: Seen, resolved: BOOLEAN]
Broadcasting == [op: {"broadcast"}, closeAll: BOOLEAN]
Reading == [op: {"mark", "read"}]
Releasing == [op: {"release"}, seen: Seen]
Closer == [op: {"move", "release"}, seen: Seen]
AllMarks == {"edited", "late", "kept", "copy", "unheld", "unreleased"}

Asking == [op: {"rebuild"}, copy: Copies]
Attaching == [op: {"attach", "ask"}, due: Dues]
Joining == [op: {"join"}, confirmed: BOOLEAN, linked: BOOLEAN, due: Dues]

\* The types of all but the clocks and the time they counted.
WorkersOK ==
  /\ sweeping \in SweepParts /\ copied \in Copies
  /\ asked = Idle \/ asked \in Asking
  /\ triage = Idle \/ triage \in Attaching \/ triage \in Joining
DeskOK ==
  /\ now \in Moments /\ status \in StatusClasses
  /\ priority \in Priorities \union {"unset"} /\ mirror \in Dues
  /\ rebuild \in BOOLEAN /\ record \in Seq(Event) /\ WorkersOK
  /\ left \in [Bounded -> Nat] /\ marks \subseteq AllMarks
IncidentOK ==
  /\ incident \in {"none", "proposed", "confirmed", "resolved", "closed", "dismissed"}
  /\ link \in {"none", "linked", "closing", "closed", "failed"}
ManagerOK == manager = Idle \/ manager \in Manager
ResolverOK == resolver = Idle \/ resolver \in Broadcasting \/ resolver \in Reading
              \/ resolver \in Releasing
CloserOK == closer = Idle \/ closer \in Closer
RestOK == DeskOK /\ IncidentOK /\ ManagerOK /\ ResolverOK /\ CloserOK

SpentOK ==
  /\ spent \in [response: Nat, resolution: Nat]
  /\ ElapsedAt(clocks.response, now) = spent.response
  /\ ElapsedAt(clocks.resolution, now) = spent.resolution

ClockInv ==
  /\ ClocksOK(clocks) /\ SpentOK
  /\ Timed(clocks.response, now) /\ Timed(clocks.resolution, now)

Inv == RestOK /\ ClockInv /\ MirrorFollows

\* A level fires when its business time is counted.
Fires ==
  \A k \in Kinds : \A l \in clocks'[k].fired \ clocks[k].fired :
    spent'[k] >= Goals[k][clocks'[k].target][l]

ClockStep == ClockInv' /\ Fires

LEMMA InvTypes == Inv => TypeOK
BY DEF Inv, RestOK, DeskOK, WorkersOK, IncidentOK, ManagerOK, ResolverOK, CloserOK, ClockInv,
       ClocksOK, SpentOK, TypeOK, Moments, Manager, Broadcasting, Reading, Releasing, Closer,
       AllMarks, Asking, Attaching, Joining

LEMMA InvInit == Init => Inv
<1> SUFFICES ASSUME Init PROVE Inv
  OBVIOUS
<1>1. 0 \in Moments
  BY TimeAssumption DEF Moments
<1>2. RestOK
  <2>1. record \in Seq(Event)
    <3> HIDE DEF Event
    <3> QED
      BY DEF Init
  <2>2. left \in [Bounded -> Nat]
    BY BudgetAssumption DEF Init
  <2>3. DeskOK
    BY <1>1, <2>1, <2>2
       DEF Init, DeskOK, WorkersOK, StatusClasses, Dues, SweepParts, Copies, NoCopy
  <2>4. IncidentOK /\ ManagerOK /\ ResolverOK /\ CloserOK
    BY DEF Init, IncidentOK, ManagerOK, ResolverOK, CloserOK
  <2> QED
    BY <2>3, <2>4 DEF RestOK
<1>3. ClocksOK(clocks)
  BY NoClocksUnfired DEF Init, Unfired
<1>4. /\ clocks.response = Absent("response") /\ clocks.resolution = Absent("resolution")
  BY DEF Init, NoClocks
<1>5. /\ ~Counting(clocks.response) /\ ~Counting(clocks.resolution)
      /\ clocks.response.elapsed = 0 /\ clocks.resolution.elapsed = 0
  BY <1>4 DEF Absent, Counting, CountingStates
<1>6. SpentOK
  BY <1>5, StillElapsed DEF Init, SpentOK, NoTime
<1>7. MirrorFollows
  BY <1>5 DEF Init, MirrorFollows, DueOf
<1> QED
  BY <1>2, <1>3, <1>5, <1>6, <1>7 DEF Inv, ClockInv, Timed

-----------------------------------------------------------------------------
(* What a step does to the clocks *)

LEMMA KeptClocks ==
  ASSUME ClockInv, clocks' = clocks, spent' = spent, now' = now
  PROVE  ClockStep
BY DEF ClockInv, SpentOK, ClockStep, Fires

LEMMA WorkedClocks ==
  ASSUME ClockInv, BothWork(clocks, clocks', now), spent' = spent, now' = now
  PROVE  ClockStep
<1>1. ClocksOK(clocks') /\ SpentOK' /\ Timed(clocks'.response, now)
      /\ Timed(clocks'.resolution, now)
  BY DEF ClockInv, SpentOK, BothWork, Works
<1>2. clocks'.response.fired = clocks.response.fired
      /\ clocks'.resolution.fired = clocks.resolution.fired
  BY DEF BothWork, Works
<1>3. Fires
  BY <1>2 DEF Fires, Kinds
<1>4. ClockInv'
  BY <1>1 DEF ClockInv
<1> QED
  BY <1>3, <1>4 DEF ClockStep

LEMMA EnteredClocks ==
  ASSUME ClockInv, now \in Moments, NEW after, NEW p,
         Starts(clocks, after) => p \in Priorities,
         BothWork(OrStarted(clocks, after, now, p), clocks', now),
         spent' = IF Starts(clocks, after) THEN NoTime ELSE spent, now' = now
  PROVE  ClockStep
<1>1. CASE Starts(clocks, after)
  <2> DEFINE r == Started("response", now, p)
             s == Started("resolution", now, p)
             begun == OrStarted(clocks, after, now, p)
  <2>1. begun.response = r /\ begun.resolution = s
    BY <1>1, OrStartedIs DEF ClockInv
  <2>2. /\ ElapsedAt(r, now) = 0 /\ Timed(r, now) /\ r.fired = {}
        /\ ElapsedAt(s, now) = 0 /\ Timed(s, now) /\ s.fired = {}
    BY <1>1, StartedIs DEF Kinds
  <2> HIDE DEF r, s, begun
  <2>3. BothWork(begun, clocks', now)
    BY DEF begun
  <2>4. /\ ClocksOK(clocks') /\ Timed(clocks'.response, now) /\ Timed(clocks'.resolution, now)
        /\ ElapsedAt(clocks'.response, now) = 0 /\ ElapsedAt(clocks'.resolution, now) = 0
        /\ clocks'.response.fired = {} /\ clocks'.resolution.fired = {}
    BY <2>1, <2>2, <2>3 DEF BothWork, Works
  <2>5. spent' = NoTime
    BY <1>1
  <2>6. SpentOK'
    BY <2>4, <2>5 DEF SpentOK, NoTime
  <2>7. Fires
    BY <2>4 DEF Fires, Kinds
  <2>8. ClockInv'
    BY <2>4, <2>6 DEF ClockInv
  <2> QED
    BY <2>7, <2>8 DEF ClockStep
<1>2. CASE ~Starts(clocks, after)
  <2>1. BothWork(clocks, clocks', now) /\ spent' = spent
    BY <1>2, OrStartedIs DEF ClockInv
  <2> QED
    BY <2>1, WorkedClocks
<1> QED
  BY <1>1, <1>2

LEMMA RebuiltClocks ==
  ASSUME ClockInv, DeskOK, NEW p \in Priorities, NEW held \in BOOLEAN,
         clocks' = Replayed(p, held), spent' = Elapsed(clocks', now), now' = now
  PROVE  ClockStep
<1>1. Unfired(clocks') /\ Timed(clocks'.response, now) /\ Timed(clocks'.resolution, now)
  BY ReplayedIs DEF DeskOK
<1>2. /\ clocks'.response.fired = {} /\ clocks'.resolution.fired = {} /\ ClocksOK(clocks')
      /\ clocks'.response \in Clock /\ clocks'.resolution \in Clock
  BY <1>1, ClocksType DEF Unfired
<1> DEFINE r == ElapsedAt(clocks'.response, now)
           s == ElapsedAt(clocks'.resolution, now)
<1>3. r \in Nat /\ s \in Nat
  BY <1>2, ElapsedType DEF DeskOK
<1>4. spent' = [response |-> r, resolution |-> s]
  BY DEF Elapsed
<1>5. spent' \in [response: Nat, resolution: Nat] /\ spent'.response = r /\ spent'.resolution = s
  <2> HIDE DEF r, s
  <2> QED
    BY <1>3, <1>4
<1>6. SpentOK'
  BY <1>5 DEF SpentOK
<1>7. Fires
  BY <1>2 DEF Fires, Kinds
<1>8. ClockInv'
  BY <1>1, <1>2, <1>6 DEF ClockInv
<1> QED
  BY <1>7, <1>8 DEF ClockStep


\* A moment passes.
LEMMA TickElapsed ==
  ASSUME NEW c \in Clock, NEW t \in Moments, t < MaxTime, Timed(c, t)
  PROVE  /\ ElapsedAt(c, t + 1) =
              ElapsedAt(c, t) + (IF Counting(c) THEN Worked[t + 1] - Worked[t] ELSE 0)
         /\ Timed(c, t + 1)
         /\ (IF Counting(c) THEN Worked[t + 1] - Worked[t] ELSE 0) \in Nat
<1> DEFINE u == t + 1
           asOf == c.asOf
<1>1. t \in Nat /\ u \in Moments /\ u \in Nat /\ t < u /\ c.asOf \in Moments
      /\ asOf \in Nat /\ c.elapsed \in Nat /\ \A n \in Nat : n <= t => n < u
  BY TimeAssumption DEF Moments, Clock
<1> HIDE DEF u
<1>2. /\ Worked[t] \in Nat /\ Worked[u] \in Nat /\ Worked[asOf] \in Nat
      /\ Worked[t] <= Worked[u]
  BY <1>1, MomentsType, WorkedGrows
<1>3. /\ ElapsedAt(c, u) = ElapsedAt(c, t) + (IF Counting(c) THEN Worked[u] - Worked[t] ELSE 0)
      /\ Timed(c, u)
      /\ (IF Counting(c) THEN Worked[u] - Worked[t] ELSE 0) \in Nat
  <2>1. CASE Counting(c)
    <3>1. asOf <= t /\ asOf < u /\ OnTime(c)
      BY <1>1, <2>1 DEF Timed
    <3>2. ElapsedAt(c, u) = c.elapsed + Worked[u] - Worked[asOf]
      BY <2>1, <3>1 DEF ElapsedAt
    <3>3. ElapsedAt(c, t) = c.elapsed + Worked[t] - Worked[asOf]
      <4>1. CASE asOf < t
        BY <2>1, <4>1 DEF ElapsedAt
      <4>2. CASE asOf = t
        BY <1>1, <1>2, <4>2 DEF ElapsedAt
      <4> QED
        BY <1>1, <3>1, <4>1, <4>2
    <3>4. Timed(c, u)
      BY <1>1, <3>1 DEF Timed
    <3> QED
      BY <1>1, <1>2, <2>1, <3>2, <3>3, <3>4
  <2>2. CASE ~Counting(c)
    BY <1>1, <2>2, StillElapsed DEF Timed
  <2> QED
    BY <2>1, <2>2
<1> QED
  BY <1>3 DEF u

LEMMA TickClocks ==
  ASSUME Inv, Tick
  PROVE  ClockStep
<1> DEFINE r == Passing(clocks.response)
           s == Passing(clocks.resolution)
           x == spent.response + r
           y == spent.resolution + s
<1>1. /\ now \in Moments /\ now < MaxTime /\ now' = now + 1 /\ clocks' = clocks
      /\ spent' = [response |-> x, resolution |-> y]
      /\ clocks.response \in Clock /\ clocks.resolution \in Clock
  BY ClocksType DEF Inv, RestOK, DeskOK, ClockInv, Tick
<1>2. /\ spent \in [response: Nat, resolution: Nat]
      /\ ElapsedAt(clocks.response, now) = spent.response
      /\ ElapsedAt(clocks.resolution, now) = spent.resolution
      /\ Timed(clocks.response, now) /\ Timed(clocks.resolution, now)
  BY DEF Inv, ClockInv, SpentOK
<1>3. /\ ElapsedAt(clocks.response, now + 1) = x /\ r \in Nat
      /\ Timed(clocks.response, now + 1)
  BY <1>1, <1>2, TickElapsed DEF Passing
<1>4. /\ ElapsedAt(clocks.resolution, now + 1) = y /\ s \in Nat
      /\ Timed(clocks.resolution, now + 1)
  BY <1>1, <1>2, TickElapsed DEF Passing
<1>5. x \in Nat /\ y \in Nat
  BY <1>2, <1>3, <1>4
<1> HIDE DEF x, y
<1>6. spent' \in [response: Nat, resolution: Nat] /\ spent'.response = x /\ spent'.resolution = y
  BY <1>1, <1>5
<1>7. SpentOK'
  BY <1>1, <1>3, <1>4, <1>6 DEF SpentOK
<1>8. ClockInv'
  BY <1>1, <1>3, <1>4, <1>7 DEF ClockInv, Inv
<1> QED
  BY <1>1, <1>8 DEF ClockStep, Fires

\* A clock changed, its target or its marks, on time.
Changed(c, d) ==
  /\ d \in Clock /\ d.kind = c.kind /\ ElapsedAt(d, now) = ElapsedAt(c, now)
  /\ Timed(d, now)
  /\ \A l \in d.fired \ c.fired : ElapsedAt(d, now) >= Goals[d.kind][d.target][l]

LEMMA ChangedClocks ==
  ASSUME ClockInv, NEW r, NEW s, Changed(clocks.response, r), Changed(clocks.resolution, s),
         clocks' = [response |-> r, resolution |-> s], spent' = spent, now' = now
  PROVE  ClockStep
<1>1. r \in Clock /\ s \in Clock /\ r.kind = "response" /\ s.kind = "resolution"
  BY DEF Changed, ClockInv, ClocksOK
<1>2. clocks'.response = r /\ clocks'.resolution = s /\ clocks' \in Clocks
  BY <1>1 DEF Clocks
<1>3. SpentOK' /\ Timed(clocks'.response, now) /\ Timed(clocks'.resolution, now)
      /\ ClocksOK(clocks')
  BY <1>1, <1>2 DEF ClockInv, SpentOK, Changed, ClocksOK
<1>4. /\ \A l \in clocks'.response.fired \ clocks.response.fired :
           spent'.response >= Goals["response"][clocks'.response.target][l]
      /\ \A l \in clocks'.resolution.fired \ clocks.resolution.fired :
           spent'.resolution >= Goals["resolution"][clocks'.resolution.target][l]
  BY <1>1, <1>2 DEF ClockInv, SpentOK, Changed
<1>5. Fires
  BY <1>4 DEF Fires, Kinds
<1>6. ClockInv'
  BY <1>3 DEF ClockInv
<1> QED
  BY <1>5, <1>6 DEF ClockStep

LEMMA SameChanged ==
  ASSUME NEW c \in Clock, Timed(c, now)
  PROVE  Changed(c, c)
BY DEF Changed

\* Another target for a clock, at now.
LEMMA RetargetChanged ==
  ASSUME now \in Moments, NEW c \in Clock, NEW p \in Priorities
  PROVE  Changed(c, Retarget(c, p))
<1> DEFINE f == IF c.state = "paused" THEN c ELSE Fold(c, now)
           target == IF f.target = "override" THEN f.target ELSE p
           t == [f EXCEPT !.target = target]
           goal == Goals[t.kind][t.target].due
           over == t.elapsed >= goal /\ "due" \notin t.fired
           breached == "breached"
           fired == t.fired \union {"due"}
           b == [t EXCEPT !.state = breached, !.fired = fired]
           u == IF over THEN b ELSE t
           new == Retarget(c, p)
<1>1. new = IF t.state = "paused" THEN t ELSE Recompute(u, now)
  BY DEF Retarget
<1>2. /\ f \in Clock /\ f.kind = c.kind /\ f.state = c.state /\ f.fired = c.fired
      /\ c.state # "paused" => f.asOf = now /\ f.elapsed = ElapsedAt(c, now)
      /\ c.state = "paused" => f = c
  BY FoldIs
<1>3. target \in Targets
  <2> HIDE DEF f
  <2> QED
    BY <1>2 DEF Clock, Targets
<1> HIDE DEF f, target
<1>4. /\ t \in Clock /\ t.kind = c.kind /\ t.state = c.state /\ t.fired = c.fired
      /\ t.asOf = f.asOf /\ t.elapsed = f.elapsed
  BY <1>2, <1>3 DEF Clock
<1> HIDE DEF t
<1>5. CASE c.state = "paused"
  <2>1. new = t
    BY <1>1, <1>4, <1>5
  <2>2. ~Counting(t) /\ ~Counting(c)
    BY <1>4, <1>5 DEF Counting, CountingStates
  <2> QED
    BY <1>2, <1>4, <1>5, <2>1, <2>2, StillElapsed DEF Changed, Timed
<1>6. CASE c.state # "paused"
  <2>1. breached \in ClockStates /\ fired \in SUBSET Levels
    BY <1>4 DEF ClockStates, OpenStates, CountingStates, Clock, Levels
  <2> HIDE DEF breached, fired
  <2>2. /\ b \in Clock /\ b.kind = t.kind /\ b.asOf = t.asOf /\ b.elapsed = t.elapsed
        /\ b.target = t.target /\ b.fired = fired
    BY <1>4, <2>1 DEF Clock
  <2>3. /\ u \in Clock /\ u.kind = c.kind /\ u.asOf = now /\ u.elapsed = ElapsedAt(c, now)
        /\ \A l \in u.fired \ c.fired : u.elapsed >= Goals[u.kind][u.target][l]
    <3>1. CASE over
      <4>1. u.fired \ c.fired \subseteq {"due"}
        BY <1>4, <2>2, <3>1 DEF fired
      <4> HIDE DEF b
      <4> QED
        BY <1>2, <1>4, <1>6, <2>2, <3>1, <4>1
    <3>2. CASE ~over
      BY <1>2, <1>4, <1>6, <3>2
    <3> QED
      BY <3>1, <3>2
  <2>4. new = Recompute(u, now)
    BY <1>1, <1>4, <1>6
  <2> HIDE DEF u, new
  <2>5. /\ new \in Clock /\ new.kind = u.kind /\ new.target = u.target /\ new.fired = u.fired
        /\ ElapsedAt(new, now) = ElapsedAt(u, now) /\ Timed(new, now)
    BY <2>3, <2>4, RecomputeIs, RecomputeWorks DEF Works
  <2>6. ElapsedAt(u, now) = u.elapsed
    BY <2>3, FreshElapsed
  <2>7. Changed(c, new)
    BY <2>3, <2>5, <2>6 DEF Changed
  <2> QED
    BY <2>7 DEF new
<1> QED
  BY <1>5, <1>6


\* A level whose moment has come is reached.
LEMMA ReachedIs ==
  ASSUME now \in Moments, NEW c \in Clock, Timed(c, now), Counting(c), NEW l \in Levels,
         Reached(c, l, c.at[l])
  PROVE  ElapsedAt(c, now) >= Goals[c.kind][c.target][l]
<1>1. /\ c.asOf \in Nat /\ c.elapsed \in Nat /\ c.asOf <= now /\ OnTime(c) /\ now \in Nat
      /\ Worked[c.asOf] \in Nat /\ c.at[l] # Never /\ c.at[l] <= now
  BY MomentsType DEF Timed, Clock, Reached, Moments
<1>2. c.elapsed + Worked[now] - Worked[c.asOf] >= Goals[c.kind][c.target][l]
  BY <1>1 DEF OnTime
<1>3. ElapsedAt(c, now) = c.elapsed + Worked[now] - Worked[c.asOf]
  <2>1. CASE c.asOf < now
    BY <2>1 DEF ElapsedAt
  <2>2. CASE c.asOf = now
    BY <1>1, <2>2 DEF ElapsedAt
  <2> QED
    BY <1>1, <2>1, <2>2
<1> QED
  BY <1>2, <1>3

\* The clock d is c with levels fired that it has reached.
Marked(c, d) ==
  /\ d \in Clock /\ d.kind = c.kind /\ d.target = c.target /\ d.at = c.at
  /\ d.elapsed = c.elapsed /\ d.asOf = c.asOf /\ d.started = c.started
  /\ Counting(d) = Counting(c)
  /\ \A l \in d.fired \ c.fired : ElapsedAt(c, now) >= Goals[c.kind][c.target][l]

LEMMA MarkedOne ==
  ASSUME now \in Moments, NEW c \in Clock, Timed(c, now), Counting(c), NEW l \in Levels,
         Reached(c, l, c.at[l]), NEW state \in CountingStates, NEW d \in Clock,
         d.kind = c.kind, d.target = c.target, d.at = c.at, d.elapsed = c.elapsed,
         d.asOf = c.asOf, d.started = c.started, d.state = state, d.fired = c.fired \union {l}
  PROVE  Marked(c, d)
<1>1. ElapsedAt(c, now) >= Goals[c.kind][c.target][l]
  BY ReachedIs
<1>2. Counting(d)
  BY DEF Counting
<1>3. \A m \in d.fired \ c.fired : m = l
  OBVIOUS
<1> QED
  BY <1>1, <1>2, <1>3 DEF Marked, Counting

LEMMA MarkedSame ==
  ASSUME NEW c \in Clock
  PROVE  Marked(c, c)
BY DEF Marked

LEMMA MarkedIs ==
  ASSUME NEW c \in Clock, NEW d, Marked(c, d), Timed(c, now)
  PROVE  ElapsedAt(d, now) = ElapsedAt(c, now) /\ Timed(d, now) /\ Changed(c, d)
<1>1. Counting(d) <=> Counting(c)
  BY DEF Marked, Counting
<1>2. ElapsedAt(d, now) = ElapsedAt(c, now)
  BY <1>1 DEF Marked, ElapsedAt
<1>3. Timed(d, now)
  BY <1>1 DEF Marked, Timed, OnTime
<1> QED
  BY <1>2, <1>3 DEF Marked, Changed

LEMMA MarkedThrough ==
  ASSUME NEW c \in Clock, NEW d, NEW e, Marked(c, d), Marked(d, e), Timed(c, now)
  PROVE  Marked(c, e)
<1>1. ElapsedAt(d, now) = ElapsedAt(c, now)
  BY MarkedIs
<1> QED
  BY <1>1 DEF Marked

LEMMA FiredMarked ==
  ASSUME now \in Moments, NEW c \in Clock, Timed(c, now)
  PROVE  Marked(c, Escalated(Breached(Warned(c))))
<1>1. ASSUME NEW d \in Clock, Timed(d, now) PROVE Marked(d, Warned(d))
  <2>1. CASE d.state = "running" /\ Reached(d, "warn", d.at.warn)
    <3> DEFINE fired == d.fired \union {"warn"}
               e == [d EXCEPT !.fired = fired]
    <3>1. fired \in SUBSET Levels /\ "warn" \in Levels /\ d.state \in CountingStates
          /\ Counting(d) /\ Reached(d, "warn", d.at["warn"])
      BY <2>1 DEF Clock, Levels, CountingStates, Counting
    <3> HIDE DEF fired
    <3>2. /\ e \in Clock /\ e.kind = d.kind /\ e.target = d.target /\ e.at = d.at
          /\ e.elapsed = d.elapsed /\ e.asOf = d.asOf /\ e.started = d.started
          /\ e.state = d.state /\ e.fired = fired
      BY <3>1 DEF Clock
    <3>3. Warned(d) = e
      BY <2>1 DEF Warned, fired
    <3> HIDE DEF e
    <3>4. e.fired = d.fired \union {"warn"}
      BY <3>2 DEF fired
    <3>5. Marked(d, e)
      BY <1>1, <3>1, <3>2, <3>4, MarkedOne
    <3> QED
      BY <3>3, <3>5
  <2>2. CASE ~(d.state = "running" /\ Reached(d, "warn", d.at.warn))
    BY <2>2, MarkedSame DEF Warned
  <2> QED
    BY <2>1, <2>2
<1>2. ASSUME NEW d \in Clock, Timed(d, now) PROVE Marked(d, Breached(d))
  <2>1. CASE d.state = "running" /\ Reached(d, "due", d.at.due)
    <3> DEFINE fired == d.fired \union {"due"}
               state == "breached"
               e == [d EXCEPT !.fired = fired, !.state = state]
    <3>1. fired \in SUBSET Levels /\ "due" \in Levels /\ state \in CountingStates
          /\ state \in ClockStates /\ Counting(d) /\ Reached(d, "due", d.at["due"])
      BY <2>1 DEF Clock, Levels, CountingStates, Counting, ClockStates, OpenStates
    <3>2. Breached(d) = e
      BY <2>1 DEF Breached
    <3> HIDE DEF fired, state
    <3>3. /\ e \in Clock /\ e.kind = d.kind /\ e.target = d.target /\ e.at = d.at
          /\ e.elapsed = d.elapsed /\ e.asOf = d.asOf /\ e.started = d.started
          /\ e.state = state /\ e.fired = fired
      BY <3>1 DEF Clock
    <3> HIDE DEF e
    <3>4. e.fired = d.fired \union {"due"}
      BY <3>3 DEF fired
    <3>5. Marked(d, e)
      BY <1>2, <3>1, <3>3, <3>4, MarkedOne
    <3> QED
      BY <3>2, <3>5
  <2>2. CASE ~(d.state = "running" /\ Reached(d, "due", d.at.due))
    BY <2>2, MarkedSame DEF Breached
  <2> QED
    BY <2>1, <2>2
<1>3. ASSUME NEW d \in Clock, Timed(d, now) PROVE Marked(d, Escalated(d))
  <2>1. CASE Counting(d) /\ Reached(d, "escalate", d.at.escalate)
    <3> DEFINE fired == d.fired \union {"escalate"}
               e == [d EXCEPT !.fired = fired]
    <3>1. fired \in SUBSET Levels /\ "escalate" \in Levels /\ d.state \in CountingStates
          /\ Reached(d, "escalate", d.at["escalate"])
      BY <2>1 DEF Clock, Levels, Counting
    <3> HIDE DEF fired
    <3>2. /\ e \in Clock /\ e.kind = d.kind /\ e.target = d.target /\ e.at = d.at
          /\ e.elapsed = d.elapsed /\ e.asOf = d.asOf /\ e.started = d.started
          /\ e.state = d.state /\ e.fired = fired
      BY <3>1 DEF Clock
    <3>3. Escalated(d) = e
      BY <2>1 DEF Escalated, fired
    <3> HIDE DEF e
    <3>4. e.fired = d.fired \union {"escalate"}
      BY <3>2 DEF fired
    <3>5. Marked(d, e)
      BY <1>3, <2>1, <3>1, <3>2, <3>4, MarkedOne
    <3> QED
      BY <3>3, <3>5
  <2>2. CASE ~(Counting(d) /\ Reached(d, "escalate", d.at.escalate))
    BY <2>2, MarkedSame DEF Escalated
  <2> QED
    BY <2>1, <2>2
<1>4. Marked(c, Warned(c)) /\ Warned(c) \in Clock /\ Timed(Warned(c), now)
  BY <1>1, MarkedIs DEF Marked
<1>5. /\ Marked(c, Breached(Warned(c))) /\ Breached(Warned(c)) \in Clock
      /\ Timed(Breached(Warned(c)), now)
  <2>1. Marked(Warned(c), Breached(Warned(c)))
    BY <1>2, <1>4
  <2>2. Marked(c, Breached(Warned(c)))
    BY <1>4, <2>1, MarkedThrough
  <2> QED
    BY <2>2, MarkedIs DEF Marked
<1>6. Marked(Breached(Warned(c)), Escalated(Breached(Warned(c))))
  BY <1>3, <1>5
<1> QED
  BY <1>5, <1>6, MarkedThrough

-----------------------------------------------------------------------------
(* What a step does to the ticket's copy, and to types *)

LEMMA DueOfType ==
  ASSUME NEW cs, ClocksOK(cs)
  PROVE  DueOf(cs) \in Dues
BY ClocksType DEF DueOf, Clock, Dues

\* mirror, by a copy as old as it may be.
LEMMA MirroredIs ==
  ASSUME mirror \in Dues, ClocksOK(clocks'), NEW copy, Mirrored(copy)
  PROVE  mirror' \in Dues /\ (copy = mirror => mirror' = DueOf(clocks'))
BY DueOfType DEF Mirrored

\* A step that leaves the resolution clock and the copy of its due time.
LEMMA MirrorKept ==
  ASSUME MirrorFollows, DueOf(clocks') = DueOf(clocks), mirror' = mirror, marks \subseteq marks'
  PROVE  MirrorFollows'
BY DEF MirrorFollows, DueOf

LEMMA MirrorSet ==
  ASSUME "copy" \notin marks' => mirror' = DueOf(clocks')
  PROVE  MirrorFollows'
BY DEF MirrorFollows, DueOf

LEMMA SpendType ==
  ASSUME left \in [Bounded -> Nat], NEW uses \in SUBSET Bounded, Spend(uses)
  PROVE  left' \in [Bounded -> Nat]
BY DEF Spend

LEMMA FailsType ==
  ASSUME left \in [Bounded -> Nat], NEW uses \in SUBSET Bounded, Fails(uses)
  PROVE  /\ left' \in [Bounded -> Nat] /\ rebuild' = TRUE /\ priority' = priority
         /\ mirror' = mirror /\ clocks' = clocks /\ spent' = spent
<1>1. uses \union {"changes"} \in SUBSET Bounded
  BY DEF Bounded
<1> QED
  BY <1>1, SpendType DEF Fails

LEMMA HeldByWorks ==
  ASSUME now \in Moments, NEW cs, ClocksOK(cs), NEW held, NEW seen
  PROVE  BothWork(cs, HeldBy(cs, held, seen), now)
<1> DEFINE c == cs.resolution
           d == HeldBy(cs, held, seen)
<1>1. c \in Clock /\ cs.response \in Clock /\ Works(cs.response, cs.response, now)
  BY ClocksType, WorksSame
<1>2. ASSUME NEW e, d = [cs EXCEPT !.resolution = e], Works(c, e, now)
      PROVE  BothWork(cs, d, now)
  <2>1. d = [response |-> cs.response, resolution |-> e]
    BY <1>2, ClocksType
  <2> HIDE DEF d
  <2> QED
    BY <1>1, <1>2, <2>1, PairWorks
<1>3. CASE held /\ Counting(c)
  BY <1>1, <1>2, <1>3, PauseWorks DEF HeldBy
<1>4. CASE ~held /\ c.state = "paused" /\ ~seen.waiting
  <2>1. ~Counting(c)
    BY <1>4 DEF Counting, CountingStates
  <2>2. Works(c, Resume(c, now), now)
    BY <1>1, <2>1, ResumeWorks
  <2>3. d = [cs EXCEPT !.resolution = Resume(c, now)]
    BY <1>4, <2>1 DEF HeldBy
  <2> QED
    BY <1>2, <2>2, <2>3
<1>5. CASE ~(held /\ Counting(c)) /\ ~(~held /\ c.state = "paused" /\ ~seen.waiting)
  BY <1>5, BothSame DEF HeldBy
<1> QED
  BY <1>3, <1>4, <1>5

\* A hold or a release of the clock, with whatever its caller had read.
LEMMA HoldStep ==
  ASSUME Inv, now' = now, NEW held \in BOOLEAN, NEW seen \in Seen, Hold(held, seen)
  PROVE  /\ ClockStep /\ MirrorFollows' /\ mirror' \in Dues /\ marks' \subseteq AllMarks
         /\ priority' = priority /\ rebuild' \in BOOLEAN /\ left' \in [Bounded -> Nat]
<1>1. now \in Moments /\ mirror \in Dues /\ ClocksOK(clocks) /\ rebuild \in BOOLEAN
      /\ left \in [Bounded -> Nat] /\ marks \subseteq AllMarks
  BY DEF Inv, RestOK, DeskOK, ClockInv
<1>2. marks' = marks \union Marks(held, seen) /\ marks' \subseteq AllMarks
      /\ ("copy" \notin marks' => mirror' = DueOf(clocks'))
  BY <1>1 DEF Hold, Marks, AllMarks
<1>3. MirrorFollows'
  BY <1>2, MirrorSet
<1>4. CASE /\ clocks' = HeldBy(clocks, held, seen)
           /\ IF clocks.resolution.state = "absent" THEN UNCHANGED mirror
              ELSE Mirrored(seen.due)
           /\ UNCHANGED <<priority, rebuild, spent, left>>
  <2>1. BothWork(clocks, clocks', now)
    BY <1>1, <1>4, HeldByWorks
  <2>2. ClockStep
    BY <1>4, <2>1, WorkedClocks DEF Inv
  <2>3. mirror' \in Dues
    BY <1>1, <1>4, <2>1, MirroredIs DEF BothWork
  <2> QED
    BY <1>1, <1>2, <1>3, <1>4, <2>2, <2>3
<1>5. CASE Fails({})
  <2>1. /\ left' \in [Bounded -> Nat] /\ rebuild' = TRUE /\ priority' = priority
        /\ mirror' = mirror /\ clocks' = clocks /\ spent' = spent
    BY <1>1, <1>5, FailsType
  <2>2. ClockStep
    BY <2>1, KeptClocks DEF Inv
  <2> QED
    BY <1>1, <1>2, <1>3, <2>1, <2>2
<1> QED
  BY <1>4, <1>5 DEF Hold

\* The priority of a ticket whose clocks start.
LEMMA PriorityAfterType ==
  ASSUME priority \in Priorities \union {"unset"}, NEW cs, NEW after
  PROVE  /\ PriorityAfter(cs, after) \in Priorities \union {"unset"}
         /\ Starts(cs, after) => PriorityAfter(cs, after) \in Priorities
BY DEF PriorityAfter, InitialPriority, Priorities

\* A committed transfer.
LEMMA EnteredStep ==
  ASSUME Inv, now' = now, NEW after \in StatusClasses, NEW staff \in BOOLEAN,
         NEW uses \in SUBSET Bounded, Entered(after, staff, uses)
  PROVE  /\ ClockStep /\ mirror' \in Dues
         /\ MirrorFollows => ("copy" \notin marks => mirror' = DueOf(clocks'))
         /\ status' \in StatusClasses /\ priority' \in Priorities \union {"unset"}
         /\ record' \in Seq(Event) /\ rebuild' \in BOOLEAN /\ left' \in [Bounded -> Nat]
<1> DEFINE p == PriorityAfter(clocks, after)
           begun == OrStarted(clocks, after, now, p)
           e == [kind |-> "move", at |-> now, before |-> status, after |-> after,
                 staff |-> staff]
<1>1. now \in Moments /\ mirror \in Dues /\ ClocksOK(clocks) /\ rebuild \in BOOLEAN
      /\ left \in [Bounded -> Nat] /\ priority \in Priorities \union {"unset"}
      /\ status \in StatusClasses /\ record \in Seq(Event) /\ ClockInv /\ Held \in BOOLEAN
  BY DEF Inv, RestOK, DeskOK, ClockInv, Held
<1>2. record' \in Seq(Event)
  <2> DEFINE move == "move"
  <2>1. e \in Event
    BY <1>1 DEF Event, Moments
  <2>2. record' = Append(record, e)
    BY DEF Entered
  <2> HIDE DEF e
  <2> QED
    <3> HIDE DEF Event
    <3> QED
      BY <1>1, <2>1, <2>2
<1>3. status' = after
  BY DEF Entered
<1>4. CASE /\ Spend(uses)
           /\ priority' = p
           /\ clocks' = Apply(clocks, status, after, now, staff, Held, p)
           /\ IF Live(clocks') \/ after = "backlog" THEN Mirrored(mirror)
              ELSE UNCHANGED mirror
           /\ spent' = IF Starts(clocks, after) THEN NoTime ELSE spent
           /\ UNCHANGED rebuild
  <2>1. /\ p \in Priorities \union {"unset"} /\ (Starts(clocks, after) => p \in Priorities)
    BY <1>1, PriorityAfterType
  <2> HIDE DEF p
  <2>2. BothWork(begun, clocks', now) /\ (after # "backlog" => Lasts(begun, clocks'))
    <3> DEFINE new == Apply(clocks, status, after, now, staff, Held, p)
    <3>1. BothWork(begun, new, now) /\ (after # "backlog" => Lasts(begun, new))
      BY <1>1, <2>1, ApplyWorks
    <3>2. clocks' = new
      BY <1>4
    <3> HIDE DEF new, begun
    <3> QED
      BY <3>1, <3>2
  <2>3. ClockStep
    <3>1. /\ BothWork(OrStarted(clocks, after, now, p), clocks', now)
          /\ spent' = (IF Starts(clocks, after) THEN NoTime ELSE spent)
      BY <1>4, <2>2
    <3> QED
      BY <1>1, <2>1, <3>1, EnteredClocks
  <2>4. left' \in [Bounded -> Nat]
    BY <1>1, <1>4, SpendType
  <2>5. CASE Live(clocks') \/ after = "backlog"
    <3>1. mirror' \in Dues /\ mirror' = DueOf(clocks')
      BY <1>1, <1>4, <2>2, <2>5, MirroredIs DEF BothWork
    <3> QED
      BY <1>1, <1>2, <1>3, <1>4, <2>1, <2>3, <2>4, <3>1
  <2>6. CASE ~Live(clocks') /\ after # "backlog"
    <3>1. ~Alive(clocks'.resolution) /\ ~Alive(begun.resolution)
      BY <2>2, <2>6 DEF Live, Alive, Lasts
    <3>2. ~Starts(clocks, after)
      <4>1. SUFFICES ASSUME Starts(clocks, after) PROVE FALSE
        OBVIOUS
      <4>2. begun.resolution.state = "running"
        BY <1>1, <2>1, <4>1, OrStartedIs, StartedIs DEF Kinds
      <4> QED
        BY <3>1, <4>2 DEF Alive
    <3>3. begun = clocks
      BY <1>1, <2>1, <3>2, OrStartedIs
    <3>4. DueOf(clocks') = Never /\ DueOf(clocks) = Never
      BY <3>1, <3>3 DEF DueOf, Alive, Counting, CountingStates
    <3>5. mirror' = mirror
      BY <1>4, <2>6
    <3> QED
      BY <1>1, <1>2, <1>3, <1>4, <2>1, <2>3, <2>4, <3>4, <3>5 DEF MirrorFollows
  <2> QED
    BY <2>5, <2>6
<1>5. CASE Fails(uses)
  <2>1. /\ left' \in [Bounded -> Nat] /\ rebuild' = TRUE /\ priority' = priority
        /\ mirror' = mirror /\ clocks' = clocks /\ spent' = spent
    BY <1>1, <1>5, FailsType
  <2>2. ClockStep
    BY <1>1, <2>1, KeptClocks
  <2> QED
    BY <1>1, <1>2, <1>3, <2>1, <2>2 DEF MirrorFollows
<1> QED
  BY <1>4, <1>5 DEF Entered

-----------------------------------------------------------------------------
(* Each step *)

Step == Inv' /\ Fires

LEMMA Together ==
  ASSUME DeskOK', IncidentOK', ManagerOK', ResolverOK', CloserOK', ClockStep, MirrorFollows'
  PROVE  Step
BY DEF Step, Inv, RestOK, ClockStep

LEMMA HandlersKept ==
  ASSUME RestOK
  PROVE  /\ manager' = manager => ManagerOK'
         /\ resolver' = resolver => ResolverOK'
         /\ closer' = closer => CloserOK'
         /\ incident' = incident /\ link' = link => IncidentOK'
BY DEF RestOK, ManagerOK, ResolverOK, CloserOK, IncidentOK

LEMMA WorkersKept ==
  ASSUME WorkersOK, UNCHANGED workers
  PROVE  WorkersOK'
BY DEF WorkersOK, workers

LEMMA DeskKept ==
  ASSUME DeskOK, UNCHANGED <<now, status, record, workers>>,
         priority' \in Priorities \union {"unset"}, mirror' \in Dues, rebuild' \in BOOLEAN,
         left' \in [Bounded -> Nat], marks' \subseteq AllMarks
  PROVE  DeskOK'
BY WorkersKept DEF DeskOK

\* A step that leaves the clocks, and at most spends and marks.
LEMMA ClocksAlone ==
  ASSUME Inv, UNCHANGED <<now, status, record, workers, priority, mirror, clocks, rebuild, spent>>,
         left' \in [Bounded -> Nat], marks \subseteq marks', marks' \subseteq AllMarks
  PROVE  DeskOK' /\ ClockStep /\ MirrorFollows'
<1>1. DeskOK /\ ClockInv /\ MirrorFollows
  BY DEF Inv, RestOK
<1>2. DeskOK'
  BY <1>1, DeskKept DEF DeskOK
<1>3. ClockStep
  BY <1>1, KeptClocks
<1>4. MirrorFollows'
  BY <1>1, MirrorKept
<1> QED
  BY <1>2, <1>3, <1>4

LEMMA TickStep == ASSUME Inv, Tick PROVE Step
<1>1. ClockStep
  BY TickClocks
<1>2. left' \in [Bounded -> Nat]
  <2>1. {"ticks"} \in SUBSET Bounded
    BY DEF Bounded
  <2> QED
    BY <2>1, SpendType DEF Inv, RestOK, DeskOK, Tick
<1>3. DeskOK'
  BY <1>2, TimeAssumption, WorkersKept DEF Inv, RestOK, DeskOK, Tick, Moments
<1>4. IncidentOK' /\ ManagerOK' /\ ResolverOK' /\ CloserOK'
  BY HandlersKept DEF Inv, Tick, incidentVars, handlers
<1>5. MirrorFollows'
  BY MirrorKept DEF Inv, Tick
<1> QED
  BY <1>1, <1>3, <1>4, <1>5, Together

LEMMA MoveStep == ASSUME Inv, Move PROVE Step
<1>1. PICK after \in StatusClasses, staff \in BOOLEAN : Entered(after, staff, {"moves"})
  BY DEF Move
<1>2. {"moves"} \in SUBSET Bounded /\ now' = now
  BY DEF Bounded, Move
<1>3. /\ ClockStep /\ mirror' \in Dues
      /\ MirrorFollows => ("copy" \notin marks => mirror' = DueOf(clocks'))
      /\ status' \in StatusClasses /\ priority' \in Priorities \union {"unset"}
      /\ record' \in Seq(Event) /\ rebuild' \in BOOLEAN /\ left' \in [Bounded -> Nat]
  BY <1>1, <1>2, EnteredStep
<1>4. marks \subseteq marks' /\ marks' \subseteq AllMarks
  BY DEF Inv, RestOK, DeskOK, Move, Escapes, AllMarks
<1>5. DeskOK'
  BY <1>2, <1>3, <1>4, WorkersKept DEF Inv, RestOK, DeskOK, Move
<1>6. IncidentOK' /\ ManagerOK' /\ ResolverOK' /\ CloserOK'
  BY HandlersKept DEF Inv, Move, incidentVars, handlers
<1>7. MirrorFollows'
  BY <1>3, <1>4, MirrorSet DEF Inv
<1> QED
  BY <1>3, <1>5, <1>6, <1>7, Together

LEMMA AnswerStep == ASSUME Inv, Answer PROVE Step
<1> DEFINE e == [kind |-> "response", at |-> now]
<1>1. now \in Moments /\ ClocksOK(clocks) /\ left \in [Bounded -> Nat] /\ record \in Seq(Event)
      /\ ClockInv /\ MirrorFollows /\ now' = now /\ marks' = marks
      /\ priority \in Priorities \union {"unset"} /\ mirror \in Dues /\ rebuild \in BOOLEAN
  BY DEF Inv, RestOK, DeskOK, ClockInv, Answer
<1>2. record' \in Seq(Event)
  <2>1. e \in Event
    BY <1>1 DEF Event, Moments
  <2>2. record' = Append(record, e)
    BY DEF Answer
  <2> HIDE DEF e, Event
  <2> QED
    BY <1>1, <2>1, <2>2
<1>3. {"moves"} \in SUBSET Bounded
  BY DEF Bounded
<1>4. /\ ClockStep /\ left' \in [Bounded -> Nat] /\ priority' = priority /\ mirror' = mirror
      /\ rebuild' \in BOOLEAN /\ DueOf(clocks') = DueOf(clocks)
  <2>1. CASE /\ Spend({"moves"}) /\ clocks' = Respond(clocks, now)
             /\ UNCHANGED <<priority, mirror, rebuild, spent>>
    <3>1. BothWork(clocks, clocks', now) /\ clocks'.resolution = clocks.resolution
      <4> DEFINE new == Respond(clocks, now)
      <4>1. BothWork(clocks, new, now) /\ new.resolution = clocks.resolution
        BY <1>1, RespondWorks
      <4>2. clocks' = new
        BY <2>1
      <4> HIDE DEF new
      <4> QED
        BY <4>1, <4>2
    <3>2. ClockStep
      BY <1>1, <2>1, <3>1, WorkedClocks
    <3> QED
      BY <1>1, <1>3, <2>1, <3>1, <3>2, SpendType DEF DueOf
  <2>2. CASE Fails({"moves"})
    <3>1. /\ left' \in [Bounded -> Nat] /\ rebuild' = TRUE /\ priority' = priority
          /\ mirror' = mirror /\ clocks' = clocks /\ spent' = spent
      BY <1>1, <1>3, <2>2, FailsType
    <3> QED
      BY <1>1, <3>1, KeptClocks
  <2> QED
    BY <2>1, <2>2 DEF Answer
<1>5. DeskOK'
  BY <1>1, <1>2, <1>4, WorkersKept DEF Inv, RestOK, DeskOK, Answer
<1>6. IncidentOK' /\ ManagerOK' /\ ResolverOK' /\ CloserOK'
  BY HandlersKept DEF Inv, Answer, incidentVars, handlers
<1>7. MirrorFollows'
  BY <1>1, <1>4, MirrorKept
<1> QED
  BY <1>4, <1>5, <1>6, <1>7, Together

\* What a person changes of the clocks' targets.
LEMMA EditStep ==
  ASSUME Inv, ClockStep, Mirrored(mirror), Spend({"changes"}), marks' = marks \union {"edited"},
         priority' \in Priorities \union {"unset"},
         UNCHANGED <<deskVars, rebuild, incidentVars, handlers>>
  PROVE  Step
<1>1. DeskOK /\ ClocksOK(clocks')
  BY DEF Inv, RestOK, ClockStep, ClockInv
<1>2. mirror' \in Dues /\ mirror' = DueOf(clocks')
  BY <1>1, MirroredIs DEF DeskOK
<1>3. left' \in [Bounded -> Nat]
  <2>1. {"changes"} \in SUBSET Bounded
    BY DEF Bounded
  <2> QED
    BY <1>1, <2>1, SpendType DEF DeskOK
<1>4. marks' \subseteq AllMarks /\ rebuild' \in BOOLEAN
  BY <1>1 DEF DeskOK, AllMarks
<1>5. DeskOK'
  BY <1>1, <1>2, <1>3, <1>4, DeskKept DEF deskVars
<1>6. IncidentOK' /\ ManagerOK' /\ ResolverOK' /\ CloserOK'
  BY HandlersKept DEF Inv, incidentVars, handlers
<1>7. MirrorFollows'
  BY <1>2, MirrorSet
<1> QED
  BY <1>5, <1>6, <1>7, Together

LEMMA ChangePriorityStep == ASSUME Inv, ChangePriority PROVE Step
<1>1. PICK p \in Priorities :
        /\ priority' = p
        /\ clocks' = [response |-> IF Open(clocks.response) THEN Retarget(clocks.response, p)
                                   ELSE clocks.response,
                      resolution |-> IF Open(clocks.resolution) THEN Retarget(clocks.resolution, p)
                                     ELSE clocks.resolution]
  BY DEF ChangePriority, Each
<1> DEFINE new(c) == IF Open(c) THEN Retarget(c, p) ELSE c
<1>2. /\ now \in Moments /\ now' = now /\ ClockInv /\ spent' = spent
      /\ clocks.response \in Clock /\ clocks.resolution \in Clock
      /\ Timed(clocks.response, now) /\ Timed(clocks.resolution, now)
  BY ClocksType DEF Inv, RestOK, DeskOK, ClockInv, ChangePriority, deskVars
<1>3. \A c \in Clock : Timed(c, now) => Changed(c, new(c))
  BY <1>2, RetargetChanged, SameChanged
<1>4. clocks' = [response |-> new(clocks.response), resolution |-> new(clocks.resolution)]
  BY <1>1
<1> HIDE DEF new
<1>5. ClockStep
  BY <1>2, <1>3, <1>4, ChangedClocks
<1>6. /\ Mirrored(mirror) /\ Spend({"changes"}) /\ marks' = marks \union {"edited"}
      /\ UNCHANGED <<deskVars, rebuild, incidentVars, handlers>>
  BY DEF ChangePriority
<1>7. priority' \in Priorities \union {"unset"}
  BY <1>1
<1> QED
  BY <1>5, <1>6, <1>7, EditStep

LEMMA OverrideStep == ASSUME Inv, Override PROVE Step
<1> DEFINE was == clocks.resolution
           override == "override"
           c == [was EXCEPT !.target = override]
           d == IF c.state = "paused" THEN c ELSE Recompute(c, now)
<1>1. /\ now \in Moments /\ now' = now /\ ClockInv /\ spent' = spent
      /\ clocks.response \in Clock /\ was \in Clock /\ priority \in Priorities \union {"unset"}
      /\ Timed(clocks.response, now) /\ Timed(was, now)
      /\ clocks = [response |-> clocks.response, resolution |-> was]
  BY ClocksType DEF Inv, RestOK, DeskOK, ClockInv, Override, deskVars
<1>2. clocks' = [clocks EXCEPT !.resolution = d]
  BY DEF Override
<1>3. override \in Targets
  BY DEF Targets
<1> HIDE DEF override, was
<1>4. /\ c \in Clock /\ c.kind = was.kind /\ c.state = was.state /\ c.fired = was.fired
      /\ c.asOf = was.asOf /\ c.elapsed = was.elapsed
  BY <1>1, <1>3 DEF Clock
<1> HIDE DEF c
<1>5. ElapsedAt(c, now) = ElapsedAt(was, now)
  BY <1>4 DEF ElapsedAt, Counting
<1>6. Changed(was, d)
  <2>1. CASE c.state = "paused"
    <3>1. ~Counting(c)
      BY <2>1 DEF Counting, CountingStates
    <3> QED
      BY <1>4, <1>5, <2>1, <3>1 DEF Changed, Timed
  <2>2. CASE c.state # "paused"
    <3>1. Works(c, Recompute(c, now), now) /\ Timed(Recompute(c, now), now)
      BY <1>1, <1>4, RecomputeWorks
    <3> QED
      BY <1>4, <1>5, <2>2, <3>1 DEF Changed, Works
  <2> QED
    BY <2>1, <2>2
<1> HIDE DEF d
<1>7. clocks' = [response |-> clocks.response, resolution |-> d]
  BY <1>1, <1>2
<1>8. Changed(clocks.response, clocks.response)
  BY <1>1, SameChanged
<1>9. ClockStep
  BY <1>1, <1>6, <1>7, <1>8, ChangedClocks DEF was
<1>10. /\ Mirrored(mirror) /\ Spend({"changes"}) /\ marks' = marks \union {"edited"}
       /\ UNCHANGED <<deskVars, rebuild, incidentVars, handlers>>
       /\ priority' \in Priorities \union {"unset"}
  BY <1>1 DEF Override
<1> QED
  BY <1>9, <1>10, EditStep

\* A copy of the ticket, and what a rebuild takes from one.
LEMMA CopyType ==
  ASSUME DeskOK
  PROVE  Copy \in Copies
<1>1. Linked \in BOOLEAN
  BY DEF Linked
<1> QED
  BY <1>1 DEF DeskOK, Copy, Copies

LEMMA FromCopy ==
  ASSUME NEW copy \in Copies
  PROVE  PriorityOf(copy) \in Priorities /\ HeldIn(copy) \in BOOLEAN
BY DEF Copies, PriorityOf, HeldIn, InitialPriority, Priorities

LEMMA SweepReadsStep == ASSUME Inv, SweepReads PROVE Step
<1>1. DeskOK'
  <2>1. Copy \in Copies
    BY CopyType DEF Inv, RestOK
  <2>2. WorkersOK'
    BY <2>1 DEF Inv, RestOK, DeskOK, WorkersOK, SweepReads, SweepParts
  <2> QED
    BY <2>2 DEF Inv, RestOK, DeskOK, SweepReads, clockVars
<1>2. ClockStep
  BY KeptClocks DEF Inv, SweepReads, clockVars
<1>3. MirrorFollows'
  BY MirrorKept DEF Inv, SweepReads, clockVars
<1>4. IncidentOK' /\ ManagerOK' /\ ResolverOK' /\ CloserOK'
  BY HandlersKept DEF Inv, SweepReads, incidentVars, handlers
<1> QED
  BY <1>1, <1>2, <1>3, <1>4, Together

\* The clocks replayed, with a copy of the ticket as old as it may be.
LEMMA RebuildIs ==
  ASSUME Inv, now' = now, NEW copy \in Copies, Rebuild(copy)
  PROVE  /\ ClockStep /\ MirrorFollows' /\ mirror' \in Dues /\ rebuild' \in BOOLEAN
         /\ priority' \in Priorities \union {"unset"} /\ marks' \subseteq AllMarks
<1>1. DeskOK /\ ClockInv
  BY DEF Inv, RestOK
<1>2. PICK p \in Priorities, held \in BOOLEAN : p = PriorityOf(copy) /\ held = HeldIn(copy)
  BY FromCopy
<1>3. /\ clocks' = Replayed(p, held) /\ spent' = Elapsed(clocks', now)
      /\ mirror' \in {mirror, DueOf(clocks')} /\ priority' \in {priority, p} /\ rebuild' = FALSE
  BY <1>2 DEF Rebuild
<1>4. ClockStep
  BY <1>1, <1>3, RebuiltClocks
<1>5. mirror' \in Dues
  <2>1. DueOf(clocks') \in Dues
    BY <1>4, DueOfType DEF ClockStep, ClockInv
  <2> QED
    BY <1>1, <1>3, <2>1 DEF DeskOK
<1>6. priority' \in Priorities \union {"unset"} /\ rebuild' \in BOOLEAN
  BY <1>1, <1>3 DEF DeskOK
<1>7. marks' \subseteq AllMarks /\ ("copy" \notin marks' => mirror' = DueOf(clocks'))
  BY DEF Rebuild, AllMarks
<1> QED
  BY <1>4, <1>5, <1>6, <1>7, MirrorSet

LEMMA SweepRebuildsStep == ASSUME Inv, SweepRebuilds PROVE Step
<1>1. now' = now /\ Rebuild(copied) /\ copied \in Copies
  BY DEF SweepRebuilds, Inv, RestOK, DeskOK, WorkersOK
<1>2. /\ ClockStep /\ MirrorFollows' /\ mirror' \in Dues /\ rebuild' \in BOOLEAN
      /\ priority' \in Priorities \union {"unset"} /\ marks' \subseteq AllMarks
  BY <1>1, RebuildIs
<1>3. WorkersOK'
  <2>1. NoCopy \in Copies
    BY DEF NoCopy, Copies, Dues
  <2> QED
    BY <2>1 DEF Inv, RestOK, DeskOK, WorkersOK, SweepRebuilds, SweepParts
<1>4. DeskOK'
  BY <1>2, <1>3 DEF Inv, RestOK, DeskOK, SweepRebuilds
<1>5. IncidentOK' /\ ManagerOK' /\ ResolverOK' /\ CloserOK'
  BY HandlersKept DEF Inv, SweepRebuilds, incidentVars, handlers
<1> QED
  BY <1>2, <1>4, <1>5, Together

LEMMA RebuildAskedStep == ASSUME Inv, RebuildAsked PROVE Step
<1>1. left' \in [Bounded -> Nat]
  <2>1. {"changes"} \in SUBSET Bounded
    BY DEF Bounded
  <2> QED
    BY <2>1, SpendType DEF Inv, RestOK, DeskOK, RebuildAsked
<1>2. WorkersOK'
  <2> DEFINE op == "rebuild"
             request == [op |-> op, copy |-> Copy]
  <2>1. Copy \in Copies
    BY CopyType DEF Inv, RestOK
  <2>2. request \in Asking
    BY <2>1 DEF Asking
  <2>3. asked' = request
    BY DEF RebuildAsked
  <2> HIDE DEF request
  <2> QED
    BY <2>2, <2>3 DEF Inv, RestOK, DeskOK, WorkersOK, RebuildAsked
<1>3. DeskOK'
  BY <1>1, <1>2 DEF Inv, RestOK, DeskOK, RebuildAsked, clockVars
<1>4. ClockStep /\ MirrorFollows'
  BY KeptClocks, MirrorKept DEF Inv, RebuildAsked, clockVars
<1>5. IncidentOK' /\ ManagerOK' /\ ResolverOK' /\ CloserOK'
  BY HandlersKept DEF Inv, RebuildAsked, incidentVars, handlers
<1> QED
  BY <1>3, <1>4, <1>5, Together

LEMMA AskedRebuildsStep == ASSUME Inv, AskedRebuilds PROVE Step
<1>1. now' = now /\ Rebuild(asked.copy) /\ asked.copy \in Copies
  BY DEF AskedRebuilds, Inv, RestOK, DeskOK, WorkersOK, Asking
<1>2. /\ ClockStep /\ MirrorFollows' /\ mirror' \in Dues /\ rebuild' \in BOOLEAN
      /\ priority' \in Priorities \union {"unset"} /\ marks' \subseteq AllMarks
  BY <1>1, RebuildIs
<1>3. WorkersOK'
  BY DEF Inv, RestOK, DeskOK, WorkersOK, AskedRebuilds
<1>4. DeskOK'
  BY <1>2, <1>3 DEF Inv, RestOK, DeskOK, AskedRebuilds
<1>5. IncidentOK' /\ ManagerOK' /\ ResolverOK' /\ CloserOK'
  BY HandlersKept DEF Inv, AskedRebuilds, incidentVars, handlers
<1> QED
  BY <1>2, <1>4, <1>5, Together

LEMMA SweepFiresStep == ASSUME Inv, SweepFires PROVE Step
<1> DEFINE fired(c) == Escalated(Breached(Warned(c)))
           new(c) == IF Open(c) THEN fired(c) ELSE c
<1>1. /\ now \in Moments /\ now' = now /\ ClockInv /\ spent' = spent
      /\ clocks.response \in Clock /\ clocks.resolution \in Clock
      /\ Timed(clocks.response, now) /\ Timed(clocks.resolution, now)
  BY ClocksType DEF Inv, RestOK, DeskOK, ClockInv, SweepFires
<1>2. \A c \in Clock : Timed(c, now) => Marked(c, fired(c))
  BY <1>1, FiredMarked
<1> HIDE DEF fired
<1>3. \A c \in Clock : Timed(c, now) => Marked(c, new(c)) /\ Changed(c, new(c))
  BY <1>2, MarkedSame, MarkedIs
<1>4. clocks' = [response |-> new(clocks.response), resolution |-> new(clocks.resolution)]
  BY DEF SweepFires, Each, fired
<1> HIDE DEF new
<1>5. ClockStep
  BY <1>1, <1>3, <1>4, ChangedClocks
<1>6. clocks'.resolution = new(clocks.resolution)
  BY <1>4
<1>7. DueOf(clocks') = DueOf(clocks)
  BY <1>1, <1>3, <1>6 DEF DueOf, Marked
<1>8. MirrorFollows'
  BY <1>7, MirrorKept DEF Inv, SweepFires
<1>9. DeskOK'
  BY DEF Inv, RestOK, DeskOK, WorkersOK, SweepFires, SweepParts
<1>10. IncidentOK' /\ ManagerOK' /\ ResolverOK' /\ CloserOK'
  BY HandlersKept DEF Inv, SweepFires, incidentVars, handlers
<1> QED
  BY <1>5, <1>8, <1>9, <1>10, Together

-----------------------------------------------------------------------------
(* Each step of the incident *)

\* A handler's step that leaves the desk and the clocks.
LEMMA ElsewhereStep ==
  ASSUME Inv, UNCHANGED <<now, status, record, workers, priority, mirror, clocks, rebuild, spent>>,
         left' \in [Bounded -> Nat], marks \subseteq marks', marks' \subseteq AllMarks,
         IncidentOK', ManagerOK', ResolverOK', CloserOK'
  PROVE  Step
BY ClocksAlone, Together

LEMMA HandlingType ==
  ASSUME Inv, Spend({"handlings"})
  PROVE  left' \in [Bounded -> Nat]
<1>1. {"handlings"} \in SUBSET Bounded
  BY DEF Bounded
<1> QED
  BY <1>1, SpendType DEF Inv, RestOK, DeskOK

\* What an action says of the types that it leaves.
LEMMA LeftAlone ==
  ASSUME Inv
  PROVE  /\ left' = left => left' \in [Bounded -> Nat]
         /\ marks' = marks => marks \subseteq marks' /\ marks' \subseteq AllMarks
         /\ \A more \in SUBSET AllMarks : marks' = marks \union more =>
              marks \subseteq marks' /\ marks' \subseteq AllMarks
BY DEF Inv, RestOK, DeskOK

LEMMA SeenType ==
  ASSUME Inv
  PROVE  SeenNow \in Seen
BY DEF Inv, RestOK, DeskOK, SeenNow, Seen

LEMMA DetectedStep == ASSUME Inv, Detected PROVE Step
<1>1. left' \in [Bounded -> Nat]
  BY HandlingType DEF Detected
<1>2. IncidentOK'
  BY DEF Inv, RestOK, IncidentOK, Detected, incidentVars
<1>3. WorkersOK'
  <2>1. CASE UNCHANGED triage
    BY <2>1 DEF Inv, RestOK, DeskOK, WorkersOK, Detected
  <2>2. CASE triage' # triage
    <3> DEFINE op == "join"
               sure == incident = "confirmed"
               found == [op |-> op, confirmed |-> sure, linked |-> Linked, due |-> mirror]
    <3>1. mirror \in Dues /\ sure \in BOOLEAN /\ Linked \in BOOLEAN
      BY DEF Inv, RestOK, DeskOK, Linked
    <3>2. triage' = found
      BY <2>2 DEF Detected
    <3> HIDE DEF sure
    <3>3. found \in Joining
      BY <3>1 DEF Joining
    <3> HIDE DEF found
    <3> QED
      BY <3>2, <3>3 DEF Inv, RestOK, DeskOK, WorkersOK, Detected
  <2> QED
    BY <2>1, <2>2
<1>4. UNCHANGED <<now, status, record, clockVars, handlers>>
  BY DEF Detected
<1>5. ManagerOK' /\ ResolverOK' /\ CloserOK'
  BY <1>4, HandlersKept DEF Inv, handlers
<1>6. UNCHANGED <<priority, mirror, clocks, rebuild, spent>> /\ marks' = marks
  BY <1>4 DEF clockVars
<1>7. marks' \subseteq AllMarks
  BY <1>6, LeftAlone
<1>8. DeskOK'
  BY <1>1, <1>3, <1>4, <1>6, <1>7 DEF Inv, RestOK, DeskOK
<1>9. ClockStep /\ MirrorFollows'
  BY <1>4, <1>6, KeptClocks, MirrorKept DEF Inv
<1> QED
  BY <1>2, <1>5, <1>8, <1>9, Together

LEMMA TriageJoinsStep == ASSUME Inv, TriageJoins PROVE Step
<1>1. UNCHANGED <<now, status, record, sweeping, copied, asked, priority, mirror, clocks, rebuild,
                  spent, left, incident, handlers>>
  BY DEF TriageJoins
<1>2. WorkersOK'
  <2> DEFINE attach == [op |-> "attach", due |-> triage.due]
             ask == [op |-> "ask", due |-> triage.due]
  <2>1. triage.due \in Dues
    BY DEF Inv, RestOK, DeskOK, WorkersOK, TriageJoins, Idle, Attaching, Joining
  <2>2. attach \in Attaching /\ ask \in Attaching
    BY <2>1 DEF Attaching
  <2>3. triage' \in {attach, ask, Idle}
    BY DEF TriageJoins
  <2> HIDE DEF attach, ask
  <2> QED
    BY <1>1, <2>2, <2>3 DEF Inv, RestOK, DeskOK, WorkersOK
<1>3. marks \subseteq marks' /\ marks' \subseteq AllMarks
  BY DEF Inv, RestOK, DeskOK, TriageJoins, AllMarks
<1>4. DeskOK'
  BY <1>1, <1>2, <1>3 DEF Inv, RestOK, DeskOK
<1>5. ClockStep /\ MirrorFollows'
  BY <1>1, <1>3, KeptClocks, MirrorKept DEF Inv
<1>6. IncidentOK'
  BY <1>1 DEF Inv, RestOK, IncidentOK, TriageJoins
<1>7. ManagerOK' /\ ResolverOK' /\ CloserOK'
  BY <1>1, HandlersKept DEF Inv, handlers
<1> QED
  BY <1>4, <1>5, <1>6, <1>7, Together

LEMMA AttachedStep == ASSUME Inv, Attached PROVE Step
<1> DEFINE p == PriorityAfter(clocks, "active")
           begun == OrStarted(clocks, "active", now, p)
           new == Apply(clocks, status, "active", now, FALSE, Held, p)
           holds == triage.op = "attach" \/ incident = "confirmed"
           seen == [waiting |-> FALSE, due |-> triage.due]
           held == HeldBy(new, TRUE, seen)
           move == "move"
           active == "active"
           staff == FALSE
           e == [kind |-> move, at |-> now, before |-> status, after |-> active,
                 staff |-> staff]
<1>1. /\ now \in Moments /\ now' = now /\ ClockInv /\ ClocksOK(clocks)
      /\ Held \in BOOLEAN /\ p \in Priorities \union {"unset"}
      /\ (Starts(clocks, "active") => p \in Priorities)
      /\ status \in StatusClasses /\ record \in Seq(Event)
  BY PriorityAfterType DEF Inv, RestOK, DeskOK, ClockInv, Attached, Held
<1>2. /\ priority' = p /\ clocks' = (IF holds THEN held ELSE new)
      /\ mirror' \in {DueOf(clocks'), DueOf(new)}
      /\ spent' = IF Starts(clocks, "active") THEN NoTime ELSE spent
  BY DEF Attached
<1>3. record' \in Seq(Event)
  <2>1. e \in Event
    <3>1. move = "move" /\ active \in StatusClasses /\ staff \in BOOLEAN
      BY DEF StatusClasses
    <3> HIDE DEF move, active, staff
    <3> QED
      BY <1>1, <3>1 DEF Event, Moments
  <2>2. record' = Append(record, e)
    BY DEF Attached
  <2> HIDE DEF e, Event
  <2> QED
    BY <1>1, <2>1, <2>2
<1>4. BothWork(begun, new, now)
  <2> HIDE DEF p
  <2> QED
    BY <1>1, ApplyWorks
<1>5. ClocksOK(new)
  BY <1>4 DEF BothWork
<1>6. BothWork(new, held, now) /\ BothWork(new, new, now)
  <2> HIDE DEF new, seen
  <2> QED
    BY <1>1, <1>5, HeldByWorks, BothSame
<1>7. BothWork(begun, clocks', now)
  <2> HIDE DEF begun, new, held, holds
  <2> QED
    BY <1>2, <1>4, <1>6, WorksThrough DEF BothWork
<1>8. ClockStep
  <2> HIDE DEF p
  <2> QED
    BY <1>1, <1>2, <1>7, EnteredClocks
<1>9. mirror' \in Dues
  <2>1. DueOf(clocks') \in Dues /\ DueOf(new) \in Dues
    <3> HIDE DEF new, held, holds
    <3> QED
      BY <1>5, <1>7, DueOfType DEF BothWork
  <2> QED
    BY <1>2, <2>1
<1>10. /\ marks \subseteq marks' /\ marks' \subseteq AllMarks
       /\ ("copy" \notin marks' => mirror' = DueOf(clocks'))
  BY DEF Inv, RestOK, DeskOK, Attached, AllMarks
<1>11. left' \in [Bounded -> Nat]
  <2>1. {"moves"} \in SUBSET Bounded
    BY DEF Bounded
  <2> QED
    BY <2>1, SpendType DEF Inv, RestOK, DeskOK, Attached
<1>12. DeskOK'
  <2> HIDE DEF p
  <2>1. /\ priority' \in Priorities \union {"unset"} /\ status' \in StatusClasses
        /\ now' = now /\ rebuild' = rebuild
    BY <1>1, <1>2 DEF Attached, StatusClasses
  <2>2. WorkersOK'
    BY DEF Inv, RestOK, DeskOK, WorkersOK, Attached
  <2> QED
    BY <1>3, <1>9, <1>10, <1>11, <2>1, <2>2 DEF Inv, RestOK, DeskOK
<1>13. IncidentOK' /\ ManagerOK' /\ ResolverOK' /\ CloserOK'
  BY HandlersKept DEF Inv, Attached, incidentVars, handlers
<1>14. MirrorFollows'
  BY <1>10, MirrorSet
<1> QED
  BY <1>8, <1>12, <1>13, <1>14, Together

LEMMA ManagerReadsStep == ASSUME Inv, ManagerReads PROVE Step
<1>1. left' \in [Bounded -> Nat]
  BY HandlingType DEF ManagerReads
<1>2. ManagerOK'
  <2> DEFINE resolved == status = "completed"
  <2>1. PICK op \in Operations :
          manager' = [op |-> op, seen |-> SeenNow, resolved |-> resolved]
    BY DEF ManagerReads
  <2>2. resolved \in BOOLEAN
    OBVIOUS
  <2> HIDE DEF resolved
  <2> QED
    BY <2>1, <2>2, SeenType DEF ManagerOK, Manager
<1>3. UNCHANGED <<deskVars, clockVars, incidentVars, resolver, closer>>
  BY DEF ManagerReads
<1>4. IncidentOK' /\ ResolverOK' /\ CloserOK'
  BY <1>3, HandlersKept DEF Inv, incidentVars
<1>5. UNCHANGED <<now, status, record, workers, priority, mirror, clocks, rebuild, spent>>
      /\ marks' = marks
  BY <1>3 DEF deskVars, clockVars
<1> QED
  BY <1>1, <1>2, <1>4, <1>5, LeftAlone, ElsewhereStep

\* A hold or a release in a step of a handler's.
LEMMA HoldingStep ==
  ASSUME Inv, NEW held \in BOOLEAN, NEW seen \in Seen, Hold(held, seen), UNCHANGED deskVars,
         IncidentOK', ManagerOK', ResolverOK', CloserOK'
  PROVE  Step
<1>1. now' = now
  BY DEF deskVars
<1>2. /\ ClockStep /\ MirrorFollows' /\ mirror' \in Dues /\ marks' \subseteq AllMarks
      /\ priority' = priority /\ rebuild' \in BOOLEAN /\ left' \in [Bounded -> Nat]
  BY <1>1, HoldStep
<1>3. DeskOK'
  BY <1>2, DeskKept DEF Inv, RestOK, DeskOK, deskVars
<1> QED
  BY <1>2, <1>3, Together

LEMMA ManagerCommitsStep == ASSUME Inv, ManagerCommits PROVE Step
<1>1. /\ manager \in Manager /\ manager' = Idle /\ UNCHANGED <<deskVars, resolver, closer>>
  BY DEF Inv, RestOK, ManagerOK, ManagerCommits
<1>2. ManagerOK' /\ ResolverOK' /\ CloserOK' /\ manager.seen \in Seen
  BY <1>1, HandlersKept DEF Inv, ManagerOK, Manager
<1>3. IncidentOK'
  BY DEF Inv, RestOK, IncidentOK, ManagerCommits, Confirms, Dismisses, Links, Unlinks, Reopens
<1>4. ASSUME NEW held \in BOOLEAN, Hold(held, manager.seen) PROVE Step
  BY <1>1, <1>2, <1>3, <1>4, HoldingStep
<1>5. ASSUME UNCHANGED <<priority, mirror, clocks, rebuild, spent, left>>,
             NEW more \in SUBSET AllMarks, marks' = marks \union more
      PROVE  Step
  <2>1. UNCHANGED <<now, status, record, workers, priority, mirror, clocks, rebuild, spent>>
    BY <1>1, <1>5 DEF deskVars
  <2> QED
    BY <1>2, <1>3, <1>5, <2>1, LeftAlone, ElsewhereStep
<1>6. ASSUME NoHold PROVE Step
  <2>1. /\ UNCHANGED <<priority, mirror, clocks, rebuild, spent, left>>
        /\ marks' = marks
    BY <1>6 DEF NoHold, clockVars
  <2> DEFINE none == {}
  <2>2. none \in SUBSET AllMarks /\ marks' = marks \union none
    BY <2>1
  <2> HIDE DEF none
  <2> QED
    BY <1>5, <2>1, <2>2
<1>7. CASE Confirms
  BY <1>4, <1>6, <1>7 DEF Confirms
<1>8. CASE Dismisses
  BY <1>4, <1>6, <1>8 DEF Dismisses
<1>9. CASE Links
  BY <1>4, <1>6, <1>9 DEF Links
<1>10. CASE Unlinks
  BY <1>4, <1>10 DEF Unlinks
<1>11. CASE Reopens
  <2>1. CASE Hold(TRUE, manager.seen)
    BY <1>4, <2>1
  <2>2. CASE ~Hold(TRUE, manager.seen)
    <3>1. PICK more \in SUBSET AllMarks : marks' = marks \union more
      BY <1>11, <2>2 DEF Reopens, AllMarks
    <3>2. UNCHANGED <<priority, mirror, clocks, rebuild, spent, left>>
      BY <1>11, <2>2 DEF Reopens
    <3> QED
      BY <1>5, <3>1, <3>2
  <2> QED
    BY <2>1, <2>2
<1> QED
  BY <1>7, <1>8, <1>9, <1>10, <1>11 DEF ManagerCommits

LEMMA ResolveStep == ASSUME Inv, Resolve PROVE Step
<1>1. left' \in [Bounded -> Nat]
  BY HandlingType DEF Resolve
<1>2. ResolverOK'
  BY DEF Resolve, ResolverOK, Broadcasting
<1>3. IncidentOK'
  BY DEF Inv, RestOK, IncidentOK, Resolve
<1>4. UNCHANGED <<deskVars, clockVars, link, manager, closer>>
  BY DEF Resolve
<1>5. ManagerOK' /\ CloserOK'
  BY <1>4, HandlersKept DEF Inv
<1>6. UNCHANGED <<now, status, record, workers, priority, mirror, clocks, rebuild, spent>>
      /\ marks' = marks
  BY <1>4 DEF deskVars, clockVars
<1> QED
  BY <1>1, <1>2, <1>3, <1>5, <1>6, LeftAlone, ElsewhereStep

LEMMA ResolverBroadcastsStep == ASSUME Inv, ResolverBroadcasts PROVE Step
<1>1. /\ now \in Moments /\ ClocksOK(clocks) /\ left \in [Bounded -> Nat] /\ ClockInv
      /\ priority \in Priorities \union {"unset"} /\ mirror \in Dues /\ rebuild \in BOOLEAN
      /\ marks' = marks /\ UNCHANGED <<deskVars, incidentVars, manager, closer>>
  BY DEF Inv, RestOK, DeskOK, ClockInv, ResolverBroadcasts
<1>2. /\ ClockStep /\ left' \in [Bounded -> Nat] /\ priority' = priority /\ mirror' = mirror
      /\ rebuild' \in BOOLEAN /\ DueOf(clocks') = DueOf(clocks)
  <2>1. CASE /\ clocks' = IF Linked THEN Respond(clocks, now) ELSE clocks
             /\ UNCHANGED <<priority, mirror, rebuild, spent, left>>
    <3>1. BothWork(clocks, clocks', now) /\ clocks'.resolution = clocks.resolution
      <4> DEFINE new == Respond(clocks, now)
      <4>1. BothWork(clocks, new, now) /\ new.resolution = clocks.resolution
        BY <1>1, RespondWorks
      <4>2. BothWork(clocks, clocks, now)
        BY <1>1, BothSame
      <4>3. clocks' = new \/ clocks' = clocks
        BY <2>1
      <4> HIDE DEF new
      <4> QED
        BY <4>1, <4>2, <4>3
    <3>2. ClockStep
      BY <1>1, <2>1, <3>1, WorkedClocks DEF deskVars
    <3> QED
      BY <1>1, <2>1, <3>1, <3>2 DEF DueOf
  <2>2. CASE Fails({})
    <3>1. /\ left' \in [Bounded -> Nat] /\ rebuild' = TRUE /\ priority' = priority
          /\ mirror' = mirror /\ clocks' = clocks /\ spent' = spent
      BY <1>1, <2>2, FailsType
    <3> QED
      BY <1>1, <3>1, KeptClocks DEF deskVars
  <2> QED
    BY <2>1, <2>2 DEF ResolverBroadcasts
<1>3. DeskOK'
  BY <1>1, <1>2, DeskKept DEF Inv, RestOK, DeskOK, deskVars
<1>4. ResolverOK'
  BY DEF ResolverBroadcasts, ResolverOK, Reading
<1>5. IncidentOK' /\ ManagerOK' /\ CloserOK'
  BY <1>1, HandlersKept DEF Inv, incidentVars
<1>6. MirrorFollows'
  BY <1>1, <1>2, MirrorKept DEF Inv
<1> QED
  BY <1>2, <1>3, <1>4, <1>5, <1>6, Together

LEMMA ResolverStopsStep == ASSUME Inv, ResolverStops PROVE Step
<1>1. /\ UNCHANGED <<deskVars, priority, mirror, clocks, rebuild, spent, left, incidentVars, manager,
                     closer>>
      /\ resolver' = Idle /\ marks' = marks \union Abandoned
  BY DEF ResolverStops
<1>2. Abandoned \in SUBSET AllMarks
  BY DEF Abandoned, AllMarks
<1>3. IncidentOK' /\ ManagerOK' /\ ResolverOK' /\ CloserOK'
  BY <1>1, HandlersKept DEF Inv, incidentVars, ResolverOK
<1>4. UNCHANGED <<now, status, record, workers, priority, mirror, clocks, rebuild, spent>>
      /\ left' = left
  BY <1>1 DEF deskVars
<1> QED
  BY <1>1, <1>2, <1>3, <1>4, LeftAlone, ElsewhereStep

LEMMA ResolverReadsStep == ASSUME Inv, ResolverReads PROVE Step
<1>1. UNCHANGED <<deskVars, clockVars, left, incidentVars, manager, closer>>
  BY DEF ResolverReads
<1>2. ResolverOK'
  BY SeenType DEF ResolverReads, ResolverOK, Releasing
<1>3. IncidentOK' /\ ManagerOK' /\ CloserOK'
  BY <1>1, HandlersKept DEF Inv, incidentVars
<1>4. UNCHANGED <<now, status, record, workers, priority, mirror, clocks, rebuild, spent>>
      /\ left' = left /\ marks' = marks
  BY <1>1 DEF deskVars, clockVars
<1> QED
  BY <1>2, <1>3, <1>4, LeftAlone, ElsewhereStep

LEMMA ResolverReleasesStep == ASSUME Inv, ResolverReleases PROVE Step
<1>1. /\ resolver.op = "release" /\ resolver' = Idle /\ Hold(FALSE, resolver.seen)
      /\ UNCHANGED <<deskVars, incidentVars, manager, closer>>
  BY DEF ResolverReleases
<1>2. resolver.seen \in Seen
  BY <1>1 DEF Inv, RestOK, ResolverOK, Idle, Broadcasting, Reading, Releasing
<1>3. IncidentOK' /\ ManagerOK' /\ ResolverOK' /\ CloserOK'
  BY <1>1, HandlersKept DEF Inv, incidentVars, ResolverOK
<1> QED
  BY <1>1, <1>2, <1>3, HoldingStep

LEMMA ResolverMarksStep == ASSUME Inv, ResolverMarks PROVE Step
<1>1. UNCHANGED <<deskVars, clockVars, left, incident, manager, closer>> /\ resolver' = Idle
  BY DEF ResolverMarks
<1>2. IncidentOK' /\ ResolverOK'
  BY <1>1 DEF Inv, RestOK, IncidentOK, ResolverMarks, ResolverOK
<1>3. ManagerOK' /\ CloserOK'
  BY <1>1, HandlersKept DEF Inv
<1>4. UNCHANGED <<now, status, record, workers, priority, mirror, clocks, rebuild, spent>>
      /\ left' = left /\ marks' = marks
  BY <1>1 DEF deskVars, clockVars
<1> QED
  BY <1>2, <1>3, <1>4, LeftAlone, ElsewhereStep

LEMMA CloserReadsStep == ASSUME Inv, CloserReads PROVE Step
<1>1. UNCHANGED <<deskVars, clockVars, left, incidentVars, manager, resolver>>
  BY DEF CloserReads
<1>2. CloserOK'
  BY SeenType DEF CloserReads, CloserOK, Closer
<1>3. IncidentOK' /\ ManagerOK' /\ ResolverOK'
  BY <1>1, HandlersKept DEF Inv, incidentVars
<1>4. UNCHANGED <<now, status, record, workers, priority, mirror, clocks, rebuild, spent>>
      /\ left' = left /\ marks' = marks
  BY <1>1 DEF deskVars, clockVars
<1> QED
  BY <1>2, <1>3, <1>4, LeftAlone, ElsewhereStep

LEMMA CloserArrivesStep == ASSUME Inv, CloserArrives PROVE Step
<1>1. UNCHANGED <<now, workers, marks, incident, manager, resolver>> /\ closer' = Idle
  BY DEF CloserArrives
<1>2. IncidentOK'
  BY <1>1 DEF Inv, RestOK, IncidentOK, CloserArrives
<1>3. ManagerOK' /\ ResolverOK' /\ CloserOK'
  BY <1>1, HandlersKept DEF Inv, CloserOK
<1>4. CASE status = "completed"
  <2>1. UNCHANGED <<now, status, record, workers, priority, mirror, clocks, rebuild, spent, left>>
    BY <1>1, <1>4 DEF CloserArrives
  <2> QED
    BY <1>1, <1>2, <1>3, <2>1, LeftAlone, ElsewhereStep
<1>5. CASE status # "completed"
  <2> DEFINE after == "completed"
             staff == FALSE
             uses == {"moves"}
  <2>1. Entered(after, staff, uses) /\ after \in StatusClasses /\ staff \in BOOLEAN
        /\ uses \in SUBSET Bounded
    BY <1>5 DEF CloserArrives, StatusClasses, Bounded
  <2> HIDE DEF after, staff, uses
  <2>2. /\ ClockStep /\ mirror' \in Dues
        /\ MirrorFollows => ("copy" \notin marks => mirror' = DueOf(clocks'))
        /\ status' \in StatusClasses /\ priority' \in Priorities \union {"unset"}
        /\ record' \in Seq(Event) /\ rebuild' \in BOOLEAN /\ left' \in [Bounded -> Nat]
    BY <1>1, <2>1, EnteredStep
  <2>3. DeskOK'
    BY <1>1, <2>2, WorkersKept DEF Inv, RestOK, DeskOK
  <2>4. MirrorFollows'
    BY <1>1, <2>2, MirrorSet DEF Inv
  <2> QED
    BY <1>2, <1>3, <2>2, <2>3, <2>4, Together
<1> QED
  BY <1>4, <1>5

LEMMA CloserRefusedStep == ASSUME Inv, CloserRefused PROVE Step
<1>1. UNCHANGED <<deskVars, clockVars, left, incident, manager, resolver>>
  BY DEF CloserRefused
<1>2. CloserOK'
  <2> DEFINE release == "release"
             next == [closer EXCEPT !.op = release]
  <2>1. closer \in Closer
    BY DEF Inv, RestOK, CloserOK, CloserRefused, Idle
  <2>2. release \in {"move", "release"}
    OBVIOUS
  <2> HIDE DEF release
  <2>3. next \in Closer
    BY <2>1, <2>2 DEF Closer
  <2>4. closer' = next
    BY DEF CloserRefused, release
  <2> HIDE DEF next
  <2> QED
    BY <2>3, <2>4 DEF CloserOK
<1>3. IncidentOK'
  BY <1>1 DEF Inv, RestOK, IncidentOK, CloserRefused
<1>4. ManagerOK' /\ ResolverOK'
  BY <1>1, HandlersKept DEF Inv
<1>5. UNCHANGED <<now, status, record, workers, priority, mirror, clocks, rebuild, spent>>
      /\ left' = left /\ marks' = marks
  BY <1>1 DEF deskVars, clockVars
<1> QED
  BY <1>2, <1>3, <1>4, <1>5, LeftAlone, ElsewhereStep

LEMMA CloserReleasesStep == ASSUME Inv, CloserReleases PROVE Step
<1>1. /\ closer.op = "release" /\ closer' = Idle /\ Hold(FALSE, closer.seen)
      /\ UNCHANGED <<deskVars, incidentVars, manager, resolver>>
  BY DEF CloserReleases
<1>2. closer.seen \in Seen
  BY <1>1 DEF Inv, RestOK, CloserOK, Idle, Closer
<1>3. IncidentOK' /\ ManagerOK' /\ ResolverOK' /\ CloserOK'
  BY <1>1, HandlersKept DEF Inv, incidentVars, CloserOK
<1> QED
  BY <1>1, <1>2, <1>3, HoldingStep

LEMMA CloserLeavesStep == ASSUME Inv, CloserLeaves PROVE Step
<1> DEFINE more == IF closer.op = "release" THEN Abandoned ELSE {}
<1>1. /\ UNCHANGED <<deskVars, priority, mirror, clocks, rebuild, spent, left, incidentVars, manager,
                     resolver>>
      /\ closer' = Idle /\ marks' = marks \union more
  BY DEF CloserLeaves
<1>2. more \in SUBSET AllMarks
  BY DEF Abandoned, AllMarks
<1> HIDE DEF more
<1>3. IncidentOK' /\ ManagerOK' /\ ResolverOK' /\ CloserOK'
  BY <1>1, HandlersKept DEF Inv, incidentVars, CloserOK
<1>4. UNCHANGED <<now, status, record, workers, priority, mirror, clocks, rebuild, spent>>
      /\ left' = left
  BY <1>1 DEF deskVars
<1> QED
  BY <1>1, <1>2, <1>3, <1>4, LeftAlone, ElsewhereStep

LEMMA IncidentClosesStep == ASSUME Inv, IncidentCloses PROVE Step
<1>1. UNCHANGED <<deskVars, clockVars, left, link, handlers>>
  BY DEF IncidentCloses
<1>2. IncidentOK'
  BY DEF Inv, RestOK, IncidentOK, IncidentCloses
<1>3. ManagerOK' /\ ResolverOK' /\ CloserOK'
  BY <1>1, HandlersKept DEF Inv, handlers
<1>4. UNCHANGED <<now, status, record, workers, priority, mirror, clocks, rebuild, spent>>
      /\ left' = left /\ marks' = marks
  BY <1>1 DEF deskVars, clockVars
<1> QED
  BY <1>2, <1>3, <1>4, LeftAlone, ElsewhereStep

LEMMA StutterStep == ASSUME Inv, UNCHANGED vars PROVE Step
<1>1. UNCHANGED <<now, status, record, workers, priority, mirror, clocks, rebuild, spent>>
      /\ left' = left /\ marks' = marks
  BY DEF vars, workers
<1>2. IncidentOK' /\ ManagerOK' /\ ResolverOK' /\ CloserOK'
  BY HandlersKept DEF Inv, vars
<1> QED
  BY <1>1, <1>2, LeftAlone, ElsewhereStep

LEMMA NextStep == ASSUME Inv, [Next]_vars PROVE Step
<1>1. CASE Tick \/ Move \/ Answer \/ ChangePriority \/ Override
  BY <1>1, TickStep, MoveStep, AnswerStep, ChangePriorityStep, OverrideStep
<1>2. CASE SweepReads \/ SweepRebuilds \/ SweepFires \/ RebuildAsked \/ AskedRebuilds
  BY <1>2, SweepReadsStep, SweepRebuildsStep, SweepFiresStep, RebuildAskedStep,
     AskedRebuildsStep
<1>3. CASE Detected \/ TriageJoins \/ Attached \/ ManagerReads \/ ManagerCommits
  BY <1>3, DetectedStep, TriageJoinsStep, AttachedStep, ManagerReadsStep, ManagerCommitsStep
<1>4. CASE Resolve \/ ResolverBroadcasts \/ ResolverStops \/ ResolverReads \/ ResolverReleases
           \/ ResolverMarks
  BY <1>4, ResolveStep, ResolverBroadcastsStep, ResolverStopsStep, ResolverReadsStep,
     ResolverReleasesStep, ResolverMarksStep
<1>5. CASE CloserReads \/ CloserArrives \/ CloserRefused \/ CloserReleases \/ CloserLeaves
           \/ IncidentCloses
  BY <1>5, CloserReadsStep, CloserArrivesStep, CloserRefusedStep, CloserReleasesStep,
     CloserLeavesStep, IncidentClosesStep
<1>6. CASE UNCHANGED vars
  BY <1>6, StutterStep
<1> QED
  BY <1>1, <1>2, <1>3, <1>4, <1>5, <1>6 DEF Next

-----------------------------------------------------------------------------
(* The clocks follow the ticket *)

\* Somebody is yet to let a clock run that is held.
HeldForAReason ==
  Linked /\ (incident = "confirmed" \/ link = "closing" \/ resolver # Idle
             \/ closer.op = "release")
Dropped == marks \intersect {"kept", "unreleased"} # {}
Escaped == marks \intersect {"late", "unheld"} # {}

ResolutionWaits ==
  LET c == clocks.resolution
  IN /\ status = "waiting" /\ "late" \notin marks => ~Counting(c)
     /\ c.state = "paused" /\ ~Dropped => status = "waiting" \/ HeldForAReason
     /\ Held /\ ~Escaped => ~Counting(c)
Following == ~rebuild => Follows(clocks, status) /\ ResolutionWaits

\* Nobody else links the ticket while a manager does.
LinkerKnows == manager.op = "link" => ~Linked

Tracking == Recorded /\ LinkerKnows /\ Following

LEMMA TrackingInit == Init => Tracking
<1> SUFFICES ASSUME Init PROVE Tracking
  OBVIOUS
<1>1. Recorded
  <2> DEFINE backlog == "backlog"
             classes == [n \in 0 .. 0 |-> backlog]
  <2>1. record = <<>> /\ status = backlog /\ backlog \in StatusClasses
    BY DEF Init, StatusClasses
  <2> HIDE DEF backlog
  <2>2. Len(record) = 0
    BY <2>1
  <2>3. classes \in [0 .. 0 -> StatusClasses] /\ classes[0] = backlog
    BY <2>1
  <2> HIDE DEF classes
  <2>4. Journey(classes)
    BY <2>1, <2>2, <2>3 DEF Journey, backlog
  <2> QED
    BY <2>4 DEF Recorded
<1>2. LinkerKnows
  BY DEF Init, LinkerKnows, Idle
<1>3. clocks.response.state = "absent" /\ clocks.resolution.state = "absent"
  BY DEF Init, NoClocks, Absent
<1>4. Following
  BY <1>3 DEF Init, Following, Follows, ResolutionWaits, Open, OpenStates, Counting, CountingStates
<1> QED
  BY <1>1, <1>2, <1>4 DEF Tracking

\* The record grows by an event of the class it leads to.
LEMMA RecordGrows ==
  ASSUME Recorded, record \in Seq(Event), status \in StatusClasses, status' \in StatusClasses,
         NEW e, record' = Append(record, e),
         IF e.kind = "move" THEN e.before = status /\ e.after = status' ELSE status' = status
  PROVE  Recorded'
<1>1. PICK classes : Journey(classes)
  BY DEF Recorded
<1> DEFINE n == Len(record)
           new == [m \in 0 .. n + 1 |-> IF m = n + 1 THEN status' ELSE classes[m]]
<1>2. n \in Nat /\ Len(record') = n + 1 /\ record'[n + 1] = e
      /\ \A m \in 1 .. n : record'[m] = record[m]
  <2> HIDE DEF Event
  <2> QED
    OBVIOUS
<1>3. classes \in [0 .. n -> StatusClasses] /\ classes[0] = "backlog" /\ classes[n] = status
  BY <1>1 DEF Journey
<1>4. new \in [0 .. n + 1 -> StatusClasses] /\ new[n + 1] = status' /\ new[0] = "backlog"
      /\ \A m \in 0 .. n : new[m] = classes[m]
  <2> HIDE DEF n
  <2> QED
    BY <1>2, <1>3
<1>5. \A m \in 1 .. n : /\ m \in 0 .. n /\ m - 1 \in 0 .. n /\ new[m] = classes[m]
                        /\ new[m - 1] = classes[m - 1]
  <2> HIDE DEF new, n
  <2> QED
    BY <1>2, <1>4
<1> HIDE DEF new
<1>6. ASSUME NEW m \in 1 .. n + 1
      PROVE  IF record'[m].kind = "move"
             THEN record'[m].before = new[m - 1] /\ record'[m].after = new[m]
             ELSE new[m] = new[m - 1]
  <2>1. CASE m = n + 1
    <3>1. new[m - 1] = status /\ new[m] = status' /\ record'[m] = e
      BY <1>2, <1>3, <1>4, <2>1
    <3> QED
      BY <3>1
  <2>2. CASE m # n + 1
    <3>1. m \in 1 .. n
      BY <1>2, <2>2
    <3>2. IF record[m].kind = "move"
          THEN record[m].before = classes[m - 1] /\ record[m].after = classes[m]
          ELSE classes[m] = classes[m - 1]
      BY <1>1, <3>1 DEF Journey
    <3> QED
      BY <1>2, <1>5, <3>1, <3>2
  <2> QED
    BY <2>1, <2>2
<1>7. /\ new \in [0 .. Len(record') -> StatusClasses]
      /\ new[0] = "backlog" /\ new[Len(record')] = status'
      /\ \A m \in 1 .. Len(record') :
           IF record'[m].kind = "move"
           THEN record'[m].before = new[m - 1] /\ record'[m].after = new[m]
           ELSE new[m] = new[m - 1]
  BY <1>2, <1>4, <1>6
<1> QED
  BY <1>7 DEF Recorded, Journey

LEMMA RecordKept ==
  ASSUME Recorded, record' = record, status' = status
  PROVE  Recorded'
BY DEF Recorded, Journey

\* A step that leaves both clocks alike, or meets the response.
LEMMA AlikeFollow ==
  ASSUME Following, ClocksOK(clocks), status' = status, rebuild' = rebuild,
         marks \subseteq marks',
         Alike(clocks.response, clocks'.response) \/ clocks'.response.state = "met",
         Alike(clocks.resolution, clocks'.resolution),
         HeldForAReason /\ status # "completed" => HeldForAReason' \/ Dropped',
         Held' /\ Counting(clocks.resolution) =>
           \/ Held \/ Escaped'
           \/ status \in {"backlog", "completed"}
  PROVE  Following'
<1> SUFFICES ASSUME ~rebuild PROVE Follows(clocks', status) /\ ResolutionWaits'
  BY DEF Following
<1>1. Follows(clocks, status) /\ ResolutionWaits
  BY DEF Following
<1>2. Follows(clocks', status)
  BY <1>1 DEF Follows, Alike, Live, Open, OpenStates, Counting, CountingStates
<1>3. /\ Counting(clocks'.resolution) <=> Counting(clocks.resolution)
      /\ clocks'.resolution.state = "paused" <=> clocks.resolution.state = "paused"
  BY DEF Alike, Counting, CountingStates
<1>4. /\ clocks.resolution.state = "paused" => status # "completed"
      /\ Counting(clocks.resolution) => status \notin {"backlog", "completed"}
  BY <1>1 DEF Follows, Open, OpenStates, Counting
<1>5. (Dropped => Dropped') /\ (Escaped => Escaped')
  BY DEF Dropped, Escaped
<1>6. ResolutionWaits'
  BY <1>1, <1>3, <1>4, <1>5 DEF ResolutionWaits
<1> QED
  BY <1>2, <1>6

\* One that leaves the clocks as they are.
LEMMA SameFollow ==
  ASSUME Inv, Following, status' = status, rebuild' = rebuild, clocks' = clocks,
         marks \subseteq marks',
         HeldForAReason /\ status # "completed" => HeldForAReason' \/ Dropped',
         Held' /\ Counting(clocks.resolution) =>
           \/ Held \/ Escaped'
           \/ status \in {"backlog", "completed"}
  PROVE  Following'
BY AlikeFollow DEF Alike, Inv, ClockInv

\* One that fails leaves the rest to the sweep.
LEMMA FailsFollow ==
  ASSUME NEW uses, Fails(uses)
  PROVE  Following'
BY DEF Following, Fails

LEMMA ResolutionSet ==
  ASSUME NEW cs, ClocksOK(cs), NEW e, NEW ds, ds = [cs EXCEPT !.resolution = e]
  PROVE  ds.response = cs.response /\ ds.resolution = e
BY ClocksType

\* The states a hold and a release leave.
LEMMA HeldStates ==
  ASSUME now \in Moments, NEW cs, ClocksOK(cs), NEW seen, NEW ds, ds = HeldBy(cs, TRUE, seen)
  PROVE  /\ ds.response = cs.response
         /\ Counting(cs.resolution) => ds.resolution.state = "paused"
         /\ ~Counting(cs.resolution) => ds = cs
<1> DEFINE d == Pause(cs.resolution, now)
           new == HeldBy(cs, TRUE, seen)
<1>1. ASSUME Counting(cs.resolution)
      PROVE  new.response = cs.response /\ new.resolution.state = "paused"
  <2>1. new = [cs EXCEPT !.resolution = d]
    BY <1>1 DEF HeldBy
  <2>2. d.state = "paused"
    BY ClocksType, PauseWorks
  <2> HIDE DEF d, new
  <2>3. new.response = cs.response /\ new.resolution = d
    BY <2>1, ResolutionSet
  <2> QED
    BY <2>2, <2>3
<1>2. ~Counting(cs.resolution) => new = cs
  BY DEF HeldBy
<1>3. ds = new
  OBVIOUS
<1> HIDE DEF new
<1> QED
  BY <1>1, <1>2, <1>3

LEMMA ReleasedStates ==
  ASSUME now \in Moments, NEW cs, ClocksOK(cs), NEW seen, NEW ds, ds = HeldBy(cs, FALSE, seen)
  PROVE  /\ ds.response = cs.response
         /\ cs.resolution.state = "paused" /\ ~seen.waiting => Counting(ds.resolution)
         /\ ~(cs.resolution.state = "paused" /\ ~seen.waiting) => ds = cs
<1> DEFINE d == Resume(cs.resolution, now)
           new == HeldBy(cs, FALSE, seen)
<1>1. ASSUME cs.resolution.state = "paused", ~seen.waiting
      PROVE  new.response = cs.response /\ Counting(new.resolution)
  <2>1. ~Counting(cs.resolution)
    BY <1>1 DEF Counting, CountingStates
  <2>2. new = [cs EXCEPT !.resolution = d]
    BY <1>1, <2>1 DEF HeldBy
  <2>3. d.state \in CountingStates
    BY <2>1, ClocksType, ResumeWorks
  <2> HIDE DEF d, new
  <2>4. new.response = cs.response /\ new.resolution = d
    BY <2>2, ResolutionSet
  <2> QED
    BY <2>3, <2>4 DEF Counting
<1>2. ~(cs.resolution.state = "paused" /\ ~seen.waiting) => new = cs
  BY DEF HeldBy
<1>3. ds = new
  OBVIOUS
<1> HIDE DEF new
<1> QED
  BY <1>1, <1>2, <1>3

\* A hold by a handler of a confirmed incident.
LEMMA HoldFollows ==
  ASSUME Inv, Following, NEW seen \in Seen, Hold(TRUE, seen), status' = status, Held',
         incident' = "confirmed"
  PROVE  Following'
<1>1. CASE Fails({})
  BY <1>1, FailsFollow
<1>2. CASE ~Fails({})
  <2>1. clocks' = HeldBy(clocks, TRUE, seen) /\ rebuild' = rebuild /\ marks \subseteq marks'
    BY <1>2 DEF Hold
  <2> SUFFICES ASSUME ~rebuild PROVE Follows(clocks', status) /\ ResolutionWaits'
    BY <2>1 DEF Following
  <2>2. Follows(clocks, status)
    BY DEF Following
  <2>4. /\ clocks'.response = clocks.response
        /\ Counting(clocks.resolution) => clocks'.resolution.state = "paused"
        /\ ~Counting(clocks.resolution) => clocks' = clocks
    <3>1. now \in Moments /\ ClocksOK(clocks)
      BY DEF Inv, RestOK, DeskOK, ClockInv
    <3> QED
      BY <2>1, <3>1, HeldStates
  <2>5. ~Counting(clocks'.resolution)
    BY <2>4 DEF Counting, CountingStates
  <2>6. Follows(clocks', status)
    BY <2>2, <2>4 DEF Follows, Live, Open, OpenStates, Counting, CountingStates
  <2>7. HeldForAReason'
    BY DEF HeldForAReason, Held
  <2>8. ResolutionWaits'
    BY <2>5, <2>7 DEF ResolutionWaits
  <2> QED
    BY <2>6, <2>8
<1> QED
  BY <1>1, <1>2

\* A release, by a handler that may know an old ticket.
LEMMA ReleaseFollows ==
  ASSUME Inv, Following, NEW seen \in Seen, Hold(FALSE, seen), status' = status,
         Held' => Held
  PROVE  Following'
<1>1. CASE Fails({})
  BY <1>1, FailsFollow
<1>2. CASE ~Fails({})
  <2>1. /\ clocks' = HeldBy(clocks, FALSE, seen) /\ rebuild' = rebuild
        /\ marks' = marks \union Marks(FALSE, seen)
    BY <1>2 DEF Hold
  <2> SUFFICES ASSUME ~rebuild PROVE Follows(clocks', status) /\ ResolutionWaits'
    BY <2>1 DEF Following
  <2>2. Follows(clocks, status) /\ ResolutionWaits
    BY DEF Following
  <2>4. /\ clocks'.response = clocks.response
        /\ clocks.resolution.state = "paused" /\ ~seen.waiting => Counting(clocks'.resolution)
        /\ ~(clocks.resolution.state = "paused" /\ ~seen.waiting) => clocks' = clocks
    BY <2>1, ReleasedStates DEF Inv, RestOK, DeskOK, ClockInv
  <2>5. /\ clocks' # clocks /\ (status = "waiting" \/ Held') => "late" \in marks'
        /\ clocks.resolution.state = "paused" /\ seen.waiting /\ status # "waiting" =>
             "kept" \in marks'
        /\ marks \subseteq marks'
    BY <2>1 DEF Marks
  <2>6. CASE clocks.resolution.state = "paused" /\ ~seen.waiting
    <3>1. Counting(clocks'.resolution) /\ clocks' # clocks
      BY <2>4, <2>6 DEF Counting, CountingStates
    <3>2. clocks'.resolution.state # "paused" /\ clocks'.resolution.state # "met"
      BY <3>1 DEF Counting, CountingStates
    <3>3. Follows(clocks', status)
      BY <2>2, <2>4, <2>6, <3>1 DEF Follows, Live, Open, OpenStates, Counting, CountingStates
    <3>4. ResolutionWaits'
      BY <2>5, <3>1, <3>2 DEF ResolutionWaits, Escaped
    <3> QED
      BY <3>3, <3>4
  <2>7. CASE ~(clocks.resolution.state = "paused" /\ ~seen.waiting)
    <3>1. clocks' = clocks
      BY <2>4, <2>7
    <3>2. (Dropped => Dropped') /\ (Escaped => Escaped')
      BY <2>5 DEF Dropped, Escaped
    <3>3. clocks.resolution.state = "paused" /\ status # "waiting" => Dropped'
      BY <2>5, <2>7 DEF Dropped
    <3>4. ResolutionWaits'
      BY <2>2, <2>5, <3>1, <3>2, <3>3 DEF ResolutionWaits
    <3> QED
      BY <2>2, <3>1, <3>4
  <2> QED
    BY <2>6, <2>7
<1> QED
  BY <1>1, <1>2

\* A committed transfer; a clock that comes to count in a confirmed incident leaves a mark.
LEMMA EnteredFollows ==
  ASSUME Inv, Tracking, now' = now, NEW after \in StatusClasses, NEW staff \in BOOLEAN, NEW uses,
         Entered(after, staff, uses), marks \subseteq marks',
         after # "completed" =>
           UNCHANGED <<incidentVars, resolver, closer>> /\ marks' = marks \union Escapes
  PROVE  Recorded' /\ Following'
<1> DEFINE move == "move"
           e == [kind |-> move, at |-> now, before |-> status, after |-> after, staff |-> staff]
<1>1. /\ status \in StatusClasses /\ record \in Seq(Event) /\ status' = after
      /\ record' = Append(record, e) /\ now \in Moments /\ ClocksOK(clocks)
      /\ priority \in Priorities \union {"unset"} /\ Held \in BOOLEAN
  BY DEF Inv, RestOK, DeskOK, ClockInv, Entered, Held
<1>2. e.kind = "move" /\ e.before = status /\ e.after = status'
  BY <1>1
<1>3. Recorded'
  <2> HIDE DEF e
  <2> QED
    BY <1>1, <1>2, RecordGrows DEF Tracking
<1>4. CASE Fails(uses)
  BY <1>3, <1>4, FailsFollow
<1>5. CASE ~Fails(uses)
  <2> DEFINE p == PriorityAfter(clocks, after)
  <2>1. clocks' = Apply(clocks, status, after, now, staff, Held, p) /\ rebuild' = rebuild
    BY <1>5 DEF Entered
  <2>2. Starts(clocks, after) => p \in Priorities
    BY <1>1, PriorityAfterType
  <2> HIDE DEF p
  <2> SUFFICES ASSUME ~rebuild PROVE Follows(clocks', after) /\ ResolutionWaits'
    BY <1>1, <1>3, <2>1 DEF Following
  <2>3. Follows(clocks, status) /\ ResolutionWaits
    BY DEF Tracking, Following
  <2>4. /\ ClocksOK(clocks') /\ Follows(clocks', after)
        /\ after = "waiting" /\ Counting(clocks'.resolution) =>
             status = "waiting" /\ Counting(clocks.resolution)
        /\ clocks'.resolution.state = "paused" =>
             \/ after = "waiting"
             \/ clocks.resolution.state = "paused" /\ (Held \/ status # "waiting")
    BY <1>1, <2>1, <2>2, <2>3, ApplyFollows
  <2>5. CASE after = "completed"
    <3>1. ~Open(clocks'.resolution)
      BY <2>4, <2>5 DEF Follows
    <3>2. ~Counting(clocks'.resolution) /\ clocks'.resolution.state # "paused"
      BY <3>1 DEF Open, OpenStates, Counting
    <3> QED
      BY <2>4, <3>2 DEF ResolutionWaits
  <2>6. CASE after # "completed"
    <3>1. /\ UNCHANGED <<incident, link, resolver, closer>> /\ marks' = marks \union Escapes
      BY <2>6 DEF incidentVars
    <3>2. /\ HeldForAReason' <=> HeldForAReason
          /\ Held' <=> Held
          /\ Dropped => Dropped'
          /\ Escaped => Escaped'
      BY <3>1 DEF HeldForAReason, Held, Linked, Dropped, Escaped
    <3>3. Held => HeldForAReason
      BY DEF Held, HeldForAReason
    <3>4. Held /\ Counting(clocks'.resolution) /\ ~Counting(clocks.resolution) => Escaped'
      BY <3>1 DEF Escapes, Escaped
    <3>5. ResolutionWaits'
      BY <1>1, <2>3, <2>4, <3>1, <3>2, <3>3, <3>4 DEF ResolutionWaits
    <3> QED
      BY <2>4, <3>5
  <2> QED
    BY <2>5, <2>6
<1> QED
  BY <1>4, <1>5

\* A rebuild, from the record: it holds the clock for the incident its copy of the ticket was in.
LEMMA RebuildFollows ==
  ASSUME Inv, Tracking, NEW copy \in Copies, Rebuild(copy),
         UNCHANGED <<status, record, incidentVars>>
  PROVE  Following'
<1>1. PICK p \in Priorities, held \in BOOLEAN : p = PriorityOf(copy) /\ held = HeldIn(copy)
  BY FromCopy
<1>2. /\ clocks' = Replayed(p, held) /\ status' = status /\ (Held' <=> Held)
      /\ UNCHANGED <<incident, link>>
      /\ Held /\ Counting(clocks'.resolution) => "unheld" \in marks'
      /\ held /\ ~Linked => "kept" \in marks'
      /\ held => incident = "confirmed"
  BY <1>1 DEF Rebuild, Held, Linked, incidentVars, HeldIn
<1>3. Traces(clocks', status, held)
  BY <1>2, ReplayedTraces DEF Inv, RestOK, DeskOK, Tracking
<1>4. held => HeldForAReason' \/ Dropped'
  BY <1>2 DEF HeldForAReason, Dropped, Linked
<1>5. ResolutionWaits'
  BY <1>2, <1>3, <1>4 DEF ResolutionWaits, Traces, Escaped
<1> QED
  BY <1>2, <1>3, <1>5 DEF Following, Traces

\* Each step keeps track.
LEMMA Tracked ==
  ASSUME Recorded', LinkerKnows', Following'
  PROVE  Tracking'
BY DEF Tracking

LEMMA TickTracks == ASSUME Inv, Tracking, Tick PROVE Tracking'
<1>1. UNCHANGED <<status, clocks, rebuild, record, marks, incident, link, manager, resolver, closer>>
  BY DEF Tick, incidentVars, handlers
<1>2. Recorded' /\ LinkerKnows'
  BY <1>1, RecordKept DEF Tracking, LinkerKnows, Linked
<1>3. (HeldForAReason' <=> HeldForAReason) /\ (Held' <=> Held)
  BY <1>1 DEF HeldForAReason, Held, Linked
<1>4. Following'
  BY <1>1, <1>3, SameFollow DEF Tracking
<1> QED
  BY <1>2, <1>4, Tracked

LEMMA MoveTracks == ASSUME Inv, Tracking, Move PROVE Tracking'
<1>1. PICK after \in StatusClasses, staff \in BOOLEAN : Entered(after, staff, {"moves"})
  BY DEF Move
<1>2. now' = now /\ marks' = marks \union Escapes /\ UNCHANGED <<incidentVars, manager, resolver, closer>>
  BY DEF Move, handlers
<1>3. Recorded' /\ Following'
  <2> DEFINE uses == {"moves"}
  <2>1. Entered(after, staff, uses)
    BY <1>1
  <2> HIDE DEF uses
  <2> QED
    BY <1>2, <2>1, EnteredFollows
<1>4. LinkerKnows'
  BY <1>2 DEF Tracking, LinkerKnows, Linked, incidentVars
<1> QED
  BY <1>3, <1>4, Tracked

LEMMA AnswerTracks == ASSUME Inv, Tracking, Answer PROVE Tracking'
<1> DEFINE response == "response"
           e == [kind |-> response, at |-> now]
<1>1. /\ record' = Append(record, e) /\ status' = status /\ marks' = marks
      /\ UNCHANGED <<incident, link, manager, resolver, closer>>
      /\ record \in Seq(Event) /\ status \in StatusClasses /\ now \in Moments /\ ClocksOK(clocks)
  BY DEF Answer, incidentVars, handlers, Inv, RestOK, DeskOK, ClockInv
<1>2. e.kind # "move"
  OBVIOUS
<1> HIDE DEF e
<1>3. Recorded' /\ LinkerKnows'
  BY <1>1, <1>2, RecordGrows DEF Tracking, LinkerKnows, Linked
<1>4. (HeldForAReason' <=> HeldForAReason) /\ (Held' <=> Held)
  BY <1>1 DEF HeldForAReason, Held, Linked
<1>5. Following'
  <2>1. CASE Fails({"moves"})
    BY <2>1, FailsFollow
  <2>2. CASE ~Fails({"moves"})
    <3>1. clocks' = Respond(clocks, now) /\ rebuild' = rebuild
      BY <2>2 DEF Answer
    <3>2. /\ clocks'.resolution = clocks.resolution
          /\ Open(clocks.response) => clocks'.response.state = "met"
          /\ ~Open(clocks.response) => clocks'.response = clocks.response
      BY <1>1, <3>1, RespondStates
    <3> QED
      BY <1>1, <1>4, <3>1, <3>2, AlikeFollow DEF Tracking, Alike
  <2> QED
    BY <2>1, <2>2
<1> QED
  BY <1>3, <1>5, Tracked

LEMMA RetargetAlike ==
  ASSUME now \in Moments, NEW c \in Clock, NEW p \in Priorities, Open(c)
  PROVE  Alike(c, Retarget(c, p))
<1> DEFINE f == IF c.state = "paused" THEN c ELSE Fold(c, now)
           target == IF f.target = "override" THEN f.target ELSE p
           t == [f EXCEPT !.target = target]
           goal == Goals[t.kind][t.target].due
           over == t.elapsed >= goal /\ "due" \notin t.fired
           breached == "breached"
           fired == t.fired \union {"due"}
           b == [t EXCEPT !.state = breached, !.fired = fired]
           u == IF over THEN b ELSE t
           new == Retarget(c, p)
<1>1. new = IF t.state = "paused" THEN t ELSE Recompute(u, now)
  BY DEF Retarget
<1>2. f \in Clock /\ f.state = c.state
  BY FoldIs
<1>3. target \in Targets
  <2> HIDE DEF f
  <2> QED
    BY <1>2 DEF Clock, Targets
<1> HIDE DEF f, target
<1>4. t \in Clock /\ t.state = c.state
  BY <1>2, <1>3 DEF Clock
<1> HIDE DEF t
<1>5. CASE c.state = "paused"
  BY <1>1, <1>4, <1>5 DEF Alike
<1>6. CASE c.state # "paused"
  <2>1. breached \in ClockStates /\ fired \in SUBSET Levels /\ breached \in CountingStates
    BY <1>4 DEF ClockStates, OpenStates, CountingStates, Clock, Levels
  <2> HIDE DEF breached, fired
  <2>2. b \in Clock /\ b.state = breached
    BY <1>4, <2>1 DEF Clock
  <2>3. Counting(c)
    BY <1>6 DEF Open, OpenStates, Counting
  <2>4. u \in Clock /\ Counting(u)
    BY <1>4, <2>1, <2>2, <2>3 DEF Counting
  <2>5. new = Recompute(u, now)
    BY <1>1, <1>4, <1>6
  <2> HIDE DEF u, new
  <2>6. Counting(new)
    BY <2>4, <2>5, RecomputeIs DEF Counting
  <2> QED
    BY <2>3, <2>6 DEF Alike, new
<1> QED
  BY <1>5, <1>6

\* A change of the clocks alone that leaves them alike.
LEMMA AlikeTracks ==
  ASSUME Inv, Tracking, UNCHANGED <<status, record, rebuild, incidentVars, handlers>>,
         marks \subseteq marks', Alike(clocks.response, clocks'.response),
         Alike(clocks.resolution, clocks'.resolution)
  PROVE  Tracking'
<1>1. Recorded' /\ LinkerKnows'
  BY RecordKept DEF Tracking, LinkerKnows, Linked, incidentVars, handlers
<1>2. (HeldForAReason' <=> HeldForAReason) /\ (Held' <=> Held)
  BY DEF HeldForAReason, Held, Linked, incidentVars, handlers
<1>3. Following'
  BY <1>2, AlikeFollow DEF Tracking, Inv, ClockInv
<1> QED
  BY <1>1, <1>3, Tracked

LEMMA ChangePriorityTracks == ASSUME Inv, Tracking, ChangePriority PROVE Tracking'
<1>1. UNCHANGED <<status, record, rebuild, incidentVars, handlers>> /\ marks \subseteq marks'
  BY DEF ChangePriority, deskVars
<1>2. now \in Moments /\ clocks.response \in Clock /\ clocks.resolution \in Clock
  BY ClocksType DEF Inv, RestOK, DeskOK, ClockInv
<1>3. PICK p \in Priorities :
        LET Moved(c) == Retarget(c, p) IN clocks' = Each(clocks, Open, Moved)
  BY DEF ChangePriority
<1> DEFINE new(c) == IF Open(c) THEN Retarget(c, p) ELSE c
<1>4. \A c \in Clock : Alike(c, new(c))
  BY <1>2, RetargetAlike DEF Alike
<1>5. clocks' = [response |-> new(clocks.response), resolution |-> new(clocks.resolution)]
  BY <1>3 DEF Each
<1> HIDE DEF new
<1>6. clocks'.response = new(clocks.response) /\ clocks'.resolution = new(clocks.resolution)
  BY <1>5
<1> QED
  BY <1>1, <1>2, <1>4, <1>6, AlikeTracks

LEMMA OverrideTracks == ASSUME Inv, Tracking, Override PROVE Tracking'
<1> DEFINE override == "override"
           c == [clocks.resolution EXCEPT !.target = override]
           d == IF c.state = "paused" THEN c ELSE Recompute(c, now)
<1>1. UNCHANGED <<status, record, rebuild, incidentVars, handlers>> /\ marks \subseteq marks'
      /\ clocks' = [clocks EXCEPT !.resolution = d]
  BY DEF Override, deskVars
<1>2. now \in Moments /\ clocks.resolution \in Clock
      /\ clocks = [response |-> clocks.response, resolution |-> clocks.resolution]
  BY ClocksType DEF Inv, RestOK, DeskOK, ClockInv
<1>3. override \in Targets
  BY DEF Targets
<1> HIDE DEF override
<1>4. c \in Clock /\ c.state = clocks.resolution.state
  BY <1>2, <1>3 DEF Clock
<1> HIDE DEF c
<1>5. d.state = clocks.resolution.state
  BY <1>2, <1>4, RecomputeIs
<1> HIDE DEF d
<1>6. clocks'.response = clocks.response /\ clocks'.resolution = d
  BY <1>1, <1>2
<1> QED
  BY <1>1, <1>5, <1>6, AlikeTracks DEF Alike

LEMMA SweepReadsTracks == ASSUME Inv, Tracking, SweepReads PROVE Tracking'
BY AlikeTracks DEF SweepReads, clockVars, Alike

LEMMA RebuildTracks ==
  ASSUME Inv, Tracking, NEW copy \in Copies, Rebuild(copy),
         UNCHANGED <<status, record, incidentVars, handlers>>
  PROVE  Tracking'
<1>1. Recorded' /\ LinkerKnows'
  BY RecordKept DEF Tracking, LinkerKnows, Linked, incidentVars, handlers
<1>2. Following'
  BY RebuildFollows
<1> QED
  BY <1>1, <1>2, Tracked

LEMMA SweepRebuildsTracks == ASSUME Inv, Tracking, SweepRebuilds PROVE Tracking'
<1>1. copied \in Copies
  BY DEF Inv, RestOK, DeskOK, WorkersOK
<1> QED
  BY <1>1, RebuildTracks DEF SweepRebuilds

LEMMA RebuildAskedTracks == ASSUME Inv, Tracking, RebuildAsked PROVE Tracking'
BY AlikeTracks DEF RebuildAsked, clockVars, Alike

LEMMA AskedRebuildsTracks == ASSUME Inv, Tracking, AskedRebuilds PROVE Tracking'
<1>1. asked.copy \in Copies
  BY DEF Inv, RestOK, DeskOK, WorkersOK, AskedRebuilds, Asking
<1> QED
  BY <1>1, RebuildTracks DEF AskedRebuilds

LEMMA FiredAlike ==
  ASSUME now \in Moments, NEW c \in Clock, Timed(c, now)
  PROVE  Alike(c, Escalated(Breached(Warned(c))))
<1>1. CASE Counting(c)
  BY <1>1, FiredMarked DEF Marked, Alike
<1>2. CASE ~Counting(c)
  <2>1. Warned(c) = c /\ Breached(c) = c /\ Escalated(c) = c
    BY <1>2 DEF Warned, Breached, Escalated, Counting, CountingStates
  <2> QED
    BY <2>1 DEF Alike
<1> QED
  BY <1>1, <1>2

LEMMA SweepFiresTracks == ASSUME Inv, Tracking, SweepFires PROVE Tracking'
<1> DEFINE fired(c) == Escalated(Breached(Warned(c)))
           new(c) == IF Open(c) THEN fired(c) ELSE c
<1>1. UNCHANGED <<status, record, rebuild, incidentVars, handlers>> /\ marks \subseteq marks'
  BY DEF SweepFires
<1>2. /\ now \in Moments /\ clocks.response \in Clock /\ clocks.resolution \in Clock
      /\ Timed(clocks.response, now) /\ Timed(clocks.resolution, now)
  BY ClocksType DEF Inv, RestOK, DeskOK, ClockInv
<1>3. \A c \in Clock : Timed(c, now) => Alike(c, new(c))
  BY <1>2, FiredAlike DEF Alike
<1>4. clocks' = [response |-> new(clocks.response), resolution |-> new(clocks.resolution)]
  BY DEF SweepFires, Each
<1> HIDE DEF new
<1>5. clocks'.response = new(clocks.response) /\ clocks'.resolution = new(clocks.resolution)
  BY <1>4
<1> QED
  BY <1>1, <1>2, <1>3, <1>5, AlikeTracks

\* A step of the incident's handlers, that leaves the ticket and its clocks.
LEMMA HandlersTrack ==
  ASSUME Inv, Tracking, UNCHANGED <<status, record, clocks, rebuild>>, marks \subseteq marks',
         LinkerKnows', HeldForAReason /\ status # "completed" => HeldForAReason' \/ Dropped',
         Held' => Held \/ Escaped' \/ status \in {"backlog", "completed"}
  PROVE  Tracking'
<1>1. Recorded'
  BY RecordKept DEF Tracking
<1>2. Following'
  BY SameFollow DEF Tracking
<1> QED
  BY <1>1, <1>2, Tracked

LEMMA DetectedTracks == ASSUME Inv, Tracking, Detected PROVE Tracking'
<1>1. UNCHANGED <<status, record, clocks, rebuild, marks, manager, resolver, closer>>
  BY DEF Detected, clockVars, handlers
<1>2. CASE incident = "none" /\ manager = Idle /\ ~Linked /\ incident' = "proposed"
  <2>1. LinkerKnows' /\ ~HeldForAReason /\ ~Held'
    BY <1>1, <1>2 DEF LinkerKnows, Idle, HeldForAReason, Held
  <2> QED
    BY <1>1, <2>1, HandlersTrack
<1>3. CASE UNCHANGED incidentVars
  <2>1. /\ LinkerKnows' /\ (HeldForAReason' <=> HeldForAReason) /\ (Held' <=> Held)
    BY <1>1, <1>3 DEF Tracking, LinkerKnows, HeldForAReason, Held, Linked, incidentVars
  <2> QED
    BY <1>1, <2>1, HandlersTrack
<1> QED
  BY <1>2, <1>3 DEF Detected

\* The ticket linked while its clock runs leaves a mark.
LEMMA TriageJoinsTracks == ASSUME Inv, Tracking, TriageJoins PROVE Tracking'
<1>1. /\ UNCHANGED <<status, record, clocks, rebuild, incident, manager, resolver, closer>>
      /\ marks \subseteq marks' /\ manager = Idle /\ (Linked => link' = link)
  BY DEF TriageJoins, handlers
<1>2. LinkerKnows'
  BY <1>1 DEF LinkerKnows, Idle
<1>3. HeldForAReason => HeldForAReason'
  BY <1>1 DEF HeldForAReason, Linked
<1>4. Recorded'
  BY <1>1, RecordKept DEF Tracking
<1>5. Held' => incident = "confirmed"
  BY <1>1 DEF Held
<1>6. incident = "confirmed" /\ Counting(clocks.resolution) => Escaped'
  BY DEF TriageJoins, Escaped
<1>7. Dropped => Dropped'
  BY <1>1 DEF Dropped
<1>8. Following'
  <2> SUFFICES ASSUME ~rebuild PROVE Follows(clocks, status) /\ ResolutionWaits'
    BY <1>1 DEF Following
  <2>1. Follows(clocks, status) /\ ResolutionWaits
    BY DEF Tracking, Following
  <2> QED
    BY <1>1, <1>3, <1>5, <1>6, <1>7, <2>1 DEF ResolutionWaits
<1> QED
  BY <1>2, <1>4, <1>8, Tracked

\* A clock held for an incident that is none of the ticket's any more, or no longer confirmed,
\* leaves a mark.
LEMMA AttachedTracks == ASSUME Inv, Tracking, Attached PROVE Tracking'
<1> DEFINE move == "move"
           active == "active"
           staff == FALSE
           e == [kind |-> move, at |-> now, before |-> status, after |-> active, staff |-> staff]
           p == PriorityAfter(clocks, active)
           new == Apply(clocks, status, active, now, staff, Held, p)
           holds == triage.op = "attach" \/ incident = "confirmed"
           seen == [waiting |-> staff, due |-> triage.due]
<1>1. /\ status \in StatusClasses /\ record \in Seq(Event) /\ now \in Moments /\ ClocksOK(clocks)
      /\ priority \in Priorities \union {"unset"} /\ Held \in BOOLEAN /\ active \in StatusClasses
      /\ active = "active" /\ move = "move" /\ staff \in BOOLEAN
  BY DEF Inv, RestOK, DeskOK, ClockInv, Held, StatusClasses
<1>2. /\ status' = active /\ record' = Append(record, e) /\ rebuild' = rebuild
      /\ clocks' = (IF holds THEN HeldBy(new, TRUE, seen) ELSE new)
      /\ marks \subseteq marks' /\ (holds /\ ~Held => "kept" \in marks')
      /\ UNCHANGED <<incident, link, manager, resolver, closer>>
  BY DEF Attached, handlers, incidentVars
<1>3. Held => holds
  BY DEF Held
<1>4. seen \in Seen
  <2>1. triage.due \in Dues
    BY DEF Inv, RestOK, DeskOK, WorkersOK, Attached, Idle, Attaching, Joining
  <2> QED
    BY <1>1, <2>1 DEF Seen
<1> HIDE DEF active, move, staff, seen, holds
<1>5. e.kind = "move" /\ e.before = status /\ e.after = status'
  BY <1>1, <1>2
<1>6. Recorded'
  <2> HIDE DEF e
  <2> QED
    BY <1>1, <1>2, <1>5, RecordGrows DEF Tracking
<1>7. LinkerKnows'
  BY <1>2 DEF Tracking, LinkerKnows, Linked
<1>8. /\ (HeldForAReason' <=> HeldForAReason) /\ (Held' <=> Held) /\ (Held => HeldForAReason)
      /\ (Dropped => Dropped') /\ (holds /\ ~Held => Dropped')
  BY <1>2 DEF HeldForAReason, Held, Linked, Dropped
<1>9. Following'
  <2> SUFFICES ASSUME ~rebuild PROVE Follows(clocks', active) /\ ResolutionWaits'
    BY <1>2 DEF Following
  <2>1. Follows(clocks, status) /\ ResolutionWaits
    BY DEF Tracking, Following
  <2>2. Starts(clocks, active) => p \in Priorities
    BY <1>1, PriorityAfterType
  <2> HIDE DEF p
  <2>3. /\ ClocksOK(new) /\ Follows(new, active)
        /\ new.resolution.state = "paused" =>
             \/ active = "waiting"
             \/ clocks.resolution.state = "paused" /\ (Held \/ status # "waiting")
    BY <1>1, <2>1, <2>2, ApplyFollows
  <2> HIDE DEF new
  <2>4. CASE holds
    <3>1. clocks' = HeldBy(new, TRUE, seen)
      BY <1>2, <2>4
    <3>2. /\ clocks'.response = new.response
          /\ Counting(new.resolution) => clocks'.resolution.state = "paused"
          /\ ~Counting(new.resolution) => clocks' = new
      BY <1>1, <1>4, <2>3, <3>1, HeldStates
    <3>3. Follows(clocks', active) /\ ~Counting(clocks'.resolution)
      BY <1>1, <2>3, <3>2 DEF Follows, Live, Open, OpenStates, Counting, CountingStates
    <3> QED
      BY <1>8, <2>4, <3>3 DEF ResolutionWaits
  <2>5. CASE ~holds
    <3>1. clocks' = new /\ ~Held /\ active # "waiting"
      BY <1>1, <1>2, <1>3, <2>5
    <3>2. clocks'.resolution.state = "paused" =>
            clocks.resolution.state = "paused" /\ status # "waiting"
      BY <2>3, <3>1
    <3>3. ResolutionWaits'
      BY <1>2, <1>8, <2>1, <3>1, <3>2 DEF ResolutionWaits
    <3> QED
      BY <2>3, <3>1, <3>3
  <2> QED
    BY <2>4, <2>5
<1> QED
  BY <1>6, <1>7, <1>9, Tracked

LEMMA ManagerReadsTracks == ASSUME Inv, Tracking, ManagerReads PROVE Tracking'
<1>1. /\ UNCHANGED <<status, record, clocks, rebuild, marks, incident, link, resolver, closer>>
  BY DEF ManagerReads, deskVars, clockVars, incidentVars
<1>2. (HeldForAReason' <=> HeldForAReason) /\ (Held' <=> Held)
  BY <1>1 DEF HeldForAReason, Held, Linked
<1>3. LinkerKnows'
  <2>1. PICK op \in Operations :
          /\ MayHandle(op)
          /\ manager' = [op |-> op, seen |-> SeenNow, resolved |-> status = "completed"]
    BY DEF ManagerReads
  <2>2. manager'.op = op
    BY <2>1
  <2>3. op = "link" => ~Linked
    BY <2>1 DEF MayHandle
  <2> QED
    BY <1>1, <2>2, <2>3 DEF LinkerKnows, Linked
<1> QED
  BY <1>1, <1>2, <1>3, HandlersTrack

LEMMA ManagerCommitsTracks == ASSUME Inv, Tracking, ManagerCommits PROVE Tracking'
<1>1. /\ manager \in Manager /\ manager' = Idle
      /\ UNCHANGED <<now, status, record, resolver, closer>>
  BY DEF Inv, RestOK, ManagerOK, ManagerCommits, deskVars
<1>2. Recorded' /\ LinkerKnows' /\ manager.seen \in Seen
  BY <1>1, RecordKept DEF Tracking, LinkerKnows, Idle, Manager
<1>3. Inv /\ Following /\ (LinkerKnows /\ manager.op = "link" => ~Linked)
  BY DEF Tracking, LinkerKnows
<1>4. NoHold => UNCHANGED <<clocks, rebuild, marks>>
  BY DEF NoHold, clockVars
<1>5. CASE Confirms
  <2>1. incident' = "confirmed"
    BY <1>5 DEF Confirms
  <2>2. CASE Linked'
    <3>1. Hold(TRUE, manager.seen) /\ Held'
      BY <1>5, <2>1, <2>2 DEF Confirms, Held
    <3> QED
      BY <1>1, <1>2, <1>3, <2>1, <3>1, HoldFollows, Tracked
  <2>3. CASE ~Linked'
    <3>1. NoHold /\ ~Held' /\ ~Linked
      BY <1>5, <2>3 DEF Confirms, Held, Linked
    <3> QED
      BY <1>1, <1>2, <1>4, <3>1, HandlersTrack DEF HeldForAReason
  <2> QED
    BY <2>2, <2>3
<1>6. CASE Dismisses
  <2>1. ~Held'
    BY <1>6 DEF Dismisses, Held, Linked
  <2>2. CASE Linked
    <3>1. Hold(FALSE, manager.seen)
      BY <1>6, <2>2 DEF Dismisses
    <3> QED
      BY <1>1, <1>2, <1>3, <2>1, <3>1, ReleaseFollows, Tracked
  <2>3. CASE ~Linked
    <3>1. NoHold
      BY <1>6, <2>3 DEF Dismisses
    <3> QED
      BY <1>1, <1>2, <1>4, <2>1, <2>3, <3>1, HandlersTrack DEF HeldForAReason
  <2> QED
    BY <2>2, <2>3
<1>7. CASE Links
  <2>1. incident' = incident /\ link' = "linked" /\ Linked' /\ ~Linked
    BY <1>3, <1>7 DEF Links, Linked, Tracking
  <2>2. CASE incident = "confirmed"
    <3>1. Hold(TRUE, manager.seen) /\ Held' /\ incident' = "confirmed"
      BY <1>7, <2>1, <2>2 DEF Links, Held
    <3> QED
      BY <1>1, <1>2, <1>3, <3>1, HoldFollows, Tracked
  <2>3. CASE incident # "confirmed"
    <3>1. NoHold /\ ~Held'
      BY <1>7, <2>1, <2>3 DEF Links, Held
    <3> QED
      BY <1>1, <1>2, <1>4, <2>1, <3>1, HandlersTrack DEF HeldForAReason
  <2> QED
    BY <2>2, <2>3
<1>8. CASE Unlinks
  <2>1. ~Held' /\ Hold(FALSE, manager.seen)
    BY <1>8 DEF Unlinks, Held, Linked
  <2> QED
    BY <1>1, <1>2, <1>3, <2>1, ReleaseFollows, Tracked
<1>9. CASE Reopens
  <2>1. incident' = "confirmed" /\ (Linked' <=> Linked)
    BY <1>9 DEF Reopens, Linked
  <2>2. CASE Linked /\ ~manager.resolved /\ Hold(TRUE, manager.seen)
    <3>1. Held'
      BY <2>1, <2>2 DEF Held
    <3> QED
      BY <1>1, <1>2, <1>3, <2>1, <2>2, <3>1, HoldFollows, Tracked
  <2>3. CASE ~(Linked /\ ~manager.resolved /\ Hold(TRUE, manager.seen))
    <3>1. /\ UNCHANGED <<clocks, rebuild>> /\ marks \subseteq marks'
          /\ Linked /\ Counting(clocks.resolution) => "late" \in marks'
      BY <1>9, <2>3 DEF Reopens
    <3>2. HeldForAReason => HeldForAReason'
      BY <2>1 DEF HeldForAReason
    <3>3. Held' /\ Counting(clocks.resolution) => Escaped'
      BY <2>1, <3>1 DEF Held, Escaped
    <3>4. Following'
      BY <1>1, <1>3, <3>1, <3>2, <3>3, SameFollow
    <3> QED
      BY <1>2, <3>4, Tracked
  <2> QED
    BY <2>2, <2>3
<1> QED
  BY <1>5, <1>6, <1>7, <1>8, <1>9 DEF ManagerCommits

LEMMA ResolveTracks == ASSUME Inv, Tracking, Resolve PROVE Tracking'
<1>1. /\ UNCHANGED <<status, record, clocks, rebuild, marks, link, manager, closer>>
      /\ incident' = "resolved" /\ resolver' # Idle
  <2>1. \E closeAll \in BOOLEAN : resolver' = [op |-> "broadcast", closeAll |-> closeAll]
    BY DEF Resolve
  <2>2. resolver' # Idle
    BY <2>1 DEF Idle
  <2> QED
    BY <2>2 DEF Resolve, deskVars, clockVars
<1>2. (Linked' <=> Linked) /\ LinkerKnows' /\ ~Held' /\ (HeldForAReason => HeldForAReason')
  BY <1>1 DEF Linked, LinkerKnows, Tracking, Held, HeldForAReason
<1> QED
  BY <1>1, <1>2, HandlersTrack

LEMMA ResolverBroadcastsTracks == ASSUME Inv, Tracking, ResolverBroadcasts PROVE Tracking'
<1>1. /\ UNCHANGED <<status, record, marks, incident, link, manager, closer>>
      /\ resolver' # Idle
  <2>1. resolver' = [op |-> IF resolver.closeAll THEN "mark" ELSE "read"]
    BY DEF ResolverBroadcasts
  <2>2. resolver'.op # "idle"
    BY <2>1
  <2> QED
    BY <2>2 DEF ResolverBroadcasts, deskVars, incidentVars, Idle
<1>2. /\ LinkerKnows' /\ (Held' <=> Held) /\ (HeldForAReason => HeldForAReason')
  BY <1>1 DEF Linked, LinkerKnows, Tracking, Held, HeldForAReason
<1>3. Recorded'
  BY <1>1, RecordKept DEF Tracking
<1>4. Following'
  <2>1. CASE Fails({})
    BY <2>1, FailsFollow
  <2>2. CASE ~Fails({})
    <3>1. /\ clocks' = IF Linked THEN Respond(clocks, now) ELSE clocks
          /\ rebuild' = rebuild
      BY <2>2 DEF ResolverBroadcasts
    <3>2. now \in Moments /\ ClocksOK(clocks)
      BY DEF Inv, RestOK, DeskOK, ClockInv
    <3>3. /\ clocks'.resolution = clocks.resolution
          /\ clocks'.response.state = "met" \/ clocks'.response = clocks.response
      BY <3>1, <3>2, RespondStates
    <3> QED
      BY <1>1, <1>2, <3>1, <3>2, <3>3, AlikeFollow DEF Tracking, Alike
  <2> QED
    BY <2>1, <2>2
<1> QED
  BY <1>2, <1>3, <1>4, Tracked

LEMMA ResolverStopsTracks == ASSUME Inv, Tracking, ResolverStops PROVE Tracking'
<1>1. /\ UNCHANGED <<status, record, clocks, rebuild, incident, link, manager, closer>>
      /\ marks' = marks \union Abandoned
  BY DEF ResolverStops, deskVars, incidentVars
<1>2. LinkerKnows' /\ (Held' <=> Held)
  BY <1>1 DEF Linked, LinkerKnows, Tracking, Held
<1>3. HeldForAReason => Dropped'
  BY <1>1 DEF HeldForAReason, Abandoned, Dropped
<1> QED
  BY <1>1, <1>2, <1>3, HandlersTrack

LEMMA ResolverReadsTracks == ASSUME Inv, Tracking, ResolverReads PROVE Tracking'
<1>1. /\ UNCHANGED <<status, record, clocks, rebuild, marks, incident, link, manager, closer>>
      /\ Linked => resolver' # Idle
  <2>1. resolver' = IF Linked THEN [op |-> "release", seen |-> SeenNow] ELSE Idle
    BY DEF ResolverReads
  <2>2. Linked => resolver'.op = "release"
    BY <2>1
  <2>3. Linked => resolver' # Idle
    BY <2>2 DEF Idle
  <2> QED
    BY <2>3 DEF ResolverReads, deskVars, clockVars, incidentVars
<1>2. LinkerKnows' /\ (Held' <=> Held) /\ (HeldForAReason => HeldForAReason')
  BY <1>1 DEF Linked, LinkerKnows, Tracking, Held, HeldForAReason
<1> QED
  BY <1>1, <1>2, HandlersTrack

LEMMA ResolverReleasesTracks == ASSUME Inv, Tracking, ResolverReleases PROVE Tracking'
<1>1. /\ UNCHANGED <<status, record, incident, link, manager, closer>>
      /\ Hold(FALSE, resolver.seen) /\ resolver.op = "release"
  BY DEF ResolverReleases, deskVars, incidentVars
<1>2. resolver.seen \in Seen
  BY <1>1 DEF Inv, RestOK, ResolverOK, Idle, Broadcasting, Reading, Releasing
<1>3. LinkerKnows' /\ (Held' <=> Held)
  BY <1>1 DEF Linked, LinkerKnows, Tracking, Held
<1>4. Recorded' /\ Following'
  BY <1>1, <1>2, <1>3, RecordKept, ReleaseFollows DEF Tracking
<1> QED
  BY <1>3, <1>4, Tracked

LEMMA ResolverMarksTracks == ASSUME Inv, Tracking, ResolverMarks PROVE Tracking'
<1>1. /\ UNCHANGED <<status, record, clocks, rebuild, marks, incident, manager, closer>>
      /\ link' = IF Linked /\ status # "completed" THEN "closing" ELSE link
  BY DEF ResolverMarks, deskVars, clockVars
<1>2. (Linked' <=> Linked)
  BY <1>1 DEF Linked
<1>3. LinkerKnows' /\ (Held' <=> Held)
  BY <1>1, <1>2 DEF LinkerKnows, Tracking, Held
<1>4. HeldForAReason /\ status # "completed" => HeldForAReason'
  BY <1>1, <1>2 DEF HeldForAReason
<1> QED
  BY <1>1, <1>3, <1>4, HandlersTrack

LEMMA CloserReadsTracks == ASSUME Inv, Tracking, CloserReads PROVE Tracking'
<1>1. /\ UNCHANGED <<status, record, clocks, rebuild, marks, incident, link, manager, resolver>>
      /\ closer = Idle
  BY DEF CloserReads, deskVars, clockVars, incidentVars
<1>2. LinkerKnows' /\ (Held' <=> Held)
  BY <1>1 DEF Linked, LinkerKnows, Tracking, Held
<1>3. HeldForAReason => HeldForAReason'
  BY <1>1 DEF HeldForAReason, Idle, Linked
<1> QED
  BY <1>1, <1>2, <1>3, HandlersTrack

LEMMA CloserArrivesTracks == ASSUME Inv, Tracking, CloserArrives PROVE Tracking'
<1>1. /\ UNCHANGED <<now, marks, incident, manager, resolver>>
      /\ link' = IF Linked THEN "closed" ELSE link
  BY DEF CloserArrives
<1>2. (Linked' <=> Linked) /\ LinkerKnows' /\ (Held' <=> Held)
  BY <1>1 DEF Linked, LinkerKnows, Tracking, Held
<1>3. CASE status = "completed"
  <2>1. UNCHANGED <<status, record, clocks, rebuild>>
    BY <1>3 DEF CloserArrives
  <2> QED
    BY <1>1, <1>2, <1>3, <2>1, HandlersTrack
<1>4. CASE status # "completed"
  <2> DEFINE after == "completed"
             staff == FALSE
             uses == {"moves"}
  <2>1. Entered(after, staff, uses) /\ after \in StatusClasses /\ staff \in BOOLEAN
        /\ after = "completed"
    BY <1>4 DEF CloserArrives, StatusClasses
  <2> HIDE DEF after, staff, uses
  <2>2. Recorded' /\ Following'
    BY <1>1, <2>1, EnteredFollows
  <2> QED
    BY <1>2, <2>2, Tracked
<1> QED
  BY <1>3, <1>4

LEMMA CloserRefusedTracks == ASSUME Inv, Tracking, CloserRefused PROVE Tracking'
<1>1. /\ UNCHANGED <<status, record, clocks, rebuild, marks, incident, manager, resolver>>
      /\ link' = IF Linked THEN "failed" ELSE link
  BY DEF CloserRefused, deskVars, clockVars
<1>2. closer'.op = "release"
  <2>1. closer \in Closer
    BY DEF Inv, RestOK, CloserOK, CloserRefused, Idle
  <2> DEFINE release == "release"
  <2>2. closer' = [closer EXCEPT !.op = release]
    BY DEF CloserRefused
  <2> HIDE DEF release
  <2>3. closer'.op = release
    BY <2>1, <2>2 DEF Closer
  <2> QED
    BY <2>3 DEF release
<1>3. (Linked' <=> Linked) /\ LinkerKnows' /\ (Held' <=> Held)
  BY <1>1 DEF Linked, LinkerKnows, Tracking, Held
<1>4. HeldForAReason => HeldForAReason'
  BY <1>2, <1>3 DEF HeldForAReason
<1> QED
  BY <1>1, <1>3, <1>4, HandlersTrack

LEMMA CloserReleasesTracks == ASSUME Inv, Tracking, CloserReleases PROVE Tracking'
<1>1. /\ UNCHANGED <<status, record, incident, link, manager, resolver>>
      /\ Hold(FALSE, closer.seen) /\ closer.op = "release"
  BY DEF CloserReleases, deskVars, incidentVars
<1>2. closer.seen \in Seen
  BY <1>1 DEF Inv, RestOK, CloserOK, Idle, Closer
<1>3. LinkerKnows' /\ (Held' <=> Held)
  BY <1>1 DEF Linked, LinkerKnows, Tracking, Held
<1>4. Recorded' /\ Following'
  BY <1>1, <1>2, <1>3, RecordKept, ReleaseFollows DEF Tracking
<1> QED
  BY <1>3, <1>4, Tracked

LEMMA CloserLeavesTracks == ASSUME Inv, Tracking, CloserLeaves PROVE Tracking'
<1>1. /\ UNCHANGED <<status, record, clocks, rebuild, incident, link, manager, resolver>>
      /\ marks' = marks \union IF closer.op = "release" THEN Abandoned ELSE {}
  BY DEF CloserLeaves, deskVars, incidentVars
<1>2. LinkerKnows' /\ (Held' <=> Held)
  BY <1>1 DEF Linked, LinkerKnows, Tracking, Held
<1>3. HeldForAReason => HeldForAReason' \/ Dropped'
  <2>1. CASE closer.op = "release"
    BY <1>1, <2>1 DEF HeldForAReason, Abandoned, Dropped
  <2>2. CASE closer.op # "release"
    BY <1>1, <2>2 DEF HeldForAReason, Linked
  <2> QED
    BY <2>1, <2>2
<1>4. marks \subseteq marks'
  BY <1>1
<1> QED
  BY <1>1, <1>2, <1>3, <1>4, HandlersTrack

LEMMA IncidentClosesTracks == ASSUME Inv, Tracking, IncidentCloses PROVE Tracking'
<1>1. /\ UNCHANGED <<status, record, clocks, rebuild, marks, link, manager, resolver, closer>>
      /\ incident = "resolved" /\ incident' = "closed"
  BY DEF IncidentCloses, deskVars, clockVars, handlers
<1>2. LinkerKnows' /\ ~Held' /\ (HeldForAReason => HeldForAReason')
  BY <1>1 DEF Linked, LinkerKnows, Tracking, Held, HeldForAReason
<1> QED
  BY <1>1, <1>2, HandlersTrack

LEMMA StutterTracks == ASSUME Inv, Tracking, UNCHANGED vars PROVE Tracking'
BY AlikeTracks DEF vars, incidentVars, handlers, Alike

LEMMA NextTracks == ASSUME Inv, Tracking, [Next]_vars PROVE Tracking'
<1>1. CASE Tick \/ Move \/ Answer \/ ChangePriority \/ Override
  BY <1>1, TickTracks, MoveTracks, AnswerTracks, ChangePriorityTracks, OverrideTracks
<1>2. CASE SweepReads \/ SweepRebuilds \/ SweepFires \/ RebuildAsked \/ AskedRebuilds
  BY <1>2, SweepReadsTracks, SweepRebuildsTracks, SweepFiresTracks, RebuildAskedTracks,
     AskedRebuildsTracks
<1>3. CASE Detected \/ TriageJoins \/ Attached \/ ManagerReads \/ ManagerCommits
  BY <1>3, DetectedTracks, TriageJoinsTracks, AttachedTracks, ManagerReadsTracks,
     ManagerCommitsTracks
<1>4. CASE Resolve \/ ResolverBroadcasts \/ ResolverStops \/ ResolverReads \/ ResolverReleases
           \/ ResolverMarks
  BY <1>4, ResolveTracks, ResolverBroadcastsTracks, ResolverStopsTracks, ResolverReadsTracks,
     ResolverReleasesTracks, ResolverMarksTracks
<1>5. CASE CloserReads \/ CloserArrives \/ CloserRefused \/ CloserReleases \/ CloserLeaves
           \/ IncidentCloses
  BY <1>5, CloserReadsTracks, CloserArrivesTracks, CloserRefusedTracks, CloserReleasesTracks,
     CloserLeavesTracks, IncidentClosesTracks
<1>6. CASE UNCHANGED vars
  BY <1>6, StutterTracks
<1> QED
  BY <1>1, <1>2, <1>3, <1>4, <1>5, <1>6 DEF Next

-----------------------------------------------------------------------------
(* A rebuild agrees with the clocks *)

DueGoal(c) == Goals[c.kind][c.target].due

\* Whenever it is worked out again, the due time of a counting clock is the same.
Steady(c) ==
  \A t \in Moments : c.asOf <= t =>
    LevelTime(c.at.due, DueGoal(c) - (c.elapsed + Worked[t] - Worked[c.asOf]), t) = c.at.due

\* Clocks that, from `at` on, nobody can tell apart but by when they were folded and whether their
\* levels have fired.
Twins(c, d, at) ==
  /\ c \in Clock /\ d \in Clock /\ Alike(c, d)
  /\ d.kind = c.kind /\ d.started = c.started /\ d.target = c.target /\ d.at.due = c.at.due
  /\ Counting(c) => /\ c.asOf <= at /\ d.asOf <= at /\ Steady(c)
                    /\ c.elapsed - Worked[c.asOf] = d.elapsed - Worked[d.asOf]
  /\ ~Counting(c) => d.elapsed = c.elapsed

\* A due time worked out stays, however much later it is worked out again.
LEMMA LevelTimeStays ==
  ASSUME NEW at \in Moments, NEW t \in Moments, at <= t, NEW known \in Dues,
         NEW elapsed \in Nat, NEW goal \in Nat,
         \E u \in Times : u >= at /\ Worked[u] - Worked[at] >= goal,
         \E u \in Times : u >= t /\ Worked[u] - Worked[t] >= goal,
         NEW time, time = LevelTime(known, goal - elapsed, at)
  PROVE  LevelTime(time, goal - (elapsed + Worked[t] - Worked[at]), t) = time
<1> DEFINE rest == goal - elapsed
           later == goal - (elapsed + Worked[t] - Worked[at])
           again == AddTime(t, later)
<1>1. /\ at \in Times /\ t \in Times /\ at \in Nat /\ t \in Nat
      /\ Worked[at] \in Nat /\ Worked[t] \in Nat /\ Worked[at] <= Worked[t]
  BY MomentsType, WorkedGrows
<1>2. rest \in Int /\ later \in Int /\ later <= rest /\ rest <= goal /\ later <= goal
      /\ later = rest - (Worked[t] - Worked[at])
  BY <1>1
<1>3. known \in Int
  BY TimeAssumption DEF Dues, Never
<1>4. CASE rest <= 0 /\ known # Never /\ known <= at
  <2>1. time = known
    BY <1>4 DEF LevelTime
  <2>2. later <= 0 /\ time # Never /\ time <= t
    BY <1>1, <1>2, <1>3, <1>4, <2>1
  <2> HIDE DEF later
  <2> QED
    BY <2>2 DEF LevelTime, later
<1>5. CASE ~(rest <= 0 /\ known # Never /\ known <= at)
  <2>1. time = AddTime(at, rest)
    BY <1>5 DEF LevelTime
  <2> HIDE DEF rest
  <2>2. /\ time \in Times /\ time >= at /\ Worked[time] - Worked[at] >= rest
        /\ \A u \in Times : u >= at /\ Worked[u] - Worked[at] >= rest => time <= u
    BY <1>2, <2>1, AddTimeIs
  <2>3. time \in Nat /\ time # Never /\ Worked[time] \in Nat
    BY <2>2, TimeAssumption DEF Never
  <2>4. CASE time <= t
    <3>1. Worked[time] <= Worked[t]
      BY <1>1, <2>2, <2>4, WorkedGrows
    <3>2. later <= 0
      BY <1>1, <1>2, <2>2, <2>3, <3>1
    <3> HIDE DEF later
    <3> QED
      BY <2>3, <2>4, <3>2 DEF LevelTime, later
  <2>5. CASE ~(time <= t)
    <3>1. LevelTime(time, later, t) = again
      BY <2>5 DEF LevelTime
    <3> HIDE DEF later
    <3>2. /\ again \in Times /\ again >= t /\ Worked[again] - Worked[t] >= later
          /\ \A u \in Times : u >= t /\ Worked[u] - Worked[t] >= later => again <= u
      BY <1>2, AddTimeIs
    <3>3. again \in Nat /\ Worked[again] \in Nat
      BY <3>2, TimeAssumption
    <3> HIDE DEF again
    <3>4. again >= at /\ Worked[again] - Worked[at] >= rest
      BY <1>1, <1>2, <3>2, <3>3
    <3>5. time >= t /\ Worked[time] - Worked[t] >= later
      BY <1>1, <1>2, <2>2, <2>3, <2>5
    <3>6. time <= again /\ again <= time
      BY <2>2, <3>2, <3>4, <3>5
    <3>7. again = time
      BY <2>3, <3>3, <3>6
    <3> QED
      BY <3>1, <3>7 DEF later
  <2> QED
    BY <2>4, <2>5
<1> QED
  BY <1>4, <1>5

\* A clock whose due time has just been worked out.
LEMMA SteadyFrom ==
  ASSUME NEW d \in Clock, NEW at \in Moments, d.asOf = at, NEW known \in Dues,
         d.at.due = LevelTime(known, DueGoal(d) - d.elapsed, at)
  PROVE  Steady(d)
<1> SUFFICES ASSUME NEW t \in Moments, at <= t
             PROVE  LevelTime(d.at.due, DueGoal(d) - (d.elapsed + Worked[t] - Worked[at]), t)
                      = d.at.due
  BY DEF Steady
<1>1. "due" \in Levels /\ Goals[d.kind][d.target]["due"] = DueGoal(d)
  BY DEF Levels, DueGoal
<1>2. /\ DueGoal(d) \in Nat
      /\ \E u \in Times : u >= at /\ Worked[u] - Worked[at] >= DueGoal(d)
      /\ \E u \in Times : u >= t /\ Worked[u] - Worked[t] >= DueGoal(d)
  BY <1>1, GoalIs
<1>3. d.elapsed \in Nat
  BY DEF Clock
<1> QED
  BY <1>2, <1>3, LevelTimeStays

\* One that is folded now counted, since it was folded, what passed since.
LEMMA CountedSince ==
  ASSUME NEW c \in Clock, NEW at \in Moments, Counting(c), c.asOf <= at
  PROVE  /\ ElapsedAt(c, at) = c.elapsed + Worked[at] - Worked[c.asOf]
         /\ Worked[at] \in Nat /\ Worked[c.asOf] \in Nat /\ c.elapsed \in Nat
         /\ c.asOf \in Moments
<1>1. c.asOf \in Moments /\ c.elapsed \in Nat
  BY DEF Clock, Moments
<1>2. /\ Worked[at] \in Nat /\ Worked[c.asOf] \in Nat /\ c.asOf \in Nat /\ at \in Nat
  BY <1>1, MomentsType
<1>3. CASE c.asOf < at
  BY <1>1, <1>2, <1>3 DEF ElapsedAt
<1>4. CASE c.asOf = at
  BY <1>1, <1>2, <1>4 DEF ElapsedAt
<1> QED
  BY <1>1, <1>2, <1>3, <1>4

LEMMA TwinsElapsed ==
  ASSUME NEW at \in Moments, NEW c, NEW d, Twins(c, d, at)
  PROVE  /\ ElapsedAt(c, at) = ElapsedAt(d, at) /\ ElapsedAt(c, at) \in Nat
         /\ (Counting(d) <=> Counting(c)) /\ (Open(d) <=> Open(c))
         /\ ~Counting(c) => d.state = c.state
<1>1. (Counting(d) <=> Counting(c)) /\ (Open(d) <=> Open(c)) /\ (~Counting(c) => d.state = c.state)
  BY DEF Twins, Alike, Counting, Open, OpenStates
<1>2. CASE Counting(c)
  <2>1. /\ ElapsedAt(c, at) = c.elapsed + Worked[at] - Worked[c.asOf]
        /\ ElapsedAt(d, at) = d.elapsed + Worked[at] - Worked[d.asOf]
        /\ Worked[at] \in Nat /\ Worked[c.asOf] \in Nat /\ c.elapsed \in Nat
        /\ Worked[d.asOf] \in Nat /\ d.elapsed \in Nat
    BY <1>1, <1>2, CountedSince DEF Twins
  <2>2. ElapsedAt(c, at) = ElapsedAt(d, at)
    BY <1>2, <2>1 DEF Twins
  <2> QED
    BY <1>1, <2>2, ElapsedType DEF Twins
<1>3. CASE ~Counting(c)
  <2>1. ElapsedAt(c, at) = c.elapsed /\ ElapsedAt(d, at) = d.elapsed
    BY <1>1, <1>3, StillElapsed
  <2> QED
    BY <1>1, <1>3, <2>1, ElapsedType DEF Twins
<1> QED
  BY <1>2, <1>3

LEMMA TwinsLater ==
  ASSUME NEW at \in Moments, NEW t \in Moments, at <= t, NEW c, NEW d, Twins(c, d, at)
  PROVE  Twins(c, d, t)
<1>1. c.asOf \in Nat /\ d.asOf \in Nat /\ at \in Nat /\ t \in Nat
  BY MomentsType DEF Twins, Clock, Moments
<1> QED
  BY <1>1 DEF Twins

LEMMA TwinOfItself ==
  ASSUME NEW at, NEW c, NEW d, Twins(c, d, at)
  PROVE  Twins(c, c, at)
BY DEF Twins, Alike

\* What is done to twins leaves twins.
LEMMA PauseTwins ==
  ASSUME NEW at \in Moments, NEW c, NEW d, Twins(c, d, at)
  PROVE  Twins(Pause(c, at), Pause(d, at), at)
<1> DEFINE x == Pause(c, at)
           y == Pause(d, at)
<1>1. c \in Clock /\ d \in Clock
  BY DEF Twins
<1>2. /\ Works(c, x, at) /\ x.state = "paused" /\ x.started = c.started /\ x.target = c.target
      /\ x.elapsed = ElapsedAt(c, at) /\ x.at = Unset
      /\ Works(d, y, at) /\ y.state = "paused" /\ y.started = d.started /\ y.target = d.target
      /\ y.elapsed = ElapsedAt(d, at) /\ y.at = Unset
  BY <1>1, PauseWorks
<1>3. ~Counting(x) /\ Alike(x, y)
  BY <1>2 DEF Counting, CountingStates, Alike
<1>4. ElapsedAt(c, at) = ElapsedAt(d, at)
  BY TwinsElapsed
<1> HIDE DEF x, y
<1>5. Twins(x, y, at)
  BY <1>2, <1>3, <1>4 DEF Twins, Works
<1> QED
  BY <1>5 DEF x, y

LEMMA FinishTwins ==
  ASSUME NEW at \in Moments, NEW c, NEW d, Twins(c, d, at), NEW final \in {"met", "cancelled"}
  PROVE  Twins(Finish(c, final, at), Finish(d, final, at), at)
<1> DEFINE x == Finish(c, final, at)
           y == Finish(d, final, at)
<1>1. c \in Clock /\ d \in Clock
  BY DEF Twins
<1>2. /\ Works(c, x, at) /\ x.state = final /\ x.started = c.started /\ x.target = c.target
      /\ x.elapsed = ElapsedAt(c, at) /\ x.at.due = c.at.due
      /\ Works(d, y, at) /\ y.state = final /\ y.started = d.started /\ y.target = d.target
      /\ y.elapsed = ElapsedAt(d, at) /\ y.at.due = d.at.due
  BY <1>1, FinishWorks
<1>3. ~Counting(x) /\ Alike(x, y)
  BY <1>2 DEF Counting, CountingStates, Alike
<1>4. ElapsedAt(c, at) = ElapsedAt(d, at)
  BY TwinsElapsed
<1> HIDE DEF x, y
<1>5. Twins(x, y, at)
  BY <1>2, <1>3, <1>4 DEF Twins, Works
<1> QED
  BY <1>5 DEF x, y

LEMMA ResumeTwins ==
  ASSUME NEW at \in Moments, NEW c, NEW d, Twins(c, d, at), ~Counting(c)
  PROVE  Twins(Resume(c, at), Resume(d, at), at)
<1> DEFINE x == Resume(c, at)
           y == Resume(d, at)
<1>1. c \in Clock /\ d \in Clock /\ ~Counting(d) /\ c.elapsed = d.elapsed
      /\ c.kind = d.kind /\ c.target = d.target /\ c.started = d.started /\ c.at.due = d.at.due
  BY TwinsElapsed DEF Twins
<1>2. /\ Works(c, x, at) /\ x.state \in CountingStates /\ x.asOf = at
      /\ x.started = c.started /\ x.target = c.target /\ x.elapsed = c.elapsed
      /\ x.at.due = LevelTime(c.at.due, Goals[c.kind][c.target].due - c.elapsed, at)
  BY <1>1, ResumeWorks
<1>3. /\ Works(d, y, at) /\ y.state \in CountingStates /\ y.asOf = at
      /\ y.started = d.started /\ y.target = d.target /\ y.elapsed = d.elapsed
      /\ y.at.due = LevelTime(d.at.due, Goals[d.kind][d.target].due - d.elapsed, at)
  BY <1>1, ResumeWorks
<1> HIDE DEF x, y
<1>4. /\ x \in Clock /\ x.kind = c.kind /\ y \in Clock /\ y.kind = d.kind
      /\ Counting(x) /\ Counting(y) /\ Alike(x, y)
  BY <1>2, <1>3 DEF Works, Counting, Alike
<1>5. c.at.due \in Dues
  BY <1>1 DEF Clock
<1>6. x.at.due = LevelTime(c.at.due, DueGoal(x) - x.elapsed, at)
  BY <1>2, <1>4 DEF DueGoal
<1>7. Steady(x)
  BY <1>2, <1>4, <1>5, <1>6, SteadyFrom
<1>8. x.at.due = y.at.due
  BY <1>1, <1>2, <1>3
<1>9. at <= at
  BY MomentsType
<1>10. Twins(x, y, at)
  BY <1>1, <1>2, <1>3, <1>4, <1>7, <1>8, <1>9 DEF Twins
<1> QED
  BY <1>10 DEF x, y

LEMMA StartedTwins ==
  ASSUME NEW at \in Moments, NEW k \in Kinds, NEW p \in Priorities
  PROVE  Twins(Started(k, at, p), Started(k, at, p), at)
<1> DEFINE x == Started(k, at, p)
           a == Absent(k)
           running == "running"
           s == [a EXCEPT !.state = running, !.started = at, !.asOf = at, !.target = p]
<1>1. x = Recompute(s, at)
  BY DEF Started
<1>2. s \in Clock
  <2>1. a \in Clock /\ running \in ClockStates /\ p \in Targets
    <3>1. 0 \in 0 .. MaxTime
      BY TimeAssumption
    <3> QED
      BY <3>1 DEF Absent, Clock, Unset, Dues, ClockStates, OpenStates, CountingStates, Targets,
                  Priorities
  <2> HIDE DEF a, running
  <2> QED
    BY <2>1 DEF Clock, Moments
<1> HIDE DEF s
<1>3. /\ x \in Clock /\ x.asOf = at /\ x.elapsed = ElapsedAt(s, at)
      /\ x.kind = s.kind /\ x.target = s.target
      /\ x.at.due = LevelTime(s.at.due, Goals[s.kind][s.target].due - ElapsedAt(s, at), at)
  BY <1>1, <1>2, RecomputeIs
<1> HIDE DEF x
<1>4. s.at.due \in Dues /\ at <= at
  BY <1>2, MomentsType DEF Clock
<1>5. x.at.due = LevelTime(s.at.due, DueGoal(x) - x.elapsed, at)
  BY <1>3 DEF DueGoal
<1>6. Steady(x)
  BY <1>3, <1>4, <1>5, SteadyFrom
<1>7. Twins(x, x, at)
  BY <1>3, <1>4, <1>6 DEF Twins, Alike
<1> QED
  BY <1>7 DEF x

\* A clock brought up to date is a twin of what it was.
LEMMA BroughtUpTwins ==
  ASSUME now \in Moments, NEW c, Twins(c, c, now)
  PROVE  Twins(c, BroughtUp(c), now)
<1> DEFINE y == Recompute(c, now)
<1>1. c \in Clock
  BY DEF Twins
<1>2. CASE Counting(c)
  <2>1. /\ y \in Clock /\ y.elapsed = ElapsedAt(c, now) /\ y.asOf = now /\ y.kind = c.kind
        /\ y.state = c.state /\ y.target = c.target /\ y.started = c.started
        /\ y.at.due = LevelTime(c.at.due, Goals[c.kind][c.target].due - ElapsedAt(c, now), now)
    BY <1>1, RecomputeIs
  <2>2. c.asOf <= now /\ Steady(c) /\ now <= now
    BY <1>2, MomentsType DEF Twins
  <2>3. /\ ElapsedAt(c, now) = c.elapsed + Worked[now] - Worked[c.asOf]
        /\ Worked[now] \in Nat /\ Worked[c.asOf] \in Nat /\ c.elapsed \in Nat
    BY <1>1, <1>2, <2>2, CountedSince
  <2> HIDE DEF y
  <2>4. y.at.due = c.at.due
    BY <2>1, <2>2, <2>3 DEF Steady, DueGoal
  <2>5. c.elapsed - Worked[c.asOf] = y.elapsed - Worked[y.asOf]
    BY <2>1, <2>3
  <2>6. Twins(c, y, now)
    BY <1>1, <1>2, <2>1, <2>2, <2>4, <2>5 DEF Twins, Alike
  <2> QED
    BY <1>2, <2>6 DEF BroughtUp, y
<1>3. CASE ~Counting(c)
  BY <1>3 DEF BroughtUp
<1> QED
  BY <1>2, <1>3

\* Levels that fire leave twins.
LEMMA MarkedTwins ==
  ASSUME NEW c, NEW d \in Clock, NEW e, Twins(c, d, now), Marked(d, e), Alike(d, e)
  PROVE  Twins(c, e, now)
<1>1. Alike(c, e)
  BY DEF Twins, Alike, Counting
<1> QED
  BY <1>1 DEF Twins, Marked

-----------------------------------------------------------------------------
(* Twins, through a move and a rebuild *)

TwinClocks(cs, ds, at) ==
  /\ ClocksOK(cs) /\ ClocksOK(ds)
  /\ Twins(cs.response, ds.response, at) /\ Twins(cs.resolution, ds.resolution, at)

LEMMA TwinPair ==
  ASSUME NEW at, NEW r, NEW s, NEW x, NEW y, Twins(r, x, at), Twins(s, y, at),
         r.kind = "response", s.kind = "resolution",
         NEW cs, cs = [response |-> r, resolution |-> s],
         NEW ds, ds = [response |-> x, resolution |-> y]
  PROVE  /\ TwinClocks(cs, ds, at) /\ cs.response = r /\ cs.resolution = s
         /\ ds.response = x /\ ds.resolution = y
<1>1. r \in Clock /\ s \in Clock /\ x \in Clock /\ y \in Clock /\ x.kind = "response"
      /\ y.kind = "resolution"
  BY DEF Twins
<1>2. cs \in Clocks /\ ds \in Clocks
  BY <1>1 DEF Clocks
<1> QED
  BY <1>1, <1>2 DEF TwinClocks, ClocksOK

LEMMA RespondTwins ==
  ASSUME NEW at \in Moments, NEW cs, NEW ds, TwinClocks(cs, ds, at)
  PROVE  TwinClocks(Respond(cs, at), Respond(ds, at), at)
<1>1. Open(ds.response) <=> Open(cs.response)
  BY TwinsElapsed DEF TwinClocks
<1>2. CASE Open(cs.response)
  <2> DEFINE x == Finish(cs.response, "met", at)
             y == Finish(ds.response, "met", at)
             es == Respond(cs, at)
             fs == Respond(ds, at)
  <2>1. Twins(x, y, at)
    BY FinishTwins DEF TwinClocks
  <2>2. x.kind = "response" /\ cs.resolution.kind = "resolution"
    <3>1. Works(cs.response, x, at)
      BY ClocksType, FinishWorks DEF TwinClocks
    <3> QED
      BY <3>1 DEF Works, TwinClocks, ClocksOK
  <2>3. es = [cs EXCEPT !.response = x] /\ fs = [ds EXCEPT !.response = y]
    BY <1>1, <1>2 DEF Respond
  <2> HIDE DEF x, y, es, fs
  <2>4. /\ es = [response |-> x, resolution |-> cs.resolution]
        /\ fs = [response |-> y, resolution |-> ds.resolution]
    BY <2>3, ClocksType DEF TwinClocks
  <2>5. TwinClocks(es, fs, at)
    BY <2>1, <2>2, <2>4, TwinPair DEF TwinClocks
  <2> QED
    BY <2>5 DEF es, fs
<1>3. CASE ~Open(cs.response)
  BY <1>1, <1>3 DEF Respond
<1> QED
  BY <1>2, <1>3

LEMMA SettledTwins ==
  ASSUME NEW at \in Moments, NEW cs, NEW ds, TwinClocks(cs, ds, at),
         NEW final \in {"met", "cancelled"}
  PROVE  TwinClocks(Settled(cs, final, at), Settled(ds, final, at), at)
<1> DEFINE done(c) == IF Open(c) THEN Finish(c, final, at) ELSE c
           es == Settled(cs, final, at)
           fs == Settled(ds, final, at)
<1>1. /\ es = [response |-> done(cs.response), resolution |-> done(cs.resolution)]
      /\ fs = [response |-> done(ds.response), resolution |-> done(ds.resolution)]
  BY DEF Settled, Each
<1>2. ASSUME NEW c, NEW d, Twins(c, d, at) PROVE Twins(done(c), done(d), at)
  <2>1. Open(d) <=> Open(c)
    BY <1>2, TwinsElapsed
  <2> QED
    BY <1>2, <2>1, FinishTwins
<1>3. \A c \in Clock : done(c).kind = c.kind
  BY FinishWorks DEF Works
<1>4. done(cs.response).kind = "response" /\ done(cs.resolution).kind = "resolution"
  BY <1>3, ClocksType DEF TwinClocks, ClocksOK
<1> HIDE DEF done, es, fs
<1>5. TwinClocks(es, fs, at)
  BY <1>1, <1>2, <1>4, TwinPair DEF TwinClocks
<1> QED
  BY <1>5 DEF es, fs

LEMMA LiveTwins ==
  ASSUME NEW at \in Moments, NEW cs, NEW ds, TwinClocks(cs, ds, at)
  PROVE  (Live(ds) <=> Live(cs)) /\ \A after : Starts(ds, after) <=> Starts(cs, after)
BY DEF TwinClocks, Twins, Alike, Live, Starts, Counting, CountingStates

LEMMA OrStartedTwins ==
  ASSUME NEW at \in Moments, NEW cs, NEW ds, TwinClocks(cs, ds, at), NEW after, NEW p,
         Starts(cs, after) => p \in Priorities
  PROVE  TwinClocks(OrStarted(cs, after, at, p), OrStarted(ds, after, at, p), at)
<1>1. Starts(ds, after) <=> Starts(cs, after)
  BY LiveTwins
<1> DEFINE es == OrStarted(cs, after, at, p)
           fs == OrStarted(ds, after, at, p)
<1>2. ClocksOK(cs) /\ ClocksOK(ds)
  BY DEF TwinClocks
<1>3. ClocksOK(es) /\ ClocksOK(fs)
  BY <1>1, <1>2, OrStartedIs
<1>4. CASE Starts(cs, after)
  <2> DEFINE r == Started("response", at, p)
             s == Started("resolution", at, p)
  <2>1. /\ es.response = r /\ es.resolution = s /\ fs.response = r /\ fs.resolution = s
    BY <1>1, <1>2, <1>4, OrStartedIs
  <2>2. Twins(r, r, at) /\ Twins(s, s, at)
    BY <1>4, StartedTwins DEF Kinds
  <2> HIDE DEF r, s, es, fs
  <2> QED
    BY <1>3, <2>1, <2>2 DEF TwinClocks, es, fs
<1>5. CASE ~Starts(cs, after)
  <2>1. es = cs /\ fs = ds
    BY <1>1, <1>2, <1>5, OrStartedIs
  <2> QED
    BY <2>1
<1> QED
  BY <1>4, <1>5

\* A status entered.
LEMMA ApplyTwins ==
  ASSUME NEW at \in Moments, NEW cs, NEW ds, TwinClocks(cs, ds, at), NEW before, NEW after,
         NEW staff \in BOOLEAN, NEW held \in BOOLEAN, NEW p,
         Starts(cs, after) => p \in Priorities
  PROVE  TwinClocks(Apply(cs, before, after, at, staff, held, p),
                    Apply(ds, before, after, at, staff, held, p), at)
<1> DEFINE begun(c) == OrStarted(c, after, at, p)
           answered(c) == IF staff /\ Live(begun(c)) THEN Respond(begun(c), at) ELSE begun(c)
           again(c) == IF answered(c).resolution.state = "met"
                       THEN [answered(c) EXCEPT !.resolution = Resume(@, at)] ELSE answered(c)
           paused(c) == c.state = "paused" /\ ~(held /\ c.kind = "resolution")
           waits(c) == IF Counting(c) THEN Pause(c, at) ELSE c
           runs(c) == IF paused(c) THEN Resume(c, at) ELSE c
           waited(c) == [response |-> waits(c.response), resolution |-> waits(c.resolution)]
           ran(c) == [response |-> runs(c.response), resolution |-> runs(c.resolution)]
           new(c) == Apply(c, before, after, at, staff, held, p)
<1>1. TwinClocks(begun(cs), begun(ds), at)
  BY OrStartedTwins
<1>2. TwinClocks(answered(cs), answered(ds), at)
  <2> HIDE DEF begun
  <2>1. Live(begun(ds)) <=> Live(begun(cs))
    BY <1>1, LiveTwins
  <2>2. TwinClocks(Respond(begun(cs), at), Respond(begun(ds), at), at)
    BY <1>1, RespondTwins
  <2> QED
    BY <1>1, <2>1, <2>2
<1>3. TwinClocks(again(cs), again(ds), at)
  <2> DEFINE c == answered(cs)
             d == answered(ds)
             x == Resume(c.resolution, at)
             y == Resume(d.resolution, at)
             es == again(cs)
             fs == again(ds)
  <2>1. c.resolution.state = "met" <=> d.resolution.state = "met"
    <3> HIDE DEF answered
    <3> QED
      BY <1>2 DEF TwinClocks, Twins, Alike, Counting, CountingStates
  <2>2. CASE c.resolution.state = "met"
    <3>1. /\ es = [c EXCEPT !.resolution = x] /\ fs = [d EXCEPT !.resolution = y]
      <4> HIDE DEF answered
      <4> QED
        BY <2>1, <2>2
    <3> HIDE DEF answered
    <3>2. ~Counting(c.resolution)
      BY <2>2 DEF Counting, CountingStates
    <3>3. Twins(x, y, at)
      BY <1>2, <3>2, ResumeTwins DEF TwinClocks
    <3>4. x.kind = "resolution" /\ c.response.kind = "response"
      <4>1. Works(c.resolution, x, at)
        BY <1>2, <3>2, ClocksType, ResumeWorks DEF TwinClocks
      <4> QED
        BY <1>2, <4>1 DEF Works, TwinClocks, ClocksOK
    <3> HIDE DEF x, y, es, fs
    <3>5. /\ es = [response |-> c.response, resolution |-> x]
          /\ fs = [response |-> d.response, resolution |-> y]
      <4> HIDE DEF c, d
      <4> QED
        BY <1>2, <3>1, ClocksType DEF TwinClocks, c, d
    <3>6. TwinClocks(es, fs, at)
      BY <1>2, <3>3, <3>4, <3>5, TwinPair DEF TwinClocks
    <3> QED
      BY <3>6 DEF es, fs
  <2>3. CASE c.resolution.state # "met"
    <3> HIDE DEF answered
    <3> QED
      BY <1>2, <2>1, <2>3
  <2> QED
    BY <2>2, <2>3
<1>4. ASSUME NEW c, NEW d, Twins(c, d, at)
      PROVE  Twins(waits(c), waits(d), at) /\ Twins(runs(c), runs(d), at)
  <2>1. Counting(d) <=> Counting(c)
    BY <1>4, TwinsElapsed
  <2>2. paused(d) <=> paused(c)
    BY <1>4 DEF Twins, Alike, Counting, CountingStates
  <2>3. Twins(waits(c), waits(d), at)
    BY <1>4, <2>1, PauseTwins
  <2>4. Twins(runs(c), runs(d), at)
    <3>1. CASE paused(c)
      <4>1. ~Counting(c)
        BY <3>1 DEF Counting, CountingStates
      <4> QED
        BY <1>4, <2>2, <3>1, <4>1, ResumeTwins
    <3>2. CASE ~paused(c)
      BY <1>4, <2>2, <3>2
    <3> QED
      BY <3>1, <3>2
  <2> QED
    BY <2>3, <2>4
<1>5. \A c \in Clock : waits(c).kind = c.kind /\ runs(c).kind = c.kind
  <2> SUFFICES ASSUME NEW c \in Clock PROVE waits(c).kind = c.kind /\ runs(c).kind = c.kind
    OBVIOUS
  <2>1. waits(c).kind = c.kind
    BY PauseWorks DEF Works
  <2>2. runs(c).kind = c.kind
    <3>1. paused(c) => ~Counting(c)
      BY DEF Counting, CountingStates
    <3> QED
      BY <3>1, ResumeWorks DEF Works
  <2> QED
    BY <2>1, <2>2
<1>6. /\ TwinClocks(waited(again(cs)), waited(again(ds)), at)
      /\ TwinClocks(ran(again(cs)), ran(again(ds)), at)
  <2> DEFINE es == again(cs)
             fs == again(ds)
  <2> HIDE DEF again, waits, runs
  <2>1. /\ Twins(es.response, fs.response, at) /\ Twins(es.resolution, fs.resolution, at)
        /\ es.response \in Clock /\ es.resolution \in Clock
        /\ es.response.kind = "response" /\ es.resolution.kind = "resolution"
    BY <1>3 DEF TwinClocks, ClocksOK, Twins
  <2> HIDE DEF es, fs
  <2>2. TwinClocks(waited(es), waited(fs), at)
    BY <1>4, <1>5, <2>1, TwinPair
  <2>3. TwinClocks(ran(es), ran(fs), at)
    BY <1>4, <1>5, <2>1, TwinPair
  <2> QED
    BY <2>2, <2>3 DEF es, fs
<1>7. CASE after = "backlog"
  <2>1. new(cs) = Settled(cs, "cancelled", at) /\ new(ds) = Settled(ds, "cancelled", at)
    BY <1>7 DEF Apply
  <2> HIDE DEF new
  <2>2. TwinClocks(new(cs), new(ds), at)
    BY <2>1, SettledTwins
  <2> QED
    BY <2>2 DEF new
<1>8. CASE after = "completed"
  <2>1. /\ new(cs) = Settled(answered(cs), "met", at)
        /\ new(ds) = Settled(answered(ds), "met", at)
    BY <1>8 DEF Apply
  <2> HIDE DEF new, answered
  <2>2. TwinClocks(new(cs), new(ds), at)
    BY <1>2, <2>1, SettledTwins
  <2> QED
    BY <2>2 DEF new
<1>9. CASE after # "backlog" /\ after # "completed"
  <2>1. \/ new(cs) = waited(again(cs)) /\ new(ds) = waited(again(ds))
        \/ new(cs) = ran(again(cs)) /\ new(ds) = ran(again(ds))
        \/ new(cs) = again(cs) /\ new(ds) = again(ds)
    BY <1>9 DEF Apply, Each
  <2> HIDE DEF new, again, waited, ran
  <2>2. TwinClocks(new(cs), new(ds), at)
    BY <1>3, <1>6, <2>1
  <2> QED
    BY <2>2 DEF new
<1> QED
  BY <1>7, <1>8, <1>9

\* Where no clock starts, it does not matter with which priority it would.
LEMMA ApplyPriority ==
  ASSUME NEW cs, NEW before, NEW after, NEW at, NEW staff, NEW held, NEW p, NEW q,
         ~Starts(cs, after)
  PROVE  Apply(cs, before, after, at, staff, held, p)
           = Apply(cs, before, after, at, staff, held, q)
<1>1. OrStarted(cs, after, at, p) = cs /\ OrStarted(cs, after, at, q) = cs
  BY DEF OrStarted
<1> QED
  BY <1>1 DEF Apply

-----------------------------------------------------------------------------
(* The record tells the clocks *)

\* Events are in the record in the order of their moments.
InTime ==
  \A n \in 1 .. Len(record) :
    record[n].at <= now /\ \A m \in 1 .. n : record[m].at <= record[n].at

\* The priority with which a rebuild starts clocks, with the ticket as it is.
ReplayPriority == IF priority = "unset" THEN InitialPriority(Linked) ELSE priority

Retold == \E cs : Replays(cs, ReplayPriority, Held) /\ TwinClocks(cs, clocks, now)

\* Nobody handles the incident, but to declare one.
Unhandled ==
  /\ link = "none" /\ manager.op \in {"idle", "declare"} /\ resolver = Idle /\ closer = Idle
  /\ triage = Idle

\* As long as no incident came into the ticket's life, nobody handles one, and the record leads to
\* the clocks the ticket has, unless a rebuild is due or a person set other targets.
Telling ==
  incident = "none" =>
    /\ Unhandled
    /\ InTime
    /\ ~rebuild /\ "edited" \notin marks => Retold

LEMMA NoClocksTwins ==
  ASSUME NEW at
  PROVE  TwinClocks(NoClocks, NoClocks, at)
<1>1. ClocksOK(NoClocks)
  BY NoClocksUnfired DEF Unfired
<1>2. NoClocks.response.state = "absent" /\ NoClocks.resolution.state = "absent"
  BY DEF NoClocks, Absent
<1>3. ~Counting(NoClocks.response) /\ ~Counting(NoClocks.resolution)
  BY <1>2 DEF Counting, CountingStates
<1> HIDE DEF NoClocks
<1>4. \A c \in Clock : ~Counting(c) => Twins(c, c, at)
  BY DEF Twins, Alike
<1> QED
  BY <1>1, <1>3, <1>4, ClocksType DEF TwinClocks

\* Twins, through an event of the record.
LEMMA ReplayTwins ==
  ASSUME NEW p \in Priorities, NEW held \in BOOLEAN, NEW e \in Event, NEW cs, NEW ds,
         TwinClocks(cs, ds, e.at)
  PROVE  TwinClocks(Redone(cs, e, p, held), Redone(ds, e, p, held), e.at)
<1>1. e.at \in Moments
  BY DEF Event, Moments
<1>2. CASE e.kind = "response"
  BY <1>1, <1>2, RespondTwins DEF Redone
<1>3. CASE e.kind # "response"
  <2>1. e.staff \in BOOLEAN
    BY <1>3 DEF Event
  <2> QED
    BY <1>1, <1>3, <2>1, ApplyTwins DEF Redone
<1> QED
  BY <1>2, <1>3

LEMMA TwinClocksLater ==
  ASSUME NEW at \in Moments, NEW t \in Moments, at <= t, NEW cs, NEW ds, TwinClocks(cs, ds, at)
  PROVE  TwinClocks(cs, ds, t)
BY TwinsLater DEF TwinClocks

\* A rebuild gives twins of what the record leads to.
LEMMA BroughtUpClocks ==
  ASSUME now \in Moments, NEW cs, TwinClocks(cs, cs, now), NEW ds,
         ds = [response |-> BroughtUp(cs.response), resolution |-> BroughtUp(cs.resolution)]
  PROVE  TwinClocks(cs, ds, now)
<1>1. Twins(cs.response, BroughtUp(cs.response), now)
      /\ Twins(cs.resolution, BroughtUp(cs.resolution), now)
  BY BroughtUpTwins DEF TwinClocks
<1>2. /\ cs.response.kind = "response" /\ cs.resolution.kind = "resolution"
      /\ cs = [response |-> cs.response, resolution |-> cs.resolution]
  BY ClocksType DEF TwinClocks, ClocksOK
<1> QED
  BY <1>1, <1>2, TwinPair

LEMMA ReplayedTwins ==
  ASSUME record \in Seq(Event), now \in Moments, InTime,
         NEW p \in Priorities, NEW held \in BOOLEAN, NEW rs, rs = Replayed(p, held)
  PROVE  \E last : Replays(last, p, held) /\ TwinClocks(last, rs, now)
<1> DEFINE moment(n) == IF n = 0 THEN 0 ELSE record[n].at
           Good == [n \in 0 .. Len(record) |-> {cs \in Clocks : TwinClocks(cs, cs, moment(n))}]
<1>1. \A n \in 1 .. Len(record) :
        record[n] \in Event /\ n - 1 \in 0 .. Len(record) /\ n \in 0 .. Len(record)
  OBVIOUS
<1>2. \A cs, at : TwinClocks(cs, cs, at) => cs \in Clocks
  BY DEF TwinClocks, ClocksOK
<1>3. 0 \in Moments /\ \A n \in 1 .. Len(record) : record[n].at \in Moments
  BY <1>1, TimeAssumption DEF Event, Moments
<1>4. \A n \in 0 .. Len(record) : moment(n) \in Moments /\ moment(n) <= now
  BY <1>3 DEF InTime, Moments
<1>5. \A n \in 1 .. Len(record) : moment(n - 1) <= moment(n) /\ moment(n) = record[n].at
  <2> SUFFICES ASSUME NEW n \in 1 .. Len(record)
               PROVE  moment(n - 1) <= moment(n) /\ moment(n) = record[n].at
    OBVIOUS
  <2>1. moment(n) = record[n].at /\ record[n].at \in Nat
    BY <1>3 DEF Moments
  <2>2. CASE n = 1
    BY <2>1, <2>2
  <2>3. CASE n # 1
    <3>1. n - 1 \in 1 .. n /\ n - 1 # 0
      BY <2>3
    <3> QED
      BY <2>1, <3>1 DEF InTime
  <2> QED
    BY <2>2, <2>3
<1>6. NoClocks \in Good[0]
  <2>1. 0 \in 0 .. Len(record)
    OBVIOUS
  <2> HIDE DEF moment
  <2> QED
    BY <1>2, <2>1, NoClocksTwins
<1>7. \A n \in 1 .. Len(record) : \A cs \in Good[n - 1] :
        Redone(cs, record[n], p, held) \in Good[n]
  <2> SUFFICES ASSUME NEW n \in 1 .. Len(record), NEW cs \in Good[n - 1]
               PROVE  Redone(cs, record[n], p, held) \in Good[n]
    OBVIOUS
  <2> HIDE DEF moment
  <2>1. TwinClocks(cs, cs, moment(n - 1))
    BY <1>1
  <2>2. TwinClocks(cs, cs, record[n].at)
    BY <1>1, <1>4, <1>5, <2>1, TwinClocksLater
  <2> DEFINE ds == Redone(cs, record[n], p, held)
  <2>3. TwinClocks(ds, ds, moment(n))
    BY <1>1, <1>5, <2>2, ReplayTwins
  <2> QED
    BY <1>1, <1>2, <2>3
<1> HIDE DEF Good
<1>8. PICK last \in Good[Len(record)] :
        /\ Replays(last, p, held)
        /\ rs = [response |-> BroughtUp(last.response), resolution |-> BroughtUp(last.resolution)]
  BY <1>6, <1>7, ReplayedThrough
<1>9. Len(record) \in 0 .. Len(record)
  OBVIOUS
<1>10. TwinClocks(last, last, now)
  <2> HIDE DEF moment
  <2>1. TwinClocks(last, last, moment(Len(record)))
    BY <1>8, <1>9 DEF Good
  <2> QED
    BY <1>4, <1>9, <2>1, TwinClocksLater
<1> QED
  BY <1>8, <1>10, BroughtUpClocks

\* The record leads where it led, ...
LEMMA ReplaysKept ==
  ASSUME NEW cs, NEW p, NEW held, Replays(cs, p, held), record' = record, held = Held',
         p = ReplayPriority'
  PROVE  Replays(cs, ReplayPriority, Held)'
<1>1. PICK g : Leads(g, cs, p, held)
  BY DEF Replays
<1>2. Leads(g, cs, ReplayPriority, Held)'
  BY <1>1 DEF Leads, Redone
<1> QED
  BY <1>2 DEF Replays

\* ... and an event leads on from there.
LEMMA ReplaysGrow ==
  ASSUME NEW cs, Replays(cs, ReplayPriority, Held), record \in Seq(Event), NEW e,
         record' = Append(record, e), NEW ds, ds = Redone(cs, e, ReplayPriority, Held),
         Held' = Held, ReplayPriority' = ReplayPriority
  PROVE  Replays(ds, ReplayPriority, Held)'
<1>1. PICK g : Leads(g, cs, ReplayPriority, Held)
  BY DEF Replays
<1> DEFINE n == Len(record)
<1>2. n \in Nat /\ Len(record') = n + 1 /\ record'[n + 1] = e
      /\ \A m \in 1 .. n : record'[m] = record[m]
  <2> HIDE DEF Event
  <2> QED
    OBVIOUS
<1>3. PICK new : new[n + 1] = ds /\ \A m \in 0 .. n : new[m] = g[m]
  <2> DEFINE grown == [m \in 0 .. n + 1 |-> IF m = n + 1 THEN ds ELSE g[m]]
  <2> HIDE DEF n
  <2>1. grown[n + 1] = ds /\ \A m \in 0 .. n : grown[m] = g[m]
    BY <1>2
  <2> QED
    BY <2>1
<1>4. ASSUME NEW m \in 1 .. n + 1
      PROVE  new[m] = Redone(new[m - 1], record'[m], ReplayPriority, Held)
  <2>1. CASE m = n + 1
    <3>1. new[m - 1] = cs /\ new[m] = ds /\ record'[m] = e
      BY <1>1, <1>2, <1>3, <2>1 DEF Leads
    <3> QED
      BY <3>1
  <2>2. CASE m # n + 1
    <3>1. m \in 1 .. n /\ m \in 0 .. n /\ m - 1 \in 0 .. n
      BY <1>2, <2>2
    <3>2. new[m - 1] = g[m - 1] /\ new[m] = g[m] /\ record'[m] = record[m]
      BY <1>2, <1>3, <3>1
    <3> QED
      BY <1>1, <3>1, <3>2 DEF Leads
  <2> QED
    BY <2>1, <2>2
<1>6. ASSUME NEW m \in 1 .. n + 1
      PROVE  new[m] = IF record'[m].kind = "response" THEN Respond(new[m - 1], record'[m].at)
                      ELSE Apply(new[m - 1], record'[m].before, record'[m].after,
                                 record'[m].at, record'[m].staff, Held', ReplayPriority')
  <2>1. new[m] = Redone(new[m - 1], record'[m], ReplayPriority, Held)
    BY <1>4
  <2> QED
    BY <2>1 DEF Redone
<1>7. new[0] = NoClocks
  BY <1>1, <1>2, <1>3 DEF Leads
<1>8. Leads(new, ds, ReplayPriority, Held)'
  <2> HIDE DEF n
  <2> QED
    BY <1>2, <1>3, <1>6, <1>7 DEF Leads, Redone
<1> QED
  BY <1>8 DEF Replays

LEMMA TellingInit == Init => Telling
<1> SUFFICES ASSUME Init PROVE Telling
  OBVIOUS
<1>1. record = <<>> /\ clocks = NoClocks /\ now = 0
  BY DEF Init
<1>2. Len(record) = 0 /\ InTime
  BY <1>1 DEF InTime
<1>3. PICK g : g[0] = NoClocks
  <2> DEFINE h == [n \in 0 .. 0 |-> NoClocks]
  <2>1. h[0] = NoClocks
    OBVIOUS
  <2> QED
    BY <2>1
<1>4. Leads(g, NoClocks, ReplayPriority, Held)
  BY <1>2, <1>3 DEF Leads
<1>5. Retold
  BY <1>1, <1>4, NoClocksTwins DEF Retold, Replays
<1>6. link = "none" /\ manager.op = "idle" /\ resolver = Idle /\ closer = Idle /\ triage = Idle
  BY DEF Init, Idle
<1> QED
  BY <1>2, <1>5, <1>6 DEF Telling, Unhandled

\* A step that the clocks, and what a rebuild looks at, do not see.
Unseen == UNCHANGED <<now, record, clocks, rebuild, marks, priority>>

LEMMA ManagersAreUnseen ==
  ASSUME Telling, ManagerReads \/ ManagerCommits \/ Detected \/ TriageJoins \/ Attached,
         incident' = "none"
  PROVE  incident = "none" /\ Unhandled /\ Unhandled' /\ Unseen
<1>1. ASSUME incident = "none" PROVE Unhandled
  BY <1>1 DEF Telling, Unhandled
<1>2. CASE ManagerReads
  <2>1. /\ incident = "none" /\ link' = link /\ resolver' = resolver /\ closer' = closer /\ Unseen
        /\ triage' = triage
    BY <1>2 DEF ManagerReads, incidentVars, Unseen, deskVars, clockVars, workers
  <2>2. PICK op \in Operations :
          MayHandle(op) /\ manager' = [op |-> op, seen |-> SeenNow, resolved |-> status = "completed"]
    BY <1>2 DEF ManagerReads
  <2>3. op = "declare"
    BY <1>1, <2>1, <2>2 DEF MayHandle, Unhandled, Linked, IncidentOpen, Operations
  <2>4. manager'.op = "declare"
    BY <2>2, <2>3
  <2> QED
    BY <1>1, <2>1, <2>4 DEF Unhandled
<1>3. CASE ManagerCommits
  <2>1. incident = "none" /\ Unhandled /\ manager.op \in {"dismiss", "link", "unlink", "reopen"}
    BY <1>1, <1>3 DEF ManagerCommits, Confirms, Dismisses, Links, Unlinks, Reopens
  <2> QED
    BY <2>1 DEF Unhandled
<1>4. CASE Detected
  BY <1>4 DEF Detected, IncidentOpen, incidentVars
<1>5. CASE TriageJoins \/ Attached
  <2>1. incident = "none" /\ triage.op # "idle"
    BY <1>5 DEF TriageJoins, Attached, incidentVars
  <2> QED
    BY <1>1, <2>1 DEF Unhandled, Idle
<1> QED
  BY <1>2, <1>3, <1>4, <1>5

LEMMA ResolversAreUnseen ==
  ASSUME Telling, incident' = "none",
         \/ Resolve \/ ResolverBroadcasts \/ ResolverStops \/ ResolverReads \/ ResolverReleases
         \/ ResolverMarks \/ CloserReads \/ CloserArrives \/ CloserRefused \/ CloserReleases
         \/ CloserLeaves \/ IncidentCloses
  PROVE  FALSE
<1>1. incident = "none"
  BY DEF Resolve, ResolverBroadcasts, ResolverStops, ResolverReads, ResolverReleases,
         ResolverMarks, CloserReads, CloserArrives, CloserRefused, CloserReleases, CloserLeaves,
         IncidentCloses, incidentVars
<1>2. resolver = Idle /\ closer = Idle /\ Idle.op = "idle" /\ link = "none"
  BY <1>1 DEF Telling, Unhandled, Idle
<1> HIDE DEF Idle
<1> QED
  BY <1>1, <1>2
     DEF Resolve, ResolverBroadcasts, ResolverStops, ResolverReads, ResolverReleases,
         ResolverMarks, CloserReads, CloserArrives, CloserRefused, CloserReleases, CloserLeaves,
         IncidentCloses

\* Before its incident only the ticket, its people and the sweep change what a rebuild looks at.
LEMMA BeforeTheIncident ==
  ASSUME Telling, [Next]_vars, incident' = "none"
  PROVE  /\ incident = "none" /\ Unhandled /\ Unhandled'
         /\ \/ Tick \/ Move \/ Answer \/ ChangePriority \/ Override
            \/ SweepRebuilds \/ SweepFires \/ AskedRebuilds \/ Unseen
<1>1. ASSUME incident = "none" PROVE Unhandled
  BY <1>1 DEF Telling, Unhandled
<1>2. CASE \/ Tick \/ Move \/ Answer \/ ChangePriority \/ Override
           \/ SweepReads \/ SweepRebuilds \/ SweepFires \/ RebuildAsked \/ AskedRebuilds
  <2>1. UNCHANGED <<incident, link, manager, resolver, closer, triage>>
    BY <1>2 DEF Tick, Move, Answer, ChangePriority, Override, SweepReads, SweepRebuilds,
                SweepFires, RebuildAsked, AskedRebuilds, incidentVars, handlers, deskVars, workers
  <2>2. SweepReads \/ RebuildAsked => Unseen
    BY DEF SweepReads, RebuildAsked, Unseen, clockVars
  <2> QED
    BY <1>1, <1>2, <2>1, <2>2 DEF Unhandled
<1>3. CASE ManagerReads \/ ManagerCommits \/ Detected \/ TriageJoins \/ Attached
  BY <1>3, ManagersAreUnseen
<1>4. CASE UNCHANGED vars
  <2>1. UNCHANGED <<incident, link, manager, resolver, closer, triage>> /\ Unseen
    BY <1>4 DEF vars, Unseen
  <2> QED
    BY <1>1, <2>1 DEF Unhandled
<1> QED
  BY <1>2, <1>3, <1>4, ResolversAreUnseen DEF Next

LEMMA InTimeKept ==
  ASSUME record \in Seq(Event), record' = record, now \in Moments, now' \in Moments, now <= now',
         InTime
  PROVE  InTime'
<1>1. \A n \in 1 .. Len(record) : record[n].at \in Nat
  <2> SUFFICES ASSUME NEW n \in 1 .. Len(record) PROVE record[n].at \in Nat
    OBVIOUS
  <2>1. record[n] \in Event
    OBVIOUS
  <2> QED
    BY <2>1, TimeAssumption DEF Event
<1> QED
  BY <1>1, MomentsType DEF InTime

LEMMA InTimeGrows ==
  ASSUME record \in Seq(Event), NEW e, record' = Append(record, e), e.at = now, now \in Moments,
         now' = now, InTime
  PROVE  InTime'
<1>1. /\ Len(record') = Len(record) + 1 /\ record'[Len(record) + 1] = e /\ Len(record) \in Nat
      /\ \A m \in 1 .. Len(record) : record'[m] = record[m]
  <2> HIDE DEF Event
  <2> QED
    OBVIOUS
<1>2. \A m \in 1 .. Len(record') : m = Len(record) + 1 \/ m \in 1 .. Len(record)
  BY <1>1
<1>3. \A m \in 1 .. Len(record') : record'[m].at <= now'
  BY <1>1, <1>2, MomentsType DEF InTime
<1>4. ASSUME NEW n \in 1 .. Len(record'), NEW m \in 1 .. n
      PROVE  record'[m].at <= record'[n].at
  <2>1. m \in 1 .. Len(record')
    BY <1>1
  <2>2. CASE n = Len(record) + 1
    BY <1>1, <1>3, <2>1, <2>2
  <2>3. CASE n \in 1 .. Len(record)
    <3>1. m \in 1 .. Len(record)
      BY <1>1, <2>3
    <3> QED
      BY <1>1, <2>3, <3>1 DEF InTime
  <2> QED
    BY <1>2, <2>2, <2>3
<1> QED
  BY <1>3, <1>4 DEF InTime

\* With nobody and nothing in the ticket's incident, no clock is held, ...
LEMMA NothingHolds ==
  ASSUME incident = "none", incident' = "none", Unhandled, Unhandled'
  PROVE  /\ ~Held /\ Held' = Held
         /\ InitialPriority(Linked) = "P3" /\ InitialPriority(Linked)' = "P3"
<1>1. link = "none" /\ link' = "none"
  BY DEF Unhandled
<1> QED
  BY <1>1 DEF Held, Linked, InitialPriority

\* ... so that a rebuild keeps the targets it would give the clocks.
LEMMA TargetsStay ==
  ASSUME incident = "none", incident' = "none", Unhandled, Unhandled',
         priority' = priority \/ (priority = "unset" /\ priority' = InitialPriority(Linked))
  PROVE  ReplayPriority' = ReplayPriority
<1>1. InitialPriority(Linked) = "P3" /\ InitialPriority(Linked)' = "P3"
  BY NothingHolds
<1> QED
  BY <1>1 DEF ReplayPriority

LEMMA RetoldStill ==
  ASSUME Retold, record' = record, clocks' = clocks, now \in Moments, now' \in Moments,
         now <= now', Held' = Held, ReplayPriority' = ReplayPriority
  PROVE  Retold'
<1>1. PICK cs : Replays(cs, ReplayPriority, Held) /\ TwinClocks(cs, clocks, now)
  BY DEF Retold
<1>2. Replays(cs, ReplayPriority, Held)'
  BY <1>1, ReplaysKept
<1>3. TwinClocks(cs, clocks', now')
  BY <1>1, TwinClocksLater
<1> QED
  BY <1>2, <1>3 DEF Retold

LEMMA RetoldOn ==
  ASSUME record \in Seq(Event), NEW e, record' = Append(record, e), NEW cs,
         Replays(cs, ReplayPriority, Held), Held' = Held, ReplayPriority' = ReplayPriority,
         TwinClocks(Redone(cs, e, ReplayPriority, Held), clocks', now')
  PROVE  Retold'
<1>1. PICK ds : ds = Redone(cs, e, ReplayPriority, Held)
  OBVIOUS
<1>2. Replays(ds, ReplayPriority, Held)'
  BY <1>1, ReplaysGrow
<1>3. TwinClocks(ds, clocks', now')
  BY <1>1
<1> QED
  BY <1>2, <1>3 DEF Retold

LEMMA StillTells ==
  ASSUME Inv, Telling, incident = "none", incident' = "none", Unhandled, Unhandled',
         record' = record, UNCHANGED <<clocks, rebuild, marks, priority>>,
         now' \in Moments, now <= now'
  PROVE  Telling'
<1>1. record \in Seq(Event) /\ now \in Moments
  BY DEF Inv, RestOK, DeskOK
<1>2. InTime'
  BY <1>1, InTimeKept DEF Telling
<1>3. ASSUME ~rebuild', "edited" \notin marks' PROVE Retold'
  <2>1. Retold
    BY <1>3 DEF Telling
  <2>2. Held' = Held /\ ReplayPriority' = ReplayPriority
    BY NothingHolds, TargetsStay
  <2> QED
    BY <1>1, <2>1, <2>2, RetoldStill
<1> QED
  BY <1>2, <1>3 DEF Telling

LEMMA MoveTells ==
  ASSUME Inv, Telling, incident = "none", incident' = "none", Unhandled, Unhandled', Move
  PROVE  Telling'
<1>1. PICK after \in StatusClasses, staff \in BOOLEAN : Entered(after, staff, {"moves"})
  BY DEF Move
<1> DEFINE move == "move"
           e == [kind |-> move, at |-> now, before |-> status, after |-> after, staff |-> staff]
           p == PriorityAfter(clocks, after)
<1>2. /\ record \in Seq(Event) /\ now \in Moments /\ ClocksOK(clocks)
      /\ priority \in Priorities \union {"unset"}
  BY DEF Inv, RestOK, DeskOK, ClockInv
<1>3. record' = Append(record, e) /\ now' = now /\ marks \subseteq marks'
  BY <1>1 DEF Move, Entered
<1>4. /\ e.at = now /\ e.kind # "response" /\ e.before = status /\ e.after = after
      /\ e.staff = staff
  OBVIOUS
<1> HIDE DEF e
<1>5. InTime'
  BY <1>2, <1>3, <1>4, InTimeGrows DEF Telling
<1>6. ASSUME ~rebuild', "edited" \notin marks' PROVE Retold'
  <2>1. clocks' = Apply(clocks, status, after, now, staff, Held, p) /\ priority' = p
        /\ rebuild' = rebuild
    BY <1>1, <1>6 DEF Entered, Fails
  <2>2. PICK cs : Replays(cs, ReplayPriority, Held) /\ TwinClocks(cs, clocks, now)
    BY <1>3, <1>6, <2>1 DEF Telling, Retold
  <2>3. Starts(cs, after) <=> Starts(clocks, after)
    BY <1>2, <2>2, LiveTwins
  <2>4. p = priority \/ (priority = "unset" /\ p = InitialPriority(Linked))
    BY DEF PriorityAfter
  <2>5. Held' = Held /\ ReplayPriority' = ReplayPriority
    BY <2>1, <2>4, NothingHolds, TargetsStay
  <2>6. Starts(clocks, after) => p = ReplayPriority
    BY DEF PriorityAfter, ReplayPriority
  <2>7. clocks' = Apply(clocks, status, after, now, staff, Held, ReplayPriority)
    <3>1. CASE Starts(clocks, after)
      BY <2>1, <2>6, <3>1
    <3>2. CASE ~Starts(clocks, after)
      <4> HIDE DEF p
      <4> QED
        BY <2>1, <3>2, ApplyPriority
    <3> QED
      BY <3>1, <3>2
  <2>8. Held \in BOOLEAN /\ ReplayPriority \in Priorities
    BY <1>2 DEF Held, ReplayPriority, InitialPriority, Priorities
  <2>9. Redone(cs, e, ReplayPriority, Held) = Apply(cs, status, after, now, staff, Held, ReplayPriority)
    BY <1>4 DEF Redone
  <2>10. TwinClocks(Redone(cs, e, ReplayPriority, Held), clocks', now')
    BY <1>2, <1>3, <2>2, <2>7, <2>8, <2>9, ApplyTwins
  <2> QED
    BY <1>2, <1>3, <2>2, <2>5, <2>10, RetoldOn
<1> QED
  BY <1>5, <1>6 DEF Telling

LEMMA AnswerTells ==
  ASSUME Inv, Telling, incident = "none", incident' = "none", Unhandled, Unhandled', Answer
  PROVE  Telling'
<1> DEFINE response == "response"
           e == [kind |-> response, at |-> now]
<1>1. record \in Seq(Event) /\ now \in Moments
  BY DEF Inv, RestOK, DeskOK
<1>2. record' = Append(record, e) /\ now' = now /\ marks' = marks
  BY DEF Answer
<1>3. e.at = now /\ e.kind = "response"
  OBVIOUS
<1> HIDE DEF e
<1>4. InTime'
  BY <1>1, <1>2, <1>3, InTimeGrows DEF Telling
<1>5. ASSUME ~rebuild', "edited" \notin marks' PROVE Retold'
  <2>1. clocks' = Respond(clocks, now) /\ priority' = priority /\ rebuild' = rebuild
    BY <1>5 DEF Answer, Fails
  <2>2. PICK cs : Replays(cs, ReplayPriority, Held) /\ TwinClocks(cs, clocks, now)
    BY <1>2, <1>5, <2>1 DEF Telling, Retold
  <2>3. Held' = Held /\ ReplayPriority' = ReplayPriority
    BY <2>1, NothingHolds, TargetsStay
  <2>4. Redone(cs, e, ReplayPriority, Held) = Respond(cs, now)
    BY <1>3 DEF Redone
  <2>5. TwinClocks(Redone(cs, e, ReplayPriority, Held), clocks', now')
    BY <1>1, <1>2, <2>1, <2>2, <2>4, RespondTwins
  <2> QED
    BY <1>1, <1>2, <2>2, <2>3, <2>5, RetoldOn
<1> QED
  BY <1>4, <1>5 DEF Telling

\* A person's change of the targets is not on the record.
LEMMA EditsTell ==
  ASSUME Inv, Telling, incident = "none", incident' = "none", Unhandled, Unhandled',
         ChangePriority \/ Override
  PROVE  Telling'
<1>1. record \in Seq(Event) /\ now \in Moments
  BY DEF Inv, RestOK, DeskOK
<1>2. record' = record /\ now' = now /\ "edited" \in marks'
  BY DEF ChangePriority, Override, deskVars
<1>3. InTime'
  BY <1>1, <1>2, InTimeKept, MomentsType DEF Telling
<1> QED
  BY <1>2, <1>3 DEF Telling

LEMMA SweepFiresTells ==
  ASSUME Inv, Telling, incident = "none", incident' = "none", Unhandled, Unhandled', SweepFires
  PROVE  Telling'
<1> DEFINE fired(c) == Escalated(Breached(Warned(c)))
           new(c) == IF Open(c) THEN fired(c) ELSE c
<1>1. /\ record \in Seq(Event) /\ now \in Moments /\ ClocksOK(clocks)
      /\ clocks.response \in Clock /\ clocks.resolution \in Clock
      /\ Timed(clocks.response, now) /\ Timed(clocks.resolution, now)
  BY ClocksType DEF Inv, RestOK, DeskOK, ClockInv
<1>2. record' = record /\ now' = now /\ UNCHANGED <<rebuild, marks, priority>>
  BY DEF SweepFires
<1>3. InTime'
  BY <1>1, <1>2, InTimeKept, MomentsType DEF Telling
<1>4. ASSUME ~rebuild', "edited" \notin marks' PROVE Retold'
  <2>1. PICK cs : Replays(cs, ReplayPriority, Held) /\ TwinClocks(cs, clocks, now)
    BY <1>2, <1>4 DEF Telling, Retold
  <2>2. Held' = Held /\ ReplayPriority' = ReplayPriority
    BY <1>2, NothingHolds, TargetsStay
  <2>3. Replays(cs, ReplayPriority, Held)'
    BY <1>2, <2>1, <2>2, ReplaysKept
  <2>4. ASSUME NEW c, NEW d \in Clock, Timed(d, now), Twins(c, d, now)
        PROVE  Twins(c, new(d), now)
    <3>1. CASE Open(d)
      BY <1>1, <2>4, <3>1, FiredMarked, FiredAlike, MarkedTwins
    <3>2. CASE ~Open(d)
      BY <2>4, <3>2
    <3> QED
      BY <3>1, <3>2
  <2>5. clocks' = [response |-> new(clocks.response), resolution |-> new(clocks.resolution)]
    BY DEF SweepFires, Each
  <2> HIDE DEF new
  <2>6. /\ Twins(cs.response, new(clocks.response), now)
        /\ Twins(cs.resolution, new(clocks.resolution), now)
        /\ cs.response.kind = "response" /\ cs.resolution.kind = "resolution"
        /\ cs = [response |-> cs.response, resolution |-> cs.resolution]
    BY <1>1, <2>1, <2>4, ClocksType DEF TwinClocks, ClocksOK
  <2>7. TwinClocks(cs, clocks', now')
    BY <1>2, <2>5, <2>6, TwinPair
  <2> QED
    BY <2>3, <2>7 DEF Retold
<1> QED
  BY <1>3, <1>4 DEF Telling

LEMMA RebuildTells ==
  ASSUME Inv, Telling, incident = "none", incident' = "none", Unhandled, Unhandled',
         NEW copy \in Copies, Rebuild(copy), record' = record, now' = now
  PROVE  Telling'
<1>1. record \in Seq(Event) /\ now \in Moments
  BY DEF Inv, RestOK, DeskOK
<1>2. InTime /\ InTime'
  BY <1>1, InTimeKept, MomentsType DEF Telling
<1>3. PICK p \in Priorities, held \in BOOLEAN : p = PriorityOf(copy) /\ held = HeldIn(copy)
  BY FromCopy
<1>4. ~Held' /\ ~held /\ InitialPriority(Linked)' = "P3" /\ InitialPriority(copy.linked) = "P3"
  <2>1. ~Held /\ Held' = Held /\ InitialPriority(Linked)' = "P3"
    BY NothingHolds
  <2>2. ~HeldIn(copy) /\ InitialPriority(copy.linked) = "P3"
    BY DEF HeldIn, InitialPriority, IncidentOpen
  <2> HIDE DEF Held
  <2> QED
    BY <1>3, <2>1, <2>2
<1>5. clocks' = Replayed(p, held)
  BY <1>3 DEF Rebuild
<1>6. PICK last : Replays(last, p, held) /\ TwinClocks(last, clocks', now)
  BY <1>1, <1>2, <1>5, ReplayedTwins
<1>7. ASSUME "edited" \notin marks' PROVE Retold'
  <2>1. priority' \in {copy.priority, p}
    BY <1>3, <1>7 DEF Rebuild
  <2>2. IF copy.priority = "unset" THEN p = "P3" ELSE p = copy.priority
    BY <1>3, <1>4 DEF PriorityOf
  <2>3. p = ReplayPriority'
    BY <1>4, <2>1, <2>2 DEF ReplayPriority, Priorities
  <2>4. Held' \in BOOLEAN /\ held = Held'
    BY <1>4 DEF Held
  <2>5. Replays(last, ReplayPriority, Held)'
    BY <1>6, <2>3, <2>4, ReplaysKept
  <2> QED
    BY <1>6, <2>5 DEF Retold
<1> QED
  BY <1>2, <1>7 DEF Telling

LEMMA NextTells == ASSUME Inv, Telling, [Next]_vars PROVE Telling'
<1> SUFFICES ASSUME incident' = "none" PROVE Telling'
  BY DEF Telling
<1>1. /\ incident = "none" /\ Unhandled /\ Unhandled'
      /\ \/ Tick \/ Move \/ Answer \/ ChangePriority \/ Override
         \/ SweepRebuilds \/ SweepFires \/ AskedRebuilds \/ Unseen
  BY BeforeTheIncident
<1>2. now \in Moments
  BY DEF Inv, RestOK, DeskOK
<1>3. CASE Tick
  <2>1. record' = record /\ UNCHANGED <<clocks, rebuild, marks, priority>>
        /\ now' = now + 1 /\ now < MaxTime
    BY <1>3 DEF Tick
  <2>2. now' \in Moments /\ now <= now'
    BY <1>2, <2>1, TimeAssumption DEF Moments
  <2> QED
    BY <1>1, <2>1, <2>2, StillTells
<1>4. CASE Unseen
  <2>1. record' = record /\ UNCHANGED <<clocks, rebuild, marks, priority>> /\ now' = now
    BY <1>4 DEF Unseen
  <2>2. now' \in Moments /\ now <= now'
    BY <1>2, <2>1, MomentsType
  <2> QED
    BY <1>1, <2>1, <2>2, StillTells
<1>5. CASE SweepRebuilds \/ AskedRebuilds
  <2>1. record' = record /\ now' = now /\ \E copy \in Copies : Rebuild(copy)
    BY <1>5 DEF SweepRebuilds, AskedRebuilds, Inv, RestOK, DeskOK, WorkersOK, Asking
  <2> QED
    BY <1>1, <2>1, RebuildTells
<1> QED
  BY <1>1, <1>3, <1>4, <1>5, MoveTells, AnswerTells, EditsTell, SweepFiresTells

\* What the record leads to is what the clocks are, and a rebuild gives twins of it.
LEMMA RebuildGives == Inv /\ Telling => ReplayAgrees
<1> SUFFICES ASSUME Inv, Telling, ~rebuild, "edited" \notin marks, incident = "none"
             PROVE  LET replayed == Replayed(PriorityOf(Copy), Held)
                    IN /\ SameClock(replayed.response, clocks.response)
                       /\ SameClock(replayed.resolution, clocks.resolution)
  BY DEF ReplayAgrees
<1> DEFINE replayed == Replayed(ReplayPriority, Held)
<1>11. PriorityOf(Copy) = ReplayPriority
  BY DEF PriorityOf, Copy, ReplayPriority
<1>1. record \in Seq(Event) /\ now \in Moments
  BY DEF Inv, RestOK, DeskOK
<1>2. PICK cs : Replays(cs, ReplayPriority, Held) /\ TwinClocks(cs, clocks, now)
  BY DEF Telling, Retold
<1>3. PICK g : Leads(g, cs, ReplayPriority, Held)
  BY <1>2 DEF Replays
<1> DEFINE Good == [n \in 0 .. Len(record) |-> {g[n]}]
<1>4. Len(record) \in 0 .. Len(record) /\ 0 \in 0 .. Len(record)
  <2> HIDE DEF Event
  <2> QED
    BY <1>1
<1>5. NoClocks \in Good[0] /\ Good[Len(record)] = {cs}
  BY <1>3, <1>4 DEF Leads
<1>6. ASSUME NEW n \in 1 .. Len(record), NEW c \in Good[n - 1]
      PROVE  Redone(c, record[n], ReplayPriority, Held) \in Good[n]
  <2>1. n \in 0 .. Len(record) /\ n - 1 \in 0 .. Len(record)
    OBVIOUS
  <2> QED
    BY <1>3, <2>1 DEF Leads
<1> HIDE DEF Good
<1>7. replayed = [response |-> BroughtUp(cs.response), resolution |-> BroughtUp(cs.resolution)]
  BY <1>1, <1>5, <1>6, ReplayedThrough
<1>8. ASSUME NEW c, NEW d, Twins(c, d, now)
      PROVE  SameClock(BroughtUp(c), d)
  <2>1. Twins(c, BroughtUp(c), now)
    <3>1. Twins(c, c, now)
      BY <1>8 DEF Twins, Alike
    <3> QED
      BY <1>1, <3>1, BroughtUpTwins
  <2>2. /\ ElapsedAt(BroughtUp(c), now) = ElapsedAt(d, now)
        /\ Counting(BroughtUp(c)) = Counting(d) /\ Open(BroughtUp(c)) = Open(d)
        /\ ~Open(BroughtUp(c)) => BroughtUp(c).state = d.state
    BY <1>1, <1>8, <2>1, TwinsElapsed DEF Counting, Open, OpenStates
  <2> QED
    BY <1>8, <2>1, <2>2 DEF SameClock, Twins
<1> DEFINE r == BroughtUp(cs.response)
           s == BroughtUp(cs.resolution)
<1>9. SameClock(r, clocks.response) /\ SameClock(s, clocks.resolution)
  BY <1>2, <1>8 DEF TwinClocks
<1>10. replayed = [response |-> r, resolution |-> s]
  BY <1>7
<1> HIDE DEF r, s, replayed
<1>12. SameClock(replayed.response, clocks.response)
       /\ SameClock(replayed.resolution, clocks.resolution)
  BY <1>9, <1>10
<1> QED
  BY <1>11, <1>12 DEF replayed

-----------------------------------------------------------------------------
(* The theorems *)

LEMMA Always == Spec => []Inv
<1>1. Inv /\ [Next]_vars => Inv'
  BY NextStep DEF Step
<1> QED
  BY InvInit, <1>1, PTL DEF Spec

\* Every reachable state has its types: no due time, fold or replay leaves its range, at any
\* moment (Clock, Ticket.sla_due_at).
THEOREM TypeCorrect == Spec => []TypeOK
BY Always, InvTypes, PTL

\* Whatever moves, holds, releases, answers, targets, failures and rebuilds a ticket sees, in any
\* order, its clocks show the working time that passed while they were counting: nothing is
\* counted twice where a fold and a resume meet, and none is lost (fold, Clock.elapsed_at).
THEOREM ElapsedTrue == Spec => []ElapsedIsTrue
<1>1. Inv => ElapsedIsTrue
  <2> DEFINE r == ElapsedAt(clocks.response, now)
             s == ElapsedAt(clocks.resolution, now)
  <2>1. ASSUME Inv PROVE spent \in [response: Nat, resolution: Nat]
                         /\ r = spent.response /\ s = spent.resolution
    BY <2>1 DEF Inv, ClockInv, SpentOK
  <2>2. Elapsed(clocks, now) = [response |-> r, resolution |-> s]
    BY DEF Elapsed
  <2> HIDE DEF r, s
  <2> QED
    BY <2>1, <2>2 DEF ElapsedIsTrue
<1> QED
  BY Always, <1>1, PTL

\* As long as nobody wrote it by an older copy of the ticket, the due time a ticket shows is that of
\* its clock, through every path that changes the clock (mirror).
THEOREM MirrorTrue == Spec => []MirrorFollows
<1>1. Inv => MirrorFollows
  BY DEF Inv
<1> QED
  BY Always, <1>1, PTL

\* In any interleaving of the ticket's moves, its incident's handlers, triage and rebuilds, which
\* all act on copies they read before, the clocks stop and wait when they should and no longer,
\* unless the sweep is yet to rebuild them or a mark says which of them got it wrong: one that went
\* by an old copy, a clock that came to run in a confirmed incident, or a resolver that stopped
\* half way (apply, incident_hold, attach, rebuild, Incidents.resolve).
THEOREM ClocksFollow == Spec => []ClocksFollowTheTicket
<1>1. Inv /\ Tracking /\ [Next]_vars => Tracking'
  BY NextTracks
<1>2. Tracking => ClocksFollowTheTicket
  <2> SUFFICES ASSUME Tracking, ~rebuild PROVE StoppedWithTheTicket /\ PausedForAReason
    BY DEF ClocksFollowTheTicket
  <2>1. Follows(clocks, status) /\ ResolutionWaits
    BY DEF Tracking, Following
  <2>2. closer.op = "release" => closer # Idle
    BY DEF Idle
  <2>3. PausedForAReason
    BY <2>1, <2>2 DEF PausedForAReason, Follows, ResolutionWaits, HeldForAReason, Dropped, Escaped
  <2> QED
    BY <2>1, <2>3 DEF StoppedWithTheTicket, Follows
<1> QED
  BY Always, TrackingInit, <1>1, <1>2, PTL DEF Spec

\* A rebuild gives a ticket the clocks it has: whatever the ticket's moves, answers, failures and
\* rebuilds, from copies however old, the record leads to twins of its clocks, as long as no person
\* set other targets, no rebuild undid them by an older copy, and no incident came into it (rebuild,
\* apply, sweep).
THEOREM RebuildAgrees == Spec => []ReplayAgrees
<1>1. Inv /\ Telling /\ [Next]_vars => Telling'
  BY NextTells
<1> QED
  BY Always, TellingInit, <1>1, RebuildGives, PTL DEF Spec

\* No warning, breach or escalation fires before its business time is counted, whatever calendar,
\* targets and changes of them (recompute, LevelTime, sweep).
THEOREM FiresOnTime == Spec => FiredOnTime
<1>1. Inv /\ [Next]_vars =>
        [\A k \in Kinds : \A l \in clocks'[k].fired \ clocks[k].fired :
           spent'[k] >= Goals[k][clocks'[k].target][l]]_vars
  BY NextStep DEF Step, Fires
<1> QED
  BY Always, <1>1, PTL DEF Spec, FiredOnTime
=============================================================================
