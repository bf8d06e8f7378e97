---------------------------- MODULE BusinessTime ----------------------------
(***************************************************************************)
(* Business time on a calendar (apps/sla/utils/business_time.py): working  *)
(* intervals per weekday, whole-day holidays, or around the clock.         *)
(*                                                                         *)
(* Time is counted in units from the midnight a day 0 begins with, in the  *)
(* calendar's own zone; a change of its clocks (daylight saving) is left   *)
(* out.  A calendar is a record [always, hours, holidays] with hours a     *)
(* function from weekdays to sequences of intervals within the day.        *)
(*                                                                         *)
(* The calendar keeps no state.  A behaviour is what it may be asked:      *)
(* hours to read, or how much working time has passed since a moment, as   *)
(* time passes.                                                            *)
(***************************************************************************)
EXTENDS Integers, Sequences, FiniteSets, SequencesExt, FiniteSetsExt

CONSTANTS
  DayLength,   \* units in a day
  WeekLength,  \* weekdays in a week
  MaxDays,     \* how many days `add` walks before it gives up
  Hours,       \* what may be sent as working hours
  Calendars,   \* calendars that have been accepted
  Moments,     \* when time may be asked for
  MaxUnits     \* bound: how long time passes from there

ASSUME LengthsAssumption ==
  /\ DayLength \in Nat \ {0} /\ WeekLength \in Nat \ {0} /\ MaxDays \in Nat \ {0}

Weekdays == 0 .. (WeekLength - 1)
Interval == [from : 0 .. DayLength, to : 0 .. DayLength]
NoTimeFound == -1

DayOf(t) == t \div DayLength
Later(s, t) == IF s < t THEN t ELSE s
Earlier(s, t) == IF s < t THEN s ELSE t

-----------------------------------------------------------------------------
(* parse_hours *)

Precedes(x, y) == x.from < y.from \/ (x.from = y.from /\ x.to <= y.to)
Sorts(order, spans) == \A i, j \in DOMAIN spans : i < j => Precedes(spans[order[i]], spans[order[j]])
Sorted(spans) ==
  LET order == CHOOSE order \in Bijection(DOMAIN spans, DOMAIN spans) : Sorts(order, spans)
  IN [i \in DOMAIN spans |-> spans[order[i]]]

\* A day's intervals in order: none overlaps the next, and none is empty.
FitsDay(spans) ==
  /\ \A i \in 1 .. (Len(spans) - 1) : spans[i + 1].from >= spans[i].to
  /\ \A i \in DOMAIN spans : spans[i].from < spans[i].to

Parsed(raw) == [w \in Weekdays |-> Sorted(raw[w])]
Accepts(raw) ==
  /\ \A w \in Weekdays : FitsDay(Parsed(raw)[w])
  /\ \E w \in Weekdays : Parsed(raw)[w] # <<>>

-----------------------------------------------------------------------------
(* BusinessCalendar *)

\* The working intervals of a day.
Spans(c, day) ==
  IF day \in c.holidays THEN <<>>
  ELSE LET hours == c.hours[day % WeekLength]
       IN [i \in DOMAIN hours |-> [from |-> day * DayLength + hours[i].from,
                                   to |-> day * DayLength + hours[i].to]]

Overlap(span, start, end) ==
  Later(0, Earlier(span.to, end) - Later(span.from, start))

WorkedOn(c, day, start, end) ==
  LET spans == Spans(c, day)
  IN SumFunction([i \in DOMAIN spans |-> Overlap(spans[i], start, end)])

Elapsed(c, start, end) ==
  IF end <= start THEN 0
  ELSE IF c.always THEN end - start
  ELSE SumFunction([day \in DayOf(start) .. DayOf(end) |-> WorkedOn(c, day, start, end)])

\* Working days after the first one whose working hours were over by `end`.
WholeDays(c, start, end) ==
  Cardinality({day \in (DayOf(start) + 1) .. DayOf(end) :
                 IF c.always THEN day < DayOf(end)
                 ELSE LET spans == Spans(c, day) IN spans # <<>> /\ end >= Last(spans).to})

Walk_FromMidnight(walk, span, start) ==
  IF walk.found # NoTimeFound \/ span.to <= start THEN walk
  ELSE IF span.to - span.from >= walk.rest THEN [walk EXCEPT !.found = span.from + walk.rest]
  ELSE [walk EXCEPT !.rest = @ - (span.to - span.from)]

\* One interval of the walk of `add`: it ends there, or the interval's time is taken off.
Walk(walk, span, start) ==
  LET begin == Later(span.from, start)
  IN IF walk.found # NoTimeFound \/ span.to <= begin THEN walk
     ELSE IF span.to - begin >= walk.rest THEN [walk EXCEPT !.found = begin + walk.rest]
     ELSE [walk EXCEPT !.rest = @ - (span.to - begin)]

\* What is left to walk after a day's intervals.
WalkDay(walk, spans, start) ==
  LET walked[i \in 0 .. Len(spans)] ==
        IF i = 0 THEN walk ELSE Walk(walked[i - 1], spans[i], start)
  IN walked[Len(spans)]

\* The moment `units` of business time after `start`, or none within MaxDays.
Add(c, start, units) ==
  IF units <= 0 THEN start
  ELSE IF c.always THEN start + units
  ELSE LET walked[n \in 0 .. MaxDays] ==
             IF n = 0 THEN [rest |-> units, found |-> NoTimeFound]
             ELSE WalkDay(walked[n - 1], Spans(c, DayOf(start) + n - 1), start)
       IN walked[MaxDays].found

-----------------------------------------------------------------------------
(* What they are to compute, counted unit by unit *)

Works(c, u) ==
  \/ c.always
  \/ /\ DayOf(u) \notin c.holidays
     /\ \E i \in DOMAIN c.hours[DayOf(u) % WeekLength] :
          LET span == c.hours[DayOf(u) % WeekLength][i]
          IN span.from <= u % DayLength /\ u % DayLength < span.to
Between(c, start, end) == Cardinality({u \in start .. (end - 1) : Works(c, u)})

\* Hours are accepted exactly when no moment of a day lies in two of its intervals, none of them
\* is empty and there is working time at all, in whatever order they are sent (parse_hours).
HoursAreRead(raw) ==
  LET Units == 0 .. DayLength
      Inside(w, u) == {i \in DOMAIN raw[w] : raw[w][i].from <= u /\ u < raw[w][i].to}
  IN Accepts(raw) <=>
       /\ \A w \in Weekdays : /\ \A u \in Units : Cardinality(Inside(w, u)) <= 1
                             /\ \A i \in DOMAIN raw[w] : \E u \in Units : i \in Inside(w, u)
       /\ \E w \in Weekdays, u \in Units : Inside(w, u) # {}

\* Elapsed time is the number of working units passed, `add` gives the first moment by which
\* the time has passed, if it comes within the days it walks, and a working day counts as
\* whole when none of its working units is left (elapsed, add, whole_days).
ElapsedIsCounted(c, start, end) == Elapsed(c, start, end) = Between(c, start, end)
AddIsCounted(c, start, units) ==
  LET due == Add(c, start, units)
      horizon == (DayOf(start) + MaxDays) * DayLength
  IN IF due = NoTimeFound THEN Between(c, start, horizon) < units
     ELSE /\ Between(c, start, due) = units
          /\ units = 0 => due = start
          /\ units > 0 => Works(c, due - 1)
WholeDaysAreCounted(c, start, end) ==
  WholeDays(c, start, end) =
    Cardinality({day \in (DayOf(start) + 1) .. DayOf(end) :
       LET worked == {u \in (day * DayLength) .. ((day + 1) * DayLength - 1) : Works(c, u)}
       IN worked # {} /\ \A u \in worked : u < end})

-----------------------------------------------------------------------------
(* What is asked *)

\* A calendar as parse_hours lets it be made.
Calendar ==
  {c \in [always : BOOLEAN, hours : [Weekdays -> Seq(Interval)], holidays : SUBSET Int] :
     \A w \in Weekdays : FitsDay(c.hours[w])}

ASSUME QuestionsAssumption ==
  /\ \A raw \in Hours : raw \in [Weekdays -> Seq(Interval)]
  /\ \A c \in Calendars : c \in Calendar
  /\ Moments \subseteq Nat /\ MaxUnits \in Nat

VARIABLE asked  \* hours to read, or a calendar, a moment and how long it is since

Asks(field) == field \in DOMAIN asked

Reading == {[raw |-> raw] : raw \in Hours}
Counting(units) ==
  {[cal |-> c, start |-> start, units |-> units] : c \in Calendars, start \in Moments}

TimePasses ==
  /\ Asks("cal") /\ asked.units < MaxUnits
  /\ asked' = [asked EXCEPT !.units = @ + 1]

TimeInit == asked \in Reading \union Counting(0)
TimeSpec == TimeInit /\ [][TimePasses]_asked

\* Business time, from the hours a client sends to the moment a clock is due, agrees with a
\* count of the working units, over holidays, days of rest, gaps and the ends of intervals.
BusinessTimeIsCounted ==
  /\ Asks("raw") => HoursAreRead(asked.raw)
  /\ Asks("cal") => /\ ElapsedIsCounted(asked.cal, asked.start, asked.start + asked.units)
                    /\ AddIsCounted(asked.cal, asked.start, asked.units)
                    /\ WholeDaysAreCounted(asked.cal, asked.start, asked.start + asked.units)
=============================================================================
