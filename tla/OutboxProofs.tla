---------------------------- MODULE OutboxProofs ----------------------------
(***************************************************************************)
(* Proofs about Outbox, for any number of workers, attempts, crashes and   *)
(* losses, and however slow the workers are.                               *)
(*                                                                         *)
(* A message that is accepted, waits in the queue, or is in the hands of a *)
(* worker that may still have it accepted or put it back, has used up one  *)
(* of the reasons there were to send it.  Counting these proves that       *)
(* copies need a reason; counting the workers that may put it back proves  *)
(* that attempts end.                                                      *)
(***************************************************************************)
EXTENDS Outbox, FiniteSetTheorems, TLAPS

Worker == [pc : {"idle", "send", "write"}, claim : Nat, attempts : Nat,
           outcome : {"none", "ok", "transient", "permanent"}]

Bounds == {"crashes", "losses", "late", "unheard", "retries"}

\* What a worker writes is the outcome of a send.
OutcomesOK == \A w \in Workers : workers[w].pc = "write" => workers[w].outcome # "none"

TypeInv == TypeOK /\ OutcomesOK

---------------------------------------------------------------------------
(* Types *)

LEMMA IdleType == Idle \in Worker
BY DEF Idle, Worker

LEMMA EnqueuedType ==
  ASSUME copies \in 0..MaxCopies
  PROVE  Enqueued \in 0..MaxCopies
BY BoundsAssumption DEF Enqueued

LEMMA SpendType ==
  ASSUME spent \in [Bounds -> Nat], NEW bound \in Bounds, Spend(bound)
  PROVE  spent' \in [Bounds -> Nat]
BY DEF Spend

\* One worker's record is replaced by another.
LEMMA WorkerUpdate ==
  ASSUME workers \in [Workers -> Worker], NEW w \in Workers, NEW record \in Worker,
         workers' = [workers EXCEPT ![w] = record]
  PROVE  /\ workers' \in [Workers -> Worker] /\ workers'[w] = record
         /\ \A v \in Workers \ {w} : workers'[v] = workers[v]
OBVIOUS

\* A step of one worker, as far as types go.
LEMMA WorkerStep ==
  ASSUME TypeInv, NEW w \in Workers, NEW record \in Worker,
         workers' = [workers EXCEPT ![w] = record],
         record.pc = "write" => record.outcome # "none",
         row' \in [state : {"queued", "sending", "delivered", "failed"}, attempts : Nat,
                   due : BOOLEAN],
         copies' \in 0..MaxCopies, claims' \in Nat, accepted' \in Nat, again' \in Nat,
         spent' \in [Bounds -> Nat]
  PROVE  TypeInv'
<1>1. /\ workers' \in [Workers -> Worker] /\ workers'[w] = record
      /\ \A v \in Workers \ {w} : workers'[v] = workers[v]
  BY WorkerUpdate DEF TypeInv, TypeOK, Worker
<1>2. TypeOK'
  BY <1>1 DEF TypeOK, Worker, Bounds
<1>3. OutcomesOK'
  BY <1>1 DEF OutcomesOK, TypeInv
<1> QED
  BY <1>2, <1>3 DEF TypeInv

\* The record of a worker that has just claimed the message.
Claimed == [Idle EXCEPT !.pc = "send", !.claim = claims + 1, !.attempts = row.attempts + 1]

LEMMA ClaimedType ==
  ASSUME TypeInv
  PROVE  /\ Claimed \in Worker
         /\ Claimed.pc = "send" /\ Claimed.attempts = row.attempts + 1
<1> DEFINE n == claims + 1  m == row.attempts + 1
<1>1. n \in Nat /\ m \in Nat
  BY DEF TypeInv, TypeOK
<1>2. Claimed = [Idle EXCEPT !.pc = "send", !.claim = n, !.attempts = m]
  BY DEF Claimed
<1> HIDE DEF n, m
<1>3. Claimed \in Worker /\ Claimed.pc = "send" /\ Claimed.attempts = m
  BY <1>1, <1>2 DEF Idle, Worker
<1> QED
  BY <1>3 DEF m

LEMMA ClaimType ==
  ASSUME TypeInv, NEW w \in Workers, Claim(w)
  PROVE  TypeInv'
<1>1. workers' = [workers EXCEPT ![w] = Claimed]
  BY DEF Claim, Claimed
<1>2. row' \in [state : {"queued", "sending", "delivered", "failed"}, attempts : Nat,
                due : BOOLEAN]
  <2> DEFINE m == row.attempts + 1
  <2>1. m \in Nat
    BY DEF TypeInv, TypeOK
  <2>2. row' = [row EXCEPT !.state = "sending", !.attempts = m]
    BY DEF Claim
  <2> HIDE DEF m
  <2> QED
    BY <2>1, <2>2 DEF TypeInv, TypeOK
<1>3. copies' \in 0..MaxCopies
  BY BoundsAssumption DEF Claim, TypeInv, TypeOK
<1>4. claims' \in Nat /\ UNCHANGED <<accepted, again, spent>>
  BY DEF Claim, TypeInv, TypeOK
<1>5. accepted' \in Nat /\ again' \in Nat /\ spent' \in [Bounds -> Nat]
  BY <1>4 DEF TypeInv, TypeOK, Bounds
<1>6. Claimed \in Worker /\ (Claimed.pc = "write" => Claimed.outcome # "none")
  BY ClaimedType
<1> DEFINE record == Claimed
<1> HIDE DEF record
<1>7. record \in Worker /\ (record.pc = "write" => record.outcome # "none")
      /\ workers' = [workers EXCEPT ![w] = record]
  BY <1>1, <1>6 DEF record
<1> QED
  BY <1>2, <1>3, <1>4, <1>5, <1>7, WorkerStep

\* What a worker is left with after a send.
Heard(w, outcome) == [workers[w] EXCEPT !.pc = "write", !.outcome = outcome]

LEMMA HeardType ==
  ASSUME TypeInv, NEW w \in Workers, NEW outcome \in {"ok", "transient", "permanent"},
         Sent(w, outcome)
  PROVE  /\ Heard(w, outcome) \in Worker
         /\ Heard(w, outcome).pc = "write" /\ Heard(w, outcome).outcome = outcome
         /\ Heard(w, outcome).attempts = workers[w].attempts
         /\ workers' = [workers EXCEPT ![w] = Heard(w, outcome)]
BY DEF TypeInv, TypeOK, Heard, Sent, Worker

LEMMA SendType ==
  ASSUME TypeInv, NEW w \in Workers, Send(w)
  PROVE  TypeInv'
<1>1. PICK outcome \in {"ok", "transient", "permanent"} : Sent(w, outcome)
  BY DEF Send
<1>2. accepted' \in Nat /\ again' \in Nat /\ spent' \in [Bounds -> Nat]
  BY SpendType DEF Send, TypeInv, TypeOK, Bounds
<1> DEFINE record == Heard(w, outcome)
<1>3. /\ record \in Worker /\ (record.pc = "write" => record.outcome # "none")
      /\ workers' = [workers EXCEPT ![w] = record]
  BY <1>1, HeardType
<1>4. UNCHANGED <<row, copies, claims>>
  BY DEF Send
<1> HIDE DEF record
<1> QED
  BY <1>2, <1>3, <1>4, WorkerStep DEF TypeInv, TypeOK

\* What becomes of the row when a worker writes.
LEMMA WriteRow ==
  ASSUME TypeInv, NEW w \in Workers, Write(w)
  PROVE  /\ row' \in [state : {"queued", "sending", "delivered", "failed"}, attempts : Nat,
                      due : BOOLEAN]
         /\ row'.attempts = row.attempts
         /\ row'.state = "queued" =>
              row.state = "queued" \/ (workers[w].outcome = "transient" /\ Sending /\ ~GiveUp(w))
         /\ row.state = "delivered" => row' = row
<1>1. workers[w].outcome \in {"ok", "transient", "permanent"}
  BY DEF Write, TypeInv, TypeOK, OutcomesOK
<1>2. CASE ~Sending
  <2>1. row' = row
    BY <1>2 DEF Write
  <2> QED
    BY <2>1 DEF TypeInv, TypeOK
<1>3. CASE Sending /\ workers[w].outcome = "ok"
  BY <1>3 DEF Write, TypeInv, TypeOK, Sending
<1>4. CASE Sending /\ workers[w].outcome # "ok" /\ GiveUp(w)
  BY <1>4 DEF Write, TypeInv, TypeOK, Sending
<1>5. CASE Sending /\ workers[w].outcome # "ok" /\ ~GiveUp(w)
  <2>1. workers[w].outcome = "transient"
    BY <1>1, <1>5 DEF GiveUp
  <2> QED
    BY <1>5, <2>1 DEF Write, TypeInv, TypeOK, Sending
<1> QED
  BY <1>2, <1>3, <1>4, <1>5

LEMMA WriteType ==
  ASSUME TypeInv, NEW w \in Workers, Write(w)
  PROVE  TypeInv'
<1>1. copies' \in 0..MaxCopies
  BY EnqueuedType DEF Write, TypeInv, TypeOK
<1> QED
  BY <1>1, WriteRow, IdleType, WorkerStep DEF Write, TypeInv, TypeOK, Bounds, Idle

LEMMA CrashType ==
  ASSUME TypeInv, NEW w \in Workers, Crash(w)
  PROVE  TypeInv'
<1>1. copies' \in 0..MaxCopies /\ spent' \in [Bounds -> Nat]
  BY EnqueuedType, SpendType DEF Crash, TypeInv, TypeOK, Bounds
<1> QED
  BY <1>1, IdleType, WorkerStep DEF Crash, TypeInv, TypeOK, Idle

\* The steps that are no worker's.
Elsewhere == Wait \/ Requeue \/ SweepDue \/ Retry \/ Lose \/ \E w \in Workers : Skip(w)

LEMMA ElsewhereType ==
  ASSUME TypeInv, Elsewhere
  PROVE  TypeInv' /\ workers' = workers
<1>1. workers' = workers
  BY DEF Elsewhere, Wait, Requeue, SweepDue, Retry, Lose, Skip
<1>2. OutcomesOK'
  BY <1>1 DEF TypeInv, OutcomesOK
<1>3. spent' \in [Bounds -> Nat]
  BY SpendType
     DEF Elsewhere, Wait, Requeue, SweepDue, Retry, Lose, Skip, TypeInv, TypeOK, Bounds
<1>4. copies' \in 0..MaxCopies
  BY EnqueuedType, BoundsAssumption
     DEF Elsewhere, Wait, Requeue, SweepDue, Retry, Lose, Skip, TypeInv, TypeOK
<1>5. row' \in [state : {"queued", "sending", "delivered", "failed"}, attempts : Nat,
                due : BOOLEAN]
  <2>1. CASE Wait
    BY <2>1 DEF Wait, TypeInv, TypeOK
  <2>2. CASE Requeue
    BY <2>2 DEF Requeue, TypeInv, TypeOK
  <2>3. CASE Retry
    BY <2>3 DEF Retry, TypeInv, TypeOK
  <2>4. CASE UNCHANGED row
    BY <2>4 DEF TypeInv, TypeOK
  <2> QED
    BY <2>1, <2>2, <2>3, <2>4 DEF Elsewhere, SweepDue, Lose, Skip
<1>6. claims' \in Nat /\ accepted' \in Nat /\ again' \in Nat
  BY DEF Elsewhere, Wait, Requeue, SweepDue, Retry, Lose, Skip, TypeInv, TypeOK
<1> QED
  BY <1>1, <1>2, <1>3, <1>4, <1>5, <1>6 DEF TypeInv, TypeOK, Bounds

LEMMA InitType == Init => TypeInv
BY IdleType, BoundsAssumption DEF Init, TypeInv, TypeOK, OutcomesOK, Worker, Idle

LEMMA StepType == TypeInv /\ [Next]_vars => TypeInv'
<1> SUFFICES ASSUME TypeInv, [Next]_vars PROVE TypeInv'
  OBVIOUS
<1>1. ASSUME NEW w \in Workers, Claim(w) PROVE TypeInv'
  BY <1>1, ClaimType
<1>2. ASSUME NEW w \in Workers, Send(w) PROVE TypeInv'
  BY <1>2, SendType
<1>3. ASSUME NEW w \in Workers, Write(w) PROVE TypeInv'
  BY <1>3, WriteType
<1>4. ASSUME NEW w \in Workers, Crash(w) PROVE TypeInv'
  BY <1>4, CrashType
<1>5. CASE Elsewhere
  BY <1>5, ElsewhereType
<1>6. CASE UNCHANGED vars
  BY <1>6 DEF vars, TypeInv, TypeOK, OutcomesOK
<1> QED
  BY <1>1, <1>2, <1>3, <1>4, <1>5, <1>6 DEF Next, Take, Work, Elsewhere

LEMMA TypeInvariant == Spec => []TypeInv
<1> QED
  BY InitType, StepType, PTL DEF Spec

\* In every reachable state every row, worker and counter has its type.
THEOREM TypeCorrect == Spec => []TypeOK
<1>1. TypeInv => TypeOK
  BY DEF TypeInv
<1> QED
  BY <1>1, TypeInvariant, PTL

---------------------------------------------------------------------------
(* Counting hands *)

\* A worker that may still have the message accepted or put it back.
Pending(record) ==
  \/ record.pc = "send"
  \/ record.pc = "write" /\ record.outcome = "transient"

\* One that would put it back rather than give up.
Trying(record) == Pending(record) /\ record.attempts < MaxAttempts

Hands == {w \in Workers : Pending(workers[w])}
Tries == {w \in Workers : Trying(workers[w])}

Queued == IF row.state = "queued" THEN 1 ELSE 0

\* Two sets that differ in one element at most.
LEMMA OneDiffers ==
  ASSUME NEW S, NEW T, NEW x, IsFiniteSet(S), IsFiniteSet(T), S \ {x} = T \ {x}
  PROVE  /\ Cardinality(S) \in Nat /\ Cardinality(T) \in Nat
         /\ x \in S /\ x \notin T => Cardinality(T) + 1 = Cardinality(S)
         /\ x \notin S /\ x \in T => Cardinality(T) = Cardinality(S) + 1
         /\ (x \in S <=> x \in T) => Cardinality(T) = Cardinality(S)
<1>1. Cardinality(S) \in Nat /\ Cardinality(T) \in Nat
  BY FS_CardinalityType
<1>2. Cardinality(S \ {x}) = IF x \in S THEN Cardinality(S) - 1 ELSE Cardinality(S)
  BY FS_RemoveElement
<1>3. Cardinality(T \ {x}) = IF x \in T THEN Cardinality(T) - 1 ELSE Cardinality(T)
  BY FS_RemoveElement
<1> QED
  BY <1>1, <1>2, <1>3

LEMMA FiniteHands ==
  /\ IsFiniteSet(Hands) /\ IsFiniteSet(Tries) /\ IsFiniteSet(Hands') /\ IsFiniteSet(Tries')
  /\ Cardinality(Hands) \in Nat /\ Cardinality(Tries) \in Nat
<1>1. /\ Hands \in SUBSET Workers /\ Tries \in SUBSET Workers
      /\ Hands' \in SUBSET Workers /\ Tries' \in SUBSET Workers
  BY DEF Hands, Tries
<1> QED
  BY <1>1, WorkersAssumption, FS_Subset, FS_CardinalityType

\* What a worker's step does to the counts.
LEMMA HandsStep ==
  ASSUME workers \in [Workers -> Worker], NEW w \in Workers, NEW record \in Worker,
         workers' = [workers EXCEPT ![w] = record]
  PROVE  /\ Cardinality(Hands) \in Nat /\ Cardinality(Hands') \in Nat
         /\ Cardinality(Tries) \in Nat /\ Cardinality(Tries') \in Nat
         /\ Pending(workers[w]) /\ ~Pending(record) =>
              Cardinality(Hands') + 1 = Cardinality(Hands)
         /\ ~Pending(workers[w]) /\ Pending(record) =>
              Cardinality(Hands') = Cardinality(Hands) + 1
         /\ (Pending(workers[w]) <=> Pending(record)) =>
              Cardinality(Hands') = Cardinality(Hands)
         /\ Trying(workers[w]) /\ ~Trying(record) =>
              Cardinality(Tries') + 1 = Cardinality(Tries)
         /\ ~Trying(workers[w]) /\ Trying(record) =>
              Cardinality(Tries') = Cardinality(Tries) + 1
         /\ (Trying(workers[w]) <=> Trying(record)) =>
              Cardinality(Tries') = Cardinality(Tries)
<1>1. /\ workers'[w] = record
      /\ \A v \in Workers \ {w} : workers'[v] = workers[v]
  BY WorkerUpdate
<1>2. Hands' = {v \in Workers : Pending(workers'[v])}
  BY DEF Hands, Pending
<1>3. Tries' = {v \in Workers : Trying(workers'[v])}
  BY DEF Tries, Trying, Pending
<1>4. /\ w \in Hands <=> Pending(workers[w])
      /\ w \in Hands' <=> Pending(record)
      /\ Hands \ {w} = Hands' \ {w}
  BY <1>1, <1>2 DEF Hands
<1>5. /\ w \in Tries <=> Trying(workers[w])
      /\ w \in Tries' <=> Trying(record)
      /\ Tries \ {w} = Tries' \ {w}
  BY <1>1, <1>3 DEF Tries
<1> DEFINE before == Hands  after == Hands'  few == Tries  fewer == Tries'
<1>6. IsFiniteSet(before) /\ IsFiniteSet(after) /\ IsFiniteSet(few) /\ IsFiniteSet(fewer)
  BY FiniteHands
<1> HIDE DEF before, after, few, fewer
<1>7. /\ Cardinality(before) \in Nat /\ Cardinality(after) \in Nat
      /\ w \in before /\ w \notin after => Cardinality(after) + 1 = Cardinality(before)
      /\ w \notin before /\ w \in after => Cardinality(after) = Cardinality(before) + 1
      /\ (w \in before <=> w \in after) => Cardinality(after) = Cardinality(before)
  <2>1. before \ {w} = after \ {w}
    BY <1>4 DEF before, after
  <2> QED
    BY <2>1, <1>6, OneDiffers
<1>8. /\ Cardinality(few) \in Nat /\ Cardinality(fewer) \in Nat
      /\ w \in few /\ w \notin fewer => Cardinality(fewer) + 1 = Cardinality(few)
      /\ w \notin few /\ w \in fewer => Cardinality(fewer) = Cardinality(few) + 1
      /\ (w \in few <=> w \in fewer) => Cardinality(fewer) = Cardinality(few)
  <2>1. few \ {w} = fewer \ {w}
    BY <1>5 DEF few, fewer
  <2> QED
    BY <2>1, <1>6, OneDiffers
<1>9. /\ w \in before <=> Pending(workers[w])
      /\ w \in after <=> Pending(record)
      /\ w \in few <=> Trying(workers[w])
      /\ w \in fewer <=> Trying(record)
  BY <1>4, <1>5 DEF before, after, few, fewer
<1>10. /\ Cardinality(Hands) = Cardinality(before) /\ Cardinality(Hands') = Cardinality(after)
       /\ Cardinality(Tries) = Cardinality(few) /\ Cardinality(Tries') = Cardinality(fewer)
  BY DEF before, after, few, fewer
<1> QED
  BY <1>7, <1>8, <1>9, <1>10

---------------------------------------------------------------------------
(* Duplicates and attempts *)

\* Every reason to send the message is used up once.
Reasons == accepted + Queued + Cardinality(Hands) <= 1 + again

\* Once the attempts have reached their limit, each further one needs a reason.
Attempted ==
  /\ row.attempts < MaxAttempts => Queued + Cardinality(Tries) <= 1 + again
  /\ row.attempts >= MaxAttempts =>
       row.attempts + Queued + Cardinality(Tries) <= MaxAttempts + again

Counted == Reasons /\ Attempted

LEMMA NumbersType ==
  ASSUME TypeInv
  PROVE  /\ accepted \in Nat /\ again \in Nat /\ row.attempts \in Nat
         /\ workers \in [Workers -> Worker] /\ MaxAttempts \in Nat \ {0}
         /\ Queued \in {0, 1}
BY AttemptsAssumption DEF TypeInv, TypeOK, Worker, Queued

LEMMA CountedClaim ==
  ASSUME TypeInv, Counted, NEW w \in Workers, Claim(w)
  PROVE  Counted'
<1>1. workers' = [workers EXCEPT ![w] = Claimed] /\ Claimed \in Worker
  BY ClaimedType DEF Claim, Claimed
<1>2. ~Pending(workers[w]) /\ ~Trying(workers[w])
  BY DEF Claim, Pending, Trying
<1>3. Pending(Claimed) /\ (Trying(Claimed) <=> row.attempts + 1 < MaxAttempts)
  BY ClaimedType DEF Pending, Trying
<1>4. /\ Cardinality(Hands) \in Nat /\ Cardinality(Tries) \in Nat
      /\ Cardinality(Hands') = Cardinality(Hands) + 1
      /\ row.attempts + 1 < MaxAttempts => Cardinality(Tries') = Cardinality(Tries) + 1
      /\ ~(row.attempts + 1 < MaxAttempts) => Cardinality(Tries') = Cardinality(Tries)
  <2> DEFINE record == Claimed
  <2>1. record \in Worker /\ workers' = [workers EXCEPT ![w] = record]
        /\ Pending(record) /\ (Trying(record) <=> row.attempts + 1 < MaxAttempts)
    BY <1>1, <1>3
  <2> HIDE DEF record
  <2> QED
    BY <1>2, <2>1, HandsStep, NumbersType
<1>5. Queued = 1 /\ Queued' = 0 /\ row'.attempts = row.attempts + 1
      /\ accepted' = accepted /\ again' = again
  BY DEF Claim, Queued, TypeInv, TypeOK
<1> DEFINE h == Cardinality(Hands)  t == Cardinality(Tries)
           h2 == Cardinality(Hands')  t2 == Cardinality(Tries')  n == row.attempts
           q == Queued  q2 == Queued'  n2 == row'.attempts
<1>6. /\ h \in Nat /\ t \in Nat /\ h2 = h + 1 /\ q = 1 /\ q2 = 0 /\ n2 = n + 1
      /\ (n + 1 < MaxAttempts => t2 = t + 1) /\ (~(n + 1 < MaxAttempts) => t2 = t)
      /\ n \in Nat /\ MaxAttempts \in Nat /\ accepted \in Nat /\ again \in Nat
      /\ accepted + q + h <= 1 + again
      /\ n < MaxAttempts => q + t <= 1 + again
      /\ n >= MaxAttempts => n + q + t <= MaxAttempts + again
  BY <1>4, <1>5, NumbersType DEF Counted, Reasons, Attempted
<1>7. Counted' <=> /\ accepted' + q2 + h2 <= 1 + again'
                   /\ n2 < MaxAttempts => q2 + t2 <= 1 + again'
                   /\ n2 >= MaxAttempts => n2 + q2 + t2 <= MaxAttempts + again'
  BY DEF Counted, Reasons, Attempted
<1> HIDE DEF h, t, h2, t2, n, n2, q, q2
<1> QED
  BY <1>5, <1>6, <1>7

One(condition) == IF condition THEN 1 ELSE 0

\* A worker that goes on with what it has claimed: what it uses up covers what it does.
LEMMA CountedStep ==
  ASSUME TypeInv, Counted, NEW w \in Workers, NEW record \in Worker,
         workers' = [workers EXCEPT ![w] = record],
         Pending(record) => Pending(workers[w]), Trying(record) => Trying(workers[w]),
         row'.attempts = row.attempts, accepted' \in Nat, again' \in Nat, again <= again',
         Queued' \in {0, 1},
         accepted' + Queued' + One(Pending(record)) + again
           <= accepted + Queued + One(Pending(workers[w])) + again',
         Queued' <= Queued \/ (Trying(workers[w]) /\ ~Trying(record))
  PROVE  Counted'
<1> DEFINE h == Cardinality(Hands)  t == Cardinality(Tries)
           h2 == Cardinality(Hands')  t2 == Cardinality(Tries')  n == row.attempts
           q == Queued  q2 == Queued'  p == One(Pending(workers[w]))  p2 == One(Pending(record))
<1>1. /\ h \in Nat /\ t \in Nat /\ h2 \in Nat /\ t2 \in Nat
      /\ p \in {0, 1} /\ p2 \in {0, 1} /\ h2 + p = h + p2
      /\ t2 <= t /\ (Trying(workers[w]) /\ ~Trying(record) => t2 + 1 = t)
  <2>1. /\ Cardinality(Hands) \in Nat /\ Cardinality(Hands') \in Nat
        /\ Cardinality(Tries) \in Nat /\ Cardinality(Tries') \in Nat
        /\ Pending(workers[w]) /\ ~Pending(record) =>
             Cardinality(Hands') + 1 = Cardinality(Hands)
        /\ (Pending(workers[w]) <=> Pending(record)) =>
             Cardinality(Hands') = Cardinality(Hands)
        /\ Trying(workers[w]) /\ ~Trying(record) =>
             Cardinality(Tries') + 1 = Cardinality(Tries)
        /\ (Trying(workers[w]) <=> Trying(record)) =>
             Cardinality(Tries') = Cardinality(Tries)
    BY HandsStep, NumbersType
  <2> HIDE DEF h, t, h2, t2
  <2>2. /\ h \in Nat /\ t \in Nat /\ h2 \in Nat /\ t2 \in Nat
        /\ Pending(workers[w]) /\ ~Pending(record) => h2 + 1 = h
        /\ (Pending(workers[w]) <=> Pending(record)) => h2 = h
        /\ Trying(workers[w]) /\ ~Trying(record) => t2 + 1 = t
        /\ (Trying(workers[w]) <=> Trying(record)) => t2 = t
    BY <2>1 DEF h, t, h2, t2
  <2> QED
    BY <2>2 DEF One
<1>2. /\ n \in Nat /\ MaxAttempts \in Nat /\ accepted \in Nat /\ again \in Nat
      /\ q \in {0, 1} /\ q2 \in {0, 1}
      /\ accepted + q + h <= 1 + again
      /\ n < MaxAttempts => q + t <= 1 + again
      /\ n >= MaxAttempts => n + q + t <= MaxAttempts + again
  BY NumbersType DEF Counted, Reasons, Attempted
<1>3. Counted' <=> /\ accepted' + q2 + h2 <= 1 + again'
                   /\ n < MaxAttempts => q2 + t2 <= 1 + again'
                   /\ n >= MaxAttempts => n + q2 + t2 <= MaxAttempts + again'
  BY DEF Counted, Reasons, Attempted
<1>4. /\ accepted' + q2 + p2 + again <= accepted + q + p + again'
      /\ q2 <= q \/ t2 + 1 = t
  BY <1>1
<1> HIDE DEF h, t, h2, t2, n, q, q2, p, p2
<1> DEFINE a == accepted'  g == again'
<1>5. a + q2 + h2 <= 1 + g
  <2>1. /\ accepted \in Nat /\ a \in Nat /\ again \in Nat /\ g \in Nat
        /\ q \in Nat /\ q2 \in Nat /\ p \in Nat /\ p2 \in Nat /\ h \in Nat /\ h2 \in Nat
    BY <1>1, <1>2
  <2>2. /\ h2 + p = h + p2 /\ accepted + q + h <= 1 + again
        /\ a + q2 + p2 + again <= accepted + q + p + g
    BY <1>1, <1>2, <1>4
  <2> HIDE DEF a, g
  <2> QED
    BY ONLY <2>1, <2>2
<1>6. q2 + t2 <= q + t
  BY <1>1, <1>2, <1>4
<1>7. /\ n < MaxAttempts => q2 + t2 <= 1 + g
      /\ n >= MaxAttempts => n + q2 + t2 <= MaxAttempts + g
  <2>1. /\ again \in Nat /\ g \in Nat /\ n \in Nat /\ MaxAttempts \in Nat
        /\ q \in Nat /\ q2 \in Nat /\ t \in Nat /\ t2 \in Nat
    BY <1>1, <1>2
  <2>2. /\ again <= g /\ q2 + t2 <= q + t
        /\ n < MaxAttempts => q + t <= 1 + again
        /\ n >= MaxAttempts => n + q + t <= MaxAttempts + again
    BY <1>2, <1>6
  <2> HIDE DEF g
  <2> QED
    BY ONLY <2>1, <2>2
<1> QED
  BY <1>3, <1>5, <1>7

LEMMA CountedSend ==
  ASSUME TypeInv, Counted, NEW w \in Workers, Send(w)
  PROVE  Counted'
<1>1. PICK outcome \in {"ok", "transient", "permanent"} :
        /\ Sent(w, outcome)
        /\ \/ outcome = "ok" /\ accepted' = accepted + 1 /\ again' = again
           \/ outcome # "ok" /\ accepted' = accepted /\ again' = again
           \/ outcome = "transient" /\ accepted' = accepted + 1 /\ again' = again + 1
  BY DEF Send
<1> DEFINE record == Heard(w, outcome)
<1>2. /\ record \in Worker /\ workers' = [workers EXCEPT ![w] = record]
      /\ record.pc = "write" /\ record.outcome = outcome
      /\ record.attempts = workers[w].attempts
  BY <1>1, HeardType
<1>3. row' = row /\ workers[w].pc = "send"
  BY DEF Send
<1> HIDE DEF record
<1>4. /\ Pending(workers[w]) /\ (Pending(record) <=> outcome = "transient")
      /\ Trying(record) => Trying(workers[w])
  BY <1>2, <1>3 DEF Pending, Trying
<1>5. Queued' = Queued /\ Queued \in {0, 1}
  BY <1>3 DEF Queued
<1>6. accepted' \in Nat /\ again' \in Nat /\ again <= again' /\ accepted \in Nat /\ again \in Nat
  BY <1>1, NumbersType
<1> DEFINE q == Queued  q2 == Queued'
           p == One(Pending(workers[w]))  p2 == One(Pending(record))
<1>7. accepted' + q2 + p2 + again <= accepted + q + p + again'
  <2>1. q2 = q /\ q \in {0, 1} /\ p = 1
    BY <1>4, <1>5 DEF One
  <2>2. p2 \in {0, 1} /\ (outcome # "transient" => p2 = 0)
    BY <1>4 DEF One
  <2> HIDE DEF q, q2, p, p2
  <2>3. CASE outcome = "ok" /\ accepted' = accepted + 1 /\ again' = again
    BY <1>6, <2>1, <2>2, <2>3
  <2>4. CASE accepted' = accepted /\ again' = again
    BY <1>6, <2>1, <2>2, <2>4
  <2>5. CASE accepted' = accepted + 1 /\ again' = again + 1
    BY <1>6, <2>1, <2>2, <2>5
  <2> QED
    BY <1>1, <2>3, <2>4, <2>5
<1>8. Queued' <= Queued
  BY <1>5
<1>9. row'.attempts = row.attempts
  BY <1>3
<1> QED
  BY <1>2, <1>4, <1>5, <1>6, <1>7, <1>8, <1>9, CountedStep

LEMMA CountedWrite ==
  ASSUME TypeInv, Counted, NEW w \in Workers, Write(w)
  PROVE  Counted'
<1>1. workers' = [workers EXCEPT ![w] = Idle] /\ accepted' = accepted /\ again' = again
      /\ workers[w].pc = "write"
  BY DEF Write
<1>2. ~Pending(Idle) /\ ~Trying(Idle)
  BY DEF Pending, Trying, Idle
<1>3. Queued' \in {0, 1} /\ Queued \in {0, 1}
  BY DEF Queued
<1>4. Queued' <= Queued \/ (Queued = 0 /\ Trying(workers[w]))
  <2>1. CASE row'.state = "queued" /\ row.state # "queued"
    <3>1. workers[w].outcome = "transient" /\ ~GiveUp(w)
      BY <2>1, WriteRow
    <3>2. workers[w].attempts \in Nat /\ MaxAttempts \in Nat
      BY AttemptsAssumption DEF TypeInv, TypeOK
    <3> QED
      BY <1>1, <2>1, <3>1, <3>2 DEF GiveUp, Trying, Pending, Queued
  <2>2. CASE ~(row'.state = "queued" /\ row.state # "queued")
    BY <2>2 DEF Queued
  <2> QED
    BY <2>1, <2>2
<1>5. Trying(workers[w]) => Pending(workers[w])
  BY DEF Trying
<1> DEFINE q == Queued  q2 == Queued'
           p == One(Pending(workers[w]))  p2 == One(Pending(Idle))
<1>6. accepted' + q2 + p2 + again <= accepted + q + p + again'
  <2>1. /\ q \in {0, 1} /\ q2 \in {0, 1} /\ p2 = 0 /\ p \in {0, 1}
        /\ q2 <= q \/ p = 1
    BY <1>2, <1>3, <1>4, <1>5 DEF One
  <2> HIDE DEF q, q2, p, p2
  <2> QED
    BY <1>1, <2>1, NumbersType
<1>7. row'.attempts = row.attempts
  BY WriteRow
<1>8. accepted' \in Nat /\ again' \in Nat /\ again <= again'
  BY <1>1, NumbersType
<1>9. Queued' <= Queued \/ (Trying(workers[w]) /\ ~Trying(Idle))
  BY <1>2, <1>4
<1> QED
  BY <1>1, <1>2, <1>3, <1>6, <1>7, <1>8, <1>9, IdleType, CountedStep

LEMMA CountedCrash ==
  ASSUME TypeInv, Counted, NEW w \in Workers, Crash(w)
  PROVE  Counted'
<1>1. /\ workers' = [workers EXCEPT ![w] = Idle] /\ row' = row
      /\ accepted' = accepted /\ again' = again
  BY DEF Crash
<1>2. ~Pending(Idle) /\ ~Trying(Idle)
  BY DEF Pending, Trying, Idle
<1>3. Queued' = Queued /\ Queued \in {0, 1}
  BY <1>1 DEF Queued
<1> DEFINE q == Queued  q2 == Queued'
           p == One(Pending(workers[w]))  p2 == One(Pending(Idle))
<1>4. accepted' + q2 + p2 + again <= accepted + q + p + again'
  <2>1. q2 = q /\ q \in {0, 1} /\ p2 = 0 /\ p \in {0, 1}
    BY <1>2, <1>3 DEF One
  <2> HIDE DEF q, q2, p, p2
  <2> QED
    BY <1>1, <2>1, NumbersType
<1>5. accepted' \in Nat /\ again' \in Nat /\ again <= again'
  BY <1>1, NumbersType
<1>6. Queued' <= Queued /\ row'.attempts = row.attempts
  BY <1>1, <1>3
<1> QED
  BY <1>1, <1>2, <1>3, <1>4, <1>5, <1>6, IdleType, CountedStep

\* The sweep and a person put the message back for a reason; the rest moves nothing.
LEMMA CountedElsewhere ==
  ASSUME TypeInv, Counted, Elsewhere
  PROVE  Counted'
<1> DEFINE h == Cardinality(Hands)  t == Cardinality(Tries)  n == row.attempts
           q == Queued  q2 == Queued'  n2 == row'.attempts
<1>1. Hands' = Hands /\ Tries' = Tries
  BY ElsewhereType DEF Hands, Tries, Pending, Trying
<1>2. \/ q2 = q /\ n2 = n /\ accepted' = accepted /\ again' = again
      \/ q = 0 /\ q2 = 1 /\ n2 \in {0, n} /\ accepted' = accepted /\ again' = again + 1
  <2>1. CASE Wait
    BY <2>1 DEF Wait, Queued, TypeInv, TypeOK
  <2>2. CASE Requeue
    BY <2>2 DEF Requeue, Queued, Sending, TypeInv, TypeOK
  <2>3. CASE Retry
    BY <2>3 DEF Retry, Queued, TypeInv, TypeOK
  <2>4. CASE UNCHANGED <<row, accepted, again>>
    BY <2>4 DEF Queued
  <2> QED
    BY <2>1, <2>2, <2>3, <2>4 DEF Elsewhere, SweepDue, Lose, Skip
<1>3. /\ h \in Nat /\ t \in Nat /\ n \in Nat /\ MaxAttempts \in Nat /\ MaxAttempts > 0
      /\ accepted \in Nat /\ again \in Nat /\ q \in {0, 1}
      /\ accepted + q + h <= 1 + again
      /\ n < MaxAttempts => q + t <= 1 + again
      /\ n >= MaxAttempts => n + q + t <= MaxAttempts + again
  BY FiniteHands, NumbersType DEF Counted, Reasons, Attempted
<1>4. Counted' <=> /\ accepted' + q2 + h <= 1 + again'
                   /\ n2 < MaxAttempts => q2 + t <= 1 + again'
                   /\ n2 >= MaxAttempts => n2 + q2 + t <= MaxAttempts + again'
  BY <1>1 DEF Counted, Reasons, Attempted
<1> HIDE DEF h, t, n, q, q2, n2
<1> QED
  BY <1>2, <1>3, <1>4

LEMMA CountedInit == Init => Counted
<1> SUFFICES ASSUME Init PROVE Counted
  OBVIOUS
<1>1. Hands = {} /\ Tries = {}
  BY DEF Init, Idle, Hands, Tries, Pending, Trying
<1>2. Cardinality(Hands) = 0 /\ Cardinality(Tries) = 0
  BY <1>1, FS_EmptySet
<1>3. Queued = 1 /\ accepted = 0 /\ again = 0 /\ row.attempts = 0
  BY DEF Init, Queued
<1> QED
  BY <1>2, <1>3, AttemptsAssumption DEF Counted, Reasons, Attempted

LEMMA CountedInvariant == Spec => [](TypeInv /\ Counted)
<1>1. TypeInv /\ Counted /\ [Next]_vars => Counted'
  <2> SUFFICES ASSUME TypeInv, Counted, [Next]_vars PROVE Counted'
    OBVIOUS
  <2>1. ASSUME NEW w \in Workers, Claim(w) PROVE Counted'
    BY <2>1, CountedClaim
  <2>2. ASSUME NEW w \in Workers, Send(w) PROVE Counted'
    BY <2>2, CountedSend
  <2>3. ASSUME NEW w \in Workers, Write(w) PROVE Counted'
    BY <2>3, CountedWrite
  <2>4. ASSUME NEW w \in Workers, Crash(w) PROVE Counted'
    BY <2>4, CountedCrash
  <2>5. CASE Elsewhere
    BY <2>5, CountedElsewhere
  <2>6. CASE UNCHANGED vars
    BY <2>6 DEF vars, Counted, Reasons, Attempted, Queued, Hands, Tries, Pending, Trying
  <2> QED
    BY <2>1, <2>2, <2>3, <2>4, <2>5, <2>6 DEF Next, Take, Work, Elsewhere
<1> QED
  BY <1>1, CountedInit, InitType, StepType, PTL DEF Spec

\* What late workers, the sweep and people do to a delivered message comes to nothing.
THEOREM DeliveredStays == Spec => DeliveredIsFinal
<1>1. TypeInv /\ [Next]_vars => (row.state = "delivered" => row'.state = "delivered")
  <2> SUFFICES ASSUME TypeInv, [Next]_vars, row.state = "delivered"
               PROVE  row'.state = "delivered"
    OBVIOUS
  <2>1. ASSUME NEW w \in Workers, Write(w) PROVE row'.state = "delivered"
    BY <2>1, WriteRow
  <2>2. ASSUME NEW w \in Workers, Claim(w) PROVE FALSE
    BY <2>2 DEF Claim
  <2>3. CASE Wait \/ Requeue \/ Retry
    BY <2>3 DEF Wait, Requeue, Retry, Sending
  <2>4. CASE UNCHANGED row
    BY <2>4
  <2> QED
    BY <2>1, <2>2, <2>3, <2>4
       DEF Next, Take, Work, Skip, Send, Crash, SweepDue, Lose, vars
<1> QED
  BY <1>1, TypeInvariant, PTL DEF Spec, DeliveredIsFinal

\* However slow or dead its workers are, a message is accepted once, and once more at most
\* for each sweep that took it from a worker, answer that was not heard, or retry; and it is
\* tried max_attempts times, and once more at most for each such reason; once delivered it is
\* left alone.
THEOREM DuplicatesNeedReasons == Spec => OnceForEachReason
<1>1. TypeInv /\ Counted => NoDuplicates
  <2> SUFFICES ASSUME TypeInv, Counted PROVE NoDuplicates
    OBVIOUS
  <2>1. Cardinality(Hands) \in Nat /\ Queued \in {0, 1} /\ accepted \in Nat /\ again \in Nat
    BY FiniteHands, NumbersType
  <2> QED
    BY <2>1 DEF Counted, Reasons, NoDuplicates
<1>2. TypeInv /\ Counted => AttemptsAreBounded
  <2> SUFFICES ASSUME TypeInv, Counted PROVE AttemptsAreBounded
    OBVIOUS
  <2>1. /\ Cardinality(Tries) \in Nat /\ Queued \in {0, 1} /\ row.attempts \in Nat
        /\ again \in Nat /\ MaxAttempts \in Nat
    BY FiniteHands, NumbersType
  <2> QED
    BY <2>1 DEF Counted, Attempted, AttemptsAreBounded
<1> QED
  BY <1>1, <1>2, CountedInvariant, DeliveredStays, PTL DEF OnceForEachReason
=============================================================================
