---------------------------- MODULE Tinytd_proofs ----------------------------
(***************************************************************************)
(* The daemon.  The periodic tasks, for all periods, all delays between    *)
(* polls and any number of steps of the wall clock: the next date of a     *)
(* task is never further than a period, no task waits longer than the      *)
(* steps justify, and what is rolled up is the newest there is.  And the   *)
(* rates of the collector, for any traffic, readings and clock: what the   *)
(* samples tell of has arrived.                                            *)
(***************************************************************************)
EXTENDS Tinytd, Collector, FiniteSetTheorems, TLAPS

\* What tt_timer_expired does to a date, in one place: it never leaves it in
\* the past, nor more than a period away; it fires exactly when the armed date
\* has come, and a date within the period that has not come is left alone.
LEMMA TimerExpired ==
  ASSUME NEW e \in Nat, NEW prd \in Nat \ {0}, NEW now \in Nat
  PROVE  /\ Rearmed(e, prd, now) \in Nat \ {0}
         /\ now <= Rearmed(e, prd, now) /\ Rearmed(e, prd, now) <= now + prd
         /\ e # 0 /\ e <= now + prd /\ ~Fires(e, prd, now) => Rearmed(e, prd, now) = e
BY DEF Rearmed, Armed, Fires

LEMMA Periods == \A t \in Tasks : Period(t) \in Nat \ {0}
BY LoopAssumption DEF Tasks, Period

\* The part of the type invariant the dates need
DatesTyped ==
  /\ clock \in Nat /\ polled \in Nat /\ steps \in Nat
  /\ expire \in [Tasks -> Nat] /\ since \in [Tasks -> Nat]

LEMMA DatesTypedStep == DatesTyped /\ [LoopNext]_loopVars => DatesTyped'
<1> SUFFICES ASSUME DatesTyped, [LoopNext]_loopVars PROVE DatesTyped'
  OBVIOUS
<1>1. ASSUME NEW gap \in 0..MaxGap, NEW fired \in BOOLEAN, Poll(gap, fired)
      PROVE  DatesTyped'
  <2>1. clock + gap \in Nat /\ gap \in Nat
    BY LoopAssumption DEF DatesTyped
  <2>2. expire' \in [Tasks -> Nat]
    BY <1>1, <2>1, Periods, TimerExpired DEF Poll, DatesTyped
  <2>3. since' \in [Tasks -> Nat]
    BY <1>1, <2>1 DEF Poll, DatesTyped
  <2> QED BY <1>1, <2>1, <2>2, <2>3 DEF Poll, DatesTyped
<1>2. ASSUME NEW c \in Near, StepClock(c) PROVE DatesTyped'
  BY <1>2 DEF StepClock, DatesTyped, Near
<1>3. CASE UNCHANGED loopVars
  BY <1>3 DEF loopVars, DatesTyped
<1> QED BY <1>1, <1>2, <1>3 DEF LoopNext

LEMMA DatesStep ==
  DatesTyped /\ NextDateWithinPeriod /\ [LoopNext]_loopVars => NextDateWithinPeriod'
<1> SUFFICES ASSUME DatesTyped, NextDateWithinPeriod, [LoopNext]_loopVars
             PROVE  NextDateWithinPeriod'
  OBVIOUS
<1>1. ASSUME NEW gap \in 0..MaxGap, NEW fired \in BOOLEAN, Poll(gap, fired)
      PROVE  NextDateWithinPeriod'
  <2>1. clock + gap \in Nat /\ polled' = clock + gap
    BY <1>1, LoopAssumption DEF DatesTyped, Poll
  <2>2. ASSUME NEW t \in Tasks
        PROVE  polled' <= expire'[t] /\ expire'[t] <= polled' + Period(t)
    <3>1. expire'[t] = Rearmed(expire[t], Period(t), clock + gap) /\ expire[t] \in Nat
      BY <1>1 DEF Poll, DatesTyped
    <3> QED BY <2>1, <3>1, Periods, TimerExpired
  <2> QED BY <2>2 DEF NextDateWithinPeriod, Period
<1>2. ASSUME NEW c \in Near, StepClock(c) PROVE NextDateWithinPeriod'
  BY <1>2 DEF StepClock, NextDateWithinPeriod, Period
<1>3. CASE UNCHANGED loopVars
  BY <1>3 DEF loopVars, NextDateWithinPeriod, Period
<1> QED BY <1>1, <1>2, <1>3 DEF LoopNext

\* Whatever the periods, the delays and the steps of the wall clock: after a
\* poll no date of a task is past, and none is more than a period away.
THEOREM DatesWithinPeriod == LoopSpec => []NextDateWithinPeriod
<1>1. LoopInit => DatesTyped /\ NextDateWithinPeriod
  BY LoopAssumption DEF LoopInit, DatesTyped, NextDateWithinPeriod
<1> QED BY <1>1, DatesTypedStep, DatesStep, PTL DEF LoopSpec

-----------------------------------------------------------------------------

\* What one step of the wall clock can cost task t.
Cost(t) == Period(t) + MaxGap

\* Inductive: the time since a task ran and the time left to its date add up
\* to one cost, and one more for every step of the clock; a step whose effect
\* no poll has seen yet has been paid for in advance.
WaitInv ==
  \A t \in Tasks :
    /\ expire[t] = 0 => since[t] = 0
    /\ expire[t] # 0 /\ clock = polled =>
         since[t] + (expire[t] - polled) <= steps * Cost(t) + Cost(t)
    /\ expire[t] # 0 /\ clock # polled => since[t] <= steps * Cost(t)

LEMMA CostOfSteps ==
  ASSUME NEW t \in Tasks, steps \in Nat
  PROVE  /\ Cost(t) \in Nat /\ Period(t) <= Cost(t) /\ steps * Cost(t) \in Nat
         /\ MaxGap \in Nat /\ Cost(t) = Period(t) + MaxGap
         /\ (steps + 1) * Cost(t) = steps * Cost(t) + Cost(t)
<1>1. Period(t) \in Nat /\ MaxGap \in Nat
  BY Periods, LoopAssumption
<1>2. Cost(t) \in Nat
  BY <1>1 DEF Cost
<1>3. \A k, c \in Nat : k * c \in Nat /\ (k + 1) * c = k * c + c
  BY SMT
<1> QED BY <1>1, <1>2, <1>3 DEF Cost

LEMMA WaitStep ==
  DatesTyped /\ NextDateWithinPeriod /\ WaitInv /\ [LoopNext]_loopVars => WaitInv'
<1> SUFFICES ASSUME DatesTyped, NextDateWithinPeriod, WaitInv, [LoopNext]_loopVars
             PROVE  WaitInv'
  OBVIOUS
<1>1. ASSUME NEW gap \in 0..MaxGap, NEW fired \in BOOLEAN, Poll(gap, fired)
      PROVE  WaitInv'
  <2> DEFINE n == clock + gap
  <2>1. /\ n \in Nat /\ gap \in Nat /\ gap <= MaxGap /\ steps \in Nat
        /\ clock \in Nat /\ polled \in Nat
        /\ clock' = n /\ polled' = n /\ steps' = steps
    BY <1>1, LoopAssumption DEF DatesTyped, Poll
  <2>2. ASSUME NEW t \in Tasks
        PROVE  /\ expire'[t] # 0
               /\ since'[t] + (expire'[t] - n) <= steps * Cost(t) + Cost(t)
    <3> DEFINE e == expire[t]
               P == Period(t)
               K == Cost(t)
    <3>1. /\ expire'[t] = Rearmed(e, P, n)
          /\ since'[t] = IF Fires(e, P, n) THEN 0 ELSE since[t] + gap
          /\ e \in Nat /\ since[t] \in Nat
      BY <1>1 DEF Poll, DatesTyped
    <3>2. P \in Nat \ {0}
      BY Periods
    <3>3. /\ expire'[t] \in Nat \ {0} /\ expire'[t] <= n + P
          /\ e # 0 /\ e <= n + P /\ ~Fires(e, P, n) => expire'[t] = e
      <4> HIDE DEF e, P, n
      <4>1. n \in Nat
        BY <2>1
      <4>2. /\ Rearmed(e, P, n) \in Nat \ {0} /\ Rearmed(e, P, n) <= n + P
            /\ e # 0 /\ e <= n + P /\ ~Fires(e, P, n) => Rearmed(e, P, n) = e
        BY <3>1, <3>2, <4>1, TimerExpired
      <4> QED BY <3>1, <4>2
    <3>4. /\ K \in Nat /\ P + MaxGap = K /\ steps * K \in Nat /\ MaxGap \in Nat
      BY <2>1, CostOfSteps
    <3>5. /\ e = 0 => since[t] = 0
          /\ e # 0 /\ clock = polled => since[t] + (e - polled) <= steps * K + K
          /\ e # 0 /\ clock # polled => since[t] <= steps * K
      BY DEF WaitInv
    <3>6. e # 0 => e <= polled + P
      BY DEF NextDateWithinPeriod
    <3> DEFINE T == steps * K
               x == expire'[t]
               s == since[t]
    <3>7. /\ T \in Nat /\ s \in Nat /\ x \in Nat
          /\ e = 0 => s = 0
          /\ e # 0 /\ clock = polled => s + (e - polled) <= T + K
          /\ e # 0 /\ clock # polled => s <= T
      BY <3>1, <3>3, <3>4, <3>5
    <3> HIDE DEF e, P, K, T, x, s, n
    <3>8. CASE Fires(e, P, n)
      <4>1. since'[t] = 0 /\ x <= n + P /\ expire'[t] = x
        BY <3>1, <3>3, <3>8 DEF x
      <4>2. 0 + (x - n) <= T + K
        BY <2>1, <3>2, <3>4, <3>7, <4>1
      <4> QED BY <3>3, <4>1, <4>2 DEF x, T, K, n
    <3>9. CASE ~Fires(e, P, n)
      <4>1. since'[t] = s + gap /\ expire'[t] = x /\ x <= n + P
        BY <3>1, <3>3, <3>9 DEF s, x
      <4>2. e # 0 /\ clock = polled => x = e
        BY <2>1, <3>1, <3>2, <3>3, <3>6, <3>9 DEF x, n
      <4>3. s + gap + (x - n) <= T + K
        <5>1. CASE e # 0 /\ clock = polled
          BY <2>1, <3>7, <4>2, <5>1, <3>4, <3>1 DEF n
        <5>2. CASE e = 0 \/ clock # polled
          <6>1. s <= T
            BY <3>7, <5>2
          <6> QED BY <2>1, <3>2, <3>4, <3>7, <4>1, <6>1
        <5> QED BY <5>1, <5>2
      <4> QED BY <3>3, <4>1, <4>3 DEF x, T, K, n, s
    <3> QED BY <3>8, <3>9
  <2> QED BY <2>1, <2>2 DEF WaitInv, Cost, Period
<1>2. ASSUME NEW c \in Near, StepClock(c) PROVE WaitInv'
  <2>1. /\ clock' = c /\ steps' = steps + 1 /\ expire' = expire /\ since' = since
        /\ polled' = polled /\ steps \in Nat /\ polled \in Nat
    BY <1>2 DEF StepClock, DatesTyped
  <2>2. ASSUME NEW t \in Tasks
        PROVE  /\ expire[t] = 0 => since[t] = 0
               /\ expire[t] # 0 =>
                    /\ since[t] <= (steps + 1) * Cost(t)
                    /\ since[t] + (expire[t] - polled)
                         <= (steps + 1) * Cost(t) + Cost(t)
    <3> DEFINE T == steps * Cost(t)
               K == Cost(t)
    <3>1. /\ T \in Nat /\ K \in Nat /\ Period(t) <= K /\ Period(t) \in Nat
          /\ (steps + 1) * Cost(t) = T + K
      BY <2>1, Periods, CostOfSteps
    <3>2. /\ expire[t] = 0 => since[t] = 0
          /\ expire[t] # 0 /\ clock = polled => since[t] + (expire[t] - polled) <= T + K
          /\ expire[t] # 0 /\ clock # polled => since[t] <= T
      BY DEF WaitInv
    <3>3. expire[t] # 0 => polled <= expire[t] /\ expire[t] <= polled + Period(t)
      BY DEF NextDateWithinPeriod
    <3>4. expire[t] \in Nat /\ since[t] \in Nat
      BY DEF DatesTyped
    <3> HIDE DEF T, K
    <3>5. expire[t] # 0 => /\ since[t] <= T + K
                           /\ since[t] + (expire[t] - polled) <= T + K + K
      BY <2>1, <3>1, <3>2, <3>3, <3>4
    <3> QED BY <3>1, <3>2, <3>5 DEF K
  <2> QED BY <2>1, <2>2 DEF WaitInv, Cost, Period
<1>3. CASE UNCHANGED loopVars
  BY <1>3 DEF loopVars, WaitInv, Cost, Period
<1> QED BY <1>1, <1>2, <1>3 DEF LoopNext

\* No task starves: a step of the wall clock, in either direction, delays a
\* roll-up or a sync by at most one more period and one more poll.
THEOREM TasksNotStarved == LoopSpec => []TaskNotStarved
<1>1. LoopInit => DatesTyped /\ WaitInv
  BY LoopAssumption DEF LoopInit, DatesTyped, WaitInv
<1>2. LoopSpec => []NextDateWithinPeriod
  BY DatesWithinPeriod
<1>3. DatesTyped /\ NextDateWithinPeriod /\ WaitInv => TaskNotStarved
  <2> SUFFICES ASSUME DatesTyped, NextDateWithinPeriod, WaitInv, NEW t \in Tasks
               PROVE  since[t] <= (steps + 1) * (Period(t) + MaxGap)
    BY DEF TaskNotStarved
  <2> DEFINE T == steps * Cost(t)
             K == Cost(t)
  <2>1. /\ T \in Nat /\ K \in Nat /\ (steps + 1) * Cost(t) = T + K
    BY CostOfSteps DEF DatesTyped
  <2>2. /\ expire[t] = 0 => since[t] = 0
        /\ expire[t] # 0 /\ clock = polled => since[t] + (expire[t] - polled) <= T + K
        /\ expire[t] # 0 /\ clock # polled => since[t] <= T
    BY DEF WaitInv
  <2>3. expire[t] # 0 => polled <= expire[t]
    BY DEF NextDateWithinPeriod
  <2>4. expire[t] \in Nat /\ since[t] \in Nat /\ polled \in Nat
    BY DEF DatesTyped
  <2> HIDE DEF T, K
  <2>5. since[t] <= T + K
    BY <2>1, <2>2, <2>3, <2>4
  <2> QED BY <2>1, <2>5 DEF Cost
<1> QED
  BY <1>1, <1>2, <1>3, DatesTypedStep, WaitStep, PTL DEF LoopSpec

-----------------------------------------------------------------------------
(* The rings.                                                              *)

LEMMA Caps ==
  /\ Cap(1) = L1Cap /\ Cap(2) = L2Cap /\ Cap(3) = L3Cap
  /\ \A l \in RingLevels : Cap(l) \in Nat \ {0}
<1>0. ASSUME NEW l
      PROVE  /\ l = 1 /\ l # 2 /\ l # 3 => Cap(l) = L1Cap
             /\ l # 1 /\ l = 2 /\ l # 3 => Cap(l) = L2Cap
             /\ l # 1 /\ l # 2 /\ l = 3 => Cap(l) = L3Cap
  BY Zenon DEF Cap
<1>1. Cap(1) = L1Cap /\ Cap(2) = L2Cap /\ Cap(3) = L3Cap
  BY <1>0
<1> QED BY <1>1, LoopAssumption DEF RingLevels

LevelOK(r, cap) ==
  r.head \in 0..(cap - 1) /\ r.cell \in [0..(cap - 1) -> SUBSET SampleNumbers]
RingsOK(rs) == DOMAIN rs = RingLevels /\ \A l \in RingLevels : LevelOK(rs[l], Cap(l))

\* An entry is stored inside the ring, and the head stays there.
LEMMA PutOK ==
  ASSUME NEW r, NEW cap \in Nat \ {0}, LevelOK(r, cap), NEW v \in SUBSET SampleNumbers
  PROVE  LevelOK(Put(r, cap, v), cap)
<1>1. (r.head + 1) % cap \in 0..(cap - 1)
  BY DEF LevelOK
<1> QED BY <1>1 DEF LevelOK, Put

\* What is merged is read inside the ring.
LEMMA MergedOK ==
  ASSUME NEW r, NEW cap \in Nat \ {0}, LevelOK(r, cap)
  PROVE  Merged(r, cap) \in SUBSET SampleNumbers
<1>1. ASSUME NEW i \in 0..(Available(r, cap) - 1)
      PROVE  r.cell[Index(r, cap, i)] \in SUBSET SampleNumbers
  <2>1. Available(r, cap) = r.head /\ r.head \in 0..(cap - 1)
    BY DEF Available, LevelOK
  <2>2. r.head - Available(r, cap) + i + cap \in Nat
    BY <2>1
  <2>3. Index(r, cap, i) \in 0..(cap - 1)
    BY <2>2 DEF Index
  <2> QED BY <2>3 DEF LevelOK
<1> QED BY <1>1 DEF Merged

LEMMA RollUpOK ==
  ASSUME NEW rs, RingsOK(rs), NEW l \in {2, 3}
  PROVE  RingsOK(RollUp(rs, l))
<1> DEFINE src == rs[l - 1]
<1>1. l \in RingLevels /\ l - 1 \in RingLevels /\ DOMAIN rs = RingLevels
  BY DEF RingLevels, RingsOK
<1>2. LevelOK(src, Cap(l - 1)) /\ LevelOK(rs[l], Cap(l))
      /\ Cap(l - 1) \in Nat \ {0} /\ Cap(l) \in Nat \ {0}
  BY <1>1, Caps DEF RingsOK
<1>3. Merged(src, Cap(l - 1)) \in SUBSET SampleNumbers
  BY <1>2, MergedOK
<1>4. LevelOK(Put(rs[l], Cap(l), Merged(src, Cap(l - 1))), Cap(l))
  BY <1>2, <1>3, PutOK
<1> DEFINE put == Put(rs[l], Cap(l), Merged(src, Cap(l - 1)))
<1>5. RollUp(rs, l) = rs \/ RollUp(rs, l) = [rs EXCEPT ![l] = put]
  BY DEF RollUp
<1> HIDE DEF put
<1>6. LevelOK(put, Cap(l))
  BY <1>4 DEF put
<1>7. RingsOK([rs EXCEPT ![l] = put])
  BY <1>1, <1>6 DEF RingsOK
<1> QED BY <1>5, <1>7

LoopTypes == DatesTyped /\ taken \in 0..MaxTaken /\ steps \in 0..MaxSteps /\ RingsOK(ring)

\* The three stages of a poll, and what each leaves alone.
LEMMA PollStages ==
  ASSUME LoopTypes, NEW gap \in 0..MaxGap, NEW fired \in BOOLEAN, Poll(gap, fired)
  PROVE  \E r1, r2 :
           /\ taken' = IF fired THEN taken + 1 ELSE taken
           /\ r1 = IF fired THEN [ring EXCEPT ![1] = Put(ring[1], L1Cap, {taken + 1})] ELSE ring
           /\ r2 = r1 \/ r2 = RollUp(r1, 2)
           /\ ring' = r2 \/ ring' = RollUp(r2, 3)
           /\ RingsOK(r1) /\ RingsOK(r2) /\ RingsOK(ring')
<1> DEFINE due == {t \in Tasks : Fires(expire[t], Period(t), clock + gap)}
           r1  == IF fired THEN [ring EXCEPT ![1] = Put(ring[1], L1Cap, {taken + 1})] ELSE ring
           r2  == IF "l2" \in due THEN RollUp(r1, 2) ELSE r1
           r3  == IF "l3" \in due THEN RollUp(r2, 3) ELSE r2
<1>1. ring' = r3 /\ taken' = (IF fired THEN taken + 1 ELSE taken)
  BY DEF Poll
<1>2. RingsOK(r1)
  <2>1. CASE fired
    <3> DEFINE put == Put(ring[1], L1Cap, {taken + 1})
    <3>1. LevelOK(ring[1], L1Cap) /\ DOMAIN ring = RingLevels /\ 1 \in RingLevels
      BY Caps DEF LoopTypes, RingsOK, RingLevels
    <3>2. {taken + 1} \in SUBSET SampleNumbers /\ L1Cap \in Nat \ {0}
      BY <2>1, LoopAssumption DEF Poll, LoopTypes, SampleNumbers
    <3>3. LevelOK(put, L1Cap)
      BY <3>1, <3>2, PutOK
    <3> HIDE DEF put
    <3>4. RingsOK([ring EXCEPT ![1] = put])
      BY <3>1, <3>3, Caps DEF LoopTypes, RingsOK
    <3> QED BY <2>1, <3>4 DEF put
  <2> QED BY <2>1 DEF LoopTypes
<1> HIDE DEF r1
<1>3. RingsOK(r2)
  BY <1>2, RollUpOK
<1>4. r2 = r1 \/ r2 = RollUp(r1, 2)
  OBVIOUS
<1> HIDE DEF r2
<1>5. RingsOK(r3) /\ (r3 = r2 \/ r3 = RollUp(r2, 3))
  BY <1>3, RollUpOK
<1> HIDE DEF r3
<1>6. r1 = IF fired THEN [ring EXCEPT ![1] = Put(ring[1], L1Cap, {taken + 1})] ELSE ring
  BY DEF r1
<1> WITNESS r1, r2
<1> QED BY <1>1, <1>2, <1>3, <1>4, <1>5, <1>6

LEMMA LoopTypesStep == LoopTypes /\ [LoopNext]_loopVars => LoopTypes'
<1> SUFFICES ASSUME LoopTypes, [LoopNext]_loopVars PROVE LoopTypes'
  OBVIOUS
<1>1. DatesTyped'
  BY DatesTypedStep DEF LoopTypes
<1>2. ASSUME NEW gap \in 0..MaxGap, NEW fired \in BOOLEAN, Poll(gap, fired)
      PROVE  LoopTypes'
  <2>1. taken' = (IF fired THEN taken + 1 ELSE taken) /\ steps' = steps
        /\ (fired => taken < MaxTaken)
    BY <1>2 DEF Poll
  <2>2. taken' \in 0..MaxTaken /\ (fired => taken + 1 \in SampleNumbers)
    BY <2>1, LoopAssumption DEF LoopTypes, SampleNumbers
  <2>3. RingsOK(ring')
    BY <1>2, PollStages
  <2> QED BY <1>1, <2>1, <2>2, <2>3 DEF LoopTypes
<1>3. ASSUME NEW c \in Near, StepClock(c) PROVE LoopTypes'
  BY <1>1, <1>3, LoopAssumption DEF StepClock, LoopTypes
<1>4. CASE UNCHANGED loopVars
  BY <1>1, <1>4 DEF loopVars, LoopTypes
<1> QED BY <1>2, <1>3, <1>4 DEF LoopNext

LEMMA LoopTypesInit == LoopInit => LoopTypes
<1> SUFFICES ASSUME LoopInit PROVE LoopTypes
  OBVIOUS
<1>1. ASSUME NEW l \in RingLevels PROVE LevelOK(ring[l], Cap(l))
  BY <1>1, Caps DEF LoopInit, LevelOK
<1>2. DOMAIN ring = RingLevels
  BY DEF LoopInit
<1> QED BY <1>1, <1>2, LoopAssumption DEF LoopInit, LoopTypes, DatesTyped, RingsOK

\* For all capacities and periods: the heads stay inside their rings, and every
\* entry summarises samples that have been taken.
THEOREM LoopTyped == LoopSpec => []LoopTypeOK
<1>1. LoopTypes => LoopTypeOK
  BY DEF LoopTypes, LoopTypeOK, DatesTyped, RingsOK, LevelOK
<1> QED BY <1>1, LoopTypesInit, LoopTypesStep, PTL DEF LoopSpec

-----------------------------------------------------------------------------
(* What a summary is made of.                                              *)

\* A level of single samples: what lies below its head is the newest lap, in the
\* order of the samples, the last of which is n.
Lap(r, n) == r.head <= n /\ \A s \in 0..(r.head - 1) : r.cell[s] = {n - r.head + 1 + s}

LEMMA PutLap ==
  ASSUME NEW r, NEW cap \in Nat \ {0}, LevelOK(r, cap), NEW n \in Nat, Lap(r, n)
  PROVE  Lap(Put(r, cap, {n + 1}), n + 1)
<1> DEFINE h == r.head
           p == Put(r, cap, {n + 1})
<1>1. /\ h \in 0..(cap - 1) /\ h <= n /\ DOMAIN r.cell = 0..(cap - 1)
      /\ \A s \in 0..(h - 1) : r.cell[s] = {n - h + 1 + s}
  BY DEF LevelOK, Lap
<1>2. p.head = (h + 1) % cap /\ p.cell = [r.cell EXCEPT ![h] = {n + 1}]
  BY DEF Put
<1> HIDE DEF h, p
<1>3. CASE h + 1 = cap
  <2>1. p.head = 0
    BY <1>1, <1>2, <1>3
  <2> QED BY <2>1 DEF Lap, p
<1>4. CASE h + 1 # cap
  <2>1. p.head = h + 1
    BY <1>1, <1>2, <1>4
  <2>2. ASSUME NEW s \in 0..h PROVE p.cell[s] = {(n + 1) - (h + 1) + 1 + s}
    <3>1. CASE s = h
      BY <1>1, <1>2, <3>1
    <3>2. CASE s # h
      <4>1. s \in 0..(h - 1)
        BY <1>1, <3>2
      <4>2. p.cell[s] = r.cell[s]
        BY <1>1, <1>2, <3>2
      <4>3. (n + 1) - (h + 1) + 1 + s = n - h + 1 + s
        BY <1>1, <4>1
      <4> QED BY <1>1, <4>1, <4>2, <4>3
    <3> QED BY <3>1, <3>2
  <2>3. h + 1 <= n + 1 /\ (h + 1) - 1 = h
    BY <1>1
  <2> QED BY <2>1, <2>2, <2>3 DEF Lap, p
<1> QED BY <1>3, <1>4

\* ring_aggregate reads the slots below the head and no others, each once: the
\* entries of the lap before are left out.
LEMMA MergedIsLap ==
  ASSUME NEW r, NEW cap \in Nat \ {0}, r.head \in 0..(cap - 1)
  PROVE  /\ Available(r, cap) = r.head
         /\ \A i \in 0..(r.head - 1) : Index(r, cap, i) = i
         /\ Merged(r, cap) = UNION {r.cell[i] : i \in 0..(r.head - 1)}
<1>1. Available(r, cap) = r.head
  BY DEF Available
<1>2. ASSUME NEW i \in 0..(r.head - 1) PROVE Index(r, cap, i) = i
  <2>1. r.head - r.head + i + cap = i + cap /\ i \in 0..(cap - 1)
    OBVIOUS
  <2>2. (i + cap) % cap = i
    BY <2>1
  <2> QED BY <1>1, <2>1, <2>2 DEF Index
<1>3. {r.cell[Index(r, cap, i)] : i \in 0..(r.head - 1)} = {r.cell[i] : i \in 0..(r.head - 1)}
  BY <1>2
<1> QED BY <1>1, <1>2, <1>3 DEF Merged

\* The summary of a level of single samples: the newest of them, without holes,
\* and fewer than the level has slots.
LEMMA SummaryOfLap ==
  ASSUME NEW r, NEW cap \in Nat \ {0}, LevelOK(r, cap), NEW n \in Nat, Lap(r, n), r.head # 0
  PROVE  /\ n \in Merged(r, cap) /\ Consecutive(Merged(r, cap))
         /\ Cardinality(Merged(r, cap)) < cap
<1> DEFINE h == r.head
           e == Merged(r, cap)
<1>1. h \in 1..(cap - 1) /\ h <= n /\ \A s \in 0..(h - 1) : r.cell[s] = {n - h + 1 + s}
  BY DEF LevelOK, Lap
<1>2. e = UNION {r.cell[i] : i \in 0..(h - 1)}
  BY <1>1, MergedIsLap
<1> HIDE DEF h, e
<1>3. e = (n - h + 1)..n
  <2>1. ASSUME NEW x \in e PROVE x \in (n - h + 1)..n
    <3>1. PICK i \in 0..(h - 1) : x \in r.cell[i]
      BY <1>2
    <3>2. x = n - h + 1 + i
      BY <1>1, <3>1
    <3> QED BY <1>1, <3>2
  <2>2. ASSUME NEW x \in (n - h + 1)..n PROVE x \in e
    <3>1. x - (n - h + 1) \in 0..(h - 1) /\ n - h + 1 + (x - (n - h + 1)) = x
      BY <1>1
    <3>2. r.cell[x - (n - h + 1)] = {x}
      BY <1>1, <3>1
    <3>3. x \in r.cell[x - (n - h + 1)]
      BY <3>2
    <3> QED BY <1>2, <3>1, <3>3
  <2> QED BY <2>1, <2>2
<1>4. n \in e /\ Consecutive(e)
  BY <1>1, <1>3 DEF Consecutive
<1>5. Cardinality(e) = h
  <2>1. n - h + 1 \in Int /\ n \in Int /\ n - h + 1 <= n /\ n - (n - h + 1) + 1 = h
    BY <1>1
  <2> QED BY <1>3, <2>1, FS_Interval
<1> QED BY <1>1, <1>4, <1>5 DEF e

\* The summary ends with the newest entry of its source.
LEMMA SummaryHoldsNewest ==
  ASSUME NEW r, NEW cap \in Nat \ {0}, r.head \in 0..(cap - 1), r.head # 0
  PROVE  r.cell[(r.head - 1) % cap] \subseteq Merged(r, cap)
<1>1. (r.head - 1) % cap = r.head - 1 /\ r.head - 1 \in 0..(r.head - 1)
  OBVIOUS
<1> QED BY <1>1, MergedIsLap

LapInv == LoopTypes /\ Lap(ring[1], taken)

\* A roll-up: what it stores, in one level only.
LEMMA RolledUp ==
  ASSUME NEW rs, RingsOK(rs), NEW l \in {2, 3}
  PROVE  /\ \A k \in RingLevels \ {l} : RollUp(rs, l)[k] = rs[k]
         /\ RollUp(rs, l)[l] # rs[l] =>
              /\ rs[l - 1].head # 0
              /\ RollUp(rs, l)[l].cell[rs[l].head] = Merged(rs[l - 1], Cap(l - 1))
<1> DEFINE put == Put(rs[l], Cap(l), Merged(rs[l - 1], Cap(l - 1)))
<1>1. /\ l \in RingLevels /\ l - 1 \in RingLevels /\ DOMAIN rs = RingLevels
      /\ LevelOK(rs[l], Cap(l)) /\ LevelOK(rs[l - 1], Cap(l - 1)) /\ Cap(l - 1) \in Nat \ {0}
  BY Caps DEF RingLevels, RingsOK
<1>2. Available(rs[l - 1], Cap(l - 1)) = rs[l - 1].head
  BY <1>1, MergedIsLap DEF LevelOK
<1>3. CASE rs[l - 1].head = 0
  BY <1>2, <1>3 DEF RollUp
<1>4. CASE rs[l - 1].head # 0
  <2>1. RollUp(rs, l) = [rs EXCEPT ![l] = put]
    BY <1>2, <1>4 DEF RollUp
  <2>2. put.cell[rs[l].head] = Merged(rs[l - 1], Cap(l - 1))
    BY <1>1 DEF Put, LevelOK
  <2> HIDE DEF put
  <2> QED BY <1>1, <1>4, <2>1, <2>2
<1> QED BY <1>3, <1>4

LEMMA LapStep == LapInv /\ [LoopNext]_loopVars => LapInv'
<1> SUFFICES ASSUME LapInv, [LoopNext]_loopVars PROVE LapInv'
  OBVIOUS
<1>1. LoopTypes'
  BY LoopTypesStep DEF LapInv
<1>2. ASSUME NEW gap \in 0..MaxGap, NEW fired \in BOOLEAN, Poll(gap, fired) PROVE LapInv'
  <2>1. PICK r1, r2 :
           /\ taken' = IF fired THEN taken + 1 ELSE taken
           /\ r1 = IF fired THEN [ring EXCEPT ![1] = Put(ring[1], L1Cap, {taken + 1})] ELSE ring
           /\ r2 = r1 \/ r2 = RollUp(r1, 2)
           /\ ring' = r2 \/ ring' = RollUp(r2, 3)
           /\ RingsOK(r1) /\ RingsOK(r2) /\ RingsOK(ring')
    BY <1>2, PollStages DEF LapInv
  <2>2. 1 \in RingLevels \ {2} /\ 1 \in RingLevels \ {3}
    BY DEF RingLevels
  <2>3. r2[1] = r1[1]
    <3>1. RingsOK(r1) /\ 2 \in {2, 3}
      BY <2>1
    <3>2. RollUp(r1, 2)[1] = r1[1]
      BY <2>2, <3>1, RolledUp
    <3> QED BY <2>1, <3>2
  <2>4. ring'[1] = r2[1]
    BY <2>1, <2>2, RolledUp
  <2>5. Lap(r1[1], taken')
    <3>1. CASE fired
      <4>1. LevelOK(ring[1], L1Cap) /\ DOMAIN ring = RingLevels /\ taken \in Nat
        BY <2>2, Caps DEF LapInv, LoopTypes, RingsOK
      <4>2. Lap(Put(ring[1], L1Cap, {taken + 1}), taken + 1)
        BY <4>1, PutLap, LoopAssumption DEF LapInv
      <4>3. r1[1] = Put(ring[1], L1Cap, {taken + 1})
        BY <2>1, <2>2, <3>1, <4>1
      <4> QED BY <2>1, <3>1, <4>2, <4>3
    <3>2. CASE ~fired
      BY <2>1, <3>2 DEF LapInv
    <3> QED BY <3>1, <3>2
  <2> QED BY <1>1, <2>3, <2>4, <2>5 DEF LapInv
<1>3. ASSUME NEW c \in Near, StepClock(c) PROVE LapInv'
  BY <1>1, <1>3 DEF StepClock, LapInv
<1>4. CASE UNCHANGED loopVars
  BY <1>1, <1>4 DEF loopVars, LapInv
<1> QED BY <1>2, <1>3, <1>4 DEF LoopNext

LEMMA SummaryStep ==
  LapInv /\ [LoopNext]_loopVars =>
    [/\ ring'[2] # ring[2] =>
          LET e == ring'[2].cell[ring[2].head]
          IN  taken' \in e /\ Consecutive(e) /\ Cardinality(e) < L1Cap
     /\ ring'[3] # ring[3] =>
          LET e == ring'[3].cell[ring[3].head]
          IN  ring'[2].cell[(ring'[2].head - 1) % L2Cap] \subseteq e]_loopVars
<1> SUFFICES ASSUME LapInv, [LoopNext]_loopVars
    PROVE  /\ ring'[2] # ring[2] =>
                LET e == ring'[2].cell[ring[2].head]
                IN  taken' \in e /\ Consecutive(e) /\ Cardinality(e) < L1Cap
           /\ ring'[3] # ring[3] =>
                LET e == ring'[3].cell[ring[3].head]
                IN  ring'[2].cell[(ring'[2].head - 1) % L2Cap] \subseteq e
  OBVIOUS
<1>1. CASE ring' = ring
  BY <1>1
<1>2. ASSUME NEW gap \in 0..MaxGap, NEW fired \in BOOLEAN, Poll(gap, fired)
      PROVE  /\ ring'[2] # ring[2] =>
                  LET e == ring'[2].cell[ring[2].head]
                  IN  taken' \in e /\ Consecutive(e) /\ Cardinality(e) < L1Cap
             /\ ring'[3] # ring[3] =>
                  LET e == ring'[3].cell[ring[3].head]
                  IN  ring'[2].cell[(ring'[2].head - 1) % L2Cap] \subseteq e
  <2>1. PICK r1, r2 :
           /\ taken' = IF fired THEN taken + 1 ELSE taken
           /\ r1 = IF fired THEN [ring EXCEPT ![1] = Put(ring[1], L1Cap, {taken + 1})] ELSE ring
           /\ r2 = r1 \/ r2 = RollUp(r1, 2)
           /\ ring' = r2 \/ ring' = RollUp(r2, 3)
           /\ RingsOK(r1) /\ RingsOK(r2) /\ RingsOK(ring')
    BY <1>2, PollStages DEF LapInv
  <2>2. /\ 1 \in RingLevels \ {2} /\ 1 \in RingLevels \ {3} /\ 2 \in RingLevels \ {3}
        /\ 3 \in RingLevels \ {2} /\ 2 \in {2, 3} /\ 3 \in {2, 3}
    BY DEF RingLevels
  <2>3. r1[2] = ring[2] /\ r1[3] = ring[3]
    BY <2>1
  <2>4. /\ RollUp(r1, 2)[1] = r1[1] /\ RollUp(r1, 2)[3] = r1[3]
        /\ RollUp(r2, 3)[1] = r2[1] /\ RollUp(r2, 3)[2] = r2[2]
    BY <2>1, <2>2, RolledUp
  <2>5. ring'[1] = r1[1] /\ ring'[2] = r2[2] /\ r2[3] = ring[3]
    BY <2>1, <2>3, <2>4
  <2>6. /\ \A l \in RingLevels : Cap(l) \in Nat \ {0}
        /\ Cap(1) = L1Cap /\ Cap(2) = L2Cap /\ 2 - 1 = 1 /\ 3 - 1 = 2
    BY Caps
  <2>7. ASSUME ring'[2] # ring[2]
        PROVE  LET e == ring'[2].cell[ring[2].head]
               IN  taken' \in e /\ Consecutive(e) /\ Cardinality(e) < L1Cap
    <3>1. r2 = RollUp(r1, 2) /\ RollUp(r1, 2)[2] # r1[2]
      BY <2>1, <2>3, <2>5, <2>7
    <3>2. /\ r1[1].head # 0
          /\ RollUp(r1, 2)[2].cell[r1[2].head] = Merged(r1[1], Cap(1))
      BY <2>1, <2>2, <2>6, <3>1, RolledUp
    <3>3. ring'[2].cell[ring[2].head] = Merged(ring'[1], L1Cap) /\ ring'[1].head # 0
      BY <2>3, <2>5, <2>6, <3>1, <3>2
    <3>4. LapInv'
      BY LapStep
    <3>5. Lap(ring'[1], taken') /\ taken' \in Nat /\ LevelOK(ring'[1], L1Cap) /\ L1Cap \in Nat \ {0}
      BY <2>2, <2>6, <3>4, LoopAssumption DEF LapInv, LoopTypes, RingsOK
    <3> QED BY <3>3, <3>5, SummaryOfLap
  <2>8. ASSUME ring'[3] # ring[3]
        PROVE  LET e == ring'[3].cell[ring[3].head]
               IN  ring'[2].cell[(ring'[2].head - 1) % L2Cap] \subseteq e
    <3>1. ring' = RollUp(r2, 3) /\ RollUp(r2, 3)[3] # r2[3]
      BY <2>1, <2>5, <2>8
    <3>2. /\ r2[2].head # 0
          /\ RollUp(r2, 3)[3].cell[r2[3].head] = Merged(r2[2], Cap(2))
      BY <2>1, <2>2, <2>6, <3>1, RolledUp
    <3>3. r2[2].head \in 0..(L2Cap - 1) /\ L2Cap \in Nat \ {0}
      BY <2>1, <2>2, <2>6 DEF RingsOK, LevelOK
    <3>4. r2[2].cell[(r2[2].head - 1) % L2Cap] \subseteq Merged(r2[2], L2Cap)
      BY <3>2, <3>3, SummaryHoldsNewest
    <3> QED BY <2>5, <2>6, <3>1, <3>2, <3>4
  <2> QED BY <2>7, <2>8
<1>3. ASSUME NEW c \in Near, StepClock(c) PROVE ring' = ring
  BY <1>3 DEF StepClock
<1>4. CASE UNCHANGED loopVars
  BY <1>1, <1>4 DEF loopVars
<1> QED BY <1>1, <1>2, <1>3, <1>4 DEF LoopNext

\* For all capacities, periods and steps of the clock: an entry of level 2 that is
\* written now is made of the newest sample and those before it without a hole,
\* fewer than the ring holds, and one of level 3 holds the newest of level 2, in
\* whatever lap the rings are (ring_aggregate).
THEOREM SummariesStayUpToDate == LoopSpec => SummariesUpToDate
<1>1. LoopInit => LapInv
  <2> SUFFICES ASSUME LoopInit PROVE LapInv
    OBVIOUS
  <2>1. LoopTypes
    BY LoopTypesInit
  <2>2. ring[1].head = 0 /\ taken = 0
    BY DEF LoopInit, RingLevels
  <2> QED BY <2>1, <2>2 DEF LapInv, Lap
<1> QED BY <1>1, LapStep, SummaryStep, PTL DEF LoopSpec, SummariesUpToDate

-----------------------------------------------------------------------------
(* The rates of the collector.                                             *)

\* What the next reading may credit at most
Owed == IF netTime > 0 /\ counter > netPrev THEN counter - netPrev ELSE 0

\* Inductive: what is credited leaves room for what the next reading may credit.
\* NoByteTwice alone is not: it says nothing of the reading that is kept.
RateInv ==
  /\ CollectorTypeOK
  /\ counter <= came
  /\ credited + Owed <= came

\* A quotient, times the divisor, does not exceed the dividend.
LEMMA Rounded ==
  ASSUME NEW a \in Nat, NEW e \in Nat \ {0}
  PROVE  /\ a \div e \in Nat
         /\ (a \div e) * e <= a
         /\ a \div e <= a
<1>1. a \div e \in Nat /\ (a \div e) * e <= a
  OBVIOUS
<1>2. a \div e <= (a \div e) * e
  BY <1>1
<1> QED BY <1>1, <1>2

\* A rate, and what it credits: nothing after a step back of the clock
LEMMA Credited ==
  ASSUME RateInv
  PROVE  /\ RateOf(wall - netTime) \in 0..MaxBytes
         /\ RateOf(wall - netTime) * (wall - netTime) \in 0..Owed
<1> DEFINE e == wall - netTime
<1>1. e \in Int /\ counter \in Nat /\ netPrev \in Nat /\ netTime \in Nat /\ MaxBytes \in Nat
         /\ counter <= MaxBytes
  BY CollectorAssumption DEF RateInv, CollectorTypeOK
<1>2. CASE e > 0 /\ netTime > 0 /\ counter >= netPrev
  <2>1. counter - netPrev \in Nat /\ e \in Nat \ {0}
    BY <1>1, <1>2
  <2>2. RateOf(e) = (counter - netPrev) \div e /\ Owed = counter - netPrev
    BY <1>1, <1>2 DEF RateOf, Owed
  <2>3. /\ (counter - netPrev) \div e \in Nat
        /\ ((counter - netPrev) \div e) * e <= counter - netPrev
        /\ (counter - netPrev) \div e <= counter - netPrev
    BY <2>1, Rounded
  <2>4. ((counter - netPrev) \div e) * e >= 0
    BY <2>1, <2>3
  <2> QED BY <1>1, <2>1, <2>2, <2>3, <2>4
<1>3. CASE ~(e > 0 /\ netTime > 0 /\ counter >= netPrev)
  <2>1. RateOf(e) = 0
    BY <1>3 DEF RateOf
  <2>2. RateOf(e) * e = 0 /\ Owed \in Nat
    BY <1>1, <2>1 DEF Owed
  <2> QED BY <1>1, <2>1, <2>2
<1> QED BY <1>2, <1>3

LEMMA RateInit == CollectorInit => RateInv
BY CollectorAssumption DEF CollectorInit, RateInv, CollectorTypeOK, Owed

LEMMA RateStep == RateInv /\ [CollectorNext]_collectorVars => RateInv'
<1> SUFFICES ASSUME RateInv, [CollectorNext]_collectorVars PROVE RateInv'
  OBVIOUS
<1> USE CollectorAssumption
<1>1. CASE CollectNet
  <2> DEFINE paid == RateOf(wall - netTime) * (wall - netTime)
  <2>1. rate' \in 0..MaxBytes /\ paid \in 0..Owed /\ credited' = credited + paid
    BY <1>1, Credited DEF CollectNet
  <2>2. Owed' = 0 /\ Owed \in Nat
    BY <1>1 DEF CollectNet, Owed, RateInv, CollectorTypeOK
  <2> HIDE DEF paid
  <2>3. credited' \in Nat /\ credited' + Owed' <= came'
    BY <1>1, <2>1, <2>2 DEF CollectNet, RateInv, CollectorTypeOK
  <2> QED BY <1>1, <2>1, <2>3 DEF CollectNet, RateInv, CollectorTypeOK
<1>2. CASE CollectNothing
  BY <1>2 DEF CollectNothing, RateInv, CollectorTypeOK, Owed
<1>3. CASE RestartCollector
  BY <1>3 DEF RestartCollector, RateInv, CollectorTypeOK, Owed
<1>4. ASSUME NEW n \in Traffic, BytesArrive(n) PROVE RateInv'
  BY <1>4 DEF BytesArrive, RateInv, CollectorTypeOK, Owed
<1>5. ASSUME NEW n \in 0..MaxBytes, CounterFalls(n) PROVE RateInv'
  BY <1>5 DEF CounterFalls, RateInv, CollectorTypeOK, Owed
<1>6. ASSUME NEW t \in 1..LastTime, SetWall(t) PROVE RateInv'
  BY <1>6 DEF SetWall, RateInv, CollectorTypeOK, Owed
<1>7. CASE UNCHANGED collectorVars
  BY <1>7 DEF collectorVars, RateInv, CollectorTypeOK, Owed
<1> QED BY <1>1, <1>2, <1>3, <1>4, <1>5, <1>6, <1>7 DEF CollectorNext

\* For every traffic and every clock: the rates of all samples, times the seconds
\* they stand for, never exceed the bytes that have arrived.
THEOREM BytesToldOnce == CollectorSpec => []NoByteTwice
<1>1. RateInv => NoByteTwice
  BY DEF RateInv, NoByteTwice, Owed, CollectorTypeOK
<1> QED BY <1>1, RateInit, RateStep, PTL DEF CollectorSpec
=============================================================================
