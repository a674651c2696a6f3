------------------------------- MODULE Tinytd --------------------------------
(***************************************************************************)
(* The loop of the collector daemon: one thread that waits for the         *)
(* sampling timer or a time-out, writes a sample, and then lets three      *)
(* periodic tasks run by the wall clock: the roll-up of level 1 into level *)
(* 2, of level 2 into level 3, and the sync of the shadow.                 *)
(*                                                                         *)
(* Time is counted in sampling intervals.  Samples are numbered from 1; a  *)
(* cell holds the set of the samples it summarises, a singleton in level   *)
(* 1.  The wall clock may be stepped (settimeofday, NTP); `since' measures *)
(* the time that really passes.                                            *)
(***************************************************************************)
EXTENDS Integers, FiniteSets

CONSTANTS
  L1Cap, L2Cap, L3Cap,        \* capacities
  L2Every, L3Every, SyncEvery, \* periods of the three tasks
  MaxGap,      \* longest time from one poll to the next
  MaxStep,     \* largest step of the wall clock
  MaxSteps,    \* bound on the number of steps
  Epoch,       \* wall clock at the start
  MaxClock,    \* bound on the wall clock
  MaxTaken     \* bound on the samples taken

ASSUME LoopAssumption ==
  /\ L1Cap \in Nat \ {0} /\ L2Cap \in Nat \ {0} /\ L3Cap \in Nat \ {0}
  /\ L2Every \in Nat \ {0} /\ L3Every \in Nat \ {0} /\ SyncEvery \in Nat \ {0}
  /\ MaxGap \in Nat /\ MaxStep \in Nat /\ MaxSteps \in Nat
  /\ Epoch \in Nat /\ MaxClock \in Nat /\ MaxTaken \in Nat

VARIABLES
  clock,   \* CLOCK_REALTIME
  expire,  \* rt->next_l2, rt->next_l3, rt->next_shadow; 0: not set
  ring,    \* head and cells of each level
  taken,   \* samples written
  polled,  \* wall clock at the last poll
  since,   \* time since the task last ran, or since the start
  steps    \* steps of the wall clock so far

loopVars == <<clock, expire, ring, taken, polled, since, steps>>

Tasks == {"l2", "l3", "shadow"}
RingLevels == 1..3
Cap(l) == CASE l = 1 -> L1Cap [] l = 2 -> L2Cap [] l = 3 -> L3Cap
Period(t) == CASE t = "l2" -> L2Every [] t = "l3" -> L3Every [] t = "shadow" -> SyncEvery
SampleNumbers == 1..MaxTaken

LoopTypeOK ==
  /\ clock \in Nat /\ polled \in Nat
  /\ expire \in [Tasks -> Nat] /\ since \in [Tasks -> Nat]
  /\ DOMAIN ring = RingLevels
  /\ \A l \in RingLevels : /\ ring[l].head \in 0..(Cap(l) - 1)
                           /\ ring[l].cell \in [0..(Cap(l) - 1) -> SUBSET SampleNumbers]
  /\ taken \in 0..MaxTaken
  /\ steps \in 0..MaxSteps

LoopInit ==
  /\ clock = Epoch /\ polled = Epoch
  /\ expire = [t \in Tasks |-> 0]
  /\ ring = [l \in RingLevels |-> [head |-> 0, cell |-> [s \in 0..(Cap(l) - 1) |-> {}]]]
  /\ taken = 0
  /\ since = [t \in Tasks |-> 0] /\ steps = 0

-----------------------------------------------------------------------------
(* tt_timer_expired                                                        *)

\* A date beyond the period is kept (a mutant of Armed)
ArmedOnce(e, prd, now) == IF e = 0 THEN now + prd ELSE e

\* A date further away than one period, or none at all, is set anew.
Armed(e, prd, now) == IF e = 0 \/ now + prd < e THEN now + prd ELSE e

Fires(e, prd, now) == Armed(e, prd, now) <= now

\* Late dates are caught up one by one (a mutant of Rearmed)
RearmedFrom(e, prd, now) ==
  LET a == Armed(e, prd, now)
  IN  IF a > now THEN a ELSE a + prd

\* The next date: one period on, or one period from now after a long absence
Rearmed(e, prd, now) ==
  LET a == Armed(e, prd, now)
  IN  IF a > now THEN a ELSE IF now - a > prd THEN now + prd ELSE a + prd

-----------------------------------------------------------------------------
(* The rings.                                                              *)

Put(r, cap, v) == [head |-> (r.head + 1) % cap, cell |-> [r.cell EXCEPT ![r.head] = v]]

\* ring_aggregate takes the head of the source for the number of its entries
Available(r, cap) == IF r.head < cap THEN r.head ELSE cap

\* Read from where the next entry goes (a mutant of Index)
IndexAhead(r, cap, i) == (r.head + i) % cap

Index(r, cap, i) == (r.head - Available(r, cap) + i + cap) % cap

Merged(r, cap) == UNION {r.cell[Index(r, cap, i)] : i \in 0..(Available(r, cap) - 1)}

\* ring_aggregate into level l, in the rings rs; nothing without data
RollUp(rs, l) ==
  LET src == rs[l - 1]
  IN  IF Available(src, Cap(l - 1)) = 0 THEN rs
      ELSE [rs EXCEPT ![l] = Put(rs[l], Cap(l), Merged(src, Cap(l - 1)))]

-----------------------------------------------------------------------------

\* ttd_runtime_poll, gap intervals after the one before: one sample if the
\* sampling timer has expired since, however often, then the periodic tasks
\* that are due, in this order.
Poll(gap, fired) ==
  LET now == clock + gap
      due == {t \in Tasks : Fires(expire[t], Period(t), now)}
      r1  == IF fired THEN [ring EXCEPT ![1] = Put(ring[1], L1Cap, {taken + 1})] ELSE ring
      r2  == IF "l2" \in due THEN RollUp(r1, 2) ELSE r1
      r3  == IF "l3" \in due THEN RollUp(r2, 3) ELSE r2
  IN  /\ now <= MaxClock
      /\ fired => gap > 0 /\ taken < MaxTaken
      /\ clock' = now /\ polled' = now
      /\ taken' = IF fired THEN taken + 1 ELSE taken
      /\ ring' = r3
      /\ expire' = [t \in Tasks |-> Rearmed(expire[t], Period(t), now)]
      /\ since' = [t \in Tasks |-> IF t \in due THEN 0 ELSE since[t] + gap]
      /\ UNCHANGED steps

\* The wall clock is set to another time while the daemon waits.
StepClock(c) ==
  /\ steps < MaxSteps /\ c # clock
  /\ clock' = c
  /\ steps' = steps + 1
  /\ UNCHANGED <<expire, ring, taken, polled, since>>

Near == {c \in 1..MaxClock : clock - MaxStep <= c /\ c <= clock + MaxStep}

LoopNext ==
  \/ \E gap \in 0..MaxGap, fired \in BOOLEAN : Poll(gap, fired)
  \/ \E c \in Near : StepClock(c)

LoopSpec == LoopInit /\ [][LoopNext]_loopVars

-----------------------------------------------------------------------------
(* Properties.                                                             *)

\* No step of the wall clock, back or forth, puts a task off by more than a
\* period: after every poll each date is set and at most a period away.
NextDateWithinPeriod ==
  \A t \in Tasks : expire[t] # 0 =>
    polled <= expire[t] /\ expire[t] <= polled + Period(t)

\* How long a task can really be away: a period and the delay of a poll, and
\* once more what a step of the clock took back.  For the shadow this bounds
\* what a crash can lose.
TaskNotStarved ==
  \A t \in Tasks : since[t] <= (steps + 1) * (Period(t) + MaxGap)

\* A summary is made of what is in the source now: it ends with the newest
\* sample or summary and has no holes, wherever the source has wrapped.
Consecutive(S) == \A x, y \in S : \A z \in x..y : z \in S

SummariesUpToDate ==
  [][/\ ring'[2] # ring[2] =>
          LET e == ring'[2].cell[ring[2].head]
          IN  taken' \in e /\ Consecutive(e) /\ Cardinality(e) < L1Cap
     /\ ring'[3] # ring[3] =>
          LET e == ring'[3].cell[ring[3].head]
          IN  ring'[2].cell[(ring'[2].head - 1) % L2Cap] \subseteq e]_loopVars

\* What the configuration reference says of l2_agg_interval_sec: it is how
\* many seconds of samples are merged into one entry, so two entries never
\* summarise the same sample.
EntriesShareNoSample ==
  \A s, t \in 0..(L2Cap - 1) :
    s # t => ring[2].cell[s] \cap ring[2].cell[t] = {}
=============================================================================
