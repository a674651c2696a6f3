----------------------------- MODULE Collector -----------------------------
(***************************************************************************)
(* What tinytd makes of the byte counters of /proc/net/dev: a rate since   *)
(* the reading before.  The counters start anew when an interface does, a  *)
(* reading may fail, the wall clock counts whole seconds and can be set.   *)
(*                                                                         *)
(* One direction of the traffic stands for both.  The other metrics are    *)
(* left out: they are computed from one reading, but for the times of the  *)
(* processor and a disk usage that is kept for a while.                    *)
(***************************************************************************)
EXTENDS Integers

CONSTANTS
  Traffic,   \* numbers of bytes that arrive at once
  MaxBytes,  \* bound on the bytes that arrive
  FirstTime, \* wall clock at the start
  LastTime   \* bound on the wall clock

ASSUME CollectorAssumption ==
  /\ Traffic \subseteq Nat /\ MaxBytes \in Nat
  /\ LastTime \in Nat /\ FirstTime \in 1..LastTime

VARIABLES
  wall,     \* time()
  counter,  \* sum over the interfaces
  netPrev, netTime, \* net_prev and net_time_prev, 0 before the first reading
  rate,     \* net_rx of the last sample
  came,     \* history: bytes that have arrived
  credited  \* history: rates of the samples, times the seconds they stand for

collectorVars == <<wall, counter, netPrev, netTime, rate, came, credited>>

CollectorTypeOK ==
  /\ wall \in 1..LastTime /\ counter \in 0..MaxBytes
  /\ netPrev \in 0..MaxBytes /\ netTime \in 0..LastTime /\ rate \in 0..MaxBytes
  /\ came \in 0..MaxBytes /\ credited \in Nat

CollectorInit ==
  /\ wall = FirstTime /\ counter = 0 /\ netPrev = 0 /\ netTime = 0 /\ rate = 0
  /\ came = 0 /\ credited = 0

\* A counter that has started anew is taken to have gone on (a mutant of RateOf)
RateOfWrapped(elapsed) ==
  IF elapsed > 0 /\ netTime > 0
  THEN (IF counter >= netPrev THEN counter - netPrev ELSE netPrev - counter) \div elapsed ELSE 0

\* The rate of one direction: none for a counter that has started anew, for
\* less than a second, after a clock that was set back.
RateOf(elapsed) ==
  IF elapsed > 0 /\ netTime > 0 /\ counter >= netPrev THEN (counter - netPrev) \div elapsed ELSE 0

\* ttd_collect_net
CollectNet ==
  /\ rate' = RateOf(wall - netTime)
  /\ netPrev' = counter /\ netTime' = wall
  /\ credited' = credited + rate' * (wall - netTime)
  /\ UNCHANGED <<wall, counter, came>>

\* A file that cannot be read leaves the reading before.
CollectNothing ==
  /\ rate' = 0 /\ UNCHANGED <<wall, counter, netPrev, netTime, came, credited>>

\* tinytd starts anew.
RestartCollector ==
  /\ netPrev' = 0 /\ netTime' = 0 /\ rate' = 0
  /\ UNCHANGED <<wall, counter, came, credited>>

BytesArrive(n) ==
  /\ came + n <= MaxBytes
  /\ counter' = counter + n /\ came' = came + n
  /\ UNCHANGED <<wall, netPrev, netTime, rate, credited>>

\* An interface goes, or starts anew.
CounterFalls(n) ==
  /\ n < counter /\ counter' = n
  /\ UNCHANGED <<wall, netPrev, netTime, rate, came, credited>>

\* Seconds pass, or the clock is set.
SetWall(t) ==
  /\ t # wall /\ wall' = t
  /\ UNCHANGED <<counter, netPrev, netTime, rate, came, credited>>

CollectorNext ==
  \/ CollectNet \/ CollectNothing \/ RestartCollector
  \/ \E n \in Traffic : BytesArrive(n)
  \/ \E n \in 0..MaxBytes : CounterFalls(n)
  \/ \E t \in 1..LastTime : SetWall(t)

CollectorSpec == CollectorInit /\ [][CollectorNext]_collectorVars

-----------------------------------------------------------------------------
(* Properties.                                                             *)

\* No byte is told of twice, and none that never came: the rates of all samples,
\* times the seconds they stand for, never exceed what has arrived, with counters
\* that start anew and overtake their old value, readings that fail, restarts,
\* and a clock that is set in between, of interfaces that stay: one that comes back
\* with its old count is counted again in the sum.
NoByteTwice == credited <= came
=============================================================================
