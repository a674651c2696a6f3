--------------------------- MODULE History_proofs ---------------------------
(***************************************************************************)
(* What the charts make of history, for all sizes of windows, batches,     *)
(* rings and charts and any number of samples, frames and connections: a   *)
(* chart ends with its newest sample, its line is in order after an answer *)
(* that fills it, and the window of the timeline lies inside its data.     *)
(***************************************************************************)
EXTENDS Charts, FiniteSetTheorems, TLAPS

-----------------------------------------------------------------------------
(* Elements of a finite set of integers, by how many are greater.          *)

Above(S, t) == {u \in S : u > t}

LEMMA AboveCount ==
  ASSUME NEW S \in SUBSET Int, IsFiniteSet(S), NEW t \in S
  PROVE  /\ IsFiniteSet(Above(S, t))
         /\ Cardinality(Above(S, t)) \in 0..(Cardinality(S) - 1)
<1>1. Above(S, t) \in SUBSET S /\ Above(S, t) # S
  BY DEF Above
<1>2. /\ IsFiniteSet(Above(S, t)) /\ Cardinality(Above(S, t)) <= Cardinality(S)
      /\ Cardinality(S) # Cardinality(Above(S, t))
  BY <1>1, FS_Subset
<1>3. Cardinality(S) \in Nat /\ Cardinality(Above(S, t)) \in Nat
  BY <1>2, FS_CardinalityType
<1> QED BY <1>2, <1>3

\* Two elements have not the same number of greater ones.
LEMMA AboveDiffers ==
  ASSUME NEW S \in SUBSET Int, IsFiniteSet(S), NEW t \in S, NEW u \in S, t < u
  PROVE  Cardinality(Above(S, t)) # Cardinality(Above(S, u))
<1>1. Above(S, u) \in SUBSET Above(S, t)
  <2> SUFFICES ASSUME NEW x \in S, x > u PROVE x > t
    BY DEF Above
  <2>1. x \in Int /\ u \in Int /\ t \in Int
    OBVIOUS
  <2> QED BY <2>1
<1>2. u \in Above(S, t) /\ u \notin Above(S, u)
  BY DEF Above
<1>3. IsFiniteSet(Above(S, t))
  BY AboveCount
<1>4. Cardinality(Above(S, t)) = Cardinality(Above(S, u)) => Above(S, t) = Above(S, u)
  BY <1>1, <1>3, FS_Subset
<1> QED BY <1>2, <1>4

\* Every number below that of the elements is the number of greater ones of some
\* element: an injection into a set of the same size leaves nothing out.
LEMMA EveryRank ==
  ASSUME NEW S \in SUBSET Int, IsFiniteSet(S), NEW k \in 0..(Cardinality(S) - 1)
  PROVE  \E t \in S : Cardinality(Above(S, t)) = k
<1> DEFINE T == 0..(Cardinality(S) - 1)
           rank == [t \in S |-> Cardinality(Above(S, t))]
<1>1. Cardinality(S) \in Nat
  BY FS_CardinalityType
<1>2. IsFiniteSet(T) /\ Cardinality(T) = Cardinality(S)
  <2>1. 0 \in Int /\ Cardinality(S) - 1 \in Int
    BY <1>1
  <2> QED BY <1>1, <2>1, FS_Interval
<1>3. rank \in [S -> T]
  BY AboveCount
<1>4. ASSUME NEW t \in S, NEW u \in S, rank[t] = rank[u] PROVE t = u
  <2>1. t \in Int /\ u \in Int
    OBVIOUS
  <2>2. ~(t < u) /\ ~(u < t)
    BY <1>4, AboveDiffers
  <2> QED BY <2>1, <2>2
<1>5. rank \in Injection(S, T)
  BY <1>3, <1>4 DEF Injection, IsInjective
<1> HIDE DEF rank
<1>6. rank \in Surjection(S, T)
  BY <1>2, <1>5, FS_Injection
<1>7. PICK t \in S : rank[t] = k
  BY <1>6 DEF Surjection
<1> QED BY <1>7 DEF rank

-----------------------------------------------------------------------------
(* Sequences.                                                              *)

\* slice(-n): the last n elements, or all of them
LEMMA NewestIs ==
  ASSUME NEW S, NEW s \in Seq(S), NEW n \in Nat
  PROVE  /\ Newest(s, n) \in Seq(S)
         /\ Len(Newest(s, n)) = Lesser(n, Len(s))
         /\ \A i \in 1..Len(Newest(s, n)) :
              Newest(s, n)[i] = s[Len(s) - Len(Newest(s, n)) + i]
<1> DEFINE a == Greater(Len(s) - n, 0) + 1
<1>1. /\ Len(s) \in Nat /\ a \in 1..(Len(s) + 1)
      /\ Len(s) - a + 1 = Lesser(n, Len(s))
  BY DEF Greater, Lesser
<1>2. /\ SubSeq(s, a, Len(s)) \in Seq(S)
      /\ Len(SubSeq(s, a, Len(s))) = Len(s) - a + 1
      /\ \A i \in 1..(Len(s) - a + 1) : SubSeq(s, a, Len(s))[i] = s[a + i - 1]
  BY <1>1
<1> HIDE DEF a
<1>3. Newest(s, n) = SubSeq(s, a, Len(s))
  BY DEF Newest, a
<1> DEFINE r == Newest(s, n)
           m == Len(r)
<1>4. r \in Seq(S) /\ m = Len(s) - a + 1 /\ m = Lesser(n, Len(s))
  BY <1>1, <1>2, <1>3
<1>5. ASSUME NEW i \in 1..m PROVE r[i] = s[Len(s) - m + i]
  <2>1. i \in 1..(Len(s) - a + 1) /\ Len(s) - m + i = a + i - 1
    BY <1>1, <1>4
  <2> QED BY <1>2, <1>3, <2>1
<1> QED BY <1>4, <1>5

LEMMA JoinedIs ==
  ASSUME NEW S, NEW s \in Seq(S), NEW t \in Seq(S)
  PROVE  /\ s \o t \in Seq(S) /\ Len(s \o t) = Len(s) + Len(t)
         /\ \A i \in 1..Len(s) : (s \o t)[i] = s[i]
         /\ \A i \in 1..Len(t) : (s \o t)[Len(s) + i] = t[i]
OBVIOUS

LEMMA TailIs ==
  ASSUME NEW S, NEW q \in Seq(S), q # <<>>
  PROVE  /\ Head(q) \in S /\ Head(q) = q[1] /\ Tail(q) \in Seq(S) /\ Len(q) \in Nat \ {0}
         /\ Len(Tail(q)) = Len(q) - 1
         /\ \A i \in 1..(Len(q) - 1) : Tail(q)[i] = q[i + 1]
OBVIOUS

-----------------------------------------------------------------------------
(* Frames.                                                                 *)

NewestOf(f) == f.times[Len(f.times)]

\* What is under way: consecutive samples that the ring had, one in a push.
FrameIs(f) ==
  /\ f \in Frames /\ Len(f.times) >= 1 /\ NewestOf(f) <= now
  /\ \A j \in 1..Len(f.times) : f.times[j] = NewestOf(f) - Len(f.times) + j
  /\ f.kind = "metrics" => Len(f.times) = 1

LEMMA BatchIs ==
  ASSUME now \in 0..MaxTime, NEW m \in 1..now
  PROVE  FrameIs(BatchOf(m)) /\ NewestOf(BatchOf(m)) = now
<1> DEFINE times == [i \in 1..m |-> now - m + i]
<1>1. now \in Nat /\ m \in Nat /\ MaxTime \in Nat
  BY ChartsAssumption
<1>2. times \in Seq(Times) /\ Len(times) = m /\ \A j \in 1..m : times[j] = now - m + j
  BY <1>1 DEF Times
<1>3. BatchOf(m) = [kind |-> "history", times |-> times]
  BY DEF BatchOf
<1> HIDE DEF times
<1>4. times[m] = now /\ m >= 1 /\ m \in 1..m
  BY <1>1, <1>2
<1> QED BY <1>1, <1>2, <1>3, <1>4 DEF FrameIs, NewestOf, Frames

\* The reader never gives more than was written, whether or not the ring has
\* wrapped.
LEMMA HeldIs == ASSUME now \in Nat PROVE Held \in 0..now
<1>1. RingCap \in Nat \ {0} /\ now % RingCap \in 0..(RingCap - 1)
  BY ChartsAssumption
<1>2. CASE now < RingCap
  <2>1. now % RingCap = now
    BY <1>1, <1>2
  <2> QED BY <1>2, <2>1 DEF Held
<1>3. CASE now >= RingCap
  BY <1>1, <1>3 DEF Held
<1> QED BY <1>1, <1>2, <1>3

LEMMA AllowedIs == ASSUME NEW n \in Nat PROVE Allowed(n) \in Nat \ {0}
BY ChartsAssumption DEF Allowed

-----------------------------------------------------------------------------
(* The inductive invariant.                                                *)

Queued == \A i \in DOMAIN pipe : FrameIs(pipe[i])

\* The window's offset stays below the number of samples, which only grows: the
\* guard of Wheel holds it for the window of the moment only, which may change.
Shift == IF row = {} THEN offset = 0 ELSE offset < Cardinality(row)

\* Frames arrive in the order of their newest samples, and none of them is behind
\* what the chart has.  What an answer as long as the chart leaves is in order.
InOrder ==
  ~coarse =>
    /\ \A i, j \in DOMAIN pipe : i <= j => NewestOf(pipe[i]) <= NewestOf(pipe[j])
    /\ data # <<>> => /\ data[Len(data)] <= now
                      /\ \A i \in DOMAIN data : data[i] <= data[Len(data)]
                      /\ \A i \in DOMAIN pipe : data[Len(data)] <= NewestOf(pipe[i])
    /\ settled => data # <<>> /\ \A i, j \in DOMAIN data : i < j => data[i] <= data[j]

ChartsInv == ChartsTypeOK /\ Queued /\ Shift /\ InOrder

LEMMA RowIs ==
  ASSUME NEW S \in SUBSET Times
  PROVE  IsFiniteSet(S) /\ Cardinality(S) \in 0..MaxTime /\ S \in SUBSET Int
<1>1. 1 \in Int /\ MaxTime \in Int /\ MaxTime \in Nat
  BY ChartsAssumption
<1>2. IsFiniteSet(1..MaxTime) /\ Cardinality(1..MaxTime) = MaxTime
  BY <1>1, FS_Interval
<1>3. IsFiniteSet(S) /\ Cardinality(S) <= MaxTime
  BY <1>2, FS_Subset DEF Times
<1> QED BY <1>1, <1>3, FS_CardinalityType DEF Times

LEMMA ShiftFits == ASSUME ChartsTypeOK, Shift PROVE offset \in 0..MaxTime /\ offset <= Cardinality(row)
<1>1. IsFiniteSet(row) /\ Cardinality(row) \in 0..MaxTime
  BY RowIs DEF ChartsTypeOK
<1> QED BY <1>1 DEF Shift, ChartsTypeOK

LEMMA LastIs == ASSUME NEW f, FrameIs(f) PROVE NewestOf(f) \in Times /\ NewestOf(f) <= now
<1>1. f.times \in Seq(Times) /\ Len(f.times) >= 1 /\ NewestOf(f) <= now
  BY DEF FrameIs, Frames
<1>2. f.times[Len(f.times)] \in Times
  BY <1>1
<1> QED BY <1>1, <1>2 DEF NewestOf

\* A frame stays what it is while the ring goes on.
LEMMA FramesKeep ==
  ASSUME now \in Nat, now' \in Nat, now <= now', NEW f, FrameIs(f)
  PROVE  FrameIs(f)'
<1>1. NewestOf(f) \in Int /\ NewestOf(f)' = NewestOf(f)
  BY LastIs DEF Times, NewestOf
<1> QED BY <1>1 DEF FrameIs

\* A frame that ends with the newest sample is sent, or none.
LEMMA SentStep ==
  ASSUME ChartsInv, NEW f, FrameIs(f), ~coarse => NewestOf(f) = now,
         pipe' = Append(pipe, f), asks' \in Seq(Nat), sending' \in BOOLEAN,
         UNCHANGED <<now, coarse, connects, data, row, window, offset, settled>>
  PROVE  ChartsInv'
<1>1. /\ pipe \in Seq(Frames) /\ f \in Frames /\ now \in Nat
      /\ NewestOf(f) \in Times /\ NewestOf(f) <= now
  BY LastIs, ChartsAssumption DEF ChartsInv, ChartsTypeOK, FrameIs
<1>2. /\ pipe' \in Seq(Frames) /\ Len(pipe) \in Nat /\ Len(pipe') = Len(pipe) + 1
      /\ \A i \in 1..Len(pipe) : pipe'[i] = pipe[i]
      /\ pipe'[Len(pipe) + 1] = f
  BY <1>1
<1>3. ASSUME NEW i \in DOMAIN pipe'
      PROVE  \/ i \in DOMAIN pipe /\ pipe'[i] = pipe[i]
             \/ i = Len(pipe) + 1 /\ pipe'[i] = f
  BY <1>1, <1>2
<1>4. ASSUME NEW i \in DOMAIN pipe' PROVE FrameIs(pipe'[i])
  BY <1>3 DEF ChartsInv, Queued
<1>5. Queued'
  BY <1>4 DEF Queued, FrameIs, NewestOf
<1>6. ASSUME ~coarse PROVE InOrder'
  <2>1. \A i \in DOMAIN pipe' : NewestOf(pipe'[i]) \in Int /\ NewestOf(pipe'[i]) <= now
    BY <1>4, LastIs DEF Times
  <2>2. ASSUME NEW i \in DOMAIN pipe', NEW j \in DOMAIN pipe', i <= j
        PROVE  NewestOf(pipe'[i]) <= NewestOf(pipe'[j])
    <3>1. CASE j = Len(pipe) + 1 /\ pipe'[j] = f
      BY <1>6, <2>1, <3>1
    <3>2. CASE j \in DOMAIN pipe /\ pipe'[j] = pipe[j]
      <4>1. i \in DOMAIN pipe /\ pipe'[i] = pipe[i]
        BY <1>1, <1>2, <1>3, <2>2, <3>2
      <4> QED BY <1>6, <2>2, <3>2, <4>1 DEF ChartsInv, InOrder
    <3> QED BY <1>3, <3>1, <3>2
  <2>3. ASSUME data # <<>>, NEW i \in DOMAIN pipe' PROVE data[Len(data)] <= NewestOf(pipe'[i])
    <3>1. CASE i = Len(pipe) + 1 /\ pipe'[i] = f
      BY <1>6, <2>3, <3>1 DEF ChartsInv, InOrder
    <3>2. CASE i \in DOMAIN pipe /\ pipe'[i] = pipe[i]
      BY <1>6, <2>3, <3>2 DEF ChartsInv, InOrder
    <3> QED BY <1>3, <3>1, <3>2
  <2> QED BY <1>6, <2>2, <2>3 DEF ChartsInv, InOrder, NewestOf
<1>7. ASSUME coarse PROVE InOrder'
  BY <1>7 DEF InOrder
<1> QED BY <1>2, <1>5, <1>6, <1>7 DEF ChartsInv, ChartsTypeOK, Shift

LEMMA ServeStep ==
  ASSUME ChartsInv, ServeBatch
  PROVE  ChartsInv'
<1> DEFINE n == Allowed(Head(asks))
           got == Lesser(Lesser(n, Batch), Held)
<1>1. /\ asks # <<>> /\ sending' = (got \in 1..(n - 1))
      /\ asks' = IF sending' THEN <<n - got>> \o Tail(asks) ELSE Tail(asks)
      /\ pipe' = IF got = 0 THEN pipe ELSE Append(pipe, BatchOf(got))
      /\ UNCHANGED <<now, coarse, connects, data, row, window, offset, settled>>
  BY DEF ServeBatch
<1>2. asks \in Seq(Nat) /\ now \in 0..MaxTime /\ now \in Nat
  BY ChartsAssumption DEF ChartsInv, ChartsTypeOK
<1>3. Head(asks) \in Nat /\ Tail(asks) \in Seq(Nat)
  BY <1>1, <1>2, TailIs
<1>4. n \in Nat \ {0} /\ Held \in 0..now /\ Batch \in Nat \ {0}
  BY <1>2, <1>3, AllowedIs, HeldIs, ChartsAssumption
<1> HIDE DEF n
<1>5. got \in 0..now
  BY <1>2, <1>4 DEF Lesser
<1> HIDE DEF got
<1>6. sending' \in BOOLEAN /\ (sending' => got \in 1..(n - 1))
  <2>1. sending' = (got \in 1..(n - 1))
    BY <1>1
  <2> DEFINE parts == 1..(n - 1)
  <2>2. sending' = (got \in parts)
    BY <2>1
  <2> HIDE DEF parts
  <2>3. sending' \in BOOLEAN
    BY <2>2, SMT
  <2>4. sending' => got \in parts
    BY <2>2, Zenon
  <2> QED BY <2>3, <2>4 DEF parts
<1>7. asks' \in Seq(Nat)
  <2>1. CASE sending'
    <3>1. n - got \in Nat
      BY <1>2, <1>4, <1>5, <1>6, <2>1
    <3>2. <<n - got>> \in Seq(Nat)
      BY <3>1
    <3> QED BY <1>1, <1>3, <2>1, <3>2, JoinedIs
  <2>2. CASE ~sending'
    BY <1>1, <1>3, <2>2
  <2> QED BY <2>1, <2>2
<1>8. CASE got = 0
  <2>1. pipe' = pipe
    BY <1>1, <1>8
  <2> QED BY <1>1, <1>6, <1>7, <2>1
          DEF ChartsInv, ChartsTypeOK, Queued, Shift, InOrder, FrameIs, NewestOf
<1>9. CASE got # 0
  <2>1. got \in 1..now
    BY <1>2, <1>5, <1>9
  <2> DEFINE f == BatchOf(got)
  <2>2. FrameIs(f) /\ NewestOf(f) = now
    BY <1>2, <2>1, BatchIs
  <2>3. pipe' = Append(pipe, f)
    BY <1>1, <1>9
  <2> HIDE DEF f
  <2> QED BY <1>1, <1>6, <1>7, <2>2, <2>3, SentStep
<1> QED BY <1>8, <1>9

-----------------------------------------------------------------------------
(* What a frame makes of the chart.                                        *)

Sorted(s) == \A i, j \in DOMAIN s : i < j => s[i] <= s[j]

\* As many samples as the chart shows replace all that it has.
LEMMA Replaced ==
  ASSUME NEW S \in SUBSET Int, NEW d \in Seq(S), NEW times \in Seq(S), NEW last \in Int,
         Len(times) >= MaxSamples,
         \A j \in 1..Len(times) : times[j] = last - Len(times) + j
  PROVE  LET n == Newest(d \o times, MaxSamples) IN
         n # <<>> /\ Sorted(n) /\ n[Len(n)] = last
<1>0. SUFFICES ASSUME NEW a, a = d \o times, NEW n, n = Newest(a, MaxSamples)
               PROVE  n # <<>> /\ Sorted(n) /\ n[Len(n)] = last
  OBVIOUS
<1> DEFINE m == Len(times)
           M == MaxSamples
<1>1. M \in Nat \ {0} /\ m \in Nat /\ Len(d) \in Nat /\ m >= M /\ MaxSamples \in Nat
  BY ChartsAssumption
<1>2. /\ a \in Seq(S) /\ Len(a) = Len(d) + m
      /\ \A i \in 1..m : a[Len(d) + i] = times[i]
  BY <1>0, JoinedIs
<1>3. /\ n \in Seq(S) /\ Len(n) = Lesser(M, Len(a))
      /\ \A i \in 1..Len(n) : n[i] = a[Len(a) - Len(n) + i]
  <2>1. a \in Seq(S) /\ n = Newest(a, MaxSamples)
    BY <1>0, <1>2
  <2> QED BY <1>1, <2>1, NewestIs
<1>4. Len(n) = M
  BY <1>1, <1>2, <1>3 DEF Lesser
<1>5. ASSUME NEW i \in 1..M PROVE n[i] = last - M + i
  <2>1. m - M + i \in 1..m /\ Len(d) + m - M + i = Len(d) + (m - M + i)
    BY <1>1
  <2>2. n[i] = times[m - M + i]
    <3>1. n[i] = a[Len(a) - Len(n) + i]
      BY <1>3, <1>4
    <3>2. Len(a) - Len(n) + i = Len(d) + (m - M + i)
      BY <1>1, <1>2, <1>4
    <3>3. a[Len(d) + (m - M + i)] = times[m - M + i]
      BY <1>2, <2>1
    <3> QED BY <3>1, <3>2, <3>3
  <2>3. times[m - M + i] = last - m + (m - M + i)
    BY <2>1
  <2>4. last - m + (m - M + i) = last - M + i
    BY <1>1
  <2> QED BY <2>2, <2>3, <2>4
<1> HIDE DEF M
<1>6. DOMAIN n = 1..M
  BY <1>3, <1>4
<1>7. Sorted(n)
  BY <1>1, <1>5, <1>6 DEF Sorted
<1>8. M \in 1..M /\ n # <<>>
  BY <1>1, <1>4
<1>9. n[M] = last
  BY <1>1, <1>5, <1>8
<1> QED BY <1>4, <1>7, <1>8, <1>9

\* One more sample that is not behind the last leaves the line in order.
LEMMA AppendedInOrder ==
  ASSUME NEW S \in SUBSET Int, NEW d \in Seq(S), NEW times \in Seq(S), NEW t \in S,
         Len(times) = 1, times[1] = t, d # <<>>, Sorted(d), d[Len(d)] <= t
  PROVE  LET n == Newest(d \o times, MaxSamples) IN
         n # <<>> /\ Sorted(n) /\ n[Len(n)] = t
<1>0. SUFFICES ASSUME NEW a, a = d \o times, NEW n, n = Newest(a, MaxSamples)
               PROVE  n # <<>> /\ Sorted(n) /\ n[Len(n)] = t
  OBVIOUS
<1>1. MaxSamples \in Nat \ {0} /\ MaxSamples \in Nat /\ Len(d) \in Nat /\ t \in Int
  BY ChartsAssumption
<1>2. /\ a \in Seq(S) /\ Len(a) = Len(d) + Len(times)
      /\ \A i \in 1..Len(d) : a[i] = d[i]
      /\ Len(a) = Len(d) + 1 /\ a[Len(d) + 1] = t
  <2>1. a \in Seq(S) /\ Len(a) = Len(d) + Len(times)
    BY <1>0, JoinedIs
  <2>2. \A i \in 1..Len(d) : a[i] = d[i]
    BY <1>0, JoinedIs
  <2>3. 1 \in 1..Len(times)
    OBVIOUS
  <2>4. a[Len(d) + 1] = times[1]
    BY <1>0, <2>3
  <2> QED BY <2>1, <2>2, <2>4
<1>3. /\ n \in Seq(S) /\ Len(n) = Lesser(MaxSamples, Len(a))
      /\ \A i \in 1..Len(n) : n[i] = a[Len(a) - Len(n) + i]
  <2>1. a \in Seq(S) /\ n = Newest(a, MaxSamples)
    BY <1>0, <1>2
  <2> QED BY <1>1, <2>1, NewestIs
<1>4. ASSUME NEW i \in 1..Len(d) PROVE d[i] \in Int
  <2>1. d[i] \in S
    OBVIOUS
  <2> QED BY <2>1
<1>5. ASSUME NEW i \in 1..Len(d) PROVE d[i] <= t
  <2>1. d[i] <= d[Len(d)]
    BY <1>1, <1>4 DEF Sorted
  <2> QED BY <1>1, <1>4, <2>1
<1>6. ASSUME NEW i \in 1..Len(a), NEW j \in 1..Len(a), i < j PROVE a[i] <= a[j]
  <2>1. CASE j <= Len(d)
    BY <1>1, <1>2, <1>6, <2>1 DEF Sorted
  <2>2. CASE j = Len(d) + 1
    BY <1>1, <1>2, <1>5, <1>6, <2>2
  <2> QED BY <1>1, <1>2, <2>1, <2>2
<1>7. Len(n) \in 1..Len(a)
  BY <1>1, <1>2, <1>3 DEF Lesser
<1>8. Sorted(n)
  <2> SUFFICES ASSUME NEW i \in 1..Len(n), NEW j \in 1..Len(n), i < j PROVE n[i] <= n[j]
    BY <1>3 DEF Sorted
  <2> DEFINE x == Len(a) - Len(n) + i
             y == Len(a) - Len(n) + j
  <2>1. x \in 1..Len(a) /\ y \in 1..Len(a) /\ x < y
    BY <1>1, <1>2, <1>7
  <2>2. n[i] = a[x] /\ n[j] = a[y]
    BY <1>3
  <2> HIDE DEF x, y
  <2> QED BY <1>6, <2>1, <2>2
<1>9. n[Len(n)] = t
  <2>1. Len(n) \in 1..Len(n) /\ Len(a) - Len(n) + Len(n) = Len(d) + 1
    BY <1>1, <1>2, <1>7
  <2> QED BY <1>2, <1>3, <2>1
<1>10. n # <<>>
  BY <1>7
<1> QED BY <1>8, <1>9, <1>10

\* Samples up to one that nothing in the chart is ahead of: it is the last and the
\* newest.
LEMMA Topped ==
  ASSUME NEW S \in SUBSET Int, NEW d \in Seq(S), NEW times \in Seq(S), NEW last \in Int,
         Len(times) >= 1, \A j \in 1..Len(times) : times[j] = last - Len(times) + j,
         \A i \in 1..Len(d) : d[i] <= last
  PROVE  LET n == Newest(d \o times, MaxSamples) IN
         n # <<>> /\ n[Len(n)] = last /\ \A i \in 1..Len(n) : n[i] <= last
<1>0. SUFFICES ASSUME NEW a, a = d \o times, NEW n, n = Newest(a, MaxSamples)
               PROVE  n # <<>> /\ n[Len(n)] = last /\ \A i \in 1..Len(n) : n[i] <= last
  OBVIOUS
<1>1. MaxSamples \in Nat \ {0} /\ MaxSamples \in Nat /\ Len(d) \in Nat /\ Len(times) \in Nat \ {0}
  BY ChartsAssumption
<1>2. /\ a \in Seq(S) /\ Len(a) = Len(d) + Len(times)
      /\ \A i \in 1..Len(d) : a[i] = d[i]
      /\ \A i \in 1..Len(times) : a[Len(d) + i] = times[i]
  BY <1>0, JoinedIs
<1>3. /\ n \in Seq(S) /\ Len(n) = Lesser(MaxSamples, Len(a))
      /\ \A i \in 1..Len(n) : n[i] = a[Len(a) - Len(n) + i]
  <2>1. a \in Seq(S) /\ n = Newest(a, MaxSamples)
    BY <1>0, <1>2
  <2> QED BY <1>1, <2>1, NewestIs
<1>4. ASSUME NEW i \in 1..Len(a) PROVE a[i] <= last /\ (i = Len(a) => a[i] = last)
  <2>1. CASE i <= Len(d)
    <3>1. i \in 1..Len(d) /\ i # Len(a)
      BY <1>1, <1>2, <2>1
    <3> QED BY <1>2, <3>1
  <2>2. CASE i > Len(d)
    <3> DEFINE j == i - Len(d)
    <3>1. j \in 1..Len(times) /\ i = Len(d) + j /\ (i = Len(a) => j = Len(times))
      BY <1>1, <1>2, <2>2
    <3> HIDE DEF j
    <3>2. a[i] = last - Len(times) + j
      BY <1>2, <3>1
    <3> QED BY <1>1, <3>1, <3>2
  <2> QED BY <1>1, <1>2, <2>1, <2>2
<1>5. Len(n) \in 1..Len(a)
  BY <1>1, <1>2, <1>3 DEF Lesser
<1>6. ASSUME NEW i \in 1..Len(n) PROVE n[i] <= last /\ (i = Len(n) => n[i] = last)
  <2> DEFINE x == Len(a) - Len(n) + i
  <2>1. x \in 1..Len(a) /\ (i = Len(n) => x = Len(a))
    <3>1. Len(a) \in Nat /\ Len(n) \in 1..Len(a) /\ i \in 1..Len(n)
      BY <1>1, <1>2, <1>5
    <3> QED BY <3>1
  <2>2. n[i] = a[x]
    BY <1>3
  <2> HIDE DEF x
  <2> QED BY <1>4, <2>1, <2>2
<1>7. n # <<>> /\ Len(n) \in 1..Len(n)
  BY <1>5
<1> QED BY <1>6, <1>7

LEMMA DeliverStep ==
  ASSUME ChartsInv, Deliver
  PROVE  ChartsInv'
<1> DEFINE f == Head(pipe)
           times == f.times
<1>1. /\ pipe # <<>> /\ pipe' = Tail(pipe) /\ data' = Newest(data \o times, MaxSamples)
      /\ row' = row \cup {times[i] : i \in DOMAIN times}
      /\ settled' = IF f.kind = "history" THEN Len(times) >= MaxSamples ELSE settled
      /\ UNCHANGED <<now, coarse, asks, sending, connects, window, offset>>
  BY DEF Deliver, addSamples
<1>2. /\ pipe \in Seq(Frames) /\ \A i \in DOMAIN pipe : FrameIs(pipe[i])
      /\ data \in Seq(Times) /\ row \in SUBSET Times /\ now \in Nat /\ settled \in BOOLEAN
  BY DEF ChartsInv, ChartsTypeOK, Queued
<1>3. /\ f \in Frames /\ f = pipe[1] /\ Tail(pipe) \in Seq(Frames) /\ Len(pipe) \in Nat \ {0}
      /\ Len(Tail(pipe)) = Len(pipe) - 1
      /\ \A i \in 1..(Len(pipe) - 1) : Tail(pipe)[i] = pipe[i + 1]
  BY <1>1, <1>2, TailIs
<1>4. 1 \in DOMAIN pipe /\ FrameIs(f)
  BY <1>2, <1>3
<1>5. /\ times \in Seq(Times) /\ Len(times) >= 1 /\ NewestOf(f) = times[Len(times)]
      /\ \A j \in 1..Len(times) : times[j] = NewestOf(f) - Len(times) + j
      /\ NewestOf(f) \in Times /\ NewestOf(f) <= now
      /\ f.kind \in {"history", "metrics"}
      /\ f.kind = "metrics" => Len(times) = 1
  BY <1>4, LastIs DEF FrameIs, Frames, NewestOf
<1> HIDE DEF f, times
<1>6. \A i \in DOMAIN pipe' : i + 1 \in DOMAIN pipe /\ pipe'[i] = pipe[i + 1]
  BY <1>1, <1>2, <1>3
<1>7. (\A i \in DOMAIN pipe : FrameIs(pipe[i]))'
  BY <1>1, <1>2, <1>6 DEF FrameIs, NewestOf
<1>8. Queued'
  BY <1>1, <1>7 DEF Queued, ChartsInv
<1>9. data' \in Seq(Times) /\ Len(data') <= MaxSamples
  <2> SUFFICES ASSUME NEW a, a = data \o times, NEW n, n = Newest(a, MaxSamples)
               PROVE  n \in Seq(Times) /\ Len(n) <= MaxSamples
    BY <1>1
  <2>1. a \in Seq(Times) /\ Len(a) \in Nat
    BY <1>2, <1>5, JoinedIs
  <2>2. MaxSamples \in Nat
    BY ChartsAssumption
  <2>3. n \in Seq(Times) /\ Len(n) = Lesser(MaxSamples, Len(a))
    BY <2>1, <2>2, NewestIs
  <2> QED BY <2>1, <2>2, <2>3 DEF Lesser
<1>10. row' \in SUBSET Times /\ row \subseteq row'
  BY <1>1, <1>2, <1>5
<1>11. Shift'
  <2>1. IsFiniteSet(row) /\ IsFiniteSet(row') /\ Cardinality(row) \in 0..MaxTime /\ Cardinality(row') \in 0..MaxTime
    BY <1>2, <1>10, RowIs
  <2>2. Cardinality(row) <= Cardinality(row')
    BY <1>10, <2>1, FS_Subset
  <2>3. row' # {} => Cardinality(row') >= 1
    BY <2>1, FS_EmptySet
  <2>4. offset \in Nat /\ offset' = offset /\ Cardinality(row) \in Nat /\ Cardinality(row') \in Nat
    BY <1>1, <2>1, ChartsAssumption DEF ChartsInv, ChartsTypeOK
  <2>5. row' # {} => offset < Cardinality(row')
    BY <2>2, <2>3, <2>4 DEF ChartsInv, Shift
  <2>6. row' = {} => offset = 0
    BY <1>10 DEF ChartsInv, Shift
  <2> QED BY <2>4, <2>5, <2>6 DEF Shift
<1>12. ASSUME ~coarse PROVE InOrder'
  <2>1. ASSUME NEW i \in DOMAIN pipe', NEW j \in DOMAIN pipe', i <= j
        PROVE  NewestOf(pipe'[i]) <= NewestOf(pipe'[j])
    <3>1. i + 1 \in DOMAIN pipe /\ j + 1 \in DOMAIN pipe /\ i + 1 <= j + 1
      BY <1>1, <1>3, <1>6, <2>1
    <3>2. NewestOf(pipe[i + 1]) <= NewestOf(pipe[j + 1])
      BY <1>12, <3>1 DEF ChartsInv, InOrder
    <3> QED BY <1>6, <3>2
  <2>2. ASSUME NEW i \in DOMAIN pipe' PROVE NewestOf(f) <= NewestOf(pipe'[i])
    BY <1>2, <1>3, <1>4, <1>6, <1>12 DEF ChartsInv, InOrder
  <2>3. /\ Times \in SUBSET Int /\ NewestOf(f) \in Int
        /\ \A i \in 1..Len(data) : data[i] <= NewestOf(f)
    <3>1. Times \in SUBSET Int /\ NewestOf(f) \in Int
      BY <1>5 DEF Times
    <3>2. ASSUME NEW i \in 1..Len(data) PROVE data[i] <= NewestOf(f)
      <4>1. /\ data # <<>> /\ data[i] \in Times /\ Len(data) \in 1..Len(data)
        BY <1>2
      <4>2. data[Len(data)] \in Times
        BY <1>2, <4>1
      <4>3. data[i] <= data[Len(data)] /\ data[Len(data)] <= NewestOf(f)
        <5>1. i \in DOMAIN data /\ 1 \in DOMAIN pipe /\ pipe[1] = f
          BY <1>2, <1>3, <1>4
        <5> QED BY <1>12, <4>1, <5>1 DEF ChartsInv, InOrder
      <4>4. data[i] \in Int /\ data[Len(data)] \in Int
        BY <3>1, <4>1, <4>2
      <4> QED BY <3>1, <4>3, <4>4
    <3> QED BY <3>1, <3>2
  <2> DEFINE t == NewestOf(f)
             n == Newest(data \o times, MaxSamples)
  <2>4. n # <<>> /\ n[Len(n)] = t /\ \A i \in 1..Len(n) : n[i] <= t
    <3>1. /\ t \in Int /\ times \in Seq(Times) /\ data \in Seq(Times) /\ Len(times) >= 1
          /\ \A j \in 1..Len(times) : times[j] = t - Len(times) + j
          /\ \A i \in 1..Len(data) : data[i] <= t
      BY <1>2, <1>5, <2>3
    <3> HIDE DEF t
    <3> QED BY <2>3, <3>1, Topped
  <2>5. ASSUME settled' PROVE Sorted(n)
    <3>1. CASE f.kind = "history"
      <4>1. /\ t \in Int /\ times \in Seq(Times) /\ data \in Seq(Times) /\ Len(times) >= MaxSamples
            /\ \A j \in 1..Len(times) : times[j] = t - Len(times) + j
        BY <1>1, <1>2, <1>5, <2>3, <2>5, <3>1
      <4> HIDE DEF t
      <4> QED BY <2>3, <4>1, Replaced
    <3>2. CASE f.kind = "metrics"
      <4>1. settled
        BY <1>1, <2>5, <3>2
      <4>2. data # <<>> /\ Sorted(data)
        BY <1>12, <4>1 DEF ChartsInv, InOrder, Sorted
      <4>3. Len(data) \in 1..Len(data)
        BY <1>2, <4>2
      <4>4. /\ t \in Times /\ times \in Seq(Times) /\ data \in Seq(Times) /\ Len(times) = 1
            /\ times[1] = t /\ data[Len(data)] <= t
        BY <1>2, <1>5, <2>3, <3>2, <4>3
      <4> HIDE DEF t
      <4> QED BY <2>3, <4>2, <4>4, AppendedInOrder
    <3> QED BY <1>5, <3>1, <3>2
  <2>6. data' = n
    BY <1>1
  <2> HIDE DEF n
  <2>7. DOMAIN data' = 1..Len(data')
    BY <1>9
  <2>8. /\ data' # <<>> /\ data'[Len(data')] <= now'
        /\ \A i \in DOMAIN data' : data'[i] <= data'[Len(data')]
        /\ \A i \in DOMAIN pipe' : data'[Len(data')] <= NewestOf(pipe'[i])
    BY <1>1, <1>5, <2>2, <2>4, <2>6, <2>7
  <2>9. settled' => \A i, j \in DOMAIN data' : i < j => data'[i] <= data'[j]
    BY <2>5, <2>6 DEF Sorted
  <2> HIDE DEF t
  <2> QED BY <2>1, <2>8, <2>9 DEF InOrder, NewestOf
<1>13. ASSUME coarse PROVE InOrder'
  BY <1>1, <1>13 DEF InOrder
<1>14. settled' \in BOOLEAN /\ sending' \in BOOLEAN /\ pipe' \in Seq(Frames)
  <2>1. settled' = IF f.kind = "history" THEN Len(times) >= MaxSamples ELSE settled
    BY <1>1
  <2> DEFINE full == Len(times) >= MaxSamples
  <2>2. full \in BOOLEAN
    BY SMT
  <2>3. settled' \in BOOLEAN
    BY <1>2, <2>1, <2>2, Zenon
  <2>4. sending' \in BOOLEAN /\ pipe' \in Seq(Frames)
    BY <1>1, <1>3 DEF ChartsInv, ChartsTypeOK
  <2> QED BY <2>3, <2>4
<1> QED BY <1>1, <1>8, <1>9, <1>10, <1>11, <1>12, <1>13, <1>14 DEF ChartsInv, ChartsTypeOK

LEMMA SampleStep ==
  ASSUME ChartsInv, Sample
  PROVE  ChartsInv'
<1>1. /\ now \in 0..MaxTime /\ now < MaxTime /\ now' = now + 1
      /\ UNCHANGED <<coarse, asks, sending, pipe, connects, data, row, window, offset, settled>>
  BY DEF Sample, ChartsInv, ChartsTypeOK
<1>2. now \in Nat /\ now' \in 0..MaxTime /\ now <= now' /\ now' \in Nat
  BY <1>1, ChartsAssumption
<1>3. ASSUME NEW i \in DOMAIN pipe PROVE FrameIs(pipe[i])'
  <2>1. FrameIs(pipe[i]) /\ pipe'[i] = pipe[i]
    BY <1>1 DEF ChartsInv, Queued
  <2> DEFINE f == pipe[i]
  <2> HIDE DEF f
  <2>2. FrameIs(f)' <=> FrameIs(pipe[i])'
    BY <1>1 DEF f
  <2>3. NewestOf(f) \in Int /\ NewestOf(f) <= now
    BY <2>1, LastIs DEF f, Times
  <2>4. NewestOf(pipe[i])' = NewestOf(pipe[i]) /\ NewestOf(pipe[i]) <= now'
    BY <1>2, <2>1, <2>3 DEF NewestOf, f
  <2> QED BY <2>1, <2>4 DEF FrameIs
<1>4. Queued'
  BY <1>1, <1>3 DEF ChartsInv, Queued
<1>5. InOrder'
  <2>1. ASSUME data # <<>>, data[Len(data)] <= now PROVE data[Len(data)] <= now'
    <3>1. data \in Seq(Times) /\ Len(data) \in 1..Len(data)
      BY <2>1 DEF ChartsInv, ChartsTypeOK
    <3>2. data[Len(data)] \in Times
      BY <3>1
    <3>3. data[Len(data)] \in Int
      BY <3>2 DEF Times
    <3> QED BY <1>1, <1>2, <2>1, <3>3
  <2> QED BY <1>1, <2>1 DEF ChartsInv, InOrder, NewestOf
<1> QED BY <1>1, <1>2, <1>4, <1>5 DEF ChartsInv, ChartsTypeOK, Shift

LEMMA PushStep ==
  ASSUME ChartsInv, PushNewest
  PROVE  ChartsInv'
<1> DEFINE t == IF coarse THEN now - (now % 2) ELSE now
           f == [kind |-> "metrics", times |-> <<t>>]
<1>1. /\ t > 0 /\ pipe' = Append(pipe, f)
      /\ UNCHANGED <<now, coarse, asks, sending, connects, data, row, window, offset, settled>>
  BY DEF PushNewest
<1>2. now \in 0..MaxTime /\ now \in Nat /\ MaxTime \in Nat
  BY ChartsAssumption DEF ChartsInv, ChartsTypeOK
<1>3. t \in Times /\ t <= now /\ (~coarse => t = now)
  <2>1. now % 2 \in 0..1
    BY <1>2
  <2> QED BY <1>1, <1>2, <2>1 DEF Times
<1> HIDE DEF t
<1>4. f \in Frames /\ f.kind = "metrics" /\ Len(f.times) = 1 /\ f.times[1] = t /\ NewestOf(f) = t
  BY <1>3 DEF Frames, NewestOf
<1>5. FrameIs(f)
  <2>1. t \in Int
    BY <1>3 DEF Times
  <2> QED BY <1>3, <1>4, <2>1 DEF FrameIs
<1> HIDE DEF f
<1>6. asks' \in Seq(Nat) /\ sending' \in BOOLEAN /\ (~coarse => NewestOf(f) = now)
  BY <1>1, <1>3, <1>4 DEF ChartsInv, ChartsTypeOK
<1> QED BY <1>1, <1>5, <1>6, SentStep

LEMMA ReconnectStep ==
  ASSUME ChartsInv, Reconnect
  PROVE  ChartsInv'
<1>1. /\ connects \in 0..MaxConnects /\ connects < MaxConnects /\ connects' = connects + 1
      /\ asks' = <<MaxSamples, Wanted>> /\ sending' = FALSE /\ pipe' = <<>>
      /\ UNCHANGED <<now, coarse, data, row, window, offset, settled>>
  BY DEF Reconnect, ChartsInv, ChartsTypeOK
<1>2. MaxSamples \in Nat /\ Wanted \in Nat /\ MaxConnects \in Nat
  BY ChartsAssumption
<1>3. asks' \in Seq(Nat) /\ connects' \in 0..MaxConnects
  BY <1>1, <1>2
<1>4. pipe' \in Seq(Frames) /\ DOMAIN pipe' = {}
  BY <1>1
<1> QED BY <1>1, <1>3, <1>4 DEF ChartsInv, ChartsTypeOK, Queued, Shift, InOrder

\* The offset alone changes, and stays below the number of samples.
LEMMA OffsetStep ==
  ASSUME ChartsInv, Shift',
         UNCHANGED <<now, coarse, asks, sending, pipe, connects, data, row, window, settled>>, offset' \in Nat
  PROVE  ChartsInv'
<1>1. IsFiniteSet(row) /\ Cardinality(row) \in 0..MaxTime /\ row' = row
  BY RowIs DEF ChartsInv, ChartsTypeOK
<1>2. MaxTime \in Nat
  BY ChartsAssumption
<1>3. offset' \in 0..MaxTime
  <2>1. offset' = 0 \/ offset' < Cardinality(row)
    BY <1>1 DEF Shift
  <2> QED BY <1>1, <1>2, <2>1
<1> QED BY <1>3 DEF ChartsInv, ChartsTypeOK, Queued, InOrder, FrameIs, NewestOf

LEMMA WheelMoves ==
  ASSUME ChartsInv, NEW d \in {-1, 1}, Wheel(d)
  PROVE  ChartsInv'
<1>1. /\ offset' = Scrolled(d)
      /\ UNCHANGED <<now, coarse, asks, sending, pipe, connects, data, row, window, settled>>
  BY DEF Wheel
<1>2. /\ IsFiniteSet(row) /\ Cardinality(row) \in Nat /\ (row # {} => Cardinality(row) >= 1)
      /\ (row = {} => Cardinality(row) = 0)
  <2>1. IsFiniteSet(row) /\ Cardinality(row) \in 0..MaxTime
    BY RowIs DEF ChartsInv, ChartsTypeOK
  <2> QED BY <2>1, FS_EmptySet, ChartsAssumption
<1>3. window \in Nat \ {0} /\ d * WheelStep \in Int /\ offset \in Int
  <2>1. WheelStep \in Nat
    BY ChartsAssumption
  <2>2. window \in Nat \ {0} /\ offset \in Int
    BY ChartsAssumption DEF ChartsInv, ChartsTypeOK
  <2>3. CASE d = -1
    BY <2>1, <2>2, <2>3
  <2>4. CASE d = 1
    BY <2>1, <2>2, <2>4
  <2> QED BY <2>3, <2>4
<1> DEFINE e == d * WheelStep
<1> HIDE DEF e
<1>4. offset' = Greater(0, Lesser(offset + e, Greater(0, Cardinality(row) - window)))
  BY <1>1 DEF Scrolled, e
<1>5. e \in Int
  BY <1>3 DEF e
<1>6. offset' \in Nat /\ (row = {} => offset' = 0) /\ (row # {} => offset' < Cardinality(row))
  BY <1>2, <1>3, <1>4, <1>5 DEF Greater, Lesser
<1>7. Shift'
  BY <1>1, <1>6 DEF Shift
<1> QED BY <1>1, <1>6, <1>7, OffsetStep

LEMMA LiveStep ==
  ASSUME ChartsInv, Live
  PROVE  ChartsInv'
<1>1. /\ offset' = 0
      /\ UNCHANGED <<now, coarse, asks, sending, pipe, connects, data, row, window, settled>>
  BY DEF Live
<1>2. Shift'
  <2>1. IsFiniteSet(row) /\ Cardinality(row) \in 0..MaxTime
    BY RowIs DEF ChartsInv, ChartsTypeOK
  <2>2. row # {} => Cardinality(row) >= 1
    BY <2>1, FS_EmptySet, ChartsAssumption
  <2> QED BY <1>1, <2>1, <2>2 DEF Shift
<1> QED BY <1>1, <1>2, OffsetStep

LEMMA SetWindowStep ==
  ASSUME ChartsInv, NEW w \in Windows, SetWindow(w)
  PROVE  ChartsInv'
BY DEF SetWindow, ChartsInv, ChartsTypeOK, Queued, Shift, InOrder, FrameIs, NewestOf

LEMMA ChartsStart == ASSUME ChartsInit PROVE ChartsInv
<1>1. MaxTime \in Nat /\ MaxConnects \in Nat /\ MaxSamples \in Nat
  BY ChartsAssumption
<1>2. ChartsTypeOK
  <2>1. <<>> \in Seq(Nat) /\ <<>> \in Seq(Frames) /\ <<>> \in Seq(Times) /\ Len(<<>>) = 0
    OBVIOUS
  <2>2. 0 \in 0..MaxTime /\ 0 \in 0..MaxConnects /\ 0 <= MaxSamples
    BY <1>1
  <2> QED BY <2>1, <2>2 DEF ChartsInit, ChartsTypeOK
<1>3. Queued
  BY DEF ChartsInit, Queued
<1> QED BY <1>2, <1>3 DEF ChartsInit, ChartsInv, Shift, InOrder

LEMMA ChartsStep ==
  ASSUME ChartsInv, [ChartsNext]_chartsVars
  PROVE  ChartsInv'
<1>1. CASE Sample
  BY <1>1, SampleStep
<1>2. CASE ServeBatch
  BY <1>2, ServeStep
<1>3. CASE PushNewest
  BY <1>3, PushStep
<1>4. CASE Reconnect
  BY <1>4, ReconnectStep
<1>5. CASE Deliver
  BY <1>5, DeliverStep
<1>6. CASE Live
  BY <1>6, LiveStep
<1>7. ASSUME NEW d \in {-1, 1}, Wheel(d) PROVE ChartsInv'
  BY <1>7, WheelMoves
<1>8. ASSUME NEW w \in Windows, SetWindow(w) PROVE ChartsInv'
  BY <1>8, SetWindowStep
<1>9. CASE UNCHANGED chartsVars
  BY <1>9 DEF chartsVars, ChartsInv, ChartsTypeOK, Queued, Shift, InOrder, FrameIs, NewestOf
<1> QED BY <1>1, <1>2, <1>3, <1>4, <1>5, <1>6, <1>7, <1>8, <1>9 DEF ChartsNext

-----------------------------------------------------------------------------
(* What follows.                                                           *)

\* The charts' variables hold what they should.
THEOREM ChartsTyped == ChartsSpec => []ChartsTypeOK
<1>1. ChartsInv => ChartsTypeOK
  BY DEF ChartsInv
<1> QED BY <1>1, ChartsStart, ChartsStep, PTL DEF ChartsSpec

\* The last sample of the chart is its newest, and its line is in order from an
\* answer as long as the chart until a shorter one arrives: for every size of chart,
\* batch and ring, wherever the ring has wrapped, however many frames are under way
\* and however often the page reconnects.
THEOREM LineInOrder == ChartsSpec => []ChartInOrder
<1>1. ChartsInv => ChartInOrder
  BY DEF ChartsInv, InOrder, ChartInOrder
<1> QED BY <1>1, ChartsStart, ChartsStep, PTL DEF ChartsSpec

LEMMA RankIsVisible ==
  ASSUME ChartsTypeOK, NEW t \in row, Cardinality(Above(row, t)) = offset
  PROVE  t \in Visible
<1>1. window \in Nat \ {0} /\ offset \in Nat
  BY ChartsAssumption DEF ChartsTypeOK
<1>2. offset \in offset..(offset + window - 1)
  BY <1>1
<1> QED BY <1>2 DEF Visible, Above

\* The window of the timeline lies inside its data, and shows the newest sample
\* until it has been scrolled.
THEOREM WindowInData == ChartsSpec => []WindowShowsData
<1>1. ASSUME ChartsInv, row # {} PROVE Visible # {} /\ (offset = 0 => \E t \in Visible : \A u \in row : u <= t)
  <2>1. ChartsTypeOK /\ offset < Cardinality(row)
    BY <1>1 DEF ChartsInv, Shift
  <2>2. IsFiniteSet(row) /\ row \in SUBSET Int /\ Cardinality(row) \in Nat
    BY <2>1, RowIs, ChartsAssumption DEF ChartsTypeOK
  <2>3. offset \in 0..(Cardinality(row) - 1)
    BY <2>1, <2>2, ChartsAssumption DEF ChartsTypeOK
  <2>4. PICK t \in row : Cardinality(Above(row, t)) = offset
    BY <2>2, <2>3, EveryRank
  <2>5. t \in Visible
    BY <2>1, <2>4, RankIsVisible
  <2>6. ASSUME offset = 0, NEW u \in row PROVE u <= t
    <3>1. IsFiniteSet(Above(row, t))
      BY <2>2, AboveCount
    <3>2. Above(row, t) = {}
      BY <2>4, <2>6, <3>1, FS_EmptySet
    <3>3. ~(u > t) /\ u \in Int /\ t \in Int
      BY <2>2, <3>2 DEF Above
    <3> QED BY <3>3
  <2> QED BY <2>5, <2>6
<1>2. ChartsInv => WindowShowsData
  BY <1>1 DEF WindowShowsData
<1> QED BY <1>2, ChartsStart, ChartsStep, PTL DEF ChartsSpec
=============================================================================
