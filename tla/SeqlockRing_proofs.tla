------------------------- MODULE SeqlockRing_proofs -------------------------
(***************************************************************************)
(* The sequence lock, for every number of readers, words, slots, samples   *)
(* and entries: the type invariant, the inductive invariant LockInv, the   *)
(* absence of torn reads and the refinement of AtomicRing.  The last three *)
(* assume BeginFence: the writer's plain stores stay behind the store that *)
(* makes seq odd.  Without it, reads shorter than the ring are proved      *)
(* whole, or blank before the first sample.                                *)
(***************************************************************************)
EXTENDS SeqlockRing, TLAPS

-----------------------------------------------------------------------------
(* Arithmetic of slots.                                                    *)

\* The writer's next head: one up, or back to slot 0.
LEMMA NextHead ==
  ASSUME NEW h \in Slots
  PROVE  /\ (h + 1) % Capacity \in Slots
         /\ (h + 1) % Capacity = IF h + 1 = Capacity THEN 0 ELSE h + 1
BY SizesAssumption, SMT DEF Slots

\* The slot a reader copies entry i of n from: counted back from head, or
\* from the end of the array when head has wrapped to 0.
LEMMA SlotOfEntry ==
  ASSUME NEW h \in Slots, NEW n \in 1..MaxCount, NEW i \in 0..(n - 1),
         n <= Capacity, h > 0 => n <= h
  PROVE  /\ SlotOf(h, n, i) \in Slots
         /\ SlotOf(h, n, i) = IF h = 0 THEN Capacity - n + i ELSE h - n + i
BY SizesAssumption, SMT DEF Slots, SlotOf

-----------------------------------------------------------------------------

\* TypeOK is an invariant: every field of the mapping, every local of the
\* writer and of the readers keeps its type, head and rhead stay below the
\* capacity and a reader never asks its buffer for more than MaxCount entries.
THEOREM TypeCorrect == Spec => []TypeOK
<1>1. Init => TypeOK
  BY SizesAssumption
  DEF Init, TypeOK, Slots, Entries, Word, Ops, RPCs, BlankCell, BlankBuf
<1>2. TypeOK /\ [Next]_vars => TypeOK'
  <2> SUFFICES ASSUME TypeOK, [Next]_vars PROVE TypeOK'
    OBVIOUS
  <2> USE SizesAssumption DEF TypeOK
  <2>1. CASE WriteStart
    BY <2>1 DEF WriteStart, shared, reader, Word
  <2>2. CASE StoreBegin
    BY <2>2 DEF StoreBegin, reader
  <2>3. CASE StoreLast
    BY <2>3 DEF StoreLast, reader
  <2>4. CASE StoreFirst
    BY <2>4 DEF StoreFirst, reader
  <2>5. CASE StoreHead
    BY <2>5, NextHead DEF StoreHead, reader
  <2>6. CASE StoreEnd
    BY <2>6 DEF StoreEnd, reader
  <2>7. CASE \E w \in Word : StoreWord(w)
    BY <2>7 DEF StoreWord, reader
  <2>8. CASE Crash
    BY <2>8 DEF Crash, shared, reader
  <2>9. CASE Tick
    BY <2>9 DEF Tick, shared, writer, reader
  <2>10. ASSUME NEW r \in Readers, Call(r) PROVE TypeOK'
    <3>1. CASE GetLatest(r)
      BY <3>1 DEF GetLatest, shared, writer, RPCs, Ops
    <3>2. CASE \E n \in 1..MaxCount : GetHistory(r, n)
      BY <3>2 DEF GetHistory, shared, writer, RPCs, Ops
    <3> QED BY <2>10, <3>1, <3>2 DEF Call
  <2>11. ASSUME NEW r \in Readers, ReadBegin(r) \/ LoadHead(r) \/ ReadRetry(r)
         PROVE  TypeOK'
    <3>1. CASE ReadBegin(r)
      BY <3>1 DEF ReadBegin, shared, writer, RPCs
    <3>2. CASE LoadHead(r)
      BY <3>2 DEF LoadHead, shared, writer, RPCs
    <3>3. CASE ReadRetry(r)
      BY <3>3 DEF ReadRetry, shared, writer, RPCs
    <3> QED BY <2>11, <3>1, <3>2, <3>3
  <2>12. ASSUME NEW r \in Readers, LoadFirst(r) PROVE TypeOK'
    <3>1. CASE UNCHANGED <<rcount, rtodo>>
      BY <2>12, <3>1 DEF LoadFirst, shared, writer, RPCs
    <3>2. CASE ~UNCHANGED <<rcount, rtodo>>
      <4> DEFINE filled == Filled(rhead[r], firstTs)
                 count  == AtMost(rcount[r], filled)
      <4>1. filled # 0 /\ filled \in Nat
        BY <2>12, <3>2 DEF LoadFirst, Filled, Slots
      <4>2. count \in 1..MaxCount
        BY <4>1 DEF AtMost
      <4>3. (0..(count - 1)) \X Word \in SUBSET (Entries \X Word)
        BY <4>2 DEF Entries
      <4>4. rcount' \in [Readers -> 1..MaxCount]
        BY <2>12, <3>2, <4>2 DEF LoadFirst
      <4>5. rtodo' \in [Readers -> SUBSET (Entries \X Word)]
        <5>1. rtodo \in [Readers -> SUBSET (Entries \X Word)]
          OBVIOUS
        <5>2. rtodo' = [rtodo EXCEPT ![r] = (0..(count - 1)) \X Word]
          BY <2>12, <3>2 DEF LoadFirst
        <5> DEFINE todo == (0..(count - 1)) \X Word
        <5>3. todo \in SUBSET (Entries \X Word)
          BY <4>3
        <5>4. rtodo' = [rtodo EXCEPT ![r] = todo]
          BY <5>2
        <5> HIDE DEF count, todo, TypeOK
        <5> QED BY <5>1, <5>3, <5>4
      <4> QED
        BY <2>12, <4>4, <4>5 DEF LoadFirst, shared, writer, RPCs
    <3> QED BY <3>1, <3>2
  <2>13. ASSUME NEW r \in Readers, NEW i \in Entries, NEW w \in Word,
                CopyWord(r, i, w)
         PROVE  TypeOK'
    <3>1. SlotOf(rhead[r], rcount[r], i) \in Slots
      BY DEF SlotOf, Slots, Entries
    <3>2. rbuf' \in [Readers -> [Entries -> [Word -> Nat]]]
      BY <2>13, <3>1 DEF CopyWord
    <3> QED BY <2>13, <3>2 DEF CopyWord, shared, writer
  <2>14. ASSUME NEW r \in Readers, Return(r) PROVE TypeOK'
    <3>1. BlankBuf \in [Entries -> [Word -> Nat]]
      BY DEF BlankBuf, BlankCell
    <3> QED
      BY <2>14, <3>1 DEF Return, shared, writer, RPCs, Ops, Slots
  <2>15. CASE UNCHANGED vars
    BY <2>15 DEF vars, shared, writer, reader
  <2> HIDE SizesAssumption DEF TypeOK
  <2> QED
    BY <2>1, <2>2, <2>3, <2>4, <2>5, <2>6, <2>7, <2>8, <2>9, <2>10, <2>11,
       <2>12, <2>13, <2>14, <2>15
    DEF Next, WriterStep, ReaderStep
<1>3. QED BY <1>1, <1>2, PTL DEF Spec

-----------------------------------------------------------------------------
(* The lock.                                                               *)

\* Opening, filling and closing a section keep the writer's half of LockInv.
LEMMA WriterKeepsWriterInv ==
  ASSUME BeginFence, TypeOK, WriterInv, WriterStep
  PROVE  WriterInv'
<1> USE SizesAssumption DEF TypeOK, WriterInv, InSection, Stored, Torn
<1>1. CASE WriteStart
  BY <1>1 DEF WriteStart, shared, RingHolds, MetaFits
<1>2. CASE StoreBegin
  BY <1>2 DEF StoreBegin, RingHolds, MetaFits
<1>3. CASE StoreLast
  BY <1>3 DEF StoreLast, MayStore, RingHolds, MetaFits
<1>4. CASE StoreFirst
  BY <1>4 DEF StoreFirst, MayStore, RingHolds, MetaFits
<1>5. CASE StoreHead
  <2>1. InSection /\ Stored = committed /\ Torn = {head} /\ wwords = {}
    BY <1>5 DEF StoreHead
  <2>2. Stored' = committed + 1 /\ Torn' = {} /\ InSection'
    BY <1>5 DEF StoreHead
  <2>3. head' = IF head + 1 = Capacity THEN 0 ELSE head + 1
    BY <1>5, NextHead DEF StoreHead
  <2>4. MetaFits(committed + 1, head')
    BY <2>1, <2>3 DEF MetaFits, Slots
  <2>5. ASSUME NEW s \in Slots, SampleAt(committed + 1, head', s) > 0,
               NEW w \in Word
        PROVE  cell[s][w] = SampleAt(committed + 1, head', s)
    <3>1. CASE s = head
      <4>1. SampleAt(committed + 1, head', s) = committed + 1
        BY <3>1, <2>3 DEF SampleAt, Slots
      <4>2. cell[head][w] = committed + 1
        BY <2>1
      <4> QED BY <3>1, <4>1, <4>2
    <3>2. CASE s # head
      <4>1. SampleAt(committed + 1, head', s) = SampleAt(committed, head, s)
        BY <3>2, <2>3 DEF SampleAt, Slots
      <4>2. s \in Slots \ Torn
        BY <3>2, <2>1
      <4> QED BY <4>1, <4>2, <2>1, <2>5 DEF RingHolds
    <3> QED BY <3>1, <3>2
  <2>6. RingHolds(committed + 1, head, {})'
    BY <2>5, <1>5 DEF RingHolds, StoreHead
  <2> QED
    BY <1>5, <2>1, <2>2, <2>4, <2>6 DEF StoreHead
<1>6. CASE StoreEnd
  BY <1>6 DEF StoreEnd, RingHolds, MetaFits
<1>7. ASSUME NEW w \in Word, StoreWord(w) PROVE WriterInv'
  <2>1. InSection /\ "head" \in wtodo
    BY <1>7 DEF StoreWord, MayStore
  <2>2. cell' = [cell EXCEPT ![head][w] = committed + 1]
    BY <1>7 DEF StoreWord
  <2>3. RingHolds(Stored, head, Torn)'
    BY <1>7, <2>1, <2>2 DEF StoreWord, RingHolds, SampleAt
  <2>4. \A x \in Word \ wwords' : cell'[head][x] = committed + 1
    BY <1>7, <2>1, <2>2 DEF StoreWord
  <2> QED
    BY <1>7, <2>1, <2>3, <2>4 DEF StoreWord, MayStore, MetaFits
<1> QED
  BY <1>1, <1>2, <1>3, <1>4, <1>5, <1>6, <1>7 DEF WriterStep

\* A step of the writer invalidates every snapshot it disturbs: it either
\* moves seq, or happens while seq is odd, or leaves head, committed and the
\* time stamps alone.
LEMMA WriterKeepsSnapshots ==
  ASSUME TypeOK, WriterInv, WriterStep, UNCHANGED reader,
         NEW r \in Readers, SnapshotInv(r), ResultInv(r)
  PROVE  SnapshotInv(r)' /\ ResultInv(r)'
<1> USE DEF TypeOK, reader
<1>1. \/ seq' = seq + 1
      \/ /\ seq' = seq /\ committed' = committed
         /\ head' = head \/ seq = 2 * committed + 1
  BY DEF WriterStep, WriteStart, StoreBegin, StoreLast, StoreFirst, StoreHead,
         StoreEnd, StoreWord, shared, WriterInv, InSection
<1>2. ResultInv(r)'
  BY DEF ResultInv
<1>3. CASE seq' = seq + 1
  <2>1. rseq[r] <= seq => rseq[r] <= seq' /\ rseq[r] # seq'
    BY <1>3
  <2> QED BY <1>2, <2>1 DEF SnapshotInv
<1>4. CASE seq' = seq /\ committed' = committed
           /\ (head' = head \/ seq = 2 * committed + 1)
  <2>1. head' # head => (rseq[r] % 2 = 0 => rseq[r] # seq)
    <3>1. committed \in Nat /\ seq \in Nat
      OBVIOUS
    <3>2. (2 * committed + 1) % 2 # 0
      BY <3>1
    <3> QED BY <1>4, <3>2
  <2>2. UNCHANGED <<rpc, rop, rseq, rhead, rcount, rtodo, rbuf>>
    OBVIOUS
  <2>3. CASE head' = head
    BY <1>2, <1>4, <2>2, <2>3 DEF SnapshotInv
  <2>4. CASE head' # head
    BY <1>2, <1>4, <2>1, <2>2, <2>4 DEF SnapshotInv
  <2> QED BY <2>3, <2>4
<1> QED BY <1>1, <1>3, <1>4

\* While seq is even the ring holds exactly the committed samples.
LEMMA EvenMeansWhole ==
  ASSUME TypeOK, WriterInv, seq % 2 = 0
  PROVE  /\ MetaFits(committed, head)
         /\ RingHolds(committed, head, {})
         /\ committed = 0 => firstTs = 0
<1> USE DEF TypeOK
<1>1. ~InSection
  BY DEF WriterInv
<1>2. Stored = committed /\ Torn = {}
  BY <1>1 DEF WriterInv, InSection, Stored, Torn
<1>3. committed = 0 => firstTs = 0
  BY <1>1 DEF WriterInv, InSection
<1> QED BY <1>2, <1>3 DEF WriterInv

\* A step of reader r keeps what r knows of its snapshot.
LEMMA ReaderKeepsSnapshot ==
  ASSUME TypeOK, WriterInv, NEW r \in Readers, SnapshotInv(r), ResultInv(r),
         Call(r) \/ ReaderStep(r) \/ Return(r)
  PROVE  SnapshotInv(r)' /\ ResultInv(r)'
<1> USE SizesAssumption DEF TypeOK
<1>1. CASE Call(r)
  <2>1. rpc'[r] \in {"begin", "stale"}
    BY <1>1 DEF Call, GetLatest, GetHistory
  <2> QED BY <2>1 DEF SnapshotInv, ResultInv
<1>2. CASE Return(r)
  <2>1. rpc'[r] = "idle"
    BY <1>2 DEF Return
  <2> QED BY <2>1 DEF SnapshotInv, ResultInv
<1>3. CASE ReadBegin(r)
  BY <1>3 DEF ReadBegin, SnapshotInv, ResultInv, shared
<1>4. CASE LoadHead(r)
  BY <1>4 DEF LoadHead, SnapshotInv, ResultInv, shared
<1>5. CASE LoadFirst(r)
  <2> DEFINE filled == Filled(rhead[r], firstTs)
             count  == AtMost(rcount[r], filled)
  <2>1. CASE filled = 0
    <3>1. rpc'[r] = "nodata"
      BY <1>5, <2>1 DEF LoadFirst
    <3> QED BY <3>1 DEF SnapshotInv, ResultInv
  <2>2. CASE filled # 0
    <3>1. /\ rpc'[r] = "copy" /\ rcount'[r] = count
          /\ rtodo'[r] = (0..(count - 1)) \X Word
          /\ UNCHANGED <<seq, head, committed, rseq, rhead, rbuf>>
      BY <1>5, <2>2 DEF LoadFirst, shared, writer
    <3>2. /\ count \in 1..Capacity /\ count <= rcount[r]
          /\ rhead[r] > 0 => count <= rhead[r]
      BY <2>2 DEF Filled, AtMost, Slots
    <3>3. rseq[r] = seq => count <= committed
      <4> SUFFICES ASSUME rseq[r] = seq PROVE count <= committed
        OBVIOUS
      <4>1. seq % 2 = 0 /\ rhead[r] = head
        BY <1>5 DEF SnapshotInv, LoadFirst
      <4>2. MetaFits(committed, head) /\ (committed = 0 => firstTs = 0)
        BY <4>1, EvenMeansWhole
      <4>3. CASE head = 0
        <5>1. firstTs # 0
          BY <4>1, <4>3, <2>2 DEF Filled
        <5>2. committed >= Capacity
          BY <4>2, <4>3, <5>1 DEF MetaFits
        <5> QED BY <5>2, <3>2
      <4>4. CASE head # 0
        BY <4>1, <4>2, <4>4, <3>2 DEF MetaFits, Slots
      <4> QED BY <4>3, <4>4
    <3>4. rseq[r] % 2 = 0 /\ rseq[r] <= seq
      BY <1>5 DEF LoadFirst, SnapshotInv
    <3>5. rseq[r] = seq => rhead[r] = head
      BY <1>5 DEF LoadFirst, SnapshotInv
    <3>6. ResultInv(r)'
      BY <3>1 DEF ResultInv
    <3> HIDE DEF count
    <3>7. SnapshotInv(r)'
      BY <3>1, <3>2, <3>3, <3>4, <3>5 DEF SnapshotInv
    <3> QED BY <3>6, <3>7
  <2> QED BY <2>1, <2>2
<1>6. ASSUME NEW i \in Entries, NEW w \in Word, CopyWord(r, i, w)
      PROVE  SnapshotInv(r)' /\ ResultInv(r)'
  <2> DEFINE n == rcount[r]
             slot == SlotOf(rhead[r], n, i)
  <2>1. /\ rpc[r] = "copy" /\ rpc'[r] = "copy"
        /\ UNCHANGED <<seq, head, committed, rseq, rhead, rcount>>
        /\ rtodo'[r] = rtodo[r] \ {<<i, w>>}
        /\ <<i, w>> \in rtodo[r]
        /\ rbuf' = [rbuf EXCEPT ![r][i][w] = cell[slot][w]]
    BY <1>6 DEF CopyWord, shared, writer
  <2>2. n \in 1..MaxCount /\ i \in 0..(n - 1) /\ n <= Capacity
        /\ (rhead[r] > 0 => n <= rhead[r]) /\ rhead[r] \in Slots
    BY <2>1 DEF SnapshotInv
  <2>3. /\ slot \in Slots
        /\ slot = IF rhead[r] = 0 THEN Capacity - n + i ELSE rhead[r] - n + i
    BY <2>2, SlotOfEntry
  <2>4. rseq[r] = seq => cell[slot][w] = committed - n + 1 + i
    <3> SUFFICES ASSUME rseq[r] = seq PROVE cell[slot][w] = committed - n + 1 + i
      OBVIOUS
    <3>1. seq % 2 = 0 /\ rhead[r] = head /\ n <= committed
      BY <2>1 DEF SnapshotInv
    <3>2. RingHolds(committed, head, {})
      BY <3>1, EvenMeansWhole
    <3>3. SampleAt(committed, head, slot) = committed - n + 1 + i
      <4>1. n \in Nat /\ i \in Nat /\ committed \in Nat /\ head \in Nat
            /\ Capacity \in Nat /\ i < n
        BY <2>2 DEF Slots
      <4>2. CASE head = 0
        BY <4>1, <4>2, <3>1, <2>2, <2>3 DEF SampleAt
      <4>3. CASE head # 0
        BY <4>1, <4>3, <3>1, <2>2, <2>3 DEF SampleAt
      <4> QED BY <4>2, <4>3
    <3>4. SampleAt(committed, head, slot) > 0
      BY <3>1, <3>3, <2>2
    <3> QED BY <3>2, <3>3, <3>4, <2>3 DEF RingHolds
  <2>5. /\ rbuf'[r][i][w] = cell[slot][w]
        /\ \A j \in Entries, x \in Word :
             <<j, x>> # <<i, w>> => rbuf'[r][j][x] = rbuf[r][j][x]
    BY <2>1
  <2> HIDE DEF slot
  <2>6. SnapshotInv(r)'
    <3>1. ASSUME rseq[r] = seq, NEW j \in 0..(n - 1), NEW x \in Word,
                 <<j, x>> \notin rtodo'[r]
          PROVE  rbuf'[r][j][x] = committed - n + 1 + j
      <4>1. j \in Entries
        BY <2>2 DEF Entries
      <4>2. CASE <<j, x>> = <<i, w>>
        BY <4>2, <2>4, <2>5, <3>1
      <4>3. CASE <<j, x>> # <<i, w>>
        BY <4>1, <4>3, <2>1, <2>5, <3>1 DEF SnapshotInv
      <4> QED BY <4>2, <4>3
    <3> QED BY <2>1, <2>2, <3>1 DEF SnapshotInv
  <2> QED BY <2>1, <2>6 DEF ResultInv
<1>7. CASE ReadRetry(r)
  <2>1. CASE seq = rseq[r]
    <3>1. rpc'[r] = "ok" /\ UNCHANGED <<rcount, rbuf>>
      BY <1>7, <2>1 DEF ReadRetry
    <3>2. \A i \in 0..(rcount[r] - 1), w \in Word :
             rbuf[r][i][w] = committed - rcount[r] + 1 + i
      BY <1>7, <2>1 DEF ReadRetry, SnapshotInv
    <3>3. 0 \in 0..(rcount[r] - 1) /\ 1 \in Word
      BY DEF Word
    <3>4. rbuf[r][0][1] = committed - rcount[r] + 1
      BY <3>2, <3>3
    <3> QED BY <3>1, <3>2, <3>4 DEF SnapshotInv, ResultInv
  <2>2. CASE seq # rseq[r]
    <3>1. rpc'[r] = "begin"
      BY <1>7, <2>2 DEF ReadRetry
    <3> QED BY <3>1 DEF SnapshotInv, ResultInv
  <2> QED BY <2>1, <2>2
<1> QED
  BY <1>1, <1>2, <1>3, <1>4, <1>5, <1>6, <1>7 DEF ReaderStep

\* LockInv is inductive.
LEMMA LockInvInductive ==
  ASSUME BeginFence, TypeOK, LockInv, [Next]_vars
  PROVE  LockInv'
<1> USE DEF LockInv
<1>1. CASE WriterStep
  <2>1. UNCHANGED reader
    BY <1>1 DEF WriterStep, WriteStart, StoreBegin, StoreLast, StoreFirst,
                StoreHead, StoreEnd, StoreWord
  <2> QED BY <1>1, <2>1, WriterKeepsWriterInv, WriterKeepsSnapshots
<1>2. ASSUME NEW r \in Readers, Call(r) \/ ReaderStep(r) \/ Return(r)
      PROVE  LockInv'
  <2>1. UNCHANGED <<shared, writer>>
    BY <1>2 DEF Call, ReaderStep, Return, GetLatest, GetHistory, ReadBegin,
                LoadHead, LoadFirst, ReadRetry, CopyWord
  <2>2. WriterInv'
    BY <2>1 DEF WriterInv, shared, writer, InSection, Stored, Torn, RingHolds
  <2>3. SnapshotInv(r)' /\ ResultInv(r)'
    BY <1>2, ReaderKeepsSnapshot
  <2>4. ASSUME NEW q \in Readers, q # r
        PROVE  SnapshotInv(q)' /\ ResultInv(q)'
    <3>1. /\ rpc'[q] = rpc[q] /\ rseq'[q] = rseq[q] /\ rhead'[q] = rhead[q]
          /\ rcount'[q] = rcount[q] /\ rtodo'[q] = rtodo[q]
          /\ rbuf'[q] = rbuf[q]
      BY <1>2, <2>4 DEF Call, ReaderStep, Return, GetLatest, GetHistory,
                        ReadBegin, LoadHead, LoadFirst, ReadRetry, CopyWord,
                        TypeOK
    <3>2. SnapshotInv(q) /\ ResultInv(q)
      OBVIOUS
    <3> QED BY <3>1, <3>2, <2>1 DEF SnapshotInv, ResultInv, shared, writer
  <2> QED BY <2>2, <2>3, <2>4
<1>3. CASE Crash \/ Tick \/ UNCHANGED vars
  <2>1. UNCHANGED <<shared, wpc, wtodo, wwords, committed, reader>>
    BY <1>3 DEF Crash, Tick, vars, writer
  <2>2. WriterInv'
    BY <2>1 DEF WriterInv, shared, InSection, Stored, Torn, RingHolds
  <2>3. ASSUME NEW q \in Readers PROVE SnapshotInv(q)' /\ ResultInv(q)'
    <3>1. SnapshotInv(q) /\ ResultInv(q)
      OBVIOUS
    <3> QED BY <2>1, <3>1 DEF SnapshotInv, ResultInv, shared, reader
  <2> QED BY <2>2, <2>3
<1> QED BY <1>1, <1>2, <1>3 DEF Next

\* The lock protects what it is meant to: at every point of every
\* interleaving, an even seq that has not moved since a reader loaded it
\* vouches for head, for the slots and for the words copied so far.
THEOREM LockInvariant == ASSUME BeginFence PROVE Spec => []LockInv
<1>1. Init => LockInv
  <2> SUFFICES ASSUME Init PROVE LockInv
    OBVIOUS
  <2>1. WriterInv
    BY SizesAssumption
    DEF Init, WriterInv, InSection, Stored, Torn, MetaFits, RingHolds, SampleAt,
        Slots
  <2>2. \A r \in Readers : SnapshotInv(r) /\ ResultInv(r)
    BY DEF Init, SnapshotInv, ResultInv
  <2> QED BY <2>1, <2>2 DEF LockInv
<1>2. TypeOK /\ LockInv /\ [Next]_vars => LockInv'
  BY LockInvInductive
<1>3. QED BY <1>1, <1>2, TypeCorrect, PTL DEF Spec

\* No successful read of ttr_reader_get_latest or ttr_reader_get_history
\* mixes words of two samples or skips an entry.
THEOREM NoTornReads == ASSUME BeginFence PROVE Spec => []NoTornRead
<1>1. LockInv => NoTornRead
  BY DEF LockInv, ResultInv, NoTornRead
<1>2. QED BY <1>1, LockInvariant, PTL

-----------------------------------------------------------------------------
(* The refinement of AtomicRing.                                           *)

\* The answers of the other readers are not touched by a step of r.
LEMMA OthersKeepTheirAnswer ==
  ASSUME TypeOK, NEW r \in Readers, Call(r) \/ ReaderStep(r) \/ Return(r),
         NEW q \in Readers, q # r
  PROVE  AnswerOf(q)' = AnswerOf(q)
<1>1. rpc'[q] = rpc[q] /\ rcount'[q] = rcount[q] /\ rbuf'[q] = rbuf[q]
  BY DEF Call, ReaderStep, Return, GetLatest, GetHistory, ReadBegin, LoadHead,
         LoadFirst, ReadRetry, CopyWord, TypeOK
<1> QED BY <1>1 DEF AnswerOf

\* A step of r that leaves its own answer as it is is a stutter of AtomicRing.
LEMMA SameAnswerStutters ==
  ASSUME TypeOK, NEW r \in Readers, Call(r) \/ ReaderStep(r) \/ Return(r),
         AnswerOf(r)' = AnswerOf(r)
  PROVE  UNCHANGED Ring!vars
<1>1. \A q \in Readers : AnswerOf(q)' = AnswerOf(q)
  BY OthersKeepTheirAnswer
<1>2. [q \in Readers |-> AnswerOf(q)]' = [q \in Readers |-> AnswerOf(q)]
  BY <1>1
<1>3. committed' = committed
  BY DEF Call, ReaderStep, Return, GetLatest, GetHistory, ReadBegin, LoadHead,
         LoadFirst, ReadRetry, CopyWord, writer
<1> QED BY <1>2, <1>3 DEF Ring!vars

\* A step of r that changes its answer changes no other and publishes nothing.
LEMMA OneAnswerChanges ==
  ASSUME TypeOK, NEW r \in Readers, Call(r) \/ ReaderStep(r) \/ Return(r),
         NEW v, AnswerOf(r)' = v
  PROVE  /\ committed' = committed
         /\ [q \in Readers |-> AnswerOf(q)]'
              = [[q \in Readers |-> AnswerOf(q)] EXCEPT ![r] = v]
<1>1. \A q \in Readers : q # r => AnswerOf(q)' = AnswerOf(q)
  BY OthersKeepTheirAnswer
<1>2. committed' = committed
  BY DEF Call, ReaderStep, Return, GetLatest, GetHistory, ReadBegin, LoadHead,
         LoadFirst, ReadRetry, CopyWord, writer
<1> QED BY <1>1, <1>2

\* The retry that succeeds is the instant at which the read takes effect.
LEMMA RetryAnswers ==
  ASSUME TypeOK, LockInv, NEW r \in Readers, ReadRetry(r), seq = rseq[r]
  PROVE  /\ AnswerOf(r)' = Ring!Newest(committed, rcount[r])
         /\ rcount[r] \in 1..MaxCount
         /\ rcount[r] <= committed /\ rcount[r] <= Capacity
<1> DEFINE n == rcount[r]
<1>1. rpc[r] = "copy" /\ rpc'[r] = "ok" /\ UNCHANGED <<rcount, rbuf>>
  BY DEF ReadRetry, TypeOK
<1>2. n \in 1..MaxCount /\ n <= committed /\ n <= Capacity
  BY <1>1 DEF LockInv, SnapshotInv, TypeOK
<1>3. ASSUME NEW i \in 0..(n - 1)
      PROVE  rbuf[r][i] = Ring!Whole(committed - n + 1 + i)
  <2>1. i \in Entries
    BY <1>2, SizesAssumption DEF Entries
  <2>2. rbuf[r][i] \in [Word -> Nat]
    BY <2>1 DEF TypeOK
  <2>3. \A w \in Word : rbuf[r][i][w] = committed - n + 1 + i
    BY <1>1, <1>3 DEF LockInv, SnapshotInv, ReadRetry
  <2> QED BY <2>2, <2>3 DEF Ring!Whole, Word
<1>4. [i \in 0..(n - 1) |-> rbuf[r][i]]
        = [i \in 0..(n - 1) |-> Ring!Whole(committed - n + 1 + i)]
  BY <1>3
<1>5. AnswerOf(r)' = [kind |-> "ok", samples |-> [i \in 0..(n - 1) |-> rbuf[r][i]]]
  BY <1>1 DEF AnswerOf
<1> QED BY <1>2, <1>4, <1>5 DEF Ring!Newest

\* Every step of the lock is a step of AtomicRing or leaves it as it is.
LEMMA StepRefines ==
  ASSUME TypeOK, LockInv, [Next]_vars
  PROVE  [Ring!Next]_(Ring!vars)
<1> DEFINE A == [q \in Readers |-> AnswerOf(q)]
<1>1. CASE StoreEnd
  <2>1. committed < MaxWrites /\ committed' = committed + 1
    BY <1>1 DEF StoreEnd, LockInv, WriterInv
  <2>2. A' = A
    BY <1>1 DEF StoreEnd, reader, AnswerOf
  <2> QED BY <2>1, <2>2 DEF Ring!Next, Ring!Publish
<1>2. CASE (WriterStep /\ ~StoreEnd) \/ Crash \/ Tick \/ UNCHANGED vars
  <2>1. UNCHANGED <<committed, reader>>
    BY <1>2 DEF WriterStep, WriteStart, StoreBegin, StoreLast, StoreFirst,
                StoreHead, StoreWord, Crash, Tick, vars, writer
  <2>2. A' = A
    BY <2>1 DEF reader, AnswerOf
  <2> QED BY <2>1, <2>2 DEF Ring!vars
<1>3. ASSUME NEW r \in Readers, Call(r) \/ ReaderStep(r) \/ Return(r)
      PROVE  [Ring!Next]_(Ring!vars)
  <2>1. ASSUME rpc[r] = "idle", rpc'[r] = "stale"
        PROVE  Ring!Answer(r)
    <3>1. AnswerOf(r) = Ring!Pending /\ AnswerOf(r)' = Ring!Stale
      BY <2>1 DEF AnswerOf, Ring!Pending, Ring!Stale
    <3> QED BY <3>1, <1>3, OneAnswerChanges DEF Ring!Answer
  <2>2. ASSUME LoadFirst(r), rpc'[r] = "nodata"
        PROVE  Ring!Answer(r)
    <3>1. AnswerOf(r) = Ring!Pending /\ AnswerOf(r)' = Ring!NoData
      BY <2>2 DEF LoadFirst, AnswerOf, Ring!Pending, Ring!NoData
    <3>2. firstTs = 0
      BY <2>2, SizesAssumption DEF LoadFirst, Filled, TypeOK, Slots
    <3>3. committed = 0
      BY <3>2 DEF LockInv, WriterInv
    <3> QED BY <3>1, <3>3, <1>3, OneAnswerChanges DEF Ring!Answer
  <2>3. ASSUME ReadRetry(r), seq = rseq[r]
        PROVE  Ring!Answer(r)
    <3>1. AnswerOf(r) = Ring!Pending
      BY <2>3 DEF ReadRetry, AnswerOf, Ring!Pending
    <3> QED BY <3>1, <2>3, <1>3, OneAnswerChanges, RetryAnswers DEF Ring!Answer
  <2>4. ASSUME Return(r)
        PROVE  Ring!Consume(r)
    <3>1. AnswerOf(r) # Ring!Pending
      BY <2>4 DEF Return, Returned, AnswerOf, Ring!Pending
    <3>2. AnswerOf(r)' = Ring!Pending
      BY <2>4 DEF Return, AnswerOf, Ring!Pending, TypeOK
    <3> QED BY <3>1, <3>2, <1>3, OneAnswerChanges DEF Ring!Consume
  <2>5. CASE \/ Call(r) /\ rpc'[r] # "stale"
             \/ ReadBegin(r) \/ LoadHead(r)
             \/ LoadFirst(r) /\ rpc'[r] # "nodata"
             \/ \E i \in Entries, w \in Word : CopyWord(r, i, w)
             \/ ReadRetry(r) /\ seq # rseq[r]
    <3>1. /\ rpc[r] \in {"idle", "begin", "head", "first", "copy"}
          /\ rpc'[r] \in {"idle", "begin", "head", "first", "copy"}
      BY <2>5 DEF Call, GetLatest, GetHistory, ReadBegin, LoadHead, LoadFirst,
                  ReadRetry, CopyWord, TypeOK
    <3>2. AnswerOf(r)' = AnswerOf(r)
      BY <3>1 DEF AnswerOf
    <3> QED BY <1>3, <3>2, SameAnswerStutters
  <2>6. Call(r) => rpc[r] = "idle"
    BY DEF Call, GetLatest, GetHistory
  <2> QED
    BY <1>3, <2>1, <2>2, <2>3, <2>4, <2>5, <2>6 DEF ReaderStep, Ring!Next
<1> QED BY <1>1, <1>2, <1>3 DEF Next

\* The level implements AtomicRing: every call is linearizable, for every
\* capacity, cell size, history length and number of concurrent readers.
THEOREM RefinesAtomicRing == ASSUME BeginFence PROVE Spec => ImplementsAtomicRing
<1>1. Init => Ring!Init
  BY DEF Init, Ring!Init, AnswerOf, Ring!Pending
<1>2. TypeOK /\ LockInv /\ [Next]_vars => [Ring!Next]_(Ring!vars)
  BY StepRefines
<1>3. QED
  BY <1>1, <1>2, TypeCorrect, LockInvariant, PTL
  DEF Spec, ImplementsAtomicRing, Ring!Spec

-----------------------------------------------------------------------------
(* The C11 orders alone.                                                   *)

\* The inductive invariant behind WholeOrBlank, where a store of the section may
\* come before the odd number: the slot being overwritten is open from the start
\* of the section, and no read shorter than the ring copies it.
OpenSlot == IF wpc = "writing" /\ "head" \in wtodo THEN {head} ELSE {}

RelaxedWriterInv ==
  /\ seq = 2 * committed + (IF InSection THEN 1 ELSE 0)
  /\ wpc = "idle" => wtodo = {} /\ wwords = {}
  /\ "begin" \in wtodo => "head" \in wtodo
  /\ "head" \notin wtodo => wtodo = {} /\ wwords = {}
  /\ MetaFits(Stored, head)
  /\ RingHolds(Stored, head, OpenSlot)
  /\ \A s \in OpenSlot, w \in Word \ wwords : cell[s][w] = committed + 1
  /\ Stored = 0 => \A s \in Slots \ OpenSlot, w \in Word : cell[s][w] = 0

RelaxedSnapshot(r) ==
  /\ rpc[r] \in {"head", "first", "copy"} => rseq[r] % 2 = 0 /\ rseq[r] <= seq
  /\ rpc[r] \in {"first", "copy"} /\ rseq[r] = seq => rhead[r] = head
  /\ rpc[r] = "copy" =>
       /\ rtodo[r] \subseteq (0..(rcount[r] - 1)) \X Word
       /\ rhead[r] > 0 => rcount[r] <= rhead[r]
       /\ rcount[r] <= Capacity
  /\ rpc[r] = "copy" /\ rseq[r] = seq =>
       /\ committed > 0 => rcount[r] <= committed
       /\ rcount[r] < Capacity =>
            \A i \in 0..(rcount[r] - 1), w \in Word :
              <<i, w>> \notin rtodo[r] =>
                rbuf[r][i][w] = IF committed = 0 THEN 0 ELSE committed - rcount[r] + 1 + i

RelaxedInv == WholeOrBlank /\ RelaxedWriterInv /\ \A r \in Readers : RelaxedSnapshot(r)

\* The writer keeps its half of RelaxedInv whatever overtakes the odd number.
LEMMA WriterKeepsRelaxed ==
  ASSUME TypeOK, RelaxedWriterInv, WriterStep
  PROVE  RelaxedWriterInv'
<1> USE SizesAssumption DEF TypeOK, RelaxedWriterInv, InSection, Stored, OpenSlot
<1>1. CASE WriteStart
  <2>1. /\ wpc = "idle" /\ wpc' = "writing" /\ wwords' = Word /\ {"begin", "head"} \subseteq wtodo'
        /\ UNCHANGED <<seq, head, cell, committed>>
    BY <1>1 DEF WriteStart, shared
  <2> QED BY <2>1 DEF RingHolds, MetaFits
<1>2. CASE StoreBegin
  BY <1>2 DEF StoreBegin, RingHolds, MetaFits
<1>3. CASE StoreLast
  BY <1>3 DEF StoreLast, MayStore, RingHolds, MetaFits
<1>4. CASE StoreFirst
  BY <1>4 DEF StoreFirst, MayStore, RingHolds, MetaFits
<1>5. CASE StoreHead
  <2>1. InSection /\ Stored = committed /\ OpenSlot = {head} /\ wwords = {}
    BY <1>5 DEF StoreHead
  <2>2. Stored' = committed + 1 /\ OpenSlot' = {} /\ InSection'
    BY <1>5 DEF StoreHead
  <2>3. head' = IF head + 1 = Capacity THEN 0 ELSE head + 1
    BY <1>5, NextHead DEF StoreHead
  <2>4. MetaFits(committed + 1, head')
    BY <2>1, <2>3 DEF MetaFits, Slots
  <2>5. ASSUME NEW s \in Slots, SampleAt(committed + 1, head', s) > 0, NEW w \in Word
        PROVE  cell[s][w] = SampleAt(committed + 1, head', s)
    <3>1. CASE s = head
      <4>1. SampleAt(committed + 1, head', s) = committed + 1
        BY <3>1, <2>3 DEF SampleAt, Slots
      <4>2. cell[head][w] = committed + 1
        BY <2>1
      <4> QED BY <3>1, <4>1, <4>2
    <3>2. CASE s # head
      <4>1. SampleAt(committed + 1, head', s) = SampleAt(committed, head, s)
        BY <3>2, <2>3 DEF SampleAt, Slots
      <4>2. s \in Slots \ OpenSlot
        BY <3>2, <2>1
      <4> QED BY <4>1, <4>2, <2>1, <2>5 DEF RingHolds
    <3> QED BY <3>1, <3>2
  <2>6. RingHolds(committed + 1, head, {})'
    BY <2>5, <1>5 DEF RingHolds, StoreHead
  <2> QED BY <1>5, <2>1, <2>2, <2>4, <2>6 DEF StoreHead
<1>6. CASE StoreEnd
  BY <1>6 DEF StoreEnd, RingHolds, MetaFits
<1>7. ASSUME NEW w \in Word, StoreWord(w) PROVE RelaxedWriterInv'
  <2>1. wpc = "writing" /\ "head" \in wtodo /\ w \in wwords
    BY <1>7 DEF StoreWord, MayStore
  <2>2. /\ cell' = [cell EXCEPT ![head][w] = committed + 1] /\ wwords' = wwords \ {w}
        /\ UNCHANGED <<seq, head, wpc, wtodo, committed>>
    BY <1>7 DEF StoreWord
  <2>3. RingHolds(Stored, head, OpenSlot)'
    BY <2>1, <2>2 DEF RingHolds, SampleAt
  <2>4. \A x \in Word \ wwords' : cell'[head][x] = committed + 1
    BY <2>1, <2>2
  <2>5. Stored = 0 => \A s \in Slots \ OpenSlot, x \in Word : cell'[s][x] = 0
    BY <2>1, <2>2
  <2> QED BY <2>1, <2>2, <2>3, <2>4, <2>5 DEF MetaFits
<1> QED
  BY <1>1, <1>2, <1>3, <1>4, <1>5, <1>6, <1>7 DEF WriterStep

LEMMA WriterKeepsRelaxedSnapshots ==
  ASSUME TypeOK, RelaxedWriterInv, WriterStep, UNCHANGED reader,
         NEW r \in Readers, RelaxedSnapshot(r)
  PROVE  RelaxedSnapshot(r)'
<1> USE DEF TypeOK, reader
<1>1. \/ seq' = seq + 1
      \/ /\ seq' = seq /\ committed' = committed
         /\ head' = head \/ seq = 2 * committed + 1
  BY DEF WriterStep, WriteStart, StoreBegin, StoreLast, StoreFirst, StoreHead,
         StoreEnd, StoreWord, shared, RelaxedWriterInv, InSection
<1>2. UNCHANGED <<rpc, rop, rseq, rhead, rcount, rtodo, rbuf>>
  OBVIOUS
<1>3. CASE seq' = seq + 1
  <2>1. rseq[r] <= seq => rseq[r] <= seq' /\ rseq[r] # seq'
    BY <1>3
  <2> QED BY <1>2, <2>1 DEF RelaxedSnapshot
<1>4. CASE seq' = seq /\ committed' = committed
           /\ (head' = head \/ seq = 2 * committed + 1)
  <2>1. head' # head => (rseq[r] % 2 = 0 => rseq[r] # seq)
    <3>1. committed \in Nat /\ seq \in Nat
      OBVIOUS
    <3>2. (2 * committed + 1) % 2 # 0
      BY <3>1
    <3> QED BY <1>4, <3>2
  <2>2. CASE head' = head
    BY <1>2, <1>4, <2>2 DEF RelaxedSnapshot
  <2>3. CASE head' # head
    BY <1>2, <1>4, <2>1, <2>3 DEF RelaxedSnapshot
  <2> QED BY <2>2, <2>3
<1> QED BY <1>1, <1>3, <1>4

\* While seq is even every slot but the one at head holds its sample, whatever
\* the section that is about to be opened has stored already.
LEMMA EvenMeansWholeBelow ==
  ASSUME TypeOK, RelaxedWriterInv, seq % 2 = 0
  PROVE  /\ MetaFits(committed, head)
         /\ RingHolds(committed, head, {head})
         /\ committed = 0 => \A s \in Slots \ {head}, w \in Word : cell[s][w] = 0
<1> USE DEF TypeOK
<1>1. ~InSection
  BY DEF RelaxedWriterInv
<1>2. Stored = committed /\ OpenSlot \subseteq {head}
  BY <1>1 DEF RelaxedWriterInv, InSection, Stored, OpenSlot
<1> QED BY <1>2 DEF RelaxedWriterInv, RingHolds

LEMMA ReaderKeepsRelaxed ==
  ASSUME TypeOK, RelaxedWriterInv, NEW r \in Readers, RelaxedSnapshot(r),
         Call(r) \/ ReaderStep(r) \/ Return(r)
  PROVE  RelaxedSnapshot(r)'
<1> USE SizesAssumption DEF TypeOK
<1>1. CASE Call(r)
  <2>1. rpc'[r] \in {"begin", "stale"}
    BY <1>1 DEF Call, GetLatest, GetHistory
  <2> QED BY <2>1 DEF RelaxedSnapshot
<1>2. CASE Return(r)
  <2>1. rpc'[r] = "idle"
    BY <1>2 DEF Return
  <2> QED BY <2>1 DEF RelaxedSnapshot
<1>3. CASE ReadBegin(r)
  BY <1>3 DEF ReadBegin, RelaxedSnapshot, shared
<1>4. CASE LoadHead(r)
  BY <1>4 DEF LoadHead, RelaxedSnapshot, shared
<1>5. CASE LoadFirst(r)
  <2> DEFINE filled == Filled(rhead[r], firstTs)
             count  == AtMost(rcount[r], filled)
  <2>1. CASE filled = 0
    <3>1. rpc'[r] = "nodata"
      BY <1>5, <2>1 DEF LoadFirst
    <3> QED BY <3>1 DEF RelaxedSnapshot
  <2>2. CASE filled # 0
    <3>1. /\ rpc'[r] = "copy" /\ rcount'[r] = count
          /\ rtodo'[r] = (0..(count - 1)) \X Word
          /\ UNCHANGED <<seq, head, committed, rseq, rhead, rbuf>>
      BY <1>5, <2>2 DEF LoadFirst, shared, writer
    <3>2. /\ count \in 1..Capacity /\ count <= rcount[r]
          /\ rhead[r] > 0 => count <= rhead[r]
      BY <2>2 DEF Filled, AtMost, Slots
    <3>3. rseq[r] = seq /\ committed > 0 => count <= committed
      <4> SUFFICES ASSUME rseq[r] = seq, committed > 0 PROVE count <= committed
        OBVIOUS
      <4>1. seq % 2 = 0 /\ rhead[r] = head
        BY <1>5 DEF RelaxedSnapshot, LoadFirst
      <4>2. MetaFits(committed, head)
        BY <4>1, EvenMeansWholeBelow
      <4>3. CASE head = 0
        BY <4>2, <4>3, <3>2 DEF MetaFits
      <4>4. CASE head # 0
        BY <4>1, <4>2, <4>4, <3>2 DEF MetaFits, Slots
      <4> QED BY <4>3, <4>4
    <3>4. rseq[r] % 2 = 0 /\ rseq[r] <= seq /\ (rseq[r] = seq => rhead[r] = head)
      BY <1>5 DEF LoadFirst, RelaxedSnapshot
    <3> HIDE DEF count
    <3> QED BY <3>1, <3>2, <3>3, <3>4 DEF RelaxedSnapshot
  <2> QED BY <2>1, <2>2
<1>6. ASSUME NEW i \in Entries, NEW w \in Word, CopyWord(r, i, w)
      PROVE  RelaxedSnapshot(r)'
  <2> DEFINE n == rcount[r]
             slot == SlotOf(rhead[r], n, i)
             Value(j) == IF committed = 0 THEN 0 ELSE committed - n + 1 + j
  <2>1. /\ rpc[r] = "copy" /\ rpc'[r] = "copy"
        /\ UNCHANGED <<seq, head, committed, rseq, rhead, rcount>>
        /\ rtodo'[r] = rtodo[r] \ {<<i, w>>}
        /\ <<i, w>> \in rtodo[r]
        /\ rbuf' = [rbuf EXCEPT ![r][i][w] = cell[slot][w]]
    BY <1>6 DEF CopyWord, shared, writer
  <2>2. n \in 1..MaxCount /\ i \in 0..(n - 1) /\ n <= Capacity
        /\ (rhead[r] > 0 => n <= rhead[r]) /\ rhead[r] \in Slots
    BY <2>1 DEF RelaxedSnapshot
  <2>3. /\ slot \in Slots
        /\ slot = IF rhead[r] = 0 THEN Capacity - n + i ELSE rhead[r] - n + i
    BY <2>2, SlotOfEntry
  <2>4. rseq[r] = seq /\ n < Capacity => cell[slot][w] = Value(i)
    <3> SUFFICES ASSUME rseq[r] = seq, n < Capacity PROVE cell[slot][w] = Value(i)
      OBVIOUS
    <3>1. seq % 2 = 0 /\ rhead[r] = head /\ (committed > 0 => n <= committed)
      BY <2>1 DEF RelaxedSnapshot
    <3>2. /\ RingHolds(committed, head, {head}) /\ MetaFits(committed, head)
          /\ committed = 0 => \A s \in Slots \ {head}, x \in Word : cell[s][x] = 0
      BY <3>1, EvenMeansWholeBelow
    <3>3. slot # head
      BY <3>1, <2>2, <2>3 DEF Slots
    <3>4. CASE committed = 0
      BY <2>3, <3>2, <3>3, <3>4
    <3>5. CASE committed # 0
      <4>1. n \in Nat /\ i \in Nat /\ committed \in Nat /\ head \in Nat
            /\ Capacity \in Nat /\ i < n /\ n <= committed
        BY <2>2, <3>1, <3>5 DEF Slots
      <4>2. SampleAt(committed, head, slot) = committed - n + 1 + i
        <5>1. CASE head = 0
          BY <4>1, <5>1, <3>1, <2>2, <2>3 DEF SampleAt
        <5>2. CASE head # 0
          BY <4>1, <5>2, <3>1, <2>2, <2>3 DEF SampleAt
        <5> QED BY <5>1, <5>2
      <4>3. SampleAt(committed, head, slot) > 0
        BY <4>1, <4>2
      <4>4. cell[slot][w] = SampleAt(committed, head, slot)
        BY <3>2, <3>3, <4>3, <2>3 DEF RingHolds
      <4> QED BY <3>5, <4>2, <4>4
    <3> QED BY <3>4, <3>5
  <2>5. /\ rbuf'[r][i][w] = cell[slot][w]
        /\ \A j \in Entries, x \in Word :
             <<j, x>> # <<i, w>> => rbuf'[r][j][x] = rbuf[r][j][x]
    BY <2>1
  <2> HIDE DEF slot
  <2>6. ASSUME rseq[r] = seq, n < Capacity, NEW j \in 0..(n - 1), NEW x \in Word,
               <<j, x>> \notin rtodo'[r]
        PROVE  rbuf'[r][j][x] = Value(j)
    <3>1. j \in Entries
      BY <2>2 DEF Entries
    <3>2. CASE <<j, x>> = <<i, w>>
      BY <3>2, <2>4, <2>5, <2>6
    <3>3. CASE <<j, x>> # <<i, w>>
      BY <3>1, <3>3, <2>1, <2>5, <2>6 DEF RelaxedSnapshot
    <3> QED BY <3>2, <3>3
  <2> QED BY <2>1, <2>2, <2>6 DEF RelaxedSnapshot
<1>7. CASE ReadRetry(r)
  <2>1. rpc'[r] \in {"ok", "begin"}
    BY <1>7 DEF ReadRetry
  <2> QED BY <2>1 DEF RelaxedSnapshot
<1> QED
  BY <1>1, <1>2, <1>3, <1>4, <1>5, <1>6, <1>7 DEF ReaderStep

\* What one reader has returned, and what makes a retry succeed.
WholeAt(r) ==
  rpc[r] = "ok" /\ rcount[r] < Capacity =>
    \/ \A i \in 0..(rcount[r] - 1), w \in Word : rbuf[r][i][w] = rbuf[r][0][1] + i
    \/ \A i \in 0..(rcount[r] - 1), w \in Word : rbuf[r][i][w] = 0

LEMMA ReaderKeepsWhole ==
  ASSUME TypeOK, NEW r \in Readers, RelaxedSnapshot(r), WholeAt(r),
         Call(r) \/ ReaderStep(r) \/ Return(r)
  PROVE  WholeAt(r)'
<1> USE SizesAssumption DEF TypeOK
<1>1. CASE ReadRetry(r) /\ seq = rseq[r]
  <2>1. rpc[r] = "copy" /\ rtodo[r] = {} /\ UNCHANGED <<rcount, rbuf>>
    BY <1>1 DEF ReadRetry
  <2>2. rcount[r] < Capacity =>
          \A i \in 0..(rcount[r] - 1), w \in Word :
            rbuf[r][i][w] = IF committed = 0 THEN 0 ELSE committed - rcount[r] + 1 + i
    BY <1>1, <2>1 DEF RelaxedSnapshot
  <2>3. 0 \in 0..(rcount[r] - 1) /\ 1 \in Word
    BY DEF Word
  <2>4. CASE committed = 0
    BY <2>1, <2>2, <2>4 DEF WholeAt
  <2>5. CASE committed # 0
    <3>1. rcount[r] < Capacity => rbuf[r][0][1] = committed - rcount[r] + 1
      BY <2>2, <2>3, <2>5
    <3> QED BY <2>1, <2>2, <2>5, <3>1 DEF WholeAt
  <2> QED BY <2>4, <2>5
<1>2. CASE ~(ReadRetry(r) /\ seq = rseq[r])
  <2>1. rpc'[r] # "ok"
    BY <1>2 DEF Call, ReaderStep, Return, GetLatest, GetHistory, ReadBegin, LoadHead,
                LoadFirst, ReadRetry, CopyWord
  <2> QED BY <2>1 DEF WholeAt
<1> QED BY <1>1, <1>2

LEMMA RelaxedInductive ==
  ASSUME TypeOK, RelaxedInv, [Next]_vars
  PROVE  RelaxedInv'
<1>1. RelaxedWriterInv /\ \A q \in Readers : WholeAt(q) /\ RelaxedSnapshot(q)
  BY DEF RelaxedInv, WholeOrBlank, WholeAt
<1>2. CASE WriterStep
  <2>1. UNCHANGED reader
    BY <1>2 DEF WriterStep, WriteStart, StoreBegin, StoreLast, StoreFirst,
                StoreHead, StoreEnd, StoreWord
  <2>2. RelaxedWriterInv' /\ \A q \in Readers : RelaxedSnapshot(q)'
    BY <1>1, <1>2, <2>1, WriterKeepsRelaxed, WriterKeepsRelaxedSnapshots
  <2>3. WholeOrBlank'
    BY <2>1 DEF RelaxedInv, WholeOrBlank, reader
  <2> QED BY <2>2, <2>3 DEF RelaxedInv
<1>3. ASSUME NEW r \in Readers, Call(r) \/ ReaderStep(r) \/ Return(r)
      PROVE  RelaxedInv'
  <2>1. UNCHANGED <<shared, writer>>
    BY <1>3 DEF Call, ReaderStep, Return, GetLatest, GetHistory, ReadBegin,
                LoadHead, LoadFirst, ReadRetry, CopyWord
  <2>2. RelaxedWriterInv'
    BY <1>1, <2>1 DEF RelaxedWriterInv, shared, writer, InSection, Stored, OpenSlot, RingHolds
  <2>3. RelaxedSnapshot(r)' /\ WholeAt(r)'
    BY <1>1, <1>3, ReaderKeepsRelaxed, ReaderKeepsWhole
  <2>4. ASSUME NEW q \in Readers, q # r
        PROVE  RelaxedSnapshot(q)' /\ WholeAt(q)'
    <3>1. /\ rpc'[q] = rpc[q] /\ rseq'[q] = rseq[q] /\ rhead'[q] = rhead[q]
          /\ rcount'[q] = rcount[q] /\ rtodo'[q] = rtodo[q]
          /\ rbuf'[q] = rbuf[q]
      BY <1>3, <2>4 DEF Call, ReaderStep, Return, GetLatest, GetHistory,
                        ReadBegin, LoadHead, LoadFirst, ReadRetry, CopyWord,
                        TypeOK
    <3> QED BY <1>1, <3>1, <2>1 DEF RelaxedSnapshot, WholeAt, shared, writer
  <2>5. \A q \in Readers : RelaxedSnapshot(q)' /\ WholeAt(q)'
    BY <2>3, <2>4
  <2> QED BY <2>2, <2>5 DEF RelaxedInv, WholeOrBlank, WholeAt
<1>4. CASE Crash \/ Tick \/ UNCHANGED vars
  <2>1. UNCHANGED <<shared, wpc, wtodo, wwords, committed, reader>>
    BY <1>4 DEF Crash, Tick, vars, writer
  <2> QED BY <1>1, <2>1 DEF RelaxedInv, WholeOrBlank, WholeAt, RelaxedWriterInv, RelaxedSnapshot, shared, reader, InSection,
              Stored, OpenSlot, RingHolds
<1> QED BY <1>2, <1>3, <1>4 DEF Next

\* At every point of every interleaving, with nothing but the C11 orders of
\* seqlock.h, an even seq that has not moved vouches for head and for every slot
\* but the one that head points to.
THEOREM RelaxedInvariant == Spec => []RelaxedInv
<1>1. Init => RelaxedInv
  <2> SUFFICES ASSUME Init PROVE RelaxedInv
    OBVIOUS
  <2>1. RelaxedWriterInv
    BY SizesAssumption
    DEF Init, RelaxedWriterInv, InSection, Stored, OpenSlot, MetaFits, RingHolds, SampleAt,
        Slots, BlankCell
  <2>2. WholeOrBlank /\ \A r \in Readers : RelaxedSnapshot(r)
    BY DEF Init, WholeOrBlank, RelaxedSnapshot
  <2> QED BY <2>1, <2>2 DEF RelaxedInv
<1>2. TypeOK /\ RelaxedInv /\ [Next]_vars => RelaxedInv'
  BY RelaxedInductive
<1>3. QED BY <1>1, <1>2, TypeCorrect, PTL DEF Spec

\* Whichever stores overtake the odd number, a read of ttr_reader_get_history that
\* is shorter than the ring is whole and consecutive, or blank on a ring whose
\* first sample is being written.
THEOREM ShortReadsAreWhole == Spec => []WholeOrBlank
<1>1. RelaxedInv => WholeOrBlank
  BY DEF RelaxedInv
<1>2. QED BY <1>1, RelaxedInvariant, PTL

\* For the newest sample alone the missing order makes no difference: in a ring of
\* two slots and more what ttr_reader_get_latest returns is one sample.
THEOREM LatestIsWhole ==
  ASSUME MaxCount = 1, Capacity > 1
  PROVE  Spec => []NoTornRead
<1>1. TypeOK /\ WholeOrBlank => NoTornRead
  <2> SUFFICES ASSUME TypeOK, WholeOrBlank, NEW r \in Readers, rpc[r] = "ok",
                      NEW i \in 0..(rcount[r] - 1), NEW w \in Word
               PROVE  rbuf[r][i][w] = rbuf[r][0][1] + i
    BY DEF NoTornRead
  <2>1. rcount[r] = 1 /\ rcount[r] < Capacity /\ i = 0 /\ 1 \in Word /\ 0 \in 0..(rcount[r] - 1)
    BY SizesAssumption DEF TypeOK, Word
  <2>2. \/ rbuf[r][i][w] = rbuf[r][0][1] + i
        \/ rbuf[r][i][w] = 0 /\ rbuf[r][0][1] = 0
    BY <2>1 DEF WholeOrBlank
  <2> QED BY <2>1, <2>2
<1>2. QED BY <1>1, TypeCorrect, ShortReadsAreWhole, PTL
=============================================================================
