---------------------------- MODULE SeqlockRing -----------------------------
(***************************************************************************)
(* One level of the live ring: the single writer of tinytd publishing      *)
(* samples under the level's sequence lock, and any number of readers      *)
(* (gateway, CLI) copying samples out of the mapping with no lock.         *)
(*                                                                         *)
(* Grain: every load and store of shared memory that another process can   *)
(* observe is a step.  Plain accesses are unordered among themselves (a    *)
(* memcpy has no order); seq and head are atomic.  Samples are numbered    *)
(* from 1, the k-th sample stores k in each of its words and in the time   *)
(* stamps.  seq is a uint32 in the code; it wraps after 2^31 samples (68   *)
(* years at one per second) and is a natural number here.                  *)
(***************************************************************************)
EXTENDS Integers

CONSTANTS
  Readers,    \* processes that map the live file read-only
  Words,      \* words of a cell, copied one by one
  Capacity,   \* slots of the level (meta->capacity)
  MaxCount,   \* longest history a reader asks for (bounds its buffer)
  MaxWrites,  \* bound on the number of samples written
  StaleAge,   \* age of the heartbeat after which get_latest refuses
  BeginFence, \* TRUE: the writer's plain stores stay behind the store of the
              \* odd sequence number (x86); FALSE: they may overtake it, as the
              \* release order of that store allows
  CanCrash    \* whether the writer may be killed

ASSUME SizesAssumption ==
  /\ Words \in Nat \ {0} /\ Capacity \in Nat \ {0}
  /\ MaxCount \in Nat \ {0} /\ MaxWrites \in Nat /\ StaleAge \in Nat

ASSUME FlagsAssumption == BeginFence \in BOOLEAN /\ CanCrash \in BOOLEAN

VARIABLES
  \* the shared mapping
  seq, head, firstTs, lastTs, \* fields of ttr_meta
  cell,                       \* cell[slot][word]
  age,                        \* now - hdr->last_update_ts, capped
  \* the writer
  alive, wpc,
  wtodo,                      \* stores of the section still to be made
  wwords,                     \* words of the sample still to be stored
  committed,                  \* samples whose section has been closed
  \* the readers
  rpc, rop,
  rseq, rhead,                \* seq and head as the reader loaded them
  rcount,                     \* the parameter count, clamped by the loop
  rtodo,                      \* <<entry, word>> pairs still to be copied
  rbuf                        \* rbuf[r][entry][word]: the caller's buffer

shared == <<seq, head, firstTs, lastTs, cell>>
writer == <<alive, wpc, wtodo, wwords, committed>>
reader == <<rpc, rop, rseq, rhead, rcount, rtodo, rbuf>>
vars   == <<shared, age, writer, reader>>

Slots   == 0..(Capacity - 1)
Entries == 0..(MaxCount - 1)
Word    == 1..Words
Ops     == {"latest", "history"}
RPCs    == {"idle", "begin", "head", "first", "copy", "ok", "nodata", "stale"}
Returned == {"ok", "nodata", "stale"}

TypeOK ==
  /\ seq \in Nat /\ head \in Slots /\ firstTs \in Nat /\ lastTs \in Nat
  /\ cell \in [Slots -> [Word -> Nat]]
  /\ age \in 0..(StaleAge + 1)
  /\ alive \in BOOLEAN /\ wpc \in {"idle", "writing"}
  /\ wtodo \in SUBSET {"begin", "first", "last", "head"}
  /\ wwords \in SUBSET Word
  /\ committed \in Nat
  /\ rpc \in [Readers -> RPCs] /\ rop \in [Readers -> Ops]
  /\ rseq \in [Readers -> Nat] /\ rhead \in [Readers -> Slots]
  /\ rcount \in [Readers -> 1..MaxCount]
  /\ rtodo \in [Readers -> SUBSET (Entries \X Word)]
  /\ rbuf \in [Readers -> [Entries -> [Word -> Nat]]]

BlankCell == [w \in Word |-> 0]
BlankBuf  == [i \in Entries |-> BlankCell]

\* The level as init_meta leaves it, mapped by readers that are not reading.
Init ==
  /\ seq = 0 /\ head = 0 /\ firstTs = 0 /\ lastTs = 0
  /\ cell = [s \in Slots |-> BlankCell]
  /\ age = 0
  /\ alive = TRUE /\ wpc = "idle" /\ wtodo = {} /\ wwords = {}
  /\ committed = 0
  /\ rpc = [r \in Readers |-> "idle"] /\ rop = [r \in Readers |-> "latest"]
  /\ rseq = [r \in Readers |-> 0] /\ rhead = [r \in Readers |-> 0]
  /\ rcount = [r \in Readers |-> 1]
  /\ rtodo = [r \in Readers |-> {}]
  /\ rbuf = [r \in Readers |-> BlankBuf]

-----------------------------------------------------------------------------
(* The writer: ttr_writer_write_l1, and the store half of ring_aggregate.  *)

\* The heartbeat is stamped before the section is opened.
WriteStart ==
  /\ alive /\ wpc = "idle" /\ committed < MaxWrites
  /\ wpc' = "writing"
  /\ wtodo' = {"begin", "last", "head"}
                \cup (IF firstTs = 0 THEN {"first"} ELSE {})
  /\ wwords' = Word
  /\ age' = 0
  /\ UNCHANGED <<shared, alive, committed, reader>>

\* ttr_seqlock_write_begin
StoreBegin ==
  /\ alive /\ wpc = "writing" /\ "begin" \in wtodo
  /\ seq' = seq + 1
  /\ wtodo' = wtodo \ {"begin"}
  /\ UNCHANGED <<head, firstTs, lastTs, cell, age, alive, wpc, wwords,
                 committed, reader>>

MayStore == alive /\ wpc = "writing" /\ (BeginFence => "begin" \notin wtodo)

StoreWord(w) ==
  /\ MayStore /\ w \in wwords
  /\ cell' = [cell EXCEPT ![head][w] = committed + 1]
  /\ wwords' = wwords \ {w}
  /\ UNCHANGED <<seq, head, firstTs, lastTs, age, alive, wpc, wtodo,
                 committed, reader>>

StoreLast ==
  /\ MayStore /\ "last" \in wtodo
  /\ lastTs' = committed + 1
  /\ wtodo' = wtodo \ {"last"}
  /\ UNCHANGED <<seq, head, firstTs, cell, age, alive, wpc, wwords,
                 committed, reader>>

\* first_ts is copied from last_ts, so it is stored after it
StoreFirst ==
  /\ MayStore /\ "first" \in wtodo /\ "last" \notin wtodo
  /\ firstTs' = lastTs
  /\ wtodo' = wtodo \ {"first"}
  /\ UNCHANGED <<seq, head, lastTs, cell, age, alive, wpc, wwords,
                 committed, reader>>

\* head is _Atomic: its store is ordered behind every store before it
StoreHead ==
  /\ alive /\ wpc = "writing" /\ wtodo = {"head"} /\ wwords = {}
  /\ head' = (head + 1) % Capacity
  /\ wtodo' = {}
  /\ UNCHANGED <<seq, firstTs, lastTs, cell, age, alive, wpc, wwords,
                 committed, reader>>

\* A section closed without its increment (a mutant of StoreEnd)
StoreEndLost ==
  /\ alive /\ wpc = "writing" /\ wtodo = {} /\ wwords = {}
  /\ wpc' = "idle"
  /\ committed' = committed + 1
  /\ UNCHANGED <<seq, head, firstTs, lastTs, cell, age, alive, wtodo, wwords,
                 reader>>

\* ttr_seqlock_write_end
StoreEnd ==
  /\ alive /\ wpc = "writing" /\ wtodo = {} /\ wwords = {}
  /\ seq' = seq + 1
  /\ wpc' = "idle"
  /\ committed' = committed + 1
  /\ UNCHANGED <<head, firstTs, lastTs, cell, age, alive, wtodo, wwords,
                 reader>>

\* The process is killed; the mapping outlives it as it is.
Crash ==
  /\ CanCrash /\ alive
  /\ alive' = FALSE
  /\ UNCHANGED <<shared, age, wpc, wtodo, wwords, committed, reader>>

Tick ==
  /\ age <= StaleAge
  /\ age' = age + 1
  /\ UNCHANGED <<shared, writer, reader>>

WriterStep ==
  \/ WriteStart \/ StoreBegin \/ StoreLast \/ StoreFirst
  \/ StoreHead \/ StoreEnd
  \/ \E w \in Word : StoreWord(w)

-----------------------------------------------------------------------------
(* The readers: ttr_reader_get_latest and ttr_reader_get_history.          *)
(* get_latest is a history of one sample behind a heartbeat check.         *)

Filled(h, f) ==
  IF f # 0 /\ h = 0 THEN Capacity ELSE IF h < Capacity THEN h ELSE Capacity

\* Counted back one slot too many (a mutant of SlotOf)
SlotBefore(h, count, i) == (h - count + i + 2 * Capacity - 1) % Capacity

SlotOf(h, count, i) == (h - count + i + Capacity) % Capacity

\* The clamp the wrong way round (a mutant of AtMost)
AtLeast(m, n) == IF m <= n THEN n ELSE m

AtMost(m, n) == IF m <= n THEN m ELSE n

GetLatest(r) ==
  /\ rpc[r] = "idle"
  /\ rpc' = [rpc EXCEPT ![r] = IF age > StaleAge THEN "stale" ELSE "begin"]
  /\ rop' = [rop EXCEPT ![r] = "latest"]
  /\ rcount' = [rcount EXCEPT ![r] = 1]
  /\ UNCHANGED <<shared, age, writer, rseq, rhead, rtodo, rbuf>>

GetHistory(r, n) ==
  /\ rpc[r] = "idle"
  /\ rpc' = [rpc EXCEPT ![r] = "begin"]
  /\ rop' = [rop EXCEPT ![r] = "history"]
  /\ rcount' = [rcount EXCEPT ![r] = n]
  /\ UNCHANGED <<shared, age, writer, rseq, rhead, rtodo, rbuf>>

\* ttr_seqlock_read_begin spins while seq is odd
ReadBegin(r) ==
  /\ rpc[r] = "begin" /\ seq % 2 = 0
  /\ rseq' = [rseq EXCEPT ![r] = seq]
  /\ rpc' = [rpc EXCEPT ![r] = "head"]
  /\ UNCHANGED <<shared, age, writer, rop, rhead, rcount, rtodo, rbuf>>

LoadHead(r) ==
  /\ rpc[r] = "head"
  /\ rhead' = [rhead EXCEPT ![r] = head]
  /\ rpc' = [rpc EXCEPT ![r] = "first"]
  /\ UNCHANGED <<shared, age, writer, rop, rseq, rcount, rtodo, rbuf>>

\* The load of first_ts decides between NODATA, which is returned at once
\* without looking at seq again, and the copy.
LoadFirst(r) ==
  LET filled == Filled(rhead[r], firstTs)
      count  == AtMost(rcount[r], filled)
  IN  /\ rpc[r] = "first"
      /\ \/ /\ filled = 0
            /\ rpc' = [rpc EXCEPT ![r] = "nodata"]
            /\ UNCHANGED <<rcount, rtodo>>
         \/ /\ filled # 0
            /\ rpc' = [rpc EXCEPT ![r] = "copy"]
            /\ rcount' = [rcount EXCEPT ![r] = count]
            /\ rtodo' = [rtodo EXCEPT ![r] = (0..(count - 1)) \X Word]
      /\ UNCHANGED <<shared, age, writer, rop, rseq, rhead, rbuf>>

CopyWord(r, i, w) ==
  /\ rpc[r] = "copy" /\ <<i, w>> \in rtodo[r]
  /\ rbuf' = [rbuf EXCEPT ![r][i][w] = cell[SlotOf(rhead[r], rcount[r], i)][w]]
  /\ rtodo' = [rtodo EXCEPT ![r] = @ \ {<<i, w>>}]
  /\ UNCHANGED <<shared, age, writer, rpc, rop, rseq, rhead, rcount>>

\* The copy is taken for good (a mutant of ReadRetry)
ReadOnce(r) ==
  /\ rpc[r] = "copy" /\ rtodo[r] = {}
  /\ rpc' = [rpc EXCEPT ![r] = "ok"]
  /\ UNCHANGED <<shared, age, writer, rop, rseq, rhead, rcount, rtodo, rbuf>>

\* ttr_seqlock_read_retry: the clamped count survives the retry
ReadRetry(r) ==
  /\ rpc[r] = "copy" /\ rtodo[r] = {}
  /\ rpc' = [rpc EXCEPT ![r] = IF seq = rseq[r] THEN "ok" ELSE "begin"]
  /\ UNCHANGED <<shared, age, writer, rop, rseq, rhead, rcount, rtodo, rbuf>>

\* The caller consumes the result; its buffer and locals are gone.
Return(r) ==
  /\ rpc[r] \in Returned
  /\ rpc' = [rpc EXCEPT ![r] = "idle"]
  /\ rop' = [rop EXCEPT ![r] = "latest"]
  /\ rseq' = [rseq EXCEPT ![r] = 0]
  /\ rhead' = [rhead EXCEPT ![r] = 0]
  /\ rcount' = [rcount EXCEPT ![r] = 1]
  /\ rbuf' = [rbuf EXCEPT ![r] = BlankBuf]
  /\ UNCHANGED <<shared, age, writer, rtodo>>

ReaderStep(r) ==
  \/ ReadBegin(r) \/ LoadHead(r) \/ LoadFirst(r) \/ ReadRetry(r)
  \/ \E i \in Entries, w \in Word : CopyWord(r, i, w)

Call(r) == GetLatest(r) \/ \E n \in 1..MaxCount : GetHistory(r, n)

Next ==
  \/ WriterStep \/ Crash \/ Tick
  \/ \E r \in Readers : Call(r) \/ ReaderStep(r) \/ Return(r)

Spec == Init /\ [][Next]_vars

\* The writer runs on; a reader keeps its CPU inside a call.  Nothing makes
\* a caller call, and nothing bounds how often a section overtakes a reader.
Fairness ==
  /\ WF_vars(WriterStep)
  /\ \A r \in Readers : WF_vars(ReaderStep(r))

FairSpec == Spec /\ Fairness

-----------------------------------------------------------------------------
(* Properties.                                                             *)

AnswerOf(r) ==
  CASE rpc[r] = "ok"     -> [kind |-> "ok",
                             samples |-> [i \in 0..(rcount[r] - 1) |-> rbuf[r][i]]]
    [] rpc[r] = "nodata" -> [kind |-> "nodata"]
    [] rpc[r] = "stale"  -> [kind |-> "stale"]
    [] OTHER             -> [kind |-> "pending"]

Ring == INSTANCE AtomicRing WITH
          published <- committed,
          answer <- [r \in Readers |-> AnswerOf(r)]

\* Every read is linearizable: whatever the interleaving of loads, stores and
\* retries, a call of ttr_reader_get_latest or ttr_reader_get_history answers
\* with whole, consecutive samples that end at the newest sample published
\* when it returns, or with NODATA while none has been published.
ImplementsAtomicRing == Ring!Spec

\* A successful read holds no mixture of samples: each entry is one sample,
\* and entries are consecutive.  What the retry loop of the readers is for.
NoTornRead ==
  \A r \in Readers : rpc[r] = "ok" =>
    \A i \in 0..(rcount[r] - 1), w \in Word :
      rbuf[r][i][w] = rbuf[r][0][1] + i

\* With the C11 orders of seqlock.h alone, which let the stores of a section
\* overtake the odd sequence number, a read that is shorter than the ring still
\* holds whole, consecutive samples, or, when it overtook the first sample of a
\* new ring, zeros throughout.
WholeOrBlank ==
  \A r \in Readers : rpc[r] = "ok" /\ rcount[r] < Capacity =>
    \/ \A i \in 0..(rcount[r] - 1), w \in Word : rbuf[r][i][w] = rbuf[r][0][1] + i
    \/ \A i \in 0..(rcount[r] - 1), w \in Word : rbuf[r][i][w] = 0

\* Once the writer is between two samples and stays there, every call in
\* progress returns: no lost or doubled increment of seq keeps a reader
\* spinning in ttr_seqlock_read_begin or retrying for ever.
QuietReadsReturn ==
  <>[](wpc = "idle")
    => \A r \in Readers : (rpc[r] = "begin") ~> (rpc[r] \in Returned)

\* The inductive invariant behind NoTornRead and ImplementsAtomicRing.
InSection == wpc = "writing" /\ "begin" \notin wtodo

\* The sample that slot s holds when the level's head is h after c samples:
\* slots below head hold the newest lap, the others the lap before.
SampleAt(c, h, s) == IF s < h THEN c - h + 1 + s ELSE c - Capacity - h + 1 + s

\* Every slot but those of X holds its sample; a number below 1 is a slot
\* that was never written.
RingHolds(c, h, X) ==
  \A s \in Slots \ X : SampleAt(c, h, s) > 0 =>
    \A w \in Word : cell[s][w] = SampleAt(c, h, s)

\* head agrees with the number c of samples.
MetaFits(c, h) ==
  /\ h <= c
  /\ c < Capacity => h = c
  /\ c >= Capacity => c - h >= Capacity

\* Samples the head accounts for, and the slot being overwritten, if any.
Stored == IF wpc = "writing" /\ "head" \notin wtodo THEN committed + 1 ELSE committed
Torn   == IF InSection /\ "head" \in wtodo THEN {head} ELSE {}

\* Where the writer is in its section, and what the mapping holds there.
WriterInv ==
  /\ seq = 2 * committed + (IF InSection THEN 1 ELSE 0)
  /\ wpc = "idle" => wtodo = {} /\ wwords = {}
  /\ wpc = "writing" => committed < MaxWrites
  /\ "begin" \in wtodo => /\ wwords = Word /\ "last" \in wtodo /\ "head" \in wtodo
                          /\ committed = 0 => "first" \in wtodo
  /\ "first" \in wtodo => committed = 0
  /\ "head" \notin wtodo => wtodo = {} /\ wwords = {}
  /\ firstTs = 0 <=> committed = 0 /\ (wpc = "idle" \/ "first" \in wtodo)
  /\ wpc = "writing" /\ "last" \notin wtodo => lastTs = committed + 1
  /\ MetaFits(Stored, head)
  /\ RingHolds(Stored, head, Torn)
  /\ \A s \in Torn, w \in Word \ wwords : cell[s][w] = committed + 1

\* What a reader whose sequence number is still the current one has seen.
SnapshotInv(r) ==
  /\ rpc[r] \in {"head", "first", "copy"} =>
       rseq[r] % 2 = 0 /\ rseq[r] <= seq
  /\ rpc[r] \in {"first", "copy"} /\ rseq[r] = seq => rhead[r] = head
  /\ rpc[r] = "copy" =>
       /\ rtodo[r] \subseteq (0..(rcount[r] - 1)) \X Word
       /\ rhead[r] > 0 => rcount[r] <= rhead[r]
       /\ rcount[r] <= Capacity
  /\ rpc[r] = "copy" /\ rseq[r] = seq =>
       /\ rcount[r] <= committed
       /\ \A i \in 0..(rcount[r] - 1), w \in Word :
            <<i, w>> \notin rtodo[r] =>
              rbuf[r][i][w] = committed - rcount[r] + 1 + i

\* What reader r returned is whole, whatever has been published since.
ResultInv(r) ==
  rpc[r] = "ok" => \A i \in 0..(rcount[r] - 1), w \in Word :
                     rbuf[r][i][w] = rbuf[r][0][1] + i

\* The lock's inductive invariant: with the writer's stores behind the odd
\* sequence number, an even number that has not moved proves that head, the
\* slots below it and the lap before are those of `committed' samples.
LockInv == WriterInv /\ \A r \in Readers : SnapshotInv(r) /\ ResultInv(r)

\* What the comment in ttr_reader_get_history says: filled is the number of
\* valid entries, the capacity once the ring has wrapped.  Read when the
\* snapshot the reader took is still the current one.
FilledCountsValidEntries ==
  \A r \in Readers : rpc[r] = "copy" /\ rseq[r] = seq =>
    Filled(rhead[r], firstTs) = AtMost(committed, Capacity)
=============================================================================
