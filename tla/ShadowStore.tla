----------------------------- MODULE ShadowStore -----------------------------
(***************************************************************************)
(* The live ring of tinytd and its persistent shadow: what the writer      *)
(* stores, which range it remembers as dirty, how a sync copies that range *)
(* and signs it, and what a restart makes of the file it finds after the   *)
(* process was killed or the machine lost power.                           *)
(*                                                                         *)
(* A file is a function from locations, in layout order: the header at 0,  *)
(* then the meta block and the cells of each level.  Samples of a level    *)
(* are numbered from 1: a meta block holds the number of samples written   *)
(* (head is that number modulo the capacity), a cell holds the number of   *)
(* its sample.  A header holds last_update_ts (0: magic was never set) and *)
(* the checksum.  The writer is single-threaded, so its sections on the    *)
(* live ring are atomic here; a sync is not, for it can be cut short.      *)
(***************************************************************************)
EXTENDS Integers

CONSTANTS
  L1Cap, L2Cap, L3Cap, \* cfg.l1_capacity, ...
  EnableCrc,           \* cfg.enable_crc
  AutoRecover,         \* cfg.auto_recover
  MaxNow,              \* bound on clock readings
  MaxSamples           \* bound on the samples of a level

ASSUME CapsAssumption ==
  /\ L1Cap \in Nat \ {0} /\ L2Cap \in Nat \ {0} /\ L3Cap \in Nat \ {0}
  /\ EnableCrc \in BOOLEAN /\ AutoRecover \in BOOLEAN
  /\ MaxNow \in Nat /\ MaxSamples \in Nat

VARIABLES
  live, shadow,  \* the two mapped files (the page cache, for the shadow)
  disk,          \* what of the shadow the last msync made durable
  dmin, dmax,    \* ctx->dirty_min, ctx->dirty_max
  pc,            \* where tinytd is
  todo,          \* locations the memcpy of the running sync has yet to copy
  now,           \* clock readings so far
  image,         \* the live ring as the last completed sync saved it
  intact,        \* no sync has been cut short since then
  tainted        \* a shadow without a checksum has been recovered

files == <<live, shadow, disk>>
dirty == <<dmin, dmax>>
ghost == <<image, intact, tainted>>
vars  == <<files, dirty, pc, todo, now, ghost>>

Levels == 1..3
Cap(l) == CASE l = 1 -> L1Cap [] l = 2 -> L2Cap [] l = 3 -> L3Cap

MetaLoc(l) == CASE l = 1 -> 1 [] l = 2 -> 2 + L1Cap [] l = 3 -> 3 + L1Cap + L2Cap
CellLoc(l, s) == MetaLoc(l) + 1 + s
Total == 4 + L1Cap + L2Cap + L3Cap
Locs  == 0..(Total - 1)
Body  == 1..(Total - 1)

\* An ideal Adler-32: equal exactly when all but the checksum field is.
Unsigned   == {}
Adler32(m) == {<<m[0].ts, [k \in Body |-> m[k]]>>}

Headers   == [ts : Nat, sum : SUBSET (Nat \X [Body -> Nat])]
IsFile(m) == /\ m = [k \in Locs |-> m[k]]
             /\ m[0] \in Headers
             /\ \A k \in Body : m[k] \in Nat

TypeOK ==
  /\ IsFile(live) /\ IsFile(shadow) /\ IsFile(disk) /\ IsFile(image)
  /\ dmin \in 0..Total /\ dmax \in 0..Total
  /\ pc \in {"down", "run", "copy", "flush"}
  /\ todo \in SUBSET Locs
  /\ now \in Nat
  /\ intact \in BOOLEAN /\ tainted \in BOOLEAN

Blank == [k \in Locs |-> IF k = 0 THEN [ts |-> 0, sum |-> Unsigned] ELSE 0]

Init ==
  /\ live = Blank /\ shadow = Blank /\ disk = Blank
  /\ dmin = Total /\ dmax = 0
  /\ pc = "down" /\ todo = {} /\ now = 0
  /\ image = Blank /\ intact = FALSE /\ tainted = FALSE

-----------------------------------------------------------------------------
(* Start: main unlinks the live file, ttr_writer_init maps both files and  *)
(* recovers the shadow or formats the live ring.                           *)

\* The checksum is not looked at (a mutant of Valid)
Formatted(m) == m[0].ts # 0

\* shadow_is_valid
Valid(m) == m[0].ts # 0 /\ (m[0].sum # Unsigned => m[0].sum = Adler32(m))

Recovers == AutoRecover /\ Valid(shadow)

Stamped(m, t) == [m EXCEPT ![0].ts = t]

Start ==
  /\ pc = "down" /\ now < MaxNow
  /\ now' = now + 1
  /\ live' = Stamped(IF Recovers THEN shadow ELSE Blank, now + 1)
  /\ dmin' = 0 /\ dmax' = Total
  /\ pc' = "run"
  /\ tainted' = (tainted \/ (Recovers /\ shadow[0].sum = Unsigned))
  /\ UNCHANGED <<shadow, disk, todo, image, intact>>

-----------------------------------------------------------------------------
(* The running writer.                                                     *)

Least(a, b)    == IF a <= b THEN a ELSE b
Greatest(a, b) == IF a <= b THEN b ELSE a

\* One cell too far, only the meta block (mutants of MarkTo)
MarkPast(l, s) == Greatest(dmax, CellLoc(l, s) + 2)
MarkMeta(l, s) == Greatest(dmax, MetaLoc(l) + 1)

\* mark_dirty, for the meta block of level l and its slot s
MarkFrom(l)  == Least(dmin, MetaLoc(l))
MarkTo(l, s) == Greatest(dmax, CellLoc(l, s) + 1)

Head(l) == live[MetaLoc(l)] % Cap(l)

\* One more sample in level l of m
Appended(m, l) ==
  LET n == m[MetaLoc(l)] + 1
  IN  [m EXCEPT ![MetaLoc(l)] = n, ![CellLoc(l, Head(l))] = n]

\* ttr_writer_write_l1 marks the header too
WriteL1 ==
  /\ pc = "run" /\ now < MaxNow /\ live[MetaLoc(1)] < MaxSamples
  /\ now' = now + 1
  /\ live' = Appended(Stamped(live, now + 1), 1)
  /\ dmin' = 0 /\ dmax' = MarkTo(1, Head(1))
  /\ UNCHANGED <<shadow, disk, pc, todo, ghost>>

\* ring_aggregate from level l - 1: no data while the head of the source is 0
Aggregate(l) ==
  /\ pc = "run" /\ Head(l - 1) # 0 /\ live[MetaLoc(l)] < MaxSamples
  /\ live' = Appended(live, l)
  /\ dmin' = MarkFrom(l) /\ dmax' = MarkTo(l, Head(l))
  /\ UNCHANGED <<shadow, disk, pc, todo, now, ghost>>

-----------------------------------------------------------------------------
(* ttr_writer_shadow_sync, from a timer of tinytd's loop.          *)

\* The last location of the range is left out (a mutant of SyncStart)
SyncStartShort ==
  /\ pc = "run" /\ dmin < dmax
  /\ todo' = {k \in Locs : dmin <= k /\ k < dmax - 1}
  /\ pc' = "copy"
  /\ UNCHANGED <<files, dirty, now, ghost>>

SyncStart ==
  /\ pc = "run" /\ dmin < dmax
  /\ todo' = {k \in Locs : dmin <= k /\ k < dmax}
  /\ pc' = "copy"
  /\ UNCHANGED <<files, dirty, now, ghost>>

\* memcpy, in any order; the header goes with the checksum of the live header
CopyLoc(k) ==
  /\ pc = "copy" /\ k \in todo
  /\ shadow' = [shadow EXCEPT ![k] = live[k]]
  /\ todo' = todo \ {k}
  /\ UNCHANGED <<live, disk, dirty, pc, now, ghost>>

Sign ==
  /\ pc = "copy" /\ todo = {}
  /\ shadow' = [shadow EXCEPT ![0].sum =
                  IF EnableCrc THEN Adler32(shadow) ELSE Unsigned]
  /\ pc' = "flush"
  /\ UNCHANGED <<live, disk, dirty, todo, now, ghost>>

\* msync(MS_SYNC) and the reset of the dirty range
Flush ==
  /\ pc = "flush"
  /\ disk' = shadow
  /\ dmin' = Total /\ dmax' = 0
  /\ pc' = "run"
  /\ image' = live /\ intact' = TRUE
  /\ UNCHANGED <<live, shadow, todo, now, tainted>>

\* tinytd is killed, or stops: there is no last sync at shutdown.  The page
\* cache keeps what it stored; the live file is unlinked by the next start.
Gone ==
  /\ live' = Blank /\ pc' = "down" /\ todo' = {}
  /\ dmin' = Total /\ dmax' = 0
  /\ intact' = (intact /\ pc \in {"run", "down"})
  /\ UNCHANGED <<now, image, tainted>>

Crash ==
  /\ pc # "down" /\ Gone
  /\ UNCHANGED <<shadow, disk>>

\* The machine stops: of what was stored since the last msync, the locations
\* K never reached the disk.
PowerLoss(K) ==
  /\ Gone
  /\ disk' = [k \in Locs |-> IF k \in K THEN disk[k] ELSE shadow[k]]
  /\ shadow' = disk'

Next ==
  \/ Start \/ WriteL1 \/ Aggregate(2) \/ Aggregate(3)
  \/ SyncStart \/ Sign \/ Flush \/ Crash
  \/ \E k \in Locs : CopyLoc(k)
  \/ \E K \in SUBSET {k \in Locs : disk[k] # shadow[k]} : PowerLoss(K)

Spec == Init /\ [][Next]_vars
-----------------------------------------------------------------------------
(* Properties.                                                             *)

SameAt(k) == IF k = 0 THEN live[0].ts = shadow[0].ts ELSE live[k] = shadow[k]

\* The dirty range loses no store: what lies outside it is already in the
\* shadow, so a sync that copies one range saves the whole ring.  Bites at
\* every mark_dirty, at the two resets and at the start over an old shadow.
DirtyCovers ==
  /\ pc = "run"  => \A k \in Locs : k < dmin \/ dmax <= k => SameAt(k)
  /\ pc = "copy" => \A k \in Locs \ todo : SameAt(k)
  /\ pc = "flush" => \A k \in Locs : SameAt(k)

\* Slot s of a level of capacity c with n samples holds the newest sample that
\* was written there, or nothing yet.
CellHolds(v, n, c, s) ==
  IF n <= s THEN v = 0 ELSE n - c < v /\ v <= n /\ (v - 1) % c = s

\* Every level's cells are the ones its head accounts for.
Whole(b) ==
  \A l \in Levels : \A s \in 0..(Cap(l) - 1) :
    CellHolds(b[CellLoc(l, s)], b[MetaLoc(l)], Cap(l), s)

\* What the checksum is for: unless a shadow without a checksum has been
\* recovered, the ring in service is never a mixture of two syncs, wherever
\* the sync before the restart was cut and whatever the disk kept of it.
VerifiedRingIsWhole ==
  EnableCrc /\ ~tainted /\ pc # "down" => Whole(live)

\* A restart that cut no sync short brings back the ring as the last completed
\* sync saved it, with or without checksums, even when power was lost.
CleanRestartKeepsImage ==
  [][AutoRecover /\ intact /\ pc = "down" /\ pc' = "run"
       => \A k \in Body : live'[k] = image[k]]_vars

\* What the documentation says of the shadow: it is the copy from which the
\* history is restored after a restart or a crash.  Once a sync has
\* completed, no start formats an empty ring.
HistorySurvivesRestart ==
  [][AutoRecover /\ image # Blank /\ pc = "down" /\ pc' = "run" => Recovers]_vars

\* The inductive invariant behind VerifiedRingIsWhole: a signature is only ever
\* that of a whole ring, wherever it has been copied to.
SignsWhole(m) == \A x \in m[0].sum : Whole(x[2])

SignaturesInv ==
  EnableCrc /\ ~tainted =>
    /\ SignsWhole(live) /\ SignsWhole(shadow) /\ SignsWhole(disk)
    /\ pc # "down" => Whole(live)
=============================================================================
