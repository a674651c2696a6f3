------------------------- MODULE ShadowStore_proofs -------------------------
(***************************************************************************)
(* The shadow store, for every capacity of the levels and every setting of *)
(* enable_crc and auto_recover: types, the coverage of the dirty range,    *)
(* what a verified recovery brings back, and what a clean restart does.    *)
(***************************************************************************)
EXTENDS ShadowStore, TLAPS

-----------------------------------------------------------------------------
(* Layout and files.                                                       *)

\* Meta blocks and cells lie in the file and never share a location.
LEMMA Layout ==
  ASSUME NEW l \in Levels, NEW s \in 0..(Cap(l) - 1)
  PROVE  /\ Cap(l) \in Nat \ {0}
         /\ MetaLoc(l) \in Body /\ CellLoc(l, s) \in Body
         /\ \A j \in Levels :
              /\ CellLoc(l, s) # MetaLoc(j)
              /\ MetaLoc(l) = MetaLoc(j) => l = j
              /\ \A t \in 0..(Cap(j) - 1) :
                   CellLoc(l, s) = CellLoc(j, t) => l = j /\ s = t
BY CapsAssumption, SMTT(60) DEF Levels, Cap, MetaLoc, CellLoc, Body, Total

LEMMA Sizes ==
  /\ Total \in Nat \ {0} /\ 0 \in Locs /\ 0 \notin Body
  /\ Locs = {0} \cup Body
BY CapsAssumption DEF Total, Locs, Body

LEMMA BlankIsFile == IsFile(Blank)
BY Sizes DEF IsFile, Blank, Headers, Unsigned

LEMMA StampedIsFile ==
  ASSUME NEW m, IsFile(m), NEW t \in Nat
  PROVE  /\ IsFile(Stamped(m, t))
         /\ Stamped(m, t)[0].ts = t
         /\ Stamped(m, t)[0].sum = m[0].sum
         /\ \A k \in Body : Stamped(m, t)[k] = m[k]
BY Sizes DEF IsFile, Stamped, Headers

LEMMA HeadInRange ==
  ASSUME NEW l \in Levels, IsFile(live)
  PROVE  Head(l) \in 0..(Cap(l) - 1)
<1>1. Cap(l) \in Nat \ {0}
  BY CapsAssumption DEF Levels, Cap
<1>2. 0 \in 0..(Cap(l) - 1)
  BY <1>1
<1>3. MetaLoc(l) \in Body
  BY <1>2, Layout
<1>4. live[MetaLoc(l)] \in Nat
  BY <1>3 DEF IsFile
<1> QED BY <1>1, <1>4, SMT DEF Head

LEMMA AppendedIsFile ==
  ASSUME NEW m, IsFile(m), IsFile(live), NEW l \in Levels
  PROVE  /\ IsFile(Appended(m, l))
         /\ Appended(m, l)[0] = m[0]
         /\ Appended(m, l)[MetaLoc(l)] = m[MetaLoc(l)] + 1
         /\ Appended(m, l)[CellLoc(l, Head(l))] = m[MetaLoc(l)] + 1
         /\ \A k \in Body \ {MetaLoc(l), CellLoc(l, Head(l))} :
              Appended(m, l)[k] = m[k]
<1>1. Head(l) \in 0..(Cap(l) - 1)
  BY HeadInRange
<1>2. /\ MetaLoc(l) \in Body /\ CellLoc(l, Head(l)) \in Body
      /\ CellLoc(l, Head(l)) # MetaLoc(l)
  BY <1>1, Layout
<1> DEFINE ml == MetaLoc(l)
           cl == CellLoc(l, Head(l))
           n  == m[ml] + 1
<1>3. ml \in Locs \ {0} /\ cl \in Locs \ {0} /\ cl # ml
  BY <1>2, Sizes
<1>4. n \in Nat
  BY <1>2 DEF IsFile
<1>5. Appended(m, l) = [m EXCEPT ![ml] = n, ![cl] = n]
  BY DEF Appended
<1> HIDE DEF ml, cl, n
<1>6. /\ IsFile([m EXCEPT ![ml] = n, ![cl] = n])
      /\ [m EXCEPT ![ml] = n, ![cl] = n][0] = m[0]
      /\ [m EXCEPT ![ml] = n, ![cl] = n][ml] = n
      /\ [m EXCEPT ![ml] = n, ![cl] = n][cl] = n
      /\ \A k \in Body \ {ml, cl} : [m EXCEPT ![ml] = n, ![cl] = n][k] = m[k]
  BY <1>3, <1>4, Sizes DEF IsFile
<1> QED BY <1>5, <1>6 DEF ml, cl, n

LEMMA CopiedIsFile ==
  ASSUME NEW m, IsFile(m), NEW n, IsFile(n), NEW k \in Locs
  PROVE  /\ IsFile([m EXCEPT ![k] = n[k]])
         /\ [m EXCEPT ![k] = n[k]][k] = n[k]
         /\ \A j \in Locs \ {k} : [m EXCEPT ![k] = n[k]][j] = m[j]
BY Sizes DEF IsFile

LEMMA AdlerOf ==
  ASSUME NEW m, IsFile(m)
  PROVE  Adler32(m) \in SUBSET (Nat \X [Body -> Nat])
BY Sizes DEF IsFile, Adler32, Headers

LEMMA SignedIsFile ==
  ASSUME NEW m, IsFile(m), NEW s \in SUBSET (Nat \X [Body -> Nat])
  PROVE  /\ IsFile([m EXCEPT ![0].sum = s])
         /\ [m EXCEPT ![0].sum = s][0].ts = m[0].ts
         /\ [m EXCEPT ![0].sum = s][0].sum = s
         /\ \A k \in Body : [m EXCEPT ![0].sum = s][k] = m[k]
BY Sizes DEF IsFile, Headers

LEMMA MixIsFile ==
  ASSUME NEW m, IsFile(m), NEW n, IsFile(n), NEW K
  PROVE  IsFile([k \in Locs |-> IF k \in K THEN m[k] ELSE n[k]])
BY Sizes DEF IsFile

-----------------------------------------------------------------------------

\* What mark_dirty makes of the range when slot s of level l is written: it
\* still lies in the file, it still holds what it held, and it holds both the
\* meta block and the slot.
LEMMA Marked ==
  ASSUME TypeOK, NEW l \in Levels, NEW s \in 0..(Cap(l) - 1)
  PROVE  /\ MarkFrom(l) \in 0..Total /\ MarkTo(l, s) \in 0..Total
         /\ MarkFrom(l) <= dmin /\ dmax <= MarkTo(l, s)
         /\ \A k \in {MetaLoc(l), CellLoc(l, s)} :
              MarkFrom(l) <= k /\ k < MarkTo(l, s)
<1>1. MetaLoc(l) \in Body /\ CellLoc(l, s) \in Body
  BY Layout
<1>2. MetaLoc(l) < CellLoc(l, s)
  BY <1>1 DEF CellLoc, Body
<1>3. dmin \in 0..Total /\ dmax \in 0..Total /\ Total \in Nat
  BY Sizes DEF TypeOK
<1> QED
  BY <1>1, <1>2, <1>3 DEF MarkFrom, MarkTo, Least, Greatest, Body

\* TypeOK is an invariant of the store: both files and the durable copy keep
\* the layout, the dirty range stays inside the file.
LEMMA TypeStep == TypeOK /\ [Next]_vars => TypeOK'
<1> SUFFICES ASSUME TypeOK, [Next]_vars PROVE TypeOK'
  OBVIOUS
<1>1. IsFile(live) /\ IsFile(shadow) /\ IsFile(disk) /\ IsFile(image) /\ now \in Nat
  BY DEF TypeOK
<1>a. Total \in 0..Total /\ 0 \in 0..Total
  BY Sizes
<1>2. CASE Start
  <2> DEFINE m == IF Recovers THEN shadow ELSE Blank
             t == now + 1
  <2>a. IsFile(m) /\ t \in Nat
    BY <1>1, BlankIsFile
  <2>1. IsFile(Stamped(m, t))
    <3> HIDE DEF m, t
    <3> QED BY <2>a, StampedIsFile
  <2> QED BY <1>2, <1>a, <2>1 DEF Start, TypeOK
<1>3. CASE WriteL1
  <2>1. IsFile(Stamped(live, now + 1))
    BY <1>1, StampedIsFile
  <2>2. 1 \in Levels
    BY DEF Levels
  <2>3. IsFile(Appended(Stamped(live, now + 1), 1))
    BY <1>1, <2>1, <2>2, AppendedIsFile
  <2>4. MarkTo(1, Head(1)) \in 0..Total
    BY <1>1, <2>2, HeadInRange, Marked
  <2> QED BY <1>3, <1>a, <2>3, <2>4 DEF WriteL1, TypeOK, ghost
<1>4. ASSUME NEW l \in Levels, Aggregate(l) PROVE TypeOK'
  <2>1. IsFile(Appended(live, l))
    BY <1>1, AppendedIsFile
  <2>2. MarkFrom(l) \in 0..Total /\ MarkTo(l, Head(l)) \in 0..Total
    BY <1>1, HeadInRange, Marked
  <2> QED BY <1>4, <2>1, <2>2 DEF Aggregate, TypeOK, ghost
<1>5. CASE SyncStart
  BY <1>5 DEF SyncStart, TypeOK, files, dirty, ghost
<1>6. ASSUME NEW k \in Locs, CopyLoc(k) PROVE TypeOK'
  <2>1. IsFile([shadow EXCEPT ![k] = live[k]])
    BY <1>1, CopiedIsFile
  <2> QED BY <1>6, <2>1 DEF CopyLoc, TypeOK, dirty, ghost
<1>7. CASE Sign
  <2>1. (IF EnableCrc THEN Adler32(shadow) ELSE Unsigned)
          \in SUBSET (Nat \X [Body -> Nat])
    BY <1>1, AdlerOf DEF Unsigned
  <2>2. IsFile(shadow')
    BY <1>1, <1>7, <2>1, SignedIsFile DEF Sign
  <2> QED BY <1>7, <2>2 DEF Sign, TypeOK, dirty, ghost
<1>8. CASE Flush
  BY <1>8, <1>a DEF Flush, TypeOK
<1>9. CASE Crash
  BY <1>9, <1>a, BlankIsFile DEF Crash, Gone, TypeOK
<1>10. ASSUME NEW K, PowerLoss(K) PROVE TypeOK'
  <2>1. IsFile(disk')
    BY <1>1, <1>10, MixIsFile DEF PowerLoss
  <2> QED BY <1>10, <1>a, <2>1, BlankIsFile DEF PowerLoss, Gone, TypeOK
<1>11. CASE UNCHANGED vars
  BY <1>11 DEF vars, files, dirty, ghost, TypeOK
<1>12. 2 \in Levels /\ 3 \in Levels
  BY DEF Levels
<1>13. CASE \E k \in Locs : CopyLoc(k)
  BY <1>6, <1>13
<1>14. CASE \E K \in SUBSET {k \in Locs : disk[k] # shadow[k]} : PowerLoss(K)
  BY <1>10, <1>14
<1>15. CASE Aggregate(2) \/ Aggregate(3)
  BY <1>4, <1>12, <1>15
<1> QED
  BY <1>2, <1>3, <1>5, <1>7, <1>8, <1>9, <1>11, <1>13, <1>14, <1>15 DEF Next

THEOREM TypeCorrect == Spec => []TypeOK
<1>1. Init => TypeOK
  <2>1. Total \in 0..Total /\ 0 \in 0..Total
    BY Sizes
  <2>2. 0 \in Nat /\ {} \in SUBSET Locs
    OBVIOUS
  <2> QED BY <2>1, <2>2, BlankIsFile DEF Init, TypeOK
<1> QED BY <1>1, TypeStep, PTL DEF Spec

-----------------------------------------------------------------------------

\* DirtyCovers is inductive: every store is inside the range it marks, a start
\* marks everything, and a copied range leaves nothing different.
LEMMA DirtyStep == TypeOK /\ DirtyCovers /\ [Next]_vars => DirtyCovers'
<1> SUFFICES ASSUME TypeOK, DirtyCovers, [Next]_vars PROVE DirtyCovers'
  OBVIOUS
<1>1. IsFile(live) /\ IsFile(shadow) /\ now \in Nat /\ dmin \in 0..Total /\ dmax \in 0..Total
  BY DEF TypeOK
<1>2. CASE Start
  BY <1>2, Sizes DEF Start, DirtyCovers, Locs
<1>3. CASE WriteL1
  <2> DEFINE s == Head(1)
             m == Stamped(live, now + 1)
  <2>1. 1 \in Levels
    BY DEF Levels
  <2>2. s \in 0..(Cap(1) - 1)
    BY <1>1, <2>1, HeadInRange
  <2>a. now + 1 \in Nat
    BY <1>1
  <2>3. /\ IsFile(m)
        /\ \A k \in Body : m[k] = live[k]
    BY <1>1, <2>a, StampedIsFile
  <2>4. \A k \in Body \ {MetaLoc(1), CellLoc(1, s)} : live'[k] = live[k]
    <3>1. live' = Appended(m, 1)
      BY <1>3 DEF WriteL1
    <3>2. \A k \in Body \ {MetaLoc(1), CellLoc(1, s)} : Appended(m, 1)[k] = m[k]
      BY <1>1, <2>1, <2>3, AppendedIsFile
    <3> HIDE DEF m, s
    <3> QED BY <2>3, <3>1, <3>2
  <2>5. /\ dmin' = 0 /\ dmax' = MarkTo(1, s) /\ dmax <= MarkTo(1, s)
        /\ \A k \in {MetaLoc(1), CellLoc(1, s)} : k < MarkTo(1, s)
        /\ MarkTo(1, s) \in 0..Total
    BY <1>3, <2>1, <2>2, Marked DEF WriteL1
  <2>6. 0 < MarkTo(1, s)
    BY <2>1, <2>2, <2>5, Layout DEF Body
  <2> HIDE DEF s, m
  <2>7. ASSUME NEW k \in Locs, MarkTo(1, s) <= k PROVE SameAt(k)'
    <3>1. k \in Body \ {MetaLoc(1), CellLoc(1, s)}
      BY <2>1, <2>2, <2>5, <2>6, <2>7, Layout, Sizes DEF Locs, Body
    <3>2. dmax <= k
      BY <1>1, <2>5, <2>7 DEF Locs
    <3>3. SameAt(k)
      BY <1>3, <3>2 DEF DirtyCovers, WriteL1
    <3> QED BY <1>3, <2>4, <3>1, <3>3, Sizes DEF SameAt, WriteL1
  <2> QED BY <1>3, <2>5, <2>7 DEF DirtyCovers, WriteL1, Locs
<1>4. ASSUME NEW l \in Levels, Aggregate(l) PROVE DirtyCovers'
  <2> DEFINE s == Head(l)
  <2>2. s \in 0..(Cap(l) - 1)
    BY <1>1, HeadInRange
  <2>3. /\ live'[0] = live[0]
        /\ \A k \in Body \ {MetaLoc(l), CellLoc(l, s)} : live'[k] = live[k]
    BY <1>1, <1>4, AppendedIsFile DEF Aggregate
  <2>4. /\ dmin' = MarkFrom(l) /\ dmax' = MarkTo(l, s)
        /\ MarkFrom(l) <= dmin /\ dmax <= MarkTo(l, s)
        /\ MarkFrom(l) \in 0..Total /\ MarkTo(l, s) \in 0..Total
        /\ \A k \in {MetaLoc(l), CellLoc(l, s)} : MarkFrom(l) <= k /\ k < MarkTo(l, s)
    BY <1>4, <2>2, Marked DEF Aggregate
  <2> HIDE DEF s
  <2>5. ASSUME NEW k \in Locs, k < MarkFrom(l) \/ MarkTo(l, s) <= k PROVE SameAt(k)'
    <3>1. k \notin {MetaLoc(l), CellLoc(l, s)}
      BY <2>2, <2>4, <2>5, Layout DEF Body, Locs
    <3>2. k < dmin \/ dmax <= k
      BY <1>1, <2>4, <2>5 DEF Locs
    <3>3. SameAt(k)
      BY <1>4, <3>2 DEF DirtyCovers, Aggregate
    <3> QED BY <1>4, <2>3, <3>1, <3>3, Sizes DEF SameAt, Aggregate
  <2> QED BY <1>4, <2>4, <2>5 DEF DirtyCovers, Aggregate
<1>5. CASE SyncStart
  BY <1>5, <1>1 DEF SyncStart, DirtyCovers, SameAt, files, dirty, Locs
<1>6. ASSUME NEW k \in Locs, CopyLoc(k) PROVE DirtyCovers'
  <2>1. /\ shadow'[k] = live[k]
        /\ \A j \in Locs \ {k} : shadow'[j] = shadow[j]
    BY <1>1, <1>6, CopiedIsFile DEF CopyLoc
  <2>2. ASSUME NEW j \in Locs \ todo' PROVE SameAt(j)'
    <3>1. CASE j = k
      BY <1>6, <2>1, <3>1 DEF SameAt, CopyLoc
    <3>2. CASE j # k
      <4>1. SameAt(j)
        BY <1>6, <2>2, <3>2 DEF CopyLoc, DirtyCovers
      <4> QED BY <1>6, <2>1, <3>2, <4>1 DEF SameAt, CopyLoc
    <3> QED BY <3>1, <3>2
  <2> QED BY <1>6, <2>2 DEF CopyLoc, DirtyCovers
<1>7. CASE Sign
  <2>1. \A k \in Locs : SameAt(k)
    BY <1>7 DEF Sign, DirtyCovers
  <2>2. (IF EnableCrc THEN Adler32(shadow) ELSE Unsigned)
          \in SUBSET (Nat \X [Body -> Nat])
    BY <1>1, AdlerOf DEF Unsigned
  <2> DEFINE sum == IF EnableCrc THEN Adler32(shadow) ELSE Unsigned
  <2>a. shadow' = [shadow EXCEPT ![0].sum = sum]
    BY <1>7 DEF Sign
  <2>b. sum \in SUBSET (Nat \X [Body -> Nat])
    BY <2>2
  <2> HIDE DEF sum
  <2>3. /\ shadow'[0].ts = shadow[0].ts
        /\ \A k \in Body : shadow'[k] = shadow[k]
    BY <1>1, <2>b, <2>a, SignedIsFile
  <2>4. \A k \in Locs : SameAt(k)'
    BY <1>7, <2>1, <2>3, Sizes DEF SameAt, Sign
  <2> QED BY <1>7, <2>4 DEF Sign, DirtyCovers
<1>8. CASE Flush
  BY <1>8 DEF Flush, DirtyCovers, SameAt
<1>9. CASE Crash
  BY <1>9 DEF Crash, Gone, DirtyCovers
<1>10. CASE \E K \in SUBSET {k \in Locs : disk[k] # shadow[k]} : PowerLoss(K)
  BY <1>10 DEF PowerLoss, Gone, DirtyCovers
<1>11. CASE UNCHANGED vars
  BY <1>11 DEF vars, files, dirty, DirtyCovers, SameAt
<1>12. CASE \E k \in Locs : CopyLoc(k)
  BY <1>6, <1>12
<1>13. CASE Aggregate(2) \/ Aggregate(3)
  <2>1. 2 \in Levels /\ 3 \in Levels
    BY DEF Levels
  <2> QED BY <1>4, <1>13, <2>1
<1> QED
  BY <1>2, <1>3, <1>5, <1>7, <1>8, <1>9, <1>10, <1>11, <1>12, <1>13 DEF Next

\* The dirty range loses no store, whatever the capacities and wherever the
\* process or the machine stops.
THEOREM DirtyRangeCovers == Spec => []DirtyCovers
<1>1. Init => DirtyCovers
  BY DEF Init, DirtyCovers
<1>2. Spec => []TypeOK
  BY TypeCorrect
<1> QED BY <1>1, <1>2, DirtyStep, PTL DEF Spec

-----------------------------------------------------------------------------
(* Whole rings.                                                            *)

\* Being whole is a matter of the body alone.
LEMMA WholeIsOfBody ==
  ASSUME NEW m, NEW n, \A k \in Body : m[k] = n[k], Whole(m)
  PROVE  Whole(n)
<1>1. ASSUME NEW l \in Levels, NEW s \in 0..(Cap(l) - 1)
      PROVE  CellHolds(n[CellLoc(l, s)], n[MetaLoc(l)], Cap(l), s)
  <2>1. CellLoc(l, s) \in Body /\ MetaLoc(l) \in Body
    BY Layout
  <2>2. CellHolds(m[CellLoc(l, s)], m[MetaLoc(l)], Cap(l), s)
    BY DEF Whole
  <2>3. m[CellLoc(l, s)] = n[CellLoc(l, s)] /\ m[MetaLoc(l)] = n[MetaLoc(l)]
    BY <2>1
  <2> QED BY <2>2, <2>3
<1> QED BY <1>1 DEF Whole

\* A remainder is found by writing the dividend with its quotient.
LEMMA RemainderOf ==
  ASSUME NEW n \in Int, NEW c \in Nat \ {0}, NEW q \in Int, NEW r \in 0..(c - 1),
         n = c * q + r
  PROVE  n % c = r
BY Z3

\* The sample one lap before sample n goes to the same slot.
LEMMA LapBefore ==
  ASSUME NEW n \in Int, NEW c \in Nat \ {0}
  PROVE  (n - c) % c = n % c
<1> DEFINE q == n \div c
           r == n % c
<1>1. n % c = n - c * (n \div c)
  BY SMT
<1>2. q \in Int /\ r \in 0..(c - 1)
  BY SMT
<1>3. r = n - c * q
  BY <1>1
<1> HIDE DEF q, r
<1>4. n - c = c * (q - 1) + r
  BY <1>2, <1>3, SMT
<1>5. (n - c) % c = r
  BY <1>2, <1>4, RemainderOf, SMT
<1> QED BY <1>5 DEF r

\* Sample n + 1 goes to the slot after sample n, and is the newest there.
LEMMA NextSlotHolds ==
  ASSUME NEW n \in Nat, NEW c \in Nat \ {0}
  PROVE  CellHolds(n + 1, n + 1, c, n % c)
<1>1. n % c \in 0..(c - 1) /\ n % c <= n
  BY SMT
<1> QED BY <1>1, SMT DEF CellHolds

\* The other slots lose nothing by it: the oldest sample a level holds is the
\* one that sample n + 1 replaces.
LEMMA OtherSlotsHold ==
  ASSUME NEW n \in Nat, NEW c \in Nat \ {0}, NEW s \in 0..(c - 1), NEW v \in Nat,
         s # n % c, CellHolds(v, n, c, s)
  PROVE  CellHolds(v, n + 1, c, s)
<1>1. CASE n <= s
  <2>1. n % c = n
    BY <1>1, SMT
  <2> QED BY <1>1, <2>1, SMT DEF CellHolds
<1>2. CASE n > s
  <2>1. n - c < v /\ v <= n /\ (v - 1) % c = s
    BY <1>2 DEF CellHolds
  <2>2. v # n - c + 1
    <3>1. SUFFICES ASSUME v = n - c + 1 PROVE FALSE
      OBVIOUS
    <3>2. v - 1 = n - c
      BY <3>1
    <3>3. (n - c) % c = n % c
      BY LapBefore
    <3> QED BY <2>1, <3>2, <3>3
  <2> QED BY <1>2, <2>1, <2>2 DEF CellHolds
<1> QED BY <1>1, <1>2

\* One more sample in a whole ring leaves a whole ring.
LEMMA AppendKeepsWhole ==
  ASSUME NEW m, IsFile(m), IsFile(live), \A k \in Body : m[k] = live[k],
         Whole(m), NEW l \in Levels
  PROVE  Whole(Appended(m, l))
<1> DEFINE a == Appended(m, l)
           h == Head(l)
<1>1. h \in 0..(Cap(l) - 1)
  BY HeadInRange
<1>2. /\ Cap(l) \in Nat \ {0} /\ MetaLoc(l) \in Body /\ m[MetaLoc(l)] \in Nat
      /\ h = m[MetaLoc(l)] % Cap(l)
  BY <1>1, Layout DEF IsFile, Head
<1>3. /\ a[MetaLoc(l)] = m[MetaLoc(l)] + 1
      /\ a[CellLoc(l, h)] = m[MetaLoc(l)] + 1
      /\ \A k \in Body \ {MetaLoc(l), CellLoc(l, h)} : a[k] = m[k]
  BY AppendedIsFile
<1> HIDE DEF a, h
<1>4. ASSUME NEW j \in Levels, NEW s \in 0..(Cap(j) - 1)
      PROVE  CellHolds(a[CellLoc(j, s)], a[MetaLoc(j)], Cap(j), s)
  <2>1. /\ CellLoc(j, s) \in Body /\ MetaLoc(j) \in Body /\ m[CellLoc(j, s)] \in Nat
        /\ CellLoc(j, s) # MetaLoc(l)
    BY Layout DEF IsFile
  <2>2. CellHolds(m[CellLoc(j, s)], m[MetaLoc(j)], Cap(j), s)
    BY DEF Whole
  <2>3. CASE j # l
    <3>1. CellLoc(j, s) # CellLoc(l, h) /\ MetaLoc(j) # MetaLoc(l)
          /\ MetaLoc(j) # CellLoc(l, h)
      BY <1>1, <2>3, Layout
    <3> QED BY <1>3, <2>1, <2>2, <3>1
  <2>4. CASE j = l /\ s = h
    <3>1. CellHolds(m[MetaLoc(l)] + 1, m[MetaLoc(l)] + 1, Cap(l), m[MetaLoc(l)] % Cap(l))
      BY <1>2, NextSlotHolds
    <3> QED BY <1>2, <1>3, <2>4, <3>1
  <2>5. CASE j = l /\ s # h
    <3>1. CellLoc(l, s) # CellLoc(l, h)
      BY <1>1, <2>5, Layout
    <3>2. a[CellLoc(l, s)] = m[CellLoc(l, s)]
      BY <1>3, <2>1, <2>5, <3>1
    <3>3. CellHolds(m[CellLoc(l, s)], m[MetaLoc(l)] + 1, Cap(l), s)
      BY <1>2, <2>1, <2>2, <2>5, OtherSlotsHold
    <3> QED BY <1>3, <2>5, <3>2, <3>3
  <2> QED BY <2>3, <2>4, <2>5
<1> QED BY <1>4 DEF Whole, a

LEMMA BlankIsWhole == Whole(Blank)
<1>1. ASSUME NEW l \in Levels, NEW s \in 0..(Cap(l) - 1)
      PROVE  CellHolds(Blank[CellLoc(l, s)], Blank[MetaLoc(l)], Cap(l), s)
  <2>1. CellLoc(l, s) \in Body /\ MetaLoc(l) \in Body
    BY Layout
  <2>2. Blank[CellLoc(l, s)] = 0 /\ Blank[MetaLoc(l)] = 0
    BY <2>1, Sizes DEF Blank
  <2> QED BY <2>2 DEF CellHolds
<1> QED BY <1>1 DEF Whole

\* A shadow that verifies against the signature of a whole ring is whole.
LEMMA VerifiedIsWhole ==
  ASSUME NEW m, Valid(m), m[0].sum # Unsigned, SignsWhole(m)
  PROVE  Whole(m)
<1> DEFINE b == [k \in Body |-> m[k]]
<1>1. <<m[0].ts, b>> \in m[0].sum
  BY DEF Valid, Adler32
<1>2. Whole(b)
  BY <1>1 DEF SignsWhole
<1>3. \A k \in Body : b[k] = m[k]
  OBVIOUS
<1> HIDE DEF b
<1> QED BY <1>2, <1>3, WholeIsOfBody

-----------------------------------------------------------------------------
(* Verified recovery.                                                      *)

LEMMA SignaturesStep ==
  TypeOK /\ DirtyCovers /\ SignaturesInv /\ [Next]_vars => SignaturesInv'
<1> SUFFICES ASSUME TypeOK, DirtyCovers, SignaturesInv, [Next]_vars,
                    EnableCrc, ~tainted'
             PROVE  /\ SignsWhole(live)' /\ SignsWhole(shadow)' /\ SignsWhole(disk)'
                    /\ (pc # "down" => Whole(live))'
  BY DEF SignaturesInv
<1>1. IsFile(live) /\ IsFile(shadow) /\ now + 1 \in Nat /\ tainted \in BOOLEAN
  BY DEF TypeOK
<1>2. ~tainted
  BY <1>1 DEF Next, vars, files, dirty, ghost, Start, WriteL1, Aggregate,
              SyncStart, CopyLoc, Sign, Flush, Crash, PowerLoss, Gone
<1>3. SignsWhole(live) /\ SignsWhole(shadow) /\ SignsWhole(disk)
  BY <1>2 DEF SignaturesInv
<1>4. pc # "down" => Whole(live)
  BY <1>2 DEF SignaturesInv
<1>b. SignsWhole(Blank)
  BY Sizes DEF SignsWhole, Blank, Unsigned
<1>5. CASE Start
  <2> DEFINE m == IF Recovers THEN shadow ELSE Blank
  <2>1. IsFile(m) /\ SignsWhole(m)
    BY <1>1, <1>3, <1>b, BlankIsFile
  <2>2. Whole(m)
    <3>1. CASE Recovers
      <4>1. shadow[0].sum # Unsigned /\ Valid(shadow)
        BY <1>5, <3>1 DEF Start, Recovers
      <4> QED BY <1>3, <3>1, <4>1, VerifiedIsWhole
    <3>2. CASE ~Recovers
      BY <3>2, BlankIsWhole
    <3> QED BY <3>1, <3>2
  <2>3. live' = Stamped(m, now + 1)
    BY <1>5 DEF Start
  <2> HIDE DEF m
  <2>4. live'[0].sum = m[0].sum /\ \A k \in Body : live'[k] = m[k]
    BY <1>1, <2>1, <2>3, StampedIsFile
  <2>5. Whole(live')
    BY <2>2, <2>4, WholeIsOfBody
  <2>6. SignsWhole(live')
    BY <2>1, <2>4 DEF SignsWhole
  <2> QED BY <1>3, <1>5, <2>5, <2>6 DEF Start
<1>6. CASE WriteL1
  <2> DEFINE m == Stamped(live, now + 1)
  <2>1. /\ IsFile(m) /\ m[0].sum = live[0].sum
        /\ \A k \in Body : m[k] = live[k]
    BY <1>1, StampedIsFile
  <2>2. Whole(live) /\ 1 \in Levels /\ live' = Appended(m, 1)
    BY <1>4, <1>6 DEF WriteL1, Levels
  <2> HIDE DEF m
  <2>3. \A k \in Body : live[k] = m[k]
    BY <2>1
  <2>4. Whole(m)
    BY <2>2, <2>3, WholeIsOfBody
  <2>5. Whole(live')
    BY <1>1, <2>1, <2>2, <2>4, AppendKeepsWhole
  <2>6. live'[0] = m[0]
    BY <1>1, <2>1, <2>2, AppendedIsFile
  <2>7. SignsWhole(live')
    BY <1>3, <2>1, <2>6 DEF SignsWhole
  <2> QED BY <1>3, <1>6, <2>5, <2>7 DEF WriteL1
<1>7. ASSUME NEW l \in Levels, Aggregate(l)
      PROVE  /\ SignsWhole(live)' /\ SignsWhole(shadow)' /\ SignsWhole(disk)'
             /\ (pc # "down" => Whole(live))'
  <2>1. Whole(live) /\ live' = Appended(live, l)
    BY <1>4, <1>7 DEF Aggregate
  <2>2. Whole(live')
    BY <1>1, <2>1, AppendKeepsWhole
  <2>3. live'[0] = live[0]
    BY <1>1, <2>1, AppendedIsFile
  <2> QED BY <1>3, <1>7, <2>2, <2>3 DEF Aggregate, SignsWhole
<1>8. CASE SyncStart
  BY <1>3, <1>4, <1>8 DEF SyncStart, files
<1>9. ASSUME NEW k \in Locs, CopyLoc(k)
      PROVE  /\ SignsWhole(live)' /\ SignsWhole(shadow)' /\ SignsWhole(disk)'
             /\ (pc # "down" => Whole(live))'
  <2>1. shadow'[0] = live[0] \/ shadow'[0] = shadow[0]
    BY <1>1, <1>9, Sizes, CopiedIsFile DEF CopyLoc
  <2> QED BY <1>3, <1>4, <1>9, <2>1 DEF CopyLoc, SignsWhole
<1>10. CASE Sign
  <2>1. \A k \in Body : live[k] = shadow[k]
    BY <1>10, Sizes DEF Sign, DirtyCovers, SameAt
  <2>2. Whole(shadow)
    BY <1>4, <1>10, <2>1, WholeIsOfBody DEF Sign
  <2> DEFINE b == [k \in Body |-> shadow[k]]
  <2>3. \A k \in Body : shadow[k] = b[k]
    OBVIOUS
  <2>4. Adler32(shadow) = {<<shadow[0].ts, b>>}
    BY DEF Adler32
  <2> HIDE DEF b
  <2>5. Whole(b)
    BY <2>2, <2>3, WholeIsOfBody
  <2>6. \A x \in Adler32(shadow) : Whole(x[2])
    BY <2>4, <2>5
  <2>7. Adler32(shadow) \in SUBSET (Nat \X [Body -> Nat])
    BY <1>1, AdlerOf
  <2>8. shadow' = [shadow EXCEPT ![0].sum = Adler32(shadow)]
    BY <1>10 DEF Sign
  <2>9. shadow'[0].sum = Adler32(shadow)
    BY <1>1, <2>7, <2>8, SignedIsFile
  <2>10. SignsWhole(shadow')
    BY <2>6, <2>9 DEF SignsWhole
  <2> QED BY <1>3, <1>4, <1>10, <2>10 DEF Sign
<1>11. CASE Flush
  BY <1>3, <1>4, <1>11 DEF Flush
<1>12. CASE Crash
  BY <1>3, <1>b, <1>12 DEF Crash, Gone
<1>13. ASSUME NEW K, PowerLoss(K)
       PROVE  /\ SignsWhole(live)' /\ SignsWhole(shadow)' /\ SignsWhole(disk)'
              /\ (pc # "down" => Whole(live))'
  <2>1. disk'[0] = disk[0] \/ disk'[0] = shadow[0]
    BY <1>13, Sizes DEF PowerLoss
  <2>2. SignsWhole(disk')
    BY <1>3, <2>1 DEF SignsWhole
  <2> QED BY <1>b, <1>13, <2>2 DEF PowerLoss, Gone
<1>14. CASE UNCHANGED vars
  BY <1>3, <1>4, <1>14 DEF vars, files
<1>15. CASE \E k \in Locs : CopyLoc(k)
  BY <1>9, <1>15
<1>16. CASE \E K \in SUBSET {k \in Locs : disk[k] # shadow[k]} : PowerLoss(K)
  BY <1>13, <1>16
<1>17. CASE Aggregate(2) \/ Aggregate(3)
  <2>1. 2 \in Levels /\ 3 \in Levels
    BY DEF Levels
  <2> QED BY <1>7, <1>17, <2>1
<1> QED
  BY <1>5, <1>6, <1>8, <1>10, <1>11, <1>12, <1>14, <1>15, <1>16, <1>17 DEF Next

\* Wherever a signature has been copied to, by a sync that was cut short or by a
\* disk that kept some pages only, what it vouches for is a whole ring: only Sign
\* makes one, of a shadow that has everything (ttr_writer_shadow_sync).
THEOREM SignaturesVouch == Spec => []SignaturesInv
<1>1. Init => SignaturesInv
  BY Sizes DEF Init, SignaturesInv, SignsWhole, Blank, Unsigned
<1> QED BY <1>1, TypeCorrect, DirtyRangeCovers, SignaturesStep, PTL DEF Spec

\* With enable_crc set, and as long as no shadow without a checksum has been
\* recovered, the ring in service is whole: a cut sync, whatever the disk kept
\* of it, is refused by shadow_is_valid and never served.
THEOREM VerifiedRing == Spec => []VerifiedRingIsWhole
<1>1. SignaturesInv => VerifiedRingIsWhole
  BY DEF SignaturesInv, VerifiedRingIsWhole
<1> QED BY <1>1, SignaturesVouch, PTL

-----------------------------------------------------------------------------
(* Restarts that cut no sync short.                                        *)

\* Inductive: between syncs the shadow, valid and durable, is the last image;
\* a sync ends with a signed copy of a ring that has been stamped.
RestartInv ==
  /\ pc # "down" => live[0].ts # 0
  /\ pc = "flush" => shadow[0].sum \in {Unsigned, Adler32(shadow)}
  /\ intact /\ pc \in {"down", "run"} =>
       /\ disk = shadow /\ Valid(shadow)
       /\ \A k \in Body : shadow[k] = image[k]

LEMMA RestartStep ==
  TypeOK /\ DirtyCovers /\ RestartInv /\ [Next]_vars => RestartInv'
<1> SUFFICES ASSUME TypeOK, DirtyCovers, RestartInv, [Next]_vars PROVE RestartInv'
  OBVIOUS
<1>1. /\ IsFile(live) /\ IsFile(shadow) /\ now + 1 \in Nat /\ now + 1 # 0
      /\ intact \in BOOLEAN
  BY DEF TypeOK
<1>2. CASE Start
  <2> DEFINE m == IF Recovers THEN shadow ELSE Blank
  <2>1. IsFile(m)
    BY <1>1, BlankIsFile
  <2>2. live' = Stamped(m, now + 1)
    BY <1>2 DEF Start
  <2> HIDE DEF m
  <2>3. live'[0].ts # 0
    BY <1>1, <2>1, <2>2, StampedIsFile
  <2> QED BY <1>2, <2>3 DEF Start, RestartInv, Valid, Adler32
<1>3. CASE WriteL1
  <2> DEFINE m == Stamped(live, now + 1)
  <2>1. IsFile(m) /\ m[0].ts = now + 1
    BY <1>1, StampedIsFile
  <2>2. 1 \in Levels /\ live' = Appended(m, 1)
    BY <1>3 DEF WriteL1, Levels
  <2> HIDE DEF m
  <2>3. live'[0] = m[0]
    BY <1>1, <2>1, <2>2, AppendedIsFile
  <2>4. live'[0].ts # 0
    BY <1>1, <2>1, <2>3
  <2> QED BY <1>3, <2>4 DEF WriteL1, RestartInv, Valid, Adler32, ghost
<1>4. ASSUME NEW l \in Levels, Aggregate(l) PROVE RestartInv'
  <2>1. live'[0] = live[0]
    BY <1>1, <1>4, AppendedIsFile DEF Aggregate
  <2> QED BY <1>4, <2>1 DEF Aggregate, RestartInv, Valid, Adler32, ghost
<1>5. CASE SyncStart
  BY <1>5 DEF SyncStart, RestartInv, files, ghost
<1>6. ASSUME NEW k \in Locs, CopyLoc(k) PROVE RestartInv'
  BY <1>6 DEF CopyLoc, RestartInv
<1>7. CASE Sign
  <2> DEFINE sum == IF EnableCrc THEN Adler32(shadow) ELSE Unsigned
  <2>1. sum \in SUBSET (Nat \X [Body -> Nat])
    BY <1>1, AdlerOf DEF Unsigned
  <2>2. sum \in {Unsigned, Adler32(shadow)}
    OBVIOUS
  <2>3. shadow' = [shadow EXCEPT ![0].sum = sum]
    BY <1>7 DEF Sign
  <2> HIDE DEF sum
  <2>4. /\ shadow'[0].ts = shadow[0].ts /\ shadow'[0].sum = sum
        /\ \A k \in Body : shadow'[k] = shadow[k]
    <3>1. /\ [shadow EXCEPT ![0].sum = sum][0].ts = shadow[0].ts
          /\ [shadow EXCEPT ![0].sum = sum][0].sum = sum
          /\ \A k \in Body : [shadow EXCEPT ![0].sum = sum][k] = shadow[k]
      BY <1>1, <2>1, SignedIsFile, Zenon
    <3> QED BY <2>3, <3>1, Zenon
  <2>5. Adler32(shadow') = Adler32(shadow)
    BY <2>4 DEF Adler32
  <2>6. shadow'[0].sum \in {Unsigned, Adler32(shadow')}
    BY <2>2, <2>4, <2>5
  <2>7. pc' = "flush" /\ live' = live /\ pc = "copy"
    BY <1>7 DEF Sign
  <2>8. Adler32(shadow)' = Adler32(shadow')
    BY DEF Adler32
  <2> QED BY <2>6, <2>7, <2>8 DEF RestartInv
<1>8. CASE Flush
  <2>1. \A k \in Locs : SameAt(k)
    BY <1>8 DEF Flush, DirtyCovers
  <2>2. \A k \in Body : shadow[k] = live[k]
    BY <2>1, Sizes DEF SameAt
  <2>3. shadow[0].ts # 0
    BY <1>8, <2>1, Sizes DEF SameAt, Flush, RestartInv
  <2>4. Valid(shadow)
    BY <1>8, <2>3 DEF Flush, RestartInv, Valid
  <2>5. Valid(shadow)'
    BY <1>8, <2>4 DEF Flush, Valid, Adler32
  <2> QED BY <1>8, <2>2, <2>5 DEF Flush, RestartInv
<1>9. CASE Crash
  <2>1. CASE pc \in {"run", "down"}
    BY <1>9, <2>1 DEF Crash, Gone, RestartInv, Valid, Adler32
  <2>2. CASE pc \notin {"run", "down"}
    BY <1>9, <2>2 DEF Crash, Gone, RestartInv
  <2> QED BY <2>1, <2>2
<1>10. ASSUME NEW K, PowerLoss(K) PROVE RestartInv'
  <2>1. CASE intact /\ pc \in {"run", "down"}
    <3>1. disk = shadow /\ Valid(shadow) /\ \A k \in Body : shadow[k] = image[k]
      BY <2>1 DEF RestartInv
    <3>2. disk' = [k \in Locs |-> shadow[k]]
      BY <1>10, <3>1 DEF PowerLoss
    <3>3. disk' = shadow
      BY <1>1, <3>2 DEF IsFile
    <3>4. shadow' = shadow /\ pc' = "down" /\ image' = image
      BY <1>10, <3>3 DEF PowerLoss, Gone
    <3> QED BY <3>1, <3>3, <3>4 DEF RestartInv, Valid, Adler32
  <2>2. CASE ~(intact /\ pc \in {"run", "down"})
    BY <1>10, <2>2 DEF PowerLoss, Gone, RestartInv
  <2> QED BY <2>1, <2>2
<1>11. CASE UNCHANGED vars
  BY <1>11 DEF vars, files, dirty, ghost, RestartInv, Valid, Adler32
<1>12. CASE \E k \in Locs : CopyLoc(k)
  BY <1>6, <1>12
<1>13. CASE \E K \in SUBSET {k \in Locs : disk[k] # shadow[k]} : PowerLoss(K)
  BY <1>10, <1>13
<1>14. CASE Aggregate(2) \/ Aggregate(3)
  <2>1. 2 \in Levels /\ 3 \in Levels
    BY DEF Levels
  <2> QED BY <1>4, <1>14, <2>1
<1> QED
  BY <1>2, <1>3, <1>5, <1>7, <1>8, <1>9, <1>11, <1>12, <1>13, <1>14 DEF Next

\* A restart that cut no sync short serves the ring that the last completed
\* sync saved, whether tinytd was stopped, killed or lost its power.
THEOREM CleanRestart == Spec => CleanRestartKeepsImage
<1>1. Init => RestartInv
  BY DEF Init, RestartInv
<1>2. Spec => []TypeOK
  BY TypeCorrect
<1>3. Spec => []DirtyCovers
  BY DirtyRangeCovers
<1>4. ASSUME TypeOK, RestartInv, [Next]_vars,
             AutoRecover, intact, pc = "down", pc' = "run"
      PROVE  \A k \in Body : live'[k] = image[k]
  <2>1. Start
    <3>1. ~ \E K \in SUBSET {k \in Locs : disk[k] # shadow[k]} : PowerLoss(K)
      BY <1>4 DEF PowerLoss, Gone
    <3>2. ~ \E k \in Locs : CopyLoc(k)
      BY <1>4 DEF CopyLoc
    <3>3. ~UNCHANGED vars
      BY <1>4 DEF vars
    <3>4. ~(WriteL1 \/ Aggregate(2) \/ Aggregate(3) \/ SyncStart \/ Sign \/ Flush)
      BY <1>4 DEF WriteL1, Aggregate, SyncStart, Sign, Flush
    <3>5. ~Crash
      BY <1>4 DEF Crash
    <3> QED BY <1>4, <3>1, <3>2, <3>3, <3>4, <3>5 DEF Next
  <2>2. Recovers /\ \A k \in Body : shadow[k] = image[k]
    BY <1>4 DEF RestartInv, Recovers
  <2>3. live' = Stamped(shadow, now + 1) /\ IsFile(shadow) /\ now + 1 \in Nat
    BY <1>4, <2>1, <2>2 DEF Start, TypeOK
  <2> QED BY <2>2, <2>3, StampedIsFile
<1>5. TypeOK /\ RestartInv /\ [Next]_vars
        => [AutoRecover /\ intact /\ pc = "down" /\ pc' = "run"
              => \A k \in Body : live'[k] = image[k]]_vars
  BY <1>4
<1> QED
  BY <1>1, <1>2, <1>3, <1>5, RestartStep, PTL DEF Spec, CleanRestartKeepsImage
=============================================================================
