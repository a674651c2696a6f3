---------------------------- MODULE Client_proofs ------------------------------
(***************************************************************************)
(* The client and the protocol it reads.                                   *)
(*                                                                         *)
(* The client neither multiplies its attempts nor forgets to reconnect,    *)
(* for any number of sockets, calls and any limit of retries: the three    *)
(* invariants are proved together, since the count of the attempts bounds  *)
(* the pending reconnections that ClientTypeOK speaks of.                        *)
(*                                                                         *)
(* Either side of the protocol finds at its offsets what the other has put *)
(* there.  The place of a member is a sum that a recursive function takes  *)
(* over the members before it; what it is follows by induction.            *)
(***************************************************************************)
EXTENDS SdkClient, Wire, FiniteSetTheorems, WellFoundedInduction, TLAPS

ClientInv == ClientTypeOK /\ AttemptsWithinCalls /\ NeverStuck

\* The sockets of f whose close leads to a reconnection
TryingIn(f) == {s \in Sockets : f[s].state # "closed" /\ f[s].onclose = "retry"}

-----------------------------------------------------------------------------
(* Counting.                                                               *)

\* A subset of a finite set with at most one more element
LEMMA OneMore ==
  ASSUME NEW S, IsFiniteSet(S), NEW x, NEW T, T \subseteq S \cup {x}
  PROVE  Cardinality(T) \in Nat /\ Cardinality(T) <= Cardinality(S) + 1
<1>1. /\ IsFiniteSet(S \cup {x})
      /\ Cardinality(S \cup {x}) = IF x \in S THEN Cardinality(S) ELSE Cardinality(S) + 1
  BY FS_AddElement
<1>2. /\ IsFiniteSet(T)
      /\ Cardinality(T) <= Cardinality(S \cup {x})
  BY <1>1, FS_Subset
<1>3. Cardinality(T) \in Nat /\ Cardinality(S) \in Nat
  BY <1>1, <1>2, FS_CardinalityType
<1>4. QED  BY <1>1, <1>2, <1>3

\* A subset of a finite set
LEMMA NoMore ==
  ASSUME NEW S, IsFiniteSet(S), NEW T, T \subseteq S
  PROVE  Cardinality(T) \in Nat /\ Cardinality(T) <= Cardinality(S)
BY FS_Subset, FS_CardinalityType

\* A subset of a finite set that lacks one of its elements
LEMMA OneLess ==
  ASSUME NEW S, IsFiniteSet(S), NEW x \in S, NEW T, T \subseteq S \ {x}
  PROVE  Cardinality(T) \in Nat /\ Cardinality(T) <= Cardinality(S) - 1
<1>1. IsFiniteSet(S \ {x}) /\ Cardinality(S \ {x}) = Cardinality(S) - 1
  BY FS_RemoveElement
<1>2. QED  BY <1>1, NoMore

-----------------------------------------------------------------------------
(* The sockets.                                                            *)

LEMMA TryingFinite ==
  ASSUME NEW f
  PROVE  IsFiniteSet(TryingIn(f)) /\ Cardinality(TryingIn(f)) \in Nat
<1>1. IsFiniteSet(TryingIn(f))
  BY ClientAssumption, FS_Subset DEF TryingIn
<1>2. QED  BY <1>1, FS_CardinalityType

\* Clearing a timeout changes nothing else.
LEMMA ClearedKeeps ==
  ASSUME ClientTypeOK
  PROVE  /\ Cleared \in [Sockets -> SocketRecords]
         /\ \A s \in Sockets : /\ Cleared[s].state = sock[s].state
                               /\ Cleared[s].onclose = sock[s].onclose
BY DEF ClientTypeOK, Cleared, SocketRecords

\* The two invariants in terms of TryingIn
LEMMA Restated ==
  /\ AttemptsWithinCalls <=> Cardinality(TryingIn(sock)) + waiting <= calls
  /\ NeverStuck <=>
       (calls > 0 /\ ~closed /\ Persistent => waiting > 0 \/ TryingIn(sock) # {})
<1>1. {s \in Sockets : Trying(s)} = TryingIn(sock)
  BY DEF Trying, Closed, TryingIn
<1>2. QED  BY <1>1 DEF AttemptsWithinCalls, NeverStuck, Trying, Closed, TryingIn

\* And after a step
LEMMA RestatedPrime ==
  /\ AttemptsWithinCalls' <=> Cardinality(TryingIn(sock')) + waiting' <= calls'
  /\ NeverStuck' <=>
       (calls' > 0 /\ ~closed' /\ Persistent' => waiting' > 0 \/ TryingIn(sock') # {})
<1>1. {s \in Sockets : Trying(s)}' = TryingIn(sock')
  BY DEF Trying, Closed, TryingIn
<1>2. QED  BY <1>1 DEF AttemptsWithinCalls, NeverStuck, Trying, Closed, TryingIn

\* A new attempt adds one socket.
LEMMA OpenAdds ==
  ASSUME ClientTypeOK, NEW s \in Sockets, Open(s)
  PROVE  /\ sock' \in [Sockets -> SocketRecords]
         /\ ws' = s /\ handle' = s
         /\ TryingIn(sock') \subseteq TryingIn(sock) \cup {s}
         /\ TryingIn(sock') # {}
<1>1. sock' \in [Sockets -> SocketRecords]
  BY DEF Open, ClientTypeOK, SocketRecords
<1>2. TryingIn(sock') \subseteq TryingIn(sock) \cup {s}
  BY DEF Open, ClientTypeOK, TryingIn
<1>3. s \in TryingIn(sock')
  BY DEF Open, ClientTypeOK, TryingIn
<1>4. QED  BY <1>1, <1>2, <1>3 DEF Open

-----------------------------------------------------------------------------
(* Steps.                                                                  *)

LEMMA ClientBegins == ClientInit => ClientInv
<1> SUFFICES ASSUME ClientInit PROVE ClientInv
  OBVIOUS
<1>1. ClientTypeOK
  <2>1. sock \in [Sockets -> SocketRecords]
    BY DEF ClientInit, SocketRecords
  <2>2. 0 \in 0..RetryCap /\ 0 \in 0..MaxCalls
    BY ClientAssumption
  <2>3. QED  BY <2>1, <2>2 DEF ClientInit, ClientTypeOK
<1>2. TryingIn(sock) = {}
  BY DEF ClientInit, TryingIn
<1>3. AttemptsWithinCalls
  BY <1>2, Restated, FS_EmptySet DEF ClientInit
<1>4. NeverStuck
  BY Restated DEF ClientInit
<1>5. QED  BY <1>1, <1>3, <1>4 DEF ClientInv

LEMMA ClientStep == ClientInv /\ [ClientNext]_clientVars => ClientInv'
<1> SUFFICES ASSUME ClientInv, [ClientNext]_clientVars PROVE ClientInv'
  OBVIOUS
<1>0. /\ ClientTypeOK
      /\ Cardinality(TryingIn(sock)) + waiting <= calls
      /\ calls > 0 /\ ~closed /\ Persistent => waiting > 0 \/ TryingIn(sock) # {}
  BY Restated DEF ClientInv
<1>a. /\ IsFiniteSet(TryingIn(sock)) /\ Cardinality(TryingIn(sock)) \in Nat
      /\ waiting \in Nat /\ calls \in Nat /\ calls <= MaxCalls /\ MaxCalls \in Nat
      /\ retries \in 0..RetryCap /\ RetryCap \in Nat
  BY <1>0, TryingFinite, ClientAssumption DEF ClientTypeOK
<1>b. SUFFICES /\ ClientTypeOK'
               /\ Cardinality(TryingIn(sock')) + waiting' <= calls'
               /\ calls' > 0 /\ ~closed' /\ Persistent' => waiting' > 0 \/ TryingIn(sock') # {}
  BY RestatedPrime DEF ClientInv
<1>1. CASE Disconnect /\ UNCHANGED opts
  <2>1. /\ sock' \in [Sockets -> SocketRecords]
        /\ TryingIn(sock') \subseteq TryingIn(sock)
    <3>1. CASE sock' = Cleared
      BY <3>1, <1>0, ClearedKeeps DEF TryingIn
    <3>2. CASE /\ Alive
               /\ sock' = [Cleared EXCEPT ![ws].onclose = "resolve", ![ws].state = "closing"]
      BY <3>2, <1>0, ClearedKeeps DEF TryingIn, SocketRecords
    <3>3. QED  BY <1>1, <3>1, <3>2 DEF Disconnect
  <2>2. Cardinality(TryingIn(sock')) + waiting' <= calls'
    BY <2>1, <1>0, <1>a, <1>1, NoMore DEF Disconnect
  <2>3. ClientTypeOK'
    BY <2>1, <1>0, <1>1 DEF Disconnect, ClientTypeOK
  <2>4. QED  BY <2>2, <2>3, <1>1 DEF Disconnect
<1>2. ASSUME NEW s \in Sockets, Connect(s), UNCHANGED opts
      PROVE  /\ ClientTypeOK'
             /\ Cardinality(TryingIn(sock')) + waiting' <= calls'
             /\ calls' > 0 /\ ~closed' /\ Persistent' => waiting' > 0 \/ TryingIn(sock') # {}
  <2>1. /\ sock' \in [Sockets -> SocketRecords]
        /\ ws' = s /\ handle' = s
        /\ TryingIn(sock') \subseteq TryingIn(sock) \cup {s}
        /\ TryingIn(sock') # {}
    BY <1>0, <1>2, OpenAdds DEF Connect
  <2>2. Cardinality(TryingIn(sock')) + waiting' <= calls'
    <3>1. /\ Cardinality(TryingIn(sock')) \in Nat
          /\ Cardinality(TryingIn(sock')) <= Cardinality(TryingIn(sock)) + 1
      BY <2>1, <1>a, OneMore
    <3>2. QED  BY <3>1, <1>0, <1>a, <1>2 DEF Connect
  <2>3. ClientTypeOK'
    <3>1. calls' \in 0..MaxCalls /\ waiting' = waiting /\ retries' = retries /\ opts' = opts
      BY <1>a, <1>2 DEF Connect
    <3>2. promise' = "pending" /\ resolver' = TRUE /\ rejecter' = TRUE /\ closed' = FALSE
      BY <1>2 DEF Connect
    <3>3. QED  BY <2>1, <3>1, <3>2, <1>0 DEF ClientTypeOK
  <2>4. QED  BY <2>1, <2>2, <2>3
<1>3. ASSUME NEW s \in Sockets, TimerFires(s), UNCHANGED opts
      PROVE  /\ ClientTypeOK'
             /\ Cardinality(TryingIn(sock')) + waiting' <= calls'
             /\ calls' > 0 /\ ~closed' /\ Persistent' => waiting' > 0 \/ TryingIn(sock') # {}
  <2>1. /\ sock' \in [Sockets -> SocketRecords]
        /\ TryingIn(sock') = TryingIn(sock)
    <3>1. CASE sock' = [sock EXCEPT ![s].timer = FALSE]
      BY <3>1, <1>0 DEF ClientTypeOK, TryingIn, SocketRecords
    <3>2. CASE sock' = [sock EXCEPT ![s].timer = FALSE,
                          ![s].state = IF Closed(s) THEN "closed" ELSE "closing"]
      BY <3>2, <1>0 DEF ClientTypeOK, TryingIn, SocketRecords, Closed
    <3>3. QED  BY <1>3, <3>1, <3>2 DEF TimerFires
  <2>2. ClientTypeOK'
    BY <2>1, <1>0, <1>3 DEF TimerFires, ClientTypeOK, Settle
  <2>3. QED  BY <2>1, <2>2, <1>0, <1>3 DEF TimerFires, Persistent
<1>4. ASSUME NEW s \in Sockets, OnOpen(s), UNCHANGED opts
      PROVE  /\ ClientTypeOK'
             /\ Cardinality(TryingIn(sock')) + waiting' <= calls'
             /\ calls' > 0 /\ ~closed' /\ Persistent' => waiting' > 0 \/ TryingIn(sock') # {}
  <2>1. /\ sock' \in [Sockets -> SocketRecords]
        /\ TryingIn(sock') = TryingIn(sock)
    BY <1>0, <1>4, ClearedKeeps DEF OnOpen, TryingIn, SocketRecords
  <2>2. ClientTypeOK'
    <3>1. /\ promise' \in {"none", "pending", "resolved", "rejected"}
          /\ resolver' = FALSE /\ rejecter' = FALSE
      BY <1>4, <1>0 DEF OnOpen, Settle, ClientTypeOK
    <3>2. /\ handle' = NoSocket /\ retries' \in 0..RetryCap /\ ws' = ws /\ closed' = closed
          /\ waiting' = waiting /\ calls' = calls /\ opts' = opts
      BY <1>4, <1>a DEF OnOpen
    <3>3. QED  BY <2>1, <3>1, <3>2, <1>0 DEF ClientTypeOK
  <2>3. QED  BY <2>1, <2>2, <1>0, <1>4 DEF OnOpen, Persistent
<1>5. ASSUME NEW s \in Sockets, NEW err \in BOOLEAN, OnClose(s, err), UNCHANGED opts
      PROVE  /\ ClientTypeOK'
             /\ Cardinality(TryingIn(sock')) + waiting' <= calls'
             /\ calls' > 0 /\ ~closed' /\ Persistent' => waiting' > 0 \/ TryingIn(sock') # {}
  <2>1. CASE sock[s].onclose = "resolve" /\ sock' = [sock EXCEPT ![s].state = "closed"]
              /\ UNCHANGED <<handle, retries, waiting>>
    <3>1. /\ sock' \in [Sockets -> SocketRecords]
          /\ TryingIn(sock') = TryingIn(sock)
      BY <2>1, <1>0 DEF ClientTypeOK, TryingIn, SocketRecords
    <3>2. ClientTypeOK'
      BY <3>1, <2>1, <1>0, <1>5 DEF OnClose, ClientTypeOK, Settle
    <3>3. QED  BY <3>1, <3>2, <2>1, <1>0, <1>5 DEF OnClose, Persistent
  <2>2. ASSUME sock[s].onclose = "retry", sock' = [Cleared EXCEPT ![s].state = "closed"],
               handle' = NoSocket, NEW n \in Reconnections(err),
               waiting' = waiting + n, retries' = Least(retries + n, RetryCap)
        PROVE  /\ ClientTypeOK'
               /\ Cardinality(TryingIn(sock')) + waiting' <= calls'
               /\ calls' > 0 /\ ~closed' /\ Persistent' => waiting' > 0 \/ TryingIn(sock') # {}
    <3>1. /\ sock' \in [Sockets -> SocketRecords]
          /\ TryingIn(sock') \subseteq TryingIn(sock) \ {s}
      BY <2>2, <1>0, ClearedKeeps DEF TryingIn, SocketRecords
    <3>2. s \in TryingIn(sock)
      BY <2>2, <1>5 DEF OnClose, Closed, TryingIn
    <3>3. n \in {0, 1} /\ (~closed /\ Persistent => n = 1)
      BY <2>2 DEF Reconnections, Persistent
    <3>4. calls' = calls /\ closed' = closed
      BY <1>5 DEF OnClose
    <3>5. /\ Cardinality(TryingIn(sock')) \in Nat
          /\ Cardinality(TryingIn(sock')) <= Cardinality(TryingIn(sock)) - 1
      BY <3>1, <3>2, <1>a, OneLess
    <3>6. Cardinality(TryingIn(sock')) + waiting' <= calls' /\ waiting' \in Nat
      BY <3>5, <3>3, <3>4, <2>2, <1>0, <1>a
    <3>7. waiting' \in 0..MaxCalls /\ retries' \in 0..RetryCap
      BY <3>6, <3>5, <3>3, <3>4, <2>2, <1>a DEF Least
    <3>8. ClientTypeOK'
      BY <3>1, <3>7, <2>2, <1>0, <1>5 DEF OnClose, ClientTypeOK, Settle
    <3>9. QED  BY <3>3, <3>4, <3>6, <3>8, <2>2, <1>a, <1>5 DEF Persistent
  <2>3. QED  BY <1>5, <2>1, <2>2 DEF OnClose
<1>6. ASSUME NEW s \in Sockets, Retry(s), UNCHANGED opts
      PROVE  /\ ClientTypeOK'
             /\ Cardinality(TryingIn(sock')) + waiting' <= calls'
             /\ calls' > 0 /\ ~closed' /\ Persistent' => waiting' > 0 \/ TryingIn(sock') # {}
  <2>1. /\ sock' \in [Sockets -> SocketRecords]
        /\ ws' = s /\ handle' = s
        /\ TryingIn(sock') \subseteq TryingIn(sock) \cup {s}
        /\ TryingIn(sock') # {}
    BY <1>0, <1>6, OpenAdds DEF Retry
  <2>2. Cardinality(TryingIn(sock')) + waiting' <= calls'
    <3>1. /\ Cardinality(TryingIn(sock')) \in Nat
          /\ Cardinality(TryingIn(sock')) <= Cardinality(TryingIn(sock)) + 1
      BY <2>1, <1>a, OneMore
    <3>2. QED  BY <3>1, <1>0, <1>a, <1>6 DEF Retry
  <2>3. ClientTypeOK'
    BY <2>1, <1>0, <1>a, <1>6 DEF Retry, ClientTypeOK
  <2>4. QED  BY <2>1, <2>2, <2>3
<1>7. CASE UNCHANGED clientVars
  BY <1>7, <1>0 DEF clientVars, live, ClientTypeOK, Persistent
<1>8. QED
  BY <1>1, <1>2, <1>3, <1>4, <1>5, <1>6, <1>7 DEF ClientNext

THEOREM ClientInvariance == ClientSpec => []ClientInv
BY ClientBegins, ClientStep, PTL DEF ClientSpec

-----------------------------------------------------------------------------

\* The state of the client keeps its types: above all, pending reconnections
\* never outnumber the calls of connect.
THEOREM ClientTypes == ClientSpec => []ClientTypeOK
<1>1. ClientInv => ClientTypeOK
  BY DEF ClientInv
<1>2. QED  BY <1>1, ClientInvariance, PTL

\* However closes, failures, timeouts and retries are interleaved, each leads
\* to at most one reconnection.
THEOREM AttemptsBounded == ClientSpec => []AttemptsWithinCalls
<1>1. ClientInv => AttemptsWithinCalls
  BY DEF ClientInv
<1>2. QED  BY <1>1, ClientInvariance, PTL

\* A client without a limit of retries is never left without a connection, an
\* attempt or a reconnection ahead.
THEOREM NeverLeftAlone == ClientSpec => []NeverStuck
<1>1. ClientInv => NeverStuck
  BY DEF ClientInv
<1>2. QED  BY <1>1, ClientInvariance, PTL

-----------------------------------------------------------------------------
(* Induction.                                                              *)

\* A set of naturals that is not empty has a least element.
LEMMA LeastElement ==
  ASSUME NEW T \in SUBSET Nat, T # {}
  PROVE  \E x \in T : \A y \in T : x <= y
<1>1. IsWellFoundedOn(OpToRel(<, Nat), Nat)
  BY NatLessThanWellFounded
<1>2. PICK x \in T : \A y \in T : <<y, x>> \notin OpToRel(<, Nat)
  BY <1>1, WFMin
<1>3. \A y \in T : ~(y < x)
  BY <1>2 DEF OpToRel
<1> QED BY <1>3

\* Induction over the numbers up to N, of a set instead of a predicate
LEMMA UpTo ==
  ASSUME NEW N \in Nat, NEW S, 0 \in S, \A i \in 1..N : i - 1 \in S => i \in S
  PROVE  \A i \in 0..N : i \in S
<1> DEFINE T == {i \in 0..N : i \notin S}
<1>1. ASSUME T # {} PROVE FALSE
  <2>1. T \in SUBSET Nat
    OBVIOUS
  <2> HIDE DEF T
  <2>2. PICK x \in T : \A y \in T : x <= y
    BY <1>1, <2>1, LeastElement
  <2>3. x \in 1..N /\ x \notin S
    BY <2>2 DEF T
  <2>4. x - 1 \in 0..N /\ ~(x <= x - 1)
    BY <2>3
  <2>5. x - 1 \in S
    BY <2>2, <2>4 DEF T
  <2> QED BY <2>3, <2>5
<1> QED BY <1>1

\* What Before sums up to, given the sums
LEMMA BeforeIs ==
  ASSUME NEW struct, NEW n \in Nat, NEW off \in [1..(n + 1) -> Nat],
         off[1] = 0, \A k \in 1..n : off[k + 1] = off[k] + struct[k][2],
         NEW i \in 1..(n + 1)
  PROVE  Before(struct, i) = off[i]
<1> DEFINE D == 0..(i - 1)
           IsSum(f) == f = [j \in D |-> IF j = 0 THEN 0 ELSE f[j - 1] + struct[j][2]]
           s == CHOOSE f : IsSum(f)
           w == [j \in D |-> off[j + 1]]
<1>1. IsSum(w)
  <2>1. ASSUME NEW j \in D
        PROVE  off[j + 1] = IF j = 0 THEN 0 ELSE w[j - 1] + struct[j][2]
    <3>1. CASE j = 0
      BY <3>1
    <3>2. CASE j # 0
      <4>1. j \in 1..n /\ j - 1 \in D /\ w[j - 1] = off[j]
        BY <3>2
      <4> QED BY <3>2, <4>1
    <3> QED BY <3>1, <3>2
  <2> QED BY <2>1
<1>2. IsSum(s)
  BY <1>1
<1> HIDE DEF s, w
<1>3. \A j \in D : s[j] = IF j = 0 THEN 0 ELSE s[j - 1] + struct[j][2]
  BY <1>2
<1>4. \A j \in D : s[j] = off[j + 1]
  <2> DEFINE S == {j \in D : s[j] = off[j + 1]}
  <2>1. 0 \in S
    BY <1>3
  <2>2. ASSUME NEW j \in 1..(i - 1), j - 1 \in S PROVE j \in S
    <3>1. j \in D /\ j # 0 /\ j \in 1..n /\ s[j - 1] = off[j]
      BY <2>2
    <3> QED BY <1>3, <3>1
  <2>3. i - 1 \in Nat
    OBVIOUS
  <2> HIDE DEF S
  <2>4. \A j \in 0..(i - 1) : j \in S
    BY <2>1, <2>2, <2>3, UpTo
  <2> QED BY <2>4 DEF S
<1>5. Before(struct, i) = s[i - 1]
  BY DEF Before, s
<1>6. i - 1 \in D /\ (i - 1) + 1 = i
  OBVIOUS
<1>7. s[i - 1] = off[(i - 1) + 1]
  BY <1>4, <1>6
<1> QED BY <1>5, <1>6, <1>7

-----------------------------------------------------------------------------
(* The places of the members and the sizes of the structs.                 *)

LEMMA HeaderPlaces ==
  /\ \A i \in 1..6 : Before(HeaderStruct, i) = <<0, 1, 2, 3, 5, 9>>[i]
  /\ SizeOf(HeaderStruct) = 10
<1> DEFINE n == 6
           off == <<0, 1, 2, 3, 5, 9, 10>>
<1>1. n \in Nat /\ Len(HeaderStruct) = n
  BY DEF HeaderStruct
<1>2. /\ off \in [1..(n + 1) -> Nat] /\ off[1] = 0
      /\ \A k \in 1..n : off[k + 1] = off[k] + HeaderStruct[k][2]
  BY DEF HeaderStruct, Byte, Member
<1>3. (\A i \in 1..n : off[i] = <<0, 1, 2, 3, 5, 9>>[i]) /\ off[n + 1] = 10
  OBVIOUS
<1> HIDE DEF off, n
<1>4. \A i \in 1..(n + 1) : Before(HeaderStruct, i) = off[i]
  BY <1>1, <1>2, BeforeIs
<1> QED BY <1>1, <1>3, <1>4 DEF SizeOf, n

LEMMA MetricsPlaces ==
  /\ \A i \in 1..13 : Before(MetricsStruct, i) = <<0, 8, 10, 12, 16, 20, 22, 24, 26, 30, 34, 36, 44>>[i]
  /\ SizeOf(MetricsStruct) = 52
<1> DEFINE n == 13
           off == <<0, 8, 10, 12, 16, 20, 22, 24, 26, 30, 34, 36, 44, 52>>
<1>1. n \in Nat /\ Len(MetricsStruct) = n
  BY DEF MetricsStruct
<1>2. /\ off \in [1..(n + 1) -> Nat] /\ off[1] = 0
      /\ \A k \in 1..n : off[k + 1] = off[k] + MetricsStruct[k][2]
  BY DEF MetricsStruct, Byte, Member
<1>3. (\A i \in 1..n : off[i] = <<0, 8, 10, 12, 16, 20, 22, 24, 26, 30, 34, 36, 44>>[i]) /\ off[n + 1] = 52
  OBVIOUS
<1> HIDE DEF off, n
<1>4. \A i \in 1..(n + 1) : Before(MetricsStruct, i) = off[i]
  BY <1>1, <1>2, BeforeIs
<1> QED BY <1>1, <1>3, <1>4 DEF SizeOf, n

LEMMA RingStatPlaces ==
  /\ \A i \in 1..6 : Before(RingStatStruct, i) = <<0, 1, 5, 9, 13, 21>>[i]
  /\ SizeOf(RingStatStruct) = 29
<1> DEFINE n == 6
           off == <<0, 1, 5, 9, 13, 21, 29>>
<1>1. n \in Nat /\ Len(RingStatStruct) = n
  BY DEF RingStatStruct
<1>2. /\ off \in [1..(n + 1) -> Nat] /\ off[1] = 0
      /\ \A k \in 1..n : off[k + 1] = off[k] + RingStatStruct[k][2]
  BY DEF RingStatStruct, Byte, Member
<1>3. (\A i \in 1..n : off[i] = <<0, 1, 5, 9, 13, 21>>[i]) /\ off[n + 1] = 29
  OBVIOUS
<1> HIDE DEF off, n
<1>4. \A i \in 1..(n + 1) : Before(RingStatStruct, i) = off[i]
  BY <1>1, <1>2, BeforeIs
<1> QED BY <1>1, <1>3, <1>4 DEF SizeOf, n

LEMMA ConfigPlaces ==
  /\ \A i \in 1..2 : Before(ConfigStruct, i) = <<0, 4>>[i]
  /\ SizeOf(ConfigStruct) = 5
<1> DEFINE n == 2
           off == <<0, 4, 5>>
<1>1. n \in Nat /\ Len(ConfigStruct) = n
  BY DEF ConfigStruct
<1>2. /\ off \in [1..(n + 1) -> Nat] /\ off[1] = 0
      /\ \A k \in 1..n : off[k + 1] = off[k] + ConfigStruct[k][2]
  BY DEF ConfigStruct, Byte, Member
<1>3. (\A i \in 1..n : off[i] = <<0, 4>>[i]) /\ off[n + 1] = 5
  OBVIOUS
<1> HIDE DEF off, n
<1>4. \A i \in 1..(n + 1) : Before(ConfigStruct, i) = off[i]
  BY <1>1, <1>2, BeforeIs
<1> QED BY <1>1, <1>3, <1>4 DEF SizeOf, n

LEMMA AckPlaces ==
  /\ \A i \in 1..2 : Before(AckStruct, i) = <<0, 1>>[i]
  /\ SizeOf(AckStruct) = 2
<1> DEFINE n == 2
           off == <<0, 1, 2>>
<1>1. n \in Nat /\ Len(AckStruct) = n
  BY DEF AckStruct
<1>2. /\ off \in [1..(n + 1) -> Nat] /\ off[1] = 0
      /\ \A k \in 1..n : off[k + 1] = off[k] + AckStruct[k][2]
  BY DEF AckStruct, Byte, Member
<1>3. (\A i \in 1..n : off[i] = <<0, 1>>[i]) /\ off[n + 1] = 2
  OBVIOUS
<1> HIDE DEF off, n
<1>4. \A i \in 1..(n + 1) : Before(AckStruct, i) = off[i]
  BY <1>1, <1>2, BeforeIs
<1> QED BY <1>1, <1>3, <1>4 DEF SizeOf, n

LEMMA AlertPlaces ==
  /\ \A i \in 1..2 : Before(AlertStruct, i) = <<0, 1>>[i]
  /\ SizeOf(AlertStruct) = 129
<1> DEFINE n == 2
           off == <<0, 1, 129>>
<1>1. n \in Nat /\ Len(AlertStruct) = n
  BY DEF AlertStruct
<1>2. /\ off \in [1..(n + 1) -> Nat] /\ off[1] = 0
      /\ \A k \in 1..n : off[k + 1] = off[k] + AlertStruct[k][2]
  BY DEF AlertStruct, Byte, Member
<1>3. (\A i \in 1..n : off[i] = <<0, 1>>[i]) /\ off[n + 1] = 129
  OBVIOUS
<1> HIDE DEF off, n
<1>4. \A i \in 1..(n + 1) : Before(AlertStruct, i) = off[i]
  BY <1>1, <1>2, BeforeIs
<1> QED BY <1>1, <1>3, <1>4 DEF SizeOf, n

LEMMA SysInfoPlaces ==
  /\ \A i \in 1..9 : Before(SysInfoStruct, i) = <<0, 64, 128, 136, 140, 144, 148, 152, 156>>[i]
  /\ SizeOf(SysInfoStruct) = 160
<1> DEFINE n == 9
           off == <<0, 64, 128, 136, 140, 144, 148, 152, 156, 160>>
<1>1. n \in Nat /\ Len(SysInfoStruct) = n
  BY DEF SysInfoStruct
<1>2. /\ off \in [1..(n + 1) -> Nat] /\ off[1] = 0
      /\ \A k \in 1..n : off[k + 1] = off[k] + SysInfoStruct[k][2]
  BY DEF SysInfoStruct, Byte, Member
<1>3. (\A i \in 1..n : off[i] = <<0, 64, 128, 136, 140, 144, 148, 152, 156>>[i]) /\ off[n + 1] = 160
  OBVIOUS
<1> HIDE DEF off, n
<1>4. \A i \in 1..(n + 1) : Before(SysInfoStruct, i) = off[i]
  BY <1>1, <1>2, BeforeIs
<1> QED BY <1>1, <1>3, <1>4 DEF SizeOf, n

LEMMA HistoryPlaces ==
  /\ \A i \in 1..3 : Before(HistoryStruct, i) = <<0, 1, 3>>[i]
  /\ SizeOf(HistoryStruct) = 4
<1> DEFINE n == 3
           off == <<0, 1, 3, 4>>
<1>1. n \in Nat /\ Len(HistoryStruct) = n
  BY DEF HistoryStruct
<1>2. /\ off \in [1..(n + 1) -> Nat] /\ off[1] = 0
      /\ \A k \in 1..n : off[k + 1] = off[k] + HistoryStruct[k][2]
  BY DEF HistoryStruct, Byte, Member
<1>3. (\A i \in 1..n : off[i] = <<0, 1, 3>>[i]) /\ off[n + 1] = 4
  OBVIOUS
<1> HIDE DEF off, n
<1>4. \A i \in 1..(n + 1) : Before(HistoryStruct, i) = off[i]
  BY <1>1, <1>2, BeforeIs
<1> QED BY <1>1, <1>3, <1>4 DEF SizeOf, n

LEMMA CmdPlaces ==
  /\ \A i \in 1..3 : Before(CmdStruct, i) = <<0, 1, 5>>[i]
  /\ SizeOf(CmdStruct) = 9
<1> DEFINE n == 3
           off == <<0, 1, 5, 9>>
<1>1. n \in Nat /\ Len(CmdStruct) = n
  BY DEF CmdStruct
<1>2. /\ off \in [1..(n + 1) -> Nat] /\ off[1] = 0
      /\ \A k \in 1..n : off[k + 1] = off[k] + CmdStruct[k][2]
  BY DEF CmdStruct, Byte, Member
<1>3. (\A i \in 1..n : off[i] = <<0, 1, 5>>[i]) /\ off[n + 1] = 9
  OBVIOUS
<1> HIDE DEF off, n
<1>4. \A i \in 1..(n + 1) : Before(CmdStruct, i) = off[i]
  BY <1>1, <1>2, BeforeIs
<1> QED BY <1>1, <1>3, <1>4 DEF SizeOf, n

LEMMA SetAlertsPlaces ==
  /\ \A i \in 1..3 : Before(SetAlertsStruct, i) = <<0, 1, 2>>[i]
  /\ SizeOf(SetAlertsStruct) = 9
<1> DEFINE n == 3
           off == <<0, 1, 2, 9>>
<1>1. n \in Nat /\ Len(SetAlertsStruct) = n
  BY DEF SetAlertsStruct
<1>2. /\ off \in [1..(n + 1) -> Nat] /\ off[1] = 0
      /\ \A k \in 1..n : off[k + 1] = off[k] + SetAlertsStruct[k][2]
  BY DEF SetAlertsStruct, Byte, Member
<1>3. (\A i \in 1..n : off[i] = <<0, 1, 2>>[i]) /\ off[n + 1] = 9
  OBVIOUS
<1> HIDE DEF off, n
<1>4. \A i \in 1..(n + 1) : Before(SetAlertsStruct, i) = off[i]
  BY <1>1, <1>2, BeforeIs
<1> QED BY <1>1, <1>3, <1>4 DEF SizeOf, n

LEMMA HistoryReqPlaces ==
  /\ \A i \in 1..4 : Before(HistoryReqStruct, i) = <<0, 1, 9, 17>>[i]
  /\ SizeOf(HistoryReqStruct) = 19
<1> DEFINE n == 4
           off == <<0, 1, 9, 17, 19>>
<1>1. n \in Nat /\ Len(HistoryReqStruct) = n
  BY DEF HistoryReqStruct
<1>2. /\ off \in [1..(n + 1) -> Nat] /\ off[1] = 0
      /\ \A k \in 1..n : off[k + 1] = off[k] + HistoryReqStruct[k][2]
  BY DEF HistoryReqStruct, Byte, Member
<1>3. (\A i \in 1..n : off[i] = <<0, 1, 9, 17>>[i]) /\ off[n + 1] = 19
  OBVIOUS
<1> HIDE DEF off, n
<1>4. \A i \in 1..(n + 1) : Before(HistoryReqStruct, i) = off[i]
  BY <1>1, <1>2, BeforeIs
<1> QED BY <1>1, <1>3, <1>4 DEF SizeOf, n

LEMMA SubscribePlaces ==
  /\ \A i \in 1..3 : Before(SubscribeStruct, i) = <<0, 1, 5>>[i]
  /\ SizeOf(SubscribeStruct) = 6
<1> DEFINE n == 3
           off == <<0, 1, 5, 6>>
<1>1. n \in Nat /\ Len(SubscribeStruct) = n
  BY DEF SubscribeStruct
<1>2. /\ off \in [1..(n + 1) -> Nat] /\ off[1] = 0
      /\ \A k \in 1..n : off[k + 1] = off[k] + SubscribeStruct[k][2]
  BY DEF SubscribeStruct, Byte, Member
<1>3. (\A i \in 1..n : off[i] = <<0, 1, 5>>[i]) /\ off[n + 1] = 6
  OBVIOUS
<1> HIDE DEF off, n
<1>4. \A i \in 1..(n + 1) : Before(SubscribeStruct, i) = off[i]
  BY <1>1, <1>2, BeforeIs
<1> QED BY <1>1, <1>3, <1>4 DEF SizeOf, n

LEMMA AuthPlaces ==
  /\ \A i \in 1..2 : Before(AuthStruct, i) = <<0, 1>>[i]
  /\ SizeOf(AuthStruct) = 65
<1> DEFINE n == 2
           off == <<0, 1, 65>>
<1>1. n \in Nat /\ Len(AuthStruct) = n
  BY DEF AuthStruct
<1>2. /\ off \in [1..(n + 1) -> Nat] /\ off[1] = 0
      /\ \A k \in 1..n : off[k + 1] = off[k] + AuthStruct[k][2]
  BY DEF AuthStruct, Byte, Member
<1>3. (\A i \in 1..n : off[i] = <<0, 1>>[i]) /\ off[n + 1] = 65
  OBVIOUS
<1> HIDE DEF off, n
<1>4. \A i \in 1..(n + 1) : Before(AuthStruct, i) = off[i]
  BY <1>1, <1>2, BeforeIs
<1> QED BY <1>1, <1>3, <1>4 DEF SizeOf, n

-----------------------------------------------------------------------------
(* Each reader finds the members of its struct, inside the struct.         *)

\* A field lies within the bytes from a place on.
Inside(g, at, size) == g[3] + g[4] <= at + size

LEMMA MetricsRead ==
  ASSUME NEW p, NEW o \in Nat
  PROVE  /\ parseMetrics(p, o) = Laid(p, MetricsStruct, o)
         /\ \A g \in parseMetrics(p, o) : g[3] + g[4] \in Int /\ Inside(g, o, 52)
<1>1. DOMAIN MetricsStruct = 1..13
  BY DEF MetricsStruct
<1>2. ASSUME NEW g \in parseMetrics(p, o)
      PROVE  \E i \in 1..13 : g = Get(p, MetricsStruct[i][1], o + Before(MetricsStruct, i),
                                      MetricsStruct[i][2], MetricsStruct[i][3])
  BY MetricsPlaces DEF parseMetrics, Get, MetricsStruct, Byte, Member
<1>3. \A g \in parseMetrics(p, o) : g[3] + g[4] \in Int /\ Inside(g, o, 52)
  BY DEF parseMetrics, Get, Inside
<1>4. ASSUME NEW i \in 1..13
      PROVE  Get(p, MetricsStruct[i][1], o + Before(MetricsStruct, i),
                 MetricsStruct[i][2], MetricsStruct[i][3]) \in parseMetrics(p, o)
  BY MetricsPlaces DEF parseMetrics, Get, MetricsStruct, Byte, Member
<1> QED BY <1>1, <1>2, <1>3, <1>4 DEF Laid

LEMMA RingStatRead ==
  ASSUME NEW p, NEW o \in Nat
  PROVE  /\ parseRingStat(p, o) = Laid(p, RingStatStruct, o)
         /\ \A g \in parseRingStat(p, o) : g[3] + g[4] \in Int /\ Inside(g, o, 29)
<1>1. DOMAIN RingStatStruct = 1..6
  BY DEF RingStatStruct
<1>2. ASSUME NEW g \in parseRingStat(p, o)
      PROVE  \E i \in 1..6 : g = Get(p, RingStatStruct[i][1], o + Before(RingStatStruct, i),
                                     RingStatStruct[i][2], RingStatStruct[i][3])
  BY RingStatPlaces DEF parseRingStat, Get, RingStatStruct, Byte, Member
<1>3. \A g \in parseRingStat(p, o) : g[3] + g[4] \in Int /\ Inside(g, o, 29)
  BY DEF parseRingStat, Get, Inside
<1>4. ASSUME NEW i \in 1..6
      PROVE  Get(p, RingStatStruct[i][1], o + Before(RingStatStruct, i),
                 RingStatStruct[i][2], RingStatStruct[i][3]) \in parseRingStat(p, o)
  BY RingStatPlaces DEF parseRingStat, Get, RingStatStruct, Byte, Member
<1> QED BY <1>1, <1>2, <1>3, <1>4 DEF Laid

LEMMA HeaderRead ==
  /\ parseHeader \subseteq HeaderWritten
  /\ HeaderWritten \subseteq buildHeader
  /\ \A g \in parseHeader : Inside(g, 0, HeaderSize)
<1>1. DOMAIN HeaderStruct = 1..6
  BY DEF HeaderStruct
<1>2. ASSUME NEW g \in parseHeader
      PROVE  \E i \in 1..6 : g = Get(Only("header"), HeaderStruct[i][1], 0 + Before(HeaderStruct, i),
                                     HeaderStruct[i][2], HeaderStruct[i][3])
  BY HeaderPlaces DEF parseHeader, Get, HeaderStruct, Byte, Member
<1>3. ASSUME NEW i \in 1..6
      PROVE  Get(Only("header"), HeaderStruct[i][1], 0 + Before(HeaderStruct, i),
                 HeaderStruct[i][2], HeaderStruct[i][3]) \in buildHeader
  BY HeaderPlaces DEF buildHeader, parseHeader, Get, HeaderStruct, Byte, Member
<1>4. \A g \in parseHeader : Inside(g, 0, HeaderSize)
  BY DEF parseHeader, Get, Inside, HeaderSize
<1> QED BY <1>1, <1>2, <1>3, <1>4 DEF Laid, HeaderWritten

LEMMA ConfigRead ==
  /\ parseConfig(10) = Laid(Only("config"), ConfigStruct, 10)
  /\ \A g \in parseConfig(10) : Inside(g, 10, 5)
<1>1. DOMAIN ConfigStruct = 1..2
  BY DEF ConfigStruct
<1>2. ASSUME NEW g \in parseConfig(10)
      PROVE  \E i \in 1..2 : g = Get(Only("config"), ConfigStruct[i][1], 10 + Before(ConfigStruct, i),
                                     ConfigStruct[i][2], ConfigStruct[i][3])
  BY ConfigPlaces DEF parseConfig, Get, ConfigStruct, Byte, Member
<1>3. \A g \in parseConfig(10) : Inside(g, 10, 5)
  BY DEF parseConfig, Get, Inside
<1>4. ASSUME NEW i \in 1..2
      PROVE  Get(Only("config"), ConfigStruct[i][1], 10 + Before(ConfigStruct, i),
                 ConfigStruct[i][2], ConfigStruct[i][3]) \in parseConfig(10)
  BY ConfigPlaces DEF parseConfig, Get, ConfigStruct, Byte, Member
<1> QED BY <1>1, <1>2, <1>3, <1>4 DEF Laid

LEMMA AckRead ==
  /\ parseAck(10) = Laid(Only("ack"), AckStruct, 10)
  /\ \A g \in parseAck(10) : Inside(g, 10, 2)
<1>1. DOMAIN AckStruct = 1..2
  BY DEF AckStruct
<1>2. ASSUME NEW g \in parseAck(10)
      PROVE  \E i \in 1..2 : g = Get(Only("ack"), AckStruct[i][1], 10 + Before(AckStruct, i),
                                     AckStruct[i][2], AckStruct[i][3])
  BY AckPlaces DEF parseAck, Get, AckStruct, Byte, Member
<1>3. \A g \in parseAck(10) : Inside(g, 10, 2)
  BY DEF parseAck, Get, Inside
<1>4. ASSUME NEW i \in 1..2
      PROVE  Get(Only("ack"), AckStruct[i][1], 10 + Before(AckStruct, i),
                 AckStruct[i][2], AckStruct[i][3]) \in parseAck(10)
  BY AckPlaces DEF parseAck, Get, AckStruct, Byte, Member
<1> QED BY <1>1, <1>2, <1>3, <1>4 DEF Laid

LEMMA SysInfoRead ==
  /\ parseSysInfo(10) = Laid(Only("info"), SysInfoStruct, 10)
  /\ \A g \in parseSysInfo(10) : Inside(g, 10, 160)
<1>1. DOMAIN SysInfoStruct = 1..9
  BY DEF SysInfoStruct
<1>2. ASSUME NEW g \in parseSysInfo(10)
      PROVE  \E i \in 1..9 : g = Get(Only("info"), SysInfoStruct[i][1], 10 + Before(SysInfoStruct, i),
                                     SysInfoStruct[i][2], SysInfoStruct[i][3])
  BY SysInfoPlaces DEF parseSysInfo, Get, SysInfoStruct, Byte, Member
<1>3. \A g \in parseSysInfo(10) : Inside(g, 10, 160)
  BY DEF parseSysInfo, Get, Inside
<1>4. ASSUME NEW i \in 1..9
      PROVE  Get(Only("info"), SysInfoStruct[i][1], 10 + Before(SysInfoStruct, i),
                 SysInfoStruct[i][2], SysInfoStruct[i][3]) \in parseSysInfo(10)
  BY SysInfoPlaces DEF parseSysInfo, Get, SysInfoStruct, Byte, Member
<1> QED BY <1>1, <1>2, <1>3, <1>4 DEF Laid

-----------------------------------------------------------------------------
(* Frames.                                                                 *)

Sizes == MetricsSize = 52 /\ RingStatSize = 29 /\ ReplySize = 4

LEMMA SizesAre == Sizes
BY MetricsPlaces, RingStatPlaces, HistoryPlaces DEF Sizes, MetricsSize, RingStatSize, ReplySize

LEMMA PlainSizeIs ==
  /\ PlainSize("metrics") = 52 /\ PlainSize("config") = 5 /\ PlainSize("ack") = 2
  /\ PlainSize("alert") = 129
  /\ PlainSize("stats") = 87 /\ PlainSize("sysinfo") = 160 /\ PlainSize("auth_req") = 0
BY SizesAre, ConfigPlaces, AckPlaces, AlertPlaces, SysInfoPlaces DEF Sizes, PlainSize

LEMMA StatsRead ==
  /\ parseStats(10) = PlainWritten("stats")
  /\ \A g \in parseStats(10) : Inside(g, 10, 87)
<1>1. ASSUME NEW l \in 1..3
      PROVE  LET o == 10 + RingStatAt(l)
             IN /\ o \in Nat /\ o + 29 <= 97 /\ o = HeaderSize + (l - 1) * RingStatSize
                /\ parseRingStat(<<"ring", l, 0>>, o) = Laid(<<"ring", l, 0>>, RingStatStruct, o)
                /\ \A g \in parseRingStat(<<"ring", l, 0>>, o) : Inside(g, 10, 87)
  <2> DEFINE o == 10 + RingStatAt(l)
  <2>1. o \in Nat /\ o + 29 <= 97 /\ o = HeaderSize + (l - 1) * RingStatSize
    BY SizesAre DEF RingStatAt, HeaderSize, Sizes
  <2> HIDE DEF o
  <2>2. /\ parseRingStat(<<"ring", l, 0>>, o) = Laid(<<"ring", l, 0>>, RingStatStruct, o)
        /\ \A g \in parseRingStat(<<"ring", l, 0>>, o) : g[3] + g[4] \in Int /\ Inside(g, o, 29)
    BY <2>1, RingStatRead
  <2>3. \A g \in parseRingStat(<<"ring", l, 0>>, o) : Inside(g, 10, 87)
    BY <2>1, <2>2 DEF Inside
  <2> QED BY <2>1, <2>2, <2>3 DEF o
<1>2. PlainWritten("stats") =
        UNION {Laid(<<"ring", l, 0>>, RingStatStruct, HeaderSize + (l - 1) * RingStatSize) : l \in 1..3}
  BY DEF PlainWritten
<1> QED BY <1>1, <1>2 DEF parseStats

LEMMA PlainUnderstood ==
  ASSUME NEW kind \in Kinds, NEW n \in Nat
  PROVE  FrameUnderstood(kind, n) /\ (kind # "alert" => PayloadRead(kind, n))
<1>1. /\ PlainParsed(kind) \subseteq PlainWritten(kind)
      /\ kind # "alert" => PlainParsed(kind) = PlainWritten(kind)
      /\ \A g \in PlainParsed(kind) : Inside(g, 10, PlainSize(kind))
  <2>1. CASE kind = "metrics"
    BY <2>1, MetricsRead, PlainSizeIs DEF PlainParsed, PlainWritten, HeaderSize
  <2>2. CASE kind = "config"
    BY <2>2, ConfigRead, PlainSizeIs DEF PlainParsed, PlainWritten, HeaderSize
  <2>3. CASE kind = "ack"
    BY <2>3, AckRead, PlainSizeIs DEF PlainParsed, PlainWritten, HeaderSize
  <2>4. CASE kind = "stats"
    BY <2>4, StatsRead, PlainSizeIs DEF PlainParsed
  <2>5. CASE kind = "sysinfo"
    BY <2>5, SysInfoRead, PlainSizeIs DEF PlainParsed, PlainWritten, HeaderSize
  <2>6. CASE kind = "auth_req"
    BY <2>6 DEF PlainParsed, PlainWritten
  <2>7. CASE kind = "alert"
    BY <2>7 DEF PlainParsed
  <2> QED BY <2>1, <2>2, <2>3, <2>4, <2>5, <2>6, <2>7 DEF Kinds
<1>2. PlainSize(kind) \in Nat
  BY PlainSizeIs DEF Kinds
<1>3. \A g \in parseHeader : g[3] + g[4] <= HeaderSize + PlainSize(kind)
  BY <1>2 DEF parseHeader, Get, HeaderSize
<1>4. FrameUnderstood(kind, n)
  BY <1>1, <1>2, <1>3, HeaderRead
     DEF FrameUnderstood, Parsed, Written, PayloadSize, Inside, HeaderSize
<1>5. kind # "alert" => PayloadRead(kind, n)
  BY <1>1 DEF PayloadRead, Parsed, Written
<1> QED BY <1>4, <1>5

\* The level of an alert is in the frame, and the client does not look at it.
LEMMA AlertNotRead ==
  ASSUME NEW n \in Nat
  PROVE  ~PayloadRead("alert", n)
<1> DEFINE g == Get(Only("alert"), "level", 10, 1, "host")
<1>1. 1 \in DOMAIN AlertStruct /\ AlertStruct[1] = <<"level", 1, "host">>
  BY DEF AlertStruct, Byte, Member
<1>2. g \in Laid(Only("alert"), AlertStruct, HeaderSize)
  <2>1. Before(AlertStruct, 1) = 0
    BY AlertPlaces
  <2>2. g = Get(Only("alert"), AlertStruct[1][1], HeaderSize + Before(AlertStruct, 1),
                AlertStruct[1][2], AlertStruct[1][3])
    BY <1>1, <2>1 DEF HeaderSize
  <2> QED BY <1>1, <2>2 DEF Laid
<1>3. g \in Written("alert", n)
  BY <1>2 DEF Written, PlainWritten, Kinds
<1>4. g \notin parseHeader /\ g \notin buildHeader
  BY DEF parseHeader, buildHeader, Get, Only
<1>5. g \notin HeaderWritten
  BY <1>4, HeaderRead
<1>6. g \notin Parsed("alert", n)
  BY <1>4 DEF Parsed, PlainParsed, Kinds
<1> QED BY <1>3, <1>5, <1>6 DEF PayloadRead

\* An entry of either end of a batch that has one
LEMMA EntryRead ==
  ASSUME NEW kind \in {"raw", "agg"}, NEW n \in Nat \ {0}, NEW i \in Ends(n), NEW k \in Copies(kind)
  PROVE  LET o == 14 + i * EntrySize(kind) + k * 52
             p == <<"entry", i, k>>
         IN /\ parseMetrics(p, o) =
                 Laid(p, MetricsStruct, HeaderSize + ReplySize + i * EntrySize(kind) + k * MetricsSize)
            /\ \A g \in parseMetrics(p, o) : g[3] + g[4] <= HeaderSize + PayloadSize(kind, n)
<1> DEFINE size == EntrySize(kind)
           o == 14 + i * size + k * 52
           p == <<"entry", i, k>>
<1>1. i \in 0..(n - 1) /\ k \in 0..2
  BY DEF Ends, Copies
<1>2. /\ size \in {52, 156}
      /\ o \in Nat /\ o + 52 <= 14 + n * size
  <2>1. CASE kind = "raw"
    <3>1. size = 52 /\ k = 0
      BY <2>1, SizesAre DEF EntrySize, Sizes, Copies
    <3> QED BY <1>1, <3>1
  <2>2. CASE kind = "agg"
    <3>1. size = 156
      BY <2>2, SizesAre DEF EntrySize, Sizes
    <3> QED BY <1>1, <3>1
  <2> QED BY <2>1, <2>2
<1>3. /\ HeaderSize + ReplySize + i * size + k * MetricsSize = o
      /\ HeaderSize + PayloadSize(kind, n) = 14 + n * size
  <2>1. kind \notin Kinds
    BY DEF Kinds
  <2>2. n * size \in Int
    BY <1>2
  <2> QED BY <1>1, <1>2, <2>1, <2>2, SizesAre DEF Sizes, HeaderSize, PayloadSize
<1>4. n * size \in Int
  BY <1>2
<1> HIDE DEF o, size, p
<1>5. /\ parseMetrics(p, o) = Laid(p, MetricsStruct, o)
      /\ \A g \in parseMetrics(p, o) : g[3] + g[4] \in Int /\ Inside(g, o, 52)
  BY <1>2, MetricsRead
<1>6. \A g \in parseMetrics(p, o) : g[3] + g[4] <= 14 + n * size
  BY <1>2, <1>4, <1>5 DEF Inside
<1> QED BY <1>3, <1>5, <1>6 DEF o, size, p

LEMMA HistoryHeadRead ==
  LET head == {Get(Only("history"), "level", 10, 1, "host"),
               Get(Only("history"), "count", 10 + 1, 2, "net"),
               Get(Only("history"), "flags", 10 + 3, 1, "host")}
  IN /\ head = Laid(Only("history"), HistoryStruct, HeaderSize)
     /\ \A g \in head : g[3] + g[4] <= 14
<1> DEFINE head == {Get(Only("history"), "level", 10, 1, "host"),
                    Get(Only("history"), "count", 10 + 1, 2, "net"),
                    Get(Only("history"), "flags", 10 + 3, 1, "host")}
<1>1. DOMAIN HistoryStruct = 1..3
  BY DEF HistoryStruct
<1>2. ASSUME NEW g \in head
      PROVE  \E i \in 1..3 : g = Get(Only("history"), HistoryStruct[i][1],
                                     HeaderSize + Before(HistoryStruct, i),
                                     HistoryStruct[i][2], HistoryStruct[i][3])
  BY HistoryPlaces DEF Get, HistoryStruct, Byte, Member, HeaderSize
<1>3. \A g \in head : g[3] + g[4] <= 14
  BY DEF Get
<1>4. ASSUME NEW i \in 1..3
      PROVE  Get(Only("history"), HistoryStruct[i][1], HeaderSize + Before(HistoryStruct, i),
                 HistoryStruct[i][2], HistoryStruct[i][3]) \in head
  BY HistoryPlaces DEF Get, HistoryStruct, Byte, Member, HeaderSize
<1> QED BY <1>1, <1>2, <1>3, <1>4 DEF Laid

LEMMA HistoryUnderstood ==
  ASSUME NEW kind \in {"raw", "agg"}, NEW n \in Nat \ {0}
  PROVE  FrameUnderstood(kind, n) /\ PayloadRead(kind, n)
<1> DEFINE head == {Get(Only("history"), "level", 10, 1, "host"),
                    Get(Only("history"), "count", 10 + 1, 2, "net"),
                    Get(Only("history"), "flags", 10 + 3, 1, "host")}
           Entry(i, k) == parseMetrics(<<"entry", i, k>>, 14 + i * EntrySize(kind) + k * 52)
           Place(i, k) == Laid(<<"entry", i, k>>, MetricsStruct,
                               HeaderSize + ReplySize + i * EntrySize(kind) + k * MetricsSize)
<1>1. kind \notin Kinds
  BY DEF Kinds
<1>2. ASSUME NEW g \in parseHistoryResp(kind, n, 10), g \notin head
      PROVE  \E i \in Ends(n), k \in Copies(kind) : g \in Entry(i, k)
  <2>1. PICK i \in Ends(n) :
          g \in IF kind = "agg"
                THEN UNION {parseMetrics(<<"entry", i, k>>, 10 + 4 + i * 156 + k * 52) : k \in 0..2}
                ELSE parseMetrics(<<"entry", i, 0>>, 10 + 4 + i * 52)
    BY <1>2 DEF parseHistoryResp
  <2>2. i \in Nat
    BY DEF Ends
  <2>3. CASE kind = "agg"
    <3>1. PICK k \in 0..2 : g \in parseMetrics(<<"entry", i, k>>, 10 + 4 + i * 156 + k * 52)
      BY <2>1, <2>3
    <3>2. EntrySize(kind) = 156 /\ Copies(kind) = 0..2
      BY <2>3, SizesAre DEF EntrySize, Copies, Sizes
    <3>3. 10 + 4 + i * 156 + k * 52 = 14 + i * EntrySize(kind) + k * 52
      BY <2>2, <3>2
    <3> QED BY <3>1, <3>2, <3>3
  <2>4. CASE kind = "raw"
    <3>1. EntrySize(kind) = 52 /\ Copies(kind) = {0}
      BY <2>4, SizesAre DEF EntrySize, Copies, Sizes
    <3>2. 10 + 4 + i * 52 = 14 + i * EntrySize(kind) + 0 * 52
      BY <2>2, <3>1
    <3>3. g \in Entry(i, 0)
      BY <2>1, <2>4, <3>2
    <3> QED BY <3>1, <3>3
  <2> QED BY <2>3, <2>4
<1>3. ASSUME NEW i \in Ends(n), NEW k \in Copies(kind), NEW g \in Entry(i, k)
      PROVE  g \in Place(i, k) /\ g[3] + g[4] <= HeaderSize + PayloadSize(kind, n)
  BY <1>3, EntryRead
<1>4. /\ head = Laid(Only("history"), HistoryStruct, HeaderSize)
      /\ \A g \in head : g[3] + g[4] <= 14
  BY HistoryHeadRead
<1>5. /\ HeaderSize + PayloadSize(kind, n) \in Int /\ 14 <= HeaderSize + PayloadSize(kind, n)
  <2>1. EntrySize(kind) \in {52, 156}
    BY SizesAre DEF EntrySize, Sizes
  <2>2. n * EntrySize(kind) \in Nat
    BY <2>1
  <2> QED BY <1>1, <2>2, SizesAre DEF PayloadSize, HeaderSize, Sizes
<1>6. \A g \in parseHeader \cup head : g[3] + g[4] <= HeaderSize + PayloadSize(kind, n)
  BY <1>5 DEF parseHeader, Get
<1>7. ASSUME NEW i \in Ends(n), NEW k \in Copies(kind) PROVE Place(i, k) \subseteq Written(kind, n)
  BY <1>1 DEF Written
<1>8. HeaderWritten \cup Laid(Only("history"), HistoryStruct, HeaderSize) \subseteq Written(kind, n)
  BY <1>1 DEF Written
<1>9. Parsed(kind, n) = parseHeader \cup parseHistoryResp(kind, n, 10)
  BY <1>1 DEF Parsed
<1>12. ASSUME NEW i \in Ends(n), NEW k \in Copies(kind)
       PROVE  Place(i, k) \subseteq parseHistoryResp(kind, n, 10)
  <2>1. i \in Nat
    BY DEF Ends
  <2>2. Place(i, k) = Entry(i, k)
    BY EntryRead
  <2>3. CASE kind = "agg"
    <3>1. EntrySize(kind) = 156 /\ k \in 0..2
      BY <2>3, SizesAre DEF EntrySize, Copies, Sizes
    <3>2. 10 + 4 + i * 156 + k * 52 = 14 + i * EntrySize(kind) + k * 52
      BY <2>1, <3>1
    <3>3. Entry(i, k) = parseMetrics(<<"entry", i, k>>, 10 + 4 + i * 156 + k * 52)
      BY <3>2
    <3> DEFINE three == UNION {parseMetrics(<<"entry", i, c>>, 10 + 4 + i * 156 + c * 52) : c \in 0..2}
    <3>4. three \subseteq parseHistoryResp(kind, n, 10)
      <4> DEFINE Part(j) == IF kind = "agg"
                            THEN UNION {parseMetrics(<<"entry", j, c>>, 10 + 4 + j * 156 + c * 52) : c \in 0..2}
                            ELSE parseMetrics(<<"entry", j, 0>>, 10 + 4 + j * 52)
      <4>1. three = Part(i)
        BY <2>3
      <4>2. UNION {Part(j) : j \in Ends(n)} \subseteq parseHistoryResp(kind, n, 10)
        BY DEF parseHistoryResp
      <4> HIDE DEF Part, three
      <4> QED BY <4>1, <4>2
    <3>5. parseMetrics(<<"entry", i, k>>, 10 + 4 + i * 156 + k * 52) \subseteq three
      BY <3>1
    <3> HIDE DEF three, Entry, Place
    <3> QED BY <2>2, <3>3, <3>4, <3>5
  <2>4. CASE kind = "raw"
    <3>1. EntrySize(kind) = 52 /\ k = 0
      BY <2>4, SizesAre DEF EntrySize, Copies, Sizes
    <3>2. 10 + 4 + i * 52 = 14 + i * EntrySize(kind) + k * 52
      BY <2>1, <3>1
    <3>3. Entry(i, k) = parseMetrics(<<"entry", i, 0>>, 10 + 4 + i * 52)
      BY <3>1, <3>2
    <3> HIDE DEF Entry, Place
    <3> QED BY <2>2, <2>4, <3>3 DEF parseHistoryResp
  <2> QED BY <2>3, <2>4
<1>13. head \subseteq parseHistoryResp(kind, n, 10)
  BY DEF parseHistoryResp
<1>14. ASSUME NEW g \in Written(kind, n), g \notin HeaderWritten
       PROVE  \/ g \in Laid(Only("history"), HistoryStruct, HeaderSize)
              \/ \E i \in Ends(n), k \in Copies(kind) : g \in Place(i, k)
  <2>1. Written(kind, n) = HeaderWritten \cup
          (Laid(Only("history"), HistoryStruct, HeaderSize)
           \cup UNION {Place(i, k) : i \in Ends(n), k \in Copies(kind)})
    BY <1>1 DEF Written
  <2> HIDE DEF Place
  <2> QED BY <1>14, <2>1
<1> HIDE DEF head, Entry, Place
<1>10. FrameUnderstood(kind, n)
  <2> SUFFICES ASSUME NEW g \in Parsed(kind, n)
               PROVE  g \in Written(kind, n) /\ g[3] + g[4] <= HeaderSize + PayloadSize(kind, n)
    BY DEF FrameUnderstood
  <2>1. CASE g \in parseHeader \cup head
    BY <1>4, <1>6, <1>8, <2>1, HeaderRead
  <2>2. CASE g \in parseHistoryResp(kind, n, 10) /\ g \notin head
    BY <1>2, <1>3, <1>7, <2>2
  <2> QED BY <1>9, <2>1, <2>2
<1>11. PayloadRead(kind, n)
  BY <1>4, <1>9, <1>12, <1>13, <1>14 DEF PayloadRead
<1> QED BY <1>10, <1>11

-----------------------------------------------------------------------------
(* Commands.                                                               *)

LEMMA EveryCommandUnderstood ==
  ASSUME NEW kind \in Commanded, kind # "set_alerts"
  PROVE  CommandUnderstood(kind)
<1>1. CASE kind = "cmd"
  <2>1. DOMAIN CmdStruct = 1..3
    BY DEF CmdStruct
  <2>2. ASSUME NEW i \in 1..3, CmdStruct[i][1] \in {"cmd", "arg"}
        PROVE  Get(Only("cmd"), CmdStruct[i][1], 10 + Before(CmdStruct, i), CmdStruct[i][2],
                   CmdStruct[i][3]) \in buildCmd.put
    BY <2>2, CmdPlaces DEF buildCmd, Get, CmdStruct, Byte, Member
  <2>3. Used(kind) \subseteq buildCmd.put
    BY <1>1, <2>1, <2>2 DEF Used, Laid, HeaderSize, Get
  <2> QED BY <1>1, <2>3, CmdPlaces, HeaderRead DEF CommandUnderstood, Built, Needed, buildCmd
<1>2. CASE kind = "history_req"
  <2>1. DOMAIN HistoryReqStruct = 1..4
    BY DEF HistoryReqStruct
  <2>2. ASSUME NEW i \in 1..4, HistoryReqStruct[i][1] \in {"level", "max"}
        PROVE  Get(Only("req"), HistoryReqStruct[i][1], 10 + Before(HistoryReqStruct, i),
                   HistoryReqStruct[i][2], HistoryReqStruct[i][3]) \in buildHistoryReq.put
    BY <2>2, HistoryReqPlaces DEF buildHistoryReq, Get, HistoryReqStruct, Byte, Member
  <2>3. Used(kind) \subseteq buildHistoryReq.put
    BY <1>2, <2>1, <2>2 DEF Used, Laid, HeaderSize, Get
  <2> QED BY <1>2, <2>3, HistoryReqPlaces, HeaderRead
          DEF CommandUnderstood, Built, Needed, buildHistoryReq
<1>3. CASE kind = "subscribe"
  <2>1. DOMAIN SubscribeStruct = 1..3
    BY DEF SubscribeStruct
  <2>2. ASSUME NEW i \in 1..3, SubscribeStruct[i][1] \in {"level", "interval"}
        PROVE  Get(Only("sub"), SubscribeStruct[i][1], 10 + Before(SubscribeStruct, i),
                   SubscribeStruct[i][2], SubscribeStruct[i][3]) \in buildSubscribe.put
    BY <2>2, SubscribePlaces DEF buildSubscribe, Get, SubscribeStruct, Byte, Member
  <2>3. Used(kind) \subseteq buildSubscribe.put
    BY <1>3, <2>1, <2>2 DEF Used, Laid, HeaderSize, Get
  <2> QED BY <1>3, <2>3, SubscribePlaces, HeaderRead
          DEF CommandUnderstood, Built, Needed, buildSubscribe
<1>4. CASE kind = "auth"
  <2>1. DOMAIN AuthStruct = 1..2
    BY DEF AuthStruct
  <2>2. ASSUME NEW i \in 1..2
        PROVE  Get(Only("auth"), AuthStruct[i][1], 10 + Before(AuthStruct, i),
                   AuthStruct[i][2], AuthStruct[i][3]) \in buildAuth.put
    BY AuthPlaces DEF buildAuth, Get, AuthStruct, Byte, Member
  <2>3. Used(kind) \subseteq buildAuth.put
    BY <1>4, <2>1, <2>2 DEF Used, Laid, HeaderSize
  <2> QED BY <1>4, <2>3, AuthPlaces, HeaderRead DEF CommandUnderstood, Built, Needed, buildAuth
<1> QED BY <1>1, <1>2, <1>3, <1>4 DEF Commanded

\* The byte that the gateway takes for CMD_SET_ALERTS is not a field of the client's.
LEMMA SetAlertsMisread == ~CommandUnderstood("set_alerts")
<1> DEFINE g == Get(Only("cmd"), "arg", 11, 1, "host")
<1>1. 2 \in DOMAIN SetAlertsStruct /\ SetAlertsStruct[2] = <<"arg", 1, "host">>
  BY DEF SetAlertsStruct, Byte, Member
<1>2. g \in Laid(Only("cmd"), SetAlertsStruct, HeaderSize)
  <2>1. Before(SetAlertsStruct, 2) = 1
    BY SetAlertsPlaces
  <2>2. g = Get(Only("cmd"), SetAlertsStruct[2][1], HeaderSize + Before(SetAlertsStruct, 2),
                SetAlertsStruct[2][2], SetAlertsStruct[2][3])
    BY <1>1, <2>1 DEF HeaderSize
  <2> QED BY <1>1, <2>2 DEF Laid
<1>3. g \in Used("set_alerts")
  BY <1>2 DEF Used, Get
<1>4. g \notin Built("set_alerts").put
  BY DEF Built, buildCmd, Get
<1> QED BY <1>3, <1>4 DEF CommandUnderstood

-----------------------------------------------------------------------------
(* Steps.                                                                  *)

\* A frame of history is never empty.
WireInv == WireTypeOK /\ (frame \in {"raw", "agg"} => count > 0)

LEMMA PlainFits ==
  ASSUME NEW kind \in Kinds
  PROVE  HeaderSize + PayloadSize(kind, 0) <= BufferSize
BY PlainSizeIs DEF Kinds, PayloadSize, HeaderSize, BufferSize

LEMMA WireInitStep == WireInit => WireInv
<1> SUFFICES ASSUME WireInit PROVE WireInv
  OBVIOUS
<1>1. HeaderSize + PayloadSize(frame, count) <= BufferSize
  BY PlainFits DEF WireInit, Kinds
<1>2. 0 \in 0..(10 * BatchMax) /\ 0 \in 0..BatchMax
  BY DEF BatchMax
<1>3. "config" \in Kinds /\ "auth" \in Commanded
  BY DEF Kinds, Commanded
<1>4. WireTypeOK
  <2>1. depth \in 1..3 /\ frame \in Kinds \cup {"raw", "agg"}
    BY <1>3 DEF WireInit
  <2>2. read \in BOOLEAN /\ ended \in BOOLEAN
    BY Zenon DEF WireInit
  <2> QED BY <1>1, <1>2, <1>3, <2>1, <2>2 DEF WireInit, WireTypeOK
<1> QED BY <1>4 DEF WireInit, WireInv

LEMMA WireNextStep == WireInv /\ [WireNext]_wireVars => WireInv'
<1> SUFFICES ASSUME WireInv, [WireNext]_wireVars PROVE WireInv'
  OBVIOUS
<1>0. WireTypeOK /\ (frame \in {"raw", "agg"} => count > 0)
  BY DEF WireInv
<1> DEFINE Fits == HeaderSize + PayloadSize(frame, count) <= BufferSize
<1>1. CASE SendBatch
  <2> DEFINE batch == AtMostOf(remaining, BatchMax)
             got == AtMostOf(batch, stock)
  <2>1. /\ batch \in 0..BatchMax /\ got \in 0..BatchMax /\ got <= remaining
    BY <1>0, WireAssumption DEF WireTypeOK, AtMostOf, BatchMax
  <2> HIDE DEF got, batch
  <2>2. remaining' \in 0..(10 * BatchMax)
    <3>1. remaining' = IF got = 0 THEN 0 ELSE remaining - got
      BY <1>1 DEF SendBatch, got, batch
    <3>2. remaining \in 0..(10 * BatchMax)
      BY <1>0 DEF WireTypeOK
    <3> QED BY <2>1, <3>1, <3>2 DEF BatchMax
  <2>3. read' \in BOOLEAN /\ ended' \in BOOLEAN /\ UNCHANGED <<stock, depth, command>>
    BY <1>0, <1>1 DEF SendBatch, WireTypeOK
  <2>4. CASE /\ got > 0 /\ HeaderSize + PayloadSize(HistoryKind(depth), got) <= BufferSize
             /\ frame' = HistoryKind(depth) /\ count' = got
    <3>1. frame' \in {"raw", "agg"}
      BY <2>4 DEF HistoryKind
    <3> QED BY <1>0, <2>1, <2>2, <2>3, <2>4, <3>1 DEF WireInv, WireTypeOK
  <2>5. CASE UNCHANGED <<frame, count>>
    BY <1>0, <2>2, <2>3, <2>5 DEF WireInv, WireTypeOK, PayloadSize
  <2> QED BY <1>1, <2>4, <2>5 DEF SendBatch, got, batch
<1>2. ASSUME NEW n \in Fills, Stocked(n) PROVE WireInv'
  BY <1>0, <1>2 DEF Stocked, WireInv, WireTypeOK
<1>3. ASSUME NEW kind \in Kinds, Reply(kind) PROVE WireInv'
  <2>1. kind \notin {"raw", "agg"} /\ HeaderSize + PayloadSize(kind, 0) <= BufferSize
    BY PlainFits DEF Kinds
  <2>2. 0 \in 0..BatchMax
    BY DEF BatchMax
  <2> QED BY <1>0, <1>3, <2>1, <2>2 DEF Reply, WireInv, WireTypeOK
<1>4. ASSUME NEW kind \in Commanded \ {"history_req"}, SendCommand(kind) PROVE WireInv'
  BY <1>0, <1>4 DEF SendCommand, WireInv, WireTypeOK
<1>5. ASSUME NEW level \in 1..3, NEW max \in Wishes, AskHistory(level, max) PROVE WireInv'
  <2>1. max \in Nat
    BY WireAssumption
  <2>2. remaining' \in 0..(10 * BatchMax)
    BY <1>5, <2>1 DEF AskHistory, BatchMax
  <2> QED BY <1>0, <1>5, <2>2 DEF AskHistory, WireInv, WireTypeOK, Commanded
<1>6. CASE UNCHANGED wireVars
  BY <1>0, <1>6 DEF wireVars, WireInv, WireTypeOK
<1> QED BY <1>1, <1>2, <1>3, <1>4, <1>5, <1>6 DEF WireNext

LEMMA WireInvariant == WireInit /\ [][WireNext]_wireVars => []WireInv
BY WireInitStep, WireNextStep, PTL

\* Every frame of the gateway fits into its buffer, whatever the levels hold
\* and whatever is asked of them.
THEOREM FramesFit == WireSpec => []WireTypeOK
<1>1. WireInv => WireTypeOK
  BY DEF WireInv
<1> QED BY <1>1, WireInvariant, PTL DEF WireSpec

\* The client reads every frame whole, each field where and as the gateway has put
\* it, but the payload of an alert, and the gateway what it uses of every command,
\* but CMD_SET_ALERTS, for all numbers of entries.
THEOREM FramesUnderstood == WireSpec => []FramesAreUnderstood
<1>1. WireInv => FramesAreUnderstood
  <2> SUFFICES ASSUME WireInv PROVE FramesAreUnderstood
    OBVIOUS
  <2>1. count \in Nat /\ frame \in Kinds \cup {"raw", "agg"} /\ command \in Commanded
        /\ (frame \in {"raw", "agg"} => count \in Nat \ {0})
    BY DEF WireInv, WireTypeOK, BatchMax
  <2>2. FrameUnderstood(frame, count)
    BY <2>1, PlainUnderstood, HistoryUnderstood
  <2>3. PayloadRead(frame, count) <=> frame # "alert"
    BY <2>1, PlainUnderstood, HistoryUnderstood, AlertNotRead
  <2>4. CommandUnderstood(command) <=> command # "set_alerts"
    BY <2>1, EveryCommandUnderstood, SetAlertsMisread
  <2>5. command \in CommandsUnderstood <=> CommandUnderstood(command)
    BY <2>1 DEF CommandsUnderstood
  <2> QED BY <2>2, <2>3, <2>4, <2>5 DEF FramesAreUnderstood
<1> QED BY <1>1, WireInvariant, PTL DEF WireSpec
=============================================================================
