------------------------ MODULE GatewaySession_proofs ------------------------
(***************************************************************************)
(* The gateway, for any number of clients, all time limits and any number  *)
(* of frames: what a token protects goes to no client without it, a peer   *)
(* without the token is gone in time, and the watchdog is never late.      *)
(***************************************************************************)
EXTENDS GatewaySession, TLAPS

-----------------------------------------------------------------------------
(* What the steps do to one connection.                                    *)

\* A client that is in has shown the token, and nothing it protects was
\* queued before.
Clean(r) == ~r.early /\ (AuthOn /\ r.authed => r.proved)

\* r becomes s, and s does not wait for the token anew: the deadline and the
\* age are those of r, or do not matter any more.
Kept(r, s) ==
  /\ s \in ConnRecords
  /\ s.kind = r.kind
  /\ Clean(r) => Clean(s)
  /\ Waiting(s) => Waiting(r) /\ s.up = r.up /\ s.wait = r.wait

LEMMA KeptSame == ASSUME NEW r \in ConnRecords PROVE Kept(r, r)
BY DEF Kept

LEMMA KeptTwice ==
  ASSUME NEW r, NEW s, NEW t, Kept(r, s), Kept(s, t) PROVE Kept(r, t)
BY DEF Kept

LEMMA KeptOlder == ASSUME NEW r \in ConnRecords PROVE Kept(r, Older(r))
BY DEF Kept, Older, Clean, Waiting, ConnRecords

LEMMA KeptQueued == ASSUME NEW r \in ConnRecords PROVE Kept(r, Queued(r))
BY DEF Kept, Queued, Clean, Waiting, ConnRecords

\* Data is safe to queue for a client that is in.
LEMMA KeptData ==
  ASSUME NEW r \in ConnRecords, ~AuthOn \/ r.authed PROVE Kept(r, Data(r))
BY GatewayAssumption DEF Kept, Data, Queued, Clean, Waiting, ConnRecords

LEMMA KeptDraining ==
  ASSUME NEW r \in ConnRecords, NEW last \in BOOLEAN
  PROVE  /\ Kept(r, [r EXCEPT !.draining = r.draining \/ last])
         /\ ~Waiting([r EXCEPT !.draining = TRUE]) \/ r.kind # "ws"
BY DEF Kept, Clean, Waiting, ConnRecords

LEMMA KeptAlerted ==
  ASSUME NEW r \in ConnRecords, NEW verdict \in 0..2
  PROVE  Kept(r, Alerted(r, verdict))
<1>1. CASE r.kind = "ws" /\ r.authed /\ verdict > dead
  <2>1. Data(r) \in ConnRecords /\ Kept(r, Data(r))
    BY <1>1, KeptData DEF Kept
  <2>2. Kept(Data(r), [Data(r) EXCEPT !.draining = r.draining \/ verdict = 2])
    <3>1. Data(r).draining = r.draining
      BY DEF Data, Queued, ConnRecords
    <3> QED BY <2>1, <3>1, KeptDraining
  <2> QED BY <1>1, <2>1, <2>2, KeptTwice DEF Alerted
<1>2. CASE ~(r.kind = "ws" /\ r.authed /\ verdict > dead)
  BY <1>2, KeptSame DEF Alerted
<1> QED BY <1>1, <1>2

\* The timer lets every client go whose deadline has come.
LEMMA KeptServed ==
  ASSUME NEW r \in ConnRecords, NEW c, NEW filled
  PROVE  /\ Kept(r, Served(r, c \in filled))
         /\ r.kind = "ws" /\ Late(r) => ~Waiting(Served(r, c \in filled))
<1>1. CASE r.kind = "ws" /\ Late(r)
  BY <1>1 DEF Served, Kept, Clean, Waiting, ConnRecords
<1>2. CASE ~(r.kind = "ws" /\ Late(r)) /\ Streamed(r)
  <2>1. SendMetrics(r, c \in filled) \in ConnRecords /\ Kept(r, SendMetrics(r, c \in filled))
    BY <1>2, KeptData, KeptSame DEF SendMetrics, Streamed, Kept
  <2>2. Kept(SendMetrics(r, c \in filled), [SendMetrics(r, c \in filled) EXCEPT !.since = 0])
    BY <2>1, GatewayAssumption DEF Kept, Clean, Waiting, ConnRecords
  <2> QED BY <1>2, <2>1, <2>2, KeptTwice DEF Served
<1>3. CASE ~(r.kind = "ws" /\ Late(r)) /\ ~Streamed(r)
  BY <1>3, KeptSame DEF Served
<1> QED BY <1>1, <1>2, <1>3

LEMMA KeptReplied ==
  ASSUME NEW r \in ConnRecords, NEW last \in BOOLEAN
  PROVE  Kept(r, Replied(r, last))
BY DEF Kept, Replied, Queued, Clean, Waiting, ConnRecords

\* A client with the right token has shown it, any other is let go.
LEMMA KeptAuthenticated ==
  ASSUME NEW r \in ConnRecords, NEW ok \in BOOLEAN, r.kind = "ws"
  PROVE  Kept(r, Authenticated(r, ok))
<1> DEFINE a == IF ok THEN [r EXCEPT !.authed = TRUE, !.wait = NoDeadline,
                                     !.proved = TRUE, !.up = 0] ELSE r
<1>1. a \in ConnRecords /\ Kept(r, a) /\ a.kind = "ws"
  <2>1. NoDeadline \in -1..AuthTimeout
    BY GatewayAssumption DEF NoDeadline
  <2>2. CASE ok
    BY <2>1, <2>2 DEF Kept, Clean, Waiting, ConnRecords
  <2>3. CASE ~ok
    BY <2>3, KeptSame
  <2> QED BY <2>2, <2>3
<1>2. CASE a.authed
  BY <1>1, <1>2, KeptData, KeptTwice DEF Authenticated
<1>3. CASE ~a.authed
  <2>1. Kept(a, Queued(a)) /\ Queued(a) \in ConnRecords
    BY <1>1, KeptQueued DEF Kept
  <2>2. Queued(a).draining \/ TRUE
    OBVIOUS
  <2>3. [Queued(a) EXCEPT !.draining = TRUE]
          = [Queued(a) EXCEPT !.draining = Queued(a).draining \/ TRUE]
    BY <2>2
  <2>4. Kept(Queued(a), [Queued(a) EXCEPT !.draining = TRUE])
    BY <2>1, <2>3, KeptDraining
  <2> QED BY <1>1, <1>3, <2>1, <2>4, KeptTwice DEF Authenticated
<1> QED BY <1>2, <1>3

\* The upgrade makes a client that is in and clean, or one with a deadline.
LEMMA OpenedKinds ==
  ASSUME NEW r \in ConnRecords, NEW bearer \in BOOLEAN, Clean(r)
  PROVE  /\ Opened(r, bearer) \in ConnRecords /\ Clean(Opened(r, bearer))
         /\ Opened(r, bearer).kind = "ws"
         /\ Waiting(Opened(r, bearer))
              => AuthOn /\ Opened(r, bearer).up = r.up
                        /\ Opened(r, bearer).wait = AuthTimeout
<1> DEFINE w == [Queued(r) EXCEPT !.kind = "ws", !.every = 1, !.since = LongAgo,
                             !.level = 1, !.paused = FALSE]
<1>1. w \in ConnRecords /\ w.kind = "ws" /\ w.up = r.up /\ w.authed = r.authed
      /\ w.proved = r.proved /\ w.early = r.early
  <2>1. 1 \in Pushes /\ LongAgo \in 0..LongAgo
    BY GatewayAssumption
  <2>2. /\ Queued(r) \in ConnRecords /\ Queued(r).up = r.up
        /\ Queued(r).authed = r.authed /\ Queued(r).proved = r.proved
        /\ Queued(r).early = r.early
    BY DEF ConnRecords, Queued
  <2> QED BY <2>1, <2>2 DEF ConnRecords
<1>2. CASE ~AuthOn \/ bearer
  <2> DEFINE v == [w EXCEPT !.authed = TRUE, !.proved = bearer, !.up = 0]
  <2>1. v \in ConnRecords /\ v.authed /\ v.kind = "ws" /\ Clean(v)
    <3> HIDE DEF w
    <3> QED BY <1>1, <1>2 DEF ConnRecords, Clean
  <2>2. Kept(v, Data(v))
    BY <2>1, KeptData
  <2>3. Opened(r, bearer) = Data(v)
    BY <1>2 DEF Opened
  <2>4. ~Waiting(v)
    BY <2>1 DEF Waiting
  <2> QED BY <2>1, <2>2, <2>3, <2>4 DEF Kept
<1>3. CASE ~(~AuthOn \/ bearer)
  <2> DEFINE v == [w EXCEPT !.authed = FALSE, !.wait = AuthTimeout]
  <2>1. v \in ConnRecords /\ v.kind = "ws" /\ v.up = r.up /\ v.wait = AuthTimeout
        /\ Clean(v)
    <3>1. AuthTimeout \in -1..AuthTimeout
      BY GatewayAssumption
    <3> HIDE DEF w
    <3> QED BY <1>1, <3>1 DEF ConnRecords, Clean
  <2>2. Opened(r, bearer) = v
    BY <1>3 DEF Opened
  <2> QED BY <1>3, <2>1, <2>2
<1> QED BY <1>2, <1>3

\* What a second does to a connection
LEMMA AgedFields ==
  ASSUME NEW r \in ConnRecords
  PROVE  /\ Aged(r) \in ConnRecords /\ Aged(r).kind = r.kind
         /\ Clean(r) => Clean(Aged(r))
         /\ Waiting(Aged(r)) = Waiting(r)
         /\ Waiting(r) => Aged(r).up = r.up + 1
         /\ Aged(r).wait = IF r.wait > 0 THEN r.wait - 1 ELSE r.wait
<1>1. \A n \in 0..LongAgo : Least(n + 1, LongAgo) \in 0..LongAgo
  BY GatewayAssumption DEF Least
<1>2. (r.wait > 0 => r.wait - 1 \in -1..AuthTimeout) /\ r.up + 1 \in Nat
      /\ r.since \in 0..LongAgo
  BY GatewayAssumption DEF ConnRecords
<1> QED BY <1>1, <1>2 DEF Aged, ConnRecords, Clean, Waiting

-----------------------------------------------------------------------------
(* What the steps do to all connections.                                   *)

CleanInv == \A c \in Conns : Clean(conn[c])

\* Everything but the upgrade that happens in the turn of a connection
TurnStep(c) ==
  \/ Flush(c) \/ WsMessage(c) \/ Broken(c)
  \/ \E last \in BOOLEAN : Request(c, last)
  \/ \E pause, last \in BOOLEAN : PauseAll(c, pause, last)

\* A turn keeps every connection, and the rest of the gateway as it is.
AllKept ==
  /\ conn' \in [Conns -> ConnRecords]
  /\ \A d \in Conns : Kept(conn[d], conn'[d])
  /\ batch' \in 0..MaxBatch
  /\ UNCHANGED <<todo, listen, turn, lag, due, daemon>>

\* One connection is changed, the others are not.
LEMMA ReceiveOne ==
  ASSUME TypeOK, NEW c \in Conns, NEW r, Kept(conn[c], r),
         Receive(c, [conn EXCEPT ![c] = r])
  PROVE  AllKept
<1>1. r \in ConnRecords
  BY DEF Kept
<1>2. conn' = [conn EXCEPT ![c] = r] /\ conn \in [Conns -> ConnRecords]
  BY DEF Receive, TypeOK
<1>3. ASSUME NEW d \in Conns PROVE Kept(conn[d], conn'[d])
  BY <1>2, KeptSame
<1>4. batch' \in 0..MaxBatch
  BY GatewayAssumption DEF Receive, TypeOK
<1> QED BY <1>1, <1>2, <1>3, <1>4 DEF Receive, AllKept

LEMMA MessageOne ==
  ASSUME TypeOK, NEW c \in Conns, NEW r, conn[c].authed => Kept(conn[c], r),
         Message(c, r)
  PROVE  AllKept
<1>1. conn[c] \in ConnRecords
  BY DEF TypeOK
<1> DEFINE s == IF conn[c].authed THEN r ELSE [conn[c] EXCEPT !.draining = TRUE]
<1>2. [conn[c] EXCEPT !.draining = TRUE]
        = [conn[c] EXCEPT !.draining = conn[c].draining \/ TRUE]
  BY <1>1 DEF ConnRecords
<1>3. Kept(conn[c], s)
  BY <1>1, <1>2, KeptDraining
<1> QED BY <1>3, ReceiveOne DEF Message

LEMMA WsMessageKept ==
  ASSUME TypeOK, NEW c \in Conns, WsMessage(c) PROVE AllKept
<1>1. conn[c] \in ConnRecords
  BY DEF TypeOK
<1>2. ASSUME NEW ok \in BOOLEAN, CmdAuth(c, ok) PROVE AllKept
  BY <1>1, <1>2, KeptAuthenticated, ReceiveOne DEF CmdAuth
<1>3. ASSUME NEW l \in {1, 2}, NEW ms \in Pushes \cup {0}, Subscribe(c, l, ms)
      PROVE  AllKept
  <2> DEFINE s == [conn[c] EXCEPT !.level = l,
                                  !.every = IF ms \in Pushes THEN ms ELSE @]
  <2>1. Kept(conn[c], s) /\ s \in ConnRecords /\ s.authed = conn[c].authed
    BY <1>1 DEF Kept, Clean, Waiting, ConnRecords
  <2>2. conn[c].authed => Kept(conn[c], Data(s))
    BY <2>1, KeptData, KeptTwice
  <2> QED BY <1>3, <2>2, MessageOne DEF Subscribe
<1>4. ASSUME NEW pause \in BOOLEAN, Pause(c, pause) PROVE AllKept
  <2> DEFINE s == [conn[c] EXCEPT !.paused = pause]
  <2>1. Kept(conn[c], s) /\ s \in ConnRecords /\ s.authed = conn[c].authed
    BY <1>1 DEF Kept, Clean, Waiting, ConnRecords
  <2>2. conn[c].authed => Kept(conn[c], Data(s))
    BY <2>1, KeptData, KeptTwice
  <2> QED BY <1>4, <2>2, MessageOne DEF Pause
<1>5. ASSUME NEW answered \in BOOLEAN, Ask(c, answered) PROVE AllKept
  BY <1>1, <1>5, KeptData, KeptSame, MessageOne DEF Ask
<1>6. ASSUME NEW last \in BOOLEAN, Control(c, last) PROVE AllKept
  <2>1. Kept(conn[c], [Queued(conn[c]) EXCEPT !.draining = conn[c].draining \/ last])
    BY <1>1 DEF Kept, Queued, Clean, Waiting, ConnRecords
  <2> QED BY <1>6, <2>1, ReceiveOne DEF Control
<1> QED BY <1>2, <1>3, <1>4, <1>5, <1>6 DEF WsMessage

LEMMA TurnKept == ASSUME TypeOK, NEW c \in Conns, TurnStep(c) PROVE AllKept
<1>1. conn \in [Conns -> ConnRecords] /\ conn[c] \in ConnRecords
  BY DEF TypeOK
<1>2. CASE Flush(c)
  <2>1. Kept(conn[c], [conn[c] EXCEPT !.out = "none"])
    BY <1>1 DEF Kept, Clean, Waiting, ConnRecords
  <2>2. conn' = [conn EXCEPT ![c] = [conn[c] EXCEPT !.out = "none"]]
    BY <1>1, <1>2 DEF Flush
  <2>3. conn' \in [Conns -> ConnRecords] /\ \A d \in Conns : Kept(conn[d], conn'[d])
    BY <1>1, <2>1, <2>2, KeptSame DEF Kept
  <2> QED BY <1>2, <2>3, GatewayAssumption DEF Flush, AllKept
<1>3. CASE Broken(c)
  <2>1. Kept(conn[c], [conn[c] EXCEPT !.closing = TRUE])
    BY <1>1 DEF Kept, Clean, Waiting, ConnRecords
  <2> QED BY <1>1, <1>3, <2>1, ReceiveOne DEF Broken
<1>4. ASSUME NEW last \in BOOLEAN, Request(c, last) PROVE AllKept
  BY <1>1, <1>4, KeptReplied, ReceiveOne DEF Request
<1>5. ASSUME NEW pause \in BOOLEAN, NEW last \in BOOLEAN, PauseAll(c, pause, last)
      PROVE  AllKept
  <2>1. ASSUME NEW d \in Conns
        PROVE  Kept(conn[d], conn'[d]) /\ conn'[d] \in ConnRecords
    <3>1. conn[d] \in ConnRecords
      BY <1>1
    <3>2. Kept(conn[d], [conn[d] EXCEPT !.paused = pause])
      BY <3>1 DEF Kept, Clean, Waiting, ConnRecords
    <3>3. Kept(conn[d], conn'[d])
      BY <1>5, <3>1, <3>2, KeptReplied, KeptSame DEF PauseAll, Receive
    <3> QED BY <3>3 DEF Kept
  <2>2. conn' \in [Conns -> ConnRecords]
    BY <1>5, <2>1 DEF PauseAll, Receive
  <2>3. batch' \in 0..MaxBatch
    BY <1>5, GatewayAssumption DEF PauseAll, Receive, TypeOK
  <2> QED BY <1>5, <2>1, <2>2, <2>3 DEF PauseAll, Receive, AllKept
<1> QED BY <1>2, <1>3, <1>4, <1>5, WsMessageKept DEF TurnStep

\* The timer keeps every connection, and lets those go that are late.
LEMMA PollKept ==
  ASSUME TypeOK, NEW fires \in BOOLEAN, NEW filled \in SUBSET Conns,
         StartPoll(fires, filled)
  PROVE  /\ conn' \in [Conns -> ConnRecords]
         /\ \A d \in Conns :
              /\ Kept(conn[d], conn'[d])
              /\ fires /\ conn[d].kind = "ws" /\ Late(conn[d]) => ~Waiting(conn'[d])
<1>1. conn \in [Conns -> ConnRecords] /\ Verdict \in 0..2
  BY DEF TypeOK, Verdict
<1>2. ASSUME NEW d \in Conns
      PROVE  /\ Kept(conn[d], conn'[d])
             /\ fires /\ conn[d].kind = "ws" /\ Late(conn[d]) => ~Waiting(conn'[d])
  <2> DEFINE o == Older(conn[d])
             a == Alerted(o, Verdict)
  <2>1. o \in ConnRecords /\ Kept(conn[d], o)
    BY <1>1, KeptOlder DEF Kept
  <2>2. a \in ConnRecords /\ Kept(o, a)
    BY <1>1, <2>1, KeptAlerted DEF Kept
  <2>3. Kept(a, Served(a, d \in filled))
        /\ (a.kind = "ws" /\ Late(a) => ~Waiting(Served(a, d \in filled)))
    BY <2>2, KeptServed
  <2>4. conn'[d] = IF fires THEN Served(a, d \in filled) ELSE o
    BY DEF StartPoll, TimerFn
  <2>5. CASE ~fires
    BY <2>1, <2>4, <2>5
  <2>6. CASE fires
    <3>1. Kept(conn[d], conn'[d])
      BY <2>1, <2>2, <2>3, <2>4, <2>6, KeptTwice
    <3>2. ASSUME conn[d].kind = "ws", Late(conn[d]), Waiting(conn'[d]) PROVE FALSE
      <4>1. Waiting(a) /\ a.wait = o.wait /\ o.wait = conn[d].wait /\ a.kind = "ws"
        BY <2>1, <2>2, <2>3, <2>4, <2>6, <3>2 DEF Kept
      <4>2. Late(a)
        BY <3>2, <4>1 DEF Late, Waiting
      <4> QED BY <2>3, <2>4, <2>6, <3>2, <4>1, <4>2
    <3> QED BY <3>1, <3>2
  <2> QED BY <2>5, <2>6
<1>3. ASSUME NEW d \in Conns PROVE conn'[d] \in ConnRecords
  BY <1>2, <1>3 DEF Kept
<1>4. conn' = [d \in Conns |-> conn'[d]]
  BY DEF StartPoll, TimerFn
<1> QED BY <1>2, <1>3, <1>4

\* A place that was closed, or has just been accepted, is clean.
LEMMA FreshAndGone ==
  /\ Gone \in ConnRecords /\ Clean(Gone) /\ Gone.kind = "none" /\ ~Waiting(Gone)
  /\ Fresh \in ConnRecords /\ Clean(Fresh) /\ Fresh.kind = "http" /\ Fresh.up = 0
<1>1. 1 \in Pushes /\ 0 \in 0..LongAgo /\ NoDeadline \in -1..AuthTimeout
  BY GatewayAssumption DEF NoDeadline
<1> QED BY <1>1 DEF Gone, Fresh, ConnRecords, Clean, Waiting

-----------------------------------------------------------------------------
(* Types, and what a token protects.                                       *)

SafeInv == TypeOK /\ CleanInv

LEMMA SafeInit == Init => SafeInv
<1> SUFFICES ASSUME Init PROVE SafeInv
  OBVIOUS
<1>1. conn \in [Conns -> ConnRecords] /\ CleanInv
  BY FreshAndGone DEF Init, CleanInv
<1>2. 0 \in 0..MaxLag /\ 0 \in 0..MaxBatch /\ WatchPeriod \in 0..WatchPeriod
      /\ age \in 0..MaxAge
  <2>1. /\ SoftLimit \in Nat /\ HardLimit \in Nat /\ SoftLimit < HardLimit
        /\ WatchPeriod \in Nat /\ MaxLag \in Nat /\ MaxBatch \in Nat /\ MaxAge \in Nat
        /\ HardLimit + WatchPeriod + MaxLag < MaxAge
    BY GatewayAssumption
  <2>2. age \in 0..SoftLimit
    BY DEF Init
  <2> QED BY <2>1, <2>2
<1>3. /\ turn \in Conns \cup {NoConn} /\ todo \in SUBSET Conns /\ dead \in 0..2
  BY DEF Init
<1>4. listen \in BOOLEAN /\ due \in BOOLEAN /\ mapped \in BOOLEAN
  BY DEF Init
<1> QED BY <1>1, <1>2, <1>3, <1>4 DEF Init, SafeInv, TypeOK

LEMMA SafeStep == SafeInv /\ [Next]_vars => SafeInv'
<1> SUFFICES ASSUME SafeInv, [Next]_vars PROVE SafeInv'
  OBVIOUS
<1>1. TypeOK /\ CleanInv /\ conn \in [Conns -> ConnRecords]
  BY DEF SafeInv, TypeOK
<1>2. ASSUME NEW c \in Conns, TurnStep(c) PROVE SafeInv'
  <2>1. AllKept
    BY <1>1, <1>2, TurnKept
  <2>2. CleanInv'
    BY <1>1, <2>1 DEF AllKept, CleanInv, Kept
  <2> QED BY <1>1, <2>1, <2>2 DEF AllKept, SafeInv, TypeOK, daemon
<1>3. ASSUME NEW c \in Conns, NEW bearer \in BOOLEAN, Upgrade(c, bearer) PROVE SafeInv'
  <2>1. Opened(conn[c], bearer) \in ConnRecords /\ Clean(Opened(conn[c], bearer))
    BY <1>1, OpenedKinds DEF CleanInv
  <2>2. conn' = [conn EXCEPT ![c] = Opened(conn[c], bearer)]
    BY <1>3 DEF Upgrade, Receive
  <2>3. conn' \in [Conns -> ConnRecords] /\ CleanInv'
    BY <1>1, <2>1, <2>2 DEF CleanInv
  <2>4. batch' \in 0..MaxBatch
    BY <1>1, <1>3, GatewayAssumption DEF Upgrade, Receive, TypeOK
  <2> QED BY <1>1, <1>3, <2>3, <2>4 DEF Upgrade, Receive, SafeInv, TypeOK, daemon
<1>4. ASSUME NEW fires \in BOOLEAN, NEW filled \in SUBSET Conns, StartPoll(fires, filled)
      PROVE  SafeInv'
  <2>1. conn' \in [Conns -> ConnRecords] /\ CleanInv'
    BY <1>1, <1>4, PollKept DEF CleanInv, Kept
  <2>2. dead' \in 0..2 /\ watch' \in 0..WatchPeriod
    <3>1. dead \in 0..2 /\ watch \in 0..WatchPeriod /\ 0 \in 0..WatchPeriod
      BY <1>1, GatewayAssumption DEF TypeOK
    <3>2. Verdict \in 0..2
      BY <3>1 DEF Verdict
    <3> QED BY <1>4, <3>1, <3>2 DEF StartPoll
  <2>3. todo' \in SUBSET Conns /\ listen' \in BOOLEAN /\ lag' \in 0..MaxLag
        /\ due' \in BOOLEAN
    BY <1>4, GatewayAssumption DEF StartPoll, Open
  <2> QED BY <1>1, <1>4, <2>1, <2>2, <2>3 DEF StartPoll, SafeInv, TypeOK
<1>5. ASSUME NEW c \in Conns, Visit(c) PROVE SafeInv'
  <2>1. batch' \in 0..MaxBatch /\ turn' \in Conns /\ todo' \in SUBSET Conns
    BY <1>1, <1>5, GatewayAssumption DEF Visit, TypeOK
  <2> QED BY <1>1, <1>5, <2>1 DEF Visit, SafeInv, TypeOK, CleanInv, daemon
<1>6. ASSUME NEW c \in Conns, EndTurn(c) PROVE SafeInv'
  <2>1. conn' \in [Conns -> ConnRecords] /\ CleanInv'
    BY <1>1, <1>6, FreshAndGone DEF EndTurn, CleanInv
  <2> QED BY <1>1, <1>6, <2>1, GatewayAssumption DEF EndTurn, SafeInv, TypeOK, daemon
<1>7. CASE Listener
  <2>1. conn' \in [Conns -> ConnRecords] /\ CleanInv'
    BY <1>1, <1>7, FreshAndGone DEF Listener, CleanInv
  <2> QED BY <1>1, <1>7, <2>1 DEF Listener, SafeInv, TypeOK, daemon
<1>8. CASE Tick
  <2>1. conn' \in [Conns -> ConnRecords] /\ CleanInv'
    BY <1>1, <1>8, AgedFields DEF Tick, CleanInv
  <2>2. lag' \in 0..MaxLag /\ watch' \in 0..WatchPeriod /\ age' \in 0..MaxAge
    BY <1>1, <1>8, GatewayAssumption DEF Tick, TypeOK, Least
  <2> QED BY <1>1, <1>8, <2>1, <2>2 DEF Tick, SafeInv, TypeOK
<1>9. CASE DaemonWrite \/ DaemonRestart
  <2>1. age' \in 0..MaxAge /\ mapped' \in BOOLEAN
    <3>1. age \in 0..MaxAge /\ mapped \in BOOLEAN /\ 0 \in 0..MaxAge
      BY <1>1, GatewayAssumption DEF TypeOK
    <3>2. CASE DaemonWrite
      BY <3>1, <3>2 DEF DaemonWrite
    <3>3. CASE DaemonRestart
      BY <3>1, <3>3 DEF DaemonRestart, daemon
    <3> QED BY <1>9, <3>2, <3>3
  <2> QED BY <1>1, <1>9, <2>1
        DEF DaemonWrite, DaemonRestart, SafeInv, TypeOK, CleanInv, loop
<1>10. CASE UNCHANGED vars
  BY <1>1, <1>10 DEF vars, SafeInv, TypeOK, CleanInv
<1> QED
  BY <1>2, <1>3, <1>4, <1>5, <1>6, <1>7, <1>8, <1>9, <1>10
  DEF Next, LoopStep, TurnStep, HttpMessage

LEMMA SafeAlways == Spec => []SafeInv
BY SafeInit, SafeStep, PTL DEF Spec

\* Types, for any number of clients and all time limits: intervals taken from
\* clients stay in range, and no deadline is further than its timeout
THEOREM TypeCorrect == Spec => []TypeOK
<1>1. SafeInv => TypeOK
  BY DEF SafeInv
<1> QED BY <1>1, SafeAlways, PTL

\* Nothing that a token protects is ever queued for a client that has not
\* shown it: not by the timer, nor the watchdog, nor any message
THEOREM DataIsProtected == Spec => []DataNeedsToken
<1>1. SafeInv => DataNeedsToken
  BY DEF SafeInv, CleanInv, Clean, DataNeedsToken
<1> QED BY <1>1, SafeAlways, PTL

-----------------------------------------------------------------------------
(* The token in time.                                                      *)

\* The age that the deadline of a client may bring it to: the header timeout
\* may be noticed a poll late, and the poll that upgrades takes its time.
Longest == HeaderTimeout + AuthTimeout + 2 * MaxLag

\* A request is not older than the header timeout when the poll begins, or a
\* poll older until it is visited.  A client's age and what is left of its
\* deadline add up; when nothing is left, the timer is due, and the age grows
\* with the poll alone.
DeadlineOf(c) ==
  /\ conn[c].kind = "http" =>
       conn[c].up <= lag + HeaderTimeout
                     + (IF c \in todo \/ turn = c THEN MaxLag ELSE 0)
  /\ conn[c].kind = "ws" /\ Waiting(conn[c]) =>
       /\ conn[c].wait # NoDeadline
       /\ conn[c].up + conn[c].wait
            <= Longest + (IF conn[c].wait = 0 /\ due THEN lag ELSE 0)

DeadlineInv == AuthOn => \A c \in Conns : DeadlineOf(c)

\* What a connection that is kept needs of its surroundings
LEMMA KeptDeadline ==
  ASSUME NEW c \in Conns, TypeOK, AuthOn, DeadlineOf(c), Kept(conn[c], conn'[c]),
         lag' = lag, due' = due, c \in todo \/ turn = c => c \in todo' \/ turn' = c
  PROVE  DeadlineOf(c)'
<1>1. /\ conn[c].kind = "http" => Waiting(conn[c])
      /\ conn'[c].kind = "http" => Waiting(conn'[c])
  BY DEF Waiting
<1>2. (IF c \in todo \/ turn = c THEN MaxLag ELSE 0)
        <= (IF c \in todo' \/ turn' = c THEN MaxLag ELSE 0)
  BY GatewayAssumption
<1>3. conn[c].up \in Nat /\ lag \in Nat /\ HeaderTimeout \in Nat /\ MaxLag \in Nat
  BY GatewayAssumption DEF TypeOK, ConnRecords
<1>4. conn'[c].kind = conn[c].kind
      /\ (Waiting(conn'[c]) => /\ Waiting(conn[c]) /\ conn'[c].up = conn[c].up
                               /\ conn'[c].wait = conn[c].wait)
  BY DEF Kept
<1> QED BY <1>1, <1>2, <1>3, <1>4 DEF DeadlineOf

LEMMA DeadlineStep == SafeInv /\ SafeInv' /\ DeadlineInv /\ [Next]_vars => DeadlineInv'
<1> SUFFICES ASSUME SafeInv, SafeInv', DeadlineInv, [Next]_vars, AuthOn,
                    NEW c \in Conns
             PROVE  DeadlineOf(c)'
  BY DEF DeadlineInv
<1>1. /\ TypeOK /\ DeadlineOf(c) /\ conn[c] \in ConnRecords /\ Clean(conn[c])
      /\ conn'[c] \in ConnRecords
      /\ conn \in [Conns -> ConnRecords]
  BY DEF SafeInv, TypeOK, CleanInv, DeadlineInv
<1>2. /\ conn[c].up \in Nat /\ conn[c].wait \in -1..AuthTimeout /\ lag \in 0..MaxLag
      /\ HeaderTimeout \in Nat /\ AuthTimeout \in Nat /\ MaxLag \in Nat \ {0}
      /\ NoDeadline = -1 /\ NoConn \notin Conns
  BY <1>1, GatewayAssumption DEF TypeOK, ConnRecords, NoDeadline
<1>3. ASSUME NEW d \in Conns, TurnStep(d) PROVE DeadlineOf(c)'
  <2>1. AllKept
    BY <1>1, <1>3, TurnKept
  <2> QED BY <1>1, <2>1, KeptDeadline DEF AllKept
<1>4. ASSUME NEW d \in Conns, NEW bearer \in BOOLEAN, Upgrade(d, bearer)
      PROVE  DeadlineOf(c)'
  <2>1. /\ turn = d /\ conn[d].kind = "http" /\ lag' = lag /\ due' = due
        /\ todo' = todo /\ turn' = turn
        /\ conn' = [conn EXCEPT ![d] = Opened(conn[d], bearer)]
    BY <1>4 DEF Upgrade, Receive
  <2>2. CASE c = d
    <3>1. conn[c].up <= lag + HeaderTimeout + MaxLag
      BY <1>1, <2>1, <2>2 DEF DeadlineOf
    <3>2. /\ conn'[c].kind = "ws"
          /\ Waiting(conn'[c]) => conn'[c].up = conn[c].up /\ conn'[c].wait = AuthTimeout
      BY <1>1, <2>1, <2>2, OpenedKinds
    <3> QED BY <1>2, <2>1, <3>1, <3>2 DEF DeadlineOf, Longest
  <2>3. CASE c # d
    BY <1>1, <2>1, <2>3, KeptSame, KeptDeadline
  <2> QED BY <2>2, <2>3
<1>5. ASSUME NEW fires \in BOOLEAN, NEW filled \in SUBSET Conns, StartPoll(fires, filled)
      PROVE  DeadlineOf(c)'
  <2>1. Kept(conn[c], conn'[c])
        /\ (fires /\ conn[c].kind = "ws" /\ Late(conn[c]) => ~Waiting(conn'[c]))
    BY <1>1, <1>5, PollKept
  <2>2. /\ turn = NoConn /\ todo = {} /\ lag' = 0 /\ todo' = Open
        /\ due => fires
        /\ turn' = turn
    BY <1>5 DEF StartPoll
  <2>3. CASE conn[c].kind = "http"
    <3>1. conn[c].up <= lag + HeaderTimeout /\ c \in todo'
      BY <1>1, <1>2, <2>2, <2>3 DEF DeadlineOf, Open
    <3>2. conn'[c].kind = "http" /\ conn'[c].up = conn[c].up
      BY <2>1, <2>3 DEF Kept, Waiting
    <3> QED BY <1>2, <2>2, <3>1, <3>2 DEF DeadlineOf
  <2>4. CASE conn[c].kind # "http" /\ Waiting(conn'[c])
    <3>1. /\ Waiting(conn[c]) /\ conn[c].kind = "ws" /\ conn'[c].kind = "ws"
          /\ conn'[c].up = conn[c].up /\ conn'[c].wait = conn[c].wait
      BY <2>1, <2>4 DEF Kept, Waiting
    <3>2. conn[c].wait = 0 => ~due
      BY <2>1, <2>2, <2>4, <3>1 DEF Late, Waiting
    <3> QED BY <1>1, <1>2, <2>2, <3>1, <3>2 DEF DeadlineOf, Longest
  <2>5. CASE conn[c].kind # "http" /\ ~Waiting(conn'[c])
    BY <2>1, <2>5 DEF Kept, DeadlineOf
  <2> QED BY <2>3, <2>4, <2>5
<1>6. ASSUME NEW d \in Conns, Visit(d) PROVE DeadlineOf(c)'
  BY <1>1, <1>2, <1>6, KeptSame, KeptDeadline DEF Visit
<1>7. ASSUME NEW d \in Conns, EndTurn(d) PROVE DeadlineOf(c)'
  <2>1. PICK expired \in HeaderTime(conn[d]) :
          conn' = IF conn[d].closing \/ Drained(conn[d]) \/ expired
                  THEN [conn EXCEPT ![d] = Gone] ELSE conn
    BY <1>7 DEF EndTurn
  <2>2. turn = d /\ turn' = NoConn /\ todo' = todo /\ lag' = lag /\ due' = due
    BY <1>7 DEF EndTurn
  <2>3. CASE c # d
    <3>1. conn'[c] = conn[c]
      BY <1>1, <2>1, <2>3
    <3> QED BY <1>1, <2>2, <2>3, <3>1, KeptSame, KeptDeadline
  <2>4. CASE c = d /\ conn'[c] = Gone
    BY <2>4, FreshAndGone DEF DeadlineOf
  <2>5. CASE c = d /\ conn'[c] # Gone
    <3>1. conn' = conn /\ ~expired
      BY <1>1, <2>1, <2>5
    <3>2. conn[c].kind = "http" => conn[c].up - lag <= HeaderTimeout
      <4> SUFFICES ASSUME conn[c].kind = "http", ~(conn[c].up - lag <= HeaderTimeout)
                   PROVE  FALSE
        OBVIOUS
      <4>1. ~(conn[c].up - lag < HeaderTimeout) /\ conn[c].up - lag # HeaderTimeout
        BY <1>2
      <4>2. HeaderTime(conn[c]) = {TRUE}
        BY <4>1 DEF HeaderTime
      <4>3. expired \in {TRUE}
        BY <2>1, <2>5, <4>2
      <4> QED BY <3>1, <4>3
    <3>3. conn'[c].kind = "http" => conn'[c].up <= lag' + HeaderTimeout
      BY <1>2, <2>2, <3>1, <3>2
    <3>4. 0 <= (IF c \in todo' \/ turn' = c THEN MaxLag ELSE 0)
      BY <1>2
    <3>5. conn'[c].kind = "http" =>
            conn'[c].up <= lag' + HeaderTimeout
                           + (IF c \in todo' \/ turn' = c THEN MaxLag ELSE 0)
      BY <1>2, <2>2, <3>1, <3>3, <3>4
    <3> QED BY <1>1, <2>2, <3>1, <3>5 DEF DeadlineOf
  <2> QED BY <2>3, <2>4, <2>5
<1>8. CASE Listener
  <2>1. todo' = todo /\ turn' = turn /\ lag' = lag /\ due' = due
    BY <1>8 DEF Listener, daemon
  <2>2. CASE conn'[c] = conn[c]
    BY <1>1, <2>1, <2>2, KeptSame, KeptDeadline
  <2>3. CASE conn'[c] # conn[c]
    <3>1. conn'[c] = Fresh
      BY <1>1, <1>8, <2>3 DEF Listener
    <3>2. conn'[c].kind = "http" /\ conn'[c].up = 0
      BY <3>1, FreshAndGone
    <3> QED BY <1>2, <2>1, <3>2 DEF DeadlineOf
  <2> QED BY <2>2, <2>3
<1>9. CASE Tick
  <2>1. /\ lag' = lag + 1 /\ due' = TRUE /\ todo' = todo /\ turn' = turn
        /\ conn'[c] = Aged(conn[c])
    BY <1>9 DEF Tick
  <2>2. /\ conn'[c].kind = conn[c].kind /\ Waiting(conn'[c]) = Waiting(conn[c])
        /\ Waiting(conn[c]) => conn'[c].up = conn[c].up + 1
        /\ conn'[c].wait = IF conn[c].wait > 0 THEN conn[c].wait - 1 ELSE conn[c].wait
    BY <1>1, <2>1, AgedFields
  <2>3. CASE conn[c].kind = "http"
    <3>1. conn'[c].up = conn[c].up + 1
      BY <2>2, <2>3 DEF Waiting
    <3> QED BY <1>1, <1>2, <2>1, <2>2, <2>3, <3>1 DEF DeadlineOf
  <2>4. CASE conn[c].kind = "ws" /\ Waiting(conn[c])
    <3>1. conn[c].wait # NoDeadline /\ Longest \in Nat
          /\ conn[c].up + conn[c].wait
               <= Longest + (IF conn[c].wait = 0 /\ due THEN lag ELSE 0)
      BY <1>1, <1>2, <2>4 DEF DeadlineOf, Longest
    <3>2. conn'[c].wait # NoDeadline
          /\ conn'[c].up + conn'[c].wait
               <= Longest + (IF conn'[c].wait = 0 /\ due' THEN lag' ELSE 0)
      <4>1. CASE conn[c].wait = 0
        BY <1>2, <2>1, <2>2, <2>4, <3>1, <4>1
      <4>2. CASE conn[c].wait > 0
        BY <1>2, <2>1, <2>2, <2>4, <3>1, <4>2
      <4> QED BY <1>2, <3>1, <4>1, <4>2
    <3>3. Longest' = Longest
      BY DEF Longest
    <3> QED BY <2>2, <2>4, <3>2, <3>3 DEF DeadlineOf
  <2>5. CASE conn[c].kind # "http" /\ ~(conn[c].kind = "ws" /\ Waiting(conn[c]))
    BY <2>2, <2>5 DEF DeadlineOf
  <2> QED BY <2>3, <2>4, <2>5
<1>10. CASE DaemonWrite \/ DaemonRestart \/ UNCHANGED vars
  <2>1. conn' = conn /\ todo' = todo /\ turn' = turn /\ lag' = lag /\ due' = due
    BY <1>10 DEF DaemonWrite, DaemonRestart, loop, vars
  <2> QED BY <1>1, <2>1, KeptSame, KeptDeadline
<1> QED
  BY <1>3, <1>4, <1>5, <1>6, <1>7, <1>8, <1>9, <1>10
  DEF Next, LoopStep, TurnStep, HttpMessage

LEMMA DeadlineInit == Init => DeadlineInv
BY FreshAndGone DEF Init, DeadlineInv, DeadlineOf

LEMMA DeadlineBounds == SafeInv /\ DeadlineInv => TokenInTime
<1> SUFFICES ASSUME SafeInv, DeadlineInv, AuthOn, NEW c \in Conns, Waiting(conn[c])
             PROVE  conn[c].up <= HeaderTimeout + AuthTimeout + 3 * MaxLag
  BY DEF TokenInTime
<1>1. DeadlineOf(c) /\ conn[c] \in ConnRecords /\ lag \in 0..MaxLag
  BY DEF DeadlineInv, SafeInv, TypeOK
<1>2. /\ conn[c].up \in Nat /\ conn[c].wait \in -1..AuthTimeout
      /\ HeaderTimeout \in Nat /\ AuthTimeout \in Nat /\ MaxLag \in Nat \ {0}
      /\ NoDeadline = -1
  BY <1>1, GatewayAssumption DEF ConnRecords, NoDeadline
<1>3. CASE conn[c].kind = "http"
  BY <1>1, <1>2, <1>3 DEF DeadlineOf
<1>4. CASE conn[c].kind = "ws"
  BY <1>1, <1>2, <1>4 DEF DeadlineOf, Longest
<1> QED BY <1>3, <1>4 DEF Waiting

\* A peer that never shows the token is gone, or only being emptied, when the
\* header timeout, the authentication deadline and three polls are over: for
\* all timeouts, and however its messages meet the timer
THEOREM TokenInTimeHolds == Spec => []TokenInTime
<1>1. SafeInv /\ SafeInv' /\ DeadlineInv /\ [Next]_vars => DeadlineInv'
  BY DeadlineStep
<1> QED BY <1>1, DeadlineInit, DeadlineBounds, SafeAlways, PTL DEF Spec

-----------------------------------------------------------------------------
(* The watchdog.                                                           *)

\* What the poll adds to the age while the watchdog may look and is due
Slack == IF watch = WatchPeriod /\ due THEN lag ELSE 0

\* The age has grown since the last look at most by the time since, and by
\* the poll that the next look waits for.
WatchInv ==
  /\ dead = 0 => age <= SoftLimit + watch + Slack
  /\ dead # 2 => age <= HardLimit + watch + Slack

LEMMA WatchStep == SafeInv /\ WatchInv /\ [Next]_vars => WatchInv'
<1> SUFFICES ASSUME SafeInv, WatchInv, [Next]_vars PROVE WatchInv'
  OBVIOUS
<1>1. /\ TypeOK /\ age \in Nat /\ watch \in 0..WatchPeriod /\ lag \in Nat /\ dead \in 0..2
      /\ SoftLimit \in Nat /\ HardLimit \in Nat /\ WatchPeriod \in Nat /\ MaxAge \in Nat
      /\ SoftLimit < HardLimit
  BY GatewayAssumption DEF SafeInv, TypeOK
<1>2. ASSUME UNCHANGED <<dead, watch, age, due, lag>> PROVE WatchInv'
  BY <1>2 DEF WatchInv, Slack
<1>3. ASSUME NEW fires \in BOOLEAN, NEW filled \in SUBSET Conns, StartPoll(fires, filled)
      PROVE  WatchInv'
  <2>1. lag' = 0 /\ age' = age
    BY <1>3 DEF StartPoll
  <2>2. Slack' = 0
    BY <2>1, Zenon DEF Slack
  <2>3. CASE fires /\ watch = WatchPeriod
    <3>1. dead' = Verdict /\ watch' = 0
      BY <1>1, <1>3, <2>3 DEF StartPoll
    <3>2. (Verdict = 0 => age <= SoftLimit) /\ (Verdict # 2 => age <= HardLimit)
      BY <1>1, <2>3 DEF Verdict
    <3>3. (dead' = 0 => age' <= SoftLimit + watch') /\ (dead' # 2 => age' <= HardLimit + watch')
      BY <1>1, <2>1, <3>1, <3>2
    <3> QED BY <1>1, <2>2, <3>1, <3>3 DEF WatchInv
  <2>4. CASE ~(fires /\ watch = WatchPeriod)
    <3>1. ~(watch = WatchPeriod /\ due)
      BY <1>3, <2>4 DEF StartPoll
    <3>2. Slack = 0
      BY <3>1, Zenon DEF Slack
    <3>3. dead' = dead /\ watch' = watch
      <4>1. CASE ~fires
        BY <1>3, <4>1 DEF StartPoll
      <4>2. CASE fires /\ watch < WatchPeriod
        <5>1. Verdict = dead /\ ~(watch >= WatchPeriod)
          BY <1>1, <4>2 DEF Verdict
        <5> QED BY <1>3, <4>2, <5>1 DEF StartPoll
      <4>3. watch = WatchPeriod \/ watch < WatchPeriod
        BY <1>1
      <4> QED BY <2>4, <4>1, <4>2, <4>3
    <3> QED BY <1>1, <2>1, <2>2, <3>2, <3>3 DEF WatchInv
  <2> QED BY <2>3, <2>4
<1>4. CASE Tick
  <2>1. /\ lag' = lag + 1 /\ due' = TRUE /\ dead' = dead
        /\ watch' = Least(watch + 1, WatchPeriod) /\ age' = Least(age + 1, MaxAge)
    BY <1>4 DEF Tick
  <2>2. age' <= age + 1 /\ age' \in Nat
    BY <1>1, <2>1 DEF Least
  <2>3. watch' + Slack' >= watch + Slack + 1 /\ watch' + Slack' \in Nat /\ Slack \in Nat
        /\ Slack' \in Nat /\ watch' \in Nat
    <3>1. CASE watch = WatchPeriod
      BY <1>1, <2>1, <3>1 DEF Least, Slack
    <3>2. CASE watch < WatchPeriod
      BY <1>1, <2>1, <3>2 DEF Least, Slack
    <3> QED BY <1>1, <3>1, <3>2
  <2> QED BY <1>1, <2>1, <2>2, <2>3 DEF WatchInv
<1>5. CASE DaemonWrite
  <2>1. UNCHANGED <<dead, watch, due, lag>> /\ age' <= age /\ age' \in Nat
    BY <1>1, <1>5 DEF DaemonWrite, loop
  <2>2. Slack' = Slack /\ Slack \in Nat
    BY <1>1, <2>1 DEF Slack
  <2> QED BY <1>1, <2>1, <2>2 DEF WatchInv
<1>6. CASE DaemonRestart \/ UNCHANGED vars
  BY <1>2, <1>6 DEF DaemonRestart, loop, vars
<1>7. ASSUME NEW c \in Conns, TurnStep(c) PROVE WatchInv'
  BY <1>1, <1>2, <1>7, TurnKept DEF AllKept, daemon
<1>8. ASSUME NEW c \in Conns, NEW bearer \in BOOLEAN, Upgrade(c, bearer) PROVE WatchInv'
  BY <1>2, <1>8 DEF Upgrade, Receive, daemon
<1>9. ASSUME NEW c \in Conns, Visit(c) \/ EndTurn(c) PROVE WatchInv'
  BY <1>2, <1>9 DEF Visit, EndTurn, daemon
<1>10. CASE Listener
  BY <1>2, <1>10 DEF Listener, daemon
<1> QED
  BY <1>3, <1>4, <1>5, <1>6, <1>7, <1>8, <1>9, <1>10
  DEF Next, LoopStep, TurnStep, HttpMessage

\* The watchdog is never late: past the soft threshold the gateway has warned,
\* past the hard one it has let clients go, one look and one poll later, for
\* all thresholds
THEOREM WatchdogActs == Spec => []WatchdogInTime
<1>1. Init => WatchInv
  BY GatewayAssumption DEF Init, WatchInv, Slack
<1>2. SafeInv /\ WatchInv => WatchdogInTime
  <2>1. ASSUME SafeInv
        PROVE  /\ watch + Slack <= WatchPeriod + MaxLag /\ watch + Slack \in Nat
               /\ Slack \in Nat /\ watch \in Nat /\ age \in Nat
    BY <2>1, GatewayAssumption DEF SafeInv, TypeOK, Slack
  <2>2. /\ SoftLimit \in Nat /\ HardLimit \in Nat /\ WatchPeriod \in Nat /\ MaxLag \in Nat
    BY GatewayAssumption
  <2>3. SafeInv => dead \in 0..2
    BY DEF SafeInv, TypeOK
  <2> SUFFICES ASSUME SafeInv, WatchInv PROVE WatchdogInTime
    OBVIOUS
  <2>4. CASE dead = 0
    BY <2>1, <2>2, <2>4 DEF WatchInv, WatchdogInTime
  <2>5. CASE dead = 1
    BY <2>1, <2>2, <2>5 DEF WatchInv, WatchdogInTime
  <2>6. CASE dead = 2
    BY <2>6 DEF WatchdogInTime
  <2> QED BY <2>3, <2>4, <2>5, <2>6
<1> QED BY <1>1, <1>2, WatchStep, SafeAlways, PTL DEF Spec
=============================================================================
