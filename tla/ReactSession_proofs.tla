------------------------ MODULE ReactSession_proofs -------------------------
(***************************************************************************)
(* For any page, any number of connections and any length of the queues:   *)
(* useHistory holds the answers of this session, all of them; what the     *)
(* stream does is what the page shows; and the session's level is the one  *)
(* the chart that asked last asked for.                                    *)
(***************************************************************************)
EXTENDS ReactSession, TLAPS

AnswerKinds == {"auth_req", "config", "metrics", "sysinfo", "history"}

\* Commands and answers among which there is no history
Early      == {c \in Commands : c.cmd # "history"}
EarlyDown  == AnswerKinds \ {"history"}

\* The parts of the invariant.  Before the effects have seen a connection, no
\* part of the page can have asked for history: that is why the forgetting that
\* they do then loses nothing.
Linked == link # "down" <=> connected
NothingYet ==
  connected /\ ~lastSeen => received = 0 /\ up \in Seq(Early) /\ down \in Seq(EarlyDown)
SessionInv == SessionTypeOK /\ Linked /\ NothingYet /\ HistoryIsOfSession

-----------------------------------------------------------------------------
(* Queues.                                                                 *)

LEMMA Queues ==
  ASSUME NEW S, NEW q \in Seq(S)
  PROVE  /\ q # <<>> => Tail(q) \in Seq(S) /\ Head(q) \in S
         /\ \A x \in S : Append(q, x) \in Seq(S)
         /\ \A r \in Seq(S) : q \o r \in Seq(S)
OBVIOUS

LEMMA Empty == \A S : <<>> \in Seq(S)
OBVIOUS

LEMMA Singles == ASSUME NEW S, NEW x \in S PROVE <<x>> \in Seq(S)
OBVIOUS

LEMMA Pairs == ASSUME NEW S, NEW x \in S, NEW y \in S PROVE <<x, y>> \in Seq(S)
OBVIOUS

LEMMA FramesAre ==
  /\ \A name \in {"auth", "sysinfo", "snapshot", "start", "stop"} : Frame(name) \in Early
  /\ Frame("history") \in Commands
  /\ \A l \in Levels : Subscribe(l) \in Commands
  /\ Early \subseteq Commands /\ EarlyDown \subseteq AnswerKinds
BY SessionAssumption DEF Frame, Subscribe, Commands, Early, EarlyDown

Sessions == [authed : BOOLEAN, draining : BOOLEAN, paused : BOOLEAN, level : Levels,
             readable : BOOLEAN, missed : BOOLEAN]

LEMMA Fresh == token \in BOOLEAN => FreshSession \in Sessions
BY SessionAssumption DEF FreshSession, Sessions

\* Types of what a step of one side leaves alone
PageTypes ==
  /\ connected \in BOOLEAN /\ streaming \in BOOLEAN /\ lastSeen \in BOOLEAN
  /\ sysinfo \in 0..MaxSessions /\ sample \in 0..MaxSessions
  /\ level \in [Places -> Levels \cup {Unsubscribed}]
  /\ asked \in [Places -> Levels \cup {Unsubscribed}]
  /\ owner \in Places \cup {NoChart}
  /\ history \subseteq (0..MaxSessions) \X Nat
  /\ received \in Nat
WireTypes ==
  /\ token \in BOOLEAN /\ session \in 0..MaxSessions
  /\ link \in {"down", "open", "closing"}
  /\ up \in Seq(Commands) /\ down \in Seq(AnswerKinds)
  /\ srv \in Sessions

LEMMA Types == SessionTypeOK <=> PageTypes /\ WireTypes
BY DEF SessionTypeOK, PageTypes, WireTypes, AnswerKinds, Sessions

LEMMA NoneTyped == NoneAsked \in [Places -> Levels \cup {Unsubscribed}]
BY DEF NoneAsked

-----------------------------------------------------------------------------
(* The steps.                                                              *)

LEMMA ReadyStep == SessionInv /\ SocketReady => SessionInv'
<1> SUFFICES ASSUME SessionInv, SocketReady PROVE SessionInv'
  OBVIOUS
<1>1. PageTypes /\ WireTypes
  BY Types DEF SessionInv
<1>2. lastSeen = FALSE
  BY DEF SocketReady, SessionInv, Linked, SessionTypeOK
<1>3. down' \in Seq(EarlyDown)
  <2>1. down' \in {<<"auth_req">>, <<"config">>}
    BY DEF SocketReady
  <2> QED BY <2>1, Singles DEF EarlyDown, AnswerKinds
<1>4. down' \in Seq(AnswerKinds)
  BY <1>3 DEF EarlyDown
<1>5. up' = <<>> /\ up' \in Seq(Early) /\ up' \in Seq(Commands)
  BY DEF SocketReady
<1>6. PageTypes'
  BY <1>1 DEF SocketReady, PageTypes
<1>7. WireTypes'
  <2>1. session' \in 0..MaxSessions
    BY <1>1, SessionAssumption DEF SocketReady, WireTypes
  <2>2. srv' \in Sessions /\ token' \in BOOLEAN
    BY <1>1, Fresh DEF SocketReady, WireTypes
  <2> QED BY <1>4, <1>5, <2>1, <2>2 DEF SocketReady, WireTypes
<1>8. Linked' /\ NothingYet' /\ HistoryIsOfSession'
  BY <1>2, <1>3, <1>5 DEF SocketReady, Linked, NothingYet, HistoryIsOfSession
<1> QED BY <1>6, <1>7, <1>8, Types DEF SessionInv, SessionTypeOK, PageTypes, WireTypes, AnswerKinds, Sessions

\* The socket goes, and its queues with it.
LEMMA GoneStep == SessionInv /\ (SocketClosing \/ SocketClosed \/ Remount) => SessionInv'
<1> SUFFICES ASSUME SessionInv, SocketClosing \/ SocketClosed \/ Remount PROVE SessionInv'
  OBVIOUS
<1>1. PageTypes /\ WireTypes
  BY Types DEF SessionInv
<1>2. /\ up' = <<>> /\ up' \in Seq(Early) /\ up' \in Seq(Commands)
      /\ down' = <<>> /\ down' \in Seq(EarlyDown) /\ down' \in Seq(AnswerKinds)
  <2>1. up' = <<>> /\ down' = <<>>
    BY DEF SocketClosing, SocketClosed, Remount
  <2> QED BY <2>1, Empty
<1>3. WireTypes'
  <2>1. srv' \in Sessions /\ token' \in BOOLEAN
    BY <1>1, Fresh DEF SocketClosing, SocketClosed, Remount, WireTypes
  <2>2. link' \in {"down", "closing"} /\ session' = session
    BY DEF SocketClosing, SocketClosed, Remount
  <2> QED BY <1>1, <1>2, <2>1, <2>2 DEF WireTypes
<1>4. CASE SocketClosing
  <2>1. UNCHANGED page /\ link # "down" /\ link' # "down" /\ session' = session
    BY <1>4 DEF SocketClosing
  <2>2. PageTypes'
    BY <1>1, <2>1 DEF page, PageTypes
  <2>3. Linked' /\ NothingYet' /\ HistoryIsOfSession'
    BY <1>2, <2>1 DEF page, SessionInv, Linked, NothingYet, HistoryIsOfSession
  <2> QED BY <1>3, <2>2, <2>3 DEF SessionInv, SessionTypeOK, PageTypes, WireTypes, AnswerKinds, Sessions
<1>5. CASE SocketClosed \/ Remount
  <2>1. link' = "down" /\ connected' = FALSE
    BY <1>5 DEF SocketClosed, Remount
  <2>2. PageTypes'
    <3>0. 0 \in 0..MaxSessions
      BY SessionAssumption
    <3>1. CASE SocketClosed
      <4>1. /\ connected' = FALSE /\ sysinfo' = 0
            /\ UNCHANGED <<streaming, sample, lastSeen, level, asked, owner, history, received>>
        BY <3>1 DEF SocketClosed
      <4> QED BY <1>1, <3>0, <4>1 DEF PageTypes
    <3>2. CASE Remount
      BY <1>1, <3>0, <3>2, NoneTyped DEF Remount, PageTypes
    <3> QED BY <1>5, <3>1, <3>2
  <2>3. Linked' /\ NothingYet' /\ HistoryIsOfSession'
    BY <2>1 DEF Linked, NothingYet, HistoryIsOfSession
  <2> QED BY <1>3, <2>2, <2>3 DEF SessionInv, SessionTypeOK, PageTypes, WireTypes, AnswerKinds, Sessions
<1> QED BY <1>4, <1>5

LEMMA ReceiveStep == SessionInv /\ Receive => SessionInv'
<1> SUFFICES ASSUME SessionInv, Receive PROVE SessionInv'
  OBVIOUS
<1>1. PageTypes /\ WireTypes
  BY Types DEF SessionInv
<1>2. /\ down # <<>> /\ down' = Tail(down) /\ link = "open"
      /\ UNCHANGED <<token, session, link, srv, connected, streaming, lastSeen, level, asked, owner>>
  BY DEF Receive
<1>3. down' \in Seq(AnswerKinds) /\ Head(down) \in AnswerKinds
  BY <1>1, <1>2, Queues DEF WireTypes
<1>4. up' \in Seq(Commands) /\ (up \in Seq(Early) => up' \in Seq(Early))
  <2>1. CASE up' = up
    BY <1>1, <2>1 DEF WireTypes
  <2>2. CASE up' = Append(up, Frame("auth"))
    BY <1>1, <2>2, FramesAre, Queues DEF WireTypes, Early
  <2>3. CASE up' = up \o <<Frame("sysinfo"), Frame("snapshot")>>
    <3>1. <<Frame("sysinfo"), Frame("snapshot")>> \in Seq(Early)
      BY FramesAre, Pairs
    <3>2. <<Frame("sysinfo"), Frame("snapshot")>> \in Seq(Commands)
      BY FramesAre, Pairs
    <3> QED BY <1>1, <2>3, <3>1, <3>2, Queues DEF WireTypes
  <2> QED BY <2>1, <2>2, <2>3 DEF Receive
<1>5. \/ Head(down) # "history" /\ UNCHANGED <<history, received>>
      \/ /\ Head(down) = "history" /\ received' = received + 1
         /\ history' = history \cup {<<session, received + 1>>}
  BY DEF Receive
<1>6. sysinfo' \in 0..MaxSessions /\ sample' \in 0..MaxSessions
  BY <1>1 DEF Receive, PageTypes, WireTypes
<1>7. PageTypes'
  BY <1>1, <1>2, <1>5, <1>6 DEF PageTypes, WireTypes
<1>8. WireTypes'
  BY <1>1, <1>2, <1>3, <1>4 DEF WireTypes
<1>9. Linked'
  BY <1>2 DEF SessionInv, Linked
<1>10. NothingYet'
  <2> SUFFICES ASSUME connected, ~lastSeen
               PROVE  received' = 0 /\ up' \in Seq(Early) /\ down' \in Seq(EarlyDown)
    BY <1>2 DEF NothingYet
  <2>1. received = 0 /\ up \in Seq(Early) /\ down \in Seq(EarlyDown)
    BY DEF SessionInv, NothingYet
  <2>2. down' \in Seq(EarlyDown) /\ Head(down) \in EarlyDown
    BY <1>2, <2>1, Queues
  <2> QED BY <1>4, <1>5, <2>1, <2>2 DEF EarlyDown
<1>11. HistoryIsOfSession'
  <2> SUFFICES ASSUME connected, lastSeen
               PROVE  history' = {<<session, i>> : i \in 1..received'}
    BY <1>2 DEF HistoryIsOfSession
  <2>1. history = {<<session, i>> : i \in 1..received} /\ received \in Nat
    BY <1>1 DEF SessionInv, HistoryIsOfSession, PageTypes
  <2>2. 1..(received + 1) = (1..received) \cup {received + 1}
    BY <2>1
  <2> QED BY <1>5, <2>1, <2>2
<1> QED BY <1>7, <1>8, <1>9, <1>10, <1>11 DEF SessionInv, SessionTypeOK, PageTypes, WireTypes, AnswerKinds, Sessions

\* A step of the gateway, which the page does not see
LEMMA GatewayStep == SessionInv /\ (Serve \/ Push \/ DataTurns) => SessionInv'
<1> SUFFICES ASSUME SessionInv, Serve \/ Push \/ DataTurns PROVE SessionInv'
  OBVIOUS
<1>1. PageTypes /\ WireTypes
  BY Types DEF SessionInv
<1>2. UNCHANGED <<token, session, link, page>>
  BY DEF Serve, Push, DataTurns
<1>3. /\ up' \in Seq(Commands) /\ srv' \in Sessions
      /\ up \in Seq(Early) => up' \in Seq(Early)
  <2>1. CASE Push
    BY <1>1, <2>1 DEF Push, WireTypes
  <2>3. CASE DataTurns
    <3>1. srv' = [srv EXCEPT !.readable = ~@] /\ up' = up
      BY <2>3 DEF DataTurns
    <3> QED BY <1>1, <3>1 DEF WireTypes, Sessions
  <2>2. CASE Serve
    <3>1. up # <<>> /\ up' = Tail(up)
      BY <2>2 DEF Serve
    <3>2. Head(up) \in Commands /\ up' \in Seq(Commands)
      BY <1>1, <3>1, Queues DEF WireTypes
    <3>3. \/ srv' = [srv EXCEPT !.authed = TRUE]
          \/ srv' = [srv EXCEPT !.draining = TRUE]
          \/ srv' = [srv EXCEPT !.paused = (Head(up).cmd = "stop")]
          \/ srv' = [srv EXCEPT !.level = Head(up).level]
          \/ srv' = [srv EXCEPT !.missed = @ \/ ~srv.readable]
          \/ srv' = srv
      BY <2>2 DEF Serve
    <3>4. srv' \in Sessions
      <4>1. srv \in Sessions /\ Head(up).level \in Levels
        BY <1>1, <3>2 DEF WireTypes, Commands
      <4>2. (srv.missed \/ ~srv.readable) \in BOOLEAN
        OBVIOUS
      <4> QED BY <3>3, <4>1, <4>2 DEF Sessions
    <3>5. up \in Seq(Early) => up' \in Seq(Early)
      BY <3>1, Queues
    <3> QED BY <3>2, <3>4, <3>5
  <2> QED BY <2>1, <2>2, <2>3
<1>4. down' \in Seq(AnswerKinds)
  <2>1. CASE Push
    BY <1>1, <2>1, Queues DEF Push, WireTypes, AnswerKinds
  <2>3. CASE DataTurns
    BY <1>1, <2>3 DEF DataTurns, WireTypes
  <2>2. CASE Serve
    <3>1. AfterToken \in Seq(AnswerKinds)
      BY Singles DEF AfterToken, AnswerKinds
    <3>2. \/ down' \in {down, down \o AfterToken, Append(down, "metrics")}
          \/ \E name \in {"sysinfo", "history"} : down' = Append(down, name)
      BY <2>2 DEF Serve
    <3>3. {"metrics", "sysinfo", "history"} \subseteq AnswerKinds
      BY DEF AnswerKinds
    <3> QED BY <1>1, <3>1, <3>2, <3>3, Queues DEF WireTypes
  <2> QED BY <2>1, <2>2, <2>3
<1>5. ASSUME up \in Seq(Early), down \in Seq(EarlyDown) PROVE down' \in Seq(EarlyDown)
  <2>1. CASE Push
    BY <1>5, <2>1, Queues DEF Push, EarlyDown, AnswerKinds
  <2>3. CASE DataTurns
    BY <1>5, <2>3 DEF DataTurns
  <2>2. CASE Serve
    <3>1. AfterToken \in Seq(EarlyDown)
      BY Singles DEF AfterToken, EarlyDown, AnswerKinds
    <3>2. Head(up).cmd # "history"
      BY <1>5, <2>2, Queues DEF Serve, Early
    <3>3. down' \in {down, down \o AfterToken, Append(down, "metrics"), Append(down, "sysinfo")}
      BY <2>2, <3>2 DEF Serve
    <3>4. {"metrics", "sysinfo"} \subseteq EarlyDown
      BY DEF EarlyDown, AnswerKinds
    <3> QED BY <1>5, <3>1, <3>3, <3>4, Queues
  <2> QED BY <2>1, <2>2, <2>3
<1>6. PageTypes'
  BY <1>1, <1>2 DEF page, PageTypes
<1>7. WireTypes'
  BY <1>1, <1>2, <1>3, <1>4 DEF WireTypes
<1>8. Linked' /\ NothingYet' /\ HistoryIsOfSession'
  BY <1>2, <1>3, <1>5 DEF page, SessionInv, Linked, NothingYet, HistoryIsOfSession
<1> QED BY <1>6, <1>7, <1>8 DEF SessionInv, SessionTypeOK, PageTypes, WireTypes, AnswerKinds, Sessions

LEMMA CommitStep == SessionInv /\ Commit => SessionInv'
<1> SUFFICES ASSUME SessionInv, Commit PROVE SessionInv'
  OBVIOUS
<1>1. PageTypes /\ WireTypes
  BY Types DEF SessionInv
<1>2. /\ lastSeen' = connected /\ lastSeen # connected
      /\ history' = IF connected THEN {} ELSE history
      /\ asked' = NoneAsked /\ owner' = NoChart
      /\ UNCHANGED <<token, session, link, up, down, srv, connected, streaming, sysinfo, sample,
                     level, received>>
  BY DEF Commit
<1>3. PageTypes'
  BY <1>1, <1>2, NoneTyped DEF PageTypes
<1>4. WireTypes'
  BY <1>1, <1>2 DEF WireTypes
<1>5. Linked'
  BY <1>2 DEF SessionInv, Linked
<1>6. NothingYet'
  BY <1>1, <1>2 DEF PageTypes, NothingYet
<1>7. HistoryIsOfSession'
  <2> SUFFICES ASSUME connected PROVE history' = {<<session, i>> : i \in 1..received}
    BY <1>2 DEF HistoryIsOfSession
  <2>1. received = 0
    BY <1>1, <1>2 DEF SessionInv, NothingYet, PageTypes
  <2> QED BY <1>2, <2>1
<1> QED BY <1>3, <1>4, <1>5, <1>6, <1>7 DEF SessionInv, SessionTypeOK, PageTypes, WireTypes, AnswerKinds, Sessions

\* Charts, users and their frames.  Only the effect of a chart asks for history,
\* and it has seen the connection.
LEMMA PageStep ==
  ASSUME SessionInv,
         \/ \E c \in Places : RunEffect(c) \/ Unmount(c) \/ \E l \in Levels : Choose(c, l)
         \/ \E v \in BOOLEAN : SetStreaming(v)
  PROVE  SessionInv'
<1>1. PageTypes /\ WireTypes
  BY Types DEF SessionInv
<1>2. UNCHANGED <<token, session, link, down, srv, connected, sysinfo, sample, lastSeen,
                  history, received>>
  BY DEF RunEffect, Unmount, Choose, SetStreaming
<1>3. \/ up' = up
      \/ connected /\ lastSeen /\ \E l \in Levels : up' = Sent(<<Subscribe(l), Frame("history")>>)
      \/ \E name \in {"start", "stop"} : up' = Sent(<<Frame(name)>>)
  <2>1. ASSUME NEW c \in Places, RunEffect(c)
        PROVE  connected /\ lastSeen /\ \E l \in Levels : up' = Sent(<<Subscribe(l), Frame("history")>>)
    <3>1. level[c] \in Levels
      BY <1>1, <2>1 DEF RunEffect, PageTypes
    <3> QED BY <2>1, <3>1 DEF RunEffect
  <2>2. ASSUME NEW v \in BOOLEAN, SetStreaming(v)
        PROVE  \E name \in {"start", "stop"} : up' = Sent(<<Frame(name)>>)
    BY <2>2 DEF SetStreaming
  <2> QED BY <2>1, <2>2 DEF Unmount, Choose
<1>4. /\ up' \in Seq(Commands)
      /\ up \in Seq(Early) /\ ~lastSeen => up' \in Seq(Early)
  <2>1. ASSUME NEW l \in Levels, up' = Sent(<<Subscribe(l), Frame("history")>>)
        PROVE  up' \in Seq(Commands)
    <3>1. <<Subscribe(l), Frame("history")>> \in Seq(Commands)
      BY FramesAre, Pairs
    <3> QED BY <1>1, <2>1, <3>1, Queues DEF Sent, WireTypes
  <2>2. ASSUME NEW name \in {"start", "stop"}, up' = Sent(<<Frame(name)>>)
        PROVE  up' \in Seq(Commands) /\ (up \in Seq(Early) => up' \in Seq(Early))
    <3>1. <<Frame(name)>> \in Seq(Early) /\ <<Frame(name)>> \in Seq(Commands)
      BY FramesAre, Singles
    <3> QED BY <1>1, <2>2, <3>1, Queues DEF Sent, WireTypes
  <2> QED BY <1>1, <1>3, <2>1, <2>2 DEF WireTypes
<1>5. /\ level' \in [Places -> Levels \cup {Unsubscribed}]
      /\ asked' \in [Places -> Levels \cup {Unsubscribed}]
      /\ owner' \in Places \cup {NoChart} /\ streaming' \in BOOLEAN
  <2>1. ASSUME NEW c \in Places, RunEffect(c) \/ Unmount(c) \/ \E l \in Levels : Choose(c, l)
        PROVE  /\ level' \in [Places -> Levels \cup {Unsubscribed}]
               /\ asked' \in [Places -> Levels \cup {Unsubscribed}]
               /\ owner' \in Places \cup {NoChart} /\ streaming' \in BOOLEAN
    BY <1>1, <2>1 DEF RunEffect, Unmount, Choose, PageTypes
  <2> QED BY <1>1, <2>1 DEF SetStreaming, PageTypes
<1>6. PageTypes'
  BY <1>1, <1>2, <1>5 DEF PageTypes
<1>7. WireTypes'
  BY <1>1, <1>2, <1>4 DEF WireTypes
<1>8. Linked' /\ NothingYet' /\ HistoryIsOfSession'
  BY <1>2, <1>4 DEF SessionInv, Linked, NothingYet, HistoryIsOfSession
<1> QED BY <1>6, <1>7, <1>8 DEF SessionInv, SessionTypeOK, PageTypes, WireTypes, AnswerKinds, Sessions

-----------------------------------------------------------------------------

LEMMA InvInit == SessionInit => SessionInv
<1> SUFFICES ASSUME SessionInit PROVE SessionInv
  OBVIOUS
<1>1. up \in Seq(Commands) /\ down \in Seq(AnswerKinds)
  BY Empty DEF SessionInit
<1>2. FreshSession \in Sessions /\ 0 \in 0..MaxSessions
  BY Fresh, SessionAssumption DEF SessionInit
<1>3. PageTypes /\ WireTypes
  BY <1>1, <1>2, NoneTyped DEF SessionInit, PageTypes, WireTypes
<1> QED BY <1>3, Types DEF SessionInit, SessionInv, Linked, NothingYet, HistoryIsOfSession

LEMMA InvStep == SessionInv /\ [SessionNext]_sessionVars => SessionInv'
<1> SUFFICES ASSUME SessionInv, [SessionNext]_sessionVars PROVE SessionInv'
  OBVIOUS
<1>1. CASE UNCHANGED sessionVars
  BY <1>1 DEF sessionVars, page, SessionInv, SessionTypeOK, Linked, NothingYet, HistoryIsOfSession
<1>2. CASE SessionNext
  BY <1>2, ReadyStep, GoneStep, ReceiveStep, GatewayStep, CommitStep, PageStep DEF SessionNext
<1> QED BY <1>1, <1>2

\* For any page, any number of connections and any order of messages and effects:
\* state, queues and sessions keep their types.
THEOREM SessionTypes == SessionSpec => []SessionTypeOK
<1>1. SessionInv => SessionTypeOK
  BY DEF SessionInv
<1> QED BY <1>1, InvInit, InvStep, PTL DEF SessionSpec

\* For any page, any number of connections and any order of messages and effects:
\* once the effects have seen a connection, useHistory holds what this session
\* has answered, nothing older and nothing less.
THEOREM HistoryOfSession == SessionSpec => []HistoryIsOfSession
<1>1. SessionInv => HistoryIsOfSession
  BY DEF SessionInv
<1> QED BY <1>1, InvInit, InvStep, PTL DEF SessionSpec
-----------------------------------------------------------------------------
(* What the last command of a kind under way says, or the session where    *)
(* there is none.                                                          *)

\* The last frame of S in the queue is in Good; if there is none, base holds.
Told(q, S, Good, base) ==
  /\ \A i \in DOMAIN q :
       q[i] \in S /\ (\A j \in DOMAIN q : j > i => q[j] \notin S) => q[i] \in Good
  /\ (\A i \in DOMAIN q : q[i] \notin S) => base

LEMMA ToldEmpty == ASSUME NEW S, NEW Good, NEW base, base PROVE Told(<<>>, S, Good, base)
BY DEF Told

\* Other frames change nothing.
LEMMA ToldMore ==
  ASSUME NEW C, NEW q \in Seq(C), NEW x \in C, NEW S, NEW Good, NEW base,
         Told(q, S, Good, base), x \notin S
  PROVE  Told(Append(q, x), S, Good, base)
<1> DEFINE r == Append(q, x)
<1>1. DOMAIN r = 1..(Len(q) + 1) /\ DOMAIN q = 1..Len(q) /\ Len(q) \in Nat
  OBVIOUS
<1>2. r[Len(q) + 1] = x /\ \A i \in DOMAIN q : r[i] = q[i]
  OBVIOUS
<1> HIDE DEF r
<1>3. ASSUME NEW i \in DOMAIN r, r[i] \in S, \A j \in DOMAIN r : j > i => r[j] \notin S
      PROVE  r[i] \in Good
  <2>1. i \in DOMAIN q
    BY <1>1, <1>2, <1>3
  <2>2. \A j \in DOMAIN q : j > i => q[j] \notin S
    BY <1>1, <1>2, <1>3
  <2> QED BY <1>2, <1>3, <2>1, <2>2 DEF Told
<1>4. (\A i \in DOMAIN r : r[i] \notin S) => base
  BY <1>1, <1>2 DEF Told
<1>5. Told(r, S, Good, base)
  BY <1>3, <1>4 DEF Told
<1> QED BY <1>5 DEF r

\* A frame of the kind is the last one, whatever was there.
LEMMA ToldLast ==
  ASSUME NEW C, NEW q \in Seq(C), NEW x \in C, NEW S, NEW Good, NEW base, x \in S, x \in Good
  PROVE  Told(Append(q, x), S, Good, base)
<1> DEFINE r == Append(q, x)
<1>1. DOMAIN r = 1..(Len(q) + 1) /\ Len(q) \in Nat /\ r[Len(q) + 1] = x
  OBVIOUS
<1> HIDE DEF r
<1>2. ASSUME NEW i \in DOMAIN r, r[i] \in S, \A j \in DOMAIN r : j > i => r[j] \notin S
      PROVE  r[i] \in Good
  BY <1>1, <1>2
<1>3. ~\A i \in DOMAIN r : r[i] \notin S
  BY <1>1
<1>4. Told(r, S, Good, base)
  BY <1>2, <1>3 DEF Told
<1> QED BY <1>4 DEF r

\* The first frame is taken: if it was the last one of its kind, what it says has
\* come into force.
LEMMA ToldTail ==
  ASSUME NEW C, NEW q \in Seq(C), NEW S, NEW Good, NEW base, NEW after,
         q # <<>>, Told(q, S, Good, base),
         Head(q) \in S /\ Head(q) \in Good => after, Head(q) \notin S /\ base => after
  PROVE  Told(Tail(q), S, Good, after)
<1> DEFINE r == Tail(q)
<1>1. /\ Len(q) \in Nat /\ Len(q) > 0 /\ DOMAIN q = 1..Len(q) /\ DOMAIN r = 1..(Len(q) - 1)
      /\ Head(q) = q[1] /\ \A i \in DOMAIN r : r[i] = q[i + 1]
  OBVIOUS
<1> HIDE DEF r
<1>2. ASSUME NEW k \in DOMAIN q, k > 1 PROVE k - 1 \in DOMAIN r /\ r[k - 1] = q[k]
  BY <1>1, <1>2
<1>3. ASSUME NEW i \in DOMAIN r, r[i] \in S, \A j \in DOMAIN r : j > i => r[j] \notin S
      PROVE  r[i] \in Good
  <2>1. i + 1 \in DOMAIN q /\ q[i + 1] \in S
    BY <1>1, <1>3
  <2>2. ASSUME NEW k \in DOMAIN q, k > i + 1 PROVE q[k] \notin S
    <3>1. k > 1 /\ k - 1 > i
      BY <1>1, <2>2
    <3>2. k - 1 \in DOMAIN r /\ r[k - 1] = q[k]
      BY <1>2, <3>1
    <3> QED BY <1>3, <3>1, <3>2
  <2>3. q[i + 1] \in Good
    BY <2>1, <2>2 DEF Told
  <2> QED BY <1>1, <2>3
<1>4. ASSUME \A i \in DOMAIN r : r[i] \notin S PROVE after
  <2>1. ASSUME NEW k \in DOMAIN q, k > 1 PROVE q[k] \notin S
    BY <1>2, <1>4, <2>1
  <2>2. 1 \in DOMAIN q
    BY <1>1
  <2>3. CASE Head(q) \in S
    <3>1. q[1] \in Good
      BY <1>1, <2>1, <2>2, <2>3 DEF Told
    <3> QED BY <1>1, <2>3, <3>1
  <2>4. CASE Head(q) \notin S
    <3>1. \A k \in DOMAIN q : q[k] \notin S
      <4>1. ASSUME NEW k \in DOMAIN q PROVE k = 1 \/ k > 1
        BY <1>1
      <4> QED BY <1>1, <2>1, <2>4, <4>1
    <3> QED BY <2>4, <3>1 DEF Told
  <2> QED BY <2>3, <2>4
<1>5. Told(r, S, Good, after)
  BY <1>3, <1>4 DEF Told
<1> QED BY <1>5 DEF r
-----------------------------------------------------------------------------
(* The state of the stream and the level of the session.                   *)

Switches == {f \in Commands : f.cmd \in {"start", "stop"}}
Choices  == {f \in Commands : f.cmd = "subscribe"}

\* What the two properties say, of whatever is under way.  That of the level is
\* told of the level that the owner has asked for: one that was chosen since
\* may be chosen back.
StreamTold ==
  link = "open" /\ ~srv.draining =>
    Told(up, Switches, {f \in Commands : streaming <=> f.cmd = "start"}, streaming <=> ~srv.paused)
LevelTold ==
  link = "open" /\ ~srv.draining /\ connected = lastSeen /\ owner # NoChart =>
    Told(up, Choices, {f \in Commands : f.level = asked[owner]}, srv.level = asked[owner])

LEMMA StreamIs == SessionTypeOK /\ StreamTold => StreamingShown
<1> SUFFICES ASSUME SessionTypeOK, StreamTold, link = "open", ~srv.draining
    PROVE  /\ \A i \in DOMAIN up : IsLast(Streams, i) => (streaming <=> up[i].cmd = "start")
           /\ (\A i \in DOMAIN up : ~Streams(up[i])) => (streaming <=> ~srv.paused)
  BY DEF StreamingShown
<1>1. \A i \in DOMAIN up : up[i] \in Commands
  BY DEF SessionTypeOK
<1>2. \A i \in DOMAIN up : Streams(up[i]) <=> up[i] \in Switches
  BY <1>1 DEF Streams, Switches
<1>3. Told(up, Switches, {f \in Commands : streaming <=> f.cmd = "start"}, streaming <=> ~srv.paused)
  BY DEF StreamTold
<1>4. ASSUME NEW i \in DOMAIN up, IsLast(Streams, i) PROVE streaming <=> up[i].cmd = "start"
  <2>1. up[i] \in Switches /\ \A j \in DOMAIN up : j > i => up[j] \notin Switches
    BY <1>2, <1>4 DEF IsLast
  <2> QED BY <1>3, <2>1 DEF Told
<1>5. (\A i \in DOMAIN up : ~Streams(up[i])) => (streaming <=> ~srv.paused)
  BY <1>2, <1>3 DEF Told
<1> QED BY <1>4, <1>5

LEMMA LevelIs == SessionTypeOK /\ LevelTold => LevelFollowsLastChart
<1> SUFFICES ASSUME SessionTypeOK, LevelTold, link = "open", ~srv.draining,
                    connected = lastSeen, owner # NoChart, asked[owner] = level[owner]
    PROVE  /\ \A i \in DOMAIN up : IsLast(Subscribes, i) => up[i].level = level[owner]
           /\ (\A i \in DOMAIN up : ~Subscribes(up[i])) => srv.level = level[owner]
  BY DEF LevelFollowsLastChart
<1>1. \A i \in DOMAIN up : up[i] \in Commands
  BY DEF SessionTypeOK
<1>2. \A i \in DOMAIN up : Subscribes(up[i]) <=> up[i] \in Choices
  BY <1>1 DEF Subscribes, Choices
<1>3. Told(up, Choices, {f \in Commands : f.level = asked[owner]}, srv.level = asked[owner])
  BY DEF LevelTold
<1>4. ASSUME NEW i \in DOMAIN up, IsLast(Subscribes, i) PROVE up[i].level = level[owner]
  <2>1. up[i] \in Choices /\ \A j \in DOMAIN up : j > i => up[j] \notin Choices
    BY <1>2, <1>4 DEF IsLast
  <2> QED BY <1>3, <2>1 DEF Told
<1>5. (\A i \in DOMAIN up : ~Subscribes(up[i])) => srv.level = level[owner]
  BY <1>2, <1>3 DEF Told
<1> QED BY <1>4, <1>5

LEMMA KindsAre ==
  /\ \A name \in {"auth", "sysinfo", "snapshot", "history"} :
       Frame(name) \in Commands /\ Frame(name) \notin Switches /\ Frame(name) \notin Choices
  /\ \A name \in {"start", "stop"} :
       Frame(name) \in Switches /\ Frame(name) \notin Choices /\ Frame(name).cmd = name
  /\ \A l \in Levels :
       Subscribe(l) \in Choices /\ Subscribe(l) \notin Switches /\ Subscribe(l).level = l
BY SessionAssumption DEF Frame, Subscribe, Commands, Switches, Choices

\* Frames of another kind that one step appends
LEMMA ToldAppended ==
  ASSUME NEW q \in Seq(Commands), NEW x \in Commands, NEW y \in Commands, NEW S, NEW Good, NEW base,
         Told(q, S, Good, base), y \notin S
  PROVE  /\ x \notin S => Told(q \o <<x>>, S, Good, base)
         /\ x \notin S => Told(q \o <<x, y>>, S, Good, base)
         /\ x \notin S => Told(Append(q, x), S, Good, base)
<1>1. /\ Append(q, x) \in Seq(Commands) /\ q \o <<x>> = Append(q, x)
      /\ q \o <<x, y>> = Append(Append(q, x), y)
  OBVIOUS
<1>2. x \notin S => Told(Append(q, x), S, Good, base)
  BY ToldMore
<1>3. x \notin S => Told(Append(Append(q, x), y), S, Good, base)
  BY <1>1, <1>2, ToldMore
<1> QED BY <1>1, <1>2, <1>3

LEMMA ToldReceived == SessionTypeOK /\ StreamTold /\ LevelTold /\ Receive => StreamTold' /\ LevelTold'
<1> SUFFICES ASSUME SessionTypeOK, StreamTold, LevelTold, Receive PROVE StreamTold' /\ LevelTold'
  OBVIOUS
<1>1. up \in Seq(Commands)
  BY DEF SessionTypeOK
<1>2. up' = up \/ up' = Append(up, Frame("auth")) \/ up' = up \o <<Frame("sysinfo"), Frame("snapshot")>>
  BY DEF Receive
<1>3. UNCHANGED <<link, srv, streaming, connected, lastSeen, owner, asked>>
  BY DEF Receive
<1>4. ASSUME NEW S, NEW Good, NEW base, Told(up, S, Good, base),
             \A name \in {"auth", "sysinfo", "snapshot"} : Frame(name) \notin S
      PROVE  Told(up', S, Good, base)
  <2>1. CASE up' = Append(up, Frame("auth"))
    BY <1>1, <1>4, <2>1, KindsAre, ToldMore
  <2>2. CASE up' = up \o <<Frame("sysinfo"), Frame("snapshot")>>
    BY <1>1, <1>4, <2>2, KindsAre, ToldAppended
  <2> QED BY <1>2, <1>4, <2>1, <2>2
<1>5. StreamTold'
  BY <1>3, <1>4, KindsAre DEF StreamTold
<1>6. LevelTold'
  BY <1>3, <1>4, KindsAre DEF LevelTold
<1> QED BY <1>5, <1>6

LEMMA ToldServed == SessionTypeOK /\ StreamTold /\ LevelTold /\ Serve => StreamTold' /\ LevelTold'
<1> SUFFICES ASSUME SessionTypeOK, StreamTold, LevelTold, Serve PROVE StreamTold' /\ LevelTold'
  OBVIOUS
<1>1. up \in Seq(Commands) /\ up # <<>> /\ up' = Tail(up) /\ link = "open" /\ ~srv.draining
  BY DEF SessionTypeOK, Serve
<1>2. Head(up) \in Commands
  BY <1>1
<1>3. UNCHANGED <<link, streaming, connected, lastSeen, owner, asked>>
  BY DEF Serve, page
<1>4. srv \in Sessions
  BY DEF SessionTypeOK, Sessions
<1>5. \/ srv'.draining
      \/ /\ Head(up) \in Switches /\ srv'.paused = (Head(up).cmd = "stop")
         /\ Head(up) \notin Choices /\ srv'.level = srv.level
      \/ /\ Head(up) \in Choices /\ srv'.level = Head(up).level
         /\ Head(up) \notin Switches /\ srv'.paused = srv.paused
      \/ /\ Head(up) \notin Choices /\ Head(up) \notin Switches
         /\ srv'.paused = srv.paused /\ srv'.level = srv.level
  <2> DEFINE c == Head(up)
  <2>1. CASE c.cmd = "auth"
    BY <1>2, <1>4, <2>1 DEF Serve, Sessions, Switches, Choices
  <2>2. CASE c.cmd # "auth" /\ ~srv.authed
    BY <1>2, <1>4, <2>2 DEF Serve, Sessions
  <2>3. CASE srv.authed /\ c.cmd \in {"start", "stop"}
    BY <1>2, <1>4, <2>3 DEF Serve, Sessions, Switches, Choices
  <2>4. CASE srv.authed /\ c.cmd = "subscribe"
    BY <1>2, <1>4, <2>4 DEF Serve, Sessions, Switches, Choices
  <2>5. CASE srv.authed /\ c.cmd \in {"snapshot", "sysinfo", "history"}
    BY <1>2, <1>4, <2>5 DEF Serve, Sessions, Switches, Choices
  <2> QED BY <1>2, <2>1, <2>2, <2>3, <2>4, <2>5 DEF Commands
<1>6. StreamTold'
  <2> SUFFICES ASSUME ~srv'.draining PROVE StreamTold'
    BY DEF StreamTold
  <2> DEFINE Good == {f \in Commands : streaming <=> f.cmd = "start"}
  <2>1. Told(up, Switches, Good, streaming <=> ~srv.paused)
    BY <1>1 DEF StreamTold
  <2>2. Head(up) \in Switches /\ Head(up) \in Good => (streaming <=> ~srv'.paused)
    BY <1>5 DEF Switches
  <2>3. Head(up) \notin Switches /\ (streaming <=> ~srv.paused) => (streaming <=> ~srv'.paused)
    BY <1>5
  <2> HIDE DEF Good
  <2>4. Told(Tail(up), Switches, Good, streaming <=> ~srv'.paused)
    BY <1>1, <2>1, <2>2, <2>3, ToldTail
  <2> QED BY <1>1, <1>3, <2>4 DEF StreamTold, Good
<1>7. LevelTold'
  <2> SUFFICES ASSUME ~srv'.draining, connected = lastSeen, owner # NoChart PROVE LevelTold'
    BY <1>3 DEF LevelTold
  <2> DEFINE Good == {f \in Commands : f.level = asked[owner]}
  <2>1. Told(up, Choices, Good, srv.level = asked[owner])
    BY <1>1 DEF LevelTold
  <2>2. Head(up) \in Choices /\ Head(up) \in Good => srv'.level = asked[owner]
    BY <1>5
  <2>3. Head(up) \notin Choices /\ srv.level = asked[owner] => srv'.level = asked[owner]
    BY <1>5
  <2> HIDE DEF Good
  <2>4. Told(Tail(up), Choices, Good, srv'.level = asked[owner])
    BY <1>1, <2>1, <2>2, <2>3, ToldTail
  <2> QED BY <1>1, <1>3, <2>4 DEF LevelTold, Good
<1> QED BY <1>6, <1>7

LEMMA ToldEffect ==
  ASSUME SessionTypeOK, StreamTold, LevelTold, NEW c \in Places, RunEffect(c)
  PROVE  StreamTold' /\ LevelTold'
<1>1. up \in Seq(Commands) /\ level[c] \in Levels
  BY DEF SessionTypeOK, RunEffect
<1>2. UNCHANGED <<link, srv, streaming, connected, lastSeen>>
  BY DEF RunEffect
<1>3. owner' = c /\ asked'[c] = level[c]
  BY DEF SessionTypeOK, RunEffect
<1> SUFFICES ASSUME link = "open", ~srv.draining PROVE StreamTold' /\ LevelTold'
  BY <1>2 DEF StreamTold, LevelTold
<1> DEFINE s == Subscribe(level[c])
           h == Frame("history")
<1>4. /\ s \in Commands /\ s \in Choices /\ s \notin Switches /\ s.level = level[c]
      /\ h \in Commands /\ h \notin Choices /\ h \notin Switches
  BY <1>1, KindsAre DEF Choices
<1>5. up' = up \o <<s, h>>
  BY DEF RunEffect, Sent
<1> HIDE DEF s, h
<1>6. Append(up, s) \in Seq(Commands) /\ up' = Append(Append(up, s), h)
  BY <1>1, <1>4, <1>5
<1>7. StreamTold'
  <2> DEFINE Good == {f \in Commands : streaming <=> f.cmd = "start"}
  <2>1. Told(up, Switches, Good, streaming <=> ~srv.paused)
    BY DEF StreamTold
  <2> HIDE DEF Good
  <2>2. Told(up', Switches, Good, streaming <=> ~srv.paused)
    BY <1>1, <1>4, <1>5, <2>1, ToldAppended
  <2> QED BY <1>2, <2>2 DEF StreamTold, Good
<1>8. LevelTold'
  <2> DEFINE Good == {f \in Commands : f.level = asked'[c]}
  <2>1. s \in Good
    BY <1>3, <1>4
  <2> HIDE DEF Good
  <2>2. Told(Append(up, s), Choices, Good, srv.level = asked'[c])
    BY <1>1, <1>4, <2>1, ToldLast
  <2>3. Told(up', Choices, Good, srv.level = asked'[c])
    BY <1>4, <1>6, <2>2, ToldMore
  <2> QED BY <1>2, <1>3, <2>3 DEF LevelTold, Good
<1> QED BY <1>7, <1>8

LEMMA ToldPressed ==
  ASSUME SessionTypeOK, StreamTold, LevelTold, NEW v \in BOOLEAN, SetStreaming(v)
  PROVE  StreamTold' /\ LevelTold'
<1>1. up \in Seq(Commands)
  BY DEF SessionTypeOK
<1>2. streaming' = v /\ UNCHANGED <<link, srv, connected, lastSeen, owner, asked>>
  BY DEF SetStreaming
<1> SUFFICES ASSUME link = "open", ~srv.draining PROVE StreamTold' /\ LevelTold'
  BY <1>2 DEF StreamTold, LevelTold
<1> DEFINE x == Frame(IF v THEN "start" ELSE "stop")
<1>3. x \in Commands /\ x \in Switches /\ x \notin Choices /\ (x.cmd = "start" <=> v)
  BY KindsAre DEF Switches
<1>4. up' = up \o <<x>>
  BY DEF SetStreaming, Sent
<1> HIDE DEF x
<1>5. up' = Append(up, x)
  BY <1>1, <1>3, <1>4
<1>6. StreamTold'
  <2> DEFINE Good == {f \in Commands : v <=> f.cmd = "start"}
  <2>1. x \in Good
    BY <1>3
  <2> HIDE DEF Good
  <2>2. Told(up', Switches, Good, v <=> ~srv.paused)
    BY <1>1, <1>3, <1>5, <2>1, ToldLast
  <2> QED BY <1>2, <2>2 DEF StreamTold, Good
<1>7. LevelTold'
  <2> SUFFICES ASSUME connected = lastSeen, owner # NoChart PROVE LevelTold'
    BY <1>2 DEF LevelTold
  <2> DEFINE Good == {f \in Commands : f.level = asked[owner]}
  <2>1. Told(up, Choices, Good, srv.level = asked[owner])
    BY DEF LevelTold
  <2> HIDE DEF Good
  <2>2. Told(up', Choices, Good, srv.level = asked[owner])
    BY <1>1, <1>3, <1>5, <2>1, ToldMore
  <2> QED BY <1>2, <2>2 DEF LevelTold, Good
<1> QED BY <1>6, <1>7

LEMMA ToldStep ==
  SessionInv /\ StreamTold /\ LevelTold /\ [SessionNext]_sessionVars => StreamTold' /\ LevelTold'
<1> SUFFICES ASSUME SessionInv, StreamTold, LevelTold, [SessionNext]_sessionVars
    PROVE  StreamTold' /\ LevelTold'
  OBVIOUS
<1>1. SessionTypeOK /\ Linked
  BY DEF SessionInv
<1>2. CASE SocketReady
  <2>1. up' = <<>> /\ streaming' = TRUE /\ srv'.paused = FALSE
    BY <1>2 DEF SocketReady, FreshSession
  <2>2. connected' # lastSeen'
    BY <1>1, <1>2 DEF SocketReady, Linked, SessionTypeOK
  <2>3. StreamTold'
    BY <2>1, ToldEmpty DEF StreamTold
  <2> QED BY <2>2, <2>3 DEF LevelTold
<1>3. CASE SocketClosing \/ SocketClosed \/ Remount
  <2>1. link' # "open"
    BY <1>3 DEF SocketClosing, SocketClosed, Remount
  <2> QED BY <2>1 DEF StreamTold, LevelTold
<1>4. CASE Push \/ UNCHANGED sessionVars
  <2>1. UNCHANGED <<link, up, srv, streaming, connected, lastSeen, owner, asked>>
    BY <1>4 DEF Push, page, sessionVars
  <2> QED BY <2>1 DEF StreamTold, LevelTold
<1>5. CASE Commit
  BY <1>5 DEF Commit, StreamTold, LevelTold
<1>8. CASE DataTurns
  <2>1. UNCHANGED <<link, up, streaming, connected, lastSeen, owner, asked>>
    BY <1>8 DEF DataTurns, page
  <2>2. srv'.draining = srv.draining /\ srv'.paused = srv.paused /\ srv'.level = srv.level
    BY <1>1, <1>8 DEF DataTurns, SessionTypeOK
  <2> QED BY <2>1, <2>2 DEF StreamTold, LevelTold
<1>6. ASSUME NEW c \in Places, NEW l \in Levels, Choose(c, l) PROVE StreamTold' /\ LevelTold'
  BY <1>6 DEF Choose, StreamTold, LevelTold
<1>7. ASSUME NEW c \in Places, Unmount(c) PROVE StreamTold' /\ LevelTold'
  <2>1. StreamTold'
    BY <1>7 DEF Unmount, StreamTold
  <2>2. CASE owner' = NoChart
    BY <2>1, <2>2 DEF LevelTold
  <2>3. CASE owner' # NoChart
    <3>1. owner' = owner /\ owner # c /\ asked'[owner] = asked[owner]
      BY <1>1, <1>7, <2>3 DEF Unmount, SessionTypeOK
    <3> QED BY <1>7, <2>1, <3>1 DEF Unmount, LevelTold
  <2> QED BY <2>2, <2>3
<1> QED BY <1>1, <1>2, <1>3, <1>4, <1>5, <1>6, <1>7, <1>8, ToldReceived, ToldServed, ToldEffect,
           ToldPressed DEF SessionNext

\* For any page, any number of connections and any length of the queues: what is
\* shown as the state of the stream is what the gateway does when it has read
\* what is under way.
THEOREM StreamIsShown == SessionSpec => []StreamingShown
<1>1. SessionInit => StreamTold /\ LevelTold
  BY DEF SessionInit, StreamTold, LevelTold
<1>2. SessionInv /\ StreamTold => StreamingShown
  BY StreamIs DEF SessionInv
<1> QED BY <1>1, <1>2, InvInit, InvStep, ToldStep, PTL DEF SessionSpec

\* For any charts, levels and connections: the level of the session is that of
\* the chart whose effect ran last, when the gateway has read what is under way.
THEOREM LevelIsLastCharts == SessionSpec => []LevelFollowsLastChart
<1>1. SessionInit => StreamTold /\ LevelTold
  BY DEF SessionInit, StreamTold, LevelTold
<1>2. SessionInv /\ LevelTold => LevelFollowsLastChart
  BY LevelIs DEF SessionInv
<1> QED BY <1>1, <1>2, InvInit, InvStep, ToldStep, PTL DEF SessionSpec
=============================================================================
