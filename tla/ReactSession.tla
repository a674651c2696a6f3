--------------------------- MODULE ReactSession ---------------------------
(***************************************************************************)
(* The React layer on one client and its session at the gateway: the       *)
(* provider, the charts that subscribe, the history hook.                  *)
(*                                                                         *)
(* An event handler sets state at once; effects run after the next render, *)
(* in a task of their own, so messages and closes come in between.  The    *)
(* two queues are the WebSocket.  Frames that no part below the provider   *)
(* listens to are left out, and so are other senders: a POST to            *)
(* /v1/stream/pause, and an application that uses the client by itself.    *)
(***************************************************************************)
EXTENDS Integers, Sequences, FiniteSets

CONSTANTS
  Places,      \* places of a page where a TimeSeriesChart can be mounted
  Levels,      \* of the ring
  L1,          \* the level of a fresh session
  MaxSessions, \* bound on connections
  MaxQueue,    \* bound on queued frames for pushes and users
  MaxAnswers   \* bound on answers, after which no level is chosen any more

Unsubscribed == 0

ASSUME SessionAssumption ==
  /\ IsFiniteSet(Places) /\ L1 \in Levels /\ Unsubscribed \notin Levels
  /\ MaxSessions \in Nat /\ MaxQueue \in Nat /\ MaxAnswers \in Nat

NoChart == "none"
ASSUME NoChartAssumption == NoChart \notin Places

VARIABLES
  token,     \* the gateway wants a token, which the client has
  session,   \* number of the last connection
  link,      \* readyState of this.ws
  up, down,  \* frames under way
  srv,       \* the session at the gateway
  connected, streaming, \* state of the provider
  sysinfo,   \* session of the system information, 0 for null
  sample,    \* session of the sample that useMetrics holds, 0 for null
  lastSeen,  \* the value of connected that the effects have last seen
  level,     \* the level of each chart, Unsubscribed where none is mounted
  asked,     \* the level its effect has last subscribed to
  owner,     \* history: the chart whose effect ran last
  history,   \* what useHistory holds, less than its maxSamples: pairs of a session
             \* and a number
  received   \* history: answers to history requests in this session

page == <<connected, streaming, sysinfo, sample, lastSeen, level, asked, owner, history, received>>
sessionVars == <<token, session, link, up, down, srv, page>>

Frame(name) == [cmd |-> name, level |-> L1]
Subscribe(l) == [cmd |-> "subscribe", level |-> l]

Commands ==
  [cmd : {"auth", "sysinfo", "snapshot", "start", "stop", "subscribe", "history"}, level : Levels]

SessionTypeOK ==
  /\ token \in BOOLEAN /\ session \in 0..MaxSessions
  /\ link \in {"down", "open", "closing"}
  /\ up \in Seq(Commands)
  /\ down \in Seq({"auth_req", "config", "metrics", "sysinfo", "history"})
  /\ srv \in [authed : BOOLEAN, draining : BOOLEAN, paused : BOOLEAN, level : Levels,
              readable : BOOLEAN, missed : BOOLEAN]
  /\ connected \in BOOLEAN /\ streaming \in BOOLEAN /\ lastSeen \in BOOLEAN
  /\ sysinfo \in 0..MaxSessions /\ sample \in 0..MaxSessions
  /\ level \in [Places -> Levels \cup {Unsubscribed}]
  /\ asked \in [Places -> Levels \cup {Unsubscribed}]
  /\ owner \in Places \cup {NoChart}
  /\ history \subseteq (0..MaxSessions) \X Nat
  /\ received \in Nat

\* on_ws_open; readable says that a read at the level of the session finds a sample,
\* which may change before anything is read, and missed (history) that a snapshot
\* was asked for when it did not.
FreshSession ==
  [authed |-> ~token, draining |-> FALSE, paused |-> FALSE, level |-> L1,
   readable |-> TRUE, missed |-> FALSE]

NoneAsked == [c \in Places |-> Unsubscribed]

SessionInit ==
  /\ token \in BOOLEAN
  /\ session = 0 /\ link = "down" /\ up = <<>> /\ down = <<>> /\ srv = FreshSession
  /\ connected = FALSE /\ streaming = TRUE /\ lastSeen = FALSE
  /\ sysinfo = 0 /\ sample = 0
  /\ level = NoneAsked /\ asked = NoneAsked /\ owner = NoChart
  /\ history = {} /\ received = 0

\* _send: what is not sent on an open socket is lost without a sign.
Sent(frames) == IF link = "open" THEN up \o frames ELSE up

\* Bounds: pushes and the buttons wait while more is under way, and charts that come,
\* change or go while anything is.
Room == Len(up) + Len(down) < MaxQueue
Quiet == up = <<>> /\ down = <<>>

-----------------------------------------------------------------------------
(* The socket's events.                                                    *)

\* The provider asks for the history by itself (a mutant of SocketReady)
SocketReadyAsking ==
  /\ link = "down" /\ lastSeen = connected /\ session < MaxSessions
  /\ session' = session + 1 /\ link' = "open" /\ srv' = FreshSession
  /\ up' = <<Frame("history")>>
  /\ down' = <<IF token THEN "auth_req" ELSE "config">>
  /\ connected' = TRUE /\ streaming' = TRUE /\ received' = 0
  /\ UNCHANGED <<token, sysinfo, sample, lastSeen, level, asked, owner, history>>

\* The pause of the session before is kept on the screen (a mutant of SocketReady)
SocketReadyPaused ==
  /\ link = "down" /\ lastSeen = connected /\ session < MaxSessions
  /\ session' = session + 1 /\ link' = "open" /\ srv' = FreshSession
  /\ up' = <<>> /\ down' = <<IF token THEN "auth_req" ELSE "config">>
  /\ connected' = TRUE /\ received' = 0
  /\ UNCHANGED <<token, streaming, sysinfo, sample, lastSeen, level, asked, owner, history>>

\* A socket opens, and the gateway with it.  A reconnection waits half a second
\* at least: the page has been rendered since the close.
SocketReady ==
  /\ link = "down" /\ lastSeen = connected /\ session < MaxSessions
  /\ session' = session + 1 /\ link' = "open" /\ srv' = FreshSession
  /\ up' = <<>> /\ down' = <<IF token THEN "auth_req" ELSE "config">>
  /\ connected' = TRUE /\ streaming' = TRUE /\ received' = 0
  /\ UNCHANGED <<token, sysinfo, sample, lastSeen, level, asked, owner, history>>

\* The closing handshake has begun: nothing is sent or read any more, and what
\* the gateway makes of what is under way cannot be seen.
SocketClosing ==
  /\ link = "open" /\ link' = "closing"
  /\ up' = <<>> /\ down' = <<>> /\ srv' = FreshSession
  /\ UNCHANGED <<token, session, page>>

\* onclose; the gateway frees the session with the connection.
SocketClosed ==
  /\ link # "down" /\ link' = "down"
  /\ up' = <<>> /\ down' = <<>> /\ srv' = FreshSession
  /\ connected' = FALSE /\ sysinfo' = 0
  /\ UNCHANGED <<token, session, streaming, sample, lastSeen, level, asked, owner,
                 history, received>>

\* onmessage: the client answers the challenge, the provider asks once the
\* configuration says that it may, the hooks keep what arrives.
Receive ==
  /\ link = "open" /\ down # <<>> /\ down' = Tail(down)
  /\ \/ /\ Head(down) = "auth_req"
        /\ up' = Append(up, Frame("auth"))
        /\ UNCHANGED <<sysinfo, sample, history, received>>
     \/ /\ Head(down) = "config"
        /\ up' = up \o <<Frame("sysinfo"), Frame("snapshot")>>
        /\ UNCHANGED <<sysinfo, sample, history, received>>
     \/ /\ Head(down) = "sysinfo" /\ sysinfo' = session
        /\ UNCHANGED <<up, sample, history, received>>
     \/ /\ Head(down) = "metrics" /\ sample' = session
        /\ UNCHANGED <<up, sysinfo, history, received>>
     \/ /\ Head(down) = "history"
        /\ received' = received + 1
        /\ history' = history \cup {<<session, received + 1>>}
        /\ UNCHANGED <<up, sysinfo, sample>>
  /\ UNCHANGED <<token, session, link, srv, connected, streaming, lastSeen, level, asked, owner>>

-----------------------------------------------------------------------------
(* The gateway.                                                            *)

\* No configuration follows (a mutant of AfterToken)
AfterTokenNothing == <<>>

\* What the gateway answers to the token
AfterToken == <<"config">>

\* on_ws_message: whoever speaks before the token is let go.  A snapshot is not
\* answered when nothing can be read.  A request of history, which follows the
\* choice of its level, may be answered though the newest sample is too old, and
\* may not be where the level is empty or aggregated batches do not fit.
Serve ==
  /\ link = "open" /\ ~srv.draining /\ up # <<>> /\ up' = Tail(up)
  /\ LET c == Head(up) IN
     \/ /\ c.cmd = "auth"
        /\ srv' = [srv EXCEPT !.authed = TRUE] /\ down' = down \o AfterToken
     \/ /\ c.cmd # "auth" /\ ~srv.authed
        /\ srv' = [srv EXCEPT !.draining = TRUE] /\ down' = down
     \/ /\ srv.authed /\ c.cmd \in {"start", "stop"}
        /\ srv' = [srv EXCEPT !.paused = (c.cmd = "stop")] /\ down' = down
     \/ /\ srv.authed /\ c.cmd = "subscribe"
        /\ srv' = [srv EXCEPT !.level = c.level] /\ down' = down
     \/ /\ srv.authed /\ c.cmd = "snapshot"
        /\ srv' = [srv EXCEPT !.missed = @ \/ ~srv.readable]
        /\ down' = IF srv.readable THEN Append(down, "metrics") ELSE down
     \/ /\ srv.authed /\ c.cmd = "sysinfo"
        /\ srv' = srv /\ down' = Append(down, "sysinfo")
     \/ /\ srv.authed /\ c.cmd = "history"
        /\ srv' = srv
        /\ \/ down' = Append(down, "history")
           \/ down' = down /\ (~srv.readable \/ srv.level # L1)
  /\ UNCHANGED <<token, session, link, page>>

\* The last sample goes stale or is renewed, the session is at a level without
\* one, or the level gets one.
DataTurns ==
  /\ link = "open" /\ srv' = [srv EXCEPT !.readable = ~@]
  /\ UNCHANGED <<token, session, link, up, down, page>>

\* The session timer pushes a sample.
Push ==
  /\ link = "open" /\ Room
  /\ srv.authed /\ srv.readable /\ ~srv.paused /\ ~srv.draining
  /\ down' = Append(down, "metrics")
  /\ UNCHANGED <<token, session, link, up, srv, page>>

-----------------------------------------------------------------------------
(* The page.                                                               *)

\* The effect of a chart does not depend on connected (a mutant of Commit)
CommitBlind ==
  /\ lastSeen # connected /\ lastSeen' = connected
  /\ history' = IF connected THEN {} ELSE history
  /\ UNCHANGED <<token, session, link, up, down, srv, connected, streaming, sysinfo, sample,
                 level, asked, owner, received>>

\* The effects that depend on connected see its new value: the hook forgets
\* the history of the session before, the charts take their listeners back.
Commit ==
  /\ lastSeen # connected /\ lastSeen' = connected
  /\ history' = IF connected THEN {} ELSE history
  /\ asked' = NoneAsked /\ owner' = NoChart
  /\ UNCHANGED <<token, session, link, up, down, srv, connected, streaming, sysinfo, sample,
                 level, received>>

\* The effect of a chart that is mounted, or whose level has changed
RunEffect(c) ==
  /\ connected /\ lastSeen /\ level[c] # Unsubscribed /\ asked[c] # level[c]
  /\ up' = Sent(<<Subscribe(level[c]), Frame("history")>>)
  /\ asked' = [asked EXCEPT ![c] = level[c]] /\ owner' = c
  /\ UNCHANGED <<token, session, link, down, srv, connected, streaming, sysinfo, sample,
                 lastSeen, level, history, received>>

\* The user mounts a chart or chooses another level for it.
Choose(c, l) ==
  /\ Quiet /\ received < MaxAnswers /\ level[c] # l
  /\ level' = [level EXCEPT ![c] = l]
  /\ UNCHANGED <<token, session, link, up, down, srv, connected, streaming, sysinfo, sample,
                 lastSeen, asked, owner, history, received>>

\* A chart that goes takes its listeners back and leaves the subscription.
Unmount(c) ==
  /\ Quiet /\ level[c] # Unsubscribed
  /\ level' = [level EXCEPT ![c] = Unsubscribed]
  /\ asked' = [asked EXCEPT ![c] = Unsubscribed]
  /\ owner' = IF owner = c THEN NoChart ELSE owner
  /\ UNCHANGED <<token, session, link, up, down, srv, connected, streaming, sysinfo, sample,
                 lastSeen, history, received>>

\* setStreaming
SetStreaming(v) ==
  /\ Room
  /\ streaming' = v /\ up' = Sent(<<Frame(IF v THEN "start" ELSE "stop")>>)
  /\ UNCHANGED <<token, session, link, down, srv, connected, sysinfo, sample, lastSeen, level,
                 asked, owner, history, received>>

\* The whole tree is mounted anew, as ThemeProvider does once: disconnect() on
\* the client of before, a new client and state, charts as they were.
Remount ==
  /\ link' = "down" /\ up' = <<>> /\ down' = <<>> /\ srv' = FreshSession
  /\ connected' = FALSE /\ streaming' = TRUE /\ lastSeen' = FALSE
  /\ sysinfo' = 0 /\ sample' = 0
  /\ asked' = NoneAsked /\ owner' = NoChart /\ history' = {} /\ received' = 0
  /\ UNCHANGED <<token, session, level>>

SessionNext ==
  \/ SocketReady \/ SocketClosing \/ SocketClosed \/ Receive
  \/ Serve \/ Push \/ DataTurns
  \/ Commit \/ Remount
  \/ \E c \in Places :
       RunEffect(c) \/ Unmount(c) \/ \E l \in Levels : Choose(c, l)
  \/ \E v \in BOOLEAN : SetStreaming(v)

SessionSpec == SessionInit /\ [][SessionNext]_sessionVars

\* Frames arrive and are read, effects run, the timer pushes, a connection that is
\* closes.  Nothing is said of the network's life, the daemon or the user.  Pushes are
\* strongly fair because the gateway does not wait for Room: that is a bound.
SessionFairness ==
  /\ WF_sessionVars(Serve) /\ WF_sessionVars(Receive) /\ WF_sessionVars(Commit)
  /\ SF_sessionVars(Push)
  /\ WF_sessionVars((link = "closing" \/ srv.draining) /\ SocketClosed)

SessionFairSpec == SessionSpec /\ SessionFairness

-----------------------------------------------------------------------------
(* Properties.                                                             *)

Streams(c) == c.cmd \in {"start", "stop"}
Subscribes(c) == c.cmd = "subscribe"

\* The last frame under way that satisfies Of
IsLast(Of(_), i) == Of(up[i]) /\ \A j \in DOMAIN up : j > i => ~Of(up[j])

\* What the provider shows as the state of the stream is what the gateway does
\* once it has read what is under way, whatever was pressed while the client
\* was connected, closing, away or not yet let in: every session starts anew.
StreamingShown ==
  link = "open" /\ ~srv.draining =>
    /\ \A i \in DOMAIN up : IsLast(Streams, i) => (streaming <=> up[i].cmd = "start")
    /\ (\A i \in DOMAIN up : ~Streams(up[i])) => (streaming <=> ~srv.paused)

\* Of all charts, which share one session, the one whose effect ran last has
\* the level of the session as long as it is mounted, across reconnections and
\* changes of its level.
LevelFollowsLastChart ==
  link = "open" /\ ~srv.draining /\ connected = lastSeen
      /\ owner # NoChart /\ asked[owner] = level[owner] =>
    /\ \A i \in DOMAIN up : IsLast(Subscribes, i) => up[i].level = level[owner]
    /\ (\A i \in DOMAIN up : ~Subscribes(up[i])) => srv.level = level[owner]

\* Once the effects have seen a connection, useHistory holds what this session
\* has answered, nothing older and nothing less: no answer comes early enough
\* to be forgotten with the history of the session before.
HistoryIsOfSession ==
  connected /\ lastSeen => history = {<<session, i>> : i \in 1..received}

\* A page whose connection lasts gets, and keeps, the system information of its own
\* session: a frame before the token ends the connection.  It has a sample of it in
\* the end, however it is paused, if there was one to be read when its snapshot was
\* served, which is asked for once and otherwise dropped; and, if there was none, once
\* there is one to be read and the stream runs.
SessionFills ==
  <>[](link = "open") =>
    /\ <>[](sysinfo = session)
    /\ <>[](~srv.missed \/ (srv.readable /\ streaming)) => <>[](sample = session)

\* What the provider says of commands: "wait for PKT_CONFIG which arrives only
\* after auth completes. Commands sent before auth are rejected".
ChartsWaitForConfig ==
  [][\A i \in DOMAIN up' \ DOMAIN up :
       up'[i].cmd \in {"subscribe", "history"} => srv.authed]_sessionVars
=============================================================================
