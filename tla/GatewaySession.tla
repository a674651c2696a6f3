---------------------------- MODULE GatewaySession ----------------------------
(***************************************************************************)
(* The gateway: one thread that polls its connections, runs the session    *)
(* timer (watchdog of the collector daemon, authentication deadlines, the  *)
(* metrics stream) and serves HTTP requests and WebSocket frames.          *)
(*                                                                         *)
(* Time is counted in seconds and kept as distances (how long ago, how     *)
(* long still), so it never ends.  A frame is only the fact that something *)
(* is queued: is_draining closes a connection whose send buffer is empty.  *)
(*                                                                         *)
(* Left out: idle_timeout_ms, which is 0 by default, TLS, and fragments.   *)
(***************************************************************************)
EXTENDS Integers, FiniteSets

CONSTANTS
  Conns,           \* names for accepted connections
  MaxConnections,  \* max_connections
  AuthOn,          \* a token is configured
  AuthTimeout, HeaderTimeout,
  SoftLimit, HardLimit, \* 3 and 10 collection intervals without an update
  StaleAge,        \* age from which ttr_reader_get_latest refuses
  WatchPeriod,     \* time between two looks of the watchdog
  Pushes,          \* update intervals that clients ask for
  LongAgo,         \* bound on counted time since the last push
  MaxAge,          \* bound on counted time since the daemon's last update
  MaxLag,          \* longest time from one poll to the next
  MaxBatch         \* most frames that one read returns

NoDeadline == -1
NoConn == "none"

ASSUME GatewayAssumption ==
  /\ IsFiniteSet(Conns) /\ NoConn \notin Conns
  /\ MaxConnections \in Nat \ {0} /\ AuthOn \in BOOLEAN
  /\ AuthTimeout \in Nat /\ HeaderTimeout \in Nat
  /\ SoftLimit \in Nat /\ HardLimit \in Nat
  /\ SoftLimit < HardLimit /\ StaleAge \in Nat
  /\ WatchPeriod \in Nat /\ LongAgo \in Nat /\ 1 \in Pushes
  /\ Pushes \subseteq 1..LongAgo
  /\ MaxLag \in Nat \ {0} /\ MaxBatch \in Nat
  /\ MaxAge \in Nat /\ HardLimit + WatchPeriod + MaxLag < MaxAge

VARIABLES
  conn,    \* mgr->conns
  todo,    \* connections that the running poll has still to visit
  listen,  \* and whether it has still to visit the listener, the last one
  turn,    \* the connection being visited
  batch,   \* frames it may still have received
  lag,     \* time since the poll began
  due,     \* the session timer must run in the next poll
  dead,    \* daemon_dead: 0 ok, 1 warned, 2 disconnecting
  watch,   \* time since last_watchdog
  age,     \* time since last_update_ts of the mapped ring
  mapped   \* the daemon writes the file that the gateway has mapped

vars == <<conn, todo, listen, turn, batch, lag, due, dead, watch, age, mapped>>
loop == <<todo, listen, turn, batch, lag, due>>
daemon == <<dead, watch, age, mapped>>

\* What the accept leaves, and the place of a closed connection
Fresh == [kind |-> "http", authed |-> FALSE, paused |-> FALSE, draining |-> FALSE,
          closing |-> FALSE, out |-> "none", level |-> 1, every |-> 1,
          since |-> 0, wait |-> NoDeadline, up |-> 0,
          proved |-> FALSE, early |-> FALSE]
Gone  == [Fresh EXCEPT !.kind = "none"]

ConnRecords ==
  [kind : {"none", "http", "ws"}, authed : BOOLEAN, paused : BOOLEAN,
   draining : BOOLEAN, closing : BOOLEAN,
   out : {"none", "new", "old"},  \* send buffer; old: since the poll began
   level : {1, 2}, every : Pushes, since : 0..LongAgo,
   wait : -1..AuthTimeout,        \* auth_deadline
   up : Nat,                      \* since accept_time, while it matters
   proved : BOOLEAN,  \* the client has shown the token
   early : BOOLEAN]   \* data has been queued for a client that had not

TypeOK ==
  /\ conn \in [Conns -> ConnRecords]
  /\ todo \in SUBSET Conns /\ listen \in BOOLEAN
  /\ turn \in Conns \cup {NoConn} /\ batch \in 0..MaxBatch
  /\ lag \in 0..MaxLag /\ due \in BOOLEAN
  /\ dead \in 0..2 /\ watch \in 0..WatchPeriod /\ age \in 0..MaxAge
  /\ mapped \in BOOLEAN

Open == {c \in Conns : conn[c].kind # "none"}

Init ==
  /\ conn = [c \in Conns |-> Gone]
  /\ todo = {} /\ listen = FALSE /\ turn = NoConn /\ batch = 0
  /\ lag = 0 /\ due = FALSE
  /\ dead = 0 /\ watch = WatchPeriod /\ age \in 0..SoftLimit
  /\ mapped = TRUE

-----------------------------------------------------------------------------
(* What is queued on a connection.                                         *)

Queued(r) == [r EXCEPT !.out = IF r.out = "none" THEN "new" ELSE r.out]

\* Metrics, configuration, answers: what a token protects
Data(r) == [Queued(r) EXCEPT !.early = r.early \/ (AuthOn /\ ~r.proved)]

\* ttg_reader_get_latest refuses an old ring (at the limit, the fraction of a
\* second decides), ttg_reader_get_history does not, but may find the level
\* empty.
Readable(l, filled) ==
  IF l = 1 THEN age < StaleAge \/ (age = StaleAge /\ filled) ELSE filled

\* send_metrics
SendMetrics(r, filled) == IF Readable(r.level, filled) THEN Data(r) ELSE r

-----------------------------------------------------------------------------
(* ttg_session_timer_fn                                                    *)

\* A warned watchdog goes no further (a mutant of Verdict)
VerdictOnce ==
  IF watch < WatchPeriod THEN dead
  ELSE IF age > SoftLimit THEN IF dead > 0 THEN dead
                               ELSE IF age > HardLimit THEN 2 ELSE 1
  ELSE 0

\* A recovered daemon is not noticed (a mutant of Verdict)
VerdictKept ==
  IF watch < WatchPeriod THEN dead
  ELSE IF age > HardLimit THEN 2
  ELSE IF age > SoftLimit /\ dead = 0 THEN 1
  ELSE dead

\* What the watchdog makes of the age
Verdict ==
  IF watch < WatchPeriod THEN dead
  ELSE IF age > HardLimit THEN 2
  ELSE IF age > SoftLimit THEN IF dead = 0 THEN 1 ELSE dead
  ELSE 0

\* send_alert to the clients that are in, which are then let go at the hard
\* threshold
Alerted(r, verdict) ==
  IF r.kind = "ws" /\ r.authed /\ verdict > dead
  THEN [Data(r) EXCEPT !.draining = r.draining \/ verdict = 2]
  ELSE r

Late(r) == ~r.authed /\ r.wait = 0

\* The stream does not look at is_authed (a mutant of Streamed)
StreamedToAll(r) == r.kind = "ws" /\ ~r.paused /\ r.since >= r.every

Streamed(r) == r.kind = "ws" /\ ~r.paused /\ r.authed /\ r.since >= r.every

\* Every client is stamped, served or not (a mutant of Served)
ServedStamped(r, filled) ==
  IF r.kind = "ws" /\ Late(r) THEN [r EXCEPT !.draining = TRUE]
  ELSE [(IF Streamed(r) THEN SendMetrics(r, filled) ELSE r) EXCEPT !.since = 0]

\* Per-connection work
Served(r, filled) ==
  IF r.kind = "ws" /\ Late(r) THEN [r EXCEPT !.draining = TRUE]
  ELSE IF Streamed(r) THEN [SendMetrics(r, filled) EXCEPT !.since = 0]
  ELSE r

TimerFn(cs, filled) ==
  [c \in Conns |-> Served(Alerted(cs[c], Verdict), c \in filled)]

-----------------------------------------------------------------------------
(* ttg_net_mgr_poll: the timers, then every connection, then the listener. *)

Older(r) == [r EXCEPT !.out = IF r.out = "new" THEN "old" ELSE r.out]

\* The period of the session timer is half a second: it must run once a
\* second has passed, and may run before.
StartPoll(fires, filled) ==
  LET cs == [c \in Conns |-> Older(conn[c])]
  IN  /\ turn = NoConn /\ todo = {} /\ ~listen
      /\ due => fires
      /\ conn' = IF fires THEN TimerFn(cs, filled) ELSE cs
      /\ dead' = IF fires THEN Verdict ELSE dead
      /\ watch' = IF fires /\ watch >= WatchPeriod THEN 0 ELSE watch
      /\ due' = (due /\ ~fires)
      /\ todo' = Open /\ listen' = TRUE /\ lag' = 0
      /\ UNCHANGED <<turn, batch, age, mapped>>

Visit(c) ==
  /\ turn = NoConn /\ c \in todo
  /\ turn' = c /\ todo' = todo \ {c} /\ batch' = MaxBatch
  /\ UNCHANGED <<conn, listen, lag, due, daemon>>

\* ttg_sock_write_conn, when all of the send buffer goes out; what only part
\* of it does is no change.
Flush(c) ==
  /\ turn = c /\ conn[c].out = "old"
  /\ conn' = [conn EXCEPT ![c].out = "none"]
  /\ batch' = 0
  /\ UNCHANGED <<todo, listen, turn, lag, due, daemon>>

\* Only the HTTP side closes what it has drained (a mutant of Drained)
DrainedHttp(r) == r.draining /\ r.out = "none" /\ r.kind = "http"

Drained(r) == r.draining /\ r.out = "none"

\* The seconds hide a fraction: at the limit it may have passed or not.
HeaderTime(r) ==
  IF r.kind # "http" \/ r.up - lag < HeaderTimeout THEN {FALSE}
  ELSE IF r.up - lag = HeaderTimeout THEN BOOLEAN ELSE {TRUE}

EndTurn(c) ==
  /\ turn = c
  /\ \E expired \in HeaderTime(conn[c]) :
       conn' = IF conn[c].closing \/ Drained(conn[c]) \/ expired
               THEN [conn EXCEPT ![c] = Gone] ELSE conn
  /\ turn' = NoConn /\ batch' = 0
  /\ UNCHANGED <<todo, listen, lag, due, daemon>>

\* ttg_sock_accept_conn: one connection, or none to accept or no room
Listener ==
  /\ turn = NoConn /\ todo = {} /\ listen
  /\ listen' = FALSE
  /\ \/ UNCHANGED conn
     \/ /\ Cardinality(Open) < MaxConnections
        /\ \E c \in Conns \ Open : conn' = [conn EXCEPT ![c] = Fresh]
  /\ UNCHANGED <<todo, turn, batch, lag, due, daemon>>

-----------------------------------------------------------------------------
(* What a connection receives in its turn.  Frames that are too short or   *)
(* not of this protocol change nothing.                                    *)

Receive(c, cs) ==
  /\ turn = c /\ batch > 0 /\ ~conn[c].closing
  /\ conn' = cs /\ batch' = batch - 1
  /\ UNCHANGED <<todo, listen, turn, lag, due, daemon>>

\* on_ws_open, with no deadline for the token (a mutant of Opened)
OpenedForGood(r, bearer) ==
  LET w == [Queued(r) EXCEPT !.kind = "ws", !.every = 1, !.since = LongAgo,
                             !.level = 1, !.paused = FALSE]
  IN  IF ~AuthOn \/ bearer
      THEN Data([w EXCEPT !.authed = TRUE, !.proved = bearer, !.up = 0])
      ELSE [w EXCEPT !.authed = FALSE]

\* on_ws_open, with or without the token in the request
Opened(r, bearer) ==
  LET w == [Queued(r) EXCEPT !.kind = "ws", !.every = 1, !.since = LongAgo,
                             !.level = 1, !.paused = FALSE]
  IN  IF ~AuthOn \/ bearer
      THEN Data([w EXCEPT !.authed = TRUE, !.proved = bearer, !.up = 0])
      ELSE [w EXCEPT !.authed = FALSE, !.wait = AuthTimeout]

Upgrade(c, bearer) ==
  /\ conn[c].kind = "http"
  /\ Receive(c, [conn EXCEPT ![c] = Opened(conn[c], bearer)])

\* Any other request is answered; last: an error, or Connection: close
Replied(r, last) == [Queued(r) EXCEPT !.draining = r.draining \/ last]

Request(c, last) ==
  /\ conn[c].kind = "http"
  /\ Receive(c, [conn EXCEPT ![c] = Replied(conn[c], last)])

\* POST /v1/stream/pause and /v1/stream/resume, with the token if there is one
PauseAll(c, pause, last) ==
  /\ conn[c].kind = "http"
  /\ Receive(c, [d \in Conns |->
       IF d = c THEN Replied(conn[c], last)
       ELSE IF conn[d].kind = "ws" THEN [conn[d] EXCEPT !.paused = pause]
       ELSE conn[d]])

\* CMD_AUTH, whatever came before
Authenticated(r, ok) ==
  LET a == IF ok THEN [r EXCEPT !.authed = TRUE, !.wait = NoDeadline,
                                !.proved = TRUE, !.up = 0] ELSE r
  IN  IF a.authed THEN Data(a) ELSE [Queued(a) EXCEPT !.draining = TRUE]

CmdAuth(c, ok) ==
  /\ conn[c].kind = "ws"
  /\ Receive(c, [conn EXCEPT ![c] = Authenticated(conn[c], ok)])

\* Every other message of a client that is in leaves r; any other client is
\* let go.
Message(c, r) ==
  /\ conn[c].kind = "ws"
  /\ Receive(c, [conn EXCEPT ![c] =
       IF conn[c].authed THEN r ELSE [conn[c] EXCEPT !.draining = TRUE]])

\* Any interval is taken, 0 too (a mutant of Subscribe)
SubscribeUnchecked(c, l, ms) ==
  Message(c, Data([conn[c] EXCEPT !.level = l, !.every = ms]))

\* handle_subscribe and CMD_SET_INTERVAL; what is not in range is not taken
Subscribe(c, l, ms) ==
  Message(c, Data([conn[c] EXCEPT !.level = l,
                                  !.every = IF ms \in Pushes THEN ms ELSE @]))

\* CMD_STOP and CMD_START
Pause(c, pause) == Message(c, Data([conn[c] EXCEPT !.paused = pause]))

\* History, snapshot, statistics, system information, an unknown command
Ask(c, answered) == Message(c, IF answered THEN Data(conn[c]) ELSE conn[c])

\* Control frames: a ping is answered, a close or an unknown one is the last
Control(c, last) ==
  /\ conn[c].kind = "ws"
  /\ Receive(c, [conn EXCEPT ![c] =
       [Queued(conn[c]) EXCEPT !.draining = conn[c].draining \/ last]])

\* The peer hangs up or breaks the protocol
Broken(c) == Receive(c, [conn EXCEPT ![c].closing = TRUE])

-----------------------------------------------------------------------------
(* Time and the daemon.                                                    *)

Least(a, b) == IF a <= b THEN a ELSE b

\* The age of a connection counts as long as a deadline depends on it.
Waiting(r) == r.kind = "http" \/ (r.kind = "ws" /\ ~r.authed /\ ~r.draining)

Aged(r) ==
  [r EXCEPT !.up = IF Waiting(r) THEN r.up + 1 ELSE r.up,
            !.since = IF r.kind = "ws" /\ r.authed THEN Least(r.since + 1, LongAgo)
                      ELSE r.since,
            !.wait = IF r.wait > 0 THEN r.wait - 1 ELSE r.wait]

\* A second passes; no poll takes longer than MaxLag.
Tick ==
  /\ lag < MaxLag
  /\ lag' = lag + 1 /\ due' = TRUE
  /\ conn' = [c \in Conns |-> Aged(conn[c])]
  /\ watch' = Least(watch + 1, WatchPeriod)
  /\ age' = Least(age + 1, MaxAge)
  /\ UNCHANGED <<todo, listen, turn, batch, dead, mapped>>

\* A sample stamps the header of the file the daemon has open.
DaemonWrite ==
  /\ age' = IF mapped THEN 0 ELSE age
  /\ UNCHANGED <<conn, loop, dead, watch, mapped>>

\* tinytd unlinks the live file and makes a new one.
DaemonRestart ==
  /\ mapped' = FALSE
  /\ UNCHANGED <<conn, loop, dead, watch, age>>

-----------------------------------------------------------------------------

HttpMessage(c) ==
  \/ \E bearer \in BOOLEAN : Upgrade(c, bearer)
  \/ \E last \in BOOLEAN : Request(c, last)
  \/ \E pause, last \in BOOLEAN : PauseAll(c, pause, last)

WsMessage(c) ==
  \/ \E ok \in BOOLEAN : CmdAuth(c, ok)
  \/ \E l \in {1, 2}, ms \in Pushes \cup {0} : Subscribe(c, l, ms)
  \/ \E pause \in BOOLEAN : Pause(c, pause)
  \/ \E answered \in BOOLEAN : Ask(c, answered)
  \/ \E last \in BOOLEAN : Control(c, last)

LoopStep ==
  \/ \E fires \in BOOLEAN, filled \in SUBSET Conns : StartPoll(fires, filled)
  \/ \E c \in Conns : Visit(c) \/ EndTurn(c)
  \/ Listener

Next ==
  \/ LoopStep
  \/ \E c \in Conns : Flush(c) \/ HttpMessage(c) \/ WsMessage(c) \/ Broken(c)
  \/ Tick \/ DaemonWrite \/ DaemonRestart

Spec == Init /\ [][Next]_vars

\* The loop goes round, time passes, the daemon writes, and a peer takes what
\* it is sent time and again.
Fairness ==
  /\ WF_vars(LoopStep) /\ WF_vars(Tick) /\ WF_vars(DaemonWrite)
  /\ \A c \in Conns : SF_vars(Flush(c))

FairSpec == Spec /\ Fairness

-----------------------------------------------------------------------------
(* Properties.                                                             *)

\* Where a token is configured, metrics, configuration, alerts and answers go
\* only to clients that have shown it: through the timer, the watchdog, a
\* command or the open.
DataNeedsToken == \A c \in Conns : ~conn[c].early

\* The header timeout and the authentication deadline together: a peer that
\* never shows the token has no connection, or one that is only being
\* emptied, when both times and the delays of three polls are over.
TokenInTime ==
  AuthOn => \A c \in Conns :
    Waiting(conn[c]) => conn[c].up <= HeaderTimeout + AuthTimeout + 3 * MaxLag

\* The watchdog acts in time, whatever it said before: at the soft threshold
\* clients have been warned, at the hard one let go, a look and a poll later
\* at most.
WatchdogInTime ==
  /\ age > SoftLimit + WatchPeriod + MaxLag => dead > 0
  /\ age > HardLimit + WatchPeriod + MaxLag => dead = 2

\* A daemon that writes again is noticed: clients are not kept on an alert.
RecoveryIsNoticed == <>[](age <= SoftLimit) => <>[](dead = 0)

\* A connection that is being drained is closed in the end, although frames
\* are still read from it and queued on it.
DrainingCloses ==
  \A c \in Conns : conn[c].draining ~> conn[c].kind = "none"

\* A client that stays in, unpaused, is pushed samples again and again while
\* the daemon keeps its interval, whatever alerts and pauses came before.
StreamGoesOn ==
  \A c \in Conns :
    <>[](/\ conn[c].kind = "ws" /\ conn[c].authed /\ ~conn[c].paused
         /\ conn[c].level = 1 /\ age < StaleAge)
      => []<>(conn[c].out = "new")

\* What the gateway logs when it finds the daemon dead: it serves stale data
\* until tinytd restarts.
StaleOnlyUntilRestart == (~mapped /\ age > SoftLimit) ~> (age <= SoftLimit)
=============================================================================
