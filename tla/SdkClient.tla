------------------------------ MODULE SdkClient ------------------------------
(***************************************************************************)
(* The TypeScript client: connect, disconnect, reconnection and the        *)
(* connection timeout, against a WebSocket that may fail at any time.      *)
(*                                                                         *)
(* Handlers run to completion, so each is one action.  A failed socket     *)
(* fires onerror and onclose in one task, a close() is answered later.     *)
(* Left out: what the frames say, and a strategy that throws.              *)
(***************************************************************************)
EXTENDS Integers, FiniteSets

CONSTANTS
  Sockets,     \* names for WebSocket objects, used again when forgotten
  Limits,      \* values of maxRetries, 0 for no limit
  MaxCalls,    \* bound on calls of connect
  RetryCap     \* bound on counted retries

ASSUME ClientAssumption ==
  /\ IsFiniteSet(Sockets) /\ MaxCalls \in Nat
  /\ RetryCap \in Nat /\ Limits \subseteq 0..RetryCap

NoSocket == "none"
ASSUME NoSocketAssumption == NoSocket \notin Sockets

VARIABLES
  opts,     \* reconnect, maxRetries, and whether the strategy may give up
  sock,     \* state, onclose handler and running timeout of each WebSocket
  ws,       \* this.ws
  handle,   \* the socket whose timeout this._connectTimer holds
  closed,   \* this._closed
  retries,  \* this.retries
  waiting,  \* reconnections that setTimeout has pending
  promise,  \* what became of the promise of the last connect
  resolver, \* this._readyResolve is set
  rejecter, \* this._readyReject is set
  calls     \* of connect

live == <<sock, ws, handle, closed, retries, waiting, promise, resolver, rejecter, calls>>
clientVars == <<opts, live>>

Options == [reconnect : BOOLEAN, maxRetries : Limits, mayGiveUp : BOOLEAN]

SocketRecords ==
  [state : {"connecting", "open", "closing", "closed"},
   onclose : {"retry", "resolve"}, timer : BOOLEAN]

ClientTypeOK ==
  /\ opts \in Options
  /\ sock \in [Sockets -> SocketRecords]
  /\ ws \in Sockets \cup {NoSocket} /\ handle \in Sockets \cup {NoSocket}
  /\ closed \in BOOLEAN /\ retries \in 0..RetryCap
  /\ waiting \in 0..MaxCalls /\ calls \in 0..MaxCalls
  /\ promise \in {"none", "pending", "resolved", "rejected"}
  /\ resolver \in BOOLEAN /\ rejecter \in BOOLEAN

ClientInit ==
  /\ opts \in Options
  /\ sock = [s \in Sockets |-> [state |-> "closed", onclose |-> "retry", timer |-> FALSE]]
  /\ ws = NoSocket /\ handle = NoSocket /\ closed = FALSE /\ retries = 0
  /\ waiting = 0 /\ promise = "none" /\ resolver = FALSE /\ rejecter = FALSE
  /\ calls = 0

Closed(s) == sock[s].state = "closed"
Forgotten(s) == Closed(s) /\ ~sock[s].timer

\* _clearConnectTimer: it stops the timeout it holds, whoever set it.
Cleared ==
  [s \in Sockets |-> IF s = handle THEN [sock[s] EXCEPT !.timer = FALSE] ELSE sock[s]]

\* Called back with the outcome, a promise is settled once.
Settle(outcome) == IF promise = "pending" THEN outcome ELSE promise

-----------------------------------------------------------------------------

\* _open, which keeps no other handle of an earlier timeout
Open(s) ==
  /\ Forgotten(s)
  /\ sock' = [sock EXCEPT ![s] = [state |-> "connecting", onclose |-> "retry",
                                  timer |-> TRUE]]
  /\ ws' = s /\ handle' = s

Connect(s) ==
  /\ calls < MaxCalls /\ calls' = calls + 1
  /\ closed' = FALSE
  /\ promise' = "pending" /\ resolver' = TRUE /\ rejecter' = TRUE
  /\ Open(s)
  /\ UNCHANGED <<retries, waiting>>

Alive == ws # NoSocket /\ ~Closed(ws)

\* The socket's onclose is taken away (a mutant of Disconnect)
DisconnectMute ==
  /\ closed' = TRUE /\ handle' = NoSocket
  /\ resolver' = FALSE /\ rejecter' = FALSE
  /\ \/ ~Alive /\ sock' = Cleared /\ ws' = ws
     \/ /\ Alive
        /\ sock' = [Cleared EXCEPT ![ws].onclose = "null", ![ws].state = "closing"]
        /\ ws' = NoSocket
  /\ UNCHANGED <<retries, waiting, promise, calls>>

Disconnect ==
  /\ closed' = TRUE /\ handle' = NoSocket
  /\ resolver' = FALSE /\ rejecter' = FALSE
  /\ \/ /\ ~Alive
        /\ sock' = Cleared /\ ws' = ws
     \/ /\ Alive
        /\ sock' = [Cleared EXCEPT ![ws].onclose = "resolve", ![ws].state = "closing"]
        /\ ws' = NoSocket
  /\ UNCHANGED <<retries, waiting, promise, calls>>

\* The timer leaves no handler behind (a mutant of TimerFires)
TimerFiresSilent(s) ==
  /\ sock[s].timer
  /\ IF sock[s].state = "open"
     THEN sock' = [sock EXCEPT ![s].timer = FALSE] /\ UNCHANGED <<promise, rejecter>>
     ELSE /\ sock' = [sock EXCEPT ![s].timer = FALSE, ![s].onclose = "resolve",
                        ![s].state = IF Closed(s) THEN "closed" ELSE "closing"]
          /\ promise' = IF rejecter THEN Settle("rejected") ELSE promise
          /\ rejecter' = FALSE
  /\ UNCHANGED <<ws, handle, closed, retries, waiting, resolver, calls>>

\* The timer does not reject (a mutant of TimerFires)
TimerFiresQuietly(s) ==
  /\ sock[s].timer
  /\ sock' = [sock EXCEPT ![s].timer = FALSE,
                ![s].state = IF @ = "connecting" THEN "closing" ELSE @]
  /\ UNCHANGED <<ws, handle, closed, retries, waiting, promise, resolver, rejecter, calls>>

\* The connection timeout
TimerFires(s) ==
  /\ sock[s].timer
  /\ IF sock[s].state = "open"
     THEN sock' = [sock EXCEPT ![s].timer = FALSE] /\ UNCHANGED <<promise, rejecter>>
     ELSE /\ sock' = [sock EXCEPT ![s].timer = FALSE,
                        ![s].state = IF Closed(s) THEN "closed" ELSE "closing"]
          /\ promise' = IF rejecter THEN Settle("rejected") ELSE promise
          /\ rejecter' = FALSE
  /\ UNCHANGED <<ws, handle, closed, retries, waiting, resolver, calls>>

OnOpen(s) ==
  /\ sock[s].state = "connecting"
  /\ sock' = [Cleared EXCEPT ![s].state = "open"]
  /\ handle' = NoSocket /\ retries' = 0
  /\ promise' = IF resolver THEN Settle("resolved") ELSE promise
  /\ resolver' = FALSE /\ rejecter' = FALSE
  /\ UNCHANGED <<ws, closed, waiting, calls>>

\* The error handler asks for a reconnection too (a mutant of Reconnections)
ReconnectionsTwice(err) ==
  IF closed \/ ~opts.reconnect THEN {0} ELSE IF err THEN {2} ELSE {1}

\* How many reconnections a close asks for
Reconnections(err) ==
  IF closed \/ ~opts.reconnect \/ (opts.maxRetries > 0 /\ retries >= opts.maxRetries)
  THEN {0} ELSE IF opts.mayGiveUp THEN {0, 1} ELSE {1}

Least(a, b) == IF a <= b THEN a ELSE b

\* onclose, after onerror if the connection has failed; the handler that
\* disconnect installs only resolves.
OnClose(s, err) ==
  /\ ~Closed(s) /\ (sock[s].state = "connecting" => err)
  /\ promise' = IF err /\ rejecter THEN Settle("rejected") ELSE promise
  /\ rejecter' = (rejecter /\ ~err)
  /\ \/ /\ sock[s].onclose = "resolve"
        /\ sock' = [sock EXCEPT ![s].state = "closed"]
        /\ UNCHANGED <<handle, retries, waiting>>
     \/ /\ sock[s].onclose = "retry"
        /\ sock' = [Cleared EXCEPT ![s].state = "closed"]
        /\ handle' = NoSocket
        /\ \E n \in Reconnections(err) :
             waiting' = waiting + n /\ retries' = Least(retries + n, RetryCap)
  /\ UNCHANGED <<ws, closed, resolver, calls>>

\* The timeout of a reconnection, which no one can clear
Retry(s) ==
  /\ waiting > 0 /\ waiting' = waiting - 1
  /\ Open(s)
  /\ UNCHANGED <<closed, retries, promise, resolver, rejecter, calls>>

ClientNext ==
  /\ \/ Disconnect
     \/ \E s \in Sockets :
          Connect(s) \/ TimerFires(s) \/ OnOpen(s) \/ Retry(s)
            \/ \E err \in BOOLEAN : OnClose(s, err)
  /\ UNCHANGED opts

ClientSpec == ClientInit /\ [][ClientNext]_clientVars

\* Timeouts expire, and a socket that has been told to close does; nothing is
\* said of a peer.
ClientFairness ==
  /\ WF_live(\E s \in Sockets : Retry(s))
  /\ \A s \in Sockets :
       WF_live(TimerFires(s)) /\ WF_live(sock[s].state = "closing" /\ OnClose(s, TRUE))

ClientFairSpec == ClientSpec /\ ClientFairness

-----------------------------------------------------------------------------
(* Properties.                                                             *)

\* A socket whose close leads to a reconnection
Trying(s) == ~Closed(s) /\ sock[s].onclose = "retry"

\* Every close, timeout and failure leads to at most one reconnection: there
\* are never more attempts and connections alive than connect() was called.
AttemptsWithinCalls ==
  Cardinality({s \in Sockets : Trying(s)}) + waiting <= calls

Persistent == opts.reconnect /\ opts.maxRetries = 0 /\ ~opts.mayGiveUp

\* Until disconnect(), a client without a limit of retries has a connection,
\* an attempt or a reconnection ahead: no sequence of timeouts and failures
\* leaves it alone.
NeverStuck ==
  calls > 0 /\ ~closed /\ Persistent
    => waiting > 0 \/ \E s \in Sockets : Trying(s)

\* The promise of the last connect() is settled, whatever the network does,
\* unless disconnect() has been called.  A client that stops to reconnect is
\* excepted: another socket's close can have cleared the only timeout.
PromiseSettles ==
  Persistent => (promise = "pending" ~> (promise # "pending" \/ closed))

\* What the documentation of disconnect says: it disables auto-reconnect.
DisconnectEndsReconnect ==
  [][closed /\ closed' => \A s \in Sockets : Closed(s) => sock'[s].state # "connecting"]_clientVars
=============================================================================
