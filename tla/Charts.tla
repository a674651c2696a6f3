------------------------------ MODULE Charts ------------------------------
(***************************************************************************)
(* TimeSeriesChart and Timeline on one page: what they make of the samples *)
(* that one client delivers to both, in order, across reconnections.       *)
(*                                                                         *)
(* A sample is known by its time.  The gateway answers a request in        *)
(* batches that each start over with the newest samples, and after a wrap  *)
(* of the ring the reader gives no more than were written since.  What a   *)
(* view draws is reduced to which samples are in it.                       *)
(***************************************************************************)
EXTENDS Integers, Sequences, FiniteSets

CONSTANTS
  MaxSamples,  \* maxSamples of the chart
  Batch,       \* TT_HISTORY_BATCH_MAX
  RingCap,     \* capacity of level 1
  Wanted,      \* samples of level 1 that the timeline asks for
  Windows,     \* WINDOW_OPTIONS
  WheelStep,   \* bars that one turn of the wheel moves
  MaxTime,     \* bound on the samples of the daemon
  MaxPipe,     \* bound on frames under way
  MaxConnects  \* bound on connections

ASSUME ChartsAssumption ==
  /\ Batch \in Nat \ {0} /\ RingCap \in Nat \ {0} /\ MaxSamples \in Nat \ {0} /\ Wanted \in Nat
  /\ Windows \subseteq Nat \ {0} /\ Windows # {} /\ WheelStep \in Nat
  /\ MaxTime \in Nat /\ MaxPipe \in Nat /\ MaxConnects \in Nat

VARIABLES
  now,      \* time of the newest sample of the ring
  coarse,   \* another chart holds the session at a level of every second sample
  asks,     \* history requests under way: the samples that are still to be sent
  sending,  \* the gateway is in the loop that answers the first of them
  pipe,     \* frames under way to the client, sequences of times
  connects, \* connections so far
  data,     \* the samples of the chart
  row,      \* the samples of the timeline's first row, kept by time and sorted
  window,   \* visible bars
  offset,   \* bars between the window and the newest sample
  settled   \* history: the last answer that arrived was as long as the chart

chartsVars == <<now, coarse, asks, sending, pipe, connects, data, row, window, offset, settled>>

Times == 1..MaxTime
Frames == [kind : {"history", "metrics"}, times : Seq(Times)]

ChartsTypeOK ==
  /\ now \in 0..MaxTime /\ coarse \in BOOLEAN
  /\ asks \in Seq(Nat) /\ pipe \in Seq(Frames) /\ connects \in 0..MaxConnects
  /\ data \in Seq(Times) /\ Len(data) <= MaxSamples
  /\ row \subseteq Times /\ window \in Windows /\ offset \in 0..MaxTime
  /\ settled \in BOOLEAN /\ sending \in BOOLEAN

ChartsInit ==
  /\ now = 0 /\ coarse \in BOOLEAN /\ asks = <<>> /\ sending = FALSE /\ pipe = <<>> /\ connects = 0
  /\ data = <<>> /\ row = {} /\ window \in Windows /\ offset = 0
  /\ settled = FALSE

Lesser(a, b) == IF a <= b THEN a ELSE b
Greater(a, b) == IF a >= b THEN a ELSE b

\* The last n of a sequence: slice(-n)
Newest(s, n) == SubSeq(s, Greater(Len(s) - n, 0) + 1, Len(s))

-----------------------------------------------------------------------------
(* The gateway and the daemon.                                             *)

Sample ==
  /\ now < MaxTime /\ now' = now + 1
  /\ UNCHANGED <<coarse, asks, sending, pipe, connects, data, row, window, offset, settled>>

\* One batch of history: the newest samples, oldest first
BatchOf(n) == [kind |-> "history", times |-> [i \in 1..n |-> now - n + i]]

\* ttr_reader_get_history: a ring that has wrapped holds all its slots when the
\* head is back at 0, and else is taken to hold what lies before the head.
Held == IF now > 0 /\ now % RingCap = 0 THEN RingCap ELSE now % RingCap

\* The most that one request is given, and what one that names no number is given
Allowed(n) == IF n = 0 \/ n > 10 * Batch THEN 10 * Batch ELSE n

\* One turn of the loop of send_history: what is sent is subtracted from what is
\* asked, and every batch holds the newest samples again.  The daemon may write
\* between two turns; an empty ring ends the answer.
ServeBatch ==
  /\ asks # <<>>
  /\ LET n == Allowed(Head(asks))
         got == Lesser(Lesser(n, Batch), Held)
     IN /\ sending' = (got \in 1..(n - 1))
        /\ asks' = IF sending' THEN <<n - got>> \o Tail(asks) ELSE Tail(asks)
        /\ pipe' = IF got = 0 THEN pipe ELSE Append(pipe, BatchOf(got))
  /\ UNCHANGED <<now, coarse, connects, data, row, window, offset, settled>>

\* send_metrics, at the level of the session: by the same thread, so not while an
\* answer is sent
PushNewest ==
  LET t == IF coarse THEN now - (now % 2) ELSE now IN
  /\ connects > 0 /\ ~sending /\ t > 0 /\ Len(pipe) < MaxPipe
  /\ pipe' = Append(pipe, [kind |-> "metrics", times |-> <<t>>])
  /\ UNCHANGED <<now, coarse, asks, sending, connects, data, row, window, offset, settled>>

-----------------------------------------------------------------------------
(* The page.                                                               *)

\* A connection: the effects of both views ask for history; what was under way
\* is lost, what the views hold stays.
Reconnect ==
  /\ connects < MaxConnects /\ connects' = connects + 1
  /\ asks' = <<MaxSamples, Wanted>> /\ sending' = FALSE /\ pipe' = <<>>
  /\ UNCHANGED <<now, coarse, data, row, window, offset, settled>>

\* One sample too many is kept (a mutant of addSamples)
addSamplesLong(times) == Newest(data \o times, MaxSamples + 1)

\* setData of the chart
addSamples(times) == Newest(data \o times, MaxSamples)

\* Both views listen to both events, to answers of the other view as well.
Deliver ==
  /\ pipe # <<>> /\ pipe' = Tail(pipe)
  /\ LET f == Head(pipe) IN
     /\ data' = addSamples(f.times)
     /\ row' = row \cup {f.times[i] : i \in DOMAIN f.times}
     /\ settled' = IF f.kind = "history" THEN Len(f.times) >= MaxSamples ELSE settled
  /\ UNCHANGED <<now, coarse, asks, sending, connects, window, offset>>

\* The offset is not held inside the data (a mutant of Scrolled)
ScrolledFree(d) == Greater(0, offset + d * WheelStep)

Scrolled(d) ==
  Greater(0, Lesser(offset + d * WheelStep, Greater(0, Cardinality(row) - window)))

\* onWheel
Wheel(d) ==
  /\ offset' = Scrolled(d)
  /\ UNCHANGED <<now, coarse, asks, sending, pipe, connects, data, row, window, settled>>

\* The label that brings the window back to the newest sample
Live ==
  /\ offset # 0 /\ offset' = 0
  /\ UNCHANGED <<now, coarse, asks, sending, pipe, connects, data, row, window, settled>>

SetWindow(w) ==
  /\ window' = w
  /\ UNCHANGED <<now, coarse, asks, sending, pipe, connects, data, row, offset, settled>>

\* visibleData: the samples that have at least offset newer ones, up to window
Visible ==
  {t \in row : Cardinality({u \in row : u > t}) \in offset..(offset + window - 1)}

ChartsNext ==
  \/ Sample \/ ServeBatch \/ PushNewest \/ Reconnect \/ Deliver \/ Live
  \/ \E d \in {-1, 1} : Wheel(d)
  \/ \E w \in Windows : SetWindow(w)

ChartsSpec == ChartsInit /\ [][ChartsNext]_chartsVars

-----------------------------------------------------------------------------
(* Properties.                                                             *)

\* However answers repeat the newest samples, because of the timeline or because
\* the ring has just wrapped, and whatever is pushed before an answer or kept across
\* a reconnection: the last sample of the chart, whose value its head names, is the
\* newest of all it holds.  Its line does go back where a short answer starts over,
\* and is in order again from the next answer on that is as long as the chart.
ChartInOrder ==
  ~coarse =>
    /\ \A i \in DOMAIN data : data[i] <= data[Len(data)]
    /\ settled => \A i, j \in DOMAIN data : i < j => data[i] <= data[j]

\* The window of the timeline lies inside the data, whatever was scrolled, chosen
\* and received, and shows the newest sample until it has been scrolled.
WindowShowsData ==
  row # {} => /\ Visible # {}
              /\ offset = 0 => \E t \in Visible : \A u \in row : u <= t
=============================================================================
