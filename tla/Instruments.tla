---------------------------- MODULE Instruments ----------------------------
(***************************************************************************)
(* The dashboard: its gauges, the history behind their sparklines, the     *)
(* keyboard, the buttons and the log.                                      *)
(*                                                                         *)
(* One metric stands for the five.  A render reads the references, effects *)
(* write them after it.  The frames that start, stop and set the interval  *)
(* belong to ReactSession; here they are lines of the log.                 *)
(***************************************************************************)
EXTENDS Integers, Sequences

CONSTANTS
  Readings,    \* values of the metric, in hundredths of a percent
  GaugeOrder,  \* gauges of the keys 1 to 5
  ShownGauges, \* the prop metrics
  HistorySize, \* the prop historySize
  MaxLog,      \* MAX_LOG
  Intervals    \* INTERVALS

Unset == -1
NoGauge == "none"

ASSUME InstrumentsAssumption ==
  /\ Readings \subseteq Nat /\ HistorySize \in Nat \ {0, 1} /\ MaxLog \in Nat \ {0}
  /\ ShownGauges \subseteq GaugeOrder /\ NoGauge \notin GaugeOrder /\ Intervals # {}

VARIABLES
  reading,      \* what the gauge shows, Unset before the first sample
  rendered,     \* a render whose effects have yet to run
  seen,         \* the value that the effect of the gauge has last run for
  lowest, highest, \* minRef and maxRef of the gauge
  past,         \* history.current
  drawn,        \* the history that the sparkline was last drawn from
  mode, focus,  \* of the dashboard, and its expandedGauge
  log,          \* directions of the lines of wsLog
  console,      \* consoleOpen
  interval      \* intervalIdx

gaugeVars == <<rendered, reading, seen, lowest, highest, past, drawn>>
panelVars == <<mode, focus, console, interval>>
instrumentVars == <<gaugeVars, panelVars, log>>

Directions == {"sent", "received", "opened", "closed"}

\* The last n of a sequence: slice(-n)
Recent(s, n) == SubSeq(s, (IF Len(s) > n THEN Len(s) - n ELSE 0) + 1, Len(s))

\* Gauge: the arc, which ends at its maximum, and the stripe above it
Arc(value, max) == IF value > max THEN 100 ELSE (100 * value) \div max
Stripe(value, max) ==
  CASE 5 * value >= 4 * max -> "crit"
    [] 5 * value < 4 * max /\ 5 * value >= 3 * max -> "warn"
    [] 5 * value < 3 * max /\ value > 0 -> "ok" [] OTHER -> "faint"

\* netPct: 200 MB/s are the whole arc.
NetPct(bps) == LET pct == (20000 * bps + 209715200) \div 419430400
               IN IF pct > 10000 THEN 10000 ELSE pct

\* The gauges that show a sparkline
Sparks == {g \in ShownGauges : mode = "expanded" /\ focus \in {NoGauge, g} /\ Len(drawn) >= 2}

\* A tooltip with the range of the session can be shown.
HasRange == lowest # Unset \/ highest # Unset

\* The width of the bar of a ring, by the slots of the system information where
\* there are any, and its colour; RingBufferStatus has no limit at 100.
RingBar(filled, capacity, slots) ==
  LET of == IF slots # Unset THEN slots ELSE capacity
      fill == (100 * filled) \div (IF of > 1 THEN of ELSE 1)
  IN [width |-> IF fill > 100 THEN 100 ELSE fill, colour |-> IF fill > 80 THEN "warn" ELSE "ok"]
RingShare(filled, capacity) == IF capacity > 0 THEN (100 * filled) \div capacity ELSE 0

\* WsConsole
LineColour(direction) == [sent |-> "muted", received |-> "ok", opened |-> "muted",
                          closed |-> "crit"][direction]

InstrumentsTypeOK ==
  /\ reading \in Readings \cup {Unset} /\ seen \in Readings \cup {Unset}
  /\ rendered \in BOOLEAN
  /\ lowest \in Readings \cup {Unset} /\ highest \in Readings \cup {Unset}
  /\ past \in Seq(Readings) /\ Len(past) <= HistorySize
  /\ drawn \in Seq(Readings) /\ Len(drawn) <= HistorySize
  /\ mode \in {"compact", "expanded"}
  /\ focus \in ShownGauges \cup {NoGauge}
  /\ log \in Seq(Directions) /\ Len(log) <= MaxLog
  /\ console \in BOOLEAN /\ interval \in Intervals
  /\ Sparks # {} => mode = "expanded"

InstrumentsInit ==
  /\ reading = Unset /\ seen = Unset /\ rendered = FALSE
  /\ lowest = Unset /\ highest = Unset
  /\ past = <<>> /\ drawn = <<>>
  /\ mode \in {"compact", "expanded"} /\ focus = NoGauge
  /\ log = <<>> /\ console = FALSE /\ interval \in Intervals

\* pushLog
Logged(lines) == log' = Recent(log \o lines, MaxLog)

\* Every render of the dashboard draws what the effects have kept so far.
Redraw == drawn' = past

-----------------------------------------------------------------------------
(* Samples and effects.                                                    *)

\* A sample is rendered, with a line of the log unless its time is the last one's.
ShowReading(v, again) ==
  /\ ~rendered /\ rendered' = TRUE
  /\ reading' = v /\ Redraw
  /\ IF again THEN log' = log ELSE Logged(<<"received">>)
  /\ UNCHANGED <<seen, lowest, highest, past, panelVars>>

\* The second bound is only looked at when the first holds (a mutant of Widen)
WidenElse ==
  IF lowest = Unset \/ reading < lowest
  THEN lowest' = reading /\ highest' = highest
  ELSE lowest' = lowest /\ highest' = IF highest = Unset \/ reading > highest THEN reading ELSE highest

\* The effect of the gauge
Widen ==
  /\ lowest' = IF lowest = Unset \/ reading < lowest THEN reading ELSE lowest
  /\ highest' = IF highest = Unset \/ reading > highest THEN reading ELSE highest

\* The effects after it: the gauge's runs only for another value.
AfterRender ==
  /\ rendered /\ rendered' = FALSE
  /\ IF seen = reading THEN UNCHANGED <<lowest, highest>> ELSE Widen
  /\ seen' = reading
  /\ past' = Append(Recent(past, HistorySize - 1), reading)
  /\ UNCHANGED <<reading, drawn, panelVars, log>>

-----------------------------------------------------------------------------
(* The user and the connection.                                            *)

\* tt-gauge-reset: nothing is rendered, the gauge keeps what it shows.
ResetRange ==
  /\ lowest' = Unset /\ highest' = Unset
  /\ UNCHANGED <<reading, rendered, seen, past, drawn, panelVars, log>>

\* toggleGauge, by a click or a key
ToggleGauge(g) ==
  /\ ~rendered
  /\ focus' = IF focus = g THEN NoGauge ELSE g
  /\ mode' = "expanded" /\ Redraw
  /\ UNCHANGED <<reading, rendered, seen, lowest, highest, past, console, interval, log>>

Escape ==
  /\ ~rendered /\ focus # NoGauge /\ focus' = NoGauge /\ Redraw
  /\ UNCHANGED <<reading, rendered, seen, lowest, highest, past, mode, console, interval, log>>

\* A line of the log for what is sent, received or happens to the connection
LogLine(lines) ==
  /\ ~rendered /\ Logged(lines) /\ Redraw
  /\ UNCHANGED <<reading, rendered, seen, lowest, highest, past, panelVars>>

\* onOpen claims two commands that the provider sends later, if at all.
ConnectionLines ==
  {<<"opened", "sent", "sent">>, <<"closed">>, <<"received">>, <<"sent">>}

ChooseInterval(i) ==
  /\ ~rendered /\ interval' = i /\ Logged(<<"sent">>) /\ Redraw
  /\ UNCHANGED <<reading, rendered, seen, lowest, highest, past, mode, focus, console>>

ToggleConsole ==
  /\ ~rendered /\ console' = ~console /\ Redraw
  /\ UNCHANGED <<reading, rendered, seen, lowest, highest, past, mode, focus, interval, log>>

ClearLog ==
  /\ ~rendered /\ console /\ log' = <<>> /\ Redraw
  /\ UNCHANGED <<reading, rendered, seen, lowest, highest, past, panelVars>>

InstrumentsNext ==
  \/ AfterRender \/ ResetRange \/ Escape \/ ToggleConsole \/ ClearLog
  \/ \E v \in Readings, again \in BOOLEAN : ShowReading(v, again)
  \/ \E g \in ShownGauges : ToggleGauge(g)
  \/ \E lines \in ConnectionLines : LogLine(lines)
  \/ \E i \in Intervals : ChooseInterval(i)

InstrumentsSpec == InstrumentsInit /\ [][InstrumentsNext]_instrumentVars

-----------------------------------------------------------------------------
(* Properties.                                                             *)

\* The range of the session, whenever a tooltip may show it, has both bounds and,
\* once the effects have run, holds the value of the gauge: with a reset between
\* a render and its effect, and a value that comes again after a reset.
GaugeRange ==
  HasRange =>
    /\ lowest # Unset /\ highest # Unset /\ lowest <= highest
    /\ ~rendered => lowest <= reading /\ reading <= highest
=============================================================================
