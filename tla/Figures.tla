------------------------------ MODULE Figures ------------------------------
(***************************************************************************)
(* What charts, rows and cards of the page make of a value: which figure,  *)
(* unit, colour or ring level it gets, where its bar, point, arc or cell   *)
(* is, and which of them is under the pointer.                             *)
(*                                                                         *)
(* Functions of their arguments: the state behind them belongs to the      *)
(* modules that extend this one.  A length is a whole number of the part   *)
(* of a pixel that its definition names.                                   *)
(***************************************************************************)
EXTENDS Integers, Sequences

CONSTANTS
  Amounts,   \* values, for the claims below
  Durations, \* in seconds
  Heaps,     \* of bytes
  Talls      \* heights of a row or a chart, in pixels

ASSUME FiguresAssumption ==
  /\ Amounts \subseteq Nat /\ Durations \subseteq Nat /\ Heaps \subseteq Nat
  /\ Talls \subseteq {h \in Nat : h >= 8}

-----------------------------------------------------------------------------
(* metrics.ts and format.ts                                                *)

\* extractMetricValue
Extract(m, metric) ==
  [cpu |-> m.cpu, mem |-> m.mem, load |-> m.load1, net |-> m.rx + m.tx, disk |-> m.disk,
   proc |-> m.total][metric]

Mean(vals) ==
  LET sum[i \in 0..Len(vals)] == IF i = 0 THEN 0 ELSE sum[i - 1] + vals[i]
  IN (2 * sum[Len(vals)] + Len(vals)) \div (2 * Len(vals))

Highest(vals) ==
  CHOOSE v \in {vals[i] : i \in DOMAIN vals} : \A i \in DOMAIN vals : vals[i] <= v
Lowest(vals) ==
  CHOOSE v \in {vals[i] : i \in DOMAIN vals} : \A i \in DOMAIN vals : v <= vals[i]

\* aggregate, of the values of one metric: nothing in the views calls it.
Aggregate(vals, type) ==
  IF vals = <<>> THEN 0
  ELSE CASE type = "max" -> Highest(vals)
         [] type = "min" -> Lowest(vals)
         [] OTHER -> Mean(vals)

\* METRIC_COLOR_KEY: the number of processes has no colour of its own.
ColourKey(metric) == IF metric = "proc" THEN "muted" ELSE metric

\* Height of a chart, by SIZE_SCALE; that and the width of the 3D canvas
ChartHeight == [s |-> 80, m |-> 140, l |-> 220]
Canvas(size) == [width  |-> (22 * ChartHeight[size]) \div 10,
                 height |-> (14 * ChartHeight[size]) \div 10]

KB == 1024
MB == 1024 * KB
GB == 1024 * MB

\* fmtBytes and splitBytes, without the digits after the point: kilobytes have
\* none and are rounded.
Split(b) ==
  CASE b < KB -> [unit |-> "B", whole |-> b]
    [] b >= KB /\ b < MB -> [unit |-> "KB", whole |-> (b + 512) \div KB]
    [] b >= MB /\ b < GB -> [unit |-> "MB", whole |-> b \div MB]
    [] OTHER -> [unit |-> "GB", whole |-> b \div GB]

\* BytesDisplay
Rate(b, perSec) == [figure |-> Split(b).whole, unit |-> <<Split(b).unit, perSec>>]

\* fmtUptimeSec
Uptime(sec) == [days |-> sec \div 86400, hours |-> (sec % 86400) \div 3600,
                minutes |-> (sec % 3600) \div 60]

\* formatMetricValue: a number of processes is shown as bytes a second.
Format(metric) == CASE metric \in {"cpu", "mem", "disk"} -> "percent"
                    [] metric = "load" -> "load" [] OTHER -> "rate"

-----------------------------------------------------------------------------
(* Rows and charts.                                                        *)

BarWidth == 4
WindowOptions == {60, 120, 200, 300, 500}

\* maxVals: the top of the axis, and maxVal of the chart
Top(metric, vals) ==
  IF metric \in {"cpu", "mem", "disk"} THEN 10000 ELSE Highest(vals \o <<1>>)
AxisOf(metric, vals) == IF Len(vals) > 1 THEN Top(metric, vals) ELSE 0

\* The bar of sample i, metric k of n: sideways in 1/2n of a pixel, its height in
\* 1/top of one
BarLeft(i, k, n) == 2 * n * BarWidth * i + IF n > 1 THEN 2 * BarWidth * k ELSE 0
BarBreadth(n) == IF n > 1 THEN 2 * BarWidth - n ELSE 2 * (BarWidth - 1)
BarTall(v, top, h) == IF v * h > top THEN v * h ELSE top

\* handleMouseMove: the sample under the pointer; the text is not made again when
\* the data moves on.
UnderPointer(x, n) == x \div (2 * n * BarWidth)
TooltipLeft(x, wide) ==
  LET most == wide * BarWidth - 160 IN IF x + 6 < most THEN x + 6 ELSE most

\* Samples of the window whose time is written under them
TickEvery == 80 \div BarWidth
Ticks(n) == {i \in 0..(n - 1) : i % TickEvery = 0}

\* The head of a row: figures of the newest sample in the window, not of the row
RowHead(shown, n, offset) ==
  [figures |-> IF shown = <<>> THEN {} ELSE {shown[Len(shown)]}, points |-> n, behind |-> offset]

\* Timeline: how a row writes a time, and the head.  The buttons choose what no
\* bar depends on.
TimeOf(level) == <<"second", "minute", "hour">>[level]
Switcher(controlled) == IF controlled THEN {} ELSE {"avg", "max", "min"}
TimelineHead(metrics, controlled) ==
  [badges |-> metrics, windows |-> WindowOptions, buttons |-> Switcher(controlled)]

\* The head of a chart, with figures once there are samples, and its foot
ChartHead(metrics, level, controlled, n) ==
  [title |-> metrics, span |-> <<3600, 86400, 604800>>[level], buttons |-> Switcher(controlled),
   figures |-> IF n = 0 THEN {} ELSE metrics]

\* ChartPath, of n points: across in 1/(n-1) of a pixel, down in 1/top of one
PathX(i) == 400 * i
PathY(v, top, h) == 4 * top + (top - v) * (h - 8)

\* toPoints of a sparkline of the given height, and of the one in a gauge, which
\* leaves a margin of 2
SparkY(v, top, h, margin) == h * top - v * (h - margin)

\* getAutoLevel, of a range in seconds, and the component around it: it keeps the
\* level of its first range.
AutoLevel(range) == CASE range < 3600 -> 1 [] range >= 3600 /\ range < 86400 -> 2 [] OTHER -> 3
WithAutoLevel(first, range) == AutoLevel(first)

\* TimeSeriesChartWithBand: a line that says so, and no band
WithBand(showBand) == [said |-> showBand, drawn |-> FALSE]

-----------------------------------------------------------------------------
(* Gauges, in thousandths of the gauge's size.                             *)

Radii(dual) == [outer |-> IF dual THEN 400 ELSE 380, inner |-> 300, wide |-> 70, narrow |-> 55]

\* Percents of the arc that the dashes leave out: all of it before the first frame
DashOffset(pct, mounted) == IF mounted THEN 100 - pct ELSE 100

\* Tracks and fills
Arcs(has, dual) == {"outer track"} \cup (IF has THEN {"outer"} ELSE {})
                     \cup IF dual THEN {"inner track", "inner"} ELSE {}

\* The lines in the middle: how far under the centre, and half their height
Lines(dual, sub) ==
  {[at |-> IF dual \/ sub THEN -60 ELSE 60, half |-> IF dual THEN 70 ELSE 90]}
    \cup (IF dual THEN {[at |-> 80, half |-> 60]} ELSE {})
    \cup IF sub THEN {[at |-> IF dual THEN 200 ELSE 220, half |-> 53]} ELSE {}

\* The border of the card, by the percents of the arc
CardBorder(pct) == CASE pct >= 80 -> "crit" [] pct >= 60 /\ pct < 80 -> "warn" [] OTHER -> "border"

-----------------------------------------------------------------------------
(* Rows of the panel, controls, the camera.                                *)

\* MetricRow: the cells of a bar of characters are all dimmed, since bar() has
\* another full cell than the one that is looked for; else a bar in the colour
\* of what is written.
RowBar(ascii, pct) ==
  IF ascii THEN [bright |-> 0, width |-> 8, colour |-> "dimmed"]
  ELSE [bright |-> 0, width |-> pct,
        colour |-> CASE pct >= 90 -> "crit" [] pct >= 70 /\ pct < 90 -> "warn" [] OTHER -> "ok"]

\* LoadArrows: a wave of characters, and the eighths of its period that each waits
Rising  == <<0, 0, 1, 2, 3, 2, 1, 0>>
Falling == <<0, 1, 2, 3, 2, 1, 0, 0>>
Wave(trend, ascii) ==
  CASE trend = "stable" -> <<>>
    [] trend # "stable" /\ ~ascii -> [i \in 1..7 |-> 3]
    [] trend = "rising" /\ ascii -> Rising
    [] OTHER -> Falling
Wait(trend, i) == IF trend = "rising" THEN i - 1 ELSE 8 - i

\* MetricsPanel's uptime: of the system information, and what has passed since
CurrentUptime(told, since, now) == told + (now - since) \div 1000

\* SystemInfoRow and the row of the dashboard
InfoRow(present) == IF present THEN {"hostname", "osType", "uptimeSec", "intervalMs"} ELSE {}
DashInfo(present, shown) == IF present /\ shown THEN {"hostname", "osType", "uptimeSec"} ELSE {}

\* The header of the panel and of the dashboard
LinkShown(connected) == IF connected THEN "LIVE" ELSE "OFF"

\* ControlPanel: commands of its own to the client, past the provider
StreamButton(streaming) == [label |-> IF streaming THEN "stop" ELSE "start",
                            sent |-> IF streaming THEN "stop" ELSE "start", told |-> ~streaming]
IntervalMenu(ms) == [sent |-> <<"interval", ms>>, told |-> ms]

\* detectOsFamily, of the words that the type holds: the first that is known
Family(words) ==
  CASE words \cap {"darwin", "mac"} # {} -> "darwin"
    [] words \cap {"darwin", "mac"} = {} /\ words \cap {"windows", "win32"} # {} -> "windows"
    [] words \cap {"darwin", "mac", "windows", "win32"} = {}
         /\ words \cap {"linux", "ubuntu", "debian", "fedora", "arch", "suse", "centos", "rhel"} # {} -> "linux"
    [] OTHER -> "unknown"
\* OsIcon: what is not known is shown as Linux.
Icon(words) == IF Family(words) = "unknown" THEN "linux" ELSE Family(words)

\* The width that a popup of the bar would have, and the label of a badge
Desired(bar, win) == IF win < 640 THEN (IF bar \div 2 < win - 16 THEN bar \div 2 ELSE win - 16)
                     ELSE (35 * bar + 50) \div 100
BadgeLabel(size) == CASE size = "s" -> "icon" [] size = "m" -> "short" [] OTHER -> "long"

\* applyCameraPreset, in tenths, for so many metrics and steps of time: where the
\* camera is and what it looks at, across, up and along the time
CameraAt(preset, mx, mz) ==
  CASE preset = "overview" -> [at |-> <<12 * mx, 40, (35 * mz) \div 10>>, to |-> <<5 * mx, 0, (15 * mz) \div 10>>]
    [] preset = "close" -> [at |-> <<5 * mx, 20, (15 * mz) \div 10>>, to |-> <<5 * mx, 0, 0>>]
    [] OTHER -> [at |-> <<5 * mx, 120, (15 * mz) \div 10>>, to |-> <<5 * mx, 0, (15 * mz) \div 10>>]

\* A bar of the scene, value in hundredths of a percent: height and middle, in
\* 1/10000 of a unit.  What has no value yet is a cube of one unit.
BlockTall(v) == 4 * (IF v > 200 THEN v ELSE 200)
BlockMiddle(v) == BlockTall(v) \div 2 - 5000
-----------------------------------------------------------------------------
(* Claims.                                                                 *)

\* Numbers of metrics in a row
Shown == 1..6

\* The pointer on a bar of a row finds that bar's sample, whichever metric's bar
\* of the sample it is on, and the bars of a sample do not cover each other
\* (TimelineRow's two ways from samples to pixels).
TooltipNamesBar ==
  \A n \in Shown : \A i \in 0..5, k \in 0..(n - 1) :
    /\ \A x \in BarLeft(i, k, n)..(BarLeft(i, k, n) + BarBreadth(n) - 1) : UnderPointer(x, n) = i
    /\ k + 1 < n => BarLeft(i, k, n) + BarBreadth(n) <= BarLeft(i, k + 1, n)

\* The tooltip begins inside the row and ends inside it, for every window and every
\* place of the pointer.
TooltipInside ==
  \A x \in Amounts, wide \in WindowOptions :
    LET left == TooltipLeft(x, wide) IN left >= 0 /\ left + 160 <= wide * BarWidth

\* A bar of a row is a pixel high at least and never higher than the row, a chart's
\* line and a sparkline stay in their height.
FiguresInside ==
  \A h \in Talls, top \in Amounts \ {0} : \A v \in {a \in Amounts : a <= top} :
    /\ BarTall(v, top, h) \in top..(h * top)
    /\ PathY(v, top, h) \in (4 * top)..((h - 4) * top)
    /\ SparkY(v, top, h, 0) \in 0..(h * top) /\ SparkY(v, top, h, 2) \in (2 * top)..(h * top)

\* The top of an axis is over every value of a metric that is not a percentage,
\* and never 0, by which the values are divided.
AxisHoldsValues ==
  \A a \in Amounts, b \in Amounts, metric \in {"load", "net", "proc"} :
    LET top == Top(metric, <<a, b>>) IN top >= 1 /\ a <= top /\ b <= top

\* Days, hours and minutes of an uptime are those of its clock, and the seconds
\* that are left out are less than a minute.
UptimeAddsUp ==
  \A s \in Durations :
    LET u == Uptime(s) IN
    /\ u.hours < 24 /\ u.minutes < 60
    /\ s - (86400 * u.days + 3600 * u.hours + 60 * u.minutes) \in 0..59

\* The unit fits: a number of kilobytes or megabytes is 1 at least and has at
\* most four digits.
UnitFits ==
  \A b \in Heaps :
    LET f == Split(b) IN
    /\ f.unit # "B" => f.whole >= 1
    /\ f.unit # "GB" => f.whole <= 1024

\* The mean of a window lies between its least and its greatest value.
MeanBetween ==
  \A a \in Amounts, b \in Amounts :
    LET vals == <<a, b>> IN
    /\ Aggregate(vals, "min") <= Aggregate(vals, "avg")
    /\ Aggregate(vals, "avg") <= Aggregate(vals, "max")

\* The level that is chosen for a range holds the whole of it, up to a week: the
\* rings hold an hour, a day, and 30 days.
LevelHoldsRange ==
  \A range \in Durations :
    range <= 2592000 => range <= <<3600, 86400, 2592000>>[AutoLevel(range)]

\* The arcs of a gauge with two values leave a gap between them, and the lines in
\* its middle do not cover each other.
GaugeApart ==
  \A dual, sub \in BOOLEAN :
    /\ dual => 2 * Radii(dual).inner + Radii(dual).narrow < 2 * Radii(dual).outer - Radii(dual).wide
    /\ \A p \in Lines(dual, sub), q \in Lines(dual, sub) :
         p.at < q.at => p.at + p.half < q.at - q.half

\* The waves of the two directions are each other's mirror image, and the parts of
\* a wave start in the direction in which it runs.
WavesMirrored ==
  /\ \A i \in 1..8 : Rising[i] = Falling[9 - i]
  /\ \A i \in 1..7 : Wait("rising", i) < Wait("rising", i + 1)
                     /\ Wait("falling", i) > Wait("falling", i + 1)

\* Every bar of the scene stands on the same floor (Bar3D moves it up by half its
\* height).
BlocksStand == \A v \in Amounts : 2 * BlockMiddle(v) - BlockTall(v) = -10000

FiguresFit ==
  /\ TooltipNamesBar
  /\ TooltipInside
  /\ FiguresInside
  /\ AxisHoldsValues
  /\ UptimeAddsUp
  /\ UnitFits
  /\ MeanBetween
  /\ LevelHoldsRange
  /\ GaugeApart
  /\ WavesMirrored
  /\ BlocksStand
=============================================================================
