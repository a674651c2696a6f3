---------------------------- MODULE AlertViews ----------------------------
(***************************************************************************)
(* What MetricsBar, MetricsPanel, SystemLoad and Dashboard make of one     *)
(* stream of samples: lamps, alerts, the badge with its timer, popups.     *)
(*                                                                         *)
(* A sample renders all of them, their effects run before the next render. *)
(* Each keeps the sample before in a reference of its own, changed at      *)
(* another moment.  Wording and layout are left out; colours are named by  *)
(* what they mean, figures by the field they show.                         *)
(***************************************************************************)
EXTENDS Integers, FiniteSets, Sequences

CONSTANTS
  Samples,    \* records of the values below, as the gateway sends them
  BarMetrics, \* props of MetricsBar: the metrics it shows
  BarInfo,    \* and the fields of the system information
  Ttl         \* ticks for which the badge stays

Fields == {"cpu", "mem", "disk", "load1", "load5", "load15", "tx", "rx", "running", "total"}
Metrics == {"cpu", "mem", "disk", "load", "net", "proc"}
InfoFields == {"hostname", "os-type", "uptime", "ringbufInfo"}

ASSUME AlertsAssumption ==
  /\ Samples \subseteq [Fields -> Nat] /\ Samples # {}
  /\ BarMetrics \subseteq Metrics /\ BarInfo \subseteq InfoFields
  /\ Ttl \in Nat \ {0}

VARIABLES
  arrived,    \* a sample has arrived
  latest,     \* it, or any
  lamps,      \* alertState of the bar
  barAlerts,  \* the alerts it lists in the popup
  panelAlerts, dashAlerts,
  dashboard,  \* the dashboard: away, mounted without a sample, rendered with its
              \* first sample since, or with a later one
  dashKnown, dashPrev, \* its prevMetrics
  due,        \* the render whose effects have yet to run
  badge, timers,       \* of the panel: the alert shown and the timeouts set
  alarm, quiet,        \* history: what last alerted, and the ticks since
  host,       \* the system information has arrived
  open, pressed        \* the popups of the bar, and where the button is down

alertVars == <<arrived, latest, lamps, barAlerts, panelAlerts, dashAlerts, dashboard, dashKnown,
               dashPrev, due, badge, timers, alarm, quiet, host, open, pressed>>
values == <<arrived, latest, lamps, barAlerts, panelAlerts>>
dash == <<dashAlerts, dashboard, dashKnown, dashPrev>>
flash == <<badge, timers, alarm, quiet>>
pointer == <<host, open, pressed>>

-----------------------------------------------------------------------------
(* alerts.ts                                                               *)

\* calcLoadScore, rounded to the nearest whole number
CalcLoadScore(m) ==
  LET score == (5 * m.load1 + 3 * m.load5 + 2 * m.load15 + 20) \div 40
  IN IF score > 100 THEN 100 ELSE score

LoadTrend(m) ==
  CASE m.load1 - m.load15 > 20 -> "rising"
    [] m.load1 - m.load15 < -20 -> "falling"
    [] OTHER -> "stable"

NetAnalysis(m) ==
  LET bps == m.tx + m.rx IN
  CASE bps > 200000000 -> "saturated"
    [] bps > 50000000 /\ bps <= 200000000 -> "high"
    [] bps > 0 /\ bps <= 50000000 -> "normal"
    [] OTHER -> "idle"

\* "crit" above one threshold, "warn" above the other
Grade(value, warn, crit) ==
  CASE value > crit -> "crit"
    [] value > warn /\ value <= crit -> "warn"
    [] OTHER -> "ok"

Alert(id, level) == [id |-> id, level |-> level]
NoAlert == Alert("none", "ok")

\* The spike that detectAlerts and buildAlertState look for
Spiked(m, known, prev) == known /\ m.load1 - prev.load1 > 50

DetectAlerts(m, known, prev) ==
  {a \in {Alert("cpu", Grade(m.cpu, 6000, 8000)),
          Alert("mem", Grade(m.mem, 7500, 9000)),
          Alert("disk", Grade(m.disk, 6000, 8000))} : a.level # "ok"}
    \cup {a \in {Alert("load-rise", "warn")} : LoadTrend(m) = "rising"}
    \cup {a \in {Alert("load-fall", "ok")} : LoadTrend(m) = "falling"}
    \cup {a \in {Alert("load-spike", "crit")} : Spiked(m, known, prev)}
    \cup {a \in {Alert("net", "crit")} : NetAnalysis(m) = "saturated"}
    \cup {a \in {Alert("net", "warn")} : NetAnalysis(m) = "high"}

\* The lamps of the network and of the load
NetLamp(m) == CASE NetAnalysis(m) = "saturated" -> "crit"
                [] NetAnalysis(m) = "high" -> "warn" [] OTHER -> "ok"
SysLamp(m, known, prev) ==
  CASE Spiked(m, known, prev) -> "spike"
    [] ~Spiked(m, known, prev) /\ LoadTrend(m) # "stable" -> LoadTrend(m)
    [] OTHER -> "ok"

\* Another threshold than detectAlerts has (a mutant of BuildAlertState)
BuildAlertStateLate(m, known, prev) ==
  [cpu |-> Grade(m.cpu, 6000, 8000), mem |-> Grade(m.mem, 7500, 9000),
   disk |-> Grade(m.disk, 6000, 9000), net |-> NetLamp(m), sys |-> SysLamp(m, known, prev)]

BuildAlertState(m, known, prev) ==
  [cpu |-> Grade(m.cpu, 6000, 8000), mem |-> Grade(m.mem, 7500, 9000),
   disk |-> Grade(m.disk, 6000, 8000), net |-> NetLamp(m), sys |-> SysLamp(m, known, prev)]

Lamps == {"cpu", "mem", "disk", "net"}
LampsOff == [lamp \in Lamps \cup {"sys"} |-> "off"]

-----------------------------------------------------------------------------
(* What is on the screen.                                                  *)

\* MetricIcon of AlertLamps and SysLamp
LampColour(lamp) == CASE lamp = "crit" -> "crit" [] lamp = "warn" -> "warn"
                      [] lamp = "ok" -> "muted" [] OTHER -> "faint"
SysColour(sys) == CASE sys = "spike" -> "crit" [] sys = "rising" -> "warn"
                    [] sys = "falling" -> "ok" [] OTHER -> "faint"

\* The rows of the popup of the lamps that alerts put there: not those of the load
AlertRows == {[id |-> a.id, colour |-> a.level] :
                a \in {b \in barAlerts : b.level # "ok" /\ b.id \in Lamps}}

HasAlerts == AlertRows # {} \/ lamps.sys \in {"rising", "spike"}

\* and all of its rows: none stands for "All metrics within normal range".
PopupRows ==
  IF ~HasAlerts THEN {}
  ELSE AlertRows \cup {r \in {[id |-> "sys", colour |-> SysColour(lamps.sys)]} :
                         lamps.sys \notin {"ok", "off"}}

\* loadScoreColor
LoadScoreColour(score) == CASE score < 20 -> "faint" [] score >= 20 /\ score < 45 -> "ok"
                            [] score >= 45 /\ score < 65 -> "warn" [] OTHER -> "crit"

\* scoreToLevel and levelColor of SystemLoad
ScoreToLevel(score) == CASE score < 20 -> "idle" [] score >= 20 /\ score < 45 -> "normal"
                         [] score >= 45 /\ score < 65 -> "elevated"
                         [] score >= 65 /\ score < 85 -> "high" [] OTHER -> "critical"
LevelColour(grade) == CASE grade = "idle" -> "faint" [] grade = "normal" -> "ok"
                        [] grade = "elevated" -> "warn" [] OTHER -> "crit"

\* The figures on a badge of the bar and in its popup
BarBadge == [cpu |-> {"cpu"}, mem |-> {"mem"}, disk |-> {"disk"},
             load |-> {"load1", "load5", "load15"}, net |-> {"tx", "rx"},
             proc |-> {"running", "total"}]
BarPopup == [BarBadge EXCEPT !.cpu = @ \cup {"running", "total"},
                             !.disk = @ \cup {"diskTotal", "diskFree"}]
InfoBadge(field) == CASE field = "hostname" -> {"hostname"} [] field = "os-type" -> {"osType"}
                      [] field = "uptime" -> {"uptimeSec"}
                      [] OTHER -> {"slotsL1", "slotsL2", "slotsL3"}
InfoPopup(field) == CASE field = "hostname" -> {"hostname", "osType"}
                      [] field = "ringbufInfo" -> InfoBadge(field) \cup {"interval", "aggL2", "aggL3"}
                      [] OTHER -> InfoBadge(field)

\* The panel, smallest: it always shows the load, and of it the score.
SmallCard(shown) ==
  [metric \in shown \cup {"load"} |-> IF metric = "load" THEN {"score"} ELSE BarBadge[metric]]

\* Its other sizes: renderMetricRows
PanelRows(shown) ==
  [metric \in shown |->
     CASE metric = "load" -> {"score"} \cup BarBadge.load
       [] metric = "disk" -> {"disk", "diskUsed", "diskTotal"}
       [] OTHER -> BarBadge[metric]]

PanelFooter(size) ==
  InfoBadge("hostname") \cup InfoBadge("uptime")
    \cup IF size = "l" THEN InfoBadge("os-type") \cup InfoBadge("ringbufInfo") ELSE {}

\* columns=2: the first half, the larger one, and the rest
Columns(list) ==
  LET mid == (Len(list) + 1) \div 2
  IN <<SubSeq(list, 1, mid), SubSeq(list, mid + 1, Len(list))>>

\* bar(): cells of eight that are full, rounded
BarCells(value) == (16 * value + 10000) \div 20000

\* The figures of a gauge: what the one of the memory adds is of the disk.
GaugeFigures == [cpu |-> {"cpu", "running", "total"}, mem |-> {"mem", "diskUsed"},
                 disk |-> {"disk", "diskFree"}, load |-> {"score"} \cup BarBadge.load,
                 net |-> {"tx", "rx"}]

Lower(a, b) == IF a <= b THEN a ELSE b
Upper(a, b) == IF a >= b THEN a ELSE b

\* compute() of usePopupPosition: the place of a popup of the given height under
\* its trigger, or over it, 8 pixels off the edges of the window
PopupPlace(trigger, height, desired, win) ==
  LET width == Lower(desired, win.width - 16)
      below == win.height - trigger.bottom - 8
      drop  == below >= Lower(height, 60) \/ below >= trigger.top - 8
  IN [width |-> width,
      left  |-> Upper(8, Lower(trigger.left, win.width - 8 - width)),
      top   |-> Upper(8, IF drop THEN trigger.bottom + 6 ELSE trigger.top - 6 - height)]

-----------------------------------------------------------------------------
(* State.                                                                  *)

AlertIds == Lamps \cup {"load-rise", "load-fall", "load-spike"}
Alerts == [id : AlertIds, level : {"ok", "warn", "crit"}]
InfoTriggers == IF host THEN BarInfo ELSE {}
Triggers == BarMetrics \cup InfoTriggers \cup {"alerts"}

AlertTypeOK ==
  /\ arrived \in BOOLEAN /\ latest \in Samples
  /\ \A lamp \in Lamps : lamps[lamp] \in {"off", "ok", "warn", "crit"}
  /\ lamps.sys \in {"off", "ok", "rising", "falling", "spike"}
  /\ barAlerts \subseteq Alerts /\ panelAlerts \subseteq Alerts /\ dashAlerts \subseteq Alerts
  /\ dashboard \in {"away", "mounted", "first", "rendered"}
  /\ dashKnown \in BOOLEAN /\ dashPrev \in Samples
  /\ due \in {"none", "mount", "sample"}
  /\ badge \in Alerts \cup {NoAlert} /\ timers \subseteq 1..Ttl
  /\ alarm \in Alerts \cup {NoAlert} /\ quiet \in 0..Ttl
  /\ host \in BOOLEAN /\ open \subseteq Triggers
  /\ pressed \in Metrics \cup InfoFields \cup {"alerts", "outside", "none"}

AlertInit ==
  /\ arrived = FALSE /\ latest \in Samples /\ lamps = LampsOff
  /\ barAlerts = {} /\ panelAlerts = {} /\ dashAlerts = {}
  /\ dashboard = "away" /\ dashKnown = FALSE /\ dashPrev = latest
  /\ due = "none"
  /\ badge = NoAlert /\ timers = {} /\ alarm = NoAlert /\ quiet = Ttl
  /\ host = FALSE /\ open = {} /\ pressed = "none"

-----------------------------------------------------------------------------
(* Samples, effects, time.                                                 *)

\* A render with a new sample.  The bar overwrites its previous sample before it
\* detects alerts, the panel after; the dashboard leaves that to an effect.
NewSample(m) ==
  /\ due = "none" /\ due' = "sample"
  /\ arrived' = TRUE /\ latest' = m
  /\ lamps' = BuildAlertState(m, arrived, latest)
  /\ barAlerts' = DetectAlerts(m, TRUE, m)
  /\ panelAlerts' = DetectAlerts(m, arrived, latest)
  /\ IF dashboard = "away" THEN UNCHANGED dash
     ELSE /\ dashAlerts' = DetectAlerts(m, dashKnown, dashPrev)
          /\ dashboard' = IF dashboard = "mounted" THEN "first" ELSE "rendered"
          /\ UNCHANGED <<dashKnown, dashPrev>>
  /\ UNCHANGED <<flash, pointer>>

\* Its useMetrics starts with no sample, whatever the other views have.
MountDashboard ==
  /\ due = "none" /\ dashboard = "away"
  /\ due' = "mount" /\ dashboard' = "mounted" /\ dashAlerts' = {}
  /\ dashKnown' = FALSE /\ UNCHANGED <<dashPrev, values, flash, pointer>>

UnmountDashboard ==
  /\ due = "none" /\ dashboard # "away"
  /\ dashboard' = "away" /\ dashAlerts' = {} /\ dashKnown' = FALSE
  /\ UNCHANGED <<dashPrev, due, values, flash, pointer>>

\* The badge shows a critical alert before others, else the first of the list.
Rank(id) == CHOOSE i \in 1..7 :
  id = <<"cpu", "mem", "disk", "load-rise", "load-fall", "load-spike", "net">>[i]
TopAlert(alerts) ==
  LET crit == {a \in alerts : a.level = "crit"}
      shown == IF crit # {} THEN crit ELSE alerts
  IN CHOOSE a \in shown : \A b \in shown : Rank(a.id) <= Rank(b.id)

\* The timeout of the alert before stays (a mutant of ShowAlert)
ShowAlertAgain ==
  /\ badge' = TopAlert(panelAlerts) /\ timers' = timers \cup {Ttl}
  /\ alarm' = TopAlert(panelAlerts) /\ quiet' = 0

\* The effect of useAlertBadge: the timeout before is cleared.
ShowAlert ==
  /\ badge' = TopAlert(panelAlerts) /\ timers' = {Ttl}
  /\ alarm' = TopAlert(panelAlerts) /\ quiet' = 0

\* The dashboard keeps the first sample it has seen (a mutant of KeepSample)
KeepSampleFirst ==
  IF dashboard \in {"away", "mounted"} \/ dashKnown THEN UNCHANGED dash
  ELSE dashKnown' = TRUE /\ dashPrev' = latest /\ UNCHANGED <<dashAlerts, dashboard>>

\* The effect of the dashboard that keeps the sample
KeepSample ==
  IF dashboard \in {"away", "mounted"} THEN UNCHANGED dash
  ELSE dashKnown' = TRUE /\ dashPrev' = latest /\ UNCHANGED <<dashAlerts, dashboard>>

RunEffects ==
  /\ due # "none" /\ due' = "none"
  /\ KeepSample
  /\ IF due = "sample" /\ panelAlerts # {} THEN ShowAlert ELSE UNCHANGED flash
  /\ UNCHANGED <<values, pointer>>

\* Time passes, a timeout that is due takes the badge away.
BadgeTick ==
  /\ due = "none"
  /\ timers' = {n - 1 : n \in timers \ {1}}
  /\ badge' = IF 1 \in timers THEN NoAlert ELSE badge
  /\ quiet' = Lower(quiet + 1, Ttl)
  /\ UNCHANGED <<alarm, due, values, dash, pointer>>

-----------------------------------------------------------------------------
(* The popups of the bar.                                                  *)

\* The badges of the system information come and go with it, and with them what
\* they have open.
SetHost ==
  /\ host' = ~host
  /\ open' = IF host THEN open \ BarInfo ELSE open
  /\ UNCHANGED <<pressed, due, values, dash, flash>>

\* Only a press on no badge at all closes what is open (a mutant of StillOpen)
StillOpenOutside(where) == IF where = "outside" THEN {} ELSE open

\* What remains open: every open popup listens to the document, and closes for
\* a press neither on its trigger nor on itself.
StillOpen(where) == open \cap {where}

\* mousedown or touchstart, on a trigger, in its popup, or elsewhere
Press(where, inside) ==
  /\ pressed = "none"
  /\ inside => where \in open
  /\ open' = StillOpen(where)
  /\ pressed' = IF inside THEN "outside" ELSE where
  /\ UNCHANGED <<host, due, values, dash, flash>>

\* The button goes up: a click, if that is where it went down.
Release(click) ==
  /\ pressed # "none" /\ pressed' = "none"
  /\ open' = IF ~click \/ pressed \notin Triggers THEN open
             ELSE (open \cup {pressed}) \ (open \cap {pressed})
  /\ UNCHANGED <<host, due, values, dash, flash>>

AlertNext ==
  \/ MountDashboard \/ UnmountDashboard \/ RunEffects \/ BadgeTick \/ SetHost
  \/ \E m \in Samples : NewSample(m)
  \/ \E where \in Triggers \cup {"outside"}, inside \in BOOLEAN : Press(where, inside)
  \/ \E click \in BOOLEAN : Release(click)

AlertSpec == AlertInit /\ [][AlertNext]_alertVars

-----------------------------------------------------------------------------
(* Properties.                                                             *)

\* The popup of the lamps explains every lamp that is lit, in its colour, and
\* warns of nothing else: although the bar never detects a spike of the load,
\* and thresholds stand in two functions.
LitLamps ==
  {[id |-> lamp, colour |-> LampColour(lamps[lamp])] :
     lamp \in {l \in Lamps : lamps[l] \in {"warn", "crit"}}}
  \cup {[id |-> "sys", colour |-> SysColour(s)] : s \in {lamps.sys} \cap {"rising", "spike"}}

PopupExplainsLamps ==
  {r \in PopupRows : r.colour \in {"warn", "crit"}} = LitLamps

\* The badge shows what has last alerted until it has been quiet for its time,
\* however often it was shown again before.
BadgeFollowsLastAlert == badge = IF quiet < Ttl THEN alarm ELSE NoAlert

\* No two popups of the bar are open, whatever is pressed, dragged and let go,
\* while badges come and go.
OnePopup == \A p, q \in open : p = q

\* Lamp and panel see the same spike, and with them the dashboard from its second
\* sample on: with the first since it was mounted it has all alerts but for a spike.
\* And the load has one colour: "so all components show consistent values" (SystemLoad).
ViewsAgree ==
  /\ Alert("load-spike", "crit") \in panelAlerts <=> lamps.sys = "spike"
  /\ barAlerts = {a \in panelAlerts : a.id # "load-spike"}
  /\ dashboard = "first" => dashAlerts = barAlerts
  /\ dashboard = "rendered" => dashAlerts = panelAlerts
  /\ LET score == CalcLoadScore(latest)
     IN LevelColour(ScoreToLevel(score)) = LoadScoreColour(score)
=============================================================================
