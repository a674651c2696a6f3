------------------------------- MODULE Scene -------------------------------
(***************************************************************************)
(* Metrics3D, Sparkline and DiskMap: what they keep and draw of the values *)
(* of one metric.                                                          *)
(*                                                                         *)
(* The scene is made in a promise, drawn by an animation loop of its own,  *)
(* and fed by an effect that renders again.  With an array of metrics made *)
(* in the render, as the default is, that effect runs after every render.  *)
(***************************************************************************)
EXTENDS Integers, Sequences

CONSTANTS
  Heights,      \* values of the metric
  HistoryDepth, \* bars of the scene
  MaxSamplesOf, \* maxSamples of the sparkline
  Disks,        \* what a disk map may show: its size, free bytes, given segments
  Cells,        \* of the matrix
  MaxLoops      \* bound on animation loops left behind

NoHeight == -1

ASSUME SceneAssumption ==
  /\ Heights \subseteq Nat /\ HistoryDepth \in Nat \ {0, 1} /\ MaxSamplesOf \in Nat \ {0}
  /\ Disks \subseteq [total : Nat, free : Nat, given : Seq(Nat)]
  /\ Cells \in Nat /\ MaxLoops \in Nat

VARIABLES
  inline,   \* the array of metrics is another one in every render
  value,    \* of the sample shown, NoHeight before the first
  task,     \* the effects that are due: after a sample, or after another render
  scene,    \* sceneRef: absent, or present with the first frame asked or drawn
  loops,    \* animation loops of scenes that are gone
  paused,
  bars,     \* historyRef, the oldest first, at depth 0
  floor, ceiling, \* sessionRef
  overlay,  \* the summary: value and range
  spark     \* the buffer of a sparkline

sceneVars == <<inline, value, task, scene, loops, paused, bars, floor, ceiling, overlay, spark>>
session3D == <<bars, floor, ceiling, overlay>>

\* The last n of a sequence: slice(-n)
LastOf(s, n) == SubSeq(s, (IF Len(s) > n THEN Len(s) - n ELSE 0) + 1, Len(s))

NoOverlay == [val |-> NoHeight, min |-> NoHeight, max |-> NoHeight]

-----------------------------------------------------------------------------
(* DiskMap.                                                                *)

SumOf(bytes) ==
  LET sum[i \in 0..Len(bytes)] == IF i = 0 THEN 0 ELSE sum[i - 1] + bytes[i]
  IN sum[Len(bytes)]

\* What the given segments leave of the used bytes
OtherBytes(total, free, given) == IF total - free > given THEN total - free - given ELSE 0

\* buildSegments: the bytes of the given segments, of others if any, the free ones
Segments(d) ==
  LET other == OtherBytes(d.total, d.free, SumOf(d.given))
  IN d.given \o (IF other > 0 THEN <<other>> ELSE <<>>) \o <<d.free>>

\* MatrixChart: the cells of each segment, rounded, as long as there are any
MatrixCells(d) ==
  LET segs == Segments(d)
      wish(i) == IF d.total = 0 THEN 0 ELSE (2 * segs[i] * Cells + d.total) \div (2 * d.total)
      upto[i \in 0..Len(segs)] ==
        IF i = 0 THEN 0
        ELSE IF upto[i - 1] + wish(i) > Cells THEN Cells ELSE upto[i - 1] + wish(i)
  IN [i \in DOMAIN segs |-> upto[i] - upto[i - 1]]

\* RingChart: where the arc of a segment begins, in bytes, and the share in the middle
RingStart(d, i) == SumOf(SubSeq(Segments(d), 1, i - 1))
RingUsed(d) == IF d.total = 0 THEN 0 ELSE (100 * (d.total - d.free)) \div d.total

\* Legend: a row for each segment, and the size under them
Legend(d) == [rows |-> Segments(d), under |-> d.total]

\* DiskMap: the prop of its first render decides, then the last press; a prop that
\* comes later only takes the buttons away.
DiskMode(first, prop, pressed) ==
  [mode |-> IF pressed # "none" THEN pressed ELSE IF first = "none" THEN "ring" ELSE first,
   buttons |-> IF prop = "none" THEN {"ring", "matrix"} ELSE {}]

\* What DiskMap draws: the chart of its mode, and the legend
DiskDrawn(d, mode) ==
  [parts |-> IF mode = "ring" THEN [i \in DOMAIN Segments(d) |-> RingStart(d, i)] ELSE MatrixCells(d),
   legend |-> Legend(d)]

\* A matrix has all its cells or fewer, both charts have a part for every row of
\* the legend, and when the given segments fit into what is used the ring closes
\* exactly and the rows add up to the size under them.
DisksDrawn ==
  \A d \in Disks :
    /\ SumOf(MatrixCells(d)) <= Cells
    /\ \A mode \in {"ring", "matrix"} :
         DOMAIN DiskDrawn(d, mode).parts = DOMAIN DiskDrawn(d, mode).legend.rows
    /\ SumOf(d.given) <= d.total - d.free =>
         /\ RingStart(d, Len(Segments(d)) + 1) = d.total /\ RingUsed(d) \in 0..100
         /\ SumOf(Legend(d).rows) = Legend(d).under

-----------------------------------------------------------------------------

SceneTypeOK ==
  /\ inline \in BOOLEAN /\ value \in Heights \cup {NoHeight}
  /\ task \in {"none", "sample", "again"}
  /\ scene \in {"absent", "asked", "drawn"} /\ loops \in 0..MaxLoops
  /\ paused \in BOOLEAN
  /\ bars \in Seq(Heights) /\ Len(bars) <= HistoryDepth
  /\ floor \in Heights \cup {NoHeight} /\ ceiling \in Heights \cup {NoHeight}
  /\ overlay \in [val : Heights \cup {NoHeight}, min : Heights \cup {NoHeight},
                  max : Heights \cup {NoHeight}]
  /\ spark \in Seq(Heights) /\ Len(spark) <= MaxSamplesOf
  /\ DisksDrawn

SceneInit ==
  /\ inline \in BOOLEAN /\ value = NoHeight /\ task = "none"
  /\ scene = "absent" /\ loops = 0 /\ paused = FALSE
  /\ bars = <<>> /\ floor = NoHeight /\ ceiling = NoHeight /\ overlay = NoOverlay
  /\ spark = <<>>

\* A render for another reason than a sample
Rendered == task' = IF task = "none" /\ inline THEN "again" ELSE task

\* The promise of three is kept.  Nothing is rendered for it.
SceneReady ==
  /\ scene = "absent" /\ scene' = "asked"
  /\ UNCHANGED <<inline, value, task, loops, paused, session3D, spark>>

\* animate: the frame whose number was kept is over, others follow.
FirstFrame ==
  /\ scene = "asked" /\ scene' = "drawn"
  /\ UNCHANGED <<inline, value, task, loops, paused, session3D, spark>>

NewHeight(v) ==
  /\ task # "sample" /\ task' = "sample" /\ value' = v
  /\ UNCHANGED <<inline, scene, loops, paused, session3D, spark>>

\* The range starts anew with every sample (a mutant of Step)
StepAnew ==
  /\ bars' = Append(LastOf(bars, HistoryDepth - 1), value)
  /\ floor' = value /\ ceiling' = value
  /\ overlay' = [val |-> value, min |-> floor', max |-> ceiling']

\* A row of bars more, the range of the session with it, and the summary
Step ==
  /\ bars' = Append(LastOf(bars, HistoryDepth - 1), value)
  /\ floor' = IF floor = NoHeight \/ value < floor THEN value ELSE floor
  /\ ceiling' = IF ceiling = NoHeight \/ value > ceiling THEN value ELSE ceiling
  /\ overlay' = [val |-> value, min |-> floor', max |-> ceiling']

\* The effects of a render: the summary renders once more.
RunSceneEffects ==
  /\ task # "none"
  /\ spark' = IF task = "sample" THEN LastOf(Append(spark, value), MaxSamplesOf) ELSE spark
  /\ IF value = NoHeight \/ scene = "absent" \/ paused
     THEN UNCHANGED session3D /\ task' = "none"
     ELSE Step /\ task' = IF inline THEN "again" ELSE "none"
  /\ UNCHANGED <<inline, value, scene, loops, paused>>

\* A press is handled after the effects of a sample; the render it causes takes
\* the place of one that the summary has asked for.
TogglePause ==
  /\ task # "sample" /\ paused' = ~paused /\ Rendered
  /\ UNCHANGED <<inline, value, scene, loops, session3D, spark>>

\* Other metrics, another depth or size make the scene anew; what it has kept
\* stays.  A loop that has drawn a frame goes on with the scene that is gone.
Rebuild ==
  /\ scene # "absent" /\ loops < MaxLoops /\ scene' = "absent"
  /\ loops' = IF scene = "drawn" THEN loops + 1 ELSE loops
  /\ UNCHANGED <<inline, value, task, paused, session3D, spark>>

\* onMouseMove: the tooltip of a bar.  Bars that have no value yet are there to be
\* pointed at, as zero; before the first step the range is the value.
Tooltip(i) ==
  LET val == IF i \in DOMAIN bars THEN bars[i] ELSE 0
  IN [val |-> val, min |-> IF floor = NoHeight THEN val ELSE floor,
      max |-> IF ceiling = NoHeight THEN val ELSE ceiling]

\* The summary: a value and its range, once there is one
Summary == IF overlay = NoOverlay THEN <<>> ELSE <<overlay>>

SceneNext ==
  \/ SceneReady \/ FirstFrame \/ RunSceneEffects \/ TogglePause \/ Rebuild
  \/ \E v \in Heights : NewHeight(v)

SceneSpec == SceneInit /\ [][SceneNext]_sceneVars

-----------------------------------------------------------------------------
(* Properties.                                                             *)

\* Every bar of the scene, and the value of the summary, lies in the range that
\* the tooltip and the summary show for the session: through pauses, scenes made
\* anew, and samples that the effect adds over and over.
BarsInRange ==
  /\ \A i \in DOMAIN bars : Tooltip(i).min <= bars[i] /\ bars[i] <= Tooltip(i).max
  /\ \A i \in DOMAIN Summary :
       /\ Summary[i].min <= Summary[i].val /\ Summary[i].val <= Summary[i].max
       /\ Summary[i].min = floor /\ Summary[i].max = ceiling
=============================================================================
