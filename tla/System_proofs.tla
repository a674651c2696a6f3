---------------------------- MODULE System_proofs -----------------------------
(***************************************************************************)
(* What the views of the page promise, for all samples, metrics, windows   *)
(* and numbers of theme providers: popups, the badge of the panel, the     *)
(* range of a gauge, the bars of the scene, the stored preset, figures.    *)
(* And, at the end, the parts together: each of them does in the system    *)
(* what its own specification says.                                        *)
(***************************************************************************)
EXTENDS System, SeqlockRing_proofs, Client_proofs, ReactSession_proofs, History_proofs,
        Tinytd_proofs, TLAPS

-----------------------------------------------------------------------------
(* The popups of the bar.                                                  *)

\* Inductive: while the button is down on a trigger, no popup but its own is
\* open, so that the click can only open or close that one.
PopupInv ==
  /\ OnePopup
  /\ pressed \notin {"none", "outside"} => open \subseteq {pressed}

LEMMA PopupStep == PopupInv /\ [AlertNext]_alertVars => PopupInv'
<1> SUFFICES ASSUME PopupInv, [AlertNext]_alertVars PROVE PopupInv'
  OBVIOUS
<1>1. ASSUME UNCHANGED pointer PROVE PopupInv'
  BY <1>1 DEF pointer, PopupInv, OnePopup
<1>2. ASSUME SetHost PROVE PopupInv'
  BY <1>2 DEF SetHost, PopupInv, OnePopup
<1>3. ASSUME NEW where \in Triggers \cup {"outside"}, NEW inside \in BOOLEAN, Press(where, inside)
      PROVE  PopupInv'
  BY <1>3 DEF Press, StillOpen, PopupInv, OnePopup
<1>4. ASSUME NEW click \in BOOLEAN, Release(click) PROVE PopupInv'
  <2>1. CASE ~click \/ pressed \notin Triggers
    BY <1>4, <2>1 DEF Release, PopupInv, OnePopup
  <2>2. CASE click /\ pressed \in Triggers
    <3>1. pressed \notin {"none", "outside"}
      BY <2>2, AlertsAssumption DEF Triggers, InfoTriggers, Metrics, InfoFields
    <3> QED BY <1>4, <2>2, <3>1 DEF Release, PopupInv, OnePopup
  <2> QED BY <2>1, <2>2
<1>5. ASSUME NEW m \in Samples, NewSample(m) PROVE UNCHANGED pointer
  BY <1>5 DEF NewSample
<1>6. CASE MountDashboard \/ UnmountDashboard \/ RunEffects \/ BadgeTick
  BY <1>1, <1>6 DEF MountDashboard, UnmountDashboard, RunEffects, BadgeTick
<1>7. CASE UNCHANGED alertVars
  BY <1>1, <1>7 DEF alertVars, pointer
<1> QED BY <1>1, <1>2, <1>3, <1>4, <1>5, <1>6, <1>7 DEF AlertNext

\* Whatever is pressed, dragged and let go, while badges come and go: of any
\* number of popups of the bar one at most is open.
THEOREM NeverTwoPopups == AlertSpec => []OnePopup
<1>1. AlertInit => PopupInv
  BY DEF AlertInit, PopupInv, OnePopup
<1>2. PopupInv => OnePopup
  BY DEF PopupInv
<1> QED BY <1>1, <1>2, PopupStep, PTL DEF AlertSpec

-----------------------------------------------------------------------------
(* The badge of the panel.                                                 *)

\* Inductive: there is one timeout while the badge is shown and none else, and
\* it is due exactly when the badge has been quiet for its time.
BadgeInv ==
  /\ quiet \in 0..Ttl
  /\ timers = IF quiet < Ttl THEN {Ttl - quiet} ELSE {}
  /\ BadgeFollowsLastAlert

LEMMA BadgeStep == BadgeInv /\ [AlertNext]_alertVars => BadgeInv'
<1> SUFFICES ASSUME BadgeInv, [AlertNext]_alertVars PROVE BadgeInv'
  OBVIOUS
<1>1. ASSUME UNCHANGED flash PROVE BadgeInv'
  BY <1>1 DEF flash, BadgeInv, BadgeFollowsLastAlert
<1>2. ASSUME RunEffects PROVE BadgeInv'
  <2>1. CASE ShowAlert
    BY <2>1, AlertsAssumption DEF ShowAlert, BadgeInv, BadgeFollowsLastAlert
  <2> QED BY <1>1, <1>2, <2>1 DEF RunEffects
<1>3. ASSUME BadgeTick PROVE BadgeInv'
  <2>1. CASE quiet = Ttl
    BY <1>3, <2>1, AlertsAssumption DEF BadgeTick, Lower, BadgeInv, BadgeFollowsLastAlert
  <2>2. CASE quiet < Ttl /\ Ttl - quiet = 1
    <3>1. timers = {1} /\ quiet + 1 = Ttl
      BY <2>2, AlertsAssumption DEF BadgeInv
    <3> QED BY <1>3, <3>1, AlertsAssumption DEF BadgeTick, Lower, BadgeInv, BadgeFollowsLastAlert
  <2>3. CASE quiet < Ttl /\ Ttl - quiet # 1
    <3>1. timers = {Ttl - quiet} /\ quiet + 1 < Ttl /\ quiet + 1 \in 0..Ttl
      BY <2>3, AlertsAssumption DEF BadgeInv
    <3>2. timers' = {Ttl - (quiet + 1)} /\ badge' = badge
      BY <1>3, <2>3, <3>1, AlertsAssumption DEF BadgeTick, BadgeInv
    <3>3. quiet' = quiet + 1 /\ alarm' = alarm
      BY <1>3, <3>1, AlertsAssumption DEF BadgeTick, Lower
    <3> QED BY <2>3, <3>1, <3>2, <3>3 DEF BadgeInv, BadgeFollowsLastAlert
  <2> QED BY <2>1, <2>2, <2>3, AlertsAssumption DEF BadgeInv
<1>4. ASSUME NEW m \in Samples, NewSample(m) PROVE UNCHANGED flash
  BY <1>4 DEF NewSample
<1>5. ASSUME NEW where \in Triggers \cup {"outside"}, NEW inside \in BOOLEAN, Press(where, inside)
      PROVE  UNCHANGED flash
  BY <1>5 DEF Press
<1>6. ASSUME NEW click \in BOOLEAN, Release(click) PROVE UNCHANGED flash
  BY <1>6 DEF Release
<1>7. CASE MountDashboard \/ UnmountDashboard \/ SetHost
  BY <1>1, <1>7 DEF MountDashboard, UnmountDashboard, SetHost
<1>8. CASE UNCHANGED alertVars
  BY <1>1, <1>8 DEF alertVars, flash
<1> QED BY <1>1, <1>2, <1>3, <1>4, <1>5, <1>6, <1>7, <1>8 DEF AlertNext

\* For every time that the badge stays and every stream of alerts: it shows the
\* last one for exactly that time, however often it was shown again before.
THEOREM BadgeKeepsTime == AlertSpec => []BadgeFollowsLastAlert
<1>1. AlertInit => BadgeInv
  BY AlertsAssumption DEF AlertInit, BadgeInv, BadgeFollowsLastAlert
<1>2. BadgeInv => BadgeFollowsLastAlert
  BY DEF BadgeInv
<1> QED BY <1>1, <1>2, BadgeStep, PTL DEF AlertSpec

-----------------------------------------------------------------------------
(* The range of a gauge.                                                   *)

\* Inductive: the range holds the value that the effect has last run for, which
\* is the one shown unless an effect is due.  GaugeRange itself says nothing of
\* the time in between, when a reset may come.
GaugeInv ==
  /\ reading \in Readings \cup {Unset} /\ seen \in Readings \cup {Unset}
  /\ lowest \in Readings \cup {Unset} /\ highest \in Readings \cup {Unset}
  /\ rendered \in BOOLEAN
  /\ rendered => reading \in Readings
  /\ ~rendered => seen = reading
  /\ lowest = Unset <=> highest = Unset
  /\ lowest # Unset => lowest <= seen /\ seen <= highest

LEMMA GaugeStep == GaugeInv /\ [InstrumentsNext]_instrumentVars => GaugeInv'
<1> SUFFICES ASSUME GaugeInv, [InstrumentsNext]_instrumentVars PROVE GaugeInv'
  OBVIOUS
<1> USE InstrumentsAssumption
<1>1. ASSUME UNCHANGED <<reading, rendered, seen, lowest, highest>> PROVE GaugeInv'
  BY <1>1 DEF GaugeInv
<1>2. ASSUME AfterRender PROVE GaugeInv'
  <2>1. CASE seen = reading
    BY <1>2, <2>1 DEF AfterRender, GaugeInv
  <2>2. CASE seen # reading
    <3>1. Widen /\ seen' = reading /\ reading' = reading /\ rendered' = FALSE /\ reading \in Readings
      BY <1>2, <2>2 DEF AfterRender, GaugeInv
    <3>2. reading \in Nat /\ lowest \in Int /\ highest \in Int /\ seen \in Int
      BY <3>1 DEF GaugeInv, Unset
    <3>3. /\ lowest' \in Readings /\ lowest' # Unset /\ lowest' <= reading
          /\ highest' \in Readings /\ highest' # Unset /\ reading <= highest'
      BY <3>1, <3>2 DEF Widen, GaugeInv, Unset
    <3> QED BY <3>1, <3>3 DEF GaugeInv
  <2> QED BY <2>1, <2>2
<1>3. ASSUME NEW v \in Readings, NEW again \in BOOLEAN, ShowReading(v, again) PROVE GaugeInv'
  BY <1>3 DEF ShowReading, GaugeInv
<1>4. CASE ResetRange
  BY <1>4 DEF ResetRange, GaugeInv
<1>5. CASE Escape \/ ToggleConsole \/ ClearLog
  <2>1. UNCHANGED <<reading, rendered, seen, lowest, highest>>
    BY <1>5 DEF Escape, ToggleConsole, ClearLog
  <2> QED BY <1>1, <2>1
<1>6. ASSUME NEW g \in ShownGauges, ToggleGauge(g) PROVE GaugeInv'
  BY <1>1, <1>6 DEF ToggleGauge
<1>7. ASSUME NEW lines \in ConnectionLines, LogLine(lines) PROVE GaugeInv'
  BY <1>1, <1>7 DEF LogLine
<1>8. ASSUME NEW i \in Intervals, ChooseInterval(i) PROVE GaugeInv'
  BY <1>1, <1>8 DEF ChooseInterval
<1>9. CASE UNCHANGED instrumentVars
  BY <1>1, <1>9 DEF instrumentVars, gaugeVars
<1> QED BY <1>2, <1>3, <1>4, <1>5, <1>6, <1>7, <1>8, <1>9 DEF InstrumentsNext

\* For all readings and any number of resets, between a render and its effect as
\* well: the range, when it is shown, has both bounds and holds what is shown.
THEOREM RangeHoldsReading == InstrumentsSpec => []GaugeRange
<1>1. InstrumentsInit => GaugeInv
  BY DEF InstrumentsInit, GaugeInv
<1>2. GaugeInv => GaugeRange
  <2> SUFFICES ASSUME GaugeInv, HasRange PROVE GaugeRange
    BY DEF GaugeRange
  <2>1. lowest # Unset /\ highest # Unset
    BY DEF GaugeInv, HasRange
  <2>2. lowest \in Nat /\ highest \in Nat /\ seen \in Int
    BY <2>1, InstrumentsAssumption DEF GaugeInv, Unset
  <2> QED BY <2>1, <2>2 DEF GaugeInv, GaugeRange
<1> QED BY <1>1, <1>2, GaugeStep, PTL DEF InstrumentsSpec

-----------------------------------------------------------------------------
(* The bars of the scene.                                                  *)

\* The last of a sequence come from it.
LEMMA LastOfComes ==
  ASSUME NEW s \in Seq(Heights), NEW n \in Nat
  PROVE  /\ LastOf(s, n) \in Seq(Heights)
         /\ \A i \in DOMAIN LastOf(s, n) : \E j \in DOMAIN s : LastOf(s, n)[i] = s[j]
<1> DEFINE k == IF Len(s) > n THEN Len(s) - n ELSE 0
<1>1. k \in Nat /\ k <= Len(s) /\ Len(s) \in Nat
  OBVIOUS
<1>2. LastOf(s, n) = SubSeq(s, k + 1, Len(s))
  BY DEF LastOf
<1> HIDE DEF k
<1>3. SubSeq(s, k + 1, Len(s)) \in Seq(Heights) /\ Len(SubSeq(s, k + 1, Len(s))) = Len(s) - k
  BY <1>1
<1>4. ASSUME NEW i \in 1..(Len(s) - k)
      PROVE  SubSeq(s, k + 1, Len(s))[i] = s[k + i] /\ k + i \in DOMAIN s
  BY <1>1
<1> QED BY <1>1, <1>2, <1>3, <1>4

\* What the tooltips and the summary come to
RangeHolds ==
  /\ \A i \in DOMAIN bars : floor <= bars[i] /\ bars[i] <= ceiling
  /\ overlay # NoOverlay => overlay.min <= overlay.val /\ overlay.val <= overlay.max
  /\ overlay # NoOverlay => overlay.min = floor /\ overlay.max = ceiling

\* Inductive: with the types of what is kept, and no bars without a range
BarsInv ==
  /\ value \in Heights \cup {NoHeight}
  /\ bars \in Seq(Heights)
  /\ floor \in Heights \cup {NoHeight} /\ ceiling \in Heights \cup {NoHeight}
  /\ floor = NoHeight <=> ceiling = NoHeight
  /\ floor = NoHeight => bars = <<>>
  /\ RangeHolds

LEMMA StepKeepsBars ==
  ASSUME BarsInv, Step, value \in Heights, UNCHANGED value
  PROVE  BarsInv'
<1> DEFINE kept == LastOf(bars, HistoryDepth - 1)
<1>0. Heights \subseteq Nat /\ HistoryDepth - 1 \in Nat
  BY SceneAssumption
<1>1. kept \in Seq(Heights) /\ \A i \in DOMAIN kept : \E j \in DOMAIN bars : kept[i] = bars[j]
  BY <1>0, LastOfComes DEF BarsInv
<1>2. floor' \in Heights /\ ceiling' \in Heights /\ floor' <= value /\ value <= ceiling'
      /\ (floor # NoHeight => floor' <= floor /\ ceiling <= ceiling')
  BY <1>0 DEF Step, BarsInv, NoHeight
<1>3. ASSUME NEW j \in DOMAIN bars PROVE bars[j] \in Nat /\ floor' <= bars[j] /\ bars[j] <= ceiling'
  <2>1. bars[j] \in Heights /\ floor <= bars[j] /\ bars[j] <= ceiling
    BY DEF BarsInv, RangeHolds
  <2>2. floor # NoHeight /\ ceiling # NoHeight
    BY DEF BarsInv
  <2>3. floor \in Nat /\ ceiling \in Nat /\ floor' \in Nat /\ ceiling' \in Nat
    BY <1>0, <1>2, <2>2 DEF BarsInv
  <2>4. bars[j] \in Nat
    BY <1>0, <2>1
  <2> QED BY <1>2, <2>1, <2>2, <2>3, <2>4
<1>4. bars' = Append(kept, value)
  BY DEF Step
<1> HIDE DEF kept
<1>5. bars' \in Seq(Heights)
  BY <1>1, <1>4
<1>6. ASSUME NEW i \in DOMAIN bars' PROVE floor' <= bars'[i] /\ bars'[i] <= ceiling'
  <2>1. CASE i \in DOMAIN kept
    <3>1. bars'[i] = kept[i]
      BY <1>1, <1>4, <2>1
    <3>2. PICK j \in DOMAIN bars : kept[i] = bars[j]
      BY <1>1, <2>1
    <3> QED BY <1>3, <3>1, <3>2
  <2>2. CASE i \notin DOMAIN kept
    <3>1. bars'[i] = value
      BY <1>1, <1>4, <2>2
    <3> QED BY <1>2, <3>1
  <2> QED BY <2>1, <2>2
<1>7. overlay' = [val |-> value, min |-> floor', max |-> ceiling']
  BY DEF Step
<1>8. RangeHolds'
  BY <1>2, <1>6, <1>7 DEF RangeHolds
<1>9. floor' # NoHeight /\ ceiling' # NoHeight
  BY <1>0, <1>2 DEF NoHeight
<1> QED BY <1>2, <1>5, <1>8, <1>9 DEF BarsInv

LEMMA BarsStep == BarsInv /\ [SceneNext]_sceneVars => BarsInv'
<1> SUFFICES ASSUME BarsInv, [SceneNext]_sceneVars PROVE BarsInv'
  OBVIOUS
<1>1. ASSUME UNCHANGED <<session3D, value>> PROVE BarsInv'
  BY <1>1 DEF session3D, BarsInv, RangeHolds
<1>2. ASSUME RunSceneEffects PROVE BarsInv'
  <2>1. CASE value = NoHeight \/ scene = "absent" \/ paused
    BY <1>1, <1>2, <2>1 DEF RunSceneEffects
  <2>2. CASE ~(value = NoHeight \/ scene = "absent" \/ paused)
    BY <1>2, <2>2, StepKeepsBars DEF RunSceneEffects, BarsInv
  <2> QED BY <2>1, <2>2
<1>3. ASSUME NEW v \in Heights, NewHeight(v) PROVE BarsInv'
  BY <1>3 DEF NewHeight, session3D, BarsInv, RangeHolds
<1>4. CASE SceneReady \/ FirstFrame \/ TogglePause \/ Rebuild
  BY <1>1, <1>4 DEF SceneReady, FirstFrame, TogglePause, Rebuild
<1>5. CASE UNCHANGED sceneVars
  BY <1>1, <1>5 DEF sceneVars, session3D
<1> QED BY <1>2, <1>3, <1>4, <1>5 DEF SceneNext

\* For all values, depths and any number of samples added over and over: every
\* bar and the summary lie in the range that is shown for the session.
THEOREM BarsStayInRange == SceneSpec => []BarsInRange
<1>1. SceneInit => BarsInv
  BY DEF SceneInit, BarsInv, RangeHolds
<1>2. BarsInv => BarsInRange
  <2> SUFFICES ASSUME BarsInv PROVE BarsInRange
    OBVIOUS
  <2>1. ASSUME NEW i \in DOMAIN bars
        PROVE  Tooltip(i).min <= bars[i] /\ bars[i] <= Tooltip(i).max
    <3>1. floor # NoHeight /\ ceiling # NoHeight
      BY DEF BarsInv
    <3> QED BY <3>1 DEF Tooltip, BarsInv, RangeHolds
  <2>2. CASE overlay = NoOverlay
    <3>1. Summary = <<>>
      BY <2>2 DEF Summary
    <3> QED BY <2>1, <3>1 DEF BarsInRange
  <2>3. CASE overlay # NoOverlay
    <3>1. Summary = <<overlay>>
      BY <2>3 DEF Summary
    <3>2. \A i \in DOMAIN Summary : Summary[i] = overlay
      BY <3>1
    <3> QED BY <2>1, <2>3, <3>2 DEF BarsInRange, BarsInv, RangeHolds
  <2> QED BY <2>2, <2>3
<1> QED BY <1>1, <1>2, BarsStep, PTL DEF SceneSpec

-----------------------------------------------------------------------------
(* The stored preset.                                                      *)

\* What providers may hold and store
MayHold == chosen \cup {Default[p] : p \in blank}

\* Inductive with the types of what is stored and chosen.  A provider on its first
\* render holds its default, which nobody has read yet.
PresetInv ==
  /\ stored \in Presets \cup {Junk, Nothing}
  /\ stage \in [Providers -> {"away", "first", "mounted", "rendered", "settled"}]
  /\ preset \in [Providers -> Presets] /\ blank \subseteq Providers
  /\ \A p \in Providers : stage[p] = "first" => preset[p] = Default[p]
  /\ SavedPresetSurvives

\* A preset that is stored is there to be read from then on.
Readable == stored \in Presets /\ blank = {}

LEMMA PresetStep == PresetInv /\ [ThemeNext]_themeVars => PresetInv'
<1> SUFFICES ASSUME PresetInv, [ThemeNext]_themeVars PROVE PresetInv'
  OBVIOUS
<1> USE ThemeAssumption DEF PresetInv, SavedPresetSurvives
<1>1. ASSUME NEW p \in Providers, MountTheme(p) PROVE PresetInv'
  BY <1>1 DEF MountTheme
<1>2. ASSUME NEW p \in Providers, FirstEffects(p) PROVE PresetInv'
  <2>1. /\ stage' = [stage EXCEPT ![p] = "mounted"] /\ stored' = stored /\ chosen' = chosen
        /\ preset' = [preset EXCEPT ![p] = IF stored \in Presets THEN stored ELSE @]
        /\ blank' = IF stored \in Presets THEN blank ELSE blank \cup {p}
        /\ preset[p] = Default[p]
    BY <1>2 DEF FirstEffects, StoreUnmounted
  <2>2. MayHold \subseteq MayHold'
    BY <2>1 DEF MayHold
  <2>3. preset'[p] \in MayHold'
    BY <2>1 DEF MayHold
  <2>4. /\ stored \in Presets => stored \in MayHold
        /\ \A q \in Providers :
             stage[q] \in {"mounted", "rendered", "settled"} => preset[q] \in MayHold
    BY DEF MayHold
  <2>5. SavedPresetSurvives'
    BY <2>1, <2>2, <2>3, <2>4 DEF MayHold
  <2> QED BY <2>1, <2>5
<1>3. ASSUME NEW p \in Providers, RenderTheme(p) PROVE PresetInv'
  BY <1>3 DEF RenderTheme
<1>4. ASSUME NEW p \in Providers, StorePreset(p) PROVE PresetInv'
  BY <1>4 DEF StorePreset
<1>5. ASSUME NEW p \in Providers, NEW name \in Presets, ChoosePreset(p, name) PROVE PresetInv'
  BY <1>5 DEF ChoosePreset
<1>6. ASSUME NEW p \in Providers, ChangeOverride(p) PROVE PresetInv'
  BY <1>6 DEF ChangeOverride
<1>7. ASSUME NEW p \in Providers, UnmountTheme(p) PROVE PresetInv'
  BY <1>7 DEF UnmountTheme
<1>8. CASE UNCHANGED themeVars
  BY <1>8 DEF themeVars
<1> QED BY <1>1, <1>2, <1>3, <1>4, <1>5, <1>6, <1>7, <1>8 DEF ThemeNext

LEMMA ReadableStep == PresetInv /\ Readable /\ [ThemeNext]_themeVars => Readable'
<1> SUFFICES ASSUME PresetInv, Readable, [ThemeNext]_themeVars PROVE Readable'
  OBVIOUS
<1> USE DEF Readable
<1>1. ASSUME NEW p \in Providers, MountTheme(p) \/ RenderTheme(p) \/ ChangeOverride(p) \/ UnmountTheme(p)
      PROVE  Readable'
  BY <1>1 DEF MountTheme, RenderTheme, ChangeOverride, UnmountTheme
<1>2. ASSUME NEW p \in Providers, FirstEffects(p) PROVE Readable'
  BY <1>2 DEF FirstEffects, StoreUnmounted
<1>3. ASSUME NEW p \in Providers, StorePreset(p) PROVE Readable'
  BY <1>3 DEF StorePreset, PresetInv
<1>4. ASSUME NEW p \in Providers, NEW name \in Presets, ChoosePreset(p, name) PROVE Readable'
  BY <1>4 DEF ChoosePreset
<1>5. CASE UNCHANGED themeVars
  BY <1>5 DEF themeVars
<1> QED BY <1>1, <1>2, <1>3, <1>4, <1>5 DEF ThemeNext

\* For any number of providers and tabs, whatever default each has: what is stored was
\* stored at first, is somebody's choice or is the default of a provider that found no
\* preset; and where one was stored at first, no provider ever finds none, so that
\* nothing but choices replaces it (the two effects of ThemeProvider).  A default that
\* is stored by such a provider may replace a newer choice of another tab.
THEOREM PresetSurvives ==
  ThemeSpec => /\ []SavedPresetSurvives
               /\ stored \in Presets => [](stored \in Presets /\ blank = {})
<1>1. ThemeInit => PresetInv /\ (stored \in Presets => Readable)
  BY ThemeAssumption DEF ThemeInit, PresetInv, SavedPresetSurvives, Readable
<1>2. PresetInv => SavedPresetSurvives
  BY DEF PresetInv
<1>3. Readable <=> stored \in Presets /\ blank = {}
  BY DEF Readable
<1> QED BY <1>1, <1>2, <1>3, PresetStep, ReadableStep, PTL DEF ThemeSpec

-----------------------------------------------------------------------------
(* Lamps, alerts and colours.                                              *)

\* What the functions of alerts.ts and the colours come to, guard by guard
LEMMA GradeOf ==
  ASSUME NEW amount \in Int, NEW warn \in Int, NEW crit \in Int, warn <= crit
  PROVE  Grade(amount, warn, crit) = IF amount > crit THEN "crit" ELSE IF amount > warn THEN "warn" ELSE "ok"
<1>1. CASE amount > crit
  <2>1. ~(amount > warn /\ amount <= crit)
    BY <1>1
  <2> QED BY <1>1, <2>1, Zenon DEF Grade
<1>2. CASE ~(amount > crit) /\ amount > warn
  <2>1. amount > warn /\ amount <= crit
    BY <1>2
  <2> QED BY <1>2, <2>1, Zenon DEF Grade
<1>3. CASE ~(amount > crit) /\ ~(amount > warn)
  BY <1>3, Zenon DEF Grade
<1> QED BY <1>1, <1>2, <1>3

LEMMA OneColour ==
  ASSUME NEW score \in Int
  PROVE  LevelColour(ScoreToLevel(score)) = LoadScoreColour(score)
<1>1. CASE score < 20
  <2>1. ~(score >= 20 /\ score < 45) /\ ~(score >= 45 /\ score < 65) /\ ~(score >= 65 /\ score < 85)
    BY <1>1
  <2> QED BY <1>1, <2>1, Zenon DEF LevelColour, ScoreToLevel, LoadScoreColour
<1>2. CASE score >= 20 /\ score < 45
  <2>1. ~(score < 20) /\ ~(score >= 45 /\ score < 65) /\ ~(score >= 65 /\ score < 85)
    BY <1>2
  <2> QED BY <1>2, <2>1, Zenon DEF LevelColour, ScoreToLevel, LoadScoreColour
<1>3. CASE score >= 45 /\ score < 65
  <2>1. ~(score < 20) /\ ~(score >= 20 /\ score < 45) /\ ~(score >= 65 /\ score < 85)
    BY <1>3
  <2> QED BY <1>3, <2>1, Zenon DEF LevelColour, ScoreToLevel, LoadScoreColour
<1>4. CASE score >= 65
  <2>1. ~(score < 20) /\ ~(score >= 20 /\ score < 45) /\ ~(score >= 45 /\ score < 65)
    BY <1>4
  <2>2. LoadScoreColour(score) = "crit"
    BY <2>1, Zenon DEF LoadScoreColour
  <2>3. ScoreToLevel(score) \in {"high", "critical"}
    BY <2>1, Zenon DEF ScoreToLevel
  <2>4. LevelColour("high") = "crit" /\ LevelColour("critical") = "crit"
    BY Zenon DEF LevelColour
  <2> QED BY <2>2, <2>3, <2>4
<1> QED BY <1>1, <1>2, <1>3, <1>4

LEMMA TrendOf == ASSUME NEW m PROVE LoadTrend(m) \in {"rising", "falling", "stable"}
<1> DEFINE climbs == m.load1 - m.load15 > 20
           sinks == m.load1 - m.load15 < -20
<1>1. CASE climbs /\ ~sinks
  BY <1>1, Zenon DEF LoadTrend
<1>2. CASE sinks /\ ~climbs
  BY <1>2, Zenon DEF LoadTrend
<1>3. CASE climbs /\ sinks
  BY <1>3, Zenon DEF LoadTrend
<1>4. CASE ~climbs /\ ~sinks
  BY <1>4, Zenon DEF LoadTrend
<1> QED BY <1>1, <1>2, <1>3, <1>4

LEMMA NetOf ==
  ASSUME NEW m
  PROVE  NetLamp(m) = IF NetAnalysis(m) = "saturated" THEN "crit"
                      ELSE IF NetAnalysis(m) = "high" THEN "warn" ELSE "ok"
<1>1. CASE NetAnalysis(m) = "saturated"
  BY <1>1, Zenon DEF NetLamp
<1>2. CASE NetAnalysis(m) # "saturated" /\ NetAnalysis(m) = "high"
  BY <1>2, Zenon DEF NetLamp
<1>3. CASE NetAnalysis(m) # "saturated" /\ NetAnalysis(m) # "high"
  BY <1>3, Zenon DEF NetLamp
<1> QED BY <1>1, <1>2, <1>3

LEMMA SysOf ==
  ASSUME NEW m, NEW known, NEW prev
  PROVE  SysLamp(m, known, prev) = IF Spiked(m, known, prev) THEN "spike"
                                   ELSE IF LoadTrend(m) # "stable" THEN LoadTrend(m) ELSE "ok"
<1>1. CASE Spiked(m, known, prev)
  BY <1>1, Zenon DEF SysLamp
<1>2. CASE ~Spiked(m, known, prev) /\ LoadTrend(m) # "stable"
  BY <1>2, Zenon DEF SysLamp
<1>3. CASE ~Spiked(m, known, prev) /\ LoadTrend(m) = "stable"
  BY <1>3, Zenon DEF SysLamp
<1> QED BY <1>1, <1>2, <1>3

LEMMA LampColours ==
  /\ LampColour("crit") = "crit" /\ LampColour("warn") = "warn"
  /\ LampColour("ok") = "muted" /\ LampColour("off") = "faint"
BY Zenon DEF LampColour

LEMMA SysColours ==
  /\ SysColour("spike") = "crit" /\ SysColour("rising") = "warn"
  /\ SysColour("falling") = "ok"
BY Zenon DEF SysColour

\* The fields of a sample that thresholds look at
LEMMA SampleFields ==
  ASSUME NEW m \in Samples
  PROVE  /\ m.cpu \in Int /\ m.mem \in Int /\ m.disk \in Int
         /\ m.load1 \in Int /\ m.load5 \in Int /\ m.load15 \in Int
<1>1. m \in [Fields -> Nat]
  BY AlertsAssumption
<1>2. {"cpu", "mem", "disk", "load1", "load5", "load15"} \subseteq Fields
  BY DEF Fields
<1>3. \A f \in Fields : m[f] \in Nat
  BY <1>1
<1> QED BY <1>2, <1>3

\* Which alerts there are
LEMMA AlertOf ==
  ASSUME NEW m, NEW known, NEW prev
  PROVE  \A a : a \in DetectAlerts(m, known, prev) <=>
           \/ a = Alert("cpu", Grade(m.cpu, 6000, 8000)) /\ a.level # "ok"
           \/ a = Alert("mem", Grade(m.mem, 7500, 9000)) /\ a.level # "ok"
           \/ a = Alert("disk", Grade(m.disk, 6000, 8000)) /\ a.level # "ok"
           \/ a = Alert("load-rise", "warn") /\ LoadTrend(m) = "rising"
           \/ a = Alert("load-fall", "ok") /\ LoadTrend(m) = "falling"
           \/ a = Alert("load-spike", "crit") /\ Spiked(m, known, prev)
           \/ a = Alert("net", "crit") /\ NetAnalysis(m) = "saturated"
           \/ a = Alert("net", "warn") /\ NetAnalysis(m) = "high"
BY DEF DetectAlerts, Alert

LEMMA AlertFields ==
  /\ \A id, grade : Alert(id, grade).id = id /\ Alert(id, grade).level = grade
  /\ \A i, j, k, l : Alert(i, j) = Alert(k, l) <=> i = k /\ j = l
BY DEF Alert

LEMMA SameSpike ==
  ASSUME NEW m, NEW k1, NEW p1, NEW k2, NEW p2, Spiked(m, k1, p1) <=> Spiked(m, k2, p2)
  PROVE  DetectAlerts(m, k1, p1) = DetectAlerts(m, k2, p2)
<1>1. ASSUME NEW a PROVE a \in DetectAlerts(m, k1, p1) <=> a \in DetectAlerts(m, k2, p2)
  BY AlertOf
<1> QED BY <1>1

\* Inductive: what the bar and the panel hold is made of one pair of samples,
\* and the dashboard, once it has one and its effects have run, has kept the same.
SeenInv ==
  /\ arrived \in BOOLEAN /\ latest \in Samples /\ dashPrev \in Samples
  /\ due \in {"none", "mount", "sample"}
  /\ IF arrived
     THEN \E known \in BOOLEAN, prev \in Samples :
            /\ lamps = BuildAlertState(latest, known, prev)
            /\ panelAlerts = DetectAlerts(latest, known, prev)
            /\ barAlerts = DetectAlerts(latest, TRUE, latest)
     ELSE lamps = LampsOff /\ panelAlerts = {} /\ barAlerts = {}
  /\ dashboard \in {"away", "mounted", "first", "rendered"}
  /\ dashboard = "first" => dashAlerts = barAlerts
  /\ dashboard = "rendered" => dashAlerts = panelAlerts
  /\ dashboard = "mounted" => dashKnown = FALSE
  /\ dashboard \in {"first", "rendered"} => arrived
  /\ due = "none" /\ dashboard \in {"first", "rendered"} => dashKnown = TRUE /\ dashPrev = latest
  /\ dashKnown \in BOOLEAN

LEMMA SeenStep == SeenInv /\ [AlertNext]_alertVars => SeenInv'
<1> SUFFICES ASSUME SeenInv, [AlertNext]_alertVars PROVE SeenInv'
  OBVIOUS
<1>1. ASSUME UNCHANGED <<values, dash, due>> PROVE SeenInv'
  BY <1>1 DEF values, dash, SeenInv
<1>2. ASSUME NEW m \in Samples, NewSample(m) PROVE SeenInv'
  <2>1. /\ lamps' = BuildAlertState(m, arrived, latest)
        /\ panelAlerts' = DetectAlerts(m, arrived, latest)
        /\ barAlerts' = DetectAlerts(m, TRUE, m)
        /\ arrived' = TRUE /\ latest' = m /\ due' = "sample"
        /\ UNCHANGED <<dashKnown, dashPrev>>
    BY <1>2 DEF NewSample, dash
  <2> DEFINE Dash == /\ dashboard' \in {"away", "first", "rendered"}
                     /\ dashboard' = "first" => dashAlerts' = barAlerts'
                     /\ dashboard' = "rendered" => dashAlerts' = panelAlerts'
  <2>2. ASSUME dashboard = "away" PROVE Dash
    <3>1. dashboard' = "away"
      BY <1>2, <2>2 DEF NewSample, dash
    <3> QED BY <2>1, <3>1
  <2>3. ASSUME dashboard = "mounted" PROVE Dash
    <3>1. dashboard' = "first" /\ dashAlerts' = DetectAlerts(m, dashKnown, dashPrev)
      BY <1>2, <2>3 DEF NewSample
    <3>2. PICK yes : yes = TRUE
      OBVIOUS
    <3>3. ~Spiked(m, dashKnown, dashPrev) /\ ~Spiked(m, yes, m)
      BY <2>3, SampleFields DEF SeenInv, Spiked
    <3>4. DetectAlerts(m, dashKnown, dashPrev) = DetectAlerts(m, yes, m)
      BY <3>3, SameSpike
    <3> QED BY <2>1, <3>1, <3>2, <3>4
  <2>4. ASSUME dashboard \in {"first", "rendered"} PROVE Dash
    <3>1. dashboard' = "rendered" /\ dashAlerts' = DetectAlerts(m, dashKnown, dashPrev)
      BY <1>2, <2>4 DEF NewSample
    <3>2. due = "none"
      BY <1>2 DEF NewSample
    <3>3. dashKnown = TRUE /\ dashPrev = latest /\ arrived = TRUE
      BY <2>4, <3>2 DEF SeenInv
    <3> QED BY <2>1, <3>1, <3>3
  <2>5. arrived \in BOOLEAN /\ latest \in Samples /\ dashPrev' \in Samples /\ dashKnown' \in BOOLEAN
    BY <2>1 DEF SeenInv
  <2>6. \E known \in BOOLEAN, prev \in Samples :
            /\ lamps' = BuildAlertState(m, known, prev)
            /\ panelAlerts' = DetectAlerts(m, known, prev)
            /\ barAlerts' = DetectAlerts(m, TRUE, m)
    BY <2>1, <2>5, Zenon
  <2>7. Dash
    BY <2>2, <2>3, <2>4 DEF SeenInv
  <2> QED BY <2>1, <2>5, <2>6, <2>7 DEF SeenInv
<1>3. ASSUME MountDashboard PROVE SeenInv'
  BY <1>3 DEF MountDashboard, values, SeenInv
<1>4. ASSUME UnmountDashboard PROVE SeenInv'
  BY <1>4 DEF UnmountDashboard, values, SeenInv
<1>5. ASSUME RunEffects PROVE SeenInv'
  BY <1>5 DEF RunEffects, KeepSample, values, dash, SeenInv
<1>6. ASSUME BadgeTick \/ SetHost PROVE UNCHANGED <<values, dash, due>>
  BY <1>6 DEF BadgeTick, SetHost
<1>7. ASSUME NEW where \in Triggers \cup {"outside"}, NEW inside \in BOOLEAN, Press(where, inside)
      PROVE  UNCHANGED <<values, dash, due>>
  BY <1>7 DEF Press
<1>8. ASSUME NEW click \in BOOLEAN, Release(click) PROVE UNCHANGED <<values, dash, due>>
  BY <1>8 DEF Release
<1>9. CASE UNCHANGED alertVars
  BY <1>1, <1>9 DEF alertVars, values, dash
<1> QED BY <1>1, <1>2, <1>3, <1>4, <1>5, <1>6, <1>7, <1>8, <1>9 DEF AlertNext

LEMMA SeenAgree == SeenInv => ViewsAgree
<1> SUFFICES ASSUME SeenInv PROVE ViewsAgree
  OBVIOUS
<1>1. CalcLoadScore(latest) \in Int
  <2>1. latest.load1 \in Int /\ latest.load5 \in Int /\ latest.load15 \in Int
    BY SampleFields DEF SeenInv
  <2> QED BY <2>1 DEF CalcLoadScore
<1>2. /\ dashboard = "first" => dashAlerts = barAlerts
      /\ dashboard = "rendered" => dashAlerts = panelAlerts
  BY DEF SeenInv
<1>3. CASE ~arrived
  <2>1. lamps.sys = "off"
    BY <1>3 DEF SeenInv, LampsOff, Lamps
  <2>2. panelAlerts = {} /\ barAlerts = {}
    BY <1>3 DEF SeenInv
  <2> QED BY <1>1, <1>2, <2>1, <2>2, OneColour DEF ViewsAgree
<1>4. CASE arrived
  <2>1. PICK known \in BOOLEAN, prev \in Samples :
          /\ lamps = BuildAlertState(latest, known, prev)
          /\ panelAlerts = DetectAlerts(latest, known, prev)
          /\ barAlerts = DetectAlerts(latest, TRUE, latest)
    BY <1>4 DEF SeenInv
  <2>2. lamps.sys = SysLamp(latest, known, prev)
    BY <2>1 DEF BuildAlertState
  <2>3. lamps.sys = "spike" <=> Spiked(latest, known, prev)
    BY <2>2, SysOf, TrendOf
  <2>4. Alert("load-spike", "crit") \in panelAlerts <=> Spiked(latest, known, prev)
    BY <2>1, AlertOf, AlertFields
  <2>5. ~Spiked(latest, TRUE, latest)
    BY SampleFields DEF Spiked, SeenInv
  <2>6. ASSUME NEW a PROVE a \in barAlerts <=> a \in panelAlerts /\ a.id # "load-spike"
    <3> DEFINE m == latest
               Both == \/ a = Alert("cpu", Grade(m.cpu, 6000, 8000)) /\ a.level # "ok"
                       \/ a = Alert("mem", Grade(m.mem, 7500, 9000)) /\ a.level # "ok"
                       \/ a = Alert("disk", Grade(m.disk, 6000, 8000)) /\ a.level # "ok"
                       \/ a = Alert("load-rise", "warn") /\ LoadTrend(m) = "rising"
                       \/ a = Alert("load-fall", "ok") /\ LoadTrend(m) = "falling"
                       \/ a = Alert("net", "crit") /\ NetAnalysis(m) = "saturated"
                       \/ a = Alert("net", "warn") /\ NetAnalysis(m) = "high"
    <3>0. PICK yes : yes = TRUE
      OBVIOUS
    <3>1. a \in barAlerts <=> Both
      <4>1. barAlerts = DetectAlerts(m, yes, m) /\ ~Spiked(m, yes, m)
        BY <2>1, <2>5, <3>0
      <4> QED BY <4>1, AlertOf
    <3>2. a \in panelAlerts <=> Both \/ (a = Alert("load-spike", "crit") /\ Spiked(m, known, prev))
      BY <2>1, AlertOf
    <3>3. Both => a.id # "load-spike"
      BY AlertFields
    <3>4. a = Alert("load-spike", "crit") => a.id = "load-spike"
      BY AlertFields
    <3> HIDE DEF Both
    <3> QED BY <3>1, <3>2, <3>3, <3>4
  <2>7. barAlerts = {a \in panelAlerts : a.id # "load-spike"}
    BY <2>6
  <2> QED BY <1>1, <1>2, <2>3, <2>4, <2>7, OneColour DEF ViewsAgree
<1> QED BY <1>3, <1>4

\* For all samples, in any order, and wherever the dashboard is mounted and taken
\* away: lamp, panel and, from its second sample on, dashboard see the same spike,
\* bar, panel and dashboard the same alerts but for it, and the load has one colour.
THEOREM ViewsStayAgreed == AlertSpec => []ViewsAgree
<1>1. AlertInit => SeenInv
  BY DEF AlertInit, SeenInv
<1> QED BY <1>1, SeenAgree, SeenStep, PTL DEF AlertSpec

\* The alerts that the popup lists are the lit lamps of the metrics.
LitRows == {[id |-> l, colour |-> lamps[l]] : l \in {k \in Lamps : lamps[k] \in {"warn", "crit"}}}

LEMMA RowsAreLamps ==
  ASSUME SeenInv, arrived
  PROVE  AlertRows = LitRows /\ lamps.sys \in {"ok", "rising", "falling", "spike"}
<1>1. PICK known \in BOOLEAN, prev \in Samples :
        /\ lamps = BuildAlertState(latest, known, prev)
        /\ barAlerts = DetectAlerts(latest, TRUE, latest)
  BY DEF SeenInv
<1>2. PICK yes : yes = TRUE
  OBVIOUS
<1>3. barAlerts = DetectAlerts(latest, yes, latest)
  BY <1>1, <1>2
<1>4. /\ lamps.cpu = Grade(latest.cpu, 6000, 8000)
      /\ lamps.mem = Grade(latest.mem, 7500, 9000)
      /\ lamps.disk = Grade(latest.disk, 6000, 8000)
      /\ lamps.net = NetLamp(latest)
      /\ lamps.sys = SysLamp(latest, known, prev)
  BY <1>1 DEF BuildAlertState
<1>5. /\ lamps.cpu \in {"crit", "warn", "ok"}
      /\ lamps.mem \in {"crit", "warn", "ok"}
      /\ lamps.disk \in {"crit", "warn", "ok"}
  BY <1>4, GradeOf, SampleFields DEF SeenInv
<1>6. /\ NetAnalysis(latest) = "saturated" <=> lamps.net = "crit"
      /\ NetAnalysis(latest) = "high" <=> lamps.net = "warn"
  BY <1>4, NetOf
<1>7. lamps.sys \in {"ok", "rising", "falling", "spike"}
  BY <1>4, SysOf, TrendOf
<1>8. ASSUME NEW a \in barAlerts, a.level # "ok", a.id \in Lamps
      PROVE  lamps[a.id] = a.level /\ a.level \in {"warn", "crit"}
  <2>1. \/ a = Alert("cpu", lamps.cpu) \/ a = Alert("mem", lamps.mem) \/ a = Alert("disk", lamps.disk)
        \/ a = Alert("load-rise", "warn") \/ a = Alert("load-fall", "ok")
        \/ a = Alert("load-spike", "crit")
        \/ a = Alert("net", "crit") /\ lamps.net = "crit"
        \/ a = Alert("net", "warn") /\ lamps.net = "warn"
    <3>1. a \in DetectAlerts(latest, yes, latest)
      BY <1>3, <1>8
    <3>2. \/ a = Alert("cpu", Grade(latest.cpu, 6000, 8000))
          \/ a = Alert("mem", Grade(latest.mem, 7500, 9000))
          \/ a = Alert("disk", Grade(latest.disk, 6000, 8000))
          \/ a = Alert("load-rise", "warn") \/ a = Alert("load-fall", "ok")
          \/ a = Alert("load-spike", "crit")
          \/ a = Alert("net", "crit") /\ NetAnalysis(latest) = "saturated"
          \/ a = Alert("net", "warn") /\ NetAnalysis(latest) = "high"
      BY <3>1, AlertOf
    <3> QED BY <1>4, <1>6, <3>2
  <2>2. a.id \in {"cpu", "mem", "disk", "net"}
    BY <1>8 DEF Lamps
  <2> QED BY <1>5, <1>8, <2>1, <2>2, AlertFields
<1>9. ASSUME NEW l \in Lamps, lamps[l] \in {"warn", "crit"}
      PROVE  Alert(l, lamps[l]) \in barAlerts
  <2>1. l \in {"cpu", "mem", "disk", "net"}
    BY DEF Lamps
  <2>2. Alert(l, lamps[l]).level # "ok"
    BY <1>9, AlertFields
  <2> QED BY <1>3, <1>4, <1>6, <1>9, <2>1, <2>2, AlertOf
<1>10. AlertRows \subseteq LitRows
  BY <1>8 DEF AlertRows, LitRows
<1>11. ASSUME NEW l \in Lamps, lamps[l] \in {"warn", "crit"}
       PROVE  [id |-> l, colour |-> lamps[l]] \in AlertRows
  <2>1. Alert(l, lamps[l]) \in barAlerts /\ Alert(l, lamps[l]).id = l /\ Alert(l, lamps[l]).level = lamps[l]
    BY <1>9, <1>11, AlertFields
  <2> QED BY <1>11, <2>1 DEF AlertRows
<1>12. LitRows \subseteq AlertRows
  BY <1>11 DEF LitRows
<1> QED BY <1>7, <1>10, <1>12

LEMMA SeenExplained == SeenInv => PopupExplainsLamps
<1> SUFFICES ASSUME SeenInv PROVE PopupExplainsLamps
  OBVIOUS
<1> DEFINE SysRows == {[id |-> "sys", colour |-> SysColour(s)] : s \in {lamps.sys} \cap {"rising", "spike"}}
<1>1. LitLamps = LitRows \cup SysRows
  BY LampColours DEF LitLamps, LitRows
<1>2. CASE ~arrived
  <2>1. lamps = LampsOff /\ barAlerts = {}
    BY <1>2 DEF SeenInv
  <2>2. lamps.sys = "off" /\ \A l \in Lamps : lamps[l] = "off"
    BY <2>1 DEF LampsOff, Lamps
  <2>3. LitRows = {} /\ SysRows = {} /\ AlertRows = {} /\ ~HasAlerts
    BY <2>1, <2>2 DEF LitRows, AlertRows, HasAlerts
  <2> QED BY <1>1, <2>3 DEF PopupExplainsLamps, PopupRows
<1>3. CASE arrived
  <2>1. AlertRows = LitRows /\ lamps.sys \in {"ok", "rising", "falling", "spike"}
    BY <1>3, RowsAreLamps
  <2>2. \A r \in LitRows : r.colour \in {"warn", "crit"}
    BY DEF LitRows
  <2>3. CASE ~HasAlerts
    <3>1. LitRows = {} /\ lamps.sys \notin {"rising", "spike"}
      BY <2>1, <2>3 DEF HasAlerts
    <3>2. SysRows = {}
      BY <3>1
    <3> QED BY <1>1, <2>3, <3>1, <3>2 DEF PopupExplainsLamps, PopupRows
  <2>4. CASE HasAlerts
    <3> DEFINE Load == {r \in {[id |-> "sys", colour |-> SysColour(lamps.sys)]} : lamps.sys \notin {"ok", "off"}}
    <3>1. PopupRows = LitRows \cup Load
      BY <2>1, <2>4 DEF PopupRows
    <3>2. {r \in Load : r.colour \in {"warn", "crit"}} = SysRows
      <4>1. CASE lamps.sys = "ok"
        BY <4>1
      <4>2. CASE lamps.sys = "falling"
        BY <4>2, SysColours
      <4>3. CASE lamps.sys \in {"rising", "spike"}
        <5>1. SysRows = {[id |-> "sys", colour |-> SysColour(lamps.sys)]}
          BY <4>3
        <5>2. SysColour(lamps.sys) \in {"warn", "crit"}
          BY <4>3, SysColours
        <5> QED BY <4>3, <5>1, <5>2
      <4> QED BY <2>1, <4>1, <4>2, <4>3
    <3> QED BY <1>1, <2>2, <3>1, <3>2 DEF PopupExplainsLamps
  <2> QED BY <2>3, <2>4
<1> QED BY <1>2, <1>3

\* For all samples, in any order: the popup explains every lamp that is lit, in
\* its colour, and warns of nothing else.
THEOREM LampsAreExplained == AlertSpec => []PopupExplainsLamps
<1>1. AlertInit => SeenInv
  BY DEF AlertInit, SeenInv
<1> QED BY <1>1, SeenExplained, SeenStep, PTL DEF AlertSpec

-----------------------------------------------------------------------------
(* Figures, places and shares.                                             *)

\* A popup shows at least what its badge shows, so do the panel, but for its
\* smallest size and its load, and the gauges.
LEMMA SameFigures ==
  ASSUME NEW shown \in SUBSET Metrics
  PROVE  /\ \A metric \in Metrics : BarBadge[metric] \subseteq BarPopup[metric]
         /\ BarBadge.load \subseteq GaugeFigures.load /\ BarBadge.net \subseteq GaugeFigures.net
         /\ BarBadge.cpu \subseteq GaugeFigures.cpu /\ BarBadge.mem \subseteq GaugeFigures.mem
         /\ BarBadge.disk \subseteq GaugeFigures.disk
         /\ \A metric \in shown : BarBadge[metric] \subseteq PanelRows(shown)[metric]
         /\ \A metric \in shown \ {"load"} : SmallCard(shown)[metric] = BarBadge[metric]
BY DEF Metrics, BarBadge, BarPopup, GaugeFigures, PanelRows, SmallCard

\* The two columns of the panel hold every metric of its list, in its order.
LEMMA ColumnsAreTheList ==
  ASSUME NEW list \in Seq(Metrics),
         NEW left, NEW right, left = Columns(list)[1], right = Columns(list)[2]
  PROVE  /\ Len(left) + Len(right) = Len(list) /\ Len(right) <= Len(left)
         /\ \A i \in 1..Len(left) : left[i] = list[i]
         /\ \A i \in 1..Len(right) : right[i] = list[Len(left) + i]
<1> DEFINE mid == (Len(list) + 1) \div 2
<1>1. mid \in 0..Len(list) /\ Len(list) - mid <= mid
  <2>1. ASSUME NEW n \in Nat PROVE (n + 1) \div 2 \in 0..n /\ n - (n + 1) \div 2 <= (n + 1) \div 2
    OBVIOUS
  <2> QED BY <2>1 DEF mid
<1>2. left = SubSeq(list, 1, mid) /\ right = SubSeq(list, mid + 1, Len(list))
  BY DEF Columns
<1> HIDE DEF mid
<1>3. /\ Len(SubSeq(list, 1, mid)) = mid
      /\ \A i \in 1..mid : SubSeq(list, 1, mid)[i] = list[i]
  BY <1>1
<1>4. /\ Len(SubSeq(list, mid + 1, Len(list))) = Len(list) - mid
      /\ \A i \in 1..(Len(list) - mid) : SubSeq(list, mid + 1, Len(list))[i] = list[mid + i]
  BY <1>1
<1>5. Len(left) = mid /\ \A i \in 1..mid : left[i] = list[i]
  BY ONLY <1>2, <1>3
<1>6. /\ Len(right) = Len(list) - mid
      /\ \A i \in 1..(Len(list) - mid) : right[i] = list[mid + i]
  BY ONLY <1>2, <1>4
<1>7. Len(left) + Len(right) = Len(list) /\ Len(right) <= Len(left)
  BY ONLY <1>1, <1>5, <1>6, list \in Seq(Metrics)
<1> QED BY ONLY <1>5, <1>6, <1>7

\* A dimmed colour lies between the colour and its background, in every channel.
LEMMA DimmedBetween ==
  ASSUME NEW a \in [1..3 -> 0..255], NEW b \in [1..3 -> 0..255], NEW i \in 1..3, a[i] <= b[i]
  PROVE  LET dim == dimColor([kind |-> "hex", channels |-> a], [kind |-> "hex", channels |-> b])
         IN  a[i] <= dim[i] /\ dim[i] <= b[i]
<1> DEFINE x == a[i]
           y == b[i]
<1>1. x \in 0..255 /\ y \in 0..255 /\ x <= y
  OBVIOUS
<1>2. dimColor([kind |-> "hex", channels |-> a], [kind |-> "hex", channels |-> b])[i]
        = (38 * x + 62 * y + 50) \div 100
  BY <1>1 DEF dimColor, parseHex, NoDigit
<1> HIDE DEF x, y
<1>3. x <= (38 * x + 62 * y + 50) \div 100 /\ (38 * x + 62 * y + 50) \div 100 <= y
  BY <1>1
<1> QED BY <1>2, <1>3 DEF x, y

\* The width of a popup, and its place: whatever the trigger, it lies 8 pixels
\* inside the window on the left, on the right and at the top; at the bottom it may not.
LEMMA PopupInWindow ==
  ASSUME NEW trigger \in [left : Int, top : Int, bottom : Int], NEW height \in Nat,
         NEW desired \in Nat, NEW win \in [width : Nat, height : Nat], win.width >= 16
  PROVE  LET place == PopupPlace(trigger, height, desired, win)
         IN  8 <= place.left /\ place.left + place.width <= win.width - 8 /\ 8 <= place.top
BY DEF PopupPlace, Lower, Upper

\* A bar has at most its eight cells, for every share up to a hundred percent.
LEMMA EightCells ==
  ASSUME NEW share \in 0..10000
  PROVE  BarCells(share) \in 0..8
<1>1. ASSUME NEW n \in Nat, n < 180000 PROVE n \div 20000 \in 0..8
  BY <1>1
<1>2. share \in Nat /\ share <= 10000
  OBVIOUS
<1>3. 16 * share + 10000 \in Nat /\ 16 * share + 10000 < 180000
  BY <1>2
<1> QED BY <1>1, <1>3 DEF BarCells

\* The arc of a gauge and the bar of a ring end at a hundred; the share of the
\* status of a ring would not.
LEMMA SharesInRange ==
  ASSUME NEW share \in Nat, NEW max \in Nat \ {0}, NEW slots \in Nat \cup {Unset}
  PROVE  Arc(share, max) \in 0..100 /\ RingBar(share, max, slots).width \in 0..100
<1>1. ASSUME NEW a \in Nat, NEW b \in Nat \ {0} PROVE (100 * a) \div b \in Nat
  BY <1>1
<1>2. Arc(share, max) \in 0..100
  <2>1. CASE share > max
    BY <2>1 DEF Arc
  <2>2. CASE share <= max
    <3> DEFINE q == (100 * share) \div max
    <3>1. q \in Nat /\ q * max <= 100 * share
      OBVIOUS
    <3> HIDE DEF q
    <3>2. q <= 100
      <4>1. q >= 101 => q * max >= 101 * max
        BY <3>1
      <4> QED BY <2>2, <3>1, <4>1
    <3>3. Arc(share, max) = q
      BY <2>2 DEF Arc, q
    <3> QED BY <3>1, <3>2, <3>3
  <2> QED BY <2>1, <2>2
<1>3. RingBar(share, max, slots).width \in 0..100
  <2> DEFINE of == IF slots # Unset THEN slots ELSE max
             b == IF of > 1 THEN of ELSE 1
             fill == (100 * share) \div b
  <2>1. b \in Nat \ {0}
    BY DEF Unset
  <2>2. fill \in Nat
    BY <1>1, <2>1
  <2>3. RingBar(share, max, slots).width = IF fill > 100 THEN 100 ELSE fill
    BY DEF RingBar
  <2> HIDE DEF fill
  <2> QED BY <2>2, <2>3
<1> QED BY <1>2, <1>3
-----------------------------------------------------------------------------
(* Figures.                                                                *)

LEMMA BarsOfSample ==
  \A n \in Shown : \A i \in 0..5, k \in 0..(n - 1) :
    /\ \A x \in BarLeft(i, k, n)..(BarLeft(i, k, n) + BarBreadth(n) - 1) : UnderPointer(x, n) = i
    /\ k + 1 < n => BarLeft(i, k, n) + BarBreadth(n) <= BarLeft(i, k + 1, n)
<1> SUFFICES ASSUME NEW n \in Shown, NEW i \in 0..5, NEW k \in 0..(n - 1)
    PROVE  /\ \A x \in BarLeft(i, k, n)..(BarLeft(i, k, n) + BarBreadth(n) - 1) : UnderPointer(x, n) = i
           /\ k + 1 < n => BarLeft(i, k, n) + BarBreadth(n) <= BarLeft(i, k + 1, n)
  OBVIOUS
<1>1. n \in {1, 2, 3, 4, 5, 6}
  BY DEF Shown
<1>2. CASE n = 1
  BY <1>2 DEF BarLeft, BarBreadth, UnderPointer, BarWidth
<1>3. CASE n = 2
  BY <1>3 DEF BarLeft, BarBreadth, UnderPointer, BarWidth
<1>4. CASE n = 3
  BY <1>4 DEF BarLeft, BarBreadth, UnderPointer, BarWidth
<1>5. CASE n = 4
  BY <1>5 DEF BarLeft, BarBreadth, UnderPointer, BarWidth
<1>6. CASE n = 5
  BY <1>6 DEF BarLeft, BarBreadth, UnderPointer, BarWidth
<1>7. CASE n = 6
  BY <1>7 DEF BarLeft, BarBreadth, UnderPointer, BarWidth
<1> QED
  BY <1>1, <1>2, <1>3, <1>4, <1>5, <1>6, <1>7

LEMMA Scaled ==
  ASSUME NEW v \in Nat, NEW top \in Nat, NEW h \in Nat, v <= top
  PROVE  v * h <= h * top /\ v * h \in Nat /\ h * top \in Nat
<1>1. PICK d \in Nat : top = v + d
  <2>1. top - v \in Nat /\ top = v + (top - v)
    OBVIOUS
  <2> QED BY <2>1
<1>2. h * top = v * h + h * d /\ h * d \in Nat
  BY <1>1
<1> QED BY <1>2

\* The greatest of some values is one of them and over all of them; so is the least.
LEMMA HighestOf ==
  ASSUME NEW vals, NEW n \in DOMAIN vals, \A i \in DOMAIN vals : vals[i] <= vals[n]
  PROVE  /\ \E i \in DOMAIN vals : Highest(vals) = vals[i]
         /\ \A i \in DOMAIN vals : vals[i] <= Highest(vals)
<1>1. \E v \in {vals[i] : i \in DOMAIN vals} : \A i \in DOMAIN vals : vals[i] <= v
  OBVIOUS
<1>2. /\ Highest(vals) \in {vals[i] : i \in DOMAIN vals}
      /\ \A i \in DOMAIN vals : vals[i] <= Highest(vals)
  BY <1>1 DEF Highest
<1> QED BY <1>2

LEMMA LowestOf ==
  ASSUME NEW vals, NEW n \in DOMAIN vals, \A i \in DOMAIN vals : vals[n] <= vals[i]
  PROVE  /\ \E i \in DOMAIN vals : Lowest(vals) = vals[i]
         /\ \A i \in DOMAIN vals : Lowest(vals) <= vals[i]
<1>1. \E v \in {vals[i] : i \in DOMAIN vals} : \A i \in DOMAIN vals : v <= vals[i]
  OBVIOUS
<1>2. /\ Lowest(vals) \in {vals[i] : i \in DOMAIN vals}
      /\ \A i \in DOMAIN vals : Lowest(vals) <= vals[i]
  BY <1>1 DEF Lowest
<1> QED BY <1>2

\* The 1 that is among them keeps the top from being 0.
LEMMA AxisOver ==
  ASSUME NEW a \in Nat, NEW b \in Nat, NEW metric \in {"load", "net", "proc"}
  PROVE  LET top == Top(metric, <<a, b>>) IN top >= 1 /\ a <= top /\ b <= top
<1> DEFINE vals == <<a, b>> \o <<1>>
<1>1. Top(metric, <<a, b>>) = Highest(vals)
  BY DEF Top
<1>2. DOMAIN vals = 1..3 /\ vals[1] = a /\ vals[2] = b /\ vals[3] = 1
  OBVIOUS
<1>3. \E n \in DOMAIN vals : \A i \in DOMAIN vals : vals[i] <= vals[n]
  <2>1. CASE a >= b /\ a >= 1
    BY <1>2, <2>1
  <2>2. CASE b >= a /\ b >= 1
    BY <1>2, <2>2
  <2>3. CASE a = 0 /\ b = 0
    BY <1>2, <2>3
  <2> QED BY <2>1, <2>2, <2>3
<1> HIDE DEF vals
<1>4. \A i \in DOMAIN vals : vals[i] <= Highest(vals)
  BY <1>3, HighestOf
<1>5. 1 <= Highest(vals) /\ a <= Highest(vals) /\ b <= Highest(vals)
  BY <1>2, <1>4
<1>6. Highest(vals) \in Nat
  BY <1>2, <1>3, HighestOf
<1> QED BY <1>1, <1>5, <1>6

\* The sum of two values, by the recursive function that Mean defines
LEMMA MeanOfTwo ==
  ASSUME NEW a \in Nat, NEW b \in Nat
  PROVE  Mean(<<a, b>>) = (2 * (a + b) + 2) \div 4
<1> DEFINE vals == <<a, b>>
           IsSum(f) == f = [i \in 0..Len(vals) |-> IF i = 0 THEN 0 ELSE f[i - 1] + vals[i]]
           s == CHOOSE f : IsSum(f)
           w == [i \in 0..2 |-> IF i = 0 THEN 0 ELSE IF i = 1 THEN a ELSE a + b]
<1>1. Len(vals) = 2 /\ vals[1] = a /\ vals[2] = b
  OBVIOUS
<1> HIDE DEF vals
<1>2. w = [i \in 0..Len(vals) |-> IF i = 0 THEN 0 ELSE w[i - 1] + vals[i]]
  <2>1. w[0] = 0 /\ w[1] = a
    OBVIOUS
  <2>2. ASSUME NEW i \in 0..2
        PROVE  (IF i = 0 THEN 0 ELSE IF i = 1 THEN a ELSE a + b) = IF i = 0 THEN 0 ELSE w[i - 1] + vals[i]
    <3>1. i \in {0, 1, 2}
      OBVIOUS
    <3>2. CASE i = 0
      BY <3>2
    <3>3. CASE i = 1
      BY <1>1, <2>1, <3>3
    <3>4. CASE i = 2
      BY <1>1, <2>1, <3>4
    <3> QED BY <3>1, <3>2, <3>3, <3>4
  <2> HIDE DEF w
  <2>3. w = [i \in 0..2 |-> IF i = 0 THEN 0 ELSE IF i = 1 THEN a ELSE a + b]
    BY DEF w
  <2> QED BY <1>1, <2>2, <2>3
<1> HIDE DEF w
<1>3. IsSum(s)
  <2>1. IsSum(w)
    BY <1>2
  <2> HIDE DEF IsSum
  <2> QED BY <2>1
<1>4. s[0] = 0 /\ s[1] = a /\ s[2] = a + b
  <2> HIDE DEF s
  <2>1. s[0] = 0
    BY <1>1, <1>3
  <2>2. s[1] = s[0] + vals[1]
    BY <1>1, <1>3
  <2>3. s[2] = s[1] + vals[2]
    BY <1>1, <1>3
  <2> QED BY <1>1, <2>1, <2>2, <2>3
<1>5. Mean(vals) = (2 * s[Len(vals)] + Len(vals)) \div (2 * Len(vals))
  BY DEF Mean
<1> HIDE DEF s
<1> QED BY <1>1, <1>4, <1>5 DEF vals

\* Rounded as it is, the mean does not leave the range.
LEMMA MeanOfTwoBetween ==
  ASSUME NEW a \in Nat, NEW b \in Nat
  PROVE  LET vals == <<a, b>> IN
         /\ Aggregate(vals, "min") <= Aggregate(vals, "avg")
         /\ Aggregate(vals, "avg") <= Aggregate(vals, "max")
<1> DEFINE vals == <<a, b>>
<1>1. DOMAIN vals = 1..2 /\ vals[1] = a /\ vals[2] = b /\ vals # <<>>
  OBVIOUS
<1>2. Mean(vals) = (2 * (a + b) + 2) \div 4
  BY MeanOfTwo
<1> HIDE DEF vals
<1>3. /\ Aggregate(vals, "max") = Highest(vals) /\ Aggregate(vals, "min") = Lowest(vals)
      /\ Aggregate(vals, "avg") = Mean(vals)
  BY <1>1 DEF Aggregate
<1>4. CASE a <= b
  <2>1. Highest(vals) = b /\ Lowest(vals) = a
    <3>1. \A i \in DOMAIN vals : vals[i] <= vals[2] /\ vals[1] <= vals[i]
      BY <1>1, <1>4
    <3>2. Highest(vals) \in {a, b} /\ b <= Highest(vals)
      BY <1>1, <3>1, HighestOf
    <3>3. Lowest(vals) \in {a, b} /\ Lowest(vals) <= a
      BY <1>1, <3>1, LowestOf
    <3> QED BY <1>4, <3>2, <3>3
  <2>2. a <= (2 * (a + b) + 2) \div 4 /\ (2 * (a + b) + 2) \div 4 <= b
    BY <1>4
  <2> QED BY <1>2, <1>3, <2>1, <2>2 DEF vals
<1>5. CASE b <= a
  <2>1. Highest(vals) = a /\ Lowest(vals) = b
    <3>1. \A i \in DOMAIN vals : vals[i] <= vals[1] /\ vals[2] <= vals[i]
      BY <1>1, <1>5
    <3>2. Highest(vals) \in {a, b} /\ a <= Highest(vals)
      BY <1>1, <3>1, HighestOf
    <3>3. Lowest(vals) \in {a, b} /\ Lowest(vals) <= b
      BY <1>1, <3>1, LowestOf
    <3> QED BY <1>5, <3>2, <3>3
  <2>2. b <= (2 * (a + b) + 2) \div 4 /\ (2 * (a + b) + 2) \div 4 <= a
    BY <1>5
  <2> QED BY <1>2, <1>3, <2>1, <2>2 DEF vals
<1> QED BY <1>4, <1>5

LEMMA WavesAreMirrored == WavesMirrored
<1>1. \A i \in 1..8 : Rising[i] = Falling[9 - i]
  <2> SUFFICES ASSUME NEW i \in 1..8 PROVE Rising[i] = Falling[9 - i]
    OBVIOUS
  <2>1. i \in {1, 2, 3, 4, 5, 6, 7, 8}
    OBVIOUS
  <2> QED BY <2>1 DEF Rising, Falling
<1> QED BY <1>1 DEF WavesMirrored, Wait

\* For every value, duration and number of bytes: the pointer finds the sample
\* whose bar it is on, tooltip, bars and lines stay in their rows, an axis holds its
\* values, a mean lies between them, the parts of an uptime are its own to the
\* minute, units and levels fit, a gauge's lines and arcs are apart, the waves of
\* the load mirror each other and the scene's bars stand on one floor (TimelineRow,
\* metrics.ts, format.ts, Gauge.tsx, LoadArrows, Metrics3D).
THEOREM FiguresHold == FiguresFit
<1>1. TooltipNamesBar
  BY BarsOfSample DEF TooltipNamesBar
<1>2. TooltipInside
  <2> SUFFICES ASSUME NEW x \in Amounts, NEW wide \in WindowOptions
      PROVE  TooltipLeft(x, wide) >= 0 /\ TooltipLeft(x, wide) + 160 <= wide * BarWidth
    BY DEF TooltipInside
  <2> QED
    BY FiguresAssumption DEF TooltipLeft, WindowOptions, BarWidth
<1>3. UptimeAddsUp
  <2> SUFFICES ASSUME NEW s \in Durations
      PROVE  /\ Uptime(s).hours < 24 /\ Uptime(s).minutes < 60
             /\ s - (86400 * Uptime(s).days + 3600 * Uptime(s).hours + 60 * Uptime(s).minutes) \in 0..59
    BY DEF UptimeAddsUp
  <2>1. s \in Nat
    BY FiguresAssumption
  <2>2. /\ Uptime(s).days = s \div 86400 /\ Uptime(s).hours = (s % 86400) \div 3600
        /\ Uptime(s).minutes = (s % 3600) \div 60
    BY DEF Uptime
  <2> QED
    BY <2>1, <2>2
<1>4. UnitFits
  <2> SUFFICES ASSUME NEW b \in Heaps
      PROVE  /\ Split(b).unit # "B" => Split(b).whole >= 1
             /\ Split(b).unit # "GB" => Split(b).whole <= 1024
    BY DEF UnitFits
  <2>1. b \in Nat
    BY FiguresAssumption
  <2>2. CASE b < KB
    <3>1. Split(b) = [unit |-> "B", whole |-> b]
      <4>1. ~(b >= KB /\ b < MB) /\ ~(b >= MB /\ b < GB)
        BY <2>1, <2>2 DEF KB, MB, GB
      <4> QED
        BY <2>2, <4>1 DEF Split
    <3> QED
      BY <2>1, <2>2, <3>1 DEF KB
  <2>3. CASE b >= KB /\ b < MB
    BY <2>1, <2>3 DEF Split, KB, MB
  <2>4. CASE b >= MB /\ b < GB
    BY <2>1, <2>4 DEF Split, KB, MB, GB
  <2>5. CASE b >= GB
    BY <2>1, <2>5 DEF Split, KB, MB, GB
  <2> QED
    BY <2>1, <2>2, <2>3, <2>4, <2>5 DEF KB, MB, GB
<1>5. LevelHoldsRange
  BY FiguresAssumption DEF LevelHoldsRange, AutoLevel
<1>6. GaugeApart
  BY DEF GaugeApart, Radii, Lines
<1>7. BlocksStand
  BY FiguresAssumption DEF BlocksStand, BlockMiddle, BlockTall
<1>8. FiguresInside
  <2> SUFFICES ASSUME NEW h \in Talls, NEW top \in Amounts \ {0}, NEW v \in Amounts, v <= top
      PROVE  /\ BarTall(v, top, h) \in top..(h * top)
             /\ PathY(v, top, h) \in (4 * top)..((h - 4) * top)
             /\ SparkY(v, top, h, 0) \in 0..(h * top) /\ SparkY(v, top, h, 2) \in (2 * top)..(h * top)
    BY DEF FiguresInside
  <2>1. h \in Nat /\ h >= 8 /\ top \in Nat /\ top >= 1 /\ v \in Nat
    BY FiguresAssumption
  <2>2. v * h <= h * top /\ v * h \in Nat /\ h * top \in Nat
    BY <2>1, Scaled
  <2>3. 1 * top <= top * h /\ top * h = h * top
    BY <2>1, Scaled
  <2>4. BarTall(v, top, h) \in top..(h * top)
    BY <2>1, <2>2, <2>3 DEF BarTall
  <2>5. PathY(v, top, h) \in (4 * top)..((h - 4) * top)
    <3>1. top - v \in Nat /\ top - v <= top /\ h - 8 \in Nat
      BY <2>1
    <3>2. (top - v) * (h - 8) <= (h - 8) * top /\ (top - v) * (h - 8) \in Nat
      BY <2>1, <3>1, Scaled
    <3>3. (h - 4) * top = (h - 8) * top + 4 * top
      BY <2>1
    <3> QED
      BY <2>1, <3>2, <3>3 DEF PathY
  <2>6. SparkY(v, top, h, 0) \in 0..(h * top)
    BY <2>1, <2>2 DEF SparkY
  <2>7. SparkY(v, top, h, 2) \in (2 * top)..(h * top)
    <3>1. h - 2 \in Nat
      BY <2>1
    <3>2. v * (h - 2) <= (h - 2) * top /\ v * (h - 2) \in Nat
      BY <2>1, <3>1, Scaled
    <3>3. h * top = (h - 2) * top + 2 * top
      BY <2>1
    <3> QED
      BY <2>1, <2>2, <3>2, <3>3 DEF SparkY
  <2> QED
    BY <2>4, <2>5, <2>6, <2>7
<1>9. AxisHoldsValues
  BY FiguresAssumption, AxisOver DEF AxisHoldsValues
<1>10. MeanBetween
  BY FiguresAssumption, MeanOfTwoBetween DEF MeanBetween
<1> QED
  BY <1>1, <1>2, <1>3, <1>4, <1>5, <1>6, <1>7, <1>8, <1>9, <1>10, WavesAreMirrored DEF FiguresFit

-----------------------------------------------------------------------------
(* The types of the alerts.                                                *)

LEMMA GradeIn == \A amount, warn, crit : Grade(amount, warn, crit) \in {"ok", "warn", "crit"}
<1> SUFFICES ASSUME NEW amount, NEW warn, NEW crit
             PROVE  Grade(amount, warn, crit) \in {"ok", "warn", "crit"}
  OBVIOUS
<1> DEFINE above == amount > crit
           between == amount > warn /\ amount <= crit
<1>1. CASE above /\ ~between
  BY <1>1, Zenon DEF Grade
<1>2. CASE ~above /\ between
  BY <1>2, Zenon DEF Grade
<1>3. CASE above /\ between
  BY <1>3, Zenon DEF Grade
<1>4. CASE ~above /\ ~between
  BY <1>4, Zenon DEF Grade
<1> QED BY <1>1, <1>2, <1>3, <1>4

LEMMA DetectedAlerts ==
  ASSUME NEW m, NEW known, NEW prev
  PROVE  DetectAlerts(m, known, prev) \subseteq Alerts
<1>1. \A id \in AlertIds, grade \in {"ok", "warn", "crit"} : Alert(id, grade) \in Alerts
  BY DEF Alert, Alerts
<1>2. {"cpu", "mem", "disk", "load-rise", "load-fall", "load-spike", "net"} \subseteq AlertIds
  BY DEF AlertIds, Lamps
<1> SUFFICES ASSUME NEW a \in DetectAlerts(m, known, prev) PROVE a \in Alerts
  OBVIOUS
<1> QED BY <1>1, <1>2, AlertOf, GradeIn

LEMMA RankIn == ASSUME NEW id \in AlertIds PROVE Rank(id) \in 1..7
<1> DEFINE order == <<"cpu", "mem", "disk", "load-rise", "load-fall", "load-spike", "net">>
<1>1. \E i \in 1..7 : id = order[i]
  BY DEF AlertIds, Lamps
<1> HIDE DEF order
<1>2. Rank(id) = CHOOSE i \in 1..7 : id = order[i]
  BY DEF Rank, order
<1> QED BY <1>1, <1>2

\* Of the alerts that there are the badge takes one.
LEMMA TopAlertIn ==
  ASSUME NEW S \in SUBSET Alerts, S # {}
  PROVE  TopAlert(S) \in Alerts
<1> DEFINE crit == {a \in S : a.level = "crit"}
           shown == IF crit # {} THEN crit ELSE S
<1>1. shown \in SUBSET Alerts /\ shown # {}
  OBVIOUS
<1>2. TopAlert(S) = CHOOSE a \in shown : \A b \in shown : Rank(a.id) <= Rank(b.id)
  BY DEF TopAlert
<1> HIDE DEF shown
<1>3. \A a \in shown : Rank(a.id) \in 1..7
  BY <1>1, RankIn DEF Alerts
<1> DEFINE ranks == {Rank(a.id) : a \in shown}
<1>4. ranks \in SUBSET Nat /\ ranks # {}
  BY <1>1, <1>3
<1>5. PICK r \in ranks : \A s \in ranks : r <= s
  BY <1>4, LeastElement
<1>6. \E a \in shown : \A b \in shown : Rank(a.id) <= Rank(b.id)
  BY <1>5
<1> QED BY <1>1, <1>2, <1>6

LEMMA LampTypes ==
  ASSUME NEW m, NEW known, NEW prev
  PROVE  LET b == BuildAlertState(m, known, prev)
         IN /\ \A lamp \in Lamps : b[lamp] \in {"off", "ok", "warn", "crit"}
            /\ b.sys \in {"off", "ok", "rising", "falling", "spike"}
<1>1. NetLamp(m) \in {"off", "ok", "warn", "crit"}
  BY NetOf
<1>2. SysLamp(m, known, prev) \in {"off", "ok", "rising", "falling", "spike"}
  BY SysOf, TrendOf
<1> QED BY <1>1, <1>2, GradeIn DEF BuildAlertState, Lamps

\* The parts of AlertTypeOK
ValueTypes ==
  /\ arrived \in BOOLEAN /\ latest \in Samples
  /\ \A lamp \in Lamps : lamps[lamp] \in {"off", "ok", "warn", "crit"}
  /\ lamps.sys \in {"off", "ok", "rising", "falling", "spike"}
  /\ barAlerts \subseteq Alerts /\ panelAlerts \subseteq Alerts
DashTypes ==
  /\ dashAlerts \subseteq Alerts
  /\ dashboard \in {"away", "mounted", "first", "rendered"}
  /\ dashKnown \in BOOLEAN /\ dashPrev \in Samples
BadgeTypes ==
  /\ badge \in Alerts \cup {NoAlert} /\ timers \subseteq 1..Ttl
  /\ alarm \in Alerts \cup {NoAlert} /\ quiet \in 0..Ttl
PopupTypes ==
  /\ host \in BOOLEAN /\ open \subseteq Triggers
  /\ pressed \in Metrics \cup InfoFields \cup {"alerts", "outside", "none"}
AlertTypes ==
  /\ ValueTypes /\ DashTypes /\ due \in {"none", "mount", "sample"} /\ BadgeTypes /\ PopupTypes

LEMMA AlertTypesAre == AlertTypes <=> AlertTypeOK
BY DEF AlertTypes, AlertTypeOK, ValueTypes, DashTypes, BadgeTypes, PopupTypes

LEMMA RestTypes ==
  /\ ValueTypes /\ UNCHANGED values => ValueTypes'
  /\ DashTypes /\ UNCHANGED dash => DashTypes'
  /\ BadgeTypes /\ UNCHANGED flash => BadgeTypes'
  /\ PopupTypes /\ UNCHANGED pointer => PopupTypes'
BY DEF ValueTypes, DashTypes, BadgeTypes, PopupTypes, values, dash, flash, pointer, Triggers, InfoTriggers

LEMMA AlertTypesStep == AlertTypes /\ [AlertNext]_alertVars => AlertTypes'
<1> SUFFICES ASSUME AlertTypes, [AlertNext]_alertVars PROVE AlertTypes'
  OBVIOUS
<1>0. ValueTypes /\ DashTypes /\ due \in {"none", "mount", "sample"} /\ BadgeTypes /\ PopupTypes
  BY DEF AlertTypes
<1>1. CASE MountDashboard
  <2>1. DashTypes'
    BY <1>0, <1>1, DetectedAlerts DEF MountDashboard, DashTypes
  <2> QED BY <1>0, <1>1, <2>1, RestTypes DEF MountDashboard, AlertTypes
<1>2. CASE UnmountDashboard
  <2>1. DashTypes'
    BY <1>0, <1>2 DEF UnmountDashboard, DashTypes
  <2> QED BY <1>0, <1>2, <2>1, RestTypes DEF UnmountDashboard, AlertTypes
<1>3. CASE RunEffects
  <2>1. DashTypes'
    BY <1>0, <1>3, RestTypes DEF RunEffects, KeepSample, DashTypes, ValueTypes
  <2>2. BadgeTypes'
    <3>1. CASE panelAlerts # {} /\ ShowAlert
      <4>1. TopAlert(panelAlerts) \in Alerts
        BY <1>0, <3>1, TopAlertIn DEF ValueTypes
      <4> QED BY <3>1, <4>1, AlertsAssumption DEF ShowAlert, BadgeTypes
    <3> QED BY <1>0, <1>3, <3>1, RestTypes DEF RunEffects
  <2> QED BY <1>0, <1>3, <2>1, <2>2, RestTypes DEF RunEffects, AlertTypes
<1>4. CASE BadgeTick
  <2>1. timers' \subseteq 1..Ttl
    BY <1>0, <1>4, AlertsAssumption DEF BadgeTick, BadgeTypes
  <2>2. quiet' \in 0..Ttl
    BY <1>0, <1>4, AlertsAssumption DEF BadgeTick, BadgeTypes, Lower
  <2>3. badge' \in Alerts \cup {NoAlert} /\ alarm' \in Alerts \cup {NoAlert}
    BY <1>0, <1>4 DEF BadgeTick, BadgeTypes
  <2>4. BadgeTypes'
    BY <2>1, <2>2, <2>3 DEF BadgeTypes
  <2> QED BY <1>0, <1>4, <2>4, RestTypes DEF BadgeTick, AlertTypes
<1>5. CASE SetHost
  <2>1. open' \subseteq Triggers'
    BY <1>0, <1>5 DEF SetHost, PopupTypes, Triggers, InfoTriggers
  <2>2. PopupTypes'
    BY <1>0, <1>5, <2>1 DEF SetHost, PopupTypes
  <2> QED BY <1>0, <1>5, <2>2, RestTypes DEF SetHost, AlertTypes
<1>6. ASSUME NEW m \in Samples, NewSample(m) PROVE AlertTypes'
  <2>1. ValueTypes'
    BY <1>0, <1>6, DetectedAlerts, LampTypes DEF NewSample, ValueTypes
  <2>2. DashTypes'
    <3>1. CASE dashboard = "away"
      BY <1>0, <1>6, <3>1, RestTypes DEF NewSample
    <3>2. CASE dashboard # "away"
      BY <1>0, <1>6, <3>2, DetectedAlerts DEF NewSample, DashTypes
    <3> QED BY <3>1, <3>2
  <2> QED BY <1>0, <1>6, <2>1, <2>2, RestTypes DEF NewSample, AlertTypes
<1>7. ASSUME NEW where \in Triggers \cup {"outside"}, NEW inside \in BOOLEAN, Press(where, inside)
      PROVE  AlertTypes'
  <2>1. Triggers \subseteq Metrics \cup InfoFields \cup {"alerts"}
    BY AlertsAssumption DEF Triggers, InfoTriggers
  <2>2. open' \subseteq Triggers' /\ host' = host
    BY <1>0, <1>7 DEF Press, StillOpen, PopupTypes, Triggers, InfoTriggers
  <2>3. PopupTypes'
    BY <1>0, <1>7, <2>1, <2>2 DEF Press, PopupTypes
  <2> QED BY <1>0, <1>7, <2>3, RestTypes DEF Press, AlertTypes
<1>8. ASSUME NEW click \in BOOLEAN, Release(click) PROVE AlertTypes'
  <2>1. PopupTypes'
    BY <1>0, <1>8 DEF Release, PopupTypes, Triggers, InfoTriggers
  <2> QED BY <1>0, <1>8, <2>1, RestTypes DEF Release, AlertTypes
<1>9. CASE UNCHANGED alertVars
  <2>1. UNCHANGED values /\ UNCHANGED dash /\ UNCHANGED flash /\ UNCHANGED pointer /\ UNCHANGED due
    BY <1>9 DEF alertVars, values, dash, flash, pointer
  <2> QED BY <1>0, <2>1, RestTypes DEF AlertTypes
<1> QED BY <1>1, <1>2, <1>3, <1>4, <1>5, <1>6, <1>7, <1>8, <1>9 DEF AlertNext

LEMMA AlertsTyped == AlertSpec => []AlertTypeOK
<1>1. AlertInit => AlertTypes
  <2> SUFFICES ASSUME AlertInit PROVE AlertTypes
    OBVIOUS
  <2>1. /\ \A lamp \in Lamps : LampsOff[lamp] = "off"
        /\ LampsOff.sys = "off"
    BY DEF LampsOff
  <2>2. ValueTypes
    BY <2>1, Zenon DEF AlertInit, ValueTypes
  <2>3. DashTypes
    BY DEF AlertInit, DashTypes
  <2>4. BadgeTypes
    BY AlertsAssumption DEF AlertInit, BadgeTypes
  <2>5. PopupTypes
    BY Zenon DEF AlertInit, PopupTypes
  <2> QED BY <2>2, <2>3, <2>4, <2>5 DEF AlertInit, AlertTypes
<1> QED BY <1>1, AlertTypesStep, AlertTypesAre, PTL DEF AlertSpec

-----------------------------------------------------------------------------
(* The types of the dashboard.                                             *)

\* The last n of a sequence: at most n, of the same kind
LEMMA RecentTyped ==
  ASSUME NEW S, NEW s \in Seq(S), NEW n \in Nat
  PROVE  Recent(s, n) \in Seq(S) /\ Len(Recent(s, n)) <= n
<1> DEFINE k == IF Len(s) > n THEN Len(s) - n ELSE 0
<1>1. k \in Nat /\ k <= Len(s) /\ Len(s) \in Nat /\ Len(s) - k <= n
  OBVIOUS
<1>2. Recent(s, n) = SubSeq(s, k + 1, Len(s))
  BY DEF Recent
<1> HIDE DEF k
<1>3. SubSeq(s, k + 1, Len(s)) \in Seq(S) /\ Len(SubSeq(s, k + 1, Len(s))) = Len(s) - k
  BY <1>1
<1> QED BY <1>1, <1>2, <1>3

GaugeTypes ==
  /\ GaugeInv
  /\ past \in Seq(Readings) /\ Len(past) <= HistorySize
  /\ drawn \in Seq(Readings) /\ Len(drawn) <= HistorySize
PanelTypes ==
  /\ mode \in {"compact", "expanded"} /\ focus \in ShownGauges \cup {NoGauge}
  /\ console \in BOOLEAN /\ interval \in Intervals
LogTypes == log \in Seq(Directions) /\ Len(log) <= MaxLog

DashboardTypes == GaugeTypes /\ PanelTypes /\ LogTypes

LEMMA LoggedTyped ==
  ASSUME LogTypes, NEW lines \in Seq(Directions), Logged(lines)
  PROVE  LogTypes'
<1>1. log \o lines \in Seq(Directions)
  BY DEF LogTypes
<1> QED BY <1>1, RecentTyped, InstrumentsAssumption DEF Logged, LogTypes

LEMMA LinesTyped ==
  /\ \A lines \in ConnectionLines : lines \in Seq(Directions)
  /\ <<"received">> \in Seq(Directions) /\ <<"sent">> \in Seq(Directions) /\ <<>> \in Seq(Directions)
BY DEF ConnectionLines, Directions

LEMMA DashboardTypesStep == DashboardTypes /\ [InstrumentsNext]_instrumentVars => DashboardTypes'
<1> SUFFICES ASSUME DashboardTypes, [InstrumentsNext]_instrumentVars PROVE DashboardTypes'
  OBVIOUS
<1>0. /\ GaugeInv /\ PanelTypes /\ LogTypes
      /\ past \in Seq(Readings) /\ Len(past) <= HistorySize
      /\ drawn \in Seq(Readings) /\ Len(drawn) <= HistorySize
  BY DEF DashboardTypes, GaugeTypes
<1>1. GaugeInv'
  BY <1>0, GaugeStep
\* What a step leaves alone, and what every render draws
<1>2. ASSUME UNCHANGED past, drawn' \in {drawn, past} PROVE GaugeTypes'
  BY <1>0, <1>1, <1>2 DEF GaugeTypes
<1>3. ASSUME UNCHANGED panelVars PROVE PanelTypes'
  BY <1>0, <1>3 DEF panelVars, PanelTypes
<1>4. ASSUME UNCHANGED log PROVE LogTypes'
  BY <1>0, <1>4 DEF LogTypes
<1>5. CASE AfterRender
  <2>1. reading \in Readings
    BY <1>0, <1>5 DEF AfterRender, GaugeInv
  <2>2. HistorySize \in Nat /\ HistorySize - 1 \in Nat
    BY InstrumentsAssumption
  <2> DEFINE kept == Recent(past, HistorySize - 1)
  <2>3. kept \in Seq(Readings) /\ Len(kept) <= HistorySize - 1
    BY <1>0, <2>2, RecentTyped
  <2>4. past' = Append(kept, reading) /\ drawn' = drawn
    BY <1>5 DEF AfterRender
  <2> HIDE DEF kept
  <2>5. Append(kept, reading) \in Seq(Readings) /\ Len(Append(kept, reading)) = Len(kept) + 1
    BY <2>1, <2>3
  <2>6. past' \in Seq(Readings) /\ Len(past') <= HistorySize
    BY <2>2, <2>3, <2>4, <2>5
  <2>7. GaugeTypes'
    BY <1>0, <1>1, <2>4, <2>6 DEF GaugeTypes
  <2> QED BY <1>3, <1>4, <1>5, <2>7 DEF AfterRender, DashboardTypes
<1>6. CASE ResetRange
  BY <1>2, <1>3, <1>4, <1>6 DEF ResetRange, DashboardTypes
<1>7. CASE Escape
  <2>1. PanelTypes'
    BY <1>0, <1>7 DEF Escape, PanelTypes
  <2> QED BY <1>2, <1>4, <1>7, <2>1 DEF Escape, Redraw, DashboardTypes
<1>8. CASE ToggleConsole
  <2>1. PanelTypes'
    BY <1>0, <1>8 DEF ToggleConsole, PanelTypes
  <2> QED BY <1>2, <1>4, <1>8, <2>1 DEF ToggleConsole, Redraw, DashboardTypes
<1>9. CASE ClearLog
  <2>1. LogTypes'
    BY <1>9, LinesTyped, InstrumentsAssumption DEF ClearLog, LogTypes
  <2> QED BY <1>2, <1>3, <1>9, <2>1 DEF ClearLog, Redraw, DashboardTypes
<1>10. ASSUME NEW v \in Readings, NEW again \in BOOLEAN, ShowReading(v, again)
       PROVE  DashboardTypes'
  <2>1. LogTypes'
    BY <1>0, <1>4, <1>10, LoggedTyped, LinesTyped DEF ShowReading
  <2> QED BY <1>2, <1>3, <1>10, <2>1 DEF ShowReading, Redraw, DashboardTypes
<1>11. ASSUME NEW g \in ShownGauges, ToggleGauge(g) PROVE DashboardTypes'
  <2>1. PanelTypes'
    BY <1>0, <1>11 DEF ToggleGauge, PanelTypes
  <2> QED BY <1>2, <1>4, <1>11, <2>1 DEF ToggleGauge, Redraw, DashboardTypes
<1>12. ASSUME NEW lines \in ConnectionLines, LogLine(lines) PROVE DashboardTypes'
  <2>1. LogTypes'
    BY <1>0, <1>12, LoggedTyped, LinesTyped DEF LogLine
  <2> QED BY <1>2, <1>3, <1>12, <2>1 DEF LogLine, Redraw, DashboardTypes
<1>13. ASSUME NEW i \in Intervals, ChooseInterval(i) PROVE DashboardTypes'
  <2>1. LogTypes'
    BY <1>0, <1>13, LoggedTyped, LinesTyped DEF ChooseInterval
  <2>2. PanelTypes'
    BY <1>0, <1>13 DEF ChooseInterval, PanelTypes
  <2> QED BY <1>2, <1>13, <2>1, <2>2 DEF ChooseInterval, Redraw, DashboardTypes
<1>14. CASE UNCHANGED instrumentVars
  BY <1>2, <1>3, <1>4, <1>14 DEF instrumentVars, gaugeVars, DashboardTypes
<1> QED BY <1>5, <1>6, <1>7, <1>8, <1>9, <1>10, <1>11, <1>12, <1>13, <1>14 DEF InstrumentsNext

LEMMA InstrumentsTyped == InstrumentsSpec => []InstrumentsTypeOK
<1>1. InstrumentsInit => DashboardTypes
  <2> SUFFICES ASSUME InstrumentsInit PROVE DashboardTypes
    OBVIOUS
  <2>1. \A S : <<>> \in Seq(S) /\ Len(<<>>) = 0
    OBVIOUS
  <2>a. GaugeInv
    BY DEF InstrumentsInit, GaugeInv
  <2>b. past \in Seq(Readings) /\ Len(past) = 0 /\ drawn \in Seq(Readings) /\ Len(drawn) = 0
    BY <2>1 DEF InstrumentsInit
  <2>2. GaugeTypes
    BY <2>a, <2>b, InstrumentsAssumption DEF GaugeTypes
  <2>3. PanelTypes
    BY Zenon DEF InstrumentsInit, PanelTypes
  <2>4. LogTypes
    BY <2>1, InstrumentsAssumption DEF InstrumentsInit, LogTypes
  <2> QED BY <2>2, <2>3, <2>4 DEF DashboardTypes
<1>2. DashboardTypes => InstrumentsTypeOK
  BY DEF DashboardTypes, GaugeTypes, GaugeInv, PanelTypes, LogTypes, InstrumentsTypeOK, Sparks
<1> QED BY <1>1, <1>2, DashboardTypesStep, PTL DEF InstrumentsSpec

-----------------------------------------------------------------------------
(* The types of the theme.                                                 *)

LEMMA ThemeTypesStep == ThemeTypeOK /\ [ThemeNext]_themeVars => ThemeTypeOK'
<1> SUFFICES ASSUME ThemeTypeOK, [ThemeNext]_themeVars PROVE ThemeTypeOK'
  OBVIOUS
<1> USE ThemeAssumption DEF ThemeTypeOK
<1>1. ASSUME NEW p \in Providers, MountTheme(p) PROVE ThemeTypeOK'
  BY <1>1 DEF MountTheme
<1>2. ASSUME NEW p \in Providers, FirstEffects(p) PROVE ThemeTypeOK'
  BY <1>2 DEF FirstEffects, StoreUnmounted
<1>3. ASSUME NEW p \in Providers, RenderTheme(p) PROVE ThemeTypeOK'
  <2>1. <<preset[p], override[p]>> \in Presets \X BOOLEAN
    OBVIOUS
  <2> QED BY <1>3, <2>1 DEF RenderTheme
<1>4. ASSUME NEW p \in Providers, StorePreset(p) PROVE ThemeTypeOK'
  BY <1>4 DEF StorePreset
<1>5. ASSUME NEW p \in Providers, NEW name \in Presets, ChoosePreset(p, name) PROVE ThemeTypeOK'
  BY <1>5 DEF ChoosePreset
<1>6. ASSUME NEW p \in Providers, ChangeOverride(p) PROVE ThemeTypeOK'
  BY <1>6 DEF ChangeOverride
<1>7. ASSUME NEW p \in Providers, UnmountTheme(p) PROVE ThemeTypeOK'
  BY <1>7 DEF UnmountTheme
<1>8. CASE UNCHANGED themeVars
  BY <1>8 DEF themeVars
<1> QED BY <1>1, <1>2, <1>3, <1>4, <1>5, <1>6, <1>7, <1>8 DEF ThemeNext

LEMMA ThemeTyped == ThemeSpec => []ThemeTypeOK
<1>1. ThemeInit => ThemeTypeOK
  <2> SUFFICES ASSUME ThemeInit PROVE ThemeTypeOK
    OBVIOUS
  <2>1. <<"terminal", FALSE>> \in Presets \X BOOLEAN
    BY ThemeAssumption
  <2>2. resolved \in [Providers -> Presets \X BOOLEAN]
    BY <2>1, Zenon DEF ThemeInit
  <2>3. stage \in [Providers -> {"away", "first", "mounted", "rendered", "settled"}]
    BY DEF ThemeInit
  <2> QED BY <2>2, <2>3, ThemeAssumption DEF ThemeInit, ThemeTypeOK
<1> QED BY <1>1, ThemeTypesStep, PTL DEF ThemeSpec

-----------------------------------------------------------------------------
(* Disk maps: sums over segments.                                          *)

\* r is made by the steps of St, from 0.
Made(r, St, N) == r[0] = 0 /\ \A i \in 1..N : r[i] = St[<<i, r[i - 1]>>]

\* Whatever the steps are, there is such a function.
LEMMA MadeExists ==
  ASSUME NEW N \in Nat, NEW V, 0 \in V, NEW St \in [(1..N) \X V -> V]
  PROVE  \E r \in [0..N -> V] : Made(r, St, N)
<1> DEFINE S == {n \in 0..N : \E r \in [0..n -> V] : Made(r, St, n)}
<1>1. 0 \in S
  <2>1. [i \in 0..0 |-> 0] \in [0..0 -> V] /\ Made([i \in 0..0 |-> 0], St, 0)
    BY DEF Made
  <2> QED BY <2>1
<1>2. ASSUME NEW x \in 1..N, x - 1 \in S PROVE x \in S
  <2>1. PICK q \in [0..(x - 1) -> V] : Made(q, St, x - 1)
    BY <1>2
  <2> DEFINE r == [i \in 0..x |-> IF i = x THEN St[<<x, q[x - 1]>>] ELSE q[i]]
  <2>2. q[x - 1] \in V /\ St[<<x, q[x - 1]>>] \in V
    BY <2>1
  <2>3. r \in [0..x -> V]
    <3>1. \A i \in 0..x : i # x => i \in 0..(x - 1)
      OBVIOUS
    <3> QED BY <2>1, <2>2, <3>1
  <2>4. r[0] = 0
    BY <2>1 DEF Made
  <2>5. r[x] = St[<<x, r[x - 1]>>]
    <3>1. x - 1 \in 0..x /\ x \in 0..x /\ x - 1 # x
      OBVIOUS
    <3> QED BY <3>1
  <2>6. ASSUME NEW i \in 1..(x - 1) PROVE r[i] = St[<<i, r[i - 1]>>]
    <3>1. r[i] = q[i] /\ r[i - 1] = q[i - 1]
      OBVIOUS
    <3> QED BY <2>1, <3>1 DEF Made
  <2>7. \A i \in 1..x : i = x \/ i \in 1..(x - 1)
    OBVIOUS
  <2> HIDE DEF r
  <2>8. Made(r, St, x)
    BY <2>4, <2>5, <2>6, <2>7 DEF Made
  <2> QED BY <2>3, <2>8
<1> HIDE DEF S
<1>3. \A i \in 0..N : i \in S
  BY <1>1, <1>2, UpTo
<1>4. N \in S
  BY <1>3
<1> QED BY <1>4 DEF S

\* SumOf is the last value of any function that sums up.
LEMMA SumOfIs ==
  ASSUME NEW s \in Seq(Nat), NEW r \in [0..Len(s) -> Nat],
         r[0] = 0, \A i \in 1..Len(s) : r[i] = r[i - 1] + s[i]
  PROVE  SumOf(s) = r[Len(s)]
<1> DEFINE N == Len(s)
           IsSum(f) == f = [i \in 0..N |-> IF i = 0 THEN 0 ELSE f[i - 1] + s[i]]
           c == CHOOSE f : IsSum(f)
<1>1. N \in Nat
  OBVIOUS
<1>2. IsSum(r)
  <2>1. \A i \in 0..N : r[i] = IF i = 0 THEN 0 ELSE r[i - 1] + s[i]
    OBVIOUS
  <2> QED BY <2>1
<1>3. IsSum(c)
  BY <1>2
<1>4. SumOf(s) = c[N]
  BY DEF SumOf
<1> HIDE DEF c, N
<1>5. \A i \in 0..N : c[i] = IF i = 0 THEN 0 ELSE c[i - 1] + s[i]
  BY <1>3
<1>6. \A i \in 0..N : r[i] = IF i = 0 THEN 0 ELSE r[i - 1] + s[i]
  BY <1>2
<1>7. c[0] = r[0] /\ \A i \in 1..N : c[i - 1] = r[i - 1] => c[i] = r[i]
  BY <1>1, <1>5, <1>6
<1>8. \A i \in 0..N : c[i] = r[i]
  <2> DEFINE S == {i \in 0..N : c[i] = r[i]}
  <2>1. 0 \in S /\ \A i \in 1..N : i - 1 \in S => i \in S
    BY <1>1, <1>7
  <2> HIDE DEF S
  <2>2. \A i \in 0..N : i \in S
    BY <1>1, <2>1, UpTo
  <2> QED BY <2>2 DEF S
<1>9. c[N] = r[N]
  BY <1>1, <1>8
<1> QED BY <1>4, <1>9 DEF N

\* There is one.
LEMMA SumExists ==
  ASSUME NEW s \in Seq(Nat)
  PROVE  \E r \in [0..Len(s) -> Nat] : r[0] = 0 /\ \A i \in 1..Len(s) : r[i] = r[i - 1] + s[i]
<1> DEFINE N == Len(s)
           St == [p \in (1..N) \X Nat |-> p[2] + s[p[1]]]
<1>1. N \in Nat /\ \A i \in 1..N : s[i] \in Nat
  OBVIOUS
<1>2. St \in [(1..N) \X Nat -> Nat] /\ \A i \in 1..N, k \in Nat : St[<<i, k>>] = k + s[i]
  BY <1>1
<1> HIDE DEF N, St
<1>3. PICK r \in [0..N -> Nat] : Made(r, St, N)
  BY <1>1, <1>2, MadeExists
<1>4. \A i \in 1..N : r[i - 1] \in Nat
  BY <1>1, <1>3
<1>5. r[0] = 0 /\ \A i \in 1..N : r[i] = r[i - 1] + s[i]
  BY <1>2, <1>3, <1>4 DEF Made
<1> QED BY <1>3, <1>5 DEF N

LEMMA SumOfAppend ==
  ASSUME NEW s \in Seq(Nat), NEW x \in Nat
  PROVE  SumOf(s) \in Nat /\ SumOf(Append(s, x)) = SumOf(s) + x
<1> DEFINE N == Len(s)
           t == Append(s, x)
<1>1. PICK r \in [0..N -> Nat] : r[0] = 0 /\ \A i \in 1..N : r[i] = r[i - 1] + s[i]
  BY SumExists
<1>2. N \in Nat /\ t \in Seq(Nat) /\ Len(t) = N + 1 /\ t[N + 1] = x /\ \A i \in 1..N : t[i] = s[i]
  OBVIOUS
<1>3. SumOf(s) = r[N] /\ r[N] \in Nat
  BY <1>1, <1>2, SumOfIs
<1> DEFINE q == [i \in 0..(N + 1) |-> IF i = N + 1 THEN r[N] + x ELSE r[i]]
<1> HIDE DEF t, N
<1>4. \A i \in 0..(N + 1) : i # N + 1 => i \in 0..N
  BY <1>2
<1>5. q \in [0..(N + 1) -> Nat] /\ q[0] = 0 /\ q[N + 1] = r[N] + x
  BY <1>1, <1>2, <1>3, <1>4
<1>6. \A i \in 1..(N + 1) : q[i] = q[i - 1] + t[i]
  BY <1>1, <1>2, <1>4
<1> HIDE DEF q
<1>7. SumOf(t) = q[N + 1]
  BY <1>2, <1>5, <1>6, SumOfIs
<1> QED BY <1>3, <1>5, <1>7 DEF t

\* The bytes of all segments
LEMMA SegmentsSum ==
  ASSUME NEW d \in Disks
  PROVE  /\ Segments(d) \in Seq(Nat)
         /\ SumOf(Segments(d)) = SumOf(d.given) + OtherBytes(d.total, d.free, SumOf(d.given)) + d.free
         /\ SumOf(d.given) \in Nat
<1> DEFINE given == d.given
           free == d.free
           other == OtherBytes(d.total, free, SumOf(given))
<1>1. given \in Seq(Nat) /\ free \in Nat /\ d.total \in Nat
  BY SceneAssumption
<1>2. SumOf(given) \in Nat
  BY <1>1, SumOfAppend
<1>3. other \in Nat
  BY <1>1, <1>2 DEF OtherBytes
<1>4. Segments(d) = given \o (IF other > 0 THEN <<other>> ELSE <<>>) \o <<free>>
  BY DEF Segments
<1> HIDE DEF given, free, other
<1>5. CASE other > 0
  <2>1. Segments(d) = Append(Append(given, other), free)
    <3>1. Segments(d) = given \o <<other>> \o <<free>>
      BY <1>4, <1>5
    <3>2. \A s \in Seq(Nat), x \in Nat : s \o <<x>> = Append(s, x) /\ Append(s, x) \in Seq(Nat)
      OBVIOUS
    <3> QED BY <1>1, <1>3, <3>1, <3>2
  <2>2. Append(given, other) \in Seq(Nat) /\ SumOf(Append(given, other)) = SumOf(given) + other
    BY <1>1, <1>3, SumOfAppend
  <2>3. SumOf(Append(Append(given, other), free)) = SumOf(Append(given, other)) + free
    BY <1>1, <2>2, SumOfAppend
  <2> QED BY <1>1, <1>2, <2>1, <2>2, <2>3 DEF given, free, other
<1>6. CASE ~(other > 0)
  <2>1. Segments(d) = Append(given, free) /\ other = 0
    <3>1. Segments(d) = given \o <<>> \o <<free>> /\ other = 0
      BY <1>3, <1>4, <1>6
    <3> QED BY <1>1, <3>1
  <2>2. SumOf(Append(given, free)) = SumOf(given) + free
    BY <1>1, SumOfAppend
  <2>3. Segments(d) \in Seq(Nat)
    BY <1>1, <2>1
  <2> QED BY <1>1, <1>2, <2>1, <2>2, <2>3 DEF given, free, other
<1> QED BY <1>5, <1>6

LEMMA ShareOfAll ==
  ASSUME NEW a \in Nat, NEW t \in Nat \ {0}, a <= t
  PROVE  (100 * a) \div t \in 0..100
<1>1. (100 * a) \div t \in Nat /\ ((100 * a) \div t) * t <= 100 * a
  BY Rounded
<1> DEFINE q == (100 * a) \div t
<1> HIDE DEF q
<1>2. ASSUME q > 100 PROVE FALSE
  <2>1. q >= 101 /\ q \in Nat
    BY <1>1, <1>2 DEF q
  <2>2. q * t >= 101 * t
    BY <2>1
  <2> QED BY <1>1, <2>1, <2>2 DEF q
<1> QED BY <1>1, <1>2 DEF q

\* The ring closes, and the rows add up.
LEMMA RingCloses ==
  ASSUME NEW d \in Disks, SumOf(d.given) <= d.total - d.free
  PROVE  /\ RingStart(d, Len(Segments(d)) + 1) = d.total /\ RingUsed(d) \in 0..100
         /\ SumOf(Legend(d).rows) = Legend(d).under
<1>1. d.free \in Nat /\ d.total \in Nat
  BY SceneAssumption
<1>2. /\ Segments(d) \in Seq(Nat) /\ SumOf(d.given) \in Nat
      /\ SumOf(Segments(d)) = SumOf(d.given) + OtherBytes(d.total, d.free, SumOf(d.given)) + d.free
  BY SegmentsSum
<1>3. SumOf(Segments(d)) = d.total
  BY <1>1, <1>2 DEF OtherBytes
<1>4. SubSeq(Segments(d), 1, (Len(Segments(d)) + 1) - 1) = Segments(d)
  BY <1>2
<1>5. RingUsed(d) \in 0..100
  <2>1. CASE d.total = 0
    BY <2>1 DEF RingUsed
  <2>2. CASE d.total # 0
    <3>1. d.total - d.free \in Nat /\ d.total - d.free <= d.total
      BY <1>1, <1>2
    <3>2. (100 * (d.total - d.free)) \div d.total \in 0..100
      BY <1>1, <2>2, <3>1, ShareOfAll
    <3> QED BY <2>2, <3>2 DEF RingUsed
  <2> QED BY <2>1, <2>2
<1> QED BY <1>3, <1>4, <1>5 DEF RingStart, Legend

\* The cells of a segment before any limit
LEMMA WishTyped ==
  ASSUME NEW d \in Disks, NEW bytes \in Nat
  PROVE  (IF d.total = 0 THEN 0 ELSE (2 * bytes * Cells + d.total) \div (2 * d.total)) \in Nat
<1>1. d.total \in Nat /\ Cells \in Nat
  BY SceneAssumption
<1>2. 2 * bytes * Cells + d.total \in Nat
  BY <1>1
<1>3. ASSUME d.total # 0 PROVE (2 * bytes * Cells + d.total) \div (2 * d.total) \in Nat
  <2>1. 2 * d.total \in Nat \ {0}
    BY <1>1, <1>3
  <2> DEFINE a == 2 * bytes * Cells + d.total
             e == 2 * d.total
  <2>2. a \in Nat /\ e \in Nat \ {0}
    BY <1>2, <2>1
  <2> HIDE DEF a, e
  <2>3. a \div e \in Nat
    BY <2>2, Rounded
  <2> QED BY <2>3 DEF a, e
<1> QED BY <1>3

\* However the cells are rounded, the segments have no more than there are.
LEMMA CellsFit ==
  ASSUME NEW d \in Disks
  PROVE  /\ SumOf(MatrixCells(d)) <= Cells
         /\ DOMAIN MatrixCells(d) = DOMAIN Segments(d)
<1> DEFINE segs == Segments(d)
           N == Len(segs)
           wish(i) == IF d.total = 0 THEN 0 ELSE (2 * segs[i] * Cells + d.total) \div (2 * d.total)
           IsUpto(f) == f = [i \in 0..N |-> IF i = 0 THEN 0
                                           ELSE IF f[i - 1] + wish(i) > Cells THEN Cells
                                                ELSE f[i - 1] + wish(i)]
           c == CHOOSE f : IsUpto(f)
           V == 0..Cells
           St == [p \in (1..N) \X V |-> IF p[2] + wish(p[1]) > Cells THEN Cells ELSE p[2] + wish(p[1])]
<1>1. segs \in Seq(Nat) /\ Cells \in Nat
  BY SegmentsSum, SceneAssumption
<1>2. N \in Nat /\ DOMAIN segs = 1..N /\ \A i \in 1..N : segs[i] \in Nat
  BY <1>1
<1>3. MatrixCells(d) = [i \in DOMAIN segs |-> c[i] - c[i - 1]]
  BY DEF MatrixCells
<1>4. \A i \in 1..N : wish(i) \in Nat
  BY <1>2, WishTyped
<1> HIDE DEF segs, N, wish
<1>5. /\ 0 \in V /\ St \in [(1..N) \X V -> V]
      /\ \A i \in 1..N, k \in V :
           St[<<i, k>>] = IF k + wish(i) > Cells THEN Cells ELSE k + wish(i)
  <2>1. \A i \in 1..N, k \in V : (IF k + wish(i) > Cells THEN Cells ELSE k + wish(i)) \in V
    BY <1>1, <1>4
  <2> QED BY <1>1, <2>1
<1> HIDE DEF St
<1>6. IsUpto(c)
  <2>1. PICK w \in [0..N -> V] : Made(w, St, N)
    BY <1>2, <1>5, MadeExists
  <2>2. ASSUME NEW i \in 0..N
        PROVE  w[i] = IF i = 0 THEN 0
                      ELSE IF w[i - 1] + wish(i) > Cells THEN Cells ELSE w[i - 1] + wish(i)
    <3>1. CASE i = 0
      BY <2>1, <3>1 DEF Made
    <3>2. CASE i # 0
      <4>1. i \in 1..N /\ i - 1 \in 0..N
        BY <1>2, <3>2
      <4>2. w[i - 1] \in V /\ w[i] = St[<<i, w[i - 1]>>]
        BY <2>1, <4>1 DEF Made
      <4> QED BY <1>5, <3>2, <4>1, <4>2
    <3> QED BY <3>1, <3>2
  <2>3. IsUpto(w)
    BY <2>1, <2>2
  <2> QED BY <2>3
<1> HIDE DEF c
<1>7. \A i \in 0..N : c[i] = IF i = 0 THEN 0
                             ELSE IF c[i - 1] + wish(i) > Cells THEN Cells ELSE c[i - 1] + wish(i)
  BY <1>6
<1> DEFINE S == {i \in 0..N : c[i] \in V /\ (i # 0 => c[i - 1] <= c[i])}
<1>8. 0 \in S
  BY <1>1, <1>2, <1>7
<1>9. ASSUME NEW i \in 1..N, i - 1 \in S PROVE i \in S
  <2>1. i \in 0..N /\ i # 0 /\ c[i - 1] \in V
    BY <1>2, <1>9
  <2>2. c[i] = IF c[i - 1] + wish(i) > Cells THEN Cells ELSE c[i - 1] + wish(i)
    BY <1>7, <2>1
  <2>3. c[i] \in V /\ c[i - 1] <= c[i]
    BY <1>1, <1>4, <2>1, <2>2
  <2> QED BY <2>1, <2>3
<1> HIDE DEF S
<1>10. \A i \in 0..N : i \in S
  BY <1>2, <1>8, <1>9, UpTo
<1>11. \A i \in 0..N : c[i] \in V /\ (i # 0 => c[i - 1] <= c[i])
  BY <1>10 DEF S
<1> DEFINE cells == [i \in 1..N |-> c[i] - c[i - 1]]
           r == [i \in 0..N |-> c[i]]
<1>12. \A i \in 1..N : i \in 0..N /\ i - 1 \in 0..N /\ i # 0
  BY <1>2
<1>13. \A i \in 1..N : c[i] - c[i - 1] \in Nat
  BY <1>1, <1>11, <1>12
<1>14. cells \in Seq(Nat) /\ Len(cells) = N
  BY <1>2, <1>13
<1>15. r \in [0..N -> Nat] /\ r[0] = 0
  BY <1>1, <1>2, <1>7, <1>11
<1>16. \A i \in 1..N : r[i] = r[i - 1] + cells[i]
  BY <1>1, <1>11, <1>12
<1>17. r[N] <= Cells
  BY <1>1, <1>2, <1>11
<1> HIDE DEF cells, r
<1>18. SumOf(cells) = r[N]
  BY <1>14, <1>15, <1>16, SumOfIs
<1>19. MatrixCells(d) = cells
  BY <1>2, <1>3 DEF cells
<1>20. DOMAIN cells = 1..N
  BY DEF cells
<1> QED BY <1>2, <1>17, <1>18, <1>19, <1>20 DEF segs

\* The charts of a disk and its legend fit together, for all disks, segments
\* and sizes of the matrix.
THEOREM EveryDisk == DisksDrawn
<1> SUFFICES ASSUME NEW d \in Disks
             PROVE  /\ SumOf(MatrixCells(d)) <= Cells
                    /\ \A k \in {"ring", "matrix"} :
                         DOMAIN DiskDrawn(d, k).parts = DOMAIN DiskDrawn(d, k).legend.rows
                    /\ SumOf(d.given) <= d.total - d.free =>
                         /\ RingStart(d, Len(Segments(d)) + 1) = d.total /\ RingUsed(d) \in 0..100
                         /\ SumOf(Legend(d).rows) = Legend(d).under
  BY DEF DisksDrawn
<1>1. \A k \in {"ring", "matrix"} :
        DOMAIN DiskDrawn(d, k).parts = DOMAIN DiskDrawn(d, k).legend.rows
  BY CellsFit DEF DiskDrawn, Legend
<1> QED BY <1>1, CellsFit, RingCloses

-----------------------------------------------------------------------------
(* The types of the scene.                                                 *)

\* The last n of a sequence are n or fewer.
LEMMA LastOfShort ==
  ASSUME NEW S, NEW s \in Seq(S), NEW n \in Nat
  PROVE  LastOf(s, n) \in Seq(S) /\ Len(LastOf(s, n)) <= n
<1> DEFINE k == IF Len(s) > n THEN Len(s) - n ELSE 0
<1>1. k \in Nat /\ k <= Len(s) /\ Len(s) \in Nat /\ Len(s) - k <= n
  OBVIOUS
<1>2. LastOf(s, n) = SubSeq(s, k + 1, Len(s))
  BY DEF LastOf
<1> HIDE DEF k
<1>3. SubSeq(s, k + 1, Len(s)) \in Seq(S) /\ Len(SubSeq(s, k + 1, Len(s))) = Len(s) - k
  BY <1>1
<1> QED BY <1>1, <1>2, <1>3

\* Inductive with the range of the bars: an effect that is due for a sample has one.
SceneTypes ==
  /\ BarsInv
  /\ task = "sample" => value \in Heights
  /\ inline \in BOOLEAN
  /\ task \in {"none", "sample", "again"}
  /\ scene \in {"absent", "asked", "drawn"} /\ loops \in 0..MaxLoops
  /\ paused \in BOOLEAN
  /\ Len(bars) <= HistoryDepth
  /\ overlay \in [val : Heights \cup {NoHeight}, min : Heights \cup {NoHeight},
                  max : Heights \cup {NoHeight}]
  /\ spark \in Seq(Heights) /\ Len(spark) <= MaxSamplesOf

LEMMA SceneTypesStep == SceneTypes /\ [SceneNext]_sceneVars => SceneTypes'
<1>0. SUFFICES ASSUME SceneTypes, [SceneNext]_sceneVars PROVE SceneTypes'
  OBVIOUS
<1>1. BarsInv'
  BY <1>0, BarsStep DEF SceneTypes
<1>2. HistoryDepth \in Nat /\ HistoryDepth - 1 \in Nat /\ MaxSamplesOf \in Nat /\ MaxLoops \in Nat
  BY SceneAssumption
<1>3. CASE SceneReady
  BY <1>0, <1>1, <1>3, Zenon DEF SceneReady, session3D, SceneTypes
<1>4. CASE FirstFrame
  BY <1>0, <1>1, <1>4, Zenon DEF FirstFrame, session3D, SceneTypes
<1>5. CASE RunSceneEffects
  <2>1. spark' \in Seq(Heights) /\ Len(spark') <= MaxSamplesOf
    <3>1. CASE task = "sample"
      <4>1. Append(spark, value) \in Seq(Heights)
        BY <1>0, <3>1 DEF SceneTypes
      <4>2. spark' = LastOf(Append(spark, value), MaxSamplesOf)
        BY <1>5, <3>1 DEF RunSceneEffects
      <4> QED BY <1>2, <4>1, <4>2, LastOfShort
    <3>2. CASE task # "sample"
      BY <1>0, <1>5, <3>2 DEF RunSceneEffects, SceneTypes
    <3> QED BY <3>1, <3>2
  <2>2. task' \in {"none", "again"}
    BY <1>5, Zenon DEF RunSceneEffects
  <2>3. /\ Len(bars') <= HistoryDepth
        /\ overlay' \in [val : Heights \cup {NoHeight}, min : Heights \cup {NoHeight},
                         max : Heights \cup {NoHeight}]
    <3>1. CASE value = NoHeight \/ scene = "absent" \/ paused
      BY <1>0, <1>5, <3>1, Zenon DEF RunSceneEffects, session3D, SceneTypes
    <3>2. CASE ~(value = NoHeight \/ scene = "absent" \/ paused)
      <4>1. Step
        BY <1>5, <3>2 DEF RunSceneEffects
      <4>2. value \in Heights /\ bars \in Seq(Heights)
        BY <1>0, <3>2 DEF SceneTypes, BarsInv
      <4> DEFINE kept == LastOf(bars, HistoryDepth - 1)
      <4>3. kept \in Seq(Heights) /\ Len(kept) <= HistoryDepth - 1
        BY <1>2, <4>2, LastOfShort
      <4>4. bars' = Append(kept, value) /\ overlay' = [val |-> value, min |-> floor', max |-> ceiling']
        BY <4>1 DEF Step
      <4> HIDE DEF kept
      <4>5. Len(bars') = Len(kept) + 1
        BY <4>2, <4>3, <4>4
      <4>6. floor' \in Heights \cup {NoHeight} /\ ceiling' \in Heights \cup {NoHeight}
        BY <1>1 DEF BarsInv
      <4> QED BY <1>2, <4>2, <4>3, <4>4, <4>5, <4>6
    <3> QED BY <3>1, <3>2
  <2> QED BY <1>0, <1>1, <1>5, <2>1, <2>2, <2>3 DEF RunSceneEffects, SceneTypes
<1>6. CASE TogglePause
  <2>1. task' \in {"none", "again"} /\ paused' \in BOOLEAN
    BY <1>0, <1>6, Zenon DEF TogglePause, Rendered, SceneTypes
  <2> QED BY <1>0, <1>1, <1>6, <2>1, Zenon DEF TogglePause, session3D, SceneTypes
<1>7. CASE Rebuild
  <2>1. loops' \in 0..MaxLoops
    BY <1>0, <1>2, <1>7 DEF Rebuild, SceneTypes
  <2> QED BY <1>0, <1>1, <1>7, <2>1, Zenon DEF Rebuild, session3D, SceneTypes
<1>8. ASSUME NEW v \in Heights, NewHeight(v) PROVE SceneTypes'
  BY <1>0, <1>1, <1>8, Zenon DEF NewHeight, session3D, SceneTypes
<1>9. CASE UNCHANGED sceneVars
  BY <1>0, <1>1, <1>9, Zenon DEF sceneVars, SceneTypes
<1> QED BY <1>0, <1>3, <1>4, <1>5, <1>6, <1>7, <1>8, <1>9 DEF SceneNext

LEMMA SceneTyped == SceneSpec => []SceneTypeOK
<1>1. SceneInit => SceneTypes
  <2>1. SUFFICES ASSUME SceneInit PROVE SceneTypes
    OBVIOUS
  <2>2. <<>> \in Seq(Heights) /\ Len(<<>>) = 0
    OBVIOUS
  <2>3. BarsInv
    BY <2>1, <2>2 DEF SceneInit, BarsInv, RangeHolds
  <2>4. inline \in BOOLEAN /\ paused \in BOOLEAN
    BY <2>1, Zenon DEF SceneInit
  <2>5. overlay \in [val : Heights \cup {NoHeight}, min : Heights \cup {NoHeight},
                     max : Heights \cup {NoHeight}]
    BY <2>1 DEF SceneInit, NoOverlay
  <2> QED BY <2>1, <2>2, <2>3, <2>4, <2>5, SceneAssumption DEF SceneInit, SceneTypes
<1>2. SceneTypes => SceneTypeOK
  BY EveryDisk, Zenon DEF SceneTypes, BarsInv, SceneTypeOK
<1> QED BY <1>1, <1>2, SceneTypesStep, PTL DEF SceneSpec

-----------------------------------------------------------------------------
(* The parts together.                                                     *)

LEMMA PartsBegin ==
  SystemInit => /\ Init /\ ClientInit /\ SessionInit /\ ChartsInit /\ AlertInit /\ InstrumentsInit /\ SceneInit
                /\ ThemeInit /\ WireInit /\ CollectorInit /\ LoopInit
                /\ part \in Parts
BY Zenon DEF SystemInit

\* A step of the system is a step of each part, or leaves it alone.
LEMMA PartsStep ==
  [SystemNext]_systemVars =>
    /\ [Next]_vars /\ [ClientNext]_clientVars /\ [SessionNext]_sessionVars /\ [ChartsNext]_chartsVars
    /\ [AlertNext]_alertVars /\ [InstrumentsNext]_instrumentVars /\ [SceneNext]_sceneVars
    /\ [ThemeNext]_themeVars /\ [WireNext]_wireVars /\ [CollectorNext]_collectorVars
    /\ [LoopNext]_loopVars
    /\ UNCHANGED part
<1> SUFFICES ASSUME [SystemNext]_systemVars
             PROVE  /\ [Next]_vars /\ [ClientNext]_clientVars /\ [SessionNext]_sessionVars /\ [ChartsNext]_chartsVars
                    /\ [AlertNext]_alertVars /\ [InstrumentsNext]_instrumentVars
                    /\ [SceneNext]_sceneVars /\ [ThemeNext]_themeVars /\ [WireNext]_wireVars
                    /\ [CollectorNext]_collectorVars /\ [LoopNext]_loopVars
                    /\ UNCHANGED part
  OBVIOUS
<1>1. CASE ClientMoves
  BY <1>1, Zenon DEF ClientMoves
<1>2. CASE SessionMoves
  BY <1>2, Zenon DEF SessionMoves
<1>3. CASE ChartsMoves
  BY <1>3, Zenon DEF ChartsMoves
<1>4. CASE AlertsMoves
  BY <1>4, Zenon DEF AlertsMoves
<1>5. CASE InstrumentsMoves
  BY <1>5, Zenon DEF InstrumentsMoves
<1>6. CASE SceneMoves
  BY <1>6, Zenon DEF SceneMoves
<1>7. CASE ThemeMoves
  BY <1>7, Zenon DEF ThemeMoves
<1>8. CASE WireMoves
  BY <1>8, Zenon DEF WireMoves
<1>9. CASE CollectorMoves
  BY <1>9, Zenon DEF CollectorMoves
<1>10. CASE LoopMoves
  BY <1>10, Zenon DEF LoopMoves
<1>11. CASE UNCHANGED systemVars
  BY <1>11, Zenon DEF systemVars
<1>12. CASE RingMoves
  BY <1>12, Zenon DEF RingMoves
<1> QED
  BY <1>1, <1>2, <1>3, <1>4, <1>5, <1>6, <1>7, <1>8, <1>9, <1>10, <1>11, <1>12
  DEF SystemNext

\* Put side by side, each part behaves as it is specified: what is proved of one
\* alone holds in the system.
THEOREM PartsBehave ==
  SystemSpec => /\ Spec /\ ClientSpec /\ SessionSpec /\ ChartsSpec /\ AlertSpec /\ InstrumentsSpec
                /\ SceneSpec /\ ThemeSpec /\ WireSpec /\ CollectorSpec /\ LoopSpec
BY PartsBegin, PartsStep, PTL
DEF SystemSpec, Spec, ClientSpec, SessionSpec, ChartsSpec, AlertSpec, InstrumentsSpec, SceneSpec,
    ThemeSpec, WireSpec, CollectorSpec, LoopSpec

\* For all values of the constants, the types of every part in every step of
\* the system, and the figures that have no state.
THEOREM SystemTyped == SystemSpec => []SystemTypeOK
<1>1. SystemSpec => [](part \in Parts)
  <2>1. part \in Parts /\ [SystemNext]_systemVars => (part \in Parts)'
    BY PartsStep
  <2> QED BY <2>1, PartsBegin, PTL DEF SystemSpec
<1>2. CollectorSpec => []CollectorTypeOK
  <2>1. RateInv => CollectorTypeOK
    BY DEF RateInv
  <2> QED BY <2>1, RateInit, RateStep, PTL DEF CollectorSpec
<1>3. /\ part \in Parts /\ TypeOK /\ ClientTypeOK /\ SessionTypeOK /\ ChartsTypeOK /\ AlertTypeOK
      /\ InstrumentsTypeOK /\ SceneTypeOK /\ ThemeTypeOK /\ WireTypeOK /\ CollectorTypeOK
      /\ LoopTypeOK
      => SystemTypeOK
  BY FiguresHold, Zenon DEF SystemTypeOK
<1> QED
  BY <1>1, <1>2, <1>3, PartsBehave, TypeCorrect, ClientTypes, SessionTypes, ChartsTyped, AlertsTyped,
     InstrumentsTyped, SceneTyped, ThemeTyped, FramesFit, LoopTyped, PTL

\* What is proved of the parts is so of the system: all that the run System
\* checks of it but what must happen sometime.
THEOREM SystemSafe ==
  SystemSpec =>
    /\ []WholeOrBlank
    /\ [](AttemptsWithinCalls /\ NeverStuck)
    /\ [](StreamingShown /\ LevelFollowsLastChart /\ HistoryIsOfSession)
    /\ [](ChartInOrder /\ WindowShowsData)
    /\ [](PopupExplainsLamps /\ BadgeFollowsLastAlert /\ OnePopup /\ ViewsAgree)
    /\ [](GaugeRange /\ BarsInRange /\ SavedPresetSurvives)
    /\ [](FramesAreUnderstood /\ NoByteTwice)
    /\ [](NextDateWithinPeriod /\ TaskNotStarved) /\ SummariesUpToDate
<1>1. ClientSpec => [](AttemptsWithinCalls /\ NeverStuck)
  BY AttemptsBounded, NeverLeftAlone, PTL
<1>2. SessionSpec => [](StreamingShown /\ LevelFollowsLastChart /\ HistoryIsOfSession)
  BY StreamIsShown, LevelIsLastCharts, HistoryOfSession, PTL
<1>3. ChartsSpec => [](ChartInOrder /\ WindowShowsData)
  BY LineInOrder, WindowInData, PTL
<1>4. AlertSpec => [](PopupExplainsLamps /\ BadgeFollowsLastAlert /\ OnePopup /\ ViewsAgree)
  BY LampsAreExplained, BadgeKeepsTime, NeverTwoPopups, ViewsStayAgreed, PTL
<1>5. InstrumentsSpec /\ SceneSpec /\ ThemeSpec => [](GaugeRange /\ BarsInRange /\ SavedPresetSurvives)
  BY RangeHoldsReading, BarsStayInRange, PresetSurvives, PTL
<1>6. WireSpec /\ CollectorSpec => [](FramesAreUnderstood /\ NoByteTwice)
  BY FramesUnderstood, BytesToldOnce, PTL
<1>7. LoopSpec => [](NextDateWithinPeriod /\ TaskNotStarved) /\ SummariesUpToDate
  BY DatesWithinPeriod, TasksNotStarved, SummariesStayUpToDate, PTL
<1> QED BY <1>1, <1>2, <1>3, <1>4, <1>5, <1>6, <1>7, ShortReadsAreWhole, PartsBehave, PTL
=============================================================================
