------------------------------- MODULE Theme -------------------------------
(***************************************************************************)
(* ThemeProvider: several providers, of one page or of several tabs, and   *)
(* the preset that they keep under one key of the local storage.           *)
(*                                                                         *)
(* A provider renders its children without a context, and anew inside one  *)
(* when its effects have run once.  Of the tokens of a theme remain its    *)
(* name, whether an override is in force, and what is done with a colour.  *)
(***************************************************************************)
EXTENDS Integers

CONSTANTS
  Providers,
  Presets,  \* names of THEMES
  Default   \* [Providers -> Presets], the prop preset

Junk == "junk"       \* what another version or program has stored
Nothing == "nothing"

\* THEMES
Themes == {"terminal", "dark", "light", "material", "dracula", "heroui", "shadcnui"}

ASSUME ThemeAssumption ==
  /\ Presets \subseteq Themes
  /\ Default \in [Providers -> Presets]
  /\ Junk \notin Presets /\ Nothing \notin Presets /\ "terminal" \in Presets

\* The bars of the panel are of letters or drawn, as its theme is called.
BarType(theme) ==
  IF theme \in {"shadcnui", "heroui", "dracula", "material"} THEN "normal" ELSE "ascii"

\* A colour is hexadecimal, too short for that, or the name of a variable of CSS:
\* its letters are read as digits then, and may be none.
NoDigit == -1
parseHex(colour) == CASE colour.kind = "hex" -> colour.channels
                      [] colour.kind = "short" -> <<128, 128, 128>>
                      [] OTHER -> <<NoDigit, NoDigit, NoDigit>>

\* The contrast to a colour that can be read
invertColor(colour, light, dark) ==
  LET c == parseHex(colour)
  IN IF 299 * c[1] + 587 * c[2] + 114 * c[3] > 127500 THEN dark ELSE light

\* A colour of which 62 percent are of the background, rounded
dimColor(colour, bg) ==
  LET Mixed(a, b) == IF NoDigit \in {a, b} THEN NoDigit ELSE (38 * a + 62 * b + 50) \div 100
  IN [i \in 1..3 |-> Mixed(parseHex(colour)[i], parseHex(bg)[i])]

VARIABLES
  stored,   \* localStorage.themePreset
  chosen,   \* history: the preset stored at first, and what users have chosen
  blank,    \* history: the providers that have found no preset to read
  stage,    \* away, first render done, mounted but not rendered, rendered, settled
  preset,   \* _preset of each provider
  override, \* the prop theme is given
  resolved  \* the memo that the children see: a preset and whether it is overridden

themeVars == <<stored, chosen, blank, stage, preset, override, resolved>>

ThemeTypeOK ==
  /\ stored \in Presets \cup {Junk, Nothing} /\ chosen \subseteq Presets /\ blank \subseteq Providers
  /\ stage \in [Providers -> {"away", "first", "mounted", "rendered", "settled"}]
  /\ preset \in [Providers -> Presets]
  /\ override \in [Providers -> BOOLEAN]
  /\ resolved \in [Providers -> Presets \X BOOLEAN]

ThemeInit ==
  /\ stored \in Presets \cup {Junk, Nothing} /\ chosen = {stored} \cap Presets
  /\ blank = {}
  /\ stage = [p \in Providers |-> "away"] /\ preset = Default
  /\ override \in [Providers -> BOOLEAN]
  /\ resolved = [p \in Providers |-> <<"terminal", FALSE>>]

\* The first render has no provider: the children see the default of the context.
MountTheme(p) ==
  /\ stage[p] = "away" /\ stage' = [stage EXCEPT ![p] = "first"]
  /\ preset' = [preset EXCEPT ![p] = Default[p]]
  /\ resolved' = [resolved EXCEPT ![p] = <<"terminal", FALSE>>]
  /\ UNCHANGED <<stored, chosen, blank, override>>

\* The effect that stores does not look at mounted (a mutant of StoreUnmounted)
StoreUnmountedAnyway(p) == stored' = preset[p]

\* The effect that stores, before the provider is mounted
StoreUnmounted(p) == UNCHANGED stored

\* The effects of the first render: the preset that is stored is read, when it
\* is one, and the one that stores does nothing yet.
FirstEffects(p) ==
  /\ stage[p] = "first" /\ stage' = [stage EXCEPT ![p] = "mounted"]
  /\ preset' = [preset EXCEPT ![p] = IF stored \in Presets THEN stored ELSE @]
  /\ blank' = IF stored \in Presets THEN blank ELSE blank \cup {p}
  /\ StoreUnmounted(p) /\ UNCHANGED <<chosen, override, resolved>>

\* The next render: the memo takes the preset and what overrides it.
RenderTheme(p) ==
  /\ stage[p] = "mounted" /\ stage' = [stage EXCEPT ![p] = "rendered"]
  /\ resolved' = [resolved EXCEPT ![p] = <<preset[p], override[p]>>]
  /\ UNCHANGED <<stored, chosen, blank, preset, override>>

\* The effect that stores
StorePreset(p) ==
  /\ stage[p] = "rendered" /\ stage' = [stage EXCEPT ![p] = "settled"]
  /\ stored' = preset[p]
  /\ UNCHANGED <<chosen, blank, preset, override, resolved>>

\* setPreset of the context, by a child
ChoosePreset(p, name) ==
  /\ stage[p] = "settled" /\ preset[p] # name
  /\ preset' = [preset EXCEPT ![p] = name] /\ chosen' = chosen \cup {name}
  /\ stage' = [stage EXCEPT ![p] = "mounted"]
  /\ UNCHANGED <<stored, blank, override, resolved>>

\* Another override alone: the memo does not depend on it.
ChangeOverride(p) ==
  /\ stage[p] # "away" /\ override' = [override EXCEPT ![p] = ~@]
  /\ UNCHANGED <<stored, chosen, blank, stage, preset, resolved>>

UnmountTheme(p) ==
  /\ stage[p] # "away" /\ stage' = [stage EXCEPT ![p] = "away"]
  /\ UNCHANGED <<stored, chosen, blank, preset, override, resolved>>

ThemeNext ==
  \E p \in Providers :
    \/ MountTheme(p) \/ FirstEffects(p) \/ RenderTheme(p) \/ StorePreset(p)
    \/ ChangeOverride(p) \/ UnmountTheme(p)
    \/ \E name \in Presets : ChoosePreset(p, name)

ThemeSpec == ThemeInit /\ [][ThemeNext]_themeVars

-----------------------------------------------------------------------------
(* Properties.                                                             *)

\* No provider that mounts, in this tab or another, ever stores its default, in
\* whatever order their effects run, if there was a preset for it to read: what is
\* stored, and shown by a mounted provider, was stored at first, is the choice of a
\* user, or is the default of a provider that found nothing.  Such a default may
\* still come after the choice made in another tab, and replace it.
SavedPresetSurvives ==
  LET allowed == chosen \cup {Default[p] : p \in blank}
  IN /\ stored \in Presets => stored \in allowed
     /\ \A p \in Providers : stage[p] \in {"mounted", "rendered", "settled"} => preset[p] \in allowed
=============================================================================
