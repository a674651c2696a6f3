------------------------------- MODULE System -------------------------------
(***************************************************************************)
(* The smaller parts of the system, for model checking in one run: the     *)
(* first state chooses the part that moves, the others rest in one of      *)
(* their initial states.                                                   *)
(***************************************************************************)
EXTENDS SeqlockRing, SdkClient, ReactSession, Charts, AlertViews, Instruments, Scene, Theme,
        Wire, Collector, Tinytd, Figures

VARIABLE part  \* the part that moves

-----------------------------------------------------------------------------
(* Constants that a configuration cannot write.                            *)

SampleOf(cpu, mem, disk, load1, load5, load15, tx, rx) ==
  [cpu |-> cpu, mem |-> mem, disk |-> disk, load1 |-> load1, load5 |-> load5,
   load15 |-> load15, tx |-> tx, rx |-> rx, running |-> 1, total |-> 2]

\* Nothing the matter, a loaded one, one with everything critical and a spike,
\* and a full disk while the load falls
MCSamples ==
  {SampleOf(100, 200, 300, 50, 50, 50, 0, 10),
   SampleOf(7000, 9500, 300, 80, 60, 50, 30000000, 30000000),
   SampleOf(9000, 7600, 7000, 400, 300, 200, 150000000, 100000000),
   SampleOf(100, 200, 8500, 10, 60, 90, 60, 60)}

\* Segments that leave something, exceed what is used, fill it; and no disk
MCDisks ==
  {[total |-> 100, free |-> 40, given |-> <<30, 10>>],
   [total |-> 100, free |-> 40, given |-> <<50, 30>>],
   [total |-> 3, free |-> 1, given |-> <<1, 1>>],
   [total |-> 0, free |-> 0, given |-> <<>>]}

MCDefault == [p \in Providers |-> "dark"]

-----------------------------------------------------------------------------

Parts == {"ring", "client", "session", "charts", "alerts", "instruments", "scene", "theme",
          "wire", "collector", "loop"}

\* A part that rests starts in one state only.  That a chart of another level makes
\* pushes older adds nothing to late ones, and is left to the proofs.
Pinned ==
  /\ IF part = "client" THEN TRUE ELSE opts = CHOOSE o \in Options : TRUE
  /\ IF part = "session" THEN TRUE ELSE token = FALSE
  /\ coarse = FALSE
  /\ IF part = "charts" THEN TRUE ELSE window = CHOOSE w \in Windows : TRUE
  /\ IF part = "alerts" THEN TRUE ELSE latest = CHOOSE m \in Samples : TRUE
  /\ IF part = "instruments" THEN TRUE
     ELSE mode = "compact" /\ interval = CHOOSE i \in Intervals : TRUE
  /\ IF part = "scene" THEN TRUE ELSE inline = FALSE
  /\ IF part = "theme" THEN TRUE
     ELSE stored = Nothing /\ override = [p \in Providers |-> FALSE]
  /\ IF part = "wire" THEN TRUE ELSE stock = CHOOSE n \in Fills : TRUE

SystemInit ==
  /\ part \in Parts /\ Pinned
  /\ Init /\ ClientInit /\ SessionInit /\ ChartsInit /\ AlertInit /\ InstrumentsInit /\ SceneInit
  /\ ThemeInit /\ WireInit /\ CollectorInit /\ LoopInit

RingMoves ==
  /\ part = "ring" /\ Next
  /\ UNCHANGED <<part, clientVars, sessionVars, chartsVars, alertVars, instrumentVars,
                 sceneVars, themeVars, wireVars, collectorVars, loopVars>>
ClientMoves ==
  /\ part = "client" /\ ClientNext
  /\ UNCHANGED <<part, vars, sessionVars, chartsVars, alertVars, instrumentVars, sceneVars,
                 themeVars, wireVars, collectorVars, loopVars>>
SessionMoves ==
  /\ part = "session" /\ SessionNext
  /\ UNCHANGED <<part, vars, clientVars, chartsVars, alertVars, instrumentVars, sceneVars,
                 themeVars, wireVars, collectorVars, loopVars>>
ChartsMoves ==
  /\ part = "charts" /\ ChartsNext
  /\ UNCHANGED <<part, vars, clientVars, sessionVars, alertVars, instrumentVars, sceneVars,
                 themeVars, wireVars, collectorVars, loopVars>>
AlertsMoves ==
  /\ part = "alerts" /\ AlertNext
  /\ UNCHANGED <<part, vars, clientVars, sessionVars, chartsVars, instrumentVars, sceneVars,
                 themeVars, wireVars, collectorVars, loopVars>>
InstrumentsMoves ==
  /\ part = "instruments" /\ InstrumentsNext
  /\ UNCHANGED <<part, vars, clientVars, sessionVars, chartsVars, alertVars, sceneVars,
                 themeVars, wireVars, collectorVars, loopVars>>
SceneMoves ==
  /\ part = "scene" /\ SceneNext
  /\ UNCHANGED <<part, vars, clientVars, sessionVars, chartsVars, alertVars, instrumentVars,
                 themeVars, wireVars, collectorVars, loopVars>>
ThemeMoves ==
  /\ part = "theme" /\ ThemeNext
  /\ UNCHANGED <<part, vars, clientVars, sessionVars, chartsVars, alertVars, instrumentVars,
                 sceneVars, wireVars, collectorVars, loopVars>>
WireMoves ==
  /\ part = "wire" /\ WireNext
  /\ UNCHANGED <<part, vars, clientVars, sessionVars, chartsVars, alertVars, instrumentVars,
                 sceneVars, themeVars, collectorVars, loopVars>>
CollectorMoves ==
  /\ part = "collector" /\ CollectorNext
  /\ UNCHANGED <<part, vars, clientVars, sessionVars, chartsVars, alertVars, instrumentVars,
                 sceneVars, themeVars, wireVars, loopVars>>
LoopMoves ==
  /\ part = "loop" /\ LoopNext
  /\ UNCHANGED <<part, vars, clientVars, sessionVars, chartsVars, alertVars, instrumentVars,
                 sceneVars, themeVars, wireVars, collectorVars>>

SystemNext ==
  \/ RingMoves
  \/ ClientMoves
  \/ SessionMoves
  \/ ChartsMoves
  \/ AlertsMoves
  \/ InstrumentsMoves
  \/ SceneMoves
  \/ ThemeMoves
  \/ WireMoves
  \/ CollectorMoves
  \/ LoopMoves

systemVars == <<part, vars, clientVars, sessionVars, chartsVars, alertVars, instrumentVars,
                sceneVars, themeVars, wireVars, collectorVars, loopVars>>

\* The fairness of the client and of the session, while they are the part that
\* moves: at rest none of these steps can be taken.
SystemFairness ==
  /\ WF_live(part = "client" /\ \E s \in Sockets : Retry(s))
  /\ \A s \in Sockets :
       /\ WF_live(part = "client" /\ TimerFires(s))
       /\ WF_live(part = "client" /\ sock[s].state = "closing" /\ OnClose(s, TRUE))
  /\ WF_sessionVars(part = "session" /\ Serve) /\ WF_sessionVars(part = "session" /\ Receive)
  /\ WF_sessionVars(part = "session" /\ Commit) /\ SF_sessionVars(part = "session" /\ Push)
  /\ WF_sessionVars(part = "session" /\ (link = "closing" \/ srv.draining) /\ SocketClosed)

SystemSpec == SystemInit /\ [][SystemNext]_systemVars /\ SystemFairness

-----------------------------------------------------------------------------
(* Properties, besides those of the parts.                                 *)

\* The type invariant of the part that moves: among others the bounds of
\* retries and pending reconnections, of the log and of every window of samples,
\* of the frames that fit into the gateway's buffer.  And what
\* charts, rows and cards make of a value, which has no state, is what it should be.
SystemTypeOK ==
  /\ part \in Parts
  /\ FiguresFit
  /\ part = "ring" => TypeOK
  /\ part = "client" => ClientTypeOK
  /\ part = "session" => SessionTypeOK
  /\ part = "charts" => ChartsTypeOK
  /\ part = "alerts" => AlertTypeOK
  /\ part = "instruments" => InstrumentsTypeOK
  /\ part = "scene" => SceneTypeOK
  /\ part = "theme" => ThemeTypeOK
  /\ part = "wire" => WireTypeOK
  /\ part = "collector" => CollectorTypeOK
  /\ part = "loop" => LoopTypeOK
=============================================================================
