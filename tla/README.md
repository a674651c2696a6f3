# TinyTrack: a verification development

TinyTrack collects system metrics on one Linux machine and shows them in a
browser. A daemon samples `/proc` once a second and publishes the samples in a
memory-mapped ring buffer; a gateway reads that buffer without a lock and streams
it over WebSockets; a TypeScript SDK connects, authenticates and reconnects, and a
set of React components turns the samples into charts, gauges and alerts. This
directory holds TLA+ models of the parts whose correctness depends on order,
timing, crashes or many actors, TLC configurations that check them on small
instances, and TLAPS proofs of their main theorems for all values of the
constants.

Paths below are relative to the repository (`src/` in `PROJECT.json`).

## 1. Inventory

| Part | Where | State | Operations | Here |
|---|---|---|---|---|
| Sequence lock, ring readers | `server/common/ringbuf/{seqlock.h,reader.c,layout.h}` | per level: `seq`, `head`, `first_ts`, `last_ts`, cells; `last_update_ts` | `write_begin/end`, `read_begin/retry`, `ttr_reader_open`, `get_latest`, `get_history` | `SeqlockRing`, `AtomicRing` |
| Ring writer, shadow store | `server/common/ringbuf/writer.c`, `server/tinytd/src/main.c` | live file, shadow file, dirty range | init (recover or format), `write_l1`, `aggregate_l2/l3`, `shadow_sync`, cleanup | `ShadowStore` |
| Daemon loop, timers | `server/tinytd/src/runtime.c`, `server/common/timer.c` | next dates of three tasks, sampling timer | `ttd_runtime_poll`, `tt_timer_expired` | `Tinytd` |
| Gateway core | `server/gateway/src/{net,session,sock,http,ws,proto,reader,main}.c` | connections, session fields, watchdog | poll, accept, upgrade, commands, timer, draining | `GatewaySession` |
| SDK client | `sdk/src/client.ts` | socket, timer handle, `_closed`, `retries`, ready callbacks | `connect`, `disconnect`, `_open` and its handlers | `SdkClient` |
| Wire protocol | `server/common/proto/`, `server/gateway/src/proto.c`, `send_history`, `sdk/src/proto.ts` | the request being answered | building, parsing, batches of a history | `Wire` |
| Collector | `server/tinytd/src/collector.c` | previous counters and time | rates of the network | `Collector` |
| Page: provider, hooks | `sdk/src/react/TinyTrackProvider.tsx`, `TimeSeriesChart` | connected, streaming, sample, system information, history | handlers, effects, mounting | `ReactSession` |
| Page: charts, timeline | `TimeSeriesChart`, `Timeline`, `Sparkline` | samples, window, offset | append, scroll, live, draw | `Charts`, `Figures` |
| Page: alerts | `utils/alerts.ts`, `useAlertBadge`, `MetricsBar`, `MetricsPanel`, `SystemLoad` | previous sample, badge and timer, popups | detect, show, expire, press | `AlertViews`, `Figures` |
| Page: dashboard | `Dashboard`, `Gauge`, `WsConsole` | mode, focus, range, log, history | render, effects, keys, buttons | `Instruments`, `Figures` |
| Page: 3D scene, disk map | `Metrics3D`, `DiskMap` | scene, loops, bars, range | effects, pause, rebuild | `Scene` |
| Page: theme | `theme.tsx` | preset, storage | mount, read, store, choose | `Theme` |
| SDK, lite edition | `sdk-lite/` | that of the SDK client | the same | not modelled |
| Aggregation arithmetic | `server/common/metrics.c` | none | sums, minima | not modelled |
| Transport, TLS, HTTP parsing | `server/gateway/src` | buffers | | not modelled |
| Configuration, logging, process start, CLI, docs site, demo, scripts | | | | not modelled |

**How the parts meet.** `tinytd` is the only writer of the live file. At its start
it unlinks the live file, creates a new one, and fills it from the shadow file or
formats it. Its single thread samples, rolls level 1 up into level 2 and level 2
into level 3, and copies the dirty part of the live file into the shadow. The
gateway and the CLI map the live file read-only and share nothing else with the
daemon: the sequence number of each level is the only synchronisation, and the
time stamp of the header is the only sign of life. The gateway is one thread
around `poll`; a session timer in it watches the daemon, enforces the deadline
for the token and pushes samples. The SDK lives in the event loop of a browser,
where every handler runs to completion but timeouts, socket events and calls come
in any order. In the page one provider owns one client; its handlers set state, a
render follows, and the effects of the components run in a task after it: they
subscribe, ask for history, store presets, widen ranges, and may render again.
All charts of a page share the one session that the gateway keeps for the
connection.

**What is hard.** Loads and stores of two processes interleave on the ring with no
lock; the writer may be killed between any two of them. The shadow is overwritten
in place, so a kill or a power loss leaves a mixture. Periodic tasks run by a wall
clock that may be stepped. The gateway lets go of a peer by three mechanisms
(header timeout, deadline, draining) that are each looked at once a poll. The SDK
keeps one handle for the timeouts of all its sockets and none for its
reconnections. In the page messages arrive between a render and its effects, a
reference may be a render older or newer than the state beside it, and several
components keep the same thing in different ways. `PROJECT.json` lists the hazards one by one, at their lines, with
the properties that cover them.

**What makes each part correct.**

- *Ring:* a read that succeeds returns whole, consecutive samples that end at the
  newest one; a read returns once the writer rests.
- *Shadow:* no store escapes the dirty range; a verified recovery serves a whole
  ring; a clean restart serves the last saved image.
- *Loop:* no task is put off for long, whatever the clock does; a summary ends with
  the newest sample and has no holes.
- *Gateway:* protected data waits for the token; a peer without it is gone in time;
  the watchdog acts in time and recovers; connections that drain are closed;
  streams go on.
- *SDK:* attempts do not multiply; a client that reconnects is never left alone; the
  promise of `connect` is settled.
- *Wire:* each side reads at its own offsets what the other has put there, but for one
  command of which they disagree.
- *Collector:* no byte is told of twice, and none that never came.
- *Page and session:* what the page shows as the state of the stream is what the
  gateway does; history is that of this session, all of it; the last chart's level
  is the session's; a page whose connection lasts is filled.
- *Views:* the head of a chart is its newest sample, and its line is in order after an
  answer as long as the chart; a window lies inside its data; a lamp is
  explained by its popup; views that compute the same come to the same; a range
  holds what it is the range of; a preset that can be read survives every default.

## 2. Modules

### AtomicRing, SeqlockRing

`AtomicRing` is the promise: samples are published one after another, and a call
answers in one instant with the newest `n` of them, with NODATA before the first
one, or with STALE.

`SeqlockRing` is one level of the ring at the grain of single loads and stores.
`WriteStart`, `StoreBegin`, `StoreWord`, `StoreLast`, `StoreFirst`, `StoreHead` and
`StoreEnd` are the statements of `ttr_writer_write_l1`: the stores between the two
increments of `seq` are unordered where C leaves them so (`wtodo` and `wwords` hold
those still to be made), `head` is atomic and comes last. `GetLatest`,
`GetHistory`, `ReadBegin`, `LoadHead`, `LoadFirst`, `CopyWord`, `ReadRetry` and
`Return` are the readers. Three details of the code are kept: the clamp of `count`
survives a retry, NODATA is returned from inside the section without looking at
`seq` again, and `filled` is computed as the code does. `Crash` kills the writer
anywhere and leaves the mapping as it is.

`BeginFence = FALSE` lets the plain stores overtake the odd sequence number, which
the release order of `seqlock.h` allows; TRUE is what x86 does. What is left without
the fence is `WholeOrBlank`: a read that is shorter than the ring is whole, or zeros
if it met the first sample of a new ring.

Simplifications: `seq` is a natural number (the `uint32` wraps after 2^31
samples); loads of a reader are made in program order except within the copy;
`ttr_reader_open` has succeeded; statistics are not read.

### ShadowStore

Both files are functions from locations (header, then meta block and cells of each
level) to contents. `Start` is unlink, map, recover or format; `WriteL1` and
`Aggregate` are the stores with their `mark_dirty`; `SyncStart`, `CopyLoc`, `Sign`
and `Flush` are `ttr_writer_shadow_sync` (memcpy in any order, checksum, msync and
reset of the dirty range). `Crash` keeps the page cache; `PowerLoss` lets any
subset of the unsynced locations be lost. A sample is its number, and the checksum
is ideal: it equals that of another file exactly when all they hold but the
checksum is equal. `image`, `intact` and `tainted` are history variables: the last
image a completed sync saved, whether a sync has been cut short since, and whether
a shadow without a checksum has ever been recovered.

Simplifications: the sections of the writer are atomic here, which is sound for
the shadow because only the writer itself copies; a power loss mixes the last
durable contents with the newest, with nothing in between; errors of `mmap` and
`msync` are left out. The syncs and roll-ups come at any time (their dates are in
`Tinytd`).

### Tinytd

`Poll` is a whole `ttd_runtime_poll`: a sample if the sampling timer has expired,
then the three tasks in the order of the code, with the dates that
`tt_timer_expired` leaves (`Armed`, `Fires`, `Rearmed`). A cell of a ring holds the
set of the samples it summarises, so `RollUp` shows which entries
`ring_aggregate` takes. `StepClock` sets the wall clock. `since` counts real time
and is what the clock cannot be trusted for.

### GatewaySession

`StartPoll` runs the session timer (`TimerFn`: the verdict of the watchdog, the
alerts, the deadlines and the stream) at the start of a poll; `Visit`, the receive
actions, `Flush` and `EndTurn` are the turn of a connection; `Listener` accepts.
`Upgrade`, `Request`, `PauseAll` are HTTP; `CmdAuth`, `Subscribe`, `Pause`, `Ask`
and `Control` the WebSocket commands; `Broken` is any fault of the connection.
`DaemonWrite`, `DaemonRestart` and `Tick` are the environment. A send buffer is
empty, or filled before or during this poll, which is what the turn can tell; data
that the token protects leaves the mark `early` when it is queued for a client
that has not shown it (`proved`).

Simplifications: `idle_timeout_ms` is 0, its default; fragments, TLS, bytes that
are sent behind an upgrade request, and an upgrade without a key are left out;
frames have no contents; the gateway starts on a live ring (an `age` up to
`SoftLimit`). `CmdAuth` and the bearer token are right or wrong, nothing else.

### SdkClient

One action for each handler of `client.ts`: `Connect`, `Disconnect`, `OnOpen`,
`OnClose` (with `onerror` before it when the connection failed), `TimerFires` and
`Retry`. The options are chosen at the start: `reconnect`, `maxRetries`, and
whether the reconnection strategy may give up. `handle` is `_connectTimer`: it
names the socket whose timeout `_clearConnectTimer` would stop, which need not be
the socket whose handler calls it.

Simplifications: `promise` is that of the last `connect` (a second call replaces the
callbacks of the first, whose promise is then never settled); listeners are left
out, and with them one that calls `connect` or `disconnect` from inside a handler.

### ReactSession

The provider, the charts of a page and `useHistory` on one client and its session.
`up` and `down` are the frames of the WebSocket; `srv` is the session of the
gateway (`FreshSession`, `Serve`, `AfterToken`, `Push`). `SocketReady`, `Receive`,
`SocketClosing` and `SocketClosed` are the handlers; `Commit` is the task in which
the effects on `connected` run, those of the charts in any order and that of
`useHistory`; `RunEffect`, `Choose` and `Unmount` are the life of a chart,
`SetStreaming` and `Remount` the provider's. `lastSeen` is the value that the
effects have last seen, which may be older than the state. `srv.readable` says whether
a read at the level of the session finds a sample that is not too old: `DataTurns`
flips it at any time, since the daemon may stop and come back and levels 2 and 3 are
empty at first. Without one a snapshot is dropped without a sign, which
`srv.missed` remembers, nothing is pushed, and history may or may not be answered;
at levels 2 and 3 it may not be even with one (`Wire`).

Simplifications: a frame that nothing below the provider listens to is not sent;
an answer to a history request is one frame (batches are in `Charts` and `Wire`);
`POST /v1/stream/pause`, and an application that uses the client directly, are
left out.

### Charts

What `TimeSeriesChart` and `Timeline` make of requests, pushes and reconnections.
A sample is its time. `ServeBatch` is one turn of the loop of `send_history`: every
batch starts over with the newest samples (`BatchOf`), and of them there are no more
than `Held`, what `ttr_reader_get_history` takes for filled: the samples since the last
wrap. The daemon writes between two turns, but nothing is pushed. `Deliver` appends
(`addSamples`) to the chart and merges into the timeline's row by time; `Wheel`,
`Live` and `SetWindow` move the window (`Visible`).

The line of the chart does go back in time: answers that are cut short by a wrap, or
the repeated batches of a longer request, are appended as they come. What holds is
said by `ChartInOrder`: the last sample is the newest, and when an answer as long as
the chart has arrived last, the line is in order until the next short one.

### AlertViews

`DetectAlerts`, `BuildAlertState` and the scores are the functions of `alerts.ts`.
`NewSample`, `RunEffects`, `MountDashboard` and `UnmountDashboard` say which
previous sample bar, panel and dashboard compare with. Each view has a `useMetrics` of
its own that starts with no sample, so a dashboard that is mounted late waits for the
next one (`mounted`), sees no spike on it (`first`) and agrees with the panel from then
on (`rendered`). `ShowAlert` and `BadgeTick` are
the badge with its timer; `Press` and `Release` the mouse over triggers and popups,
whose listeners on the document close them first. `PopupRows`, `Columns`,
`PanelRows` and the colours are what is drawn.

### Instruments, Scene, Theme

`Instruments` is the dashboard: `ShowReading` and `AfterRender` (a render and its
effects), `Widen` and `ResetRange` of a gauge, keys, buttons, and the log, which
`Recent` keeps short. `Scene` is `Metrics3D` (`SceneReady`, `FirstFrame`,
`RunSceneEffects` with `Step`, `TogglePause`, `Rebuild`), for one list of metrics that
does not change, the buffer of `Sparkline`
and what `DiskMap` draws. `Theme` is any number of providers over one storage: the
effects of the first commit, the render with the context, and the choice. `chosen` and
`blank` are histories: the presets that users chose, and the providers that found none
to read.

### Figures

What is a function of a value: units, uptimes, axes, bars and the bar under the
pointer, points of lines, arcs, levels of ranges, waves, the camera. Its claims are
named (`TooltipNamesBar`, `UnitFits`, ...) and joined in `FiguresFit`; they have no
state and are checked as a part of `SystemTypeOK`.

### Wire

A field is its place, its width and its byte order. The structs of `v1.h`, `v2.h`
and `metrics.h` give what the gateway writes (`PlainWritten`, `Written`), the
functions of `proto.ts` what the client reads at literal offsets (`Parsed`), and
the same for commands. An alert is sent and not taken apart: the client knows its
header only. The argument of a command is a union: of `CMD_SET_ALERTS` the gateway
takes the first byte (`SetAlertsStruct`), where the client has put the highest of a
`u32`. `AskHistory` and `SendBatch` are `send_history`, with the
frame buffer of 4096 bytes.

### Collector

`CollectNet` is one reading of `/proc/net/dev` with `RateOf`; `CollectNothing` one
that fails; counters start anew (`CounterFalls`), the clock is set (`SetWall`), the
daemon restarts. One direction stands for both, and one counter for the sum over
the interfaces. An interface that goes and comes back with its old count, whose bytes
the sum tells of again, is not modelled: `NoByteTwice` speaks of interfaces that stay.

### System

Puts the smaller parts, and the ring without the fence, into one state space: `part`
names the one that moves, the others rest in one initial state. They share no
variable, so that their product would add nothing to what each can do; what they
share in the program is in the module of one of them (the session in `ReactSession`,
batches in `Charts`, sizes in `Wire`).

## 3. What is checked

All times are compressed: a unit is a second, or a sampling interval in `Tinytd`.

| Run | Bounds | What it shows |
|---|---|---|
| `seqlock_safety` | 3 slots, 2 words, histories of up to 2, 5 samples, kills | `NoTornRead`, `LockInv`, the refinement of `AtomicRing`, and `QuietReadsReturn` |
| `seqlock_filled` | 3 slots, 5 samples | *violated:* the comment on `filled` |
| `shadow_crc` | levels of 2, 2 and 1 cells, 3 clock readings, 2 samples a level | `DirtyCovers`, `VerifiedRingIsWhole`, `SignaturesInv`, `CleanRestartKeepsImage` |
| `shadow_history_lost` | levels of 1 cell, 5 clock readings | *violated:* history survives a crash |
| `tinytd_merge` | no step of the clock | *violated:* an entry merges one period |
| `gateway_safety` | 2 clients, timeouts of 1 | `DataNeedsToken`, `TokenInTime`, `WatchdogInTime` |
| `gateway_live` | 1 client, intervals 1 and 2 | `RecoveryIsNoticed`, `DrainingCloses`, `StreamGoesOn` |
| `gateway_restart` | 1 client | *violated:* stale data only until the daemon restarts |
| `system` | see below | the 23 properties of the parts |
| `sdk_disconnect` | 3 sockets, 2 calls | *violated:* `disconnect` disables the reconnection |
| `react_early` | 1 chart, 1 connection | *violated:* commands wait for the configuration |
| `wire_history` | 0, 26 or 60 entries | *violated:* a request ends with a final frame |

`system`, part by part:

| Part | Bounds | Properties |
|---|---|---|
| ring | 1 reader, 3 slots, 2 words, histories of up to 2, 4 samples, kills, no fence | `WholeOrBlank` |
| client | 3 sockets, 2 calls, retry limits 0 and 1 | `AttemptsWithinCalls`, `NeverStuck`, `PromiseSettles` |
| session | 2 charts on 2 levels, 2 connections, with and without a token, a ring that can be read or not | `StreamingShown`, `LevelFollowsLastChart`, `HistoryIsOfSession`, `SessionFills` |
| charts | chart of 3, batches of 3, ring of 3, timeline of 4, 5 samples, 2 connections, all of one level | `ChartInOrder`, `WindowShowsData` |
| alerts | 4 samples: nothing, loaded, all critical with a spike, a full disk; a badge of 2 ticks | `PopupExplainsLamps`, `BadgeFollowsLastAlert`, `OnePopup`, `ViewsAgree` |
| instruments | 3 readings, 2 gauges, a log of 2 | `GaugeRange` |
| scene | 3 heights, 2 bars, 2 loops left behind; 4 disks | `BarsInRange` |
| theme | 2 providers, 2 presets, a storage with nothing, a preset or junk | `SavedPresetSurvives` |
| wire | every frame and command (an alert and `CMD_SET_ALERTS` as what is *not* understood), 0, 26 and 60 entries | `FramesAreUnderstood` |
| collector | 5 bytes, 3 seconds, steps of the clock both ways | `NoByteTwice` |
| loop | levels of 3, 2, 1; periods 2, 3, 3; gaps to 2; one step of up to 8 | `NextDateWithinPeriod`, `TaskNotStarved`, `SummariesUpToDate` |
| all | and boundaries of units, levels and windows for the figures | `SystemTypeOK`, the type invariant of the part that moves and `FiguresFit` |

**Why these bounds are enough to meet the interesting cases.** Five samples in
three slots wrap the ring and overwrite slots a reader is copying, and a reader
may be overtaken several times. Three clock readings in `ShadowStore` are a start,
a sample and a second start, with syncs and roll-ups between them and a cut at each
of their steps. In `Tinytd` the step is longer than two periods, so a task can be
far overdue and far ahead, and level 1 wraps. Two gateway clients are enough for
one to change the other (`PauseAll`, and the place in `MaxConnections`). Two calls
and a retry are enough for sockets to share the timer handle. Two connections and
two charts let a message of the new session arrive before the effects of the old
one, and one chart take over the level of another; a timeline that asks for two
batches gets the same samples twice, and five samples in a ring of three wrap it, so
that answers of one and two samples follow one that fills the chart; a batch of 26 aggregated entries is the
largest that fits and 60 the largest that is asked for; four samples put every
threshold of the alerts on both sides. The `system` run visits 828 325 states.

**Bounds by name.** `MaxWrites`, `MaxCount` and `StaleAge` in `SeqlockRing`; `MaxNow`
and `MaxSamples` in `ShadowStore`; `MaxGap`, `MaxStep`, `MaxSteps`, `MaxClock` and
`MaxTaken` in `Tinytd`; `LongAgo`, `MaxAge`, `MaxLag` and `MaxBatch` in
`GatewaySession` (the first two cap distances, and the rest bound the length of a
poll and the frames of a read); `MaxCalls` and `RetryCap` in `SdkClient`;
`MaxSessions`, `MaxQueue` and `MaxAnswers` in `ReactSession` (pushes and the buttons
wait for `Room`, the choice, mounting and unmounting of charts for `Quiet`, nothing
under way); `MaxTime`, `MaxPipe` and
`MaxConnects` in `Charts`; `MaxLoops` in `Scene`; `MaxBytes` and `LastTime` in
`Collector`. The real values are a stale age of 3
s, thresholds of 3 and 10 intervals, a look every 2 s, a session timer of 500 ms,
5 s for the header and for the token, and 128 connections.

Deadlock checking is off only where a bound stops the system (samples, clock
readings, the clock) or the writer was killed (a reader spins on an odd `seq`,
which is what the code does).

**Fairness.** `SeqlockRing`: the writer runs on and a reader that is in a call keeps
its CPU; nothing makes a caller call and nothing keeps the writer from overtaking
a reader for ever, so `QuietReadsReturn` speaks of a writer that rests.
`GatewaySession`: the loop goes round and time passes (the thread never blocks but
in `poll`, which has a timeout), the daemon writes, and strongly fair, a peer takes
what it is sent; without the last a draining connection may stay for good, which
is what the code does. `SdkClient`: timers expire, and a socket that was told to
close is closed in the end, as the WebSocket API promises; nothing is assumed of
a peer or of the network. `ReactSession`: frames that are under way arrive and are
read, the effects of a render run, and a connection that is being closed closes; pushes
are strongly fair, since the gateway pushes at its time whatever is under way and only
the bound `Room` makes it wait. Nothing is said of the network, the daemon or the
user, so that `SessionFills` speaks of a connection that lasts, and of a sample only
where the snapshot found one, or where in the end there is one and the stream runs. The views are checked for safety only.

Every property has a mutant in `PROJECT.json`: a plausible bug in one mapped
definition that the run finds.

## 4. What is proved

Every safety invariant and action property that a passing run checks is also a
theorem, but for what is said under *Only model-checked*. The proofs hold for every
number of readers, slots, clients, sockets, charts and providers, for all sizes,
samples and limits, from the assumptions named in the modules (positive capacities,
finite sets of connections and sockets, `SoftLimit < HardLimit`, caps above the
limits they must exceed). `TypeOK` and the other type invariants are theorems of
their own in each module and are used in the rest.

**`SeqlockRing_proofs`.** `LockInv` is inductive. `WriterInv` ties `seq` to the
number of committed samples and says what every slot holds, except the slot being
overwritten (`RingHolds`, `Torn`); `SnapshotInv` says what a reader whose sequence
number is still current has seen; `ResultInv` that an answer stays whole.
`NoTornRead` alone is not inductive: nothing in it says why a number that has not
moved means that the cells have not. From the invariant follow `NoTornReads` and
`RefinesAtomicRing`: every step maps to a step of `AtomicRing` or to a stutter. These
three assume `BeginFence`.

Without that assumption, `RelaxedInv` is inductive. The slot at `head` is open from
the start of a section, before `seq` is odd, and every other slot holds its sample;
`seq` and `head` still move together. A reader whose `seq` has not moved has
therefore read a true `head`, and as long as it copies fewer slots than the ring has,
it does not copy the open one: `ShortReadsAreWhole`. A ring without samples is read
as zeros when its first section has stored `first_ts` early, hence *or blank*. For
`get_latest`, `LatestIsWhole` says `NoTornRead` of any ring of two slots or more.

**`ShadowStore_proofs`.** `DirtyCovers` is inductive with the types. `SignaturesVouch`:
a checksum, wherever it has been copied to (live, shadow, disk), is that of a whole
ring: only `Sign` makes one, of a shadow that has everything, and the rest are copies.
So a mixture that a crash or a power loss leaves never verifies unless it is whole.
`VerifiedRing` follows from it.
`CleanRestart` needs to know what the shadow and the disk hold between two syncs,
whatever the power loss took.

**`Tinytd_proofs`.** `NextDateWithinPeriod` and `TaskNotStarved`: each step of the clock
costs at most one more period and poll. `SummariesStayUpToDate` is an action property,
from `Lap`: the cells of level 1 below `head` hold the samples of this lap, one each, up
to the newest, whatever the cells above still hold of the last lap. What `Merged` takes
is then an interval of samples, and its newest entry is in it. `BytesToldOnce`, of the
collector, from the invariant that the bytes told of, with those that the next reading
may still credit (`Owed`), do not exceed what has come; the division only loses.

**`GatewaySession_proofs`.** `DataIsProtected` (a client that is in has shown the token
where there is one), `TokenInTimeHolds` (header timeout, deadline and three polls, by
an invariant over the phase of the poll that a connection is in) and `WatchdogActs`
(the age is bounded by the threshold, the time since the last look and the lag).

**`Client_proofs`.** The types, `AttemptsWithinCalls` and `NeverStuck` are inductive only
together: a reconnection fits in `waiting` because attempts and reconnections never
exceed the calls. `FramesFit` and `FramesUnderstood` are about the protocol. Where a
member of a struct lies is a sum over the members before it, which `Wire` computes by a
recursive function: `BeforeIs`, by induction, says that it has the values that add up,
and the lemmas after it name them for each struct. The
rest is a comparison of offsets, widths and byte orders, field by field, with the two
places where they do *not* agree (`AlertNotRead`, `SetAlertsMisread`). That a frame
fits is where the bound of `SendBatch` on its entries comes in.

**`History_proofs`.** `LineInOrder` needs to know every frame under way: consecutive
samples that the ring had (`FrameIs`), in the order of their newest samples and not
behind what the chart has (`InOrder`). So each one that is appended ends with the newest
sample so far, an answer as long as the chart replaces all of it, and pushes after it
are no older. `WindowInData` needs that the window's offset stays below
the number of samples (`Shift`): the guard of `Wheel` says so for one window, and the
window may be changed; samples only come.

**`ReactSession_proofs`.** `HistoryIsOfSession` is inductive with the types and two facts:
the provider says connected exactly while there is a connection (`Linked`), and until
the effects have seen it nothing is under way but the first frames of the session and
the user's, and no answer has come (`NothingYet`). A request is sent only by an effect
of the same task that clears the history, after it: that order keeps an early answer
from being forgotten. `StreamingShown` and `LevelFollowsLastChart` rest on `Told`: the
last command of a kind that is under way says what holds, and when there is none the
session does. Appending a command, sending it and reading the first one keep it. It
speaks of the level the owner asked for, not of the one it shows, which the user may
have chosen back since.

**`System_proofs`.** Of the views: `OnePopup` (while the button is down on a trigger no
other popup is open), `BadgeFollowsLastAlert` (one timer, as old as the quiet since the
last alert), `GaugeRange`, `BarsInRange` (no bars without a range), `SavedPresetSurvives`
are inductive with the types of what they speak of. `PresetSurvives` adds to the last that where a preset is stored at
first no provider ever finds none, so that no default is stored at all; otherwise a
default may come after a newer choice of another tab, and replace it. `ViewsAgree` needs
that each view's previous sample is the one before the newest, however it is kept, and
what a dashboard without one makes of its first (`SeenInv`).
`PopupExplainsLamps` is an equality of functions of a sample, proved lamp by lamp.
`FiguresHold` has all claims of `Figures`, `EveryDisk` those of the disk map, whose sums
are those of any function that adds up (`SumOfIs`). At the end `PartsBehave` shows that
each part of `System` behaves as its own specification says; from it `SystemTyped` and
`SystemSafe` carry all theorems of the parts to the specification of the run `system`.

**Induction.** The induction theorems of the library take a predicate, which the
provers cannot instantiate. Where a proof needs one (`Before`, `SumOf`, the cells of a
matrix) it cites `UpTo` of `Client_proofs`, which speaks of a set
of numbers instead of a predicate and follows from the least element of its complement.
A recursive function is shown to be *the* one with its equations by naming another that
satisfies them (`MadeExists`).

**Only model-checked.** The liveness properties (`QuietReadsReturn`,
`RecoveryIsNoticed`, `DrainingCloses`, `StreamGoesOn`, `PromiseSettles`,
`SessionFills`), which the prover cannot reach, and the violations. `enable_crc = false`
is a value of a constant for the proofs and is not a run of its own.

## 5. Where documents and code differ

Each is a run that TLC finds violated.

1. `reader.c:130` says that `filled` is the number of valid entries. It is `head`,
   unless `head` is 0: after each wrap a long history shrinks to one entry and grows
   again.
2. `tinytrack.conf:71` says that the shadow restores the metrics after a crash. A
   kill in the middle of a sync leaves a file that fails its checksum, and there is
   no other copy.
3. `tinytrack.conf:98` says that an entry of level 2 merges
   `l2_agg_interval_sec` seconds of samples. It merges everything since slot 0.
4. `gateway/src/main.c:208` says that the gateway serves stale data until the
   daemon restarts. It keeps the old file mapped, so restarting the daemon alone
   does not help. The systemd unit restarts both.
5. `client.mdx:131` says that `disconnect()` disables the reconnection. One that is
   pending opens a connection all the same.
6. `TinyTrackProvider.tsx:53` says that commands wait for the configuration, which
   comes after the token, and that earlier ones are rejected. The charts send
   theirs on `connected`, which is earlier; they are served because the token is
   ahead of them.
7. `v2.h:100` says that the final frame of a batch is flagged, `v2.h:98` that a frame
   may hold 60 samples. With 27 aggregated entries or more the frame does not fit
   the buffer of `session.c:164` and is never sent: a request of level 2 or 3 is
   answered only while the level holds few entries.

Behaviour that the models show and no document denies: a half-copied shadow
without a checksum is recovered after a formatted start (the exemption `tainted`);
a roll-up is skipped when `head` has wrapped to 0; the hard threshold lets go only
clients that are in at that moment; the header timeout also cuts an HTTP
connection that is being served; the stale age is fixed whatever the interval; a
writer killed inside a section leaves every reader spinning; a draining peer that
does not read keeps its place; pushes are queued without a limit; levels 2 and 3
are pushed although the daemon is dead; and, when the SDK stops reconnecting, the
close of another socket can have cleared the only timeout, so that the promise of
`connect` is never settled (the premise `Persistent`).

Noticed on the page while modelling, and not the subject of a run:

- the loop of a scene that is gone goes on drawing, since the number of the first
  frame only is kept (`Metrics3D:241`); its tooltip shows 0 for bars without a value;
  other metrics keep the columns of the old ones, and one more of them has ranges that
  are not numbers (`Metrics3D:273`);
- the panel's bar of characters compares with another full cell than `bar()` writes
  (`MetricRow:41`), and colours at 70 and 90 percent what alerts at 60 and 80;
- the number of processes is written as bytes a second (`format.ts:67`);
- the dashboard's memory gauge shows bytes of the disk (`Dashboard:340`), its interval
  is not sent again after a reconnection, and its request for history is not used;
- `client.disconnect()` leaves `connected` true in the provider; the control panel
  sends its commands past the provider's state; a POST to `/v1/stream/pause` is
  invisible to pages;
- the timeline's first row takes samples of any level that is subscribed and grows
  without bound; the text of its tooltip stays while data moves on;
- a token whose first 63 characters take more than 63 bytes does not fit its field
  (`proto.ts:327`); sizes beyond 2^53 lose digits;
- `TimeSeriesChartWithAutoLevel` ignores a later range, `TimeSeriesChartWithBand`
  draws no band, `DiskMap` ignores a later `mode`;
- `CMD_SET_ALERTS` takes one byte of the four that the client writes for it, the highest,
  and logs it as the switch; the client has no case for the alerts that are sent
  (`client.ts:291`);
- after a wrap of the ring, or when the timeline's request takes several batches, the
  line of a chart goes back in time until an answer as long as the chart arrives;
- a snapshot that finds no sample is not answered, and not asked for again; history of
  an empty level is not answered either;
- a provider that found no preset may store its default over the choice that another
  tab has made since;
- two samples in one second show a rate of 0; a step of iowait back shows a
  processor above 100 percent (`collector.c:175`), at which `bar()` throws.

## 6. Plan

Written in the order of importance: the ring and its lock, the shadow, the loop,
the gateway, the SDK client, the session of a page, the views, the wire, the
collector. What would come next:

1. **RingOpen**: `ttr_reader_open` against a start that formats the file (magic is
   stored first), and a shadow written with other capacities. *No reader computes
   places from a layout that is not there.*
2. **SeqlockRing, statistics**: the unlocked reads of `ttg_reader_get_stats`.
3. **Composition** of `ShadowStore` with `Tinytd`: what a crash can lose, as a bound
   in sampling intervals.
4. **Theorems**: that a level keeps at most its newest samples through roll-ups, for
   the composition of 3; what `get_history` counts in the ring of `Tinytd`.

## 7. Not modelled

The lite SDK: its client and protocol are the same code with another option name,
so that a second copy of `SdkClient` and `Wire` would say nothing more. TLS and the
byte-level parsing of HTTP and WebSocket frames (text and buffer handling),
configuration and logging (read once; their values are the constants), process
start and privileges except the unlink and the single open, the CLI (a reader like
any other, with a screen), sums and minima of the roll-ups, the documentation site,
the demo and the stories, and the scripts. Of the collector everything but the
network. Of the page: style sheets, icons and layout where no property tells them
apart, three.js, and the sets of listeners of the client. Errors of `mmap` and
`msync` end the start or are logged.
