# Models and proofs of the T-Deck Pocket Terminal

This directory models the two programs of this repository and what happens
between them: the firmware add-on for the handheld (`firmware/`, C++ beside
Meshtastic) and the companion (`companion/tdeck_companion/`, Python on a
Raspberry Pi).  `*.tla` are the modules, `MC*.tla` and `*.cfg` instantiate them
for TLC, `*Proofs.tla` hold the proofs checked by TLAPS, and `PROJECT.json` maps
every definition to the lines it models, and lists runs, mutants, hazards,
findings and theorems.

## 1. Inventory

### The parts

| Part | Source | State it keeps | Operations |
|---|---|---|---|
| Command executor | `companion/tdeck_companion/commands.py` | SQLite table `executions`, keyed by (source, session, msg); the allow-list | `execute`, reopening of the file |
| Mesh gateway | `mesh_gateway.py` | reassemblers per key (`rx`), `inflight`, `tasks`, `closed` | `on_packet`, `ingest`, `_execute`, `send`, `done`, `close` |
| Wire protocol | `protocol.py`, `RemoteProtocol.cpp/.h` | one message under reassembly | encode, decode, chunk, `ingest`, seal, unseal |
| Handheld mesh module | `PocketMesh.cpp` | `outstanding`, queues `outbound` and `inbound`, `pending`, message number, attempts, reassembler; the boot counter in flash | `send`, `takeResult` (UI task); `runOnce`, `handleReceived` (mesh task) |
| Launcher | `PocketLauncher.cpp` | page, generation, selected host, `session`, `job`, `busy`, pan, `desktopReset`, canvas | event handlers, `show`, `request`, `closeSession`, `receive`, `task` |
| HTTP link | `PocketLink.cpp/.h` | queues `requests` and `results` of depth one | `submit`, `worker`, `receive` |
| Terminals | `terminal_http.py`, `terminal.py` | registry, guard, a lock, a time and a PTY per session | `create`, `read`, `write`, `close`, `reap`, `close_all` |
| Desktops | `desktop_http.py`, `desktop.py`, `DesktopTiles.h` | registry, guard, a lock, a time, a VNC backend and the previous view per session | `create`, `frame`, `input`, `close`, `reap` |
| AI jobs, application | `app.py`, `ai.py` | `jobs`; the reaper; start and stop of everything | `ai_start`, `ai_poll`, `ai_close`, `lifespan` |
| Tools, configuration, simulation | `tools/`, `config.py`, `security.py`, `simulation.py` | none over time, apart from files | scripts |

### How they interact

The handheld reaches a companion in two ways.  Over Wi-Fi the launcher's UI task
hands one HTTP request at a time to a worker task, which talks to the sessions
and jobs that `app.py` serves on one asyncio loop.  Over LoRa the UI task hands
one request at a time to `PocketMesh`, which cuts it in chunks; the gateway's
radio thread posts packets to the loop, `ingest` puts them together, and a task
sends the acknowledgement, runs the command through the executor, and sends the
result.  Tasks share memory through FreeRTOS queues and a spinlock on the
handheld, and through dictionaries and locks between awaits on the companion.

### What is hard, and what must hold

* *Executor.*  Calls overlap at awaits; a crash or cancellation falls between the
  reservation, the process and the UPDATE.  A key runs at most once, and a
  reply is what the table says.
* *Gateway.*  Packets are lost, repeated, reordered; tables and places are full;
  `close()` runs while packets are posted and tasks await.  Nothing runs twice,
  what goes on the air is true, tasks and `close()` end.
* *Handheld mesh.*  Two tasks share a flag; retries race late replies; reboots
  forget all but the boot counter.  One request at a time, fresh keys, an end
  for every request.
* *Launcher and link.*  Presses, polls, stale replies and page changes
  interleave.  One request in flight, addressed to where the session lives;
  nothing left open by leaving a page; the screen never stays locked.
* *Desktop.*  Frames are increments; they get lost or are made for nobody.  The
  canvas never shows a patchwork.
* *Terminals.*  A reaper and a shutdown that do not take the sessions' locks,
  a thread that holds a descriptor number, a shell that does not read.  The
  limit holds, no terminal is forgotten, nobody waits for ever on another's
  shell.
* *Desktop sessions.*  `create` awaits a connection between its test of the limit
  and the entry; closing, reaping and using a session meet at its lock; the VNC
  calls run in threads that a time limit does not stop.  The limit counts what is
  being made, every connection is somebody's, nobody uses a closed one.
* *AI jobs and the application.*  A job that is closed is cancelled and no longer
  counted before it has ended; the reaper awaits terminals and desktops before
  it looks at jobs; the shutdown awaits everything.  One prompt runs at a time,
  nothing is left running, nobody waits for ever.
* *Pure functions.*  Output is cut to 3000 bytes in one file and to 4096 in
  another; the filter of terminal output goes on across reads; a frame fits in a
  response by 2870 bytes; a patch may be interrupted and repeated.

`PROJECT.json` lists 39 such hazards at their lines, with the properties that
would catch them, or why none does.

## 2. Modules

Actions are named after the code's operations; comments at the definitions say
which.  A definition headed *Mutant:* is a plausible bug of the definition after
it.  Nothing uses it: it is put in the place of the right one to see that the
property listed with it in `PROJECT.json` fails.

| Module | Models | Notes |
|---|---|---|
| `AtMostOnce` | the abstract ledger of command keys: claimed, run at most once, settled at most once | the promise the executor and the whole mesh system implement |
| `CommandExecutor` | `commands.py` | SELECT and INSERT are one step (no await between them, `BEGIN IMMEDIATE` around them); every await afterwards is a place for other calls, `Cancel`, `SettleFails` and `CrashRestart`; `Kill` is both ends of a command that is cut off, the 30 s and an OSError while its output is read |
| `Reassembly` | the two Reassemblers, chunks, the HMAC check | EXTENDed by the next two; a payload put together from two bodies is `Mixed`, which fails the HMAC |
| `PocketMesh` | `PocketMesh.cpp` | UI task and mesh task as separate steps; `send()` is two (the critical section, the queue) |
| `MeshGateway` | `mesh_gateway.py` | INSTANCEs `CommandExecutor`; a task's phases are its awaits |
| `MeshSystem` | both ends and the radio | composes `PocketMesh` and `MeshGateway`; each hears the frames the other ever sent |
| `LauncherLink` | `PocketLauncher.cpp`, `PocketLink.cpp`, the session endpoints of `app.py` as environment | all pages but the content of the mesh and file pages |
| `DesktopSync` | `desktop_http.py` `frame`, `desktop.py` `changed_tiles`, `DesktopTiles.h`, and the launcher's desktop page | the canvas against the companion's `previous` |
| `DesktopSessions` | `desktop_http.py`, the VNC backend of `desktop.py` | who may use which connection; `lock` and `guard` are queues in order of arrival; `conn` is what has become of a connection and its thread |
| `Application` | `app.py`: AI jobs, the reaper, `lifespan` | EXTENDs `DesktopSessions`, and gives both their specification; the terminals are an await that returns or raises |
| `TerminalSessions` | `terminal_http.py`, `terminal.py`, the reaper and `lifespan` of `app.py` | descriptors are given out again; the desktops are an await that returns or raises, and then the reaper is dead (`DesktopsReaped`, `ShutdownBreaks`) |

Four modules have no state.  They define functions of the code, and a formula
that says of them what must hold for every input within a bound.
`LauncherScreen` EXTENDs them beside `DesktopSync`, whose canvas they serve, and
states each formula of the initial states (`...AtStart`), for it says nothing of
the others: there TLC evaluates it, once.

| Module | Functions | Formula |
|---|---|---|
| `WireSizes` | the bytes of a command's output and of an AI answer, from the companion to the screen | `TextsArrive` |
| `DesktopFrames` | `changed_tiles` in two dimensions, the packing of a frame, the checks of `applyDesktopFrame` | `FramesFit` |
| `AnsiFilter` | `append()` of `PocketLauncher.cpp`, against the text a whole stream leaves | `FilterIgnoresCuts` |
| `FirmwarePatch` | `apply()` of `tools/apply_firmware.py`, its writes in order | `PatchIsRepeatable` |

Correspondence of state, where names differ from the code: `db` is the table
(`NoRow` is no row, *pending* is `started`); `call[c]` and `task[t]` are the
program counters of coroutines; `up` and `down` in the mesh modules are the frames
ever handed to a radio; `log`, `runs`, `issued`, `lost`, `reaped`, `abandoned` and
`view` are history that no guard reads; `alive`, `queue`, `live` and `reply` in
`DesktopSync` are the session, the requests at its lock, and whether the
handheld still waits for the last of them.

### Abstractions

* **Data.**  Commands, outcomes, pictures and identifiers are members of small
  sets.  Packing, base64, CRC and HMAC arithmetic are whether a frame is
  genuine.  Text and layout are left out.
* **The air.**  `up` and `down` only grow, and any frame in them may be received
  at any time, again, or never: loss, repetition, delay and reordering in one.
  `send()` hands over all chunks of a reply in one step, or raises: receiving
  them separately is left to the receiver.
* **Time** is left open: a time limit may pass whenever the code would look at
  it (45 s, 120 s, 30 s, 900 s, HTTP time-outs).  A property then holds for any
  speed of either side.
* **Posted packets** matter only when `close()` begins (`late`): before it, a
  packet that waits in the loop is one that arrives later.
* **The desktop** is one row of tiles, so the box around what changed is an
  interval; its second dimension behaves alike.  Frame requests reach the
  session's lock in the order they were sent.
* **Terminals** have no bytes; a process that died of its own stays registered
  until it is closed, as in the code.  The companion may signal the shells it
  started, so that closing one does not raise.
* **Desktop sessions**: `frame` and `input` hold the lock alike and are one
  operation, their calls to the client one call.  A snapshot never outlives its
  `wait_for` of 10 s, because the client was made with a limit of 8 s; a
  `connect` may.  Requests have all been answered when the shutdown begins, as
  the server does it.
* **Output filter**: characters of one byte.  For wider ones the code does depend
  on the cut: a backspace takes one byte of this read (line 451), or one
  character of the screen (line 455).  Carriage returns are dropped where they
  stand.
* **Firmware patch**: a file is written whole or not at all.  `write_text` that
  dies half-way leaves a torn file that no later run repairs.

## 3. Runs

`tlc -config <cfg> <module>`.  Sizes are distinct states.

| Run | Instance | What it shows |
|---|---|---|
| `executor` (186k) | 2 overlapping calls, 2 contents, 2 sessions, messages 0 and 1, 2 exit codes, unlimited crashes | `RunsAtMostOnce`, `AnswerIsRecorded`, `InterruptedStays`, refinement `ImplementsLedger`, `CallEnds` |
| `executor_doc` | 1 call, 2 sessions | violation of `OncePerSourceAndMessage` (finding 1) |
| `handheld` (136k) | 2 requests of 2 and 1 chunks, 2 boots, every first number modulo 4, 3 transmissions, any reply to any key | `OneOwner`, `KeysAreFresh` across the wrap and reboots, `RequestEnds` |
| `gateway_key` (171k) | one key, 2 contents, 2 tasks, one reassembly, a restart, one late packet | `IndeterminateIsTrue`, `TaskEnds`, `CloseReturns` |
| `gateway_nodes` (142k) | 4 nodes, one not allowed, one without the key, one place | `GatewayRunsOnce` |
| `gateway_doc` | one key | violation of `AckMeansAccepted` (finding 2) |
| `mesh_system` (181k) | one request and result of 2 chunks, one retry, one restart of the companion | `ReportIsTrue`, `RunsWereAsked`, `OnlyCompleteRequestsCount`, refinement `SystemImplementsLedger` |
| `mesh_reboot` (871k) | 2 requests, a reboot of the handheld | `ReportIsTrue`, `NeverReused` |
| `launcher` (67k) | 2 hosts, 2 sessions or jobs, generations modulo 4 | `OneInFlight`, `RightAddress`, `NothingLeftBehind`, `LinkFrees` |
| `desktop` (170k) | 3 tiles of a desktop of 4, 2 colours, 2 changes, one pan press, 2 failures; boxes with corners on, before and behind the lines of the grid, up to the whole view, and responses too short and too long by a byte, a header or a tile; 20 lengths around every limit, letters of 1 to 4 bytes; every stream of 5 characters, every cut of it, a text cut to 2 above 3; every upstream tree, two deaths of the script anywhere | `CanvasIsPrevious`, `CanvasCatchesUp`; `FramesFit`, `TextsArrive`, `FilterIgnoresCuts`, `PatchIsRepeatable` |
| `terminals` (104k) | 2 requests and the reaper, which may die, 2 terminals, 2 descriptors given out again | `TTypeOK`, `NoOrphans`, `ReadsOwnTerminal`, `CreateEnds`, `IdleIsClosed` |
| `application` (102k) | 2 requests and the reaper, 2 connections of which 1 fits, 2 jobs that fill the table, the shutdown | `ConnectionsAreMinded`, `CallsAreExclusive`, `DesktopsWithinLimit`, `JobsAreMinded`, `StopLeavesNothing`, `RequestsEnd`, `IdleIsReaped` |

### Bounds, and why they suffice

* Limits of the code are constants, scaled down so that they are reached:
  `MaxRx` 16 to 1, `MaxInflight` 4 to 1 or 2, `Depth` 4 to 1 or 2, `MaxTries` 3
  (2 or 1 in the composed system), `MaxSessions` 4 to 2, `MaxDesktops` 2 to 1,
  `MaxJobs` 8 to 2, `TrimAbove` 7000 to 3 and `TrimTo` 6000 to 2, `GenSpace` 2^32 to
  4, `IdSpace` 2^32 to 2..4 so that numbers wrap, `Seeds` any first number (one
  in the composed system, where the number does not matter until it wraps).
* Bounds of the models only: `MaxBoots`, `MaxRequests` (2 each: an old life or
  request and a new one), `MaxRestarts` 1, `MaxLate` 1, `MaxIds` (sessions
  ever begun: for desktops one more than are held, so that one is refused or
  takes the place of another), `MaxStarts` (jobs ever started), `MaxDraws`, `MaxPans`, `MaxFaults` (a failed
  frame after a failed frame, with a change in between).
* `NumbersAssumption` says that a session's numbers and the session numbers are
  not used up: after 65535 boots with the same first number a key does come
  again.
* Deadlock is checked except where the instance may stop: a handheld that used
  up its requests and boots, a gateway closed for the last time, an application
  that was shut down.
* Symmetry is used in runs without liveness only: contents of the same size.  A
  new task of the gateway takes the lowest name that is free, for names do not
  matter.

### Fairness, and why the code justifies it

* Companion: the event loop runs what is ready (weak fairness of a task's next
  step); the 30 s timer fires; a process group that got SIGKILL is reaped;
  `sendData` returns or raises; the reaper comes round every ten seconds, unless
  an exception has ended it;
  asyncio locks are served in order of arrival; the model is waited for for 95 s,
  a VNC call for 8 s.  Nothing is assumed of a command that runs, nor of a shell
  reading its input.
* Handheld: both tasks are scheduled, HTTP exchanges end (4 s to connect, 12 s
  to read), the UI task polls.  `Retry` and `GiveUp` get strong fairness: an
  acknowledgement received over and over pushes the 45 s silence away, and the
  air does not repeat old frames for ever.
* Desktop: `CanvasCatchesUp` needs the bounds on faults and changes: it says
  what happens once they stop.

### Findings

1. `common/protocol.md` names the replay key `(source_node, message_id)`; the code
   uses (source, session, msg).  The same node and number run twice under two
   sessions, which is what a reboot of the handheld relies on.
2. `common/protocol.md` calls CMD_ACK "received and accepted for execution or
   deduplicated"; the ACK is sent before the allow-list is consulted, so a
   refused command is acknowledged as well.

Behaviour worth knowing that no text of the repository contradicts: a read in
its thread is safe from `close()` but not from the reaper, which does not take
the session's lock (`ReadsOwnTerminal` excludes it by `reaped`); a session
closed by request while a write waits for a shell that reads nothing has left
the registry, so the reaper passes it by (`IdleIsClosed` excludes it); the
shutdown cuts off a close the reaper had begun (`abandoned`).  An exception in
`terms.reap()` or `desktops.reap()` ends the reaper for good, and then the
shutdown, which awaits it, raises before it closes anything (`IdleIsReaped`,
`IdleIsClosed` and `StopLeavesNothing` except a reaper that died).  A connection
made after its `create` gave up, and one whose `disconnect` raised, belongs to nobody
(`ConnectionsAreMinded` names them).  A result of more than 1353 bytes that are
no text, and an AI answer of more than 8192 bytes in less than 8192 characters,
never reach the screen (`TextsArrive` says exactly which do).

## 4. Proofs

`tlapm <module>`; all are for arbitrary constants under the named assumptions.

| Module | Theorems | Argument |
|---|---|---|
| `CommandExecutorProofs` | `TypeCorrect`, `AtMostOneRun`, `RepliesAreRecorded`, `InterruptedIsFrozen`, `ExecutorImplementsLedger` | `RunsAtMostOnce` is not inductive: nothing in it stops a second call from spawning.  The invariant adds that a call in progress owns its key (its row is pending with its content, no other live call has the key) and that the number of runs is told by the row and the owner: 0 while reserved, 1 while running or killing, 0 or 1 once interrupted.  The refinement has one step per action |
| `PocketMeshProofs` | `OneRequestAtATime`, `RequestsHaveOwnKeys` | `OneOwner` with the ranges of the queue and the flag is inductive; reaching `done()` needs the request to be with the mesh task.  `KeysAreFresh` is not: the invariant adds, for each request in the log, the boot whose session it has and how far its number is behind the counter, so that in the present session a repeated number would take a whole turn (`PlusNext`), and that different boots have different sessions (`SessionsDiffer`) |
| `MeshGatewayProofs` | `NothingRunsTwice`, `NoticesAreTrue`, `GatewayImplementsLedger` | The executor's invariant, used through an instance of its proofs, and that of a gateway which hears the frames F: what a reassembler holds is from F and of one message, no index twice; so what is complete and authentic is a whole request in F (`WholeRequest`, by counting chunks); no two tasks have one key; a task in `execute()` is the executor's call for its request; every row was asked for; what is answered and was handed to the radio is true of the row (`Truth`), which no later step undoes (`Kept`) |
| `MeshSystemProofs` | `ReportsAreTrue`, `RunsAreRequests`, `OnlyWholeRequestsCount`, `RequestsAreNotRefused`, `SystemKeepsTheLedger` | Assume and guarantee.  The gateway keeps its invariant over the frames in `up`, whatever the handheld adds to them; the handheld keeps its own over those in `down`: each frame it sends is a chunk of a request in its log (`StepSent`), each request ends with a reply to its key or the notice that none came (`StepHeard`).  Keys are fresh, so a key tells its content.  The first half of the module shows that the two sides' steps are those of their own modules |
| `LauncherLinkProofs` | `LinkTypeCorrect`, `LinkCarriesOne`, `RequestsAreAddressed`, `LinkMindsAll` | the type invariant, then `OneInFlight` relative to it.  `AInv` ties what is held to the page and to where it was opened (`Held`), each request under way to what is held (`Proper`), each reply to its request (`ProperReply`), and each thing open to one that minds it (`AllMinded`); a request that opens something finds its page, host and generation as it left them, or its reply is stale and is followed by a close |
| `LauncherScreenProofs` | `CanvasFollows`, `FramesAreDrawnWhole`, `TextsReachTheScreen`, `FilterIsOfTheStream`, `PatchCanBeRepeated` | the canvas: `CanvasIsPrevious` says nothing of what is under way.  `OneUnderWay` adds that the request is in one place; `Sync` adds that a request for changes is made, waits and is served while the canvas is what the companion compares with, and that requests given up on are only followed by one for a whole frame.  `PatchMakesCrop`: changed tiles over the old view make the new one.  The functions: see below |
| `TerminalSessionsProofs` | `TerminalsTypeCorrect`, `TerminalsMinded`, `ReadsAreOwn` | the guard and the locks are queues, each of the tasks that say they are there, once; who has passed one is its head.  What the reaper has listed stays registered because it holds the guard; a terminal out of the registry has one task that minds it, a registered one none; a descriptor is given out again only when its terminal is closed, and who closes waits for the readers, but for the reaper and the shutdown |
| `ApplicationProofs` | `LimitHolds`, `CallsExclude`, `ConnectionsMinded`, `JobsMinded`, `StopClean` | the guard and the locks are queues, each of the tasks that say they are there, once; who has passed one is its head; a closer is the last at its lock, because closing takes the session out of the registry in the same step: head and last, it is alone and leaves a closed connection to nobody.  `JobInv` adds that a running job is kept, so that `Busy` counts it; `StopInv` that nobody but the one that closes everything acts during the shutdown, and what it has passed is empty |

The four formulas are about folds over sequences of any length, so each proof is
an induction.  The library's induction theorems take an operator, which the
provers cannot instantiate; `NatInd` and `IntervalInd` say the same of *sets* of
places, and follow from `<` being well-founded on the naturals.  `FoldSteps`
turns a fold of the community modules into a function `f` of the place reached,
`f[k]` one step from `f[k - 1]`; after that each proof states what `f[k]` is:

* *Frames.*  The tiles of a box are the columns and rows of the grid it touches,
  in order (`TilesAre`), and a pixel is in the tile of its own column and row
  only (`TileAtCovers`): so they cover the box, none twice.  The bytes after k
  tiles are the header's and what k tiles take, at most 60 whole tiles
  (`SumsAre`); `applyDesktopFrame` counts the same bytes, so it accepts a frame
  of which all arrived and no other (`FrameApplies`).
* *Texts.*  After k chunks the reassembler has k of them and their bytes, so a
  message is completed exactly when it fits (`CompletesIs`).  What is captured of
  text is at most 3503 bytes (`CapturedIs`), which fits.
* *Filter.*  The state after a character is a function of the stream
  (`States`), and is not zero just where the stream has a sequence open
  (`OpenIs`); what a stream shows after k characters is `h[k]` (`Shows`).  A read
  keeps the text an end of `h[k]`, and equal to it while nothing was cut
  (`TurnedIs`, `AppendedIs`), wherever it begins and ends.
* *Patch.*  Every write of a run keeps the tree between the tree of the release
  and the patched one (`Between`), a write that is done stays done and is not
  planned again, and a whole run does all that is left (`AppliedIs`).  So it does
  not matter how often, or where, a run died before.

Each of these theorems is the formula itself, of which the property of the run is
the instance TLC evaluates.

Assumptions (the named ASSUMEs, which TLC evaluates in the runs): constants are
what their types say (lengths are natural numbers, columns and rows within the
view, a text that is too long is cut to at most what is allowed, and the files of
the patch are a sequence); `Nil` is none of the values it stands beside; a sealed body
has a chunk (`SizeAssumption`), and every request a size; the words for the
outcomes a command does not choose are none of its exit codes (`SharedAssumption`),
nor is the text the handheld itself writes when no reply came
(`SystemAssumption`): the model tells such texts apart by where they come from.
`RequestsHaveOwnKeys`, and with it `ReportsAreTrue` and `RequestsAreNotRefused`, need
`NumbersAssumption`: in 65535 boots no session comes again, and a boot makes fewer
requests than there are numbers.  Otherwise no theorem depends on the bounds
(`MaxRestarts`, `MaxLate`, `MaxIds`, `MaxDraws` and the like) being small.

Every invariant the runs check, and every refinement, is a theorem.  Only
model-checked: liveness and what rests on ENABLED, which are out of the prover's
reach (`CallEnds`, `RequestEnds`, `TaskEnds`, `CloseReturns`, `LinkFrees`,
`CanvasCatchesUp`, `CreateEnds`, `IdleIsClosed`, `RequestsEnd`, `IdleIsReaped`).

## 5. Not modelled

* `flash_verified.py` and `detect_tdeck.py`: a sequence of guards before the one
  write to a device, with no state that a second actor or a second run shares.
* The shell scripts are straight-line.
* `ai_poll`, the first version of the AI endpoint, the health, host and token
  endpoints change no state.
* SD import, Wi-Fi profiles, configuration, token check, AI client: one I/O call
  each, or no state over time.
* Simulation: stand-ins for backends.
* Meshtastic, FreeRTOS, asyncio and SQLite are taken at their documented word.

## 6. Plan

Done first because it is the promise users rely on: the mesh command path, from
`AtMostOnce` up to `MeshSystem`; then the launcher, the desktop, the terminals,
the application and the pure functions; then the proofs of all invariants and
refinements, along the same path, the functions last.  What is left: the steps
the liveness properties rest on, as action properties: that no step but its own
takes a task back, and that the attempts of a request are counted.
