# dormant: a TLA+ model of the blank/wake daemon

`dormant` blanks displays when presence sensors report an empty room and wakes
them when somebody returns. This directory holds TLA+ modules translated from
its source, TLC configurations that model-check them, and theorems about them
checked by TLAPS. Paths are relative to `src/crates/` unless they begin with
`src/`.

## 1. Inventory

### How the parts interact

Sensor tasks (MQTT, Home Assistant, USB radar) send presence events to one task,
`RulesEngine::run`, which also receives control messages (operator commands,
inhibitors, pauses, the ownership poll), results of display commands, and its
own timers. It fuses sensors into zones, and steps one `DisplayStateMachine` per
display. A step returns effects: timer entries, which go on the engine's wheel,
and commands, each of which runs as a spawned task that calls the display's
`CommandSink` (or its render sink) and sends the result back with the generation
the machine gave the command. Behind the sink the `DisplayExecutor` walks a chain
of controllers, retries wakes, and remembers which controller blanked the panel.
Nothing is shared between the engine and a command task but the result channel;
everything hard comes from what may happen between a command and its result.

`dormantd` wraps a *generation* of all this (engine, sensors, executors) and
replaces it on a reload; ownership of shared displays is decided by the
coordination poller, outside the generation.

### Components

| component | state it keeps | operations | what is hard | what makes it correct |
|---|---|---|---|---|
| display state machine (`dormant-core/src/state_machine.rs`) | phase, overlays, zone level, generations, frozen countdowns, ladder position | one arm per (phase, input) | late and stale results, ticks that outlive what they were for, overlays that freeze a countdown, wrap-around | every wait has something that ends it; presence always leads to an awake display; a blank only after a served, licensed grace period |
| rules engine (`rules.rs`) | machines, timer wheel, holds, pauses, inhibitors per rule, failure counters | `handle_*`, `fire_*`, `process_effect` | biased select, `now_tick` read before the wait, several rules on one display | edges are fed in order, ownership before every input, no timer lost |
| operation registry and operations (`rules.rs`, `dormantd/src/app.rs`) | active leases, quiescing generations, the router that stamps, exercises and emergency wakes under way | acquire, stamp, adopt, cancel, wait; exercise, emergency wake | leases that cross a channel, supervisors that give up on what they supervise, operations that bypass the machines | conflicting operations keep apart, every lease and every pause ends, a quiet generation has none |
| zone fusion (`zone.rs`, with the hold filter and the sweep of `rules.rs`) | sensor states, zone states, holds, leases, last sights | `apply`, `apply_hold_filter`, `fire_hold_expiry`, `sweep_stale_sensors` | timers that overtake each other, absences held back over outages, nested zones and several rules in one event | a display knows what its zones give; a hold is kept and loses nothing; silence is noticed |
| executor (`dormant-displays/src/executor.rs`) | supersede token, health, chain | `blank`, `wake`, `wake_once` | concurrent calls between whose awaits anything happens | a superseded wake never answers Ok; the owner of the blank is known |
| blank owner registry (`blank_owner.rs`) | owner per display and chain | `owner`, `record`, `clear_if_owner` | shared by the executors of two generations | the owner is the controller that keeps the panel dark |
| panel lock and VCP operations (`ddc_lock.rs`, `vcp_ops.rs`) | mutex and count of waiting commands per panel, the process-wide gate, a handle cache per controller | command lock, sampler try, transaction, scan, teardown | the sampler's time-of-check race, two generations on one panel, a controller dropped under a running call | one access to the bus at a time, no sampler overtakes a command, a handle has one owner |
| render backend (`dormant-render/src/linux/`) | surface, pending show, screensaver session, timers | show, teardown, configure, close, frame, fade | compositor callbacks, late timers, teardown against show | every show is answered, a late event or timer touches no other show, no picture freezes |
| coordination (`coordination.rs`, `dormantd/src/coordination_poll.rs`, `direct_switch.rs`) | verdict, candidate transition, peer sighting, flap history; deferred gain hooks; claim suppressions in the engine | observe, mark, poll, pull, push, feed | a panel anybody switches, readings that are old when they are recorded, pulls beside the poll, three messages on one channel | a verdict is earned, settles on what the panel shows and is told; what the peer had of the panel is answered |
| reload (`dormantd/src/app.rs`, `reload.rs`) | generation, router, snapshot | pause the router, quiesce, tear down, verified wakes, spawn, restore, put the old one back | operations and commands of the old generation in flight, failure at every step | the front door reopens, for the generation that runs; no display is left dark |
| boot guard (`boot_guard.rs`, `boot.rs`) | `crash-loop.json`, discounts, last known good, its candidate | `prepare`, `decide`, immediate rollback, promote, clear | crashes and failed writes between the steps, second instances that write before they find the lock taken | a config that crashes is rolled back, only a config that proved itself is rolled back to |
| gamma blanking and its recovery (`macos_gamma_black.rs`, `gamma_breadcrumb.rs`, `dormantd/src/gamma_recovery.rs`, `main_sequence.rs`) | saved table per screen, in memory; `gamma-blank.json` on disk | `blank`, `wake`, breadcrumb added and removed, the check at the start and at the end of a process, emergency wake | a black table outlives the process that knows what to restore; two processes and a recovery that share no lock with the blanks; calls that fail or do not land | a dark screen has a hold in the daemon that runs and a breadcrumb for the next one |
| wear accounting, active sampler, source gate | ledgers, consent | sample, journal | numeric, portals | - |
| sensors, activity and audio sources | connections, backoff | read, reconnect | external devices | - |
| configuration, state publisher, IPC, notifier, web, tray, `dormantctl`, doctor, other controllers | - | - | I/O and formatting around the engine's channel | - |

`PROJECT.json` lists them all with what is modelled and why the rest is not,
and the hazards of the code at the lines where they bite.

## 2. Modules

| module | models |
|---|---|
| `DisplayStateMachine` | `DisplayStateMachine::step` as pure operators, one `On...` operator per input, with the private helpers of the impl. An operator gathers the arms of its input in all seven phases; the map names the phase section where the input is characteristic |
| `DisplayRuntime` | one display as the engine runs it: the machine, its timer wheel entries, the spawned tasks, the ownership gate and the claims that suppress it, the input-wake hold, the panel and the render surface, and time |
| `DisplayProperties` | the properties of `DisplayRuntime` |
| `DisplayProofs` | theorems about `DisplayRuntime` and their proofs: types, that every wait has its end, the grace period and that it is served, the blank, presence, generations |
| `CommandSink` | the abstract promise of a display's command sink |
| `DisplayExecutor` | the executor's concurrent calls, shown to implement `CommandSink` |
| `ExecutorProofs` | theorems about `DisplayExecutor` and their proofs, the refinement among them |
| `VcpBus` | the threads that drive DDC/CI panels: panel lock, physical gate, handle cache, life of a `RealVcp`, and their properties |
| `VcpBusProofs` | theorems about `VcpBus` and their proofs |
| `ZoneFusion` | from the sensors to the displays: hold filter, availability lease, stale sweep, fusion in four modes over nested zones, the fan-out over several rules, and their properties |
| `ZoneProofs` | theorems about `ZoneFusion` and their proofs, with what it takes to reason about a loop |
| `Operations` | the operation registry, the front door that stamps and queues, exercises and emergency wakes with their supervisors and leases, pauses, and `Runner::reload` with its ways out |
| `OperationsProofs` | theorems about `Operations` and their proofs |
| `BootGuard` | the files of the boot guard and the processes that use them: starts, verdict, immediate rollback, flock, candidate and promotion, reload accepted or rejected, the clear that is owed |
| `Coordination` | one shared display on one of its hosts: its `CoordRecord`, the poller that reads, debounces and reports, pulls with their suppression and mark, and `feed_ownership` |
| `CoordinationProofs` | theorems about `Coordination` and their proofs |
| `GammaBlank` | the black gamma tables of macOS, the breadcrumb, and the processes that check it before they take the single-instance lock and when they end |
| `StartProofs` | theorems about `BootGuard` and `GammaBlank`, the two things a process does around its start, and their proofs |
| `RenderSurface` | the Wayland thread of one render sink: shows and their configure, the overlay surface and its black buffer, screensaver sessions with buffers, crossfade and deadlines, the latch, and its properties |
| `RenderProofs` | theorems about `RenderSurface` and their proofs |
| `MCDisplay`, `MCZones`, `MCOperations` | instances for TLC |
| `MCRoom`, `MCPanelPath`, `MCDaemon` | disjoint sums: `MCRoom` of `ZoneFusion`, `DisplayRuntime` and `RenderSurface`, `MCPanelPath` of `DisplayExecutor` and `VcpBus`, `MCDaemon` of `BootGuard`, `Operations`, `Coordination` and `GammaBlank`. The parts share no state; an initial state says which of them moves (`part`), the others keep their first state |

### Correspondence with the code

*Machine.* The record `d` has the fields of the struct (`current_stage` is
`stage`, counted from 1; `stage_dwell_frozen_remaining` is `stageFrozen`;
`last_blank`, `blank_mode`, `min_blank_time` and `pending_reblank` are left out:
no transition reads them, and the blank mode is data of the executor), and three
more for what its effects have put into the engine: `ticks` and `stageTicks` are
the display's entries in the wheel, `tasks` the spawned calls whose results are
still to come. `InputWake` has the arms of `ForceWake`. The effects of logging,
events and failure counters are left out.

*Time.* Instants are relative to the present: time passing subtracts one from all
of them. An input is handled at the present, a timer at its deadline
(`fire_due_timers` passes the deadline), and a result at `now_tick`, which the
loop read before it began to wait: `lag` is how long ago that was, and is reset
by every turn of the loop, including those that are about something else
(`OtherTurn`). Time passes only when no timer is due and no task has run longer
than `MaxLatency`: timers are handled within the unit they are due in.
Instants more than `Past` units ago are not told apart: `Past` is assumed large
enough for the two gates that compare with an instant in the past.

*Tasks.* A blank or wake cancels the token of every wake in flight
(`rotate_supersede`); in `DisplayRuntime` this happens when the command is sent,
though the spawned task does it when it first runs. A task ends between
`MinLatency` and `MaxLatency` after it was sent. A superseded wake fails, and may
or may not have reached the panel by then. A teardown destroys whatever surface
is up, whatever its generation, and fails a show that waits for its surface.

*Initial states.* A new machine; a machine whose display has a rule after a reload
of a waking display (`apply_restore` keeps only the retry tick); a manual-only
display restored in Blanked or Waking. `ruled` tells the two apart: presence and
inhibitors reach a display only through a rule. That an Active display may begin
with a dark panel after a reload is left to the module on reload.

*Ownership.* `owns` is the gate's verdict, which changes on its own; `feed_ownership` tells
the machine before each input and timer, but keeps a loss from it while a claim is in
flight (`claimed`, the suppression of five seconds that `direct_switch.rs` sets and clears;
it may lapse at any moment, which covers its deadline).

*History.* `vacantFor` is the one variable of `DisplayRuntime` that is not the
code's: how long the machine's zone level has been `absent` without a break, up to a
grace period. `GraceIsServed` is about it.

*Bounds of `DisplayRuntime`* (all are constants): inputs from outside are accepted
while at most `MaxTasks` tasks, `MaxTicks` ticks and `MaxStageTicks` stage ticks
are pending; results, timers and the ownership poll are never bounded.
`GenMax` is the largest generation (2^64 - 1 in the code): it is small, so the
counters wrap in every run. `StageGensLeft` keeps an input from re-using a stage
generation that is still in the wheel, which 2^64 generations exclude.

*Executor.* A step of a call is the code between two awaits. The pass after
reprobing goes through the chain in its order, as the code does; the rounds
before it begin with the owner. `CommandLands` is the moment a controller's command
reaches the panel, before the controller answers; a controller may fail after it
has landed. Any call may be accepted at any time: the machine sends no command while
its blank is under way (`BlankRunsAlone`, proved of the machine), but the paths that
bypass the machine do (emergency wake, exercise, the wakes of a reload). `beside` is
history: whether a blank was under way when the call was accepted. `OwnerAnswers` is
about the wakes that found none; of the others its first half fails (`OwnerMoves`).

*DDC/CI bus.* A thread of `VcpBus` is one closure of `spawn_blocking` (or whoever
drops the last reference to a `RealVcpState`). A step is an atomic operation or the
code between two operations other threads can see: the two atomics and the mutex
of `command_guard`, the three of `sampler_try_inner`, the gate, and inside the gate
the checkout, the enumeration, the transaction with what becomes of the handle, and
the drain. The mutex of the cache is innermost and never held over any of these, so
it has no variable. The guards are dropped before the clone of the `Arc` (`Release`);
the clone that is dropped last drains the cache, be it the controller's (`Retire`) or a
call's. `Create` lets a `RealVcp` that is gone stand for one that is new. Whether a
cached handle is past its revalidation window, whether an enumeration finds the panel
and whether a transaction ends well is chosen freely: a panic and a transport
error end alike. The atomics are `SeqCst`, so interleaving is what they allow.

*Zones.* `eng` is what the engine keeps: `states` and `zones` of the `ZoneEngine`,
the last level each display was sent (`told`, what its machine's overlay
remembers), and the maps of the engine for holds, leases and last sights. Instants
are ages, deadlines are what is left. The sensors may report anything at any time;
timers and the sweep are served in the unit they are due in. The next sweep is a
period after `now_tick`, which the loop read before it began to wait, so it may be
due sooner (`sweepIn'`). Weights are whole numbers and a threshold is a ratio: the
rounding of `f32` is not modelled. `topo_sort` may answer any order in which a zone
follows the zones it is made of; one is chosen, since fusion over any such order is
the same. That a hold is no longer than the stale timeout is what the validation of a
config demands (`dormant-core/src/config/validate.rs:764`); without it `HoldIsKept`
does not hold, the sweep would end a hold.

*Operations and reload.* A blank or wake of a machine, command and result, is one
step (`DisplayRuntime` has what lies between). `engine` is the engine that runs (its
machines, its bookkeeping of pauses), `started` tells two engines of one generation
apart. `route_control` stamps under the lock and sends after it (`Route`, `Send`); a
send to an engine that is gone loses the message. An exercise is its sequence (`step`)
and its supervisor (`watch`), which gives up on a cancelled sequence and leaves it
running (`gone`). `reload.pc` follows `Runner::reload` from await to await.
`install_generation` sets the route (`Install`), stamps and sends what was queued, one
message a step while the engine already takes them (`ReloadFlush`), and opens the door
(`ReloadOpen`); it holds the router's lock meanwhile, so no request is routed (`Flushing`).
`asked` is a history: the pauses somebody other than an
exercise asked for. The old and the new config have the same displays; what changes
is how a display without a rule is commanded, which takes the path of a removed
display too.

*Boot guard.* A file's bytes are one value, their fingerprint is those bytes, and a
start's nonce is the process that may still disown it. Times are ages in ticks. A step
is a write of one file or a stretch between two of them. `procs` holds the service and
a stray second instance, which runs the same code until it finds the flock taken. Any
write may fail, any process may die at any step, the operator may edit the file, all of
which together happen `MaxEvents` times. `late` and `raced` are history: the file was
edited between the moment the daemon read it and the moment it armed its candidate.

*Coordination.* `coord` is the `CoordRecord`, with `change` and `flips` as ages of
`last_raw_change` and `transition_times`; the panel state and the failure counter
decide nothing. A step of the poll is the code between two awaits: the drain of the
deferred hook and the reading (`PollReads`), the record (`PollRecords`), the message to
the engine, the hook with its presence query. Between the reading and the record
anything may happen, a pull above all. `input` is what the panel shows: `replaced` is a
connector that leads to another panel, which the poll feeds through the same debounce
without a code; it is taken to fail a pull's read-back. `LocalWrite` is an alias that
`mark_owned_immediate` stores, though the panel reads back `LocalRead`. A reading that
names the wrong input is covered by a panel that was there for that one reading;
`PanelMoves` is also what a push does. `queue` holds the three messages of
the control channel that touch ownership; an `OwnershipPoll` that follows another at
once is not queued twice, since it would find nothing new. `streak` and `owed` are
history: the readings of one side in a row, and that the peer had the panel and no
gain hook has answered it yet.

*Gamma tables.* A table is lit or dark, saved and read back alike. `task` is how far the
blank or wake of a screen has got under the operation lock of its slot; a step ends
where the process may die with a different state left behind: after the breadcrumb,
after the write, after the confirmation, after the hold is given up. The breadcrumb is
written to a temporary file and renamed, so each change of it is one step. `life` says
where a process is (before the lock, running, after the run loop) and what is left of
`restore_stale_breadcrumb`, whose look at the file, restore and removal are steps. That
`restore_all` cannot fail is what both of its implementations say. A start that fails
before it reaches `boot`, and so skips the last check, is one of the outcomes of
`TakeFlock`. A table is taken to outlive its process, as the breadcrumb's documentation
does. `crossed` and `stranded` are history: a blank has met a recovery or an unreadable
breadcrumb since the last restore; a blank has failed and its rollback too.

*Overlay (`RenderSurface`).* One calloop thread runs each handler to its end, so each
handler is one action: the commands of the sink (`handle_show`,
`handle_show_screensaver`, `handle_teardown`, `handle_reassert_overlay`), the events of
the compositor (`configure`, `closed`, `output_destroyed`, input, `wl_buffer.release`),
which may name any surface that was ever created, the wakeups of mpv with any batch of
item events, and the timers. A surface is named by the show that made it; `pending` is
`pending_show`, `live` is `layer_surface` with `surface_up`. `reply` is the oneshot of
each show; a sender that is dropped is an error to the sink. `back` and `front` are the
busy flags of the buffer rendered next and of the other one. `blends` counts the blend
timers in the loop, which `token` (`timer_token`) need not know of. `black` is the shm
buffer, the one that has a size and can fail. `wanted`, `resized` and `stuck` are
history. A session stands for both transition modes: with `None` mpv reports no item.

## 3. What the runs check

| run | instance | properties |
|---|---|---|
| `DisplayLadder` | a screensaver with a dwell of 2, then a controller; soft blanks, failing shows, inhibitor, pause and resume; 3 tasks | `AwaitedTaskRuns`, `LiveStageTickIsRecorded`, `InFlightGensDiffer` |
| `DisplayGrace` | one controller, a grace period of 2, ownership that flips, claims that suppress its loss, pauses with and without a deadline, input wakes, force wakes and force blanks, failing blanks, other turns of the loop | `TypeOK`, `PauseHasEnd`, `GraceIsDriven`, `BlankRunsAlone`, `BlankIsLicensed`, `GraceIsServed` |
| `DisplayLive` (machine) | one controller, under fairness; presence, inhibitor, input wakes, failing blanks and wakes; minimum wake time and startup holdoff 2 | `WakingHasRetry`, `NeverDarkWhilePresent`, `PanelFollowsPhase`, `WakesComplete`, `VacancyDarkens` |
| `DisplayLive` (zones) | a radar with a hold and a camera without; a zone of each mode, one nested; three rules, two of which share a display | `MachinesAreCurrent`, `HoldIsKept`, `SilenceIsNoticed` |
| `DisplayLive` (overlay) | two shows, each black or screensaver; two sizes, fades of two blend ticks, one upset (a failed allocation or render, a close, an unplugging, a resize) | `OverlayIsHonest`, `TimeoutsAreOwn`, `ShowIsAnswered` |
| `PanelPath` (executor) | two calls at a time (any number one after the other), of any kind beside any other, two controllers, one retry round | `PathTypeOK`, `ImplementsSink`, `OwnerAnswers` |
| `PanelPath` (bus) | three threads, the RealVcp states of two generations on one panel, scans | `PathTypeOK`, `BusIsSerialized`, `HandleHasOneOwner`, `RetiredIsDrained`, `SamplerNeverOvertakes`, `CommandIsServed` |
| `Daemon` (operations) | one display with a rule and one without; two requests, one reload; failing verified wakes, spawns, rebuilds and barriers, panics | `DaemonTypeOK`, `LeasedOperationsAreApart`, `LeasesAreAccounted` (`StampIsAdopted`, `QuietHoldsNoLease`), `FrontDoorReopens`, `OperationsEnd` (`ExercisePauseEnds`, `LeasesEnd`) |
| `Daemon` (boot guard) | the service and a stray instance; a sound config, one that crashes the daemon, one that does not parse; two events | `DaemonTypeOK`, `LkgIsProvenUnlessRaced`, `RollbackEnds` (`SoundLkgRescues`, `ClearIsRetried`) |
| `Daemon` (coordination) | one display, one pull at a time, two confirmations, a flap limit of two transitions in one tick, settling after one; the panel moves freely between the two hosts and another connector | `DaemonTypeOK`, `VerdictIsEarned`, `VerdictSettles`, `ReturnIsAnswered` |
| `Daemon` (gamma) | two screens; the supervised daemon and a second instance; three mishaps | `DaemonTypeOK`, `DarkHasWayBack`, `OrphansAreLit` |
| `DisplayStarved`, `DisplayDwell`, `DisplayStale`, `DisplayYield`, `OwnerMoves`, `ReloadDoor`, `ReloadDark` | violations, section 5 | one each |

Each property is stated in words above its definition. The durations are one or
two units: what matters is their order (a task against a retry interval, a
deadline against a lag, a pause against a grace period), and small units make all
of these orders happen. Between the passing runs every action and every disjunct
fires. Deadlock is checked wherever the system goes on for ever; not in `Daemon`,
`ReloadDoor` and `ReloadDark`, where a reload may end the daemon, the requests run out,
and the bounded events of the boot guard and of the gamma tables do too.

`DisplayLadder` and `DisplayGrace` have the inputs that their properties are about, since all
kinds of input at once are beyond TLC; what they check, and all of `DisplayLive`'s invariants
but `PanelFollowsPhase`, is proved for all inputs that the properties speak of (section 4).
`PanelFollowsPhase` is checked with the inputs of `DisplayLive` only.
In `DisplayGrace` an input that would leave two tasks running is not accepted (`MaxTasks = 1`);
commands still overlap there, through retry ticks and ownership polls, which nothing bounds.

In the zones a hold of 1 with a sweep every unit lets a hold be armed anew before the
timer of the earlier one fires, an absence be held back over an outage, and a sweep
come between; two sensors are enough for a zone to flip with its parent, and for one
event to flip two zones of one display in opposite ways is not possible, since every
mode is monotone. `SilenceIsNoticed` is tight: with a bound one smaller it fails, since
the expiry of a hold counts as a sign of life.

In the operations two requests are two exercises of one display or of two, an
exercise and an emergency wake, or one of them and a pause, each at any moment of the
one reload; leases cannot conflict three by three. The boot guard's window is the tick
a start falls in (`Window = 0`), a loop is two starts in it, and three are recorded, so
that both the cap and the window cut. Two events are enough for each pair of an edit, a
stray start, a failed write, a kill and a passing tick; crashes caused by a config are
not bounded.

In the coordination two confirmations (three by default) are the smallest number at which
readings have to agree; a flap limit of two transitions (five by default) is what the
code raises any smaller one to, and a window of one tick lets a loss and the gain after
it fall inside or outside of it. One pull at a time meets a
poll in every order; a pull begins only with less than `QueueCap` messages waiting,
which keeps the engine from lagging behind several pulls at once (section 6).

In the gamma tables two screens are enough for a breadcrumb that outlives one of its
selectors, and two processes for a recovery beside a daemon that blanks. `MaxMishaps`
counts failed calls, deaths, stops, starts of the second instance, late blanks and
emergency wakes together; three let a second instance start, restore and die while
the daemon blanks and its confirmation fails (alone, the module was checked with five).

Two shows are the shortest sequence in which a timer, a configure, a close or a session
of an earlier show meets a later one; one upset at any point of it. Alone, the module was
also checked with two upsets; three shows are beyond TLC in the time of a run.
`OverlayIsHonest` is a conjunction of named promises, among them: one show at a time is
waited for and somebody holds its reply (`OneShowWaits`), nothing outlives a teardown,
a confirmed black overlay stays black, a picture that stays on the screen has a session
that goes on changing it (`NoFrozenFrame`), and a fade has the timer or the deadline
that ends it (`FadeIsDriven`).

Three threads are enough for `VcpBus` to have a command, a sampler and a teardown or a
scan at once, on one panel, the case in which all of its locks are contended; its
safety is proved for any numbers (section 4).

`NeverDarkWhilePresent` is checked without operator blanks, since an operator may darken
an occupied room, and is proved for every instance of that kind (section 4).
`PanelFollowsPhase` is checked without `ForceBlank`: in Waking one whose blank fails leaves
Active with a dark panel (section 6). `BlankIsLicensed`
and `GraceIsServed` exclude the operator's blank by name only. `BlankIsLicensed` asks for
the verdict as it is fed (`owns`, or a claim in flight); that the display is the gate's
own, as the docs have it, does not hold (section 6).

`VacancyDarkens` asks for a dark display again and again (`[]<>`) once the vacancy stays:
an input wake of a dark display arms a hold, which has to end in a new Grace period, and a
blank that fails or a Grace that was left is followed by another. It excludes a hold that
is never given up, and an operator's `ForceWake`, which nothing undoes while the room
stays vacant.

### Fairness

`DisplayRuntime` assumes weak fairness of timers, of tasks (each controller call
has a timeout, so each task ends), of the ownership poll and of time, all of which
the loop of `RulesEngine::run` serves for as long as the daemon runs; no fairness
is assumed of inputs. Of the hardware one thing is assumed, as strong fairness: a
blank, or a wake, that can answer Ok again and again does so eventually. Without it
a panel that is never reached keeps its display in Waking, which is what the code
means to do. `DisplayExecutor` assumes weak fairness of the progress of each call:
every probe and every call is answered, every sleep ends. `ZoneFusion` states no
fairness: that silence is noticed is a bound, not a promise for some day.

`Operations` assumes weak fairness of `Progress`, of everything together that the tokio
runtime does without being asked: tasks are scheduled, commands are answered or time
out, the waits of the reload expire. One weak condition is enough because nothing in
it can go on for ever: requests and reloads are bounded, and a machine's blanks and
wakes, which are not, are not part of it. `BootGuard` assumes that the supervisor
restarts the service, that a process that is scheduled goes on and its watchdog ticks
(weak fairness of `BootStep` for each instance), and that a config which crashes the
daemon does so (`CrashOfConfig`). A stray instance owes nobody a start.

`Coordination` assumes that the poll task goes on and ends each poll (queries and hooks
have timeouts), that true readings get through again and again (a bus that never
answers holds the verdict for ever, as `record_failure` means to), that a pull that has
begun ends, that the engine takes its messages, and that time passes. Nothing makes the
panel move, and the suppression's deadline and other inputs of the engine are not
relied on.

`GammaBlank` assumes that the supervisor starts its daemon again, that a recovery goes on
to its end, and that a blank or wake that has begun does. Nobody has to call `wake`:
`OrphansAreLit` asks for a lit screen or for a daemon that could light it.

`RenderSurface` assumes that the loop dispatches the configure and first-frame timers that
are due. The compositor and mpv owe nothing: `ShowIsAnswered` holds without their answers.

The liveness properties of the form `P ~> Q` in `BootGuard` and `Operations` are written
as `[]<>(~P \/ Q)` where `Q` includes the end of `P`: the same for a state predicate, and
cheaper for TLC.

`VcpBus` assumes that a thread that can go on does (weak fairness), and of a panel's
mutex only that while it stays free some waiting command locks it: the code's reason
for the count of waiting commands is that `std::sync::Mutex` promises no more. For the
gate it has no such device and relies on a mutex that starves nobody: strong fairness
of `TakeGate`. `CommandIsServed` says that *some* command is served, since commands
among themselves have no order.

## 4. What is proved

`DisplayProofs` proves, for every ladder, every timing, every bound and every set
of inputs, and from the named assumptions on the constants only
(`LadderAssumption`, `TimingAssumption`, `GenAssumption`, `OptionAssumption`,
`RuntimeAssumption`):

- `TypeCorrect`: `Spec => []TypeOK`;
- `WakingOwnsItsExit`: `Spec => []WakingHasRetry`;
- `CommandIsAwaited`: `Spec => []AwaitedTaskRuns`;
- `PauseEnds`: `Spec => []PauseHasEnd`.

`TypeCorrect` covers the history `vacantFor` too. All four follow from one inductive invariant, `Inv == TypeOK /\ Driven(d) /\
Awaited(d) /\ Resumes(d)` (`Invariance`). None of the four conjuncts is inductive
alone: without the types the arithmetic of the deadlines says nothing, and the
handlers leave a phase only by way of the helpers, each of which must leave the other
conjuncts in place. The proof therefore runs along the structure of the code: a lemma
per helper and per `On...` operator says that it *keeps* the machine (`Keeps`: the
three conjuncts carry over) or that it *lands* in a phase that satisfies them by
itself (`Lands`: it has sent the command it waits for and scheduled the tick it
needs); `Composition` chains them. What is left per action is what happens before
the handler: the tick that was taken from the wheel (a tick in Waking is followed by
`IssueWake`, a pause whose tick was taken has just been ended by `AutoResume`), and
the task that was taken from the tasks (its result is the one that was awaited, or
the awaited one is another). `TimeInv` uses that no timer is due when time passes.

Its second part builds on that, for the same constants. What a display is blanked for,
and when:

- `GraceHasItsTick`: `Gentle` implies `Spec => []GraceIsDriven`;
- `OneBlankAtATime`: `Gentle` implies `Spec => []BlankRunsAlone`;
- `OnlyVacancyBlanks`: `Gentle` implies `Spec => BlankIsLicensed`, an action property;
- `PresenceIsSeen`: `Unforced` implies `Spec => []NeverDarkWhilePresent`.

None of the four is inductive. That a tick blanks only a vacant, uninhibited display, owned
as far as its machine has been told (`AsFed`), follows from the countdown being frozen exactly while an overlay is on
(`Matched`); that holds only if no other phase carries a frozen countdown (`Frozen`), if a
running one has its tick (`Ripens`), if no blank is in flight that could be confirmed
meanwhile (`Solo`), and if a display without ownership is in no render phase (`Yields`).
Together they are `Sound`, and `Obeys` says of a handler that it keeps them and leaves
Grace for Active, if at all. `Law` is that of the display, and the proof has a lemma per
helper and handler again. `Gentle` is a hypothesis on what the display is given: no soft
blank by order, or no ownership that moves, or no render stage. It is not there for
convenience: a soft blank of an unowned display with a render stage, and the ownership
regained, carry a frozen countdown out of Grace, which is where the code's own assertion
fails (section 6). `Unforced` is what the run of `NeverDarkWhilePresent` assumes as well: an
operator may darken an occupied room.

Its third part is about the generations by which the machine tells late results and stale
stage ticks from live ones:

- `ResultsAreTold`: `Spec /\ []GensLeft => []InFlightGensDiffer`;
- `StaleTicksAreTold`: without `ForceBlank`, `Spec /\ []GensLeft => []LiveStageTickIsRecorded`.

The code's counters are of 64 bits and wrap; `GensLeft` says that they do not come round to
a number that is still in use: the next two of the commands and the next of the stages
number nothing in flight or in the wheel. Two, because a turn may send two commands: the
loss of ownership that is fed to the machine first wakes the panel, and the handler then
sends its own. The inductive invariant is `Numbered`. That the numbers in use differ
(`Differ`) carries over by itself, but what a stale tick is does not: `Marked` says that while a stage is being
reached (Blanking, RenderPending) no tick has its generation yet, and that once it is
reached a tick with its generation has the deadline that is recorded, and there is none if the
stage has no dwell. A handler either uses no generation and stays where it is or ends in
Active, Grace or Waking, where the next stage gets a new one (`Tame`), or uses one of
either kind (`Issues`). Without the hypothesis on `ForceBlank` `Marked` is false, which is what
`DisplayStale` shows (section 5).

Its fourth part is about the length of the vacancy before a blank:

- `VacancyIsServed`: `Unhurried` implies `Spec => GraceIsServed`, an action property.

A tick of Grace is set for its whole period, so this seems to hold at once; it does not, since
time passes the loop by. A result is handled as of the turn before it (`lag`), and a tick as of its
deadline; a countdown that such a step starts begins in the past. The inductive invariant
is `Timely`: what is left of the countdown and the vacancy so far make up the Grace period
(`Covers`), frozen or not; the loop is behind no longer than the zone has been vacant, nor than any
task in flight is old; the end of a pause is in the wheel and not past, and neither is a hold
nor any stage tick. The ticks of a display can be behind, though: regained ownership puts the old
end of Grace back into the wheel, and a late result a retry. `Served` says why none of these starts a
countdown too early: a tick that is behind finds no Blanked panel, or a blank just sent, or a render
stage that a served Grace has reached.

`Unhurried` asks two things of the configuration and of the operator, and the invariant needs
both; TLC refutes `GraceIsServed` on an instance without the first, and on one without the second. A dwell shorter than a command may take: the result
of the last blank is handled late, the stage tick it sets is behind by then, and if the zone becomes
vacant in between, the ladder starts over with a Grace that began before that. A soft
blank by order, during Grace and with a tick left behind: the loss of ownership is
noticed at that tick, which gives the panel back to a Grace that begins at its deadline. `Unhurried`
implies `Gentle`, and the run `DisplayGrace` satisfies it.

`ExecutorProofs` proves, for every set of calls, every chain and any number of retries
(`ChainAssumption`), whatever the controllers answer:

- `TypeCorrect`: `ExecSpec => []ExecTypeOK`;
- `IsSink`: `ExecSpec => Sink!Safety`, that the executor implements the initial states and
  the steps of `CommandSink`;
- `RegistryAnswers`: `ExecSpec => OwnerAnswers`.

For `IsSink` each step is mapped to the acceptance or the answer of a call or to a
stutter (`StepRefines`); the types are enough. The liveness half of `CommandSink!Spec` is
left to TLC (`ImplementsSink`). That what a wake has read of the owner stays true
(`OwnerStays`) is not inductive: `IInv` adds that of the calls that run only the newest is
not cancelled (`Newest`), that no blank runs beside a wake that is not and found none
(`Apart`), and that the controller such a wake has reached keeps the panel dark no longer
(`Lit`). Nothing is assumed of the calls: that `OwnerAnswers` speaks of the wakes that found
no blank under way is part of its statement. Those are all the wakes of the machine, as
`OneBlankAtATime` proves; what becomes of the others is section 5.

`VcpBusProofs` proves, for every finite set of threads and every set of panels and
RealVcp states (`BusAssumption`):

- `TypeCorrect`: `Spec => []TypeOK`, with it that no count is ever negative;
- `Counted`: `Spec => []AnnouncementsAreCounted` (only proved, no run repeats it);
- `Serialized`: `Spec => []BusIsSerialized`;
- `OneOwner`: `Spec => []HandleHasOneOwner`;
- `NoOvertaking`: `Spec => SamplerNeverOvertakes`;
- `RetiredCacheIsDrained`: `Spec => []RetiredIsDrained`.

The inductive invariant `IInv` has six parts, with one lemma each and in it one step
per action: `Shape` (the types, with counts that might be negative), `Placed` (what a
thread at a place does: only commands announce, only an operation in progress has a
handle), `Gated` (who is on the bus has the gate), `CheckedOut` (what a thread
inside the gate has taken, or found missing, is not cached), `Retirement` (a teardown has only what
nobody can reach any more, and what nobody can reach and still holds a handle has one) and the
count of the waiting commands, by the cardinality of a set that one thread joins or leaves. That a count is
a natural number follows from the last part, and so does that the second check of a
sampler reads zero only if no command waits.

`StartProofs` proves of the gamma tables, for every set of screens and of processes and any number of mishaps
(`GammaAssumption`):

- `GammaTypeCorrect`: `GammaSpec => []GammaTypeOK`;
- `WayBack`: `GammaSpec => []DarkHasWayBack`.

`DarkHasWayBack` is not inductive: nothing in it keeps a recovery from removing a
breadcrumb that a dark screen needs. `GammaInv` adds that the breadcrumb names every screen
that is dark or about to be (`Marked`), that everything is lit from the restore of a
process to its flock unless a blank has crossed it (`Clean`), that a screen whose
breadcrumb is about to be removed is lit (`Stages`), and that the flock is with a process
that serves (`Served`). No fairness is used.

`RenderProofs` proves, for any number of shows and of blend timers, any length of a fade and
any sizes (`RenderAssumption`, `SessionAssumption`):

- `Honest`: `RenderSpec => []OverlayIsHonest`;
- `OwnTimeouts`: `RenderSpec => TimeoutsAreOwn`.

`OverlayIsHonest` relates what is on the screen to the session behind it, and says nothing of
the states from which a handler could break that. `Anchored` does: a pending show and a live
surface exclude each other, no session without a surface, nothing beside an unplugged
output, a session belongs to a screensaver show, has the size of the surface unless an
upset came between, and a fade that runs has steps left. The types are cut into three parts
(`ShowsOK`, `PictureOK`, `SessionOK`), since no handler touches all of them, and the one show that
waits is said show by show (`Waits`).

`StartProofs` proves of the boot guard, for any number of instances and configs, every window and threshold
and any number of mishaps (`BootAssumption`):

- `BootTypeCorrect`: `BootSpec => []BootTypeOK`;
- `OnlyProven`: `BootSpec => LkgIsProvenUnlessRaced`;
- `OneDaemon`: at most one process is past the single-instance lock (only proved).

`IInv` says of every process by itself what it has read and holds: which config it runs or is
about to (`Placed`), that the operator's file is still the one it has read unless it is late
(`Fresh`), and that its candidate is what runs unless it was raced, and no older than its
run (`Proven`). A promotion then writes bytes that have run for the stability window.

`CoordinationProofs` proves, for any codes, number of confirmations, flap limit and number of
pulls (`CoordinationAssumption`):

- `TypeCorrect`: `CoordSpec => []CoordTypeOK`;
- `Earned`: `CoordSpec => VerdictIsEarned`, an action property.

The verdict turns over when the count of the candidate is full; that the count is one of
readings in a row is `Earning`: a candidate is of the side that the verdict denies, and its
count is at most the streak. `Standing` is what the record says of itself: a contested
panel is not ours and has no candidate, one seen with the peer is ours, and too few changes
are remembered to be contested. A lemma per function of `coordination.rs` keeps it.

`OperationsProofs` proves, for any displays, rules, requests and faults and any number of
reloads (`OperationsAssumption`, and `SendingAssumption`: `Nobody` is no message):

- `TypeCorrect`: `OpsSpec => []OpsTypeOK`;
- `Apart`: `OpsSpec => []LeasedOperationsAreApart`;
- `Accounted`: `OpsSpec => []LeasesAreAccounted`.

That operations keep apart says nothing of who holds what. `Registry` says that the leases do
not conflict, have different ids below the next one and are of the engine's generation;
`Owned` that every holder has a lease of its kind and target and every lease a holder, a
stamp on its way being one; `Single` that no two holders have the same. The holders then
inherit the leases' freedom of conflict. A stamp is granted by the generation of the door,
which after a reload is not always the engine's (section 5): `Shut` says that it then is one
that quiesces and grants nothing. `Counted` bounds the generations by the reloads, and
`Messages` is what a message may ask for. The steps fall into four kinds: those that touch
neither lease nor holder (`Untouched`), those that grant (`Granting`, `Stamping`), those
that hand a lease on (`Dequeued`, `Taking`, `Replacing`) and those that drop it
(`ReleaseKeeps`); a generation that is torn down has none (`Leaseless`).

`ZoneProofs` proves, for any sensors, zones, rules and displays, any nesting without a
cycle, any weights, policies, hold times and timeouts (`ZoneAssumption`):

- `TypeCorrect`: `ZoneSpec => []ZoneTypeOK`;
- `MachinesCurrent`: `ZoneSpec => []MachinesAreCurrent`;
- `HoldKept`: `ZoneSpec => []HoldIsKept`;
- `SilenceNoticed`: `ZoneSpec => []SilenceIsNoticed`.

The first half of `MachinesAreCurrent` is the one place where the order of the zones matters:
`apply` goes through them once, so a zone is right only if all of its members were settled
before it (`ChildrenFirst`) and none of them is visited again (the order has each zone once).
That is an invariant of the loop, and the loops over the zones and over the sensors are
recursive functions of the number of rounds. The provers cannot instantiate the induction
theorems; `UpTo` gets round them: if something holds at first and each round keeps it, then
there is no first round after which it does not, by the well-foundedness of the naturals.
`LoopExists` builds the rounds in the same way, which is needed to know that such a
function is what its definition says.

The other two are not inductive. That an absence held back is not lost needs that a timer
waits for every hold, and that the hold and the time since the presence that armed it add
up (`Armed`), that an absence waits exactly while it is the last word and the hold is armed
(`Disarmed`), and that otherwise the last word is what counts (`Counted`). There the validation
of the config is needed: with a hold longer than the timeout, a sweep would end the
absence that is waiting. That silence is noticed needs how old a lease, and what the engine has
seen, can be (`Leased`), and that the next sweep is soon enough (`InTime`). `ZoneInv` is all
of them; a sweep keeps the parts of every sensor because it hears `unavailable` of one at
a time, and hearing of one sensor disturbs no other.

The hypotheses of all these theorems are the named assumptions of the modules, which TLC
evaluates, `Gentle`, `Unhurried` and `Unforced`, which the runs of the same properties satisfy, and
`GensLeft`. The last is no invariant of the runs, whose counters are so small that they do come round:
there `StageGensLeft` bounds the stages, `MaxTasks` the commands in flight, and the properties are
checked across the wrap. No fairness is used.

Only model-checked, with the reason:

- all liveness (`WakesComplete`, `VacancyDarkens`, `ShowIsAnswered`, `CommandIsServed`,
  `RollbackEnds`, `FrontDoorReopens`, `OperationsEnd`, `VerdictSettles`, `ReturnIsAnswered`,
  `OrphansAreLit`, the fairness in `ImplementsSink`): out of the prover's reach;
- `PanelFollowsPhase`: it relates the panel to the latencies of the tasks in flight, and
  holds for periods that are long enough;
- that a forgotten type in a composed module (`PathTypeOK`, `DaemonTypeOK`) is a type of its
  parts: the four parts of `DaemonTypeOK` and the two of `PathTypeOK` are proved, and so is
  `ZoneTypeOK`.

## 5. Divergences found

Each is a run that TLC refutes; `PROJECT.json` quotes the text.

- `DisplayStarved`: every wake schedules its own retry tick, and so does every
  failure; the ticks multiply, and every retry supersedes the wake in flight. If a
  wake takes as long as the ticks are apart, a panel that would wake never does.
- `DisplayDwell`: a pause that ends by its deadline does not thaw the dwell of a
  staged display.
- `DisplayStale`: `ForceBlank` in a render stage leaves the stage tick of that stage
  valid; once blanked the ladder restarts.
- `DisplayYield`: a blank confirmed after the loss of ownership enters Blanked.
- `OwnerMoves`: a wake that bypasses the machine and starts beside a blank cancels a token at which
  the blank never looks; the blank then records its controller, and the owner has changed out from
  under the running wake, against the comment in `wake`.
- `ReloadDoor`: an accepted reload hands the router the id of the generation that it has
  just closed to operations; from then on no operation is stamped, and the next reload
  does not wait for emergency wakes.
- `ReloadDark`: a reload that fails after the teardown starts the old generation's
  machines in Active, whatever its panels show, and wakes none.

## 6. Known limits of the code that no run states

Found with the model or by reading, listed under `hazards`:

- a `SoftBlank` in a staged display spawns a teardown and a show that may be executed
  in either order, and `handle_teardown` does not look at the generation: the machine
  can be Staged with no surface up;
- the debug assertion that a frozen countdown is only seen in Grace
  (`state_machine.rs:1187`) is reached after a soft blank of an unowned display and a
  regained ownership;
- `min_wake_time` is measured from the late `now_tick` of the wake's result;
- a `ForceBlank` in Waking whose blank fails ends in Active;
- `InhibitorChanged(false)` in Staged re-arms a dwell that was not frozen with nothing
  left, even while paused; a stage tick dropped in Blanked is not scheduled again;
- the bound of `ddc_lock.rs` ("a wake waits for at most one transaction already in
  flight at its arrival") is about the panel lock; at the process-wide gate behind it a
  command may wait for several transactions and scans of other panels;
- the pass after reprobing does not begin with the owner, against the field's doc
  ("the owner is always attempted first");
- two rules that share a display each send it their own inhibitor and pause; the last
  to change overwrites the other's (`rules.rs:1973`);
- a zone with `unavailable_policy = "absent"` is absent from the start, so the first
  absent report of its sensors is no change, no edge is sent, and the display stays
  lit after a start or reload until somebody has come and gone;
- an absence that is replayed at the end of a hold counts as a sight of the sensor, so
  a sensor that died during a hold is noticed a hold later;
- a cancelled exercise is not aborted: its sequence runs on beside the teardown and the
  next generation (the test at `dormantd/tests/daemon_smoke.rs:923` is named
  `exercise_during_reload_finishes_or_cancels_before_teardown`; `QuietHoldsNoLease` says
  what is left);
- the end of an exercise resumes its rules although an operator or an emergency wake
  has paused them meanwhile, its restore step blanks a panel that presence has woken
  since, and pauses are lost in a reload;
- the snapshot of a reload is taken before the operations are quiesced, so a display
  that blanks in between is neither restored nor woken;
- a control message that was routed without a stamp and not yet sent is lost with the
  engine it was meant for;
- the bytes that are promoted to last known good are read from the file when the daemon
  has started, not when it read its config: an edit in between promotes bytes that have
  never run (`LkgIsProvenUnlessRaced` names the exception);
- `mark_owned_immediate` is given the code that was written, not the one that was read
  back, against its doc (`coordination.rs:566-572`): on a panel whose write code is an
  alias the next reading is a disagreement (`AgreedOn`), which the doc says it avoids;
- the observed gain hook can run for a pull of the daemon's own: when the poll commits the
  gain between the pull's write and its mark, or when a reading of the peer that was taken
  before the pull is recorded after its mark and so becomes a visit that is over;
  `docs/src/multi-machine.md:290` says it does not;
- a pull marks the display owned after its `after_acquire` hooks, so a peer that takes the
  panel while they run is overruled until the debounce has found out;
- while a claim is in flight a loss of ownership is not fed (`rules.rs:2464-2475`), so a Grace
  period that ends in those five seconds blanks a panel that the gate says is the peer's,
  against the doc of `step_one` ("so the machine's `owned` flag always reflects the gate's
  current verdict", 2380-2381): without `claimed` in its licence `BlankIsLicensed` fails;
- a loss that is committed while a claim suppresses it is told with the next input of the
  display only; the suppression's end feeds nothing (`VerdictSettles` excepts it by
  `hides`), and the clear of one pull lifts the suppression of another;
- a stray second instance decides and writes the rollback pair before it finds the lock
  taken; the service recovers from what it wrote (`SoundLkgRescues`);
- the recovery of the gamma tables shares no lock with the blanks: a blank that falls
  between the restore and the removal of the breadcrumb, at shutdown (the engine's command
  tasks are not joined before it) or when a second instance starts, is dark with no
  breadcrumb; a breadcrumb that cannot be read is overwritten by the next blank with that
  blank's selector alone, and is gone with its wake (`crossed`);
- a gamma blank whose confirmation and rollback both fail leaves the screen dark without a
  hold: the wakes of this daemon answer Ok and do nothing (`stranded`), and the blanks refuse;
- the restore of `dormantctl emergency-wake` leaves the daemon's holds in place: the next
  blank of that screen answers Ok and leaves it lit;
- an item that ends in the middle of a fade leaves its blend timer in the loop:
  `process_mpv_events` forgets the token (`state.rs:668`) before `on_mpv_wakeup` cancels the
  timer (2331), and the next fade arms another, against "already-armed timer is replaced,
  not duplicated" (2476); the fade then runs faster, and the timers end only when their
  session does;
- the live arm of `configure` (4545-4560) never calls `complete_pending_show`, so the
  rebuild of a screensaver's buffers after a resize (1657-1674) is out of reach and the
  session goes on at the old size;
- a show that fails by its first-frame deadline leaves a black overlay up until the
  teardown that the machine sends when it advances;
- when the operator's file is edited to the very bytes of the last known good config
  during a rollback, the reload finds nothing to do and the rollback is never
  declared over.

## 7. Not modelled

In the components that are modelled or partly so: inhibitors of several rules on one
display, controller health, `probe_all` and read-back, a changed chain fingerprint; in
the reload a snapshot that the engine does not answer (`request_snapshot` is then `None` and
nothing is restored), a send that fails while the front door is being installed (the engine
has died meanwhile: `install_generation` gives up at `app.rs:5716` and the door stays
paused, which `FrontDoorReopens` therefore does not cover), the executors' watch, `reconcile_shared` and the batching of requests; in the
overlay pixels, pixel shift and item reports; in the
coordination what the hooks themselves do, the gates that make a pull do nothing (already
local, cooling down), reprobing, activity-follow, a control channel that is full (the
messages of a pull are sent with `try_send`), and two pulls at a time in the run.

Most of the repository is code in which there is little to check: device protocols
(`samsung_*`, `kwin_dpms`, the other `macos_*`), sensors and platform activity sources are the
environment of these models and may do anything in them; the web interface, the tray,
the command line, the doctor and the state publisher format, parse and forward; the
validation of a config is a pure function of a file whose results the models take as
assumptions on their constants; wear accounting and the sampler are arithmetic over
floats. `PROJECT.json` gives the reason for each component.

## 8. Plan

Done: the display, the executor and the bus; zones with holds and staleness; operations
and reload; the boot guard; coordination and pulls; gamma blanking; the overlay thread. Left, in this order:

1. `Coordination` composed with `DisplayRuntime` in place of its free
   `OwnershipFlips`, with `reconcile_shared` and activity-follow.
2. The reload composed with `DisplayExecutor`: commands of the old generation in flight,
   the owner registry shared between the executors of two generations.
3. `RenderSurface` composed with `DisplayRuntime` in place of its `surface` flag.
4. Theorems to add about what exists: in `DisplayRuntime`,
   `PanelFollowsPhase` under bounds on the latencies of the tasks.
