----------------------------- MODULE Operations -----------------------------
(***************************************************************************)
(* The hardware operations of the daemon and the reload that has to wait   *)
(* for them: the operation registry, the exercise and the emergency wake   *)
(* of the rules engine (crates/dormant-core/src/rules.rs), the front door  *)
(* that routes and stamps control messages, and Runner::reload             *)
(* (crates/dormantd/src/app.rs).                                           *)
(*                                                                         *)
(* A blank or a wake of the state machine is one step here, of the machine *)
(* and its panel together: what lies between them is DisplayRuntime's      *)
(* subject.  The old and the new config have the same displays and the     *)
(* same rules; what a reload may change is how a display that no rule      *)
(* drives is commanded, which sends it through the same verified wake as a *)
(* display that is removed.                                                *)
(***************************************************************************)
EXTENDS Integers, Sequences, FiniteSets

CONSTANTS
  Displays,
  Rules,
  RuleDisplays,   \* RulesEngine::rule_displays
  Nobody,         \* no display, no rule, no operation
  Faults,         \* what may fail: "command" of an operation or a defensive
                  \*   wake, "verify", "spawn", "rebuild", "barrier", "panic"
  Requests,       \* the requests made at the front door: <<kind, target>>
  MaxRequests,    \* bound: requests
  MaxReloads      \* bound: reloads

ASSUME OperationsAssumption ==
  /\ Nobody \notin Displays \cup Rules \cup Nat
  /\ RuleDisplays \in [Rules -> SUBSET Displays]
  /\ Requests \subseteq ({"exercise"} \X Displays) \cup {<<"emergency", Nobody>>}
                        \cup ({"pause", "resume"} \X (Rules \cup {Nobody}))
  /\ MaxRequests \in Nat /\ MaxReloads \in Nat

VARIABLES
  leases,       \* OperationState::active
  quiescing,    \* OperationState::quiescing
  door,         \* the control router: GenerationRouterState
  sending,      \* the message route_control has stamped and not yet sent
  channel,      \* the engine's control channel
  engine,       \* the engine
  panel,        \* what the panels show
  results,      \* ExerciseResume results on their way to the engine
  exercises,    \* the exercise sequences, their supervisors included
  emergencies,  \* the emergency wakes under way
  wakes,        \* the defensive wakes under way
  reload        \* Runner::reload

opsVars == <<leases, quiescing, door, sending, channel, engine, panel,
             results, exercises, emergencies, wakes, reload>>

Generations == 0 .. MaxReloads
Ids         == Nat
Kinds       == {"exercise", "emergency", "pause", "resume"}

\* OperationKind is the kind of the message and its target.
Lease   == [id : Ids, gen : Generations, kind : {"exercise", "emergency"},
            target : Displays \cup {Nobody}, cancelled : BOOLEAN]
Message == [kind : Kinds, target : Displays \cup Rules \cup {Nobody},
            op : Ids \cup {Nobody}]        \* the operation it is stamped with
Engine  == [up : BOOLEAN, gen : Generations,
            started : 0 .. MaxReloads,     \* which engine of the daemon this is
            dark : SUBSET Displays,        \* the machines that are not Active
            paused : SUBSET Displays,
            asked : SUBSET Displays]       \* history: the pauses that were asked for
Exercise == [id : Ids, gen : Generations, started : 0 .. MaxReloads,
             display : Displays, pre : {"active", "dark"},
             step : {"blank", "wake", "restore", "over"},
             watch : {"waiting", "waking", "gone"}]
Emergency == [id : Ids \cup {Nobody}, started : 0 .. MaxReloads,
              left : SUBSET Displays]
Resume   == [rules : SUBSET Rules, gen : Generations]
Reload   == [pc : {"idle", "snapped", "paused", "waiting", "cancelling", "busy",
                   "quiet", "drained", "torn", "exited",
                   "returning", "restoring", "installing"},
             dark : SUBSET Displays,       \* the dark displays of the snapshot
             verify : SUBSET Displays,     \* still to be woken by the old executor
             count : 0 .. MaxReloads]

\* Nobody is no message either.
ASSUME SendingAssumption == Nobody \notin [message : Message, to : 0 .. MaxReloads]

OpsTypeOK ==
  /\ leases \subseteq Lease
  /\ quiescing \subseteq Generations
  /\ door \in [paused : BOOLEAN, gen : Generations, queue : Seq(Message),
               requests : 0 .. MaxRequests, next : Ids]
  /\ sending \in [message : Message, to : 0 .. MaxReloads] \cup {Nobody}
  /\ channel \in Seq(Message)
  /\ engine \in Engine
  /\ panel \in [Displays -> {"on", "off"}]
  /\ results \subseteq Resume
  /\ exercises \subseteq Exercise
  /\ emergencies \subseteq Emergency
  /\ wakes \subseteq Displays
  /\ reload \in Reload

OpsInit ==
  /\ leases = {} /\ quiescing = {}
  /\ door = [paused |-> FALSE, gen |-> 0, queue |-> <<>>, requests |-> 0, next |-> 0]
  /\ sending = Nobody /\ channel = <<>>
  /\ engine = [up |-> TRUE, gen |-> 0, started |-> 0,
               dark |-> {}, paused |-> {}, asked |-> {}]
  /\ panel = [d \in Displays |-> "on"]
  /\ results = {} /\ exercises = {} /\ emergencies = {} /\ wakes = {}
  /\ reload = [pc |-> "idle", dark |-> {}, verify |-> {}, count |-> 0]

May(fault) == fault \in Faults

-----------------------------------------------------------------------------
(* The registry.                                                           *)

ConflictsOfAKind(lease, gen, kind, target) ==
  lease.gen = gen /\ lease.kind = kind /\ lease.target = target
Conflicts(lease, gen, kind, target) ==
  /\ lease.gen = gen
  /\ ~(kind = "exercise" /\ lease.kind = "exercise" /\ lease.target # target)

\* try_acquire
GrantsWhileQuiescing(held, gen, kind, target) ==
  \A lease \in held : ~Conflicts(lease, gen, kind, target)
Grants(held, gen, kind, target) ==
  /\ gen \notin quiescing
  /\ \A lease \in held : ~Conflicts(lease, gen, kind, target)

NewLease(id, gen, kind, target) ==
  [id |-> id, gen |-> gen, kind |-> kind, target |-> target, cancelled |-> FALSE]

Held(gen) == {lease \in leases : lease.gen = gen}

Without(id) == {lease \in leases : lease.id # id}

\* stamp_control_operation: of the messages that ask for an operation, one
\* that the registry refuses passes as it is.
Stampable(message) ==
  /\ message.kind \in {"exercise", "emergency"}
  /\ Grants(leases, door.gen, message.kind, message.target)

Stamped(message) ==
  IF Stampable(message) THEN [message EXCEPT !.op = door.next] ELSE message

\* What the registry makes of it.
Stamps(message) ==
  IF Stampable(message)
  THEN [leases |-> leases \cup {NewLease(door.next, door.gen, message.kind, message.target)},
        next |-> door.next + 1]
  ELSE [leases |-> leases, next |-> door.next]

-----------------------------------------------------------------------------
(* The front door.                                                         *)

\* install_generation holds the router's lock while it sends what was queued.
Flushing == reload.pc \in {"returning", "restoring", "installing"}

\* route_control up to the release of the lock: queue, or stamp.  One task
\* forwards the requests, one after the other.
Route(kind, target) ==
  /\ sending = Nobody /\ door.requests < MaxRequests
  /\ reload.pc # "exited" /\ ~Flushing
  /\ LET message == [kind |-> kind, target |-> target, op |-> Nobody]
         counted == [door EXCEPT !.requests = @ + 1]
     IN IF door.paused
        THEN /\ door' = [counted EXCEPT !.queue = Append(@, message)]
             /\ UNCHANGED <<leases, sending>>
        ELSE /\ sending' = [message |-> Stamped(message), to |-> engine.started]
             /\ leases' = Stamps(message).leases
             /\ door' = [counted EXCEPT !.next = Stamps(message).next]
  /\ UNCHANGED <<quiescing, channel, engine, panel, results, exercises,
                 emergencies, wakes, reload>>

\* The rest of route_control.  The channel of an engine that is gone takes
\* the message with it.
Send ==
  /\ sending # Nobody
  /\ channel' = IF engine.up /\ sending.to = engine.started
                THEN Append(channel, sending.message) ELSE channel
  /\ sending' = Nobody
  /\ UNCHANGED <<leases, quiescing, door, engine, panel, results, exercises,
                 emergencies, wakes, reload>>

-----------------------------------------------------------------------------
(* The engine.                                                             *)

Covered(rule) == IF rule = Nobody THEN Displays ELSE RuleDisplays[rule]

RulesOf(display) == {r \in Rules : display \in RuleDisplays[r]}

Paused(displays) == [engine EXCEPT !.paused = @ \cup displays]
Resumed(displays) == [engine EXCEPT !.paused = @ \ displays]

HandlePause(m) ==
  /\ engine' = [Paused(Covered(m.target)) EXCEPT !.asked = @ \cup Covered(m.target)]
  /\ UNCHANGED <<leases, door, exercises, emergencies>>

HandleResume(m) ==
  /\ engine' = [Resumed(Covered(m.target)) EXCEPT !.asked = @ \ Covered(m.target)]
  /\ UNCHANGED <<leases, door, exercises, emergencies>>

HandleEmergencyWakeUnadopted(m) ==
  /\ engine' = [Paused(Displays) EXCEPT !.asked = Displays]
  /\ emergencies' = emergencies \cup
       {[id |-> Nobody, started |-> engine.started, left |-> Displays]}
  /\ UNCHANGED <<leases, door, exercises>>

\* handle_emergency_wake: without a lease when the message has no stamp.
HandleEmergencyWake(m) ==
  /\ engine' = [Paused(Displays) EXCEPT !.asked = Displays]
  /\ emergencies' = emergencies \cup
       {[id |-> m.op, started |-> engine.started, left |-> Displays]}
  /\ UNCHANGED <<leases, door, exercises>>

\* handle_exercise: adopt the lease of the stamp, or try to acquire one; a
\* display that is exercised already refuses.
HandleExercise(m) ==
  LET adopts   == m.op # Nobody /\ \E lease \in leases : lease.id = m.op
      acquires == ~adopts /\ Grants(leases, engine.gen, "exercise", m.target)
      id       == IF adopts THEN m.op ELSE door.next
  IN IF ~adopts /\ ~acquires
     THEN UNCHANGED <<leases, door, engine, exercises, emergencies>>
     ELSE /\ leases' = IF adopts THEN leases
                       ELSE leases \cup {NewLease(id, engine.gen, "exercise", m.target)}
          /\ door' = IF adopts THEN door ELSE [door EXCEPT !.next = @ + 1]
          /\ engine' = Paused(UNION {RuleDisplays[r] : r \in RulesOf(m.target)})
          /\ exercises' = exercises \cup
               {[id |-> id, gen |-> engine.gen, started |-> engine.started,
                 display |-> m.target, step |-> "blank", watch |-> "waiting",
                 pre |-> IF m.target \in engine.dark THEN "dark" ELSE "active"]}
          /\ UNCHANGED emergencies

HandleControl ==
  /\ engine.up /\ channel # <<>>
  /\ LET m == Head(channel)
     IN CASE m.kind = "pause"     -> HandlePause(m)
          [] m.kind = "resume"    -> HandleResume(m)
          [] m.kind = "emergency" -> HandleEmergencyWake(m)
          [] m.kind = "exercise"  -> HandleExercise(m)
  /\ channel' = Tail(channel)
  /\ UNCHANGED <<quiescing, sending, panel, results, wakes, reload>>

\* handle_internal_result, ExerciseResume
HandleExerciseResume(r) ==
  /\ engine.up /\ r \in results
  /\ results' = results \ {r}
  /\ engine' = IF r.gen = engine.gen
               THEN Resumed(UNION {RuleDisplays[rule] : rule \in r.rules})
               ELSE engine
  /\ UNCHANGED <<leases, quiescing, door, sending, channel, panel, exercises,
                 emergencies, wakes, reload>>

\* A vacancy is served, unless the display is paused; a presence always is.
MachineBlanks(d) ==
  /\ engine.up /\ d \notin engine.dark \cup engine.paused
  /\ engine' = [engine EXCEPT !.dark = @ \cup {d}]
  /\ panel' = [panel EXCEPT ![d] = "off"]
  /\ UNCHANGED <<leases, quiescing, door, sending, channel, results, exercises,
                 emergencies, wakes, reload>>

MachineWakes(d) ==
  /\ engine.up /\ d \in engine.dark
  /\ engine' = [engine EXCEPT !.dark = @ \ {d}]
  /\ panel' = [panel EXCEPT ![d] = "on"]
  /\ UNCHANGED <<leases, quiescing, door, sending, channel, results, exercises,
                 emergencies, wakes, reload>>

-----------------------------------------------------------------------------
(* The tasks of the operations.                                            *)

\* The outcome of a command that is to leave the panel of d in state s.
Command(d, s) ==
  panel' \in {[panel EXCEPT ![d] = s]} \cup (IF May("command") THEN {panel} ELSE {})

Replace(e, f) == (exercises \ {e}) \cup {f}

AfterStep == [blank |-> "wake", wake |-> "restore", restore |-> "over"]

\* run_exercise_sequence
ExerciseStep(e) ==
  /\ e \in exercises /\ e.step # "over"
  /\ Command(e.display, IF e.step = "blank" \/ (e.step = "restore" /\ e.pre = "dark")
                        THEN "off" ELSE "on")
  /\ LET f == [e EXCEPT !.step = AfterStep[e.step]]
     IN exercises' = IF f.step = "over" /\ f.watch = "gone"
                     THEN exercises \ {e} ELSE Replace(e, f)
  /\ UNCHANGED <<leases, quiescing, door, sending, channel, engine, results,
                 emergencies, wakes, reload>>

ExercisePanicsUnsupervised(e) ==
  /\ e \in exercises /\ e.step # "over" /\ May("panic")
  /\ exercises' = exercises \ {e}
  /\ UNCHANGED <<leases, quiescing, door, sending, channel, engine, panel,
                 results, emergencies, wakes, reload>>

\* The sequence panics: its supervisor, if it still waits, wakes the display.
ExercisePanics(e) ==
  /\ e \in exercises /\ e.step # "over" /\ May("panic")
  /\ exercises' = CASE e.watch = "gone"    -> exercises \ {e}
                    [] e.watch = "waking"  -> Replace(e, [e EXCEPT !.step = "over"])
                    [] e.watch = "waiting" -> Replace(e, [e EXCEPT !.step = "over",
                                                                  !.watch = "waking"])
  /\ UNCHANGED <<leases, quiescing, door, sending, channel, engine, panel,
                 results, emergencies, wakes, reload>>

Cancelled(id) == \E lease \in leases : lease.id = id /\ lease.cancelled

\* run_supervised_exercise_cancellable: the lease is cancelled; the handle of
\* the sequence is dropped, and the sequence runs on.
ExerciseCancelled(e) ==
  /\ e \in exercises /\ e.watch = "waiting" /\ Cancelled(e.id)
  /\ exercises' = Replace(e, [e EXCEPT !.watch = "waking"])
  /\ UNCHANGED <<leases, quiescing, door, sending, channel, engine, panel,
                 results, emergencies, wakes, reload>>

ReleaseQuietly(e) ==
  /\ results' = IF engine.up /\ e.started = engine.started /\ e.watch = "waiting"
                THEN results \cup {[rules |-> RulesOf(e.display), gen |-> e.gen]}
                ELSE results
  /\ leases' = Without(e.id)
  /\ exercises' = IF e.step = "over" THEN exercises \ {e}
                  ELSE Replace(e, [e EXCEPT !.watch = "gone"])

\* The supervisor ends: the pause guard reports and the lease is dropped.  A
\* report to an engine that is gone is lost.
Release(e) ==
  /\ results' = IF engine.up /\ e.started = engine.started
                THEN results \cup {[rules |-> RulesOf(e.display), gen |-> e.gen]}
                ELSE results
  /\ leases' = Without(e.id)
  /\ exercises' = IF e.step = "over" THEN exercises \ {e}
                  ELSE Replace(e, [e EXCEPT !.watch = "gone"])

ExerciseReports(e) ==
  /\ e \in exercises /\ e.watch = "waiting" /\ e.step = "over"
  /\ Release(e)
  /\ UNCHANGED <<quiescing, door, sending, channel, engine, panel, emergencies,
                 wakes, reload>>

\* ... after one wake of its own, when the sequence was cancelled or panicked.
ExerciseForcedAwake(e) ==
  /\ e \in exercises /\ e.watch = "waking"
  /\ Command(e.display, "on")
  /\ Release(e)
  /\ UNCHANGED <<quiescing, door, sending, channel, engine, emergencies, wakes,
                 reload>>

\* One wake per display, concurrently; the lease is dropped after the last.
EmergencyWakes(w, d) ==
  /\ w \in emergencies /\ d \in w.left
  /\ Command(d, "on")
  /\ LET f == [w EXCEPT !.left = @ \ {d}]
     IN /\ emergencies' = (emergencies \ {w}) \cup (IF f.left = {} THEN {} ELSE {f})
        /\ leases' = IF f.left = {} THEN Without(w.id) ELSE leases
  /\ UNCHANGED <<quiescing, door, sending, channel, engine, results, exercises,
                 wakes, reload>>

DefensiveWake(d) ==
  /\ d \in wakes
  /\ wakes' = wakes \ {d}
  /\ Command(d, "on")
  /\ UNCHANGED <<leases, quiescing, door, sending, channel, engine, results,
                 exercises, emergencies, reload>>

-----------------------------------------------------------------------------
(* Runner::reload.                                                         *)

Ruled == UNION {RuleDisplays[r] : r \in Rules}

At(pc) == reload.pc = pc
Goto(pc) == [reload EXCEPT !.pc = pc]

\* The snapshot; what the new config changes is known from here on.
ReloadBegin(changed) ==
  /\ At("idle") /\ reload.count < MaxReloads
  /\ reload' = [pc |-> "snapped", dark |-> engine.dark, count |-> reload.count + 1,
                verify |-> (changed \cap engine.dark) \ Ruled]
  /\ UNCHANGED <<leases, quiescing, door, sending, channel, engine, panel,
                 results, exercises, emergencies, wakes>>

\* ctl_router.pause
ReloadPause ==
  /\ At("snapped")
  /\ door' = [door EXCEPT !.paused = TRUE]
  /\ reload' = Goto("paused")
  /\ UNCHANGED <<leases, quiescing, sending, channel, engine, panel, results,
                 exercises, emergencies, wakes>>

\* begin_quiesce
ReloadQuiesce ==
  /\ At("paused")
  /\ quiescing' = quiescing \cup {engine.gen}
  /\ reload' = Goto("waiting")
  /\ UNCHANGED <<leases, door, sending, channel, engine, panel, results,
                 exercises, emergencies, wakes>>

\* wait_generation_empty returns in time.
ReloadQuiet ==
  /\ At("waiting") \/ At("cancelling")
  /\ Held(engine.gen) = {}
  /\ reload' = Goto("quiet")
  /\ UNCHANGED <<leases, quiescing, door, sending, channel, engine, panel,
                 results, exercises, emergencies, wakes>>

\* The first wait times out: cancel_generation.
ReloadCancel ==
  /\ At("waiting") /\ Held(engine.gen) # {}
  /\ leases' = (leases \ Held(engine.gen))
                 \cup {[lease EXCEPT !.cancelled = TRUE] : lease \in Held(engine.gen)}
  /\ reload' = Goto("cancelling")
  /\ UNCHANGED <<quiescing, door, sending, channel, engine, panel, results,
                 exercises, emergencies, wakes>>

\* GenerationRouter::install_generation: the route is there for gen, ...
Install(gen) == door' = [door EXCEPT !.gen = gen]

\* ... what is queued is stamped and sent, one message after the other, while
\* the engine takes them, ...
ReloadFlush ==
  /\ Flushing /\ door.queue # <<>>
  /\ LET m == Head(door.queue)
     IN /\ channel' = Append(channel, Stamped(m))
        /\ leases' = Stamps(m).leases
        /\ door' = [door EXCEPT !.queue = Tail(@), !.next = Stamps(m).next]
  /\ UNCHANGED <<quiescing, sending, engine, panel, results, exercises,
                 emergencies, wakes, reload>>

\* ... and the door opens.  After a new generation, defensive_wake.
ReloadOpen ==
  /\ Flushing /\ door.queue = <<>>
  /\ door' = [door EXCEPT !.paused = FALSE]
  /\ wakes' = IF At("installing") THEN wakes \cup (reload.dark \cap Ruled) ELSE wakes
  /\ reload' = Goto(IF At("returning") THEN "busy" ELSE "idle")
  /\ UNCHANGED <<leases, quiescing, sending, channel, engine, panel, results,
                 exercises, emergencies>>

\* The second wait times out too: the old generation gets its route back ...
ReloadBusy ==
  /\ At("cancelling") /\ Held(engine.gen) # {}
  /\ Install(engine.gen)
  /\ reload' = Goto("returning")
  /\ UNCHANGED <<leases, quiescing, sending, channel, engine, panel, results,
                 exercises, emergencies, wakes>>

\* ... and then end_quiesce.
ReloadReopen ==
  /\ At("busy")
  /\ quiescing' = quiescing \ {engine.gen}
  /\ reload' = Goto("idle")
  /\ UNCHANGED <<leases, door, sending, channel, engine, panel, results,
                 exercises, emergencies, wakes>>

\* quiesce_inputs and await_generation_barrier: the engine acknowledges the
\* barrier once it has drained its channel, or the daemon exits.
ReloadBarrier ==
  /\ At("quiet")
  /\ \/ channel = <<>> /\ reload' = Goto("drained")
     \/ May("barrier") /\ reload' = Goto("exited")
  /\ UNCHANGED <<leases, quiescing, door, sending, channel, engine, panel,
                 results, exercises, emergencies, wakes>>

\* teardown
ReloadTeardown ==
  /\ At("drained")
  /\ engine' = [engine EXCEPT !.up = FALSE]
  /\ channel' = <<>> /\ results' = {}
  /\ reload' = Goto("torn")
  /\ UNCHANGED <<leases, quiescing, door, sending, panel, exercises,
                 emergencies, wakes>>

\* An engine spawned with the snapshot: apply_restore keeps the phase of a
\* display that no rule drives; every other machine starts Active.
Spawned(gen) ==
  [up |-> TRUE, gen |-> gen, started |-> reload.count,
   dark |-> reload.dark \ Ruled, paused |-> {}, asked |-> {}]

RebuildOldUnrouted ==
  /\ engine' = Spawned(engine.gen)
  /\ reload' = Goto("idle")
  /\ UNCHANGED door

\* rebuild_old, then the receipt; its failure ends the daemon.
RebuildOld ==
  \/ /\ engine' = Spawned(engine.gen)
     /\ Install(engine.gen)
     /\ reload' = Goto("restoring")
  \/ /\ May("rebuild")
     /\ reload' = Goto("exited")
     /\ UNCHANGED <<engine, door>>

\* The verified wake of a display through its old executor.
ReloadVerify(d) ==
  /\ At("torn") /\ d \in reload.verify
  /\ \/ /\ panel' = [panel EXCEPT ![d] = "on"]
        /\ reload' = [reload EXCEPT !.verify = @ \ {d}]
        /\ UNCHANGED <<door, engine>>
     \/ May("verify") /\ RebuildOld /\ UNCHANGED panel
  /\ UNCHANGED <<leases, quiescing, sending, channel, results, exercises,
                 emergencies, wakes>>

\* The new generation is spawned and installed: install_generation runs
\* before generation_id moves on, so the router is given the old one.
ReloadInstall ==
  /\ At("torn") /\ reload.verify = {}
  /\ engine' = Spawned(engine.gen + 1)
  /\ Install(engine.gen)
  /\ reload' = Goto("installing")
  /\ UNCHANGED <<leases, quiescing, sending, channel, panel, results, exercises,
                 emergencies, wakes>>

ReloadSpawnFails ==
  /\ At("torn") /\ reload.verify = {} /\ May("spawn")
  /\ RebuildOld
  /\ UNCHANGED <<leases, quiescing, sending, channel, panel, results, exercises,
                 emergencies, wakes>>

ReloadStep ==
  \/ ReloadPause \/ ReloadQuiesce \/ ReloadQuiet \/ ReloadCancel
  \/ ReloadBusy \/ ReloadReopen \/ ReloadBarrier \/ ReloadTeardown
  \/ \E d \in Displays : ReloadVerify(d)
  \/ ReloadInstall \/ ReloadSpawnFails \/ ReloadFlush \/ ReloadOpen

-----------------------------------------------------------------------------
ExerciseTask(e) ==
  \/ ExerciseStep(e) \/ ExercisePanics(e) \/ ExerciseCancelled(e)
  \/ ExerciseReports(e) \/ ExerciseForcedAwake(e)

\* What the runtime does once it was asked: it schedules every task, timeouts
\* expire and commands are answered.
Progress ==
  \/ Send \/ HandleControl
  \/ \E r \in results : HandleExerciseResume(r)
  \/ \E e \in exercises : ExerciseTask(e)
  \/ \E w \in emergencies, d \in Displays : EmergencyWakes(w, d)
  \/ \E d \in wakes : DefensiveWake(d)
  \/ ReloadStep

OpsNext ==
  \/ \E r \in Requests : Route(r[1], r[2])
  \/ \E d \in Displays : MachineBlanks(d) \/ MachineWakes(d)
  \/ \E changed \in SUBSET Displays : ReloadBegin(changed)
  \/ Progress

OpsSpec == OpsInit /\ [][OpsNext]_opsVars /\ WF_opsVars(Progress)

-----------------------------------------------------------------------------
(* Properties.                                                             *)

\* Hardware is commanded under a lease, and the leases of the generation keep
\* the operations apart: while the supervisor of an exercise holds its lease
\* no other exercise that holds one commands the same display, and no
\* emergency wake that holds one commands any (OperationRegistry::try_acquire,
\* the adoption of a stamp, the release by the supervisor).
LeasedOperationsAreApart ==
  LET holding == {e \in exercises : e.watch # "gone"}
  IN /\ \A e, f \in holding : e.display = f.display /\ e.gen = f.gen => e = f
     /\ \A e \in holding, w \in emergencies : w.id = Nobody
     /\ \A v, w \in emergencies : v.id # Nobody /\ w.id # Nobody => v = w

\* The lease that the front door acquires for a stamp is nobody's until the
\* engine adopts it (mem::forget): a stamped message is on its way to the
\* engine of its generation, and its lease is still there when it arrives.
\* Were it not, no reload would ever be accepted again.
StampIsAdopted ==
  LET stamped == {m \in {channel[k] : k \in DOMAIN channel}
                        \cup (IF sending = Nobody THEN {} ELSE {sending.message})
                    : m.op # Nobody}
      owned   == {m.op : m \in stamped}
                   \cup {e.id : e \in {x \in exercises : x.watch # "gone"}}
                   \cup {w.id : w \in emergencies}
  IN reload.pc # "exited" =>
       /\ \A m \in stamped : \E lease \in leases : /\ lease.id = m.op
                                                   /\ lease.kind = m.kind
                                                   /\ lease.target = m.target
                                                   /\ lease.gen = engine.gen
       /\ \A lease \in leases : lease.id \in owned
       /\ sending # Nobody /\ sending.message.op # Nobody =>
            engine.up /\ sending.to = engine.started

\* When a generation is quiet it holds no lease and is granted none until it
\* has a new engine; the exercises that still run are ones the reload has
\* cancelled, and the emergency wakes ones that never had a lease.
QuietHoldsNoLease ==
  reload.pc \in {"quiet", "drained", "torn"} =>
    /\ Held(engine.gen) = {}
    /\ \A e \in exercises : e.watch = "gone"
    /\ \A w \in emergencies : w.id = Nobody

\* A lease is always somebody's, and nobody's once its generation is quiet.
LeasesAreAccounted == StampIsAdopted /\ QuietHoldsNoLease

\* A pause that only an exercise asked for ends, whatever becomes of the
\* caller, the sequence or the reload that cancels it.
ExercisePauseEnds ==
  \A d \in Ruled :
    []<>(d \notin engine.paused \ engine.asked \/ reload.pc = "exited")

\* Every reload comes to an end and the front door opens again, whatever was
\* running when it began: a request that was queued is delivered.
FrontDoorReopens ==
  []<>(~door.paused \/ reload.pc = "exited")

\* Every lease is dropped in the end, also one that was granted for a message
\* the engine had not seen yet; nothing is left for a reload to wait for.
LeasesEnd ==
  <>[](leases = {} \/ reload.pc = "exited")

\* What an exercise or an emergency wake took, the pause of the rules and the
\* lease, it gives back in the end.
OperationsEnd == ExercisePauseEnds /\ LeasesEnd

\* Outside a reload the front door stamps for the generation that the engine
\* belongs to, and that generation accepts operations.
OpenDoorIsCurrent ==
  reload.pc = "idle" => door.gen = engine.gen /\ door.gen \notin quiescing

\* A display that the reload found dark is not left dark behind a machine
\* that takes it for awake.
DarkIsNotForgotten ==
  /\ reload.pc = "idle" /\ exercises = {} /\ emergencies = {} /\ wakes = {}
  => \A d \in reload.dark : panel[d] = "off" => d \in engine.dark
=============================================================================
