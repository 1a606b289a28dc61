----------------------------- MODULE BootGuard -----------------------------
(***************************************************************************)
(* The boot guard of dormantd (crates/dormantd/src/boot_guard.rs, boot.rs  *)
(* and the last-known-good handling of the Runner in app.rs).              *)
(*                                                                         *)
(* What is on disk: the operator's config file, last-known-good.toml,      *)
(* crash-loop.json (the recorded starts and the rollback pair) and the     *)
(* discount-<nonce> files.  A process records its start and decides which  *)
(* config to build before it takes the single-instance lock, so a stray    *)
(* second instance runs the same code beside the live daemon.  A file's    *)
(* bytes are one value; a fingerprint is those bytes.  The nonce only ties *)
(* a start to the process that may still disown it and to its discount     *)
(* file, so a start carries that process and that file's age instead.      *)
(* Times are ages in ticks, and an age stops growing once it is past every *)
(* bound it is compared with.                                              *)
(***************************************************************************)
EXTENDS Integers, Sequences, FiniteSets

CONSTANTS
  Instances,     \* processes of the daemon that can exist at the same time
  Service,       \* the instance the supervisor restarts
  Configs,       \* the bytes a config file can hold
  Loads,         \* those load_config accepts
  Builds,        \* those App::build and a reload can assemble
  Sound,         \* those whose daemon does not crash of itself
  RollbackOff,   \* those with watchdog.lkg_rollback_enabled = false
  LkgOff,        \* those with watchdog.lkg_enabled = false
  Unreadable,    \* the operator's file cannot be read
  None,          \* no last-known-good file, no fingerprint, no candidate
  Window,        \* CRASH_LOOP_WINDOW, in ticks
  Stability,     \* watchdog.stability_window, in ticks
  Threshold,     \* CRASH_LOOP_THRESHOLD
  DeferCap,      \* LKG_HEALTH_DEFER_CAP
  MaxStarts,     \* MAX_STARTS
  MaxEvents      \* bound: edits of the operator's file, starts of the other
                 \*   instances, failed writes, deaths of a process not due to
                 \*   its config, and ticks while no sound config runs

ASSUME BootAssumption ==
  /\ Service \in Instances
  /\ Sound \subseteq Builds /\ Builds \subseteq Loads /\ Loads \subseteq Configs
  /\ RollbackOff \subseteq Loads /\ LkgOff \subseteq Builds
  /\ Unreadable \notin Configs /\ None \notin Configs \cup {Unreadable}
  /\ None \notin Instances
  /\ Window \in Nat /\ Stability \in Nat /\ DeferCap \in Nat
  /\ Threshold \in Nat \ {0} /\ MaxStarts \in Nat \ {0}
  /\ MaxEvents \in Nat

VARIABLES
  config,      \* the operator's config file
  lkg,         \* last-known-good.toml
  starts,      \* crash-loop.json: starts, oldest first, each with the
               \*   discount-<nonce> file that disowns it
  rollback,    \* crash-loop.json: rollback_active and rolled_back_from
  holder,      \* the process that holds the flock
  procs,       \* the processes
  events       \* how much of MaxEvents is used up

bootVars == <<config, lkg, starts, rollback, holder, procs, events>>

Files == Configs \cup {Unreadable}
Ages  == 0 .. Window + 1

Start     == [age      : Ages,
              fp       : Files,
              by       : Instances \cup {None},  \* who may still disown it
              discount : Ages \cup {None}]       \* age of its discount file
\* rollback_active and rolled_back_from are set and cleared together, over every
\* order of prepares, immediate rollbacks, clears and lost writes: the expect()
\* of prepare on the failed fingerprint rests on it.
Rollback  == {r \in [active : BOOLEAN, from : Files \cup {None}] :
                r.active <=> r.from # None}
Candidate == [bytes : Configs, age : 0 .. Stability]

Proc == [pc       : {"down", "prepared", "built", "assembled", "up", "reloading"},
         chosen   : {"operator", "lkg"},        \* BootPlan.chosen_config
         onLkg    : BOOLEAN,                    \* Runner.rollback_active
         unclear  : BOOLEAN,                    \* rollback_state_clear_pending
         running  : Configs \cup {None},        \* the bytes of the generation
         loading  : Configs \cup {Unreadable, None},  \* the bytes a reload read
         cand     : Candidate \cup {None},      \* lkg_candidate
         defers   : 0 .. DeferCap,              \* lkg_defer_count
         age      : 0 .. Stability,             \* how long the generation has run
         late     : BOOLEAN,                    \* history: the file changed since it was read
         raced    : BOOLEAN]                    \* history: late when the candidate was armed

Down == [pc |-> "down", chosen |-> "operator", onLkg |-> FALSE,
         unclear |-> FALSE, running |-> None, loading |-> None, cand |-> None,
         defers |-> 0, age |-> 0, late |-> FALSE, raced |-> FALSE]

NoRollback == [active |-> FALSE, from |-> None]

\* What a clear leaves of the pair.
ClearedHalf == [rollback EXCEPT !.active = FALSE]
Cleared == NoRollback

BootTypeOK ==
  /\ config \in Files /\ lkg \in Configs \cup {None}
  /\ starts \in Seq(Start) /\ Len(starts) <= MaxStarts
  /\ rollback \in Rollback
  /\ holder \in Instances \cup {None}
  /\ procs \in [Instances -> Proc]
  /\ events \in 0 .. MaxEvents

BootInit ==
  /\ config \in Files
  /\ lkg \in Sound \cup {None}
  /\ starts = <<>> /\ rollback = NoRollback
  /\ holder = None
  /\ procs = [i \in Instances |-> Down]
  /\ events = 0

-----------------------------------------------------------------------------
(* Small helpers.                                                          *)

Event(n) == events + n <= MaxEvents /\ events' = events + n

Older(age, cap) == IF age < cap THEN age + 1 ELSE cap

\* The rewrite of the rollback pair in crash-loop.json; a failed write
\* leaves the file as it was.
Persist(pair) ==
  \/ rollback' = pair /\ UNCHANGED events
  \/ Event(1) /\ UNCHANGED rollback

Set(i, p) == procs' = [procs EXCEPT ![i] = p]

\* The start that i recorded is i's no longer to disown.
Settled(i) == [k \in 1 .. Len(starts) |->
                 [starts[k] EXCEPT !.by = IF @ = i THEN None ELSE @]]

\* The death of a process; the kernel releases its flock.
Exit(i) == /\ Set(i, Down)
           /\ holder' = IF holder = i THEN None ELSE holder
           /\ starts' = Settled(i)

-----------------------------------------------------------------------------
(* The verdict.                                                            *)

\* collect_and_sweep_discounts: a discount file past the window is deleted.
Swept == [k \in 1 .. Len(starts) |->
            [starts[k] EXCEPT !.discount = IF @ = Window + 1 THEN None ELSE @]]

Verdict(recorded, gate) ==
  LET live     == SelectSeq(recorded, LAMBDA e : e.discount = None)
      inWindow == SelectSeq(live, LAMBDA e : e.age <= Window)
      matching == SelectSeq(inWindow, LAMBDA e : e.fp = config)
      quiet    == Len(live) >= 2 /\ live[Len(live) - 1].age > Window
      differs  == config # rollback.from
      anchored == lkg # None /\ lkg \in Loads
  IN CASE (quiet /\ ~differs) \/ (rollback.active /\ ~anchored) ->
            [action |-> "Proceed", clear |-> TRUE]
       [] ~quiet /\ ~differs /\ rollback.active /\ anchored ->
            [action |-> "ContinueRollback", clear |-> FALSE]
       [] OTHER ->
            IF /\ Len(inWindow) >= Threshold
               /\ Len(matching) = Len(inWindow)
               /\ config # lkg /\ lkg # None
               /\ ~rollback.active
               /\ gate
            THEN [action |-> "RollBack", clear |-> FALSE]
            ELSE [action |-> "Proceed", clear |-> differs \/ quiet]

\* An unloadable config leaves the gate at its default.
RollbackGate == config \notin RollbackOff

\* The oldest start makes room for the newest.
CappedBelowThreshold(recorded) ==
  IF Len(recorded) >= Threshold THEN Tail(recorded) ELSE recorded
Capped(recorded) ==
  IF Len(recorded) > MaxStarts THEN Tail(recorded) ELSE recorded

\* prepare: sweep the discounts, record the start, decide, and rewrite
\* crash-loop.json once.
Prepare(i) ==
  /\ procs[i].pc = "down"
  /\ LET appended == Append(Swept, [age |-> 0, fp |-> config, by |-> i, discount |-> None])
         recorded == Capped(appended)
         verdict  == Verdict(recorded, RollbackGate)
         pair     == CASE verdict.action = "RollBack" -> [active |-> TRUE, from |-> config]
                       [] verdict.clear               -> Cleared
                       [] OTHER                       -> rollback
         stray    == IF i = Service THEN 0 ELSE 1
     IN /\ \/ starts' = recorded /\ rollback' = pair /\ Event(stray)
           \/ starts' = Swept /\ UNCHANGED rollback /\ Event(stray + 1)
        /\ Set(i, [Down EXCEPT !.pc = "prepared",
                     !.chosen = IF verdict.action = "Proceed" THEN "operator" ELSE "lkg",
                     !.onLkg  = verdict.action # "Proceed"])
  /\ UNCHANGED <<config, lkg, holder>>

Chosen(p) == IF p.chosen = "lkg" THEN lkg ELSE config

\* boot: App::build of the chosen config, with the immediate rollback.
Build(i) ==
  /\ procs[i].pc = "prepared"
  /\ LET p == procs[i]
     IN \/ /\ Chosen(p) \in Builds
           /\ Set(i, [p EXCEPT !.pc = "built"])
           /\ UNCHANGED <<starts, rollback, holder, events>>
        \/ /\ Chosen(p) \notin Builds
           /\ p.chosen = "lkg" \/ lkg \in {None, config}
           /\ Exit(i)
           /\ UNCHANGED <<rollback, events>>
        \/ /\ Chosen(p) \notin Builds
           /\ p.chosen = "operator" /\ lkg \notin {None, config}
           /\ Persist([active |-> TRUE, from |-> config])
           /\ IF lkg \in Builds
              THEN /\ Set(i, [p EXCEPT !.pc = "built", !.chosen = "lkg", !.onLkg = TRUE])
                   /\ UNCHANGED <<starts, holder>>
              ELSE Exit(i)
  /\ UNCHANGED <<config, lkg>>

\* boot: the flock; the holder reads the chosen file again and assembles it
\* (the first half of App::start), the loser discounts its own start.
AcquireLock(i) ==
  /\ procs[i].pc = "built"
  /\ IF holder # None
     THEN /\ Set(i, Down)
          /\ starts' = [k \in 1 .. Len(starts) |->
                           IF starts[k].by = i
                           THEN [starts[k] EXCEPT !.by = None, !.discount = 0]
                           ELSE starts[k]]
          /\ UNCHANGED holder
     ELSE IF Chosen(procs[i]) \in Builds
     THEN /\ holder' = i
          /\ Set(i, [procs[i] EXCEPT !.pc = "assembled", !.running = Chosen(procs[i])])
          /\ starts' = Settled(i)
     ELSE Exit(i)
  /\ UNCHANGED <<config, lkg, rollback, events>>

\* new_lkg_candidate: armed from what the operator's file holds now.
NewCandidate(running) ==
  IF running \in LkgOff \/ config = Unreadable THEN None
  ELSE [bytes |-> config, age |-> 0]

\* App::start, second half: install the watcher and arm the candidate.
StartArm(i) ==
  /\ procs[i].pc = "assembled"
  /\ LET p == procs[i]
     IN Set(i, [p EXCEPT !.pc = "up", !.raced = p.late,
                         !.cand = IF p.onLkg THEN None ELSE NewCandidate(p.running)])
  /\ UNCHANGED <<config, lkg, starts, rollback, holder, events>>

-----------------------------------------------------------------------------
(* The running daemon.                                                     *)

\* execute_reload_batch: read the file; bytes that are already applied make
\* the reload a no-op.
ReloadLoad(i) ==
  /\ procs[i].pc = "up"
  /\ LET p == procs[i]
     IN Set(i, IF config = p.running THEN p
               ELSE [p EXCEPT !.pc = "reloading", !.loading = config, !.late = FALSE])
  /\ UNCHANGED <<config, lkg, starts, rollback, holder, events>>

\* Runner::reload accepted: recover from the rollback, arm a new candidate.
ReloadAccept(i) ==
  /\ procs[i].pc = "reloading"
  /\ procs[i].loading \in Builds
  /\ LET p    == procs[i]
         next == [p EXCEPT !.pc = "up", !.running = p.loading, !.loading = None,
                           !.onLkg = FALSE, !.cand = NewCandidate(p.loading),
                           !.defers = 0, !.age = 0, !.raced = p.late]
     IN IF ~p.onLkg
        THEN Set(i, next) /\ UNCHANGED <<rollback, events>>
        ELSE \/ /\ rollback' = Cleared
                /\ Set(i, [next EXCEPT !.unclear = FALSE])
                /\ UNCHANGED events
             \/ /\ Event(1)
                /\ Set(i, [next EXCEPT !.unclear = TRUE])
                /\ UNCHANGED rollback
  /\ UNCHANGED <<config, lkg, starts, holder>>

ReloadRejectArms(i) ==
  /\ procs[i].pc = "reloading"
  /\ Set(i, [procs[i] EXCEPT !.pc = "up", !.loading = None,
                             !.cand = IF @ = None THEN @ ELSE NewCandidate(procs[i].running)])
  /\ UNCHANGED <<config, lkg, starts, rollback, holder, events>>

\* Runner::reload rejected: by validation, by a busy operation, or because
\* the new generation could not be built and the old one was put back.
ReloadReject(i) ==
  /\ procs[i].pc = "reloading"
  /\ Set(i, [procs[i] EXCEPT !.pc = "up", !.loading = None])
  /\ UNCHANGED <<config, lkg, starts, rollback, holder, events>>

\* lkg_tick_at: what a healthy probe does with the candidate of p.  A save
\* that fails may have replaced the file and failed on its sidecar.
PromotionTick(i, p, unhealthy, fails) ==
  LET due      == p.cand # None /\ p.cand.age >= Stability
      deferred == due /\ unhealthy /\ p.defers < DeferCap
      saved    == due /\ ~deferred /\ config = p.cand.bytes
  IN /\ fails => saved
     /\ \/ deferred /\ Set(i, [p EXCEPT !.defers = @ + 1]) /\ UNCHANGED lkg
        \/ /\ saved /\ ~fails
           /\ lkg' = p.cand.bytes
           /\ Set(i, [p EXCEPT !.cand = None, !.defers = 0])
        \/ saved /\ fails /\ lkg' \in {lkg, p.cand.bytes} /\ Set(i, p)
        \/ ~deferred /\ ~saved /\ Set(i, p) /\ UNCHANGED lkg

\* reset_candidate_on_probe_failure
ProbeFailed(i, p) ==
  /\ Set(i, IF p.cand = None THEN p ELSE [p EXCEPT !.cand.age = 0])
  /\ UNCHANGED lkg

\* retry_rollback_state_clear
OwedNever(p) == FALSE
Owed(p) == p.unclear

\* watchdog_tick_at: first the retry of a clear that is still owed, then the
\* probe of the engine.
Watchdog(i) ==
  /\ procs[i].pc = "up"
  /\ \E clearFails, saveFails \in BOOLEAN :
       LET p       == procs[i]
           retried == [p EXCEPT !.unclear = IF Owed(p) THEN clearFails ELSE @]
           failed  == Cardinality({w \in {<<"clear", clearFails>>, <<"save", saveFails>>} : w[2]})
       IN /\ clearFails => Owed(p)
          /\ rollback' = IF Owed(p) /\ ~clearFails THEN Cleared ELSE rollback
          /\ Event(failed)
          /\ \/ \E unhealthy \in BOOLEAN : PromotionTick(i, retried, unhealthy, saveFails)
             \/ ~saveFails /\ ProbeFailed(i, retried)
  /\ UNCHANGED <<config, starts, holder>>

-----------------------------------------------------------------------------
(* The world.                                                              *)

\* A config that is not sound kills the daemon that runs it.
CrashOfConfig(i) ==
  /\ procs[i].pc \in {"assembled", "up", "reloading"}
  /\ procs[i].running \notin Sound
  /\ Exit(i)
  /\ UNCHANGED <<config, lkg, rollback, events>>

\* A kill, a power loss or a clean stop at any other moment.
Die(i) ==
  /\ procs[i].pc # "down"
  /\ Event(1) /\ Exit(i)
  /\ UNCHANGED <<config, lkg, rollback>>

Edit(file) ==
  /\ file # config
  /\ Event(1)
  /\ config' = file
  /\ procs' = [i \in Instances |->
        LET p == procs[i]
        IN [p EXCEPT !.late = @ \/ p.pc \in {"assembled", "reloading"}]]
  /\ UNCHANGED <<lkg, starts, rollback, holder>>

SoundUp == \E i \in Instances : /\ procs[i].pc \in {"up", "reloading"}
                                 /\ procs[i].running \in Sound

Ripened(cand) ==
  IF cand = None THEN None ELSE [cand EXCEPT !.age = Older(@, Stability)]

Tick ==
  /\ Event(IF SoundUp THEN 0 ELSE 1)
  /\ starts' = [k \in 1 .. Len(starts) |->
        [starts[k] EXCEPT !.age      = Older(@, Window + 1),
                          !.discount = IF @ = None THEN None ELSE Older(@, Window + 1)]]
  /\ procs' = [i \in Instances |->
        LET p == procs[i]
        IN [p EXCEPT !.age  = IF p.running = None THEN 0 ELSE Older(@, Stability),
                     !.cand = Ripened(@)]]
  /\ UNCHANGED <<config, lkg, rollback, holder>>

-----------------------------------------------------------------------------
BootNext ==
  \/ \E i \in Instances :
       \/ Prepare(i) \/ Build(i) \/ AcquireLock(i) \/ StartArm(i)
       \/ ReloadLoad(i) \/ ReloadAccept(i) \/ ReloadReject(i)
       \/ Watchdog(i)
       \/ CrashOfConfig(i) \/ Die(i)
  \/ \E file \in Files : Edit(file)
  \/ Tick

\* The supervisor restarts the service, a process that is scheduled goes on,
\* and the watchdog keeps ticking.
BootStep(i) ==
  \/ i = Service /\ Prepare(i)
  \/ Build(i) \/ AcquireLock(i) \/ StartArm(i)
  \/ ReloadAccept(i) \/ ReloadReject(i) \/ Watchdog(i)

BootFairness ==
  \A i \in Instances : WF_bootVars(BootStep(i)) /\ WF_bootVars(CrashOfConfig(i))

BootSpec == BootInit /\ [][BootNext]_bootVars /\ BootFairness

-----------------------------------------------------------------------------
(* Properties.                                                             *)

\* last-known-good.toml only ever receives bytes that this very daemon has
\* been running, unbroken, for the whole stability window: unless the file was
\* edited between the moment the daemon read it and the moment it armed its
\* candidate, which takes the bytes from the file again (new_lkg_candidate).
LkgIsProvenUnlessRaced ==
  [][lkg' # lkg => \E i \in Instances :
       \/ procs[i].running = lkg' /\ procs[i].age >= Stability
       \/ procs[i].raced]_bootVars

\* However the config crashes, fails to build or is edited, a sound
\* last-known-good config brings the service back: a sound config is running
\* again, unless the operator has switched the counted rollback off or a race
\* of the promotion has put other bytes in its place.
SoundLkgRescues ==
  []<>(lkg \in Sound => SoundUp \/ config \in RollbackOff)

\* A clear of crash-loop.json that failed after a recovered rollback is
\* retried until it is done, for as long as the daemon lives.
ClearIsRetried ==
  \A i \in Instances : []<>~procs[i].unclear

\* Both ends of a rollback are reached: the service is up again, and what it
\* recorded is cleared.
RollbackEnds == SoundLkgRescues /\ ClearIsRetried
=============================================================================
