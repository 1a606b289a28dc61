------------------------- MODULE DisplayStateMachine -------------------------
(***************************************************************************)
(* The per-display blank/wake state machine of dormant-core               *)
(* (src/crates/dormant-core/src/state_machine.rs) as pure operators: one   *)
(* operator per Input, each from a machine to the machine after            *)
(* DisplayStateMachine::step.  The code returns Effects that the rules     *)
(* engine executes in the same turn (process_effect): here an effect is    *)
(* put where the engine puts it, on the display's entries of the timer     *)
(* wheel (ticks, stageTicks) or among the spawned dispatch tasks (tasks).  *)
(*                                                                         *)
(* Instants are relative to the real present, which is 0: a deadline in    *)
(* three units is 3, an instant two units ago is -2.  The parameter `at'   *)
(* is the `now' the code passes to step: 0 for an input handled at once,   *)
(* the deadline for a timer, and an instant in the past for a result (see  *)
(* DisplayRuntime).                                                        *)
(***************************************************************************)
EXTENDS Integers, Sequences, FiniteSets

CONSTANTS
    Ladder,         \* <<[render |-> BOOLEAN, dwell |-> duration or None], ...>>
    GracePeriod,    \* SmTimings: grace_period, min_wake_time, startup_holdoff,
    MinWakeTime,    \*   wake_retry_interval
    StartupHoldoff,
    RetryInterval,
    GenMax,         \* largest value of a generation counter (2^64 - 1)
    None,           \* Option::None
    Forever         \* PauseState { until: None }

ASSUME LadderAssumption ==
    /\ Ladder \in Seq([render : BOOLEAN, dwell : Nat \cup {None}])
    /\ Len(Ladder) > 0
ASSUME TimingAssumption ==
    /\ {GracePeriod, MinWakeTime, StartupHoldoff} \subseteq Nat
    /\ RetryInterval \in Nat \ {0}    \* validate.rs rejects 0
ASSUME GenAssumption == GenMax \in Nat \ {0}
ASSUME OptionAssumption == {None, Forever} \cap Int = {} /\ None # Forever

Phases == {"active", "grace", "blanking", "blanked", "waking",
           "render_pending", "staged"}
Gens == 0..GenMax
TaskKinds == {"blank", "wake", "show", "teardown"}
Tasks == [kind : TaskKinds, gen : Gens, superseded : BOOLEAN, age : Nat]

\* The fields of the struct; `until' and `renderGen' are the payloads of
\* Phase::Grace and of Phase::RenderPending / Staged, whose idx is `stage'.
Machines ==
    [phase         : Phases,
     until         : Int,
     renderGen     : Gens,
     inhibited     : BOOLEAN,
     paused        : Int \cup {None, Forever},
     zone          : {"unknown", "present", "absent"},
     owned         : BOOLEAN,
     hold          : BOOLEAN,
     pendingWake   : BOOLEAN,
     graceFrozen   : Nat \cup {None},
     stage         : DOMAIN Ladder \cup {None},
     stageFrozen   : Nat \cup {None},
     stageDeadline : Int \cup {None},
     cmdGen        : Gens,
     blankGen      : Gens \cup {None},
     wakeGen       : Gens \cup {None},
     stageGen      : Gens,
     lastWake      : Int \cup {None},
     startedAt     : Int,
     ticks         : SUBSET Int,
     stageTicks    : SUBSET [gen : Gens, at : Int],
     tasks         : SUBSET Tasks]

-----------------------------------------------------------------------------
(* Generations, spawned tasks, predicates *)

NextGenSaturating(g) == IF g = GenMax THEN g ELSE g + 1  \* mutated: saturating_add
NextGen(g) == IF g = GenMax THEN 0 ELSE g + 1          \* wrapping_add(1)

Positive(x) == IF x > 0 THEN x ELSE 0                  \* saturating subtraction
Lesser(x, y) == IF x < y THEN x ELSE y
Greater(x, y) == IF x < y THEN y ELSE x

Task(kind, gen) == [kind |-> kind, gen |-> gen, superseded |-> FALSE, age |-> 0]

\* DisplayExecutor::rotate_supersede: a new blank or wake cancels the token of
\* every command before it; only a wake looks at its token.
Superseding(tasks, task) ==
    {IF t.kind = "wake" THEN [t EXCEPT !.superseded = TRUE] ELSE t : t \in tasks}
        \cup {task}

Overlaid(s) == s.inhibited \/ s.paused # None
IsRender(i) == IF i \in DOMAIN Ladder THEN Ladder[i].render ELSE FALSE
RenderPhases == {"render_pending", "staged"}

New ==
    [phase |-> "active", until |-> 0, renderGen |-> 0, inhibited |-> FALSE,
     paused |-> None, zone |-> "unknown", owned |-> TRUE, hold |-> FALSE,
     pendingWake |-> FALSE, graceFrozen |-> None, stage |-> None,
     stageFrozen |-> None, stageDeadline |-> None, cmdGen |-> 0,
     blankGen |-> None, wakeGen |-> None, stageGen |-> 0, lastWake |-> None,
     startedAt |-> 0, ticks |-> {}, stageTicks |-> {}, tasks |-> {}]

\* Mutated: a restored Waking is not given its first retry tick.
RestoredUndriven(phase, gen) == [New EXCEPT !.phase = phase, !.cmdGen = gen]

\* apply_restore carries over two phases only: Blanked and Waking.
Restored(phase, gen) ==
    [New EXCEPT !.phase = phase, !.cmdGen = gen,
                !.ticks = IF phase = "waking" THEN {RetryInterval} ELSE {}]

-----------------------------------------------------------------------------
(* Private helpers of the impl *)

EnterGrace(s, at) ==
    LET until == at + GracePeriod
        g == [s EXCEPT !.phase = "grace", !.until = until]
    IN  IF Overlaid(s)
        THEN [g EXCEPT !.graceFrozen = GracePeriod]
        ELSE [g EXCEPT !.graceFrozen = None, !.ticks = @ \cup {until}]

EnterActive(s, at) ==
    LET a == [s EXCEPT !.phase = "active", !.graceFrozen = None,
                       !.stageFrozen = None, !.stageDeadline = None,
                       !.stage = None]
    IN  IF s.zone = "absent" /\ ~s.hold THEN EnterGrace(a, at) ELSE a

\* Mutated: the remaining time is not a saturating difference.
FreezeGraceUnsaturated(s, at) ==
    IF s.graceFrozen = None THEN [s EXCEPT !.graceFrozen = s.until - at] ELSE s

FreezeGrace(s, at) ==
    IF s.graceFrozen = None
    THEN [s EXCEPT !.graceFrozen = Positive(s.until - at)]
    ELSE s

UnfreezeGrace(s, at) ==
    IF s.graceFrozen = None \/ Overlaid(s) THEN s
    ELSE LET until == at + s.graceFrozen
         IN  [s EXCEPT !.graceFrozen = None, !.phase = "grace",
                       !.until = until, !.ticks = @ \cup {until}]

AutoResume(s, at) ==
    IF s.paused \in Int /\ at >= s.paused
    THEN UnfreezeGrace([s EXCEPT !.paused = None], at)
    ELSE s

IssueBlank(s) ==
    LET g == NextGen(s.cmdGen)
    IN  [s EXCEPT !.cmdGen = g, !.blankGen = g, !.phase = "blanking",
                  !.tasks = Superseding(@, Task("blank", g))]

IssueWake(s, at) ==
    LET g == NextGen(s.cmdGen)
    IN  [s EXCEPT !.cmdGen = g, !.wakeGen = g, !.phase = "waking",
                  !.tasks = Superseding(@, Task("wake", g)),
                  !.ticks = @ \cup {at + RetryInterval}]

SpawnTeardown(s) == [s EXCEPT !.tasks = @ \cup {Task("teardown", s.stageGen)}]

TeardownRender(s, at) == EnterActive(SpawnTeardown(s), at)

\* Mutated: RenderPending does not carry the generation of its show.
ShowRenderUnrecorded(s) ==
    [s EXCEPT !.phase = "render_pending",
              !.tasks = @ \cup {Task("show", s.stageGen)}]

ShowRender(s) ==
    [s EXCEPT !.phase = "render_pending", !.renderGen = s.stageGen,
              !.tasks = @ \cup {Task("show", s.stageGen)}]

EnterLadderStage(s, i, at) ==
    IF i \notin DOMAIN Ladder THEN EnterActive(s, at)
    ELSE LET g == NextGen(s.stageGen)
             bare == IF IsRender(s.stage) /\ ~IsRender(i)
                     THEN SpawnTeardown(s) ELSE s
             e == [bare EXCEPT !.stageGen = g, !.stage = i]
         IN  IF IsRender(i) THEN ShowRender(e) ELSE IssueBlank(e)

NextStage(s) == IF s.stage = None THEN 1 ELSE s.stage + 1

AdvanceStage(s, at) == EnterLadderStage(s, NextStage(s), at)

AdvanceToNextController(s, at) ==
    LET rest == {i \in DOMAIN Ladder : i >= NextStage(s) /\ ~IsRender(i)}
    IN  IF rest = {} THEN TeardownRender(s, at)
        ELSE EnterLadderStage(s, CHOOSE i \in rest : \A j \in rest : i <= j, at)

\* The stage tick of the current stage, `wait' from now.
ArmStageTick(s, wait, at) ==
    IF s.stage = None THEN s
    ELSE IF Ladder[s.stage].dwell = None THEN [s EXCEPT !.stageDeadline = None]
    ELSE LET g == NextGen(s.stageGen)
             due == at + Lesser(wait, Ladder[s.stage].dwell)
         IN  [s EXCEPT !.stageGen = g, !.stageDeadline = due,
                       !.stageTicks = @ \cup {[gen |-> g, at |-> due]}]

ScheduleStageTick(s, at) ==
    IF s.stage = None THEN s ELSE ArmStageTick(s, Ladder[s.stage].dwell, at)

\* Mutated: re-arming neither bumps the generation nor records the deadline.
RearmStageTickSameGen(s, at) ==
    IF s.stage = None THEN s
    ELSE [s EXCEPT !.stageFrozen = None,
                   !.stageTicks = @ \cup {[gen |-> s.stageGen, at |-> at]}]

\* unwrap_or_default: a dwell that was never frozen is re-armed with nothing left.
RearmStageTick(s, at) ==
    ArmStageTick([s EXCEPT !.stageFrozen = None],
                 IF s.stageFrozen = None THEN 0 ELSE s.stageFrozen, at)

FreezeStage(s, at) ==
    IF s.stageFrozen # None THEN s
    ELSE [s EXCEPT !.stageFrozen =
            IF s.stageDeadline = None THEN 0 ELSE Positive(s.stageDeadline - at)]

-----------------------------------------------------------------------------
(* step: one operator per Input *)

\* Mutated: presence during a blank is recorded and forgotten.
OnZonePresentForgetful(s, present, at) ==
    LET z == [s EXCEPT !.zone = IF present THEN "present" ELSE "absent"]
    IN  CASE s.phase = "active"                 -> IF present THEN z ELSE EnterGrace(z, at)
          [] s.phase = "grace"                  -> IF present THEN EnterActive(z, at) ELSE z
          [] s.phase \in {"blanking", "waking"} -> z
          [] s.phase = "blanked"                -> IF present THEN IssueWake(z, at) ELSE z
          [] s.phase \in RenderPhases ->
                IF present THEN TeardownRender(z, at) ELSE z

OnZonePresent(s, present, at) ==
    LET z == [s EXCEPT !.zone = IF present THEN "present" ELSE "absent"]
    IN  CASE s.phase = "active"       -> IF present THEN z ELSE EnterGrace(z, at)
          [] s.phase = "grace"        -> IF present THEN EnterActive(z, at) ELSE z
          [] s.phase = "blanking"     -> [z EXCEPT !.pendingWake = @ \/ present]
          [] s.phase = "blanked"      -> IF present THEN IssueWake(z, at) ELSE z
          [] s.phase = "waking"       -> z
          [] s.phase \in RenderPhases -> IF present THEN TeardownRender(z, at) ELSE z

\* When the last of the blank gates (startup holdoff, minimum wake time) that
\* are closed at `at' opens; `at' itself when none is closed.
Opens(since, wait, at) == IF Positive(at - since) < wait THEN since + wait ELSE at
GatesOpen(s, at) ==
    LET holdoff == Opens(s.startedAt, StartupHoldoff, at)
        dwell == IF s.lastWake = None THEN at ELSE Opens(s.lastWake, MinWakeTime, at)
    IN  Greater(holdoff, dwell)

ExpiredAlways(s, at) == TRUE    \* mutated: any tick ends the Grace period
Expired(s, at) == at >= s.until

GraceTick(s, at) ==
    LET r == AutoResume(s, at)
        opens == GatesOpen(r, at)
    IN  IF s.graceFrozen # None THEN r
        ELSE IF Overlaid(r) THEN FreezeGrace(r, at)
        ELSE IF ~Expired(r, at) THEN r
        ELSE IF opens > at THEN [r EXCEPT !.ticks = @ \cup {opens}]
        ELSE IF ~r.owned THEN r
        ELSE EnterLadderStage(r, 1, at)

\* Mutated: the tick of Waking is consumed without a new attempt.
OnTickWithoutRetry(s, at) ==
    IF s.phase = "grace" THEN GraceTick(s, at) ELSE AutoResume(s, at)

OnTick(s, at) ==
    CASE s.phase = "grace"  -> GraceTick(s, at)
      [] s.phase = "waking" -> IssueWake(AutoResume(s, at), at)
      [] OTHER              -> AutoResume(s, at)

OnInhibitorChanged(s, inhibited, at) ==
    LET i == [s EXCEPT !.inhibited = inhibited]
    IN  CASE s.phase = "grace"  -> IF inhibited THEN FreezeGrace(i, at)
                                   ELSE UnfreezeGrace(i, at)
          [] s.phase = "staged" -> IF inhibited THEN FreezeStage(i, at)
                                   ELSE RearmStageTick(i, at)
          [] OTHER              -> i

\* Mutated: no tick is scheduled for the end of the pause.
OnPauseWithoutTick(s, until, at) ==
    LET p == [s EXCEPT !.paused = until]
    IN  IF s.paused = None /\ s.phase = "grace" THEN FreezeGrace(p, at) ELSE p

\* `until' is an instant or Forever.
OnPause(s, until, at) ==
    LET p == [s EXCEPT !.paused = until,
                       !.ticks = IF until = Forever THEN @ ELSE @ \cup {until}]
    IN  CASE s.paused = None /\ s.phase = "grace"  -> FreezeGrace(p, at)
          [] s.paused = None /\ s.phase = "staged" -> FreezeStage(p, at)
          [] OTHER                                 -> p

OnResume(s, at) ==
    LET r == [s EXCEPT !.paused = None]
    IN  CASE s.phase = "grace"  -> UnfreezeGrace(r, at)
          [] s.phase = "staged" -> IF s.inhibited THEN r ELSE RearmStageTick(r, at)
          [] OTHER              -> r

OnBlankResult(s, gen, ok, at) ==
    IF s.phase # "blanking" \/ gen # s.blankGen THEN s
    ELSE LET b == [s EXCEPT !.pendingWake = FALSE]
         IN  IF ok
             THEN IF s.pendingWake THEN IssueWake(b, at)
                  ELSE ScheduleStageTick([b EXCEPT !.phase = "blanked"], at)
             ELSE IF s.zone = "absent" THEN EnterGrace(b, at)
                  ELSE EnterActive(b, at)

\* Mutated: a wake that fails is taken for the end of the wake.
OnWakeResultGivesUp(s, gen, ok, at) ==
    IF s.phase # "waking" \/ gen # s.wakeGen THEN s
    ELSE EnterActive(IF ok THEN [s EXCEPT !.lastWake = at] ELSE s, at)

OnWakeResult(s, gen, ok, at) ==
    IF s.phase # "waking" \/ gen # s.wakeGen THEN s
    ELSE IF ok THEN EnterActive([s EXCEPT !.lastWake = at], at)
         ELSE IssueWake(s, at)

OnRenderResult(s, gen, ok, at) ==
    IF s.phase # "render_pending" \/ gen # s.renderGen THEN s
    ELSE IF ok THEN ScheduleStageTick([s EXCEPT !.phase = "staged"], at)
         ELSE AdvanceToNextController(s, at)

OnForceBlank(s) ==
    CASE s.phase \in {"active", "waking"}    -> IssueBlank(s)
      [] s.phase = "grace"                   -> IssueBlank([s EXCEPT !.graceFrozen = None])
      [] s.phase \in {"blanking", "blanked"} -> s
      [] s.phase \in RenderPhases ->
            IssueBlank([SpawnTeardown(s) EXCEPT !.stage = None])

OnSoftBlank(s, at) ==
    CASE s.phase = "active"      -> EnterLadderStage(s, 1, at)
      [] s.phase = "grace"       -> EnterLadderStage([s EXCEPT !.graceFrozen = None], 1, at)
      [] s.phase \in RenderPhases ->
            EnterLadderStage([SpawnTeardown(s) EXCEPT !.stage = None], 1, at)
      [] OTHER                   -> s

\* ForceWake and InputWake have the same arms.
OnForceWake(s, at) ==
    CASE s.phase = "active"                 -> s
      [] s.phase = "grace"                  -> EnterActive([s EXCEPT !.graceFrozen = None], at)
      [] s.phase = "blanking"               -> [s EXCEPT !.pendingWake = TRUE]
      [] s.phase \in {"blanked", "waking"}  -> IssueWake(s, at)
      [] s.phase \in RenderPhases           -> TeardownRender(s, at)

OnStageTick(s, gen, at) ==
    IF /\ s.phase \in {"blanked", "staged"}
       /\ gen = s.stageGen
       /\ s.stageFrozen = None /\ ~s.inhibited /\ s.owned
    THEN AdvanceStage(s, at)
    ELSE s

GainGraceUndriven(o) == o    \* mutated: the tick consumed while unowned is lost
GainGrace(o) ==
    IF o.zone = "absent" THEN [o EXCEPT !.ticks = @ \cup {o.until}] ELSE o

\* Mutated: a blank under way is not waited for.
OnOwnershipGainedAtOnce(s, at) ==
    LET o == [s EXCEPT !.owned = TRUE]
        calls == o.zone = "present" \/ Overlaid(o)
    IN  CASE s.phase = "grace"          -> GainGrace(o)
          [] s.phase = "waking"         -> o
          [] s.phase \in RenderPhases ->
                IF calls THEN IssueWake(TeardownRender(o, at), at) ELSE o
          [] OTHER                      -> IF calls THEN IssueWake(o, at) ELSE o

\* reconcile_ownership_gain
OnOwnershipGained(s, at) ==
    LET o == [s EXCEPT !.owned = TRUE]
        calls == o.zone = "present" \/ Overlaid(o)     \* the panel must be visible
    IN  CASE s.phase = "grace"    -> GainGrace(o)
          [] s.phase = "blanking" -> [o EXCEPT !.pendingWake = @ \/ calls]
          [] s.phase = "waking"   -> o
          [] s.phase \in RenderPhases ->
                IF calls THEN IssueWake(TeardownRender(o, at), at) ELSE o
          [] s.phase \in {"active", "blanked"} ->
                IF calls THEN IssueWake(o, at) ELSE o

OnOwnershipLost(s, at) ==
    LET y == [s EXCEPT !.owned = FALSE]
    IN  CASE s.phase = "blanked"       -> EnterActive(y, at)
          [] s.phase \in RenderPhases  -> TeardownRender(y, at)
          [] OTHER                     -> y

=============================================================================
