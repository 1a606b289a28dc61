--------------------------- MODULE DisplayRuntime ---------------------------
(***************************************************************************)
(* One display as the rules engine runs it (src/crates/dormant-core/src/   *)
(* rules.rs): its state machine, its entries in the timer wheel, the       *)
(* dispatch tasks the engine spawned for it, the ownership gate, and the   *)
(* panel and the render surface those tasks act on.  At most one rule and *)
(* one zone drive the display; in RulesEngine several may.                 *)
(*                                                                         *)
(* One turn of RulesEngine::run handles one control message, presence      *)
(* edge, result or timer.  A timer is handled at its deadline and an input *)
(* at the present, but a result is handled at `now_tick', which the loop   *)
(* read BEFORE it began to wait: `lag' is how long ago that was.           *)
(***************************************************************************)
EXTENDS DisplayStateMachine

CONSTANTS
    Inputs,         \* the kinds of input this instance exercises
    PauseTimes,     \* how long a Pause with a deadline may be
    InputWakeHold,  \* RuleRuntimeCfg::input_wake_hold (0: no hold)
    MinLatency,     \* a task runs at least and at most this long
    MaxLatency,
    MaxTasks,       \* bound: tasks running when an input is accepted
    MaxStageTicks,  \* bound: stage ticks, and
    MaxTicks,       \*   ticks, in the wheel when an input is accepted
    Past            \* bound: instants further in the past are not told apart

InputKinds == {"presence", "inhibitor", "pause", "resume", "force_blank",
               "soft_blank", "force_wake", "input_wake", "ownership", "claim",
               "turn", "blank_fails", "wake_fails", "render_fails"}

ASSUME RuntimeAssumption ==
    /\ Inputs \subseteq InputKinds
    /\ PauseTimes \subseteq Nat
    /\ {InputWakeHold, MinLatency, MaxLatency, MaxTasks, MaxStageTicks, MaxTicks, Past}
            \subseteq Nat
    /\ 1 <= MinLatency /\ MinLatency <= MaxLatency
    /\ MaxLatency + MinWakeTime <= Past /\ MaxLatency + StartupHoldoff <= Past

VARIABLES
    ruled,      \* whether a rule drives the display: else it is manual-only
    d,          \* the machine with its wheel entries and tasks
    owns,       \* OwnershipGate::owns for this display
    claimed,    \* claim_suppression: a claim of it is in flight
    holdUntil,  \* input_wake_holds and its InputWakeHoldExpiry timer
    lag,        \* how long ago the engine loop began to wait
    panel,      \* "lit" or "dark": what the controllers did to the hardware
    surface,    \* whether the render surface is mapped
    vacantFor   \* history: for how long the zone has been vacant

vars == <<ruled, d, owns, claimed, holdUntil, lag, panel, surface, vacantFor>>

TypeOK ==
    /\ ruled \in BOOLEAN
    /\ d \in Machines
    /\ owns \in BOOLEAN
    /\ claimed \in BOOLEAN
    /\ holdUntil \in Int \cup {None}
    /\ lag \in Nat
    /\ panel \in {"lit", "dark"}
    /\ surface \in BOOLEAN
    /\ vacantFor \in 0 .. GracePeriod

\* A generation of the engine begins with new machines.  After a reload
\* (apply_restore) the machine of a display without a rule keeps the phases
\* Blanked and Waking, and a display with one keeps the tick of its Waking.
Init ==
    /\ ruled \in BOOLEAN
    /\ \/ d = New /\ panel = "lit"
       \/ ruled /\ d = [New EXCEPT !.ticks = {RetryInterval}] /\ panel = "lit"
       \/ /\ ~ruled
          /\ d \in {Restored(p, 0) : p \in {"blanked", "waking"}}
          /\ panel = "dark"
    /\ owns = TRUE
    /\ claimed = FALSE
    /\ holdUntil = None
    /\ lag = 0
    /\ surface = FALSE
    /\ vacantFor = 0

-----------------------------------------------------------------------------
(* The engine's turn *)

FedNever(s, at) == s    \* mutated: the verdict of the gate is not fed

\* feed_ownership: the gate's verdict is fed when it differs from last_owned,
\* which is what the machine's `owned' records; but no loss while a claim is in
\* flight (last_owned is then set to TRUE, which it was).
Fed(s, at) ==
    CASE owns /\ ~s.owned              -> OnOwnershipGained(s, at)
      [] ~owns /\ s.owned /\ ~claimed  -> OnOwnershipLost(s, at)
      [] OTHER                         -> s

\* The payload of a phase is gone with the phase.
Settled(s) ==
    [s EXCEPT !.until     = IF s.phase = "grace" THEN @ ELSE 0,
              !.renderGen = IF s.phase \in RenderPhases THEN @ ELSE 0]

Turn(s) ==
    /\ d' = Settled(s)
    /\ lag' = 0
    /\ vacantFor' = IF {d.zone, s.zone} = {"absent"} THEN vacantFor ELSE 0

\* Bound: the next three stage generations are not those of ticks still in the
\* wheel (2^64 generations never come round).
StageGensLeft(s) ==
    LET g == NextGen(s.stageGen)
    IN  {t.gen : t \in s.stageTicks} \cap {g, NextGen(g), NextGen(NextGen(g))} = {}

\* A turn for an input from outside: bounded.
InputTurn(kind, s) ==
    /\ kind \in Inputs
    /\ Turn(s)
    /\ Cardinality(s.tasks) <= MaxTasks
    /\ Cardinality(s.stageTicks) <= MaxStageTicks
    /\ Cardinality(s.ticks) <= MaxTicks
    /\ StageGensLeft(s)

ZonePresent(present) ==
    LET calm == IF present THEN [d EXCEPT !.hold = FALSE] ELSE d
    IN  /\ ruled
        /\ InputTurn("presence", OnZonePresent(Fed(calm, 0), present, 0))
        /\ d.zone # (IF present THEN "present" ELSE "absent")
        /\ holdUntil' = IF present THEN None ELSE holdUntil
        /\ UNCHANGED <<ruled, owns, claimed, panel, surface>>

SetInhibited(inhibited) ==
    /\ ruled
    /\ inhibited # d.inhibited                \* apply_inhibitor drops repeats
    /\ InputTurn("inhibitor", OnInhibitorChanged(Fed(d, 0), inhibited, 0))
    /\ UNCHANGED <<ruled, owns, claimed, holdUntil, panel, surface>>

Pause(until) ==
    /\ InputTurn("pause", OnPause(Fed(d, 0), until, 0))
    /\ UNCHANGED <<ruled, owns, claimed, holdUntil, panel, surface>>

Resume ==
    /\ InputTurn("resume", OnResume(Fed(d, 0), 0))
    /\ UNCHANGED <<ruled, owns, claimed, holdUntil, panel, surface>>

ForceBlank ==
    /\ InputTurn("force_blank", OnForceBlank(Fed(d, 0)))
    /\ UNCHANGED <<ruled, owns, claimed, holdUntil, panel, surface>>

SoftBlank ==
    /\ InputTurn("soft_blank", OnSoftBlank(Fed(d, 0), 0))
    /\ UNCHANGED <<ruled, owns, claimed, holdUntil, panel, surface>>

ForceWake ==
    /\ InputTurn("force_wake", OnForceWake(Fed(d, 0), 0))
    /\ UNCHANGED <<ruled, owns, claimed, holdUntil, panel, surface>>

\* An input wake in a vacant room arms the hold before it wakes.
InputWake ==
    LET holds == d.zone = "absent" /\ InputWakeHold > 0
        held == IF holds THEN [d EXCEPT !.hold = TRUE] ELSE d
    IN  /\ InputTurn("input_wake", OnForceWake(Fed(held, 0), 0))
        /\ holdUntil' = IF holds THEN InputWakeHold ELSE holdUntil
        /\ UNCHANGED <<ruled, owns, claimed, panel, surface>>

\* The gate changes on its own; the poller then sends OwnershipPoll.
OwnershipFlips ==
    /\ "ownership" \in Inputs
    /\ owns' = ~owns
    /\ UNCHANGED <<ruled, d, claimed, holdUntil, lag, panel, surface, vacantFor>>

OwnershipPoll ==
    /\ owns # d.owned
    /\ Turn(Fed(d, 0))
    /\ UNCHANGED <<ruled, owns, claimed, holdUntil, panel, surface>>

\* A claim sets the suppression and clears it; its deadline may come first.
SetClaimSuppression(until) ==
    /\ "claim" \in Inputs
    /\ claimed' = until
    /\ Turn(d)
    /\ UNCHANGED <<ruled, owns, holdUntil, panel, surface>>

SuppressionLapses ==
    /\ claimed
    /\ claimed' = FALSE
    /\ UNCHANGED <<ruled, d, owns, holdUntil, lag, panel, surface, vacantFor>>

\* A turn of the loop that is about something else: it only refreshes now_tick.
OtherTurn ==
    /\ "turn" \in Inputs
    /\ lag > 0
    /\ Turn(d)
    /\ UNCHANGED <<ruled, owns, claimed, holdUntil, panel, surface>>

-----------------------------------------------------------------------------
(* The timer wheel: a min-heap on (deadline, entry) *)

Deadlines ==
    d.ticks \cup {t.at : t \in d.stageTicks}
            \cup (IF holdUntil = None THEN {} ELSE {holdUntil})

Fires(at) == at <= 0 /\ \A t \in Deadlines : at <= t

DisplayTick ==
    \E at \in d.ticks :
        /\ Fires(at)
        /\ Turn(OnTick(Fed([d EXCEPT !.ticks = @ \ {at}], at), at))
        /\ UNCHANGED <<ruled, owns, claimed, holdUntil, panel, surface>>

DisplayStageTick ==
    \E t \in d.stageTicks :
        /\ Fires(t.at) /\ t.at \notin d.ticks
        /\ Turn(OnStageTick(Fed([d EXCEPT !.stageTicks = @ \ {t}], t.at),
                            t.gen, t.at))
        /\ UNCHANGED <<ruled, owns, claimed, holdUntil, panel, surface>>

\* Mutated: the hold ends and the vacancy it held off is forgotten.
HoldExpiryForgets ==
    /\ holdUntil # None
    /\ Fires(holdUntil)
    /\ holdUntil \notin d.ticks \cup {t.at : t \in d.stageTicks}
    /\ Turn(Fed([d EXCEPT !.hold = FALSE], holdUntil))
    /\ holdUntil' = None
    /\ UNCHANGED <<ruled, owns, claimed, panel, surface>>

\* Expiry re-enters the normal grace path when the zone is still vacant.
InputWakeHoldExpiry ==
    /\ holdUntil # None
    /\ Fires(holdUntil)
    /\ holdUntil \notin d.ticks \cup {t.at : t \in d.stageTicks}
    /\ LET s == Fed([d EXCEPT !.hold = FALSE], holdUntil)
       IN  Turn(IF d.zone = "absent" THEN OnZonePresent(s, FALSE, holdUntil) ELSE s)
    /\ holdUntil' = None
    /\ UNCHANGED <<ruled, owns, claimed, panel, surface>>

-----------------------------------------------------------------------------
(* The dispatch tasks, and their results on the results channel *)

Finishes(t, s) ==
    /\ t.age >= MinLatency
    /\ Turn(s)
    /\ UNCHANGED <<ruled, owns, claimed, holdUntil>>

Without(t) == [d EXCEPT !.tasks = @ \ {t}]

BlankFinishes(t, ok) ==
    /\ t.kind = "blank"
    /\ ok \/ "blank_fails" \in Inputs
    /\ Finishes(t, OnBlankResult(Without(t), t.gen, ok, -lag))
    /\ panel' = IF ok THEN "dark" ELSE panel
    /\ UNCHANGED surface

\* A superseded wake reports failure whether or not it reached the panel.
WakeFinishes(t, ok) ==
    /\ t.kind = "wake"
    /\ IF ok THEN ~t.superseded ELSE t.superseded \/ "wake_fails" \in Inputs
    /\ Finishes(t, OnWakeResult(Without(t), t.gen, ok, -lag))
    /\ \/ ok /\ panel' = "lit"
       \/ ~ok /\ panel' = panel
       \/ ~ok /\ t.superseded /\ panel' = "lit"
    /\ UNCHANGED surface

ShowFinishes(t, ok) ==
    /\ t.kind = "show"
    /\ IF ok THEN ~t.superseded ELSE t.superseded \/ "render_fails" \in Inputs
    /\ Finishes(t, OnRenderResult(Without(t), t.gen, ok, -lag))
    /\ surface' = (ok \/ surface)
    /\ UNCHANGED panel

\* handle_teardown destroys whatever surface is up, without a look at the gen,
\* and answers a show that waits for its surface (some of those running) with
\* an error.
TeardownFinishes(t) ==
    /\ t.kind = "teardown"
    /\ t.age >= MinLatency
    /\ \E shows \in SUBSET {u \in d.tasks : u.kind = "show"} :
            d' = [d EXCEPT !.tasks = (@ \ (shows \cup {t}))
                            \cup {[u EXCEPT !.superseded = TRUE] : u \in shows}]
    /\ surface' = FALSE
    /\ UNCHANGED <<ruled, owns, claimed, holdUntil, lag, panel, vacantFor>>

-----------------------------------------------------------------------------
(* Time *)

Earlier(t) == IF t > -Past THEN t - 1 ELSE t
EarlierOpt(t) == IF t \in {None, Forever} THEN t ELSE Earlier(t)

Older(s) ==
    [s EXCEPT
        !.until         = IF s.phase = "grace" THEN Earlier(@) ELSE @,
        !.paused        = EarlierOpt(@),
        !.stageDeadline = EarlierOpt(@),
        !.lastWake      = EarlierOpt(@),
        !.startedAt     = Earlier(@),
        !.ticks         = {t - 1 : t \in @},
        !.stageTicks    = {[t EXCEPT !.at = @ - 1] : t \in @},
        !.tasks         = {[t EXCEPT !.age = @ + 1] : t \in @}]

\* Time passes only when no timer is due and no task is out of time.
TimePasses ==
    /\ \A t \in Deadlines : t > 0
    /\ \A t \in d.tasks : t.age < MaxLatency
    /\ d' = Older(d)
    /\ holdUntil' = IF holdUntil = None THEN None ELSE holdUntil - 1
    /\ lag' = IF d.tasks = {} THEN 0 ELSE lag + 1
    /\ vacantFor' = IF d.zone = "absent" THEN Lesser(vacantFor + 1, GracePeriod) ELSE 0
    /\ UNCHANGED <<ruled, owns, claimed, panel, surface>>

-----------------------------------------------------------------------------
\* Everything that happens at an instant.
InputArrives ==
    \/ \E present \in BOOLEAN : ZonePresent(present)
    \/ \E inhibited \in BOOLEAN : SetInhibited(inhibited)
    \/ \E until \in PauseTimes \cup {Forever} : Pause(until)
    \/ Resume
    \/ ForceBlank
    \/ SoftBlank
    \/ ForceWake
    \/ InputWake
    \/ OwnershipFlips
    \/ OwnershipPoll
    \/ \E until \in BOOLEAN : SetClaimSuppression(until)
    \/ SuppressionLapses
    \/ OtherTurn

TimerFires == DisplayTick \/ DisplayStageTick \/ InputWakeHoldExpiry

TaskFinishes ==
    \E t \in d.tasks :
        \/ \E ok \in BOOLEAN :
                BlankFinishes(t, ok) \/ WakeFinishes(t, ok) \/ ShowFinishes(t, ok)
        \/ TeardownFinishes(t)

Happens == InputArrives \/ TimerFires \/ TaskFinishes

Next == Happens \/ TimePasses

Spec == Init /\ [][Next]_vars

(***************************************************************************)
(* The engine loop polls its timers and its results channel for as long as *)
(* the daemon runs, every task finishes (a controller call has a timeout), *)
(* the ownership poller keeps polling, and time goes on.  Of the hardware  *)
(* only this is assumed: a command that is tried for ever is not refused   *)
(* for ever.                                                               *)
(***************************************************************************)
Fairness ==
    /\ WF_vars(TimerFires) /\ WF_vars(TaskFinishes) /\ WF_vars(TimePasses)
    /\ WF_vars(OwnershipPoll)
    /\ SF_vars(\E t \in d.tasks : WakeFinishes(t, TRUE))
    /\ SF_vars(\E t \in d.tasks : BlankFinishes(t, TRUE))

FairSpec == Spec /\ Fairness
=============================================================================
