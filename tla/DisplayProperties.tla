------------------------- MODULE DisplayProperties --------------------------
(* What one display promises: the properties of DisplayRuntime.            *)
EXTENDS DisplayRuntime

CommandTasks == {t \in d.tasks : t.kind \in {"blank", "wake"}}

\* A machine that waits for a result is waited on by a task that will send it:
\* Blanking and RenderPending have no timer of their own, so a lost or
\* renumbered command would leave the display there for good.
AwaitedTaskRuns ==
    /\ d.phase = "blanking" =>
            \E t \in d.tasks : t.kind = "blank" /\ t.gen = d.blankGen
    /\ d.phase = "render_pending" =>
            \E t \in d.tasks : t.kind = "show" /\ t.gen = d.renderGen

\* `The machine owns its own exit' (issue_wake): a machine in Waking, restored
\* or not, has a retry tick at most one retry interval away.
WakingHasRetry ==
    d.phase = "waking" => \E t \in d.ticks : t <= RetryInterval

\* The countdown of Grace is frozen exactly while an overlay is on; a running
\* one of an owned, vacant display has a tick at or after its end, so the blank
\* path can neither be lost to a consumed tick nor run under an overlay.
GraceIsDriven ==
    d.phase = "grace" =>
        /\ (d.graceFrozen # None) <=> Overlaid(d)
        /\ ~Overlaid(d) /\ d.owned /\ d.zone = "absent" =>
                \E t \in d.ticks : t >= d.until

\* A pause with a deadline ends: a tick at or after the deadline is scheduled.
PauseHasEnd ==
    d.paused \in Int => \E t \in d.ticks : t >= d.paused

\* The stage tick that can still advance the ladder is the one whose deadline
\* the machine has recorded; every other tick in the wheel is stale.
LiveStageTickIsRecorded ==
    d.phase \in {"blanked", "staged"} =>
        \A t \in d.stageTicks : t.gen = d.stageGen => t.at = d.stageDeadline

\* Two commands in flight never carry the same generation, so a late result is
\* never taken for the result of a newer command.
InFlightGensDiffer ==
    /\ \A t, u \in CommandTasks : t.gen = u.gen => t = u
    /\ \A t, u \in {x \in d.tasks : x.kind = "show"} : t.gen = u.gen => t = u

\* While a blank is under way the machine waits for it: it neither sends a wake
\* nor another blank.  The executor relies on it: a blank never looks at its
\* supersede token, so a wake sent meanwhile could be undone by it.
BlankRunsAlone ==
    /\ \A t, u \in d.tasks : t.kind = "blank" /\ u.kind = "blank" => t = u
    /\ (\E t \in d.tasks : t.kind = "blank") => d.phase = "blanking"

\* No display is dark or covered in an occupied room, unless an operator asked
\* for it (no force_blank, soft_blank in the instances that check this): a
\* presence edge in any phase leads out of it.
NeverDarkWhilePresent ==
    d.zone = "present" =>
        /\ d.phase \notin {"blanked", "render_pending", "staged", "grace"}
        /\ d.phase = "blanking" => d.pendingWake

\* `Display is on' (Phase::Active) and `Display is blanked': once the commands
\* have settled, a machine in Active or Grace has a lit panel, and one in Blanked
\* a dark one.  Results that are dropped as stale, wakes that were superseded
\* after they reached the panel and blanks that failed must not part the two.
PanelFollowsPhase ==
    CommandTasks = {} =>
        /\ d.phase \in {"active", "grace"} => panel = "lit"
        /\ d.phase = "blanked" => panel = "dark"

\* stage_dwell_frozen_remaining is cleared when inhibitor and pause are both off.
DwellFrozenOnlyWhileOverlaid == d.stageFrozen # None => Overlaid(d)

\* OwnershipChanged(false): `yield any active stage and do not enter new ones'.
YieldedIsUncovered ==
    ~d.owned => d.phase \notin {"blanked", "render_pending", "staged"}

-----------------------------------------------------------------------------
(* Action properties *)

\* The blank that ends a Grace period, when no operator asks for it.
GraceBlanks ==
    /\ d.phase = "grace" /\ d'.phase \in {"blanking", "render_pending"}
    /\ ~ForceBlank /\ ~SoftBlank

\* Only an absent zone, no overlay and the gate's verdict license that blank,
\* though the tick that ends the period looks at neither the zone nor (once the
\* countdown has been frozen and thawed) the overlays: a tick that outlived its
\* Grace period must not blank an occupied or inhibited room.  The verdict counts
\* as it is fed (feed_ownership): a claim in flight hides a loss.
BlankIsLicensed ==
    [][GraceBlanks => d.zone = "absent" /\ ~Overlaid(d') /\ (owns \/ claimed)]_vars

\* `Debounce period before a blank is issued after the zone clears': whatever
\* freezes, holds, failed blanks and late results came between, a blank without
\* an operator follows a vacancy of at least the grace period.
GraceIsServed == [][GraceBlanks => vacantFor = GracePeriod]_vars

-----------------------------------------------------------------------------
(* Liveness *)

\* `A screen that won't wake is the worst failure mode': presence that stays
\* leads to an awake machine, whatever the inhibitors, pauses and dwells.
PresenceWakes == d.zone = "present" ~> d.zone # "present" \/ d.phase = "active"

\* A room that stays vacant, with no overlay and no hold, darkens its display,
\* and does so again after whatever lit it: an input wake of the dark display, a
\* blank that failed, a Grace that was abandoned.  (No force_wake in the instances
\* that check it: an operator may wake the display for ever.)
VacancyDarkens ==
    <>[](d.zone = "absent" /\ ~Overlaid(d) /\ ~d.hold /\ owns)
        => []<>(d.phase = "blanked")

\* A wake that reaches the panel whenever it is let finish ends Waking.
WakingEnds == d.phase = "waking" ~> d.phase # "waking"

\* Under fairness presence that stays wakes the display, and every wake that
\* was begun, for presence or not, is over some time.
WakesComplete == PresenceWakes /\ WakingEnds
=============================================================================
