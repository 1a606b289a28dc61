---------------------------- MODULE DisplayProofs ----------------------------
(***************************************************************************)
(* Theorems about one display, for every ladder, timing and bound.         *)
(*                                                                         *)
(* Each operator of DisplayStateMachine from a machine s to a machine t is *)
(* shown to satisfy Keeps(s, t), which is transitive: so the lemma of an   *)
(* operator follows from those of the operators it calls.  The second part *)
(* is about the Grace period, on top of the first; the third about the     *)
(* generations that tell late results and stale stage ticks from live ones;*)
(* the fourth shows that the Grace period is served.                       *)
(***************************************************************************)
EXTENDS DisplayProperties, TLAPS

\* The properties, of any machine rather than of d.
Driven(s) == s.phase = "waking" => \E t \in s.ticks : t <= RetryInterval
Awaited(s) ==
    /\ s.phase = "blanking" =>
            \E t \in s.tasks : t.kind = "blank" /\ t.gen = s.blankGen
    /\ s.phase = "render_pending" =>
            \E t \in s.tasks : t.kind = "show" /\ t.gen = s.renderGen
Resumes(s) == s.paused \in Int => \E t \in s.ticks : t >= s.paused

Extends(s, t) ==
    /\ t \in Machines
    /\ t.paused \in {s.paused, None}
    /\ s.ticks \subseteq t.ticks

\* From a machine that is driven and awaited, t is too ...
Keeps(s, t) ==
    /\ Extends(s, t)
    /\ Driven(s) => Driven(t)
    /\ Awaited(s) => Awaited(t)

\* ... and from any machine.
Lands(s, t) == Extends(s, t) /\ Driven(t) /\ Awaited(t)

LEMMA Composition ==
    ASSUME NEW s, NEW t, NEW u
    PROVE  /\ Keeps(s, t) /\ Keeps(t, u) => Keeps(s, u)
           /\ Extends(s, t) /\ Lands(t, u) => Lands(s, u)
           /\ Lands(s, t) /\ Keeps(t, u) => Lands(s, u)
           /\ Lands(s, t) => Keeps(s, t) /\ Extends(s, t)
           /\ Keeps(s, t) => Extends(s, t) /\ t \in Machines
BY DEF Extends, Keeps, Lands

LEMMA KeepsReflexive == ASSUME NEW s \in Machines PROVE Keeps(s, s)
BY DEF Keeps, Extends

\* A step to a phase that awaits nothing.
LEMMA LandsCalm ==
    ASSUME NEW s, NEW t \in Machines,
           t.paused \in {s.paused, None}, s.ticks \subseteq t.ticks,
           t.phase \notin {"waking", "blanking", "render_pending"}
    PROVE  Lands(s, t)
BY DEF Lands, Extends, Driven, Awaited

\* A step that stays in its phase.
LEMMA KeepsPhase ==
    ASSUME NEW s, NEW t \in Machines,
           t.paused \in {s.paused, None}, s.ticks \subseteq t.ticks,
           t.phase = s.phase, s.tasks \subseteq t.tasks,
           t.blankGen = s.blankGen, t.renderGen = s.renderGen
    PROVE  Keeps(s, t)
BY DEF Keeps, Extends, Driven, Awaited

-----------------------------------------------------------------------------
(* Generations, durations, tasks *)

\* A machine stays one when a field is given a value of its type.  A handler that
\* assigns several fields does so one after the other.
LEMMA Update ==
    ASSUME NEW s \in Machines
    PROVE  /\ \A v \in Phases : [s EXCEPT !.phase = v] \in Machines
           /\ \A v \in Int : /\ [s EXCEPT !.until = v] \in Machines
                            /\ [s EXCEPT !.startedAt = v] \in Machines
           /\ \A v \in Gens : /\ [s EXCEPT !.renderGen = v] \in Machines
                             /\ [s EXCEPT !.cmdGen = v] \in Machines
                             /\ [s EXCEPT !.blankGen = v] \in Machines
                             /\ [s EXCEPT !.wakeGen = v] \in Machines
                             /\ [s EXCEPT !.stageGen = v] \in Machines
           /\ \A v \in Int \cup {None, Forever} : [s EXCEPT !.paused = v] \in Machines
           /\ \A v \in Nat \cup {None} : /\ [s EXCEPT !.graceFrozen = v] \in Machines
                                       /\ [s EXCEPT !.stageFrozen = v] \in Machines
           /\ \A v \in Int \cup {None} : /\ [s EXCEPT !.stageDeadline = v] \in Machines
                                       /\ [s EXCEPT !.lastWake = v] \in Machines
           /\ \A v \in DOMAIN Ladder \cup {None} : [s EXCEPT !.stage = v] \in Machines
           /\ \A v \in SUBSET Int : [s EXCEPT !.ticks = v] \in Machines
           /\ \A v \in SUBSET [gen : Gens, at : Int] :
                    [s EXCEPT !.stageTicks = v] \in Machines
           /\ \A v \in SUBSET Tasks : [s EXCEPT !.tasks = v] \in Machines
<1>1. ASSUME NEW v \in Phases PROVE [s EXCEPT !.phase = v] \in Machines  BY DEF Machines
<1>2. ASSUME NEW v \in Int
      PROVE  /\ [s EXCEPT !.until = v] \in Machines
             /\ [s EXCEPT !.startedAt = v] \in Machines
  <2>1. [s EXCEPT !.until = v] \in Machines  BY <1>2 DEF Machines
  <2>2. [s EXCEPT !.startedAt = v] \in Machines  BY <1>2 DEF Machines
  <2> QED  BY <2>1, <2>2
<1>3. ASSUME NEW v \in Gens
      PROVE  /\ [s EXCEPT !.renderGen = v] \in Machines
             /\ [s EXCEPT !.cmdGen = v] \in Machines
             /\ [s EXCEPT !.blankGen = v] \in Machines
             /\ [s EXCEPT !.wakeGen = v] \in Machines
             /\ [s EXCEPT !.stageGen = v] \in Machines
  <2>1. [s EXCEPT !.renderGen = v] \in Machines  BY <1>3 DEF Machines
  <2>2. [s EXCEPT !.cmdGen = v] \in Machines  BY <1>3 DEF Machines
  <2>3. [s EXCEPT !.blankGen = v] \in Machines  BY <1>3 DEF Machines
  <2>4. [s EXCEPT !.wakeGen = v] \in Machines  BY <1>3 DEF Machines
  <2>5. [s EXCEPT !.stageGen = v] \in Machines  BY <1>3 DEF Machines
  <2> QED  BY <2>1, <2>2, <2>3, <2>4, <2>5
<1>4. ASSUME NEW v \in Int \cup {None, Forever} PROVE [s EXCEPT !.paused = v] \in Machines  BY DEF Machines
<1>5. ASSUME NEW v \in Nat \cup {None}
      PROVE  /\ [s EXCEPT !.graceFrozen = v] \in Machines
             /\ [s EXCEPT !.stageFrozen = v] \in Machines
  <2>1. [s EXCEPT !.graceFrozen = v] \in Machines  BY <1>5 DEF Machines
  <2>2. [s EXCEPT !.stageFrozen = v] \in Machines  BY <1>5 DEF Machines
  <2> QED  BY <2>1, <2>2
<1>6. ASSUME NEW v \in Int \cup {None}
      PROVE  /\ [s EXCEPT !.stageDeadline = v] \in Machines
             /\ [s EXCEPT !.lastWake = v] \in Machines
  <2>1. [s EXCEPT !.stageDeadline = v] \in Machines  BY <1>6 DEF Machines
  <2>2. [s EXCEPT !.lastWake = v] \in Machines  BY <1>6 DEF Machines
  <2> QED  BY <2>1, <2>2
<1>7. ASSUME NEW v \in DOMAIN Ladder \cup {None} PROVE [s EXCEPT !.stage = v] \in Machines  BY DEF Machines
<1>8. ASSUME NEW v \in SUBSET Int PROVE [s EXCEPT !.ticks = v] \in Machines  BY DEF Machines
<1>9. ASSUME NEW v \in SUBSET [gen : Gens, at : Int] PROVE [s EXCEPT !.stageTicks = v] \in Machines  BY DEF Machines
<1>10. ASSUME NEW v \in SUBSET Tasks PROVE [s EXCEPT !.tasks = v] \in Machines  BY DEF Machines
<1> QED  BY <1>1, <1>2, <1>3, <1>4, <1>5, <1>6, <1>7, <1>8, <1>9, <1>10

LEMMA NextGenType == ASSUME NEW g \in Gens PROVE NextGen(g) \in Gens
BY GenAssumption DEF NextGen, Gens

LEMMA Durations ==
    /\ GracePeriod \in Nat
    /\ \A at \in Int : at + GracePeriod \in Int /\ at + RetryInterval \in Int
    /\ \A t, u \in Int : Positive(t - u) \in Nat
BY TimingAssumption DEF Positive

LEMMA Options == None \notin Int /\ Forever \notin Int /\ None # Forever
BY OptionAssumption

LEMMA Rungs == \A i \in DOMAIN Ladder : Ladder[i].dwell \in Nat \cup {None}
<1> DEFINE R == [render : BOOLEAN, dwell : Nat \cup {None}]
<1>1. Ladder \in Seq(R)  BY LadderAssumption
<1>2. \A r \in R : r.dwell \in Nat \cup {None}  OBVIOUS
<1> HIDE DEF R
<1>3. \A i \in DOMAIN Ladder : Ladder[i] \in R  BY <1>1
<1> QED  BY <1>2, <1>3

LEMMA TaskType == \A k \in TaskKinds, g \in Gens : Task(k, g) \in Tasks
BY DEF Task, Tasks

LEMMA TaskFields == \A k, g : Task(k, g).kind = k /\ Task(k, g).gen = g
BY DEF Task

LEMMA SupersedingType ==
    ASSUME NEW ts \in SUBSET Tasks, NEW t \in Tasks
    PROVE  Superseding(ts, t) \in SUBSET Tasks /\ t \in Superseding(ts, t)
<1>1. ASSUME NEW u \in ts PROVE [u EXCEPT !.superseded = TRUE] \in Tasks
  <2>1. u \in Tasks  OBVIOUS
  <2> QED  BY <2>1 DEF Tasks
<1> QED  BY <1>1 DEF Superseding

-----------------------------------------------------------------------------
(* The helpers of the state machine *)

LEMMA EnterGraceLands ==
    ASSUME NEW s \in Machines, NEW at \in Int
    PROVE  Lands(s, EnterGrace(s, at))
<1> DEFINE u == at + GracePeriod
           g == [s EXCEPT !.phase = "grace", !.until = u]
           frozen  == [g EXCEPT !.graceFrozen = GracePeriod]
           running == [g EXCEPT !.graceFrozen = None, !.ticks = @ \cup {u}]
<1>1. u \in Int  BY Durations
<1>2. g \in Machines  BY <1>1, Update DEF Phases
<1>3. g.phase = "grace" /\ g.paused = s.paused /\ g.ticks = s.ticks  BY DEF Machines
<1>4. EnterGrace(s, at) \in {frozen, running}  BY DEF EnterGrace
<1> HIDE DEF g, u
<1>5. Lands(s, frozen)
  <2>1. frozen \in Machines  BY <1>2, Durations DEF Machines
  <2>2. frozen.phase = "grace" /\ frozen.paused = s.paused /\ frozen.ticks = s.ticks
    BY <1>2, <1>3 DEF Machines
  <2> HIDE DEF frozen
  <2> QED  BY <2>1, <2>2, LandsCalm
<1>6. Lands(s, running)
  <2>0. g.ticks \cup {u} \in SUBSET Int  BY <1>1, <1>2 DEF Machines
  <2>1. running \in Machines  BY <1>2, <2>0, Update
  <2>2. running.phase = "grace" /\ running.paused = s.paused /\ s.ticks \subseteq running.ticks
    BY <1>2, <1>3 DEF Machines
  <2> HIDE DEF running
  <2> QED  BY <2>1, <2>2, LandsCalm
<1> QED  BY <1>4, <1>5, <1>6

LEMMA EnterActiveLands ==
    ASSUME NEW s \in Machines, NEW at \in Int
    PROVE  Lands(s, EnterActive(s, at))
<1> DEFINE a == [s EXCEPT !.phase = "active", !.graceFrozen = None,
                          !.stageFrozen = None, !.stageDeadline = None,
                          !.stage = None]
<1>1. a \in Machines  BY Update DEF Phases
<1>2. a.phase = "active" /\ a.paused = s.paused /\ a.ticks = s.ticks
  BY DEF Machines
<1>3. EnterActive(s, at) \in {a, EnterGrace(a, at)}  BY DEF EnterActive
<1> HIDE DEF a
<1>4. Lands(s, a)  BY <1>1, <1>2, LandsCalm
<1>5. Lands(a, EnterGrace(a, at))  BY <1>1, EnterGraceLands
<1>6. Lands(s, EnterGrace(a, at))  BY <1>4, <1>5, Composition
<1> QED  BY <1>3, <1>4, <1>6

LEMMA FreezeGraceKeeps ==
    ASSUME NEW s \in Machines, NEW at \in Int
    PROVE  Keeps(s, FreezeGrace(s, at))
<1> DEFINE p == Positive(s.until - at)
           f == [s EXCEPT !.graceFrozen = p]
<1>1. p \in Nat  BY Durations DEF Machines
<1>2. FreezeGrace(s, at) \in {s, f}  BY DEF FreezeGrace
<1> HIDE DEF p
<1>3. f \in Machines  BY <1>1 DEF Machines
<1>4. /\ f.paused = s.paused /\ f.ticks = s.ticks /\ f.phase = s.phase
      /\ f.tasks = s.tasks /\ f.blankGen = s.blankGen /\ f.renderGen = s.renderGen
  BY DEF Machines
<1> HIDE DEF f
<1>5. Keeps(s, f)  BY <1>3, <1>4, KeepsPhase
<1> QED  BY <1>2, <1>5, KeepsReflexive

LEMMA UnfreezeGraceKeeps ==
    ASSUME NEW s \in Machines, NEW at \in Int
    PROVE  Keeps(s, UnfreezeGrace(s, at))
<1>1. CASE s.graceFrozen = None \/ Overlaid(s)
  BY <1>1, KeepsReflexive DEF UnfreezeGrace
<1>2. CASE ~(s.graceFrozen = None \/ Overlaid(s))
  <2> DEFINE u == at + s.graceFrozen
             t == [s EXCEPT !.graceFrozen = None, !.phase = "grace",
                            !.until = u, !.ticks = @ \cup {u}]
  <2>1. u \in Int  BY <1>2 DEF Machines
  <2>2. UnfreezeGrace(s, at) = t  BY <1>2 DEF UnfreezeGrace
  <2> HIDE DEF u
  <2>0. s.ticks \cup {u} \in SUBSET Int  BY <2>1 DEF Machines
  <2>3. t \in Machines  BY <2>0, <2>1, Update DEF Phases
  <2>4. t.phase = "grace" /\ t.paused = s.paused /\ s.ticks \subseteq t.ticks
    BY DEF Machines
  <2> HIDE DEF t
  <2>5. Keeps(s, t)  BY <2>3, <2>4, LandsCalm, Composition
  <2> QED  BY <2>2, <2>5
<1> QED  BY <1>1, <1>2

\* Auto-resume ends a pause whose deadline has come.
LEMMA AutoResumeKeeps ==
    ASSUME NEW s \in Machines, NEW at \in Int
    PROVE  /\ Keeps(s, AutoResume(s, at))
           /\ AutoResume(s, at).paused \in Int => AutoResume(s, at).paused > at
<1>1. CASE s.paused \in Int /\ at >= s.paused
  <2> DEFINE r == [s EXCEPT !.paused = None]
  <2>1. r \in Machines /\ r.paused = None  BY DEF Machines
  <2>2. /\ r.ticks = s.ticks /\ r.phase = s.phase
        /\ r.tasks = s.tasks /\ r.blankGen = s.blankGen /\ r.renderGen = s.renderGen
    BY DEF Machines
  <2>3. AutoResume(s, at) = UnfreezeGrace(r, at)  BY <1>1 DEF AutoResume
  <2> HIDE DEF r
  <2>6. Keeps(s, r)  BY <2>1, <2>2, KeepsPhase
  <2>4. Keeps(r, UnfreezeGrace(r, at))  BY <2>1, UnfreezeGraceKeeps
  <2>5. UnfreezeGrace(r, at).paused = None  BY <2>1, <2>4 DEF Keeps, Extends
  <2> QED  BY <2>6, <2>3, <2>4, <2>5, Composition, Options
<1>2. CASE ~(s.paused \in Int /\ at >= s.paused)
  <2>1. AutoResume(s, at) = s  BY <1>2 DEF AutoResume
  <2>2. s.paused \in Int => s.paused > at  BY <1>2
  <2> QED  BY <2>1, <2>2, KeepsReflexive
<1> QED  BY <1>1, <1>2

\* Machines that differ in the phase and the tasks only by a task that awaits.
LEMMA IssueBlankLands ==
    ASSUME NEW s \in Machines
    PROVE  Lands(s, IssueBlank(s))
<1> DEFINE g == NextGen(s.cmdGen)
           k == Task("blank", g)
           ts == Superseding(s.tasks, k)
           t == [s EXCEPT !.cmdGen = g, !.blankGen = g, !.phase = "blanking",
                          !.tasks = ts]
<1>1. g \in Gens  BY NextGenType DEF Machines
<1>2. k \in Tasks /\ k.kind = "blank" /\ k.gen = g
  BY <1>1, TaskType, TaskFields DEF TaskKinds
<1>3. ts \in SUBSET Tasks /\ k \in ts  BY <1>2, SupersedingType DEF Machines
<1>4. IssueBlank(s) = t  BY DEF IssueBlank
<1> HIDE DEF g, k, ts
<1>5. t \in Machines  BY <1>1, <1>3, Update DEF Phases
<1>6. /\ t.phase = "blanking" /\ t.paused = s.paused /\ t.ticks = s.ticks
      /\ t.tasks = ts /\ t.blankGen = g
  BY DEF Machines
<1> HIDE DEF t
<1>7. Driven(t) /\ Awaited(t)  BY <1>2, <1>3, <1>6 DEF Driven, Awaited
<1> QED  BY <1>4, <1>5, <1>6, <1>7 DEF Lands, Extends

\* A wake is driven from its first step, in whatever state it was issued.
LEMMA IssueWakeLands ==
    ASSUME NEW s \in Machines, NEW at \in Int, at <= 0
    PROVE  Lands(s, IssueWake(s, at)) /\ Driven(IssueWake(s, at))
<1> DEFINE g == NextGen(s.cmdGen)
           ts == Superseding(s.tasks, Task("wake", g))
           u == at + RetryInterval
           t == [s EXCEPT !.cmdGen = g, !.wakeGen = g, !.phase = "waking",
                          !.tasks = ts, !.ticks = @ \cup {u}]
<1>1. g \in Gens  BY NextGenType DEF Machines
<1>2. ts \in SUBSET Tasks
  BY <1>1, TaskType, SupersedingType DEF TaskKinds, Machines
<1>3. u \in Int /\ u <= RetryInterval  BY TimingAssumption
<1>4. IssueWake(s, at) = t  BY DEF IssueWake
<1> HIDE DEF g, ts, u
<1>8. s.ticks \cup {u} \in SUBSET Int  BY <1>3 DEF Machines
<1>5. t \in Machines  BY <1>1, <1>2, <1>8, Update DEF Phases
<1>6. t.phase = "waking" /\ t.paused = s.paused /\ t.ticks = s.ticks \cup {u}
  BY DEF Machines
<1> HIDE DEF t
<1>7. Driven(t) /\ Awaited(t)  BY <1>3, <1>6 DEF Driven, Awaited
<1> QED  BY <1>4, <1>5, <1>6, <1>7 DEF Lands, Extends

LEMMA SpawnTeardownKeeps ==
    ASSUME NEW s \in Machines
    PROVE  Keeps(s, SpawnTeardown(s))
<1> DEFINE k == Task("teardown", s.stageGen)
           t == [s EXCEPT !.tasks = @ \cup {k}]
<1>1. k \in Tasks  BY TaskType DEF TaskKinds, Machines
<1>2. SpawnTeardown(s) = t  BY DEF SpawnTeardown
<1> HIDE DEF k
<1>3. t \in Machines  BY <1>1 DEF Machines
<1>4. /\ t.paused = s.paused /\ t.ticks = s.ticks /\ t.phase = s.phase
      /\ s.tasks \subseteq t.tasks /\ t.blankGen = s.blankGen /\ t.renderGen = s.renderGen
  BY DEF Machines
<1> HIDE DEF t
<1>5. Keeps(s, t)  BY <1>3, <1>4, KeepsPhase
<1> QED  BY <1>2, <1>5

LEMMA TeardownRenderLands ==
    ASSUME NEW s \in Machines, NEW at \in Int
    PROVE  Lands(s, TeardownRender(s, at))
<1>1. Keeps(s, SpawnTeardown(s))  BY SpawnTeardownKeeps
<1>2. Lands(SpawnTeardown(s), EnterActive(SpawnTeardown(s), at))
  BY <1>1, EnterActiveLands, Composition
<1> QED  BY <1>1, <1>2, Composition DEF TeardownRender

LEMMA ShowRenderLands ==
    ASSUME NEW s \in Machines
    PROVE  Lands(s, ShowRender(s))
<1> DEFINE g == s.stageGen
           k == Task("show", g)
           t == [s EXCEPT !.phase = "render_pending", !.renderGen = g,
                          !.tasks = @ \cup {k}]
<1>1. g \in Gens  BY DEF Machines
<1>2. k \in Tasks /\ k.kind = "show" /\ k.gen = g
  BY <1>1, TaskType, TaskFields DEF TaskKinds
<1>3. ShowRender(s) = t  BY DEF ShowRender
<1> HIDE DEF g, k
<1>7. s.tasks \cup {k} \in SUBSET Tasks  BY <1>2 DEF Machines
<1>4. t \in Machines  BY <1>1, <1>7, Update DEF Phases
<1>5. /\ t.phase = "render_pending" /\ t.paused = s.paused /\ t.ticks = s.ticks
      /\ k \in t.tasks /\ t.renderGen = g
  BY DEF Machines
<1> HIDE DEF t
<1>6. Driven(t) /\ Awaited(t)  BY <1>2, <1>5 DEF Driven, Awaited
<1> QED  BY <1>3, <1>4, <1>5, <1>6 DEF Lands, Extends

\* Entering a rung loses nothing: with the bump of the stage generation come the
\* show or the blank that the new phase awaits.
LEMMA EnterLadderStageLands ==
    ASSUME NEW s \in Machines, NEW i, NEW at \in Int
    PROVE  Lands(s, EnterLadderStage(s, i, at))
<1>1. CASE i \notin DOMAIN Ladder
  BY <1>1, EnterActiveLands DEF EnterLadderStage
<1>2. CASE i \in DOMAIN Ladder
  <2> DEFINE g == NextGen(s.stageGen)
             bare == IF IsRender(s.stage) /\ ~IsRender(i)
                     THEN SpawnTeardown(s) ELSE s
             e == [bare EXCEPT !.stageGen = g, !.stage = i]
  <2>1. g \in Gens  BY NextGenType DEF Machines
  <2>2. EnterLadderStage(s, i, at) \in {ShowRender(e), IssueBlank(e)}
    BY <1>2 DEF EnterLadderStage
  <2>3. Keeps(s, bare)  BY SpawnTeardownKeeps, KeepsReflexive
  <2>4. bare \in Machines  BY <2>3, Composition
  <2> HIDE DEF g, bare
  <2>5. e \in Machines  BY <1>2, <2>1, <2>4, Update
  <2>6. /\ e.paused = bare.paused /\ e.ticks = bare.ticks /\ e.phase = bare.phase
        /\ e.tasks = bare.tasks /\ e.blankGen = bare.blankGen /\ e.renderGen = bare.renderGen
    BY <2>4 DEF Machines
  <2> HIDE DEF e
  <2>7. Keeps(bare, e)  BY <2>5, <2>6, KeepsPhase
  <2>8. Lands(e, ShowRender(e)) /\ Lands(e, IssueBlank(e))
    BY <2>5, ShowRenderLands, IssueBlankLands
  <2> QED  BY <2>2, <2>3, <2>7, <2>8, Composition
<1> QED  BY <1>1, <1>2

LEMMA AdvanceLands ==
    ASSUME NEW s \in Machines, NEW at \in Int
    PROVE  Lands(s, AdvanceStage(s, at)) /\ Lands(s, AdvanceToNextController(s, at))
<1>1. Lands(s, AdvanceStage(s, at))  BY EnterLadderStageLands DEF AdvanceStage
<1>2. Lands(s, AdvanceToNextController(s, at))
  BY EnterLadderStageLands, TeardownRenderLands DEF AdvanceToNextController
<1> QED  BY <1>1, <1>2

LEMMA ArmStageTickKeeps ==
    ASSUME NEW s \in Machines, NEW wait \in Nat \cup {None}, NEW at \in Int,
           s.stage # None /\ Ladder[s.stage].dwell # None => wait \in Nat
    PROVE  Keeps(s, ArmStageTick(s, wait, at))
<1> DEFINE g == NextGen(s.stageGen)
           due == at + Lesser(wait, Ladder[s.stage].dwell)
           off == [s EXCEPT !.stageDeadline = None]
           k == [gen |-> g, at |-> due]
           on == [s EXCEPT !.stageGen = g, !.stageDeadline = due,
                           !.stageTicks = @ \cup {k}]
<1>1. CASE s.stage = None
  BY <1>1, KeepsReflexive DEF ArmStageTick
<1>2. CASE s.stage # None /\ Ladder[s.stage].dwell = None
  <2>1. ArmStageTick(s, wait, at) = off  BY <1>2 DEF ArmStageTick
  <2>2. off \in Machines  BY DEF Machines
  <2>3. /\ off.paused = s.paused /\ off.ticks = s.ticks /\ off.phase = s.phase
        /\ off.tasks = s.tasks /\ off.blankGen = s.blankGen /\ off.renderGen = s.renderGen
    BY DEF Machines
  <2> HIDE DEF off
  <2> QED  BY <2>1, <2>2, <2>3, KeepsPhase
<1>3. CASE s.stage # None /\ Ladder[s.stage].dwell # None
  <2>1. ArmStageTick(s, wait, at) = on  BY <1>3 DEF ArmStageTick
  <2>2. s.stage \in DOMAIN Ladder  BY <1>3 DEF Machines
  <2>3. Ladder[s.stage].dwell \in Nat  BY <1>3, <2>2, Rungs
  <2>4. due \in Int  BY <1>3, <2>3 DEF Lesser
  <2>5. g \in Gens  BY NextGenType DEF Machines
  <2>6. k \in [gen : Gens, at : Int]  BY <2>4, <2>5
  <2> HIDE DEF g, due, k
  <2>7. on \in Machines
    <3>1. s.stageTicks \cup {k} \in SUBSET [gen : Gens, at : Int]  BY <2>6 DEF Machines
    <3> QED  BY <2>4, <2>5, <3>1, Update
  <2>8. /\ on.paused = s.paused /\ on.ticks = s.ticks /\ on.phase = s.phase
        /\ on.tasks = s.tasks /\ on.blankGen = s.blankGen /\ on.renderGen = s.renderGen
    BY DEF Machines
  <2> HIDE DEF on
  <2> QED  BY <2>1, <2>7, <2>8, KeepsPhase
<1> QED  BY <1>1, <1>2, <1>3

LEMMA ScheduleStageTickKeeps ==
    ASSUME NEW s \in Machines, NEW at \in Int
    PROVE  Keeps(s, ScheduleStageTick(s, at))
<1>1. CASE s.stage = None
  BY <1>1, KeepsReflexive DEF ScheduleStageTick
<1>2. CASE s.stage # None
  <2>1. s.stage \in DOMAIN Ladder  BY <1>2 DEF Machines
  <2>2. Ladder[s.stage].dwell \in Nat \cup {None}  BY <2>1, Rungs
  <2> QED  BY <1>2, <2>2, ArmStageTickKeeps DEF ScheduleStageTick
<1> QED  BY <1>1, <1>2

LEMMA RearmStageTickKeeps ==
    ASSUME NEW s \in Machines, NEW at \in Int
    PROVE  Keeps(s, RearmStageTick(s, at))
<1> DEFINE t == [s EXCEPT !.stageFrozen = None]
           wait == IF s.stageFrozen = None THEN 0 ELSE s.stageFrozen
<1>1. wait \in Nat  BY DEF Machines
<1>2. RearmStageTick(s, at) = ArmStageTick(t, wait, at)  BY DEF RearmStageTick
<1>3. t \in Machines  BY DEF Machines
<1>4. /\ t.paused = s.paused /\ t.ticks = s.ticks /\ t.phase = s.phase
      /\ t.tasks = s.tasks /\ t.blankGen = s.blankGen /\ t.renderGen = s.renderGen
  BY DEF Machines
<1> HIDE DEF t, wait
<1>5. Keeps(s, t)  BY <1>3, <1>4, KeepsPhase
<1>6. Keeps(t, ArmStageTick(t, wait, at))  BY <1>1, <1>3, ArmStageTickKeeps
<1> QED  BY <1>2, <1>5, <1>6, Composition

LEMMA FreezeStageKeeps ==
    ASSUME NEW s \in Machines, NEW at \in Int
    PROVE  Keeps(s, FreezeStage(s, at))
<1> DEFINE p == IF s.stageDeadline = None THEN 0 ELSE Positive(s.stageDeadline - at)
           t == [s EXCEPT !.stageFrozen = p]
<1>1. p \in Nat  BY Durations DEF Machines
<1>2. FreezeStage(s, at) \in {s, t}  BY DEF FreezeStage
<1> HIDE DEF p
<1>3. t \in Machines  BY <1>1 DEF Machines
<1>4. /\ t.paused = s.paused /\ t.ticks = s.ticks /\ t.phase = s.phase
      /\ t.tasks = s.tasks /\ t.blankGen = s.blankGen /\ t.renderGen = s.renderGen
  BY DEF Machines
<1> HIDE DEF t
<1>5. Keeps(s, t)  BY <1>3, <1>4, KeepsPhase
<1> QED  BY <1>2, <1>5, KeepsReflexive

-----------------------------------------------------------------------------
(* step *)

\* The fields that no property awaits: an input that only records them keeps.
LEMMA RecordKeeps ==
    ASSUME NEW s \in Machines, NEW z \in {"present", "absent"}, NEW b \in BOOLEAN,
           NEW w \in Int \cup {None}
    PROVE  /\ Keeps(s, [s EXCEPT !.zone = z])
           /\ Keeps(s, [s EXCEPT !.inhibited = b])
           /\ Keeps(s, [s EXCEPT !.hold = b])
           /\ Keeps(s, [s EXCEPT !.owned = b])
           /\ Keeps(s, [s EXCEPT !.pendingWake = b])
           /\ Keeps(s, [s EXCEPT !.paused = None])
           /\ Keeps(s, [s EXCEPT !.graceFrozen = None])
           /\ Keeps(s, [s EXCEPT !.stage = None])
           /\ Keeps(s, [s EXCEPT !.lastWake = w])
<1> DEFINE Same(t) == /\ t \in Machines /\ t.paused \in {s.paused, None}
                      /\ t.ticks = s.ticks /\ t.phase = s.phase /\ t.tasks = s.tasks
                      /\ t.blankGen = s.blankGen /\ t.renderGen = s.renderGen
<1>1. \A t : Same(t) => Keeps(s, t)  BY KeepsPhase
<1>2. Same([s EXCEPT !.zone = z])  BY DEF Machines
<1>3. Same([s EXCEPT !.inhibited = b])  BY DEF Machines
<1>4. Same([s EXCEPT !.hold = b])  BY DEF Machines
<1>5. Same([s EXCEPT !.owned = b])  BY DEF Machines
<1>6. Same([s EXCEPT !.pendingWake = b])  BY DEF Machines
<1>7. Same([s EXCEPT !.paused = None])  BY DEF Machines
<1>8. Same([s EXCEPT !.graceFrozen = None])  BY DEF Machines
<1>9. Same([s EXCEPT !.stage = None])  BY DEF Machines
<1>10. Same([s EXCEPT !.lastWake = w])  BY DEF Machines
<1> HIDE DEF Same
<1> QED  BY <1>1, <1>2, <1>3, <1>4, <1>5, <1>6, <1>7, <1>8, <1>9, <1>10

LEMMA OnZonePresentKeeps ==
    ASSUME NEW s \in Machines, NEW present \in BOOLEAN, NEW at \in Int, at <= 0
    PROVE  Keeps(s, OnZonePresent(s, present, at))
<1> DEFINE z == [s EXCEPT !.zone = IF present THEN "present" ELSE "absent"]
           b == z.pendingWake \/ present
           w == [z EXCEPT !.pendingWake = b]
<1>1. Keeps(s, z)  BY RecordKeeps
<1>2. z \in Machines  BY <1>1, Composition
<1>3. OnZonePresent(s, present, at) \in
        {z, w, EnterGrace(z, at), EnterActive(z, at), IssueWake(z, at), TeardownRender(z, at)}
  BY DEF OnZonePresent, Machines, Phases, RenderPhases
<1> HIDE DEF z
<1>4. Keeps(z, w)
  <2>1. b \in BOOLEAN  BY <1>2 DEF Machines
  <2> HIDE DEF b
  <2> QED  BY <1>2, <2>1, RecordKeeps
<1>5. /\ Keeps(z, EnterGrace(z, at)) /\ Keeps(z, EnterActive(z, at))
      /\ Keeps(z, IssueWake(z, at)) /\ Keeps(z, TeardownRender(z, at))
  BY <1>2, EnterGraceLands, EnterActiveLands, IssueWakeLands, TeardownRenderLands,
     Composition
<1> HIDE DEF w
<1> QED  BY <1>1, <1>3, <1>4, <1>5, Composition

LEMMA GatesOpenType ==
    ASSUME NEW s \in Machines, NEW at \in Int
    PROVE  GatesOpen(s, at) \in Int
<1>1. s.startedAt \in Int /\ s.lastWake \in Int \cup {None}  BY DEF Machines
<1>2. \A since \in Int, wait \in Nat : Opens(since, wait, at) \in Int  BY DEF Opens
<1> QED  BY <1>1, <1>2, TimingAssumption DEF GatesOpen, Greater

\* The tick of Grace leaves no pause whose deadline has come.
LEMMA GraceTickKeeps ==
    ASSUME NEW s \in Machines, NEW at \in Int
    PROVE  /\ Keeps(s, GraceTick(s, at))
           /\ GraceTick(s, at).paused \in Int => GraceTick(s, at).paused > at
<1> DEFINE r == AutoResume(s, at)
           u == GatesOpen(r, at)
           t == [r EXCEPT !.ticks = @ \cup {u}]
<1>1. Keeps(s, r) /\ (r.paused \in Int => r.paused > at)  BY AutoResumeKeeps
<1>2. r \in Machines  BY <1>1, Composition
<1>3. u \in Int  BY <1>2, GatesOpenType
<1>4. GraceTick(s, at) \in {r, FreezeGrace(r, at), t, EnterLadderStage(r, 1, at)}
  BY DEF GraceTick
<1> HIDE DEF r, u
<1>5. Keeps(r, t)
  <2>1. t \in Machines  BY <1>2, <1>3 DEF Machines
  <2>2. /\ t.paused = r.paused /\ r.ticks \subseteq t.ticks /\ t.phase = r.phase
        /\ t.tasks = r.tasks /\ t.blankGen = r.blankGen /\ t.renderGen = r.renderGen
    BY <1>2 DEF Machines
  <2> HIDE DEF t
  <2> QED  BY <2>1, <2>2, KeepsPhase
<1>6. Keeps(r, FreezeGrace(r, at)) /\ Keeps(r, EnterLadderStage(r, 1, at))
  BY <1>2, FreezeGraceKeeps, EnterLadderStageLands, Composition
<1> HIDE DEF t
<1>7. Keeps(r, GraceTick(s, at))  BY <1>2, <1>4, <1>5, <1>6, KeepsReflexive
<1>8. GraceTick(s, at).paused \in {r.paused, None}  BY <1>7 DEF Keeps, Extends
<1> QED  BY <1>1, <1>7, <1>8, Composition, Options

\* A tick in Waking issues the next attempt, so Waking is driven after any tick,
\* though the tick itself is gone from the wheel.
LEMMA OnTickKeeps ==
    ASSUME NEW s \in Machines, NEW at \in Int, at <= 0
    PROVE  /\ Keeps(s, OnTick(s, at))
           /\ Driven(OnTick(s, at))
           /\ OnTick(s, at).paused \in Int => OnTick(s, at).paused > at
<1> DEFINE r == AutoResume(s, at)
<1>1. Keeps(s, r) /\ (r.paused \in Int => r.paused > at)  BY AutoResumeKeeps
<1>2. r \in Machines  BY <1>1, Composition
<1>3. CASE s.phase = "grace"
  <2>1. OnTick(s, at) = GraceTick(s, at)  BY <1>3 DEF OnTick
  <2>2. Driven(s)  BY <1>3 DEF Driven
  <2> QED  BY <2>1, <2>2, GraceTickKeeps DEF Keeps, Extends
<1>4. CASE s.phase = "waking"
  <2>1. OnTick(s, at) = IssueWake(r, at)  BY <1>4 DEF OnTick
  <2> HIDE DEF r
  <2>2. Keeps(r, IssueWake(r, at)) /\ Driven(IssueWake(r, at))
    BY <1>2, IssueWakeLands, Composition DEF Lands
  <2>3. IssueWake(r, at).paused \in {r.paused, None}  BY <2>2 DEF Keeps, Lands, Extends
  <2> QED  BY <1>1, <2>1, <2>2, <2>3, Composition, Options
<1>5. CASE s.phase \notin {"grace", "waking"}
  <2>1. OnTick(s, at) = r  BY <1>5 DEF OnTick
  <2>2. Driven(s)  BY <1>5 DEF Driven
  <2> QED  BY <1>1, <2>1, <2>2 DEF Keeps, Lands, Extends
<1> QED  BY <1>3, <1>4, <1>5

LEMMA OnInhibitorChangedKeeps ==
    ASSUME NEW s \in Machines, NEW b \in BOOLEAN, NEW at \in Int
    PROVE  Keeps(s, OnInhibitorChanged(s, b, at))
<1> DEFINE i == [s EXCEPT !.inhibited = b]
<1>1. Keeps(s, i)  BY RecordKeeps
<1>2. i \in Machines  BY <1>1, Composition
<1>3. OnInhibitorChanged(s, b, at) \in
        {i, FreezeGrace(i, at), UnfreezeGrace(i, at), FreezeStage(i, at), RearmStageTick(i, at)}
  BY DEF OnInhibitorChanged
<1> HIDE DEF i
<1>4. /\ Keeps(i, FreezeGrace(i, at)) /\ Keeps(i, UnfreezeGrace(i, at))
      /\ Keeps(i, FreezeStage(i, at)) /\ Keeps(i, RearmStageTick(i, at))
  BY <1>2, FreezeGraceKeeps, UnfreezeGraceKeeps, FreezeStageKeeps, RearmStageTickKeeps
<1> QED  BY <1>1, <1>3, <1>4, Composition

LEMMA OnResumeKeeps ==
    ASSUME NEW s \in Machines, NEW at \in Int
    PROVE  Keeps(s, OnResume(s, at))
<1> DEFINE r == [s EXCEPT !.paused = None]
<1>1. Keeps(s, r)  BY RecordKeeps
<1>2. r \in Machines  BY <1>1, Composition
<1>3. OnResume(s, at) \in {r, UnfreezeGrace(r, at), RearmStageTick(r, at)}
  BY DEF OnResume
<1> HIDE DEF r
<1>4. Keeps(r, UnfreezeGrace(r, at)) /\ Keeps(r, RearmStageTick(r, at))
  BY <1>2, UnfreezeGraceKeeps, RearmStageTickKeeps
<1> QED  BY <1>1, <1>3, <1>4, Composition

\* A pause is the one input that sets a deadline, and it schedules its tick.
LEMMA OnPauseKeeps ==
    ASSUME NEW s \in Machines, NEW until \in Int \cup {Forever}, NEW at \in Int
    PROVE  /\ OnPause(s, until, at) \in Machines
           /\ Resumes(OnPause(s, until, at))
           /\ Driven(s) => Driven(OnPause(s, until, at))
           /\ Awaited(s) => Awaited(OnPause(s, until, at))
<1> DEFINE ts == IF until = Forever THEN s.ticks ELSE s.ticks \cup {until}
           p == [s EXCEPT !.paused = until, !.ticks = ts]
<1>1. ts \in SUBSET Int /\ s.ticks \subseteq ts /\ (until \in Int => until \in ts)
  BY Options DEF Machines
<1>2. OnPause(s, until, at) \in {p, FreezeGrace(p, at), FreezeStage(p, at)}
  BY DEF OnPause
<1> HIDE DEF ts
<1>3. p \in Machines  BY <1>1, Update
<1>4. /\ p.paused = until /\ p.ticks = ts /\ p.phase = s.phase /\ p.tasks = s.tasks
      /\ p.blankGen = s.blankGen /\ p.renderGen = s.renderGen
  BY DEF Machines
<1> HIDE DEF p
<1>5. Resumes(p)  BY <1>1, <1>4 DEF Resumes
<1>6. (Driven(s) => Driven(p)) /\ (Awaited(s) => Awaited(p))
  BY <1>1, <1>4 DEF Driven, Awaited
<1>7. Keeps(p, OnPause(s, until, at))
  BY <1>2, <1>3, KeepsReflexive, FreezeGraceKeeps, FreezeStageKeeps
<1>8. Resumes(OnPause(s, until, at))  BY <1>5, <1>7, Options DEF Keeps, Extends, Resumes
<1> QED  BY <1>6, <1>7, <1>8 DEF Keeps, Extends

LEMMA OnForceBlankKeeps ==
    ASSUME NEW s \in Machines
    PROVE  Keeps(s, OnForceBlank(s))
<1> DEFINE f == [s EXCEPT !.graceFrozen = None]
           k == SpawnTeardown(s)
           c == [k EXCEPT !.stage = None]
<1>1. Keeps(s, f) /\ Keeps(s, k)  BY RecordKeeps, SpawnTeardownKeeps
<1>2. f \in Machines /\ k \in Machines  BY <1>1, Composition
<1>3. OnForceBlank(s) \in {s, IssueBlank(s), IssueBlank(f), IssueBlank(c)}
  BY DEF OnForceBlank, Machines, Phases, RenderPhases
<1> HIDE DEF f, k
<1>4. Keeps(k, c)  BY <1>2, RecordKeeps
<1>5. c \in Machines  BY <1>4, Composition
<1> HIDE DEF c
<1>6. Keeps(s, c)  BY <1>1, <1>4, Composition
<1>7. Lands(s, IssueBlank(s)) /\ Lands(f, IssueBlank(f)) /\ Lands(c, IssueBlank(c))
  BY <1>2, <1>5, IssueBlankLands
<1>8. Keeps(s, IssueBlank(s)) /\ Keeps(s, IssueBlank(f)) /\ Keeps(s, IssueBlank(c))
  BY <1>1, <1>6, <1>7, Composition
<1> QED  BY <1>3, <1>8, KeepsReflexive

LEMMA OnSoftBlankKeeps ==
    ASSUME NEW s \in Machines, NEW at \in Int
    PROVE  Keeps(s, OnSoftBlank(s, at))
<1> DEFINE f == [s EXCEPT !.graceFrozen = None]
           k == SpawnTeardown(s)
           c == [k EXCEPT !.stage = None]
           E(t) == EnterLadderStage(t, 1, at)
<1>1. Keeps(s, f) /\ Keeps(s, k)  BY RecordKeeps, SpawnTeardownKeeps
<1>2. f \in Machines /\ k \in Machines  BY <1>1, Composition
<1>3. OnSoftBlank(s, at) \in {s, E(s), E(f), E(c)}
  BY DEF OnSoftBlank, Machines, Phases, RenderPhases
<1> HIDE DEF f, k
<1>4. Keeps(k, c)  BY <1>2, RecordKeeps
<1>5. c \in Machines  BY <1>4, Composition
<1> HIDE DEF c
<1>6. Keeps(s, c)  BY <1>1, <1>4, Composition
<1>7. Lands(s, E(s)) /\ Lands(f, E(f)) /\ Lands(c, E(c))
  BY <1>2, <1>5, EnterLadderStageLands
<1> HIDE DEF E
<1>8. Keeps(s, E(s)) /\ Keeps(s, E(f)) /\ Keeps(s, E(c))
  BY <1>1, <1>6, <1>7, Composition
<1> QED  BY <1>3, <1>8, KeepsReflexive

LEMMA OnForceWakeKeeps ==
    ASSUME NEW s \in Machines, NEW at \in Int, at <= 0
    PROVE  Keeps(s, OnForceWake(s, at))
<1> DEFINE f == [s EXCEPT !.graceFrozen = None]
           w == [s EXCEPT !.pendingWake = TRUE]
<1>1. Keeps(s, f) /\ Keeps(s, w)  BY RecordKeeps
<1>2. f \in Machines  BY <1>1, Composition
<1>3. OnForceWake(s, at) \in
        {s, EnterActive(f, at), w, IssueWake(s, at), TeardownRender(s, at)}
  BY DEF OnForceWake, Machines, Phases, RenderPhases
<1> HIDE DEF f, w
<1>4. Lands(f, EnterActive(f, at))  BY <1>2, EnterActiveLands
<1>5. Lands(s, IssueWake(s, at)) /\ Lands(s, TeardownRender(s, at))
  BY IssueWakeLands, TeardownRenderLands
<1>6. /\ Keeps(s, EnterActive(f, at)) /\ Keeps(s, IssueWake(s, at))
      /\ Keeps(s, TeardownRender(s, at))
  BY <1>1, <1>4, <1>5, Composition
<1> QED  BY <1>1, <1>3, <1>6, KeepsReflexive

LEMMA OnStageTickKeeps ==
    ASSUME NEW s \in Machines, NEW gen \in Gens, NEW at \in Int
    PROVE  Keeps(s, OnStageTick(s, gen, at))
<1>1. OnStageTick(s, gen, at) \in {s, AdvanceStage(s, at)}  BY DEF OnStageTick
<1>2. Keeps(s, AdvanceStage(s, at))  BY AdvanceLands, Composition
<1> QED  BY <1>1, <1>2, KeepsReflexive

LEMMA OnOwnershipGainedKeeps ==
    ASSUME NEW s \in Machines, NEW at \in Int, at <= 0
    PROVE  Keeps(s, OnOwnershipGained(s, at))
<1> DEFINE o == [s EXCEPT !.owned = TRUE]
           b == o.pendingWake \/ o.zone = "present" \/ Overlaid(o)
           w == [o EXCEPT !.pendingWake = b]
           k == TeardownRender(o, at)
<1>1. Keeps(s, o)  BY RecordKeeps
<1>2. o \in Machines  BY <1>1, Composition
<1>3. OnOwnershipGained(s, at) \in
        {o, GainGrace(o), w, IssueWake(k, at), IssueWake(o, at)}
  BY DEF OnOwnershipGained, Machines, Phases, RenderPhases
<1> HIDE DEF o
<1>4. Keeps(o, GainGrace(o))
  <2> DEFINE t == [o EXCEPT !.ticks = @ \cup {o.until}]
  <2>1. GainGrace(o) \in {o, t}  BY DEF GainGrace
  <2>2. t \in Machines  BY <1>2 DEF Machines
  <2>3. /\ t.paused = o.paused /\ o.ticks \subseteq t.ticks /\ t.phase = o.phase
        /\ t.tasks = o.tasks /\ t.blankGen = o.blankGen /\ t.renderGen = o.renderGen
    BY <1>2 DEF Machines
  <2> HIDE DEF t
  <2>4. Keeps(o, t)  BY <2>2, <2>3, KeepsPhase
  <2> QED  BY <1>2, <2>1, <2>4, KeepsReflexive
<1>5. Keeps(o, w)
  <2>1. b \in BOOLEAN  BY <1>2 DEF Machines, Overlaid
  <2> HIDE DEF b
  <2> QED  BY <1>2, <2>1, RecordKeeps
<1>6. Keeps(o, k)  BY <1>2, TeardownRenderLands, Composition
<1>7. k \in Machines  BY <1>6, Composition
<1> HIDE DEF w, k
<1>8. Lands(k, IssueWake(k, at)) /\ Lands(o, IssueWake(o, at))
  BY <1>2, <1>7, IssueWakeLands
<1>9. Keeps(o, IssueWake(k, at)) /\ Keeps(o, IssueWake(o, at))
  BY <1>6, <1>8, Composition
<1>10. Keeps(o, OnOwnershipGained(s, at))
  BY <1>2, <1>3, <1>4, <1>5, <1>9, KeepsReflexive
<1> QED  BY <1>1, <1>10, Composition

LEMMA OnOwnershipLostKeeps ==
    ASSUME NEW s \in Machines, NEW at \in Int
    PROVE  Keeps(s, OnOwnershipLost(s, at))
<1> DEFINE y == [s EXCEPT !.owned = FALSE]
<1>1. Keeps(s, y)  BY RecordKeeps
<1>2. y \in Machines  BY <1>1, Composition
<1>3. OnOwnershipLost(s, at) \in {y, EnterActive(y, at), TeardownRender(y, at)}
  BY DEF OnOwnershipLost
<1> HIDE DEF y
<1>4. Keeps(y, EnterActive(y, at)) /\ Keeps(y, TeardownRender(y, at))
  BY <1>2, EnterActiveLands, TeardownRenderLands, Composition
<1> QED  BY <1>1, <1>3, <1>4, Composition

LEMMA FedKeeps ==
    ASSUME NEW s \in Machines, NEW at \in Int, at <= 0, owns \in BOOLEAN
    PROVE  Keeps(s, Fed(s, at))
<1>1. Fed(s, at) \in {s, OnOwnershipGained(s, at), OnOwnershipLost(s, at)}
  BY DEF Fed, Machines
<1> QED  BY <1>1, KeepsReflexive, OnOwnershipGainedKeeps, OnOwnershipLostKeeps

-----------------------------------------------------------------------------
(* Results.  The task that reports is gone when its result is handled; it is *)
(* the awaited one only if the phase and the generation match, and then the  *)
(* machine leaves the phase.                                                 *)

LEMMA LeavesFewer ==
    ASSUME NEW s \in Machines, NEW ts \in SUBSET Tasks
    PROVE  LET t == [s EXCEPT !.tasks = ts]
           IN  /\ t \in Machines /\ Extends(s, t) /\ (Driven(s) => Driven(t))
               /\ t.phase = s.phase /\ t.blankGen = s.blankGen
               /\ t.renderGen = s.renderGen /\ t.tasks = ts
<1> DEFINE t == [s EXCEPT !.tasks = ts]
<1>1. t \in Machines  BY DEF Machines
<1>2. /\ t.paused = s.paused /\ t.ticks = s.ticks /\ t.phase = s.phase
      /\ t.blankGen = s.blankGen /\ t.renderGen = s.renderGen /\ t.tasks = ts
  BY DEF Machines
<1> HIDE DEF t
<1>3. Extends(s, t) /\ (Driven(s) => Driven(t))  BY <1>1, <1>2 DEF Extends, Driven
<1> QED  BY <1>1, <1>2, <1>3 DEF t

LEMMA CalmPhaseLands ==
    ASSUME NEW s \in Machines, NEW p \in Phases \ {"waking", "blanking", "render_pending"}
    PROVE  LET t == [s EXCEPT !.phase = p] IN t \in Machines /\ Lands(s, t)
<1> DEFINE t == [s EXCEPT !.phase = p]
<1>1. t \in Machines  BY DEF Machines
<1>2. t.phase = p /\ t.paused = s.paused /\ t.ticks = s.ticks  BY DEF Machines
<1> HIDE DEF t
<1>3. Lands(s, t)  BY <1>1, <1>2, LandsCalm
<1> QED  BY <1>1, <1>3 DEF t

LEMMA BlankResultKeeps ==
    ASSUME NEW s \in Machines, NEW k \in s.tasks, k.kind = "blank",
           NEW ok \in BOOLEAN, NEW at \in Int, at <= 0
    PROVE  Keeps(s, OnBlankResult([s EXCEPT !.tasks = @ \ {k}], k.gen, ok, at))
<1> DEFINE t == [s EXCEPT !.tasks = s.tasks \ {k}]
           b == [t EXCEPT !.pendingWake = FALSE]
           c == [b EXCEPT !.phase = "blanked"]
           r == OnBlankResult(t, k.gen, ok, at)
<1>1. s.tasks \ {k} \in SUBSET Tasks  BY DEF Machines
<1>2. /\ t \in Machines /\ Extends(s, t) /\ (Driven(s) => Driven(t))
      /\ t.phase = s.phase /\ t.blankGen = s.blankGen
      /\ t.renderGen = s.renderGen /\ t.tasks = s.tasks \ {k}
  BY <1>1, LeavesFewer
<1>3. CASE t.phase # "blanking" \/ k.gen # t.blankGen
  <2>1. r = t  BY <1>3 DEF OnBlankResult
  <2>2. Awaited(s) => Awaited(t)  BY <1>2, <1>3 DEF Awaited
  <2> QED  BY <1>2, <2>1, <2>2 DEF Keeps
<1>4. CASE ~(t.phase # "blanking" \/ k.gen # t.blankGen)
  <2>1. r \in {IssueWake(b, at), ScheduleStageTick(c, at), EnterGrace(b, at), EnterActive(b, at)}
    BY <1>4 DEF OnBlankResult
  <2> HIDE DEF t, r
  <2>2. Keeps(t, b)  BY <1>2, RecordKeeps
  <2>3. b \in Machines  BY <2>2, Composition
  <2> HIDE DEF b
  <2>4. c \in Machines /\ Lands(b, c)  BY <2>3, CalmPhaseLands DEF Phases
  <2> HIDE DEF c
  <2>7. Keeps(c, ScheduleStageTick(c, at))  BY <2>4, ScheduleStageTickKeeps
  <2>8. Lands(b, ScheduleStageTick(c, at))  BY <2>4, <2>7, Composition
  <2>9. Lands(b, r)
    BY <2>1, <2>3, <2>8, IssueWakeLands, EnterGraceLands, EnterActiveLands
  <2>10. Extends(s, r)  BY <1>2, <2>2, <2>9 DEF Keeps, Lands, Extends
  <2> QED  BY <2>9, <2>10 DEF Keeps, Lands, r, t
<1> QED  BY <1>3, <1>4 DEF t, r

LEMMA WakeResultKeeps ==
    ASSUME NEW s \in Machines, NEW k \in s.tasks, k.kind = "wake",
           NEW ok \in BOOLEAN, NEW at \in Int, at <= 0
    PROVE  Keeps(s, OnWakeResult([s EXCEPT !.tasks = @ \ {k}], k.gen, ok, at))
<1> DEFINE t == [s EXCEPT !.tasks = s.tasks \ {k}]
           w == [t EXCEPT !.lastWake = at]
           r == OnWakeResult(t, k.gen, ok, at)
<1>1. s.tasks \ {k} \in SUBSET Tasks  BY DEF Machines
<1>2. /\ t \in Machines /\ Extends(s, t) /\ (Driven(s) => Driven(t))
      /\ t.phase = s.phase /\ t.blankGen = s.blankGen
      /\ t.renderGen = s.renderGen /\ t.tasks = s.tasks \ {k}
  BY <1>1, LeavesFewer
<1>3. Keeps(s, t)  BY <1>2 DEF Keeps, Awaited
<1>4. r \in {t, EnterActive(w, at), IssueWake(t, at)}  BY DEF OnWakeResult
<1> HIDE DEF t
<1>5. Keeps(t, w)  BY <1>2, RecordKeeps
<1>6. w \in Machines  BY <1>5, Composition
<1> HIDE DEF w, r
<1>7. Keeps(t, EnterActive(w, at)) /\ Keeps(t, IssueWake(t, at))
  <2>1. Lands(w, EnterActive(w, at)) /\ Lands(t, IssueWake(t, at))
    BY <1>2, <1>6, EnterActiveLands, IssueWakeLands
  <2> QED  BY <1>5, <2>1, Composition
<1>8. Keeps(s, r)  BY <1>2, <1>3, <1>4, <1>7, KeepsReflexive, Composition
<1> QED  BY <1>8 DEF r, t

LEMMA RenderResultKeeps ==
    ASSUME NEW s \in Machines, NEW k \in s.tasks, k.kind = "show",
           NEW ok \in BOOLEAN, NEW at \in Int, at <= 0
    PROVE  Keeps(s, OnRenderResult([s EXCEPT !.tasks = @ \ {k}], k.gen, ok, at))
<1> DEFINE t == [s EXCEPT !.tasks = s.tasks \ {k}]
           c == [t EXCEPT !.phase = "staged"]
           r == OnRenderResult(t, k.gen, ok, at)
<1>1. s.tasks \ {k} \in SUBSET Tasks  BY DEF Machines
<1>2. /\ t \in Machines /\ Extends(s, t) /\ (Driven(s) => Driven(t))
      /\ t.phase = s.phase /\ t.blankGen = s.blankGen
      /\ t.renderGen = s.renderGen /\ t.tasks = s.tasks \ {k}
  BY <1>1, LeavesFewer
<1>3. CASE t.phase # "render_pending" \/ k.gen # t.renderGen
  <2>1. r = t  BY <1>3 DEF OnRenderResult
  <2>2. Awaited(s) => Awaited(t)  BY <1>2, <1>3 DEF Awaited
  <2> QED  BY <1>2, <2>1, <2>2 DEF Keeps
<1>4. CASE ~(t.phase # "render_pending" \/ k.gen # t.renderGen)
  <2>1. r \in {ScheduleStageTick(c, at), AdvanceToNextController(t, at)}
    BY <1>4 DEF OnRenderResult
  <2> HIDE DEF t, r
  <2>2. c \in Machines /\ Lands(t, c)  BY <1>2, CalmPhaseLands DEF Phases
  <2> HIDE DEF c
  <2>5. Keeps(c, ScheduleStageTick(c, at))  BY <2>2, ScheduleStageTickKeeps
  <2>6. Lands(t, ScheduleStageTick(c, at))  BY <2>2, <2>5, Composition
  <2>7. Lands(t, AdvanceToNextController(t, at))  BY <1>2, AdvanceLands
  <2>8. Lands(t, r)  BY <2>1, <2>6, <2>7
  <2>9. Lands(s, r)  BY <1>2, <2>8, Composition
  <2> QED  BY <2>9, Composition DEF r, t
<1> QED  BY <1>3, <1>4 DEF t, r

-----------------------------------------------------------------------------
(* The steps of the runtime *)

\* The inductive invariant.  It needs no more than its parts: each part is kept
\* by every operator on its own, which is what Keeps says.
Inv == TypeOK /\ Driven(d) /\ Awaited(d) /\ Resumes(d)

LEMMA SettledKeeps ==
    ASSUME NEW s \in Machines
    PROVE  Keeps(s, Settled(s))
<1> DEFINE u == IF s.phase = "grace" THEN s.until ELSE 0
           g == IF s.phase \in RenderPhases THEN s.renderGen ELSE 0
           t == [s EXCEPT !.until = u, !.renderGen = g]
<1>1. u \in Int /\ g \in Gens  BY GenAssumption DEF Machines, Gens
<1>2. Settled(s) = t  BY DEF Settled
<1>3. s.phase = "render_pending" => g = s.renderGen  BY DEF RenderPhases
<1> HIDE DEF u, g
<1>4. t \in Machines  BY <1>1, Update
<1>5. /\ t.paused = s.paused /\ t.ticks = s.ticks /\ t.phase = s.phase
      /\ t.tasks = s.tasks /\ t.blankGen = s.blankGen /\ t.renderGen = g
  BY DEF Machines
<1> HIDE DEF t
<1>6. Driven(s) => Driven(t)  BY <1>5 DEF Driven
<1>7. Awaited(s) => Awaited(t)  BY <1>3, <1>5 DEF Awaited
<1> QED  BY <1>2, <1>4, <1>5, <1>6, <1>7 DEF Keeps, Extends

LEMMA TurnHistory ==
    ASSUME Inv, NEW s, Turn(s)
    PROVE  vacantFor' \in 0 .. GracePeriod
BY TimingAssumption DEF Inv, TypeOK, Turn

\* What a turn must show: that the handler keeps.
LEMMA TurnInv ==
    ASSUME Inv, NEW s, Keeps(d, s), Turn(s)
    PROVE  /\ d' \in Machines /\ Driven(d') /\ Awaited(d') /\ Resumes(d')
           /\ lag' \in Nat /\ vacantFor' \in 0 .. GracePeriod
<1>1. s \in Machines  BY Composition
<1>2. d' = Settled(s) /\ lag' = 0  BY DEF Turn
<1>3. Keeps(d, d')  BY <1>1, <1>2, SettledKeeps, Composition
<1>4. Resumes(d')  BY <1>3, Options DEF Inv, Keeps, Extends, Resumes
<1> QED  BY <1>2, <1>3, <1>4, TurnHistory DEF Inv, Keeps, Extends

LEMMA InitInv == Init => Inv
<1> SUFFICES ASSUME Init PROVE Inv  OBVIOUS
<1>0. vacantFor \in 0 .. GracePeriod  BY TimingAssumption DEF Init
<1>1. New \in Machines
  <2>1. 0 \in Gens /\ 0 \in Int  BY GenAssumption DEF Gens
  <2> QED  BY <2>1, SMTT(60) DEF New, Machines, Phases
<1>2. New.phase = "active" /\ New.paused = None  BY DEF New
<1>3. CASE d = New
  BY <1>0, <1>1, <1>2, <1>3, Options DEF Init, Inv, TypeOK, Driven, Awaited, Resumes
<1>4. ASSUME NEW p \in {"blanked", "waking"}, d = Restored(p, 0)
      PROVE  Inv
  <2> DEFINE ts == IF p = "waking" THEN {RetryInterval} ELSE {}
             r == [New EXCEPT !.phase = p, !.cmdGen = 0, !.ticks = ts]
  <2>1. RetryInterval \in Int /\ 0 \in Gens  BY TimingAssumption, GenAssumption DEF Gens
  <2>2. ts \in SUBSET Int /\ (p = "waking" => RetryInterval \in ts)  BY <2>1
  <2>3. d = r  BY <1>4 DEF Restored
  <2> HIDE DEF ts
  <2>4. r \in Machines  BY <1>1, <2>1, <2>2, Update DEF Phases
  <2>5. r.phase = p /\ r.paused = None /\ r.ticks = ts
    BY <1>1, <1>2 DEF Machines
  <2> HIDE DEF r
  <2>6. Driven(r)  BY <2>1, <2>2, <2>5 DEF Driven
  <2> QED
    BY <1>0, <1>4, <2>3, <2>4, <2>5, <2>6, Options DEF Init, Inv, TypeOK, Awaited, Resumes
<1>5. ASSUME d = [New EXCEPT !.ticks = {RetryInterval}] PROVE Inv
  <2> DEFINE r == [New EXCEPT !.ticks = {RetryInterval}]
  <2>1. {RetryInterval} \in SUBSET Int  BY TimingAssumption
  <2>2. r \in Machines  BY <1>1, <2>1 DEF Machines
  <2>3. r.phase = "active" /\ r.paused = None  BY <1>1, <1>2 DEF Machines
  <2> HIDE DEF r
  <2> QED
    BY <1>0, <1>5, <2>2, <2>3, Options DEF Init, Inv, TypeOK, Driven, Awaited, Resumes, r
<1> QED  BY <1>3, <1>4, <1>5 DEF Init

\* An input from outside: the machine is fed the verdict of the gate, then the
\* input.
LEMMA InputInv ==
    ASSUME Inv, InputArrives
    PROVE  Inv'
<1> USE DEF InputTurn
<1>1. d \in Machines /\ owns \in BOOLEAN /\ Keeps(d, d)
  BY KeepsReflexive DEF Inv, TypeOK
<1>2. 0 \in Int /\ 0 <= 0  OBVIOUS
<1> DEFINE f == Fed(d, 0)
<1>3. Keeps(d, f) /\ f \in Machines  BY <1>1, <1>2, FedKeeps, Composition
<1>4. ASSUME NEW s, Keeps(f, s) PROVE Keeps(d, s)  BY <1>3, <1>4, Composition
<1> HIDE DEF f
<1>5. ASSUME NEW present \in BOOLEAN, ZonePresent(present) PROVE Inv'
  <2> DEFINE calm == IF present THEN [d EXCEPT !.hold = FALSE] ELSE d
             z == OnZonePresent(Fed(calm, 0), present, 0)
  <2>1. Keeps(d, calm) /\ calm \in Machines  BY <1>1, RecordKeeps, Composition
  <2>2. /\ Turn(z) /\ holdUntil' \in {holdUntil, None}
        /\ UNCHANGED <<ruled, owns, claimed, panel, surface>>
    BY <1>5 DEF ZonePresent
  <2> HIDE DEF calm
  <2>3. Keeps(calm, Fed(calm, 0)) /\ Fed(calm, 0) \in Machines
    BY <1>1, <1>2, <2>1, FedKeeps, Composition
  <2>4. Keeps(Fed(calm, 0), z)  BY <1>2, <2>3, OnZonePresentKeeps
  <2> HIDE DEF z
  <2>5. Keeps(d, z)  BY <2>1, <2>3, <2>4, Composition
  <2> QED  BY <2>2, <2>5, TurnInv DEF Inv, TypeOK
<1>6. ASSUME NEW b \in BOOLEAN, SetInhibited(b) PROVE Inv'
  <2>1. /\ Turn(OnInhibitorChanged(f, b, 0))
        /\ UNCHANGED <<ruled, owns, claimed, holdUntil, panel, surface>>
    BY <1>6 DEF SetInhibited, f
  <2>2. Keeps(d, OnInhibitorChanged(f, b, 0))
    BY <1>2, <1>3, <1>4, OnInhibitorChangedKeeps
  <2> QED  BY <2>1, <2>2, TurnInv DEF Inv, TypeOK
<1>7. ASSUME NEW until \in PauseTimes \cup {Forever}, Pause(until) PROVE Inv'
  <2> DEFINE p == OnPause(f, until, 0)
  <2>1. Turn(p) /\ UNCHANGED <<ruled, owns, claimed, holdUntil, panel, surface>>
    BY <1>7 DEF Pause, f
  <2>2. until \in Int \cup {Forever}  BY <1>7, RuntimeAssumption
  <2>3. /\ p \in Machines /\ Resumes(p)
        /\ Driven(f) => Driven(p)
        /\ Awaited(f) => Awaited(p)
    BY <1>2, <1>3, <2>2, OnPauseKeeps
  <2> HIDE DEF p
  <2>4. Driven(p) /\ Awaited(p)  BY <1>3, <2>3 DEF Inv, Keeps
  <2>5. /\ Keeps(p, Settled(p)) /\ d' = Settled(p)
        /\ lag' = 0 /\ vacantFor' \in 0 .. GracePeriod
    BY <2>1, <2>3, SettledKeeps, TurnHistory DEF Turn
  <2>6. d' \in Machines /\ Driven(d') /\ Awaited(d') /\ Resumes(d')
    BY <2>3, <2>4, <2>5, Options DEF Keeps, Extends, Resumes
  <2> QED  BY <2>1, <2>5, <2>6 DEF Inv, TypeOK
<1>8. CASE Resume
  <2>1. Turn(OnResume(f, 0)) /\ UNCHANGED <<ruled, owns, claimed, holdUntil, panel, surface>>
    BY <1>8 DEF Resume, f
  <2>2. Keeps(d, OnResume(f, 0))  BY <1>2, <1>3, <1>4, OnResumeKeeps
  <2> QED  BY <2>1, <2>2, TurnInv DEF Inv, TypeOK
<1>9. CASE ForceBlank
  <2>1. Turn(OnForceBlank(f)) /\ UNCHANGED <<ruled, owns, claimed, holdUntil, panel, surface>>
    BY <1>9 DEF ForceBlank, f
  <2>2. Keeps(d, OnForceBlank(f))  BY <1>3, <1>4, OnForceBlankKeeps
  <2> QED  BY <2>1, <2>2, TurnInv DEF Inv, TypeOK
<1>10. CASE SoftBlank
  <2>1. Turn(OnSoftBlank(f, 0)) /\ UNCHANGED <<ruled, owns, claimed, holdUntil, panel, surface>>
    BY <1>10 DEF SoftBlank, f
  <2>2. Keeps(d, OnSoftBlank(f, 0))  BY <1>2, <1>3, <1>4, OnSoftBlankKeeps
  <2> QED  BY <2>1, <2>2, TurnInv DEF Inv, TypeOK
<1>11. CASE ForceWake
  <2>1. Turn(OnForceWake(f, 0)) /\ UNCHANGED <<ruled, owns, claimed, holdUntil, panel, surface>>
    BY <1>11 DEF ForceWake, f
  <2>2. Keeps(d, OnForceWake(f, 0))  BY <1>2, <1>3, <1>4, OnForceWakeKeeps
  <2> QED  BY <2>1, <2>2, TurnInv DEF Inv, TypeOK
<1>12. CASE InputWake
  <2> DEFINE held == IF d.zone = "absent" /\ InputWakeHold > 0
                     THEN [d EXCEPT !.hold = TRUE] ELSE d
             w == OnForceWake(Fed(held, 0), 0)
  <2>1. Keeps(d, held) /\ held \in Machines  BY <1>1, RecordKeeps, Composition
  <2>2. /\ Turn(w) /\ holdUntil' \in {holdUntil, InputWakeHold}
        /\ UNCHANGED <<ruled, owns, claimed, panel, surface>>
    BY <1>12 DEF InputWake
  <2> HIDE DEF held
  <2>3. Keeps(held, Fed(held, 0)) /\ Fed(held, 0) \in Machines
    BY <1>1, <1>2, <2>1, FedKeeps, Composition
  <2>4. Keeps(Fed(held, 0), w)  BY <1>2, <2>3, OnForceWakeKeeps
  <2> HIDE DEF w
  <2>5. Keeps(d, w)  BY <2>1, <2>3, <2>4, Composition
  <2>6. holdUntil' \in Int \cup {None}  BY <2>2, RuntimeAssumption DEF Inv, TypeOK
  <2> QED  BY <2>2, <2>5, <2>6, TurnInv DEF Inv, TypeOK
<1>13. CASE OwnershipFlips
  BY <1>13 DEF OwnershipFlips, Inv, TypeOK
<1>14. CASE OwnershipPoll
  <2>1. Turn(f) /\ UNCHANGED <<ruled, owns, claimed, holdUntil, panel, surface>>
    BY <1>14 DEF OwnershipPoll, f
  <2> QED  BY <1>3, <2>1, TurnInv DEF Inv, TypeOK
<1>15. ASSUME NEW until \in BOOLEAN, SetClaimSuppression(until) PROVE Inv'
  <2>1. /\ Turn(d) /\ claimed' \in BOOLEAN
        /\ UNCHANGED <<ruled, owns, holdUntil, panel, surface>>
    BY <1>15 DEF SetClaimSuppression
  <2> QED  BY <1>1, <2>1, TurnInv DEF Inv, TypeOK
<1>16. CASE SuppressionLapses
  BY <1>16 DEF SuppressionLapses, Inv, TypeOK
<1>17. CASE OtherTurn
  <2>1. Turn(d) /\ UNCHANGED <<ruled, owns, claimed, holdUntil, panel, surface>>
    BY <1>17 DEF OtherTurn
  <2> QED  BY <1>1, <2>1, TurnInv DEF Inv, TypeOK
<1> QED
  BY <1>5, <1>6, <1>7, <1>8, <1>9, <1>10, <1>11, <1>12, <1>13, <1>14, <1>15, <1>16,
     <1>17
  DEF InputArrives

\* A timer leaves the wheel and its handler runs at its deadline.
LEMMA TimerInv ==
    ASSUME Inv, TimerFires
    PROVE  Inv'
<1>1. d \in Machines /\ owns \in BOOLEAN  BY DEF Inv, TypeOK
<1>2. CASE DisplayTick
  <2>1. PICK at \in d.ticks :
            /\ Fires(at)
            /\ Turn(OnTick(Fed([d EXCEPT !.ticks = @ \ {at}], at), at))
            /\ UNCHANGED <<ruled, owns, claimed, holdUntil, panel, surface>>
    BY <1>2 DEF DisplayTick
  <2> DEFINE ts == d.ticks \ {at}
             s == [d EXCEPT !.ticks = ts]
             f == Fed(s, at)
             r == OnTick(f, at)
  <2>2. at \in Int /\ at <= 0 /\ ts \in SUBSET Int  BY <1>1, <2>1 DEF Machines, Fires
  <2>3. Turn(r)  BY <2>1
  <2> HIDE DEF ts
  <2>4. s \in Machines  BY <1>1, <2>2 DEF Machines
  <2>5. /\ s.paused = d.paused /\ s.ticks = ts /\ s.phase = d.phase
        /\ s.tasks = d.tasks /\ s.blankGen = d.blankGen /\ s.renderGen = d.renderGen
    BY <1>1 DEF Machines
  <2>6. Awaited(s)  BY <2>5 DEF Inv, Awaited
  <2> HIDE DEF s
  <2>7. Keeps(s, f) /\ f \in Machines  BY <1>1, <2>2, <2>4, FedKeeps, Composition
  <2> HIDE DEF f
  <2>8. /\ Keeps(f, r) /\ Driven(r)
        /\ r.paused \in Int => r.paused > at
    BY <2>2, <2>7, OnTickKeeps
  <2> HIDE DEF r
  <2>9. Keeps(s, r)  BY <2>7, <2>8, Composition
  <2>10. Resumes(r)
    <3>1. SUFFICES ASSUME r.paused \in Int PROVE \E t \in r.ticks : t >= r.paused
      BY DEF Resumes
    <3>2. r.paused = d.paused  BY <2>5, <2>9, <3>1, Options DEF Keeps, Extends
    <3>3. PICK t \in d.ticks : t >= r.paused  BY <3>1, <3>2 DEF Inv, Resumes
    <3>4. t \in Int  BY <1>1 DEF Machines
    <3>5. t # at  BY <2>2, <2>8, <3>1, <3>3, <3>4
    <3>6. t \in r.ticks  BY <2>5, <2>9, <3>5 DEF Keeps, Extends, ts
    <3> QED  BY <3>3, <3>6
  <2>11. Awaited(r) /\ r \in Machines  BY <2>6, <2>9, Composition DEF Keeps
  <2>12. /\ Keeps(r, Settled(r)) /\ d' = Settled(r)
         /\ lag' = 0 /\ vacantFor' \in 0 .. GracePeriod
    BY <2>3, <2>11, SettledKeeps, TurnHistory DEF Turn
  <2>13. d' \in Machines /\ Driven(d') /\ Awaited(d') /\ Resumes(d')
    BY <2>8, <2>10, <2>11, <2>12, Options DEF Keeps, Extends, Resumes
  <2> QED  BY <2>1, <2>12, <2>13 DEF Inv, TypeOK
<1>3. CASE DisplayStageTick
  <2>1. PICK k \in d.stageTicks :
            /\ Fires(k.at)
            /\ Turn(OnStageTick(Fed([d EXCEPT !.stageTicks = @ \ {k}], k.at), k.gen, k.at))
            /\ UNCHANGED <<ruled, owns, claimed, holdUntil, panel, surface>>
    BY <1>3 DEF DisplayStageTick
  <2> DEFINE ts == d.stageTicks \ {k}
             s == [d EXCEPT !.stageTicks = ts]
             f == Fed(s, k.at)
             r == OnStageTick(f, k.gen, k.at)
  <2>2. k.at \in Int /\ k.at <= 0 /\ k.gen \in Gens /\ ts \in SUBSET [gen : Gens, at : Int]
    BY <1>1, <2>1 DEF Machines, Fires
  <2>3. Turn(r)  BY <2>1
  <2> HIDE DEF ts
  <2>4. s \in Machines  BY <1>1, <2>2 DEF Machines
  <2>5. /\ s.paused = d.paused /\ s.ticks = d.ticks /\ s.phase = d.phase
        /\ s.tasks = d.tasks /\ s.blankGen = d.blankGen /\ s.renderGen = d.renderGen
    BY <1>1 DEF Machines
  <2> HIDE DEF s
  <2>6. Keeps(d, s)  BY <2>4, <2>5, KeepsPhase
  <2>7. Keeps(s, f) /\ f \in Machines  BY <1>1, <2>2, <2>4, FedKeeps, Composition
  <2> HIDE DEF f
  <2>8. Keeps(f, r)  BY <2>2, <2>7, OnStageTickKeeps
  <2> HIDE DEF r
  <2>9. Keeps(d, r)  BY <2>6, <2>7, <2>8, Composition
  <2> QED  BY <2>1, <2>3, <2>9, TurnInv DEF Inv, TypeOK
<1>4. CASE InputWakeHoldExpiry
  <2> DEFINE at == holdUntil
             c == [d EXCEPT !.hold = FALSE]
             s == Fed(c, at)
             r == IF d.zone = "absent" THEN OnZonePresent(s, FALSE, at) ELSE s
  <2>1. Turn(r) /\ holdUntil' = None /\ UNCHANGED <<ruled, owns, claimed, panel, surface>>
    BY <1>4 DEF InputWakeHoldExpiry
  <2>2. at \in Int /\ at <= 0  BY <1>4 DEF InputWakeHoldExpiry, Fires, Inv, TypeOK
  <2> HIDE DEF at
  <2>3. Keeps(d, c) /\ c \in Machines
    <3>1. Keeps(d, c)  BY <1>1, RecordKeeps
    <3> QED  BY <1>1, <3>1, Composition
  <2> HIDE DEF c
  <2>4. Keeps(c, s) /\ s \in Machines  BY <1>1, <2>2, <2>3, FedKeeps, Composition
  <2> HIDE DEF s
  <2>5. Keeps(s, r)  BY <2>2, <2>4, OnZonePresentKeeps, KeepsReflexive
  <2> HIDE DEF r
  <2>6. Keeps(d, r)  BY <2>3, <2>4, <2>5, Composition
  <2> QED  BY <2>1, <2>6, TurnInv DEF Inv, TypeOK
<1> QED  BY <1>2, <1>3, <1>4 DEF TimerFires

\* The result of a blank, a wake or a show; the end of a teardown answers the
\* shows that wait for their surface and changes no field of the machine.
LEMMA TaskInv ==
    ASSUME Inv, TaskFinishes
    PROVE  Inv'
<1>1. d \in Machines /\ lag \in Nat  BY DEF Inv, TypeOK
<1>2. -lag \in Int /\ -lag <= 0  BY <1>1
<1> PICK k \in d.tasks :
        \/ \E ok \in BOOLEAN :
                BlankFinishes(k, ok) \/ WakeFinishes(k, ok) \/ ShowFinishes(k, ok)
        \/ TeardownFinishes(k)
  BY DEF TaskFinishes
<1>3. ASSUME NEW ok \in BOOLEAN, BlankFinishes(k, ok) PROVE Inv'
  <2> DEFINE r == OnBlankResult([d EXCEPT !.tasks = @ \ {k}], k.gen, ok, -lag)
  <2>1. /\ k.kind = "blank" /\ Turn(r) /\ UNCHANGED <<ruled, owns, claimed, holdUntil, surface>>
        /\ panel' \in {"dark", panel}
    BY <1>3 DEF BlankFinishes, Finishes, Without
  <2>2. Keeps(d, r)  BY <1>1, <1>2, <2>1, BlankResultKeeps
  <2> HIDE DEF r
  <2> QED  BY <2>1, <2>2, TurnInv DEF Inv, TypeOK
<1>4. ASSUME NEW ok \in BOOLEAN, WakeFinishes(k, ok) PROVE Inv'
  <2> DEFINE r == OnWakeResult([d EXCEPT !.tasks = @ \ {k}], k.gen, ok, -lag)
  <2>1. /\ k.kind = "wake" /\ Turn(r) /\ UNCHANGED <<ruled, owns, claimed, holdUntil, surface>>
        /\ panel' \in {"lit", panel}
    BY <1>4 DEF WakeFinishes, Finishes, Without
  <2>2. Keeps(d, r)  BY <1>1, <1>2, <2>1, WakeResultKeeps
  <2> HIDE DEF r
  <2> QED  BY <2>1, <2>2, TurnInv DEF Inv, TypeOK
<1>5. ASSUME NEW ok \in BOOLEAN, ShowFinishes(k, ok) PROVE Inv'
  <2> DEFINE r == OnRenderResult([d EXCEPT !.tasks = @ \ {k}], k.gen, ok, -lag)
  <2>1. /\ k.kind = "show" /\ Turn(r) /\ UNCHANGED <<ruled, owns, claimed, holdUntil, panel>>
        /\ surface' = (ok \/ surface)
    BY <1>5 DEF ShowFinishes, Finishes, Without
  <2>2. Keeps(d, r)  BY <1>1, <1>2, <2>1, RenderResultKeeps
  <2> HIDE DEF r
  <2>3. surface' \in BOOLEAN  BY <2>1
  <2> QED  BY <2>1, <2>2, <2>3, TurnInv DEF Inv, TypeOK
<1>6. ASSUME TeardownFinishes(k) PROVE Inv'
  <2>1. PICK shows \in SUBSET {u \in d.tasks : u.kind = "show"} :
            d' = [d EXCEPT !.tasks = (@ \ (shows \cup {k}))
                            \cup {[u EXCEPT !.superseded = TRUE] : u \in shows}]
    BY <1>6 DEF TeardownFinishes
  <2>2. /\ k.kind = "teardown" /\ surface' = FALSE
        /\ UNCHANGED <<ruled, owns, claimed, holdUntil, lag, panel, vacantFor>>
    BY <1>6 DEF TeardownFinishes
  <2> DEFINE ts == (d.tasks \ (shows \cup {k})) \cup {[u EXCEPT !.superseded = TRUE] : u \in shows}
             r == [d EXCEPT !.tasks = ts]
  <2>3. ASSUME NEW u \in d.tasks
        PROVE  /\ [u EXCEPT !.superseded = TRUE] \in Tasks
               /\ [u EXCEPT !.superseded = TRUE].kind = u.kind
               /\ [u EXCEPT !.superseded = TRUE].gen = u.gen
    <3>1. u \in Tasks  BY <1>1 DEF Machines
    <3> QED  BY <3>1 DEF Tasks
  <2>4. ts \in SUBSET Tasks
    <3>1. d.tasks \in SUBSET Tasks  BY <1>1 DEF Machines
    <3> QED  BY <2>3, <3>1
  <2>5. ASSUME NEW u \in d.tasks, u.kind # "teardown"
        PROVE  \E v \in ts : v.kind = u.kind /\ v.gen = u.gen
    <3>1. CASE u \in shows
      <4>1. [u EXCEPT !.superseded = TRUE] \in ts  BY <3>1
      <4> QED  BY <2>3, <4>1
    <3>2. CASE u \notin shows
      <4>1. u \in ts  BY <2>2, <2>5, <3>2
      <4> QED  BY <4>1
    <3> QED  BY <3>1, <3>2
  <2>6. d' = r  BY <2>1
  <2> HIDE DEF ts
  <2>7. r \in Machines  BY <1>1, <2>4 DEF Machines
  <2>8. /\ r.tasks = ts
        /\ r.paused = d.paused /\ r.ticks = d.ticks /\ r.phase = d.phase
        /\ r.blankGen = d.blankGen /\ r.renderGen = d.renderGen
    BY <1>1 DEF Machines
  <2> HIDE DEF r
  <2>9. Driven(r) /\ Resumes(r)  BY <2>8 DEF Inv, Driven, Resumes
  <2>10. Awaited(r)
    <3>1. ASSUME d.phase = "blanking"
          PROVE  \E v \in ts : v.kind = "blank" /\ v.gen = d.blankGen
      <4>1. PICK u \in d.tasks : u.kind = "blank" /\ u.gen = d.blankGen
        BY <3>1 DEF Inv, Awaited
      <4> QED  BY <2>5, <4>1
    <3>2. ASSUME d.phase = "render_pending"
          PROVE  \E v \in ts : v.kind = "show" /\ v.gen = d.renderGen
      <4>1. PICK u \in d.tasks : u.kind = "show" /\ u.gen = d.renderGen
        BY <3>2 DEF Inv, Awaited
      <4> QED  BY <2>5, <4>1
    <3> QED  BY <2>8, <3>1, <3>2 DEF Awaited
  <2> QED  BY <2>2, <2>6, <2>7, <2>9, <2>10 DEF Inv, TypeOK
<1> QED  BY <1>3, <1>4, <1>5, <1>6

\* A unit of time passes: every instant is one unit nearer, and none that is
\* still to come is past.
LEMMA TimeInv ==
    ASSUME Inv, TimePasses
    PROVE  Inv'
<1>1. /\ d \in Machines /\ lag \in Nat /\ Past \in Nat
      /\ holdUntil \in Int \cup {None}
  BY RuntimeAssumption DEF Inv, TypeOK
<1>2. ASSUME NEW t \in Int PROVE Earlier(t) \in Int
  BY <1>1 DEF Earlier
<1>3. ASSUME NEW t \in Int \cup {None, Forever} PROVE EarlierOpt(t) \in Int \cup {None, Forever}
  BY <1>2 DEF EarlierOpt
<1>4. ASSUME NEW t \in Int \cup {None}
      PROVE  EarlierOpt(t) \in Int \cup {None}
  BY <1>2, <1>4, Options DEF EarlierOpt
<1> DEFINE un == IF d.phase = "grace" THEN Earlier(d.until) ELSE d.until
           tk == {t - 1 : t \in d.ticks}
           st == {[t EXCEPT !.at = t.at - 1] : t \in d.stageTicks}
           ta == {[t EXCEPT !.age = t.age + 1] : t \in d.tasks}
           r  == [d EXCEPT !.until = un, !.paused = EarlierOpt(d.paused),
                           !.stageDeadline = EarlierOpt(d.stageDeadline),
                           !.lastWake = EarlierOpt(d.lastWake),
                           !.startedAt = Earlier(d.startedAt),
                           !.ticks = tk, !.stageTicks = st, !.tasks = ta]
<1>5. d' = r  BY DEF TimePasses, Older
<1>6. un \in Int /\ tk \in SUBSET Int
  <2>1. d.until \in Int /\ d.ticks \in SUBSET Int  BY <1>1 DEF Machines
  <2> QED  BY <1>2, <2>1
<1>7. st \in SUBSET [gen : Gens, at : Int]
  <2>1. ASSUME NEW t \in d.stageTicks
        PROVE  [t EXCEPT !.at = t.at - 1] \in [gen : Gens, at : Int]
    BY <1>1 DEF Machines
  <2> QED  BY <2>1
<1>8. ASSUME NEW t \in d.tasks
      PROVE  /\ [t EXCEPT !.age = t.age + 1] \in Tasks
             /\ [t EXCEPT !.age = t.age + 1].kind = t.kind
             /\ [t EXCEPT !.age = t.age + 1].gen = t.gen
             /\ [t EXCEPT !.age = t.age + 1] \in ta
  <2>1. t \in Tasks  BY <1>1 DEF Machines
  <2> QED  BY <2>1 DEF Tasks
<1>9. ta \in SUBSET Tasks  BY <1>8
<1>10. /\ EarlierOpt(d.paused) \in Int \cup {None, Forever}
       /\ EarlierOpt(d.stageDeadline) \in Int \cup {None}
       /\ EarlierOpt(d.lastWake) \in Int \cup {None}
       /\ Earlier(d.startedAt) \in Int
  <2>1. /\ d.paused \in Int \cup {None, Forever} /\ d.startedAt \in Int
        /\ d.stageDeadline \in Int \cup {None} /\ d.lastWake \in Int \cup {None}
    BY <1>1 DEF Machines
  <2> QED  BY <1>2, <1>3, <1>4, <2>1
<1> HIDE DEF un, st
<1>11. r \in Machines
  <2> DEFINE h == [d EXCEPT !.until = un, !.paused = EarlierOpt(d.paused),
                            !.stageDeadline = EarlierOpt(d.stageDeadline),
                            !.lastWake = EarlierOpt(d.lastWake)]
  <2> HIDE DEF tk, ta
  <2>1. h \in Machines  BY <1>1, <1>6, <1>10, Update
  <2>2. r = [h EXCEPT !.startedAt = Earlier(d.startedAt), !.ticks = tk,
                      !.stageTicks = st, !.tasks = ta]
    OBVIOUS
  <2> HIDE DEF h, r
  <2>3. [h EXCEPT !.startedAt = Earlier(d.startedAt), !.ticks = tk] \in Machines
    BY <1>6, <1>10, <2>1, Update
  <2> QED  BY <1>7, <1>9, <2>2, <2>3, Update
<1>12. /\ r.phase = d.phase /\ r.blankGen = d.blankGen /\ r.renderGen = d.renderGen
       /\ r.ticks = tk /\ r.tasks = ta /\ r.paused = EarlierOpt(d.paused)
  <2> HIDE DEF tk, ta
  <2> QED  BY <1>1 DEF Machines
<1> HIDE DEF r
<1>13. Driven(r)
  <2>1. SUFFICES ASSUME d.phase = "waking" PROVE \E t \in tk : t <= RetryInterval
    BY <1>12 DEF Driven
  <2>2. PICK t \in d.ticks : t <= RetryInterval  BY <2>1 DEF Inv, Driven
  <2>3. t \in Int /\ RetryInterval \in Int  BY <1>1, TimingAssumption DEF Machines
  <2>4. t - 1 \in tk /\ t - 1 <= RetryInterval  BY <2>2, <2>3
  <2> QED  BY <2>4
<1>14. Awaited(r)
  <2>1. ASSUME d.phase = "blanking"
        PROVE  \E v \in ta : v.kind = "blank" /\ v.gen = d.blankGen
    <3>1. PICK u \in d.tasks : u.kind = "blank" /\ u.gen = d.blankGen
      BY <2>1 DEF Inv, Awaited
    <3> QED  BY <1>8, <3>1
  <2>2. ASSUME d.phase = "render_pending"
        PROVE  \E v \in ta : v.kind = "show" /\ v.gen = d.renderGen
    <3>1. PICK u \in d.tasks : u.kind = "show" /\ u.gen = d.renderGen
      BY <2>2 DEF Inv, Awaited
    <3> QED  BY <1>8, <3>1
  <2> QED  BY <1>12, <2>1, <2>2 DEF Awaited
<1>15. Resumes(r)
  <2>1. SUFFICES ASSUME r.paused \in Int PROVE \E t \in tk : t >= r.paused
    BY <1>12 DEF Resumes
  <2>2. d.paused \in Int /\ r.paused = Earlier(d.paused)
    <3>1. d.paused \in Int \cup {None, Forever}  BY <1>1 DEF Machines
    <3> QED  BY <1>12, <2>1, <3>1, Options DEF EarlierOpt
  <2>3. PICK t \in d.ticks : t >= d.paused  BY <2>2 DEF Inv, Resumes
  <2>4. t \in Int /\ t > 0
    <3>1. t \in Deadlines  BY DEF Deadlines
    <3> QED  BY <1>1, <3>1 DEF Machines, TimePasses
  <2>5. t - 1 \in tk /\ t - 1 >= r.paused
    BY <1>1, <2>2, <2>3, <2>4 DEF Earlier
  <2> QED  BY <2>5
<1>16. /\ holdUntil' \in Int \cup {None} /\ lag' \in Nat
       /\ UNCHANGED <<ruled, owns, claimed, panel, surface>>
  BY <1>1 DEF TimePasses
<1>17. vacantFor' \in 0 .. GracePeriod
  BY TimingAssumption DEF Inv, TypeOK, TimePasses, Lesser
<1> QED  BY <1>5, <1>11, <1>13, <1>14, <1>15, <1>16, <1>17 DEF Inv, TypeOK

LEMMA NextInv == Inv /\ [Next]_vars => Inv'
<1> SUFFICES ASSUME Inv, [Next]_vars PROVE Inv'  OBVIOUS
<1>1. CASE Next
  BY <1>1, InputInv, TimerInv, TaskInv, TimeInv DEF Next, Happens
<1>2. CASE UNCHANGED vars
  BY <1>2 DEF vars, Inv, TypeOK, Driven, Awaited, Resumes
<1> QED  BY <1>1, <1>2

\* The invariant holds of every behaviour of the engine's loop.
THEOREM Invariance == Spec => []Inv
<1>1. Init => Inv  BY InitInv
<1>2. Inv /\ [Next]_vars => Inv'  BY NextInv
<1> QED  BY <1>1, <1>2, PTL DEF Spec

-----------------------------------------------------------------------------
(* What a reader should know *)

\* Every handler of DisplayStateMachine::step, every due timer and every late
\* result leaves the machine, its wheel entries and its tasks well formed, at
\* whatever instant in the past the engine hands it over.
THEOREM TypeCorrect == Spec => []TypeOK
<1>1. Inv => TypeOK  BY DEF Inv
<1> QED  BY <1>1, Invariance, PTL

\* A display in Waking always owns its way out: a tick no more than one
\* wake_retry_interval away, whatever inputs, results and ticks came before
\* (every issue_wake, and the seed of a restored Waking, schedules one).
THEOREM WakingOwnsItsExit == Spec => []WakingHasRetry
<1>1. Inv => WakingHasRetry  BY DEF Inv, Driven, WakingHasRetry
<1> QED  BY <1>1, Invariance, PTL

\* Blanking and RenderPending have no timer: the only way out of them by itself
\* is the result of the one command whose generation the phase records, and
\* that command is always still running.
THEOREM CommandIsAwaited == Spec => []AwaitedTaskRuns
<1>1. Inv => AwaitedTaskRuns  BY DEF Inv, Awaited, AwaitedTaskRuns
<1> QED  BY <1>1, Invariance, PTL

\* A pause with a deadline always has a tick at or after that deadline in the
\* wheel, so maybe_auto_resume gets to see it, whatever Pause replaced it.
THEOREM PauseEnds == Spec => []PauseHasEnd
<1>1. Inv => PauseHasEnd  BY DEF Inv, Resumes, PauseHasEnd
<1> QED  BY <1>1, Invariance, PTL

-----------------------------------------------------------------------------
(***************************************************************************)
(* The Grace period and the blank that ends it: who is blanked, by whom.   *)
(*                                                                         *)
(* The theorems need that a machine which has lost its panel shows no      *)
(* overlay, or the countdown of a Grace period outlives it; a soft blank   *)
(* of an unowned display with a render stage breaks that (Gentle).         *)
(***************************************************************************)

Gentle ==
    \/ "soft_blank" \notin Inputs
    \/ "ownership" \notin Inputs
    \/ \A i \in DOMAIN Ladder : ~Ladder[i].render

\* No operator asks for a dark or covered display.
Unforced == {"soft_blank", "force_blank"} \cap Inputs = {}

-----------------------------------------------------------------------------
(* What is kept.  X holds the tick that has just left the wheel, if any.     *)

Yields(s) == ~s.owned => s.phase \notin RenderPhases
Frozen(s) == s.graceFrozen # None => s.phase = "grace"
Ripens(s, X) ==
    s.phase = "grace" =>
        /\ s.zone = "absent"
        /\ s.graceFrozen = None /\ s.owned => \E t \in s.ticks \cup X : t >= s.until
Solo(s) ==
    \A t \in s.tasks : t.kind = "blank" =>
        /\ s.phase = "blanking"
        /\ \A u \in s.tasks : u.kind = "blank" => u = t
Seen(s) ==
    Unforced /\ s.zone = "present" =>
        /\ s.phase \in {"active", "waking", "blanking"}
        /\ s.phase = "blanking" => s.pendingWake
Loose(s, X) == Yields(s) /\ Frozen(s) /\ Ripens(s, X) /\ Solo(s) /\ Seen(s)

\* The countdown stands still exactly while an overlay is on.
Matched(s) == s.phase = "grace" => ((s.graceFrozen # None) <=> Overlaid(s))
Sound(s, X) == Loose(s, X) /\ Matched(s)

\* No blank is under way.
Idle(s) == \A t \in s.tasks : t.kind # "blank"

\* What a step of the machine shows; it leaves Grace for Active, if at all.
Obeys(s, t, X) ==
    /\ Sound(t, X)
    /\ t.owned = s.owned
    /\ s.phase = "grace" => t.phase \in {"grace", "active"}

\* The fields that Loose speaks of.
Same(s, t) ==
    /\ t.phase = s.phase /\ t.owned = s.owned /\ t.graceFrozen = s.graceFrozen
    /\ t.zone = s.zone /\ t.until = s.until /\ t.tasks = s.tasks
    /\ s.pendingWake => t.pendingWake
    /\ s.ticks \subseteq t.ticks
Alike(s, t) == Same(s, t) /\ t.inhibited = s.inhibited /\ t.paused = s.paused

LEMMA SameLoose ==
    ASSUME NEW s, NEW t, NEW X, Same(s, t), Loose(s, X)
    PROVE  Loose(t, X)
<1>1. Yields(t) /\ Frozen(t) /\ Solo(t) /\ Seen(t)
  BY DEF Same, Loose, Yields, Frozen, Solo, Seen
<1>2. Ripens(t, X)
  <2>1. s.ticks \cup X \subseteq t.ticks \cup X  BY DEF Same
  <2> QED  BY <2>1 DEF Same, Loose, Ripens
<1> QED  BY <1>1, <1>2 DEF Loose

LEMMA AlikeSound ==
    ASSUME NEW s, NEW t, NEW X, Alike(s, t), Sound(s, X)
    PROVE  Sound(t, X)
<1>1. Loose(t, X)  BY SameLoose DEF Alike, Sound
<1>2. Matched(t)  BY DEF Alike, Same, Sound, Matched, Overlaid
<1> QED  BY <1>1, <1>2 DEF Sound

LEMMA AlikeObeys ==
    ASSUME NEW s, NEW t, NEW X, Alike(s, t), Sound(s, X)
    PROVE  Obeys(s, t, X)
BY AlikeSound DEF Alike, Same, Obeys

\* The tick is missed only by a countdown that runs.
LEMMA NoTickMissed ==
    ASSUME NEW s, NEW X, Sound(s, X),
           s.phase # "grace" \/ s.graceFrozen # None \/ ~s.owned
    PROVE  Sound(s, {})
BY DEF Sound, Loose, Ripens

LEMMA MoreTicks ==
    ASSUME NEW s, NEW X, Sound(s, {})
    PROVE  Sound(s, X)
BY DEF Sound, Loose, Ripens

LEMMA SoundIdle ==
    ASSUME NEW s, NEW X, Loose(s, X), s.phase # "blanking"
    PROVE  Idle(s)
BY DEF Loose, Solo, Idle

\* A landing in a phase that no blank and no countdown is part of.
LEMMA LandsSound ==
    ASSUME NEW t, NEW X, Idle(t), t.graceFrozen = None,
           \/ t.phase \in {"active", "waking"}
           \/ t.phase = "blanked" /\ (Unforced => t.zone # "present")
           \/ t.phase \in RenderPhases /\ t.owned /\ (Unforced => t.zone # "present")
    PROVE  Sound(t, X)
<1>1. t.phase \notin {"grace", "blanking"}  BY DEF RenderPhases
<1>2. Yields(t)  BY DEF Yields, RenderPhases
<1>3. Frozen(t) /\ Ripens(t, X) /\ Matched(t)  BY <1>1 DEF Frozen, Ripens, Matched
<1>4. Solo(t)  BY DEF Idle, Solo
<1>5. Seen(t)  BY <1>1 DEF Seen, RenderPhases
<1> QED  BY <1>2, <1>3, <1>4, <1>5 DEF Sound, Loose

\* The fields that an input only records.
LEMMA Recorded ==
    ASSUME NEW s \in Machines
    PROVE  /\ \A z \in {"present", "absent"} : [s EXCEPT !.zone = z] \in Machines
           /\ \A b \in BOOLEAN : /\ [s EXCEPT !.inhibited = b] \in Machines
                                 /\ [s EXCEPT !.owned = b] \in Machines
                                 /\ [s EXCEPT !.hold = b] \in Machines
                                 /\ [s EXCEPT !.pendingWake = b] \in Machines
<1>1. ASSUME NEW z \in {"present", "absent"} PROVE [s EXCEPT !.zone = z] \in Machines
  BY DEF Machines
<1>2. ASSUME NEW b \in BOOLEAN PROVE [s EXCEPT !.inhibited = b] \in Machines
  BY DEF Machines
<1>3. ASSUME NEW b \in BOOLEAN PROVE [s EXCEPT !.owned = b] \in Machines
  BY DEF Machines
<1>4. ASSUME NEW b \in BOOLEAN PROVE [s EXCEPT !.hold = b] \in Machines
  BY DEF Machines
<1>5. ASSUME NEW b \in BOOLEAN PROVE [s EXCEPT !.pendingWake = b] \in Machines
  BY DEF Machines
<1> QED  BY <1>1, <1>2, <1>3, <1>4, <1>5

LEMMA SupersedingKinds ==
    ASSUME NEW ts \in SUBSET Tasks, NEW k \in Tasks, NEW u \in Superseding(ts, k)
    PROVE  u = k \/ \E t \in ts : u.kind = t.kind
<1>1. CASE u = k  BY <1>1
<1>2. CASE \E t \in ts : u = IF t.kind = "wake" THEN [t EXCEPT !.superseded = TRUE] ELSE t
  <2>1. PICK t \in ts : u = IF t.kind = "wake" THEN [t EXCEPT !.superseded = TRUE] ELSE t
    BY <1>2
  <2>2. t \in Tasks  OBVIOUS
  <2>3. [t EXCEPT !.superseded = TRUE].kind = t.kind  BY <2>2 DEF Tasks
  <2> QED  BY <2>1, <2>3
<1> QED  BY <1>1, <1>2 DEF Superseding

-----------------------------------------------------------------------------
(* The helpers of the state machine *)

LEMMA EnterGraceSound ==
    ASSUME NEW s \in Machines, NEW at \in Int, NEW X, Idle(s), s.zone = "absent"
    PROVE  /\ Sound(EnterGrace(s, at), X)
           /\ EnterGrace(s, at).owned = s.owned
           /\ EnterGrace(s, at).phase = "grace"
<1> DEFINE u == at + GracePeriod
           g == [s EXCEPT !.phase = "grace", !.until = u]
           frozen  == [g EXCEPT !.graceFrozen = GracePeriod]
           running == [g EXCEPT !.graceFrozen = None, !.ticks = @ \cup {u}]
<1>1. u \in Int  BY Durations
<1>2. g \in Machines  BY <1>1, Update DEF Phases
<1>3. /\ g.phase = "grace" /\ g.until = u /\ g.zone = s.zone /\ g.tasks = s.tasks
      /\ g.owned = s.owned /\ g.inhibited = s.inhibited /\ g.paused = s.paused
  BY DEF Machines
<1> HIDE DEF g, u
<1>4. CASE Overlaid(s)
  <2>1. EnterGrace(s, at) = frozen  BY <1>4 DEF EnterGrace, g, u
  <2>2. /\ frozen.phase = "grace" /\ frozen.zone = "absent" /\ frozen.tasks = s.tasks
        /\ frozen.owned = s.owned /\ frozen.graceFrozen = GracePeriod
        /\ frozen.inhibited = s.inhibited /\ frozen.paused = s.paused
    BY <1>2, <1>3 DEF Machines
  <2> HIDE DEF frozen
  <2>3. GracePeriod # None  BY Durations, Options
  <2>4. Yields(frozen) /\ Frozen(frozen) /\ Ripens(frozen, X) /\ Seen(frozen)
    BY <2>2, <2>3 DEF Yields, Frozen, Ripens, Seen, RenderPhases
  <2>5. Solo(frozen) /\ Matched(frozen)
    BY <1>4, <2>2, <2>3 DEF Solo, Idle, Matched, Overlaid
  <2> QED  BY <2>1, <2>2, <2>4, <2>5 DEF Sound, Loose
<1>5. CASE ~Overlaid(s)
  <2>1. EnterGrace(s, at) = running  BY <1>5 DEF EnterGrace, g, u
  <2>2. /\ running.phase = "grace" /\ running.zone = "absent" /\ running.tasks = s.tasks
        /\ running.owned = s.owned /\ running.graceFrozen = None
        /\ running.inhibited = s.inhibited /\ running.paused = s.paused
        /\ running.until = u /\ u \in running.ticks
    BY <1>2, <1>3 DEF Machines
  <2> HIDE DEF running
  <2>3. Yields(running) /\ Frozen(running) /\ Seen(running)
    BY <2>2 DEF Yields, Frozen, Seen, RenderPhases
  <2>4. Ripens(running, X)  BY <1>1, <2>2 DEF Ripens
  <2>5. Solo(running) /\ Matched(running)
    BY <1>5, <2>2 DEF Solo, Idle, Matched, Overlaid
  <2> QED  BY <2>1, <2>2, <2>3, <2>4, <2>5 DEF Sound, Loose
<1> QED  BY <1>4, <1>5

LEMMA EnterActiveSound ==
    ASSUME NEW s \in Machines, NEW at \in Int, NEW X, Idle(s)
    PROVE  /\ Sound(EnterActive(s, at), X)
           /\ EnterActive(s, at).owned = s.owned
           /\ EnterActive(s, at).phase \in {"grace", "active"}
<1> DEFINE a == [s EXCEPT !.phase = "active", !.graceFrozen = None,
                          !.stageFrozen = None, !.stageDeadline = None,
                          !.stage = None]
<1>1. a \in Machines  BY Update DEF Phases
<1>2. /\ a.phase = "active" /\ a.graceFrozen = None /\ a.tasks = s.tasks
      /\ a.owned = s.owned /\ a.zone = s.zone
  BY DEF Machines
<1>3. \/ EnterActive(s, at) = a
      \/ s.zone = "absent" /\ EnterActive(s, at) = EnterGrace(a, at)
  BY DEF EnterActive
<1> HIDE DEF a
<1>4. Idle(a)  BY <1>2 DEF Idle
<1>5. Sound(a, X)  BY <1>2, <1>4, LandsSound
<1> QED  BY <1>1, <1>2, <1>3, <1>4, <1>5, EnterGraceSound

LEMMA IssueWakeSound ==
    ASSUME NEW s \in Machines, NEW at \in Int, NEW X, Idle(s), s.graceFrozen = None
    PROVE  Sound(IssueWake(s, at), X) /\ IssueWake(s, at).owned = s.owned
<1> DEFINE g == NextGen(s.cmdGen)
           k == Task("wake", g)
           ts == Superseding(s.tasks, k)
           u == at + RetryInterval
           t == [s EXCEPT !.cmdGen = g, !.wakeGen = g, !.phase = "waking",
                          !.tasks = ts, !.ticks = @ \cup {u}]
<1>1. k \in Tasks /\ k.kind = "wake"
  BY NextGenType, TaskType, TaskFields DEF TaskKinds, Machines
<1>2. s.tasks \in SUBSET Tasks  BY DEF Machines
<1>3. IssueWake(s, at) = t  BY DEF IssueWake
<1> HIDE DEF g, k
<1>4. \A v \in ts : v.kind # "blank"  BY <1>1, <1>2, SupersedingKinds DEF Idle
<1> HIDE DEF ts, u
<1>5. t.phase = "waking" /\ t.graceFrozen = None /\ t.tasks = ts /\ t.owned = s.owned
  BY DEF Machines
<1> HIDE DEF t
<1>6. Idle(t)  BY <1>4, <1>5 DEF Idle
<1> QED  BY <1>3, <1>5, <1>6, LandsSound

LEMMA IssueBlankSound ==
    ASSUME NEW s \in Machines, NEW X, Idle(s), s.graceFrozen = None,
           Unforced => s.zone # "present"
    PROVE  /\ Sound(IssueBlank(s), X) /\ IssueBlank(s).owned = s.owned
           /\ IssueBlank(s).inhibited = s.inhibited
<1> DEFINE g == NextGen(s.cmdGen)
           k == Task("blank", g)
           ts == Superseding(s.tasks, k)
           t == [s EXCEPT !.cmdGen = g, !.blankGen = g, !.phase = "blanking",
                          !.tasks = ts]
<1>1. k \in Tasks
  BY NextGenType, TaskType DEF TaskKinds, Machines
<1>2. s.tasks \in SUBSET Tasks  BY DEF Machines
<1>3. IssueBlank(s) = t  BY DEF IssueBlank
<1> HIDE DEF g, k
<1>4. \A v \in ts : v.kind = "blank" => v = k
  BY <1>1, <1>2, SupersedingKinds DEF Idle
<1> HIDE DEF ts
<1>5. /\ t.phase = "blanking" /\ t.graceFrozen = None /\ t.tasks = ts
      /\ t.owned = s.owned /\ t.zone = s.zone /\ t.inhibited = s.inhibited
  BY DEF Machines
<1> HIDE DEF t
<1>6. Solo(t)  BY <1>4, <1>5 DEF Solo
<1>7. Yields(t) /\ Frozen(t) /\ Ripens(t, X) /\ Seen(t) /\ Matched(t)
  BY <1>5 DEF Yields, Frozen, Ripens, Seen, Matched, RenderPhases
<1> QED  BY <1>3, <1>5, <1>6, <1>7 DEF Sound, Loose

LEMMA SpawnTeardownIdle ==
    ASSUME NEW s \in Machines
    PROVE  LET t == SpawnTeardown(s)
           IN  /\ t \in Machines /\ (Idle(s) => Idle(t))
               /\ t.phase = s.phase /\ t.owned = s.owned /\ t.zone = s.zone
               /\ t.graceFrozen = s.graceFrozen /\ t.inhibited = s.inhibited
<1> DEFINE k == Task("teardown", s.stageGen)
           t == [s EXCEPT !.tasks = @ \cup {k}]
<1>1. k.kind = "teardown"  BY TaskFields
<1>2. SpawnTeardown(s) = t  BY DEF SpawnTeardown
<1>3. SpawnTeardown(s) \in Machines  BY SpawnTeardownKeeps, Composition
<1> HIDE DEF k
<1>4. /\ t.tasks = s.tasks \cup {k} /\ t.phase = s.phase /\ t.owned = s.owned
      /\ t.zone = s.zone /\ t.graceFrozen = s.graceFrozen /\ t.inhibited = s.inhibited
  BY DEF Machines
<1> HIDE DEF t
<1>5. Idle(s) => Idle(t)  BY <1>1, <1>4 DEF Idle
<1> QED  BY <1>2, <1>3, <1>4, <1>5

LEMMA TeardownRenderSound ==
    ASSUME NEW s \in Machines, NEW at \in Int, NEW X, Idle(s)
    PROVE  /\ Sound(TeardownRender(s, at), X)
           /\ TeardownRender(s, at).owned = s.owned
           /\ TeardownRender(s, at).phase \in {"grace", "active"}
BY SpawnTeardownIdle, EnterActiveSound DEF TeardownRender

LEMMA ShowRenderSound ==
    ASSUME NEW s \in Machines, NEW X, Idle(s), s.graceFrozen = None, s.owned,
           Unforced => s.zone # "present"
    PROVE  /\ Sound(ShowRender(s), X) /\ ShowRender(s).owned = s.owned
           /\ ShowRender(s).inhibited = s.inhibited
<1> DEFINE g == s.stageGen
           k == Task("show", g)
           t == [s EXCEPT !.phase = "render_pending", !.renderGen = g,
                          !.tasks = @ \cup {k}]
<1>1. k.kind = "show"  BY TaskFields
<1>2. ShowRender(s) = t  BY DEF ShowRender
<1> HIDE DEF g, k
<1>3. /\ t.phase = "render_pending" /\ t.graceFrozen = None
      /\ t.tasks = s.tasks \cup {k} /\ t.owned = s.owned /\ t.zone = s.zone
      /\ t.inhibited = s.inhibited
  BY DEF Machines
<1> HIDE DEF t
<1>4. Idle(t)  BY <1>1, <1>3 DEF Idle
<1> QED  BY <1>2, <1>3, <1>4, LandsSound DEF RenderPhases

LEMMA EnterLadderStageSound ==
    ASSUME NEW s \in Machines, NEW i, NEW at \in Int, NEW X,
           Idle(s), s.graceFrozen = None, Unforced => s.zone # "present",
           s.owned \/ \A j \in DOMAIN Ladder : ~Ladder[j].render
    PROVE  LET t == EnterLadderStage(s, i, at)
           IN  /\ Sound(t, X) /\ t.owned = s.owned
               /\ t.phase \in {"grace", "active"} \/ t.inhibited = s.inhibited
<1>1. CASE i \notin DOMAIN Ladder
  BY <1>1, EnterActiveSound DEF EnterLadderStage
<1>2. CASE i \in DOMAIN Ladder
  <2> DEFINE g == NextGen(s.stageGen)
             bare == IF IsRender(s.stage) /\ ~IsRender(i)
                     THEN SpawnTeardown(s) ELSE s
             e == [bare EXCEPT !.stageGen = g, !.stage = i]
  <2>1. g \in Gens  BY NextGenType DEF Machines
  <2>2. \/ IsRender(i) /\ EnterLadderStage(s, i, at) = ShowRender(e)
        \/ EnterLadderStage(s, i, at) = IssueBlank(e)
    BY <1>2 DEF EnterLadderStage
  <2>3. /\ bare \in Machines /\ Idle(bare) /\ bare.graceFrozen = None
        /\ bare.owned = s.owned /\ bare.zone = s.zone /\ bare.inhibited = s.inhibited
    BY SpawnTeardownIdle
  <2>4. IsRender(i) => s.owned  BY <1>2 DEF IsRender
  <2> HIDE DEF g, bare
  <2>5. e \in Machines  BY <1>2, <2>1, <2>3, Update
  <2>6. /\ e.graceFrozen = None /\ e.tasks = bare.tasks
        /\ e.owned = s.owned /\ e.zone = s.zone /\ e.inhibited = s.inhibited
    BY <2>3 DEF Machines
  <2> HIDE DEF e
  <2>7. Idle(e)  BY <2>3, <2>6 DEF Idle
  <2> QED  BY <2>2, <2>4, <2>5, <2>6, <2>7, ShowRenderSound, IssueBlankSound
<1> QED  BY <1>1, <1>2

LEMMA AdvanceSound ==
    ASSUME NEW s \in Machines, NEW at \in Int, NEW X,
           Idle(s), s.graceFrozen = None, Unforced => s.zone # "present", s.owned
    PROVE  /\ Sound(AdvanceStage(s, at), X) /\ AdvanceStage(s, at).owned
           /\ Sound(AdvanceToNextController(s, at), X)
           /\ AdvanceToNextController(s, at).owned
<1>1. Sound(AdvanceStage(s, at), X) /\ AdvanceStage(s, at).owned
  BY EnterLadderStageSound DEF AdvanceStage
<1>2. Sound(AdvanceToNextController(s, at), X) /\ AdvanceToNextController(s, at).owned
  BY EnterLadderStageSound, TeardownRenderSound DEF AdvanceToNextController
<1> QED  BY <1>1, <1>2

LEMMA FreezeGraceSound ==
    ASSUME NEW s \in Machines, NEW at \in Int, NEW X,
           Loose(s, X), s.phase = "grace", Overlaid(s)
    PROVE  Obeys(s, FreezeGrace(s, at), X)
<1> DEFINE p == Positive(s.until - at)
           t == [s EXCEPT !.graceFrozen = p]
<1>1. p \in Nat  BY Durations DEF Machines
<1>2. CASE s.graceFrozen # None
  <2>1. FreezeGrace(s, at) = s  BY <1>2 DEF FreezeGrace
  <2>2. Matched(s)  BY <1>2 DEF Matched
  <2> QED  BY <2>1, <2>2 DEF Obeys, Sound
<1>3. CASE s.graceFrozen = None
  <2>1. FreezeGrace(s, at) = t  BY <1>3 DEF FreezeGrace
  <2> HIDE DEF p
  <2>2. p # None  BY <1>1, Options
  <2>3. /\ t.phase = "grace" /\ t.owned = s.owned /\ t.zone = s.zone /\ t.tasks = s.tasks
        /\ t.graceFrozen = p /\ t.inhibited = s.inhibited /\ t.paused = s.paused
    BY DEF Machines
  <2> HIDE DEF t
  <2>4. Yields(t) /\ Frozen(t) /\ Ripens(t, X) /\ Solo(t) /\ Seen(t)
    BY <2>2, <2>3 DEF Loose, Yields, Frozen, Ripens, Solo, Seen
  <2>5. Matched(t)  BY <2>2, <2>3 DEF Matched, Overlaid
  <2> QED  BY <2>1, <2>3, <2>4, <2>5 DEF Obeys, Sound, Loose
<1> QED  BY <1>2, <1>3

LEMMA UnfreezeGraceSound ==
    ASSUME NEW s \in Machines, NEW at \in Int, NEW X,
           Loose(s, X), s.phase = "grace", Overlaid(s) => s.graceFrozen # None
    PROVE  LET t == UnfreezeGrace(s, at)
           IN  /\ Obeys(s, t, X) /\ t.phase = "grace"
               /\ s.graceFrozen # None => Sound(t, {})
<1>1. CASE s.graceFrozen = None \/ Overlaid(s)
  <2>1. UnfreezeGrace(s, at) = s  BY <1>1 DEF UnfreezeGrace
  <2>2. Sound(s, X)  BY <1>1 DEF Sound, Matched
  <2> QED  BY <2>1, <2>2, NoTickMissed DEF Obeys
<1>2. CASE ~(s.graceFrozen = None \/ Overlaid(s))
  <2> DEFINE u == at + s.graceFrozen
             t == [s EXCEPT !.graceFrozen = None, !.phase = "grace",
                            !.until = u, !.ticks = @ \cup {u}]
  <2>1. u \in Int  BY <1>2 DEF Machines
  <2>2. UnfreezeGrace(s, at) = t  BY <1>2 DEF UnfreezeGrace
  <2> HIDE DEF u
  <2>3. /\ t.phase = "grace" /\ t.owned = s.owned /\ t.zone = s.zone /\ t.tasks = s.tasks
        /\ t.graceFrozen = None /\ t.inhibited = s.inhibited /\ t.paused = s.paused
        /\ t.until = u /\ u \in t.ticks
    BY DEF Machines
  <2> HIDE DEF t
  <2>4. Yields(t) /\ Frozen(t) /\ Solo(t) /\ Seen(t)
    BY <2>3 DEF Loose, Yields, Frozen, Solo, Seen
  <2>5. Ripens(t, X) /\ Ripens(t, {})  BY <2>1, <2>3 DEF Loose, Ripens
  <2>6. Matched(t)  BY <1>2, <2>3 DEF Matched, Overlaid
  <2> QED  BY <2>2, <2>3, <2>4, <2>5, <2>6 DEF Obeys, Sound, Loose
<1> QED  BY <1>1, <1>2

\* Outside Grace the end of a pause changes nothing but the pause.
LEMMA AutoResumeSound ==
    ASSUME NEW s \in Machines, NEW at \in Int, NEW X, Sound(s, X)
    PROVE  LET r == AutoResume(s, at)
           IN  /\ Obeys(s, r, X) /\ r.phase = s.phase
               /\ r.tasks = s.tasks /\ r.zone = s.zone
               /\ s.phase = "grace" /\ s.graceFrozen # None => Sound(r, {})
               /\ s.paused = None => r = s
               /\ s.phase # "grace" => r.graceFrozen = None
<1>1. CASE ~(s.paused \in Int /\ at >= s.paused)
  <2>1. AutoResume(s, at) = s  BY <1>1 DEF AutoResume
  <2> QED  BY <2>1, NoTickMissed DEF Obeys, Sound, Loose, Frozen
<1>2. CASE s.paused \in Int /\ at >= s.paused
  <2> DEFINE r == [s EXCEPT !.paused = None]
  <2>1. /\ r \in Machines /\ Same(s, r) /\ r.graceFrozen = s.graceFrozen
        /\ r.phase = s.phase /\ r.owned = s.owned /\ r.tasks = s.tasks
        /\ r.zone = s.zone /\ r.inhibited = s.inhibited /\ r.paused = None
    BY DEF Machines, Same
  <2>2. AutoResume(s, at) = UnfreezeGrace(r, at)  BY <1>2 DEF AutoResume
  <2> HIDE DEF r
  <2>3. s.paused # None  BY <1>2, Options
  <2>4. Loose(r, X)  BY <2>1, SameLoose DEF Sound
  <2>5. CASE s.phase # "grace"
    <3>1. r.graceFrozen = None  BY <2>1, <2>5 DEF Sound, Loose, Frozen
    <3>2. UnfreezeGrace(r, at) = r  BY <3>1 DEF UnfreezeGrace
    <3>3. Matched(r)  BY <2>1, <2>5 DEF Matched
    <3> QED  BY <2>1, <2>2, <2>3, <2>4, <2>5, <3>1, <3>2, <3>3 DEF Obeys, Sound
  <2>6. CASE s.phase = "grace"
    <3> DEFINE u == UnfreezeGrace(r, at)
    <3>1. r.graceFrozen # None  BY <2>1, <2>3, <2>6 DEF Sound, Matched, Overlaid
    <3>2. Obeys(r, u, X) /\ u.phase = "grace" /\ Sound(u, {})
      BY <2>1, <2>4, <2>6, <3>1, UnfreezeGraceSound
    <3>3. u.tasks = r.tasks /\ u.zone = r.zone  BY <2>1 DEF UnfreezeGrace, Machines
    <3> QED  BY <2>1, <2>2, <2>3, <2>6, <3>2, <3>3 DEF Obeys
  <2> QED  BY <2>5, <2>6
<1> QED  BY <1>1, <1>2

LEMMA AlikeTransitive ==
    ASSUME NEW s, NEW t, NEW u, Alike(s, t), Alike(t, u)
    PROVE  Alike(s, u)
BY DEF Alike, Same

LEMMA AlikeReflexive == ASSUME NEW s PROVE Alike(s, s)
BY DEF Alike, Same

LEMMA ArmStageTickAlike ==
    ASSUME NEW s \in Machines, NEW wait, NEW at
    PROVE  Alike(s, ArmStageTick(s, wait, at))
<1> DEFINE g == NextGen(s.stageGen)
           due == at + Lesser(wait, Ladder[s.stage].dwell)
           off == [s EXCEPT !.stageDeadline = None]
           on == [s EXCEPT !.stageGen = g, !.stageDeadline = due,
                           !.stageTicks = @ \cup {[gen |-> g, at |-> due]}]
<1>1. ArmStageTick(s, wait, at) \in {s, off, on}  BY DEF ArmStageTick
<1>2. Alike(s, off)  BY DEF Machines, Alike, Same
<1> HIDE DEF g, due
<1>3. Alike(s, on)  BY DEF Machines, Alike, Same
<1> QED  BY <1>1, <1>2, <1>3, AlikeReflexive

LEMMA ScheduleStageTickAlike ==
    ASSUME NEW s \in Machines, NEW at
    PROVE  Alike(s, ScheduleStageTick(s, at))
BY ArmStageTickAlike, AlikeReflexive DEF ScheduleStageTick

LEMMA StageAlike ==
    ASSUME NEW s \in Machines, NEW at
    PROVE  Alike(s, RearmStageTick(s, at)) /\ Alike(s, FreezeStage(s, at))
<1> DEFINE t == [s EXCEPT !.stageFrozen = None]
           p == IF s.stageDeadline = None THEN 0 ELSE Positive(s.stageDeadline - at)
           f == [s EXCEPT !.stageFrozen = p]
<1>1. t \in Machines /\ Alike(s, t)  BY DEF Machines, Alike, Same
<1>2. Alike(s, RearmStageTick(s, at))
  BY <1>1, ArmStageTickAlike, AlikeTransitive DEF RearmStageTick
<1>3. FreezeStage(s, at) \in {s, f}  BY DEF FreezeStage
<1> HIDE DEF p
<1>4. Alike(s, f)  BY DEF Machines, Alike, Same
<1> QED  BY <1>2, <1>3, <1>4, AlikeReflexive

-----------------------------------------------------------------------------
(* step *)

\* The tick of Grace: what it spends it replaces, or blanks, and it blanks only
\* an owned display without an overlay.
LEMMA GraceTickSound ==
    ASSUME NEW s \in Machines, NEW at \in Int, Sound(s, {at}), s.phase = "grace"
    PROVE  LET t == GraceTick(s, at)
           IN  /\ Sound(t, {}) /\ t.owned = s.owned
               /\ t.phase \notin {"grace", "active"} => s.owned /\ ~Overlaid(t)
<1>1. CASE s.graceFrozen # None
  <2>1. GraceTick(s, at) = AutoResume(s, at)  BY <1>1 DEF GraceTick
  <2> QED  BY <1>1, <2>1, AutoResumeSound DEF Obeys
<1>2. CASE s.graceFrozen = None
  <2> DEFINE u == GatesOpen(s, at)
             t == [s EXCEPT !.ticks = @ \cup {u}]
             e == EnterLadderStage(s, 1, at)
  <2>1. ~Overlaid(s) /\ s.paused = None  BY <1>2 DEF Sound, Matched, Overlaid
  <2>2. AutoResume(s, at) = s  BY <2>1, AutoResumeSound
  <2>3. u \in Int  BY GatesOpenType
  <2>4. \/ ~Expired(s, at) /\ GraceTick(s, at) = s
        \/ Expired(s, at) /\ u > at /\ GraceTick(s, at) = t
        \/ ~s.owned /\ GraceTick(s, at) = s
        \/ s.owned /\ GraceTick(s, at) = e
    BY <1>2, <2>1, <2>2 DEF GraceTick
  <2> HIDE DEF u
  <2>5. s.until \in Int /\ s.ticks \in SUBSET Int  BY DEF Machines
  <2>6. ~Expired(s, at) => Sound(s, {})
    BY <2>5 DEF Sound, Loose, Ripens, Expired
  <2>7. ~s.owned => Sound(s, {})  BY NoTickMissed
  <2>8. Expired(s, at) /\ u > at => Sound(t, {}) /\ t.owned = s.owned /\ t.phase = "grace"
    <3>1. SUFFICES ASSUME Expired(s, at), u > at
                   PROVE  Sound(t, {}) /\ t.owned = s.owned /\ t.phase = "grace"
      OBVIOUS
    <3>2. u >= s.until  BY <2>3, <2>5, <3>1 DEF Expired
    <3>3. /\ t.phase = "grace" /\ t.owned = s.owned /\ t.zone = s.zone /\ t.tasks = s.tasks
          /\ t.graceFrozen = None /\ t.inhibited = s.inhibited /\ t.paused = s.paused
          /\ t.until = s.until /\ u \in t.ticks
      BY <1>2 DEF Machines
    <3> HIDE DEF t
    <3>4. Yields(t) /\ Frozen(t) /\ Solo(t) /\ Seen(t) /\ Matched(t)
      BY <1>2, <3>3 DEF Sound, Loose, Yields, Frozen, Solo, Seen, Matched, Overlaid
    <3>5. Ripens(t, {})  BY <3>2, <3>3 DEF Sound, Loose, Ripens
    <3> QED  BY <3>3, <3>4, <3>5 DEF Sound, Loose
  <2>9. s.owned => /\ Sound(e, {}) /\ e.owned = s.owned
                   /\ e.phase \notin {"grace", "active"} => ~Overlaid(e)
    <3>1. SUFFICES ASSUME s.owned
                   PROVE  /\ Sound(e, {}) /\ e.owned = s.owned
                          /\ e.phase \notin {"grace", "active"} => ~Overlaid(e)
      OBVIOUS
    <3>2. Idle(s)  BY SoundIdle DEF Sound
    <3>3. s.zone = "absent"  BY DEF Sound, Loose, Ripens
    <3>4. /\ Sound(e, {}) /\ e.owned = s.owned
          /\ e.phase \in {"grace", "active"} \/ e.inhibited = s.inhibited
      BY <1>2, <3>1, <3>2, <3>3, EnterLadderStageSound
    <3>5. e.paused = None  BY <2>1, EnterLadderStageLands DEF Lands, Extends
    <3> QED  BY <2>1, <3>4, <3>5 DEF Overlaid
  <2> HIDE DEF t, e
  <2> QED  BY <2>4, <2>6, <2>7, <2>8, <2>9
<1> QED  BY <1>1, <1>2

LEMMA OnTickSound ==
    ASSUME NEW s \in Machines, NEW at \in Int, Sound(s, {at})
    PROVE  LET t == OnTick(s, at)
           IN  /\ Sound(t, {}) /\ t.owned = s.owned
               /\ s.phase = "grace" /\ t.phase \notin {"grace", "active"} =>
                    s.owned /\ ~Overlaid(t)
<1> DEFINE r == AutoResume(s, at)
<1>1. CASE s.phase = "grace"
  BY <1>1, GraceTickSound DEF OnTick
<1>2. CASE s.phase # "grace"
  <2>1. r \in Machines  BY AutoResumeKeeps, Composition
  <2>2. /\ Obeys(s, r, {at}) /\ r.phase = s.phase /\ r.graceFrozen = None
    BY <1>2, AutoResumeSound
  <2>3. \/ s.phase = "waking" /\ OnTick(s, at) = IssueWake(r, at)
        \/ OnTick(s, at) = r
    BY <1>2 DEF OnTick
  <2> HIDE DEF r
  <2>4. Sound(r, {}) /\ r.owned = s.owned
    BY <1>2, <2>2, NoTickMissed DEF Obeys
  <2>5. s.phase = "waking" => Sound(IssueWake(r, at), {}) /\ IssueWake(r, at).owned = s.owned
    <3>1. s.phase = "waking" => Idle(r)  BY <2>2, <2>4, SoundIdle DEF Sound
    <3> QED  BY <2>1, <2>2, <2>4, <3>1, IssueWakeSound
  <2> QED  BY <1>2, <2>3, <2>4, <2>5
<1> QED  BY <1>1, <1>2

LEMMA OnZonePresentSound ==
    ASSUME NEW s \in Machines, NEW present \in BOOLEAN, NEW at \in Int, NEW X,
           Sound(s, X)
    PROVE  Obeys(s, OnZonePresent(s, present, at), X)
<1> DEFINE n == IF present THEN "present" ELSE "absent"
           z == [s EXCEPT !.zone = n]
           b == z.pendingWake \/ present
           w == [z EXCEPT !.pendingWake = b]
           t == OnZonePresent(s, present, at)
<1>1. z \in Machines  BY Recorded
<1>2. /\ z.zone = n /\ z.phase = s.phase /\ z.owned = s.owned /\ z.tasks = s.tasks
      /\ z.graceFrozen = s.graceFrozen
  BY DEF Machines
<1>3. /\ w.zone = n /\ w.phase = s.phase /\ w.owned = s.owned /\ w.tasks = s.tasks
      /\ w.graceFrozen = s.graceFrozen /\ w.pendingWake = b
  BY DEF Machines
<1>4. /\ s.phase = "active" => t = IF present THEN z ELSE EnterGrace(z, at)
      /\ s.phase = "grace" => t = IF present THEN EnterActive(z, at) ELSE z
      /\ s.phase = "blanking" => t = w
      /\ s.phase = "blanked" => t = IF present THEN IssueWake(z, at) ELSE z
      /\ s.phase = "waking" => t = z
      /\ s.phase \in RenderPhases => t = IF present THEN TeardownRender(z, at) ELSE z
  BY DEF OnZonePresent, RenderPhases
<1>5. s.phase = "grace" /\ ~present => Alike(s, z)
  BY DEF Sound, Loose, Ripens, Alike, Same, Machines
<1>6. s.phase \in {"active", "grace", "blanking", "blanked", "waking"} \cup RenderPhases
  BY DEF Machines, Phases, RenderPhases
<1> SUFFICES Obeys(s, t, X)  OBVIOUS
<1> HIDE DEF z, w, t
<1>7. s.phase # "blanking" => Idle(z)  BY <1>2, SoundIdle DEF Sound, Idle
<1>8. s.phase # "grace" => z.graceFrozen = None  BY <1>2 DEF Sound, Loose, Frozen
<1>9. CASE s.phase = "grace"
  BY <1>1, <1>2, <1>4, <1>5, <1>7, <1>9, AlikeObeys, EnterActiveSound DEF Obeys
<1>10. CASE s.phase = "blanking"
  <2>1. Yields(w) /\ Frozen(w) /\ Solo(w)
    BY <1>3, <1>10 DEF Sound, Loose, Yields, Frozen, Solo
  <2>2. Ripens(w, X) /\ Matched(w)  BY <1>3, <1>10 DEF Ripens, Matched
  <2>3. Seen(w)  BY <1>3, <1>10 DEF Seen
  <2> QED  BY <1>3, <1>4, <1>10, <2>1, <2>2, <2>3 DEF Obeys, Sound, Loose
<1>11. CASE s.phase \in {"active", "waking", "blanked"}
  <2>1. Idle(z) /\ z.graceFrozen = None  BY <1>7, <1>8, <1>11
  <2>2. (s.phase = "blanked" /\ ~present) \/ s.phase \in {"active", "waking"} => Sound(z, X)
    BY <1>2, <2>1, LandsSound
  <2>3. s.phase = "active" /\ ~present => Sound(EnterGrace(z, at), X) /\ EnterGrace(z, at).owned = s.owned
    BY <1>1, <1>2, <2>1, EnterGraceSound
  <2>4. Sound(IssueWake(z, at), X) /\ IssueWake(z, at).owned = s.owned
    BY <1>1, <1>2, <2>1, IssueWakeSound
  <2> QED  BY <1>2, <1>4, <1>11, <2>2, <2>3, <2>4 DEF Obeys
<1>12. CASE s.phase \in RenderPhases
  <2>1. Idle(z) /\ z.graceFrozen = None /\ s.phase # "grace"
    BY <1>7, <1>8, <1>12 DEF RenderPhases
  <2>2. ~present => Sound(z, X)
    BY <1>2, <1>12, <2>1, LandsSound DEF Sound, Loose, Yields
  <2>3. Sound(TeardownRender(z, at), X) /\ TeardownRender(z, at).owned = s.owned
    BY <1>1, <1>2, <2>1, TeardownRenderSound
  <2> QED  BY <1>2, <1>4, <1>12, <2>1, <2>2, <2>3 DEF Obeys
<1> QED  BY <1>6, <1>9, <1>10, <1>11, <1>12

LEMMA OnInhibitorChangedSound ==
    ASSUME NEW s \in Machines, NEW b \in BOOLEAN, NEW at \in Int, NEW X, Sound(s, X)
    PROVE  Obeys(s, OnInhibitorChanged(s, b, at), X)
<1> DEFINE i == [s EXCEPT !.inhibited = b]
           t == OnInhibitorChanged(s, b, at)
<1>1. i \in Machines  BY Recorded
<1>2. /\ Same(s, i) /\ i.inhibited = b /\ i.paused = s.paused /\ i.phase = s.phase
      /\ i.owned = s.owned /\ i.graceFrozen = s.graceFrozen
  BY DEF Machines, Same
<1>3. /\ s.phase = "grace" => t = IF b THEN FreezeGrace(i, at) ELSE UnfreezeGrace(i, at)
      /\ s.phase = "staged" => t = IF b THEN FreezeStage(i, at) ELSE RearmStageTick(i, at)
      /\ s.phase \notin {"grace", "staged"} => t = i
  BY DEF OnInhibitorChanged
<1> SUFFICES Obeys(s, t, X)  OBVIOUS
<1> HIDE DEF i, t
<1>4. Loose(i, X)  BY <1>2, SameLoose DEF Sound
<1>5. CASE s.phase = "grace"
  <2>1. b => Overlaid(i)  BY <1>2 DEF Overlaid
  <2>2. ~b /\ Overlaid(i) => i.graceFrozen # None
    BY <1>2, <1>5 DEF Overlaid, Sound, Matched
  <2>3. b => Obeys(i, FreezeGrace(i, at), X)
    BY <1>1, <1>2, <1>4, <1>5, <2>1, FreezeGraceSound
  <2>4. ~b => Obeys(i, UnfreezeGrace(i, at), X)
    BY <1>1, <1>2, <1>4, <1>5, <2>2, UnfreezeGraceSound
  <2> QED  BY <1>2, <1>3, <1>5, <2>3, <2>4 DEF Obeys
<1>6. CASE s.phase # "grace"
  <2>1. Sound(i, X)  BY <1>2, <1>4, <1>6 DEF Sound, Matched
  <2>2. Alike(i, t)  BY <1>1, <1>3, <1>6, StageAlike, AlikeReflexive
  <2> QED  BY <1>2, <1>6, <2>1, <2>2, AlikeObeys DEF Obeys
<1> QED  BY <1>5, <1>6

LEMMA OnPauseSound ==
    ASSUME NEW s \in Machines, NEW until \in Int \cup {Forever}, NEW at \in Int, NEW X,
           Sound(s, X)
    PROVE  Obeys(s, OnPause(s, until, at), X)
<1> DEFINE ts == IF until = Forever THEN s.ticks ELSE s.ticks \cup {until}
           p == [s EXCEPT !.paused = until, !.ticks = ts]
           t == OnPause(s, until, at)
<1>1. ts \in SUBSET Int /\ s.ticks \subseteq ts  BY Options DEF Machines
<1>2. /\ s.paused = None /\ s.phase = "grace" => t = FreezeGrace(p, at)
      /\ s.paused # None /\ s.phase = "grace" => t = p
      /\ s.phase # "grace" => t \in {p, FreezeStage(p, at)}
  BY DEF OnPause
<1> HIDE DEF ts
<1>3. p \in Machines  BY <1>1, Update
<1>4. /\ Same(s, p) /\ p.paused = until /\ p.phase = s.phase /\ p.owned = s.owned
      /\ p.graceFrozen = s.graceFrozen
  BY <1>1 DEF Machines, Same
<1> SUFFICES Obeys(s, t, X)  OBVIOUS
<1> HIDE DEF p, t
<1>5. Loose(p, X)  BY <1>4, SameLoose DEF Sound
<1>6. Overlaid(p)  BY <1>4, Options DEF Overlaid
<1>7. CASE s.phase = "grace" /\ s.paused = None
  <2>1. Obeys(p, FreezeGrace(p, at), X)
    BY <1>3, <1>4, <1>5, <1>6, <1>7, FreezeGraceSound
  <2> QED  BY <1>2, <1>4, <1>7, <2>1 DEF Obeys
<1>8. CASE s.phase = "grace" /\ s.paused # None
  <2>1. Matched(p)  BY <1>4, <1>6, <1>8 DEF Sound, Matched, Overlaid
  <2> QED  BY <1>2, <1>4, <1>5, <1>8, <2>1 DEF Obeys, Sound
<1>9. CASE s.phase # "grace"
  <2>1. Sound(p, X)  BY <1>4, <1>5, <1>9 DEF Sound, Matched
  <2>2. Alike(p, t)  BY <1>2, <1>3, <1>9, StageAlike, AlikeReflexive
  <2> QED  BY <1>4, <1>9, <2>1, <2>2, AlikeObeys DEF Obeys
<1> QED  BY <1>7, <1>8, <1>9

LEMMA OnResumeSound ==
    ASSUME NEW s \in Machines, NEW at \in Int, NEW X, Sound(s, X)
    PROVE  Obeys(s, OnResume(s, at), X)
<1> DEFINE r == [s EXCEPT !.paused = None]
           t == OnResume(s, at)
<1>1. r \in Machines  BY Update
<1>2. /\ Same(s, r) /\ r.paused = None /\ r.inhibited = s.inhibited
      /\ r.phase = s.phase /\ r.owned = s.owned /\ r.graceFrozen = s.graceFrozen
  BY DEF Machines, Same
<1>3. /\ s.phase = "grace" => t = UnfreezeGrace(r, at)
      /\ s.phase # "grace" => t \in {r, RearmStageTick(r, at)}
  BY DEF OnResume
<1> SUFFICES Obeys(s, t, X)  OBVIOUS
<1> HIDE DEF r, t
<1>4. Loose(r, X)  BY <1>2, SameLoose DEF Sound
<1>5. CASE s.phase = "grace"
  <2>1. Overlaid(r) => r.graceFrozen # None
    BY <1>2, <1>5 DEF Overlaid, Sound, Matched
  <2>2. Obeys(r, UnfreezeGrace(r, at), X)
    BY <1>1, <1>2, <1>4, <1>5, <2>1, UnfreezeGraceSound
  <2> QED  BY <1>2, <1>3, <1>5, <2>2 DEF Obeys
<1>6. CASE s.phase # "grace"
  <2>1. Sound(r, X)  BY <1>2, <1>4, <1>6 DEF Sound, Matched
  <2>2. Alike(r, t)  BY <1>1, <1>3, <1>6, StageAlike, AlikeReflexive
  <2> QED  BY <1>2, <1>6, <2>1, <2>2, AlikeObeys DEF Obeys
<1> QED  BY <1>5, <1>6

LEMMA OnForceWakeSound ==
    ASSUME NEW s \in Machines, NEW at \in Int, NEW X, Sound(s, X)
    PROVE  Obeys(s, OnForceWake(s, at), X)
<1> DEFINE f == [s EXCEPT !.graceFrozen = None]
           w == [s EXCEPT !.pendingWake = TRUE]
           t == OnForceWake(s, at)
<1>1. f \in Machines  BY Update
<1>2. f.owned = s.owned /\ f.tasks = s.tasks  BY DEF Machines
<1>3. Alike(s, w)  BY DEF Machines, Alike, Same
<1>4. /\ s.phase = "active" => t = s
      /\ s.phase = "grace" => t = EnterActive(f, at)
      /\ s.phase = "blanking" => t = w
      /\ s.phase \in {"blanked", "waking"} => t = IssueWake(s, at)
      /\ s.phase \in RenderPhases => t = TeardownRender(s, at)
  BY DEF OnForceWake, RenderPhases
<1>5. s.phase \in {"active", "grace", "blanking", "blanked", "waking"} \cup RenderPhases
  BY DEF Machines, Phases, RenderPhases
<1> SUFFICES Obeys(s, t, X)  OBVIOUS
<1> HIDE DEF f, w, t
<1>6. s.phase # "blanking" => Idle(s) /\ Idle(f)
  BY <1>2, SoundIdle DEF Sound, Idle
<1>7. s.phase # "grace" => s.graceFrozen = None  BY DEF Sound, Loose, Frozen
<1>8. CASE s.phase = "active"  BY <1>4, <1>8 DEF Obeys
<1>9. CASE s.phase = "grace"
  BY <1>1, <1>2, <1>4, <1>6, <1>9, EnterActiveSound DEF Obeys
<1>10. CASE s.phase = "blanking"  BY <1>3, <1>4, <1>10, AlikeObeys
<1>11. CASE s.phase \in {"blanked", "waking"}
  BY <1>4, <1>6, <1>7, <1>11, IssueWakeSound DEF Obeys
<1>12. CASE s.phase \in RenderPhases
  BY <1>4, <1>6, <1>12, TeardownRenderSound DEF Obeys, RenderPhases
<1> QED  BY <1>5, <1>8, <1>9, <1>10, <1>11, <1>12

\* An operator's blank leaves Grace too, so only Sound is claimed of it.
LEMMA OnForceBlankSound ==
    ASSUME NEW s \in Machines, NEW X, Sound(s, X), ~Unforced
    PROVE  Sound(OnForceBlank(s), X) /\ OnForceBlank(s).owned = s.owned
<1> DEFINE f == [s EXCEPT !.graceFrozen = None]
           k == SpawnTeardown(s)
           c == [k EXCEPT !.stage = None]
<1>1. /\ f \in Machines /\ f.graceFrozen = None /\ f.owned = s.owned /\ f.tasks = s.tasks
  BY DEF Machines
<1>2. /\ k \in Machines /\ (Idle(s) => Idle(k)) /\ k.owned = s.owned
      /\ k.graceFrozen = s.graceFrozen
  BY SpawnTeardownIdle
<1> HIDE DEF k
<1>3. /\ c \in Machines /\ c.owned = s.owned /\ c.tasks = k.tasks
      /\ c.graceFrozen = s.graceFrozen
  BY <1>2 DEF Machines
<1>4. OnForceBlank(s) \in {s, IssueBlank(s), IssueBlank(f), IssueBlank(c)}
      /\ (s.phase = "grace" => OnForceBlank(s) = IssueBlank(f))
      /\ (s.phase = "blanking" => OnForceBlank(s) = s)
  BY DEF OnForceBlank, Machines, Phases, RenderPhases, k
<1> HIDE DEF f, c
<1>5. s.phase # "blanking" => Idle(s) /\ Idle(f) /\ Idle(c)
  BY <1>1, <1>2, <1>3, SoundIdle DEF Sound, Idle
<1>6. s.phase # "grace" => s.graceFrozen = None /\ c.graceFrozen = None
  BY <1>3 DEF Sound, Loose, Frozen
<1>7. CASE s.phase = "grace"
  BY <1>1, <1>4, <1>5, <1>7, IssueBlankSound
<1>8. CASE s.phase = "blanking"  BY <1>4, <1>8
<1>9. CASE s.phase \notin {"grace", "blanking"}
  <2>1. Sound(IssueBlank(s), X) /\ IssueBlank(s).owned = s.owned
    BY <1>5, <1>6, <1>9, IssueBlankSound
  <2>2. Sound(IssueBlank(c), X) /\ IssueBlank(c).owned = s.owned
    BY <1>3, <1>5, <1>6, <1>9, IssueBlankSound
  <2>3. Sound(IssueBlank(f), X) /\ IssueBlank(f).owned = s.owned
    BY <1>1, <1>5, <1>9, IssueBlankSound
  <2> QED  BY <1>4, <2>1, <2>2, <2>3
<1> QED  BY <1>7, <1>8, <1>9

LEMMA OnSoftBlankSound ==
    ASSUME NEW s \in Machines, NEW at \in Int, NEW X, Sound(s, X), ~Unforced,
           s.owned \/ \A i \in DOMAIN Ladder : ~Ladder[i].render
    PROVE  Sound(OnSoftBlank(s, at), X) /\ OnSoftBlank(s, at).owned = s.owned
<1> DEFINE f == [s EXCEPT !.graceFrozen = None]
           k == SpawnTeardown(s)
           c == [k EXCEPT !.stage = None]
           E(t) == EnterLadderStage(t, 1, at)
           Kept(t) == Sound(t, X) /\ t.owned = s.owned
<1>1. /\ f \in Machines /\ f.graceFrozen = None /\ f.owned = s.owned /\ f.tasks = s.tasks
  BY DEF Machines
<1>2. /\ k \in Machines /\ (Idle(s) => Idle(k)) /\ k.owned = s.owned
      /\ k.graceFrozen = s.graceFrozen
  BY SpawnTeardownIdle
<1> HIDE DEF k
<1>3. /\ c \in Machines /\ c.owned = s.owned /\ c.tasks = k.tasks
      /\ c.graceFrozen = s.graceFrozen
  BY <1>2 DEF Machines
<1>4. /\ s.phase = "active" => OnSoftBlank(s, at) = E(s)
      /\ s.phase = "grace" => OnSoftBlank(s, at) = E(f)
      /\ s.phase \in RenderPhases => OnSoftBlank(s, at) = E(c)
      /\ s.phase \notin {"active", "grace"} \cup RenderPhases => OnSoftBlank(s, at) = s
  BY DEF OnSoftBlank, RenderPhases, k
<1> HIDE DEF f, c
<1>5. s.phase # "blanking" => Idle(s) /\ Idle(f) /\ Idle(c)
  BY <1>1, <1>2, <1>3, SoundIdle DEF Sound, Idle
<1>6. s.phase # "grace" => s.graceFrozen = None /\ c.graceFrozen = None
  BY <1>3 DEF Sound, Loose, Frozen
<1>7. ASSUME NEW t \in Machines, Idle(t), t.graceFrozen = None, t.owned = s.owned
      PROVE  Kept(E(t))
  BY <1>7, EnterLadderStageSound
<1> SUFFICES Kept(OnSoftBlank(s, at))  OBVIOUS
<1> HIDE DEF E
<1>8. CASE s.phase = "active"  BY <1>4, <1>5, <1>6, <1>7, <1>8
<1>9. CASE s.phase = "grace"  BY <1>1, <1>4, <1>5, <1>7, <1>9
<1>10. CASE s.phase \in RenderPhases
  BY <1>3, <1>4, <1>5, <1>6, <1>7, <1>10 DEF RenderPhases
<1>11. CASE s.phase \notin {"active", "grace"} \cup RenderPhases  BY <1>4, <1>11
<1> QED  BY <1>8, <1>9, <1>10, <1>11

LEMMA OnStageTickSound ==
    ASSUME NEW s \in Machines, NEW gen, NEW at \in Int, NEW X, Sound(s, X)
    PROVE  Obeys(s, OnStageTick(s, gen, at), X)
<1>1. CASE s.phase \in {"blanked", "staged"} /\ s.owned
  <2>1. Idle(s) /\ s.graceFrozen = None
    BY <1>1, SoundIdle DEF Sound, Loose, Frozen
  <2>2. Unforced => s.zone # "present"  BY <1>1 DEF Sound, Loose, Seen
  <2>3. Sound(AdvanceStage(s, at), X) /\ AdvanceStage(s, at).owned
    BY <1>1, <2>1, <2>2, AdvanceSound
  <2> QED  BY <1>1, <2>3 DEF OnStageTick, Obeys
<1>2. CASE ~(s.phase \in {"blanked", "staged"} /\ s.owned)
  <2>1. OnStageTick(s, gen, at) = s  BY <1>2 DEF OnStageTick
  <2> QED  BY <2>1 DEF Obeys
<1> QED  BY <1>1, <1>2

\* Ownership comes back: the countdown of Grace is given a tick again, for the
\* one spent while the display was not ours led to nothing.
LEMMA OnOwnershipGainedSound ==
    ASSUME NEW s \in Machines, NEW at \in Int, NEW X, Sound(s, X), ~s.owned
    PROVE  LET t == OnOwnershipGained(s, at)
           IN  Sound(t, X) /\ t.owned /\ (s.phase = "grace" => t.phase = "grace")
<1> DEFINE o == [s EXCEPT !.owned = TRUE]
           calls == o.zone = "present" \/ Overlaid(o)
           b == o.pendingWake \/ calls
           w == [o EXCEPT !.pendingWake = b]
           g == [o EXCEPT !.ticks = @ \cup {o.until}]
           t == OnOwnershipGained(s, at)
<1>1. o \in Machines  BY Recorded
<1>2. /\ o.phase = s.phase /\ o.owned /\ o.zone = s.zone /\ o.tasks = s.tasks
      /\ o.graceFrozen = s.graceFrozen /\ o.until = s.until /\ o.ticks = s.ticks
      /\ o.inhibited = s.inhibited /\ o.paused = s.paused /\ o.pendingWake = s.pendingWake
  BY DEF Machines
<1>3. s.phase \in {"active", "grace", "blanking", "blanked", "waking"}
  BY DEF Machines, Phases, RenderPhases, Sound, Loose, Yields
<1>4. /\ s.phase = "grace" => t = GainGrace(o)
      /\ s.phase = "blanking" => t = w
      /\ s.phase = "waking" => t = o
      /\ s.phase \in {"active", "blanked"} =>
            \/ calls /\ t = IssueWake(o, at)
            \/ ~calls /\ t = o
  BY DEF OnOwnershipGained, RenderPhases
<1> SUFFICES Sound(t, X) /\ t.owned /\ (s.phase = "grace" => t.phase = "grace")
  OBVIOUS
<1> HIDE DEF o, t
<1>5. CASE s.phase = "grace"
  <2>1. t = g  BY <1>2, <1>4, <1>5 DEF GainGrace, Sound, Loose, Ripens
  <2>2. /\ g.phase = "grace" /\ g.owned /\ g.zone = s.zone /\ g.tasks = s.tasks
        /\ g.graceFrozen = s.graceFrozen /\ g.until = s.until /\ s.until \in g.ticks
        /\ g.inhibited = s.inhibited /\ g.paused = s.paused
    BY <1>1, <1>2, <1>5 DEF Machines
  <2>3. s.until \in Int  BY DEF Machines
  <2> HIDE DEF g
  <2>4. Yields(g) /\ Frozen(g) /\ Solo(g) /\ Seen(g) /\ Matched(g)
    BY <1>5, <2>2 DEF Sound, Loose, Yields, Frozen, Solo, Seen, Matched, Overlaid
  <2>5. Ripens(g, X)  BY <1>5, <2>2, <2>3 DEF Sound, Loose, Ripens
  <2> QED  BY <2>1, <2>2, <2>4, <2>5 DEF Sound, Loose
<1>6. CASE s.phase = "blanking"
  <2>1. /\ w.phase = "blanking" /\ w.owned /\ w.zone = s.zone /\ w.tasks = s.tasks
        /\ w.graceFrozen = s.graceFrozen /\ w.pendingWake = b
    BY <1>1, <1>2, <1>6 DEF Machines
  <2>2. s.pendingWake => b  BY <1>2
  <2> HIDE DEF w, b
  <2>3. Yields(w) /\ Frozen(w) /\ Ripens(w, X) /\ Matched(w)
    BY <1>6, <2>1 DEF Sound, Loose, Yields, Frozen, Ripens, Matched
  <2>4. Solo(w) /\ Seen(w)  BY <1>6, <2>1, <2>2 DEF Sound, Loose, Solo, Seen
  <2> QED  BY <1>4, <1>6, <2>1, <2>3, <2>4 DEF Sound, Loose
<1>7. CASE s.phase \in {"active", "blanked", "waking"}
  <2>1. Idle(o) /\ o.graceFrozen = None
    BY <1>2, <1>7, SoundIdle DEF Sound, Loose, Frozen, Idle
  <2>2. Sound(o, X)
    BY <1>2, <1>7, <2>1, LandsSound DEF Sound, Loose, Seen
  <2>3. Sound(IssueWake(o, at), X) /\ IssueWake(o, at).owned
    BY <1>1, <1>2, <2>1, IssueWakeSound
  <2> QED  BY <1>2, <1>4, <1>7, <2>2, <2>3
<1> QED  BY <1>3, <1>5, <1>6, <1>7

LEMMA OnOwnershipLostSound ==
    ASSUME NEW s \in Machines, NEW at \in Int, NEW X, Sound(s, X)
    PROVE  LET t == OnOwnershipLost(s, at)
           IN  Sound(t, X) /\ ~t.owned /\ (s.phase = "grace" => t.phase = "grace")
<1> DEFINE y == [s EXCEPT !.owned = FALSE]
           t == OnOwnershipLost(s, at)
<1>1. y \in Machines  BY Recorded
<1>2. /\ y.phase = s.phase /\ ~y.owned /\ y.zone = s.zone /\ y.tasks = s.tasks
      /\ y.graceFrozen = s.graceFrozen
      /\ y.inhibited = s.inhibited /\ y.paused = s.paused /\ y.pendingWake = s.pendingWake
  BY DEF Machines
<1>3. /\ s.phase = "blanked" => t = EnterActive(y, at)
      /\ s.phase \in RenderPhases => t = TeardownRender(y, at)
      /\ s.phase \notin {"blanked"} \cup RenderPhases => t = y
  BY DEF OnOwnershipLost, RenderPhases
<1> SUFFICES Sound(t, X) /\ ~t.owned /\ (s.phase = "grace" => t.phase = "grace")
  OBVIOUS
<1> HIDE DEF y, t
<1>4. CASE s.phase \in {"blanked"} \cup RenderPhases
  <2>1. Idle(y)  BY <1>2, <1>4, SoundIdle DEF Sound, Idle, RenderPhases
  <2>2. /\ Sound(EnterActive(y, at), X) /\ ~EnterActive(y, at).owned
        /\ Sound(TeardownRender(y, at), X) /\ ~TeardownRender(y, at).owned
    BY <1>1, <1>2, <2>1, EnterActiveSound, TeardownRenderSound
  <2> QED  BY <1>3, <1>4, <2>2 DEF RenderPhases
<1>5. CASE s.phase \notin {"blanked"} \cup RenderPhases
  <2>1. Yields(y) /\ Frozen(y) /\ Solo(y) /\ Seen(y)
    BY <1>2, <1>5 DEF Sound, Loose, Yields, Frozen, Solo, Seen
  <2>2. Ripens(y, X) /\ Matched(y)
    BY <1>2 DEF Sound, Loose, Ripens, Matched, Overlaid
  <2> QED  BY <1>2, <1>3, <1>5, <2>1, <2>2 DEF Sound, Loose
<1> QED  BY <1>4, <1>5

\* What a machine has been told of the verdict: a loss may be kept from it, for
\* as long as a claim is in flight.
AsFed(t) == t.owned \in {owns, d.owned} /\ (t.owned => owns \/ claimed)

LEMMA FedSound ==
    ASSUME NEW s \in Machines, NEW at \in Int, at <= 0, NEW X, Sound(s, X), owns \in BOOLEAN
    PROVE  LET t == Fed(s, at)
           IN  /\ Sound(t, X) /\ (s.owned = d.owned => AsFed(t))
               /\ s.phase = "grace" => t.phase = "grace"
<1> USE DEF AsFed
<1> DEFINE t == Fed(s, at)
<1>1. s.owned \in BOOLEAN  BY DEF Machines
<1>2. t.owned \in BOOLEAN
  <2>1. t \in Machines  BY FedKeeps, Composition
  <2> QED  BY <2>1 DEF Machines
<1>3. CASE owns = s.owned \/ (s.owned /\ claimed)
  <2>1. t = s  BY <1>1, <1>3 DEF Fed
  <2> QED  BY <1>1, <1>3, <2>1
<1>4. CASE owns /\ ~s.owned
  <2>1. t = OnOwnershipGained(s, at)  BY <1>4 DEF Fed
  <2> QED  BY <1>2, <1>4, <2>1, OnOwnershipGainedSound
<1>5. CASE ~owns /\ s.owned /\ ~claimed
  <2>1. t = OnOwnershipLost(s, at)  BY <1>5 DEF Fed
  <2> QED  BY <1>2, <1>5, <2>1, OnOwnershipLostSound
<1> QED  BY <1>1, <1>3, <1>4, <1>5

-----------------------------------------------------------------------------
(* Results *)

LEMMA FewerSound ==
    ASSUME NEW s \in Machines, NEW k \in s.tasks, NEW X, Sound(s, X)
    PROVE  LET t == [s EXCEPT !.tasks = @ \ {k}]
           IN  /\ t \in Machines /\ Sound(t, X)
               /\ t.phase = s.phase /\ t.owned = s.owned /\ t.zone = s.zone
               /\ t.pendingWake = s.pendingWake /\ t.graceFrozen = s.graceFrozen
               /\ k.kind = "blank" => Idle(t)
<1> DEFINE ts == s.tasks \ {k}
           t == [s EXCEPT !.tasks = ts]
<1>1. t \in Machines  BY LeavesFewer DEF Machines
<1>2. /\ t.phase = s.phase /\ t.owned = s.owned /\ t.zone = s.zone /\ t.tasks = ts
      /\ t.pendingWake = s.pendingWake /\ t.graceFrozen = s.graceFrozen
      /\ t.until = s.until /\ t.ticks = s.ticks
      /\ t.inhibited = s.inhibited /\ t.paused = s.paused
  BY DEF Machines
<1> SUFFICES Sound(t, X) /\ (k.kind = "blank" => Idle(t))  BY <1>1, <1>2
<1> HIDE DEF t
<1>3. Yields(t) /\ Frozen(t) /\ Ripens(t, X) /\ Seen(t)
  BY <1>2 DEF Sound, Loose, Yields, Frozen, Ripens, Seen
<1>4. Matched(t)  BY <1>2 DEF Sound, Matched, Overlaid
<1>5. Solo(t) /\ (k.kind = "blank" => Idle(t))
  BY <1>2 DEF Sound, Loose, Solo, Idle
<1> QED  BY <1>3, <1>4, <1>5 DEF Sound, Loose

\* The one blank is over: the machine wakes, rests dark, or starts anew.
LEMMA BlankResultSound ==
    ASSUME NEW s \in Machines, NEW k \in s.tasks, k.kind = "blank",
           NEW ok \in BOOLEAN, NEW at \in Int, NEW X, Sound(s, X)
    PROVE  Obeys(s, OnBlankResult([s EXCEPT !.tasks = @ \ {k}], k.gen, ok, at), X)
<1> DEFINE t == [s EXCEPT !.tasks = @ \ {k}]
           b == [t EXCEPT !.pendingWake = FALSE]
           c == [b EXCEPT !.phase = "blanked"]
           r == OnBlankResult(t, k.gen, ok, at)
<1>1. /\ t \in Machines /\ Sound(t, X) /\ Idle(t) /\ t.phase = s.phase
      /\ t.owned = s.owned /\ t.zone = s.zone
      /\ t.pendingWake = s.pendingWake /\ t.graceFrozen = s.graceFrozen
  BY FewerSound
<1>2. s.phase = "blanking" /\ s.graceFrozen = None
  BY DEF Sound, Loose, Solo, Frozen
<1>3. \/ r = t
      \/ t.pendingWake /\ r = IssueWake(b, at)
      \/ ~t.pendingWake /\ r = ScheduleStageTick(c, at)
      \/ t.zone = "absent" /\ r = EnterGrace(b, at)
      \/ r = EnterActive(b, at)
  BY DEF OnBlankResult
<1> SUFFICES Sound(r, X) /\ r.owned = s.owned  BY <1>2 DEF Obeys
<1> HIDE DEF t, r
<1>4. b \in Machines  BY <1>1, Recorded
<1>5. b.owned = s.owned /\ b.zone = s.zone /\ b.tasks = t.tasks /\ b.graceFrozen = None
  BY <1>1, <1>2 DEF Machines
<1> HIDE DEF b
<1>6. Idle(b)  BY <1>1, <1>5 DEF Idle
<1>7. /\ Sound(IssueWake(b, at), X) /\ IssueWake(b, at).owned = s.owned
      /\ Sound(EnterActive(b, at), X) /\ EnterActive(b, at).owned = s.owned
  BY <1>4, <1>5, <1>6, IssueWakeSound, EnterActiveSound
<1>8. s.zone = "absent" => Sound(EnterGrace(b, at), X) /\ EnterGrace(b, at).owned = s.owned
  BY <1>4, <1>5, <1>6, EnterGraceSound
<1>9. ~s.pendingWake => /\ Sound(ScheduleStageTick(c, at), X)
                        /\ ScheduleStageTick(c, at).owned = s.owned
  <2>1. /\ c \in Machines /\ c.phase = "blanked" /\ c.owned = s.owned
        /\ c.zone = s.zone /\ c.tasks = b.tasks /\ c.graceFrozen = None
    <3>1. c \in Machines  BY <1>4, Update DEF Phases
    <3>2. /\ c.phase = "blanked" /\ c.owned = s.owned
          /\ c.zone = s.zone /\ c.tasks = b.tasks /\ c.graceFrozen = None
      BY <1>4, <1>5 DEF Machines
    <3> QED  BY <3>1, <3>2
  <2> HIDE DEF c
  <2>2. Idle(c)  BY <1>6, <2>1 DEF Idle
  <2>3. Unforced /\ s.zone = "present" => s.pendingWake
    BY <1>2 DEF Sound, Loose, Seen
  <2>4. ~s.pendingWake => Sound(c, X)  BY <2>1, <2>2, <2>3, LandsSound
  <2>5. Alike(c, ScheduleStageTick(c, at))  BY <2>1, ScheduleStageTickAlike
  <2> QED  BY <2>1, <2>4, <2>5, AlikeSound DEF Alike, Same
<1> QED  BY <1>1, <1>3, <1>7, <1>8, <1>9

LEMMA WakeResultSound ==
    ASSUME NEW s \in Machines, NEW k \in s.tasks,
           NEW ok \in BOOLEAN, NEW at \in Int, NEW X, Sound(s, X)
    PROVE  Obeys(s, OnWakeResult([s EXCEPT !.tasks = @ \ {k}], k.gen, ok, at), X)
<1> DEFINE t == [s EXCEPT !.tasks = @ \ {k}]
           w == [t EXCEPT !.lastWake = at]
           r == OnWakeResult(t, k.gen, ok, at)
<1>1. /\ t \in Machines /\ Sound(t, X) /\ t.phase = s.phase /\ t.owned = s.owned
  BY FewerSound
<1>2. \/ r = t
      \/ t.phase = "waking" /\ r \in {EnterActive(w, at), IssueWake(t, at)}
  BY DEF OnWakeResult
<1> SUFFICES Obeys(s, r, X)  OBVIOUS
<1> HIDE DEF t, r
<1>3. w \in Machines  BY <1>1, Update
<1>4. w.owned = s.owned /\ w.tasks = t.tasks  BY <1>1 DEF Machines
<1> HIDE DEF w
<1>5. CASE r = t  BY <1>1, <1>5 DEF Obeys
<1>6. CASE t.phase = "waking" /\ r \in {EnterActive(w, at), IssueWake(t, at)}
  <2>1. Idle(t) /\ Idle(w) /\ t.graceFrozen = None
    BY <1>1, <1>4, <1>6, SoundIdle DEF Sound, Loose, Frozen, Idle
  <2>2. /\ Sound(EnterActive(w, at), X) /\ EnterActive(w, at).owned = s.owned
        /\ Sound(IssueWake(t, at), X) /\ IssueWake(t, at).owned = s.owned
    BY <1>1, <1>3, <1>4, <2>1, EnterActiveSound, IssueWakeSound
  <2> QED  BY <1>1, <1>6, <2>2 DEF Obeys
<1> QED  BY <1>2, <1>5, <1>6

LEMMA RenderResultSound ==
    ASSUME NEW s \in Machines, NEW k \in s.tasks,
           NEW ok \in BOOLEAN, NEW at \in Int, NEW X, Sound(s, X)
    PROVE  Obeys(s, OnRenderResult([s EXCEPT !.tasks = @ \ {k}], k.gen, ok, at), X)
<1> DEFINE t == [s EXCEPT !.tasks = @ \ {k}]
           c == [t EXCEPT !.phase = "staged"]
           r == OnRenderResult(t, k.gen, ok, at)
<1>1. /\ t \in Machines /\ Sound(t, X) /\ t.phase = s.phase /\ t.owned = s.owned
      /\ t.zone = s.zone
  BY FewerSound
<1>2. \/ r = t
      \/ /\ t.phase = "render_pending"
         /\ r \in {ScheduleStageTick(c, at), AdvanceToNextController(t, at)}
  BY DEF OnRenderResult
<1> SUFFICES Obeys(s, r, X)  OBVIOUS
<1> HIDE DEF t, r
<1>3. c \in Machines  BY <1>1, Update DEF Phases
<1>4. /\ c.phase = "staged" /\ c.owned = t.owned /\ c.tasks = t.tasks
      /\ c.zone = t.zone /\ c.graceFrozen = t.graceFrozen
  BY <1>1 DEF Machines
<1> HIDE DEF c
<1>5. CASE r = t  BY <1>1, <1>5 DEF Obeys
<1>6. CASE /\ t.phase = "render_pending"
           /\ r \in {ScheduleStageTick(c, at), AdvanceToNextController(t, at)}
  <2>1. Idle(t) /\ Idle(c)
    BY <1>1, <1>4, <1>6, SoundIdle DEF Sound, Idle
  <2>2. t.graceFrozen = None /\ t.owned /\ (Unforced => t.zone # "present")
    BY <1>1, <1>6 DEF Sound, Loose, Frozen, Yields, Seen, RenderPhases
  <2>3. Sound(AdvanceToNextController(t, at), X) /\ AdvanceToNextController(t, at).owned
    BY <1>1, <2>1, <2>2, AdvanceSound
  <2>4. Sound(c, X)  BY <1>4, <2>1, <2>2, LandsSound DEF RenderPhases
  <2>5. Alike(c, ScheduleStageTick(c, at))  BY <1>3, ScheduleStageTickAlike
  <2>6. Sound(ScheduleStageTick(c, at), X) /\ ScheduleStageTick(c, at).owned = t.owned
    BY <1>4, <2>4, <2>5, AlikeSound DEF Alike, Same
  <2>7. AdvanceToNextController(t, at).owned \in BOOLEAN /\ t.owned \in BOOLEAN
    <3>1. AdvanceToNextController(t, at) \in Machines
      BY <1>1, AdvanceLands, Composition
    <3> QED  BY <1>1, <3>1 DEF Machines
  <2>8. s.phase # "grace"  BY <1>1, <1>6
  <2> QED  BY <1>1, <1>6, <2>2, <2>3, <2>6, <2>7, <2>8 DEF Obeys
<1> QED  BY <1>2, <1>5, <1>6

LEMMA SettledSound ==
    ASSUME NEW s \in Machines, NEW X, Sound(s, X)
    PROVE  LET t == Settled(s)
           IN  /\ Sound(t, X) /\ t.phase = s.phase /\ t.owned = s.owned
               /\ t.inhibited = s.inhibited /\ t.paused = s.paused
<1> DEFINE u == IF s.phase = "grace" THEN s.until ELSE 0
           g == IF s.phase \in RenderPhases THEN s.renderGen ELSE 0
           t == [s EXCEPT !.until = u, !.renderGen = g]
<1>1. Settled(s) = t  BY DEF Settled
<1>2. s.phase = "grace" => u = s.until  OBVIOUS
<1> HIDE DEF u, g
<1>3. /\ t.phase = s.phase /\ t.owned = s.owned /\ t.zone = s.zone /\ t.tasks = s.tasks
      /\ t.pendingWake = s.pendingWake /\ t.graceFrozen = s.graceFrozen
      /\ t.until = u /\ t.ticks = s.ticks
      /\ t.inhibited = s.inhibited /\ t.paused = s.paused
  BY DEF Machines
<1> HIDE DEF t
<1>4. Yields(t) /\ Frozen(t) /\ Solo(t) /\ Seen(t) /\ Matched(t)
  BY <1>3 DEF Sound, Loose, Yields, Frozen, Solo, Seen, Matched, Overlaid
<1>5. Ripens(t, X)  BY <1>2, <1>3 DEF Sound, Loose, Ripens
<1> QED  BY <1>1, <1>3, <1>4, <1>5 DEF Sound, Loose

-----------------------------------------------------------------------------
(* The steps of the runtime *)

Law ==
    /\ Sound(d, {})
    /\ "ownership" \notin Inputs => owns /\ d.owned

\* A turn that handles an input or a result.
LEMMA TurnLaw ==
    ASSUME Law, NEW r \in Machines, Turn(r), owns' = owns,
           Sound(r, {}), r.owned \in {owns, d.owned}
    PROVE  /\ Law' /\ d'.phase = r.phase
           /\ d'.inhibited = r.inhibited /\ d'.paused = r.paused
<1>1. d' = Settled(r)  BY DEF Turn
<1>2. /\ Sound(d', {}) /\ d'.phase = r.phase /\ d'.owned = r.owned
      /\ d'.inhibited = r.inhibited /\ d'.paused = r.paused
  BY <1>1, SettledSound
<1> QED  BY <1>2 DEF Law

LEMMA TurnObeys ==
    ASSUME Law, NEW f, NEW r \in Machines, Turn(r), owns' = owns, Obeys(f, r, {}),
           f.owned \in {owns, d.owned}, d.phase = "grace" => f.phase = "grace"
    PROVE  Law' /\ ~GraceBlanks
<1>1. Law' /\ d'.phase = r.phase  BY TurnLaw DEF Obeys
<1> QED  BY <1>1 DEF Obeys, GraceBlanks

LEMMA InputLaw ==
    ASSUME Gentle, Inv, Law, InputArrives
    PROVE  Law' /\ ~GraceBlanks
<1> USE DEF InputTurn, AsFed
<1>1. d \in Machines /\ owns \in BOOLEAN /\ Sound(d, {})  BY DEF Inv, TypeOK, Law
<1>2. 0 \in Int /\ 0 <= 0  OBVIOUS
<1>3. ASSUME NEW c \in Machines, Alike(d, c)
      PROVE  LET f == Fed(c, 0)
             IN  /\ f \in Machines /\ Sound(f, {}) /\ AsFed(f)
                 /\ d.phase = "grace" => f.phase = "grace"
  <2>1. Sound(c, {}) /\ c.phase = d.phase /\ c.owned = d.owned
    BY <1>1, <1>3, AlikeSound DEF Alike, Same
  <2>2. Fed(c, 0) \in Machines  BY <1>1, <1>2, FedKeeps, Composition
  <2> QED  BY <1>1, <1>2, <2>1, <2>2, FedSound
<1> DEFINE f == Fed(d, 0)
<1>4. /\ f \in Machines /\ Sound(f, {}) /\ AsFed(f)
      /\ d.phase = "grace" => f.phase = "grace"
  BY <1>1, <1>3, AlikeReflexive
<1> HIDE DEF f
<1>5. ASSUME NEW r, Keeps(f, r), Obeys(f, r, {}), Turn(r), owns' = owns
      PROVE  Law' /\ ~GraceBlanks
  BY <1>4, <1>5, TurnObeys, Composition
<1>6. ASSUME NEW present \in BOOLEAN, ZonePresent(present) PROVE Law' /\ ~GraceBlanks
  <2> DEFINE calm == IF present THEN [d EXCEPT !.hold = FALSE] ELSE d
             e == Fed(calm, 0)
             r == OnZonePresent(e, present, 0)
  <2>1. Turn(r) /\ owns' = owns  BY <1>6 DEF ZonePresent
  <2>2. calm \in Machines  BY <1>1, Recorded
  <2>3. Alike(d, calm)  BY <1>1 DEF Machines, Alike, Same
  <2> HIDE DEF calm
  <2>4. /\ e \in Machines /\ Sound(e, {}) /\ AsFed(e)
        /\ d.phase = "grace" => e.phase = "grace"
    BY <1>3, <2>2, <2>3
  <2> HIDE DEF e
  <2>5. Obeys(e, r, {}) /\ r \in Machines
    BY <1>2, <2>4, OnZonePresentSound, OnZonePresentKeeps, Composition
  <2> HIDE DEF r
  <2> QED  BY <2>1, <2>4, <2>5, TurnObeys
<1>7. ASSUME NEW b \in BOOLEAN, SetInhibited(b) PROVE Law' /\ ~GraceBlanks
  <2> DEFINE r == OnInhibitorChanged(f, b, 0)
  <2>1. Turn(r) /\ owns' = owns  BY <1>7 DEF SetInhibited, f
  <2>2. Keeps(f, r) /\ Obeys(f, r, {})
    BY <1>2, <1>4, OnInhibitorChangedKeeps, OnInhibitorChangedSound
  <2> HIDE DEF r
  <2> QED  BY <1>5, <2>1, <2>2
<1>8. ASSUME NEW until \in PauseTimes \cup {Forever}, Pause(until)
      PROVE  Law' /\ ~GraceBlanks
  <2> DEFINE r == OnPause(f, until, 0)
  <2>1. Turn(r) /\ owns' = owns  BY <1>8 DEF Pause, f
  <2>2. until \in Int \cup {Forever}  BY <1>8, RuntimeAssumption
  <2>3. r \in Machines  BY <1>2, <1>4, <2>2, OnPauseKeeps
  <2>4. Obeys(f, r, {})  BY <1>2, <1>4, <2>2, OnPauseSound
  <2> HIDE DEF r
  <2> QED  BY <1>4, <2>1, <2>3, <2>4, TurnObeys
<1>9. CASE Resume
  <2> DEFINE r == OnResume(f, 0)
  <2>1. Turn(r) /\ owns' = owns  BY <1>9 DEF Resume, f
  <2>2. Keeps(f, r) /\ Obeys(f, r, {})  BY <1>2, <1>4, OnResumeKeeps, OnResumeSound
  <2> HIDE DEF r
  <2> QED  BY <1>5, <2>1, <2>2
<1>10. CASE ForceBlank
  <2> DEFINE r == OnForceBlank(f)
  <2>1. Turn(r) /\ owns' = owns /\ ~Unforced  BY <1>10 DEF ForceBlank, Unforced, f
  <2>2. r \in Machines /\ Sound(r, {}) /\ AsFed(r)
    BY <1>4, <2>1, OnForceBlankKeeps, OnForceBlankSound, Composition
  <2> HIDE DEF r
  <2>3. Law'  BY <2>1, <2>2, TurnLaw
  <2> QED  BY <1>10, <2>3 DEF GraceBlanks
<1>11. CASE SoftBlank
  <2> DEFINE r == OnSoftBlank(f, 0)
  <2>1. /\ Turn(r) /\ owns' = owns /\ ~Unforced /\ "soft_blank" \in Inputs
    BY <1>11 DEF SoftBlank, Unforced, f
  <2>2. f.owned \/ \A i \in DOMAIN Ladder : ~Ladder[i].render
    BY <1>4, <2>1 DEF Gentle, Law
  <2>3. r \in Machines /\ Sound(r, {}) /\ AsFed(r)
    BY <1>2, <1>4, <2>1, <2>2, OnSoftBlankKeeps, OnSoftBlankSound, Composition
  <2> HIDE DEF r
  <2>4. Law'  BY <2>1, <2>3, TurnLaw
  <2> QED  BY <1>11, <2>4 DEF GraceBlanks
<1>12. CASE ForceWake
  <2> DEFINE r == OnForceWake(f, 0)
  <2>1. Turn(r) /\ owns' = owns  BY <1>12 DEF ForceWake, f
  <2>2. Keeps(f, r) /\ Obeys(f, r, {})  BY <1>2, <1>4, OnForceWakeKeeps, OnForceWakeSound
  <2> HIDE DEF r
  <2> QED  BY <1>5, <2>1, <2>2
<1>13. CASE InputWake
  <2> DEFINE held == IF d.zone = "absent" /\ InputWakeHold > 0
                     THEN [d EXCEPT !.hold = TRUE] ELSE d
             e == Fed(held, 0)
             r == OnForceWake(e, 0)
  <2>1. Turn(r) /\ owns' = owns  BY <1>13 DEF InputWake
  <2>2. held \in Machines  BY <1>1, Recorded
  <2>3. Alike(d, held)  BY <1>1 DEF Machines, Alike, Same
  <2> HIDE DEF held
  <2>4. /\ e \in Machines /\ Sound(e, {}) /\ AsFed(e)
        /\ d.phase = "grace" => e.phase = "grace"
    BY <1>3, <2>2, <2>3
  <2> HIDE DEF e
  <2>5. Obeys(e, r, {}) /\ r \in Machines
    BY <1>2, <2>4, OnForceWakeSound, OnForceWakeKeeps, Composition
  <2> HIDE DEF r
  <2> QED  BY <2>1, <2>4, <2>5, TurnObeys
<1>14. CASE OwnershipFlips
  BY <1>14 DEF OwnershipFlips, Law, GraceBlanks
<1>15. CASE OwnershipPoll
  <2>1. Turn(f) /\ owns' = owns  BY <1>15 DEF OwnershipPoll, f
  <2>2. Obeys(f, f, {})  BY <1>4 DEF Obeys
  <2> QED  BY <1>4, <2>1, <2>2, TurnObeys
<1>16. ASSUME NEW until \in BOOLEAN, SetClaimSuppression(until)
       PROVE  Law' /\ ~GraceBlanks
  <2>1. Turn(d) /\ owns' = owns  BY <1>16 DEF SetClaimSuppression
  <2>2. Obeys(d, d, {})  BY <1>1 DEF Obeys
  <2> QED  BY <1>1, <2>1, <2>2, TurnObeys
<1>17. CASE SuppressionLapses
  BY <1>17 DEF SuppressionLapses, Law, GraceBlanks
<1>18. CASE OtherTurn
  <2>1. Turn(d) /\ owns' = owns  BY <1>18 DEF OtherTurn
  <2>2. Obeys(d, d, {})  BY <1>1 DEF Obeys
  <2> QED  BY <1>1, <2>1, <2>2, TurnObeys
<1> QED
  BY <1>6, <1>7, <1>8, <1>9, <1>10, <1>11, <1>12, <1>13, <1>14, <1>15, <1>16, <1>17,
     <1>18
  DEF InputArrives

\* The tick has left the wheel before its handler runs; a blank it issues in
\* Grace is the one that ends the period.
LEMMA TimerLaw ==
    ASSUME Inv, Law, TimerFires
    PROVE  Law' /\ (GraceBlanks => d.zone = "absent" /\ ~Overlaid(d') /\ (owns \/ claimed))
<1> USE DEF AsFed
<1>1. d \in Machines /\ owns \in BOOLEAN /\ Sound(d, {})  BY DEF Inv, TypeOK, Law
<1>2. CASE DisplayTick
  <2>1. PICK at \in d.ticks :
            /\ Fires(at)
            /\ Turn(OnTick(Fed([d EXCEPT !.ticks = @ \ {at}], at), at))
            /\ UNCHANGED <<ruled, owns, claimed, holdUntil, panel, surface>>
    BY <1>2 DEF DisplayTick
  <2> DEFINE ts == d.ticks \ {at}
             s == [d EXCEPT !.ticks = ts]
             f == Fed(s, at)
             r == OnTick(f, at)
  <2>2. at \in Int /\ at <= 0 /\ ts \in SUBSET Int  BY <1>1, <2>1 DEF Machines, Fires
  <2>3. d.ticks \subseteq ts \cup {at}  OBVIOUS
  <2>4. Turn(r)  BY <2>1
  <2> HIDE DEF ts
  <2>5. s \in Machines  BY <1>1, <2>2, Update
  <2>6. Sound(s, {at}) /\ s.phase = d.phase /\ s.owned = d.owned
    <3>1. /\ s.phase = d.phase /\ s.owned = d.owned /\ s.zone = d.zone /\ s.tasks = d.tasks
          /\ s.pendingWake = d.pendingWake /\ s.graceFrozen = d.graceFrozen
          /\ s.until = d.until /\ s.ticks = ts
          /\ s.inhibited = d.inhibited /\ s.paused = d.paused
      BY <1>1 DEF Machines
    <3> HIDE DEF s
    <3>2. Yields(s) /\ Frozen(s) /\ Solo(s) /\ Seen(s) /\ Matched(s)
      BY <1>1, <3>1 DEF Sound, Loose, Yields, Frozen, Solo, Seen, Matched, Overlaid
    <3>3. Ripens(s, {at})  BY <1>1, <2>3, <3>1 DEF Sound, Loose, Ripens
    <3> QED  BY <3>1, <3>2, <3>3 DEF Sound, Loose
  <2> HIDE DEF s
  <2>7. /\ f \in Machines /\ Sound(f, {at}) /\ AsFed(f)
        /\ d.phase = "grace" => f.phase = "grace"
    BY <1>1, <2>2, <2>5, <2>6, FedKeeps, FedSound, Composition
  <2> HIDE DEF f
  <2>8. /\ r \in Machines /\ Sound(r, {}) /\ AsFed(r)
        /\ f.phase = "grace" /\ r.phase \notin {"grace", "active"} =>
                f.owned /\ ~Overlaid(r)
    BY <2>2, <2>7, OnTickKeeps, OnTickSound, Composition
  <2> HIDE DEF r
  <2>9. /\ Law' /\ d'.phase = r.phase
        /\ d'.inhibited = r.inhibited /\ d'.paused = r.paused
    BY <2>1, <2>4, <2>8, TurnLaw
  <2>10. GraceBlanks => d.zone = "absent"
    BY <1>1 DEF GraceBlanks, Sound, Loose, Ripens
  <2>11. GraceBlanks => ~Overlaid(d') /\ (owns \/ claimed)
    BY <2>7, <2>8, <2>9 DEF GraceBlanks, Overlaid
  <2> QED  BY <2>9, <2>10, <2>11
<1>3. CASE DisplayStageTick
  <2>1. PICK k \in d.stageTicks :
            /\ Fires(k.at)
            /\ Turn(OnStageTick(Fed([d EXCEPT !.stageTicks = @ \ {k}], k.at), k.gen, k.at))
            /\ UNCHANGED <<ruled, owns, claimed, holdUntil, panel, surface>>
    BY <1>3 DEF DisplayStageTick
  <2> DEFINE ts == d.stageTicks \ {k}
             s == [d EXCEPT !.stageTicks = ts]
             f == Fed(s, k.at)
             r == OnStageTick(f, k.gen, k.at)
  <2>2. k.at \in Int /\ k.at <= 0 /\ k.gen \in Gens /\ ts \in SUBSET [gen : Gens, at : Int]
    BY <1>1, <2>1 DEF Machines, Fires
  <2>3. Turn(r)  BY <2>1
  <2> HIDE DEF ts
  <2>4. s \in Machines  BY <1>1, <2>2, Update
  <2>5. Alike(d, s)  BY <1>1 DEF Machines, Alike, Same
  <2> HIDE DEF s
  <2>6. Sound(s, {}) /\ s.phase = d.phase /\ s.owned = d.owned
    BY <1>1, <2>5, AlikeSound DEF Alike, Same
  <2>7. /\ f \in Machines /\ Sound(f, {}) /\ AsFed(f)
        /\ d.phase = "grace" => f.phase = "grace"
    BY <1>1, <2>2, <2>4, <2>6, FedKeeps, FedSound, Composition
  <2> HIDE DEF f
  <2>8. r \in Machines /\ Obeys(f, r, {})
    BY <2>2, <2>7, OnStageTickKeeps, OnStageTickSound, Composition
  <2> HIDE DEF r
  <2> QED  BY <2>1, <2>3, <2>7, <2>8, TurnObeys
<1>4. CASE InputWakeHoldExpiry
  <2> DEFINE at == holdUntil
             c == [d EXCEPT !.hold = FALSE]
             f == Fed(c, at)
             r == IF d.zone = "absent" THEN OnZonePresent(f, FALSE, at) ELSE f
  <2>1. Turn(r) /\ owns' = owns  BY <1>4 DEF InputWakeHoldExpiry
  <2>2. at \in Int /\ at <= 0  BY <1>4 DEF InputWakeHoldExpiry, Fires, Inv, TypeOK
  <2> HIDE DEF at
  <2>3. c \in Machines  BY <1>1, Recorded
  <2>4. Alike(d, c)  BY <1>1 DEF Machines, Alike, Same
  <2> HIDE DEF c
  <2>5. Sound(c, {}) /\ c.phase = d.phase /\ c.owned = d.owned
    BY <1>1, <2>4, AlikeSound DEF Alike, Same
  <2>6. /\ f \in Machines /\ Sound(f, {}) /\ AsFed(f)
        /\ d.phase = "grace" => f.phase = "grace"
    BY <1>1, <2>2, <2>3, <2>5, FedKeeps, FedSound, Composition
  <2> HIDE DEF f
  <2>7. OnZonePresent(f, FALSE, at) \in Machines /\ Obeys(f, OnZonePresent(f, FALSE, at), {})
    BY <2>2, <2>6, OnZonePresentKeeps, OnZonePresentSound, Composition
  <2>8. r \in Machines /\ Obeys(f, r, {})  BY <2>6, <2>7 DEF Obeys
  <2> HIDE DEF r
  <2> QED  BY <2>1, <2>6, <2>8, TurnObeys
<1> QED  BY <1>2, <1>3, <1>4 DEF TimerFires

LEMMA TaskLaw ==
    ASSUME Inv, Law, TaskFinishes
    PROVE  Law' /\ ~GraceBlanks
<1>1. d \in Machines /\ lag \in Nat /\ Sound(d, {})  BY DEF Inv, TypeOK, Law
<1>2. -lag \in Int /\ -lag <= 0  BY <1>1
<1> PICK k \in d.tasks :
        \/ \E ok \in BOOLEAN :
                BlankFinishes(k, ok) \/ WakeFinishes(k, ok) \/ ShowFinishes(k, ok)
        \/ TeardownFinishes(k)
  BY DEF TaskFinishes
<1>3. ASSUME NEW r, Keeps(d, r), Obeys(d, r, {}), Turn(r), owns' = owns
      PROVE  Law' /\ ~GraceBlanks
  BY <1>3, TurnObeys, Composition
<1>4. ASSUME NEW ok \in BOOLEAN, BlankFinishes(k, ok) PROVE Law' /\ ~GraceBlanks
  <2> DEFINE r == OnBlankResult([d EXCEPT !.tasks = @ \ {k}], k.gen, ok, -lag)
  <2>1. k.kind = "blank" /\ Turn(r) /\ owns' = owns
    BY <1>4 DEF BlankFinishes, Finishes, Without
  <2>2. Keeps(d, r) /\ Obeys(d, r, {})
    BY <1>1, <1>2, <2>1, BlankResultKeeps, BlankResultSound
  <2> HIDE DEF r
  <2> QED  BY <1>3, <2>1, <2>2
<1>5. ASSUME NEW ok \in BOOLEAN, WakeFinishes(k, ok) PROVE Law' /\ ~GraceBlanks
  <2> DEFINE r == OnWakeResult([d EXCEPT !.tasks = @ \ {k}], k.gen, ok, -lag)
  <2>1. k.kind = "wake" /\ Turn(r) /\ owns' = owns
    BY <1>5 DEF WakeFinishes, Finishes, Without
  <2>2. Keeps(d, r) /\ Obeys(d, r, {})
    BY <1>1, <1>2, <2>1, WakeResultKeeps, WakeResultSound
  <2> HIDE DEF r
  <2> QED  BY <1>3, <2>1, <2>2
<1>6. ASSUME NEW ok \in BOOLEAN, ShowFinishes(k, ok) PROVE Law' /\ ~GraceBlanks
  <2> DEFINE r == OnRenderResult([d EXCEPT !.tasks = @ \ {k}], k.gen, ok, -lag)
  <2>1. k.kind = "show" /\ Turn(r) /\ owns' = owns
    BY <1>6 DEF ShowFinishes, Finishes, Without
  <2>2. Keeps(d, r) /\ Obeys(d, r, {})
    BY <1>1, <1>2, <2>1, RenderResultKeeps, RenderResultSound
  <2> HIDE DEF r
  <2> QED  BY <1>3, <2>1, <2>2
<1>7. ASSUME TeardownFinishes(k) PROVE Law' /\ ~GraceBlanks
  <2>1. PICK shows \in SUBSET {u \in d.tasks : u.kind = "show"} :
            d' = [d EXCEPT !.tasks = (@ \ (shows \cup {k}))
                            \cup {[u EXCEPT !.superseded = TRUE] : u \in shows}]
    BY <1>7 DEF TeardownFinishes
  <2> DEFINE ts == (d.tasks \ (shows \cup {k})) \cup {[u EXCEPT !.superseded = TRUE] : u \in shows}
             r == [d EXCEPT !.tasks = ts]
  <2>2. d' = r /\ owns' = owns  BY <1>7, <2>1 DEF TeardownFinishes
  <2>3. \A v \in ts : v.kind = "blank" => v \in d.tasks
    <3>1. ASSUME NEW u \in shows PROVE [u EXCEPT !.superseded = TRUE].kind = "show"
      <4>1. u \in Tasks /\ u.kind = "show"  BY <1>1 DEF Machines
      <4> QED  BY <4>1 DEF Tasks
    <3> QED  BY <3>1
  <2> HIDE DEF ts
  <2>4. /\ r.phase = d.phase /\ r.owned = d.owned /\ r.zone = d.zone /\ r.tasks = ts
        /\ r.pendingWake = d.pendingWake /\ r.graceFrozen = d.graceFrozen
        /\ r.until = d.until /\ r.ticks = d.ticks
        /\ r.inhibited = d.inhibited /\ r.paused = d.paused
    BY <1>1 DEF Machines
  <2> HIDE DEF r
  <2>5. Yields(r) /\ Frozen(r) /\ Ripens(r, {}) /\ Seen(r) /\ Matched(r)
    BY <1>1, <2>4 DEF Sound, Loose, Yields, Frozen, Ripens, Seen, Matched, Overlaid
  <2>6. Solo(r)  BY <1>1, <2>3, <2>4 DEF Sound, Loose, Solo
  <2>7. Sound(r, {})  BY <2>5, <2>6 DEF Sound, Loose
  <2> QED  BY <2>2, <2>4, <2>7 DEF Law, GraceBlanks
<1> QED  BY <1>4, <1>5, <1>6, <1>7

\* The countdown and its tick grow older together.
LEMMA TimeLaw ==
    ASSUME Inv, Law, TimePasses
    PROVE  Law' /\ ~GraceBlanks
<1>1. d \in Machines /\ Past \in Nat /\ Sound(d, {})
  BY RuntimeAssumption DEF Inv, TypeOK, Law
<1> DEFINE un == IF d.phase = "grace" THEN Earlier(d.until) ELSE d.until
           pa == EarlierOpt(d.paused)
           sd == EarlierOpt(d.stageDeadline)
           lw == EarlierOpt(d.lastWake)
           sa == Earlier(d.startedAt)
           tk == {t - 1 : t \in d.ticks}
           st == {[t EXCEPT !.at = t.at - 1] : t \in d.stageTicks}
           ta == {[t EXCEPT !.age = t.age + 1] : t \in d.tasks}
           r  == [d EXCEPT !.until = un, !.paused = pa, !.stageDeadline = sd,
                           !.lastWake = lw, !.startedAt = sa,
                           !.ticks = tk, !.stageTicks = st, !.tasks = ta]
<1>2. d' = r /\ owns' = owns  BY DEF TimePasses, Older
<1>3. d.phase = "grace" => un = Earlier(d.until)  OBVIOUS
<1>4. pa = None <=> d.paused = None
  <2>1. d.paused \in Int \cup {None, Forever}  BY <1>1 DEF Machines
  <2> QED  BY <1>1, <2>1, Options DEF EarlierOpt, Earlier
<1>5. \A t \in d.ticks : t \in Int /\ t > 0 /\ t - 1 \in tk
  BY <1>1 DEF Machines, TimePasses, Deadlines
<1>6. ASSUME NEW v \in ta
      PROVE  \E t \in d.tasks : v = [t EXCEPT !.age = t.age + 1] /\ v.kind = t.kind
  <2>1. PICK t \in d.tasks : v = [t EXCEPT !.age = t.age + 1]  OBVIOUS
  <2>2. t \in Tasks  BY <1>1 DEF Machines
  <2>3. v.kind = t.kind  BY <2>1, <2>2 DEF Tasks
  <2> QED  BY <2>1, <2>3
<1> HIDE DEF un, pa, sd, lw, sa, tk, st, ta
<1>7. /\ r.phase = d.phase /\ r.owned = d.owned /\ r.zone = d.zone /\ r.tasks = ta
      /\ r.pendingWake = d.pendingWake /\ r.graceFrozen = d.graceFrozen
      /\ r.until = un /\ r.ticks = tk /\ r.inhibited = d.inhibited /\ r.paused = pa
  BY <1>1 DEF Machines
<1> HIDE DEF r
<1>8. Yields(r) /\ Frozen(r) /\ Seen(r)
  BY <1>1, <1>7 DEF Sound, Loose, Yields, Frozen, Seen
<1>9. Matched(r)  BY <1>1, <1>4, <1>7 DEF Sound, Matched, Overlaid
<1>10. Solo(r)
  <2>1. SUFFICES ASSUME NEW v \in ta, v.kind = "blank"
                 PROVE  /\ d.phase = "blanking"
                        /\ \A w \in ta : w.kind = "blank" => w = v
    BY <1>7 DEF Solo
  <2>2. PICK t \in d.tasks : v = [t EXCEPT !.age = t.age + 1] /\ t.kind = "blank"
    BY <1>6, <2>1
  <2>3. d.phase = "blanking" /\ \A u \in d.tasks : u.kind = "blank" => u = t
    BY <1>1, <2>2 DEF Sound, Loose, Solo
  <2>4. ASSUME NEW w \in ta, w.kind = "blank" PROVE w = v
    BY <1>6, <2>2, <2>3, <2>4
  <2> QED  BY <2>3, <2>4
<1>11. Ripens(r, {})
  <2>1. SUFFICES ASSUME d.phase = "grace"
                 PROVE  /\ d.zone = "absent"
                        /\ d.graceFrozen = None /\ d.owned => \E t \in tk : t >= un
    BY <1>7 DEF Ripens
  <2>2. d.zone = "absent"  BY <1>1, <2>1 DEF Sound, Loose, Ripens
  <2>3. SUFFICES ASSUME d.graceFrozen = None, d.owned PROVE \E t \in tk : t >= un
    BY <2>2
  <2>4. PICK t \in d.ticks : t >= d.until
    BY <1>1, <2>1, <2>3 DEF Sound, Loose, Ripens
  <2>5. d.until \in Int  BY <1>1 DEF Machines
  <2>6. t - 1 \in tk /\ t - 1 >= un
    BY <1>1, <1>3, <1>5, <2>1, <2>4, <2>5 DEF Earlier
  <2> QED  BY <2>6
<1>12. Sound(r, {})  BY <1>8, <1>9, <1>10, <1>11 DEF Sound, Loose
<1> QED  BY <1>2, <1>7, <1>12 DEF Law, GraceBlanks

LEMMA InitLaw == Init => Law
<1> SUFFICES ASSUME Init PROVE Law  OBVIOUS
<1>1. New \in Machines
  <2>1. 0 \in Gens /\ 0 \in Int  BY GenAssumption DEF Gens
  <2> QED  BY <2>1 DEF New, Machines, Phases
<1>2. /\ New.phase = "active" /\ New.graceFrozen = None /\ New.owned /\ New.tasks = {}
      /\ New.zone = "unknown"
  BY DEF New
<1>3. \E p \in {"active", "waking", "blanked"} :
          /\ d.phase = p /\ d.graceFrozen = None /\ d.owned /\ d.tasks = {}
          /\ d.zone = "unknown"
  <2>1. CASE d = New  BY <1>2, <2>1
  <2>2. CASE d = [New EXCEPT !.ticks = {RetryInterval}]
    BY <1>1, <1>2, <2>2 DEF Machines
  <2>3. ASSUME NEW p \in {"blanked", "waking"}, d = Restored(p, 0)
        PROVE  /\ d.phase = p /\ d.graceFrozen = None /\ d.owned /\ d.tasks = {}
               /\ d.zone = "unknown"
    <3> DEFINE ts == IF p = "waking" THEN {RetryInterval} ELSE {}
               r == [New EXCEPT !.phase = p, !.cmdGen = 0, !.ticks = ts]
    <3>1. d = r  BY <2>3 DEF Restored
    <3> HIDE DEF ts
    <3>2. /\ r.phase = p /\ r.graceFrozen = None /\ r.owned /\ r.tasks = {}
          /\ r.zone = "unknown"
      BY <1>1, <1>2 DEF Machines
    <3> QED  BY <3>1, <3>2
  <2> QED  BY <2>1, <2>2, <2>3 DEF Init
<1>4. Idle(d)  BY <1>3 DEF Idle
<1>5. Sound(d, {})  BY <1>3, <1>4, LandsSound
<1> QED  BY <1>3, <1>5 DEF Init, Law

\* A blank that neither ForceBlank nor SoftBlank issues, from Grace.
Licensed == GraceBlanks => d.zone = "absent" /\ ~Overlaid(d') /\ (owns \/ claimed)

LEMMA NextLaw ==
    ASSUME Gentle
    PROVE  Inv /\ Law /\ [Next]_vars => Law' /\ [Licensed]_vars
<1> SUFFICES ASSUME Inv, Law, [Next]_vars PROVE Law' /\ [Licensed]_vars
  OBVIOUS
<1>1. CASE Next
  BY <1>1, InputLaw, TimerLaw, TaskLaw, TimeLaw DEF Next, Happens, Licensed
<1>2. CASE UNCHANGED vars
  BY <1>2 DEF vars, Law
<1> QED  BY <1>1, <1>2

\* The law of one display holds of every behaviour of the engine's loop.
THEOREM Lawful ==
    ASSUME Gentle
    PROVE  Spec => []Law
<1>1. Init => Law  BY InitLaw
<1>2. Inv /\ Law /\ [Next]_vars => Law'  BY NextLaw
<1> QED  BY <1>1, <1>2, Invariance, PTL DEF Spec

-----------------------------------------------------------------------------
(* What a reader should know *)

\* freeze_grace and maybe_unfreeze_grace keep the countdown of Grace in step with
\* the overlays, whatever freezes it or consumes its ticks, and a running one of
\* an owned display always has the tick that ends it.
THEOREM GraceHasItsTick ==
    ASSUME Gentle
    PROVE  Spec => []GraceIsDriven
<1>1. Law => GraceIsDriven
  BY DEF Law, Sound, Loose, Matched, Ripens, GraceIsDriven
<1> QED  BY <1>1, Lawful, PTL

\* One blank at a time, and no wake beside it: while a blank runs the machine
\* waits in Blanking, which answers every input with pending_wake.
THEOREM OneBlankAtATime ==
    ASSUME Gentle
    PROVE  Spec => []BlankRunsAlone
<1>1. Law => BlankRunsAlone
  BY DEF Law, Sound, Loose, Solo, BlankRunsAlone
<1> QED  BY <1>1, Lawful, PTL

\* No tick, however late or however many Grace periods old, blanks a display that
\* is not vacant, is inhibited or paused, or belongs to another machine and is not
\* being claimed.
THEOREM OnlyVacancyBlanks ==
    ASSUME Gentle
    PROVE  Spec => BlankIsLicensed
<1>1. Inv /\ Law /\ [Next]_vars => [Licensed]_vars  BY NextLaw
<1> QED  BY <1>1, Lawful, Invariance, PTL DEF Spec, BlankIsLicensed, Licensed

\* Without an operator's blank, presence is never met by a display that is dark,
\* covered, or about to be: a presence edge in any phase leads out of it.
THEOREM PresenceIsSeen ==
    ASSUME Unforced
    PROVE  Spec => []NeverDarkWhilePresent
<1>1. Gentle  BY DEF Gentle, Unforced
<1>2. Law => NeverDarkWhilePresent
  BY DEF Law, Sound, Loose, Seen, NeverDarkWhilePresent
<1> QED  BY <1>1, <1>2, Lawful, PTL

-----------------------------------------------------------------------------
(***************************************************************************)
(* Generations.  A counter of 2^64 values that wraps does not come round   *)
(* while what it once numbered is in flight or in the wheel: GensLeft says *)
(* so of the next values, of which a turn uses at most two for commands    *)
(* and one for stages.                                                     *)
(***************************************************************************)

GensLeft ==
    /\ \A t \in CommandTasks : t.gen \notin {NextGen(d.cmdGen), NextGen(NextGen(d.cmdGen))}
    /\ \A t \in d.tasks : t.kind = "show" => t.gen # NextGen(d.stageGen)
    /\ \A k \in d.stageTicks : k.gen # NextGen(d.stageGen)

\* The tasks that a result must not be mistaken between.
Rivals(t, u) ==
    \/ t.kind \in {"blank", "wake"} /\ u.kind \in {"blank", "wake"}
    \/ t.kind = "show" /\ u.kind = "show"
Differ(T) == \A t, u \in T : Rivals(t, u) /\ t.gen = u.gen => t = u

\* Nothing in U is new but teardowns.
From(T, U) ==
    /\ Differ(T) => Differ(U)
    /\ \A v \in U : v.kind = "teardown" \/ \E t \in T : Rivals(t, v) /\ t.gen = v.gen

NoCommand(T, g) == \A t \in T : t.kind \in {"blank", "wake"} => t.gen # g
Room(s) == NoCommand(s.tasks, NextGen(s.cmdGen))
Rooms(s) == Room(s) /\ NoCommand(s.tasks, NextGen(NextGen(s.cmdGen)))
StageRoom(s) ==
    /\ \A t \in s.tasks : t.kind = "show" => t.gen # NextGen(s.stageGen)
    /\ \A k \in s.stageTicks : k.gen # NextGen(s.stageGen)
Ready(s) == Differ(s.tasks) /\ Room(s) /\ StageRoom(s)

\* The stage ticks that are not stale: none until the stage is reached, then only
\* one with the recorded deadline, and none at all in a stage that has no dwell.
Live(s) == {k \in s.stageTicks : k.gen = s.stageGen}
Marked(s) ==
    /\ s.phase \in {"blanking", "render_pending"} => Live(s) = {}
    /\ s.phase \in {"blanked", "staged"} =>
        /\ \A k \in Live(s) : k.at = s.stageDeadline
        /\ s.stage # None => (Ladder[s.stage].dwell = None => Live(s) = {})

\* A step that uses no generation ...
Silent(s, t) ==
    /\ From(s.tasks, t.tasks) /\ t.cmdGen = s.cmdGen /\ t.stageGen = s.stageGen
    /\ t.stageTicks \subseteq s.stageTicks
\* ... nor reaches a stage ...
Calm(t) == t.phase \in {"active", "grace", "waking"}
Tame(s, t) ==
    /\ Silent(s, t)
    /\ \/ Calm(t)
       \/ t.phase = s.phase /\ t.stage = s.stage /\ t.stageDeadline = s.stageDeadline
\* ... and one that may use one generation of either kind.
Proper(s, t) ==
    Ready(s) => /\ Differ(t.tasks)
                /\ "force_blank" \notin Inputs /\ Marked(s) => Marked(t)

LEMMA FromMapped ==
    ASSUME NEW T, NEW U, NEW g,
           \A v \in U : \E t \in T : v = g[t] /\ v.kind = t.kind /\ v.gen = t.gen,
           \A t \in T : t.kind \in TaskKinds
    PROVE  From(T, U)
<1>1. ASSUME Differ(T), NEW v \in U, NEW w \in U, Rivals(v, w), v.gen = w.gen
      PROVE  v = w
  <2>1. PICK t \in T : v = g[t] /\ v.kind = t.kind /\ v.gen = t.gen
    OBVIOUS
  <2>2. PICK u \in T : w = g[u] /\ w.kind = u.kind /\ w.gen = u.gen
    OBVIOUS
  <2>3. Rivals(t, u) /\ t.gen = u.gen
    BY <1>1, <2>1, <2>2 DEF Rivals
  <2>4. t = u
    BY <1>1, <2>3 DEF Differ
  <2> QED  BY <2>1, <2>2, <2>4
<1>2. ASSUME NEW v \in U, v.kind # "teardown"
      PROVE  \E t \in T : Rivals(t, v) /\ t.gen = v.gen
  <2>1. PICK t \in T : v.kind = t.kind /\ v.gen = t.gen
    OBVIOUS
  <2>2. Rivals(t, v)
    BY <1>2, <2>1 DEF Rivals, TaskKinds
  <2> QED  BY <2>1, <2>2
<1>3. Differ(T) => Differ(U)
  BY <1>1 DEF Differ
<1> QED  BY <1>2, <1>3 DEF From

LEMMA FromTransitive ==
    ASSUME NEW T, NEW U, NEW V, From(T, U), From(U, V)
    PROVE  From(T, V)
<1>1. ASSUME NEW v \in V, v.kind # "teardown"
      PROVE  \E t \in T : Rivals(t, v) /\ t.gen = v.gen
  <2>1. PICK u \in U : Rivals(u, v) /\ u.gen = v.gen
    BY <1>1 DEF From
  <2>2. u.kind # "teardown"
    BY <2>1 DEF Rivals
  <2>3. PICK t \in T : Rivals(t, u) /\ t.gen = u.gen
    BY <2>2 DEF From
  <2>4. Rivals(t, v)
    BY <2>1, <2>3 DEF Rivals
  <2> QED  BY <2>1, <2>3, <2>4
<1> QED  BY <1>1 DEF From

LEMMA FromFewer ==
    ASSUME NEW T \in SUBSET Tasks, NEW U \in SUBSET T
    PROVE  From(T, U)
<1>1. \A t \in T : t.kind \in TaskKinds
  BY DEF Tasks
<1> QED  BY <1>1 DEF From, Differ, Rivals, TaskKinds

LEMMA MoreDiffer ==
    ASSUME NEW T, Differ(T), NEW k, \A t \in T : Rivals(t, k) => t.gen # k.gen
    PROVE  Differ(T \cup {k})
<1>1. ASSUME NEW t \in T \cup {k}, NEW u \in T \cup {k}, Rivals(t, u), t.gen = u.gen
      PROVE  t = u
  <2>1. Rivals(u, t)
    BY <1>1 DEF Rivals
  <2> QED  BY <1>1, <2>1 DEF Differ
<1> QED  BY <1>1 DEF Differ

LEMMA SupersedingDiffer ==
    ASSUME NEW T \in SUBSET Tasks, Differ(T), NEW k \in Tasks,
           k.kind \in {"blank", "wake"}, NoCommand(T, k.gen)
    PROVE  Differ(Superseding(T, k))
<1> DEFINE g == [t \in T |-> IF t.kind = "wake" THEN [t EXCEPT !.superseded = TRUE] ELSE t]
           U == {g[t] : t \in T}
<1>1. ASSUME NEW v \in U
      PROVE  \E t \in T : v = g[t] /\ v.kind = t.kind /\ v.gen = t.gen
  <2>1. PICK t \in T : v = g[t]
    OBVIOUS
  <2>2. t \in Tasks /\ [t EXCEPT !.superseded = TRUE].kind = t.kind
        /\ [t EXCEPT !.superseded = TRUE].gen = t.gen
    BY DEF Tasks
  <2> QED  BY <2>1, <2>2
<1>2. \A t \in T : t.kind \in TaskKinds
  BY DEF Tasks
<1>3. Superseding(T, k) = U \cup {k}
  BY DEF Superseding
<1> HIDE DEF g, U
<1>4. From(T, U)
  BY <1>1, <1>2, FromMapped
<1>5. \A v \in U : Rivals(v, k) => v.gen # k.gen
  <2>1. ASSUME NEW v \in U, Rivals(v, k)
        PROVE  v.gen # k.gen
    <3>1. v.kind # "teardown"
      BY <2>1 DEF Rivals
    <3>2. PICK t \in T : Rivals(t, v) /\ t.gen = v.gen
      BY <1>4, <3>1 DEF From
    <3>3. t.kind \in {"blank", "wake"}
      BY <2>1, <3>2 DEF Rivals
    <3> QED  BY <3>2, <3>3 DEF NoCommand
  <2> QED  BY <2>1
<1>6. Differ(U)
  BY <1>4 DEF From
<1> QED  BY <1>3, <1>5, <1>6, MoreDiffer

LEMMA TameTransitive ==
    ASSUME NEW s, NEW t, NEW u, Tame(s, t), Tame(t, u)
    PROVE  Tame(s, u)
<1>1. From(s.tasks, u.tasks)
  BY FromTransitive DEF Tame, Silent
<1> QED  BY <1>1 DEF Tame, Silent, Calm

LEMMA SilentRoom ==
    ASSUME NEW s, NEW t, Silent(s, t)
    PROVE  /\ Rooms(s) => Rooms(t)
           /\ Room(s) => Room(t)
           /\ StageRoom(s) => StageRoom(t)
           /\ Differ(s.tasks) => Differ(t.tasks)
<1>1. ASSUME NEW g, NoCommand(s.tasks, g)
      PROVE  NoCommand(t.tasks, g)
  <2>1. ASSUME NEW v \in t.tasks, v.kind \in {"blank", "wake"}
        PROVE  v.gen # g
    <3>1. PICK w \in s.tasks : Rivals(w, v) /\ w.gen = v.gen
      BY <2>1 DEF Silent, From
    <3>2. w.kind \in {"blank", "wake"}
      BY <2>1, <3>1 DEF Rivals
    <3> QED  BY <1>1, <3>1, <3>2 DEF NoCommand
  <2> QED  BY <2>1 DEF NoCommand
<1>2. ASSUME StageRoom(s), NEW v \in t.tasks, v.kind = "show"
      PROVE  v.gen # NextGen(s.stageGen)
  <2>1. PICK w \in s.tasks : Rivals(w, v) /\ w.gen = v.gen
    BY <1>2 DEF Silent, From
  <2>2. w.kind = "show"
    BY <1>2, <2>1 DEF Rivals
  <2> QED  BY <1>2, <2>1, <2>2 DEF StageRoom
<1>3. t.cmdGen = s.cmdGen /\ t.stageGen = s.stageGen /\ t.stageTicks \subseteq s.stageTicks
  BY DEF Silent
<1>4. StageRoom(s) => StageRoom(t)
  BY <1>2, <1>3 DEF StageRoom
<1>5. Differ(s.tasks) => Differ(t.tasks)
  BY DEF Silent, From
<1> QED  BY <1>1, <1>3, <1>4, <1>5 DEF Room, Rooms

LEMMA TameMarked ==
    ASSUME NEW s, NEW t, Tame(s, t)
    PROVE  Marked(s) => Marked(t)
<1>1. CASE Calm(t)
  BY <1>1 DEF Calm, Marked
<1>2. CASE ~Calm(t)
  <2>1. Live(t) \subseteq Live(s)
    BY DEF Tame, Silent, Live
  <2>2. t.phase = s.phase /\ t.stage = s.stage /\ t.stageDeadline = s.stageDeadline
    BY <1>2 DEF Tame
  <2> QED  BY <2>1, <2>2 DEF Marked
<1> QED  BY <1>1, <1>2

LEMMA TameProper ==
    ASSUME NEW s, NEW t, NEW u
    PROVE  /\ Tame(s, t) => Proper(s, t)
           /\ Tame(s, t) /\ Proper(t, u) => Proper(s, u)
BY SilentRoom, TameMarked DEF Tame, Proper, Ready

\* A step that leaves the tasks and the generations alone.
LEMMA TameFields ==
    ASSUME NEW s \in Machines, NEW t, t.tasks = s.tasks, t.cmdGen = s.cmdGen,
           t.stageGen = s.stageGen, t.stageTicks = s.stageTicks,
           \/ Calm(t)
           \/ t.phase = s.phase /\ t.stage = s.stage /\ t.stageDeadline = s.stageDeadline
    PROVE  Tame(s, t)
<1>1. s.tasks \in SUBSET Tasks
  BY DEF Machines
<1>2. From(s.tasks, t.tasks)
  BY <1>1, FromFewer
<1> QED  BY <1>2 DEF Tame, Silent

LEMMA TameReflexive == ASSUME NEW s \in Machines PROVE Tame(s, s)
BY TameFields

\* The helpers of Grace, Active and the pauses.
LEMMA GraceTame ==
    ASSUME NEW s \in Machines, NEW at \in Int
    PROVE  /\ Tame(s, EnterGrace(s, at)) /\ Calm(EnterGrace(s, at))
           /\ Tame(s, FreezeGrace(s, at)) /\ Tame(s, UnfreezeGrace(s, at))
<1>1. Tame(s, EnterGrace(s, at)) /\ Calm(EnterGrace(s, at))
  <2> DEFINE t == EnterGrace(s, at)
  <2>1. /\ t.phase = "grace" /\ t.tasks = s.tasks /\ t.cmdGen = s.cmdGen
        /\ t.stageGen = s.stageGen /\ t.stageTicks = s.stageTicks
    BY DEF EnterGrace, Machines
  <2> HIDE DEF t
  <2>2. Calm(t)
    BY <2>1 DEF Calm
  <2> QED  BY <2>1, <2>2, TameFields DEF t
<1>2. Tame(s, FreezeGrace(s, at))
  <2> DEFINE t == FreezeGrace(s, at)
  <2>1. /\ t.phase = s.phase /\ t.tasks = s.tasks /\ t.cmdGen = s.cmdGen
        /\ t.stageGen = s.stageGen /\ t.stageTicks = s.stageTicks
        /\ t.stage = s.stage /\ t.stageDeadline = s.stageDeadline
    <3>1. \/ t = s
          \/ t = [s EXCEPT !.graceFrozen = Positive(s.until - at)]
      BY DEF FreezeGrace
    <3> HIDE DEF t
    <3> QED  BY <3>1 DEF Machines
  <2> HIDE DEF t
  <2> QED  BY <2>1, TameFields DEF t
<1>3. Tame(s, UnfreezeGrace(s, at))
  <2> DEFINE t == UnfreezeGrace(s, at)
  <2>1. /\ t.phase = "grace" \/ t = s
        /\ t.tasks = s.tasks /\ t.cmdGen = s.cmdGen
        /\ t.stageGen = s.stageGen /\ t.stageTicks = s.stageTicks
    BY DEF UnfreezeGrace, Machines
  <2> HIDE DEF t
  <2> QED  BY <2>1, TameFields DEF Calm, t
<1> QED  BY <1>1, <1>2, <1>3

LEMMA EnterActiveTame ==
    ASSUME NEW s \in Machines, NEW at \in Int
    PROVE  Tame(s, EnterActive(s, at)) /\ Calm(EnterActive(s, at))
<1> DEFINE a == [s EXCEPT !.phase = "active", !.graceFrozen = None,
                          !.stageFrozen = None, !.stageDeadline = None, !.stage = None]
<1>1. a \in Machines
  BY Update DEF Phases
<1>2. /\ a.phase = "active" /\ a.tasks = s.tasks /\ a.cmdGen = s.cmdGen
      /\ a.stageGen = s.stageGen /\ a.stageTicks = s.stageTicks
  BY DEF Machines
<1>3. EnterActive(s, at) \in {a, EnterGrace(a, at)}
  BY DEF EnterActive
<1> HIDE DEF a
<1>4. Calm(a)
  BY <1>2 DEF Calm
<1>5. Tame(s, a)
  BY <1>2, <1>4, TameFields
<1>6. Tame(s, EnterGrace(a, at)) /\ Calm(EnterGrace(a, at))
  BY <1>1, <1>5, GraceTame, TameTransitive
<1> QED  BY <1>3, <1>4, <1>5, <1>6

\* A phase is kept by what only records.
LEMMA RecordTame ==
    ASSUME NEW s \in Machines
    PROVE  /\ \A v : /\ Tame(s, [s EXCEPT !.zone = v]) /\ Tame(s, [s EXCEPT !.inhibited = v])
                     /\ Tame(s, [s EXCEPT !.owned = v]) /\ Tame(s, [s EXCEPT !.hold = v])
                     /\ Tame(s, [s EXCEPT !.pendingWake = v])
                     /\ Tame(s, [s EXCEPT !.paused = v])
                     /\ Tame(s, [s EXCEPT !.ticks = v])
                     /\ Tame(s, [s EXCEPT !.lastWake = v])
                     /\ Tame(s, [s EXCEPT !.graceFrozen = v])
                     /\ Tame(s, [s EXCEPT !.stageFrozen = v])
           /\ \A v, w : Tame(s, [s EXCEPT !.paused = v, !.ticks = w])
           /\ \A v, w : Tame(s, [s EXCEPT !.until = v, !.renderGen = w])
<1> USE DEF Machines
<1>1. ASSUME NEW v, NEW t,
             \/ t = [s EXCEPT !.zone = v] \/ t = [s EXCEPT !.inhibited = v]
             \/ t = [s EXCEPT !.owned = v] \/ t = [s EXCEPT !.hold = v]
             \/ t = [s EXCEPT !.pendingWake = v]
      PROVE  Tame(s, t)
  BY <1>1, TameFields
<1>2. ASSUME NEW v, NEW t,
             \/ t = [s EXCEPT !.paused = v] \/ t = [s EXCEPT !.ticks = v]
             \/ t = [s EXCEPT !.lastWake = v] \/ t = [s EXCEPT !.graceFrozen = v]
             \/ t = [s EXCEPT !.stageFrozen = v]
      PROVE  Tame(s, t)
  BY <1>2, TameFields
<1>3. ASSUME NEW v, NEW w, NEW t,
             \/ t = [s EXCEPT !.paused = v, !.ticks = w]
             \/ t = [s EXCEPT !.until = v, !.renderGen = w]
      PROVE  Tame(s, t)
  <2>1. /\ t.phase = s.phase /\ t.tasks = s.tasks /\ t.cmdGen = s.cmdGen
        /\ t.stageGen = s.stageGen /\ t.stageTicks = s.stageTicks
        /\ t.stage = s.stage /\ t.stageDeadline = s.stageDeadline
    BY <1>3
  <2> QED  BY <2>1, TameFields
<1> QED  BY <1>1, <1>2, <1>3

\* A command numbered from the counter.
Issues(s, t) ==
    /\ t.cmdGen = NextGen(s.cmdGen)
    /\ \E k \in {"blank", "wake"} : t.tasks = Superseding(s.tasks, Task(k, t.cmdGen))
    /\ t.stageGen = s.stageGen /\ t.stageTicks = s.stageTicks

LEMMA IssuesRoom ==
    ASSUME NEW s \in Machines, NEW t, Issues(s, t), Differ(s.tasks), Room(s)
    PROVE  /\ Differ(t.tasks)
           /\ Rooms(s) => Room(t)
           /\ StageRoom(s) => StageRoom(t)
<1> DEFINE g == NextGen(s.cmdGen)
<1>1. PICK k \in {"blank", "wake"} : t.tasks = Superseding(s.tasks, Task(k, g))
  BY DEF Issues
<1>2. g \in Gens /\ NextGen(g) # g
  <2>1. s.cmdGen \in Gens
    BY DEF Machines
  <2> QED  BY <2>1, GenAssumption DEF NextGen, Gens
<1>3. Task(k, g) \in Tasks /\ Task(k, g).kind = k /\ Task(k, g).gen = g
  BY <1>2, TaskType, TaskFields DEF TaskKinds
<1>4. s.tasks \in SUBSET Tasks
  BY DEF Machines
<1>5. Room(s) <=> NoCommand(s.tasks, g)
  BY DEF Room
<1>6. t.cmdGen = g
  BY DEF Issues
<1> HIDE DEF g
<1>7. Differ(t.tasks)
  BY <1>1, <1>3, <1>4, <1>5, SupersedingDiffer
<1>8. ASSUME NEW v \in t.tasks
      PROVE  v = Task(k, g) \/ \E u \in s.tasks : v.kind = u.kind /\ v.gen = u.gen
  <2>1. v = Task(k, g)
        \/ \E u \in s.tasks : v = IF u.kind = "wake" THEN [u EXCEPT !.superseded = TRUE] ELSE u
    BY <1>1 DEF Superseding
  <2>2. ASSUME NEW u \in s.tasks
        PROVE  /\ [u EXCEPT !.superseded = TRUE].kind = u.kind
               /\ [u EXCEPT !.superseded = TRUE].gen = u.gen
    BY <1>4 DEF Tasks
  <2> QED  BY <2>1, <2>2
<1>9. Rooms(s) => Room(t)
  <2>1. SUFFICES ASSUME Rooms(s), NEW v \in t.tasks, v.kind \in {"blank", "wake"}
                 PROVE  v.gen # NextGen(g)
    BY <1>6 DEF Room, NoCommand
  <2>2. NoCommand(s.tasks, NextGen(g))
    BY <2>1 DEF Rooms, g
  <2> QED  BY <1>2, <1>3, <1>8, <2>1, <2>2 DEF NoCommand
<1>10. StageRoom(s) => StageRoom(t)
  <2>1. ASSUME StageRoom(s), NEW v \in t.tasks, v.kind = "show"
        PROVE  v.gen # NextGen(s.stageGen)
    <3>1. v # Task(k, g)
      BY <1>3, <2>1
    <3> QED  BY <1>8, <2>1, <3>1 DEF StageRoom
  <2> QED  BY <2>1 DEF StageRoom, Issues
<1> QED  BY <1>7, <1>9, <1>10

LEMMA IssueBlankIssues ==
    ASSUME NEW s \in Machines
    PROVE  Issues(s, IssueBlank(s)) /\ IssueBlank(s).phase = "blanking"
<1> DEFINE g == NextGen(s.cmdGen)
           ts == Superseding(s.tasks, Task("blank", g))
           t == [s EXCEPT !.cmdGen = g, !.blankGen = g, !.phase = "blanking", !.tasks = ts]
<1>1. IssueBlank(s) = t
  BY DEF IssueBlank
<1>2. g = NextGen(s.cmdGen) /\ ts = Superseding(s.tasks, Task("blank", g))
  OBVIOUS
<1> HIDE DEF g, ts
<1>3. /\ t.phase = "blanking" /\ t.cmdGen = g /\ t.tasks = ts
      /\ t.stageGen = s.stageGen /\ t.stageTicks = s.stageTicks
  BY DEF Machines
<1> QED  BY <1>1, <1>2, <1>3 DEF Issues

LEMMA IssueWakeIssues ==
    ASSUME NEW s \in Machines, NEW at \in Int
    PROVE  Issues(s, IssueWake(s, at)) /\ Calm(IssueWake(s, at))
<1> DEFINE g == NextGen(s.cmdGen)
           ts == Superseding(s.tasks, Task("wake", g))
           w == s.ticks \cup {at + RetryInterval}
           t == [s EXCEPT !.cmdGen = g, !.wakeGen = g, !.phase = "waking",
                          !.tasks = ts, !.ticks = w]
<1>1. IssueWake(s, at) = t
  BY DEF IssueWake
<1>2. g = NextGen(s.cmdGen) /\ ts = Superseding(s.tasks, Task("wake", g))
  OBVIOUS
<1> HIDE DEF g, ts, w
<1>3. /\ t.phase = "waking" /\ t.cmdGen = g /\ t.tasks = ts
      /\ t.stageGen = s.stageGen /\ t.stageTicks = s.stageTicks
  BY DEF Machines
<1> QED  BY <1>1, <1>2, <1>3 DEF Issues, Calm

LEMMA IssueWakeProper ==
    ASSUME NEW s \in Machines, NEW at \in Int
    PROVE  Proper(s, IssueWake(s, at))
<1>1. Calm(IssueWake(s, at)) => Marked(IssueWake(s, at))
  BY DEF Calm, Marked
<1> QED  BY <1>1, IssueWakeIssues, IssuesRoom DEF Proper, Ready

LEMMA TeardownTame ==
    ASSUME NEW s \in Machines, NEW at \in Int
    PROVE  /\ Tame(s, SpawnTeardown(s))
           /\ Tame(s, TeardownRender(s, at)) /\ Calm(TeardownRender(s, at))
<1> DEFINE k == Task("teardown", s.stageGen)
           t == SpawnTeardown(s)
<1>1. k.kind = "teardown"
  BY TaskFields
<1>2. /\ t.tasks = s.tasks \cup {k} /\ t.cmdGen = s.cmdGen /\ t.stageGen = s.stageGen
      /\ t.stageTicks = s.stageTicks /\ t.phase = s.phase /\ t.stage = s.stage
      /\ t.stageDeadline = s.stageDeadline
  BY DEF SpawnTeardown, Machines
<1>3. t \in Machines
  BY SpawnTeardownKeeps, Composition
<1> HIDE DEF k, t
<1>4. From(s.tasks, t.tasks)
  <2>1. Differ(s.tasks) => Differ(t.tasks)
    BY <1>1, <1>2, MoreDiffer DEF Rivals
  <2>2. s.tasks \in SUBSET Tasks
    BY DEF Machines
  <2>3. From(s.tasks, s.tasks)
    BY <2>2, FromFewer
  <2> QED  BY <1>1, <1>2, <2>1, <2>3 DEF From
<1>5. Tame(s, t)
  BY <1>2, <1>4 DEF Tame, Silent
<1>6. Tame(s, EnterActive(t, at)) /\ Calm(EnterActive(t, at))
  BY <1>3, <1>5, EnterActiveTame, TameTransitive
<1> QED  BY <1>5, <1>6 DEF TeardownRender, t

\* A stage is entered with a generation that no stage tick has.
LEMMA EnterLadderStageMarked ==
    ASSUME NEW s \in Machines, NEW i, NEW at \in Int, Ready(s)
    PROVE  LET t == EnterLadderStage(s, i, at) IN Differ(t.tasks) /\ Marked(t)
<1>1. CASE i \notin DOMAIN Ladder
  <2>1. EnterLadderStage(s, i, at) = EnterActive(s, at)
    BY <1>1 DEF EnterLadderStage
  <2>2. Tame(s, EnterActive(s, at)) /\ Calm(EnterActive(s, at))
    BY EnterActiveTame
  <2> QED  BY <2>1, <2>2 DEF Ready, Tame, Silent, From, Calm, Marked
<1>2. CASE i \in DOMAIN Ladder
  <2> DEFINE g == NextGen(s.stageGen)
             bare == IF IsRender(s.stage) /\ ~IsRender(i) THEN SpawnTeardown(s) ELSE s
             e == [bare EXCEPT !.stageGen = g, !.stage = i]
             show == [e EXCEPT !.phase = "render_pending", !.renderGen = g,
                               !.tasks = e.tasks \cup {Task("show", g)}]
  <2>1. bare \in Machines /\ Tame(s, bare)
    BY TeardownTame, TameReflexive, SpawnTeardownKeeps, Composition
  <2>2. Differ(bare.tasks) /\ Room(bare) /\ StageRoom(bare) /\ bare.stageGen = s.stageGen
    BY <2>1, SilentRoom DEF Ready, Tame, Silent
  <2>3. g \in Gens
    BY NextGenType DEF Machines
  <2> HIDE DEF bare
  <2>4. /\ \A k \in bare.tasks : k.kind = "show" => k.gen # g
        /\ \A k \in bare.stageTicks : k.gen # g
    BY <2>2 DEF StageRoom
  <2> HIDE DEF g
  <2>5. e \in Machines
    BY <1>2, <2>1, <2>3, Update
  <2>6. /\ e.tasks = bare.tasks /\ e.stageTicks = bare.stageTicks
        /\ e.cmdGen = bare.cmdGen /\ e.stageGen = g
    BY <2>1 DEF Machines
  <2>7. EnterLadderStage(s, i, at) \in {ShowRender(e), IssueBlank(e)}
    BY <1>2 DEF EnterLadderStage, g, bare
  <2> HIDE DEF e
  <2>8. ShowRender(e) = show
    BY <2>6 DEF ShowRender
  <2>9. /\ show.phase = "render_pending" /\ show.tasks = e.tasks \cup {Task("show", g)}
        /\ show.stageGen = g /\ show.stageTicks = bare.stageTicks
    BY <2>5, <2>6 DEF Machines
  <2> HIDE DEF show
  <2>10. Differ(show.tasks)
    <3>1. Task("show", g).kind = "show" /\ Task("show", g).gen = g
      BY TaskFields
    <3>2. \A k \in e.tasks : Rivals(k, Task("show", g)) => k.gen # g
      BY <2>4, <2>6, <3>1 DEF Rivals
    <3>3. Differ(e.tasks)
      BY <2>2, <2>6
    <3> HIDE DEF e
    <3> QED  BY <2>9, <3>1, <3>2, <3>3, MoreDiffer
  <2>11. Marked(show)
    <3>1. Live(show) = {}
      BY <2>4, <2>9 DEF Live
    <3> QED  BY <2>9, <3>1 DEF Marked
  <2>12. Differ(IssueBlank(e).tasks) /\ Marked(IssueBlank(e))
    <3>1. Issues(e, IssueBlank(e)) /\ IssueBlank(e).phase = "blanking"
      BY <2>5, IssueBlankIssues
    <3>2. Differ(e.tasks) /\ Room(e)
      BY <2>2, <2>6 DEF Room
    <3>3. Live(IssueBlank(e)) = {}
      BY <2>4, <2>6, <3>1 DEF Live, Issues
    <3> QED  BY <2>5, <3>1, <3>2, <3>3, IssuesRoom DEF Marked
  <2> QED  BY <2>7, <2>8, <2>10, <2>11, <2>12
<1> QED  BY <1>1, <1>2

LEMMA StageProper ==
    ASSUME NEW s \in Machines, NEW at \in Int
    PROVE  /\ \A i : Proper(s, EnterLadderStage(s, i, at))
           /\ Proper(s, AdvanceStage(s, at))
           /\ Proper(s, AdvanceToNextController(s, at))
<1>1. \A i : Proper(s, EnterLadderStage(s, i, at))
  BY EnterLadderStageMarked DEF Proper
<1>2. Proper(s, TeardownRender(s, at))
  BY TeardownTame, TameProper
<1> QED  BY <1>1, <1>2 DEF AdvanceStage, AdvanceToNextController

\* In a stage: its tick is the only one that is not stale.
LEMMA ArmStageTickProper ==
    ASSUME NEW s \in Machines, NEW wait \in Nat \cup {None}, NEW at \in Int,
           s.stage # None /\ Ladder[s.stage].dwell # None => wait \in Nat,
           s.phase \in {"blanked", "staged"}
    PROVE  Proper(s, ArmStageTick(s, wait, at))
<1> DEFINE g == NextGen(s.stageGen)
           due == at + Lesser(wait, Ladder[s.stage].dwell)
           off == [s EXCEPT !.stageDeadline = None]
           k == [gen |-> g, at |-> due]
           on == [s EXCEPT !.stageGen = g, !.stageDeadline = due,
                           !.stageTicks = s.stageTicks \cup {k}]
<1>1. CASE s.stage = None
  BY <1>1, TameReflexive, TameProper DEF ArmStageTick
<1>2. CASE s.stage # None /\ Ladder[s.stage].dwell = None
  <2>1. ArmStageTick(s, wait, at) = off
    BY <1>2 DEF ArmStageTick
  <2>2. /\ off.phase = s.phase /\ off.tasks = s.tasks /\ off.stage = s.stage
        /\ off.stageGen = s.stageGen /\ off.stageTicks = s.stageTicks
    BY DEF Machines
  <2> HIDE DEF off
  <2>3. Marked(s) => Marked(off)
    <3>1. Live(off) = Live(s)
      BY <2>2 DEF Live
    <3> QED  BY <1>2, <2>2, <3>1 DEF Marked
  <2> QED  BY <2>1, <2>2, <2>3 DEF Proper, Ready
<1>3. CASE s.stage # None /\ Ladder[s.stage].dwell # None
  <2>1. ArmStageTick(s, wait, at) = on
    BY <1>3 DEF ArmStageTick
  <2>2. StageRoom(s) => \A j \in s.stageTicks : j.gen # g
    BY DEF StageRoom
  <2>3. k.gen = g /\ k.at = due
    OBVIOUS
  <2> HIDE DEF g, due, k
  <2>4. /\ on.phase = s.phase /\ on.tasks = s.tasks /\ on.stage = s.stage
        /\ on.stageGen = g /\ on.stageTicks = s.stageTicks \cup {k}
        /\ on.stageDeadline = due
    BY DEF Machines
  <2> HIDE DEF on
  <2>5. StageRoom(s) => Live(on) \subseteq {k}
    BY <2>2, <2>4 DEF Live
  <2>6. StageRoom(s) => Marked(on)
    BY <1>3, <2>3, <2>4, <2>5 DEF Marked
  <2> QED  BY <2>1, <2>4, <2>6 DEF Proper, Ready
<1> QED  BY <1>1, <1>2, <1>3

LEMMA ScheduleStageTickProper ==
    ASSUME NEW s \in Machines, NEW at \in Int, s.phase \in {"blanked", "staged"}
    PROVE  Proper(s, ScheduleStageTick(s, at))
<1>1. CASE s.stage = None
  BY <1>1, TameReflexive, TameProper DEF ScheduleStageTick
<1>2. CASE s.stage # None
  <2>1. s.stage \in DOMAIN Ladder
    BY <1>2 DEF Machines
  <2>2. Ladder[s.stage].dwell \in Nat \cup {None}
    BY <2>1, Rungs
  <2> QED  BY <1>2, <2>2, ArmStageTickProper DEF ScheduleStageTick
<1> QED  BY <1>1, <1>2

LEMMA RearmStageTickProper ==
    ASSUME NEW s \in Machines, NEW at \in Int, s.phase \in {"blanked", "staged"}
    PROVE  Proper(s, RearmStageTick(s, at))
<1> DEFINE t == [s EXCEPT !.stageFrozen = None]
           wait == IF s.stageFrozen = None THEN 0 ELSE s.stageFrozen
<1>1. wait \in Nat
  BY DEF Machines
<1>2. RearmStageTick(s, at) = ArmStageTick(t, wait, at)
  BY DEF RearmStageTick
<1>3. t \in Machines /\ t.phase = s.phase
  BY DEF Machines
<1>4. Tame(s, t)
  BY RecordTame
<1> HIDE DEF t, wait
<1>5. Proper(t, ArmStageTick(t, wait, at))
  BY <1>1, <1>3, ArmStageTickProper
<1> QED  BY <1>2, <1>4, <1>5, TameProper

\* The stage is reached: until then no stage tick was alive.
LEMMA ReachedTame ==
    ASSUME NEW s \in Machines, s.phase \in {"blanking", "render_pending"},
           NEW p \in {"blanked", "staged"}
    PROVE  LET t == [s EXCEPT !.phase = p]
           IN  /\ t \in Machines /\ t.phase = p
               /\ \A u : Proper(t, u) => Proper(s, u)
<1> DEFINE t == [s EXCEPT !.phase = p]
<1>1. t \in Machines
  BY Update DEF Phases
<1>2. /\ t.phase = p /\ t.tasks = s.tasks /\ t.cmdGen = s.cmdGen
      /\ t.stageGen = s.stageGen /\ t.stageTicks = s.stageTicks
  BY DEF Machines
<1> HIDE DEF t
<1>3. Ready(s) => Ready(t)
  BY <1>2 DEF Ready, Room, StageRoom
<1>4. Marked(s) => Marked(t)
  <2>1. Live(t) = Live(s)
    BY <1>2 DEF Live
  <2> QED  BY <1>2, <2>1 DEF Marked
<1> QED  BY <1>1, <1>2, <1>3, <1>4 DEF Proper, t

LEMMA AutoResumeTame ==
    ASSUME NEW s \in Machines, NEW at \in Int
    PROVE  Tame(s, AutoResume(s, at)) /\ AutoResume(s, at) \in Machines
<1> DEFINE p == [s EXCEPT !.paused = None]
<1>1. AutoResume(s, at) \in {s, UnfreezeGrace(p, at)}
  BY DEF AutoResume
<1>2. p \in Machines /\ Tame(s, p)
  BY Update, RecordTame
<1> HIDE DEF p
<1>3. Tame(s, UnfreezeGrace(p, at)) /\ UnfreezeGrace(p, at) \in Machines
  BY <1>2, GraceTame, UnfreezeGraceKeeps, TameTransitive, Composition
<1> QED  BY <1>1, <1>3, TameReflexive

LEMMA FreezeStageTame ==
    ASSUME NEW s \in Machines, NEW at \in Int
    PROVE  Tame(s, FreezeStage(s, at))
<1>1. \E v : FreezeStage(s, at) \in {s, [s EXCEPT !.stageFrozen = v]}
  BY DEF FreezeStage
<1> QED  BY <1>1, RecordTame, TameReflexive

LEMMA OnZonePresentProper ==
    ASSUME NEW s \in Machines, NEW present \in BOOLEAN, NEW at \in Int
    PROVE  Proper(s, OnZonePresent(s, present, at))
<1> DEFINE v == IF present THEN "present" ELSE "absent"
           z == [s EXCEPT !.zone = v]
           p == [z EXCEPT !.pendingWake = @ \/ present]
           r == OnZonePresent(s, present, at)
<1>1. z \in Machines /\ Tame(s, z)
  BY Recorded, RecordTame
<1>2. s.phase \in Phases
  BY DEF Machines
<1>3. r \in {z, EnterGrace(z, at), EnterActive(z, at), p, IssueWake(z, at), TeardownRender(z, at)}
  BY <1>2 DEF OnZonePresent, Phases, RenderPhases
<1> HIDE DEF z, r
<1>4. Tame(z, z) /\ Tame(z, EnterGrace(z, at)) /\ Tame(z, EnterActive(z, at)) /\ Tame(z, p)
      /\ Tame(z, TeardownRender(z, at))
  BY <1>1, TameReflexive, GraceTame, EnterActiveTame, RecordTame, TeardownTame
<1>5. Proper(z, IssueWake(z, at))
  BY <1>1, IssueWakeProper
<1> HIDE DEF p
<1>6. Proper(z, r)
  BY <1>3, <1>4, <1>5, TameProper
<1> QED  BY <1>1, <1>6, TameProper DEF r

LEMMA GraceTickProper ==
    ASSUME NEW s \in Machines, NEW at \in Int
    PROVE  Proper(s, GraceTick(s, at))
<1> DEFINE r == AutoResume(s, at)
           w == [r EXCEPT !.ticks = @ \cup {GatesOpen(r, at)}]
<1>1. r \in Machines /\ Tame(s, r)
  BY AutoResumeTame
<1>2. GraceTick(s, at) \in {r, FreezeGrace(r, at), w, EnterLadderStage(r, 1, at)}
  BY DEF GraceTick
<1> HIDE DEF r
<1>3. Tame(r, r) /\ Tame(r, FreezeGrace(r, at)) /\ Tame(r, w)
  BY <1>1, TameReflexive, GraceTame, RecordTame
<1>4. Proper(r, EnterLadderStage(r, 1, at))
  BY <1>1, StageProper
<1> HIDE DEF w
<1>5. Proper(r, GraceTick(s, at))
  BY <1>2, <1>3, <1>4, TameProper
<1> QED  BY <1>1, <1>5, TameProper

LEMMA OnTickProper ==
    ASSUME NEW s \in Machines, NEW at \in Int
    PROVE  Proper(s, OnTick(s, at))
<1> DEFINE r == AutoResume(s, at)
<1>1. r \in Machines /\ Tame(s, r)
  BY AutoResumeTame
<1>2. OnTick(s, at) \in {r, GraceTick(s, at), IssueWake(r, at)}
  BY DEF OnTick
<1> HIDE DEF r
<1>3. Proper(s, IssueWake(r, at))
  BY <1>1, IssueWakeProper, TameProper
<1> QED  BY <1>1, <1>2, <1>3, GraceTickProper, TameProper

LEMMA OnInhibitorChangedProper ==
    ASSUME NEW s \in Machines, NEW inhibited \in BOOLEAN, NEW at \in Int
    PROVE  Proper(s, OnInhibitorChanged(s, inhibited, at))
<1> DEFINE i == [s EXCEPT !.inhibited = inhibited]
<1>0. i.phase = s.phase
  BY DEF Machines
<1>1. i \in Machines /\ Tame(s, i) /\ i.phase = s.phase
  BY <1>0, Recorded, RecordTame
<1>2. \/ OnInhibitorChanged(s, inhibited, at)
            \in {i, FreezeGrace(i, at), UnfreezeGrace(i, at), FreezeStage(i, at)}
      \/ s.phase = "staged" /\ OnInhibitorChanged(s, inhibited, at) = RearmStageTick(i, at)
  BY DEF OnInhibitorChanged
<1> HIDE DEF i
<1>3. /\ Tame(i, i) /\ Tame(i, FreezeGrace(i, at)) /\ Tame(i, UnfreezeGrace(i, at))
      /\ Tame(i, FreezeStage(i, at))
  BY <1>1, TameReflexive, GraceTame, FreezeStageTame
<1>4. s.phase = "staged" => Proper(i, RearmStageTick(i, at))
  BY <1>1, RearmStageTickProper
<1>5. Proper(i, OnInhibitorChanged(s, inhibited, at))
  BY <1>2, <1>3, <1>4, TameProper
<1> QED  BY <1>1, <1>5, TameProper

LEMMA OnPauseProper ==
    ASSUME NEW s \in Machines, NEW until \in Int \cup {Forever}, NEW at \in Int
    PROVE  Proper(s, OnPause(s, until, at))
<1> DEFINE ts == IF until = Forever THEN s.ticks ELSE s.ticks \cup {until}
           p == [s EXCEPT !.paused = until, !.ticks = ts]
<1>1. ts \in SUBSET Int
  BY DEF Machines
<1>2. OnPause(s, until, at) \in {p, FreezeGrace(p, at), FreezeStage(p, at)}
  BY DEF OnPause
<1> HIDE DEF ts
<1>3. p \in Machines /\ Tame(s, p)
  BY <1>1, Update, RecordTame
<1> HIDE DEF p
<1>4. Tame(p, p) /\ Tame(p, FreezeGrace(p, at)) /\ Tame(p, FreezeStage(p, at))
  BY <1>3, TameReflexive, GraceTame, FreezeStageTame
<1>5. Tame(s, OnPause(s, until, at))
  BY <1>2, <1>3, <1>4, TameTransitive
<1> QED  BY <1>5, TameProper

LEMMA OnResumeProper ==
    ASSUME NEW s \in Machines, NEW at \in Int
    PROVE  Proper(s, OnResume(s, at))
<1> DEFINE r == [s EXCEPT !.paused = None]
<1>0. r.phase = s.phase
  BY DEF Machines
<1>1. r \in Machines /\ Tame(s, r) /\ r.phase = s.phase
  BY <1>0, Update, RecordTame
<1>2. \/ OnResume(s, at) \in {r, UnfreezeGrace(r, at)}
      \/ s.phase = "staged" /\ OnResume(s, at) = RearmStageTick(r, at)
  BY DEF OnResume
<1> HIDE DEF r
<1>3. Tame(r, r) /\ Tame(r, UnfreezeGrace(r, at))
  BY <1>1, TameReflexive, GraceTame
<1>4. s.phase = "staged" => Proper(r, RearmStageTick(r, at))
  BY <1>1, RearmStageTickProper
<1>5. Proper(r, OnResume(s, at))
  BY <1>2, <1>3, <1>4, TameProper
<1> QED  BY <1>1, <1>5, TameProper

LEMMA OnForceWakeProper ==
    ASSUME NEW s \in Machines, NEW at \in Int
    PROVE  Proper(s, OnForceWake(s, at))
<1> DEFINE g == [s EXCEPT !.graceFrozen = None]
           p == [s EXCEPT !.pendingWake = TRUE]
<1>1. g \in Machines /\ Tame(s, g)
  BY Update, RecordTame
<1>2. s.phase \in Phases
  BY DEF Machines
<1>3. OnForceWake(s, at) \in {s, EnterActive(g, at), p, IssueWake(s, at), TeardownRender(s, at)}
  BY <1>2 DEF OnForceWake, Phases, RenderPhases
<1> HIDE DEF g
<1>4. Tame(s, s) /\ Tame(s, p) /\ Tame(s, TeardownRender(s, at))
  BY TameReflexive, RecordTame, TeardownTame
<1> HIDE DEF p
<1>5. Tame(s, EnterActive(g, at))
  BY <1>1, EnterActiveTame, TameTransitive
<1> QED  BY <1>3, <1>4, <1>5, IssueWakeProper, TameProper

LEMMA OnForceBlankDiffer ==
    ASSUME NEW s \in Machines, Ready(s)
    PROVE  Differ(OnForceBlank(s).tasks)
<1> DEFINE g == [s EXCEPT !.graceFrozen = None]
           b == SpawnTeardown(s)
           t == [b EXCEPT !.stage = None]
<1>1. s.phase \in Phases
  BY DEF Machines
<1>2. OnForceBlank(s) \in {s, IssueBlank(s), IssueBlank(g), IssueBlank(t)}
  BY <1>1 DEF OnForceBlank, Phases, RenderPhases
<1>3. ASSUME NEW u \in Machines, Differ(u.tasks), Room(u)
      PROVE  Differ(IssueBlank(u).tasks)
  BY <1>3, IssueBlankIssues, IssuesRoom
<1>4. g \in Machines /\ Differ(g.tasks) /\ Room(g)
  BY Update, RecordTame, SilentRoom DEF Tame, Ready
<1>5. b \in Machines /\ Differ(b.tasks) /\ Room(b)
  BY TeardownTame, SpawnTeardownKeeps, SilentRoom, Composition DEF Tame, Ready
<1> HIDE DEF g, b
<1>6. t \in Machines /\ t.tasks = b.tasks /\ t.cmdGen = b.cmdGen
  BY <1>5 DEF Machines
<1> HIDE DEF t
<1>7. Differ(t.tasks) /\ Room(t)
  BY <1>5, <1>6 DEF Room
<1> QED  BY <1>2, <1>3, <1>4, <1>6, <1>7 DEF Ready

LEMMA OnSoftBlankProper ==
    ASSUME NEW s \in Machines, NEW at \in Int
    PROVE  Proper(s, OnSoftBlank(s, at))
<1> DEFINE g == [s EXCEPT !.graceFrozen = None]
           b == SpawnTeardown(s)
           t == [b EXCEPT !.stage = None]
<1>1. OnSoftBlank(s, at) \in {s, EnterLadderStage(s, 1, at), EnterLadderStage(g, 1, at),
                              EnterLadderStage(t, 1, at)}
  BY DEF OnSoftBlank
<1>2. g \in Machines /\ Tame(s, g)
  BY Update, RecordTame
<1>3. b \in Machines /\ Tame(s, b)
  BY TeardownTame, SpawnTeardownKeeps, Composition
<1> HIDE DEF g, b
<1>4. t \in Machines
  BY <1>3, Update
<1>5. t.tasks = b.tasks /\ t.cmdGen = b.cmdGen /\ t.stageGen = b.stageGen
      /\ t.stageTicks = b.stageTicks
  BY <1>3 DEF Machines
<1> HIDE DEF t
<1>6. Ready(s) => Ready(t)
  <2>1. Ready(s) => Ready(b)
    BY <1>3, SilentRoom DEF Tame, Ready
  <2> QED  BY <1>5, <2>1 DEF Ready, Room, StageRoom
<1>7. Proper(s, EnterLadderStage(t, 1, at))
  BY <1>4, <1>6, EnterLadderStageMarked DEF Proper
<1> QED  BY <1>1, <1>2, <1>7, StageProper, TameReflexive, TameProper

LEMMA OnStageTickProper ==
    ASSUME NEW s \in Machines, NEW gen \in Gens, NEW at \in Int
    PROVE  Proper(s, OnStageTick(s, gen, at))
<1>1. OnStageTick(s, gen, at) \in {s, AdvanceStage(s, at)}
  BY DEF OnStageTick
<1> QED  BY <1>1, StageProper, TameReflexive, TameProper

\* The verdict of the gate is fed before an input is handled: it may use one
\* generation for a wake, and leaves one for the handler.
LEMMA FedReady ==
    ASSUME NEW s \in Machines, NEW at \in Int,
           Differ(s.tasks), Rooms(s), StageRoom(s), owns \in BOOLEAN
    PROVE  LET t == Fed(s, at) IN Ready(t) /\ (Marked(s) => Marked(t))
<1> DEFINE Fair(t) == Ready(t) /\ (Marked(s) => Marked(t))
<1>1. ASSUME NEW t \in Machines, Tame(s, t)
      PROVE  /\ Fair(t)
             /\ Fair(IssueWake(t, at))
  <2>1. /\ Differ(t.tasks) /\ Rooms(t) /\ Room(t) /\ StageRoom(t)
        /\ Marked(s) => Marked(t)
    BY <1>1, SilentRoom, TameMarked DEF Tame, Rooms
  <2>2. Fair(t)
    BY <2>1 DEF Ready
  <2>3. Ready(IssueWake(t, at))
    BY <1>1, <2>1, IssueWakeIssues, IssuesRoom DEF Ready
  <2>4. Marked(IssueWake(t, at))
    BY <1>1, IssueWakeIssues DEF Calm, Marked
  <2> QED  BY <2>2, <2>3, <2>4
<1>2. CASE owns = s.owned \/ (s.owned /\ claimed)
  <2>1. Fed(s, at) = s  BY <1>2 DEF Fed, Machines
  <2> QED  BY <1>1, <2>1, TameReflexive
<1>3. CASE owns /\ ~s.owned
  <2> DEFINE o == [s EXCEPT !.owned = TRUE]
             calls == o.zone = "present" \/ Overlaid(o)
             p == [o EXCEPT !.pendingWake = @ \/ calls]
             g == [o EXCEPT !.ticks = @ \cup {o.until}]
             t == TeardownRender(o, at)
  <2>1. o \in Machines /\ Tame(s, o)
    BY Recorded, RecordTame
  <2>2. o.phase \in Phases
    BY <2>1 DEF Machines
  <2>3. o.phase = s.phase
    BY DEF Machines
  <2>4. Fed(s, at) = OnOwnershipGained(s, at)
    BY <1>3 DEF Fed
  <2>5. OnOwnershipGained(s, at) \in {o, g, p, IssueWake(o, at), IssueWake(t, at)}
    BY <2>2, <2>3 DEF OnOwnershipGained, GainGrace, Phases, RenderPhases
  <2> HIDE DEF o, calls
  <2>6. Tame(s, p) /\ Tame(s, g)
    BY <2>1, RecordTame, TameTransitive
  <2>7. p \in Machines
    <3>1. (o.pendingWake \/ calls) \in BOOLEAN
      OBVIOUS
    <3> HIDE DEF calls
    <3> QED  BY <2>1, <3>1, Recorded
  <2>8. g \in Machines
    <3>1. o.ticks \cup {o.until} \in SUBSET Int
      BY <2>1 DEF Machines
    <3> QED  BY <2>1, <3>1, Update
  <2>9. t \in Machines /\ Tame(s, t)
    BY <2>1, TeardownTame, TameTransitive, TeardownRenderLands, Composition
  <2> HIDE DEF p, g, t, Fair
  <2> QED  BY <1>1, <2>1, <2>4, <2>5, <2>6, <2>7, <2>8, <2>9 DEF Fair
<1>4. CASE ~owns /\ s.owned /\ ~claimed
  <2> DEFINE y == [s EXCEPT !.owned = FALSE]
  <2>1. y \in Machines /\ Tame(s, y)
    BY Recorded, RecordTame
  <2>2. Fed(s, at) \in {y, EnterActive(y, at), TeardownRender(y, at)}
    BY <1>4 DEF Fed, OnOwnershipLost
  <2> HIDE DEF y
  <2>3. /\ EnterActive(y, at) \in Machines /\ Tame(s, EnterActive(y, at))
        /\ TeardownRender(y, at) \in Machines /\ Tame(s, TeardownRender(y, at))
    <3>1. Tame(s, EnterActive(y, at)) /\ Tame(s, TeardownRender(y, at))
      BY <2>1, TeardownTame, EnterActiveTame, TameTransitive
    <3>2. EnterActive(y, at) \in Machines /\ TeardownRender(y, at) \in Machines
      BY <2>1, EnterActiveLands, TeardownRenderLands, Composition
    <3> QED  BY <3>1, <3>2
  <2> QED  BY <1>1, <2>1, <2>2, <2>3
<1>5. s.owned \in BOOLEAN
  BY DEF Machines
<1> QED  BY <1>2, <1>3, <1>4, <1>5

\* Results.
LEMMA ResultsProper ==
    ASSUME NEW s \in Machines, NEW gen \in Gens, NEW ok \in BOOLEAN, NEW at \in Int
    PROVE  /\ Proper(s, OnBlankResult(s, gen, ok, at))
           /\ Proper(s, OnWakeResult(s, gen, ok, at))
           /\ Proper(s, OnRenderResult(s, gen, ok, at))
<1>1. Proper(s, s)
  BY TameReflexive, TameProper
<1>2. Proper(s, OnBlankResult(s, gen, ok, at))
  <2> DEFINE b == [s EXCEPT !.pendingWake = FALSE]
             c == [b EXCEPT !.phase = "blanked"]
             r == OnBlankResult(s, gen, ok, at)
  <2>1. b \in Machines /\ Tame(s, b)
    BY Recorded, RecordTame
  <2>2. b.phase = s.phase
    BY DEF Machines
  <2>3. \/ r = s
        \/ s.phase = "blanking"
           /\ r \in {IssueWake(b, at), ScheduleStageTick(c, at), EnterGrace(b, at), EnterActive(b, at)}
    BY DEF OnBlankResult
  <2> HIDE DEF b, r
  <2>4. /\ Proper(b, IssueWake(b, at)) /\ Proper(b, EnterGrace(b, at))
        /\ Proper(b, EnterActive(b, at))
    BY <2>1, IssueWakeProper, GraceTame, EnterActiveTame, TameProper
  <2>5. s.phase = "blanking" => Proper(b, ScheduleStageTick(c, at))
    <3>1. SUFFICES ASSUME b.phase = "blanking" PROVE Proper(b, ScheduleStageTick(c, at))
      BY <2>2
    <3>2. /\ c \in Machines /\ c.phase = "blanked"
          /\ \A u : Proper(c, u) => Proper(b, u)
      BY <2>1, <3>1, ReachedTame
    <3> HIDE DEF c
    <3> QED  BY <3>2, ScheduleStageTickProper
  <2> QED  BY <1>1, <2>1, <2>3, <2>4, <2>5, TameProper DEF r
<1>3. Proper(s, OnWakeResult(s, gen, ok, at))
  <2> DEFINE w == [s EXCEPT !.lastWake = at]
  <2>1. w \in Machines /\ Tame(s, w)
    BY Update, RecordTame
  <2>2. OnWakeResult(s, gen, ok, at) \in {s, EnterActive(w, at), IssueWake(s, at)}
    BY DEF OnWakeResult
  <2> HIDE DEF w
  <2>3. Proper(s, EnterActive(w, at))
    BY <2>1, EnterActiveTame, TameTransitive, TameProper
  <2> QED  BY <1>1, <2>2, <2>3, IssueWakeProper
<1>4. Proper(s, OnRenderResult(s, gen, ok, at))
  <2> DEFINE c == [s EXCEPT !.phase = "staged"]
             r == OnRenderResult(s, gen, ok, at)
  <2>1. \/ r \in {s, AdvanceToNextController(s, at)}
        \/ s.phase = "render_pending" /\ r = ScheduleStageTick(c, at)
    BY DEF OnRenderResult
  <2> HIDE DEF r
  <2>2. s.phase = "render_pending" => Proper(s, ScheduleStageTick(c, at))
    <3>1. SUFFICES ASSUME s.phase = "render_pending" PROVE Proper(s, ScheduleStageTick(c, at))
      OBVIOUS
    <3>2. /\ c \in Machines /\ c.phase = "staged"
          /\ \A u : Proper(c, u) => Proper(s, u)
      BY <3>1, ReachedTame
    <3> HIDE DEF c
    <3> QED  BY <3>2, ScheduleStageTickProper
  <2> QED  BY <1>1, <2>1, <2>2, StageProper DEF r
<1> QED  BY <1>2, <1>3, <1>4

-----------------------------------------------------------------------------
(* The steps of the runtime *)

Numbered == Differ(d.tasks) /\ ("force_blank" \notin Inputs => Marked(d))

LEMMA SettledTame ==
    ASSUME NEW s \in Machines
    PROVE  Tame(s, Settled(s))
BY RecordTame DEF Settled

\* A turn whose handler is proper.
LEMMA TurnNumbered ==
    ASSUME NEW f, NEW r \in Machines, Ready(f), Proper(f, r), Turn(r),
           "force_blank" \notin Inputs => Marked(f)
    PROVE  Numbered'
<1>1. d' = Settled(r)
  BY DEF Turn
<1>2. Differ(r.tasks) /\ ("force_blank" \notin Inputs => Marked(r))
  BY DEF Proper
<1>3. Tame(r, d')
  BY <1>1, SettledTame
<1> QED  BY <1>2, <1>3, SilentRoom, TameMarked DEF Tame, Numbered

LEMMA GensRoom ==
    ASSUME Inv, GensLeft
    PROVE  Rooms(d) /\ StageRoom(d)
BY DEF GensLeft, CommandTasks, Rooms, Room, NoCommand, StageRoom

\* What an input or a timer meets, after what it records of itself.
LEMMA Met ==
    ASSUME Inv, GensLeft, Numbered, NEW c \in Machines, Tame(d, c), NEW at \in Int, at <= 0
    PROVE  LET f == Fed(c, at)
           IN  /\ f \in Machines /\ Ready(f)
               /\ "force_blank" \notin Inputs => Marked(f)
<1>1. owns \in BOOLEAN
  BY DEF Inv, TypeOK
<1>2. Differ(c.tasks) /\ Rooms(c) /\ StageRoom(c)
  BY GensRoom, SilentRoom DEF Tame, Numbered
<1>3. "force_blank" \notin Inputs => Marked(c)
  BY TameMarked DEF Numbered
<1>4. Fed(c, at) \in Machines
  BY <1>1, FedKeeps, Composition
<1> QED  BY <1>1, <1>2, <1>3, <1>4, FedReady

LEMMA InputNumbered ==
    ASSUME Inv, GensLeft, Numbered, InputArrives
    PROVE  Numbered'
<1> USE DEF InputTurn
<1>1. d \in Machines /\ Tame(d, d)
  BY TameReflexive DEF Inv, TypeOK
<1>2. 0 \in Int /\ 0 <= 0
  OBVIOUS
<1> DEFINE f == Fed(d, 0)
<1>3. f \in Machines /\ Ready(f) /\ ("force_blank" \notin Inputs => Marked(f))
  BY <1>1, <1>2, Met
<1> HIDE DEF f
<1>4. ASSUME NEW r, Keeps(f, r), Proper(f, r), Turn(r)
      PROVE  Numbered'
  BY <1>3, <1>4, TurnNumbered, Composition
<1>5. ASSUME NEW present \in BOOLEAN, ZonePresent(present) PROVE Numbered'
  <2> DEFINE calm == IF present THEN [d EXCEPT !.hold = FALSE] ELSE d
             e == Fed(calm, 0)
             r == OnZonePresent(e, present, 0)
  <2>1. Turn(r)
    BY <1>5 DEF ZonePresent
  <2>2. calm \in Machines /\ Tame(d, calm)
    BY <1>1, Recorded, RecordTame
  <2> HIDE DEF calm
  <2>3. e \in Machines /\ Ready(e) /\ ("force_blank" \notin Inputs => Marked(e))
    BY <1>2, <2>2, Met
  <2> HIDE DEF e
  <2>4. r \in Machines /\ Proper(e, r)
    BY <1>2, <2>3, OnZonePresentKeeps, OnZonePresentProper, Composition
  <2> HIDE DEF r
  <2> QED  BY <2>1, <2>3, <2>4, TurnNumbered
<1>6. ASSUME NEW b \in BOOLEAN, SetInhibited(b) PROVE Numbered'
  <2>1. Turn(OnInhibitorChanged(f, b, 0))
    BY <1>6 DEF SetInhibited, f
  <2> QED  BY <1>2, <1>3, <1>4, <2>1, OnInhibitorChangedKeeps, OnInhibitorChangedProper
<1>7. ASSUME NEW until \in PauseTimes \cup {Forever}, Pause(until) PROVE Numbered'
  <2> DEFINE r == OnPause(f, until, 0)
  <2>1. Turn(r)
    BY <1>7 DEF Pause, f
  <2>2. until \in Int \cup {Forever}
    BY <1>7, RuntimeAssumption
  <2>3. r \in Machines /\ Proper(f, r)
    BY <1>2, <1>3, <2>2, OnPauseKeeps, OnPauseProper
  <2> HIDE DEF r
  <2> QED  BY <1>3, <2>1, <2>3, TurnNumbered
<1>8. CASE Resume
  <2>1. Turn(OnResume(f, 0))
    BY <1>8 DEF Resume, f
  <2> QED  BY <1>2, <1>3, <1>4, <2>1, OnResumeKeeps, OnResumeProper
<1>9. CASE ForceBlank
  <2> DEFINE r == OnForceBlank(f)
  <2>1. Turn(r) /\ "force_blank" \in Inputs
    BY <1>9 DEF ForceBlank, f
  <2>2. r \in Machines /\ Proper(f, r)
    BY <1>3, <2>1, OnForceBlankKeeps, OnForceBlankDiffer, Composition DEF Proper
  <2> HIDE DEF r
  <2> QED  BY <1>3, <2>1, <2>2, TurnNumbered
<1>10. CASE SoftBlank
  <2>1. Turn(OnSoftBlank(f, 0))
    BY <1>10 DEF SoftBlank, f
  <2> QED  BY <1>2, <1>3, <1>4, <2>1, OnSoftBlankKeeps, OnSoftBlankProper
<1>11. CASE ForceWake
  <2>1. Turn(OnForceWake(f, 0))
    BY <1>11 DEF ForceWake, f
  <2> QED  BY <1>2, <1>3, <1>4, <2>1, OnForceWakeKeeps, OnForceWakeProper
<1>12. CASE InputWake
  <2> DEFINE held == IF d.zone = "absent" /\ InputWakeHold > 0
                     THEN [d EXCEPT !.hold = TRUE] ELSE d
             e == Fed(held, 0)
             r == OnForceWake(e, 0)
  <2>1. Turn(r)
    BY <1>12 DEF InputWake
  <2>2. held \in Machines /\ Tame(d, held)
    BY <1>1, Recorded, RecordTame
  <2> HIDE DEF held
  <2>3. e \in Machines /\ Ready(e) /\ ("force_blank" \notin Inputs => Marked(e))
    BY <1>2, <2>2, Met
  <2> HIDE DEF e
  <2>4. r \in Machines /\ Proper(e, r)
    BY <1>2, <2>3, OnForceWakeKeeps, OnForceWakeProper, Composition
  <2> HIDE DEF r
  <2> QED  BY <2>1, <2>3, <2>4, TurnNumbered
<1>13. CASE OwnershipFlips
  BY <1>13 DEF OwnershipFlips, Numbered
<1>14. CASE OwnershipPoll
  <2>1. Turn(f)
    BY <1>14 DEF OwnershipPoll, f
  <2> QED  BY <1>3, <2>1, TurnNumbered, TameReflexive, TameProper
<1>15. ASSUME NEW until \in BOOLEAN, SetClaimSuppression(until) \/ OtherTurn
       PROVE  Numbered'
  <2>1. Turn(d)
    BY <1>15 DEF SetClaimSuppression, OtherTurn
  <2>2. Ready(d)
    BY GensRoom DEF Ready, Rooms, Numbered
  <2> QED  BY <1>1, <2>1, <2>2, TurnNumbered, TameProper DEF Numbered
<1>16. CASE SuppressionLapses
  BY <1>16 DEF SuppressionLapses, Numbered
<1> QED
  BY <1>5, <1>6, <1>7, <1>8, <1>9, <1>10, <1>11, <1>12, <1>13, <1>14, <1>15, <1>16
  DEF InputArrives

LEMMA TimerNumbered ==
    ASSUME Inv, GensLeft, Numbered, TimerFires
    PROVE  Numbered'
<1>1. d \in Machines
  BY DEF Inv, TypeOK
<1>2. CASE DisplayTick
  <2>1. PICK at \in d.ticks :
            Fires(at) /\ Turn(OnTick(Fed([d EXCEPT !.ticks = @ \ {at}], at), at))
    BY <1>2 DEF DisplayTick
  <2> DEFINE s == [d EXCEPT !.ticks = d.ticks \ {at}]
             f == Fed(s, at)
             r == OnTick(f, at)
  <2>2. at \in Int /\ at <= 0 /\ d.ticks \ {at} \in SUBSET Int
    BY <1>1, <2>1 DEF Machines, Fires
  <2>3. Turn(r)
    BY <2>1
  <2>4. s \in Machines /\ Tame(d, s)
    BY <1>1, <2>2, Update, RecordTame
  <2> HIDE DEF s
  <2>5. f \in Machines /\ Ready(f) /\ ("force_blank" \notin Inputs => Marked(f))
    BY <2>2, <2>4, Met
  <2> HIDE DEF f
  <2>6. r \in Machines /\ Proper(f, r)
    BY <2>2, <2>5, OnTickKeeps, OnTickProper, Composition
  <2> HIDE DEF r
  <2> QED  BY <2>3, <2>5, <2>6, TurnNumbered
<1>3. CASE DisplayStageTick
  <2>1. PICK k \in d.stageTicks :
            /\ Fires(k.at)
            /\ Turn(OnStageTick(Fed([d EXCEPT !.stageTicks = @ \ {k}], k.at), k.gen, k.at))
    BY <1>3 DEF DisplayStageTick
  <2> DEFINE ts == d.stageTicks \ {k}
             s == [d EXCEPT !.stageTicks = ts]
             f == Fed(s, k.at)
             r == OnStageTick(f, k.gen, k.at)
  <2>2. k.at \in Int /\ k.at <= 0 /\ k.gen \in Gens /\ ts \in SUBSET [gen : Gens, at : Int]
    BY <1>1, <2>1 DEF Machines, Fires
  <2>3. Turn(r)
    BY <2>1
  <2>4. ts \subseteq d.stageTicks
    OBVIOUS
  <2> HIDE DEF ts
  <2>5. s \in Machines
    BY <1>1, <2>2, Update
  <2>6. Tame(d, s)
    <3>1. /\ s.tasks = d.tasks /\ s.cmdGen = d.cmdGen /\ s.stageGen = d.stageGen
          /\ s.stageTicks = ts /\ s.phase = d.phase /\ s.stage = d.stage
          /\ s.stageDeadline = d.stageDeadline
      BY <1>1 DEF Machines
    <3> HIDE DEF s
    <3>2. From(d.tasks, s.tasks)
      <4>1. d.tasks \in SUBSET Tasks
        BY <1>1 DEF Machines
      <4> QED  BY <3>1, <4>1, FromFewer
    <3> QED  BY <2>4, <3>1, <3>2 DEF Tame, Silent
  <2> HIDE DEF s
  <2>7. f \in Machines /\ Ready(f) /\ ("force_blank" \notin Inputs => Marked(f))
    BY <2>2, <2>5, <2>6, Met
  <2> HIDE DEF f
  <2>8. r \in Machines /\ Proper(f, r)
    BY <2>2, <2>7, OnStageTickKeeps, OnStageTickProper, Composition
  <2> HIDE DEF r
  <2> QED  BY <2>3, <2>7, <2>8, TurnNumbered
<1>4. CASE InputWakeHoldExpiry
  <2> DEFINE at == holdUntil
             c == [d EXCEPT !.hold = FALSE]
             f == Fed(c, at)
             z == OnZonePresent(f, FALSE, at)
             r == IF d.zone = "absent" THEN z ELSE f
  <2>1. Turn(r)
    BY <1>4 DEF InputWakeHoldExpiry
  <2>2. at \in Int /\ at <= 0
    BY <1>4 DEF InputWakeHoldExpiry, Fires, Inv, TypeOK
  <2> HIDE DEF at
  <2>3. c \in Machines /\ Tame(d, c)
    BY <1>1, Recorded, RecordTame
  <2> HIDE DEF c
  <2>4. f \in Machines /\ Ready(f) /\ ("force_blank" \notin Inputs => Marked(f))
    BY <2>2, <2>3, Met
  <2> HIDE DEF f
  <2>5. z \in Machines /\ Proper(f, z)
    BY <2>2, <2>4, OnZonePresentKeeps, OnZonePresentProper, Composition
  <2> HIDE DEF z
  <2>6. r \in Machines /\ Proper(f, r)
    BY <2>4, <2>5, TameReflexive, TameProper
  <2> HIDE DEF r
  <2> QED  BY <2>1, <2>4, <2>6, TurnNumbered
<1> QED  BY <1>2, <1>3, <1>4 DEF TimerFires

LEMMA TaskNumbered ==
    ASSUME Inv, GensLeft, Numbered, TaskFinishes
    PROVE  Numbered'
<1>1. d \in Machines /\ lag \in Nat
  BY DEF Inv, TypeOK
<1>2. -lag \in Int /\ -lag <= 0
  BY <1>1
<1>3. d.tasks \in SUBSET Tasks
  BY <1>1 DEF Machines
<1>4. ASSUME NEW ts \in SUBSET Tasks
      PROVE  LET t == [d EXCEPT !.tasks = ts]
             IN  /\ t \in Machines
                 /\ From(d.tasks, ts) => Tame(d, t)
  <2> DEFINE t == [d EXCEPT !.tasks = ts]
  <2>1. /\ t.tasks = ts /\ t.cmdGen = d.cmdGen /\ t.stageGen = d.stageGen
        /\ t.stageTicks = d.stageTicks /\ t.phase = d.phase /\ t.stage = d.stage
        /\ t.stageDeadline = d.stageDeadline
    BY <1>1 DEF Machines
  <2>2. t \in Machines
    BY <1>1, Update
  <2> HIDE DEF t
  <2> QED  BY <2>1, <2>2 DEF Tame, Silent, t
<1> PICK k \in d.tasks :
        \/ \E ok \in BOOLEAN :
                BlankFinishes(k, ok) \/ WakeFinishes(k, ok) \/ ShowFinishes(k, ok)
        \/ TeardownFinishes(k)
  BY DEF TaskFinishes
<1>5. k \in Tasks /\ k.gen \in Gens
  BY <1>3 DEF Tasks
<1>6. CASE TeardownFinishes(k)
  <2>1. PICK shows \in SUBSET {u \in d.tasks : u.kind = "show"} :
            d' = [d EXCEPT !.tasks = (d.tasks \ (shows \cup {k}))
                            \cup {[u EXCEPT !.superseded = TRUE] : u \in shows}]
    BY <1>6 DEF TeardownFinishes
  <2> DEFINE g == [u \in d.tasks |-> IF u \in shows THEN [u EXCEPT !.superseded = TRUE] ELSE u]
             ts == (d.tasks \ (shows \cup {k})) \cup {[u EXCEPT !.superseded = TRUE] : u \in shows}
             t == [d EXCEPT !.tasks = ts]
  <2>2. ASSUME NEW u \in d.tasks
        PROVE  /\ [u EXCEPT !.superseded = TRUE] \in Tasks
               /\ [u EXCEPT !.superseded = TRUE].kind = u.kind
               /\ [u EXCEPT !.superseded = TRUE].gen = u.gen
    BY <1>3 DEF Tasks
  <2>3. ts \in SUBSET Tasks
    BY <1>3, <2>2
  <2>4. ASSUME NEW v \in ts
        PROVE  \E u \in d.tasks : v = g[u] /\ v.kind = u.kind /\ v.gen = u.gen
    <3>1. CASE \E u \in shows : v = [u EXCEPT !.superseded = TRUE]
      <4>1. PICK u \in shows : v = [u EXCEPT !.superseded = TRUE]
        BY <3>1
      <4>2. u \in d.tasks /\ v = g[u]
        BY <4>1
      <4> QED  BY <2>2, <4>1, <4>2
    <3>2. CASE v \in d.tasks \ (shows \cup {k})
      BY <3>2
    <3> QED  BY <3>1, <3>2
  <2>5. \A u \in d.tasks : u.kind \in TaskKinds
    BY <1>3 DEF Tasks
  <2>6. d' = t
    BY <2>1
  <2> HIDE DEF g, ts
  <2>7. From(d.tasks, ts)
    BY <2>4, <2>5, FromMapped
  <2>8. Tame(d, t)
    BY <1>4, <2>3, <2>7
  <2> HIDE DEF t
  <2> QED  BY <2>6, <2>8, SilentRoom, TameMarked DEF Tame, Numbered
<1>7. CASE \E ok \in BOOLEAN :
              BlankFinishes(k, ok) \/ WakeFinishes(k, ok) \/ ShowFinishes(k, ok)
  <2> PICK ok \in BOOLEAN : BlankFinishes(k, ok) \/ WakeFinishes(k, ok) \/ ShowFinishes(k, ok)
    BY <1>7
  <2> DEFINE t == [d EXCEPT !.tasks = d.tasks \ {k}]
             blank == OnBlankResult(t, k.gen, ok, -lag)
             wake == OnWakeResult(t, k.gen, ok, -lag)
             show == OnRenderResult(t, k.gen, ok, -lag)
  <2>1. \/ k.kind = "blank" /\ Turn(blank)
        \/ k.kind = "wake" /\ Turn(wake)
        \/ k.kind = "show" /\ Turn(show)
    BY DEF BlankFinishes, WakeFinishes, ShowFinishes, Finishes, Without
  <2>2. /\ k.kind = "blank" => blank \in Machines
        /\ k.kind = "wake" => wake \in Machines
        /\ k.kind = "show" => show \in Machines
    BY <1>1, <1>2, BlankResultKeeps, WakeResultKeeps, RenderResultKeeps, Composition
  <2>3. t \in Machines /\ Tame(d, t)
    <3>1. d.tasks \ {k} \in SUBSET Tasks /\ From(d.tasks, d.tasks \ {k})
      BY <1>3, FromFewer
    <3> QED  BY <1>4, <3>1
  <2> HIDE DEF t
  <2>4. Ready(t) /\ ("force_blank" \notin Inputs => Marked(t))
    BY <2>3, GensRoom, SilentRoom, TameMarked DEF Tame, Ready, Rooms, Numbered
  <2>5. Proper(t, blank) /\ Proper(t, wake) /\ Proper(t, show)
    BY <1>2, <1>5, <2>3, ResultsProper
  <2> HIDE DEF blank, wake, show
  <2> QED  BY <2>1, <2>2, <2>4, <2>5, TurnNumbered
<1> QED  BY <1>6, <1>7

\* A unit of time leaves the generations, and the live tick at its deadline.
LEMMA TimeNumbered ==
    ASSUME Inv, Numbered, TimePasses
    PROVE  Numbered'
<1>1. d \in Machines /\ Past \in Nat
  BY RuntimeAssumption DEF Inv, TypeOK
<1> DEFINE un == IF d.phase = "grace" THEN Earlier(d.until) ELSE d.until
           pa == EarlierOpt(d.paused)
           sd == EarlierOpt(d.stageDeadline)
           lw == EarlierOpt(d.lastWake)
           sa == Earlier(d.startedAt)
           tk == {t - 1 : t \in d.ticks}
           st == {[t EXCEPT !.at = t.at - 1] : t \in d.stageTicks}
           ta == {[t EXCEPT !.age = t.age + 1] : t \in d.tasks}
           g  == [t \in d.tasks |-> [t EXCEPT !.age = t.age + 1]]
           r  == [d EXCEPT !.until = un, !.paused = pa, !.stageDeadline = sd,
                           !.lastWake = lw, !.startedAt = sa,
                           !.ticks = tk, !.stageTicks = st, !.tasks = ta]
<1>2. d' = r
  BY DEF TimePasses, Older
<1>3. ASSUME NEW v \in ta
      PROVE  \E t \in d.tasks : v = g[t] /\ v.kind = t.kind /\ v.gen = t.gen
  <2>1. PICK t \in d.tasks : v = [t EXCEPT !.age = t.age + 1]
    OBVIOUS
  <2>2. t \in Tasks
    BY <1>1 DEF Machines
  <2>3. v.kind = t.kind /\ v.gen = t.gen
    BY <2>1, <2>2 DEF Tasks
  <2> QED  BY <2>1, <2>3
<1>4. \A t \in d.tasks : t.kind \in TaskKinds
  BY <1>1 DEF Machines, Tasks
<1>5. ASSUME NEW k \in st
      PROVE  \E t \in d.stageTicks : k.gen = t.gen /\ k.at = t.at - 1 /\ t.at \in Int /\ t.at > 0
  <2>1. PICK t \in d.stageTicks : k = [t EXCEPT !.at = t.at - 1]
    OBVIOUS
  <2>2. t \in [gen : Gens, at : Int]
    BY <1>1 DEF Machines
  <2>3. t.at > 0
    BY DEF TimePasses, Deadlines
  <2> QED  BY <2>1, <2>2, <2>3
<1>6. \A at \in Int : at > 0 /\ d.stageDeadline = at => sd = at - 1
  BY <1>1, Options DEF EarlierOpt, Earlier
<1> HIDE DEF un, pa, sd, lw, sa, tk, st, ta, g
<1>7. Differ(d.tasks) => Differ(ta)
  BY <1>3, <1>4, FromMapped DEF From
<1>8. /\ r.tasks = ta /\ r.phase = d.phase /\ r.stage = d.stage /\ r.stageGen = d.stageGen
      /\ r.stageTicks = st /\ r.stageDeadline = sd
  BY <1>1 DEF Machines
<1> HIDE DEF r
<1>9. ASSUME NEW k \in Live(r)
      PROVE  \E t \in Live(d) : k.at = t.at - 1 /\ t.at \in Int /\ t.at > 0
  BY <1>5, <1>8 DEF Live
<1>10. Marked(d) => Marked(r)
  <2>1. Live(d) = {} => Live(r) = {}
    BY <1>9
  <2>2. (\A t \in Live(d) : t.at = d.stageDeadline) => \A k \in Live(r) : k.at = sd
    BY <1>6, <1>9
  <2> QED  BY <1>8, <2>1, <2>2 DEF Marked
<1> QED  BY <1>2, <1>7, <1>8, <1>10 DEF Numbered

LEMMA InitNumbered == Init => Numbered
<1> SUFFICES ASSUME Init PROVE Numbered  OBVIOUS
<1>1. New \in Machines
  <2>1. 0 \in Gens /\ 0 \in Int
    BY GenAssumption DEF Gens
  <2> QED  BY <2>1 DEF New, Machines, Phases
<1>2. New.tasks = {} /\ New.stageTicks = {}
  BY DEF New
<1>3. \A p, c, ts : LET r == [New EXCEPT !.phase = p, !.cmdGen = c, !.ticks = ts]
                    IN  r.tasks = {} /\ r.stageTicks = {}
  BY <1>1, <1>2 DEF Machines
<1>4. d.tasks = {} /\ d.stageTicks = {}
  <2>1. CASE d = New
    BY <1>2, <2>1
  <2>2. CASE d = [New EXCEPT !.ticks = {RetryInterval}]
    BY <1>1, <1>2, <2>2 DEF Machines
  <2>3. ASSUME NEW p \in {"blanked", "waking"}, d = Restored(p, 0)
        PROVE  d.tasks = {} /\ d.stageTicks = {}
    BY <1>3, <2>3 DEF Restored
  <2> QED  BY <2>1, <2>2, <2>3 DEF Init
<1> QED  BY <1>4 DEF Numbered, Differ, Marked, Live

LEMMA NextNumbered == Inv /\ GensLeft /\ Numbered /\ [Next]_vars => Numbered'
<1> SUFFICES ASSUME Inv, GensLeft, Numbered, [Next]_vars PROVE Numbered'
  OBVIOUS
<1>1. CASE Next
  BY <1>1, InputNumbered, TimerNumbered, TaskNumbered, TimeNumbered DEF Next, Happens
<1>2. CASE UNCHANGED vars
  BY <1>2 DEF vars, Numbered
<1> QED  BY <1>1, <1>2

LEMMA AlwaysNumbered == Spec /\ []GensLeft => []Numbered
BY InitNumbered, NextNumbered, Invariance, PTL DEF Spec

-----------------------------------------------------------------------------

\* As long as no counter comes round to a number that is still in use: no two
\* commands in flight have the same generation, nor two shows, so a late result
\* is never taken for that of a newer command.
THEOREM ResultsAreTold == Spec /\ []GensLeft => []InFlightGensDiffer
<1>1. Numbered => InFlightGensDiffer
  BY DEF Numbered, Differ, Rivals, InFlightGensDiffer, CommandTasks
<1> QED  BY <1>1, AlwaysNumbered, PTL

\* Under the same hypothesis, and without a blank by force, which enters Blanking
\* from no stage: the stage tick that can still advance the ladder is the one
\* whose deadline the machine has recorded.
THEOREM StaleTicksAreTold ==
    ASSUME "force_blank" \notin Inputs
    PROVE  Spec /\ []GensLeft => []LiveStageTickIsRecorded
<1>1. Numbered => LiveStageTickIsRecorded
  BY DEF Numbered, Marked, Live, LiveStageTickIsRecorded
<1> QED  BY <1>1, AlwaysNumbered, PTL

-----------------------------------------------------------------------------
(***************************************************************************)
(* The Grace period is served.  Time may pass a display by: a result is    *)
(* handled as of the turn before it, and a tick as of its deadline.  So a  *)
(* countdown may start in the past, and the theorem has to show that the   *)
(* zone has been vacant since; which is so if no stage tick is behind, and *)
(* if a tick that is behind finds no panel to give back that was darkened  *)
(* before the zone became vacant.                                          *)
(***************************************************************************)

\* No one puts up a render stage by order, and no dwell is shorter than a command
\* may take.
Unhurried ==
    /\ "soft_blank" \notin Inputs
    /\ \A i \in DOMAIN Ladder : Ladder[i].dwell # None => Ladder[i].dwell >= MaxLatency

\* In x the Grace period is over, if the zone has been vacant for v.
Covers(x, v) == v = GracePeriod \/ x + v >= GracePeriod
Left(s) == IF s.graceFrozen = None THEN s.until ELSE s.graceFrozen

OnTime(s) == \A k \in s.stageTicks : k.at >= 0
Behind(s) == \E t \in s.ticks : t < 0

Served(s, v) ==
    /\ s.phase = "grace" => Covers(Left(s), v)
    /\ OnTime(s)
    /\ s.phase = "blanked" => ~Behind(s)
    /\ s.phase = "blanking" /\ Behind(s) =>
            \A t \in s.tasks : t.kind = "blank" => t.age = 0
    /\ s.phase \in RenderPhases /\ Behind(s) => s.zone = "absent" /\ v = GracePeriod

\* What a step of the machine keeps, when it is taken at the instant `at'.
Serves(s, t, v) == Served(t, v) /\ t.zone = s.zone
Since(s, at, v) == s.zone = "absent" => Covers(at + GracePeriod, v)

\* The fields that Served speaks of.
Resembles(s, t) ==
    /\ t.phase = s.phase /\ t.zone = s.zone
    /\ t.until = s.until /\ t.graceFrozen = s.graceFrozen
    /\ \A x \in t.ticks : x \in s.ticks \/ x >= 0
    /\ \A k \in t.stageTicks : k \in s.stageTicks \/ k.at >= 0
    /\ \A k \in t.tasks : k.kind = "blank" => k \in s.tasks

LEMMA ResemblesServes ==
    ASSUME NEW s \in Machines, NEW t \in Machines, NEW v, Served(s, v), Resembles(s, t)
    PROVE  Serves(s, t, v)
<1>1. Behind(t) => Behind(s)
  <2>1. ASSUME NEW x \in t.ticks, x < 0 PROVE x \in s.ticks
    <3>1. x \in Int  BY DEF Machines
    <3> QED  BY <2>1, <3>1 DEF Resembles
  <2> QED  BY <2>1 DEF Behind
<1>2. OnTime(t)  BY DEF Served, OnTime, Resembles
<1>3. /\ t.phase = s.phase /\ t.zone = s.zone /\ Left(t) = Left(s)
      /\ \A k \in t.tasks : k.kind = "blank" => k \in s.tasks
  BY DEF Resembles, Left
<1> QED  BY <1>1, <1>2, <1>3 DEF Served, Serves

LEMMA ServedCalm ==
    ASSUME NEW s, NEW v, s.phase \in {"active", "waking"}, OnTime(s)
    PROVE  Served(s, v)
BY DEF Served, RenderPhases

\* A zone that is not vacant has nothing to wait for.
LEMMA ServedAnew ==
    ASSUME NEW s, NEW v, NEW w, NEW X, Sound(s, X), Served(s, v), s.zone # "absent"
    PROVE  Served(s, w)
BY DEF Served, Sound, Loose, Ripens

LEMMA SinceNow ==
    ASSUME NEW v \in 0 .. GracePeriod, NEW at \in Int, at >= 0
    PROVE  Covers(at + GracePeriod, v)
BY Durations DEF Covers

-----------------------------------------------------------------------------
(* Helpers *)

LEMMA EnterGraceServes ==
    ASSUME NEW s \in Machines, NEW at \in Int, NEW v \in 0 .. GracePeriod,
           OnTime(s), Covers(at + GracePeriod, v)
    PROVE  Serves(s, EnterGrace(s, at), v)
<1> DEFINE u == at + GracePeriod
           i == [s EXCEPT !.phase = "grace", !.until = u, !.graceFrozen = GracePeriod]
           c == [s EXCEPT !.phase = "grace", !.until = u, !.graceFrozen = None,
                          !.ticks = @ \cup {u}]
<1>1. EnterGrace(s, at) \in {i, c}  BY DEF EnterGrace
<1>2. Covers(u, v) /\ Covers(GracePeriod, v)  BY Durations DEF Covers
<1> HIDE DEF u
<1>3. /\ i.phase = "grace" /\ i.zone = s.zone /\ i.graceFrozen = GracePeriod
      /\ i.stageTicks = s.stageTicks
  BY DEF Machines
<1>4. /\ c.phase = "grace" /\ c.zone = s.zone /\ c.graceFrozen = None /\ c.until = u
      /\ c.stageTicks = s.stageTicks
  BY DEF Machines
<1> HIDE DEF i, c
<1>5. GracePeriod # None  BY Durations, Options
<1>6. Left(i) = GracePeriod /\ Left(c) = u  BY <1>3, <1>4, <1>5 DEF Left
<1>7. OnTime(i) /\ OnTime(c)  BY <1>3, <1>4 DEF OnTime
<1>8. Served(i, v) /\ Served(c, v)
  BY <1>2, <1>3, <1>4, <1>6, <1>7 DEF Served, RenderPhases
<1> QED  BY <1>1, <1>3, <1>4, <1>8 DEF Serves

LEMMA EnterActiveServes ==
    ASSUME NEW s \in Machines, NEW at \in Int, NEW v \in 0 .. GracePeriod,
           OnTime(s), Since(s, at, v)
    PROVE  Serves(s, EnterActive(s, at), v)
<1> DEFINE a == [s EXCEPT !.phase = "active", !.graceFrozen = None,
                          !.stageFrozen = None, !.stageDeadline = None,
                          !.stage = None]
<1>1. a \in Machines  BY Update DEF Phases
<1>2. a.phase = "active" /\ a.zone = s.zone /\ a.stageTicks = s.stageTicks
  BY DEF Machines
<1>3. \/ EnterActive(s, at) = a
      \/ s.zone = "absent" /\ EnterActive(s, at) = EnterGrace(a, at)
  BY DEF EnterActive
<1> HIDE DEF a
<1>4. OnTime(a)  BY <1>2 DEF OnTime
<1>5. Served(a, v)  BY <1>2, <1>4, ServedCalm
<1>6. s.zone = "absent" => Serves(a, EnterGrace(a, at), v)
  BY <1>1, <1>4, EnterGraceServes DEF Since
<1> QED  BY <1>2, <1>3, <1>5, <1>6 DEF Serves

LEMMA IssueWakeServes ==
    ASSUME NEW s \in Machines, NEW at \in Int, NEW v, OnTime(s)
    PROVE  Serves(s, IssueWake(s, at), v)
<1> DEFINE g == NextGen(s.cmdGen)
           ts == Superseding(s.tasks, Task("wake", g))
           u == at + RetryInterval
           t == [s EXCEPT !.cmdGen = g, !.wakeGen = g, !.phase = "waking",
                          !.tasks = ts, !.ticks = @ \cup {u}]
<1>1. IssueWake(s, at) = t  BY DEF IssueWake
<1> HIDE DEF g, ts, u
<1>2. t.phase = "waking" /\ t.zone = s.zone /\ t.stageTicks = s.stageTicks
  BY DEF Machines
<1> HIDE DEF t
<1>3. OnTime(t)  BY <1>2 DEF OnTime
<1> QED  BY <1>1, <1>2, <1>3, ServedCalm DEF Serves

LEMMA IssueBlankServes ==
    ASSUME NEW s \in Machines, NEW v, OnTime(s), Idle(s)
    PROVE  Serves(s, IssueBlank(s), v)
<1> DEFINE g == NextGen(s.cmdGen)
           k == Task("blank", g)
           ts == Superseding(s.tasks, k)
           t == [s EXCEPT !.cmdGen = g, !.blankGen = g, !.phase = "blanking",
                          !.tasks = ts]
<1>1. k \in Tasks
  BY NextGenType, TaskType DEF TaskKinds, Machines
<1>2. s.tasks \in SUBSET Tasks  BY DEF Machines
<1>3. IssueBlank(s) = t  BY DEF IssueBlank
<1>4. k.age = 0  BY DEF Task
<1> HIDE DEF g, k
<1>5. \A u \in ts : u.kind = "blank" => u.age = 0
  BY <1>1, <1>2, <1>4, SupersedingKinds DEF Idle
<1> HIDE DEF ts
<1>6. /\ t.phase = "blanking" /\ t.tasks = ts /\ t.zone = s.zone
      /\ t.stageTicks = s.stageTicks
  BY DEF Machines
<1> HIDE DEF t
<1>7. OnTime(t)  BY <1>6 DEF OnTime
<1>8. Served(t, v)  BY <1>5, <1>6, <1>7 DEF Served, RenderPhases
<1> QED  BY <1>3, <1>6, <1>8 DEF Serves

LEMMA SpawnTeardownResembles ==
    ASSUME NEW s \in Machines
    PROVE  LET t == SpawnTeardown(s)
           IN  /\ t \in Machines /\ Resembles(s, t)
               /\ (OnTime(s) => OnTime(t)) /\ (Behind(t) => Behind(s))
<1> DEFINE k == Task("teardown", s.stageGen)
           t == [s EXCEPT !.tasks = @ \cup {k}]
<1>1. k.kind = "teardown"  BY TaskFields
<1>2. SpawnTeardown(s) = t  BY DEF SpawnTeardown
<1>3. SpawnTeardown(s) \in Machines  BY SpawnTeardownKeeps, Composition
<1> HIDE DEF k
<1>4. /\ t.tasks = s.tasks \cup {k} /\ t.phase = s.phase /\ t.zone = s.zone
      /\ t.until = s.until /\ t.graceFrozen = s.graceFrozen
      /\ t.ticks = s.ticks /\ t.stageTicks = s.stageTicks
  BY DEF Machines
<1> HIDE DEF t
<1>5. Resembles(s, t)  BY <1>1, <1>4 DEF Resembles
<1> QED  BY <1>2, <1>3, <1>4, <1>5 DEF OnTime, Behind

LEMMA TeardownRenderServes ==
    ASSUME NEW s \in Machines, NEW at \in Int, NEW v \in 0 .. GracePeriod,
           OnTime(s), Since(s, at, v)
    PROVE  Serves(s, TeardownRender(s, at), v)
<1> DEFINE t == SpawnTeardown(s)
<1>1. t \in Machines /\ OnTime(t) /\ t.zone = s.zone
  BY SpawnTeardownResembles DEF Resembles
<1>2. TeardownRender(s, at) = EnterActive(t, at)  BY DEF TeardownRender
<1> HIDE DEF t
<1>3. Since(t, at, v)  BY <1>1 DEF Since
<1> QED  BY <1>1, <1>2, <1>3, EnterActiveServes DEF Serves

LEMMA EnterLadderStageServes ==
    ASSUME NEW s \in Machines, NEW i, NEW at \in Int, NEW v \in 0 .. GracePeriod,
           OnTime(s), Idle(s), Since(s, at, v),
           Behind(s) => s.zone = "absent" /\ v = GracePeriod
    PROVE  Serves(s, EnterLadderStage(s, i, at), v)
<1>1. CASE i \notin DOMAIN Ladder
  BY <1>1, EnterActiveServes DEF EnterLadderStage
<1>2. CASE i \in DOMAIN Ladder
  <2> DEFINE g == NextGen(s.stageGen)
             bare == IF IsRender(s.stage) /\ ~IsRender(i)
                     THEN SpawnTeardown(s) ELSE s
             e == [bare EXCEPT !.stageGen = g, !.stage = i]
             k == Task("show", e.stageGen)
             sh == [e EXCEPT !.phase = "render_pending", !.renderGen = e.stageGen,
                             !.tasks = @ \cup {k}]
  <2>1. g \in Gens  BY NextGenType DEF Machines
  <2>2. EnterLadderStage(s, i, at) \in {sh, IssueBlank(e)}
    BY <1>2 DEF EnterLadderStage, ShowRender
  <2>3. /\ bare \in Machines /\ Idle(bare) /\ bare.zone = s.zone /\ OnTime(bare)
        /\ Behind(bare) => Behind(s)
    BY SpawnTeardownIdle, SpawnTeardownResembles
  <2> HIDE DEF g, bare
  <2>4. e \in Machines  BY <1>2, <2>1, <2>3, Update
  <2>5. /\ e.tasks = bare.tasks /\ e.zone = s.zone
        /\ e.stageTicks = bare.stageTicks /\ e.ticks = bare.ticks
    BY <2>3 DEF Machines
  <2> HIDE DEF e, k
  <2>6. Idle(e) /\ OnTime(e) /\ (Behind(e) => Behind(s))
    BY <2>3, <2>5 DEF Idle, OnTime, Behind
  <2>7. /\ sh.phase = "render_pending" /\ sh.zone = s.zone
        /\ sh.stageTicks = e.stageTicks /\ sh.ticks = e.ticks
    BY <2>4, <2>5 DEF Machines
  <2> HIDE DEF sh
  <2>8. OnTime(sh) /\ (Behind(sh) => Behind(s))  BY <2>6, <2>7 DEF OnTime, Behind
  <2>9. Served(sh, v)  BY <2>7, <2>8 DEF Served
  <2>10. Serves(e, IssueBlank(e), v)  BY <2>4, <2>6, IssueBlankServes
  <2> QED  BY <2>2, <2>5, <2>7, <2>9, <2>10 DEF Serves
<1> QED  BY <1>1, <1>2

LEMMA AdvanceServes ==
    ASSUME NEW s \in Machines, NEW at \in Int, NEW v \in 0 .. GracePeriod,
           OnTime(s), Idle(s), Since(s, at, v),
           Behind(s) => s.zone = "absent" /\ v = GracePeriod
    PROVE  /\ Serves(s, AdvanceStage(s, at), v)
           /\ Serves(s, AdvanceToNextController(s, at), v)
BY EnterLadderStageServes, TeardownRenderServes DEF AdvanceStage, AdvanceToNextController

\* A dwell that is no shorter than the delay ends in the future.
LEMMA ArmStageTickServes ==
    ASSUME NEW s \in Machines, NEW wait \in Nat \cup {None}, NEW at \in Int, NEW v, Served(s, v),
           s.stage # None /\ Ladder[s.stage].dwell # None =>
                at + Lesser(wait, Ladder[s.stage].dwell) >= 0,
           ArmStageTick(s, wait, at) \in Machines
    PROVE  Serves(s, ArmStageTick(s, wait, at), v)
<1> DEFINE g == NextGen(s.stageGen)
           due == at + Lesser(wait, Ladder[s.stage].dwell)
           off == [s EXCEPT !.stageDeadline = None]
           on == [s EXCEPT !.stageGen = g, !.stageDeadline = due,
                           !.stageTicks = @ \cup {[gen |-> g, at |-> due]}]
<1>1. \/ ArmStageTick(s, wait, at) \in {s, off}
      \/ due >= 0 /\ ArmStageTick(s, wait, at) = on
  BY DEF ArmStageTick
<1>2. Resembles(s, s) /\ Resembles(s, off)  BY DEF Machines, Resembles
<1> HIDE DEF g, due
<1>3. due >= 0 => Resembles(s, on)  BY DEF Machines, Resembles
<1> HIDE DEF off, on
<1> QED  BY <1>1, <1>2, <1>3, ResemblesServes

LEMMA ScheduleStageTickServes ==
    ASSUME Unhurried, NEW s \in Machines, NEW at \in Int, at <= 0, at >= -MaxLatency, NEW v,
           Served(s, v)
    PROVE  Serves(s, ScheduleStageTick(s, at), v)
<1>1. CASE s.stage = None
  BY <1>1 DEF ScheduleStageTick, Serves
<1>2. CASE s.stage # None
  <2> DEFINE wait == Ladder[s.stage].dwell
  <2>1. s.stage \in DOMAIN Ladder  BY <1>2 DEF Machines
  <2>2. wait \in Nat \cup {None} /\ MaxLatency \in Nat
    BY <2>1, Rungs, RuntimeAssumption
  <2>3. wait # None => at + Lesser(wait, wait) >= 0
    BY <2>1, <2>2 DEF Unhurried, Lesser
  <2>4. ScheduleStageTick(s, at) = ArmStageTick(s, wait, at)
    BY <1>2 DEF ScheduleStageTick
  <2>5. ScheduleStageTick(s, at) \in Machines
    BY ScheduleStageTickKeeps, Composition
  <2> QED  BY <2>2, <2>3, <2>4, <2>5, ArmStageTickServes
<1> QED  BY <1>1, <1>2

LEMMA StageServes ==
    ASSUME NEW s \in Machines, NEW v, Served(s, v)
    PROVE  Serves(s, RearmStageTick(s, 0), v) /\ Serves(s, FreezeStage(s, 0), v)
<1> DEFINE t == [s EXCEPT !.stageFrozen = None]
           wait == IF s.stageFrozen = None THEN 0 ELSE s.stageFrozen
           p == IF s.stageDeadline = None THEN 0 ELSE Positive(s.stageDeadline - 0)
           f == [s EXCEPT !.stageFrozen = p]
<1>1. t \in Machines  BY Update
<1>2. Resembles(s, t) /\ t.stage = s.stage  BY DEF Machines, Resembles
<1>3. wait \in Nat  BY DEF Machines
<1>4. RearmStageTick(s, 0) = ArmStageTick(t, wait, 0)  BY DEF RearmStageTick
<1>5. RearmStageTick(s, 0) \in Machines  BY RearmStageTickKeeps, Composition
<1> HIDE DEF t, wait
<1>6. Served(t, v) /\ t.zone = s.zone  BY <1>1, <1>2, ResemblesServes DEF Serves
<1>7. t.stage # None /\ Ladder[t.stage].dwell # None =>
            0 + Lesser(wait, Ladder[t.stage].dwell) >= 0
  <2>1. t.stage # None => t.stage \in DOMAIN Ladder  BY <1>1 DEF Machines
  <2> QED  BY <1>3, <2>1, Rungs DEF Lesser
<1>8. Serves(t, RearmStageTick(s, 0), v)
  BY <1>1, <1>3, <1>4, <1>5, <1>6, <1>7, ArmStageTickServes
<1>9. FreezeStage(s, 0) \in {s, f}  BY DEF FreezeStage
<1>10. FreezeStage(s, 0) \in Machines  BY FreezeStageKeeps, Composition
<1> HIDE DEF p
<1>11. Resembles(s, s) /\ Resembles(s, f)  BY DEF Machines, Resembles
<1>12. Serves(s, FreezeStage(s, 0), v)
  BY <1>9, <1>10, <1>11, ResemblesServes
<1> QED  BY <1>6, <1>8, <1>12 DEF Serves

\* What is frozen is what is left, or more if time has passed the display by.
LEMMA FreezeGraceServes ==
    ASSUME NEW s \in Machines, NEW at \in Int, at <= 0, NEW v \in 0 .. GracePeriod,
           Served(s, v), s.phase = "grace"
    PROVE  Serves(s, FreezeGrace(s, at), v)
<1> DEFINE p == Positive(s.until - at)
           t == [s EXCEPT !.graceFrozen = p]
<1>1. s.until \in Int  BY DEF Machines
<1>2. p \in Nat /\ p >= s.until /\ p # None
  BY <1>1, Options DEF Positive
<1>3. CASE s.graceFrozen # None
  BY <1>3 DEF FreezeGrace, Serves
<1>4. CASE s.graceFrozen = None
  <2>1. FreezeGrace(s, at) = t  BY <1>4 DEF FreezeGrace
  <2>2. Covers(s.until, v)  BY <1>4 DEF Served, Left
  <2> HIDE DEF p
  <2>3. Covers(p, v)  BY <1>1, <1>2, <2>2, Durations DEF Covers
  <2>4. /\ t.phase = "grace" /\ t.zone = s.zone /\ t.graceFrozen = p
        /\ t.stageTicks = s.stageTicks
    BY DEF Machines
  <2> HIDE DEF t
  <2>5. Left(t) = p  BY <1>2, <2>4 DEF Left
  <2>6. OnTime(t)  BY <2>4 DEF Served, OnTime
  <2>7. Served(t, v)  BY <2>3, <2>4, <2>5, <2>6 DEF Served, RenderPhases
  <2> QED  BY <2>1, <2>4, <2>7 DEF Serves
<1> QED  BY <1>3, <1>4

\* A countdown goes on from the present.
LEMMA UnfreezeGraceServes ==
    ASSUME NEW s \in Machines, NEW v, Served(s, v), s.phase = "grace"
    PROVE  Serves(s, UnfreezeGrace(s, 0), v)
<1>1. CASE s.graceFrozen = None \/ Overlaid(s)
  BY <1>1 DEF UnfreezeGrace, Serves
<1>2. CASE ~(s.graceFrozen = None \/ Overlaid(s))
  <2> DEFINE u == 0 + s.graceFrozen
             t == [s EXCEPT !.graceFrozen = None, !.phase = "grace",
                            !.until = u, !.ticks = @ \cup {u}]
  <2>1. u = s.graceFrozen  BY <1>2 DEF Machines
  <2>2. UnfreezeGrace(s, 0) = t  BY <1>2 DEF UnfreezeGrace
  <2> HIDE DEF u
  <2>3. /\ t.phase = "grace" /\ t.zone = s.zone /\ t.graceFrozen = None /\ t.until = u
        /\ t.stageTicks = s.stageTicks
    BY DEF Machines
  <2> HIDE DEF t
  <2>4. Left(t) = Left(s)  BY <1>2, <2>1, <2>3 DEF Left
  <2>5. OnTime(t)  BY <2>3 DEF Served, OnTime
  <2>6. Served(t, v)  BY <2>3, <2>4, <2>5 DEF Served, RenderPhases
  <2> QED  BY <2>2, <2>3, <2>6 DEF Serves
<1> QED  BY <1>1, <1>2

\* A pause ends at its deadline, if it is not over when a tick of the past is
\* handled.
LEMMA AutoResumeServes ==
    ASSUME NEW s \in Machines, NEW at \in Int, at <= 0, NEW v, Served(s, v),
           s.paused \in Int => s.paused >= 0, Frozen(s)
    PROVE  Serves(s, AutoResume(s, at), v)
<1>1. CASE ~(s.paused \in Int /\ at >= s.paused)
  BY <1>1 DEF AutoResume, Serves
<1>2. CASE s.paused \in Int /\ at >= s.paused
  <2> DEFINE r == [s EXCEPT !.paused = None]
  <2>1. at = 0  BY <1>2
  <2>2. r \in Machines  BY Update
  <2>3. Resembles(s, r)  BY DEF Machines, Resembles
  <2>4. AutoResume(s, at) = UnfreezeGrace(r, 0)  BY <1>2, <2>1 DEF AutoResume
  <2> HIDE DEF r
  <2>5. Served(r, v) /\ r.zone = s.zone  BY <2>2, <2>3, ResemblesServes DEF Serves
  <2>6. CASE s.phase = "grace"
    <3>1. r.phase = "grace"  BY <2>3, <2>6 DEF Resembles
    <3>2. Serves(r, UnfreezeGrace(r, 0), v)  BY <2>2, <2>5, <3>1, UnfreezeGraceServes
    <3> QED  BY <2>4, <2>5, <3>2 DEF Serves
  <2>7. CASE s.phase # "grace"
    <3>1. r.graceFrozen = None  BY <2>3, <2>7 DEF Frozen, Resembles
    <3>2. UnfreezeGrace(r, 0) = r  BY <3>1 DEF UnfreezeGrace
    <3> QED  BY <2>4, <2>5, <3>2 DEF Serves
  <2> QED  BY <2>6, <2>7
<1> QED  BY <1>1, <1>2

-----------------------------------------------------------------------------
(* step *)

\* The tick that blanks ends a period that has been served.
LEMMA GraceTickServes ==
    ASSUME NEW s \in Machines, NEW at \in Int, at <= 0, NEW v \in 0 .. GracePeriod,
           Served(s, v), s.paused \in Int => s.paused >= 0,
           Sound(s, {at}), s.phase = "grace"
    PROVE  LET t == GraceTick(s, at)
           IN  /\ Serves(s, t, v)
               /\ t.phase \notin {"grace", "active"} => v = GracePeriod
<1>1. Frozen(s)  BY DEF Sound, Loose
<1>2. CASE s.graceFrozen # None
  <2>1. GraceTick(s, at) = AutoResume(s, at)  BY <1>2 DEF GraceTick
  <2>2. AutoResume(s, at).phase = "grace"  BY AutoResumeSound
  <2> QED  BY <1>1, <2>1, <2>2, AutoResumeServes
<1>3. CASE s.graceFrozen = None
  <2> DEFINE u == GatesOpen(s, at)
             t == [s EXCEPT !.ticks = @ \cup {u}]
             e == EnterLadderStage(s, 1, at)
  <2>1. ~Overlaid(s) /\ s.paused = None  BY <1>3 DEF Sound, Matched, Overlaid
  <2>2. AutoResume(s, at) = s  BY <2>1, AutoResumeSound
  <2>3. \/ GraceTick(s, at) = s
        \/ Expired(s, at) /\ u > at /\ GraceTick(s, at) = t
        \/ Expired(s, at) /\ GraceTick(s, at) = e
    BY <1>3, <2>1, <2>2 DEF GraceTick
  <2> HIDE DEF u
  <2>4. Serves(s, s, v)  BY DEF Serves
  <2>5. /\ t.phase = "grace" /\ t.zone = s.zone /\ t.until = s.until
        /\ t.graceFrozen = s.graceFrozen /\ t.stageTicks = s.stageTicks
    BY DEF Machines
  <2> HIDE DEF t
  <2>6. Left(t) = Left(s) /\ OnTime(t)  BY <2>5 DEF Left, Served, OnTime
  <2>7. Serves(s, t, v)  BY <2>5, <2>6 DEF Served, Serves, RenderPhases
  <2>8. Expired(s, at) => v = GracePeriod
    <3>1. s.until \in Int /\ Covers(s.until, v)  BY <1>3 DEF Machines, Served, Left
    <3> QED  BY <3>1, Durations DEF Expired, Covers
  <2>9. Expired(s, at) => Serves(s, e, v)
    <3>1. SUFFICES ASSUME Expired(s, at) PROVE Serves(s, e, v)  OBVIOUS
    <3>2. Idle(s) /\ s.zone = "absent"  BY SoundIdle DEF Sound, Loose, Ripens
    <3>3. Since(s, at, v)  BY <2>8, <3>1 DEF Since, Covers
    <3>4. OnTime(s)  BY DEF Served
    <3> QED  BY <2>8, <3>1, <3>2, <3>3, <3>4, EnterLadderStageServes
  <2> HIDE DEF e
  <2> QED  BY <2>3, <2>4, <2>5, <2>7, <2>8, <2>9
<1> QED  BY <1>2, <1>3

LEMMA OnTickServes ==
    ASSUME NEW s \in Machines, NEW at \in Int, at <= 0, NEW v \in 0 .. GracePeriod,
           Served(s, v), s.paused \in Int => s.paused >= 0, Sound(s, {at})
    PROVE  LET t == OnTick(s, at)
           IN  /\ Serves(s, t, v)
               /\ s.phase = "grace" /\ t.phase \notin {"grace", "active"} =>
                    v = GracePeriod
<1> DEFINE r == AutoResume(s, at)
<1>1. CASE s.phase = "grace"
  BY <1>1, GraceTickServes DEF OnTick
<1>2. CASE s.phase # "grace"
  <2>1. r \in Machines  BY AutoResumeKeeps, Composition
  <2>2. Serves(s, r, v)  BY AutoResumeServes DEF Sound, Loose
  <2>3. OnTick(s, at) \in {IssueWake(r, at), r}
    BY <1>2 DEF OnTick
  <2> HIDE DEF r
  <2>4. Serves(r, IssueWake(r, at), v)  BY <2>1, <2>2, IssueWakeServes DEF Serves, Served
  <2> QED  BY <1>2, <2>2, <2>3, <2>4 DEF Serves
<1> QED  BY <1>1, <1>2

\* A zone that becomes vacant has been so for w, which is 0; one that is heard of
\* again (at the end of a hold) for as long as before.
LEMMA OnZonePresentServes ==
    ASSUME NEW s \in Machines, NEW present \in BOOLEAN, NEW v, NEW w \in 0 .. GracePeriod,
           Served(s, v), Sound(s, {}), ~present /\ s.zone = "absent" => w = v
    PROVE  LET t == OnZonePresent(s, present, 0)
           IN  /\ Served(t, w)
               /\ t.zone = IF present THEN "present" ELSE "absent"
<1> DEFINE zone == IF present THEN "present" ELSE "absent"
           z == [s EXCEPT !.zone = zone]
           b == z.pendingWake \/ present
           p == [z EXCEPT !.pendingWake = b]
           t == OnZonePresent(s, present, 0)
<1>1. z \in Machines  BY Recorded
<1>2. /\ z.phase = s.phase /\ z.zone = zone /\ z.tasks = s.tasks /\ z.ticks = s.ticks
      /\ z.graceFrozen = s.graceFrozen /\ z.until = s.until /\ z.stageTicks = s.stageTicks
  BY DEF Machines
<1>3. /\ s.phase = "active" => t = IF present THEN z ELSE EnterGrace(z, 0)
      /\ s.phase = "grace" => t = IF present THEN EnterActive(z, 0) ELSE z
      /\ s.phase = "blanking" => t = p
      /\ s.phase = "blanked" => t = IF present THEN IssueWake(z, 0) ELSE z
      /\ s.phase = "waking" => t = z
      /\ s.phase \in RenderPhases => t = IF present THEN TeardownRender(z, 0) ELSE z
  BY DEF OnZonePresent, RenderPhases
<1> SUFFICES Served(t, w) /\ t.zone = zone  OBVIOUS
<1> HIDE DEF z, t
<1>4. present => zone = "present"  OBVIOUS
<1>5. ~present => zone = "absent"  OBVIOUS
<1> HIDE DEF zone
<1>6. OnTime(z) /\ Left(z) = Left(s) /\ (Behind(z) => Behind(s))
  BY <1>2 DEF Served, OnTime, Left, Behind
<1>7. Since(z, 0, w)  BY SinceNow DEF Since
<1>8. Covers(0 + GracePeriod, w)  BY SinceNow
<1>9. /\ Serves(z, EnterGrace(z, 0), w) /\ Serves(z, EnterActive(z, 0), w)
      /\ Serves(z, IssueWake(z, 0), w) /\ Serves(z, TeardownRender(z, 0), w)
  BY <1>1, <1>6, <1>7, <1>8, EnterGraceServes, EnterActiveServes, IssueWakeServes,
     TeardownRenderServes
<1>10. s.phase \in {"active", "waking"} => Served(z, w)
  BY <1>2, <1>6, ServedCalm
<1>11. ~present /\ s.phase \in {"grace", "blanked"} \cup RenderPhases => Served(z, w)
  <2>1. SUFFICES ASSUME ~present, s.phase \in {"grace", "blanked"} \cup RenderPhases
                 PROVE  Served(z, w)
    OBVIOUS
  <2>2. s.phase = "grace" => s.zone = "absent"  BY DEF Sound, Loose, Ripens
  <2> QED  BY <1>2, <1>5, <1>6, <2>1, <2>2 DEF Served, RenderPhases
<1>12. s.phase = "blanking" => Served(p, w) /\ p.zone = zone
  <2>1. /\ p.phase = s.phase /\ p.zone = zone /\ p.tasks = s.tasks /\ p.ticks = s.ticks
        /\ p.stageTicks = s.stageTicks
    BY <1>1, <1>2 DEF Machines
  <2> HIDE DEF p
  <2>2. OnTime(p) /\ (Behind(p) => Behind(s))  BY <2>1 DEF Served, OnTime, Behind
  <2> QED  BY <2>1, <2>2 DEF Served, RenderPhases
<1>13. s.phase \in {"active", "grace", "blanking", "blanked", "waking"} \cup RenderPhases
  BY DEF Machines, Phases, RenderPhases
<1> QED
  BY <1>2, <1>3, <1>9, <1>10, <1>11, <1>12, <1>13 DEF Serves, RenderPhases

LEMMA OnInhibitorChangedServes ==
    ASSUME NEW s \in Machines, NEW b \in BOOLEAN, NEW v \in 0 .. GracePeriod, Served(s, v)
    PROVE  Serves(s, OnInhibitorChanged(s, b, 0), v)
<1> DEFINE i == [s EXCEPT !.inhibited = b]
<1>1. i \in Machines  BY Recorded
<1>2. Resembles(s, i)  BY DEF Machines, Resembles
<1>3. \/ s.phase = "grace" /\ OnInhibitorChanged(s, b, 0) \in {FreezeGrace(i, 0), UnfreezeGrace(i, 0)}
      \/ OnInhibitorChanged(s, b, 0) \in {FreezeStage(i, 0), RearmStageTick(i, 0), i}
  BY DEF OnInhibitorChanged
<1> HIDE DEF i
<1>4. Served(i, v) /\ i.zone = s.zone /\ i.phase = s.phase
  BY <1>1, <1>2, ResemblesServes DEF Serves, Resembles
<1>5. s.phase = "grace" => Serves(i, FreezeGrace(i, 0), v) /\ Serves(i, UnfreezeGrace(i, 0), v)
  BY <1>1, <1>4, FreezeGraceServes, UnfreezeGraceServes
<1>6. Serves(i, FreezeStage(i, 0), v) /\ Serves(i, RearmStageTick(i, 0), v)
  BY <1>1, <1>4, StageServes
<1> QED  BY <1>3, <1>4, <1>5, <1>6 DEF Serves

LEMMA OnPauseServes ==
    ASSUME NEW s \in Machines, NEW until \in Nat \cup {Forever}, NEW v \in 0 .. GracePeriod,
           Served(s, v)
    PROVE  LET t == OnPause(s, until, 0)
           IN  /\ Serves(s, t, v)
               /\ t.paused = until /\ (until \in Int => until \in t.ticks)
<1> DEFINE ts == IF until = Forever THEN s.ticks ELSE s.ticks \cup {until}
           p == [s EXCEPT !.paused = until, !.ticks = ts]
           t == OnPause(s, until, 0)
<1>1. until \in Int \cup {None, Forever}  OBVIOUS
<1>2. ts \in SUBSET Int  BY DEF Machines
<1>3. \A x \in ts : x \in s.ticks \/ x >= 0  OBVIOUS
<1>4. until \in Int => until \in ts  BY Options
<1>5. \/ s.phase = "grace" /\ t = FreezeGrace(p, 0)
      \/ t \in {FreezeStage(p, 0), p}
  BY DEF OnPause
<1> SUFFICES Serves(s, t, v) /\ t.paused = until /\ (until \in Int => until \in t.ticks)
  OBVIOUS
<1> HIDE DEF ts, t
<1>6. p \in Machines
  <2>1. [s EXCEPT !.paused = until] \in Machines  BY <1>1, Update
  <2>2. p = [[s EXCEPT !.paused = until] EXCEPT !.ticks = ts]  BY DEF Machines
  <2> QED  BY <1>2, <2>1, <2>2, Update
<1>7. Resembles(s, p)  BY <1>3 DEF Machines, Resembles
<1>8. p.paused = until /\ p.ticks = ts  BY DEF Machines
<1> HIDE DEF p
<1>9. Served(p, v) /\ p.zone = s.zone /\ p.phase = s.phase
  BY <1>6, <1>7, ResemblesServes DEF Serves, Resembles
<1>10. s.phase = "grace" => Serves(p, FreezeGrace(p, 0), v)
  BY <1>6, <1>9, FreezeGraceServes
<1>11. Serves(p, FreezeStage(p, 0), v)  BY <1>6, <1>9, StageServes
<1>12. /\ FreezeGrace(p, 0).paused = until /\ FreezeGrace(p, 0).ticks = ts
       /\ FreezeStage(p, 0).paused = until /\ FreezeStage(p, 0).ticks = ts
  <2> DEFINE x == Positive(p.until - 0)
             y == IF p.stageDeadline = None THEN 0 ELSE Positive(p.stageDeadline - 0)
             q == [p EXCEPT !.graceFrozen = x]
             r == [p EXCEPT !.stageFrozen = y]
  <2>1. FreezeGrace(p, 0) \in {p, q} /\ FreezeStage(p, 0) \in {p, r}
    BY DEF FreezeGrace, FreezeStage
  <2> HIDE DEF x, y
  <2>2. q.paused = until /\ q.ticks = ts /\ r.paused = until /\ r.ticks = ts
    BY <1>6, <1>8 DEF Machines
  <2> HIDE DEF q, r
  <2> QED  BY <1>8, <2>1, <2>2
<1> QED  BY <1>4, <1>5, <1>8, <1>9, <1>10, <1>11, <1>12 DEF Serves

LEMMA OnResumeServes ==
    ASSUME NEW s \in Machines, NEW v, Served(s, v)
    PROVE  Serves(s, OnResume(s, 0), v)
<1> DEFINE r == [s EXCEPT !.paused = None]
<1>1. r \in Machines  BY Update
<1>2. Resembles(s, r)  BY DEF Machines, Resembles
<1>3. \/ s.phase = "grace" /\ OnResume(s, 0) = UnfreezeGrace(r, 0)
      \/ OnResume(s, 0) \in {RearmStageTick(r, 0), r}
  BY DEF OnResume
<1> HIDE DEF r
<1>4. Served(r, v) /\ r.zone = s.zone /\ r.phase = s.phase
  BY <1>1, <1>2, ResemblesServes DEF Serves, Resembles
<1>5. s.phase = "grace" => Serves(r, UnfreezeGrace(r, 0), v)
  BY <1>1, <1>4, UnfreezeGraceServes
<1>6. Serves(r, RearmStageTick(r, 0), v)  BY <1>1, <1>4, StageServes
<1> QED  BY <1>3, <1>4, <1>5, <1>6 DEF Serves

LEMMA OnForceWakeServes ==
    ASSUME NEW s \in Machines, NEW v \in 0 .. GracePeriod, Served(s, v)
    PROVE  Serves(s, OnForceWake(s, 0), v)
<1> DEFINE g == [s EXCEPT !.graceFrozen = None]
           p == [s EXCEPT !.pendingWake = TRUE]
<1>1. g \in Machines /\ p \in Machines  BY Update, Recorded
<1>2. /\ g.zone = s.zone /\ g.stageTicks = s.stageTicks
      /\ Resembles(s, p) /\ Resembles(s, s)
  BY DEF Machines, Resembles
<1>3. OnForceWake(s, 0) \in {s, EnterActive(g, 0), p, IssueWake(s, 0), TeardownRender(s, 0)}
  <2>1. s.phase \in {"active", "grace", "blanking", "blanked", "waking"} \cup RenderPhases
    BY DEF Machines, Phases, RenderPhases
  <2> QED  BY <2>1 DEF OnForceWake, RenderPhases
<1> HIDE DEF g, p
<1>4. OnTime(s) /\ OnTime(g)  BY <1>2 DEF Served, OnTime
<1>5. Since(s, 0, v) /\ Since(g, 0, v)  BY SinceNow DEF Since
<1>6. /\ Serves(g, EnterActive(g, 0), v) /\ Serves(s, IssueWake(s, 0), v)
      /\ Serves(s, TeardownRender(s, 0), v)
  BY <1>1, <1>4, <1>5, EnterActiveServes, IssueWakeServes, TeardownRenderServes
<1>7. Serves(s, p, v) /\ Serves(s, s, v)  BY <1>1, <1>2, ResemblesServes
<1> QED  BY <1>2, <1>3, <1>6, <1>7 DEF Serves

LEMMA OnForceBlankServes ==
    ASSUME NEW s \in Machines, NEW v, Served(s, v), Sound(s, {})
    PROVE  Serves(s, OnForceBlank(s), v)
<1> DEFINE g == [s EXCEPT !.graceFrozen = None]
           bare == SpawnTeardown(s)
           b == [bare EXCEPT !.stage = None]
<1>1. g \in Machines  BY Update
<1>2. g.zone = s.zone /\ g.stageTicks = s.stageTicks /\ g.tasks = s.tasks
  BY DEF Machines
<1>3. /\ bare \in Machines /\ bare.zone = s.zone /\ OnTime(bare)
      /\ Idle(s) => Idle(bare)
  BY SpawnTeardownIdle, SpawnTeardownResembles DEF Served
<1>4. \/ s.phase # "blanking" /\ OnForceBlank(s) \in {IssueBlank(s), IssueBlank(g), IssueBlank(b)}
      \/ OnForceBlank(s) = s
  <2>1. s.phase \in {"active", "grace", "blanking", "blanked", "waking"} \cup RenderPhases
    BY DEF Machines, Phases, RenderPhases
  <2> QED  BY <2>1 DEF OnForceBlank, RenderPhases
<1> HIDE DEF g, bare
<1>5. b \in Machines  BY <1>3, Update
<1>6. b.zone = s.zone /\ b.stageTicks = bare.stageTicks /\ b.tasks = bare.tasks
  BY <1>3 DEF Machines
<1> HIDE DEF b
<1>7. OnTime(s) /\ OnTime(g) /\ OnTime(b)  BY <1>2, <1>3, <1>6 DEF Served, OnTime
<1>8. s.phase # "blanking" => Idle(s) /\ Idle(g) /\ Idle(b)
  BY <1>2, <1>3, <1>6, SoundIdle DEF Sound, Idle
<1>9. s.phase # "blanking" => /\ Serves(s, IssueBlank(s), v) /\ Serves(g, IssueBlank(g), v)
                              /\ Serves(b, IssueBlank(b), v)
  BY <1>1, <1>5, <1>7, <1>8, IssueBlankServes
<1> QED  BY <1>2, <1>4, <1>6, <1>9 DEF Serves

LEMMA OnStageTickServes ==
    ASSUME NEW s \in Machines, NEW gen, NEW v \in 0 .. GracePeriod,
           Served(s, v), Sound(s, {})
    PROVE  Serves(s, OnStageTick(s, gen, 0), v)
<1>1. \/ s.phase \in {"blanked", "staged"} /\ OnStageTick(s, gen, 0) = AdvanceStage(s, 0)
      \/ OnStageTick(s, gen, 0) = s
  BY DEF OnStageTick
<1>2. s.phase \in {"blanked", "staged"} => Serves(s, AdvanceStage(s, 0), v)
  <2>1. SUFFICES ASSUME s.phase \in {"blanked", "staged"}
                 PROVE  Serves(s, AdvanceStage(s, 0), v)
    OBVIOUS
  <2>2. Idle(s)  BY <2>1, SoundIdle DEF Sound
  <2>3. Since(s, 0, v)  BY SinceNow DEF Since
  <2>4. OnTime(s) /\ (Behind(s) => s.zone = "absent" /\ v = GracePeriod)
    BY <2>1 DEF Served, RenderPhases
  <2> QED  BY <2>2, <2>3, <2>4, AdvanceServes
<1> QED  BY <1>1, <1>2 DEF Serves

LEMMA OnOwnershipLostServes ==
    ASSUME NEW s \in Machines, NEW at \in Int, NEW v \in 0 .. GracePeriod, Served(s, v),
           s.phase \in {"blanked"} \cup RenderPhases => Since(s, at, v)
    PROVE  Serves(s, OnOwnershipLost(s, at), v)
<1> DEFINE y == [s EXCEPT !.owned = FALSE]
           t == OnOwnershipLost(s, at)
<1>1. y \in Machines  BY Recorded
<1>2. Resembles(s, y)  BY DEF Machines, Resembles
<1>3. \/ s.phase \in {"blanked"} \cup RenderPhases /\ t \in {EnterActive(y, at), TeardownRender(y, at)}
      \/ t = y
  BY DEF OnOwnershipLost, RenderPhases
<1> SUFFICES Serves(s, t, v)  OBVIOUS
<1> HIDE DEF y, t
<1>4. Serves(s, y, v) /\ y.zone = s.zone /\ OnTime(y)
  BY <1>1, <1>2, ResemblesServes DEF Serves, Served
<1>5. CASE s.phase \in {"blanked"} \cup RenderPhases
  <2>1. Since(y, at, v)  BY <1>4, <1>5 DEF Since
  <2>2. Serves(y, EnterActive(y, at), v) /\ Serves(y, TeardownRender(y, at), v)
    BY <1>1, <1>4, <2>1, EnterActiveServes, TeardownRenderServes
  <2> QED  BY <1>3, <1>4, <2>2 DEF Serves
<1> QED  BY <1>3, <1>4, <1>5

LEMMA OnOwnershipGainedServes ==
    ASSUME NEW s \in Machines, NEW at \in Int, NEW v \in 0 .. GracePeriod, Served(s, v),
           Sound(s, {}) \/ Sound(s, {at}), ~s.owned
    PROVE  Serves(s, OnOwnershipGained(s, at), v)
<1> DEFINE o == [s EXCEPT !.owned = TRUE]
           calls == o.zone = "present" \/ Overlaid(o)
           b == o.pendingWake \/ calls
           w == [o EXCEPT !.pendingWake = b]
           g == [o EXCEPT !.ticks = @ \cup {o.until}]
           t == OnOwnershipGained(s, at)
<1>1. o \in Machines  BY Recorded
<1>2. Resembles(s, o)  BY DEF Machines, Resembles
<1>3. s.phase \in {"active", "grace", "blanking", "blanked", "waking"}
  BY DEF Machines, Phases, RenderPhases, Sound, Loose, Yields
<1>4. o.phase = s.phase  BY DEF Machines
<1>5. \/ s.phase = "grace" /\ t \in {g, o}
      \/ t \in {w, o, IssueWake(o, at)}
  BY <1>3, <1>4 DEF OnOwnershipGained, GainGrace, RenderPhases
<1> SUFFICES Serves(s, t, v)  OBVIOUS
<1> HIDE DEF o, t
<1>6. Served(o, v) /\ o.zone = s.zone /\ OnTime(o)
  BY <1>1, <1>2, ResemblesServes DEF Serves, Served
<1>7. Serves(o, IssueWake(o, at), v)  BY <1>1, <1>6, IssueWakeServes
<1>8. w \in Machines
  <2>1. b \in BOOLEAN  BY <1>1 DEF Machines
  <2> QED  BY <1>1, <2>1, Recorded
<1>9. Serves(o, w, v)
  <2> HIDE DEF b
  <2>1. Resembles(o, w)  BY <1>1 DEF Machines, Resembles
  <2> QED  BY <1>1, <1>6, <1>8, <2>1, ResemblesServes
<1>10. s.phase = "grace" => Serves(o, g, v)
  <2>1. /\ g.phase = o.phase /\ g.zone = o.zone /\ g.until = o.until
        /\ g.graceFrozen = o.graceFrozen /\ g.stageTicks = o.stageTicks
    BY <1>1 DEF Machines
  <2> HIDE DEF g
  <2>2. Left(g) = Left(o) /\ OnTime(g)  BY <1>6, <2>1 DEF Left, OnTime
  <2> QED  BY <1>4, <1>6, <2>1, <2>2 DEF Served, Serves, RenderPhases
<1> QED  BY <1>5, <1>6, <1>7, <1>9, <1>10 DEF Serves

LEMMA FedServes ==
    ASSUME NEW s \in Machines, NEW at \in Int, at <= 0, NEW v \in 0 .. GracePeriod,
           Served(s, v), Sound(s, {}) \/ Sound(s, {at}), owns \in BOOLEAN,
           s.phase \in {"blanked"} \cup RenderPhases => Since(s, at, v)
    PROVE  Serves(s, Fed(s, at), v)
<1>1. s.owned \in BOOLEAN  BY DEF Machines
<1>2. \/ Fed(s, at) = s
      \/ ~s.owned /\ Fed(s, at) = OnOwnershipGained(s, at)
      \/ Fed(s, at) = OnOwnershipLost(s, at)
  BY <1>1 DEF Fed
<1> QED  BY <1>2, OnOwnershipGainedServes, OnOwnershipLostServes DEF Serves

-----------------------------------------------------------------------------
(* Results *)

LEMMA FewerServes ==
    ASSUME NEW s \in Machines, NEW k \in s.tasks, NEW v, Served(s, v)
    PROVE  LET t == [s EXCEPT !.tasks = @ \ {k}]
           IN  t \in Machines /\ Serves(s, t, v) /\ t.phase = s.phase
<1> DEFINE t == [s EXCEPT !.tasks = @ \ {k}]
<1>1. t \in Machines
  <2>1. s.tasks \ {k} \in SUBSET Tasks  BY DEF Machines
  <2> QED  BY <2>1, Update
<1>2. Resembles(s, t)  BY DEF Machines, Resembles
<1> HIDE DEF t
<1>3. t.phase = s.phase  BY <1>2 DEF Resembles
<1> QED  BY <1>1, <1>2, <1>3, ResemblesServes DEF t

\* A blank that has run for some time finds no tick behind.
LEMMA BlankResultServes ==
    ASSUME Unhurried, NEW s \in Machines, NEW k \in s.tasks, k.kind = "blank", k.age # 0,
           NEW ok \in BOOLEAN, NEW at \in Int, at <= 0, at >= -MaxLatency,
           NEW v \in 0 .. GracePeriod, Served(s, v), Sound(s, {}), Since(s, at, v)
    PROVE  Serves(s, OnBlankResult([s EXCEPT !.tasks = @ \ {k}], k.gen, ok, at), v)
<1> DEFINE t == [s EXCEPT !.tasks = @ \ {k}]
           b == [t EXCEPT !.pendingWake = FALSE]
           c == [b EXCEPT !.phase = "blanked"]
           r == OnBlankResult(t, k.gen, ok, at)
<1>1. t \in Machines /\ Serves(s, t, v)  BY FewerServes
<1>2. ~Behind(s)
  BY DEF Sound, Loose, Solo, Served
<1>3. t.ticks = s.ticks  BY DEF Machines
<1>4. \/ r = t
      \/ r \in {IssueWake(b, at), ScheduleStageTick(c, at), EnterActive(b, at)}
      \/ t.zone = "absent" /\ r = EnterGrace(b, at)
  BY DEF OnBlankResult
<1> SUFFICES Serves(s, r, v)  OBVIOUS
<1> HIDE DEF t, r
<1>5. b \in Machines  BY <1>1, Recorded
<1>6. b.zone = t.zone /\ b.ticks = s.ticks /\ b.stageTicks = t.stageTicks
  BY <1>1, <1>3 DEF Machines
<1> HIDE DEF b
<1>7. t.zone = s.zone /\ OnTime(b) /\ Since(b, at, v)
  BY <1>1, <1>6 DEF Serves, Served, OnTime, Since
<1>8. Serves(b, IssueWake(b, at), v) /\ Serves(b, EnterActive(b, at), v)
  BY <1>5, <1>7, IssueWakeServes, EnterActiveServes
<1>9. t.zone = "absent" => Serves(b, EnterGrace(b, at), v)
  BY <1>5, <1>6, <1>7, EnterGraceServes DEF Since
<1>10. Serves(b, ScheduleStageTick(c, at), v)
  <2>1. c \in Machines  BY <1>5, Update DEF Phases
  <2>2. /\ c.phase = "blanked" /\ c.zone = b.zone /\ c.ticks = b.ticks
        /\ c.stageTicks = b.stageTicks
    BY <1>5 DEF Machines
  <2> HIDE DEF c
  <2>3. Served(c, v)  BY <1>2, <1>6, <1>7, <2>2 DEF Served, OnTime, Behind, RenderPhases
  <2>4. Serves(c, ScheduleStageTick(c, at), v)  BY <2>1, <2>3, ScheduleStageTickServes
  <2> QED  BY <2>2, <2>4 DEF Serves
<1> QED  BY <1>1, <1>4, <1>6, <1>7, <1>8, <1>9, <1>10 DEF Serves

LEMMA WakeResultServes ==
    ASSUME NEW s \in Machines, NEW k \in s.tasks, NEW ok \in BOOLEAN, NEW at \in Int,
           NEW v \in 0 .. GracePeriod, Served(s, v), Since(s, at, v)
    PROVE  Serves(s, OnWakeResult([s EXCEPT !.tasks = @ \ {k}], k.gen, ok, at), v)
<1> DEFINE t == [s EXCEPT !.tasks = @ \ {k}]
           w == [t EXCEPT !.lastWake = at]
           r == OnWakeResult(t, k.gen, ok, at)
<1>1. t \in Machines /\ Serves(s, t, v)  BY FewerServes
<1>2. r \in {t, EnterActive(w, at), IssueWake(t, at)}  BY DEF OnWakeResult
<1> SUFFICES Serves(s, r, v)  OBVIOUS
<1> HIDE DEF t, r
<1>3. w \in Machines  BY <1>1, Update
<1>4. w.zone = t.zone /\ w.stageTicks = t.stageTicks  BY <1>1 DEF Machines
<1> HIDE DEF w
<1>5. OnTime(t) /\ OnTime(w) /\ Since(w, at, v)
  BY <1>1, <1>4 DEF Serves, Served, OnTime, Since
<1>6. Serves(w, EnterActive(w, at), v) /\ Serves(t, IssueWake(t, at), v)
  BY <1>1, <1>3, <1>5, EnterActiveServes, IssueWakeServes
<1> QED  BY <1>1, <1>2, <1>4, <1>6 DEF Serves

LEMMA RenderResultServes ==
    ASSUME Unhurried, NEW s \in Machines, NEW k \in s.tasks,
           NEW ok \in BOOLEAN, NEW at \in Int, at <= 0, at >= -MaxLatency,
           NEW v \in 0 .. GracePeriod, Served(s, v), Sound(s, {}), Since(s, at, v)
    PROVE  Serves(s, OnRenderResult([s EXCEPT !.tasks = @ \ {k}], k.gen, ok, at), v)
<1> DEFINE t == [s EXCEPT !.tasks = @ \ {k}]
           c == [t EXCEPT !.phase = "staged"]
           r == OnRenderResult(t, k.gen, ok, at)
<1>1. t \in Machines /\ Serves(s, t, v) /\ Sound(t, {})  BY FewerServes, FewerSound
<1>2. \/ r = t
      \/ /\ t.phase = "render_pending"
         /\ r \in {ScheduleStageTick(c, at), AdvanceToNextController(t, at)}
  BY DEF OnRenderResult
<1> SUFFICES Serves(s, r, v)  OBVIOUS
<1> HIDE DEF t, r
<1>3. c \in Machines  BY <1>1, Update DEF Phases
<1>4. /\ c.phase = "staged" /\ c.zone = t.zone /\ c.ticks = t.ticks
      /\ c.stageTicks = t.stageTicks
  BY <1>1 DEF Machines
<1> HIDE DEF c
<1>5. CASE r = t  BY <1>1, <1>5
<1>6. CASE /\ t.phase = "render_pending"
           /\ r \in {ScheduleStageTick(c, at), AdvanceToNextController(t, at)}
  <2>1. OnTime(t) /\ (Behind(t) => t.zone = "absent" /\ v = GracePeriod)
    BY <1>1, <1>6 DEF Serves, Served, RenderPhases
  <2>2. Idle(t)  BY <1>1, <1>6, SoundIdle DEF Sound
  <2>3. Since(t, at, v)  BY <1>1 DEF Serves, Since
  <2>4. Serves(t, AdvanceToNextController(t, at), v)
    BY <1>1, <2>1, <2>2, <2>3, AdvanceServes
  <2>5. Served(c, v)  BY <1>4, <2>1 DEF Served, OnTime, Behind
  <2>6. Serves(c, ScheduleStageTick(c, at), v)  BY <1>3, <2>5, ScheduleStageTickServes
  <2> QED  BY <1>1, <1>4, <1>6, <2>4, <2>6 DEF Serves
<1> QED  BY <1>2, <1>5, <1>6

LEMMA SettledServes ==
    ASSUME NEW s \in Machines, NEW v, Served(s, v)
    PROVE  LET t == Settled(s)
           IN  /\ Serves(s, t, v) /\ t.phase = s.phase /\ t.paused = s.paused
               /\ t.ticks = s.ticks
<1> DEFINE u == IF s.phase = "grace" THEN s.until ELSE 0
           g == IF s.phase \in RenderPhases THEN s.renderGen ELSE 0
           t == [s EXCEPT !.until = u, !.renderGen = g]
<1>1. Settled(s) = t  BY DEF Settled
<1>2. s.phase = "grace" => u = s.until  OBVIOUS
<1> HIDE DEF u, g
<1>3. /\ t.phase = s.phase /\ t.zone = s.zone /\ t.tasks = s.tasks /\ t.ticks = s.ticks
      /\ t.graceFrozen = s.graceFrozen /\ t.until = u /\ t.stageTicks = s.stageTicks
      /\ t.paused = s.paused
  BY DEF Machines
<1> HIDE DEF t
<1>4. s.phase = "grace" => Left(t) = Left(s)  BY <1>2, <1>3 DEF Left
<1>5. OnTime(t) /\ (Behind(t) => Behind(s))  BY <1>3 DEF Served, OnTime, Behind
<1>6. Served(t, v)  BY <1>3, <1>4, <1>5 DEF Served
<1> QED  BY <1>1, <1>3, <1>6 DEF Serves

-----------------------------------------------------------------------------
(* The steps of the runtime *)

Punctual(s) == s.paused \in Int => s.paused >= 0 /\ s.paused \in s.ticks
HoldAhead == holdUntil # None => holdUntil >= 0

\* A display whose countdown is no shorter than the vacancy still to come, and a
\* loop that is behind no further than the zone has been vacant.
Timely ==
    /\ Served(d, vacantFor)
    /\ Punctual(d)
    /\ lag <= MaxLatency
    /\ \A t \in d.tasks : lag <= t.age
    /\ Since(d, -lag, vacantFor)
    /\ HoldAhead

LEMMA PunctualExtends ==
    ASSUME NEW s, NEW t, Punctual(s), Extends(s, t)
    PROVE  Punctual(t)
BY Options DEF Punctual, Extends

LEMMA TurnTimely ==
    ASSUME Inv, NEW r \in Machines, Turn(r), Served(r, vacantFor'), Punctual(r), HoldAhead'
    PROVE  Timely'
<1>1. d' = Settled(r) /\ lag' = 0  BY DEF Turn
<1>2. d' \in Machines  BY <1>1, SettledKeeps, Composition
<1>3. vacantFor' \in 0 .. GracePeriod
  BY Durations DEF Turn, Inv, TypeOK
<1>4. Served(d', vacantFor') /\ d'.paused = r.paused /\ d'.ticks = r.ticks
  BY <1>1, SettledServes DEF Serves
<1>5. Punctual(d')  BY <1>4 DEF Punctual
<1>6. \A t \in d'.tasks : 0 <= t.age
  <2>1. ASSUME NEW t \in d'.tasks PROVE 0 <= t.age
    <3>1. t \in Tasks  BY <1>2 DEF Machines
    <3> QED  BY <3>1 DEF Tasks
  <2> QED  BY <2>1
<1>7. Since(d', -0, vacantFor')  BY <1>3, SinceNow DEF Since
<1>8. 0 <= MaxLatency  BY RuntimeAssumption
<1> QED  BY <1>1, <1>4, <1>5, <1>6, <1>7, <1>8 DEF Timely, HoldAhead

\* A turn that does not change the zone.
LEMMA TurnServes ==
    ASSUME Inv, NEW r \in Machines, Turn(r), Served(r, vacantFor), Sound(r, {}),
           r.zone = d.zone, Punctual(r), HoldAhead'
    PROVE  Timely'
<1>1. CASE r.zone = "absent"
  <2>1. vacantFor' = vacantFor  BY <1>1 DEF Turn
  <2> QED  BY <2>1, TurnTimely
<1>2. CASE r.zone # "absent"
  <2>1. Served(r, vacantFor')  BY <1>2, ServedAnew
  <2> QED  BY <2>1, TurnTimely
<1> QED  BY <1>1, <1>2

LEMMA InputTimely ==
    ASSUME Unhurried, Inv, Law, Timely, InputArrives
    PROVE  Timely'
<1> USE DEF InputTurn
<1> DEFINE v == vacantFor
<1>1. /\ d \in Machines /\ owns \in BOOLEAN /\ Sound(d, {}) /\ v \in 0 .. GracePeriod
      /\ Served(d, v) /\ Punctual(d) /\ HoldAhead
  BY DEF Inv, TypeOK, Law, Timely
<1> HIDE DEF v
<1>2. 0 \in Int /\ 0 <= 0 /\ 0 >= 0  OBVIOUS
<1>3. ASSUME NEW c \in Machines, Alike(d, c), Resembles(d, c), c.paused = d.paused
      PROVE  LET f == Fed(c, 0)
             IN  /\ f \in Machines /\ Sound(f, {}) /\ AsFed(f)
                 /\ Serves(d, f, v) /\ Punctual(f)
  <2>1. Sound(c, {}) /\ c.phase = d.phase /\ c.owned = d.owned
    BY <1>1, <1>3, AlikeSound DEF Alike, Same
  <2>2. Keeps(c, Fed(c, 0))  BY <1>1, <1>2, FedKeeps
  <2>3. Sound(Fed(c, 0), {}) /\ AsFed(Fed(c, 0))  BY <1>1, <1>2, <2>1, FedSound
  <2>4. Serves(d, c, v)  BY <1>1, <1>3, ResemblesServes
  <2>5. Since(c, 0, v)  BY <1>1, <1>2, SinceNow DEF Since
  <2>6. Serves(c, Fed(c, 0), v)
    BY <1>1, <1>2, <2>1, <2>4, <2>5, FedServes DEF Serves
  <2>7. Punctual(c)  BY <1>1, <1>3 DEF Punctual, Alike, Same
  <2>8. Punctual(Fed(c, 0))  BY <2>2, <2>7, PunctualExtends DEF Keeps
  <2> QED  BY <2>2, <2>3, <2>4, <2>6, <2>8, Composition DEF Serves, Keeps, Extends
<1> DEFINE f == Fed(d, 0)
<1>4. /\ f \in Machines /\ Sound(f, {}) /\ AsFed(f)
      /\ Served(f, v) /\ f.zone = d.zone /\ Punctual(f)
  <2>1. Alike(d, d) /\ Resembles(d, d)  BY AlikeReflexive DEF Resembles
  <2> QED  BY <1>1, <1>3, <2>1 DEF Serves
<1> HIDE DEF f
<1>5. ASSUME NEW e \in Machines, e.zone = d.zone, Punctual(e),
             NEW r, Keeps(e, r), Sound(r, {}), Serves(e, r, v), Turn(r), HoldAhead'
      PROVE  Timely'
  <2>1. r \in Machines /\ Punctual(r)
    BY <1>5, PunctualExtends DEF Keeps, Extends
  <2> QED  BY <1>5, <2>1, TurnServes DEF Serves, v
<1>6. ASSUME NEW present \in BOOLEAN, ZonePresent(present) PROVE Timely'
  <2> DEFINE calm == IF present THEN [d EXCEPT !.hold = FALSE] ELSE d
             e == Fed(calm, 0)
             r == OnZonePresent(e, present, 0)
  <2>1. /\ Turn(r) /\ HoldAhead'
        /\ ~present => d.zone # "absent"
    BY <1>1, <1>6 DEF ZonePresent, HoldAhead
  <2>2. calm \in Machines  BY <1>1, Recorded
  <2>3. Alike(d, calm) /\ Resembles(d, calm) /\ calm.paused = d.paused
    BY <1>1 DEF Machines, Alike, Same, Resembles
  <2> HIDE DEF calm
  <2>4. /\ e \in Machines /\ Sound(e, {}) /\ Served(e, v) /\ e.zone = d.zone /\ Punctual(e)
    BY <1>3, <2>2, <2>3 DEF Serves
  <2> HIDE DEF e
  <2>5. Keeps(e, r)  BY <1>2, <2>4, OnZonePresentKeeps
  <2>6. vacantFor' \in 0 .. GracePeriod
    BY <1>1, <2>1, Durations DEF Turn, v
  <2>7. Served(r, vacantFor')  BY <2>1, <2>4, <2>6, OnZonePresentServes
  <2> HIDE DEF r
  <2>8. r \in Machines /\ Punctual(r)
    BY <2>4, <2>5, PunctualExtends DEF Keeps, Extends
  <2> QED  BY <2>1, <2>7, <2>8, TurnTimely
<1>7. ASSUME NEW b \in BOOLEAN, SetInhibited(b) PROVE Timely'
  <2> DEFINE r == OnInhibitorChanged(f, b, 0)
  <2>1. Turn(r) /\ HoldAhead'  BY <1>1, <1>7 DEF SetInhibited, f, HoldAhead
  <2>2. Keeps(f, r) /\ Sound(r, {}) /\ Serves(f, r, v)
    BY <1>1, <1>2, <1>4, OnInhibitorChangedKeeps, OnInhibitorChangedSound,
       OnInhibitorChangedServes DEF Obeys
  <2> HIDE DEF r
  <2> QED  BY <1>4, <1>5, <2>1, <2>2
<1>8. ASSUME NEW until \in PauseTimes \cup {Forever}, Pause(until)
      PROVE  Timely'
  <2> DEFINE r == OnPause(f, until, 0)
  <2>1. Turn(r) /\ HoldAhead'  BY <1>1, <1>8 DEF Pause, f, HoldAhead
  <2>2. until \in Nat \cup {Forever} /\ until \in Int \cup {Forever}
    BY <1>8, RuntimeAssumption
  <2>3. r \in Machines  BY <1>2, <1>4, <2>2, OnPauseKeeps
  <2>4. Sound(r, {})  BY <1>2, <1>4, <2>2, OnPauseSound DEF Obeys
  <2>5. /\ Serves(f, r, v)
        /\ r.paused = until /\ (until \in Int => until \in r.ticks)
    BY <1>1, <1>4, <2>2, OnPauseServes
  <2> HIDE DEF r
  <2>6. Punctual(r)  BY <2>2, <2>5, Options DEF Punctual
  <2> QED  BY <1>4, <2>1, <2>3, <2>4, <2>5, <2>6, TurnServes DEF Serves, v
<1>9. CASE Resume
  <2> DEFINE r == OnResume(f, 0)
  <2>1. Turn(r) /\ HoldAhead'  BY <1>1, <1>9 DEF Resume, f, HoldAhead
  <2>2. Keeps(f, r) /\ Sound(r, {}) /\ Serves(f, r, v)
    BY <1>2, <1>4, OnResumeKeeps, OnResumeSound, OnResumeServes DEF Obeys
  <2> HIDE DEF r
  <2> QED  BY <1>4, <1>5, <2>1, <2>2
<1>10. CASE ForceBlank
  <2> DEFINE r == OnForceBlank(f)
  <2>1. Turn(r) /\ HoldAhead' /\ ~Unforced
    BY <1>1, <1>10 DEF ForceBlank, Unforced, f, HoldAhead
  <2>2. Keeps(f, r) /\ Sound(r, {}) /\ Serves(f, r, v)
    BY <1>4, <2>1, OnForceBlankKeeps, OnForceBlankSound, OnForceBlankServes
  <2> HIDE DEF r
  <2> QED  BY <1>4, <1>5, <2>1, <2>2
<1>11. CASE SoftBlank
  BY <1>11 DEF SoftBlank, Unhurried
<1>12. CASE ForceWake
  <2> DEFINE r == OnForceWake(f, 0)
  <2>1. Turn(r) /\ HoldAhead'  BY <1>1, <1>12 DEF ForceWake, f, HoldAhead
  <2>2. Keeps(f, r) /\ Sound(r, {}) /\ Serves(f, r, v)
    BY <1>1, <1>2, <1>4, OnForceWakeKeeps, OnForceWakeSound, OnForceWakeServes DEF Obeys
  <2> HIDE DEF r
  <2> QED  BY <1>4, <1>5, <2>1, <2>2
<1>13. CASE InputWake
  <2> DEFINE held == IF d.zone = "absent" /\ InputWakeHold > 0
                     THEN [d EXCEPT !.hold = TRUE] ELSE d
             e == Fed(held, 0)
             r == OnForceWake(e, 0)
  <2>1. Turn(r) /\ HoldAhead'
    BY <1>1, <1>13, RuntimeAssumption DEF InputWake, HoldAhead
  <2>2. held \in Machines  BY <1>1, Recorded
  <2>3. Alike(d, held) /\ Resembles(d, held) /\ held.paused = d.paused
    BY <1>1 DEF Machines, Alike, Same, Resembles
  <2> HIDE DEF held
  <2>4. /\ e \in Machines /\ Sound(e, {}) /\ Served(e, v) /\ e.zone = d.zone /\ Punctual(e)
    BY <1>3, <2>2, <2>3 DEF Serves
  <2> HIDE DEF e
  <2>5. Keeps(e, r) /\ Sound(r, {}) /\ Serves(e, r, v)
    BY <1>1, <1>2, <2>4, OnForceWakeKeeps, OnForceWakeSound, OnForceWakeServes DEF Obeys
  <2> HIDE DEF r
  <2> QED  BY <1>5, <2>1, <2>4, <2>5
<1>14. CASE OwnershipFlips
  BY <1>14 DEF OwnershipFlips, Timely, HoldAhead
<1>15. CASE OwnershipPoll
  <2>1. Turn(f) /\ HoldAhead'  BY <1>1, <1>15 DEF OwnershipPoll, f, HoldAhead
  <2> QED  BY <1>4, <2>1, TurnServes DEF v
<1>16. ASSUME NEW until \in BOOLEAN, SetClaimSuppression(until) \/ OtherTurn
       PROVE  Timely'
  <2>1. Turn(d) /\ HoldAhead'
    BY <1>1, <1>16 DEF SetClaimSuppression, OtherTurn, HoldAhead
  <2> QED  BY <1>1, <2>1, TurnServes DEF v
<1>17. CASE SuppressionLapses
  BY <1>17 DEF SuppressionLapses, Timely, HoldAhead
<1> QED
  BY <1>6, <1>7, <1>8, <1>9, <1>10, <1>11, <1>12, <1>13, <1>14, <1>15, <1>16, <1>17
  DEF InputArrives

\* A tick that is behind finds no panel to give back, and its own Grace period,
\* if it ends one, served.
LEMMA TimerTimely ==
    ASSUME Inv, Law, Timely, TimerFires
    PROVE  Timely' /\ (GraceBlanks => vacantFor = GracePeriod)
<1> USE DEF AsFed
<1> DEFINE v == vacantFor
<1>1. /\ d \in Machines /\ owns \in BOOLEAN /\ Sound(d, {}) /\ v \in 0 .. GracePeriod
      /\ Served(d, v) /\ Punctual(d) /\ HoldAhead
  BY DEF Inv, TypeOK, Law, Timely
<1> HIDE DEF v
<1>2. 0 \in Int /\ 0 <= 0 /\ 0 >= 0  OBVIOUS
<1>3. CASE DisplayTick
  <2>1. PICK at \in d.ticks :
            /\ Fires(at)
            /\ Turn(OnTick(Fed([d EXCEPT !.ticks = @ \ {at}], at), at))
            /\ UNCHANGED <<ruled, owns, claimed, holdUntil, panel, surface>>
    BY <1>3 DEF DisplayTick
  <2> DEFINE ts == d.ticks \ {at}
             s == [d EXCEPT !.ticks = ts]
             f == Fed(s, at)
             r == OnTick(f, at)
  <2>2. at \in Int /\ at <= 0 /\ ts \in SUBSET Int  BY <1>1, <2>1 DEF Machines, Fires
  <2>3. d.ticks \subseteq ts \cup {at} /\ ts \subseteq d.ticks  OBVIOUS
  <2>4. Turn(r) /\ HoldAhead'  BY <1>1, <2>1 DEF HoldAhead
  <2> HIDE DEF ts
  <2>5. s \in Machines  BY <1>1, <2>2, Update
  <2>6. /\ s.phase = d.phase /\ s.owned = d.owned /\ s.zone = d.zone /\ s.tasks = d.tasks
        /\ s.pendingWake = d.pendingWake /\ s.graceFrozen = d.graceFrozen
        /\ s.until = d.until /\ s.ticks = ts /\ s.stageTicks = d.stageTicks
        /\ s.inhibited = d.inhibited /\ s.paused = d.paused
    BY <1>1 DEF Machines
  <2> HIDE DEF s
  <2>7. Sound(s, {at})
    <3>1. Yields(s) /\ Frozen(s) /\ Solo(s) /\ Seen(s) /\ Matched(s)
      BY <1>1, <2>6 DEF Sound, Loose, Yields, Frozen, Solo, Seen, Matched, Overlaid
    <3>2. Ripens(s, {at})  BY <1>1, <2>3, <2>6 DEF Sound, Loose, Ripens
    <3> QED  BY <3>1, <3>2 DEF Sound, Loose
  <2>8. Serves(d, s, v)
    <3>1. Resembles(d, s)  BY <2>3, <2>6 DEF Resembles
    <3> QED  BY <1>1, <2>5, <3>1, ResemblesServes
  <2>9. s.phase \in {"blanked"} \cup RenderPhases => Since(s, at, v)
    <3>1. CASE at >= 0  BY <1>1, <2>2, <3>1, SinceNow DEF Since
    <3>2. CASE at < 0
      <4>1. Behind(d)  BY <2>1, <3>2 DEF Behind
      <4> QED  BY <1>1, <2>6, <4>1 DEF Served, Since, Covers, RenderPhases
    <3> QED  BY <2>2, <3>1, <3>2
  <2>10. /\ f \in Machines /\ Sound(f, {at}) /\ Extends(s, f) /\ Serves(s, f, v)
         /\ d.phase = "grace" => f.phase = "grace"
    BY <1>1, <2>2, <2>5, <2>6, <2>7, <2>8, <2>9, FedKeeps, FedSound, FedServes
    DEF Keeps, Extends, Serves
  <2> HIDE DEF f
  <2>11. f.paused \in Int => f.paused >= 0  BY <1>1, <2>6, <2>10, Options DEF Extends, Punctual
  <2>12. /\ r \in Machines /\ Sound(r, {}) /\ Extends(f, r) /\ Serves(f, r, v)
         /\ r.paused \in Int => r.paused > at
         /\ f.phase = "grace" /\ r.phase \notin {"grace", "active"} => v = GracePeriod
    BY <1>1, <2>2, <2>10, <2>11, OnTickKeeps, OnTickSound, OnTickServes
    DEF Keeps, Extends, Serves
  <2> HIDE DEF r
  <2>13. Punctual(r)
    <3>1. SUFFICES ASSUME r.paused \in Int
                   PROVE  r.paused >= 0 /\ r.paused \in r.ticks
      BY DEF Punctual
    <3>2. r.paused = d.paused /\ s.ticks \subseteq r.ticks
      BY <2>6, <2>10, <2>12, <3>1, Options DEF Extends
    <3>3. d.paused >= 0 /\ d.paused \in d.ticks  BY <1>1, <3>1, <3>2 DEF Punctual
    <3>4. d.paused # at  BY <2>2, <2>12, <3>1, <3>2
    <3> QED  BY <2>3, <2>6, <3>2, <3>3, <3>4
  <2>14. r.zone = d.zone /\ Served(r, v)  BY <2>8, <2>10, <2>12 DEF Serves
  <2>15. Timely'  BY <2>4, <2>12, <2>13, <2>14, TurnServes DEF v
  <2>16. d'.phase = r.phase
    <3>1. d' = Settled(r)  BY <2>4 DEF Turn
    <3> QED  BY <2>12, <3>1, SettledSound
  <2> QED  BY <2>10, <2>12, <2>15, <2>16 DEF GraceBlanks, v
<1>4. CASE DisplayStageTick
  <2>1. PICK k \in d.stageTicks :
            /\ Fires(k.at)
            /\ Turn(OnStageTick(Fed([d EXCEPT !.stageTicks = @ \ {k}], k.at), k.gen, k.at))
            /\ UNCHANGED <<ruled, owns, claimed, holdUntil, panel, surface>>
    BY <1>4 DEF DisplayStageTick
  <2>2. k.at \in Int /\ k.gen \in Gens  BY <1>1, <2>1 DEF Machines
  <2>3. k.at = 0  BY <1>1, <2>1, <2>2 DEF Fires, Served, OnTime
  <2> DEFINE ts == d.stageTicks \ {k}
             s == [d EXCEPT !.stageTicks = ts]
             f == Fed(s, 0)
             r == OnStageTick(f, k.gen, 0)
  <2>4. ts \in SUBSET [gen : Gens, at : Int] /\ ts \subseteq d.stageTicks
    BY <1>1 DEF Machines
  <2>5. Turn(r) /\ HoldAhead' /\ owns' = owns  BY <1>1, <2>1, <2>3 DEF HoldAhead
  <2> HIDE DEF ts
  <2>6. s \in Machines  BY <1>1, <2>4, Update
  <2>7. Alike(d, s) /\ Resembles(d, s)  BY <1>1, <2>4 DEF Machines, Alike, Same, Resembles
  <2> HIDE DEF s
  <2>8. /\ Sound(s, {}) /\ s.phase = d.phase /\ s.owned = d.owned
        /\ Serves(d, s, v) /\ Punctual(s)
    BY <1>1, <2>6, <2>7, AlikeSound, ResemblesServes DEF Alike, Same, Punctual
  <2>9. Since(s, 0, v)  BY <1>1, <1>2, SinceNow DEF Since
  <2>10. /\ f \in Machines /\ Sound(f, {}) /\ AsFed(f) /\ Extends(s, f) /\ Serves(s, f, v)
         /\ d.phase = "grace" => f.phase = "grace"
    BY <1>1, <1>2, <2>6, <2>8, <2>9, FedKeeps, FedSound, FedServes
    DEF Keeps, Extends, Serves
  <2> HIDE DEF f
  <2>11. /\ r \in Machines /\ Obeys(f, r, {}) /\ Extends(f, r) /\ Serves(f, r, v)
    BY <1>1, <1>2, <2>2, <2>10, OnStageTickKeeps, OnStageTickSound, OnStageTickServes
    DEF Keeps, Extends, Serves
  <2> HIDE DEF r
  <2>12. Punctual(r)  BY <2>8, <2>10, <2>11, PunctualExtends
  <2>13. r.zone = d.zone /\ Served(r, v)  BY <2>8, <2>10, <2>11 DEF Serves
  <2>14. Timely'  BY <2>5, <2>11, <2>12, <2>13, TurnServes DEF v, Obeys
  <2> QED  BY <2>5, <2>10, <2>11, <2>14, TurnObeys
<1>5. CASE InputWakeHoldExpiry
  <2>1. holdUntil \in Int /\ holdUntil <= 0
    BY <1>5 DEF InputWakeHoldExpiry, Fires, Inv, TypeOK
  <2>2. holdUntil = 0  BY <1>1, <1>5, <2>1 DEF InputWakeHoldExpiry, HoldAhead
  <2> DEFINE c == [d EXCEPT !.hold = FALSE]
             f == Fed(c, 0)
             r == IF d.zone = "absent" THEN OnZonePresent(f, FALSE, 0) ELSE f
  <2>3. Turn(r) /\ owns' = owns /\ HoldAhead'
    BY <1>5, <2>2 DEF InputWakeHoldExpiry, HoldAhead
  <2>4. c \in Machines  BY <1>1, Recorded
  <2>5. Alike(d, c) /\ Resembles(d, c)  BY <1>1 DEF Machines, Alike, Same, Resembles
  <2> HIDE DEF c
  <2>6. /\ Sound(c, {}) /\ c.phase = d.phase /\ c.owned = d.owned
        /\ Serves(d, c, v) /\ Punctual(c)
    BY <1>1, <2>4, <2>5, AlikeSound, ResemblesServes DEF Alike, Same, Punctual
  <2>7. Since(c, 0, v)  BY <1>1, <1>2, SinceNow DEF Since
  <2>8. /\ f \in Machines /\ Sound(f, {}) /\ AsFed(f) /\ Extends(c, f) /\ Serves(c, f, v)
        /\ d.phase = "grace" => f.phase = "grace"
    BY <1>1, <1>2, <2>4, <2>6, <2>7, FedKeeps, FedSound, FedServes
    DEF Keeps, Extends, Serves
  <2> HIDE DEF f
  <2>9. f.zone = d.zone /\ Served(f, v) /\ Punctual(f)
    BY <2>6, <2>8, PunctualExtends DEF Serves
  <2> DEFINE z == OnZonePresent(f, FALSE, 0)
  <2>10. z \in Machines /\ Obeys(f, z, {}) /\ Extends(f, z) /\ Served(z, v) /\ z.zone = "absent"
    BY <1>1, <1>2, <2>8, <2>9, OnZonePresentKeeps, OnZonePresentSound, OnZonePresentServes
    DEF Keeps, Extends
  <2>11. /\ r \in Machines /\ Obeys(f, r, {}) /\ Served(r, v) /\ r.zone = d.zone
         /\ Punctual(r)
    BY <2>8, <2>9, <2>10, PunctualExtends DEF Obeys
  <2> HIDE DEF r
  <2>12. Timely'  BY <2>3, <2>11, TurnServes DEF v, Obeys
  <2> QED  BY <2>3, <2>8, <2>11, <2>12, TurnObeys
<1> QED  BY <1>3, <1>4, <1>5 DEF TimerFires

\* A result is handled as of an instant at which the zone was as vacant.
LEMMA TaskTimely ==
    ASSUME Unhurried, Inv, Law, Timely, TaskFinishes
    PROVE  Timely'
<1> DEFINE v == vacantFor
<1>1. /\ d \in Machines /\ Sound(d, {}) /\ v \in 0 .. GracePeriod /\ lag \in Nat
      /\ Served(d, v) /\ Punctual(d) /\ HoldAhead /\ Since(d, -lag, v)
      /\ lag <= MaxLatency /\ MaxLatency \in Nat
  BY RuntimeAssumption DEF Inv, TypeOK, Law, Timely
<1> HIDE DEF v
<1>2. -lag \in Int /\ -lag <= 0 /\ -lag >= -MaxLatency  BY <1>1
<1> PICK k \in d.tasks :
        \/ \E ok \in BOOLEAN :
                BlankFinishes(k, ok) \/ WakeFinishes(k, ok) \/ ShowFinishes(k, ok)
        \/ TeardownFinishes(k)
  BY DEF TaskFinishes
<1>3. ASSUME NEW r, Keeps(d, r), Obeys(d, r, {}), Serves(d, r, v), Turn(r),
             holdUntil' = holdUntil
      PROVE  Timely'
  <2>1. r \in Machines /\ Punctual(r)
    BY <1>1, <1>3, PunctualExtends DEF Keeps, Extends
  <2>2. HoldAhead'  BY <1>1, <1>3 DEF HoldAhead
  <2> QED  BY <1>3, <2>1, <2>2, TurnServes DEF Serves, Obeys, v
<1>4. ASSUME NEW ok \in BOOLEAN, BlankFinishes(k, ok) PROVE Timely'
  <2> DEFINE r == OnBlankResult([d EXCEPT !.tasks = @ \ {k}], k.gen, ok, -lag)
  <2>1. k.kind = "blank" /\ Turn(r) /\ holdUntil' = holdUntil /\ k.age >= MinLatency
    BY <1>4 DEF BlankFinishes, Finishes, Without
  <2>2. k.age # 0  BY <2>1, RuntimeAssumption
  <2>3. Keeps(d, r) /\ Obeys(d, r, {}) /\ Serves(d, r, v)
    BY <1>1, <1>2, <2>1, <2>2, BlankResultKeeps, BlankResultSound, BlankResultServes
  <2> HIDE DEF r
  <2> QED  BY <1>3, <2>1, <2>3
<1>5. ASSUME NEW ok \in BOOLEAN, WakeFinishes(k, ok) PROVE Timely'
  <2> DEFINE r == OnWakeResult([d EXCEPT !.tasks = @ \ {k}], k.gen, ok, -lag)
  <2>1. k.kind = "wake" /\ Turn(r) /\ holdUntil' = holdUntil
    BY <1>5 DEF WakeFinishes, Finishes, Without
  <2>2. Keeps(d, r) /\ Obeys(d, r, {}) /\ Serves(d, r, v)
    BY <1>1, <1>2, <2>1, WakeResultKeeps, WakeResultSound, WakeResultServes
  <2> HIDE DEF r
  <2> QED  BY <1>3, <2>1, <2>2
<1>6. ASSUME NEW ok \in BOOLEAN, ShowFinishes(k, ok) PROVE Timely'
  <2> DEFINE r == OnRenderResult([d EXCEPT !.tasks = @ \ {k}], k.gen, ok, -lag)
  <2>1. k.kind = "show" /\ Turn(r) /\ holdUntil' = holdUntil
    BY <1>6 DEF ShowFinishes, Finishes, Without
  <2>2. Keeps(d, r) /\ Obeys(d, r, {}) /\ Serves(d, r, v)
    BY <1>1, <1>2, <2>1, RenderResultKeeps, RenderResultSound, RenderResultServes
  <2> HIDE DEF r
  <2> QED  BY <1>3, <2>1, <2>2
<1>7. ASSUME TeardownFinishes(k) PROVE Timely'
  <2>1. PICK shows \in SUBSET {u \in d.tasks : u.kind = "show"} :
            d' = [d EXCEPT !.tasks = (@ \ (shows \cup {k}))
                            \cup {[u EXCEPT !.superseded = TRUE] : u \in shows}]
    BY <1>7 DEF TeardownFinishes
  <2> DEFINE ts == (d.tasks \ (shows \cup {k})) \cup {[u EXCEPT !.superseded = TRUE] : u \in shows}
             r == [d EXCEPT !.tasks = ts]
  <2>2. d' = r /\ UNCHANGED <<holdUntil, lag, vacantFor>>
    BY <1>7, <2>1 DEF TeardownFinishes
  <2>3. ASSUME NEW u \in shows
        PROVE  /\ [u EXCEPT !.superseded = TRUE].kind = "show"
               /\ [u EXCEPT !.superseded = TRUE].age = u.age
               /\ [u EXCEPT !.superseded = TRUE] \in Tasks
    <3>1. u \in Tasks /\ u.kind = "show"  BY <1>1 DEF Machines
    <3> QED  BY <3>1 DEF Tasks
  <2>4. /\ \A t \in ts : t.kind = "blank" => t \in d.tasks
        /\ \A t \in ts : \E u \in d.tasks : t.age = u.age
        /\ ts \in SUBSET Tasks
    <3>1. d.tasks \in SUBSET Tasks /\ shows \subseteq d.tasks  BY <1>1 DEF Machines
    <3>2. ASSUME NEW t \in ts
          PROVE  \/ t \in d.tasks
                 \/ \E u \in shows : t = [u EXCEPT !.superseded = TRUE]
      OBVIOUS
    <3>3. ASSUME NEW t \in ts
          PROVE  /\ t.kind = "blank" => t \in d.tasks
                 /\ \E u \in d.tasks : t.age = u.age
                 /\ t \in Tasks
      <4>1. CASE t \in d.tasks  BY <3>1, <4>1
      <4>2. ASSUME NEW u \in shows, t = [u EXCEPT !.superseded = TRUE]
            PROVE  t.kind = "show" /\ t.age = u.age /\ t \in Tasks /\ u \in d.tasks
        BY <2>3, <3>1, <4>2
      <4> QED  BY <3>2, <4>1, <4>2
    <3> QED  BY <3>3
  <2> HIDE DEF ts
  <2>5. r \in Machines  BY <1>1, <2>4, Update
  <2>6. Resembles(d, r)  BY <1>1, <2>4 DEF Machines, Resembles
  <2>7. r.tasks = ts /\ r.paused = d.paused /\ r.ticks = d.ticks  BY <1>1 DEF Machines
  <2> HIDE DEF r
  <2>8. Serves(d, r, v)  BY <1>1, <2>5, <2>6, ResemblesServes
  <2>9. Punctual(r) /\ \A t \in r.tasks : lag <= t.age
    BY <2>4, <2>7 DEF Timely, Punctual
  <2> QED  BY <2>2, <2>8, <2>9 DEF Timely, Serves, Since, HoldAhead, v
<1> QED  BY <1>4, <1>5, <1>6, <1>7

\* The zone has been vacant for as long as time passes, and what is left of a
\* countdown grows by no more.
LEMMA TimeTimely ==
    ASSUME Inv, Law, Timely, TimePasses
    PROVE  Timely'
<1>1. /\ d \in Machines /\ Past \in Nat /\ Sound(d, {}) /\ vacantFor \in 0 .. GracePeriod
      /\ lag \in Nat /\ MaxLatency \in Nat /\ Punctual(d)
      /\ holdUntil \in Int \cup {None}
  BY RuntimeAssumption DEF Inv, TypeOK, Law, Timely
<1> DEFINE un == IF d.phase = "grace" THEN Earlier(d.until) ELSE d.until
           pa == EarlierOpt(d.paused)
           sd == EarlierOpt(d.stageDeadline)
           lw == EarlierOpt(d.lastWake)
           sa == Earlier(d.startedAt)
           tk == {t - 1 : t \in d.ticks}
           st == {[t EXCEPT !.at = t.at - 1] : t \in d.stageTicks}
           ta == {[t EXCEPT !.age = t.age + 1] : t \in d.tasks}
           r  == [d EXCEPT !.until = un, !.paused = pa, !.stageDeadline = sd,
                           !.lastWake = lw, !.startedAt = sa,
                           !.ticks = tk, !.stageTicks = st, !.tasks = ta]
<1>2. d' = r  BY DEF TimePasses, Older
<1>3. d.phase = "grace" => un = Earlier(d.until)  OBVIOUS
<1>4. pa \in Int => d.paused \in Int /\ (d.paused > 0 => pa = d.paused - 1)
  <2>1. d.paused \in Int \cup {None, Forever}  BY <1>1 DEF Machines
  <2> QED  BY <1>1, <2>1, Options DEF EarlierOpt, Earlier
<1>5. \A t \in d.ticks : t \in Int /\ t > 0 /\ t - 1 \in tk
  BY <1>1 DEF Machines, TimePasses, Deadlines
<1>6. \A x \in tk : x \in Int /\ x >= 0  BY <1>5
<1>7. \A k \in st : k.at \in Int /\ k.at >= 0
  <2>1. ASSUME NEW k \in d.stageTicks
                PROVE  /\ [k EXCEPT !.at = k.at - 1].at \in Int
                       /\ [k EXCEPT !.at = k.at - 1].at >= 0
    <3>1. k \in [gen : Gens, at : Int]  BY <1>1 DEF Machines
    <3>2. k.at > 0  BY DEF TimePasses, Deadlines
    <3> QED  BY <3>1, <3>2
  <2> QED  BY <2>1
<1>8. \A v \in ta : \E t \in d.tasks : v.age = t.age + 1
  <2>1. ASSUME NEW t \in d.tasks PROVE [t EXCEPT !.age = t.age + 1].age = t.age + 1
    <3>1. t \in Tasks  BY <1>1 DEF Machines
    <3> QED  BY <3>1 DEF Tasks
  <2> QED  BY <2>1
<1>9. \A t \in d.tasks : t.age \in Nat /\ t.age < MaxLatency /\ lag <= t.age
  BY <1>1 DEF Machines, Tasks, TimePasses, Timely
<1>10. d.tasks = {} => ta = {}  OBVIOUS
<1> HIDE DEF un, pa, sd, lw, sa, tk, st, ta
<1>11. /\ r.phase = d.phase /\ r.zone = d.zone /\ r.tasks = ta /\ r.stageTicks = st
       /\ r.graceFrozen = d.graceFrozen /\ r.until = un /\ r.ticks = tk /\ r.paused = pa
  BY <1>1 DEF Machines
<1> HIDE DEF r
<1>12. d.zone = "absent" => vacantFor' = Lesser(vacantFor + 1, GracePeriod)
  BY DEF TimePasses
<1>13. vacantFor' \in 0 .. GracePeriod
  BY <1>1, Durations DEF TimePasses, Lesser
<1>14. Served(r, vacantFor')
  <2>1. OnTime(r) /\ ~Behind(r)
    <3>1. OnTime(r)  BY <1>7, <1>11 DEF OnTime
    <3>2. ~Behind(r)  BY <1>6, <1>11 DEF Behind
    <3> QED  BY <3>1, <3>2
  <2>2. d.phase = "grace" => Covers(Left(r), vacantFor')
    <3>1. SUFFICES ASSUME d.phase = "grace" PROVE Covers(Left(r), vacantFor')  OBVIOUS
    <3>2. d.zone = "absent"  BY <1>1, <3>1 DEF Sound, Loose, Ripens
    <3>3. Covers(Left(d), vacantFor)  BY <3>1 DEF Timely, Served
    <3>4. d.until \in Int /\ d.graceFrozen \in Nat \cup {None}  BY <1>1 DEF Machines
    <3>5. Left(d) \in Int /\ Left(r) \in Int /\ Left(r) >= Left(d) - 1
      BY <1>1, <1>3, <1>11, <3>1, <3>4 DEF Left, Earlier
    <3> QED  BY <1>1, <1>12, <3>2, <3>3, <3>5, Durations DEF Covers, Lesser
  <2> QED  BY <1>11, <2>1, <2>2 DEF Served
<1>15. Punctual(r)
  <2>1. SUFFICES ASSUME pa \in Int PROVE pa >= 0 /\ pa \in tk
    BY <1>11 DEF Punctual
  <2>2. d.paused \in d.ticks  BY <1>1, <1>4, <2>1 DEF Punctual
  <2> QED  BY <1>4, <1>5, <1>6, <2>1, <2>2
<1>16. lag' <= MaxLatency /\ \A t \in r.tasks : lag' <= t.age
  <2>1. CASE d.tasks = {}
    <3>1. lag' = 0  BY <2>1 DEF TimePasses
    <3> QED  BY <1>1, <1>10, <1>11, <2>1, <3>1
  <2>2. CASE d.tasks # {}
    <3>1. lag' = lag + 1  BY <2>2 DEF TimePasses
    <3> QED  BY <1>1, <1>8, <1>9, <1>11, <2>2, <3>1
  <2> QED  BY <2>1, <2>2
<1>17. Since(r, -lag', vacantFor')
  <2>1. SUFFICES ASSUME d.zone = "absent"
                 PROVE  Covers(-lag' + GracePeriod, vacantFor')
    BY <1>11 DEF Since
  <2>2. Covers(-lag + GracePeriod, vacantFor)  BY <2>1 DEF Timely, Since
  <2>3. lag' = 0 \/ lag' = lag + 1  BY DEF TimePasses
  <2> QED  BY <1>1, <1>12, <1>13, <2>1, <2>2, <2>3, Durations DEF Covers, Lesser
<1>18. HoldAhead'
  <2>1. holdUntil # None => holdUntil > 0  BY DEF TimePasses, Deadlines
  <2> QED  BY <1>1, <2>1, Options DEF HoldAhead, TimePasses
<1> QED  BY <1>2, <1>14, <1>15, <1>16, <1>17, <1>18 DEF Timely

LEMMA InitTimely == Init => Timely
<1> SUFFICES ASSUME Init PROVE Timely  OBVIOUS
<1>1. New \in Machines
  <2>1. 0 \in Gens /\ 0 \in Int  BY GenAssumption DEF Gens
  <2> QED  BY <2>1 DEF New, Machines, Phases
<1>2. /\ New.phase = "active" /\ New.paused = None /\ New.tasks = {}
      /\ New.stageTicks = {} /\ New.zone = "unknown" /\ New.ticks = {}
  BY DEF New
<1>3. \E p \in {"active", "waking", "blanked"} :
          /\ d.phase = p /\ d.paused = None /\ d.tasks = {} /\ d.stageTicks = {}
          /\ d.zone = "unknown" /\ d.ticks \in {{}, {RetryInterval}}
  <2>1. CASE d = New  BY <1>2, <2>1
  <2>2. CASE d = [New EXCEPT !.ticks = {RetryInterval}]
    BY <1>1, <1>2, <2>2 DEF Machines
  <2>3. ASSUME NEW p \in {"blanked", "waking"}, d = Restored(p, 0)
        PROVE  /\ d.phase = p /\ d.paused = None /\ d.tasks = {} /\ d.stageTicks = {}
               /\ d.zone = "unknown" /\ d.ticks \in {{}, {RetryInterval}}
    <3> DEFINE ts == IF p = "waking" THEN {RetryInterval} ELSE {}
               r == [New EXCEPT !.phase = p, !.cmdGen = 0, !.ticks = ts]
    <3>1. d = r  BY <2>3 DEF Restored
    <3>2. ts \in {{}, {RetryInterval}}  OBVIOUS
    <3> HIDE DEF ts
    <3>3. /\ r.phase = p /\ r.paused = None /\ r.tasks = {} /\ r.stageTicks = {}
          /\ r.zone = "unknown" /\ r.ticks = ts
      BY <1>1, <1>2 DEF Machines
    <3> QED  BY <3>1, <3>2, <3>3
  <2> QED  BY <2>1, <2>2, <2>3 DEF Init
<1>4. RetryInterval \in Int /\ RetryInterval > 0  BY TimingAssumption
<1>5. ~Behind(d) /\ OnTime(d) /\ Punctual(d)
  <2>1. ~Behind(d)  BY <1>3, <1>4 DEF Behind
  <2>2. OnTime(d)  BY <1>3 DEF OnTime
  <2>3. Punctual(d)  BY <1>3, Options DEF Punctual
  <2> QED  BY <2>1, <2>2, <2>3
<1>6. Served(d, vacantFor)  BY <1>3, <1>5 DEF Served, RenderPhases
<1>7. lag = 0 /\ holdUntil = None /\ 0 <= MaxLatency
  BY RuntimeAssumption DEF Init
<1> QED  BY <1>3, <1>5, <1>6, <1>7 DEF Timely, Since, HoldAhead

LEMMA NextTimely ==
    ASSUME Unhurried
    PROVE  Inv /\ Law /\ Timely /\ [Next]_vars =>
                Timely' /\ [GraceBlanks => vacantFor = GracePeriod]_vars
<1>1. Gentle  BY DEF Gentle, Unhurried
<1> SUFFICES ASSUME Inv, Law, Timely, [Next]_vars
             PROVE  Timely' /\ [GraceBlanks => vacantFor = GracePeriod]_vars
  OBVIOUS
<1>2. CASE InputArrives  BY <1>1, <1>2, InputTimely, InputLaw
<1>3. CASE TimerFires  BY <1>3, TimerTimely
<1>4. CASE TaskFinishes  BY <1>4, TaskTimely, TaskLaw
<1>5. CASE TimePasses  BY <1>5, TimeTimely, TimeLaw
<1>6. CASE UNCHANGED vars
  BY <1>6 DEF vars, Timely, HoldAhead
<1> QED  BY <1>2, <1>3, <1>4, <1>5, <1>6 DEF Next, Happens

-----------------------------------------------------------------------------

\* Whatever freezes, holds, lost and regained ownership, failed blanks and late
\* results lie between, a blank that no operator asked for follows a vacancy of
\* at least the Grace period; provided that no dwell is shorter than a command
\* may take, and that no one puts up a render stage by order.
THEOREM VacancyIsServed ==
    ASSUME Unhurried
    PROVE  Spec => GraceIsServed
<1>1. Gentle  BY DEF Gentle, Unhurried
<1>2. Spec => [](Inv /\ Law)  BY <1>1, Invariance, Lawful, PTL
<1>3. Init => Timely  BY InitTimely
<1>4. Inv /\ Law /\ Timely /\ [Next]_vars =>
            Timely' /\ [GraceBlanks => vacantFor = GracePeriod]_vars
  BY NextTimely
<1> QED  BY <1>2, <1>3, <1>4, PTL DEF Spec, GraceIsServed

=============================================================================
