---------------------------- MODULE StartProofs ----------------------------
(***************************************************************************)
(* Theorems about what a process does when it starts: the boot guard, for  *)
(* any number of processes and of configs, any windows and thresholds, and *)
(* any number of events; and the recovery of black gamma tables, for any   *)
(* number of screens and of processes and any number of mishaps.           *)
(*                                                                         *)
(* That only proven bytes reach last-known-good.toml is not inductive: it  *)
(* rests on what the candidate holds (Proven), and that on whether the     *)
(* operator's file is still the one the daemon has read (Fresh), which a   *)
(* daemon started on the last-known-good config never asks.                *)
(*                                                                         *)
(* Nor is DarkHasWayBack.  That a recovery removes no breadcrumb a dark    *)
(* screen needs follows from what holds between its restore and the start  *)
(* of its daemon (Clean); that a selector leaves the breadcrumb only when  *)
(* its screen is lit follows from where its wake stands (Stages).          *)
(***************************************************************************)
EXTENDS BootGuard, GammaBlank, FiniteSetTheorems, SequenceTheorems, TLAPS

-----------------------------------------------------------------------------
(* The boot guard: the inductive invariant *)

Assembled(p) == p.pc \in {"assembled", "up", "reloading"}

\* A process that has assembled its config runs it; one that has not yet
\* chosen the last-known-good config knows that it is not on a rollback.
Placed(p) ==
  /\ Assembled(p) => p.running \in Builds
  /\ p.pc \in {"prepared", "built"} /\ ~p.onLkg => p.chosen = "operator"

\* What a process last read of the operator's file is there still, unless it is
\* late.
Fresh(p) ==
  /\ p.pc = "assembled" /\ ~p.late /\ ~p.onLkg => p.running = config
  /\ p.pc = "reloading" /\ ~p.late => p.loading = config

\* A candidate is what runs, unless it was raced, and not older than its run.
Proven(p) ==
  p.cand # None =>
    /\ p.pc \in {"up", "reloading"}
    /\ p.raced \/ p.cand.bytes = p.running
    /\ p.cand.age <= p.age

ProcInv(p) == p \in Proc /\ Placed(p) /\ Fresh(p) /\ Proven(p)

IInv == BootTypeOK /\ \A i \in Instances : ProcInv(procs[i])

USE BootAssumption DEF BootAssumption

-----------------------------------------------------------------------------
(* Starts and processes *)

\* What is done to every recorded start leaves a sequence as long as it was.
LEMMA Recorded ==
  ASSUME BootTypeOK, NEW s \in [1 .. Len(starts) -> Start]
  PROVE  s \in Seq(Start) /\ Len(s) = Len(starts)
<1>1. Len(starts) \in Nat
  BY DEF BootTypeOK
<1> QED  BY <1>1, SeqDef

LEMMA SettledTyped ==
  ASSUME BootTypeOK, NEW i \in Instances
  PROVE  Settled(i) \in Seq(Start) /\ Len(Settled(i)) = Len(starts)
<1>1. \A k \in 1 .. Len(starts) : starts[k] \in Start
  BY DEF BootTypeOK
<1>2. Settled(i) \in [1 .. Len(starts) -> Start]
  BY <1>1 DEF Settled, Start
<1> QED  BY <1>2, Recorded

LEMMA SweptTyped ==
  ASSUME BootTypeOK
  PROVE  Swept \in Seq(Start) /\ Len(Swept) = Len(starts)
<1>1. \A k \in 1 .. Len(starts) : starts[k] \in Start
  BY DEF BootTypeOK
<1>2. Swept \in [1 .. Len(starts) -> Start]
  BY <1>1 DEF Swept, Start
<1> QED  BY <1>2, Recorded

\* The oldest start makes room: crash-loop.json never outgrows its bound.
LEMMA CappedTyped ==
  ASSUME NEW s \in Seq(Start), NEW e \in Start, Len(s) <= MaxStarts
  PROVE  /\ Capped(Append(s, e)) \in Seq(Start)
         /\ Len(Capped(Append(s, e))) <= MaxStarts
<1> DEFINE t == Append(s, e)
<1>1. t \in Seq(Start) /\ Len(t) = Len(s) + 1
  OBVIOUS
<1> HIDE DEF t
<1>2. Len(s) \in Nat
  OBVIOUS
<1>3. CASE Len(t) > MaxStarts
  <2>1. Tail(t) \in Seq(Start) /\ Len(Tail(t)) = Len(t) - 1
    BY <1>1, <1>2, <1>3
  <2> QED  BY <1>1, <1>2, <1>3, <2>1 DEF Capped, t
<1>4. CASE ~(Len(t) > MaxStarts)
  BY <1>1, <1>2, <1>4 DEF Capped, t
<1> QED  BY <1>3, <1>4

LEMMA DownHolds == ProcInv(Down)
<1>1. None \notin Files /\ 0 \in 0 .. DeferCap /\ 0 \in 0 .. Stability
  BY DEF Files
<1>2. Down \in Proc
  BY <1>1 DEF Down, Proc
<1> QED  BY <1>2 DEF ProcInv, Placed, Fresh, Proven, Assembled, Down

\* One process changes, while the operator's file does not.
LEMMA OneChanges ==
  ASSUME IInv, NEW i \in Instances, NEW p, ProcInv(p), Set(i, p), UNCHANGED config
  PROVE  procs' \in [Instances -> Proc] /\ \A j \in Instances : ProcInv(procs[j])'
<1>1. procs \in [Instances -> Proc] /\ procs' = [procs EXCEPT ![i] = p]
  BY DEF IInv, BootTypeOK, Set
<1>2. procs'[i] = p /\ \A j \in Instances : j # i => procs'[j] = procs[j]
  BY <1>1
<1>3. ASSUME NEW q, ProcInv(q)  PROVE ProcInv(q)'
  BY <1>3 DEF ProcInv, Placed, Fresh, Proven, Assembled, Proc, Candidate, Files
<1>4. \A j \in Instances : ProcInv(procs[j])
  BY DEF IInv
<1>5. ASSUME NEW j \in Instances  PROVE ProcInv(procs[j])'
  <2>1. PICK q : q = procs'[j] /\ ProcInv(q)
    BY <1>2, <1>4
  <2>2. ProcInv(q)'
    BY <1>3, <2>1
  <2> QED  BY <2>1, <2>2
<1>6. p \in Proc
  BY DEF ProcInv
<1> QED  BY <1>1, <1>5, <1>6

-----------------------------------------------------------------------------
(* The steps of a process *)

LEMMA InitInv == BootInit => IInv
<1> SUFFICES ASSUME BootInit  PROVE IInv
  OBVIOUS
<1>1. Down \in Proc /\ ProcInv(Down)
  BY DownHolds DEF ProcInv
<1>2. procs \in [Instances -> Proc] /\ \A i \in Instances : ProcInv(procs[i])
  BY <1>1 DEF BootInit
<1>3. NoRollback \in Rollback
  BY DEF NoRollback, Rollback
<1>4. starts \in Seq(Start) /\ Len(starts) <= MaxStarts
  BY DEF BootInit
<1>5. BootTypeOK
  BY <1>2, <1>3, <1>4 DEF BootInit, BootTypeOK
<1> QED  BY <1>2, <1>5 DEF IInv

\* What one process does to the rest of the state is of its type.
Apart ==
  /\ lkg' \in Configs \cup {None}
  /\ starts' \in Seq(Start) /\ Len(starts') <= MaxStarts
  /\ rollback' \in Rollback
  /\ holder' \in Instances \cup {None}
  /\ events' \in 0 .. MaxEvents

LEMMA ProcStep ==
  ASSUME IInv, NEW i \in Instances, NEW p, ProcInv(p), Set(i, p),
         UNCHANGED config, Apart
  PROVE  IInv'
<1>1. procs' \in [Instances -> Proc] /\ \A j \in Instances : ProcInv(procs[j])'
  BY OneChanges
<1>2. BootTypeOK'
  BY <1>1 DEF IInv, BootTypeOK, Apart
<1> QED  BY <1>1, <1>2 DEF IInv

LEMMA EventTyped ==
  ASSUME IInv, NEW n \in Nat, Event(n)
  PROVE  events' \in 0 .. MaxEvents
BY DEF IInv, BootTypeOK, Event

LEMMA PersistTyped ==
  ASSUME IInv, NEW pair \in Rollback, Persist(pair)
  PROVE  rollback' \in Rollback /\ events' \in 0 .. MaxEvents
BY EventTyped DEF IInv, BootTypeOK, Persist

LEMMA RolledBack ==
  ASSUME IInv
  PROVE  [active |-> TRUE, from |-> config] \in Rollback /\ Cleared \in Rollback
<1>1. config \in Files /\ config # None
  BY DEF IInv, BootTypeOK, Files
<1> QED  BY <1>1 DEF Rollback, Cleared, NoRollback

LEMMA ExitStep ==
  ASSUME IInv, NEW i \in Instances, Exit(i),
         UNCHANGED <<config, lkg>>, rollback' \in Rollback, events' \in 0 .. MaxEvents
  PROVE  IInv'
<1>1. Settled(i) \in Seq(Start) /\ Len(Settled(i)) = Len(starts)
  BY SettledTyped DEF IInv
<1>2. Set(i, Down) /\ Apart
  BY <1>1 DEF Exit, Apart, IInv, BootTypeOK
<1> QED  BY <1>2, DownHolds, ProcStep

\* A new process runs the last-known-good config only on a rollback.
LEMMA PrepareStep ==
  ASSUME IInv, NEW i \in Instances, Prepare(i)
  PROVE  IInv'
<1> DEFINE entry == [age |-> 0, fp |-> config, by |-> i, discount |-> None]
           recorded == Capped(Append(Swept, entry))
           verdict == Verdict(recorded, RollbackGate)
           pair == CASE verdict.action = "RollBack" -> [active |-> TRUE, from |-> config]
                     [] verdict.clear               -> Cleared
                     [] OTHER                       -> rollback
           stray == IF i = Service THEN 0 ELSE 1
           next == [Down EXCEPT !.pc = "prepared",
                      !.chosen = IF verdict.action = "Proceed" THEN "operator" ELSE "lkg",
                      !.onLkg  = verdict.action # "Proceed"]
<1>1. /\ \/ starts' = recorded /\ rollback' = pair /\ Event(stray)
         \/ starts' = Swept /\ UNCHANGED rollback /\ Event(stray + 1)
      /\ Set(i, next)
      /\ UNCHANGED <<config, lkg, holder>>
  BY Zenon DEF Prepare
<1>2. Swept \in Seq(Start) /\ Len(Swept) <= MaxStarts
  BY SweptTyped DEF IInv, BootTypeOK
<1>3. entry \in Start
  BY DEF IInv, BootTypeOK, Start, Ages
<1>4. recorded \in Seq(Start) /\ Len(recorded) <= MaxStarts
  BY <1>2, <1>3, CappedTyped
<1> HIDE DEF verdict, recorded, entry
<1>5. pair \in Rollback
  BY RolledBack DEF IInv, BootTypeOK
<1>6. stray \in Nat /\ stray + 1 \in Nat
  OBVIOUS
<1>7. PICK a \in {"operator", "lkg"}, r \in BOOLEAN :
        /\ next = [Down EXCEPT !.pc = "prepared", !.chosen = a, !.onLkg = r]
        /\ ~r => a = "operator"
  <2>1. CASE verdict.action = "Proceed"
    BY <2>1
  <2>2. CASE verdict.action # "Proceed"
    BY <2>2
  <2> QED  BY <2>1, <2>2
<1>8. ProcInv(next)
  <2>1. Down \in Proc /\ Down.cand = None
    BY DownHolds DEF ProcInv, Down
  <2>2. [Down EXCEPT !.pc = "prepared", !.chosen = a, !.onLkg = r] \in Proc
    BY <2>1 DEF Proc
  <2> QED  BY <1>7, <2>1, <2>2 DEF ProcInv, Placed, Fresh, Proven, Assembled, Proc
<1> HIDE DEF next, pair, stray
<1>9. Apart
  BY <1>1, <1>2, <1>4, <1>5, <1>6, EventTyped DEF Apart, IInv, BootTypeOK
<1> QED  BY <1>1, <1>8, <1>9, ProcStep

\* Where a process that has built its config stands.
LEMMA BuiltHolds ==
  ASSUME IInv, NEW i \in Instances, procs[i].pc = "prepared"
  PROVE  /\ ProcInv([procs[i] EXCEPT !.pc = "built"])
         /\ ProcInv([procs[i] EXCEPT !.pc = "built", !.chosen = "lkg", !.onLkg = TRUE])
<1> DEFINE p == procs[i]
           q == [p EXCEPT !.pc = "built"]
           r == [p EXCEPT !.pc = "built", !.chosen = "lkg", !.onLkg = TRUE]
<1>1. ProcInv(p) /\ p \in Proc /\ p.pc = "prepared"
  BY DEF IInv, ProcInv
<1> SUFFICES ProcInv(q) /\ ProcInv(r)
  OBVIOUS
<1> HIDE DEF p
<1>2. q \in Proc /\ r \in Proc
  BY <1>1 DEF Proc
<1>3. q.pc = "built" /\ q.onLkg = p.onLkg /\ q.chosen = p.chosen /\ q.cand = p.cand
  BY <1>1 DEF Proc
<1>4. r.pc = "built" /\ r.onLkg = TRUE /\ r.cand = p.cand
  BY <1>1 DEF Proc
<1> HIDE DEF q, r
<1>5. p.cand = None
  BY <1>1 DEF ProcInv, Proven
<1>6. ProcInv(q)
  BY <1>1, <1>2, <1>3, <1>5 DEF ProcInv, Placed, Fresh, Proven, Assembled
<1>7. ProcInv(r)
  BY <1>2, <1>4, <1>5 DEF ProcInv, Placed, Fresh, Proven, Assembled
<1> QED  BY <1>6, <1>7

LEMMA BuildStep ==
  ASSUME IInv, NEW i \in Instances, Build(i)
  PROVE  IInv'
<1> DEFINE p == procs[i]
           q == [p EXCEPT !.pc = "built"]
           r == [p EXCEPT !.pc = "built", !.chosen = "lkg", !.onLkg = TRUE]
           pair == [active |-> TRUE, from |-> config]
<1>1. p.pc = "prepared" /\ UNCHANGED <<config, lkg>>
  BY DEF Build
<1>2. \/ Set(i, q) /\ UNCHANGED <<starts, rollback, holder, events>>
      \/ Exit(i) /\ UNCHANGED <<rollback, events>>
      \/ Persist(pair) /\ ((Set(i, r) /\ UNCHANGED <<starts, holder>>) \/ Exit(i))
  BY Zenon DEF Build
<1>3. pair \in Rollback
  BY RolledBack
<1>4. ProcInv(q) /\ ProcInv(r)
  BY <1>1, BuiltHolds
<1> HIDE DEF p, q, r, pair
<1>5. CASE Set(i, q) /\ UNCHANGED <<starts, rollback, holder, events>>
  <2>1. Apart
    BY <1>1, <1>5 DEF Apart, IInv, BootTypeOK
  <2> QED  BY <1>1, <1>4, <1>5, <2>1, ProcStep
<1>6. CASE Exit(i) /\ UNCHANGED <<rollback, events>>
  <2>1. rollback' \in Rollback /\ events' \in 0 .. MaxEvents
    BY <1>6 DEF IInv, BootTypeOK
  <2> QED  BY <1>1, <1>6, <2>1, ExitStep
<1>7. CASE Persist(pair) /\ Set(i, r) /\ UNCHANGED <<starts, holder>>
  <2>1. rollback' \in Rollback /\ events' \in 0 .. MaxEvents
    BY <1>3, <1>7, PersistTyped
  <2>2. Apart
    BY <1>1, <1>7, <2>1 DEF Apart, IInv, BootTypeOK
  <2> QED  BY <1>1, <1>4, <1>7, <2>2, ProcStep
<1>8. CASE Persist(pair) /\ Exit(i)
  <2>1. rollback' \in Rollback /\ events' \in 0 .. MaxEvents
    BY <1>3, <1>8, PersistTyped
  <2> QED  BY <1>1, <1>8, <2>1, ExitStep
<1> QED  BY <1>2, <1>5, <1>6, <1>7, <1>8

\* The loser of the flock disowns its start; the winner reads the chosen file.
LEMMA AcquireLockStep ==
  ASSUME IInv, NEW i \in Instances, AcquireLock(i)
  PROVE  IInv'
<1> DEFINE p == procs[i]
           disowned == [k \in 1 .. Len(starts) |->
                          IF starts[k].by = i
                          THEN [starts[k] EXCEPT !.by = None, !.discount = 0]
                          ELSE starts[k]]
           q == [p EXCEPT !.pc = "assembled", !.running = Chosen(p)]
<1>1. p.pc = "built" /\ UNCHANGED <<config, lkg, rollback, events>>
  BY DEF AcquireLock
<1>2. \/ Set(i, Down) /\ starts' = disowned /\ UNCHANGED holder
      \/ /\ Chosen(p) \in Builds
         /\ holder' = i /\ Set(i, q) /\ starts' = Settled(i)
      \/ Exit(i)
  BY Zenon DEF AcquireLock
<1>3. ProcInv(p) /\ p \in Proc
  BY DEF IInv, ProcInv
<1>4. rollback' \in Rollback /\ events' \in 0 .. MaxEvents
  BY <1>1 DEF IInv, BootTypeOK
<1>5. CASE Set(i, Down) /\ starts' = disowned /\ UNCHANGED holder
  <2>1. \A k \in 1 .. Len(starts) : starts[k] \in Start
    BY DEF IInv, BootTypeOK
  <2>2. disowned \in [1 .. Len(starts) -> Start]
    <3>1. 0 \in Ages
      BY DEF Ages
    <3>2. \A e \in Start : [e EXCEPT !.by = None, !.discount = 0] \in Start
      BY <3>1 DEF Start
    <3> QED  BY <2>1, <3>2
  <2> HIDE DEF disowned
  <2>3. starts' \in Seq(Start) /\ Len(starts') <= MaxStarts
    BY <1>5, <2>2, Recorded DEF IInv, BootTypeOK
  <2>4. Apart
    BY <1>1, <1>4, <1>5, <2>3 DEF Apart, IInv, BootTypeOK
  <2> QED  BY <1>1, <1>5, <2>4, DownHolds, ProcStep
<1>6. CASE /\ Chosen(p) \in Builds
           /\ holder' = i /\ Set(i, q) /\ starts' = Settled(i)
  <2>1. ~p.onLkg => Chosen(p) = config
    BY <1>1, <1>3 DEF ProcInv, Placed, Chosen
  <2>2. p.cand = None
    BY <1>1, <1>3 DEF ProcInv, Proven
  <2>3. starts' \in Seq(Start) /\ Len(starts') <= MaxStarts
    BY <1>6, SettledTyped DEF IInv, BootTypeOK
  <2>4. Apart
    BY <1>1, <1>4, <1>6, <2>3 DEF Apart, IInv, BootTypeOK
  <2>5. ProcInv(q)
    <3> DEFINE ran == Chosen(p)
    <3>1. ran \in Builds /\ (~p.onLkg => ran = config)
      BY <1>6, <2>1
    <3> HIDE DEF p, ran
    <3>2. [p EXCEPT !.pc = "assembled", !.running = ran] \in Proc
      BY <1>3, <3>1 DEF Proc
    <3>3. LET t == [p EXCEPT !.pc = "assembled", !.running = ran]
          IN  /\ t.pc = "assembled" /\ t.running = ran /\ t.onLkg = p.onLkg
              /\ t.late = p.late /\ t.cand = p.cand
      BY <1>3 DEF Proc
    <3>4. ProcInv([p EXCEPT !.pc = "assembled", !.running = ran])
      BY <2>2, <3>1, <3>2, <3>3, Zenon DEF ProcInv, Placed, Fresh, Proven, Assembled
    <3> QED  BY <3>4 DEF ran
  <2> HIDE DEF p, q
  <2> QED  BY <1>1, <1>6, <2>4, <2>5, ProcStep
<1>7. CASE Exit(i)
  BY <1>1, <1>4, <1>7, ExitStep
<1> HIDE DEF p, q, disowned
<1> QED  BY <1>2, <1>5, <1>6, <1>7

\* A candidate is the operator's file, which the daemon has read unless it is late.
LEMMA NewCandidateHolds ==
  ASSUME IInv, NEW r
  PROVE  \/ NewCandidate(r) = None
         \/ /\ NewCandidate(r) \in Candidate /\ NewCandidate(r) # None
            /\ NewCandidate(r).bytes = config /\ NewCandidate(r).age = 0
<1>1. CASE NewCandidate(r) = None
  BY <1>1
<1>2. CASE NewCandidate(r) # None
  <2>1. NewCandidate(r) = [bytes |-> config, age |-> 0] /\ config # Unreadable
    BY <1>2 DEF NewCandidate
  <2>2. config \in Configs
    BY <2>1 DEF IInv, BootTypeOK, Files
  <2> QED  BY <1>2, <2>1, <2>2 DEF Candidate
<1> QED  BY <1>1, <1>2

LEMMA StartArmStep ==
  ASSUME IInv, NEW i \in Instances, StartArm(i)
  PROVE  IInv'
<1> DEFINE p == procs[i]
           cand == IF p.onLkg THEN None ELSE NewCandidate(p.running)
           q == [p EXCEPT !.pc = "up", !.raced = p.late, !.cand = cand]
<1>1. /\ p.pc = "assembled" /\ Set(i, q)
      /\ UNCHANGED <<config, lkg, starts, rollback, holder, events>>
  BY DEF StartArm
<1>2. ProcInv(p) /\ p \in Proc
  BY DEF IInv, ProcInv
<1>3. \/ cand = None
      \/ cand \in Candidate /\ cand.bytes = config /\ cand.age = 0 /\ ~p.onLkg
  BY NewCandidateHolds
<1>4. ProcInv(q)
  <2> SUFFICES ProcInv(q)
    OBVIOUS
  <2> HIDE DEF p, cand
  <2>1. q \in Proc
    BY <1>2, <1>3 DEF Proc
  <2>2. /\ q.pc = "up" /\ q.raced = p.late /\ q.cand = cand
        /\ q.running = p.running /\ q.age = p.age
    BY <1>2 DEF Proc
  <2> HIDE DEF q
  <2>3. p.running \in Builds /\ p.age \in Nat
    BY <1>1, <1>2 DEF ProcInv, Placed, Assembled, Proc
  <2>4. cand # None => q.raced \/ cand.bytes = q.running
    BY <1>1, <1>2, <1>3, <2>2 DEF ProcInv, Fresh
  <2>5. cand # None => cand.age <= q.age
    BY <1>3, <2>2, <2>3
  <2> QED  BY <2>1, <2>2, <2>3, <2>4, <2>5 DEF ProcInv, Placed, Fresh, Proven, Assembled
<1> HIDE DEF p, q
<1>5. Apart
  BY <1>1 DEF Apart, IInv, BootTypeOK
<1> QED  BY <1>1, <1>4, <1>5, ProcStep

LEMMA ReloadLoadStep ==
  ASSUME IInv, NEW i \in Instances, ReloadLoad(i)
  PROVE  IInv'
<1> DEFINE p == procs[i]
           q == [p EXCEPT !.pc = "reloading", !.loading = config, !.late = FALSE]
<1>1. /\ p.pc = "up" /\ (Set(i, p) \/ Set(i, q))
      /\ UNCHANGED <<config, lkg, starts, rollback, holder, events>>
  BY Zenon DEF ReloadLoad
<1>2. ProcInv(p) /\ p \in Proc
  BY DEF IInv, ProcInv
<1>3. config \in Configs \cup {Unreadable}
  BY DEF IInv, BootTypeOK, Files
<1>4. ProcInv(q)
  <2> SUFFICES ProcInv(q)
    OBVIOUS
  <2> HIDE DEF p
  <2>1. q \in Proc
    BY <1>2, <1>3 DEF Proc
  <2>2. /\ q.pc = "reloading" /\ q.loading = config
        /\ q.raced = p.raced /\ q.cand = p.cand
        /\ q.running = p.running /\ q.age = p.age
    BY <1>2 DEF Proc
  <2> HIDE DEF q
  <2> QED  BY <1>1, <1>2, <2>1, <2>2 DEF ProcInv, Placed, Fresh, Proven, Assembled
<1> HIDE DEF p, q
<1>5. Apart
  BY <1>1 DEF Apart, IInv, BootTypeOK
<1> QED  BY <1>1, <1>2, <1>4, <1>5, ProcStep

\* An accepted reload arms from the operator's file again, and starts to count.
LEMMA ReloadAcceptStep ==
  ASSUME IInv, NEW i \in Instances, ReloadAccept(i)
  PROVE  IInv'
<1> DEFINE p == procs[i]
           cand == NewCandidate(p.loading)
           next == [p EXCEPT !.pc = "up", !.running = p.loading, !.loading = None,
                             !.onLkg = FALSE, !.cand = cand,
                             !.defers = 0, !.age = 0, !.raced = p.late]
<1>1. /\ p.pc = "reloading" /\ p.loading \in Builds
      /\ UNCHANGED <<config, lkg, starts, holder>>
      /\ \/ Set(i, next) /\ UNCHANGED <<rollback, events>>
         \/ rollback' = Cleared /\ Set(i, [next EXCEPT !.unclear = FALSE]) /\ UNCHANGED events
         \/ Event(1) /\ Set(i, [next EXCEPT !.unclear = TRUE]) /\ UNCHANGED rollback
  BY Zenon DEF ReloadAccept
<1>2. ProcInv(p) /\ p \in Proc
  BY DEF IInv, ProcInv
<1>3. \/ cand = None
      \/ cand \in Candidate /\ cand.bytes = config /\ cand.age = 0
  BY NewCandidateHolds
<1>4. /\ ProcInv(next)
      /\ \A u \in BOOLEAN : ProcInv([next EXCEPT !.unclear = u])
  <2> SUFFICES ProcInv(next) /\ \A u \in BOOLEAN : ProcInv([next EXCEPT !.unclear = u])
    OBVIOUS
  <2> HIDE DEF p, cand
  <2>1. p.loading \in Configs /\ p.loading \in Builds
    BY <1>1
  <2>2. next \in Proc
    <3>1. 0 \in 0 .. DeferCap /\ 0 \in 0 .. Stability
      OBVIOUS
    <3>2. p.late \in BOOLEAN
      BY <1>2 DEF Proc
    <3>3. cand \in Candidate \cup {None}
      BY <1>3
    <3>4. p.loading \in Configs \cup {None} /\ None \in Configs \cup {Unreadable, None}
      BY <2>1
    <3> QED  BY <1>2, <3>1, <3>2, <3>3, <3>4 DEF Proc
  <2>3. /\ next.pc = "up" /\ next.raced = p.late /\ next.cand = cand
        /\ next.running = p.loading /\ next.age = 0
    BY <1>2 DEF Proc
  <2> HIDE DEF next
  <2>4. ProcInv(next)
    <3>1. cand # None => next.raced \/ cand.bytes = next.running
      BY <1>1, <1>2, <1>3, <2>3 DEF ProcInv, Fresh
    <3>2. cand # None => cand.age <= next.age
      BY <1>3, <2>3
    <3> QED  BY <2>1, <2>2, <2>3, <3>1, <3>2
             DEF ProcInv, Placed, Fresh, Proven, Assembled
  <2>5. ASSUME NEW u \in BOOLEAN  PROVE ProcInv([next EXCEPT !.unclear = u])
    <3> DEFINE n == [next EXCEPT !.unclear = u]
    <3>1. n \in Proc
      BY <2>2 DEF Proc
    <3>2. /\ n.pc = next.pc /\ n.raced = next.raced /\ n.cand = next.cand
          /\ n.running = next.running /\ n.age = next.age
      BY <2>2 DEF Proc
    <3> HIDE DEF n
    <3>3. ProcInv(n)
      BY <2>3, <2>4, <3>1, <3>2 DEF ProcInv, Placed, Fresh, Proven, Assembled
    <3> QED  BY <3>3 DEF n
  <2> QED  BY <2>4, <2>5
<1>5. PICK q : ProcInv(q) /\ Set(i, q)
  BY <1>1, <1>4, Zenon
<1> HIDE DEF p, next
<1>6. Apart
  BY <1>1, EventTyped, RolledBack DEF Apart, IInv, BootTypeOK
<1> QED  BY <1>1, <1>5, <1>6, ProcStep

LEMMA ReloadRejectStep ==
  ASSUME IInv, NEW i \in Instances, ReloadReject(i)
  PROVE  IInv'
<1> DEFINE p == procs[i]
           q == [p EXCEPT !.pc = "up", !.loading = None]
<1>1. /\ p.pc = "reloading" /\ Set(i, q)
      /\ UNCHANGED <<config, lkg, starts, rollback, holder, events>>
  BY DEF ReloadReject
<1>2. ProcInv(p) /\ p \in Proc
  BY DEF IInv, ProcInv
<1>3. ProcInv(q)
  <2> SUFFICES ProcInv(q)
    OBVIOUS
  <2> HIDE DEF p
  <2>1. q \in Proc
    BY <1>2 DEF Proc
  <2>2. /\ q.pc = "up" /\ q.raced = p.raced /\ q.cand = p.cand
        /\ q.running = p.running /\ q.age = p.age
    BY <1>2 DEF Proc
  <2> HIDE DEF q
  <2> QED  BY <1>1, <1>2, <2>1, <2>2 DEF ProcInv, Placed, Fresh, Proven, Assembled
<1> HIDE DEF p, q
<1>4. Apart
  BY <1>1 DEF Apart, IInv, BootTypeOK
<1> QED  BY <1>1, <1>3, <1>4, ProcStep

\* What a tick of the watchdog does with the candidate: what it promotes has been
\* run for the whole window, or was raced.
LEMMA PromotionHolds ==
  ASSUME IInv, NEW i \in Instances, NEW p, ProcInv(p), p.pc = "up",
         NEW unhealthy \in BOOLEAN, NEW fails \in BOOLEAN,
         PromotionTick(i, p, unhealthy, fails)
  PROVE  /\ \E q : ProcInv(q) /\ Set(i, q)
         /\ lkg' \in Configs \cup {None}
         /\ lkg' # lkg => p.raced \/ (p.running = lkg' /\ p.age >= Stability)
<1> DEFINE due == p.cand # None /\ p.cand.age >= Stability
           deferred == due /\ unhealthy /\ p.defers < DeferCap
           write == due /\ ~deferred /\ config = p.cand.bytes
           q == [p EXCEPT !.defers = @ + 1]
           r == [p EXCEPT !.cand = None, !.defers = 0]
<1>1. \/ deferred /\ Set(i, q) /\ UNCHANGED lkg
      \/ write /\ lkg' = p.cand.bytes /\ Set(i, r)
      \/ write /\ lkg' \in {lkg, p.cand.bytes} /\ Set(i, p)
      \/ Set(i, p) /\ UNCHANGED lkg
  BY Zenon DEF PromotionTick
<1>2. p \in Proc /\ lkg \in Configs \cup {None}
  BY DEF ProcInv, IInv, BootTypeOK
<1>3. deferred => ProcInv(q)
  <2> SUFFICES ASSUME deferred  PROVE ProcInv(q)
    OBVIOUS
  <2>1. p.defers + 1 \in 0 .. DeferCap
    BY <1>2 DEF Proc
  <2>2. q \in Proc
    BY <1>2, <2>1 DEF Proc
  <2>3. /\ q.pc = "up" /\ q.raced = p.raced /\ q.cand = p.cand
        /\ q.running = p.running /\ q.age = p.age
    BY <1>2 DEF Proc
  <2> HIDE DEF q
  <2> QED  BY <2>2, <2>3 DEF ProcInv, Placed, Fresh, Proven, Assembled
<1>4. ProcInv(r)
  <2> SUFFICES ProcInv(r)
    OBVIOUS
  <2>1. r \in Proc
    <3>1. 0 \in 0 .. DeferCap
      OBVIOUS
    <3> QED  BY <1>2, <3>1 DEF Proc
  <2>2. r.pc = "up" /\ r.cand = None /\ r.running = p.running
    BY <1>2 DEF Proc
  <2> HIDE DEF r
  <2> QED  BY <2>1, <2>2 DEF ProcInv, Placed, Fresh, Proven, Assembled
<1>5. write => /\ p.cand.bytes \in Configs
               /\ p.raced \/ (p.running = p.cand.bytes /\ p.age >= Stability)
  <2> SUFFICES ASSUME write
               PROVE  /\ p.cand.bytes \in Configs
                      /\ p.raced \/ (p.running = p.cand.bytes /\ p.age >= Stability)
    OBVIOUS
  <2>1. p.cand \in Candidate /\ p.age \in Nat
    BY <1>2 DEF Proc
  <2>2. p.raced \/ p.cand.bytes = p.running
    BY DEF ProcInv, Proven
  <2>3. p.cand.age <= p.age /\ p.cand.age >= Stability
    BY DEF ProcInv, Proven
  <2> QED  BY <2>1, <2>2, <2>3 DEF Candidate
<1> HIDE DEF write, deferred, q, r
<1> QED  BY <1>1, <1>2, <1>3, <1>4, <1>5

LEMMA ProbeFailedHolds ==
  ASSUME NEW i \in Instances, NEW p, ProcInv(p), ProbeFailed(i, p)
  PROVE  (\E q : ProcInv(q) /\ Set(i, q)) /\ UNCHANGED lkg
<1>1. CASE p.cand = None
  BY <1>1 DEF ProbeFailed
<1>2. CASE p.cand # None
  <2> DEFINE c == [p.cand EXCEPT !.age = 0]
             q == [p EXCEPT !.cand = c]
  <2>1. p \in Proc /\ p.cand \in Candidate
    BY <1>2 DEF ProcInv, Proc
  <2>2. c \in Candidate /\ c.bytes = p.cand.bytes /\ c.age = 0
    BY <2>1 DEF Candidate
  <2>3. Set(i, q) /\ UNCHANGED lkg
    BY <1>2 DEF ProbeFailed
  <2> HIDE DEF c
  <2>4. q \in Proc
    BY <2>1, <2>2 DEF Proc
  <2>5. /\ q.pc = p.pc /\ q.raced = p.raced /\ q.cand = c /\ q.running = p.running
        /\ q.age = p.age /\ q.late = p.late /\ q.onLkg = p.onLkg
        /\ q.chosen = p.chosen /\ q.loading = p.loading
    BY <2>1 DEF Proc
  <2>6. p.age >= 0
    BY <2>1 DEF Proc
  <2> HIDE DEF q
  <2>7. ProcInv(q)
    <3>1. Placed(q) /\ Fresh(q)
      BY <2>5 DEF ProcInv, Placed, Fresh, Assembled
    <3>2. Proven(q)
      BY <1>2, <2>2, <2>5, <2>6 DEF ProcInv, Proven
    <3> QED  BY <2>4, <3>1, <3>2 DEF ProcInv
  <2> QED  BY <2>3, <2>7
<1> QED  BY <1>1, <1>2

LEMMA WatchdogStep ==
  ASSUME IInv, NEW i \in Instances, Watchdog(i)
  PROVE  /\ IInv'
         /\ lkg' # lkg => procs[i].raced
                            \/ (procs[i].running = lkg' /\ procs[i].age >= Stability)
<1> DEFINE p == procs[i]
<1>1. PICK clearFails \in BOOLEAN, saveFails \in BOOLEAN :
        LET retried == [p EXCEPT !.unclear = IF Owed(p) THEN clearFails ELSE @]
            failed  == Cardinality({w \in {<<"clear", clearFails>>, <<"save", saveFails>>} : w[2]})
        IN /\ rollback' = IF Owed(p) /\ ~clearFails THEN Cleared ELSE rollback
           /\ Event(failed)
           /\ \/ \E unhealthy \in BOOLEAN : PromotionTick(i, retried, unhealthy, saveFails)
              \/ ~saveFails /\ ProbeFailed(i, retried)
  BY Zenon DEF Watchdog
<1> DEFINE u == IF Owed(p) THEN clearFails ELSE p.unclear
           retried == [p EXCEPT !.unclear = u]
           calls == {<<"clear", clearFails>>, <<"save", saveFails>>}
           failed == Cardinality({w \in calls : w[2]})
<1>2. p.pc = "up" /\ UNCHANGED <<config, starts, holder>>
  BY DEF Watchdog
<1>3. ProcInv(p) /\ p \in Proc
  BY DEF IInv, ProcInv
<1>4. rollback' \in Rollback
  BY <1>1, RolledBack DEF IInv, BootTypeOK
<1>5. events' \in 0 .. MaxEvents
  <2>1. IsFiniteSet(calls)
    <3> DEFINE a == <<"clear", clearFails>>
               b == <<"save", saveFails>>
    <3> HIDE DEF a, b
    <3>1. IsFiniteSet({a}) /\ IsFiniteSet({b})
      BY FS_Singleton
    <3>2. IsFiniteSet({a} \cup {b})
      BY <3>1, FS_Union
    <3>3. {a} \cup {b} = {a, b}
      OBVIOUS
    <3> QED  BY <3>2, <3>3 DEF a, b
  <2>2. failed \in Nat
    BY <2>1, FS_Subset, FS_CardinalityType
  <2>3. Event(failed)
    BY <1>1
  <2> HIDE DEF failed
  <2> QED  BY <2>2, <2>3, EventTyped
<1>6. \/ \E unhealthy \in BOOLEAN : PromotionTick(i, retried, unhealthy, saveFails)
      \/ ProbeFailed(i, retried)
  BY <1>1, Zenon
<1>7. u \in BOOLEAN
  BY <1>3 DEF Proc
<1> SUFFICES /\ IInv'
             /\ lkg' # lkg => p.raced \/ (p.running = lkg' /\ p.age >= Stability)
  OBVIOUS
<1> HIDE DEF p, u
<1>8. retried \in Proc
  BY <1>3, <1>7 DEF Proc
<1>9. /\ retried.pc = "up" /\ retried.raced = p.raced /\ retried.cand = p.cand
      /\ retried.running = p.running /\ retried.age = p.age
  BY <1>2, <1>3 DEF Proc
<1> HIDE DEF retried
<1>10. ProcInv(retried)
  BY <1>2, <1>3, <1>8, <1>9 DEF ProcInv, Placed, Fresh, Proven, Assembled
<1>11. /\ \E q : ProcInv(q) /\ Set(i, q)
       /\ lkg' \in Configs \cup {None}
       /\ lkg' # lkg => p.raced \/ (p.running = lkg' /\ p.age >= Stability)
  <2>1. CASE \E unhealthy \in BOOLEAN : PromotionTick(i, retried, unhealthy, saveFails)
    BY <1>9, <1>10, <2>1, PromotionHolds
  <2>2. CASE ProbeFailed(i, retried)
    <3>1. lkg \in Configs \cup {None}
      BY DEF IInv, BootTypeOK
    <3> QED  BY <1>10, <2>2, <3>1, ProbeFailedHolds
  <2> QED  BY <1>6, <2>1, <2>2
<1>12. Apart
  BY <1>2, <1>4, <1>5, <1>11 DEF Apart, IInv, BootTypeOK
<1> QED  BY <1>2, <1>11, <1>12, ProcStep

-----------------------------------------------------------------------------
(* The world *)

LEMMA DeathStep ==
  ASSUME IInv, NEW i \in Instances, CrashOfConfig(i) \/ Die(i)
  PROVE  IInv'
<1>1. Exit(i) /\ UNCHANGED <<config, lkg, rollback>>
  BY DEF CrashOfConfig, Die
<1>2. rollback' \in Rollback /\ events' \in 0 .. MaxEvents
  <2>1. UNCHANGED events \/ Event(1)
    BY DEF CrashOfConfig, Die
  <2> QED  BY <1>1, <2>1, EventTyped DEF IInv, BootTypeOK
<1> QED  BY <1>1, <1>2, ExitStep

\* An edit makes whoever has just read the file late.
LEMMA EditStep ==
  ASSUME IInv, NEW file \in Files, Edit(file)
  PROVE  IInv'
<1> DEFINE late(p) == [p EXCEPT !.late = @ \/ p.pc \in {"assembled", "reloading"}]
<1>1. procs \in [Instances -> Proc] /\ \A i \in Instances : ProcInv(procs[i])
  BY DEF IInv, BootTypeOK
<1>2. /\ procs' = [i \in Instances |-> late(procs[i])] /\ config' = file
      /\ UNCHANGED <<lkg, starts, rollback, holder>> /\ Event(1)
  BY Zenon DEF Edit
<1>3. ASSUME NEW p \in Proc, ProcInv(p)  PROVE ProcInv(late(p))'
  <2> DEFINE q == late(p)
  <2>1. q \in Proc
    BY <1>3 DEF Proc
  <2>2. /\ q.pc = p.pc /\ q.onLkg = p.onLkg /\ q.chosen = p.chosen
        /\ q.running = p.running /\ q.loading = p.loading
        /\ q.raced = p.raced /\ q.cand = p.cand /\ q.age = p.age
    BY <1>3 DEF Proc
  <2>3. q.pc \in {"assembled", "reloading"} => q.late
    BY <1>3 DEF Proc
  <2> SUFFICES ProcInv(q)'
    OBVIOUS
  <2> HIDE DEF q
  <2>4. Placed(q)' /\ Proven(q)'
    BY <1>3, <2>2 DEF ProcInv, Placed, Proven, Assembled
  <2>5. Fresh(q)'
    BY <2>3 DEF Fresh
  <2> QED  BY <2>1, <2>4, <2>5 DEF ProcInv, Proc, Candidate, Files
<1> HIDE DEF late
<1>4. ASSUME NEW i \in Instances  PROVE procs'[i] = late(procs[i]) /\ ProcInv(procs[i])'
  <2>1. procs'[i] = late(procs[i])
    BY <1>2
  <2>2. PICK q : q = procs'[i] /\ ProcInv(q)'
    BY <1>1, <1>3, <2>1
  <2> QED  BY <2>1, <2>2
<1>5. procs' \in [Instances -> Proc]
  BY <1>2, <1>4 DEF ProcInv, Proc, Candidate, Files
<1>6. events' \in 0 .. MaxEvents
  BY <1>2, EventTyped
<1>7. BootTypeOK'
  BY <1>2, <1>5, <1>6 DEF IInv, BootTypeOK
<1> QED  BY <1>4, <1>7 DEF IInv

LEMMA OlderTyped ==
  ASSUME NEW cap \in Nat, NEW a \in 0 .. cap, NEW b \in 0 .. cap, a <= b
  PROVE  Older(a, cap) \in 0 .. cap /\ Older(a, cap) <= Older(b, cap)
BY DEF Older

\* Time ages a candidate and its run alike.
LEMMA TickStep == IInv /\ Tick => IInv'
<1> SUFFICES ASSUME IInv, Tick  PROVE IInv'
  OBVIOUS
<1> DEFINE aged(p) ==
      [p EXCEPT !.age  = IF p.running = None THEN 0 ELSE Older(@, Stability),
                !.cand = Ripened(@)]
           older(e) == [e EXCEPT !.age      = Older(@, Window + 1),
                                 !.discount = IF @ = None THEN None
                                              ELSE Older(@, Window + 1)]
<1>1. procs \in [Instances -> Proc] /\ \A i \in Instances : ProcInv(procs[i])
  BY DEF IInv, BootTypeOK
<1>2. /\ starts' = [k \in 1 .. Len(starts) |-> older(starts[k])]
      /\ procs' = [i \in Instances |-> aged(procs[i])]
      /\ UNCHANGED <<config, lkg, rollback, holder>>
      /\ Event(0) \/ Event(1)
  BY DEF Tick
<1>3. ASSUME NEW p, ProcInv(p)  PROVE ProcInv(aged(p))
  <2> DEFINE a == IF p.running = None THEN 0 ELSE Older(p.age, Stability)
             c == Ripened(p.cand)
             q == [p EXCEPT !.age = a, !.cand = c]
  <2>1. p \in Proc /\ p.age \in 0 .. Stability
    BY <1>3 DEF ProcInv, Proc
  <2>2. a \in 0 .. Stability
    BY <2>1, OlderTyped
  <2>3. p.cand # None =>
          /\ c \in Candidate
          /\ c.bytes = p.cand.bytes /\ c.age <= a
    <3> SUFFICES ASSUME p.cand # None
                 PROVE  /\ c \in Candidate
                        /\ c.bytes = p.cand.bytes /\ c.age <= a
      OBVIOUS
    <3>1. p.cand \in Candidate /\ p.cand.age \in 0 .. Stability
      BY <2>1 DEF Proc, Candidate
    <3>2. p.cand.age <= p.age /\ p.running # None
      BY <1>3 DEF ProcInv, Proven, Placed, Assembled
    <3> DEFINE o == Older(p.cand.age, Stability)
    <3>3. o \in 0 .. Stability /\ o <= a
      BY <2>1, <3>1, <3>2, OlderTyped
    <3>4. c = [p.cand EXCEPT !.age = o]
      BY DEF Ripened
    <3> HIDE DEF o, c, a
    <3>5. c \in Candidate /\ c.bytes = p.cand.bytes /\ c.age = o
      BY <3>1, <3>3, <3>4 DEF Candidate
    <3> QED  BY <3>3, <3>5
  <2>4. p.cand = None => c = None
    BY DEF Ripened
  <2> SUFFICES ProcInv(q)
    OBVIOUS
  <2> HIDE DEF a, c
  <2>5. q \in Proc
    BY <2>1, <2>2, <2>3, <2>4 DEF Proc
  <2>6. /\ q.pc = p.pc /\ q.onLkg = p.onLkg /\ q.chosen = p.chosen
        /\ q.running = p.running /\ q.loading = p.loading /\ q.late = p.late
        /\ q.raced = p.raced /\ q.cand = c /\ q.age = a
    BY <2>1 DEF Proc
  <2> HIDE DEF q
  <2>7. Placed(q) /\ Fresh(q)
    BY <1>3, <2>6 DEF ProcInv, Placed, Fresh, Assembled
  <2>8. Proven(q)
    BY <1>3, <2>3, <2>4, <2>6 DEF ProcInv, Proven
  <2> QED  BY <2>5, <2>7, <2>8 DEF ProcInv
<1>4. ASSUME NEW e \in Start  PROVE older(e) \in Start
  <2>1. Window + 1 \in Nat /\ e.age \in 0 .. Window + 1
    BY DEF Start, Ages
  <2>2. Older(e.age, Window + 1) \in Ages
    BY <2>1, OlderTyped DEF Ages
  <2>3. e.discount = None \/ e.discount \in 0 .. Window + 1
    BY DEF Start, Ages
  <2>4. e.discount # None => Older(e.discount, Window + 1) \in Ages
    BY <2>1, <2>3, OlderTyped DEF Ages
  <2> DEFINE x == Older(e.age, Window + 1)
             y == IF e.discount = None THEN None ELSE Older(e.discount, Window + 1)
  <2>5. x \in Ages /\ y \in Ages \cup {None}
    BY <2>2, <2>4
  <2> SUFFICES [e EXCEPT !.age = x, !.discount = y] \in Start
    OBVIOUS
  <2> HIDE DEF x, y
  <2> QED  BY <2>5 DEF Start
<1> HIDE DEF aged, older
<1>5. ASSUME NEW i \in Instances  PROVE ProcInv(procs[i])'
  <2>1. procs'[i] = aged(procs[i]) /\ UNCHANGED config
    BY <1>2
  <2>2. PICK q : q = procs'[i] /\ ProcInv(q)
    BY <1>1, <1>3, <2>1
  <2>3. ProcInv(q)'
    BY <2>1, <2>2 DEF ProcInv, Placed, Fresh, Proven, Assembled, Proc, Candidate, Files
  <2> QED  BY <2>2, <2>3
<1>6. procs' \in [Instances -> Proc]
  BY <1>1, <1>2, <1>3 DEF ProcInv
<1>7. \A k \in 1 .. Len(starts) : starts[k] \in Start
  BY DEF IInv, BootTypeOK
<1>8. [k \in 1 .. Len(starts) |-> older(starts[k])] \in [1 .. Len(starts) -> Start]
  BY <1>4, <1>7
<1>9. starts' \in Seq(Start) /\ Len(starts') <= MaxStarts
  BY <1>2, <1>8, Recorded DEF IInv, BootTypeOK
<1>10. events' \in 0 .. MaxEvents
  BY <1>2, EventTyped
<1>11. BootTypeOK'
  BY <1>2, <1>6, <1>9, <1>10 DEF IInv, BootTypeOK
<1> QED  BY <1>5, <1>11 DEF IInv

-----------------------------------------------------------------------------
(* The theorems *)

LEMMA StepInv ==
  ASSUME IInv, [BootNext]_bootVars
  PROVE  /\ IInv'
         /\ lkg' # lkg => \E i \in Instances :
                procs[i].raced \/ (procs[i].running = lkg' /\ procs[i].age >= Stability)
<1>1. CASE UNCHANGED bootVars
  <2>1. IInv'
    BY <1>1 DEF bootVars, IInv, BootTypeOK, ProcInv, Placed, Fresh, Proven, Assembled,
                Proc, Candidate, Files
  <2> QED  BY <1>1, <2>1 DEF bootVars
<1>2. ASSUME NEW i \in Instances,
             \/ Prepare(i) \/ Build(i) \/ AcquireLock(i) \/ StartArm(i)
             \/ ReloadLoad(i) \/ ReloadAccept(i) \/ ReloadReject(i)
             \/ CrashOfConfig(i) \/ Die(i)
      PROVE  IInv' /\ UNCHANGED lkg
  <2>1. IInv'
    BY <1>2, PrepareStep, BuildStep, AcquireLockStep, StartArmStep, ReloadLoadStep,
       ReloadAcceptStep, ReloadRejectStep, DeathStep
  <2>2. UNCHANGED lkg
    BY <1>2, Zenon DEF Prepare, Build, AcquireLock, StartArm, ReloadLoad, ReloadAccept,
                       ReloadReject, CrashOfConfig, Die
  <2> QED  BY <2>1, <2>2
<1>3. ASSUME NEW file \in Files, Edit(file)  PROVE IInv' /\ UNCHANGED lkg
  BY <1>3, EditStep DEF Edit
<1>4. CASE Tick
  BY <1>4, TickStep DEF Tick
<1>5. CASE \E i \in Instances : Watchdog(i)
  BY <1>5, WatchdogStep
<1> QED  BY <1>1, <1>2, <1>3, <1>4, <1>5, Zenon DEF BootNext

\* The inductive invariant: types, and what each process knows of the files.
THEOREM BootInvariance == BootSpec => []IInv
<1>1. IInv /\ [BootNext]_bootVars => IInv'
  BY StepInv
<1> QED  BY InitInv, <1>1, PTL DEF BootSpec

\* Every variable keeps its type: crash-loop.json never outgrows its bound, and the
\* two halves of the rollback pair are set and cleared together.
THEOREM BootTypeCorrect == BootSpec => []BootTypeOK
BY BootInvariance, PTL DEF IInv

\* Whatever crashes, is killed, fails to be written or is edited: only bytes that
\* the daemon has run for the whole stability window become the last-known-good
\* config, unless the file was edited while the daemon read it.
THEOREM OnlyProven == BootSpec => LkgIsProvenUnlessRaced
<1> DEFINE Earned == lkg' # lkg => \E i \in Instances :
                       \/ procs[i].running = lkg' /\ procs[i].age >= Stability
                       \/ procs[i].raced
<1>1. IInv /\ [BootNext]_bootVars => [Earned]_bootVars
  BY StepInv
<1> QED  BY BootInvariance, <1>1, PTL DEF BootSpec, LkgIsProvenUnlessRaced

-----------------------------------------------------------------------------
(* The flock *)

\* Who has got past the flock holds it.
Flocked == \A i \in Instances : Assembled(procs[i]) => holder = i

LEMMA ExitFlocked ==
  ASSUME BootTypeOK, Flocked, NEW i \in Instances, Exit(i)
  PROVE  Flocked'
<1>1. procs' = [procs EXCEPT ![i] = Down] /\ procs \in [Instances -> Proc]
  BY DEF BootTypeOK, Exit, Set
<1>2. procs'[i] = Down /\ \A j \in Instances : j # i => procs'[j] = procs[j]
  BY <1>1
<1>3. ~Assembled(Down)
  BY DEF Assembled, Down
<1> QED  BY <1>2, <1>3 DEF Flocked, Exit, Assembled

\* Of a step that leaves the flock alone: who is past it was past it before.
LEMMA FlockKept ==
  ASSUME BootTypeOK, Flocked, NEW i \in Instances, NEW p, Set(i, p), UNCHANGED holder,
         Assembled(p) => Assembled(procs[i])
  PROVE  Flocked'
<1>1. procs' = [procs EXCEPT ![i] = p] /\ procs \in [Instances -> Proc]
  BY DEF BootTypeOK, Set
<1>2. procs'[i] = p /\ \A j \in Instances : j # i => procs'[j] = procs[j]
  BY <1>1
<1> QED  BY <1>2 DEF Flocked, Assembled

LEMMA StepFlocked == BootTypeOK /\ Flocked /\ [BootNext]_bootVars => Flocked'
<1> SUFFICES ASSUME BootTypeOK, Flocked, [BootNext]_bootVars  PROVE Flocked'
  OBVIOUS
<1>0. \A i \in Instances : procs[i] \in Proc
  BY DEF BootTypeOK
<1>1. CASE UNCHANGED bootVars
  BY <1>1 DEF bootVars, Flocked, Assembled
<1>2. ASSUME NEW i \in Instances, Prepare(i)  PROVE Flocked'
  <2>1. PICK a, r :
          Set(i, [Down EXCEPT !.pc = "prepared", !.chosen = a, !.onLkg = r])
    BY <1>2, Zenon DEF Prepare
  <2>2. ~Assembled([Down EXCEPT !.pc = "prepared", !.chosen = a, !.onLkg = r])
    BY DEF Assembled, Down
  <2> QED  BY <1>2, <2>1, <2>2, FlockKept DEF Prepare
<1>3. ASSUME NEW i \in Instances, Build(i)  PROVE Flocked'
  <2> DEFINE q == [procs[i] EXCEPT !.pc = "built"]
             r == [procs[i] EXCEPT !.pc = "built", !.chosen = "lkg", !.onLkg = TRUE]
  <2>1. Exit(i) \/ (UNCHANGED holder /\ (Set(i, q) \/ Set(i, r)))
    BY <1>3, Zenon DEF Build
  <2>2. ~Assembled(q) /\ ~Assembled(r)
    BY <1>0 DEF Assembled, Proc
  <2> HIDE DEF q, r
  <2> QED  BY <2>1, <2>2, ExitFlocked, FlockKept
<1>4. ASSUME NEW i \in Instances, AcquireLock(i)  PROVE Flocked'
  <2> DEFINE q == [procs[i] EXCEPT !.pc = "assembled", !.running = Chosen(procs[i])]
  <2>1. \/ Exit(i)
        \/ Set(i, Down) /\ UNCHANGED holder
        \/ holder = None /\ holder' = i /\ Set(i, q)
    BY <1>4, Zenon DEF AcquireLock
  <2>2. ~Assembled(Down)
    BY DEF Assembled, Down
  <2>3. CASE holder = None /\ holder' = i /\ Set(i, q)
    <3>1. \A j \in Instances : ~Assembled(procs[j])
      BY <2>3 DEF Flocked
    <3>2. \A j \in Instances : j # i => procs'[j] = procs[j]
      BY <2>3 DEF Set, BootTypeOK
    <3> QED  BY <2>3, <3>1, <3>2 DEF Flocked, Assembled
  <2> HIDE DEF q
  <2> QED  BY <2>1, <2>2, <2>3, ExitFlocked, FlockKept
<1>5. ASSUME NEW i \in Instances,
             StartArm(i) \/ ReloadLoad(i) \/ ReloadAccept(i) \/ ReloadReject(i)
                \/ Watchdog(i)
      PROVE  Flocked'
  <2>1. Assembled(procs[i]) /\ UNCHANGED holder
    BY <1>5 DEF StartArm, ReloadLoad, ReloadAccept, ReloadReject, Watchdog, Assembled
  <2>2. PICK p : Set(i, p)
    <3>1. CASE Watchdog(i)
      <4>1. PICK p, u, f : PromotionTick(i, p, u, f) \/ ProbeFailed(i, p)
        BY <3>1, Zenon DEF Watchdog
      <4>2. PromotionTick(i, p, u, f) => \E q : Set(i, q)
        BY Zenon DEF PromotionTick
      <4>3. ProbeFailed(i, p) => \E q : Set(i, q)
        BY Zenon DEF ProbeFailed
      <4> QED  BY <4>1, <4>2, <4>3
    <3>2. CASE ~Watchdog(i)
      BY <1>5, <3>2, Zenon DEF StartArm, ReloadLoad, ReloadAccept, ReloadReject
    <3> QED  BY <3>1, <3>2
  <2> QED  BY <2>1, <2>2, FlockKept
<1>6. ASSUME NEW i \in Instances, CrashOfConfig(i) \/ Die(i)  PROVE Flocked'
  BY <1>6, ExitFlocked DEF CrashOfConfig, Die
<1>7. ASSUME UNCHANGED holder, \A j \in Instances : procs'[j].pc = procs[j].pc
      PROVE  Flocked'
  BY <1>7 DEF Flocked, Assembled
<1>8. ASSUME NEW file \in Files, Edit(file)  PROVE Flocked'
  BY <1>0, <1>7, <1>8 DEF Edit, Proc
<1>9. CASE Tick
  <2>1. UNCHANGED holder /\ \A j \in Instances : procs'[j].pc = procs[j].pc
    BY <1>0, <1>9 DEF Tick, Proc
  <2> QED  BY <1>7, <2>1
<1> QED  BY <1>1, <1>2, <1>3, <1>4, <1>5, <1>6, <1>8, <1>9, Zenon DEF BootNext

\* However many processes are started: at most one is past the flock, and only
\* that one promotes, reloads and recovers.
THEOREM OneDaemon ==
  BootSpec => [](\A i, j \in Instances :
                    Assembled(procs[i]) /\ Assembled(procs[j]) => i = j)
<1> DEFINE Alone == \A i, j \in Instances :
                       Assembled(procs[i]) /\ Assembled(procs[j]) => i = j
<1>1. BootInit => Flocked
  BY DEF BootInit, Flocked, Assembled, Down
<1>2. Flocked => Alone
  BY DEF Flocked
<1> HIDE DEF Alone
<1>3. BootSpec => []Alone
  BY BootTypeCorrect, StepFlocked, <1>1, <1>2, PTL DEF BootSpec
<1> QED  BY <1>3 DEF Alone

-----------------------------------------------------------------------------
(* Gamma tables *)

HIDE BootAssumption DEF BootAssumption

\* A process whose recovery has restored, or has found nothing to restore, and
\* that has not taken the flock yet.
Restored(d) ==
  life[d].owes = "clear" \/ life[d] = Point("start", "nothing")

\* The breadcrumb names the screens that are dark or about to be.
Marked ==
  \A s \in Screens :
    table[s] = "dark" \/ task[s] = "marked" => s \in Named \/ crossed

Clean ==
  \A d \in Daemons, s \in Screens :
    Restored(d) => crossed \/ (table[s] = "lit" /\ task[s] # "marked")

Stages ==
  \A s \in Screens :
    /\ task[s] \in {"marked", "unheld"} => table[s] = "lit"
    /\ task[s] = "replayed" => s \in saved

\* Who has the flock serves.
Served == flock \in Daemons => life[flock].at \in {"up", "end"}

GammaInv == GammaTypeOK /\ Marked /\ Clean /\ Stages /\ Served /\ DarkIsHeld

USE GammaAssumption DEF GammaAssumption

LEMMA InitGamma == GammaInit => GammaInv
<1> SUFFICES ASSUME GammaInit  PROVE GammaInv
  OBVIOUS
<1> USE DEF GammaInit
<1>1. GammaTypeOK
  <2>1. Point("off", "nothing") \in Life  BY DEF Point, Life
  <2>2. life \in [Daemons -> Life]  BY <2>1
  <2>3. table \in [Screens -> {"lit", "dark"}]  OBVIOUS
  <2>4. task \in [Screens -> {"idle", "marked", "written", "replayed", "unheld"}]
    OBVIOUS
  <2>5. mishaps \in 0 .. MaxMishaps  OBVIOUS
  <2> QED  BY <2>2, <2>3, <2>4, <2>5 DEF GammaTypeOK
<1>2. Marked /\ Clean /\ Stages /\ Served /\ DarkIsHeld
  BY DEF Marked, Clean, Stages, Served, DarkIsHeld, Restored, Point
<1> QED  BY <1>1, <1>2 DEF GammaInv

\* The steps of the processes, one part of the invariant at a time.
LEMMA LifeStep ==
  ASSUME GammaInv, NEW d \in Daemons,
         \/ Launch(d) \/ RestoreAll(d) \/ ClearCrumb(d) \/ TakeFlock(d)
         \/ RunLoopEnds(d) \/ Leave(d) \/ Killed(d)
  PROVE  GammaInv'
<1> USE DEF GammaInv, GammaTypeOK, Marked, Clean, Stages, Served, DarkIsHeld, Restored,
            Serves, Point, Life, Named, Mishap
<1>1. CASE Launch(d)
  BY <1>1 DEF Launch, Owing
<1>2. CASE RestoreAll(d)
  BY <1>2 DEF RestoreAll, AllLit, SomeMarked
<1>3. CASE ClearCrumb(d)
  BY <1>3 DEF ClearCrumb
<1>4. CASE TakeFlock(d)
  BY <1>4 DEF TakeFlock, Owing
<1>5. CASE RunLoopEnds(d)
  BY <1>5 DEF RunLoopEnds, Owing
<1>6. CASE Leave(d)
  BY <1>6 DEF Leave, Gone
<1>7. CASE Killed(d)
  BY <1>7 DEF Killed, Gone
<1> QED  BY <1>1, <1>2, <1>3, <1>4, <1>5, <1>6, <1>7

LEMMA RestoreStep == GammaInv /\ EmergencyRestore => GammaInv'
BY DEF GammaInv, GammaTypeOK, Marked, Clean, Stages, Served, DarkIsHeld, Restored,
       Serves, Point, Life, Named, Mishap, EmergencyRestore, AllLit

LEMMA TaskStep ==
  ASSUME GammaInv, NEW s \in Screens, BlankMarks(s) \/ WakeReplays(s) \/ TaskSteps(s)
  PROVE  GammaInv'
<1> USE DEF GammaInv, GammaTypeOK, Marked, Clean, Stages, Served, DarkIsHeld, Restored,
            Serves, Point, Life, Named, Mishap, Reaches
<1>1. CASE BlankMarks(s)
  BY <1>1 DEF BlankMarks, Recovering
<1>2. CASE BlankWrites(s)
  BY <1>2 DEF BlankWrites, Writes
<1>3. CASE BlankConfirms(s)
  BY <1>3 DEF BlankConfirms
<1>4. CASE WakeReplays(s)
  <2>1. GammaTypeOK'  BY <1>4 DEF WakeReplays, Writes
  <2>2. Marked' /\ Clean'  BY <1>4 DEF WakeReplays, Writes
  <2>3. Stages' /\ Served' /\ DarkIsHeld'  BY <1>4 DEF WakeReplays, Writes
  <2> QED  BY <2>1, <2>2, <2>3
<1>5. CASE WakeConfirms(s)
  BY <1>5 DEF WakeConfirms, Confirms
<1>6. CASE WakeUnmarks(s)
  BY <1>6 DEF WakeUnmarks, Dropping, FileOf
<1> QED  BY <1>1, <1>2, <1>3, <1>4, <1>5, <1>6 DEF TaskSteps

\* The inductive invariant: types, a breadcrumb that names every dark screen, and
\* a recovery that has lit everything before it removes the breadcrumb.
THEOREM GammaInvariance == GammaSpec => []GammaInv
<1>1. GammaInv /\ [GammaNext]_gammaVars => GammaInv'
  <2> SUFFICES ASSUME GammaInv, [GammaNext]_gammaVars  PROVE GammaInv'
    OBVIOUS
  <2>1. CASE GammaNext
    BY <2>1, LifeStep, RestoreStep, TaskStep DEF GammaNext, Recovers
  <2>2. CASE UNCHANGED gammaVars
    BY <2>2 DEF gammaVars, GammaInv, GammaTypeOK, Marked, Clean, Stages, Served,
                DarkIsHeld, Restored, Serves, Named
  <2> QED  BY <2>1, <2>2
<1> QED  BY InitGamma, <1>1, PTL DEF GammaSpec

\* Every variable keeps its type.
THEOREM GammaTypeCorrect == GammaSpec => []GammaTypeOK
BY GammaInvariance, PTL DEF GammaInv

\* A dark screen has a breadcrumb for the next process and a hold in this one.
THEOREM WayBack == GammaSpec => []DarkHasWayBack
<1>1. GammaInv => DarkHasWayBack
  BY DEF GammaInv, Marked, Named, DarkHasWayBack, DarkIsInsured
<1> QED  BY <1>1, GammaInvariance, PTL

=============================================================================
