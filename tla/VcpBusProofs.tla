------------------------------ MODULE VcpBusProofs ------------------------------
(***************************************************************************)
(* Theorems about the DDC/CI traffic, for any number of threads, panels    *)
(* and RealVcp states.                                                     *)
(*                                                                         *)
(* Every action keeps six facts: the type, what a thread at a place does   *)
(* (Placed), that who is on the bus has the gate (Gated), that a handle a  *)
(* thread has, or is about to open, is not cached (CheckedOut), the count  *)
(* of the commands that wait, and what becomes of a RealVcp that nobody    *)
(* refers to any more (Retirement).                                        *)
(***************************************************************************)
EXTENDS VcpBus, FiniteSetTheorems, TLAPS

\* TypeOK, but for the sign of the counts, which follows from Counted.
Shape ==
    /\ pc \in [Threads -> Places]
    /\ kind \in [Threads -> Kinds]
    /\ vcp \in [Threads -> Vcps \cup {None}]
    /\ handle \in [Threads -> BOOLEAN]
    /\ waiting \in [Panels -> Int]
    /\ holder \in [Panels -> Threads \cup {None}]
    /\ gate \in Threads \cup {None}
    /\ cache \in [Vcps -> BOOLEAN]
    /\ live \in [Vcps -> BOOLEAN]

CallersOnly ==
    {"announced", "locked", "check", "checked", "trylocked", "checkout", "op",
     "unlock", "release"}

Placed ==
    \A t \in Threads :
        /\ pc[t] \in CallersOnly => kind[t] \in Callers
        /\ pc[t] \in {"announced", "locked"} => kind[t] = "command"
        /\ pc[t] = "drain" => kind[t] = "teardown"
        /\ pc[t] = "idle" => kind[t] = "scan"
        /\ kind[t] # "scan" => vcp[t] \in Vcps
        /\ handle[t] => pc[t] = "op"

Gated == \A t \in Threads : pc[t] \in OnBus \cup {"ungate"} => gate = t

CheckedOut ==
    \A t \in Threads :
        (pc[t] = "enumerate" /\ kind[t] \in Callers) \/ pc[t] = "op" => ~cache[vcp[t]]

\* Nobody can reach v any more, and nobody ever will: a controller makes a
\* RealVcp anew only when the teardown is over.
Abandoned(v) ==
    ~live[v] /\ \A t \in Threads : kind[t] \in Callers => vcp[t] # v

TornDown ==
    \A t \in Threads : kind[t] = "teardown" =>
        /\ pc[t] \in {"gate", "drain", "ungate"}
        /\ Abandoned(vcp[t])
        /\ pc[t] = "ungate" => ~cache[vcp[t]]

Closing ==
    \A v \in Vcps : cache[v] /\ Abandoned(v) =>
        \E t \in Threads : kind[t] = "teardown" /\ vcp[t] = v

Retirement == TornDown /\ Closing

IInv ==
    Shape /\ Placed /\ Gated /\ CheckedOut /\ AnnouncementsAreCounted /\ Retirement

Step(t) == Starts(t) \/ Continues(t)

LEMMA PanelType ==
    ASSUME NEW t \in Threads, Shape, vcp[t] \in Vcps
    PROVE  Panel(t) \in Panels
BY BusAssumption DEF Panel, Shape

LEMMA WaitersFinite == ASSUME NEW p PROVE IsFiniteSet(Waiters(p))
<1>1. Waiters(p) \in SUBSET Threads  BY DEF Waiters
<1> QED  BY <1>1, BusAssumption, FS_Subset

LEMMA InsideType ==
    ASSUME NEW k \in Kinds
    PROVE  /\ Inside(k) \in OnBus
           /\ Inside(k) = "checkout" => k \in Callers
           /\ Inside(k) = "drain" => k = "teardown"
           /\ Inside(k) # "op"
           /\ Inside(k) = "enumerate" => k = "scan"
<1>1. CASE k \in Callers  BY <1>1 DEF Inside, Callers, OnBus
<1>2. CASE k \in {"scan", "teardown"}  BY <1>2 DEF Inside, Callers, OnBus
<1> QED  BY <1>1, <1>2 DEF Kinds

LEMMA ShapeStep ==
    ASSUME IInv, [Next]_vars
    PROVE  Shape'
<1> USE BusAssumption DEF IInv, Shape, Placed, Goes, Callers, Kinds, Places, CallersOnly, Panel
<1>1. ASSUME NEW t \in Threads, Scan(t)  PROVE Shape'
  BY <1>1 DEF Scan, Becomes
<1>2. ASSUME NEW t \in Threads, NEW v \in Vcps, Announce(t, v)  PROVE Shape'
  BY <1>2 DEF Announce, Becomes
<1>3. ASSUME NEW t \in Threads, NEW v \in Vcps, StartSampling(t, v)  PROVE Shape'
  BY <1>3 DEF StartSampling, Becomes
<1>4. ASSUME NEW t \in Threads, NEW v \in Vcps, Retire(t, v)  PROVE Shape'
  BY <1>4 DEF Retire, Becomes
<1>5. ASSUME NEW t \in Threads, LockPanel(t)  PROVE Shape'
  BY <1>5 DEF LockPanel
<1>6. ASSUME NEW t \in Threads, Retract(t)  PROVE Shape'
  BY <1>6 DEF Retract
<1>7. ASSUME NEW t \in Threads, Check(t)  PROVE Shape'
  BY <1>7 DEF Check
<1>8. ASSUME NEW t \in Threads, TryLock(t)  PROVE Shape'
  BY <1>8 DEF TryLock
<1>9. ASSUME NEW t \in Threads, Recheck(t)  PROVE Shape'
  BY <1>9 DEF Recheck
<1>10. ASSUME NEW t \in Threads, UnlockPanel(t)  PROVE Shape'
  BY <1>10 DEF UnlockPanel
<1>11. ASSUME NEW t \in Threads, TakeGate(t)  PROVE Shape'
  BY <1>11, InsideType DEF TakeGate, OnBus
<1>12. ASSUME NEW t \in Threads, LeaveGate(t)  PROVE Shape'
  BY <1>12 DEF LeaveGate, Ends, Becomes
<1>13. ASSUME NEW t \in Threads, Release(t)  PROVE Shape'
  BY <1>13 DEF Release, Ends, Becomes
<1>14. ASSUME NEW t \in Threads, Drain(t)  PROVE Shape'
  BY <1>14 DEF Drain
<1>15. ASSUME NEW t \in Threads, NEW ok \in BOOLEAN, Checkout(t, ok)  PROVE Shape'
  BY <1>15 DEF Checkout
<1>16. ASSUME NEW t \in Threads, NEW ok \in BOOLEAN, Enumerate(t, ok)  PROVE Shape'
  BY <1>16 DEF Enumerate
<1>17. ASSUME NEW t \in Threads, NEW ok \in BOOLEAN, Transact(t, ok)  PROVE Shape'
  BY <1>17 DEF Transact
<1>18. ASSUME NEW v \in Vcps, Create(v)  PROVE Shape'
  BY <1>18 DEF Create
<1>19. CASE UNCHANGED vars
  BY <1>19 DEF vars
<1> QED
  BY <1>1, <1>2, <1>3, <1>4, <1>5, <1>6, <1>7, <1>8, <1>9, <1>10, <1>11,
     <1>12, <1>13, <1>14, <1>15, <1>16, <1>17, <1>18, <1>19
     DEF Next, Starts, Continues

LEMMA PlacedStep ==
    ASSUME IInv, [Next]_vars
    PROVE  Placed'
<1> USE BusAssumption DEF IInv, Shape, Placed, Goes, Callers, Kinds, CallersOnly
<1>1. ASSUME NEW t \in Threads, Scan(t)  PROVE Placed'
  BY <1>1 DEF Scan, Becomes
<1>2. ASSUME NEW t \in Threads, NEW v \in Vcps, Announce(t, v)  PROVE Placed'
  BY <1>2 DEF Announce, Becomes
<1>3. ASSUME NEW t \in Threads, NEW v \in Vcps, StartSampling(t, v)  PROVE Placed'
  BY <1>3 DEF StartSampling, Becomes
<1>4. ASSUME NEW t \in Threads, NEW v \in Vcps, Retire(t, v)  PROVE Placed'
  BY <1>4 DEF Retire, Becomes
<1>5. ASSUME NEW t \in Threads, LockPanel(t)  PROVE Placed'
  BY <1>5 DEF LockPanel
<1>6. ASSUME NEW t \in Threads, Retract(t)  PROVE Placed'
  BY <1>6 DEF Retract
<1>7. ASSUME NEW t \in Threads, Check(t)  PROVE Placed'
  BY <1>7 DEF Check
<1>8. ASSUME NEW t \in Threads, TryLock(t)  PROVE Placed'
  BY <1>8 DEF TryLock
<1>9. ASSUME NEW t \in Threads, Recheck(t)  PROVE Placed'
  BY <1>9 DEF Recheck
<1>10. ASSUME NEW t \in Threads, UnlockPanel(t)  PROVE Placed'
  BY <1>10 DEF UnlockPanel
<1>11. ASSUME NEW t \in Threads, TakeGate(t)  PROVE Placed'
  BY <1>11, InsideType DEF TakeGate, OnBus
<1>12. ASSUME NEW t \in Threads, LeaveGate(t)  PROVE Placed'
  BY <1>12 DEF LeaveGate, Ends, Becomes
<1>13. ASSUME NEW t \in Threads, Release(t)  PROVE Placed'
  BY <1>13 DEF Release, Ends, Becomes
<1>14. ASSUME NEW t \in Threads, Drain(t)  PROVE Placed'
  BY <1>14 DEF Drain
<1>15. ASSUME NEW t \in Threads, NEW ok \in BOOLEAN, Checkout(t, ok)  PROVE Placed'
  BY <1>15 DEF Checkout
<1>16. ASSUME NEW t \in Threads, NEW ok \in BOOLEAN, Enumerate(t, ok)  PROVE Placed'
  BY <1>16 DEF Enumerate
<1>17. ASSUME NEW t \in Threads, NEW ok \in BOOLEAN, Transact(t, ok)  PROVE Placed'
  BY <1>17 DEF Transact
<1>18. ASSUME NEW v \in Vcps, Create(v)  PROVE Placed'
  BY <1>18 DEF Create
<1>19. CASE UNCHANGED vars
  BY <1>19 DEF vars
<1> QED
  BY <1>1, <1>2, <1>3, <1>4, <1>5, <1>6, <1>7, <1>8, <1>9, <1>10, <1>11,
     <1>12, <1>13, <1>14, <1>15, <1>16, <1>17, <1>18, <1>19
     DEF Next, Starts, Continues

LEMMA GatedStep ==
    ASSUME IInv, [Next]_vars
    PROVE  Gated'
<1> USE BusAssumption DEF IInv, Shape, Placed, Gated, OnBus, Goes, Callers, CallersOnly
<1>1. ASSUME NEW t \in Threads, Scan(t)  PROVE Gated'
  BY <1>1 DEF Scan, Becomes
<1>2. ASSUME NEW t \in Threads, NEW v \in Vcps, Announce(t, v)  PROVE Gated'
  BY <1>2 DEF Announce, Becomes
<1>3. ASSUME NEW t \in Threads, NEW v \in Vcps, StartSampling(t, v)  PROVE Gated'
  BY <1>3 DEF StartSampling, Becomes
<1>4. ASSUME NEW t \in Threads, NEW v \in Vcps, Retire(t, v)  PROVE Gated'
  BY <1>4 DEF Retire, Becomes
<1>5. ASSUME NEW t \in Threads, LockPanel(t)  PROVE Gated'
  BY <1>5 DEF LockPanel
<1>6. ASSUME NEW t \in Threads, Retract(t)  PROVE Gated'
  BY <1>6 DEF Retract
<1>7. ASSUME NEW t \in Threads, Check(t)  PROVE Gated'
  BY <1>7 DEF Check
<1>8. ASSUME NEW t \in Threads, TryLock(t)  PROVE Gated'
  BY <1>8 DEF TryLock
<1>9. ASSUME NEW t \in Threads, Recheck(t)  PROVE Gated'
  BY <1>9 DEF Recheck
<1>10. ASSUME NEW t \in Threads, UnlockPanel(t)  PROVE Gated'
  BY <1>10 DEF UnlockPanel
<1>11. ASSUME NEW t \in Threads, TakeGate(t)  PROVE Gated'
  BY <1>11, InsideType DEF TakeGate, OnBus
<1>12. ASSUME NEW t \in Threads, LeaveGate(t)  PROVE Gated'
  BY <1>12 DEF LeaveGate, Ends, Becomes
<1>13. ASSUME NEW t \in Threads, Release(t)  PROVE Gated'
  BY <1>13 DEF Release, Ends, Becomes
<1>14. ASSUME NEW t \in Threads, Drain(t)  PROVE Gated'
  BY <1>14 DEF Drain
<1>15. ASSUME NEW t \in Threads, NEW ok \in BOOLEAN, Checkout(t, ok)  PROVE Gated'
  BY <1>15 DEF Checkout
<1>16. ASSUME NEW t \in Threads, NEW ok \in BOOLEAN, Enumerate(t, ok)  PROVE Gated'
  BY <1>16 DEF Enumerate
<1>17. ASSUME NEW t \in Threads, NEW ok \in BOOLEAN, Transact(t, ok)  PROVE Gated'
  BY <1>17 DEF Transact
<1>18. ASSUME NEW v \in Vcps, Create(v)  PROVE Gated'
  BY <1>18 DEF Create
<1>19. CASE UNCHANGED vars
  BY <1>19 DEF vars
<1> QED
  BY <1>1, <1>2, <1>3, <1>4, <1>5, <1>6, <1>7, <1>8, <1>9, <1>10, <1>11,
     <1>12, <1>13, <1>14, <1>15, <1>16, <1>17, <1>18, <1>19
     DEF Next, Starts, Continues

LEMMA CheckedOutStep ==
    ASSUME IInv, [Next]_vars
    PROVE  CheckedOut'
<1> USE BusAssumption DEF IInv, Shape, Placed, Gated, CheckedOut, OnBus, Goes, Callers, CallersOnly
<1>1. ASSUME NEW t \in Threads, Scan(t)  PROVE CheckedOut'
  BY <1>1 DEF Scan, Becomes
<1>2. ASSUME NEW t \in Threads, NEW v \in Vcps, Announce(t, v)  PROVE CheckedOut'
  BY <1>2 DEF Announce, Becomes
<1>3. ASSUME NEW t \in Threads, NEW v \in Vcps, StartSampling(t, v)
      PROVE CheckedOut'
  BY <1>3 DEF StartSampling, Becomes
<1>4. ASSUME NEW t \in Threads, NEW v \in Vcps, Retire(t, v)  PROVE CheckedOut'
  BY <1>4 DEF Retire, Becomes
<1>5. ASSUME NEW t \in Threads, LockPanel(t)  PROVE CheckedOut'
  BY <1>5 DEF LockPanel
<1>6. ASSUME NEW t \in Threads, Retract(t)  PROVE CheckedOut'
  BY <1>6 DEF Retract
<1>7. ASSUME NEW t \in Threads, Check(t)  PROVE CheckedOut'
  BY <1>7 DEF Check
<1>8. ASSUME NEW t \in Threads, TryLock(t)  PROVE CheckedOut'
  BY <1>8 DEF TryLock
<1>9. ASSUME NEW t \in Threads, Recheck(t)  PROVE CheckedOut'
  BY <1>9 DEF Recheck
<1>10. ASSUME NEW t \in Threads, UnlockPanel(t)  PROVE CheckedOut'
  BY <1>10 DEF UnlockPanel
<1>11. ASSUME NEW t \in Threads, TakeGate(t)  PROVE CheckedOut'
  BY <1>11, InsideType DEF TakeGate, OnBus
<1>12. ASSUME NEW t \in Threads, LeaveGate(t)  PROVE CheckedOut'
  BY <1>12 DEF LeaveGate, Ends, Becomes
<1>13. ASSUME NEW t \in Threads, Release(t)  PROVE CheckedOut'
  BY <1>13 DEF Release, Ends, Becomes
<1>14. ASSUME NEW t \in Threads, Drain(t)  PROVE CheckedOut'
  BY <1>14 DEF Drain
<1>15. ASSUME NEW t \in Threads, NEW ok \in BOOLEAN, Checkout(t, ok)
       PROVE CheckedOut'
  BY <1>15 DEF Checkout
<1>16. ASSUME NEW t \in Threads, NEW ok \in BOOLEAN, Enumerate(t, ok)
       PROVE CheckedOut'
  BY <1>16 DEF Enumerate
<1>17. ASSUME NEW t \in Threads, NEW ok \in BOOLEAN, Transact(t, ok)
       PROVE CheckedOut'
  BY <1>17 DEF Transact
<1>18. ASSUME NEW v \in Vcps, Create(v)  PROVE CheckedOut'
  BY <1>18 DEF Create
<1>19. CASE UNCHANGED vars
  BY <1>19 DEF vars
<1> QED
  BY <1>1, <1>2, <1>3, <1>4, <1>5, <1>6, <1>7, <1>8, <1>9, <1>10, <1>11,
     <1>12, <1>13, <1>14, <1>15, <1>16, <1>17, <1>18, <1>19
     DEF Next, Starts, Continues


\* A step that neither adds nor removes a waiter, and counts none.
LEMMA SameWaiters ==
    ASSUME AnnouncementsAreCounted, waiting' = waiting,
           \A p \in Panels : Waiters(p)' = Waiters(p)
    PROVE  AnnouncementsAreCounted'
BY DEF AnnouncementsAreCounted

LEMMA CountedStep ==
    ASSUME IInv, [Next]_vars
    PROVE  AnnouncementsAreCounted'
<1> DEFINE Same == \A p \in Panels : Waiters(p)' = Waiters(p)
<1> USE BusAssumption DEF IInv, Shape, Placed
<1>1. ASSUME NEW t \in Threads, NEW v \in Vcps, Announce(t, v)
      PROVE  AnnouncementsAreCounted'
  <2>1. PICK q \in Panels : q = PanelOf[v]  OBVIOUS
  <2>2. /\ pc[t] = "idle" /\ pc' = [pc EXCEPT ![t] = "announced"]
        /\ vcp' = [vcp EXCEPT ![t] = v]
        /\ waiting' = [waiting EXCEPT ![q] = @ + 1]
        BY <1>1, <2>1 DEF Announce, Becomes, Goes
  <2>3. Waiters(q)' = Waiters(q) \cup {t} /\ t \notin Waiters(q)
        BY <2>1, <2>2 DEF Waiters, Panel
  <2>4. \A p \in Panels \ {q} : Waiters(p)' = Waiters(p)
        BY <2>1, <2>2 DEF Waiters, Panel
  <2>5. Cardinality(Waiters(q) \cup {t}) = Cardinality(Waiters(q)) + 1
        BY <2>3, WaitersFinite, FS_AddElement
  <2> QED  BY <2>2, <2>3, <2>4, <2>5 DEF AnnouncementsAreCounted
<1>2. ASSUME NEW t \in Threads, Retract(t)
      PROVE  AnnouncementsAreCounted'
  <2>1. PICK q \in Panels : q = Panel(t)
    <3>1. vcp[t] \in Vcps  BY <1>2 DEF Retract, CallersOnly, Callers
    <3> QED  BY <3>1, PanelType
  <2>2. /\ pc[t] = "locked" /\ pc' = [pc EXCEPT ![t] = "gate"]
        /\ vcp' = vcp
        /\ waiting' = [waiting EXCEPT ![q] = @ - 1]
        BY <1>2, <2>1 DEF Retract, Goes
  <2>3. Waiters(q)' = Waiters(q) \ {t} /\ t \in Waiters(q)
        BY <2>1, <2>2 DEF Waiters, Panel
  <2>4. \A p \in Panels \ {q} : Waiters(p)' = Waiters(p)
        BY <2>1, <2>2 DEF Waiters, Panel
  <2>5. Cardinality(Waiters(q) \ {t}) = Cardinality(Waiters(q)) - 1
        BY <2>3, WaitersFinite, FS_RemoveElement
  <2> QED  BY <2>2, <2>3, <2>4, <2>5 DEF AnnouncementsAreCounted
<1>3. ASSUME NEW t \in Threads, NEW v \in Vcps, StartSampling(t, v)
      PROVE Same /\ waiting' = waiting
  BY <1>3 DEF StartSampling, Becomes, Goes, Waiters, Panel
<1>4. ASSUME NEW t \in Threads, NEW v \in Vcps, Retire(t, v)
      PROVE Same /\ waiting' = waiting
  BY <1>4 DEF Retire, Becomes, Goes, Waiters, Panel
<1>5. ASSUME NEW t \in Threads, Scan(t)  PROVE Same /\ waiting' = waiting
  BY <1>5 DEF Scan, Becomes, Goes, Waiters, Panel
<1>6. ASSUME NEW t \in Threads, LockPanel(t)  PROVE Same /\ waiting' = waiting
  BY <1>6 DEF LockPanel, Goes, Waiters, Panel
<1>7. ASSUME NEW t \in Threads, Check(t)  PROVE Same /\ waiting' = waiting
  BY <1>7 DEF Check, Goes, Waiters, Panel
<1>8. ASSUME NEW t \in Threads, TryLock(t)  PROVE Same /\ waiting' = waiting
  BY <1>8 DEF TryLock, Goes, Waiters, Panel
<1>9. ASSUME NEW t \in Threads, Recheck(t)  PROVE Same /\ waiting' = waiting
  BY <1>9 DEF Recheck, Goes, Waiters, Panel
<1>10. ASSUME NEW t \in Threads, UnlockPanel(t)  PROVE Same /\ waiting' = waiting
  BY <1>10 DEF UnlockPanel, Goes, Waiters, Panel
<1>11. ASSUME NEW t \in Threads, TakeGate(t)  PROVE Same /\ waiting' = waiting
  BY <1>11, InsideType DEF TakeGate, OnBus, Goes, Waiters, Panel
<1>12. ASSUME NEW t \in Threads, LeaveGate(t)  PROVE Same /\ waiting' = waiting
  BY <1>12 DEF LeaveGate, Ends, Becomes, Goes, Waiters, Panel
<1>13. ASSUME NEW t \in Threads, Release(t)  PROVE Same /\ waiting' = waiting
  BY <1>13 DEF Release, Ends, Becomes, Goes, Waiters, Panel
<1>14. ASSUME NEW t \in Threads, Drain(t)  PROVE Same /\ waiting' = waiting
  BY <1>14 DEF Drain, Goes, Waiters, Panel
<1>15. ASSUME NEW t \in Threads, NEW ok \in BOOLEAN, Checkout(t, ok)
       PROVE Same /\ waiting' = waiting
  BY <1>15 DEF Checkout, Goes, Waiters, Panel
<1>16. ASSUME NEW t \in Threads, NEW ok \in BOOLEAN, Enumerate(t, ok)
       PROVE Same /\ waiting' = waiting
  BY <1>16 DEF Enumerate, Goes, Waiters, Panel
<1>17. ASSUME NEW t \in Threads, NEW ok \in BOOLEAN, Transact(t, ok)
       PROVE Same /\ waiting' = waiting
  BY <1>17 DEF Transact, Goes, Waiters, Panel
<1>18. ASSUME NEW v \in Vcps, Create(v)  PROVE Same /\ waiting' = waiting
  BY <1>18 DEF Create, Waiters, Panel
<1>19. CASE UNCHANGED vars
  BY <1>19 DEF vars, AnnouncementsAreCounted, Waiters, Panel
<1> HIDE DEF Same
<1>20. ASSUME Same, waiting' = waiting  PROVE AnnouncementsAreCounted'
  BY <1>20, SameWaiters DEF Same
<1> QED
  BY <1>1, <1>2, <1>3, <1>4, <1>5, <1>6, <1>7, <1>8, <1>9, <1>10, <1>11,
     <1>12, <1>13, <1>14, <1>15, <1>16, <1>17, <1>18, <1>19, <1>20
     DEF Next, Starts, Continues

\* Whoever runs a call through v holds a clone of its Arc.
LEMMA ReferencesAreCallers ==
    ASSUME IInv, NEW v \in Vcps
    PROVE  References(v) = {t \in Threads : kind[t] \in Callers /\ vcp[t] = v}
BY DEF IInv, Placed, References, Callers

LEMMA RetirementStep ==
    ASSUME IInv, [Next]_vars
    PROVE  Retirement'
<1> USE BusAssumption DEF IInv, Shape, Placed, Goes, Callers, Kinds, CallersOnly,
                          Retirement, TornDown, Closing, Abandoned
<1>1. ASSUME NEW t \in Threads, Scan(t)  PROVE Retirement'
  BY <1>1 DEF Scan, Becomes
<1>2. ASSUME NEW t \in Threads, NEW v \in Vcps, Announce(t, v)  PROVE Retirement'
  BY <1>2 DEF Announce, Becomes
<1>3. ASSUME NEW t \in Threads, NEW v \in Vcps, StartSampling(t, v)  PROVE Retirement'
  BY <1>3 DEF StartSampling, Becomes
<1>4. ASSUME NEW t \in Threads, LockPanel(t)  PROVE Retirement'
  BY <1>4 DEF LockPanel
<1>5. ASSUME NEW t \in Threads, Retract(t)  PROVE Retirement'
  BY <1>5 DEF Retract
<1>6. ASSUME NEW t \in Threads, Check(t)  PROVE Retirement'
  BY <1>6 DEF Check
<1>7. ASSUME NEW t \in Threads, TryLock(t)  PROVE Retirement'
  BY <1>7 DEF TryLock
<1>8. ASSUME NEW t \in Threads, Recheck(t)  PROVE Retirement'
  BY <1>8 DEF Recheck
<1>9. ASSUME NEW t \in Threads, UnlockPanel(t)  PROVE Retirement'
  BY <1>9 DEF UnlockPanel
<1>10. ASSUME NEW t \in Threads, Drain(t)  PROVE Retirement'
  BY <1>10 DEF Drain
<1>11. ASSUME NEW t \in Threads, LeaveGate(t)  PROVE Retirement'
  BY <1>11 DEF LeaveGate, Ends, Becomes
<1>12. ASSUME NEW t \in Threads, NEW ok \in BOOLEAN, Checkout(t, ok)  PROVE Retirement'
  BY <1>12 DEF Checkout
<1>13. ASSUME NEW t \in Threads, NEW ok \in BOOLEAN, Enumerate(t, ok)  PROVE Retirement'
  BY <1>13 DEF Enumerate
<1>14. ASSUME NEW t \in Threads, NEW ok \in BOOLEAN, Transact(t, ok)  PROVE Retirement'
  BY <1>14 DEF Transact
<1>15. ASSUME NEW t \in Threads, TakeGate(t)  PROVE Retirement'
  <2>1. TornDown'  BY <1>15, InsideType DEF TakeGate, OnBus
  <2>2. Closing'  BY <1>15, InsideType DEF TakeGate, OnBus
  <2> QED  BY <2>1, <2>2
<1>16. ASSUME NEW t \in Threads, Release(t)  PROVE Retirement'
  <2>1. TornDown'  BY <1>16, ReferencesAreCallers DEF Release, Ends, Becomes
  <2>2. Closing'  BY <1>16, ReferencesAreCallers DEF Release, Ends, Becomes
  <2> QED  BY <2>1, <2>2
<1>17. ASSUME NEW t \in Threads, NEW v \in Vcps, Retire(t, v)  PROVE Retirement'
  <2>1. TornDown'  BY <1>17, ReferencesAreCallers DEF Retire, Becomes
  <2>2. Closing'  BY <1>17, ReferencesAreCallers DEF Retire, Becomes
  <2> QED  BY <2>1, <2>2
<1>18. ASSUME NEW v \in Vcps, Create(v)  PROVE Retirement'
  BY <1>18, ReferencesAreCallers DEF Create, TearsDown
<1>19. CASE UNCHANGED vars
  BY <1>19 DEF vars
<1> QED
  BY <1>1, <1>2, <1>3, <1>4, <1>5, <1>6, <1>7, <1>8, <1>9, <1>10, <1>11,
     <1>12, <1>13, <1>14, <1>15, <1>16, <1>17, <1>18, <1>19
     DEF Next, Starts, Continues

-----------------------------------------------------------------------------
\* What the other theorems rest on.
THEOREM Invariance == Spec => []IInv
<1>1. Init => IInv
  <2> SUFFICES ASSUME Init PROVE IInv  OBVIOUS
  <2>1. Shape /\ Placed /\ Gated /\ CheckedOut
    BY BusAssumption DEF Init, Shape, Placed, Gated, CheckedOut, Places, Kinds,
       Callers, CallersOnly, OnBus
  <2>2. \A p \in Panels : Waiters(p) = {}  BY DEF Init, Waiters
  <2>3. AnnouncementsAreCounted
    BY <2>2, FS_EmptySet DEF Init, AnnouncementsAreCounted
  <2>4. Retirement  BY DEF Init, Retirement, TornDown, Closing
  <2> QED  BY <2>1, <2>3, <2>4 DEF IInv
<1>2. IInv /\ [Next]_vars => IInv'
  BY ShapeStep, PlacedStep, GatedStep, CheckedOutStep, CountedStep, RetirementStep
     DEF IInv
<1> QED  BY <1>1, <1>2, PTL DEF Spec

\* No count is ever negative, which its usize would not survive, and every
\* other variable keeps its type.
THEOREM TypeCorrect == Spec => []TypeOK
<1>1. IInv => TypeOK
  <2> SUFFICES ASSUME IInv PROVE TypeOK  OBVIOUS
  <2>1. \A p \in Panels : waiting[p] \in Nat
    BY WaitersFinite, FS_CardinalityType DEF IInv, AnnouncementsAreCounted
  <2>2. waiting \in [Panels -> Nat]  BY <2>1 DEF IInv, Shape
  <2> QED  BY <2>2 DEF IInv, Shape, TypeOK
<1> QED  BY <1>1, Invariance, PTL

\* The counter of PanelLock is the number of the commands that wait.
THEOREM Counted == Spec => []AnnouncementsAreCounted
BY Invariance, PTL DEF IInv

\* Whoever is on the bus has the gate, and one thread has it.
THEOREM Serialized == Spec => []BusIsSerialized
<1>1. IInv => BusIsSerialized  BY DEF IInv, Gated, BusIsSerialized
<1> QED  BY <1>1, Invariance, PTL

\* A handle in use is used inside the gate and is in no cache.
THEOREM OneOwner == Spec => []HandleHasOneOwner
<1>1. IInv => HandleHasOneOwner
  BY DEF IInv, Placed, Gated, CheckedOut, OnBus, HandleHasOneOwner
<1> QED  BY <1>1, Invariance, PTL

\* The last call of a retired controller, or the reload that retires an idle
\* one, leaves no handle behind: whoever drops the last clone drains the cache.
THEOREM RetiredCacheIsDrained == Spec => []RetiredIsDrained
<1>1. IInv => RetiredIsDrained
  <2> SUFFICES ASSUME IInv, NEW v \in Vcps, ~live[v], References(v) = {}, cache[v]
               PROVE  \E t \in Threads : TearsDown(t, v)
    BY DEF RetiredIsDrained
  <2>1. Abandoned(v)  BY ReferencesAreCallers DEF Abandoned
  <2>2. PICK t \in Threads : kind[t] = "teardown" /\ vcp[t] = v
    BY <2>1 DEF IInv, Retirement, Closing
  <2>3. pc[t] # "idle"  BY <2>2 DEF IInv, Placed
  <2> QED  BY <2>2, <2>3 DEF TearsDown
<1> QED  BY <1>1, Invariance, PTL

\* The second check of sampler_try reads zero only if no command waits.
THEOREM NoOvertaking == Spec => SamplerNeverOvertakes
<1>1. ASSUME IInv, Next, NEW t \in Threads, NEW u \in Threads, Overtakes(t, u)
      PROVE  FALSE
  <2>1. kind[t] = "sampler" /\ kind'[t] = "sampler" /\ pc[t] # "gate" /\ pc'[t] = "gate"
    BY <1>1 DEF Overtakes
  <2>2. Recheck(t)
    <3> USE <2>1 DEF IInv, Shape, Placed, Goes, Becomes, Ends
    <3>1. ASSUME NEW w \in Threads, NEW v \in Vcps,
                 Announce(w, v) \/ StartSampling(w, v) \/ Retire(w, v)
          PROVE  FALSE
      BY <1>1, <3>1 DEF Announce, StartSampling, Retire
    <3>2. ASSUME NEW w \in Threads, Scan(w) \/ Release(w) \/ LeaveGate(w)
          PROVE  FALSE
      BY <1>1, <3>2 DEF Scan, Release, LeaveGate
    <3>3. ASSUME NEW w \in Threads,
                 \/ LockPanel(w) \/ Retract(w) \/ Check(w) \/ TryLock(w)
                 \/ UnlockPanel(w) \/ Drain(w)
          PROVE  FALSE
      BY <1>1, <3>3 DEF LockPanel, Retract, Check, TryLock, UnlockPanel, Drain
    <3>4. ASSUME NEW w \in Threads, TakeGate(w)  PROVE FALSE
      BY <1>1, <3>4, InsideType DEF TakeGate, OnBus
    <3>5. ASSUME NEW w \in Threads, NEW ok \in BOOLEAN,
                 Checkout(w, ok) \/ Enumerate(w, ok) \/ Transact(w, ok)
          PROVE  FALSE
      BY <1>1, <3>5 DEF Checkout, Enumerate, Transact
    <3>6. ASSUME NEW v \in Vcps, Create(v)  PROVE FALSE
      BY <1>1, <3>6 DEF Create
    <3>7. ASSUME NEW w \in Threads, Recheck(w)  PROVE w = t
      BY <1>1, <3>7 DEF Recheck
    <3> QED
      BY <1>1, <3>1, <3>2, <3>3, <3>4, <3>5, <3>6, <3>7 DEF Next, Starts, Continues
  <2> DEFINE p == Panel(t)
  <2>3. p \in Panels /\ waiting[p] \in Int /\ ~(waiting[p] > 0)
    <3>1. vcp[t] \in Vcps  BY <1>1, <2>1 DEF IInv, Placed
    <3>2. p \in Panels  BY <1>1, <3>1, PanelType DEF IInv
    <3> QED  BY <1>1, <2>1, <2>2, <3>2 DEF IInv, Shape, Recheck, Goes
  <2>4. u \in Waiters(p)  BY <1>1 DEF Overtakes, Waiters
  <2>5. Cardinality(Waiters(p)) > 0
    BY <2>4, WaitersFinite, FS_EmptySet, FS_CardinalityType
  <2> QED  BY <1>1, <2>3, <2>5 DEF IInv, AnnouncementsAreCounted
<1>2. IInv /\ [Next]_vars => [\A t, u \in Threads : ~Overtakes(t, u)]_vars
  BY <1>1
<1> QED  BY <1>2, Invariance, PTL DEF Spec, SamplerNeverOvertakes
=============================================================================
