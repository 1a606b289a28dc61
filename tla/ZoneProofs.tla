----------------------------- MODULE ZoneProofs -----------------------------
(***************************************************************************)
(* Theorems about the hold filter, the stale sweep and the fusion of       *)
(* zones, for any number of sensors, zones, rules and displays, any        *)
(* configuration of them that the code accepts, and any times.             *)
(*                                                                         *)
(* None of the invariants is inductive.  That an absence held back is not  *)
(* lost follows from how old its hold is (Armed), and that a sweep does    *)
(* not end the hold from a hold being no longer than its timeout; that     *)
(* silence is noticed in time from how old the engine believes a sensor or *)
(* its lease to be (Leased) and how soon the next sweep is (InTime).       *)
(*                                                                         *)
(* The loops over the zones and over the sensors are recursive functions.  *)
(* What holds after so many rounds is proved by way of the first round     *)
(* after which it does not (UpTo); that the functions are what their       *)
(* definitions say, by building the rounds one by one (LoopExists).        *)
(***************************************************************************)
EXTENDS ZoneFusion, FiniteSetTheorems, WellFoundedInduction, TLAPS

-----------------------------------------------------------------------------
(* The inductive invariant *)

\* A timer waits for every hold that is armed, and the hold and the time since
\* the presence that armed it add up.
Armed(e, s) ==
  e.armed[s] # Never =>
    /\ HoldTime[s] # Never
    /\ e.armed[s] \in e.expiries[s]
    /\ e.armed[s] + sincePresent[s] = HoldTime[s]
    /\ e.seen[s] # Never
    /\ e.seen[s] <= sincePresent[s]
    /\ silent[s] <= sincePresent[s]

\* An absence waits exactly while it is the last word and its hold is armed.
Disarmed(e, s) ==
  /\ e.armed[s] = Never => sincePresent[s] >= HoldOf(s)
  /\ e.pending[s] <=> e.armed[s] # Never /\ word[s] = "absent"
  /\ e.states[s] = "absent" => sincePresent[s] >= HoldOf(s)

\* The last word counts, unless it is held back: the engine has seen the sensor
\* no earlier than it was heard.
Counted(e, s) ==
  /\ word[s] = Never => sinceWord[s] > StaleAfter[s]
  /\ word[s] # Never /\ ~e.pending[s] =>
       /\ e.seen[s] # Never
       /\ e.seen[s] <= sinceWord[s]
       /\ sinceWord[s] <= StaleAfter[s] => e.states[s] = word[s]

\* A lease is as old as the silence, or too old; so is, but for a hold, what the
\* engine has seen of a sensor that it takes for alive.
Leased(e, s) ==
  /\ e.online[s] # Never => silent[s] <= e.online[s] \/ e.online[s] > StaleAfter[s]
  /\ e.states[s] # "unavailable" =>
       /\ e.seen[s] # Never
       /\ silent[s] <= e.seen[s] + HoldOf(s) \/ e.seen[s] > StaleAfter[s]

\* The sweep comes before the silence has lasted too long.
InTime(e, s, left) ==
  e.states[s] # "unavailable" => silent[s] + left <= Noticed(s)

SensorInv(e, s) == Armed(e, s) /\ Disarmed(e, s) /\ Counted(e, s) /\ Leased(e, s)

\* Every zone is the fusion of its members.
Fused(states, zones) == \A z \in Zones : zones[z] = Resolve(z, states, zones)

\* What a display was told is what its zones say.
Fanned(e) ==
  \A d \in Displays : e.told[d] # "unknown" =>
    (e.told[d] = "present" <=> Occupied(d, e.zones))

EngineInv(e) ==
  e \in Engines /\ Fused(e.states, e.zones) /\ Fanned(e)

ZoneInv ==
  /\ ZoneTypeOK
  /\ EngineInv(eng)
  /\ \A s \in Sensors : SensorInv(eng, s) /\ InTime(eng, s, sweepIn)

-----------------------------------------------------------------------------
(* Loops *)

\* There is a first.
LEMMA LeastOf ==
  ASSUME NEW S \in SUBSET Nat, S # {}
  PROVE  \E n \in S : \A m \in S : n <= m
<1> DEFINE Less == OpToRel(<, Nat)
<1>1. PICK n \in S : \A m \in S : <<m, n>> \notin Less
  BY NatLessThanWellFounded, WFMin
<1>2. ASSUME NEW m \in S  PROVE n <= m
  <2>1. n \in Nat /\ m \in Nat
    OBVIOUS
  <2>2. <<m, n>> \notin Less
    BY <1>1
  <2>3. <<m, n>> \in Nat \X Nat /\ <<m, n>>[1] = m /\ <<m, n>>[2] = n
    BY <2>1
  <2>4. ~(m < n)
    BY <2>2, <2>3 DEF OpToRel
  <2> QED  BY <2>1, <2>4
<1> QED  BY <1>2

\* What holds at first, and after a round if it did before it, holds throughout.
LEMMA UpTo ==
  ASSUME NEW N \in Nat, NEW T, 0 \in T, \A n \in 1 .. N : n - 1 \in T => n \in T
  PROVE  \A n \in 0 .. N : n \in T
<1> DEFINE missed == {n \in 0 .. N : n \notin T}
<1>1. CASE missed = {}
  BY <1>1
<1>2. CASE missed # {}
  <2>1. missed \in SUBSET Nat
    OBVIOUS
  <2>2. PICK n \in missed : \A m \in missed : n <= m
    BY <1>2, <2>1, LeastOf
  <2>3. n \in 0 .. N /\ n \notin T
    OBVIOUS
  <2>4. n \in 1 .. N /\ n - 1 \in 0 .. N
    BY <2>3
  <2>5. n - 1 \in T
    BY <2>2, <2>4
  <2> QED  BY <2>3, <2>4, <2>5
<1> QED  BY <1>1, <1>2

\* What a loop of k rounds, each of which does its step, goes through.
Runs(f, k, first, step) ==
  f[0] = first /\ \A n \in 1 .. k : f[n] = step[n][f[n - 1]]

\* Such a loop can be gone through, as long as a step leads from S to S.
LEMMA LoopExists ==
  ASSUME NEW N \in Nat, NEW S, NEW first \in S, NEW step \in [1 .. N -> [S -> S]]
  PROVE  \E f \in [0 .. N -> S] : Runs(f, N, first, step)
<1> DEFINE T == {k \in 0 .. N : \E f \in [0 .. k -> S] : Runs(f, k, first, step)}
<1>1. 0 \in T
  <2> DEFINE g == [n \in 0 .. 0 |-> first]
  <2>1. g \in [0 .. 0 -> S] /\ g[0] = first /\ 1 .. 0 = {}
    OBVIOUS
  <2> HIDE DEF g
  <2>2. \E f \in [0 .. 0 -> S] : Runs(f, 0, first, step)
    BY <2>1 DEF Runs
  <2> QED  BY <2>2
<1>2. ASSUME NEW k \in 1 .. N, k - 1 \in T  PROVE k \in T
  <2>1. PICK f \in [0 .. k - 1 -> S] : Runs(f, k - 1, first, step)
    BY <1>2
  <2> DEFINE g == [n \in 0 .. k |-> IF n < k THEN f[n] ELSE step[k][f[k - 1]]]
  <2>2. f[k - 1] \in S /\ step[k] \in [S -> S]
    BY <2>1
  <2>3. g \in [0 .. k -> S]
    BY <2>1, <2>2
  <2>4. \A n \in 0 .. k - 1 : g[n] = f[n]
    BY <2>1
  <2>5. g[k] = step[k][f[k - 1]]
    OBVIOUS
  <2> HIDE DEF g
  <2>6. ASSUME NEW n \in 1 .. k  PROVE g[n] = step[n][g[n - 1]]
    <3>1. CASE n = k
      BY <3>1, <2>4, <2>5
    <3>2. CASE n # k
      <4>1. n \in 1 .. k - 1 /\ n \in 0 .. k - 1 /\ n - 1 \in 0 .. k - 1
        BY <3>2
      <4>2. f[n] = step[n][f[n - 1]]
        BY <2>1, <4>1 DEF Runs
      <4> QED  BY <2>4, <4>1, <4>2
    <3> QED  BY <3>1, <3>2
  <2>7. g[0] = first
    BY <2>1, <2>4 DEF Runs
  <2>8. Runs(g, k, first, step)
    BY <2>6, <2>7 DEF Runs
  <2> QED  BY <2>3, <2>8
<1> HIDE DEF T
<1>3. \A k \in 0 .. N : k \in T
  BY <1>1, <1>2, UpTo
<1>4. N \in T
  BY <1>3
<1> QED  BY <1>4 DEF T

-----------------------------------------------------------------------------
(* Fusion *)

\* topo_sort: every zone has one place, after its members.
LEMMA Order ==
  /\ Cardinality(Zones) \in Nat
  /\ EvalOrder \in [1 .. Cardinality(Zones) -> Zones]
  /\ \A z \in Zones : \E i \in 1 .. Cardinality(Zones) : z = EvalOrder[i]
  /\ ChildrenFirst(EvalOrder)
<1>1. Cardinality(Zones) \in Nat
  BY ZoneAssumption, FS_CardinalityType DEF ZoneAssumption
<1>2. EvalOrder \in Orders /\ ChildrenFirst(EvalOrder)
  <2>1. \E o \in Orders : ChildrenFirst(o)
    BY ZoneAssumption DEF ZoneAssumption
  <2> QED  BY <2>1 DEF EvalOrder
<1>3. EvalOrder \in [1 .. Cardinality(Zones) -> Zones] /\ Range(EvalOrder) = Zones
  BY <1>2 DEF Orders
<1> QED  BY <1>1, <1>2, <1>3 DEF Range

LEMMA OrderIsInjective ==
  ASSUME NEW i \in 1 .. Cardinality(Zones), NEW j \in 1 .. Cardinality(Zones),
         EvalOrder[i] = EvalOrder[j]
  PROVE  i = j
<1> DEFINE N == Cardinality(Zones)
<1>1. N \in Nat /\ IsFiniteSet(1 .. N) /\ Cardinality(1 .. N) = N
  BY Order, FS_Interval
<1>2. EvalOrder \in Surjection(1 .. N, Zones)
  BY Order DEF Surjection
<1>3. EvalOrder \in Injection(1 .. N, Zones)
  BY <1>1, <1>2, FS_SurjSameCardinalityImpliesInj
<1> QED  BY <1>3 DEF Injection, IsInjective

LEMMA ResolveTyped ==
  ASSUME NEW z \in Zones, NEW states, NEW zones
  PROVE  Resolve(z, states, zones) \in BOOLEAN
BY DEF Resolve

\* A zone depends on no zone but its members.
LEMMA ResolveIsLocal ==
  ASSUME NEW z \in Zones, NEW states, NEW zones, NEW zones2,
         \A m \in Members[z] \cap Zones : zones[m] = zones2[m]
  PROVE  Resolve(z, states, zones) = Resolve(z, states, zones2)
<1>1. {m \in Members[z] : Counts(z, m, states, zones)}
         = {m \in Members[z] : Counts(z, m, states, zones2)}
  BY DEF Counts
<1> QED  BY <1>1 DEF Resolve

\* The loop of ZoneEngine::apply.
LEMMA ResolvedLoop ==
  ASSUME NEW states, NEW zones \in [Zones -> BOOLEAN]
  PROVE  \E f \in [0 .. Cardinality(Zones) -> [Zones -> BOOLEAN]] :
           /\ f[0] = zones
           /\ \A n \in 1 .. Cardinality(Zones) :
                f[n] = OneMore(states, EvalOrder[n], f[n - 1])
           /\ Resolved(states, zones) = f[Cardinality(Zones)]
<1> DEFINE N == Cardinality(Zones)
           S == [Zones -> BOOLEAN]
           step == [n \in 1 .. N |-> [zs \in S |-> OneMore(states, EvalOrder[n], zs)]]
           Is(f) == f = [n \in 0 .. N |->
                           IF n = 0 THEN zones ELSE OneMore(states, EvalOrder[n], f[n - 1])]
           after == CHOOSE f : Is(f)
<1>1. N \in Nat
  BY Order
<1>2. ASSUME NEW n \in 1 .. N, NEW zs \in S
      PROVE  OneMore(states, EvalOrder[n], zs) \in S
  BY <1>2, Order, ResolveTyped DEF OneMore
<1>3. step \in [1 .. N -> [S -> S]]
  BY <1>2
<1>4. PICK f \in [0 .. N -> S] : Runs(f, N, zones, step)
  <2> HIDE DEF step, S, N
  <2>1. zones \in S
    BY DEF S
  <2> QED  BY <1>1, <1>3, <2>1, LoopExists
<1>5. \A n \in 1 .. N : f[n] = OneMore(states, EvalOrder[n], f[n - 1])
  <2> TAKE n \in 1 .. N
  <2>1. f[n - 1] \in S
    BY <1>1, <1>4
  <2> QED  BY <1>4, <2>1 DEF Runs
<1>6. Is(f)
  BY <1>1, <1>4, <1>5 DEF Runs
<1> HIDE DEF step
<1>7. Is(after)
  BY <1>6
<1>8. Resolved(states, zones) = after[N]
  BY DEF Resolved
<1> HIDE DEF after
<1>9. after[0] = zones /\ \A n \in 1 .. N : after[n] = OneMore(states, EvalOrder[n], after[n - 1])
  BY <1>1, <1>7
<1> DEFINE T == {n \in 0 .. N : after[n] \in S}
<1>10. \A n \in 0 .. N : n \in T
  <2>1. 0 \in T
    BY <1>1, <1>9
  <2>2. ASSUME NEW n \in 1 .. N, n - 1 \in T  PROVE n \in T
    BY <1>1, <1>2, <1>9, <2>2
  <2> HIDE DEF T
  <2> QED  BY <1>1, <2>1, <2>2, UpTo
<1>11. after \in [0 .. N -> S]
  BY <1>7, <1>10
<1> QED  BY <1>8, <1>9, <1>11

\* Every zone is the fusion of its members once the loop is through: a zone that
\* was resolved comes after its members, and none of them changes any more.
LEMMA ResolvedFused ==
  ASSUME NEW states, NEW zones \in [Zones -> BOOLEAN]
  PROVE  /\ Resolved(states, zones) \in [Zones -> BOOLEAN]
         /\ Fused(states, Resolved(states, zones))
<1> DEFINE N == Cardinality(Zones)
<1>1. PICK f \in [0 .. N -> [Zones -> BOOLEAN]] :
        /\ f[0] = zones
        /\ \A n \in 1 .. N : f[n] = OneMore(states, EvalOrder[n], f[n - 1])
        /\ Resolved(states, zones) = f[N]
  BY ResolvedLoop
<1>2. N \in Nat
  BY Order
<1> DEFINE T == {n \in 0 .. N : \A i \in 1 .. n :
                    f[n][EvalOrder[i]] = Resolve(EvalOrder[i], states, f[n])}
<1>3. ASSUME NEW n \in 1 .. N, n - 1 \in T  PROVE n \in T
  <2> DEFINE old == f[n - 1]
             new == f[n]
             at == EvalOrder[n]
  <2>1. /\ old \in [Zones -> BOOLEAN] /\ new \in [Zones -> BOOLEAN]
        /\ at \in Zones /\ new = [old EXCEPT ![at] = Resolve(at, states, old)]
    <3>1. n \in 0 .. N /\ n - 1 \in 0 .. N
      BY <1>2
    <3>2. at \in Zones
      BY <1>2, Order
    <3> QED  BY <1>1, <3>1, <3>2 DEF OneMore
  <2>2. \A i \in 1 .. n - 1 : old[EvalOrder[i]] = Resolve(EvalOrder[i], states, old)
    BY <1>3
  <2> HIDE DEF old, new
  <2>3. ASSUME NEW z \in Zones, z # at  PROVE new[z] = old[z]
    BY <2>1, <2>3
  <2>4. new[at] = Resolve(at, states, old)
    BY <2>1
  <2> HIDE DEF at
  <2>5. ASSUME NEW i \in 1 .. n, NEW m \in Members[EvalOrder[i]] \cap Zones
        PROVE  m # at
    <3>1. PICK j \in 1 .. N : m = EvalOrder[j]
      BY Order
    <3>2. i \in DOMAIN EvalOrder /\ j \in DOMAIN EvalOrder
      BY <1>2, Order
    <3>3. j < i
      BY <2>5, <3>1, <3>2, Order DEF ChildrenFirst
    <3>4. CASE m = at
      <4>1. EvalOrder[j] = EvalOrder[n]
        BY <3>1, <3>4 DEF at
      <4>2. j = n
        BY <4>1, OrderIsInjective
      <4> QED  BY <1>2, <3>3, <4>2
    <3> QED  BY <3>4
  <2>6. ASSUME NEW i \in 1 .. n
        PROVE  Resolve(EvalOrder[i], states, new) = Resolve(EvalOrder[i], states, old)
    <3>1. EvalOrder[i] \in Zones
      BY <1>2, Order
    <3>2. \A m \in Members[EvalOrder[i]] \cap Zones : old[m] = new[m]
      BY <2>3, <2>5
    <3> QED  BY <3>1, <3>2, ResolveIsLocal
  <2>7. ASSUME NEW i \in 1 .. n
        PROVE  new[EvalOrder[i]] = Resolve(EvalOrder[i], states, new)
    <3>1. i \in 1 .. N /\ EvalOrder[i] \in Zones
      BY <1>2, Order
    <3>2. CASE i = n
      BY <3>2, <2>4, <2>6 DEF at
    <3>3. CASE i # n
      <4>1. i \in 1 .. n - 1
        BY <3>3
      <4>2. EvalOrder[i] # at
        BY <3>1, <3>3, OrderIsInjective DEF at
      <4> QED  BY <2>2, <2>3, <2>6, <3>1, <4>1, <4>2
    <3> QED  BY <3>2, <3>3
  <2> QED  BY <2>7 DEF new
<1>4. 0 \in T
  BY <1>2
<1>5. N \in T
  <2> HIDE DEF T, N
  <2>1. \A n \in 0 .. N : n \in T
    BY <1>2, <1>3, <1>4, UpTo
  <2> QED  BY <1>2, <2>1
<1>6. \A z \in Zones : f[N][z] = Resolve(z, states, f[N])
  BY <1>5, Order
<1>7. f[N] \in [Zones -> BOOLEAN]
  BY <1>1, <1>2
<1> QED  BY <1>1, <1>6, <1>7 DEF Fused

-----------------------------------------------------------------------------
(* Presence events *)

LEMMA Parameters ==
  /\ Never \notin Nat /\ Never \notin SensorStates
  /\ \A s \in Sensors : /\ StaleAfter[s] \in Nat
                        /\ HoldTime[s] = Never \/ HoldTime[s] \in Nat
                        /\ HoldOf(s) \in Nat /\ HoldOf(s) <= StaleAfter[s]
                        /\ HoldTime[s] # Never => HoldOf(s) = HoldTime[s]
  /\ SweepPeriod \in Nat \ {0}
  /\ Zones \cap Sensors = {}
  /\ Len(SensorOrder) \in Nat
  /\ \A n \in 1 .. Len(SensorOrder) : SensorOrder[n] \in Sensors
  /\ \A s \in Sensors : \E n \in 1 .. Len(SensorOrder) : s = SensorOrder[n]
<1>1. SensorOrder \in Seq(Sensors)
  BY ZoneAssumption DEF ZoneAssumption
<1>2. /\ Len(SensorOrder) \in Nat
      /\ DOMAIN SensorOrder = 1 .. Len(SensorOrder)
      /\ \A n \in 1 .. Len(SensorOrder) : SensorOrder[n] \in Sensors
  BY <1>1
<1>3. \A s \in Sensors : \E n \in 1 .. Len(SensorOrder) : s = SensorOrder[n]
  BY <1>2 DEF Sensors, Range
<1>4. /\ Never \notin Nat \cup SensorStates /\ SweepPeriod \in Nat \ {0} /\ Zones \cap Sensors = {}
      /\ HoldTime \in [Sensors -> Nat \cup {Never}] /\ StaleAfter \in [Sensors -> Nat]
      /\ \A s \in Sensors : HoldTime[s] # Never => HoldTime[s] <= StaleAfter[s]
  BY ZoneAssumption DEF ZoneAssumption
<1>5. ASSUME NEW s \in Sensors
      PROVE  /\ StaleAfter[s] \in Nat
             /\ HoldTime[s] = Never \/ HoldTime[s] \in Nat
             /\ HoldOf(s) \in Nat /\ HoldOf(s) <= StaleAfter[s]
             /\ HoldTime[s] # Never => HoldOf(s) = HoldTime[s]
  BY <1>4 DEF HoldOf
<1> QED  BY <1>2, <1>3, <1>4, <1>5

LEMMA Fields ==
  ASSUME NEW e \in Engines
  PROVE  /\ e.states \in [Sensors -> SensorStates] /\ e.zones \in [Zones -> BOOLEAN]
         /\ e.told \in [Displays -> {"unknown", "present", "absent"}]
         /\ e.seen \in [Sensors -> Nat \cup {Never}]
         /\ e.online \in [Sensors -> Nat \cup {Never}]
         /\ e.armed \in [Sensors -> Nat \cup {Never}]
         /\ e.pending \in [Sensors -> BOOLEAN]
         /\ e.expiries \in [Sensors -> SUBSET Nat]
BY DEF Engines

\* What a hearing leaves in each field.
Applies(e, a, s, w) ==
  /\ a \in Engines
  /\ a.states = [e.states EXCEPT ![s] = w] /\ a.seen = [e.seen EXCEPT ![s] = 0]
  /\ a.zones = Resolved(a.states, e.zones)
  /\ a.told = [d \in Displays |-> Told(e, a.zones, d)]
  /\ a.online = e.online /\ a.armed = e.armed /\ a.pending = e.pending
  /\ a.expiries = e.expiries

LEMMA AppliedFields ==
  ASSUME NEW e \in Engines, NEW s \in Sensors, NEW w \in SensorStates
  PROVE  Applies(e, Applied(e, s, w), s, w)
<1> DEFINE states == [e.states EXCEPT ![s] = w]
           zones  == Resolved(states, e.zones)
           told   == [d \in Displays |-> Told(e, zones, d)]
           seen   == [e.seen EXCEPT ![s] = 0]
<1>1. states \in [Sensors -> SensorStates] /\ seen \in [Sensors -> Nat \cup {Never}]
  BY Fields
<1>2. zones \in [Zones -> BOOLEAN]
  BY Fields, ResolvedFused
<1> HIDE DEF zones
<1>3. told \in [Displays -> {"unknown", "present", "absent"}]
  BY Fields DEF Told
<1>4. Applied(e, s, w) = [e EXCEPT !.seen = seen, !.states = states, !.zones = zones,
                                   !.told = told]
  BY DEF Applied, zones, Engines
<1> HIDE DEF states, told, seen
<1>5. /\ Applied(e, s, w) \in Engines
      /\ Applied(e, s, w).states = states /\ Applied(e, s, w).zones = zones
      /\ Applied(e, s, w).told = told /\ Applied(e, s, w).seen = seen
      /\ Applied(e, s, w).online = e.online /\ Applied(e, s, w).armed = e.armed
      /\ Applied(e, s, w).pending = e.pending /\ Applied(e, s, w).expiries = e.expiries
  BY <1>1, <1>2, <1>3, <1>4 DEF Engines
<1>6. Applies(e, Applied(e, s, w), s, w)
  BY <1>5 DEF Applies, states, zones, told, seen
<1> QED  BY <1>6

LEMMA AppliedCurrent ==
  ASSUME NEW e, EngineInv(e), NEW s \in Sensors, NEW w \in SensorStates
  PROVE  EngineInv(Applied(e, s, w))
<1> DEFINE a == Applied(e, s, w)
<1>1. e \in Engines /\ Fanned(e)
  BY DEF EngineInv
<1>2. a \in Engines /\ a.told = [d \in Displays |-> Told(e, a.zones, d)]
      /\ a.zones = Resolved(a.states, e.zones)
  <2>1. Applies(e, a, s, w)
    BY <1>1, AppliedFields
  <2> HIDE DEF a
  <2> QED  BY <2>1 DEF Applies
<1>3. Fused(a.states, a.zones)
  BY <1>1, <1>2, Fields, ResolvedFused
<1> HIDE DEF a
<1>4. ASSUME NEW d \in Displays, a.told[d] # "unknown"
      PROVE  a.told[d] = "present" <=> Occupied(d, a.zones)
  <2>1. a.told[d] = Told(e, a.zones, d)
    BY <1>2
  <2>2. CASE \A r \in Rules : d \in RuleDisplays[r]
                                => a.zones[RuleZone[r]] = e.zones[RuleZone[r]]
    <3>1. a.told[d] = e.told[d]
      BY <2>1, <2>2 DEF Told
    <3>2. Occupied(d, a.zones) <=> Occupied(d, e.zones)
      BY <2>2 DEF Occupied
    <3> QED  BY <1>1, <1>4, <3>1, <3>2 DEF Fanned
  <2>3. CASE ~(\A r \in Rules : d \in RuleDisplays[r]
                                => a.zones[RuleZone[r]] = e.zones[RuleZone[r]])
    BY <2>1, <2>3 DEF Told
  <2> QED  BY <2>2, <2>3
<1> QED  BY <1>2, <1>3, <1>4 DEF EngineInv, Fanned, a

\* What the hold filter leaves alone, and what it makes of the hold of one sensor.
SameHold(e, f, r) ==
  /\ f.armed[r] = e.armed[r] /\ f.pending[r] = e.pending[r]
  /\ f.expiries[r] = e.expiries[r]

HoldFollows(e, f, s, w) ==
  /\ HoldTime[s] = Never => SameHold(e, f, s)
  /\ HoldTime[s] # Never =>
       /\ f.armed[s] = (IF w = "present" THEN HoldTime[s] ELSE e.armed[s])
       /\ f.pending[s] <=> w = "absent" /\ (e.pending[s] \/ e.armed[s] # Never)
       /\ f.expiries[s] = (IF w = "present" THEN e.expiries[s] \cup {HoldTime[s]}
                           ELSE e.expiries[s])

Filters(e, f, s, w) ==
  /\ f \in Engines
  /\ f.states = e.states /\ f.zones = e.zones /\ f.told = e.told
  /\ f.seen = e.seen /\ f.online = e.online
  /\ \A r \in Sensors \ {s} : SameHold(e, f, r)
  /\ HoldFollows(e, f, s, w)

LEMMA FilteredFields ==
  ASSUME NEW e \in Engines, NEW s \in Sensors, NEW w \in SensorStates
  PROVE  Filters(e, Filtered(e, s, w), s, w)
<1> DEFINE f == Filtered(e, s, w)
<1> USE Fields DEF Filters, HoldFollows, SameHold
<1>1. CASE HoldTime[s] = Never
  BY <1>1 DEF Filtered
<1>2. CASE HoldTime[s] # Never /\ w = "present"
  <2> DEFINE armed == [e.armed EXCEPT ![s] = HoldTime[s]]
             pending == [e.pending EXCEPT ![s] = FALSE]
             expiries == [e.expiries EXCEPT ![s] = e.expiries[s] \cup {HoldTime[s]}]
  <2>1. f = [e EXCEPT !.armed = armed, !.pending = pending, !.expiries = expiries]
    BY <1>2 DEF Filtered, Engines
  <2>2. /\ armed \in [Sensors -> Nat \cup {Never}] /\ pending \in [Sensors -> BOOLEAN]
        /\ expiries \in [Sensors -> SUBSET Nat]
    BY <1>2, Parameters
  <2>3. /\ armed[s] = HoldTime[s] /\ pending[s] = FALSE
        /\ expiries[s] = e.expiries[s] \cup {HoldTime[s]}
        /\ \A r \in Sensors \ {s} :
             armed[r] = e.armed[r] /\ pending[r] = e.pending[r] /\ expiries[r] = e.expiries[r]
    OBVIOUS
  <2> HIDE DEF armed, pending, expiries
  <2>4. /\ f \in Engines
        /\ f.states = e.states /\ f.zones = e.zones /\ f.told = e.told
        /\ f.seen = e.seen /\ f.online = e.online
        /\ f.armed = armed /\ f.pending = pending /\ f.expiries = expiries
    BY <2>1, <2>2 DEF Engines
  <2> HIDE DEF f
  <2>5. (w = "absent" /\ (e.pending[s] \/ e.armed[s] # Never)) = FALSE
    BY <1>2
  <2> QED  BY <1>2, <2>3, <2>4, <2>5 DEF f
<1>3. CASE HoldTime[s] # Never /\ w # "present"
  <2> DEFINE pending == [e.pending EXCEPT ![s] =
                           w = "absent" /\ (e.pending[s] \/ e.armed[s] # Never)]
  <2>1. f = [e EXCEPT !.pending = pending]
    BY <1>3 DEF Filtered, Engines, SensorStates
  <2>2. pending \in [Sensors -> BOOLEAN]
    OBVIOUS
  <2>3. /\ pending[s] = (w = "absent" /\ (e.pending[s] \/ e.armed[s] # Never))
        /\ \A r \in Sensors \ {s} : pending[r] = e.pending[r]
    OBVIOUS
  <2> HIDE DEF pending
  <2>4. /\ f \in Engines
        /\ f.states = e.states /\ f.zones = e.zones /\ f.told = e.told
        /\ f.seen = e.seen /\ f.online = e.online
        /\ f.armed = e.armed /\ f.pending = pending /\ f.expiries = e.expiries
    BY <2>1, <2>2 DEF Engines
  <2> HIDE DEF f
  <2> QED  BY <1>3, <2>3, <2>4 DEF f
<1> QED  BY <1>1, <1>2, <1>3

Held(e, s, w) == w = "absent" /\ e.armed[s] # Never

\* What an event does to its sensor, and that it leaves the others alone.
Same(e, h, r) ==
  /\ h.states[r] = e.states[r] /\ h.seen[r] = e.seen[r] /\ h.online[r] = e.online[r]
  /\ SameHold(e, h, r)

Hears(e, h, s, w) ==
  /\ \A r \in Sensors \ {s} : Same(e, h, r)
  /\ h.states[s] = (IF Held(e, s, w) THEN e.states[s] ELSE w)
  /\ h.seen[s] = (IF Held(e, s, w) THEN e.seen[s] ELSE 0)
  /\ h.online[s] = (IF w = "unavailable" THEN Never ELSE e.online[s])
  /\ HoldFollows(e, h, s, w)

LEMMA HearKeeps ==
  ASSUME NEW e, EngineInv(e), NEW s \in Sensors, NEW w \in SensorStates
  PROVE  /\ EngineInv(Hear(e, s, w))
         /\ Hears(e, Hear(e, s, w), s, w)
<1> DEFINE online == [e.online EXCEPT ![s] = IF w = "unavailable" THEN Never ELSE @]
           known == IF w = "unavailable" THEN [e EXCEPT !.online[s] = Never] ELSE e
           f == Filtered(known, s, w)
           a == Applied(f, s, w)
           h == Hear(e, s, w)
<1>1. e \in Engines
  BY DEF EngineInv
<1>2. online \in [Sensors -> Nat \cup {Never}]
  BY <1>1, Fields
<1>3. /\ known \in Engines
      /\ known.states = e.states /\ known.zones = e.zones /\ known.told = e.told
      /\ known.seen = e.seen /\ known.armed = e.armed /\ known.pending = e.pending
      /\ known.expiries = e.expiries
  <2>1. CASE w = "unavailable"
    <3>1. known = [e EXCEPT !.online = online]
      BY <1>1, <2>1 DEF Engines
    <3> HIDE DEF known, online
    <3> QED  BY <1>1, <1>2, <3>1 DEF Engines
  <2>2. CASE w # "unavailable"
    BY <1>1, <2>2
  <2> QED  BY <2>1, <2>2
<1>4. /\ known.online[s] = (IF w = "unavailable" THEN Never ELSE e.online[s])
      /\ \A r \in Sensors \ {s} : known.online[r] = e.online[r]
  <2>1. CASE w = "unavailable"
    BY <1>1, <2>1 DEF Engines
  <2>2. CASE w # "unavailable"
    BY <2>2
  <2> QED  BY <2>1, <2>2
<1> HIDE DEF known
<1>5. Filters(known, f, s, w)
  BY <1>3, FilteredFields
<1> HIDE DEF f
<1>6. \A r \in Sensors \ {s} : Same(e, f, r)
  BY <1>3, <1>4, <1>5 DEF Filters, Same, SameHold
<1>7. HoldFollows(e, f, s, w)
  BY <1>3, <1>5 DEF Filters, HoldFollows, SameHold
<1>8. EngineInv(f)
  <2>1. f \in Engines /\ f.states = e.states /\ f.zones = e.zones /\ f.told = e.told
    BY <1>3, <1>5 DEF Filters
  <2> QED  BY <2>1 DEF EngineInv, Fanned
<1>9. EngineInv(a)
  BY <1>8, AppliedCurrent
<1>10. /\ a.states = [e.states EXCEPT ![s] = w] /\ a.seen = [e.seen EXCEPT ![s] = 0]
       /\ a.online = known.online /\ a.armed = f.armed /\ a.pending = f.pending
       /\ a.expiries = f.expiries
  <2>1. /\ f \in Engines /\ f.states = e.states /\ f.seen = e.seen
        /\ f.online = known.online
    BY <1>3, <1>5 DEF Filters
  <2>2. Applies(f, a, s, w)
    BY <2>1, AppliedFields
  <2> HIDE DEF a
  <2> QED  BY <2>1, <2>2 DEF Applies
<1> HIDE DEF a
<1>11. h = IF Held(e, s, w) THEN f ELSE a
  BY DEF Hear, Held, f, a, known
<1> HIDE DEF h
<1>12. CASE Held(e, s, w)
  <2>1. h = f
    BY <1>11, <1>12
  <2>2. Hears(e, f, s, w)
    <3>1. f.states = e.states /\ f.seen = e.seen /\ f.online = known.online
      BY <1>3, <1>5 DEF Filters
    <3> QED  BY <3>1, <1>12, <1>4, <1>6, <1>7 DEF Hears
  <2> QED  BY <2>1, <2>2, <1>8 DEF h
<1>13. CASE ~Held(e, s, w)
  <2>1. h = a
    BY <1>11, <1>13
  <2>2. a.states[s] = w /\ a.seen[s] = 0
    BY <1>1, <1>10, Fields
  <2>3. \A r \in Sensors \ {s} : Same(e, a, r)
    <3> TAKE r \in Sensors \ {s}
    <3>1. a.states[r] = e.states[r] /\ a.seen[r] = e.seen[r]
      BY <1>1, <1>10, Fields
    <3> QED  BY <3>1, <1>4, <1>6, <1>10 DEF Same, SameHold
  <2>4. HoldFollows(e, a, s, w)
    BY <1>7, <1>10 DEF HoldFollows, SameHold
  <2>5. Hears(e, a, s, w)
    BY <1>13, <1>4, <1>10, <2>2, <2>3, <2>4 DEF Hears
  <2> QED  BY <2>1, <2>5, <1>9 DEF h
<1> QED  BY <1>12, <1>13

\* A lease that ends changes nothing else, and an outage ends it anyway.
LEMMA LeaseEnds ==
  ASSUME NEW e, EngineInv(e), NEW s \in Sensors
  PROVE  LET expired == [e EXCEPT !.online[s] = Never]
         IN  /\ EngineInv(expired)
             /\ \A r \in Sensors \ {s} : Same(e, expired, r)
             /\ SameHold(e, expired, s)
             /\ expired.states[s] = e.states[s] /\ expired.seen[s] = e.seen[s]
             /\ expired.online[s] = Never
             /\ EngineInv(Hear(expired, s, "unavailable"))
             /\ Hears(e, Hear(expired, s, "unavailable"), s, "unavailable")
<1> DEFINE expired == [e EXCEPT !.online[s] = Never]
           h == Hear(expired, s, "unavailable")
<1>1. e \in Engines
  BY DEF EngineInv
<1>2. /\ expired \in Engines
      /\ expired.states = e.states /\ expired.zones = e.zones /\ expired.told = e.told
      /\ expired.seen = e.seen /\ expired.armed = e.armed
      /\ expired.pending = e.pending /\ expired.expiries = e.expiries
  BY <1>1 DEF Engines
<1>3. expired.online[s] = Never /\ \A r \in Sensors \ {s} : expired.online[r] = e.online[r]
  BY <1>1 DEF Engines
<1> HIDE DEF expired
<1>4. EngineInv(expired)
  BY <1>2 DEF EngineInv, Fanned
<1>5. EngineInv(h) /\ Hears(expired, h, s, "unavailable")
  BY <1>4, HearKeeps DEF SensorStates
<1> HIDE DEF h
<1>6. \A r \in Sensors \ {s} : Same(e, expired, r)
  BY <1>2, <1>3 DEF Same, SameHold
<1>7. SameHold(e, expired, s)
  BY <1>2 DEF SameHold
<1>8. Hears(e, h, s, "unavailable")
  <2>1. \A r \in Sensors \ {s} : Same(e, h, r)
    BY <1>5, <1>6 DEF Hears, Same, SameHold
  <2>2. HoldFollows(e, h, s, "unavailable")
    BY <1>2, <1>5 DEF Hears, HoldFollows, SameHold
  <2> QED  BY <1>2, <1>5, <2>1, <2>2 DEF Hears, Held
<1> QED  BY <1>2, <1>3, <1>4, <1>5, <1>6, <1>7, <1>8 DEF expired, h

-----------------------------------------------------------------------------
(* Reports *)

\* An untouched sensor keeps its part of the invariant.
LEMMA Untouched ==
  ASSUME NEW r \in Sensors, SensorInv(eng, r), InTime(eng, r, sweepIn),
         Same(eng, eng', r), word'[r] = word[r], sincePresent'[r] = sincePresent[r],
         sinceWord'[r] = sinceWord[r], silent'[r] = silent[r], sweepIn' = sweepIn
  PROVE  SensorInv(eng, r)' /\ InTime(eng, r, sweepIn)'
BY DEF Same, SameHold, SensorInv, Armed, Disarmed, Counted, Leased, InTime

LEMMA Times ==
  ASSUME ZoneInv, NEW s \in Sensors
  PROVE  /\ eng \in Engines
         /\ eng.states[s] \in SensorStates
         /\ eng.seen[s] \in Nat \cup {Never} /\ eng.online[s] \in Nat \cup {Never}
         /\ eng.armed[s] \in Nat \cup {Never} /\ eng.pending[s] \in BOOLEAN
         /\ eng.expiries[s] \in SUBSET Nat
         /\ word[s] \in SensorStates \cup {Never}
         /\ sincePresent[s] \in 0 .. HoldOf(s) + 1
         /\ sinceWord[s] \in 0 .. StaleAfter[s] + 1
         /\ silent[s] \in 0 .. Noticed(s) + 1
         /\ sweepIn \in 0 .. SweepPeriod
BY Fields DEF ZoneInv, ZoneTypeOK

LEMMA HeardInv ==
  ASSUME ZoneInv, NEW s \in Sensors, NEW w \in SensorStates,
         Hears(eng, eng', s, w), EngineInv(eng'), Heard(s, w), sweepIn' = sweepIn
  PROVE  ZoneInv'
<1>1. /\ sincePresent \in [Sensors -> Nat] /\ sinceWord \in [Sensors -> Nat]
      /\ silent \in [Sensors -> Nat] /\ word \in [Sensors -> SensorStates \cup {Never}]
  BY DEF ZoneInv, ZoneTypeOK
<1>2. /\ word'[s] = w /\ sinceWord'[s] = 0 /\ silent'[s] = 0
      /\ sincePresent'[s] = (IF w = "present" THEN 0 ELSE sincePresent[s])
      /\ \A r \in Sensors \ {s} :
           /\ word'[r] = word[r] /\ sincePresent'[r] = sincePresent[r]
           /\ sinceWord'[r] = sinceWord[r] /\ silent'[r] = silent[r]
  BY <1>1 DEF Heard
<1>3. ZoneTypeOK'
  <2>1. word' \in [Sensors -> SensorStates \cup {Never}]
    BY <1>1 DEF Heard
  <2>2. /\ sincePresent' \in [Sensors -> Nat] /\ sinceWord' \in [Sensors -> Nat]
        /\ silent' \in [Sensors -> Nat]
    BY <1>1 DEF Heard
  <2>3. ASSUME NEW r \in Sensors
        PROVE  /\ sincePresent'[r] \in 0 .. HoldOf(r) + 1
               /\ sinceWord'[r] \in 0 .. StaleAfter[r] + 1
               /\ silent'[r] \in 0 .. Noticed(r) + 1
    <3>1. CASE r = s
      BY <3>1, <1>2, Times, Parameters DEF Noticed
    <3>2. CASE r # s
      BY <3>2, <1>2, Times
    <3> QED  BY <3>1, <3>2
  <2>4. eng' \in Engines /\ sweepIn' \in 0 .. SweepPeriod
    BY Times DEF EngineInv
  <2> QED  BY <2>1, <2>2, <2>3, <2>4 DEF ZoneTypeOK
<1>4. ASSUME NEW r \in Sensors \ {s}
      PROVE  SensorInv(eng, r)' /\ InTime(eng, r, sweepIn)'
  <2>1. Same(eng, eng', r)
    BY DEF Hears
  <2>2. SensorInv(eng, r) /\ InTime(eng, r, sweepIn)
    BY DEF ZoneInv
  <2> QED  BY <1>2, <2>1, <2>2, Untouched
<1>5. SensorInv(eng, s)' /\ InTime(eng, s, sweepIn)'
  <2>1. SensorInv(eng, s)
    BY DEF ZoneInv
  <2> USE <1>2, <2>1, Times, Parameters DEF Hears, Held, HoldFollows, SameHold, SensorStates
  <2>2. Armed(eng, s)'
    BY DEF SensorInv, Armed
  <2>3. Disarmed(eng, s)'
    <3>1. eng'.armed[s] = Never => eng.armed[s] = Never
      BY DEF SensorInv, Armed
    <3>2. eng'.pending[s] <=> eng'.armed[s] # Never /\ w = "absent"
      BY DEF SensorInv, Armed, Disarmed
    <3>3. eng'.armed[s] = Never => sincePresent'[s] >= HoldOf(s)
      BY <3>1 DEF SensorInv, Armed, Disarmed, HoldOf
    <3>4. eng'.states[s] = "absent" => sincePresent'[s] >= HoldOf(s)
      BY DEF SensorInv, Disarmed
    <3> QED  BY <3>2, <3>3, <3>4 DEF Disarmed
  <2>4. Counted(eng, s)'
    <3>1. w = "absent" /\ eng.armed[s] # Never => eng'.pending[s]
      BY DEF SensorInv, Armed
    <3>2. ~eng'.pending[s] => ~Held(eng, s, w)
      BY <3>1
    <3>3. w # Never
      OBVIOUS
    <3> QED  BY <3>2, <3>3 DEF Counted
  <2>5. Leased(eng, s)'
    <3>1. eng'.states[s] # "unavailable" => eng'.seen[s] # Never /\ eng'.seen[s] \in Nat
      BY DEF SensorInv, Armed
    <3> QED  BY <3>1 DEF Leased
  <2>6. InTime(eng, s, sweepIn)'
    BY DEF InTime, Noticed
  <2> QED  BY <2>2, <2>3, <2>4, <2>5, <2>6 DEF SensorInv
<1>6. \A r \in Sensors : SensorInv(eng, r)' /\ InTime(eng, r, sweepIn)'
  BY <1>4, <1>5
<1> QED  BY <1>3, <1>6 DEF ZoneInv

LEMMA ReportStep ==
  ASSUME ZoneInv, NEW s \in Sensors, NEW w \in SensorStates, Report(s, w)
  PROVE  ZoneInv'
<1>1. EngineInv(eng') /\ Hears(eng, eng', s, w)
  BY HearKeeps DEF ZoneInv, Report
<1> QED  BY <1>1, HeardInv DEF Report

LEMMA AvailabilityStep ==
  ASSUME ZoneInv, NEW s \in Sensors, NEW online \in BOOLEAN, Availability(s, online)
  PROVE  ZoneInv'
<1>1. CASE ~online
  <2>1. EngineInv(eng)
    BY DEF ZoneInv
  <2>2. eng' = Hear([eng EXCEPT !.online[s] = Never], s, "unavailable")
    BY <1>1 DEF Availability
  <2>3. EngineInv(eng') /\ Hears(eng, eng', s, "unavailable")
    BY <2>1, <2>2, LeaseEnds
  <2> QED  BY <1>1, <2>3, HeardInv DEF Availability, SensorStates
<1>2. CASE online
  <2>1. /\ eng' = [eng EXCEPT !.online[s] = 0] /\ silent' = [silent EXCEPT ![s] = 0]
        /\ UNCHANGED <<word, sincePresent, sinceWord, sweepIn>>
    BY <1>2 DEF Availability
  <2>2. eng \in Engines /\ ZoneTypeOK /\ silent \in [Sensors -> Nat]
    BY DEF ZoneInv, ZoneTypeOK
  <2>3. /\ eng' \in Engines
        /\ eng'.states = eng.states /\ eng'.zones = eng.zones /\ eng'.told = eng.told
        /\ eng'.seen = eng.seen /\ eng'.armed = eng.armed
        /\ eng'.pending = eng.pending /\ eng'.expiries = eng.expiries
    BY <2>1, <2>2 DEF Engines
  <2>4. eng'.online[s] = 0 /\ \A r \in Sensors \ {s} : eng'.online[r] = eng.online[r]
    BY <2>1, <2>2 DEF Engines
  <2>5. silent'[s] = 0 /\ \A r \in Sensors \ {s} : silent'[r] = silent[r]
    BY <2>1, <2>2
  <2>6. EngineInv(eng')
    BY <2>3 DEF ZoneInv, EngineInv, Fanned
  <2>7. ZoneTypeOK'
    <3>1. silent' \in [Sensors -> Nat]
      BY <2>1, <2>2
    <3>2. ASSUME NEW r \in Sensors  PROVE silent'[r] \in 0 .. Noticed(r) + 1
      <4>1. CASE r = s
        BY <2>5, <4>1, Parameters DEF Noticed
      <4>2. CASE r # s
        BY <2>5, <4>2, Times
      <4> QED  BY <4>1, <4>2
    <3> QED  BY <2>1, <2>2, <2>3, <3>1, <3>2 DEF ZoneTypeOK
  <2>8. ASSUME NEW r \in Sensors \ {s}
        PROVE  SensorInv(eng, r)' /\ InTime(eng, r, sweepIn)'
    <3>1. Same(eng, eng', r)
      BY <2>3, <2>4 DEF Same, SameHold
    <3> QED  BY <2>1, <2>5, <3>1, Untouched DEF ZoneInv
  <2>9. SensorInv(eng, s)' /\ InTime(eng, s, sweepIn)'
    <3> USE <2>1, <2>3, <2>4, <2>5, Times, Parameters DEF ZoneInv, SensorInv
    <3>1. Armed(eng, s)'
      BY DEF Armed
    <3>2. Disarmed(eng, s)' /\ Counted(eng, s)'
      BY DEF Disarmed, Counted
    <3>3. Leased(eng, s)'
      BY DEF Leased
    <3>4. InTime(eng, s, sweepIn)'
      BY DEF InTime, Noticed
    <3> QED  BY <3>1, <3>2, <3>3, <3>4
  <2>10. \A r \in Sensors : SensorInv(eng, r)' /\ InTime(eng, r, sweepIn)'
    BY <2>8, <2>9
  <2> QED  BY <2>6, <2>7, <2>10 DEF ZoneInv
<1> QED  BY <1>1, <1>2

-----------------------------------------------------------------------------
(* Timers *)

\* What the expiry of a timer makes of the engine, but for the absence it lets out.
LEMMA TimerGone ==
  ASSUME NEW e, EngineInv(e), NEW s \in Sensors
  PROVE  LET gone == [e EXCEPT !.expiries[s] = @ \ {0}]
         IN  /\ EngineInv(gone)
             /\ \A r \in Sensors \ {s} : Same(e, gone, r)
             /\ gone.states = e.states /\ gone.seen = e.seen /\ gone.online = e.online
             /\ gone.armed = e.armed /\ gone.pending = e.pending
             /\ gone.expiries[s] = e.expiries[s] \ {0}
<1> DEFINE expiries == [e.expiries EXCEPT ![s] = @ \ {0}]
           gone == [e EXCEPT !.expiries = expiries]
<1>1. e \in Engines
  BY DEF EngineInv
<1>2. expiries \in [Sensors -> SUBSET Nat]
  BY <1>1, Fields
<1>3. /\ expiries[s] = e.expiries[s] \ {0}
      /\ \A r \in Sensors \ {s} : expiries[r] = e.expiries[r]
  BY <1>1, Fields
<1>4. [e EXCEPT !.expiries[s] = @ \ {0}] = gone
  BY <1>1 DEF Engines
<1> HIDE DEF expiries
<1>5. /\ gone \in Engines /\ gone.expiries = expiries
      /\ gone.states = e.states /\ gone.zones = e.zones /\ gone.told = e.told
      /\ gone.seen = e.seen /\ gone.online = e.online
      /\ gone.armed = e.armed /\ gone.pending = e.pending
  BY <1>1, <1>2 DEF Engines
<1> HIDE DEF gone
<1>6. EngineInv(gone)
  BY <1>5 DEF EngineInv, Fanned
<1>7. \A r \in Sensors \ {s} : Same(e, gone, r)
  BY <1>3, <1>5 DEF Same, SameHold
<1> QED  BY <1>3, <1>4, <1>5, <1>6, <1>7

LEMMA HoldOver ==
  ASSUME NEW e, EngineInv(e), NEW s \in Sensors
  PROVE  LET over == [e EXCEPT !.armed[s] = Never, !.pending[s] = FALSE]
         IN  /\ EngineInv(over)
             /\ \A r \in Sensors \ {s} : Same(e, over, r)
             /\ over.states = e.states /\ over.seen = e.seen /\ over.online = e.online
             /\ over.expiries = e.expiries
             /\ over.armed[s] = Never /\ over.pending[s] = FALSE
<1> DEFINE armed == [e.armed EXCEPT ![s] = Never]
           pending == [e.pending EXCEPT ![s] = FALSE]
           over == [e EXCEPT !.armed = armed, !.pending = pending]
<1>1. e \in Engines
  BY DEF EngineInv
<1>2. armed \in [Sensors -> Nat \cup {Never}] /\ pending \in [Sensors -> BOOLEAN]
  BY <1>1, Fields
<1>3. /\ armed[s] = Never /\ pending[s] = FALSE
      /\ \A r \in Sensors \ {s} : armed[r] = e.armed[r] /\ pending[r] = e.pending[r]
  BY <1>1, Fields
<1>4. [e EXCEPT !.armed[s] = Never, !.pending[s] = FALSE] = over
  BY <1>1 DEF Engines
<1> HIDE DEF armed, pending
<1>5. /\ over \in Engines /\ over.armed = armed /\ over.pending = pending
      /\ over.states = e.states /\ over.zones = e.zones /\ over.told = e.told
      /\ over.seen = e.seen /\ over.online = e.online /\ over.expiries = e.expiries
  BY <1>1, <1>2 DEF Engines
<1> HIDE DEF over
<1>6. EngineInv(over)
  BY <1>5 DEF EngineInv, Fanned
<1>7. \A r \in Sensors \ {s} : Same(e, over, r)
  BY <1>3, <1>5 DEF Same, SameHold
<1> QED  BY <1>3, <1>4, <1>5, <1>6, <1>7

LEMMA HoldExpiresStep ==
  ASSUME ZoneInv, NEW s \in Sensors, HoldExpires(s)
  PROVE  ZoneInv'
<1> DEFINE gone == [eng EXCEPT !.expiries[s] = @ \ {0}]
           over == [gone EXCEPT !.armed[s] = Never, !.pending[s] = FALSE]
           out == Hear(over, s, "absent")
<1>1. /\ EngineInv(gone)
      /\ \A r \in Sensors \ {s} : Same(eng, gone, r)
      /\ gone.states = eng.states /\ gone.seen = eng.seen /\ gone.online = eng.online
      /\ gone.armed = eng.armed /\ gone.pending = eng.pending
      /\ gone.expiries[s] = eng.expiries[s] \ {0}
  BY TimerGone DEF ZoneInv
<1>2. /\ eng' = CASE gone.armed[s] = Never -> over
                  [] gone.armed[s] # Never /\ gone.armed[s] > 0 -> gone
                  [] OTHER -> IF gone.pending[s] THEN out ELSE over
      /\ UNCHANGED <<sweepIn, word, sincePresent, sinceWord, silent>>
  BY DEF HoldExpires
<1> HIDE DEF gone
<1>3. /\ EngineInv(over)
      /\ \A r \in Sensors \ {s} : Same(gone, over, r)
      /\ over.states = gone.states /\ over.seen = gone.seen /\ over.online = gone.online
      /\ over.expiries = gone.expiries
      /\ over.armed[s] = Never /\ over.pending[s] = FALSE
  BY <1>1, HoldOver
<1> HIDE DEF over
<1>4. EngineInv(out) /\ Hears(over, out, s, "absent")
  BY <1>3, HearKeeps DEF SensorStates
<1>5. /\ out.states[s] = "absent" /\ out.seen[s] = 0 /\ out.online[s] = over.online[s]
      /\ out.armed[s] = Never /\ out.pending[s] = FALSE
  <2>1. out.pending[s] \in BOOLEAN
    BY <1>4, Fields DEF EngineInv
  <2> QED  BY <1>3, <1>4, <2>1 DEF Hears, Held, HoldFollows, SameHold
<1> HIDE DEF out
<1>6. \A r \in Sensors \ {s} : Same(eng, over, r) /\ Same(eng, out, r)
  BY <1>1, <1>3, <1>4 DEF Hears, Same, SameHold
<1>7. eng.armed[s] \in Nat \cup {Never}
  BY Times
<1>8. \/ eng' = gone /\ eng.armed[s] # Never /\ eng.armed[s] > 0
      \/ eng' = over /\ (eng.armed[s] = Never \/ (eng.armed[s] = 0 /\ ~eng.pending[s]))
      \/ eng' = out /\ eng.armed[s] = 0 /\ eng.pending[s]
  <2>1. CASE eng.armed[s] = Never
    <3>1. eng' = over
      BY <1>1, <1>2, <2>1
    <3> QED  BY <2>1, <3>1
  <2>2. CASE eng.armed[s] # Never /\ eng.armed[s] > 0
    <3>1. eng' = gone
      BY <1>1, <1>2, <2>2
    <3> QED  BY <2>2, <3>1
  <2>3. CASE eng.armed[s] # Never /\ ~(eng.armed[s] > 0)
    <3>1. eng' = IF eng.pending[s] THEN out ELSE over
      BY <1>1, <1>2, <2>3
    <3>2. eng.armed[s] = 0
      BY <1>7, <2>3
    <3> QED  BY <3>1, <3>2
  <2> QED  BY <2>1, <2>2, <2>3
<1>9. EngineInv(eng') /\ \A r \in Sensors \ {s} : Same(eng, eng', r)
  BY <1>1, <1>3, <1>4, <1>6, <1>8
<1>10. ZoneTypeOK'
  BY <1>2, <1>9 DEF ZoneInv, ZoneTypeOK, EngineInv
<1>11. ASSUME NEW r \in Sensors \ {s}
       PROVE  SensorInv(eng, r)' /\ InTime(eng, r, sweepIn)'
  BY <1>2, <1>9, Untouched DEF ZoneInv
<1>12. SensorInv(eng, s)' /\ InTime(eng, s, sweepIn)'
  <2> DEFINE Alike == /\ eng'.states[s] = eng.states[s] /\ eng'.seen[s] = eng.seen[s]
                      /\ eng'.online[s] = eng.online[s]
  <2>0. /\ SensorInv(eng, s) /\ InTime(eng, s, sweepIn)
        /\ HoldOf(s) \in Nat /\ sincePresent[s] \in Nat /\ silent[s] \in Nat
        /\ HoldTime[s] # Never => HoldOf(s) = HoldTime[s]
    BY Times, Parameters DEF ZoneInv
  <2>1. CASE eng' = gone /\ eng.armed[s] # Never /\ eng.armed[s] > 0
    <3>1. /\ eng'.armed[s] = eng.armed[s] /\ eng'.pending[s] = eng.pending[s]
          /\ eng'.expiries[s] = eng.expiries[s] \ {0} /\ Alike
      BY <1>1, <2>1
    <3>2. Armed(eng, s)'
      BY <1>2, <2>0, <2>1, <3>1 DEF SensorInv, Armed
    <3>3. Disarmed(eng, s)' /\ Counted(eng, s)'
      BY <1>2, <2>0, <3>1 DEF SensorInv, Disarmed, Counted
    <3>4. Leased(eng, s)' /\ InTime(eng, s, sweepIn)'
      BY <1>2, <2>0, <3>1 DEF SensorInv, Leased, InTime
    <3> QED  BY <3>2, <3>3, <3>4 DEF SensorInv
  <2>2. CASE eng' = over /\ (eng.armed[s] = Never \/ (eng.armed[s] = 0 /\ ~eng.pending[s]))
    <3>1. eng'.armed[s] = Never /\ eng'.pending[s] = FALSE /\ Alike
      BY <1>1, <1>3, <2>2
    <3>2. sincePresent[s] >= HoldOf(s)
      <4>1. eng.armed[s] = 0 => eng.armed[s] + sincePresent[s] = HoldOf(s)
        BY <2>0, Parameters DEF SensorInv, Armed
      <4> QED  BY <2>0, <2>2, <4>1 DEF SensorInv, Disarmed
    <3>3. ~eng.pending[s]
      BY <2>0, <2>2 DEF SensorInv, Disarmed
    <3>4. Armed(eng, s)' /\ Disarmed(eng, s)'
      BY <1>2, <3>1, <3>2 DEF Armed, Disarmed
    <3>5. Counted(eng, s)'
      BY <1>2, <2>0, <3>1, <3>3 DEF SensorInv, Counted
    <3>6. Leased(eng, s)' /\ InTime(eng, s, sweepIn)'
      BY <1>2, <2>0, <3>1 DEF SensorInv, Leased, InTime
    <3> QED  BY <3>4, <3>5, <3>6 DEF SensorInv
  <2>3. CASE eng' = out /\ eng.armed[s] = 0 /\ eng.pending[s]
    <3>1. HoldOf(s) = sincePresent[s] /\ silent[s] <= HoldOf(s)
      <4>1. eng.armed[s] # Never
        BY <2>3, Parameters
      <4> QED  BY <2>0, <2>3, <4>1 DEF SensorInv, Armed
    <3>2. word[s] = "absent" /\ word[s] # Never
      BY <2>0, <2>3, Parameters DEF SensorInv, Disarmed, SensorStates
    <3>3. /\ eng'.states[s] = "absent" /\ eng'.seen[s] = 0 /\ eng'.seen[s] # Never
          /\ eng'.online[s] = eng.online[s]
          /\ eng'.armed[s] = Never /\ eng'.pending[s] = FALSE
      BY <1>1, <1>3, <1>5, <2>3, Parameters
    <3>4. Armed(eng, s)' /\ Disarmed(eng, s)'
      BY <1>2, <2>0, <3>1, <3>3 DEF Armed, Disarmed
    <3>5. Counted(eng, s)'
      <4>1. sinceWord[s] \in Nat
        BY Times, Parameters
      <4> QED  BY <1>2, <3>2, <3>3, <4>1 DEF Counted
    <3>6. Leased(eng, s)'
      BY <1>2, <2>0, <3>1, <3>3 DEF SensorInv, Leased
    <3>7. InTime(eng, s, sweepIn)'
      <4>1. sweepIn \in Int /\ sweepIn <= SweepPeriod /\ StaleAfter[s] \in Nat
            /\ SweepPeriod \in Nat
        BY Times, Parameters
      <4> QED  BY <1>2, <2>0, <3>1, <4>1 DEF InTime, Noticed
    <3> QED  BY <3>4, <3>5, <3>6, <3>7 DEF SensorInv
  <2> QED  BY <1>8, <2>1, <2>2, <2>3
<1>13. \A r \in Sensors : SensorInv(eng, r)' /\ InTime(eng, r, sweepIn)'
  BY <1>11, <1>12
<1> QED  BY <1>9, <1>10, <1>13 DEF ZoneInv

-----------------------------------------------------------------------------
(* The sweep *)

\* A sensor that the sweep has passed was heard lately, or has a lease.
Kept(e, s) ==
  e.states[s] # "unavailable" =>
    \/ e.seen[s] <= StaleAfter[s]
    \/ e.online[s] # Never /\ e.online[s] <= StaleAfter[s]

\* The engines a sweep goes through.
Sound == {e \in Engines : EngineInv(e) /\ \A s \in Sensors : SensorInv(e, s)}

LEMMA SoundTypes ==
  ASSUME ZoneInv, NEW e \in Sound, NEW s \in Sensors
  PROVE  /\ EngineInv(e) /\ SensorInv(e, s)
         /\ e.states[s] \in SensorStates
         /\ e.seen[s] \in Nat \cup {Never} /\ e.online[s] \in Nat \cup {Never}
         /\ e.armed[s] \in Nat \cup {Never} /\ e.pending[s] \in BOOLEAN
         /\ word[s] \in SensorStates \cup {Never}
         /\ sincePresent[s] \in 0 .. HoldOf(s) + 1
         /\ sinceWord[s] \in 0 .. StaleAfter[s] + 1
         /\ silent[s] \in 0 .. Noticed(s) + 1
<1>1. e \in Engines /\ EngineInv(e) /\ SensorInv(e, s)
  BY DEF Sound
<1> QED  BY <1>1, Fields, Times

LEMMA SameSensor ==
  ASSUME NEW e, NEW h, NEW r \in Sensors, Same(e, h, r)
  PROVE  (SensorInv(e, r) => SensorInv(h, r)) /\ (Kept(e, r) => Kept(h, r))
BY DEF Same, SameHold, SensorInv, Armed, Disarmed, Counted, Leased, Kept

\* One sensor: it is taken for unavailable, or was heard in time.  None that holds
\* an absence back is swept, for its hold is no longer than its timeout.
LEMMA SweptKeeps ==
  ASSUME ZoneInv, NEW e \in Sound, NEW s \in Sensors
  PROVE  /\ Swept(e, s) \in Sound
         /\ Kept(Swept(e, s), s)
         /\ \A r \in Sensors \ {s} : Same(e, Swept(e, s), r)
<1> DEFINE expired == [e EXCEPT !.online[s] = Never]
           out == Hear(expired, s, "unavailable")
           h == Swept(e, s)
           leased == e.online[s] # Never /\ e.online[s] <= StaleAfter[s]
           passed == e.states[s] = "unavailable" \/ leased
           heard == e.seen[s] = Never \/ e.seen[s] <= StaleAfter[s]
<1>1. EngineInv(e) /\ SensorInv(e, s)
  BY SoundTypes
<1>2. /\ EngineInv(expired)
      /\ \A r \in Sensors \ {s} : Same(e, expired, r)
      /\ SameHold(e, expired, s)
      /\ expired.states[s] = e.states[s] /\ expired.seen[s] = e.seen[s]
      /\ expired.online[s] = Never
      /\ EngineInv(out) /\ Hears(e, out, s, "unavailable")
  BY <1>1, LeaseEnds
<1>3. h = IF passed THEN e ELSE IF heard THEN expired ELSE out
  BY DEF Swept
<1> HIDE DEF h, out, expired
<1>4. CASE passed
  <2>1. h = e
    BY <1>3, <1>4
  <2>2. Kept(e, s)
    BY <1>4 DEF Kept
  <2>3. \A r \in Sensors \ {s} : Same(e, e, r)
    BY DEF Same, SameHold
  <2> QED  BY <2>1, <2>2, <2>3 DEF h
<1>5. CASE ~passed /\ heard
  <2>1. h = expired
    BY <1>3, <1>5
  <2>2. e.seen[s] # Never
    BY <1>1, <1>5 DEF SensorInv, Leased
  <2>3. Kept(expired, s)
    BY <1>2, <1>5, <2>2 DEF Kept
  <2>4. SensorInv(expired, s)
    <3> USE <1>1, <1>2 DEF SensorInv, SameHold
    <3>1. Armed(expired, s) /\ Disarmed(expired, s)
      BY DEF Armed, Disarmed
    <3>2. Counted(expired, s) /\ Leased(expired, s)
      BY DEF Counted, Leased
    <3> QED  BY <3>1, <3>2
  <2>5. \A r \in Sensors \ {s} : SensorInv(expired, r)
    BY <1>2, SoundTypes, SameSensor
  <2>6. expired \in Sound
    BY <1>2, <2>4, <2>5 DEF Sound, EngineInv
  <2> QED  BY <1>2, <2>1, <2>3, <2>6 DEF h
<1>6. CASE ~passed /\ ~heard
  <2>1. h = out
    BY <1>3, <1>6
  <2>2. e.seen[s] \in Nat /\ e.seen[s] > StaleAfter[s]
    BY <1>6, SoundTypes, Parameters
  <2>3. e.armed[s] = Never
    <3>1. CASE e.armed[s] # Never
      <4>1. e.armed[s] \in Nat /\ e.armed[s] + sincePresent[s] = HoldOf(s)
            /\ e.seen[s] <= sincePresent[s]
        BY <1>1, <3>1, SoundTypes, Parameters DEF SensorInv, Armed
      <4>2. HoldOf(s) \in Nat /\ HoldOf(s) <= StaleAfter[s] /\ StaleAfter[s] \in Nat
            /\ sincePresent[s] \in Nat
        BY SoundTypes, Parameters
      <4> QED  BY <2>2, <4>1, <4>2
    <3> QED  BY <3>1
  <2>4. /\ out.states[s] = "unavailable" /\ out.seen[s] = 0 /\ out.online[s] = Never
        /\ out.armed[s] = Never /\ out.pending[s] = FALSE
    <3>1. out.pending[s] \in BOOLEAN
      BY <1>2, Fields DEF EngineInv
    <3>2. e.pending[s] = FALSE
      BY <1>1, <2>3, SoundTypes DEF SensorInv, Disarmed
    <3> QED  BY <1>2, <2>3, <3>1, <3>2 DEF Hears, Held, HoldFollows, SameHold
  <2>5. Armed(out, s)
    BY <2>4 DEF Armed
  <2>6. Disarmed(out, s)
    BY <1>1, <2>3, <2>4 DEF SensorInv, Disarmed
  <2>7. Counted(out, s)
    <3>1. e.pending[s] = FALSE
      BY <1>1, <2>3, SoundTypes DEF SensorInv, Disarmed
    <3>2. word[s] # Never => e.seen[s] <= sinceWord[s]
      BY <1>1, <3>1 DEF SensorInv, Counted
    <3>3. word[s] # Never => sinceWord[s] > StaleAfter[s]
      BY <2>2, <3>2, SoundTypes, Parameters
    <3>4. word[s] = Never => sinceWord[s] > StaleAfter[s]
      BY <1>1 DEF SensorInv, Counted
    <3>5. sinceWord[s] \in Nat /\ StaleAfter[s] \in Nat
      BY SoundTypes, Parameters
    <3> QED  BY <2>4, <3>3, <3>4, <3>5, Parameters DEF Counted
  <2>8. Leased(out, s) /\ Kept(out, s)
    BY <2>4 DEF Leased, Kept
  <2>9. \A r \in Sensors \ {s} : SensorInv(out, r) /\ Same(e, out, r)
    BY <1>2, SoundTypes, SameSensor DEF Hears
  <2>10. out \in Sound
    BY <1>2, <2>5, <2>6, <2>7, <2>8, <2>9 DEF Sound, EngineInv, SensorInv
  <2> QED  BY <2>1, <2>8, <2>9, <2>10 DEF h
<1> QED  BY <1>4, <1>5, <1>6

\* The loop of sweep_stale_sensors.
LEMMA SweepLoop ==
  ASSUME ZoneInv
  PROVE  \E f \in [0 .. Len(SensorOrder) -> Sound] :
           /\ \A n \in 1 .. Len(SensorOrder) : f[n] = Swept(f[n - 1], SensorOrder[n])
           /\ AllSwept(eng) = f[Len(SensorOrder)]
<1> DEFINE N == Len(SensorOrder)
           step == [n \in 1 .. N |-> [e \in Sound |-> Swept(e, SensorOrder[n])]]
           Is(f) == f = [n \in 0 .. N |->
                           IF n = 0 THEN eng ELSE Swept(f[n - 1], SensorOrder[n])]
           after == CHOOSE f : Is(f)
<1>1. N \in Nat /\ eng \in Sound
  BY Parameters DEF ZoneInv, ZoneTypeOK, Sound
<1>2. ASSUME NEW n \in 1 .. N, NEW e \in Sound
      PROVE  Swept(e, SensorOrder[n]) \in Sound
  <2>1. SensorOrder[n] \in Sensors
    BY Parameters
  <2> QED  BY <2>1, SweptKeeps
<1>3. step \in [1 .. N -> [Sound -> Sound]]
  BY <1>2
<1>4. PICK f \in [0 .. N -> Sound] : Runs(f, N, eng, step)
  <2> HIDE DEF step, N
  <2> QED  BY <1>1, <1>3, LoopExists
<1>5. \A n \in 1 .. N : f[n] = Swept(f[n - 1], SensorOrder[n])
  <2> TAKE n \in 1 .. N
  <2>1. f[n - 1] \in Sound
    BY <1>1, <1>4
  <2> QED  BY <1>4, <2>1 DEF Runs
<1>6. Is(f)
  BY <1>1, <1>4, <1>5 DEF Runs
<1> HIDE DEF step
<1>7. Is(after)
  BY <1>6
<1>8. AllSwept(eng) = after[N]
  BY DEF AllSwept
<1> HIDE DEF after
<1>9. /\ after[0] = eng
      /\ \A n \in 1 .. N : after[n] = Swept(after[n - 1], SensorOrder[n])
  BY <1>1, <1>7
<1> DEFINE T == {n \in 0 .. N : after[n] \in Sound}
<1>10. \A n \in 0 .. N : n \in T
  <2>1. 0 \in T
    BY <1>1, <1>9
  <2>2. ASSUME NEW n \in 1 .. N, n - 1 \in T  PROVE n \in T
    BY <1>1, <1>2, <1>9, <2>2
  <2> HIDE DEF T
  <2> QED  BY <1>1, <2>1, <2>2, UpTo
<1>11. after \in [0 .. N -> Sound]
  BY <1>7, <1>10
<1> QED  BY <1>8, <1>9, <1>11

\* Once the sweep is through it has passed every sensor: what it makes of one does
\* not undo what it has made of another.
LEMMA SweepPasses ==
  ASSUME ZoneInv
  PROVE  AllSwept(eng) \in Sound /\ \A s \in Sensors : Kept(AllSwept(eng), s)
<1> DEFINE N == Len(SensorOrder)
<1>1. PICK f \in [0 .. N -> Sound] :
        /\ \A n \in 1 .. N : f[n] = Swept(f[n - 1], SensorOrder[n])
        /\ AllSwept(eng) = f[N]
  BY SweepLoop
<1>2. N \in Nat
  BY Parameters
<1> DEFINE T == {n \in 0 .. N : \A i \in 1 .. n : Kept(f[n], SensorOrder[i])}
<1>3. ASSUME NEW n \in 1 .. N, n - 1 \in T  PROVE n \in T
  <2> DEFINE old == f[n - 1]
             at == SensorOrder[n]
  <2>1. old \in Sound /\ at \in Sensors /\ f[n] = Swept(old, at)
    <3>1. n - 1 \in 0 .. N
      BY <1>2
    <3> QED  BY <1>1, <3>1, Parameters
  <2>2. \A i \in 1 .. n - 1 : Kept(old, SensorOrder[i])
    BY <1>3
  <2> HIDE DEF old
  <2>3. Kept(f[n], at) /\ \A r \in Sensors \ {at} : Same(old, f[n], r)
    BY <2>1, SweptKeeps
  <2>4. ASSUME NEW i \in 1 .. n  PROVE Kept(f[n], SensorOrder[i])
    <3>1. SensorOrder[i] \in Sensors
      BY <1>2, Parameters
    <3>2. CASE SensorOrder[i] = at
      BY <2>3, <3>2
    <3>3. CASE SensorOrder[i] # at
      <4>1. i \in 1 .. n - 1
        BY <3>3 DEF at
      <4>2. Kept(old, SensorOrder[i]) /\ Same(old, f[n], SensorOrder[i])
        BY <2>2, <2>3, <3>1, <3>3, <4>1
      <4> QED  BY <3>1, <4>2, SameSensor
    <3> QED  BY <3>2, <3>3
  <2> QED  BY <2>4
<1>4. 0 \in T
  BY <1>2
<1>5. N \in T
  <2> HIDE DEF T, N
  <2>1. \A n \in 0 .. N : n \in T
    BY <1>2, <1>3, <1>4, UpTo
  <2> QED  BY <1>2, <2>1
<1>6. \A s \in Sensors : Kept(f[N], s)
  BY <1>5, Parameters
<1>7. f[N] \in Sound
  BY <1>1, <1>2
<1> QED  BY <1>1, <1>6, <1>7

LEMMA SweepStep ==
  ASSUME ZoneInv, Sweep
  PROVE  ZoneInv'
<1>1. /\ eng' = AllSwept(eng) /\ sweepIn' \in 0 .. SweepPeriod
      /\ UNCHANGED <<word, sincePresent, sinceWord, silent>>
  BY DEF Sweep
<1>2. eng' \in Sound /\ \A s \in Sensors : Kept(eng', s)
  BY <1>1, SweepPasses
<1>3. EngineInv(eng') /\ \A s \in Sensors : SensorInv(eng', s)
  BY <1>2 DEF Sound
<1>4. ZoneTypeOK'
  BY <1>1, <1>3 DEF ZoneInv, ZoneTypeOK, EngineInv
<1>5. ASSUME NEW s \in Sensors
      PROVE  SensorInv(eng, s)' /\ InTime(eng, s, sweepIn)'
  <2>1. SensorInv(eng', s)
    BY <1>3
  <2>2. SensorInv(eng, s)'
    BY <1>1, <2>1 DEF SensorInv, Armed, Disarmed, Counted, Leased
  <2>3. InTime(eng, s, sweepIn)'
    <3>1. Kept(eng', s) /\ Leased(eng', s)
      BY <1>2, <2>1 DEF SensorInv
    <3>2. /\ eng'.seen[s] \in Nat \cup {Never} /\ eng'.online[s] \in Nat \cup {Never}
          /\ silent[s] \in 0 .. Noticed(s) + 1
      BY <1>3, Fields, Times DEF EngineInv
    <3>3. eng'.states[s] # "unavailable" => silent[s] <= StaleAfter[s] + HoldOf(s)
      <4>1. HoldOf(s) \in Nat /\ StaleAfter[s] \in Nat
        BY Parameters
      <4>2. silent[s] \in Int
        BY <3>2
      <4> QED  BY <3>1, <3>2, <4>1, <4>2 DEF Kept, Leased
    <3>4. /\ HoldOf(s) \in Nat /\ StaleAfter[s] \in Nat /\ SweepPeriod \in Nat
          /\ silent[s] \in Int /\ sweepIn' \in Int /\ sweepIn' <= SweepPeriod
      BY <1>1, <3>2, Parameters
    <3> QED  BY <1>1, <3>3, <3>4 DEF InTime, Noticed
  <2> QED  BY <2>2, <2>3
<1> QED  BY <1>3, <1>4, <1>5 DEF ZoneInv

-----------------------------------------------------------------------------
(* Time *)

LEMMA GrownTyped ==
  ASSUME NEW age \in Nat \cup {Never}, NEW most \in Nat
  PROVE  /\ Grown(age, most) \in Nat \cup {Never}
         /\ age \in Nat => Grown(age, most) \in 0 .. most
BY Parameters DEF Grown

LEMMA UnitStep ==
  ASSUME ZoneInv, UnitPasses
  PROVE  ZoneInv'
<1> DEFINE seen     == [s \in Sensors |-> Grown(eng.seen[s], StaleAfter[s] + 1)]
           online   == [s \in Sensors |-> Grown(eng.online[s], StaleAfter[s] + 1)]
           armed    == [s \in Sensors |->
                          IF eng.armed[s] = Never THEN Never ELSE eng.armed[s] - 1]
           expiries == [s \in Sensors |-> {t - 1 : t \in eng.expiries[s]}]
<1>1. /\ eng' = [eng EXCEPT !.seen = seen, !.online = online, !.armed = armed,
                            !.expiries = expiries]
      /\ sweepIn > 0 /\ sweepIn' = sweepIn - 1 /\ UNCHANGED word
      /\ \A s \in Sensors : 0 \notin eng.expiries[s]
      /\ sincePresent' = [s \in Sensors |-> Grown(sincePresent[s], HoldOf(s) + 1)]
      /\ sinceWord' = [s \in Sensors |-> Grown(sinceWord[s], StaleAfter[s] + 1)]
      /\ silent' = [s \in Sensors |-> Grown(silent[s], Noticed(s) + 1)]
  BY DEF UnitPasses
<1>2. /\ eng \in Engines /\ EngineInv(eng)
      /\ word \in [Sensors -> SensorStates \cup {Never}] /\ sweepIn \in 0 .. SweepPeriod
      /\ \A s \in Sensors : SensorInv(eng, s) /\ InTime(eng, s, sweepIn)
  BY DEF ZoneInv, ZoneTypeOK
<1>3. seen \in [Sensors -> Nat \cup {Never}] /\ online \in [Sensors -> Nat \cup {Never}]
  <2>1. ASSUME NEW s \in Sensors
        PROVE  /\ Grown(eng.seen[s], StaleAfter[s] + 1) \in Nat \cup {Never}
               /\ Grown(eng.online[s], StaleAfter[s] + 1) \in Nat \cup {Never}
    <3>1. StaleAfter[s] + 1 \in Nat
      BY Parameters
    <3>2. eng.seen[s] \in Nat \cup {Never} /\ eng.online[s] \in Nat \cup {Never}
      BY Times
    <3> QED  BY <3>1, <3>2, GrownTyped
  <2> QED  BY <2>1
<1>4. armed \in [Sensors -> Nat \cup {Never}]
  <2>1. ASSUME NEW s \in Sensors, eng.armed[s] # Never
        PROVE  eng.armed[s] \in Nat /\ eng.armed[s] > 0
    <3>1. eng.armed[s] \in eng.expiries[s]
      BY <1>2, <2>1 DEF SensorInv, Armed
    <3>2. eng.armed[s] # 0 /\ eng.armed[s] \in Nat
      BY <1>1, <2>1, <3>1, Times
    <3> QED  BY <3>2
  <2>2. ASSUME NEW s \in Sensors
        PROVE  (IF eng.armed[s] = Never THEN Never ELSE eng.armed[s] - 1) \in Nat \cup {Never}
    BY <2>1
  <2> QED  BY <2>2
<1>5. expiries \in [Sensors -> SUBSET Nat]
  <2>1. ASSUME NEW s \in Sensors  PROVE {t - 1 : t \in eng.expiries[s]} \subseteq Nat
    <3>1. \A t \in eng.expiries[s] : t \in Nat /\ t # 0
      BY <1>1, Times
    <3> QED  BY <3>1
  <2> QED  BY <2>1
<1>6. ASSUME NEW s \in Sensors
      PROVE  /\ seen[s] = Grown(eng.seen[s], StaleAfter[s] + 1)
             /\ online[s] = Grown(eng.online[s], StaleAfter[s] + 1)
             /\ eng.armed[s] = Never => armed[s] = Never
             /\ eng.armed[s] # Never =>
                  armed[s] = eng.armed[s] - 1 /\ armed[s] \in expiries[s]
  <2>1. eng.armed[s] # Never => eng.armed[s] \in eng.expiries[s]
    BY <1>2 DEF SensorInv, Armed
  <2> QED  BY <2>1
<1> HIDE DEF seen, online, armed, expiries
<1>7. /\ eng' \in Engines /\ eng'.seen = seen /\ eng'.online = online
      /\ eng'.armed = armed /\ eng'.expiries = expiries
      /\ eng'.states = eng.states /\ eng'.zones = eng.zones /\ eng'.told = eng.told
      /\ eng'.pending = eng.pending
  BY <1>1, <1>2, <1>3, <1>4, <1>5 DEF Engines
<1>8. EngineInv(eng')
  BY <1>2, <1>7 DEF EngineInv, Fanned
<1>9. ASSUME NEW s \in Sensors
      PROVE  /\ sincePresent'[s] = Grown(sincePresent[s], HoldOf(s) + 1)
             /\ sinceWord'[s] = Grown(sinceWord[s], StaleAfter[s] + 1)
             /\ silent'[s] = Grown(silent[s], Noticed(s) + 1)
             /\ sincePresent'[s] \in 0 .. HoldOf(s) + 1
             /\ sinceWord'[s] \in 0 .. StaleAfter[s] + 1
             /\ silent'[s] \in 0 .. Noticed(s) + 1
  <2>1. /\ sincePresent'[s] = Grown(sincePresent[s], HoldOf(s) + 1)
        /\ sinceWord'[s] = Grown(sinceWord[s], StaleAfter[s] + 1)
        /\ silent'[s] = Grown(silent[s], Noticed(s) + 1)
    BY <1>1
  <2>2. HoldOf(s) + 1 \in Nat /\ StaleAfter[s] + 1 \in Nat /\ Noticed(s) + 1 \in Nat
    BY Parameters DEF Noticed
  <2>3. /\ sincePresent[s] \in Nat /\ sinceWord[s] \in Nat /\ silent[s] \in Nat
    BY <2>2, Times
  <2>4. ASSUME NEW age \in Nat, NEW most \in Nat  PROVE Grown(age, most) \in 0 .. most
    BY GrownTyped
  <2>5. /\ Grown(sincePresent[s], HoldOf(s) + 1) \in 0 .. HoldOf(s) + 1
        /\ Grown(sinceWord[s], StaleAfter[s] + 1) \in 0 .. StaleAfter[s] + 1
        /\ Grown(silent[s], Noticed(s) + 1) \in 0 .. Noticed(s) + 1
    BY <2>2, <2>3, <2>4
  <2> QED  BY <2>1, <2>5
<1>10. ZoneTypeOK'
  <2>1. sweepIn' \in 0 .. SweepPeriod
    BY <1>1, <1>2, Parameters
  <2>2. /\ sincePresent' \in [Sensors -> Nat] /\ sinceWord' \in [Sensors -> Nat]
        /\ silent' \in [Sensors -> Nat]
    <3>1. ASSUME NEW s \in Sensors
          PROVE  /\ Grown(sincePresent[s], HoldOf(s) + 1) \in Nat
                 /\ Grown(sinceWord[s], StaleAfter[s] + 1) \in Nat
                 /\ Grown(silent[s], Noticed(s) + 1) \in Nat
      <4>1. HoldOf(s) + 1 \in Nat /\ StaleAfter[s] + 1 \in Nat /\ Noticed(s) + 1 \in Nat
        BY Parameters DEF Noticed
      <4> QED  BY <1>9, <4>1
    <3> QED  BY <1>1, <3>1
  <2> QED  BY <1>1, <1>2, <1>7, <1>9, <2>1, <2>2 DEF ZoneTypeOK
<1>11. ASSUME NEW s \in Sensors
       PROVE  SensorInv(eng, s)' /\ InTime(eng, s, sweepIn)'
  <2>1. SensorInv(eng, s) /\ InTime(eng, s, sweepIn)
    BY <1>2
  <2>2. /\ eng.states[s] \in SensorStates
        /\ eng.seen[s] \in Nat \cup {Never} /\ eng.online[s] \in Nat \cup {Never}
        /\ eng.armed[s] \in Nat \cup {Never}
        /\ sincePresent[s] \in Nat /\ sincePresent[s] <= HoldOf(s) + 1
        /\ sinceWord[s] \in Nat /\ sinceWord[s] <= StaleAfter[s] + 1
        /\ silent[s] \in Nat /\ silent[s] <= Noticed(s) + 1
    BY Times, Parameters DEF Noticed
  <2>3. /\ HoldOf(s) \in Nat /\ StaleAfter[s] \in Nat /\ HoldOf(s) <= StaleAfter[s]
        /\ HoldTime[s] # Never => HoldOf(s) = HoldTime[s]
        /\ Never \notin Nat /\ SweepPeriod \in Nat
        /\ Noticed(s) = HoldOf(s) + StaleAfter[s] + SweepPeriod
    BY Parameters DEF Noticed
  <2>4. /\ sincePresent'[s] = (IF sincePresent[s] < HoldOf(s) + 1 THEN sincePresent[s] + 1
                               ELSE HoldOf(s) + 1)
        /\ sinceWord'[s] = (IF sinceWord[s] < StaleAfter[s] + 1 THEN sinceWord[s] + 1
                            ELSE StaleAfter[s] + 1)
        /\ silent'[s] = (IF silent[s] < Noticed(s) + 1 THEN silent[s] + 1
                         ELSE Noticed(s) + 1)
    BY <1>9, <2>2, <2>3 DEF Grown
  <2>5. /\ eng.seen[s] = Never => eng'.seen[s] = Never
        /\ eng.seen[s] # Never =>
             /\ eng'.seen[s] # Never
             /\ eng'.seen[s] = (IF eng.seen[s] < StaleAfter[s] + 1 THEN eng.seen[s] + 1
                                ELSE StaleAfter[s] + 1)
    BY <1>6, <1>7, <2>2, <2>3 DEF Grown
  <2>6. /\ eng.online[s] = Never => eng'.online[s] = Never
        /\ eng.online[s] # Never =>
             eng'.online[s] = (IF eng.online[s] < StaleAfter[s] + 1 THEN eng.online[s] + 1
                               ELSE StaleAfter[s] + 1)
    BY <1>6, <1>7, <2>2, <2>3 DEF Grown
  <2>7. /\ eng.armed[s] = Never <=> eng'.armed[s] = Never
        /\ eng.armed[s] # Never =>
             eng'.armed[s] = eng.armed[s] - 1 /\ eng'.armed[s] \in eng'.expiries[s]
    <3>1. eng.armed[s] # Never => armed[s] \in Nat
      <4>1. armed[s] \in Nat \cup {Never} /\ (eng.armed[s] # Never => armed[s] \in Int)
        BY <1>4, <1>6, <2>2
      <4>2. eng.armed[s] # Never => eng.armed[s] # 0 /\ eng.armed[s] \in Nat
        BY <1>1, <2>1, <2>2 DEF SensorInv, Armed
      <4> QED  BY <1>6, <4>1, <4>2
    <3> QED  BY <1>6, <1>7, <2>3, <3>1
  <2>8. Armed(eng, s)'
    <3>1. CASE eng.armed[s] # Never
      <4>1. /\ HoldTime[s] # Never /\ eng.seen[s] # Never
            /\ eng.armed[s] + sincePresent[s] = HoldOf(s)
            /\ eng.seen[s] <= sincePresent[s] /\ silent[s] <= sincePresent[s]
        BY <2>1, <2>3, <3>1 DEF SensorInv, Armed
      <4>2. sincePresent'[s] = sincePresent[s] + 1
        BY <2>2, <2>3, <2>4, <3>1, <4>1
      <4>3. eng'.seen[s] <= eng.seen[s] + 1 /\ silent'[s] <= silent[s] + 1
        BY <2>2, <2>3, <2>4, <2>5, <4>1
      <4>4. eng'.armed[s] + sincePresent'[s] = HoldTime[s]
        BY <2>2, <2>3, <2>7, <3>1, <4>1, <4>2
      <4>5. eng'.seen[s] <= sincePresent'[s] /\ silent'[s] <= sincePresent'[s]
        BY <2>2, <2>3, <2>4, <2>5, <4>1, <4>2, <4>3
      <4> QED  BY <2>5, <2>7, <3>1, <4>1, <4>4, <4>5 DEF Armed
    <3>2. CASE eng.armed[s] = Never
      BY <2>7, <3>2 DEF Armed
    <3> QED  BY <3>1, <3>2
  <2>9. Disarmed(eng, s)'
    <3>1. sincePresent[s] >= HoldOf(s) => sincePresent'[s] >= HoldOf(s)
      BY <2>2, <2>3, <2>4
    <3> QED  BY <1>1, <1>7, <2>1, <2>7, <3>1 DEF SensorInv, Disarmed
  <2>10. Counted(eng, s)'
    <3>1. sinceWord[s] > StaleAfter[s] => sinceWord'[s] > StaleAfter[s]
      BY <2>2, <2>3, <2>4
    <3>2. sinceWord'[s] <= StaleAfter[s] => sinceWord[s] <= StaleAfter[s]
      BY <2>2, <2>3, <2>4
    <3>3. eng.seen[s] # Never /\ eng.seen[s] <= sinceWord[s]
            => eng'.seen[s] # Never /\ eng'.seen[s] <= sinceWord'[s]
      BY <2>2, <2>3, <2>4, <2>5
    <3> QED  BY <1>1, <1>7, <2>1, <3>1, <3>2, <3>3 DEF SensorInv, Counted
  <2>11. Leased(eng, s)'
    <3>1. eng.online[s] # Never /\ (silent[s] <= eng.online[s] \/ eng.online[s] > StaleAfter[s])
            => silent'[s] <= eng'.online[s] \/ eng'.online[s] > StaleAfter[s]
      BY <2>2, <2>3, <2>4, <2>6
    <3>2. eng.seen[s] # Never
          /\ (silent[s] <= eng.seen[s] + HoldOf(s) \/ eng.seen[s] > StaleAfter[s])
            => /\ eng'.seen[s] # Never
               /\ silent'[s] <= eng'.seen[s] + HoldOf(s) \/ eng'.seen[s] > StaleAfter[s]
      BY <2>2, <2>3, <2>4, <2>5
    <3> QED  BY <1>7, <2>1, <2>6, <3>1, <3>2 DEF SensorInv, Leased
  <2>12. InTime(eng, s, sweepIn)'
    <3>1. sweepIn \in Int /\ sweepIn' = sweepIn - 1
      BY <1>1, <1>2, <2>3
    <3> QED  BY <1>7, <2>1, <2>2, <2>3, <2>4, <3>1 DEF InTime
  <2> QED  BY <2>8, <2>9, <2>10, <2>11, <2>12 DEF SensorInv
<1> QED  BY <1>8, <1>10, <1>11 DEF ZoneInv

-----------------------------------------------------------------------------
(* The theorems *)

LEMMA InitInv == ZoneInit => ZoneInv
<1> SUFFICES ASSUME ZoneInit  PROVE ZoneInv
  OBVIOUS
<1> DEFINE states == [s \in Sensors |-> "unavailable"]
           blank == [z \in Zones |-> FALSE]
           zones == Resolved(states, blank)
<1>1. blank \in [Zones -> BOOLEAN] /\ states \in [Sensors -> SensorStates]
  BY DEF SensorStates
<1>2. zones \in [Zones -> BOOLEAN] /\ Fused(states, zones)
  <2> HIDE DEF states, blank
  <2> QED  BY <1>1, ResolvedFused
<1>3. /\ eng = [states   |-> states,
                zones    |-> zones,
                told     |-> [d \in Displays |-> "unknown"],
                seen     |-> [s \in Sensors |-> Never],
                online   |-> [s \in Sensors |-> Never],
                armed    |-> [s \in Sensors |-> Never],
                pending  |-> [s \in Sensors |-> FALSE],
                expiries |-> [s \in Sensors |-> {}]]
      /\ sweepIn = SweepPeriod
      /\ word = [s \in Sensors |-> Never]
      /\ sincePresent = [s \in Sensors |-> HoldOf(s) + 1]
      /\ sinceWord = [s \in Sensors |-> StaleAfter[s] + 1]
      /\ silent = [s \in Sensors |-> 0]
  BY DEF ZoneInit
<1> HIDE DEF zones
<1>4. eng \in Engines
  BY <1>1, <1>2, <1>3 DEF Engines
<1>5. EngineInv(eng)
  BY <1>2, <1>3, <1>4 DEF EngineInv, Fanned
<1>6. ASSUME NEW s \in Sensors
      PROVE  /\ HoldOf(s) \in Nat /\ StaleAfter[s] \in Nat /\ Noticed(s) \in Nat
             /\ SweepPeriod \in Nat /\ SweepPeriod <= Noticed(s)
  BY Parameters DEF Noticed
<1>7. ZoneTypeOK
  <2>1. sweepIn \in 0 .. SweepPeriod
    BY <1>3, Parameters
  <2>2. word \in [Sensors -> SensorStates \cup {Never}]
    BY <1>3
  <2>3. /\ sincePresent \in [Sensors -> Nat] /\ sinceWord \in [Sensors -> Nat]
        /\ silent \in [Sensors -> Nat]
    BY <1>3, <1>6
  <2>4. \A s \in Sensors : /\ sincePresent[s] \in 0 .. HoldOf(s) + 1
                           /\ sinceWord[s] \in 0 .. StaleAfter[s] + 1
                           /\ silent[s] \in 0 .. Noticed(s) + 1
    BY <1>3, <1>6
  <2> QED  BY <1>4, <2>1, <2>2, <2>3, <2>4 DEF ZoneTypeOK
<1>8. ASSUME NEW s \in Sensors  PROVE SensorInv(eng, s) /\ InTime(eng, s, sweepIn)
  <2>1. /\ eng.states[s] = "unavailable" /\ eng.online[s] = Never
        /\ eng.armed[s] = Never /\ eng.pending[s] = FALSE /\ word[s] = Never
        /\ sincePresent[s] = HoldOf(s) + 1 /\ sinceWord[s] = StaleAfter[s] + 1
        /\ silent[s] = 0
    BY <1>3
  <2>2. Armed(eng, s) /\ Disarmed(eng, s)
    BY <1>6, <2>1 DEF Armed, Disarmed
  <2>3. Counted(eng, s) /\ Leased(eng, s) /\ InTime(eng, s, sweepIn)
    BY <1>6, <2>1 DEF Counted, Leased, InTime
  <2> QED  BY <2>2, <2>3 DEF SensorInv
<1> QED  BY <1>5, <1>7, <1>8 DEF ZoneInv

\* The inductive invariant: the zones are the fusion of their members and the
\* displays know it; of each sensor, how its hold, its lease and what the engine
\* has seen of it relate to what it has reported.
THEOREM Invariance == ZoneSpec => []ZoneInv
<1>1. ZoneInv /\ [ZoneNext]_zoneVars => ZoneInv'
  <2> SUFFICES ASSUME ZoneInv, [ZoneNext]_zoneVars  PROVE ZoneInv'
    OBVIOUS
  <2>1. ASSUME NEW s \in Sensors, NEW w \in SensorStates, Report(s, w)
        PROVE  ZoneInv'
    BY <2>1, ReportStep
  <2>2. ASSUME NEW s \in Sensors, NEW online \in BOOLEAN, Availability(s, online)
        PROVE  ZoneInv'
    BY <2>2, AvailabilityStep
  <2>3. ASSUME NEW s \in Sensors, HoldExpires(s)
        PROVE  ZoneInv'
    BY <2>3, HoldExpiresStep
  <2>4. CASE Sweep
    BY <2>4, SweepStep
  <2>5. CASE UnitPasses
    BY <2>5, UnitStep
  <2>6. CASE UNCHANGED zoneVars
    BY <2>6 DEF zoneVars, ZoneInv, ZoneTypeOK, EngineInv, Fanned, SensorInv, Armed,
                Disarmed, Counted, Leased, InTime
  <2> QED  BY <2>1, <2>2, <2>3, <2>4, <2>5, <2>6 DEF ZoneNext
<1> QED  BY InitInv, <1>1, PTL DEF ZoneSpec

\* Every variable keeps its type, whatever the sensors report and in whatever order
\* timers, sweeps and leases come.
THEOREM TypeCorrect == ZoneSpec => []ZoneTypeOK
BY Invariance, PTL DEF ZoneInv

\* Whatever chain of nested zones, held absences and sweeps came before: each zone
\* is the fusion of its members, and each display was last told whether one of the
\* zones that drive it is occupied.
THEOREM MachinesCurrent == ZoneSpec => []MachinesAreCurrent
<1>1. ZoneInv => MachinesAreCurrent
  BY DEF ZoneInv, EngineInv, Fused, Fanned, MachinesAreCurrent
<1> QED  BY <1>1, Invariance, PTL

\* hold_time: no sensor is taken for absent before its hold is over, and what it
\* last said counts from then on, while it is not silent.
THEOREM HoldKept == ZoneSpec => []HoldIsKept
<1>1. ZoneInv => HoldIsKept
  <2> SUFFICES ASSUME ZoneInv, NEW s \in Sensors
      PROVE  /\ eng.states[s] = "absent" => sincePresent[s] >= HoldOf(s)
             /\ /\ sinceWord[s] <= StaleAfter[s]
                /\ word[s] = "absent" => sincePresent[s] > HoldOf(s)
                => eng.states[s] = word[s]
    BY DEF HoldIsKept
  <2>1. SensorInv(eng, s)
    BY DEF ZoneInv
  <2>2. eng.states[s] = "absent" => sincePresent[s] >= HoldOf(s)
    BY <2>1 DEF SensorInv, Disarmed
  <2>3. ASSUME sinceWord[s] <= StaleAfter[s],
               word[s] = "absent" => sincePresent[s] > HoldOf(s)
        PROVE  eng.states[s] = word[s]
    <3>1. word[s] # Never
      BY <2>1, <2>3, Times, Parameters DEF SensorInv, Counted
    <3>2. ~eng.pending[s]
      <4>1. CASE eng.pending[s]
        <5>1. eng.armed[s] # Never /\ word[s] = "absent"
          BY <2>1, <4>1 DEF SensorInv, Disarmed
        <5>2. eng.armed[s] \in Nat /\ eng.armed[s] + sincePresent[s] = HoldOf(s)
          BY <2>1, <5>1, Times, Parameters DEF SensorInv, Armed
        <5>3. sincePresent[s] > HoldOf(s) /\ HoldOf(s) \in Nat /\ sincePresent[s] \in Nat
          BY <2>3, <5>1, Times, Parameters
        <5> QED  BY <5>2, <5>3
      <4> QED  BY <4>1
    <3> QED  BY <2>1, <2>3, <3>1, <3>2 DEF SensorInv, Counted
  <2> QED  BY <2>2, <2>3
<1> QED  BY <1>1, Invariance, PTL

\* stale_timeout: a silent sensor is unavailable once hold, timeout and the period
\* of the sweep have passed, a retained online or not.
THEOREM SilenceNoticed == ZoneSpec => []SilenceIsNoticed
<1>1. ZoneInv => SilenceIsNoticed
  <2> SUFFICES ASSUME ZoneInv, NEW s \in Sensors, silent[s] > Noticed(s)
      PROVE  eng.states[s] = "unavailable"
    BY DEF SilenceIsNoticed
  <2>1. InTime(eng, s, sweepIn)
    BY DEF ZoneInv
  <2>2. silent[s] \in Int /\ Noticed(s) \in Int /\ sweepIn \in Nat
    BY Times, Parameters DEF Noticed
  <2> QED  BY <2>1, <2>2 DEF InTime
<1> QED  BY <1>1, Invariance, PTL
=============================================================================
