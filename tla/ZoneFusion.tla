----------------------------- MODULE ZoneFusion -----------------------------
(***************************************************************************)
(* From the sensors to the displays: the hold filter and the stale sweep   *)
(* of RulesEngine (src/crates/dormant-core/src/rules.rs), the ZoneEngine   *)
(* (zone.rs) that fuses sensors into zones, and the fan-out to displays.   *)
(*                                                                         *)
(* One record holds what the engine keeps of them.  Times are ages or, for *)
(* deadlines, what is left, in units; an age stops growing once it is past *)
(* every bound it is compared with.  The sensors themselves are free to    *)
(* report anything at any time.                                            *)
(***************************************************************************)
EXTENDS Integers, Sequences, FiniteSets, FiniteSetsExt, SequencesExt

CONSTANTS
    SensorOrder,  \* RulesEngineConfig::sensors
    HoldTime,     \* hold_time of each sensor, Never without one
    StaleAfter,   \* stale_timeout of each sensor
    SweepPeriod,  \* compute_sweep_period
    Zones,
    Members,      \* of each zone: sensors and zones
    Fusion,       \* its mode: at least `least', for "weighted" out of `outOf'
    Weight,       \* of each member of each zone
    Policy,       \* its unavailable_policy
    Rules,
    RuleZone,
    RuleDisplays,
    Displays,
    Never

Sensors == Range(SensorOrder)
SensorStates == {"present", "absent", "unavailable"}

\* topo_sort: some order in which every zone follows the zones it is made of.
ChildrenFirst(o) ==
    \A i, j \in DOMAIN o : o[j] \in Members[o[i]] => j < i
Orders == {o \in [1 .. Cardinality(Zones) -> Zones] : Range(o) = Zones}
EvalOrder == CHOOSE o \in Orders : ChildrenFirst(o)

ASSUME ZoneAssumption ==
    /\ IsFiniteSet(Zones) /\ SensorOrder \in Seq(Sensors)
    /\ Sensors \cap Zones = {}
    /\ SweepPeriod \in Nat \ {0}
    /\ Never \notin Nat \cup SensorStates
    /\ HoldTime \in [Sensors -> Nat \cup {Never}] /\ StaleAfter \in [Sensors -> Nat]
    \* refused by the validation of the config (config/validate.rs:764)
    /\ \A s \in Sensors : HoldTime[s] # Never => HoldTime[s] <= StaleAfter[s]
    /\ Members \in [Zones -> SUBSET (Sensors \cup Zones)]
    /\ Fusion \in [Zones -> [mode : {"any", "all", "quorum", "weighted"},
                             least : Nat, outOf : Nat \ {0}]]
    /\ Weight \in [Zones -> [Sensors \cup Zones -> Nat]]
    /\ Policy \in [Zones -> {"present", "absent"}]
    \* a cycle is refused by ZoneEngine::new
    /\ \E o \in Orders : ChildrenFirst(o)
    /\ RuleZone \in [Rules -> Zones] /\ RuleDisplays \in [Rules -> SUBSET Displays]

VARIABLES
    eng,           \* what the engine keeps
    sweepIn,       \* how soon the next sweep is due
    word,          \* history: the last report of each sensor
    sincePresent,  \* history: how long ago it last reported presence
    sinceWord,     \* history: how long ago it last reported anything
    silent         \* history: how long ago it did, or was said to be online

zoneVars == <<eng, sweepIn, word, sincePresent, sinceWord, silent>>

HoldOf(s) == IF HoldTime[s] = Never THEN 0 ELSE HoldTime[s]

\* A sensor of which nothing was heard for longer than this is unavailable: the
\* expiry of a hold counts as a sign of life.
Noticed(s) == HoldOf(s) + StaleAfter[s] + SweepPeriod

Engines == [
    states   : [Sensors -> SensorStates],
    zones    : [Zones -> BOOLEAN],
    told     : [Displays -> {"unknown", "present", "absent"}],  \* last ZonePresent
    seen     : [Sensors -> Nat \cup {Never}],    \* sensor_last_seen_virtual
    online   : [Sensors -> Nat \cup {Never}],    \* availability_online
    armed    : [Sensors -> Nat \cup {Never}],    \* HoldState::armed_until
    pending  : [Sensors -> BOOLEAN],            \* HoldState::pending_absent
    expiries : [Sensors -> SUBSET Nat]]         \* its HoldExpiry timers

ZoneTypeOK ==
    /\ eng \in Engines
    /\ sweepIn \in 0 .. SweepPeriod
    /\ word \in [Sensors -> SensorStates \cup {Never}]
    /\ {sincePresent, sinceWord, silent} \subseteq [Sensors -> Nat]
    /\ \A s \in Sensors : /\ sincePresent[s] \in 0 .. HoldOf(s) + 1
                          /\ sinceWord[s] \in 0 .. StaleAfter[s] + 1
                          /\ silent[s] \in 0 .. Noticed(s) + 1

-----------------------------------------------------------------------------
(* Fusion *)

\* member_effective_bool
Counts(z, m, states, zones) ==
    IF m \in Zones THEN zones[m]
    ELSE \/ states[m] = "present"
         \/ states[m] = "unavailable" /\ Policy[z] = "present"

WeightOf(z, members) == MapThenSumSet(LAMBDA m : Weight[z][m], members)

\* resolve_zone_with_policy and fuse_members
Resolve(z, states, zones) ==
    LET present == {m \in Members[z] : Counts(z, m, states, zones)}
    IN  /\ Members[z] # {}
        /\ CASE Fusion[z].mode = "any"      -> present # {}
             [] Fusion[z].mode = "all"      -> present = Members[z]
             [] Fusion[z].mode = "quorum"   -> Cardinality(present) >= Fusion[z].least
             [] Fusion[z].mode = "weighted" ->
                    /\ WeightOf(z, Members[z]) > 0
                    /\ WeightOf(z, present) * Fusion[z].outOf
                            >= Fusion[z].least * WeightOf(z, Members[z])

\* Bottom-up: each zone on top of those already resolved.
OneMore(states, z, zones) == [zones EXCEPT ![z] = Resolve(z, states, zones)]

Resolved(states, zones) ==
    LET after[n \in 0 .. Cardinality(Zones)] ==
            IF n = 0 THEN zones ELSE OneMore(states, EvalOrder[n], after[n - 1])
    IN  after[Cardinality(Zones)]

ZoneInit ==
    LET states == [s \in Sensors |-> "unavailable"]
    IN  /\ eng = [states   |-> states,
                  zones    |-> Resolved(states, [z \in Zones |-> FALSE]),
                  told     |-> [d \in Displays |-> "unknown"],
                  seen     |-> [s \in Sensors |-> Never],
                  online   |-> [s \in Sensors |-> Never],
                  armed    |-> [s \in Sensors |-> Never],
                  pending  |-> [s \in Sensors |-> FALSE],
                  expiries |-> [s \in Sensors |-> {}]]
        /\ sweepIn = SweepPeriod
        /\ word = [s \in Sensors |-> Never]
        /\ sincePresent = [s \in Sensors |-> HoldOf(s) + 1]
        /\ sinceWord = [s \in Sensors |-> StaleAfter[s] + 1]
        /\ silent = [s \in Sensors |-> 0]

-----------------------------------------------------------------------------
(* Presence events *)

\* effective_zone_presence: a display several zones drive stays on while one
\* of them is occupied.
Occupied(d, zones) == \E r \in Rules : d \in RuleDisplays[r] /\ zones[RuleZone[r]]

\* Mutated: the display is told the level of the zone that changed.
LevelOfTheZone(e, zones, d) ==
    LET rs == {r \in Rules : d \in RuleDisplays[r] /\ zones[RuleZone[r]] # e.zones[RuleZone[r]]}
    IN  IF rs = {} THEN e.told[d]
        ELSE IF zones[RuleZone[CHOOSE r \in rs : TRUE]] THEN "present" ELSE "absent"

\* fan_zone_change_to_displays: of what the displays of e are told once the
\* zones have become these.
Told(e, zones, d) ==
    IF \A r \in Rules : d \in RuleDisplays[r] => zones[RuleZone[r]] = e.zones[RuleZone[r]]
    THEN e.told[d]
    ELSE IF Occupied(d, zones) THEN "present" ELSE "absent"

\* ZoneEngine::apply and the fan-out of its changes.
Applied(e, s, w) ==
    LET states == [e.states EXCEPT ![s] = w]
        zones  == Resolved(states, e.zones)
    IN  [e EXCEPT !.seen[s] = 0, !.states = states, !.zones = zones,
                  !.told = [d \in Displays |-> Told(e, zones, d)]]

\* Mutated: a report of presence does not replace the absence that waits.
FilteredKeepingAbsence(e, s, w) ==
    IF HoldTime[s] = Never THEN e
    ELSE CASE w = "present" ->
                  [e EXCEPT !.armed[s] = HoldTime[s],
                            !.expiries[s] = @ \cup {HoldTime[s]}]
           [] w = "absent" -> [e EXCEPT !.pending[s] = @ \/ e.armed[s] # Never]
           [] w = "unavailable" -> [e EXCEPT !.pending[s] = FALSE]

\* apply_hold_filter
Filtered(e, s, w) ==
    IF HoldTime[s] = Never THEN e
    ELSE CASE w = "present" ->
                  [e EXCEPT !.armed[s] = HoldTime[s], !.pending[s] = FALSE,
                            !.expiries[s] = @ \cup {HoldTime[s]}]
           [] w = "absent" -> [e EXCEPT !.pending[s] = @ \/ e.armed[s] # Never]
           [] w = "unavailable" -> [e EXCEPT !.pending[s] = FALSE]

\* handle_presence_event: an absence is held back while its hold is armed.
Hear(e, s, w) ==
    LET known == IF w = "unavailable" THEN [e EXCEPT !.online[s] = Never] ELSE e
        f     == Filtered(known, s, w)
    IN  IF w = "absent" /\ e.armed[s] # Never THEN f ELSE Applied(f, s, w)

\* Bookkeeping of the history.
Heard(s, w) ==
    /\ word' = [word EXCEPT ![s] = w]
    /\ sincePresent' = [sincePresent EXCEPT ![s] = IF w = "present" THEN 0 ELSE @]
    /\ sinceWord' = [sinceWord EXCEPT ![s] = 0]
    /\ silent' = [silent EXCEPT ![s] = 0]

Report(s, w) ==
    /\ eng' = Hear(eng, s, w)
    /\ Heard(s, w)
    /\ UNCHANGED sweepIn

\* handle_sensor_availability: online is a lease, offline an event.
Availability(s, online) ==
    /\ IF online
       THEN /\ eng' = [eng EXCEPT !.online[s] = 0]
            /\ silent' = [silent EXCEPT ![s] = 0]
            /\ UNCHANGED <<word, sincePresent, sinceWord>>
       ELSE /\ eng' = Hear([eng EXCEPT !.online[s] = Never], s, "unavailable")
            /\ Heard(s, "unavailable")
    /\ UNCHANGED sweepIn

-----------------------------------------------------------------------------
(* Timers and the sweep *)

\* fire_hold_expiry: a timer whose hold was armed anew is dropped.
HoldExpires(s) ==
    /\ 0 \in eng.expiries[s]
    /\ LET e == [eng EXCEPT !.expiries[s] = @ \ {0}]
           over == [e EXCEPT !.armed[s] = Never, !.pending[s] = FALSE]
       IN  eng' = CASE e.armed[s] = Never -> over
                    [] e.armed[s] # Never /\ e.armed[s] > 0 -> e
                    [] OTHER -> IF e.pending[s] THEN Hear(over, s, "absent") ELSE over
    /\ UNCHANGED <<sweepIn, word, sincePresent, sinceWord, silent>>

\* Mutated: a lease keeps a sensor for ever.
SweptTrusting(e, s) ==
    IF \/ e.states[s] = "unavailable" \/ e.online[s] # Never
       \/ e.seen[s] = Never \/ e.seen[s] <= StaleAfter[s]
    THEN e ELSE Hear(e, s, "unavailable")

\* sweep_stale_sensors, for one sensor: an online lease that runs keeps it.
Swept(e, s) ==
    LET leased  == e.online[s] # Never /\ e.online[s] <= StaleAfter[s]
        expired == [e EXCEPT !.online[s] = Never]
    IN  IF e.states[s] = "unavailable" \/ leased THEN e
        ELSE IF e.seen[s] = Never \/ e.seen[s] <= StaleAfter[s] THEN expired
        ELSE Hear(expired, s, "unavailable")

\* One sensor after the other, in the order of the config.
AllSwept(e) ==
    LET after[n \in 0 .. Len(SensorOrder)] ==
            IF n = 0 THEN e ELSE Swept(after[n - 1], SensorOrder[n])
    IN  after[Len(SensorOrder)]

\* The next sweep is a period after the loop began to wait for this one.
Sweep ==
    /\ sweepIn = 0
    /\ eng' = AllSwept(eng)
    /\ sweepIn' \in 0 .. SweepPeriod
    /\ UNCHANGED <<word, sincePresent, sinceWord, silent>>

Grown(age, most) == IF age = Never THEN Never ELSE IF age < most THEN age + 1 ELSE most

\* Time passes when no timer and no sweep is due.
UnitPasses ==
    /\ sweepIn > 0
    /\ \A s \in Sensors : 0 \notin eng.expiries[s]
    /\ eng' = [eng EXCEPT
            !.seen     = [s \in Sensors |-> Grown(@[s], StaleAfter[s] + 1)],
            !.online   = [s \in Sensors |-> Grown(@[s], StaleAfter[s] + 1)],
            !.armed    = [s \in Sensors |-> IF @[s] = Never THEN Never ELSE @[s] - 1],
            !.expiries = [s \in Sensors |-> {t - 1 : t \in @[s]}]]
    /\ sweepIn' = sweepIn - 1
    /\ sincePresent' = [s \in Sensors |-> Grown(sincePresent[s], HoldOf(s) + 1)]
    /\ sinceWord' = [s \in Sensors |-> Grown(sinceWord[s], StaleAfter[s] + 1)]
    /\ silent' = [s \in Sensors |-> Grown(silent[s], Noticed(s) + 1)]
    /\ UNCHANGED word

ZoneNext ==
    \/ \E s \in Sensors, w \in SensorStates : Report(s, w)
    \/ \E s \in Sensors, online \in BOOLEAN : Availability(s, online)
    \/ \E s \in Sensors : HoldExpires(s)
    \/ Sweep
    \/ UnitPasses

ZoneSpec == ZoneInit /\ [][ZoneNext]_zoneVars

-----------------------------------------------------------------------------
(* Properties *)

\* A display whose machine has been told a level was last told whether one of
\* the zones that drive it is occupied, each of them the fusion of its members
\* as they are now, whatever chain of nested zones, held absences and sweeps
\* came before.
MachinesAreCurrent ==
    /\ \A z \in Zones : eng.zones[z] = Resolve(z, eng.states, eng.zones)
    /\ \A d \in Displays : eng.told[d] # "unknown" =>
            (eng.told[d] = "present" <=> Occupied(d, eng.zones))

\* hold_time: a sensor is only taken for absent once that long has passed since
\* it last reported presence, though its timers overtake each other and outages
\* come between.  From then on, and for as long as it is not silent, what it
\* last reported is what counts: an absence that was held back is not lost to a
\* sweep, a stale timer or a lease.
HoldIsKept ==
    \A s \in Sensors :
        /\ eng.states[s] = "absent" => sincePresent[s] >= HoldOf(s)
        /\ /\ sinceWord[s] <= StaleAfter[s]
           /\ word[s] = "absent" => sincePresent[s] > HoldOf(s)
           => eng.states[s] = word[s]

\* A sensor that has gone silent is noticed: `an online retained sensor that
\* then goes silent forever must still go Unavailable'.
SilenceIsNoticed ==
    \A s \in Sensors : silent[s] > Noticed(s) => eng.states[s] = "unavailable"
=============================================================================
