-------------------------------- MODULE VcpBus --------------------------------
(***************************************************************************)
(* The DDC/CI traffic of the process: the command-priority lock of a panel *)
(* (src/crates/dormant-displays/src/ddc_lock.rs), the process-wide gate    *)
(* and the cache of handles (src/crates/dormant-displays/src/vcp_ops.rs). *)
(*                                                                         *)
(* A thread runs one closure of spawn_blocking (a VCP call of a command or *)
(* of the sampler, a list_displays scan) or drops the last reference to a  *)
(* RealVcpState.  Each controller has a RealVcp of its own, for the panel  *)
(* it drives; two of them drive one panel while a reload replaces the one  *)
(* by the other.  What the hardware answers is its own affair.             *)
(***************************************************************************)
EXTENDS Integers, FiniteSets

CONSTANTS
    Threads,  \* bound: blocking threads at work at once
    Panels,
    Vcps,     \* bound: the RealVcp states there are at once
    PanelOf,  \* the panel each of them drives
    None

ASSUME BusAssumption ==
    /\ IsFiniteSet(Threads)
    /\ PanelOf \in [Vcps -> Panels]
    /\ None \notin Threads \cup Vcps

VARIABLES
    pc,       \* where each thread is
    kind,     \* what it does
    vcp,      \* through which RealVcp
    handle,   \* whether it has the cached handle checked out
    waiting,  \* PanelLock::command_waiting
    holder,   \* PanelLock::mutex: the thread that holds it
    gate,     \* DDC_PHYSICAL_GATE
    cache,    \* HandleCache::entries: whether there is an entry
    live      \* whether the controller still has its RealVcp

vars == <<pc, kind, vcp, handle, waiting, holder, gate, cache, live>>

Callers == {"command", "sampler"}
Kinds == Callers \cup {"scan", "teardown"}
Places ==
    {"idle", "announced", "locked", "check", "checked", "trylocked", "gate",
     "checkout", "enumerate", "op", "drain", "ungate", "unlock", "release"}

TypeOK ==
    /\ pc \in [Threads -> Places]
    /\ kind \in [Threads -> Kinds]
    /\ vcp \in [Threads -> Vcps \cup {None}]
    /\ handle \in [Threads -> BOOLEAN]
    /\ waiting \in [Panels -> Nat]
    /\ holder \in [Panels -> Threads \cup {None}]
    /\ gate \in Threads \cup {None}
    /\ cache \in [Vcps -> BOOLEAN]
    /\ live \in [Vcps -> BOOLEAN]

Init ==
    /\ pc = [t \in Threads |-> "idle"]
    /\ kind = [t \in Threads |-> "scan"]
    /\ vcp = [t \in Threads |-> None]
    /\ handle = [t \in Threads |-> FALSE]
    /\ waiting = [p \in Panels |-> 0]
    /\ holder = [p \in Panels |-> None]
    /\ gate = None
    /\ cache = [v \in Vcps |-> FALSE]
    /\ live = [v \in Vcps |-> FALSE]

Panel(t) == PanelOf[vcp[t]]

\* The clones of the Arc that running closures hold.
References(v) == {t \in Threads : pc[t] # "idle" /\ kind[t] \in Callers /\ vcp[t] = v}
TearsDown(t, v) == pc[t] # "idle" /\ kind[t] = "teardown" /\ vcp[t] = v

Goes(t, place) == pc' = [pc EXCEPT ![t] = place]

Becomes(t, k, v, place) ==
    /\ Goes(t, place)
    /\ kind' = [kind EXCEPT ![t] = k]
    /\ vcp' = [vcp EXCEPT ![t] = v]

Ends(t) == Becomes(t, "scan", None, "idle")

-----------------------------------------------------------------------------
(* PanelLock *)

\* command_guard announces the command before it waits.
Announce(t, v) ==
    /\ pc[t] = "idle" /\ live[v]
    /\ Becomes(t, "command", v, "announced")
    /\ waiting' = [waiting EXCEPT ![PanelOf[v]] = @ + 1]
    /\ UNCHANGED <<handle, holder, gate, cache, live>>

LockPanel(t) ==
    /\ pc[t] = "announced"
    /\ holder[Panel(t)] = None
    /\ holder' = [holder EXCEPT ![Panel(t)] = t]
    /\ Goes(t, "locked")
    /\ UNCHANGED <<kind, vcp, handle, waiting, gate, cache, live>>

Retract(t) ==
    /\ pc[t] = "locked"
    /\ waiting' = [waiting EXCEPT ![Panel(t)] = @ - 1]
    /\ Goes(t, "gate")
    /\ UNCHANGED <<kind, vcp, handle, holder, gate, cache, live>>

StartSampling(t, v) ==
    /\ pc[t] = "idle" /\ live[v]
    /\ Becomes(t, "sampler", v, "check")
    /\ UNCHANGED <<handle, waiting, holder, gate, cache, live>>

\* Mutated: sampler_try has no fast path.
CheckNothing(t) ==
    /\ pc[t] = "check"
    /\ Goes(t, "checked")
    /\ UNCHANGED <<kind, vcp, handle, waiting, holder, gate, cache, live>>

\* sampler_try: (i) the fast-path check,
Check(t) ==
    /\ pc[t] = "check"
    /\ Goes(t, IF waiting[Panel(t)] > 0 THEN "release" ELSE "checked")
    /\ UNCHANGED <<kind, vcp, handle, waiting, holder, gate, cache, live>>

\* (ii) try_lock,
TryLock(t) ==
    /\ pc[t] = "checked"
    /\ IF holder[Panel(t)] = None
       THEN holder' = [holder EXCEPT ![Panel(t)] = t] /\ Goes(t, "trylocked")
       ELSE UNCHANGED holder /\ Goes(t, "release")
    /\ UNCHANGED <<kind, vcp, handle, waiting, gate, cache, live>>

\* Mutated: a single pre-check.
RecheckNothing(t) ==
    /\ pc[t] = "trylocked"
    /\ Goes(t, "gate")
    /\ UNCHANGED <<kind, vcp, handle, waiting, holder, gate, cache, live>>

\* (iii) the check again: a command that announced itself meanwhile goes first.
Recheck(t) ==
    /\ pc[t] = "trylocked"
    /\ IF waiting[Panel(t)] > 0
       THEN holder' = [holder EXCEPT ![Panel(t)] = None] /\ Goes(t, "release")
       ELSE UNCHANGED holder /\ Goes(t, "gate")
    /\ UNCHANGED <<kind, vcp, handle, waiting, gate, cache, live>>

UnlockPanel(t) ==
    /\ pc[t] = "unlock"
    /\ holder' = [holder EXCEPT ![Panel(t)] = None]
    /\ Goes(t, "release")
    /\ UNCHANGED <<kind, vcp, handle, waiting, gate, cache, live>>

-----------------------------------------------------------------------------
(* The gate and what runs inside it *)

Inside(k) ==
    CASE k \in Callers   -> "checkout"
      [] k = "scan"      -> "enumerate"
      [] k = "teardown"  -> "drain"

\* Mutated: the teardown of a cache does not take the gate.
TakeGateToCall(t) ==
    /\ pc[t] = "gate"
    /\ gate = None \/ kind[t] = "teardown"
    /\ gate' = IF kind[t] = "teardown" THEN gate ELSE t
    /\ Goes(t, Inside(kind[t]))
    /\ UNCHANGED <<kind, vcp, handle, waiting, holder, cache, live>>

TakeGate(t) ==
    /\ pc[t] = "gate"
    /\ gate = None
    /\ gate' = t
    /\ Goes(t, Inside(kind[t]))
    /\ UNCHANGED <<kind, vcp, handle, waiting, holder, cache, live>>

\* Mutated: the entry is read, not removed.
CheckoutCopies(t, fresh) ==
    /\ pc[t] = "checkout"
    /\ handle' = [handle EXCEPT ![t] = cache[vcp[t]] /\ fresh]
    /\ Goes(t, IF cache[vcp[t]] /\ fresh THEN "op" ELSE "enumerate")
    /\ UNCHANGED <<kind, vcp, waiting, holder, gate, cache, live>>

\* The entry is removed; one past its revalidation window is dropped.
Checkout(t, fresh) ==
    /\ pc[t] = "checkout"
    /\ cache' = [cache EXCEPT ![vcp[t]] = FALSE]
    /\ handle' = [handle EXCEPT ![t] = cache[vcp[t]] /\ fresh]
    /\ Goes(t, IF cache[vcp[t]] /\ fresh THEN "op" ELSE "enumerate")
    /\ UNCHANGED <<kind, vcp, waiting, holder, gate, live>>

\* The scan of all buses, for a list or for a handle.
Enumerate(t, found) ==
    /\ pc[t] = "enumerate"
    /\ IF found /\ kind[t] \in Callers
       THEN handle' = [handle EXCEPT ![t] = TRUE] /\ Goes(t, "op")
       ELSE UNCHANGED handle /\ Goes(t, "ungate")
    /\ UNCHANGED <<kind, vcp, waiting, holder, gate, cache, live>>

\* The transaction; after a transport error or a panic the handle is dropped.
Transact(t, healthy) ==
    /\ pc[t] = "op"
    /\ handle' = [handle EXCEPT ![t] = FALSE]
    /\ cache' = [cache EXCEPT ![vcp[t]] = @ \/ healthy]
    /\ Goes(t, "ungate")
    /\ UNCHANGED <<kind, vcp, waiting, holder, gate, live>>

LeaveGate(t) ==
    /\ pc[t] = "ungate"
    /\ gate' = None
    /\ IF kind[t] \in Callers THEN Goes(t, "unlock") /\ UNCHANGED <<kind, vcp>>
       ELSE Ends(t)
    /\ UNCHANGED <<handle, waiting, holder, cache, live>>

Scan(t) ==
    /\ pc[t] = "idle"
    /\ Becomes(t, "scan", None, "gate")
    /\ UNCHANGED <<handle, waiting, holder, gate, cache, live>>

-----------------------------------------------------------------------------
(* The life of a RealVcp *)

Create(v) ==
    /\ ~live[v] /\ References(v) = {} /\ \A t \in Threads : ~TearsDown(t, v)
    /\ live' = [live EXCEPT ![v] = TRUE]
    /\ UNCHANGED <<pc, kind, vcp, handle, waiting, holder, gate, cache>>

\* A reload drops the controller: the last reference drains the cache.
Retire(t, v) ==
    /\ pc[t] = "idle" /\ live[v]
    /\ live' = [live EXCEPT ![v] = FALSE]
    /\ IF References(v) = {} THEN Becomes(t, "teardown", v, "gate")
       ELSE UNCHANGED <<pc, kind, vcp>>
    /\ UNCHANGED <<handle, waiting, holder, gate, cache>>

\* Mutated: only a controller's own reference drains the cache.
ReleaseQuietly(t) ==
    /\ pc[t] = "release"
    /\ Ends(t)
    /\ UNCHANGED <<handle, waiting, holder, gate, cache, live>>

\* The closure drops its clone of the Arc, after its guards.
Release(t) ==
    /\ pc[t] = "release"
    /\ IF ~live[vcp[t]] /\ References(vcp[t]) = {t}
       THEN Becomes(t, "teardown", vcp[t], "gate")
       ELSE Ends(t)
    /\ UNCHANGED <<handle, waiting, holder, gate, cache, live>>

Drain(t) ==
    /\ pc[t] = "drain"
    /\ cache' = [cache EXCEPT ![vcp[t]] = FALSE]
    /\ Goes(t, "ungate")
    /\ UNCHANGED <<kind, vcp, handle, waiting, holder, gate, live>>

-----------------------------------------------------------------------------
Starts(t) ==
    \/ \E v \in Vcps : Announce(t, v) \/ StartSampling(t, v) \/ Retire(t, v)
    \/ Scan(t)

Continues(t) ==
    \/ LockPanel(t) \/ Retract(t)
    \/ Check(t) \/ TryLock(t) \/ Recheck(t)
    \/ TakeGate(t)
    \/ \E ok \in BOOLEAN : Checkout(t, ok) \/ Enumerate(t, ok) \/ Transact(t, ok)
    \/ LeaveGate(t) \/ UnlockPanel(t) \/ Release(t) \/ Drain(t)

Next ==
    \/ \E t \in Threads : Starts(t) \/ Continues(t)
    \/ \E v \in Vcps : Create(v)

Spec == Init /\ [][Next]_vars

\* A thread that has begun goes on.  The mutex of a panel promises only that
\* while it stays free some command that waits for it locks it: a try_lock may
\* win any race.  No thread waits for the gate forever.
FairSpec ==
    /\ Spec
    /\ \A t \in Threads : WF_vars(Continues(t)) /\ SF_vars(TakeGate(t))
    /\ \A p \in Panels :
          WF_vars(\E t \in Threads : pc[t] = "announced" /\ Panel(t) = p /\ LockPanel(t))

-----------------------------------------------------------------------------
(* Properties *)

OnBus == {"checkout", "enumerate", "op", "drain"}

\* One physical DDC access at a time, process-wide: transactions of different
\* panels, scans of all buses and the closing of a retired cache's handles.
BusIsSerialized ==
    \A t, u \in Threads : pc[t] \in OnBus /\ pc[u] \in OnBus => t = u

\* What `unsafe impl Send for SendDisplay` rests on: a handle that is in use
\* is used inside the gate, by one thread, and is not in the cache as well.
HandleHasOneOwner ==
    \A t \in Threads : handle[t] =>
        /\ gate = t
        /\ ~cache[vcp[t]]
        /\ \A u \in Threads : handle[u] => u = t

Waiters(p) ==
    {t \in Threads : pc[t] \in {"announced", "locked"} /\ Panel(t) = p}

\* A command that waits for a panel is counted until it has the lock, and
\* only until then: samplers neither overtake it nor yield to nobody.
AnnouncementsAreCounted == \A p \in Panels : waiting[p] = Cardinality(Waiters(p))

\* A sampler gets past both checks on a panel that a command waits for.
Overtakes(t, u) ==
    /\ kind[t] = "sampler" /\ pc[t] # "gate"
    /\ kind'[t] = "sampler" /\ pc'[t] = "gate"
    /\ pc[u] = "announced" /\ Panel(u) = Panel(t)

\* No sampler's transaction starts on a panel after a command announced
\* itself there: what the second check of sampler_try is for.
SamplerNeverOvertakes == [][\A t, u \in Threads : ~Overtakes(t, u)]_vars

\* The handles of a RealVcp nobody refers to any more are about to be closed
\* inside the gate: the last call of a retired controller leaves none behind.
RetiredIsDrained ==
    \A v \in Vcps :
        ~live[v] /\ References(v) = {} /\ cache[v] => \E t \in Threads : TearsDown(t, v)

CommandWaits(p) == \E t \in Threads : pc[t] = "announced" /\ Panel(t) = p
CommandHolds(p) == holder[p] # None /\ kind[holder[p]] = "command"

\* However often the samplers try, a panel some command waits for is locked by
\* a command: two generations' calls, scans and teardowns do not block it.
CommandIsServed == \A p \in Panels : CommandWaits(p) ~> CommandHolds(p)
=============================================================================
