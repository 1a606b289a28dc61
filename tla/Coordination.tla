---------------------------- MODULE Coordination ----------------------------
(***************************************************************************)
(* The ownership of one shared display on one of its hosts: the record of  *)
(* the CoordinationHandle (src/crates/dormant-core/src/coordination.rs),   *)
(* the poller that reads the panel's input and debounces it (dormantd/src/ *)
(* coordination_poll.rs), the pulls that write the input themselves        *)
(* (dormantd/src/direct_switch.rs), and what the rules engine is told      *)
(* (rules.rs, feed_ownership).                                             *)
(*                                                                         *)
(* The panel itself is free: the peer, a push from here, or its buttons    *)
(* switch it at any time, and its connector may be moved to another one.   *)
(* Times are ages, which stop growing once they are past their bound.      *)
(***************************************************************************)
EXTENDS Integers, Sequences, FiniteSets, SequencesExt

CONSTANTS
    LocalRead,      \* shared_input_code
    LocalWrite,     \* shared_input_write_code: an alias on some panels
    PeerRead,       \* shared_peer_input_code
    Mismatch,       \* not a reading: the connector leads to another panel
    NoCode,
    Confirmations,  \* coordination.loss_confirmations
    FlapThreshold,  \* coordination.flap_threshold
    FlapWindow,     \* coordination.flap_window
    FlapSettle,     \* coordination.flap_settle
    Pulls,          \* the pulls that can be under way at the same time
    QueueCap        \* bound: messages waiting when a pull begins

LocalCodes == {LocalRead, LocalWrite}
Codes == LocalCodes \cup {PeerRead}

Places == {"local", "peer", "replaced"}

ASSUME CoordinationAssumption ==
    /\ Confirmations \in Nat \ {0} /\ FlapThreshold \in Nat \ {0, 1}
    /\ FlapWindow \in Nat \ {0} /\ FlapSettle \in Nat \ {0}
    /\ QueueCap \in Nat \ {0}
    /\ PeerRead \notin LocalCodes
    /\ {Mismatch, NoCode} \cap Codes = {} /\ Mismatch # NoCode

VARIABLES
    input,     \* what the panel shows
    coord,     \* its CoordRecord
    poller,    \* where poll_once is, and what it has read
    deferred,  \* whether the display is in pending_observed_gain
    pull,      \* where each pull is
    queue,     \* the control channel, as far as it is about the display
    rules,     \* the rules engine: last_owned and claim_suppression
    streak,    \* history: the readings of one side recorded in a row
    owed       \* history: the peer had the panel and no hook has answered it

coordVars == <<input, coord, poller, deferred, pull, queue, rules,
               streak, owed>>

---------------------------------------------------------------------------
(* The record.                                                             *)

NoTransition == [code |-> NoCode, count |-> 0]

\* CoordRecord::seeded
Seeded == [owned |-> TRUE, code |-> NoCode, pending |-> NoTransition,
           seen |-> FALSE, returns |-> 0,
           contested |-> FALSE, change |-> 0, flips |-> <<>>]

\* record_disagreement: a reading that differs from the last one
AgreedOn(r, obs) ==
    IF obs # Mismatch /\ r.code \notin {NoCode, obs}
    THEN [r EXCEPT !.pending = NoTransition] ELSE r

IsReturn(r, obs) ==
    /\ ~r.contested /\ r.owned /\ obs \in LocalCodes /\ r.seen
    /\ r.returns + 1 >= Confirmations

\* Mutated: a candidate transition outlives a reading against it.
KeptWithCandidate(r, obs) ==
    LET counting == r.seen /\ ~IsReturn(r, obs) IN
    [r EXCEPT !.seen = counting,
              !.returns = IF counting THEN r.returns + 1 ELSE 0]

\* An observation that agrees with the verdict, with record_local_return.
Kept(r, obs) ==
    LET counting == r.seen /\ ~IsReturn(r, obs) IN
    [r EXCEPT !.pending = NoTransition,
              !.seen = counting,
              !.returns = IF counting THEN r.returns + 1 ELSE 0]

\* Mutated: only a loss that is committed remembers the peer.
DoubtedUnseen(r, obs) ==
    LET count == 1 + IF r.pending.code = obs THEN r.pending.count ELSE 0
    IN IF count >= Confirmations
       THEN [r EXCEPT !.owned = ~r.owned, !.pending = NoTransition]
       ELSE [r EXCEPT !.pending = [code |-> obs, count |-> count]]

\* An observation against the verdict.
Doubted(r, obs) ==
    LET count == 1 + IF r.pending.code = obs THEN r.pending.count ELSE 0
        seen == r.owned /\ (r.seen \/ obs = PeerRead)
    IN IF count >= Confirmations
       THEN [r EXCEPT !.owned = ~r.owned, !.pending = NoTransition,
                      !.seen = FALSE, !.returns = 0]
       ELSE [r EXCEPT !.pending = [code |-> obs, count |-> count],
                      !.seen = seen, !.returns = IF seen THEN 0 ELSE @]

\* record_flap_transition: the oldest are at the front, and the old ones go.
Flapped(r) ==
    LET flips  == Append(r.flips, 0)
        old    == {i \in DOMAIN flips : flips[i] > FlapWindow}
        recent == SubSeq(flips, Cardinality(old) + 1, Len(flips))
    IN IF Len(recent) >= FlapThreshold
       THEN [Seeded EXCEPT !.owned = FALSE, !.code = r.code,
                           !.contested = TRUE, !.flips = recent]
       ELSE [r EXCEPT !.flips = recent]

\* record_contested_observation
Contested(r, obs) ==
    LET change == IF r.code = obs THEN r.change ELSE 0 IN
    IF change >= FlapSettle
    THEN [r EXCEPT !.contested = FALSE, !.flips = <<>>, !.change = 0]
    ELSE [r EXCEPT !.change = change]

\* record_observation_at
Observed(r, obs) ==
    LET agreed == AgreedOn(r, obs)
        judged == IF r.owned = (obs \in LocalCodes) THEN Kept(agreed, obs)
                                                    ELSE Doubted(agreed, obs)
        counted == IF judged.owned # r.owned THEN Flapped(judged) ELSE judged
    IN CASE obs = Mismatch -> IF r.contested THEN r ELSE judged
         [] obs # Mismatch /\ r.contested -> [Contested(r, obs) EXCEPT !.code = obs]
         [] OTHER -> [counted EXCEPT !.code = obs]

\* mark_owned_immediate, called with the code that was written
Marked(r) == [Seeded EXCEPT !.code = LocalWrite]

---------------------------------------------------------------------------
(* The poller: poll_once for the display.                                  *)

\* query_presence_confirmed: whether the gain hook may run.  A query that
\* fails lets it run, and so does a display without a rule.
Answers == {"present", "absent"}

\* drain_pending_observed_gain, at the start of a poll.
Drain(answer) ==
    LET fires == deferred /\ coord.owned /\ answer = "present" IN
    /\ deferred' = (deferred /\ coord.owned /\ answer = "absent")
    /\ owed' = (owed /\ ~fires)

Shown == CASE input = "local" -> LocalRead
           [] input = "peer" -> PeerRead
           [] input = "replaced" -> Mismatch

\* The reading of a poll; the record may change before it is recorded.  One
\* that names the wrong input is as if the panel had been there.
PollReads ==
    /\ poller.at = "idle"
    /\ \E answer \in Answers : Drain(answer)
    /\ poller' = [at |-> "read", obs |-> Shown]
    /\ UNCHANGED <<input, coord, pull, queue, rules, streak>>

\* A reading that fails or names neither input: record_failure holds the
\* verdict.
PollFails ==
    /\ poller.at = "idle" /\ input # "replaced"
    /\ \E answer \in Answers : Drain(answer)
    /\ UNCHANGED <<input, coord, poller, pull, queue, rules, streak>>

PollerGoes(at) == poller' = [at |-> at, obs |-> NoCode]

Streak(obs) ==
    LET mine == obs \in LocalCodes IN
    IF coord.contested THEN [local |-> FALSE, n |-> 0]
    ELSE [local |-> mine,
          n |-> IF streak.local # mine THEN 1
                ELSE IF streak.n < Confirmations THEN streak.n + 1 ELSE streak.n]

PollRecords ==
    LET obs == poller.obs
        next == Observed(coord, obs)
    IN /\ poller.at = "read"
       /\ coord' = next
       /\ PollerGoes(IF next.owned # coord.owned
               THEN IF next.owned THEN "gained" ELSE "lost"
               ELSE IF IsReturn(coord, obs) THEN "gate" ELSE "idle")
       /\ streak' = Streak(obs)
       /\ owed' = (owed \/ (coord.owned /\ (obs = PeerRead \/ ~next.owned)))
       /\ UNCHANGED <<input, deferred, pull, queue, rules>>

\* OwnershipPoll: one that follows another at once adds nothing to it, since
\* every input of the engine feeds the verdict it finds.
Tell(m) ==
    queue' = IF queue # <<>> /\ Last(queue) = m THEN queue ELSE Append(queue, m)

PollTellsLoss ==
    /\ poller.at = "lost"
    /\ Tell("poll")
    /\ deferred' = FALSE
    /\ PollerGoes("idle")
    /\ UNCHANGED <<input, coord, pull, rules, streak, owed>>

PollTellsGain ==
    /\ poller.at = "gained"
    /\ Tell("poll")
    /\ PollerGoes("gate")
    /\ UNCHANGED <<input, coord, deferred, pull, rules, streak, owed>>

\* fire_observed_gain_with_presence_gate
PollGates ==
    /\ poller.at = "gate"
    /\ \E answer \in Answers :
         /\ deferred' = (deferred \/ answer = "absent")
         /\ owed' = (owed /\ answer = "absent")
    /\ PollerGoes("idle")
    /\ UNCHANGED <<input, coord, pull, queue, rules, streak>>

---------------------------------------------------------------------------
(* A pull, past the gates that make it do nothing (already local, cooling  *)
(* down).  Its messages are sent with try_send: none is lost, since the     *)
(* channel is taken to be never full.                                      *)

PullGoes(p, from, to) ==
    /\ pull[p] = from
    /\ pull' = [pull EXCEPT ![p] = to]

\* SuppressionGuard::set, then the before_acquire hooks
PullBegins(p) ==
    /\ Len(queue) < QueueCap
    /\ PullGoes(p, "idle", "hooks")
    /\ Tell("suppress")
    /\ UNCHANGED <<input, coord, poller, deferred, rules, streak, owed>>

\* A hook aborts, the write fails, or its readback is not the local input.
PullFails(p) ==
    /\ \/ PullGoes(p, "hooks", "idle")
       \/ PullGoes(p, "written", "idle")
    /\ Tell("clear")
    /\ UNCHANGED <<input, coord, poller, deferred, rules, streak, owed>>

PullWrites(p) ==
    /\ PullGoes(p, "hooks", "written")
    /\ input' = IF input = "replaced" THEN input ELSE "local"
    /\ UNCHANGED <<coord, poller, deferred, queue, rules, streak, owed>>

\* The suppression is cleared before the after_acquire hooks run.
PullVerifies(p) ==
    /\ PullGoes(p, "written", "verified")
    /\ input = "local"
    /\ Tell("clear")
    /\ UNCHANGED <<input, coord, poller, deferred, rules, streak, owed>>

\* Mutated: the engine is left to its next input.
PullMarksQuietly(p) ==
    /\ PullGoes(p, "verified", "idle")
    /\ coord' = Marked(coord)
    /\ streak' = [local |-> FALSE, n |-> 0]
    /\ owed' = FALSE
    /\ UNCHANGED <<input, poller, deferred, queue, rules>>

\* After the hooks: mark_owned_immediate, then OwnershipPoll.
PullMarks(p) ==
    /\ PullGoes(p, "verified", "idle")
    /\ coord' = Marked(coord)
    /\ Tell("poll")
    /\ streak' = [local |-> FALSE, n |-> 0]
    /\ owed' = FALSE
    /\ UNCHANGED <<input, poller, deferred, rules>>

---------------------------------------------------------------------------
(* The rules engine.                                                       *)

\* feed_ownership: a loss is not fed while a claim is suppressed
Fed(r) ==
    LET told == coord.owned \/ (r.told /\ r.suppressed) IN
    [r EXCEPT !.told = told, !.hides = (told # coord.owned)]

HandleMessage ==
    /\ queue # <<>>
    /\ CASE Head(queue) = "suppress" ->
              \* its deadline may have passed
              \E late \in BOOLEAN :
                rules' = [rules EXCEPT !.suppressed = IF late THEN @ ELSE TRUE]
         [] Head(queue) = "clear" -> rules' = [rules EXCEPT !.suppressed = FALSE]
         [] Head(queue) = "poll" -> rules' = Fed(rules)
    /\ queue' = Tail(queue)
    /\ UNCHANGED <<input, coord, poller, deferred, pull, streak, owed>>

\* Presence, a timer, a result, an operator: each feeds the ownership first.
OtherInput ==
    /\ rules' = Fed(rules)
    /\ UNCHANGED <<input, coord, poller, deferred, pull, queue, streak,
                   owed>>

SuppressionLapses ==
    /\ rules.suppressed
    /\ rules' = [rules EXCEPT !.suppressed = FALSE]
    /\ UNCHANGED <<input, coord, poller, deferred, pull, queue, streak,
                   owed>>

---------------------------------------------------------------------------
(* The surroundings.                                                       *)

PanelMoves ==
    /\ input' \in Places \ {input}
    /\ UNCHANGED <<coord, poller, deferred, pull, queue, rules, streak,
                   owed>>

Aged(age, cap) == IF age < cap THEN age + 1 ELSE age

TimePasses ==
    /\ coord' = [coord EXCEPT
         !.flips = [i \in DOMAIN coord.flips |-> Aged(coord.flips[i], FlapWindow + 1)],
         !.change = IF coord.contested THEN Aged(@, FlapSettle) ELSE @]
    /\ UNCHANGED <<input, poller, deferred, pull, queue, rules, streak,
                   owed>>

CoordInit ==
    /\ input \in Places
    /\ coord = Seeded
    /\ poller = [at |-> "idle", obs |-> NoCode]
    /\ deferred = FALSE
    /\ pull = [p \in Pulls |-> "idle"]
    /\ queue = <<>>
    /\ rules = [told |-> TRUE, suppressed |-> FALSE, hides |-> FALSE]
    /\ streak = [local |-> FALSE, n |-> 0]
    /\ owed = FALSE

PullSteps(p) == PullFails(p) \/ PullWrites(p) \/ PullVerifies(p) \/ PullMarks(p)

PollAnswers == PollRecords \/ PollTellsLoss \/ PollTellsGain \/ PollGates

CoordNext ==
    \/ PollReads \/ PollFails \/ PollAnswers
    \/ \E p \in Pulls : PullBegins(p) \/ PullSteps(p)
    \/ HandleMessage \/ OtherInput \/ SuppressionLapses
    \/ PanelMoves \/ TimePasses

\* A poll ends, since hooks and queries have timeouts; the bus lets a true
\* reading through again and again; a pull ends, for the same reason.
CoordFairness ==
    /\ WF_coordVars(PollReads)
    /\ WF_coordVars(PollAnswers)
    /\ \A p \in Pulls : WF_coordVars(PullSteps(p))
    /\ WF_coordVars(HandleMessage)
    /\ WF_coordVars(TimePasses)

CoordSpec == CoordInit /\ [][CoordNext]_coordVars /\ CoordFairness

---------------------------------------------------------------------------
(* Properties.                                                             *)

CoordTypeOK ==
    /\ input \in Places
    /\ coord.owned \in BOOLEAN /\ coord.code \in Codes \cup {NoCode}
    /\ coord.pending = NoTransition \/
         /\ coord.pending.code \in Codes \cup {Mismatch}
         /\ coord.pending.count \in 1 .. Confirmations - 1
    /\ coord.returns \in 0 .. Confirmations - 1
    \* a panel that is contested, or seen with the peer, is not held as ours
    /\ coord.contested => ~coord.owned
    /\ coord.seen => coord.owned
    /\ Len(coord.flips) <= FlapThreshold
    /\ coord.change \in 0 .. FlapSettle
    /\ poller.at \in {"idle", "read", "lost", "gained", "gate"}
    /\ pull \in [Pulls -> {"idle", "hooks", "written", "verified"}]
    /\ rules \in [told : BOOLEAN, suppressed : BOOLEAN, hides : BOOLEAN]

\* The verdict changes only by a verified pull, or by Confirmations readings
\* of the other side recorded in a row since it last changed sides, was
\* marked, or was contested: a single wrong reading, one from before a pull,
\* or one from the contested time is never enough (record_observation_at).
VerdictIsEarned == [][
    coord'.owned # coord.owned =>
      \/ coord'.owned /\ \E p \in Pulls : pull[p] = "verified" /\ pull'[p] = "idle"
      \/ streak'.local = coord'.owned /\ streak'.n >= Confirmations
    ]_coordVars

\* When the panel stays where it is, the verdict becomes what it shows and
\* the rules engine is told, whatever flapped, was contested, pulled or lost
\* on the way; a loss may stay untold if a claim hid it when it was fed.
VerdictSettles ==
    \A place \in Places :
      <>[](input = place) =>
        <>[](/\ coord.owned = (place = "local")
             /\ rules.told # coord.owned => rules.hides)

\* When the panel is back for good, the observed gain hook has run, or is
\* deferred to the return of presence, for whatever the peer had of it, be it
\* a loss or a visit too short to be one (coordination_poll.rs).
ReturnIsAnswered ==
    <>[](input = "local") => <>[](owed => deferred)
=============================================================================
