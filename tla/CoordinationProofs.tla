--------------------------- MODULE CoordinationProofs ---------------------------
(***************************************************************************)
(* Theorems about the ownership of a shared display, for any codes of the  *)
(* panel, any number of confirmations, any flap limit and any number of    *)
(* pulls.                                                                  *)
(*                                                                         *)
(* That a verdict is earned (VerdictIsEarned) needs an invariant about the *)
(* candidate transition: what it has counted are the last readings in a    *)
(* row, and of the side that the verdict denies.  Earning says that;       *)
(* Standing is what the record says of itself.                             *)
(***************************************************************************)
EXTENDS Coordination, FiniteSetTheorems, SequenceTheorems, TLAPS

Readings == Codes \cup {Mismatch}

Candidate == {NoTransition}
               \cup [code : Readings, count : 1 .. Confirmations - 1]

Ages == 0 .. FlapWindow + 1

\* The CoordRecord of the model.
Record ==
  [owned : BOOLEAN, code : Codes \cup {NoCode}, pending : Candidate,
   seen : BOOLEAN, returns : 0 .. Confirmations - 1, contested : BOOLEAN,
   change : 0 .. FlapSettle, flips : Seq(Ages)]

Standing(r) ==
  /\ r.contested => ~r.owned /\ r.pending = NoTransition
  /\ r.seen => r.owned
  /\ ~r.contested => Len(r.flips) < FlapThreshold
  /\ Len(r.flips) <= FlapThreshold

\* The candidate is the end of the streak, against the verdict.
Earning ==
  coord.pending.count > 0 =>
    /\ streak.local = ~coord.owned
    /\ streak.n >= coord.pending.count

Surroundings ==
  /\ queue \in Seq({"suppress", "clear", "poll"})
  /\ input \in Places
  /\ poller \in [at : {"idle", "read", "lost", "gained", "gate"},
                 obs : Readings \cup {NoCode}]
  /\ poller.at = "read" => poller.obs \in Readings
  /\ pull \in [Pulls -> {"idle", "hooks", "written", "verified"}]
  /\ rules \in [told : BOOLEAN, suppressed : BOOLEAN, hides : BOOLEAN]
  /\ streak \in [local : BOOLEAN, n : 0 .. Confirmations]

IInv == /\ Surroundings
        /\ coord \in Record
        /\ Standing(coord)
        /\ Earning

---------------------------------------------------------------------------
(* The record.                                                             *)

\* What may be read of a record.
LEMMA Fields ==
  ASSUME NEW r \in Record
  PROVE  /\ r.owned \in BOOLEAN /\ r.seen \in BOOLEAN /\ r.contested \in BOOLEAN
         /\ r.code \in Codes \cup {NoCode} /\ r.pending \in Candidate
         /\ r.returns \in 0 .. Confirmations - 1
         /\ r.change \in 0 .. FlapSettle
         /\ r.flips \in Seq(Ages)
BY DEF Record

\* What may be read of a candidate: one that has counted nothing is none.
LEMMA Candidates ==
  ASSUME NEW c \in Candidate
  PROVE  /\ c.count \in 0 .. Confirmations - 1
         /\ c.count = 0 <=> c = NoTransition
BY CoordinationAssumption DEF Candidate, NoTransition

\* The record a host starts from, and returns to when it is marked.
LEMMA SeededIsStanding ==
  /\ Seeded \in Record /\ Marked(Seeded) \in Record
  /\ Standing(Seeded) /\ Standing(Marked(Seeded))
  /\ Marked(Seeded).pending = NoTransition /\ Marked(Seeded).owned
<1>1. /\ NoTransition \in Candidate /\ NoCode \in Codes \cup {NoCode}
      /\ LocalWrite \in Codes \cup {NoCode} /\ 0 \in 0 .. Confirmations - 1
      /\ 0 \in 0 .. FlapSettle /\ << >> \in Seq(Ages) /\ Len(<< >>) = 0
  BY CoordinationAssumption DEF Candidate, Codes, LocalCodes
<1>2. Seeded \in Record
  BY <1>1 DEF Record, Seeded
<1>3. Marked(Seeded) \in Record
  BY <1>1 DEF Record, Seeded, Marked
<1>4. Standing(Seeded) /\ Standing(Marked(Seeded))
  BY <1>1, CoordinationAssumption DEF Standing, Seeded, Marked
<1> QED BY <1>2, <1>3, <1>4 DEF Marked, Seeded

\* A reading that differs from the last one only forgets the candidate.
LEMMA AgreedOnKeeps ==
  ASSUME NEW r \in Record, Standing(r), NEW obs \in Readings
  PROVE  LET s == AgreedOn(r, obs) IN
           /\ s \in Record /\ Standing(s)
           /\ s.owned = r.owned /\ s.contested = r.contested
           /\ s.code = r.code /\ s.flips = r.flips
           /\ s.pending \in {r.pending, NoTransition}
<1>1. NoTransition \in Candidate
  BY DEF Candidate
<1>2. [r EXCEPT !.pending = NoTransition] \in Record
  BY <1>1 DEF Record
<1>3. Standing([r EXCEPT !.pending = NoTransition])
  BY DEF Standing, Record
<1> QED BY <1>2, <1>3 DEF AgreedOn, Record

\* An agreeing reading leaves the verdict and no candidate.
LEMMA KeptKeeps ==
  ASSUME NEW r \in Record, Standing(r), NEW obs \in Readings,
         r.owned <=> obs \in LocalCodes
  PROVE  LET s == Kept(r, obs) IN
           /\ s \in Record /\ Standing(s)
           /\ s.owned = r.owned /\ s.contested = r.contested
           /\ s.code = r.code /\ s.flips = r.flips
           /\ s.pending = NoTransition
<1> DEFINE counting == r.seen /\ ~IsReturn(r, obs)
           n == IF counting THEN r.returns + 1 ELSE 0
<1>1. n \in 0 .. Confirmations - 1 /\ counting \in BOOLEAN
  <2>1. CASE counting
    <3>1. ~r.contested /\ r.owned /\ obs \in LocalCodes
      BY <2>1 DEF Standing
    <3>2. r.returns + 1 < Confirmations
      BY <2>1, <3>1, Fields, CoordinationAssumption DEF IsReturn
    <3> QED BY <2>1, <3>2, Fields, CoordinationAssumption
  <2> QED BY <2>1, CoordinationAssumption
<1>2. NoTransition \in Candidate
  BY DEF Candidate
<1>3. counting => r.owned
  BY DEF Standing
<1>4. Kept(r, obs) = [r EXCEPT !.pending = NoTransition, !.seen = counting,
                               !.returns = n]
  BY DEF Kept
<1> HIDE DEF counting, n
<1>5. Kept(r, obs) \in Record
  BY <1>1, <1>2, <1>4 DEF Record
<1> QED BY <1>3, <1>4, <1>5 DEF Standing, Record

\* How far the candidate gets with a reading.
Counted(r, obs) == 1 + IF r.pending.code = obs THEN r.pending.count ELSE 0

\* A disagreeing reading counts; the one that makes the count full turns the
\* verdict over and leaves no candidate.
LEMMA DoubtedKeeps ==
  ASSUME NEW r \in Record, Standing(r), ~r.contested, NEW obs \in Readings,
         r.owned <=> obs \notin LocalCodes
  PROVE  LET s == Doubted(r, obs) IN
           /\ s \in Record /\ Standing(s)
           /\ ~s.contested /\ s.flips = r.flips
           /\ IF Counted(r, obs) >= Confirmations
              THEN s.owned = ~r.owned /\ s.pending = NoTransition
              ELSE s.owned = r.owned /\ s.pending.count = Counted(r, obs)
<1> DEFINE count == Counted(r, obs)
           seen == r.owned /\ (r.seen \/ obs = PeerRead)
<1>1. count \in Nat \ {0} /\ seen \in BOOLEAN
  BY Fields, Candidates, CoordinationAssumption DEF Counted
<1>2. CASE count >= Confirmations
  <2>1. Doubted(r, obs) = [r EXCEPT !.owned = ~r.owned, !.pending = NoTransition,
                                    !.seen = FALSE, !.returns = 0]
    BY <1>2 DEF Doubted, Counted
  <2>2. NoTransition \in Candidate /\ 0 \in 0 .. Confirmations - 1
        /\ (~r.owned) \in BOOLEAN
    BY Fields, CoordinationAssumption DEF Candidate
  <2>3. Doubted(r, obs) \in Record
    BY <2>1, <2>2 DEF Record
  <2> QED BY <1>2, <2>1, <2>3 DEF Standing, Record
<1>3. CASE ~(count >= Confirmations)
  <2> DEFINE c == [code |-> obs, count |-> count]
             n == IF seen THEN 0 ELSE r.returns
  <2>1. c \in Candidate
    BY <1>1, <1>3, CoordinationAssumption DEF Candidate
  <2>2. n \in 0 .. Confirmations - 1
    BY Fields, CoordinationAssumption
  <2>3. Doubted(r, obs) = [r EXCEPT !.pending = c, !.seen = seen, !.returns = n]
    BY <1>3, Zenon DEF Doubted, Counted, Record
  <2>4. c.count = count /\ (seen => r.owned)
    OBVIOUS
  <2> HIDE DEF c, n, seen
  <2>5. Doubted(r, obs) \in Record
    BY <1>1, <2>1, <2>2, <2>3 DEF Record
  <2> QED BY <1>3, <2>3, <2>4, <2>5 DEF Standing, Record
<1> QED BY <1>2, <1>3

\* What is left of the changes in the window, with one more.
LEMMA Recent ==
  ASSUME NEW r \in Record
  PROVE  LET flips  == Append(r.flips, 0)
             old    == {i \in DOMAIN flips : flips[i] > FlapWindow}
             recent == SubSeq(flips, Cardinality(old) + 1, Len(flips))
         IN recent \in Seq(Ages) /\ Len(recent) \in Nat
            /\ Len(recent) <= Len(r.flips) + 1
<1> DEFINE flips  == Append(r.flips, 0)
           old    == {i \in DOMAIN flips : flips[i] > FlapWindow}
           from   == Cardinality(old) + 1
           recent == SubSeq(flips, from, Len(flips))
<1>1. flips \in Seq(Ages) /\ Len(flips) = Len(r.flips) + 1 /\ Len(r.flips) \in Nat
  BY Fields, AppendProperties, CoordinationAssumption DEF Ages
<1> HIDE DEF flips
<1>2. from \in Nat /\ from >= 1
  <2>1. DOMAIN flips = 1 .. Len(flips) /\ Len(flips) \in Int
    BY <1>1
  <2>2. IsFiniteSet(1 .. Len(flips))
    BY <2>1, FS_Interval
  <2>3. Cardinality(old) \in Nat
    BY <2>1, <2>2, FS_Subset, FS_CardinalityType
  <2> QED BY <2>3
<1> HIDE DEF from
<1>3. \A i \in from .. Len(flips) : flips[i] \in Ages
  BY <1>1, <1>2
<1>4. recent \in Seq(Ages)
      /\ Len(recent) = IF from <= Len(flips) THEN Len(flips) - from + 1 ELSE 0
  BY <1>1, <1>2, <1>3, SubSeqProperties
<1>5. recent \in Seq(Ages) /\ Len(recent) \in Nat /\ Len(recent) <= Len(r.flips) + 1
  BY <1>1, <1>2, <1>4
<1> QED BY <1>5 DEF flips, from

\* A change is remembered; one too many makes the panel contested, and not
\* ours, whichever way it went.
LEMMA FlappedKeeps ==
  ASSUME NEW r \in Record, Standing(r), ~r.contested, r.pending = NoTransition
  PROVE  LET s == Flapped(r) IN
           /\ s \in Record /\ Standing(s)
           /\ s.owned \in {r.owned, FALSE} /\ s.pending = NoTransition
<1> DEFINE flips  == Append(r.flips, 0)
           old    == {i \in DOMAIN flips : flips[i] > FlapWindow}
           recent == SubSeq(flips, Cardinality(old) + 1, Len(flips))
<1>1. recent \in Seq(Ages) /\ Len(recent) \in Nat /\ Len(recent) <= Len(r.flips) + 1
  BY Recent
<1>2. Flapped(r) = IF Len(recent) >= FlapThreshold
                   THEN [Seeded EXCEPT !.owned = FALSE, !.code = r.code,
                                       !.contested = TRUE, !.flips = recent]
                   ELSE [r EXCEPT !.flips = recent]
  BY DEF Flapped
<1> HIDE DEF recent
<1>3. Len(r.flips) < FlapThreshold /\ Len(r.flips) \in Nat
  BY Fields DEF Standing
<1>4. CASE Len(recent) >= FlapThreshold
  <2> DEFINE s == [Seeded EXCEPT !.owned = FALSE, !.code = r.code,
                                 !.contested = TRUE, !.flips = recent]
  <2>1. /\ s.owned = FALSE /\ s.contested = TRUE /\ s.flips = recent
        /\ s.pending = NoTransition /\ s.seen = FALSE
    BY DEF Seeded
  <2>2. s \in Record
    BY <1>1, Fields, SeededIsStanding DEF Record
  <2>3. Standing(s)
    BY <1>1, <1>3, <2>1, CoordinationAssumption DEF Standing
  <2> QED BY <1>2, <1>4, <2>1, <2>2, <2>3
<1>5. CASE ~(Len(recent) >= FlapThreshold)
  <2>1. [r EXCEPT !.flips = recent] \in Record
    BY <1>1 DEF Record
  <2>2. Standing([r EXCEPT !.flips = recent])
    BY <1>1, <1>5, CoordinationAssumption DEF Standing, Record
  <2> QED BY <1>2, <1>5, <2>1, <2>2 DEF Record
<1> QED BY <1>4, <1>5

\* A contested panel has no candidate, and settling makes none.
LEMMA ContestedKeeps ==
  ASSUME NEW r \in Record, Standing(r), r.contested, NEW obs \in Readings
  PROVE  LET s == Contested(r, obs) IN
           /\ s \in Record /\ Standing(s)
           /\ s.owned = r.owned /\ s.pending = NoTransition
<1> DEFINE change == IF r.code = obs THEN r.change ELSE 0
<1>1. change \in 0 .. FlapSettle /\ 0 \in 0 .. FlapSettle
      /\ << >> \in Seq(Ages) /\ Len(<< >>) = 0
  BY Fields, CoordinationAssumption
<1>2. [r EXCEPT !.change = change] \in Record
  BY <1>1 DEF Record
<1>3. [r EXCEPT !.contested = FALSE, !.flips = <<>>, !.change = 0] \in Record
  BY <1>1 DEF Record
<1>4. Standing([r EXCEPT !.change = change])
  BY DEF Standing, Record
<1>5. Standing([r EXCEPT !.contested = FALSE, !.flips = <<>>, !.change = 0])
  BY <1>1, CoordinationAssumption DEF Standing, Record
<1> HIDE DEF change
<1>6. Contested(r, obs) \in {[r EXCEPT !.change = change],
                [r EXCEPT !.contested = FALSE, !.flips = <<>>, !.change = 0]}
  BY DEF Contested, change
<1> QED BY <1>2, <1>3, <1>4, <1>5, <1>6 DEF Standing, Record

\* One observation.  The verdict turns over only for a reading against it
\* that makes the count full, and a candidate that is left has counted it.
LEMMA ObservedKeeps ==
  ASSUME NEW r \in Record, Standing(r), NEW obs \in Readings
  PROVE  LET s == Observed(r, obs) IN
           /\ s \in Record /\ Standing(s)
           /\ s.owned # r.owned =>
                /\ ~r.contested /\ (s.owned <=> obs \in LocalCodes)
                /\ Counted(AgreedOn(r, obs), obs) >= Confirmations
           /\ s.pending.count > 0 =>
                /\ ~r.contested /\ s.owned = r.owned
                /\ r.owned <=> obs \notin LocalCodes
                /\ s.pending.count = Counted(AgreedOn(r, obs), obs)
<1> DEFINE agreed == AgreedOn(r, obs)
           judged == IF r.owned = (obs \in LocalCodes) THEN Kept(agreed, obs)
                                                       ELSE Doubted(agreed, obs)
           counted == IF judged.owned # r.owned THEN Flapped(judged) ELSE judged
           settled == Contested(r, obs)
           s == Observed(r, obs)
<1>0. /\ r.owned \in BOOLEAN /\ r.contested \in BOOLEAN
      /\ NoTransition.count = 0
  BY Fields DEF NoTransition
<1>1. /\ agreed \in Record /\ Standing(agreed)
      /\ agreed.owned = r.owned /\ agreed.contested = r.contested
  BY AgreedOnKeeps
<1>2. \A q \in Record, c \in Codes :
         /\ [q EXCEPT !.code = c] \in Record
         /\ Standing(q) => Standing([q EXCEPT !.code = c])
         /\ [q EXCEPT !.code = c].owned = q.owned
         /\ [q EXCEPT !.code = c].pending = q.pending
  BY DEF Record, Standing
<1>3. obs # Mismatch => obs \in Codes
  BY DEF Readings
<1>4. CASE r.contested /\ obs = Mismatch
  <2>1. s = r
    BY <1>4 DEF Observed
  <2>2. r.pending.count = 0
    BY <1>0, <1>4 DEF Standing
  <2> QED BY <2>1, <2>2
<1>5. CASE r.contested /\ obs # Mismatch
  <2>1. s = [settled EXCEPT !.code = obs]
    BY <1>5, Zenon DEF Observed
  <2>2. /\ settled \in Record /\ Standing(settled)
        /\ settled.owned = r.owned /\ settled.pending = NoTransition
    BY <1>5, ContestedKeeps
  <2> HIDE DEF settled, s
  <2>3. s \in Record /\ Standing(s) /\ s.owned = r.owned /\ s.pending.count = 0
    BY <1>0, <1>2, <1>3, <1>5, <2>1, <2>2
  <2> QED BY <2>3 DEF s
<1>6. CASE ~r.contested
  <2>1. s = IF obs = Mismatch THEN judged ELSE [counted EXCEPT !.code = obs]
    BY <1>6, Zenon DEF Observed
  <2> HIDE DEF s
  <2>2. CASE r.owned <=> obs \in LocalCodes
    <3>1. judged = Kept(agreed, obs)
      BY <1>0, <2>2
    <3>2. /\ judged \in Record /\ Standing(judged)
          /\ judged.owned = r.owned /\ judged.pending = NoTransition
      BY <1>1, <2>2, <3>1, KeptKeeps
    <3>3. counted = judged
      BY <3>2
    <3> HIDE DEF judged, counted
    <3>4. s \in Record /\ Standing(s) /\ s.owned = r.owned /\ s.pending.count = 0
      BY <1>0, <1>2, <1>3, <2>1, <3>2, <3>3
    <3> QED BY <3>4 DEF s
  <2>3. CASE ~(r.owned <=> obs \in LocalCodes)
    <3>1. judged = Doubted(agreed, obs)
      BY <1>0, <2>3
    <3>2. /\ judged \in Record /\ Standing(judged) /\ ~judged.contested
          /\ IF Counted(agreed, obs) >= Confirmations
             THEN judged.owned = ~r.owned /\ judged.pending = NoTransition
             ELSE judged.owned = r.owned
                  /\ judged.pending.count = Counted(agreed, obs)
      BY <1>0, <1>1, <1>6, <2>3, <3>1, DoubtedKeeps
    <3>3. CASE Counted(agreed, obs) >= Confirmations
      <4>1. /\ Flapped(judged) \in Record /\ Standing(Flapped(judged))
            /\ Flapped(judged).owned \in {judged.owned, FALSE}
            /\ Flapped(judged).pending = NoTransition
        BY <3>2, <3>3, FlappedKeeps
      <4>2. counted = Flapped(judged)
        BY <1>0, <3>2, <3>3
      <4> HIDE DEF agreed, judged, counted
      <4>3. /\ s \in Record /\ Standing(s) /\ s.pending.count = 0
            /\ s.owned \in {judged.owned, FALSE}
        <5>1. CASE obs = Mismatch
          BY <1>0, <2>1, <3>2, <3>3, <5>1
        <5>2. CASE obs # Mismatch
          BY <1>0, <1>2, <1>3, <2>1, <4>1, <4>2, <5>2
        <5> QED BY <5>1, <5>2
      <4>4. s.owned # r.owned => (s.owned <=> obs \in LocalCodes)
        BY <1>0, <2>3, <3>2, <3>3, <4>3
      <4> QED BY <1>6, <3>3, <4>3, <4>4 DEF s, agreed
    <3>4. CASE ~(Counted(agreed, obs) >= Confirmations)
      <4>1. counted = judged
        BY <3>2, <3>4
      <4> HIDE DEF agreed, judged, counted
      <4>2. /\ s \in Record /\ Standing(s) /\ s.owned = r.owned
            /\ s.pending.count = Counted(agreed, obs)
        BY <1>2, <1>3, <2>1, <3>2, <3>4, <4>1
      <4> QED BY <1>0, <1>6, <2>3, <4>2 DEF s, agreed
    <3> QED BY <3>3, <3>4
  <2> QED BY <2>2, <2>3
<1> QED BY <1>0, <1>4, <1>5, <1>6

---------------------------------------------------------------------------
(* The steps.                                                              *)

LEMMA InitIInv ==
  CoordInit => IInv
<1> SUFFICES ASSUME CoordInit PROVE IInv
  OBVIOUS
<1>1. Surroundings
  <2>1. /\ poller = [at |-> "idle", obs |-> NoCode]
        /\ rules = [told |-> TRUE, suppressed |-> FALSE, hides |-> FALSE]
        /\ pull = [p \in Pulls |-> "idle"] /\ input \in Places /\ queue = <<>>
    BY DEF CoordInit
  <2>2. streak \in [local : BOOLEAN, n : 0 .. Confirmations]
    BY CoordinationAssumption DEF CoordInit
  <2> QED BY <2>1, <2>2 DEF Surroundings
<1>2. coord = Seeded /\ coord.pending.count = 0
  BY DEF CoordInit, Seeded, NoTransition
<1> QED BY <1>1, <1>2, SeededIsStanding DEF IInv, Earning

Messages == {"suppress", "clear", "poll"}

\* A message more, or the same as the last one.
LEMMA TellKeeps ==
  ASSUME queue \in Seq(Messages), NEW m \in Messages, Tell(m)
  PROVE  queue' \in Seq(Messages)
BY AppendProperties DEF Tell

Streaks == [local : BOOLEAN, n : 0 .. Confirmations]

\* The readings of one side in a row, with one more.
LEMMA StreakGoesOn ==
  ASSUME streak \in Streaks, NEW obs \in Readings
  PROVE  /\ Streak(obs) \in Streaks
         /\ ~coord.contested =>
              /\ Streak(obs).local = (obs \in LocalCodes)
              /\ Streak(obs).n = IF streak.local # (obs \in LocalCodes) THEN 1
                                 ELSE IF streak.n < Confirmations THEN streak.n + 1
                                                                  ELSE streak.n
<1> DEFINE mine == obs \in LocalCodes
           n == IF streak.local # mine THEN 1
                ELSE IF streak.n < Confirmations THEN streak.n + 1 ELSE streak.n
<1>1. n \in 0 .. Confirmations /\ mine \in BOOLEAN /\ 0 \in 0 .. Confirmations
  BY CoordinationAssumption DEF Streaks
<1>2. Streak(obs) = IF coord.contested THEN [local |-> FALSE, n |-> 0]
                    ELSE [local |-> mine, n |-> n]
  BY Zenon DEF Streak
<1> HIDE DEF mine, n
<1>3. [local |-> FALSE, n |-> 0] \in Streaks /\ [local |-> mine, n |-> n] \in Streaks
  BY <1>1 DEF Streaks
<1>4. ~coord.contested => Streak(obs).local = mine /\ Streak(obs).n = n
  BY <1>2
<1> QED BY <1>2, <1>3, <1>4 DEF mine, n

\* A reading that is recorded.
LEMMA RecordsInv ==
  ASSUME IInv, PollRecords
  PROVE  IInv' /\ (coord'.owned # coord.owned =>
                     streak'.local = coord'.owned /\ streak'.n >= Confirmations)
<1> DEFINE obs == poller.obs
           next == Observed(coord, obs)
           full == Counted(AgreedOn(coord, obs), obs)
<1>1. /\ obs \in Readings /\ coord' = next /\ streak' = Streak(obs)
      /\ UNCHANGED <<input, pull, queue, rules>>
  BY Zenon DEF PollRecords, IInv, Surroundings
<1>2. coord \in Record /\ Standing(coord) /\ Earning
      /\ streak \in Streaks
      /\ streak.local \in BOOLEAN /\ streak.n \in 0 .. Confirmations
      /\ coord.owned \in BOOLEAN /\ coord.contested \in BOOLEAN
  BY Fields DEF IInv, Surroundings, Streaks
<1>3. /\ next \in Record /\ Standing(next)
      /\ next.owned # coord.owned =>
           /\ ~coord.contested /\ (next.owned <=> obs \in LocalCodes)
           /\ full >= Confirmations
      /\ next.pending.count > 0 =>
           /\ ~coord.contested /\ next.owned = coord.owned
           /\ coord.owned <=> obs \notin LocalCodes
           /\ next.pending.count = full
  BY <1>1, <1>2, ObservedKeeps
<1>4. next.owned \in BOOLEAN /\ next.pending.count \in 0 .. Confirmations - 1
  BY <1>3, Fields, Candidates
<1>5. streak' \in Streaks
  BY <1>1, <1>2, StreakGoesOn
\* What the reading makes of the count it makes of the streak as well.
<1>6. ~coord.contested /\ (coord.owned <=> obs \notin LocalCodes) =>
        /\ streak'.local <=> obs \in LocalCodes
        /\ streak'.n >= full \/ streak'.n >= Confirmations
  <2> SUFFICES ASSUME ~coord.contested, coord.owned <=> obs \notin LocalCodes
               PROVE  /\ streak'.local <=> obs \in LocalCodes
                      /\ streak'.n >= full \/ streak'.n >= Confirmations
    OBVIOUS
  <2> DEFINE c == AgreedOn(coord, obs).pending
  <2>1. c \in {coord.pending, NoTransition} /\ coord.pending \in Candidate
    BY <1>1, <1>2, AgreedOnKeeps, Fields
  <2>2. c.count = 0 \/ (c.count = coord.pending.count /\ c.count > 0
                          /\ streak.local = ~coord.owned /\ streak.n >= c.count)
    BY <1>2, <2>1, Candidates DEF Earning, NoTransition
  <2>3. full = 1 \/ full = 1 + c.count
    BY <2>2 DEF Counted
  <2>4. c.count \in 0 .. Confirmations - 1
    BY <2>1, Candidates DEF Candidate
  <2> HIDE DEF c, full
  <2>5. /\ streak'.local = (obs \in LocalCodes)
        /\ streak'.n = IF streak.local # (obs \in LocalCodes) THEN 1
                       ELSE IF streak.n < Confirmations THEN streak.n + 1
                                                        ELSE streak.n
    BY <1>1, <1>2, StreakGoesOn
  <2> HIDE DEF obs
  <2>6. c.count > 0 => streak'.n = IF streak.n < Confirmations THEN streak.n + 1
                                                               ELSE streak.n
    BY <1>2, <2>2, <2>4, <2>5
  <2>7. streak'.n >= 1
    BY <1>2, <2>5, CoordinationAssumption
  <2>8. CASE c.count = 0
    BY <1>5, <2>3, <2>5, <2>7, <2>8 DEF Streaks
  <2>9. CASE c.count > 0
    BY <1>2, <2>2, <2>3, <2>4, <2>5, <2>6, <2>9, CoordinationAssumption
  <2> QED BY <2>4, <2>8, <2>9
<1>7. poller' \in [at : {"idle", "read", "lost", "gained", "gate"},
                   obs : Readings \cup {NoCode}]
      /\ poller'.at # "read"
  BY DEF PollRecords, PollerGoes
<1>8. Surroundings'
  BY <1>1, <1>5, <1>7 DEF IInv, Surroundings, Streaks
<1> HIDE DEF next, full
<1>9. next.pending.count > 0 =>
        streak'.local = ~next.owned /\ streak'.n >= next.pending.count
  <2> SUFFICES ASSUME next.pending.count > 0
               PROVE  streak'.local = ~next.owned /\ streak'.n >= next.pending.count
    OBVIOUS
  <2> HIDE DEF obs
  <2>1. /\ ~coord.contested /\ next.owned = coord.owned
        /\ coord.owned <=> obs \notin LocalCodes
        /\ next.pending.count = full
    BY <1>3
  <2>2. streak'.local \in BOOLEAN /\ streak'.n \in Int
    BY <1>5 DEF Streaks
  <2> QED BY <1>2, <1>4, <1>6, <2>1, <2>2, CoordinationAssumption
<1>10. full \in Nat
  BY <1>1, <1>2, AgreedOnKeeps, Fields, Candidates, CoordinationAssumption
     DEF full, Counted
<1>11. coord'.owned # coord.owned =>
         streak'.local = coord'.owned /\ streak'.n >= Confirmations
  <2> SUFFICES ASSUME next.owned # coord.owned
               PROVE  streak'.local = next.owned /\ streak'.n >= Confirmations
    BY <1>1
  <2> HIDE DEF obs
  <2>1. ~coord.contested /\ (coord.owned <=> obs \notin LocalCodes)
        /\ (next.owned <=> obs \in LocalCodes) /\ full >= Confirmations
    BY <1>2, <1>3, <1>4
  <2>2. streak'.local \in BOOLEAN /\ streak'.n \in Int
    BY <1>5 DEF Streaks
  <2> QED BY <1>4, <1>6, <1>10, <2>1, <2>2, CoordinationAssumption
<1> QED BY <1>1, <1>3, <1>8, <1>9, <1>10, <1>11 DEF IInv, Earning

\* Time only makes the record older.
LEMMA TimeInv ==
  ASSUME IInv, TimePasses
  PROVE  IInv' /\ coord'.owned = coord.owned
<1> DEFINE flips == [i \in DOMAIN coord.flips |-> Aged(coord.flips[i], FlapWindow + 1)]
           change == IF coord.contested THEN Aged(coord.change, FlapSettle)
                                        ELSE coord.change
<1>1. coord \in Record /\ Standing(coord)
  BY DEF IInv
<1>2. coord' = [coord EXCEPT !.flips = flips, !.change = change]
      /\ UNCHANGED <<input, poller, pull, queue, rules, streak>>
  BY <1>1, Zenon DEF TimePasses, Record
<1>3. flips \in Seq(Ages) /\ Len(flips) = Len(coord.flips)
  <2>1. coord.flips \in Seq(Ages) /\ Len(coord.flips) \in Nat
        /\ DOMAIN coord.flips = 1 .. Len(coord.flips)
    BY <1>1, Fields
  <2>2. \A i \in 1 .. Len(coord.flips) :
           Aged(coord.flips[i], FlapWindow + 1) \in Ages
    BY <2>1, CoordinationAssumption DEF Aged, Ages
  <2>3. flips \in [1 .. Len(coord.flips) -> Ages]
    BY <2>1, <2>2
  <2> QED BY <2>1, <2>3
<1>4. change \in 0 .. FlapSettle
  BY <1>1, Fields, CoordinationAssumption DEF Aged
<1> HIDE DEF flips, change
<1>5. coord' \in Record
  BY <1>1, <1>2, <1>3, <1>4 DEF Record
<1>6. Standing(coord') /\ coord'.owned = coord.owned
      /\ coord'.pending = coord.pending
  BY <1>1, <1>2, <1>3 DEF Standing, Record
<1> QED BY <1>2, <1>5, <1>6 DEF IInv, Surroundings, Earning

\* A pull that ends marks the display ours, whatever the record was.
LEMMA MarksInv ==
  ASSUME IInv, NEW p \in Pulls, PullMarks(p)
  PROVE  IInv' /\ pull[p] = "verified" /\ pull'[p] = "idle" /\ coord'.owned
<1>1. /\ pull[p] = "verified" /\ pull' = [pull EXCEPT ![p] = "idle"]
      /\ coord' = Marked(Seeded) /\ streak' = [local |-> FALSE, n |-> 0]
      /\ UNCHANGED <<input, poller, rules>>
  BY DEF PullMarks, PullGoes, Marked
<1>2. Surroundings'
  <2>1. queue' \in Seq(Messages)
    BY TellKeeps DEF IInv, Surroundings, PullMarks, Messages
  <2> QED BY <1>1, <2>1, CoordinationAssumption DEF IInv, Surroundings, Messages
<1>3. coord'.pending.count = 0
  BY <1>1, SeededIsStanding DEF NoTransition
<1> QED BY <1>1, <1>2, <1>3, SeededIsStanding DEF IInv, Earning, Surroundings

PullStages == {"idle", "hooks", "written", "verified"}
Told       == [told : BOOLEAN, suppressed : BOOLEAN, hides : BOOLEAN]

\* What the engine is told stays what it is.
LEMMA FedIsTold ==
  ASSUME NEW r \in Told, coord.owned \in BOOLEAN
  PROVE  /\ Fed(r) \in Told
         /\ \A b \in BOOLEAN : [r EXCEPT !.suppressed = b] \in Told
<1>1. \A t, h \in BOOLEAN : [r EXCEPT !.told = t, !.hides = h] \in Told
  BY DEF Told
<1>2. (coord.owned \/ (r.told /\ r.suppressed)) \in BOOLEAN
  OBVIOUS
<1>3. Fed(r) \in Told
  BY <1>1, <1>2 DEF Fed
<1> QED BY <1>3 DEF Told

\* A pull goes on.
LEMMA PullMoves ==
  ASSUME Surroundings, NEW p \in Pulls, NEW from, NEW to \in PullStages,
         PullGoes(p, from, to)
  PROVE  pull' \in [Pulls -> PullStages]
BY Zenon DEF Surroundings, PullGoes, PullStages

\* The other steps leave the record and its history alone.
LEMMA OtherInv ==
  ASSUME IInv, UNCHANGED <<coord, streak>>,
         \/ PollReads \/ PollFails \/ PollTellsLoss \/ PollTellsGain \/ PollGates
         \/ \E p \in Pulls : PullBegins(p) \/ PullFails(p) \/ PullWrites(p)
                                             \/ PullVerifies(p)
         \/ HandleMessage \/ OtherInput \/ SuppressionLapses
         \/ PanelMoves \/ UNCHANGED coordVars
  PROVE  IInv'
<1> DEFINE Polls == [at : {"idle", "read", "lost", "gained", "gate"},
                     obs : Readings \cup {NoCode}]
<1>1. SUFFICES /\ input' \in Places
               /\ poller' \in Polls /\ (poller'.at = "read" => poller'.obs \in Readings)
               /\ pull' \in [Pulls -> PullStages]
               /\ rules' \in Told /\ queue' \in Seq(Messages)
  BY DEF IInv, Surroundings, Earning, PullStages, Told, Messages
<1>2. /\ Surroundings
      /\ input \in Places /\ poller \in Polls
      /\ poller.at = "read" => poller.obs \in Readings
      /\ pull \in [Pulls -> PullStages] /\ rules \in Told
      /\ coord.owned \in BOOLEAN /\ queue \in Seq(Messages)
  BY Fields DEF IInv, Surroundings, PullStages, Told, Messages
<1>3. CASE PollReads
  <2>1. poller' = [at |-> "read", obs |-> Shown] /\ UNCHANGED <<input, pull, queue, rules>>
    BY <1>3, Zenon DEF PollReads
  <2>2. Shown \in Readings
    BY <1>2 DEF Shown, Places, Readings, Codes, LocalCodes
  <2> HIDE DEF Polls
  <2>3. poller' \in Polls /\ poller'.at = "read" /\ poller'.obs = Shown
    BY <2>1, <2>2 DEF Polls
  <2> QED BY <1>2, <2>1, <2>2, <2>3
<1>4. CASE PollFails
  BY <1>2, <1>4, Zenon DEF PollFails
<1>5. CASE PollTellsLoss \/ PollTellsGain \/ PollGates
  <2>1. /\ poller' \in {[at |-> at, obs |-> NoCode] : at \in {"idle", "gate"}}
        /\ UNCHANGED <<input, pull, rules>>
    BY <1>5 DEF PollTellsLoss, PollTellsGain, PollGates, PollerGoes
  <2>2. queue' = queue \/ Tell("poll")
    BY <1>5, Zenon DEF PollTellsLoss, PollTellsGain, PollGates
  <2>3. queue' \in Seq(Messages)
    BY <1>2, <2>2, TellKeeps DEF Messages
  <2> QED BY <1>2, <2>1, <2>3
<1>6. ASSUME NEW p \in Pulls,
             PullBegins(p) \/ PullFails(p) \/ PullWrites(p) \/ PullVerifies(p)
      PROVE  /\ input' \in Places /\ pull' \in [Pulls -> PullStages]
             /\ poller' = poller /\ rules' = rules /\ queue' \in Seq(Messages)
  <2>1. \E from, to \in PullStages : PullGoes(p, from, to)
    BY <1>6, Zenon DEF PullBegins, PullFails, PullWrites, PullVerifies, PullStages
  <2>2. pull' \in [Pulls -> PullStages]
    BY <1>2, <2>1, PullMoves
  <2>3. input' \in {input, "local"} /\ poller' = poller /\ rules' = rules
    BY <1>6 DEF PullBegins, PullFails, PullWrites, PullVerifies
  <2>4. queue' = queue \/ Tell("suppress") \/ Tell("clear")
    BY <1>6, Zenon DEF PullBegins, PullFails, PullWrites, PullVerifies
  <2>5. queue' \in Seq(Messages)
    BY <1>2, <2>4, TellKeeps DEF Messages
  <2> QED BY <1>2, <2>2, <2>3, <2>5 DEF Places
<1>7. CASE HandleMessage \/ OtherInput \/ SuppressionLapses
  <2>1. UNCHANGED <<input, poller, pull>>
    BY <1>7, Zenon DEF HandleMessage, OtherInput, SuppressionLapses
  <2>2. rules' \in {rules, Fed(rules)} \/
          \E b \in BOOLEAN : rules' = [rules EXCEPT !.suppressed = b]
    <3>1. CASE HandleMessage
      <4>1. queue # <<>> /\ Head(queue) \in Messages
        BY <1>2, <3>1 DEF HandleMessage
      <4>2. \/ \E late \in BOOLEAN :
                 rules' = [rules EXCEPT !.suppressed = IF late THEN rules.suppressed
                                                               ELSE TRUE]
            \/ rules' = [rules EXCEPT !.suppressed = FALSE]
            \/ rules' = Fed(rules)
        BY <1>2, <3>1, <4>1, Zenon DEF HandleMessage, Messages, Told
      <4> QED BY <1>2, <4>2 DEF Told
    <3> QED BY <1>7, <3>1 DEF OtherInput, SuppressionLapses
  <2>3. rules' \in Told
    BY <1>2, <2>2, FedIsTold
  <2>4. queue' \in Seq(Messages)
    <3>1. queue' = queue \/ (queue # <<>> /\ queue' = Tail(queue))
      BY <1>7, Zenon DEF HandleMessage, OtherInput, SuppressionLapses
    <3>2. queue # <<>> => Tail(queue) \in Seq(Messages)
      BY <1>2
    <3> QED BY <1>2, <3>1, <3>2
  <2> QED BY <1>2, <2>1, <2>3, <2>4
<1>8. CASE PanelMoves
  BY <1>2, <1>8, Zenon DEF PanelMoves
<1>9. CASE UNCHANGED coordVars
  BY <1>2, <1>9, Zenon DEF coordVars
<1> QED BY <1>2, <1>3, <1>4, <1>5, <1>6, <1>7, <1>8, <1>9

\* One step: the invariant is kept, and the verdict is earned.
LEMMA NextIInv ==
  ASSUME IInv, [CoordNext]_coordVars
  PROVE  /\ IInv'
         /\ coord'.owned # coord.owned =>
              \/ coord'.owned /\ \E p \in Pulls : pull[p] = "verified" /\ pull'[p] = "idle"
              \/ streak'.local = coord'.owned /\ streak'.n >= Confirmations
<1>1. CASE PollRecords
  BY <1>1, RecordsInv
<1>2. CASE TimePasses
  BY <1>2, TimeInv
<1>3. ASSUME NEW p \in Pulls, PullMarks(p)
      PROVE  IInv' /\ pull[p] = "verified" /\ pull'[p] = "idle" /\ coord'.owned
  BY <1>3, MarksInv
<1> DEFINE Others ==
      \/ PollReads \/ PollFails \/ PollTellsLoss \/ PollTellsGain \/ PollGates
      \/ \E p \in Pulls : PullBegins(p) \/ PullFails(p) \/ PullWrites(p)
                                          \/ PullVerifies(p)
      \/ HandleMessage \/ OtherInput \/ SuppressionLapses
      \/ PanelMoves \/ UNCHANGED coordVars
<1>4. CASE Others
  <2>1. UNCHANGED <<coord, streak>>
    BY <1>4, Zenon DEF PollReads, PollFails, PollTellsLoss, PollTellsGain, PollGates,
                PullBegins, PullFails, PullWrites, PullVerifies, HandleMessage,
                OtherInput, SuppressionLapses, PanelMoves, coordVars
  <2> QED BY <1>4, <2>1, OtherInv
<1>5. \/ PollRecords \/ TimePasses \/ (\E p \in Pulls : PullMarks(p)) \/ Others
  BY Zenon DEF CoordNext, PollAnswers, PullSteps
<1> QED BY <1>1, <1>2, <1>3, <1>4, <1>5

\* IInv is an invariant of the coordination, whatever the panel does and
\* whether or not anybody is served.
THEOREM Invariance == CoordSpec => []IInv
<1>1. IInv /\ [CoordNext]_coordVars => IInv'
  BY NextIInv
<1> QED BY InitIInv, <1>1, PTL DEF CoordSpec

\* The record stays a record: a panel that is contested, or seen with the
\* peer, is never held as ours, no count reaches its limit, and no more
\* changes are remembered than make a panel contested.
THEOREM TypeCorrect == CoordSpec => []CoordTypeOK
<1>1. IInv => CoordTypeOK
  <2> SUFFICES ASSUME IInv PROVE CoordTypeOK
    OBVIOUS
  <2>1. coord.pending = NoTransition \/
          /\ coord.pending.code \in Codes \cup {Mismatch}
          /\ coord.pending.count \in 1 .. Confirmations - 1
    BY Fields DEF IInv, Candidate, Readings
  <2>2. /\ coord.owned \in BOOLEAN /\ coord.code \in Codes \cup {NoCode}
        /\ coord.returns \in 0 .. Confirmations - 1 /\ coord.change \in 0 .. FlapSettle
    BY Fields DEF IInv
  <2> QED BY <2>1, <2>2 DEF IInv, CoordTypeOK, Surroundings, Standing
<1> QED BY <1>1, Invariance, PTL

\* The verdict changes only by a verified pull, or by Confirmations readings
\* of the other side in a row since it last changed, was marked or contested
\* (record_observation_at).
THEOREM Earned == CoordSpec => VerdictIsEarned
<1>1. IInv /\ [CoordNext]_coordVars =>
        [coord'.owned # coord.owned =>
           \/ coord'.owned /\ \E p \in Pulls : pull[p] = "verified" /\ pull'[p] = "idle"
           \/ streak'.local = coord'.owned /\ streak'.n >= Confirmations]_coordVars
  BY NextIInv
<1> QED BY <1>1, Invariance, PTL DEF CoordSpec, VerdictIsEarned
=============================================================================
