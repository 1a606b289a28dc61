----------------------------- MODULE RenderProofs -----------------------------
(***************************************************************************)
(* Theorems about the Wayland thread of a render sink, for any number of   *)
(* shows and blend timers, any length of a fade and any sizes.             *)
(*                                                                         *)
(* What the overlay promises (OverlayIsHonest) is not inductive: it says   *)
(* nothing of a session without a surface, of a pending show beside a live *)
(* surface, of what an unplugged output leaves, nor of whose show a        *)
(* session is and how far its fade.  Anchored adds that.  In the           *)
(* invariant RenderTypeOK is cut into what is typed of the shows, of the   *)
(* picture and of the session, and OneShowWaits is said show by show.      *)
(***************************************************************************)
EXTENDS RenderSurface, SequenceTheorems, TLAPS

Replies == {"waiting", "ok", "err"}

ShowsOK ==
  /\ asked \in Seq({"black", "saver"}) /\ Newest \in Nat /\ Newest <= MaxShows
  /\ reply \in [1 .. Newest -> Replies]
  /\ made \subseteq 1 .. Newest /\ configures \subseteq 1 .. Newest
  /\ pending \in made \cup {0} /\ live \in made \cup {0}

PictureOK ==
  /\ {size, black, drawn} \subseteq Sizes \cup {0}
  /\ content \in {"none", "black", "blank", "frame"}
  /\ {plugged, consumed, wanted, resized, stuck} \subseteq BOOLEAN
  /\ upsets \in 0 .. MaxUpsets

SessionOK ==
  /\ Plays => session \in Session
  /\ blends \in [ShowGens -> 0 .. MaxBlends]

Waits ==
  /\ pending # 0 => pending = Newest
  /\ Plays /\ ~session.shown => session.gen = Newest
  /\ \A g \in 1 .. Newest :
        reply[g] = "waiting" <=> \/ g = pending
                                 \/ Plays /\ ~session.shown /\ g = session.gen

Anchored ==
  /\ pending # 0 => live = 0
  /\ live = 0 => ~Plays
  /\ ~plugged => pending = 0 /\ live = 0
  /\ live # 0 => size \in Sizes
  /\ Plays => /\ session.gen \in 1 .. Newest /\ asked[session.gen] = "saver"
              /\ ~resized => session.dims = size
              /\ session.phase # "idle" => session.t < FadeTicks

Promises ==
  /\ NothingOutlivesTeardown /\ ConfirmedBlackIsBlack /\ NoFrozenFrame
  /\ FadeIsDriven /\ ShownFits /\ NextOverlayHears

IInv == ShowsOK /\ PictureOK /\ SessionOK /\ Waits /\ Anchored /\ Promises

-----------------------------------------------------------------------------
(* Helpers *)

LEMMA Bounds ==
  /\ MaxShows \in Nat /\ FadeTicks \in Nat /\ FadeTicks > 0 /\ MaxBlends \in Nat
  /\ MaxBlends > 0 /\ MaxUpsets \in Nat
  /\ Sizes \subseteq Nat /\ 0 \notin Sizes
BY RenderAssumption

LEMMA Gens ==
  ASSUME ShowsOK
  PROVE  /\ 1 .. Newest \subseteq ShowGens
         /\ Newest < MaxShows => Newest + 1 \in ShowGens
BY Bounds DEF ShowsOK, ShowGens

\* A show joins at the end, and those whose reply it replaces fail.
Joins(kind, lost, verdict) ==
  /\ Newest \in Nat /\ Newest' = Newest + 1 /\ Newest < MaxShows
  /\ asked' \in Seq({"black", "saver"}) /\ reply' \in [1 .. Newest + 1 -> Replies]
  /\ \A g \in 1 .. Newest : /\ asked'[g] = asked[g]
                             /\ reply'[g] = IF g \in lost THEN "err" ELSE reply[g]
  /\ asked'[Newest + 1] = kind /\ reply'[Newest + 1] = verdict
  /\ configures' = configures \cup {Newest + 1}
  /\ wanted' = TRUE /\ plugged' = plugged

LEMMA AsksShow ==
  ASSUME ShowsOK, NEW kind \in {"black", "saver"}, NEW lost, NEW verdict \in Replies,
         Asks(kind, lost, verdict)
  PROVE  Joins(kind, lost, verdict)
<1> DEFINE f == Failing(lost)
<1>1. f \in Seq(Replies) /\ Len(f) = Newest /\ DOMAIN reply = 1 .. Newest
  <2>1. f \in [1 .. Newest -> Replies]  BY DEF ShowsOK, Failing, Replies
  <2> QED  BY <2>1 DEF ShowsOK
<1>2. \A g \in 1 .. Newest : f[g] = IF g \in lost THEN "err" ELSE reply[g]
  BY <1>1 DEF Failing
<1>3. reply' = Append(f, verdict) /\ asked' = Append(asked, kind)  BY DEF Asks
<1> HIDE DEF f
<1>4. /\ reply' \in Seq(Replies) /\ Len(reply') = Newest + 1
      /\ reply'[Newest + 1] = verdict
      /\ \A g \in 1 .. Newest : reply'[g] = f[g]
  BY <1>1, <1>3, AppendProperties
<1>5. /\ asked' \in Seq({"black", "saver"}) /\ Newest' = Newest + 1
      /\ asked'[Newest + 1] = kind
      /\ \A g \in 1 .. Newest : asked'[g] = asked[g]
  BY <1>3, AppendProperties DEF ShowsOK, Newest
<1>6. reply' \in [1 .. Newest + 1 -> Replies]  BY <1>4
<1> QED  BY <1>2, <1>4, <1>5, <1>6 DEF Asks, Joins, ShowsOK

LEMMA UnarmedType ==
  ASSUME SessionOK, FadeIsDriven, Plays
  PROVE  Unarmed(session) \in [ShowGens -> 0 .. MaxBlends]
<1>1. session.gen \in ShowGens /\ session.token \in BOOLEAN  BY DEF SessionOK, Session
<1>2. session.token => blends[session.gen] > 0  BY DEF FadeIsDriven
<1> QED  BY <1>1, <1>2, Bounds DEF SessionOK, Unarmed

LEMMA SessionDestroyed ==
  ASSUME SessionOK, FadeIsDriven, DestroySession
  PROVE  ~Plays' /\ blends' \in [ShowGens -> 0 .. MaxBlends]
<1>1. CASE Plays  BY <1>1, UnarmedType DEF DestroySession, Ends, Plays
<1>2. CASE ~Plays  BY <1>2 DEF DestroySession, Plays, SessionOK
<1> QED  BY <1>1, <1>2

\* A session begins with an idle transition, no timer and a zeroed buffer.
LEMMA SessionInstalled ==
  ASSUME SessionOK, FadeIsDriven, NEW g \in ShowGens, NEW dims \in Sizes,
         Installed(g, dims)
  PROVE  /\ Plays' /\ session' \in Session /\ blends' \in [ShowGens -> 0 .. MaxBlends]
         /\ session'.gen = g /\ session'.dims = dims /\ ~session'.shown
         /\ session'.phase = "idle" /\ ~session'.token /\ ~session'.load
         /\ content' = "blank" /\ drawn' = dims /\ ~resized' /\ ~stuck'
<1>1. session' \in Session  BY Bounds DEF Installed, Session
<1>2. blends' \in [ShowGens -> 0 .. MaxBlends]
  BY UnarmedType DEF Installed, SessionOK
<1>3. Plays'  BY <1>1, SessionAssumption DEF Plays
<1> QED  BY <1>1, <1>2, <1>3 DEF Installed

\* What becomes of the shows that were made before.
LEMMA JoinsShows ==
  ASSUME ShowsOK, NEW kind, NEW lost, NEW verdict, Joins(kind, lost, verdict),
         made' \in {made, made \cup {Newest + 1}},
         pending' \in made' \cup {0}, live' \in made' \cup {0}
  PROVE  ShowsOK'
<1>1. Newest + 1 \in Nat /\ Newest + 1 <= MaxShows  BY Bounds DEF Joins
<1>2. \A S \in SUBSET (1 .. Newest) : S \cup {Newest + 1} \subseteq 1 .. Newest + 1
  BY DEF Joins
<1>3. made' \subseteq 1 .. Newest + 1 /\ configures' \subseteq 1 .. Newest + 1
  BY <1>2 DEF Joins, ShowsOK
<1> QED  BY <1>1, <1>3 DEF Joins, ShowsOK

\* The replies of the shows in lost fail, and no show joins.
Fails(lost) ==
  /\ Newest' = Newest /\ asked' = asked
  /\ reply' \in [1 .. Newest -> Replies]
  /\ \A g \in 1 .. Newest : reply'[g] = IF g \in lost THEN "err" ELSE reply[g]

LEMMA FailingShows ==
  ASSUME ShowsOK, NEW lost, asked' = asked, reply' = Failing(lost)
  PROVE  Fails(lost)
BY DEF ShowsOK, Failing, Fails, Newest, Replies

-----------------------------------------------------------------------------
(* The commands *)

LEMMA ShowUnpluggedStep ==
  ASSUME IInv, NEW kind \in {"black", "saver"}, ShowUnplugged(kind)
  PROVE  IInv'
<1>1. Joins(kind, {}, "err")  BY AsksShow DEF IInv, ShowUnplugged, Replies
<1>2. pending = 0 /\ live = 0 /\ ~Plays  BY DEF IInv, Anchored, ShowUnplugged
<1>3. /\ pending' = 0 /\ live' = 0 /\ ~Plays' /\ made' = made
      /\ plugged' = FALSE /\ consumed' = (kind = "black" /\ consumed)
      /\ UNCHANGED <<size, black, content, drawn, blends, resized, stuck, upsets>>
  BY <1>1, <1>2 DEF ShowUnplugged, Plays, Joins
<1>4. ShowsOK'  BY <1>1, <1>3, JoinsShows DEF IInv
<1>5. PictureOK'  BY <1>1, <1>3 DEF IInv, PictureOK, Joins
<1>6. SessionOK'  BY <1>3 DEF IInv, SessionOK
<1>7. Waits'  BY <1>1, <1>2, <1>3 DEF IInv, Waits, Joins
<1>8. Anchored'  BY <1>3 DEF Anchored
<1>9. Promises'
  <2>1. NothingOutlivesTeardown'  BY <1>1 DEF Joins, NothingOutlivesTeardown
  <2>2. NoFrozenFrame'  BY <1>2, <1>3 DEF IInv, Promises, NoFrozenFrame
  <2>3. NextOverlayHears'  BY <1>2, <1>3 DEF IInv, Promises, NextOverlayHears
  <2> QED
    BY <1>3, <2>1, <2>2, <2>3
       DEF Promises, ConfirmedBlackIsBlack, FadeIsDriven, ShownFits
<1> QED  BY <1>4, <1>5, <1>6, <1>7, <1>8, <1>9 DEF IInv

LEMMA ShowOnNewStep ==
  ASSUME IInv, NEW kind \in {"black", "saver"}, ShowOnNew(kind)
  PROVE  IInv'
<1>1. Joins(kind, HeldByPending, "waiting")
  BY AsksShow DEF IInv, ShowOnNew, Replies
<1>2. live = 0 /\ ~Plays  BY DEF IInv, Anchored, ShowOnNew
<1>3. /\ pending' = Newest + 1 /\ made' = made \cup {Newest + 1} /\ live' = 0
      /\ ~Plays' /\ plugged' /\ consumed' = FALSE
      /\ UNCHANGED <<size, black, content, drawn, blends, resized, stuck, upsets>>
  BY <1>1, <1>2 DEF ShowOnNew, Plays, Joins
<1>4. ShowsOK'  BY <1>1, <1>3, JoinsShows DEF IInv
<1>5. PictureOK'  BY <1>1, <1>3 DEF IInv, PictureOK, Joins
<1>6. SessionOK'  BY <1>3 DEF IInv, SessionOK
<1>7. Waits'
  <2>1. \A g \in 1 .. Newest : reply'[g] # "waiting"
    BY <1>1, <1>2 DEF IInv, Waits, Joins, HeldByPending
  <2> QED  BY <1>1, <1>3, <2>1 DEF Waits, Joins
<1>8. Anchored'  BY <1>1, <1>3 DEF Anchored, Joins
<1>9. Promises'
  <2>1. NothingOutlivesTeardown'  BY <1>1 DEF Joins, NothingOutlivesTeardown
  <2>2. NoFrozenFrame'  BY <1>2, <1>3 DEF IInv, Promises, NoFrozenFrame
  <2> QED
    BY <1>3, <2>1, <2>2
       DEF Promises, ConfirmedBlackIsBlack, FadeIsDriven, ShownFits, NextOverlayHears
<1> QED  BY <1>4, <1>5, <1>6, <1>7, <1>8, <1>9 DEF IInv

LEMMA ShowBlackStep == ASSUME IInv, ShowBlack PROVE IInv'
<1>1. pending = 0 /\ size \in Sizes  BY DEF IInv, Anchored, ShowBlack
<1>2. PICK v \in {"ok", "err"} :
        /\ Joins("black", HeldBySession, v)
        /\ v = "ok" => /\ black' = size /\ content' = "black" /\ drawn' = size
                       /\ stuck' = FALSE /\ resized' = FALSE /\ upsets' = upsets
        /\ v = "err" => /\ black' = 0 /\ stuck' = TRUE
                        /\ upsets' = upsets + 1 /\ upsets' <= MaxUpsets
                        /\ UNCHANGED <<content, drawn, resized>>
  BY AsksShow
     DEF IInv, ShowBlack, BlackSwapped, NoBlack, Smooth, Upset, Upsets, Replies
<1>3. ~Plays' /\ blends' \in [ShowGens -> 0 .. MaxBlends]
  BY SessionDestroyed DEF IInv, Promises, ShowBlack
<1>4. /\ pending' = 0 /\ live' = live /\ live # 0 /\ made' = made /\ plugged'
      /\ consumed' = FALSE /\ size' = size
  BY <1>1, <1>2 DEF ShowBlack, Joins
<1>5. ShowsOK'  BY <1>2, <1>4, JoinsShows DEF IInv, ShowsOK
<1>6. PictureOK'
  <2>1. upsets' \in 0 .. MaxUpsets  BY <1>2, Bounds DEF IInv, PictureOK
  <2>2. CASE v = "ok"  BY <1>1, <1>2, <1>4, <2>1, <2>2 DEF PictureOK, Joins
  <2>3. CASE v = "err"  BY <1>1, <1>2, <1>4, <2>1, <2>3 DEF IInv, PictureOK, Joins
  <2> QED  BY <2>2, <2>3
<1>7. SessionOK'  BY <1>3 DEF SessionOK
<1>8. Waits'
  <2>1. \A g \in 1 .. Newest : reply'[g] # "waiting"
    BY <1>1, <1>2 DEF IInv, Waits, Joins, HeldBySession
  <2> QED  BY <1>2, <1>3, <1>4, <2>1 DEF Waits, Joins
<1>9. Anchored'  BY <1>1, <1>3, <1>4 DEF Anchored
<1>10. Promises'
  <2>1. NothingOutlivesTeardown'  BY <1>2 DEF Joins, NothingOutlivesTeardown
  <2>2. ConfirmedBlackIsBlack'  BY <1>2, <1>3 DEF ConfirmedBlackIsBlack, Joins
  <2>3. NoFrozenFrame' /\ ShownFits'  BY <1>2, <1>4 DEF NoFrozenFrame, ShownFits
  <2> QED
    BY <1>3, <1>4, <2>1, <2>2, <2>3 DEF Promises, FadeIsDriven, NextOverlayHears
<1> QED  BY <1>5, <1>6, <1>7, <1>8, <1>9, <1>10 DEF IInv

LEMMA ShowSaverStep == ASSUME IInv, ShowSaver PROVE IInv'
<1>1. pending = 0 /\ size \in Sizes  BY DEF IInv, Anchored, ShowSaver
<1>2. /\ pending' = 0 /\ live' = live /\ live # 0 /\ made' = made
      /\ consumed' = FALSE /\ size' = size /\ black' = black /\ plugged
  BY <1>1 DEF ShowSaver
<1>3. CASE /\ Installed(Newest + 1, size) /\ Smooth
           /\ Asks("saver", HeldBySession, "waiting")
  <2>1. Joins("saver", HeldBySession, "waiting")  BY <1>3, AsksShow DEF IInv, Replies
  <2>2. Newest + 1 \in ShowGens  BY <2>1, Bounds DEF Joins, ShowGens
  <2>3. /\ Plays' /\ session' \in Session /\ blends' \in [ShowGens -> 0 .. MaxBlends]
        /\ session'.gen = Newest + 1 /\ session'.dims = size /\ ~session'.shown
        /\ session'.phase = "idle" /\ ~session'.token /\ ~session'.load
        /\ content' = "blank" /\ drawn' = size /\ resized' = FALSE /\ stuck' = FALSE
    BY <1>1, <1>3, <2>2, SessionInstalled DEF IInv, Promises
  <2>4. plugged' /\ upsets' = upsets  BY <1>2, <1>3, <2>1 DEF Joins, Smooth
  <2>5. ShowsOK'  BY <1>2, <2>1, JoinsShows DEF IInv, ShowsOK
  <2>6. PictureOK'  BY <1>2, <2>1, <2>3, <2>4 DEF IInv, PictureOK, Joins
  <2>7. SessionOK'  BY <2>3 DEF SessionOK
  <2>8. Waits'
    <3>1. \A g \in 1 .. Newest : reply'[g] # "waiting"
      BY <1>1, <2>1 DEF IInv, Waits, Joins, HeldBySession
    <3> QED  BY <1>2, <2>1, <2>3, <3>1 DEF Waits, Joins
  <2>9. Anchored'
    BY <1>1, <1>2, <2>1, <2>3, <2>4 DEF Anchored, Joins
  <2>10. Promises'
    <3>1. NothingOutlivesTeardown'  BY <2>1 DEF Joins, NothingOutlivesTeardown
    <3>2. ConfirmedBlackIsBlack'  BY <2>1 DEF ConfirmedBlackIsBlack, Joins
    <3>3. NoFrozenFrame' /\ ShownFits'  BY <1>2, <2>3 DEF NoFrozenFrame, ShownFits
    <3>4. FadeIsDriven'
      <4>1. session'.load \in BOOLEAN  BY <2>3 DEF Session
      <4> QED  BY <2>3, <4>1 DEF FadeIsDriven
    <3> QED
      BY <1>2, <3>1, <3>2, <3>3, <3>4 DEF Promises, NextOverlayHears
  <2> QED  BY <2>5, <2>6, <2>7, <2>8, <2>9, <2>10 DEF IInv
<1>4. CASE /\ Upset /\ DestroySession
           /\ \/ content' = "blank" /\ drawn' = size
              \/ UNCHANGED <<content, drawn>>
           /\ stuck' = TRUE /\ UNCHANGED resized
           /\ Asks("saver", HeldBySession, "err")
  <2>1. Joins("saver", HeldBySession, "err")  BY <1>4, AsksShow DEF IInv, Replies
  <2>2. ~Plays' /\ blends' \in [ShowGens -> 0 .. MaxBlends]
    BY <1>4, SessionDestroyed DEF IInv, Promises
  <2>3. plugged' /\ upsets' \in 0 .. MaxUpsets
    BY <1>2, <1>4, <2>1, Bounds DEF IInv, PictureOK, Joins, Upset, Upsets
  <2>4. ShowsOK'  BY <1>2, <2>1, JoinsShows DEF IInv, ShowsOK
  <2>5. PictureOK'  BY <1>1, <1>2, <1>4, <2>1, <2>3 DEF IInv, PictureOK, Joins
  <2>6. SessionOK'  BY <2>2 DEF SessionOK
  <2>7. Waits'
    <3>1. \A g \in 1 .. Newest : reply'[g] # "waiting"
      BY <1>1, <2>1 DEF IInv, Waits, Joins, HeldBySession
    <3> QED  BY <1>2, <2>1, <2>2, <3>1 DEF Waits, Joins
  <2>8. Anchored'  BY <1>1, <1>2, <2>2, <2>3 DEF Anchored
  <2>9. Promises'
    <3>1. NothingOutlivesTeardown'  BY <2>1 DEF Joins, NothingOutlivesTeardown
    <3>2. ConfirmedBlackIsBlack'  BY <2>1 DEF ConfirmedBlackIsBlack, Joins
    <3> QED
      BY <1>2, <1>4, <2>2, <3>1, <3>2
         DEF Promises, NoFrozenFrame, ShownFits, FadeIsDriven, NextOverlayHears
  <2> QED  BY <2>4, <2>5, <2>6, <2>7, <2>8, <2>9 DEF IInv
<1> QED  BY <1>3, <1>4 DEF ShowSaver

\* What a teardown and an unplugged output leave: nothing.
Emptied ==
  /\ pending' = 0 /\ live' = 0 /\ ~Plays' /\ blends' \in [ShowGens -> 0 .. MaxBlends]
  /\ size' = 0 /\ black' = 0 /\ content' = "none" /\ drawn' = 0
  /\ consumed' = FALSE /\ resized' = FALSE /\ stuck' = FALSE
  /\ Fails(HeldByPending \cup HeldBySession)
  /\ \A g \in 1 .. Newest : reply'[g] # "waiting"

LEMMA SurfaceDestroyed ==
  ASSUME IInv, DestroySurface, asked' = asked,
         reply' = Failing(HeldByPending \cup HeldBySession)
  PROVE  Emptied
<1>1. Fails(HeldByPending \cup HeldBySession)  BY FailingShows DEF IInv
<1>2. ~Plays' /\ blends' \in [ShowGens -> 0 .. MaxBlends]
  BY SessionDestroyed DEF IInv, Promises, DestroySurface
<1>3. \A g \in 1 .. Newest : reply'[g] # "waiting"
  <2> SUFFICES ASSUME NEW g \in 1 .. Newest PROVE reply'[g] # "waiting"  OBVIOUS
  <2>1. g \in HeldByPending \cup HeldBySession => reply'[g] = "err"  BY <1>1 DEF Fails
  <2>2. g \notin HeldByPending \cup HeldBySession => reply'[g] = reply[g]
    BY <1>1 DEF Fails
  <2>3. reply[g] = "waiting" => g \in HeldByPending \cup HeldBySession
    <3>1. g # 0  BY DEF IInv, ShowsOK
    <3> QED  BY <3>1 DEF IInv, Waits, HeldByPending, HeldBySession
  <2> QED  BY <2>1, <2>2, <2>3
<1> QED  BY <1>1, <1>2, <1>3 DEF Emptied, DestroySurface, NoSurface

\* An emptied thread keeps the invariant, whether or not the output is there.
LEMMA EmptiedStep ==
  ASSUME IInv, Emptied, UNCHANGED <<made, configures>>,
         plugged' \in BOOLEAN, wanted' \in BOOLEAN, upsets' \in 0 .. MaxUpsets
  PROVE  IInv'
<1>1. ShowsOK'  BY DEF IInv, ShowsOK, Emptied, Fails
<1>2. PictureOK'  BY DEF PictureOK, Emptied
<1>3. SessionOK'  BY DEF SessionOK, Emptied
<1>4. Waits'  BY DEF Waits, Emptied, Fails
<1>5. Anchored'  BY DEF Anchored, Emptied
<1>6. Promises'
  <2>1. DOMAIN reply' = 1 .. Newest  BY DEF Emptied, Fails
  <2>2. NothingOutlivesTeardown'  BY <2>1 DEF NothingOutlivesTeardown, Emptied
  <2> QED
    BY <2>2 DEF Promises, Emptied, ConfirmedBlackIsBlack, NoFrozenFrame, FadeIsDriven,
                ShownFits, NextOverlayHears
<1> QED  BY <1>1, <1>2, <1>3, <1>4, <1>5, <1>6 DEF IInv

LEMMA TeardownStep == ASSUME IInv, Teardown PROVE IInv'
<1>1. Emptied  BY SurfaceDestroyed DEF Teardown
<1>2. /\ UNCHANGED <<made, configures>> /\ plugged' \in BOOLEAN /\ wanted' \in BOOLEAN
      /\ upsets' \in 0 .. MaxUpsets
  BY DEF Teardown, IInv, PictureOK
<1> QED  BY <1>1, <1>2, EmptiedStep

LEMMA ReassertStep == ASSUME IInv, Reassert PROVE IInv'
<1>1. ShowsOK' /\ SessionOK' /\ Waits' /\ Anchored'
  BY DEF IInv, Reassert, ShowsOK, SessionOK, Waits, Anchored, Plays, Newest
<1>2. PictureOK'  BY DEF IInv, Reassert, PictureOK
<1>3. Promises'
  BY DEF IInv, Reassert, Promises, Plays, NothingOutlivesTeardown,
         ConfirmedBlackIsBlack, NoFrozenFrame, FadeIsDriven, ShownFits,
         NextOverlayHears, Newest
<1> QED  BY <1>1, <1>2, <1>3 DEF IInv

-----------------------------------------------------------------------------
(* The events of the compositor *)

LEMMA ConfigureLiveStep ==
  ASSUME IInv, NEW s \in made, NEW dims \in Sizes, ConfigureLive(s, dims)
  PROVE  IInv'
<1>1. live # 0
  BY DEF IInv, ShowsOK, ConfigureLive, surface_match
<1>2. ShowsOK' /\ SessionOK' /\ Waits' /\ Anchored'
  BY <1>1 DEF IInv, ConfigureLive, ShowsOK, SessionOK, Waits, Anchored, Plays, Newest
<1>3. PictureOK'
  <2>1. upsets' \in 0 .. MaxUpsets
    BY Bounds DEF IInv, PictureOK, ConfigureLive, Upset, Upsets
  <2> QED  BY <2>1 DEF IInv, ConfigureLive, PictureOK
<1>4. Promises'
  BY DEF IInv, ConfigureLive, Promises, Plays, NothingOutlivesTeardown,
         ConfirmedBlackIsBlack, NoFrozenFrame, FadeIsDriven, ShownFits,
         NextOverlayHears, Newest
<1> QED  BY <1>2, <1>3, <1>4 DEF IInv

LEMMA OutputDestroyedStep == ASSUME IInv, OutputDestroyed PROVE IInv'
<1>1. Emptied  BY SurfaceDestroyed DEF OutputDestroyed
<1>2. /\ UNCHANGED <<made, configures>> /\ plugged' \in BOOLEAN /\ wanted' \in BOOLEAN
      /\ upsets' \in 0 .. MaxUpsets
  <2>1. upsets' \in 0 .. MaxUpsets
    BY Bounds DEF OutputDestroyed, IInv, PictureOK, Upset, Upsets
  <2> QED  BY <2>1 DEF OutputDestroyed, IInv, PictureOK
<1> QED  BY <1>1, <1>2, EmptiedStep

LEMMA OutputReturnsStep == ASSUME IInv, OutputReturns PROVE IInv'
<1>1. ShowsOK' /\ SessionOK' /\ Waits' /\ Anchored'
  BY DEF IInv, OutputReturns, ShowsOK, SessionOK, Waits, Anchored, Plays, Newest
<1>2. PictureOK'  BY DEF IInv, OutputReturns, PictureOK
<1>3. Promises'
  BY DEF IInv, OutputReturns, Promises, Plays, NothingOutlivesTeardown,
         ConfirmedBlackIsBlack, NoFrozenFrame, FadeIsDriven, ShownFits,
         NextOverlayHears, Newest
<1> QED  BY <1>1, <1>2, <1>3 DEF IInv

LEMMA InputStep == ASSUME IInv, Input PROVE IInv'
<1>1. ShowsOK' /\ SessionOK' /\ Waits' /\ Anchored'
  BY DEF IInv, Input, ShowsOK, SessionOK, Waits, Anchored, Plays, Newest
<1>2. PictureOK'  BY DEF IInv, Input, PictureOK
<1>3. Promises'
  BY DEF IInv, Input, Promises, Plays, NothingOutlivesTeardown,
         ConfirmedBlackIsBlack, NoFrozenFrame, FadeIsDriven, ShownFits,
         NextOverlayHears, Newest
<1> QED  BY <1>1, <1>2, <1>3 DEF IInv

\* The pending show is given up: its surface goes, and nothing was live.
PendingFailed ==
  /\ pending # 0 /\ pending' = 0 /\ reply' = Failing({pending})
  /\ UNCHANGED <<asked, made, live, size, black, content, drawn, session, blends,
                 plugged, consumed, wanted, resized, stuck>>

LEMMA PendingFailedStep ==
  ASSUME IInv, PendingFailed, configures' \subseteq configures,
         upsets' \in 0 .. MaxUpsets
  PROVE  IInv'
<1>1. Fails({pending})  BY FailingShows DEF IInv, PendingFailed
<1>2. live = 0 /\ ~Plays  BY DEF IInv, Anchored, PendingFailed
<1>3. /\ pending' = 0 /\ live' = 0 /\ ~Plays' /\ Newest' = Newest
      /\ UNCHANGED <<made, size, black, content, drawn, blends, plugged, consumed,
                     wanted, resized, stuck>>
  BY <1>2 DEF PendingFailed, Plays, Newest
<1>4. \A g \in 1 .. Newest : reply'[g] # "waiting"
  BY <1>1, <1>2 DEF IInv, Waits, Fails
<1>5. ShowsOK'  BY <1>1, <1>3 DEF IInv, ShowsOK, Fails
<1>6. PictureOK'  BY <1>3 DEF IInv, PictureOK
<1>7. SessionOK'  BY <1>3 DEF IInv, SessionOK
<1>8. Waits'  BY <1>3, <1>4 DEF Waits
<1>9. Anchored'  BY <1>3 DEF Anchored
<1>10. Promises'
  <2>1. DOMAIN reply' = 1 .. Newest  BY <1>1 DEF Fails
  <2>2. NothingOutlivesTeardown'  BY <1>3, <1>4, <2>1 DEF NothingOutlivesTeardown
  <2>3. NoFrozenFrame' /\ NextOverlayHears'
    BY <1>2, <1>3 DEF IInv, Promises, NoFrozenFrame, NextOverlayHears
  <2> QED
    BY <1>3, <2>2, <2>3 DEF Promises, ConfirmedBlackIsBlack, FadeIsDriven, ShownFits
<1> QED  BY <1>5, <1>6, <1>7, <1>8, <1>9, <1>10 DEF IInv

LEMMA ConfigurePendingStep ==
  ASSUME IInv, NEW s \in made, NEW dims \in Sizes, ConfigurePending(s, dims)
  PROVE  IInv'
<1>1. /\ pending # 0 /\ pending \in 1 .. Newest /\ pending \in made /\ pending = Newest
      /\ live = 0 /\ ~Plays /\ plugged
  <2>1. s # 0 /\ s = pending  BY DEF IInv, ShowsOK, ConfigurePending, surface_match
  <2> QED  BY <2>1 DEF IInv, ShowsOK, Waits, Anchored
<1>2. /\ pending' = 0 /\ Newest' = Newest
      /\ UNCHANGED <<asked, made, configures, plugged, consumed, wanted>>
  BY DEF ConfigurePending, Newest
<1>3. wanted  BY <1>1 DEF IInv, Promises, NothingOutlivesTeardown
<1>4. CASE /\ live' = pending /\ size' = dims /\ Smooth
           /\ asked[pending] = "black"
           /\ black' = dims /\ content' = "black" /\ drawn' = dims
           /\ resized' = FALSE /\ stuck' = FALSE
           /\ reply' = Granting(pending)
           /\ UNCHANGED <<session, blends>>
  <2>1. /\ reply' \in [1 .. Newest -> Replies]
        /\ \A g \in 1 .. Newest : reply'[g] = IF g = pending THEN "ok" ELSE reply[g]
    BY <1>4 DEF IInv, ShowsOK, Granting, Replies
  <2>2. ~Plays' /\ upsets' = upsets  BY <1>1, <1>4 DEF Plays, Smooth
  <2>3. ShowsOK'  BY <1>1, <1>2, <1>4, <2>1 DEF IInv, ShowsOK
  <2>4. PictureOK'  BY <1>2, <1>4, <2>2 DEF IInv, PictureOK
  <2>5. SessionOK'  BY <1>4, <2>2 DEF IInv, SessionOK
  <2>6. Waits'  BY <1>1, <1>2, <2>1, <2>2 DEF IInv, Waits
  <2>7. Anchored'  BY <1>1, <1>2, <1>4, <2>2 DEF Anchored
  <2>8. Promises'
    BY <1>1, <1>2, <1>3, <1>4, <2>2
       DEF Promises, NothingOutlivesTeardown, ConfirmedBlackIsBlack, NoFrozenFrame,
           FadeIsDriven, ShownFits, NextOverlayHears
  <2> QED  BY <2>3, <2>4, <2>5, <2>6, <2>7, <2>8 DEF IInv
<1>5. CASE /\ live' = pending /\ size' = dims /\ Smooth
           /\ asked[pending] = "saver"
           /\ Installed(pending, dims)
           /\ UNCHANGED <<reply, black>>
  <2>1. pending \in ShowGens  BY <1>1, Gens DEF IInv
  <2>2. /\ Plays' /\ session' \in Session /\ blends' \in [ShowGens -> 0 .. MaxBlends]
        /\ session'.gen = pending /\ session'.dims = dims /\ ~session'.shown
        /\ session'.phase = "idle" /\ ~session'.token /\ ~session'.load
        /\ content' = "blank" /\ drawn' = dims /\ resized' = FALSE /\ stuck' = FALSE
    BY <1>5, <2>1, SessionInstalled DEF IInv, Promises
  <2>3. ShowsOK'  BY <1>1, <1>2, <1>5 DEF IInv, ShowsOK
  <2>4. PictureOK'  BY <1>2, <1>5, <2>2 DEF IInv, PictureOK, Smooth
  <2>5. SessionOK'  BY <2>2 DEF SessionOK
  <2>6. Waits'
    <3>1. \A g \in 1 .. Newest : reply[g] = "waiting" <=> g = pending
      BY <1>1 DEF IInv, Waits
    <3>2. \A g \in 1 .. Newest : g # 0  BY DEF IInv, ShowsOK
    <3> QED  BY <1>1, <1>2, <1>5, <2>2, <3>1, <3>2 DEF Waits
  <2>7. Anchored'  BY <1>1, <1>2, <1>5, <2>2 DEF Anchored
  <2>8. Promises'
    <3>1. reply'[Newest] = "waiting"  BY <1>1, <1>5 DEF IInv, Waits
    <3>2. ConfirmedBlackIsBlack'  BY <1>2, <3>1 DEF ConfirmedBlackIsBlack
    <3>3. NothingOutlivesTeardown'  BY <1>2, <1>3 DEF NothingOutlivesTeardown
    <3>4. NoFrozenFrame' /\ ShownFits' /\ NextOverlayHears'
      BY <1>1, <1>2, <1>5, <2>2 DEF NoFrozenFrame, ShownFits, NextOverlayHears
    <3>5. FadeIsDriven'
      <4>1. session'.load \in BOOLEAN  BY <2>2 DEF Session
      <4> QED  BY <2>2, <4>1 DEF FadeIsDriven
    <3> QED  BY <3>2, <3>3, <3>4, <3>5 DEF Promises
  <2> QED  BY <2>3, <2>4, <2>5, <2>6, <2>7, <2>8 DEF IInv
<1>6. CASE /\ Upset
           /\ reply' = Failing({pending})
           /\ UNCHANGED <<live, size, black, content, drawn, session, blends,
                          resized, stuck>>
  <2>1. PendingFailed  BY <1>1, <1>2, <1>6 DEF PendingFailed
  <2>2. upsets' \in 0 .. MaxUpsets  BY <1>6, Bounds DEF IInv, PictureOK, Upset, Upsets
  <2> QED  BY <1>2, <2>1, <2>2, PendingFailedStep
<1> QED  BY <1>4, <1>5, <1>6 DEF ConfigurePending

LEMMA ClosedStep == ASSUME IInv, NEW s \in made, Closed(s) PROVE IInv'
<1>1. CASE /\ surface_match(s) = "pending"
           /\ pending' = 0
           /\ reply' = Failing({pending})
           /\ UNCHANGED <<live, size, black, content, drawn, session, blends,
                          consumed, resized, stuck>>
  <2>1. pending # 0  BY <1>1 DEF IInv, ShowsOK, surface_match
  <2>2. PendingFailed  BY <1>1, <2>1 DEF PendingFailed, Closed
  <2>3. upsets' \in 0 .. MaxUpsets
    BY Bounds DEF Closed, IInv, PictureOK, Upset, Upsets
  <2>4. configures' \subseteq configures  BY DEF Closed
  <2> QED  BY <2>2, <2>3, <2>4, PendingFailedStep
<1>2. CASE /\ surface_match(s) = "live"
           /\ DestroySession /\ NoSurface
           /\ reply' = Failing(HeldBySession)
           /\ UNCHANGED pending
  <2>1. pending = 0
    BY <1>2 DEF IInv, ShowsOK, Anchored, surface_match
  <2>2. HeldBySession = HeldByPending \cup HeldBySession
    BY <2>1 DEF HeldByPending
  <2>3. Emptied
    BY <1>2, <2>1, <2>2, SurfaceDestroyed DEF Closed, DestroySurface
  <2>4. upsets' \in 0 .. MaxUpsets
    BY Bounds DEF Closed, IInv, PictureOK, Upset, Upsets
  <2>5. plugged' \in BOOLEAN /\ wanted' \in BOOLEAN  BY DEF Closed, IInv, PictureOK
  <2> QED  BY <2>3, <2>4, <2>5, EmptiedStep DEF Closed
<1> QED  BY <1>1, <1>2 DEF Closed

-----------------------------------------------------------------------------
(* The deadlines of a show *)

LEMMA ConfigureExpiresStep ==
  ASSUME IInv, NEW g \in ShowGens, ConfigureExpires(g)
  PROVE  IInv'
<1>1. configures' \subseteq configures  BY DEF ConfigureExpires
<1>2. CASE should_fail_timeout(g)
  <2>1. g # 0  BY DEF ShowGens
  <2>2. PendingFailed
    BY <1>2, <2>1 DEF ConfigureExpires, PendingFailed, should_fail_timeout
  <2>3. upsets' \in 0 .. MaxUpsets  BY DEF ConfigureExpires, IInv, PictureOK
  <2> QED  BY <1>1, <2>2, <2>3, PendingFailedStep
<1>3. CASE ~should_fail_timeout(g)
  <2>1. UNCHANGED <<asked, reply, made, pending, live, size, black, content, drawn,
                    session, blends, plugged, consumed, wanted, resized, stuck, upsets>>
    BY <1>3 DEF ConfigureExpires
  <2>2. ShowsOK' /\ SessionOK' /\ Waits' /\ Anchored'
    BY <1>1, <2>1 DEF IInv, ShowsOK, SessionOK, Waits, Anchored, Plays, Newest
  <2>3. PictureOK'  BY <2>1 DEF IInv, PictureOK
  <2>4. Promises'
    BY <2>1 DEF IInv, Promises, Plays, NothingOutlivesTeardown, ConfirmedBlackIsBlack,
                NoFrozenFrame, FadeIsDriven, ShownFits, NextOverlayHears, Newest
  <2> QED  BY <2>2, <2>3, <2>4 DEF IInv
<1> QED  BY <1>2, <1>3

\* s is the session that plays, or what the events of a wakeup have made of it.
LEMMA FailToBlackStep ==
  ASSUME IInv, Plays, NEW s, Unarmed(s) \in [ShowGens -> 0 .. MaxBlends],
         NEW n \in {0, 1}, FailToBlack(s, n)
  PROVE  IInv'
<1>1. /\ pending = 0 /\ live # 0 /\ plugged /\ wanted /\ size \in Sizes
      /\ session.gen \in 1 .. Newest
  BY DEF IInv, Anchored, Promises, NothingOutlivesTeardown
<1>2. /\ ~Plays' /\ blends' \in [ShowGens -> 0 .. MaxBlends] /\ Newest' = Newest
      /\ pending' = 0 /\ live' = live
      /\ UNCHANGED <<asked, made, size, configures, plugged, consumed, wanted, resized>>
  BY <1>1 DEF FailToBlack, Ends, Plays, Newest
<1>3. \/ black' = size /\ content' = "black" /\ drawn' = size /\ stuck' = FALSE
      \/ black' = 0 /\ stuck' = TRUE /\ UNCHANGED <<content, drawn>>
  BY DEF FailToBlack, BlackSwapped, NoBlack
<1>4. Fails(HeldBySession)  BY FailingShows DEF IInv, FailToBlack
<1>5. \A g \in 1 .. Newest : reply'[g] # "waiting"
  BY <1>1, <1>4 DEF IInv, Waits, Fails, HeldBySession
<1>6. ShowsOK'  BY <1>1, <1>2, <1>4 DEF IInv, ShowsOK, Fails
<1>7. PictureOK'
  <2>1. upsets' \in 0 .. MaxUpsets
    BY Bounds DEF IInv, PictureOK, FailToBlack, Upsets
  <2> QED  BY <1>1, <1>2, <1>3, <2>1 DEF IInv, PictureOK
<1>8. SessionOK'  BY <1>2 DEF SessionOK
<1>9. Waits'  BY <1>2, <1>5 DEF Waits
<1>10. Anchored'  BY <1>1, <1>2 DEF Anchored
<1>11. Promises'
  <2>1. ConfirmedBlackIsBlack'
    <3>1. reply'[Newest] = "ok" => reply[Newest] = "ok"
      BY <1>1, <1>4 DEF IInv, ShowsOK, Fails
    <3> QED
      BY <1>1, <1>2, <3>1 DEF IInv, Promises, ConfirmedBlackIsBlack
  <2>2. NoFrozenFrame' /\ ShownFits'
    BY <1>2, <1>3 DEF IInv, Promises, NoFrozenFrame, ShownFits
  <2> QED
    BY <1>1, <1>2, <2>1, <2>2
       DEF Promises, NothingOutlivesTeardown, FadeIsDriven, NextOverlayHears
<1> QED  BY <1>6, <1>7, <1>8, <1>9, <1>10, <1>11 DEF IInv

LEMMA DeadlineStep ==
  ASSUME IInv, FirstFrameExpires \/ ItemLoadExpires
  PROVE  IInv'
<1>1. Plays /\ FailToBlack(session, 0)  BY DEF FirstFrameExpires, ItemLoadExpires
<1>2. Unarmed(session) \in [ShowGens -> 0 .. MaxBlends]
  BY <1>1, UnarmedType DEF IInv, Promises
<1> QED  BY <1>1, <1>2, FailToBlackStep

-----------------------------------------------------------------------------
(* The session *)

\* A session stays one when a field is given a value of its type.
LEMMA SessionUpdate ==
  ASSUME NEW s \in Session
  PROVE  /\ \A v \in BOOLEAN : /\ [s EXCEPT !.shown = v] \in Session
                               /\ [s EXCEPT !.back = v] \in Session
                               /\ [s EXCEPT !.front = v] \in Session
                               /\ [s EXCEPT !.token = v] \in Session
                               /\ [s EXCEPT !.load = v] \in Session
         /\ \A v \in {"idle", "captured", "awaiting", "fading"} :
              [s EXCEPT !.phase = v] \in Session
         /\ \A v \in 0 .. FadeTicks : [s EXCEPT !.t = v] \in Session
<1>1. ASSUME NEW v \in BOOLEAN
      PROVE  /\ [s EXCEPT !.shown = v] \in Session
             /\ [s EXCEPT !.back = v] \in Session
             /\ [s EXCEPT !.front = v] \in Session
             /\ [s EXCEPT !.token = v] \in Session
             /\ [s EXCEPT !.load = v] \in Session
  <2>1. [s EXCEPT !.shown = v] \in Session  BY <1>1 DEF Session
  <2>2. [s EXCEPT !.back = v] \in Session  BY <1>1 DEF Session
  <2>3. [s EXCEPT !.front = v] \in Session  BY <1>1 DEF Session
  <2>4. [s EXCEPT !.token = v] \in Session  BY <1>1 DEF Session
  <2>5. [s EXCEPT !.load = v] \in Session  BY <1>1 DEF Session
  <2> QED  BY <2>1, <2>2, <2>3, <2>4, <2>5
<1>2. ASSUME NEW v \in {"idle", "captured", "awaiting", "fading"}
      PROVE  [s EXCEPT !.phase = v] \in Session
  BY <1>2 DEF Session
<1>3. ASSUME NEW v \in 0 .. FadeTicks PROVE [s EXCEPT !.t = v] \in Session
  BY <1>3 DEF Session
<1> QED  BY <1>1, <1>2, <1>3

\* What the events of a wakeup leave of the session: a fade goes on only if no
\* item has ended, and its timer with it.
LEMMA Processed ==
  ASSUME IInv, Plays, NEW batch \in Batches, NEW s, s = process_mpv_events(batch)
  PROVE  /\ s \in Session
         /\ s.gen = session.gen /\ s.shown = session.shown /\ s.dims = session.dims
         /\ s.phase # "idle" => s.t < FadeTicks
         /\ s.token => session.token
         /\ s.phase = "fading" => s.token
<1> DEFINE ended    == \E k \in DOMAIN batch : batch[k] = "ended"
           captures == ended /\ session.phase \in {"idle", "fading"}
           phase    == IF batch = <<>> THEN session.phase
                       ELSE transition_step(IF ended THEN "captured" ELSE session.phase,
                                            batch[Len(batch)])
           t        == IF captures THEN 0 ELSE session.t
           token    == IF captures THEN FALSE ELSE session.token
<1>1. session \in Session /\ session.phase \in {"idle", "captured", "awaiting", "fading"}
      /\ session.t \in 0 .. FadeTicks /\ session.token \in BOOLEAN
  BY DEF IInv, SessionOK, Session
<1>2. /\ session.phase = "fading" => session.token
      /\ session.phase # "idle" => session.t < FadeTicks
  BY DEF IInv, Promises, FadeIsDriven, Anchored
<1>3. s = [session EXCEPT !.phase = phase, !.t = t, !.token = token]
  BY <1>1 DEF process_mpv_events, Session
<1>4. batch # <<>> => Len(batch) \in DOMAIN batch  BY DEF Batches
<1>5. /\ phase \in {"idle", "captured", "awaiting", "fading"}
      /\ phase # "idle" => t < FadeTicks
      /\ phase = "fading" => token
  BY <1>1, <1>2, <1>4, Bounds DEF transition_step
<1> HIDE DEF phase
<1>6. t \in 0 .. FadeTicks /\ token \in BOOLEAN /\ (token => session.token)
  <2> HIDE DEF captures
  <2>1. t \in 0 .. FadeTicks  BY <1>1, Bounds
  <2>2. token \in BOOLEAN /\ (token => session.token)  BY <1>1
  <2> QED  BY <2>1, <2>2
<1> HIDE DEF t, token
<1>7. s \in Session
  <2>1. [session EXCEPT !.phase = phase] \in Session  BY <1>1, <1>5, SessionUpdate
  <2>2. [[session EXCEPT !.phase = phase] EXCEPT !.t = t] \in Session
    BY <1>6, <2>1, SessionUpdate
  <2>3. [[[session EXCEPT !.phase = phase] EXCEPT !.t = t] EXCEPT !.token = token]
          \in Session
    BY <1>6, <2>2, SessionUpdate
  <2> QED  BY <1>3, <2>3
<1> QED  BY <1>1, <1>3, <1>5, <1>6, <1>7 DEF Session

\* A commit changes the buffers of the session and the picture.
LEMMA Committing ==
  ASSUME NEW s \in Session, CommitShows(s)
  PROVE  /\ session' \in Session
         /\ session'.gen = s.gen /\ session'.dims = s.dims /\ session'.shown = s.shown
         /\ session'.phase = s.phase /\ session'.t = s.t /\ session'.token = s.token
         /\ session'.load = s.load
         /\ content' = "frame" /\ drawn' = s.dims
<1>1. s.front \in BOOLEAN  BY DEF Session
<1>2. session' = [[s EXCEPT !.back = s.front] EXCEPT !.front = TRUE]
  BY DEF CommitShows, Committed
<1>3. session' \in Session  BY <1>1, <1>2, SessionUpdate
<1> QED  BY <1>2, <1>3 DEF CommitShows, Session

\* The session goes on: it may draw a frame, and grant its show with the first.
GoesOn ==
  /\ session' \in Session
  /\ session'.gen = session.gen /\ session'.dims = session.dims
  /\ session'.phase # "idle" => session'.t < FadeTicks
  /\ session'.load = (session'.phase = "captured")
  /\ session'.phase = "fading" => session'.token
  /\ blends' \in [ShowGens -> 0 .. MaxBlends]
  /\ session'.token => blends'[session'.gen] > 0
  /\ \/ UNCHANGED <<content, drawn>>
     \/ content' = "frame" /\ drawn' = session.dims
  /\ \/ reply' = reply /\ session'.shown = session.shown
     \/ ~session.shown /\ session'.shown /\ reply' = Granting(session.gen)

LEMMA GoesOnStep == ASSUME IInv, Plays, GoesOn, Alone, Smooth PROVE IInv'
<1>1. /\ pending = 0 /\ live # 0 /\ plugged /\ wanted
      /\ session.gen \in 1 .. Newest /\ asked[session.gen] = "saver"
      /\ ~resized => session.dims = size
  BY DEF IInv, Anchored, Promises, NothingOutlivesTeardown
<1>2. /\ Plays' /\ Newest' = Newest
      /\ UNCHANGED <<asked, made, pending, live, size, black, configures, plugged,
                     consumed, wanted, resized, stuck, upsets>>
  BY SessionAssumption DEF GoesOn, Alone, Smooth, Plays, Newest
<1>3. /\ reply' \in [1 .. Newest -> Replies]
      /\ \A g \in 1 .. Newest : g # session.gen => reply'[g] = reply[g]
      /\ \/ reply' = reply /\ session'.shown = session.shown
         \/ ~session.shown /\ session'.shown /\ reply'[session.gen] = "ok"
  BY <1>1 DEF GoesOn, Granting, IInv, ShowsOK, Replies
<1>4. ShowsOK'  BY <1>2, <1>3 DEF IInv, ShowsOK
<1>5. PictureOK'
  <2>1. session.dims \in Sizes  BY DEF IInv, SessionOK, Session
  <2> QED  BY <1>2, <2>1 DEF IInv, PictureOK, GoesOn
<1>6. SessionOK'  BY DEF SessionOK, GoesOn
<1>7. Waits'
  <2>1. session.shown \in BOOLEAN /\ session'.shown \in BOOLEAN
    BY DEF IInv, SessionOK, GoesOn, Session
  <2>2. ~session'.shown => reply' = reply /\ ~session.shown  BY <1>3, <2>1
  <2>3. \A g \in 1 .. Newest :
           reply'[g] = "waiting" <=> ~session'.shown /\ g = session.gen
    <3> TAKE g \in 1 .. Newest
    <3>1. g # 0  BY DEF IInv, ShowsOK
    <3>2. reply[g] = "waiting" <=> ~session.shown /\ g = session.gen
      BY <1>1, <3>1 DEF IInv, Waits
    <3> QED  BY <1>3, <2>1, <3>2
  <2>4. ~session'.shown => session'.gen = Newest
    BY <2>2 DEF IInv, Waits, GoesOn
  <2>5. \A g \in 1 .. Newest : g # 0  BY DEF IInv, ShowsOK
  <2> QED  BY <1>1, <1>2, <2>3, <2>4, <2>5 DEF Waits, GoesOn
<1>8. Anchored'  BY <1>1, <1>2 DEF IInv, Anchored, GoesOn
<1>9. Promises'
  <2>1. ConfirmedBlackIsBlack'
    <3>1. asked[Newest] = "black" => reply'[Newest] = reply[Newest]
      BY <1>1, <1>3 DEF IInv, ShowsOK
    <3> QED  BY <1>1, <1>2, <3>1 DEF IInv, Promises, ConfirmedBlackIsBlack
  <2>2. NoFrozenFrame'  BY <1>2 DEF NoFrozenFrame
  <2>3. ShownFits'
    BY <1>1, <1>2 DEF IInv, Promises, ShownFits, GoesOn
  <2>4. FadeIsDriven'  BY DEF FadeIsDriven, GoesOn
  <2> QED
    BY <1>1, <1>2, <2>1, <2>2, <2>3, <2>4
       DEF Promises, NothingOutlivesTeardown, NextOverlayHears
<1> QED  BY <1>4, <1>5, <1>6, <1>7, <1>8, <1>9 DEF IInv

LEMMA on_mpv_wakeupStep ==
  ASSUME IInv, NEW batch \in Batches, on_mpv_wakeup(batch)
  PROVE  IInv'
<1>1. Plays  BY DEF on_mpv_wakeup
<1>2. PICK s : s = process_mpv_events(batch)  OBVIOUS
<1>3. /\ s \in Session
      /\ s.gen = session.gen /\ s.shown = session.shown /\ s.dims = session.dims
      /\ s.phase # "idle" => s.t < FadeTicks
      /\ s.token => session.token
      /\ s.phase = "fading" => s.token
  BY <1>1, <1>2, Processed
<1>4. /\ s.gen \in ShowGens /\ s.token \in BOOLEAN /\ s.front \in BOOLEAN
      /\ s.shown \in BOOLEAN
  BY <1>3 DEF Session
<1>5. blends \in [ShowGens -> 0 .. MaxBlends] /\ (s.token => blends[s.gen] > 0)
  BY <1>1, <1>3 DEF IInv, SessionOK, Promises, FadeIsDriven
<1>6. Unarmed(s) \in [ShowGens -> 0 .. MaxBlends]
  BY <1>4, <1>5, Bounds DEF Unarmed
<1>7. CASE WakeWaits(s) /\ UNCHANGED <<reply, content, drawn, blends>> /\ Smooth /\ Alone
  <2>1. \A v \in BOOLEAN : [s EXCEPT !.load = v] \in Session  BY <1>3, SessionUpdate
  <2>2. session' \in Session
    BY <1>7, <2>1 DEF WakeWaits
  <2>3. /\ session'.gen = s.gen /\ session'.dims = s.dims /\ session'.shown = s.shown
        /\ session'.phase = s.phase /\ session'.t = s.t /\ session'.token = s.token
        /\ session'.load = (s.phase = "captured")
    BY <1>3, <1>7 DEF WakeWaits, Session
  <2>4. GoesOn  BY <1>3, <1>5, <1>7, <2>2, <2>3 DEF GoesOn
  <2> QED  BY <1>1, <1>7, <2>4, GoesOnStep
<1>8. CASE WakeDraws(s) /\ Smooth /\ Alone
  <2> DEFINE q == [s EXCEPT !.load = FALSE]
  <2>1. /\ q \in Session /\ q.gen = s.gen /\ q.dims = s.dims /\ q.shown = s.shown
        /\ q.phase = s.phase /\ q.t = s.t /\ q.token = s.token /\ ~q.load
        /\ q.front = s.front
    <3>1. q \in Session  BY <1>3, SessionUpdate
    <3> QED  BY <1>3, <3>1 DEF Session
  <2> HIDE DEF q
  <2>2. CASE /\ s.phase = "awaiting" /\ Armed(q) /\ UNCHANGED <<reply, content, drawn>>
    <3>1. Unarmed(q) = Unarmed(s)  BY <2>1 DEF Unarmed
    <3>2. /\ blends' = [Unarmed(s) EXCEPT ![s.gen] = @ + 1]
          /\ Unarmed(s)[s.gen] < MaxBlends
      BY <2>1, <2>2, <3>1 DEF Armed
    <3>3. blends' \in [ShowGens -> 0 .. MaxBlends] /\ blends'[s.gen] > 0
      BY <1>4, <1>6, <3>2, Bounds
    <3>4. session' = [[q EXCEPT !.phase = "fading"] EXCEPT !.token = TRUE]
      BY <2>2 DEF Armed
    <3>5. session' \in Session  BY <2>1, <3>4, SessionUpdate
    <3>6. /\ session'.gen = q.gen /\ session'.dims = q.dims /\ session'.shown = q.shown
          /\ session'.phase = "fading" /\ session'.t = q.t /\ session'.token
          /\ session'.load = FALSE
      BY <2>1, <3>4 DEF Session
    <3>7. GoesOn  BY <1>3, <2>1, <2>2, <3>3, <3>5, <3>6 DEF GoesOn
    <3> QED  BY <1>1, <1>8, <3>7, GoesOnStep
  <2>3. CASE /\ s.phase \notin {"awaiting", "captured"}
             /\ CommitShows([s EXCEPT !.load = FALSE, !.shown = TRUE])
             /\ reply' = IF s.shown THEN reply ELSE Granting(s.gen)
             /\ UNCHANGED blends
    <3> DEFINE r == [q EXCEPT !.shown = TRUE]
    <3>1. [s EXCEPT !.load = FALSE, !.shown = TRUE] = r  BY DEF q
    <3>2. /\ r \in Session /\ r.gen = s.gen /\ r.dims = s.dims /\ r.shown
          /\ r.phase = s.phase /\ r.t = s.t /\ r.token = s.token /\ r.load = FALSE
      <4>1. r \in Session  BY <2>1, SessionUpdate
      <4> QED  BY <2>1, <4>1 DEF Session
    <3> HIDE DEF r
    <3>3. CommitShows(r)  BY <2>3, <3>1
    <3>4. GoesOn
      BY <1>3, <1>4, <1>5, <2>3, <3>2, <3>3, Committing DEF GoesOn
    <3> QED  BY <1>1, <1>8, <3>4, GoesOnStep
  <2> QED  BY <1>8, <2>2, <2>3 DEF WakeDraws, q
<1>9. CASE RenderFails(s)
  BY <1>1, <1>6, <1>9, FailToBlackStep DEF RenderFails
<1> QED  BY <1>2, <1>7, <1>8, <1>9 DEF on_mpv_wakeup

LEMMA on_transition_tickStep == ASSUME IInv, on_transition_tick PROVE IInv'
<1>1. /\ Plays /\ session \in Session /\ session.gen \in ShowGens
      /\ session.token \in BOOLEAN /\ session.t \in Nat /\ session.t <= FadeTicks
      /\ session.phase # "idle" => session.t < FadeTicks
      /\ session.load = (session.phase = "captured")
      /\ session.phase = "fading" => session.token
      /\ session.token => blends[session.gen] > 0
      /\ blends \in [ShowGens -> 0 .. MaxBlends]
  <2>1. Plays /\ session \in Session  BY DEF on_transition_tick, IInv, SessionOK
  <2>2. /\ session.gen \in ShowGens /\ session.token \in BOOLEAN
        /\ session.t \in Nat /\ session.t <= FadeTicks
    BY <2>1, Bounds DEF Session
  <2> QED
    BY <2>1, <2>2 DEF IInv, SessionOK, Anchored, Promises, FadeIsDriven
<1>2. Unarmed(session) \in [ShowGens -> 0 .. MaxBlends]
  BY <1>1, UnarmedType DEF IInv, Promises
<1>3. CASE /\ session.phase = "fading" /\ session.t + 1 < FadeTicks
           /\ CommitShows([session EXCEPT !.t = session.t + 1])
           /\ UNCHANGED blends /\ UNCHANGED reply /\ Smooth /\ Alone
  <2> DEFINE s == [session EXCEPT !.t = session.t + 1]
  <2>1. session.t + 1 \in 0 .. FadeTicks  BY <1>1, <1>3, Bounds
  <2>2. s \in Session  BY <1>1, <2>1, SessionUpdate
  <2>3. /\ s.gen = session.gen /\ s.dims = session.dims /\ s.shown = session.shown
        /\ s.phase = session.phase /\ s.t = session.t + 1 /\ s.token = session.token
        /\ s.load = session.load
    BY <1>1 DEF Session
  <2> HIDE DEF s
  <2>4. CommitShows(s)  BY <1>3 DEF s
  <2>5. GoesOn  BY <1>1, <1>3, <2>2, <2>3, <2>4, Committing DEF GoesOn
  <2> QED  BY <1>1, <1>3, <2>5, GoesOnStep
<1>4. CASE /\ session.phase = "fading" /\ ~(session.t + 1 < FadeTicks)
           /\ CommitShows([session EXCEPT !.t = session.t + 1, !.phase = "idle",
                                          !.token = FALSE])
           /\ blends' = Unarmed(session) /\ UNCHANGED reply /\ Smooth /\ Alone
  <2> DEFINE q == [session EXCEPT !.t = session.t + 1]
             s == [[q EXCEPT !.phase = "idle"] EXCEPT !.token = FALSE]
  <2>1. session.t + 1 \in 0 .. FadeTicks  BY <1>1, <1>4, Bounds
  <2>2. q \in Session  BY <1>1, <2>1, SessionUpdate
  <2>3. s \in Session  BY <2>2, SessionUpdate
  <2>4. /\ q.gen = session.gen /\ q.dims = session.dims /\ q.shown = session.shown
        /\ q.load = session.load
    BY <1>1 DEF Session
  <2>5. CommitShows(s)  BY <1>4
  <2> HIDE DEF q
  <2>6. /\ s.gen = q.gen /\ s.dims = q.dims /\ s.shown = q.shown
        /\ s.phase = "idle" /\ ~s.token /\ s.load = q.load
    BY <2>2 DEF Session
  <2> HIDE DEF s
  <2>7. GoesOn
    BY <1>1, <1>2, <1>4, <2>3, <2>4, <2>5, <2>6, Committing DEF GoesOn
  <2> QED  BY <1>1, <1>4, <2>7, GoesOnStep
<1>5. CASE /\ session.phase # "fading" /\ CommitShows(session)
           /\ UNCHANGED <<reply, blends>> /\ Smooth /\ Alone
  <2>1. GoesOn  BY <1>1, <1>5, Committing DEF GoesOn
  <2> QED  BY <1>1, <1>5, <2>1, GoesOnStep
<1>6. CASE RenderFails(session)
  BY <1>1, <1>2, <1>6, FailToBlackStep DEF RenderFails
<1> QED  BY <1>3, <1>4, <1>5, <1>6 DEF on_transition_tick

LEMMA BufferReleasedStep == ASSUME IInv, BufferReleased PROVE IInv'
<1>1. Plays /\ session \in Session  BY DEF BufferReleased, IInv, SessionOK
<1>2. session' \in Session
  BY <1>1, SessionUpdate DEF BufferReleased
<1>3. /\ session'.gen = session.gen /\ session'.dims = session.dims
      /\ session'.shown = session.shown /\ session'.phase = session.phase
      /\ session'.t = session.t /\ session'.token = session.token
      /\ session'.load = session.load
  BY <1>1 DEF BufferReleased, Session
<1>4. UNCHANGED <<reply, content, drawn, blends>> /\ Smooth /\ Alone
  BY DEF BufferReleased
<1>5. GoesOn
  <2>1. /\ session.phase # "idle" => session.t < FadeTicks
        /\ session.load = (session.phase = "captured")
        /\ session.phase = "fading" => session.token
        /\ session.token => blends[session.gen] > 0
        /\ blends \in [ShowGens -> 0 .. MaxBlends]
    BY <1>1 DEF IInv, SessionOK, Anchored, Promises, FadeIsDriven
  <2> QED  BY <1>2, <1>3, <1>4, <2>1 DEF GoesOn
<1> QED  BY <1>1, <1>4, <1>5, GoesOnStep

-----------------------------------------------------------------------------
(* The theorems *)

LEMMA Initially == ASSUME RenderInit PROVE IInv
<1>1. Newest = 0  BY DEF RenderInit, Newest
<1>2. ~Plays  BY DEF RenderInit, Plays
<1>3. ShowsOK
  <2>1. asked \in Seq({"black", "saver"})  BY DEF RenderInit
  <2>2. reply \in [1 .. 0 -> Replies]  BY DEF RenderInit
  <2> QED  BY <1>1, <2>1, <2>2, Bounds DEF RenderInit, ShowsOK
<1>4. PictureOK
  <2>1. 0 \in 0 .. MaxUpsets  BY Bounds
  <2> QED  BY <2>1 DEF RenderInit, PictureOK
<1>5. SessionOK  BY <1>2, Bounds DEF RenderInit, SessionOK
<1>6. Waits  BY <1>1, <1>2 DEF RenderInit, Waits
<1>7. Anchored  BY <1>2 DEF RenderInit, Anchored
<1>8. Promises
  BY <1>1, <1>2
     DEF RenderInit, Promises, NothingOutlivesTeardown, ConfirmedBlackIsBlack,
         NoFrozenFrame, FadeIsDriven, ShownFits, NextOverlayHears
<1> QED  BY <1>3, <1>4, <1>5, <1>6, <1>7, <1>8 DEF IInv

LEMMA Stutters == ASSUME IInv, UNCHANGED renderVars PROVE IInv'
<1>1. ShowsOK' /\ SessionOK' /\ Waits' /\ Anchored'
  BY DEF IInv, renderVars, ShowsOK, SessionOK, Waits, Anchored, Plays, Newest
<1>2. PictureOK'  BY DEF IInv, renderVars, PictureOK
<1>3. Promises'
  BY DEF IInv, renderVars, Promises, Plays, NothingOutlivesTeardown,
         ConfirmedBlackIsBlack, NoFrozenFrame, FadeIsDriven, ShownFits,
         NextOverlayHears, Newest
<1> QED  BY <1>1, <1>2, <1>3 DEF IInv

\* Every command, event, wakeup and timer of state.rs keeps the invariant.
THEOREM Invariance == RenderSpec => []IInv
<1>1. RenderInit => IInv  BY Initially
<1>2. IInv /\ [RenderNext]_renderVars => IInv'
  <2> SUFFICES ASSUME IInv, [RenderNext]_renderVars PROVE IInv'  OBVIOUS
  <2>1. CASE \E kind \in {"black", "saver"} : ShowUnplugged(kind) \/ ShowOnNew(kind)
    BY <2>1, ShowUnpluggedStep, ShowOnNewStep
  <2>2. CASE ShowBlack  BY <2>2, ShowBlackStep
  <2>3. CASE ShowSaver  BY <2>3, ShowSaverStep
  <2>4. CASE Teardown \/ Reassert  BY <2>4, TeardownStep, ReassertStep
  <2>5. CASE \E s \in made : Closed(s)  BY <2>5, ClosedStep
  <2>6. CASE \E s \in made, dims \in Sizes : ConfigurePending(s, dims)
    BY <2>6, ConfigurePendingStep
  <2>7. CASE \E s \in made, dims \in Sizes : ConfigureLive(s, dims)
    BY <2>7, ConfigureLiveStep
  <2>8. CASE OutputDestroyed \/ OutputReturns \/ Input
    BY <2>8, OutputDestroyedStep, OutputReturnsStep, InputStep
  <2>9. CASE \E g \in ShowGens : ConfigureExpires(g)  BY <2>9, ConfigureExpiresStep
  <2>10. CASE FirstFrameExpires \/ ItemLoadExpires  BY <2>10, DeadlineStep
  <2>11. CASE BufferReleased  BY <2>11, BufferReleasedStep
  <2>12. CASE \E batch \in Batches : on_mpv_wakeup(batch)  BY <2>12, on_mpv_wakeupStep
  <2>13. CASE on_transition_tick  BY <2>13, on_transition_tickStep
  <2>14. CASE UNCHANGED renderVars  BY <2>14, Stutters
  <2> QED
    BY <2>1, <2>2, <2>3, <2>4, <2>5, <2>6, <2>7, <2>8, <2>9, <2>10, <2>11, <2>12,
       <2>13, <2>14 DEF RenderNext
<1> QED  BY <1>1, <1>2, PTL DEF RenderSpec

\* The overlay thread keeps its promises (OverlayIsHonest), whatever the order in
\* which the commands of the sink, the events of the compositor, mpv and the
\* timers reach the handlers of state.rs.
THEOREM Honest == RenderSpec => []OverlayIsHonest
<1>1. IInv => OverlayIsHonest
  <2> SUFFICES ASSUME IInv PROVE OverlayIsHonest  OBVIOUS
  <2>1. RenderTypeOK
    BY DEF IInv, ShowsOK, PictureOK, SessionOK, RenderTypeOK, Newest, Replies, Plays
  <2>2. OneShowWaits
    <3>1. DOMAIN reply = 1 .. Newest /\ pending \in 0 .. Newest  BY DEF IInv, ShowsOK
    <3>2. \A g \in 1 .. Newest : g # 0  BY DEF IInv, ShowsOK
    <3> DEFINE waiting == {g \in DOMAIN reply : reply[g] = "waiting"}
    <3>3. waiting \subseteq HeldByPending \cup HeldBySession
      BY <3>1, <3>2 DEF IInv, Waits, HeldByPending, HeldBySession
    <3>4. HeldByPending \cup HeldBySession \subseteq waiting
      <4>1. HeldByPending \subseteq 1 .. Newest
        BY DEF IInv, ShowsOK, HeldByPending
      <4>2. HeldBySession \subseteq 1 .. Newest
        BY DEF IInv, Anchored, HeldBySession
      <4> QED
        BY <3>1, <4>1, <4>2 DEF IInv, Waits, HeldByPending, HeldBySession
    <3>5. waiting \subseteq {Newest}  BY <3>1 DEF IInv, Waits
    <3> QED  BY <3>3, <3>4, <3>5 DEF OneShowWaits
  <2> QED  BY <2>1, <2>2 DEF IInv, Promises, OverlayIsHonest
<1> QED  BY <1>1, Invariance, PTL

\* A configure timer that is late fails its own show and no other
\* (should_fail_timeout).
THEOREM OwnTimeouts == RenderSpec => TimeoutsAreOwn
<1> DEFINE Own == \A g \in configures \ configures' : \A h \in DOMAIN reply \ {g} :
                     reply'[h] = reply[h]
<1>1. IInv /\ [RenderNext]_renderVars => [Own]_renderVars
  <2> SUFFICES ASSUME IInv, RenderNext PROVE Own  OBVIOUS
  <2>1. configures \subseteq configures' \/ \E g \in ShowGens : ConfigureExpires(g)
    BY DEF RenderNext, ShowUnplugged, ShowOnNew, ShowBlack, ShowSaver, Asks, Teardown,
           Reassert, Closed, ConfigurePending, ConfigureLive, OutputDestroyed,
           OutputReturns, Input, FirstFrameExpires, ItemLoadExpires, BufferReleased,
           on_mpv_wakeup, on_transition_tick, FailToBlack, RenderFails, Alone
  <2>2. CASE configures \subseteq configures'  BY <2>2
  <2>3. ASSUME NEW g \in ShowGens, ConfigureExpires(g) PROVE Own
    <3>1. configures \ configures' \subseteq {g}  BY <2>3 DEF ConfigureExpires
    <3>2. \A h \in DOMAIN reply \ {g} : reply'[h] = reply[h]
      <4>1. CASE pending = g
        <5>1. reply' = Failing({g})
          BY <2>3, <4>1 DEF ConfigureExpires, should_fail_timeout
        <5> QED  BY <5>1 DEF Failing
      <4>2. CASE pending # g
        BY <2>3, <4>2 DEF ConfigureExpires, should_fail_timeout
      <4> QED  BY <4>1, <4>2
    <3> QED  BY <3>1, <3>2
  <2> QED  BY <2>1, <2>2, <2>3
<1> QED  BY <1>1, Invariance, PTL DEF RenderSpec, TimeoutsAreOwn

===============================================================================
