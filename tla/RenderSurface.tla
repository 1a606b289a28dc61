---------------------------- MODULE RenderSurface ----------------------------
(***************************************************************************)
(* The Wayland thread of one display's render sink                         *)
(* (crates/dormant-render/src/linux/state.rs and connection.rs).  One      *)
(* calloop loop runs every handler to its end: the commands of the sink,   *)
(* the events of the compositor, the wakeups of mpv and the timers.        *)
(*                                                                         *)
(* A show is named by its gen, which is its place in the order of shows    *)
(* (the machine bumps stage_gen for each), and the surface a show creates  *)
(* by the gen of that show.  The black buffer is the shm one: the          *)
(* single-pixel buffer cannot fail and scales.  TransitionMode::None is a  *)
(* session to which mpv reports no item.  Left out: pixels, pixel shift,   *)
(* item reports, cursors.                                                  *)
(***************************************************************************)
EXTENDS Integers, FiniteSets, Sequences

CONSTANTS
  MaxShows,      \* bound: shows over the life of the thread
  FadeTicks,     \* blend ticks that a fade takes
  MaxBlends,     \* bound: blend timers that are armed for one session
  MaxUpsets,     \* bound: failed allocations and renders, closes, unpluggings,
                 \*   resizes of the live surface
  Sizes,         \* the sizes a compositor configures
  NoSession      \* no screensaver plays

ASSUME RenderAssumption ==
  /\ MaxShows \in Nat /\ FadeTicks \in Nat \ {0} /\ MaxBlends \in Nat \ {0}
  /\ MaxUpsets \in Nat
  /\ Sizes \subseteq Nat \ {0} /\ Sizes # {}

VARIABLES
  asked,      \* the kinds of the shows so far; a gen is an index
  reply,      \* reply[g]: what the sink of show g has been told
  made,       \* surfaces that were created
  pending,    \* pending_show: the show that waits for its configure, or 0
  live,       \* layer_surface (surface_up): the live surface, or 0
  size,       \* configured_size of the live surface, or 0
  black,      \* black_buffer: its size, or 0
  content,    \* what the live surface shows
  drawn,      \* the size of the buffer it shows, or 0
  session,    \* screensaver_session
  configures, \* gens whose configure timer is armed
  blends,     \* blends[g]: armed blend timers of session g
  plugged,    \* whether the output is there
  consumed,   \* FirstInputLatch
  wanted,     \* history: a show has come since the last teardown
  resized,    \* history: the live surface was resized since its last show
  stuck,      \* history: a black buffer or an install failed on it since
  upsets      \* how much of MaxUpsets is used up

renderVars == <<asked, reply, made, pending, live, size, black, content, drawn,
                session, configures, blends, plugged, consumed, wanted, resized,
                stuck, upsets>>

ShowGens == 1 .. MaxShows

\* back and front are buffers_busy of the buffer that is rendered next and of
\* the other one; token is timer_token, load the item-load deadline.
Session ==
  [gen : ShowGens, shown : BOOLEAN, dims : Sizes, back : BOOLEAN, front : BOOLEAN,
   phase : {"idle", "captured", "awaiting", "fading"}, t : 0 .. FadeTicks,
   token : BOOLEAN, load : BOOLEAN]

ASSUME SessionAssumption == NoSession \notin Session   \* Option::None

RenderTypeOK ==
  /\ asked \in Seq({"black", "saver"}) /\ Len(asked) <= MaxShows
  /\ reply \in [1 .. Len(asked) -> {"waiting", "ok", "err"}]
  /\ made \subseteq 1 .. Len(asked)
  /\ pending \in made \cup {0} /\ live \in made \cup {0}
  /\ {size, black, drawn} \subseteq Sizes \cup {0}
  /\ content \in {"none", "black", "blank", "frame"}
  /\ session = NoSession \/ session \in Session
  /\ configures \subseteq 1 .. Len(asked)
  /\ blends \in [ShowGens -> 0 .. MaxBlends]
  /\ {plugged, consumed, wanted, resized, stuck} \subseteq BOOLEAN
  /\ upsets \in 0 .. MaxUpsets

RenderInit ==
  /\ asked = <<>> /\ reply = <<>> /\ made = {}
  /\ pending = 0 /\ live = 0 /\ size = 0 /\ black = 0
  /\ content = "none" /\ drawn = 0 /\ session = NoSession
  /\ configures = {} /\ blends = [g \in ShowGens |-> 0]
  /\ plugged = TRUE /\ consumed = FALSE
  /\ wanted = FALSE /\ resized = FALSE /\ stuck = FALSE /\ upsets = 0

-----------------------------------------------------------------------------
(* Small helpers.                                                          *)

Newest == Len(asked)
Upsets(n) == upsets + n <= MaxUpsets /\ upsets' = upsets + n
Upset == Upsets(1)
Smooth == UNCHANGED upsets
Plays == session # NoSession

\* The show whose reply the session still holds.
HeldBySession == IF Plays THEN IF session.shown THEN {} ELSE {session.gen} ELSE {}
HeldByPending == {pending} \ {0}

\* A reply that is sent, or dropped, which the sink turns into an error.
Failing(set) == [g \in DOMAIN reply |-> IF g \in set THEN "err" ELSE reply[g]]
Granting(g) == [reply EXCEPT ![g] = "ok"]

\* destroy_screensaver_session removes the blend timer the session has a token
\* of, and its first-frame and item-load timers with the fields that stand for
\* them.
Unarmed(s) == IF s.token THEN [blends EXCEPT ![s.gen] = @ - 1] ELSE blends
Ends(s) == session' = NoSession /\ blends' = Unarmed(s)
DestroySession == IF Plays THEN Ends(session) ELSE UNCHANGED <<session, blends>>

NoSurface ==
  /\ live' = 0 /\ size' = 0 /\ black' = 0 /\ content' = "none" /\ drawn' = 0
  /\ consumed' = FALSE /\ resized' = FALSE /\ stuck' = FALSE

\* destroy_surface, up to the replies it drops.
DestroySurface == pending' = 0 /\ DestroySession /\ NoSurface

\* black_buffer_needs_rebuild
Rebuilds == black # size

\* swap_surface_to_black with the buffer at hand, or without one.
BlackSwapped ==
  /\ black' = size /\ content' = "black" /\ drawn' = size
  /\ stuck' = FALSE
NoBlack == Rebuilds /\ black' = 0 /\ stuck' = TRUE /\ UNCHANGED <<content, drawn>>

\* fail_screensaver_to_black, which keeps the surface.
FailToBlack(s, upset) ==
  /\ \/ BlackSwapped /\ Upsets(upset)
     \/ Upsets(upset + 1) /\ NoBlack
  /\ Ends(s)
  /\ reply' = Failing(HeldBySession)
  /\ UNCHANGED <<asked, made, pending, live, size, configures, plugged,
                 consumed, wanted, resized>>

\* A render error of mpv ends the session.
RenderFails(s) == FailToBlack(s, 1)

\* complete_screensaver_show installs the session of show g on a surface of
\* the given size, and puts its zeroed first buffer on it.
Installed(g, dims) ==
  /\ session' = [gen |-> g, shown |-> FALSE, dims |-> dims, back |-> FALSE,
                 front |-> TRUE, phase |-> "idle", t |-> 0, token |-> FALSE,
                 load |-> FALSE]
  /\ blends' = IF Plays THEN Unarmed(session) ELSE blends
  /\ content' = "blank" /\ drawn' = dims
  /\ resized' = FALSE /\ stuck' = FALSE

-----------------------------------------------------------------------------
(* The commands.  The configure timer of a show is armed before the show   *)
(* is handled, whether or not a configure will come.                       *)

Asks(kind, lost, verdict) ==
  /\ Newest < MaxShows
  /\ asked' = Append(asked, kind)
  /\ reply' = Append(Failing(lost), verdict)
  /\ configures' = configures \cup {Newest + 1}
  /\ wanted' = TRUE
  /\ UNCHANGED plugged

\* locate_target_output fails, before or after the latch is reset.
ShowUnplugged(kind) ==
  /\ ~plugged
  /\ Asks(kind, {}, "err")
  /\ consumed' = (kind = "black" /\ consumed)
  /\ UNCHANGED <<made, pending, live, size, black, content, drawn, session,
                 blends, resized, stuck, upsets>>

\* Without a live surface, a black show tears down what is left first; a
\* screensaver show only replaces the pending one.
ShowOnNew(kind) ==
  /\ plugged /\ live = 0
  /\ Asks(kind, HeldByPending, "waiting")
  /\ made' = made \cup {Newest + 1} /\ pending' = Newest + 1
  /\ consumed' = FALSE
  /\ UNCHANGED <<live, size, black, content, drawn, session, blends, resized,
                 stuck, upsets>>

\* handle_show: the content is swapped, and the surface stays.
ShowBlack ==
  /\ plugged /\ live # 0
  /\ \/ BlackSwapped /\ Smooth /\ resized' = FALSE
        /\ Asks("black", HeldBySession, "ok")
     \/ Upset /\ NoBlack /\ UNCHANGED resized
        /\ Asks("black", HeldBySession, "err")
  /\ DestroySession
  /\ consumed' = FALSE
  /\ UNCHANGED <<made, pending, live, size>>

\* handle_show_screensaver: the session that plays is destroyed first, so an
\* install that fails leaves its last frame, or the zeroed buffer of the next.
ShowSaver ==
  /\ plugged /\ live # 0
  /\ \/ Installed(Newest + 1, size) /\ Smooth
        /\ Asks("saver", HeldBySession, "waiting")
     \/ Upset /\ DestroySession
        /\ \/ content' = "blank" /\ drawn' = size
           \/ UNCHANGED <<content, drawn>>
        /\ stuck' = TRUE /\ UNCHANGED resized
        /\ Asks("saver", HeldBySession, "err")
  /\ consumed' = FALSE
  /\ UNCHANGED <<made, pending, live, size, black>>

Teardown ==
  /\ DestroySurface
  /\ reply' = Failing(HeldByPending \cup HeldBySession)
  /\ wanted' = FALSE
  /\ UNCHANGED <<asked, made, configures, plugged, upsets>>

\* handle_reassert_overlay
Reassert ==
  /\ consumed' = FALSE
  /\ UNCHANGED <<asked, reply, made, pending, live, size, black, content, drawn,
                 session, configures, blends, plugged, wanted, resized, stuck, upsets>>

-----------------------------------------------------------------------------
(* The events of the compositor, which may concern a surface of the past. *)

surface_match(s) ==
  IF s = pending THEN "pending" ELSE IF s = live THEN "live" ELSE "stale"

\* complete_pending_show
ConfigurePending(s, dims) ==
  /\ surface_match(s) = "pending"
  /\ pending' = 0
  /\ \/ /\ live' = pending /\ size' = dims
        /\ \/ /\ asked[pending] = "black"
              /\ black' = dims /\ content' = "black" /\ drawn' = dims
              /\ resized' = FALSE /\ stuck' = FALSE
              /\ reply' = Granting(pending)
              /\ UNCHANGED <<session, blends>>
           \/ /\ asked[pending] = "saver"
              /\ Installed(pending, dims)
              /\ UNCHANGED <<reply, black>>
        /\ Smooth
     \/ /\ Upset
        /\ reply' = Failing({pending})
        /\ UNCHANGED <<live, size, black, content, drawn, session, blends,
                       resized, stuck>>
  /\ UNCHANGED <<asked, made, configures, plugged, consumed, wanted>>

\* The live arm of configure keeps the buffers.
ConfigureLive(s, dims) ==
  /\ surface_match(s) = "live"
  /\ dims # size /\ Upset
  /\ size' = dims /\ resized' = TRUE
  /\ UNCHANGED <<asked, reply, made, pending, live, black, content, drawn,
                 session, configures, blends, plugged, consumed, wanted, stuck>>

Closed(s) ==
  /\ Upset
  /\ \/ /\ surface_match(s) = "pending"
        /\ pending' = 0
        /\ reply' = Failing({pending})
        /\ UNCHANGED <<live, size, black, content, drawn, session, blends,
                       consumed, resized, stuck>>
     \/ /\ surface_match(s) = "live"
        /\ DestroySession /\ NoSurface
        /\ reply' = Failing(HeldBySession)
        /\ UNCHANGED pending
  /\ UNCHANGED <<asked, made, configures, plugged, wanted>>

OutputDestroyed ==
  /\ plugged /\ Upset
  /\ plugged' = FALSE
  /\ DestroySurface
  /\ reply' = Failing(HeldByPending \cup HeldBySession)
  /\ UNCHANGED <<asked, made, configures, wanted>>

OutputReturns ==
  /\ ~plugged /\ plugged' = TRUE
  /\ UNCHANGED <<asked, reply, made, pending, live, size, black, content, drawn,
                 session, configures, blends, consumed, wanted, resized, stuck, upsets>>

\* Only the first input on a live surface is reported.
Input ==
  /\ live # 0 /\ ~consumed
  /\ consumed' = TRUE
  /\ UNCHANGED <<asked, reply, made, pending, live, size, black, content, drawn,
                 session, configures, blends, plugged, wanted, resized, stuck, upsets>>

-----------------------------------------------------------------------------
(* The deadlines of a show.                                                *)

ShouldFailAny(g) == pending # 0    \* mutated: the gen is not compared
should_fail_timeout(g) == pending = g

ConfigureExpires(g) ==
  /\ g \in configures
  /\ configures' = configures \ {g}
  /\ IF should_fail_timeout(g)
     THEN reply' = Failing({pending}) /\ pending' = 0
     ELSE UNCHANGED <<reply, pending>>
  /\ UNCHANGED <<asked, made, live, size, black, content, drawn, session, blends,
                 plugged, consumed, wanted, resized, stuck, upsets>>

FirstFrameExpiresOnNew ==    \* mutated: a show on a surface that is up has none
  Plays /\ ~session.shown /\ session.gen \in made /\ FailToBlack(session, 0)

\* Removed at the first frame and with the session.
FirstFrameExpires == Plays /\ ~session.shown /\ FailToBlack(session, 0)

-----------------------------------------------------------------------------
(* The session: frames, and the crossfade between two items.               *)

Alone == UNCHANGED <<asked, made, pending, live, size, black, configures, plugged,
                     consumed, wanted, resized, stuck>>

\* transition_step for an item event.
transition_step(phase, event) ==
  IF event = "ended" THEN "captured"
  ELSE IF phase = "captured" THEN "awaiting" ELSE phase

\* process_mpv_events, of which the last event and whether an item ended in the
\* batch tell the phase.  The drop of the timer forgets its token, so the
\* cancelling that follows in on_mpv_wakeup finds nothing to remove and the
\* timer goes on.
process_mpv_events(batch) ==
  LET ended    == \E k \in DOMAIN batch : batch[k] = "ended"
      captures == ended /\ session.phase \in {"idle", "fading"}
      before   == IF ended THEN "captured" ELSE session.phase
  IN  [session EXCEPT
         !.phase = IF batch = <<>> THEN @ ELSE transition_step(before, batch[Len(batch)]),
         !.t     = IF captures THEN 0 ELSE @,
         !.token = IF captures THEN FALSE ELSE @]

Batches == {<<>>, <<"ended">>, <<"loaded">>, <<"ended", "loaded">>, <<"loaded", "ended">>}

\* The back buffer goes to the compositor.
Committed(s) == [s EXCEPT !.back = s.front, !.front = TRUE]

CommitShows(s) ==
  /\ session' = Committed(s)
  /\ content' = "frame" /\ drawn' = s.dims

\* arm_or_rearm_transition_timer, on the arming wakeup.
Armed(s) ==
  /\ Unarmed(s)[s.gen] < MaxBlends
  /\ blends' = [Unarmed(s) EXCEPT ![s.gen] = @ + 1]
  /\ session' = [s EXCEPT !.phase = "fading", !.token = TRUE]

WakeWaitsForLoad(s) ==    \* mutated: the wait for the next item has no deadline
  \/ s.phase = "captured" /\ session' = s
  \/ s.phase # "captured" /\ s.back /\ session' = [s EXCEPT !.load = FALSE]

WakeWaits(s) ==
  \/ s.phase = "captured" /\ session' = [s EXCEPT !.load = TRUE]
  \/ s.phase # "captured" /\ s.back /\ session' = [s EXCEPT !.load = FALSE]

WakeDraws(s) ==
  /\ s.phase # "captured" /\ ~s.back
  /\ \/ /\ s.phase = "awaiting"
        /\ Armed([s EXCEPT !.load = FALSE])
        /\ UNCHANGED <<reply, content, drawn>>
     \/ /\ s.phase # "awaiting"
        /\ CommitShows([s EXCEPT !.load = FALSE, !.shown = TRUE])
        /\ reply' = IF s.shown THEN reply ELSE Granting(s.gen)
        /\ UNCHANGED blends

on_mpv_wakeup(batch) ==
  /\ Plays
  /\ LET s == process_mpv_events(batch)
     IN  \/ WakeWaits(s) /\ UNCHANGED <<reply, content, drawn, blends>> /\ Smooth /\ Alone
         \/ WakeDraws(s) /\ Smooth /\ Alone
         \/ s.phase # "captured" /\ ~s.back /\ RenderFails(s)

\* on_transition_tick, for a timer of the session that plays; those of earlier
\* sessions do nothing.
on_transition_tick ==
  /\ Plays /\ blends[session.gen] > 0 /\ ~session.back
  /\ \/ /\ session.phase = "fading"
        /\ LET t == session.t + 1
           IN  IF t < FadeTicks
               THEN CommitShows([session EXCEPT !.t = t]) /\ UNCHANGED blends
               ELSE /\ CommitShows([session EXCEPT !.t = t, !.phase = "idle",
                                                   !.token = FALSE])
                    /\ blends' = Unarmed(session)
        /\ UNCHANGED reply /\ Smooth /\ Alone
     \/ /\ session.phase # "fading"
        /\ CommitShows(session)
        /\ UNCHANGED <<reply, blends>> /\ Smooth /\ Alone
     \/ RenderFails(session)

\* handle_item_load_timeout
ItemLoadExpires ==
  Plays /\ session.load /\ session.phase = "captured" /\ FailToBlack(session, 0)

BufferReleased ==
  /\ Plays
  /\ \/ session.back /\ session' = [session EXCEPT !.back = FALSE]
     \/ session.front /\ session' = [session EXCEPT !.front = FALSE]
  /\ UNCHANGED <<reply, content, drawn, blends>> /\ Smooth /\ Alone

-----------------------------------------------------------------------------
RenderNext ==
  \/ \E kind \in {"black", "saver"} : ShowUnplugged(kind) \/ ShowOnNew(kind)
  \/ ShowBlack \/ ShowSaver \/ Teardown \/ Reassert
  \/ \E s \in made : /\ \/ Closed(s)
                        \/ \E dims \in Sizes :
                             ConfigurePending(s, dims) \/ ConfigureLive(s, dims)
  \/ OutputDestroyed \/ OutputReturns \/ Input
  \/ \E g \in ShowGens : ConfigureExpires(g)
  \/ FirstFrameExpires \/ ItemLoadExpires \/ BufferReleased
  \/ \E batch \in Batches : on_mpv_wakeup(batch)
  \/ on_transition_tick

\* The loop dispatches the timers that are due.
RenderFairness ==
  /\ \A g \in ShowGens : WF_renderVars(ConfigureExpires(g))
  /\ WF_renderVars(FirstFrameExpires)

RenderSpec == RenderInit /\ [][RenderNext]_renderVars /\ RenderFairness

-----------------------------------------------------------------------------
(* Properties.                                                             *)

\* One show at a time is waited for, the newest, and somebody holds its reply:
\* whatever replaces, tears down, closes or fails a show answers it.
OneShowWaits ==
  LET waiting == {g \in DOMAIN reply : reply[g] = "waiting"}
  IN  /\ waiting = HeldByPending \cup HeldBySession
      /\ waiting \subseteq {Newest}

\* After a teardown nothing comes up or plays until the next show, however late
\* the configures, timers and wakeups of the shows before it are.
NothingOutlivesTeardown ==
  ~wanted => /\ pending = 0 /\ live = 0 /\ ~Plays
             /\ \A g \in DOMAIN reply : reply[g] # "waiting"

\* A black overlay that was confirmed stays black: no tick, wakeup or timer of an
\* earlier screensaver draws on it.
ConfirmedBlackIsBlack ==
  live # 0 /\ asked[Newest] = "black" /\ reply[Newest] = "ok"
    => content = "black" /\ ~Plays

\* A picture on the screen is one that a session goes on changing; a screensaver
\* that ended leaves black, unless the black buffer or an install failed.
NoFrozenFrame == content = "frame" => Plays \/ stuck

\* A fade that waits for its item has a deadline, and one that runs has a timer:
\* the picture of the last item does not stay for want of somebody to go on.
FadeIsDriven ==
  Plays => /\ session.load = (session.phase = "captured")
           /\ session.phase = "fading" => session.token
           /\ session.token => blends[session.gen] > 0

\* What is shown has the size of the surface, except after a resize that no
\* show has followed, or after a failure to build the black buffer.
ShownFits == live # 0 /\ ~resized /\ ~stuck => drawn = size

\* The latch of the next overlay is not used up by the input of the last one.
NextOverlayHears == live = 0 => ~consumed

\* The promises of the overlay thread as one invariant: the commands, the events
\* of the compositor, mpv and the timers reach state.rs in any order.
OverlayIsHonest ==
  /\ RenderTypeOK
  /\ OneShowWaits /\ NothingOutlivesTeardown /\ ConfirmedBlackIsBlack
  /\ NoFrozenFrame /\ FadeIsDriven /\ ShownFits /\ NextOverlayHears

\* A configure timeout fails no show but its own.
TimeoutsAreOwn ==
  [][\A g \in configures \ configures' : \A h \in DOMAIN reply \ {g} :
        reply'[h] = reply[h]]_renderVars

\* Every show is answered, by a configure, a first frame, a deadline, or whatever
\* came instead.
ShowIsAnswered ==
  \A g \in ShowGens :
    (g \in DOMAIN reply /\ reply[g] = "waiting") ~>
    (g \in DOMAIN reply /\ reply[g] # "waiting")
=============================================================================
