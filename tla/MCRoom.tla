------------------------------- MODULE MCRoom -------------------------------
(* What decides about a display: the sensors and zones of the house, the     *)
(* machine of the display, and the Wayland thread of its render sink.  They  *)
(* share no state here (the machine knows a zone as `zone' and the overlay   *)
(* as `surface'): one run checks them, and an initial state says which of    *)
(* them moves.                                                               *)
EXTENDS MCDisplay, RenderSurface, MCZones

VARIABLE part

RoomInit ==
  /\ Init /\ RenderInit /\ ZoneInit
  /\ part \in {"machine", "render", "zones"}
  /\ part # "machine" => ~ruled /\ d = New

RoomNext ==
  \/ part = "machine" /\ Next /\ UNCHANGED <<renderVars, zoneVars, part>>
  \/ part = "render" /\ RenderNext /\ UNCHANGED <<vars, zoneVars, part>>
  \/ part = "zones" /\ ZoneNext /\ UNCHANGED <<vars, renderVars, part>>

RoomSpec ==
  /\ RoomInit /\ [][RoomNext]_<<vars, renderVars, zoneVars, part>>
  /\ WF_vars(part = "machine" /\ TimerFires)
  /\ WF_vars(part = "machine" /\ TaskFinishes)
  /\ WF_vars(part = "machine" /\ TimePasses)
  /\ WF_vars(part = "machine" /\ OwnershipPoll)
  /\ SF_vars(part = "machine" /\ \E t \in d.tasks : WakeFinishes(t, TRUE))
  /\ SF_vars(part = "machine" /\ \E t \in d.tasks : BlankFinishes(t, TRUE))
  /\ \A g \in ShowGens : WF_renderVars(part = "render" /\ ConfigureExpires(g))
  /\ WF_renderVars(part = "render" /\ FirstFrameExpires)
=============================================================================
