------------------------------ MODULE MCZones ------------------------------
(* An instance of ZoneFusion for TLC: the four modes, nested zones of both  *)
(* policies, a display that two zones drive and one with a zone of its own. *)
EXTENDS ZoneFusion

CONSTANTS radar, camera, near, far, both, house, tv, lamp

MCSensorOrder == <<radar, camera>>
MCHoldTime == (radar :> 1) @@ (camera :> Never)
MCStaleAfter == (radar :> 2) @@ (camera :> 1)
MCZones == {near, far, both, house}
MCMembers == (near :> {radar}) @@ (far :> {camera})
             @@ (both :> {radar, camera}) @@ (house :> {near, camera})
Mode(m, l, o) == [mode |-> m, least |-> l, outOf |-> o]
MCFusion == (near :> Mode("any", 1, 1)) @@ (far :> Mode("quorum", 1, 1))
            @@ (both :> Mode("all", 1, 1)) @@ (house :> Mode("weighted", 2, 3))
MCWeight == [z \in MCZones |-> [m \in {radar, camera} \cup MCZones |-> IF m = camera THEN 2 ELSE 1]]
MCPolicy == [z \in MCZones |-> IF z \in {far, house} THEN "absent" ELSE "present"]
MCRules == {"evening", "night", "away"}
MCRuleZone == [r \in MCRules |-> CASE r = "evening" -> house [] r = "night" -> both [] OTHER -> far]
MCRuleDisplays == [r \in MCRules |-> IF r = "away" THEN {lamp} ELSE {tv}]
=============================================================================
