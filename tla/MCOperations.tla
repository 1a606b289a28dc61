---------------------------- MODULE MCOperations ----------------------------
(* Instances of Operations for TLC: a display that a rule drives and one    *)
(* that is operated by hand.                                                *)
EXTENDS Operations

CONSTANTS desk, side, auto

MCRuleDisplays == [r \in Rules |-> {desk}]
MCRequests == {<<"exercise", desk>>, <<"emergency", Nobody>>,
               <<"pause", auto>>, <<"resume", Nobody>>}
=============================================================================
