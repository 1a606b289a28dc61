----------------------------- MODULE MCDisplay ------------------------------
(* Instances of DisplayRuntime for TLC.                                    *)
EXTENDS DisplayProperties

Controller == [render |-> FALSE, dwell |-> None]
ControllerOnly == <<Controller>>
ScreensaverThenPower == <<[render |-> TRUE, dwell |-> 2], Controller>>
=============================================================================
