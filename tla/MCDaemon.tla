----------------------------- MODULE MCDaemon -----------------------------
(* The boot guard, the operations and the coordination of the daemon, and   *)
(* the recovery of the gamma tables around its life.  They share no state:  *)
(* one run checks all, and an initial state says which of them moves.       *)
EXTENDS BootGuard, MCOperations, Coordination, GammaBlank

VARIABLE part

DaemonInit ==
  /\ BootInit /\ OpsInit /\ CoordInit /\ GammaInit
  /\ part \in {"boot", "operations", "coordination", "gamma"}
  /\ part # "boot" => config = Unreadable /\ lkg = None
  /\ part # "coordination" => input = "local"

DaemonNext ==
  \/ part = "boot" /\ BootNext /\ UNCHANGED <<opsVars, coordVars, gammaVars, part>>
  \/ part = "operations" /\ OpsNext /\ UNCHANGED <<bootVars, coordVars, gammaVars, part>>
  \/ part = "coordination" /\ CoordNext /\ UNCHANGED <<bootVars, opsVars, gammaVars, part>>
  \/ part = "gamma" /\ GammaNext /\ UNCHANGED <<bootVars, opsVars, coordVars, part>>

daemonVars == <<bootVars, opsVars, coordVars, gammaVars, part>>

DaemonSpec ==
  /\ DaemonInit /\ [][DaemonNext]_daemonVars
  /\ \A i \in Instances : /\ WF_bootVars(part = "boot" /\ BootStep(i))
                           /\ WF_bootVars(part = "boot" /\ CrashOfConfig(i))
  /\ WF_opsVars(part = "operations" /\ Progress)
  /\ WF_coordVars(part = "coordination" /\ PollReads)
  /\ WF_coordVars(part = "coordination" /\ PollAnswers)
  /\ WF_coordVars(part = "coordination" /\ HandleMessage)
  /\ WF_coordVars(part = "coordination" /\ TimePasses)
  /\ \A p \in Pulls : WF_coordVars(part = "coordination" /\ PullSteps(p))
  /\ WF_gammaVars(part = "gamma" /\ Launch(Supervised))
  /\ \A d \in Daemons : WF_gammaVars(part = "gamma" /\ Recovers(d))
  /\ \A s \in Screens : WF_gammaVars(part = "gamma" /\ TaskSteps(s))

DaemonTypeOK == BootTypeOK /\ OpsTypeOK /\ CoordTypeOK /\ GammaTypeOK
=============================================================================
