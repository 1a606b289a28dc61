---------------------------- MODULE MCPanelPath ----------------------------
(* What lies behind the machine of a display: the executor, and the DDC/CI  *)
(* traffic below its controllers.  They share no state and are checked in   *)
(* one run, in which an initial state says which of them moves.  The        *)
(* controllers of two generations drive one panel.                          *)
EXTENDS DisplayExecutor, VcpBus

CONSTANTS desk, old, new

MCPanels == {desk}
MCVcps == {old, new}
MCPanelOf == [v \in MCVcps |-> desk]

VARIABLE part

PathInit == ExecInit /\ Init /\ part \in {"executor", "bus"}

PathNext ==
  \/ part = "executor" /\ ExecNext /\ UNCHANGED <<vars, part>>
  \/ part = "bus" /\ Next /\ UNCHANGED <<execVars, part>>

pathVars == <<vars, execVars, part>>

PathSpec ==
  /\ PathInit /\ [][PathNext]_pathVars
  /\ \A c \in Commands : WF_execVars(part = "executor" /\ Progress(c))
  /\ \A t \in Threads : /\ WF_vars(part = "bus" /\ Continues(t))
                        /\ SF_vars(part = "bus" /\ TakeGate(t))
  /\ \A p \in Panels : WF_vars(part = "bus" /\ \E t \in Threads :
                            pc[t] = "announced" /\ Panel(t) = p /\ LockPanel(t))

PathTypeOK == ExecTypeOK /\ TypeOK
=============================================================================
