----------------------------- MODULE CommandSink -----------------------------
(* What the rules engine may rely on of the CommandSink of one display       *)
(* (src/crates/dormant-core/src/traits.rs), whatever the controllers behind  *)
(* it do: every command is answered, once; a wake answers Ok only when no    *)
(* command was accepted after it; the controller that blanked the display is *)
(* known from the answer of the blank until the answer of a wake.            *)
EXTENDS Integers

CONSTANTS
    Commands,   \* the calls of blank, wake and wake_once that may be under way
    Chain,      \* the controllers of the display, in order of preference
    None

Kinds == {"blank", "wake", "wake_once"}

VARIABLES
    answer,      \* the state of each call
    kind,
    last,        \* the call accepted last
    superseded,  \* the calls accepted before it, while it was not there
    owner        \* the controller that blanked the display

sinkVars == <<answer, kind, last, superseded, owner>>

Init ==
    /\ answer = [c \in Commands |-> "idle"]
    /\ kind = [c \in Commands |-> "wake"]
    /\ last = None
    /\ superseded = {}
    /\ owner = None

Accept(c, k) ==
    /\ answer[c] # "running"
    /\ answer' = [answer EXCEPT ![c] = "running"]
    /\ kind' = [kind EXCEPT ![c] = k]
    /\ last' = c
    /\ superseded' = (superseded \cup {last}) \ {None, c}
    /\ UNCHANGED owner

Answer(c, a) ==
    /\ answer[c] = "running"
    /\ answer' = [answer EXCEPT ![c] = a]
    /\ UNCHANGED <<kind, last, superseded>>

Darken(c, i) == kind[c] = "blank" /\ Answer(c, "ok") /\ owner' = i

Lighten(c) ==
    /\ kind[c] # "blank"
    /\ c \notin superseded
    /\ Answer(c, "ok")
    /\ owner' \in {owner, None}

Refuse(c) == Answer(c, "failed") /\ UNCHANGED owner

\* A chain without controllers refuses a call at once.
RefuseAtOnce(c, k) ==
    /\ Chain = {}
    /\ answer[c] # "running"
    /\ answer' = [answer EXCEPT ![c] = "failed"]
    /\ kind' = [kind EXCEPT ![c] = k]
    /\ last' = c
    /\ superseded' = (superseded \cup {last}) \ {None, c}
    /\ UNCHANGED owner

Answers(c) == (\E i \in Chain : Darken(c, i)) \/ Lighten(c) \/ Refuse(c)

Next ==
    \E c \in Commands :
        (\E k \in Kinds : Accept(c, k) \/ RefuseAtOnce(c, k)) \/ Answers(c)

\* What it never does, and what it owes.
Safety == Init /\ [][Next]_sinkVars
Spec == Safety /\ \A c \in Commands : WF_sinkVars(Answers(c))
=============================================================================
