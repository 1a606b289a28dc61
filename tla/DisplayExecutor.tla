--------------------------- MODULE DisplayExecutor ---------------------------
(***************************************************************************)
(* The executor of one display (src/crates/dormant-displays/src/           *)
(* executor.rs): a chain of controllers in order of preference, the        *)
(* supersede token, and the blank owner in the registry that the executors *)
(* of a display share (blank_owner.rs).                                    *)
(*                                                                         *)
(* Calls run concurrently, each in a task of its own.  A step of a call is *)
(* the code between two of its awaits: of a controller's answer whether it *)
(* is available (after a reprobe, in the last pass), of a controller's     *)
(* blank or wake, and of the backoff between two rounds.  What a           *)
(* controller answers is its own affair: anything, at any time.            *)
(***************************************************************************)
EXTENDS Integers, Sequences, FiniteSets

CONSTANTS
    Commands,     \* bound: the calls that may be under way at once
    ChainLength,  \* the number of controllers
    WakeRetries,  \* RetrySettings::wake_retries
    Blanking,     \* the controllers that support the mode blank is asked for
    Nothing

Chain == 1..ChainLength

ASSUME ChainAssumption ==
    /\ ChainLength \in Nat /\ WakeRetries \in Nat
    /\ Blanking \subseteq Chain
    /\ Nothing \notin Commands \cup Int

CallKinds == {"blank", "wake", "wake_once"}

VARIABLES
    cmd,        \* the calls
    current,    \* DisplayExecutor::supersede: whose token it holds
    cancelled,  \* the calls whose token is cancelled
    owner,      \* BlankOwnerRegistry::owner
    dark        \* the controllers that keep the panel dark

execVars == <<cmd, current, cancelled, owner, dark>>

Idle == [kind |-> "wake", pc |-> "idle", pass |-> 0, pos |-> 1,
         owner |-> Nothing, landed |-> FALSE, beside |-> FALSE]

Calls ==
    [kind   : CallKinds,
     pc     : {"idle", "probe", "call", "backoff", "ok", "failed"},
     pass   : 0..WakeRetries + 1,
     pos    : 1..ChainLength + 1,
     owner  : Chain \cup {Nothing},   \* read once, before the first round
     landed : BOOLEAN,             \* the command has reached the panel
     beside : BOOLEAN]             \* history: accepted while a blank was under way

ExecTypeOK ==
    /\ cmd \in [Commands -> Calls]
    /\ current \in Commands \cup {Nothing}
    /\ cancelled \subseteq Commands
    /\ owner \in Chain \cup {Nothing}
    /\ dark \subseteq Chain

ExecInit ==
    /\ cmd = [c \in Commands |-> Idle]
    /\ current = Nothing
    /\ cancelled = {}
    /\ owner = Nothing
    /\ dark = {}

Running(c) == cmd[c].pc \in {"probe", "call", "backoff"}

-----------------------------------------------------------------------------
(* The passes of a call: its rounds, then one pass after reprobing *)

Rounds(call) == IF call.kind = "wake" THEN WakeRetries + 1 ELSE 1
ReprobingLate(call) == call.pass > Rounds(call)    \* mutated: a round too many
Reprobing(call) == call.pass = Rounds(call)

OwnerFirstOrder(o) ==
    IF o = Nothing THEN [i \in Chain |-> i]
    ELSE [i \in Chain |-> IF i = 1 THEN o ELSE IF i <= o THEN i - 1 ELSE i]

\* A blank, and the pass after reprobing, go through the chain in order.
Order(call) ==
    IF call.kind = "blank" \/ Reprobing(call) THEN [i \in Chain |-> i]
    ELSE OwnerFirstOrder(call.owner)

Target(call) == Order(call)[call.pos]
IsOwnerAttempt(call) == call.kind # "blank" /\ call.owner = Target(call)
Superseded(c, call) == call.kind # "blank" /\ c \in cancelled

\* Of a call that is over its answer remains.
Over(call, answer) == [Idle EXCEPT !.kind = call.kind, !.pc = answer]

\* The call at the place it has come to: after the last controller of a pass
\* the next pass, or the end.
Proceed(c, call) ==
    CASE call.pos > ChainLength /\ Reprobing(call) -> Over(call, "failed")
      [] call.pos > ChainLength /\ ~Reprobing(call) ->
            [call EXCEPT !.pass = @ + 1, !.pos = 1,
                         !.pc = IF call.pass + 1 < Rounds(call) THEN "backoff"
                                ELSE "probe"]
      [] call.pos <= ChainLength /\ Reprobing(call) -> [call EXCEPT !.pc = "probe"]
      [] call.pos <= ChainLength /\ ~Reprobing(call) ->
            IF Superseded(c, call) THEN Over(call, "failed")
            ELSE [call EXCEPT !.pc = IF IsOwnerAttempt(call) THEN "call" ELSE "probe"]

NextTarget(c, call) == Proceed(c, [call EXCEPT !.pos = @ + 1, !.landed = FALSE])

-----------------------------------------------------------------------------
(* blank, wake and wake_once *)

BlankRuns == \E c \in Commands : cmd[c].kind = "blank" /\ Running(c)

\* rotate_supersede; a wake reads the owner.
Start(c, kind) ==
    LET call == [Idle EXCEPT !.kind = kind, !.beside = BlankRuns,
                             !.owner = IF kind = "blank" THEN Nothing ELSE owner]
    IN  /\ ~Running(c)
        /\ cancelled' = (cancelled \cup {current}) \ {Nothing, c}
        /\ current' = c
        /\ cmd' = [cmd EXCEPT ![c] =
                    IF ChainLength = 0 THEN Over(call, "failed")
                    ELSE IF call.owner # Nothing THEN [call EXCEPT !.pc = "call"]
                    ELSE [call EXCEPT !.pc = "probe"]]
        /\ UNCHANGED <<owner, dark>>

\* The controller has answered is_available.  In the pass after reprobing a
\* wake looks at its token here, and tries the owner whatever was answered.
ProbeAnswers(c, available) ==
    LET call == cmd[c]
        eligible == IF call.kind = "blank"
                    THEN available /\ Target(call) \in Blanking
                    ELSE available \/ IsOwnerAttempt(call)
    IN  /\ call.pc = "probe"
        /\ cmd' = [cmd EXCEPT ![c] =
                    IF ~eligible THEN NextTarget(c, call)
                    ELSE IF Reprobing(call) /\ Superseded(c, call)
                         THEN Over(call, "failed")
                    ELSE [call EXCEPT !.pc = "call"]]
        /\ UNCHANGED <<current, cancelled, owner, dark>>

\* The command reaches the panel, some time before the controller answers.
CommandLands(c) ==
    /\ cmd[c].pc = "call" /\ ~cmd[c].landed
    /\ cmd' = [cmd EXCEPT ![c].landed = TRUE]
    /\ dark' = IF cmd[c].kind = "blank" THEN dark \cup {Target(cmd[c])}
               ELSE dark \ {Target(cmd[c])}
    /\ UNCHANGED <<current, cancelled, owner>>

CallFails(c) ==
    /\ cmd[c].pc = "call"
    /\ cmd' = [cmd EXCEPT ![c] = NextTarget(c, @)]
    /\ UNCHANGED <<current, cancelled, owner, dark>>

BlankSucceeds(c) ==
    /\ cmd[c].kind = "blank" /\ cmd[c].pc = "call" /\ cmd[c].landed
    /\ owner' = Target(cmd[c])                      \* record
    /\ cmd' = [cmd EXCEPT ![c] = Over(@, "ok")]
    /\ UNCHANGED <<current, cancelled, dark>>

\* Mutated: the token is not looked at again once the controller has answered.
WakeSucceedsUnchecked(c) ==
    /\ cmd[c].kind # "blank" /\ cmd[c].pc = "call" /\ cmd[c].landed
    /\ cmd' = [cmd EXCEPT ![c] = Over(@, "ok")]
    /\ owner' = IF owner = Target(cmd[c]) THEN Nothing ELSE owner
    /\ UNCHANGED <<current, cancelled, dark>>

\* Mutated: the success of any controller ends the ownership.
WakeSucceedsClearing(c) ==
    LET call == cmd[c]
    IN  /\ call.kind # "blank" /\ call.pc = "call" /\ call.landed
        /\ cmd' = [cmd EXCEPT ![c] =
                    Over(@, IF Superseded(c, call) THEN "failed" ELSE "ok")]
        /\ owner' = IF Superseded(c, call) THEN owner ELSE Nothing
        /\ UNCHANGED <<current, cancelled, dark>>

\* A wake that was superseded while the controller was at it is no success;
\* one that was not, by the owner, ends the ownership (clear_if_owner).
WakeSucceeds(c) ==
    LET call == cmd[c]
    IN  /\ call.kind # "blank" /\ call.pc = "call" /\ call.landed
        /\ cmd' = [cmd EXCEPT ![c] =
                    Over(@, IF Superseded(c, call) THEN "failed" ELSE "ok")]
        /\ owner' = IF /\ ~Superseded(c, call) /\ IsOwnerAttempt(call)
                       /\ owner = Target(call)
                    THEN Nothing ELSE owner
        /\ UNCHANGED <<current, cancelled, dark>>

\* The sleep between two rounds ends, or the token is cancelled.
BackoffEnds(c) ==
    /\ cmd[c].pc = "backoff"
    /\ cmd' = [cmd EXCEPT ![c] = Proceed(c, @)]
    /\ UNCHANGED <<current, cancelled, owner, dark>>

Progress(c) ==
    \/ \E available \in BOOLEAN : ProbeAnswers(c, available)
    \/ CallFails(c)
    \/ BlankSucceeds(c)
    \/ WakeSucceeds(c)
    \/ BackoffEnds(c)

ExecNext ==
    \E c \in Commands :
        \/ \E kind \in CallKinds : Start(c, kind)
        \/ CommandLands(c)
        \/ Progress(c)

\* Every probe and every call is answered (each has a timeout), every sleep ends.
ExecSpec == ExecInit /\ [][ExecNext]_execVars /\ \A c \in Commands : WF_execVars(Progress(c))

-----------------------------------------------------------------------------
(* Properties *)

\* The executor is a CommandSink: `a blank that superseded while this wake call
\* was in flight ... must NOT return Ok', every call is answered, and the owner
\* is replaced by a blank that succeeded and forgotten by a wake that did.
Sink == INSTANCE CommandSink WITH
            answer     <- [c \in Commands |->
                            IF Running(c) THEN "running" ELSE cmd[c].pc],
            kind       <- [c \in Commands |-> cmd[c].kind],
            last       <- current,
            superseded <- cancelled,
            None       <- Nothing

ImplementsSink == Sink!Spec

\* `The owner cannot change out from under a wake that is still running'
\* (wake): a wake that was not superseded has read the owner there is.
OwnerIsStable ==
    \A c \in Commands :
        cmd[c].kind # "blank" /\ Running(c) /\ c \notin cancelled =>
            cmd[c].owner = owner

\* That is so of the wakes that found no blank under way, as those of the state
\* machine do (BlankRunsAlone), whatever wakes come beside them: `any blank
\* arriving mid-burst supersedes this wake'.
OwnerStays ==
    \A c \in Commands :
        cmd[c].kind # "blank" /\ Running(c) /\ c \notin cancelled /\ ~cmd[c].beside =>
            cmd[c].owner = owner

\* The wake that makes the registry forget the controller that blanked the display
\* has taken that controller's darkness away: otherwise the next wake may stop at
\* a controller that has nothing to undo.
OwnerIsForgottenAwake ==
    \A c \in Commands :
        /\ owner # Nothing /\ owner' = Nothing
        /\ cmd[c].pc = "call" /\ cmd'[c].pc = "ok" /\ ~cmd[c].beside
        => owner \notin dark'

\* The registry of blank owners answers for the panel, to the wakes that found no
\* blank under way: what they have read of it stays true, and they make it forget
\* nobody who still keeps the panel dark.
OwnerAnswers == []OwnerStays /\ [][OwnerIsForgottenAwake]_execVars
=============================================================================
