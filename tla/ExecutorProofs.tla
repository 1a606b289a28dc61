--------------------------- MODULE ExecutorProofs ----------------------------
(***************************************************************************)
(* Theorems about the executor of one display, for any number of calls,    *)
(* any chain of controllers and any number of retries.                     *)
(*                                                                         *)
(* That a wake which found no blank has read the owner there is            *)
(* (OwnerStays) is not inductive: a blank that still runs beside it would  *)
(* replace the owner, and a second wake would forget it.  Newest and Apart *)
(* say that neither runs; Lit says what the wake that forgets the owner    *)
(* has done by then.                                                       *)
(***************************************************************************)
EXTENDS DisplayExecutor, TLAPS

-----------------------------------------------------------------------------
(* The inductive invariant *)

\* A call that runs is at a controller of the chain, in a pass it may make.
WellFormed(call) ==
    /\ call \in Calls
    /\ call.pc \in {"probe", "call", "backoff"} =>
            call.pos \in Chain /\ call.pass <= Rounds(call)
    /\ call.landed => call.pc = "call"

TypeInv ==
    /\ cmd \in [Commands -> Calls]
    /\ \A c \in Commands : WellFormed(cmd[c])
    /\ current \in Commands \cup {Nothing}
    /\ cancelled \subseteq Commands
    /\ owner \in Chain \cup {Nothing}
    /\ dark \subseteq Chain

\* A wake that found no blank under way, and was not superseded.
Valid(c) ==
    cmd[c].kind # "blank" /\ Running(c) /\ c \notin cancelled /\ ~cmd[c].beside

\* Of the calls that run all but the newest are cancelled ...
Newest == \A c \in Commands : Running(c) /\ c \notin cancelled => c = current

\* ... and no blank runs beside a wake that is not and found none: a blank that
\* came after it has cancelled it.
Apart == \A c \in Commands : Valid(c) => ~BlankRuns

\* The controller whose wake has reached the panel keeps it dark no longer.
Lit ==
    \A c \in Commands :
        Valid(c) /\ cmd[c].pc = "call" /\ cmd[c].landed => Target(cmd[c]) \notin dark

IInv == TypeInv /\ Newest /\ Apart /\ OwnerStays /\ Lit

USE ChainAssumption DEF ChainAssumption

-----------------------------------------------------------------------------
(* The passes of a call *)

LEMMA RoundsBound ==
    ASSUME NEW call \in Calls
    PROVE  Rounds(call) \in 1 .. WakeRetries + 1
BY DEF Rounds, Calls

\* What a call goes through by turns is the chain, whoever is first.
LEMMA OrderOfChain ==
    ASSUME NEW call \in Calls
    PROVE  Order(call) \in [Chain -> Chain]
<1>1. [i \in Chain |-> i] \in [Chain -> Chain]
    OBVIOUS
<1>2. ASSUME NEW o \in Chain \cup {Nothing}
      PROVE  OwnerFirstOrder(o) \in [Chain -> Chain]
    <2>1. CASE o = Nothing
        BY <2>1, <1>1 DEF OwnerFirstOrder
    <2>2. CASE o # Nothing
        <3>1. o \in Chain
            BY <2>2
        <3>2. ASSUME NEW i \in Chain
              PROVE  (IF i = 1 THEN o ELSE IF i <= o THEN i - 1 ELSE i) \in Chain
            BY <3>1, <3>2 DEF Chain
        <3>3. OwnerFirstOrder(o)
                = [i \in Chain |-> IF i = 1 THEN o ELSE IF i <= o THEN i - 1 ELSE i]
            BY <2>2 DEF OwnerFirstOrder
        <3> QED  BY <3>2, <3>3
    <2> QED  BY <2>1, <2>2
<1>3. call.owner \in Chain \cup {Nothing}
    BY DEF Calls
<1> QED  BY <1>1, <1>2, <1>3 DEF Order

LEMMA TargetInChain ==
    ASSUME NEW call \in Calls, call.pos \in Chain
    PROVE  Target(call) \in Chain /\ Target(call) # Nothing
BY OrderOfChain DEF Target, Chain

\* Owner first means what it says, and passes nobody over.
LEMMA OwnerFirstReachesAll ==
    ASSUME NEW o \in Chain
    PROVE  /\ OwnerFirstOrder(o)[1] = o
           /\ \A j \in Chain : \E i \in Chain : OwnerFirstOrder(o)[i] = j
<1>1. OwnerFirstOrder(o)
        = [i \in Chain |-> IF i = 1 THEN o ELSE IF i <= o THEN i - 1 ELSE i]
    BY DEF OwnerFirstOrder, Chain
<1>2. 1 \in Chain
    BY DEF Chain
<1>3. OwnerFirstOrder(o)[1] = o
    BY <1>1, <1>2
<1>4. ASSUME NEW j \in Chain
      PROVE  \E i \in Chain : OwnerFirstOrder(o)[i] = j
    <2>1. CASE j = o
        BY <2>1, <1>2, <1>3
    <2>2. CASE j < o
        <3>1. j + 1 \in Chain /\ j + 1 # 1 /\ j + 1 <= o /\ (j + 1) - 1 = j
            BY <2>2 DEF Chain
        <3> QED  BY <3>1, <1>1
    <2>3. CASE j > o
        <3>1. j # 1 /\ ~(j <= o)
            BY <2>3 DEF Chain
        <3> QED  BY <3>1, <1>1
    <2> QED  BY <2>1, <2>2, <2>3 DEF Chain
<1> QED  BY <1>3, <1>4

\* A call that goes on is the call it was, or has failed.
GoesOn(call, next) ==
    /\ WellFormed(next)
    /\ next.kind = call.kind
    /\ ~next.landed
    /\ \/ next.pc = "failed"
       \/ /\ next.pc \in {"probe", "call", "backoff"}
          /\ next.owner = call.owner /\ next.beside = call.beside

LEMMA IdleIsWellFormed == WellFormed(Idle)
BY DEF WellFormed, Idle, Calls, CallKinds

LEMMA OverIsWellFormed ==
    ASSUME NEW call \in Calls, NEW a \in {"ok", "failed"}
    PROVE  LET o == Over(call, a)
           IN  /\ WellFormed(o) /\ o.kind = call.kind /\ o.pc = a
               /\ ~o.landed
<1> DEFINE o == Over(call, a)
<1>1. o.kind = call.kind /\ o.pc = a /\ o.landed = FALSE
    BY DEF Over, Idle
<1>2. o \in Calls
    <2>1. Idle \in Calls
        BY IdleIsWellFormed DEF WellFormed
    <2>2. call.kind \in CallKinds
        BY DEF Calls
    <2> QED  BY <2>1, <2>2 DEF Over, Calls
<1>3. WellFormed(o)
    BY <1>1, <1>2 DEF WellFormed
<1> QED  BY <1>1, <1>3

LEMMA ProceedGoesOn ==
    ASSUME NEW c, NEW call \in Calls, ~call.landed,
           call.pass <= Rounds(call), ChainLength >= 1
    PROVE  GoesOn(call, Proceed(c, call))
<1>1. GoesOn(call, Over(call, "failed"))
    BY OverIsWellFormed DEF GoesOn
<1>2. ASSUME NEW p \in {"probe", "call", "backoff"}, call.pos <= ChainLength
      PROVE  GoesOn(call, [call EXCEPT !.pc = p])
    BY <1>2 DEF GoesOn, WellFormed, Calls, Chain, Rounds
<1>3. ASSUME NEW p \in {"probe", "call", "backoff"}, ~Reprobing(call)
      PROVE  GoesOn(call, [call EXCEPT !.pass = @ + 1, !.pos = 1, !.pc = p])
    <2>1. call.pass + 1 \in 0 .. WakeRetries + 1 /\ call.pass + 1 <= Rounds(call)
        BY <1>3, RoundsBound DEF Reprobing, Calls
    <2>2. 1 \in Chain /\ 1 \in 1 .. ChainLength + 1
        BY DEF Chain
    <2> DEFINE next == [call EXCEPT !.pass = @ + 1, !.pos = 1, !.pc = p]
    <2>3. next \in Calls
        BY <2>1, <2>2 DEF Calls
    <2>4. /\ next.kind = call.kind /\ next.landed = call.landed /\ next.pc = p
          /\ next.owner = call.owner /\ next.beside = call.beside
          /\ next.pos = 1 /\ next.pass = call.pass + 1
        BY DEF Calls
    <2>5. Rounds(next) = Rounds(call)
        BY <2>4 DEF Rounds
    <2> SUFFICES GoesOn(call, next)
        OBVIOUS
    <2> HIDE DEF next
    <2>6. WellFormed(next)
        BY <2>1, <2>2, <2>3, <2>4, <2>5 DEF WellFormed
    <2> QED  BY <2>4, <2>6 DEF GoesOn
<1>4. call.pos \in Int
    BY DEF Calls
<1>5. CASE call.pos > ChainLength /\ Reprobing(call)
    <2>1. Proceed(c, call) = Over(call, "failed")
        BY <1>5, <1>4 DEF Proceed
    <2> QED  BY <2>1, <1>1
<1>6. CASE call.pos > ChainLength /\ ~Reprobing(call)
    <2> DEFINE p == IF call.pass + 1 < Rounds(call) THEN "backoff" ELSE "probe"
    <2>1. ~(call.pos <= ChainLength)
        BY <1>6, <1>4
    <2>2. Proceed(c, call) = [call EXCEPT !.pass = @ + 1, !.pos = 1, !.pc = p]
        BY <1>6, <2>1, Zenon DEF Proceed
    <2>3. p \in {"probe", "call", "backoff"}
        OBVIOUS
    <2> HIDE DEF p
    <2> QED  BY <2>2, <2>3, <1>3, <1>6
<1>7. CASE call.pos <= ChainLength
    <2>1. \/ Proceed(c, call) = Over(call, "failed")
          \/ \E p \in {"probe", "call", "backoff"} : Proceed(c, call) = [call EXCEPT !.pc = p]
        BY <1>7, <1>4 DEF Proceed
    <2> QED  BY <2>1, <1>1, <1>2, <1>7
<1> QED  BY <1>4, <1>5, <1>6, <1>7

LEMMA NextTargetGoesOn ==
    ASSUME NEW c, NEW call \in Calls, WellFormed(call),
           call.pc \in {"probe", "call", "backoff"}
    PROVE  GoesOn(call, NextTarget(c, call))
<1> DEFINE next == [call EXCEPT !.pos = @ + 1, !.landed = FALSE]
<1>1. call.pos + 1 \in 1 .. ChainLength + 1 /\ ChainLength >= 1
    BY DEF WellFormed, Chain
<1>2. next \in Calls
    BY <1>1 DEF Calls
<1>3. ~next.landed /\ next.pass = call.pass /\ next.kind = call.kind
      /\ next.owner = call.owner /\ next.beside = call.beside
    BY DEF Calls
<1>4. next.pass <= Rounds(next)
    BY <1>3 DEF Rounds, WellFormed
<1> HIDE DEF next
<1>5. GoesOn(next, Proceed(c, next))
    BY <1>1, <1>2, <1>3, <1>4, ProceedGoesOn
<1> QED  BY <1>3, <1>5 DEF GoesOn, NextTarget, next

-----------------------------------------------------------------------------
(* The steps *)

\* The step of a call that goes on, or fails: nothing but the call changes.
Forwards(c) ==
    /\ Running(c)
    /\ \E next : GoesOn(cmd[c], next) /\ cmd' = [cmd EXCEPT ![c] = next]
    /\ UNCHANGED <<current, cancelled, owner, dark>>

LEMMA MovesForwards ==
    ASSUME TypeInv, NEW c \in Commands,
           (\E available \in BOOLEAN : ProbeAnswers(c, available))
                \/ CallFails(c) \/ BackoffEnds(c)
    PROVE  Forwards(c)
<1> DEFINE call == cmd[c]
<1>1. call \in Calls /\ WellFormed(call)
    BY DEF TypeInv
<1>2. CASE BackoffEnds(c)
    <2>1. call.pc = "backoff"
        BY <1>2 DEF BackoffEnds
    <2>2. ~call.landed /\ call.pass <= Rounds(call) /\ ChainLength >= 1
        BY <1>1, <2>1 DEF WellFormed, Chain
    <2> SUFFICES GoesOn(call, Proceed(c, call))
        BY <1>2, <2>1 DEF BackoffEnds, Forwards, Running
    <2> HIDE DEF call
    <2> QED  BY <1>1, <2>2, ProceedGoesOn
<1>3. CASE CallFails(c)
    <2>1. call.pc = "call"
        BY <1>3 DEF CallFails
    <2> SUFFICES GoesOn(call, NextTarget(c, call))
        BY <1>3, <2>1 DEF CallFails, Forwards, Running
    <2> HIDE DEF call
    <2> QED  BY <1>1, <2>1, NextTargetGoesOn
<1>4. ASSUME NEW available \in BOOLEAN, ProbeAnswers(c, available)
      PROVE  Forwards(c)
    <2>1. call.pc = "probe"
        BY <1>4 DEF ProbeAnswers
    <2>2. PICK next \in {NextTarget(c, call), Over(call, "failed"),
                         [call EXCEPT !.pc = "call"]} :
              cmd' = [cmd EXCEPT ![c] = next]
        BY <1>4, Zenon DEF ProbeAnswers
    <2>3. UNCHANGED <<current, cancelled, owner, dark>>
        BY <1>4 DEF ProbeAnswers
    <2> SUFFICES GoesOn(call, next)
        BY <2>1, <2>2, <2>3 DEF Forwards, Running
    <2> HIDE DEF call
    <2>4. GoesOn(call, NextTarget(c, call))
        BY <1>1, <2>1, NextTargetGoesOn
    <2>5. GoesOn(call, Over(call, "failed"))
        BY <1>1, OverIsWellFormed DEF GoesOn
    <2>6. GoesOn(call, [call EXCEPT !.pc = "call"])
        BY <1>1, <2>1 DEF GoesOn, WellFormed, Calls, Rounds
    <2> QED  BY <2>2, <2>4, <2>5, <2>6
<1> QED  BY <1>2, <1>3, <1>4

\* What the steps of a call at its controller have in common.
LEMMA AtController ==
    ASSUME TypeInv, NEW c \in Commands, cmd[c].pc = "call"
    PROVE  /\ Target(cmd[c]) \in Chain /\ Target(cmd[c]) # Nothing
           /\ WellFormed(Over(cmd[c], "ok")) /\ WellFormed(Over(cmd[c], "failed"))
<1>1. cmd[c] \in Calls /\ cmd[c].pos \in Chain
    BY DEF TypeInv, WellFormed
<1> QED  BY <1>1, TargetInChain, OverIsWellFormed

\* That it has landed changes nothing else about a call.
LEMMA Landed ==
    ASSUME TypeInv, NEW c \in Commands, CommandLands(c)
    PROVE  \E next :
                /\ cmd' = [cmd EXCEPT ![c] = next]
                /\ WellFormed(next)
                /\ next.kind = cmd[c].kind /\ next.pc = "call"
                /\ next.owner = cmd[c].owner /\ next.beside = cmd[c].beside
                /\ Target(next) = Target(cmd[c])
<1> DEFINE next == [cmd[c] EXCEPT !.landed = TRUE]
<1>1. cmd[c] \in Calls /\ WellFormed(cmd[c]) /\ cmd[c].pc = "call"
    BY DEF TypeInv, CommandLands
<1>2. cmd' = [cmd EXCEPT ![c] = next]
    BY DEF CommandLands
<1>3. next \in Calls
    BY <1>1 DEF Calls
<1>4. /\ next.kind = cmd[c].kind /\ next.pc = cmd[c].pc /\ next.pass = cmd[c].pass
      /\ next.pos = cmd[c].pos /\ next.owner = cmd[c].owner /\ next.landed = TRUE
      /\ next.beside = cmd[c].beside
    BY <1>1 DEF Calls
<1> HIDE DEF next
<1>5. Target(next) = Target(cmd[c])
    BY <1>4 DEF Target, Order, Reprobing, Rounds
<1>6. WellFormed(next)
    BY <1>1, <1>3, <1>4 DEF WellFormed, Rounds
<1> QED  BY <1>1, <1>2, <1>4, <1>5, <1>6

\* A call that starts, over at once where there is nobody to call.
LEMMA Started ==
    ASSUME TypeInv, NEW c \in Commands, NEW kind \in CallKinds, Start(c, kind)
    PROVE  \E next :
                /\ cmd' = [cmd EXCEPT ![c] = next]
                /\ WellFormed(next)
                /\ next.kind = kind /\ ~next.landed
                /\ IF ChainLength = 0 THEN next.pc = "failed"
                   ELSE /\ next.pc \in {"probe", "call"}
                        /\ kind # "blank" => next.owner = owner
                        /\ next.beside = BlankRuns
<1> DEFINE o == IF kind = "blank" THEN Nothing ELSE owner
           b == BlankRuns
           call == [Idle EXCEPT !.kind = kind, !.beside = b, !.owner = o]
<1>1. Idle \in Calls
    BY IdleIsWellFormed DEF WellFormed
<1>2. o \in Chain \cup {Nothing} /\ b \in BOOLEAN
    BY DEF TypeInv, BlankRuns
<1>3. Idle.pass = 0 /\ Idle.pos = 1 /\ Idle.landed = FALSE
    BY DEF Idle
<1> HIDE DEF o, b
<1>4. call \in Calls
    BY <1>1, <1>2 DEF Calls
<1>5. /\ call.kind = kind /\ call.owner = o /\ call.landed = FALSE
      /\ call.pass = 0 /\ call.pos = 1 /\ call.beside = b
    BY <1>1, <1>3 DEF Calls
<1>6. cmd' = [cmd EXCEPT ![c] =
                IF ChainLength = 0 THEN Over(call, "failed")
                ELSE IF call.owner # Nothing THEN [call EXCEPT !.pc = "call"]
                ELSE [call EXCEPT !.pc = "probe"]]
    BY Zenon DEF Start, o, b
<1>7. (kind # "blank" => o = owner) /\ b = BlankRuns
    BY DEF o, b
<1> HIDE DEF call
<1>8. CASE ChainLength = 0
    <2>1. cmd' = [cmd EXCEPT ![c] = Over(call, "failed")]
        BY <1>6, <1>8, Zenon
    <2> QED  BY <1>4, <1>5, <1>8, <2>1, OverIsWellFormed
<1>9. CASE ChainLength # 0
    <2>1. PICK p \in {"probe", "call"} :
            cmd' = [cmd EXCEPT ![c] = [call EXCEPT !.pc = p]]
        BY <1>6, <1>9, Zenon
    <2> DEFINE next == [call EXCEPT !.pc = p]
    <2>2. next \in Calls
        BY <1>4 DEF Calls
    <2>3. /\ next.kind = kind /\ next.owner = o /\ next.landed = FALSE
          /\ next.pass = 0 /\ next.pos = 1 /\ next.pc = p /\ next.beside = b
        BY <1>4, <1>5 DEF Calls
    <2>4. cmd' = [cmd EXCEPT ![c] = next]
        BY <2>1
    <2> HIDE DEF next
    <2>5. 0 <= Rounds(next) /\ 1 \in Chain
        BY <1>9, <2>2, RoundsBound DEF Chain
    <2>6. WellFormed(next)
        BY <2>2, <2>3, <2>5 DEF WellFormed
    <2> QED  BY <1>7, <1>9, <2>3, <2>4, <2>6
<1> QED  BY <1>8, <1>9

-----------------------------------------------------------------------------
(* Type correctness *)

LEMMA InitTyped == ExecInit => TypeInv
BY IdleIsWellFormed DEF ExecInit, TypeInv, WellFormed

\* One call changes, into one that is well formed.
LEMMA OneChanges ==
    ASSUME TypeInv, NEW c \in Commands, NEW next, WellFormed(next),
           cmd' = [cmd EXCEPT ![c] = next]
    PROVE  /\ cmd' \in [Commands -> Calls]
           /\ \A x \in Commands : WellFormed(cmd'[x])
           /\ cmd'[c] = next
           /\ \A x \in Commands : x # c => cmd'[x] = cmd[x]
BY DEF TypeInv, WellFormed

LEMMA StepTyped == TypeInv /\ [ExecNext]_execVars => TypeInv'
<1> SUFFICES ASSUME TypeInv, [ExecNext]_execVars  PROVE TypeInv'
    OBVIOUS
<1>1. CASE UNCHANGED execVars
    BY <1>1 DEF execVars, TypeInv
<1>2. ASSUME NEW c \in Commands, NEW kind \in CallKinds, Start(c, kind)
      PROVE  TypeInv'
    <2>1. cmd' \in [Commands -> Calls] /\ \A x \in Commands : WellFormed(cmd'[x])
        BY <1>2, Started, OneChanges
    <2>2. current' = c /\ cancelled' \subseteq Commands /\ UNCHANGED <<owner, dark>>
        BY <1>2 DEF Start, TypeInv
    <2> QED  BY <2>1, <2>2 DEF TypeInv
<1>3. ASSUME NEW c \in Commands, CommandLands(c)  PROVE TypeInv'
    <2>1. cmd' \in [Commands -> Calls] /\ \A x \in Commands : WellFormed(cmd'[x])
        BY <1>3, Landed, OneChanges
    <2>2. Target(cmd[c]) \in Chain
        BY <1>3, AtController DEF CommandLands
    <2>3. dark' \subseteq Chain /\ UNCHANGED <<current, cancelled, owner>>
        BY <1>3, <2>2 DEF CommandLands, TypeInv
    <2> QED  BY <2>1, <2>3 DEF TypeInv
<1>4. ASSUME NEW c \in Commands, Forwards(c)  PROVE TypeInv'
    <2>1. cmd' \in [Commands -> Calls] /\ \A x \in Commands : WellFormed(cmd'[x])
        BY <1>4, OneChanges DEF Forwards, GoesOn
    <2> QED  BY <1>4, <2>1 DEF Forwards, TypeInv
<1>5. ASSUME NEW c \in Commands, BlankSucceeds(c) \/ WakeSucceeds(c)  PROVE TypeInv'
    <2>1. cmd[c].pc = "call" /\ UNCHANGED <<current, cancelled, dark>>
        BY <1>5 DEF BlankSucceeds, WakeSucceeds
    <2>2. /\ Target(cmd[c]) \in Chain
          /\ WellFormed(Over(cmd[c], "ok")) /\ WellFormed(Over(cmd[c], "failed"))
        BY <2>1, AtController
    <2>3. PICK a \in {"ok", "failed"} : cmd' = [cmd EXCEPT ![c] = Over(cmd[c], a)]
        BY <1>5, Zenon DEF BlankSucceeds, WakeSucceeds
    <2>4. cmd' \in [Commands -> Calls] /\ \A x \in Commands : WellFormed(cmd'[x])
        BY <2>2, <2>3, OneChanges
    <2>5. owner' \in Chain \cup {Nothing}
        BY <1>5, <2>2 DEF BlankSucceeds, WakeSucceeds, TypeInv
    <2> QED  BY <2>1, <2>4, <2>5 DEF TypeInv
<1> QED  BY <1>1, <1>2, <1>3, <1>4, <1>5, MovesForwards DEF ExecNext, Progress

THEOREM Typed == ExecSpec => []TypeInv
BY InitTyped, StepTyped, PTL DEF ExecSpec

\* The calls stay within the chain and within the rounds they have.
THEOREM TypeCorrect == ExecSpec => []ExecTypeOK
<1>1. TypeInv => ExecTypeOK
    BY DEF TypeInv, ExecTypeOK
<1> QED  BY <1>1, Typed, PTL

-----------------------------------------------------------------------------
(* The executor is a command sink *)

Answered == [c \in Commands |-> IF Running(c) THEN "running" ELSE cmd[c].pc]
KindOf == [c \in Commands |-> cmd[c].kind]

LEMMA StepRefines ==
    TypeInv /\ [ExecNext]_execVars => [Sink!Next]_(Sink!sinkVars)
<1> SUFFICES ASSUME TypeInv, [ExecNext]_execVars
             PROVE  Sink!Next \/ UNCHANGED Sink!sinkVars
    OBVIOUS
<1>0. Sink!Kinds = CallKinds
    BY DEF Sink!Kinds, CallKinds
\* How a change of one call looks from outside.
<1>1. ASSUME NEW c \in Commands, NEW next, WellFormed(next),
             cmd' = [cmd EXCEPT ![c] = next]
      PROVE  /\ next.pc \in {"probe", "call", "backoff"} =>
                    Answered' = [Answered EXCEPT ![c] = "running"]
             /\ \A a \in {"ok", "failed"} :
                    next.pc = a => Answered' = [Answered EXCEPT ![c] = a]
             /\ KindOf' = [KindOf EXCEPT ![c] = next.kind]
    BY <1>1, OneChanges DEF Answered, KindOf, Running, TypeInv
<1>2. ASSUME NEW c \in Commands
      PROVE  /\ Answered[c] = "running" <=> Running(c)
             /\ KindOf[c] = cmd[c].kind
    <2>1. cmd[c].pc # "running"
        BY DEF TypeInv, Calls
    <2> QED  BY <2>1 DEF Answered, KindOf
<1>3. CASE UNCHANGED execVars
    BY <1>3 DEF execVars, Sink!sinkVars, Running
<1>4. ASSUME NEW c \in Commands, NEW kind \in CallKinds, Start(c, kind)
      PROVE  Sink!Accept(c, kind) \/ Sink!RefuseAtOnce(c, kind)
    <2>1. PICK next :
                /\ cmd' = [cmd EXCEPT ![c] = next]
                /\ WellFormed(next)
                /\ next.kind = kind
                /\ IF ChainLength = 0 THEN next.pc = "failed"
                   ELSE next.pc \in {"probe", "call"}
        BY <1>4, Started
    <2>2. /\ Answered[c] # "running" /\ KindOf' = [KindOf EXCEPT ![c] = kind]
          /\ current' = c /\ UNCHANGED owner
          /\ cancelled' = (cancelled \cup {current}) \ {Nothing, c}
        BY <1>1, <1>2, <1>4, <2>1 DEF Start
    <2>3. CASE ChainLength = 0
        <3>1. Answered' = [Answered EXCEPT ![c] = "failed"]
            BY <1>1, <2>1, <2>3
        <3>2. Chain = {}
            BY <2>3 DEF Chain
        <3> QED  BY <2>2, <3>1, <3>2 DEF Sink!RefuseAtOnce, Answered, KindOf
    <2>4. CASE ChainLength # 0
        <3>1. Answered' = [Answered EXCEPT ![c] = "running"]
            BY <1>1, <2>1, <2>4
        <3> QED  BY <2>2, <3>1 DEF Sink!Accept, Answered, KindOf
    <2> QED  BY <2>3, <2>4
<1>5. ASSUME NEW c \in Commands, CommandLands(c)  PROVE UNCHANGED Sink!sinkVars
    <2>1. /\ Answered' = [Answered EXCEPT ![c] = "running"]
          /\ KindOf' = [KindOf EXCEPT ![c] = cmd[c].kind]
        BY <1>1, <1>5, Landed
    <2>2. Running(c) /\ UNCHANGED <<current, cancelled, owner>>
        BY <1>5 DEF CommandLands, Running
    <2>3. UNCHANGED <<Answered, KindOf>>
        BY <1>2, <2>1, <2>2 DEF Answered, KindOf
    <2> QED  BY <2>2, <2>3 DEF Sink!sinkVars, Answered, KindOf
<1>6. ASSUME NEW c \in Commands, Forwards(c)
      PROVE  Sink!Refuse(c) \/ UNCHANGED Sink!sinkVars
    <2>1. PICK next : GoesOn(cmd[c], next) /\ cmd' = [cmd EXCEPT ![c] = next]
        BY <1>6 DEF Forwards
    <2>2. Running(c) /\ UNCHANGED <<current, cancelled, owner>>
        BY <1>6 DEF Forwards
    <2>3. KindOf' = [KindOf EXCEPT ![c] = cmd[c].kind]
        BY <1>1, <2>1 DEF GoesOn
    <2>4. UNCHANGED KindOf
        BY <1>2, <2>3 DEF KindOf
    <2>5. CASE next.pc = "failed"
        <3>1. Answered' = [Answered EXCEPT ![c] = "failed"] /\ Answered[c] = "running"
            BY <1>1, <1>2, <2>1, <2>2, <2>5 DEF GoesOn
        <3> QED  BY <2>2, <2>4, <3>1 DEF Sink!Refuse, Sink!Answer, Answered, KindOf
    <2>6. CASE next.pc \in {"probe", "call", "backoff"}
        <3>1. Answered' = [Answered EXCEPT ![c] = "running"]
            BY <1>1, <2>1, <2>6 DEF GoesOn
        <3>2. UNCHANGED Answered
            BY <1>2, <2>2, <3>1 DEF Answered
        <3> QED  BY <2>2, <2>4, <3>2 DEF Sink!sinkVars, Answered, KindOf
    <2> QED  BY <2>1, <2>5, <2>6 DEF GoesOn
\* A call that is over keeps its kind and has the answer it was given.
<1>7. ASSUME NEW c \in Commands, NEW a \in {"ok", "failed"}, cmd[c].pc = "call",
             cmd' = [cmd EXCEPT ![c] = Over(cmd[c], a)],
             UNCHANGED <<current, cancelled>>
      PROVE  Sink!Answer(c, a)
    <2> DEFINE o == Over(cmd[c], a)
    <2>1. WellFormed(o) /\ o.kind = cmd[c].kind /\ o.pc = a
        BY OverIsWellFormed DEF TypeInv
    <2>2. cmd' = [cmd EXCEPT ![c] = o]
        BY <1>7
    <2> HIDE DEF o
    <2>3. Answered' = [Answered EXCEPT ![c] = a]
        BY <1>1, <2>1, <2>2
    <2>4. KindOf' = [KindOf EXCEPT ![c] = o.kind]
        BY <1>1, <2>1, <2>2
    <2>5. Answered[c] = "running" /\ UNCHANGED KindOf
        BY <1>2, <1>7, <2>1, <2>4 DEF Running, KindOf
    <2> QED  BY <1>7, <2>3, <2>5 DEF Sink!Answer, Answered, KindOf
<1>8. ASSUME NEW c \in Commands, BlankSucceeds(c)
      PROVE  \E i \in Chain : Sink!Darken(c, i)
    <2>1. Sink!Answer(c, "ok")
        BY <1>7, <1>8 DEF BlankSucceeds
    <2>2. Target(cmd[c]) \in Chain /\ owner' = Target(cmd[c]) /\ KindOf[c] = "blank"
        BY <1>2, <1>8, AtController DEF BlankSucceeds
    <2> QED  BY <2>1, <2>2 DEF Sink!Darken, KindOf
<1>9. ASSUME NEW c \in Commands, WakeSucceeds(c)
      PROVE  Sink!Lighten(c) \/ Sink!Refuse(c)
    <2>1. KindOf[c] # "blank" /\ cmd[c].kind # "blank" /\ cmd[c].pc = "call"
        BY <1>2, <1>9 DEF WakeSucceeds
    <2>2. CASE c \in cancelled
        <3>1. /\ cmd' = [cmd EXCEPT ![c] = Over(cmd[c], "failed")] /\ owner' = owner
              /\ UNCHANGED <<current, cancelled>>
            BY <1>9, <2>1, <2>2, Zenon DEF WakeSucceeds, Superseded
        <3> QED  BY <1>7, <2>1, <3>1 DEF Sink!Refuse
    <2>3. CASE c \notin cancelled
        <3>1. /\ cmd' = [cmd EXCEPT ![c] = Over(cmd[c], "ok")] /\ owner' \in {owner, Nothing}
              /\ UNCHANGED <<current, cancelled>>
            BY <1>9, <2>1, <2>3, Zenon DEF WakeSucceeds, Superseded
        <3> QED  BY <1>7, <2>1, <2>3, <3>1 DEF Sink!Lighten, KindOf
    <2> QED  BY <2>2, <2>3
<1> QED  BY <1>0, <1>3, <1>4, <1>5, <1>6, <1>8, <1>9, MovesForwards
         DEF ExecNext, Progress, Sink!Next, Sink!Answers

\* Whatever its controllers answer, the executor does no more than a command
\* sink may: every call has one answer, a wake that was superseded is no success,
\* and the owner changes with the answer of a blank or a wake alone.
THEOREM IsSink == ExecSpec => Sink!Safety
<1>1. ExecInit => Sink!Init
    BY DEF ExecInit, Sink!Init, Running, Idle
<1> QED  BY <1>1, Typed, StepRefines, PTL DEF ExecSpec, Sink!Safety

-----------------------------------------------------------------------------
(* The registry of blank owners *)

LEMMA InitInv == ExecInit => IInv
<1> SUFFICES ASSUME ExecInit  PROVE IInv
    OBVIOUS
<1>1. \A c \in Commands : ~Running(c)
    BY DEF ExecInit, Running, Idle
<1> QED  BY <1>1, InitTyped DEF IInv, Newest, Apart, OwnerStays, Lit, Valid

\* A new call cancels the wakes there are; one that counts finds no blank.
LEMMA StartStep ==
    ASSUME IInv, NEW c \in Commands, NEW kind \in CallKinds, Start(c, kind)
    PROVE  Newest' /\ Apart' /\ OwnerStays' /\ Lit'
<1>1. PICK next :
        /\ cmd' = [cmd EXCEPT ![c] = next]
        /\ WellFormed(next)
        /\ next.kind = kind /\ ~next.landed
        /\ IF ChainLength = 0 THEN next.pc = "failed"
           ELSE /\ next.pc \in {"probe", "call"}
                /\ kind # "blank" => next.owner = owner
                /\ next.beside = BlankRuns
    BY Started DEF IInv
<1>2. cmd'[c] = next /\ \A x \in Commands : x # c => cmd'[x] = cmd[x]
    BY <1>1, OneChanges DEF IInv
<1>3. /\ cancelled' = (cancelled \cup {current}) \ {Nothing, c}
      /\ current' = c /\ UNCHANGED <<owner, dark>>
    BY DEF Start
\* Every call but the new one is over or cancelled.
<1>4. ASSUME NEW x \in Commands, x # c, Running(x)'  PROVE x \in cancelled'
    <2>1. Running(x)
        BY <1>2, <1>4 DEF Running
    <2>2. x \in cancelled \/ x = current
        BY <2>1 DEF IInv, Newest
    <2> QED  BY <1>3, <1>4, <2>2
<1>5. Newest'
    BY <1>3, <1>4 DEF Newest
<1>6. \A x \in Commands : Valid(x)' => x = c
    BY <1>4 DEF Valid
<1>7. Apart'
    <2> SUFFICES ASSUME Valid(c)', NEW b \in Commands,
                        cmd'[b].kind = "blank", Running(b)'
                 PROVE  FALSE
        BY <1>6 DEF Apart, BlankRuns
    <2>1. ~BlankRuns /\ b # c
        BY <1>1, <1>2 DEF Valid, Running
    <2>2. Running(b) /\ cmd[b].kind = "blank"
        BY <1>2, <2>1 DEF Running
    <2> QED  BY <2>1, <2>2 DEF BlankRuns
<1>8. OwnerStays'
    <2> SUFFICES ASSUME Valid(c)'  PROVE cmd'[c].owner = owner'
        BY <1>6 DEF OwnerStays, Valid
    <2> QED  BY <1>1, <1>2, <1>3 DEF Valid, Running
<1>9. Lit'
    BY <1>1, <1>2, <1>6 DEF Lit
<1> QED  BY <1>5, <1>7, <1>8, <1>9

\* A call that goes on, fails or is over is no more than it was.
LEMMA OneGoesOn ==
    ASSUME IInv, NEW c \in Commands, Running(c),
           NEW next, WellFormed(next), next.kind = cmd[c].kind,
           Running(c)' => next.owner = cmd[c].owner /\ next.beside = cmd[c].beside,
           cmd' = [cmd EXCEPT ![c] = next],
           UNCHANGED <<current, cancelled>>
    PROVE  /\ Newest' /\ Apart'
           /\ \A x \in Commands : Valid(x)' => Valid(x) /\ cmd'[x].owner = cmd[x].owner
<1>1. cmd'[c] = next /\ \A x \in Commands : x # c => cmd'[x] = cmd[x]
    BY OneChanges DEF IInv
<1>2. \A x \in Commands : Running(x)' => Running(x)
    BY <1>1 DEF Running
<1>3. \A x \in Commands : cmd'[x].kind = cmd[x].kind
    BY <1>1
<1>4. Newest'
    BY <1>2 DEF IInv, Newest
<1>5. \A x \in Commands : Valid(x)' => Valid(x)
    BY <1>1, <1>2, <1>3 DEF Valid
<1>6. BlankRuns' => BlankRuns
    BY <1>2, <1>3 DEF BlankRuns
<1>7. Apart'
    BY <1>5, <1>6 DEF IInv, Apart
<1>8. \A x \in Commands : Valid(x)' => cmd'[x].owner = cmd[x].owner
    BY <1>1 DEF Valid
<1> QED  BY <1>4, <1>5, <1>7, <1>8

LEMMA ForwardsStep ==
    ASSUME IInv, NEW c \in Commands, Forwards(c)
    PROVE  Newest' /\ Apart' /\ OwnerStays' /\ Lit'
<1>1. PICK next : GoesOn(cmd[c], next) /\ cmd' = [cmd EXCEPT ![c] = next]
    BY DEF Forwards
<1>2. Running(c) /\ UNCHANGED <<current, cancelled, owner, dark>>
    BY DEF Forwards
<1>3. cmd'[c] = next /\ \A x \in Commands : x # c => cmd'[x] = cmd[x]
    BY <1>1, OneChanges DEF IInv, GoesOn
<1>4. Running(c)' => next.owner = cmd[c].owner /\ next.beside = cmd[c].beside
    BY <1>1, <1>3 DEF GoesOn, Running
<1>5. /\ Newest' /\ Apart'
      /\ \A x \in Commands : Valid(x)' => Valid(x) /\ cmd'[x].owner = cmd[x].owner
    BY <1>1, <1>2, <1>4, OneGoesOn DEF GoesOn
<1>6. OwnerStays'
    BY <1>2, <1>5 DEF IInv, OwnerStays, Valid
<1>7. Lit'
    <2> SUFFICES ASSUME NEW x \in Commands,
                        Valid(x)', cmd'[x].pc = "call", cmd'[x].landed
                 PROVE  Target(cmd'[x]) \notin dark
        BY <1>2 DEF Lit
    <2>1. x # c
        BY <1>1, <1>3 DEF GoesOn
    <2> QED  BY <1>3, <1>5, <2>1 DEF IInv, Lit
<1> QED  BY <1>5, <1>6, <1>7

\* A blank that lands makes the panel dark, but beside no wake that still holds.
LEMMA LandsStep ==
    ASSUME IInv, NEW c \in Commands, CommandLands(c)
    PROVE  Newest' /\ Apart' /\ OwnerStays' /\ Lit'
<1>1. PICK next :
        /\ cmd' = [cmd EXCEPT ![c] = next]
        /\ WellFormed(next)
        /\ next.kind = cmd[c].kind /\ next.pc = "call"
        /\ next.owner = cmd[c].owner /\ next.beside = cmd[c].beside
        /\ Target(next) = Target(cmd[c])
    BY Landed DEF IInv
<1>2. /\ Running(c) /\ UNCHANGED <<current, cancelled, owner>>
      /\ dark' = IF cmd[c].kind = "blank" THEN dark \cup {Target(cmd[c])}
                 ELSE dark \ {Target(cmd[c])}
    BY DEF CommandLands, Running
<1>3. cmd'[c] = next /\ \A x \in Commands : x # c => cmd'[x] = cmd[x]
    BY <1>1, OneChanges DEF IInv
<1>4. /\ Newest' /\ Apart'
      /\ \A x \in Commands : Valid(x)' => Valid(x) /\ cmd'[x].owner = cmd[x].owner
    BY <1>1, <1>2, OneGoesOn
<1>5. OwnerStays'
    BY <1>2, <1>4 DEF IInv, OwnerStays, Valid
<1>6. Lit'
    <2> SUFFICES ASSUME NEW x \in Commands,
                        Valid(x)', cmd'[x].pc = "call", cmd'[x].landed
                 PROVE  Target(cmd'[x]) \notin dark'
        BY DEF Lit
    <2>1. cmd[c].kind # "blank"
        BY <1>2, <1>4 DEF IInv, Apart, BlankRuns
    <2>2. dark' = dark \ {Target(cmd[c])}
        BY <1>2, <2>1
    <2>3. CASE x = c
        BY <1>1, <1>3, <2>2, <2>3
    <2>4. CASE x # c
        BY <1>3, <1>4, <2>2, <2>4 DEF IInv, Lit
    <2> QED  BY <2>3, <2>4
<1> QED  BY <1>4, <1>5, <1>6

\* The answer that changes the owner leaves no wake that read it before.
LEMMA AnswerStep ==
    ASSUME IInv, NEW c \in Commands, BlankSucceeds(c) \/ WakeSucceeds(c)
    PROVE  Newest' /\ Apart' /\ OwnerStays' /\ Lit'
<1>1. PICK a \in {"ok", "failed"} : cmd' = [cmd EXCEPT ![c] = Over(cmd[c], a)]
    BY Zenon DEF BlankSucceeds, WakeSucceeds
<1> DEFINE next == Over(cmd[c], a)
<1>2. WellFormed(next) /\ next.kind = cmd[c].kind /\ next.pc = a
    BY OverIsWellFormed DEF IInv, TypeInv
<1>3. cmd' = [cmd EXCEPT ![c] = next]
    BY <1>1
<1> HIDE DEF next
<1>4. Running(c) /\ UNCHANGED <<current, cancelled, dark>>
    BY DEF BlankSucceeds, WakeSucceeds, Running
<1>5. cmd'[c] = next /\ \A x \in Commands : x # c => cmd'[x] = cmd[x]
    BY <1>2, <1>3, OneChanges DEF IInv
<1>6. ~Running(c)'
    BY <1>2, <1>5 DEF Running
<1>7. /\ Newest' /\ Apart'
      /\ \A x \in Commands : Valid(x)' => Valid(x) /\ cmd'[x].owner = cmd[x].owner
    BY <1>2, <1>3, <1>4, <1>6, OneGoesOn
<1>8. ASSUME NEW x \in Commands, Valid(x)'  PROVE owner' = owner
    <2>1. Valid(x) /\ x # c
        BY <1>6, <1>7, <1>8 DEF Valid
    <2>2. CASE BlankSucceeds(c)
        BY <1>4, <2>1, <2>2 DEF IInv, Apart, BlankRuns, BlankSucceeds
    <2>3. CASE WakeSucceeds(c)
        <3>1. c \in cancelled
            BY <1>4, <2>1 DEF IInv, Newest, Valid
        <3> QED  BY <2>3, <3>1 DEF WakeSucceeds, Superseded
    <2> QED  BY <2>2, <2>3
<1>9. OwnerStays'
    BY <1>7, <1>8 DEF IInv, OwnerStays, Valid
<1>10. Lit'
    BY <1>4, <1>5, <1>6, <1>7 DEF IInv, Lit, Valid
<1> QED  BY <1>7, <1>9, <1>10

LEMMA StepInv == IInv /\ [ExecNext]_execVars => IInv'
<1> SUFFICES ASSUME IInv, [ExecNext]_execVars  PROVE IInv'
    OBVIOUS
<1>1. TypeInv'
    BY StepTyped DEF IInv
<1>2. CASE UNCHANGED execVars
    BY <1>1, <1>2 DEF execVars, IInv, Newest, Apart, OwnerStays, Lit, Valid,
                      BlankRuns, Running
<1>3. CASE ExecNext
    BY <1>1, <1>3, StartStep, LandsStep, ForwardsStep, AnswerStep, MovesForwards
       DEF ExecNext, Progress, IInv
<1> QED  BY <1>2, <1>3

\* A wake is Ok only after the controller it reached keeps the panel dark no more.
LEMMA ForgottenAwake ==
    ASSUME IInv, ExecNext, owner # Nothing, owner' = Nothing,
           NEW w \in Commands, cmd[w].pc = "call", cmd'[w].pc = "ok", ~cmd[w].beside
    PROVE  owner \notin dark'
<1>0. ASSUME NEW c \in Commands
      PROVE  /\ \A kind \in CallKinds : ~Start(c, kind)
             /\ ~CommandLands(c) /\ ~Forwards(c)
    BY DEF Start, CommandLands, Forwards
<1>1. PICK c \in Commands : BlankSucceeds(c) \/ WakeSucceeds(c)
    BY <1>0, MovesForwards DEF ExecNext, Progress, IInv
<1>2. ~BlankSucceeds(c) /\ c = w
    <2>1. \A x \in Commands : x # c => cmd'[x] = cmd[x]
        BY <1>1 DEF BlankSucceeds, WakeSucceeds, IInv, TypeInv
    <2> QED  BY <2>1, AtController DEF BlankSucceeds, IInv
<1>3. /\ cmd[c].kind # "blank" /\ cmd[c].pc = "call" /\ cmd[c].landed
      /\ ~Superseded(c, cmd[c]) /\ owner = Target(cmd[c]) /\ dark' = dark
    <2>1. WakeSucceeds(c)
        BY <1>1, <1>2
    <2>2. owner' # owner
        BY Zenon
    <2> QED  BY <2>1, <2>2, Zenon DEF WakeSucceeds
<1>4. Valid(c)
    BY <1>2, <1>3 DEF Valid, Running, Superseded
<1>5. Target(cmd[c]) \notin dark
    BY <1>3, <1>4, Zenon DEF IInv, Lit
<1> QED  BY <1>3, <1>5, Zenon

\* Whatever calls are accepted beside a blank: what a wake that found none under
\* way has read of the registry stays true until it is over or superseded, and
\* makes the registry forget a controller only when that one no longer keeps the
\* panel dark.
THEOREM RegistryAnswers == ExecSpec => OwnerAnswers
<1>1. ExecInit => IInv
    BY InitInv
<1>2. IInv /\ [ExecNext]_execVars => IInv'
    BY StepInv
<1>3. IInv => OwnerStays
    BY DEF IInv
<1>4. IInv /\ [ExecNext]_execVars => [OwnerIsForgottenAwake]_execVars
    BY ForgottenAwake DEF OwnerIsForgottenAwake
<1> QED  BY <1>1, <1>2, <1>3, <1>4, PTL DEF ExecSpec, OwnerAnswers
=============================================================================
