--------------------------- MODULE OperationsProofs ---------------------------
(***************************************************************************)
(* Theorems about the hardware operations and the reload, for any displays *)
(* and rules, any requests and any number of reloads.                      *)
(*                                                                         *)
(* That leased operations keep apart rests on who has which lease: a       *)
(* message on its way, the supervisor of an exercise or an emergency wake, *)
(* and never two of them (Owned); that the leases of the generation do not *)
(* conflict, and there are no others (Registry); and that a generation     *)
(* that is being replaced grants none (Shut).                              *)
(***************************************************************************)
EXTENDS Operations, SequenceTheorems, TLAPS

Asks == {"exercise", "emergency"}

\* What a message asks for is something that it can be asked for.
WellAsked(m) ==
  /\ m.kind = "exercise" => m.target \in Displays
  /\ m.kind = "emergency" => m.target = Nobody
  /\ m.kind \in {"pause", "resume"} => m.target \in Rules \cup {Nobody}
  /\ m.kind \notin Asks => m.op = Nobody

Messages ==
  /\ \A k \in 1 .. Len(door.queue) : WellAsked(door.queue[k]) /\ door.queue[k].op = Nobody
  /\ \A k \in 1 .. Len(channel) : WellAsked(channel[k])
  /\ sending # Nobody => WellAsked(sending.message)

Registry ==
  /\ \A lease \in leases : lease.gen = engine.gen /\ lease.id < door.next
  /\ \A lease, other \in leases :
        lease # other => /\ lease.id # other.id
                         /\ ~Conflicts(lease, other.gen, other.kind, other.target)

\* The lease of an operation.
Leased(id, kind, target) ==
  \E lease \in leases : lease.id = id /\ lease.kind = kind /\ lease.target = target

Holding == {e \in exercises : e.watch # "gone"}
Waking  == {w \in emergencies : w.id # Nobody}

\* The stamps on their way to the engine.
OnTheWay(id) ==
  \/ \E k \in 1 .. Len(channel) : channel[k].op = id
  \/ sending # Nobody /\ sending.message.op = id

\* Every lease has an owner and every owner a lease ...
Owned ==
  /\ \A k \in 1 .. Len(channel) : channel[k].op # Nobody =>
        Leased(channel[k].op, channel[k].kind, channel[k].target)
  /\ sending # Nobody /\ sending.message.op # Nobody =>
        /\ Leased(sending.message.op, sending.message.kind, sending.message.target)
        /\ engine.up /\ sending.to = engine.started
  /\ \A e \in Holding : Leased(e.id, "exercise", e.display)
  /\ \A w \in Waking : Leased(w.id, "emergency", Nobody)
  /\ \A lease \in leases : \/ OnTheWay(lease.id)
                           \/ \E e \in Holding : e.id = lease.id
                           \/ \E w \in Waking : w.id = lease.id

\* ... and no two have the same.
Single ==
  /\ \A j, k \in 1 .. Len(channel) :
        channel[j].op = channel[k].op /\ channel[j].op # Nobody => j = k
  /\ \A k \in 1 .. Len(channel) :
        sending # Nobody /\ channel[k].op = sending.message.op => channel[k].op = Nobody
  /\ \A e \in Holding : ~OnTheWay(e.id)
  /\ \A w \in Waking : ~OnTheWay(w.id)
  /\ \A e, f \in Holding : e.id = f.id => e = f
  /\ \A v, w \in Waking : v.id = w.id => v = w

Shut ==
  /\ quiescing \subseteq 0 .. engine.gen
  /\ door.gen = engine.gen \/ door.gen \in quiescing
  /\ reload.pc \notin {"idle", "snapped", "paused", "installing"} => engine.gen \in quiescing
  /\ reload.pc \in {"returning", "busy"} => door.gen = engine.gen
  /\ reload.pc \notin {"torn", "exited"} => engine.up
  /\ reload.pc \in {"quiet", "drained", "torn", "exited"} => leases = {}

\* What the types say of the number of reloads.
Counted ==
  /\ engine.gen <= reload.count
  /\ reload.pc \notin {"idle", "installing", "restoring"} => engine.gen < reload.count

IInv == OpsTypeOK /\ Messages /\ Registry /\ Owned /\ Single /\ Shut /\ Counted

-----------------------------------------------------------------------------
(* What a step leaves alone.                                                *)

\* The engine is the same, whatever its machines do.
Same == engine'.gen = engine.gen /\ engine'.up = engine.up /\ engine'.started = engine.started

LEMMA Untouched ==
    ASSUME IInv, Same, door'.queue = door.queue, door'.next = door.next,
           UNCHANGED <<leases, sending, channel, exercises, emergencies>>
    PROVE  Messages' /\ Registry' /\ Owned' /\ Single'
<1>1. Messages' BY DEF IInv, Messages, WellAsked
<1>2. Registry' BY DEF IInv, Registry, Same, Conflicts
<1>3. Owned'
  BY DEF IInv, Owned, Same, Leased, Holding, Waking, OnTheWay
<1>4. Single' BY DEF IInv, Single, Holding, Waking, OnTheWay
<1> QED BY <1>1, <1>2, <1>3, <1>4

LEMMA StaysShut ==
    ASSUME IInv, Same, door'.gen = door.gen, UNCHANGED <<quiescing, reload>>,
           leases = {} /\ reload.pc \in {"quiet", "drained", "torn", "exited"} => leases' = {}
    PROVE  Shut' /\ Counted'
<1>1. Shut' BY DEF IInv, Shut, Same
<1>2. Counted' BY DEF IInv, Counted, Same
<1> QED BY <1>1, <1>2

LEMMA Outset == OpsInit => IInv
<1> SUFFICES ASSUME OpsInit PROVE IInv OBVIOUS
<1> USE DEF OpsInit
<1>1. OpsTypeOK
  BY OperationsAssumption DEF OpsTypeOK, Engine, Reload, Generations, Ids
<1>2. Messages BY DEF Messages
<1>3. Registry BY DEF Registry
<1>4. Owned BY DEF Owned, Holding, Waking
<1>5. Single BY DEF Single, Holding, Waking
<1>6. Shut BY DEF Shut
<1>7. Counted BY DEF Counted
<1> QED BY <1>1, <1>2, <1>3, <1>4, <1>5, <1>6, <1>7 DEF IInv

-----------------------------------------------------------------------------
(* The registry.                                                            *)

\* A lease is only granted to the generation of a running engine that is not
\* being replaced, and the registry stays free of conflicts.
LEMMA Granting ==
    ASSUME IInv, NEW gen, gen = engine.gen \/ gen = door.gen,
           NEW kind \in Asks, NEW target \in Displays \cup {Nobody},
           Grants(leases, gen, kind, target),
           leases' = leases \cup {NewLease(door.next, gen, kind, target)},
           door'.next = door.next + 1, engine'.gen = engine.gen
    PROVE  /\ gen = engine.gen
           /\ reload.pc # "exited" => engine.up
           /\ reload.pc \notin {"quiet", "drained", "torn", "exited"}
           /\ Registry'
           /\ leases' \subseteq Lease
           /\ door'.next \in Nat
<1> DEFINE new == NewLease(door.next, gen, kind, target)
<1>1. /\ gen = engine.gen
      /\ reload.pc \notin {"quiet", "drained", "torn", "exited"}
      /\ reload.pc # "exited" => engine.up
  BY DEF IInv, Shut, Grants
<1>2. /\ door.next \in Nat /\ engine.gen \in Generations /\ leases \subseteq Lease
  BY DEF IInv, OpsTypeOK, Engine, Ids
<1>3. /\ new \in Lease /\ new.id = door.next /\ new.gen = gen
      /\ new.kind = kind /\ new.target = target
  BY <1>1, <1>2 DEF NewLease, Lease, Ids, Asks
<1> HIDE DEF new
<1>4. leases' = leases \cup {new} BY DEF new
<1>5. \A lease \in leases : lease.gen = engine.gen /\ lease.id < door.next /\ lease.id \in Nat
  BY <1>2 DEF IInv, Registry, Lease, Ids
<1>6. \A lease \in leases' : lease.gen = engine'.gen /\ lease.id < door'.next
  BY <1>1, <1>2, <1>3, <1>4, <1>5
<1>7. \A lease \in leases : /\ lease.id # new.id
                            /\ ~Conflicts(lease, new.gen, new.kind, new.target)
                            /\ ~Conflicts(new, lease.gen, lease.kind, lease.target)
  BY <1>2, <1>3, <1>5 DEF Grants, Conflicts
<1>8. \A lease, other \in leases' :
        lease # other => /\ lease.id # other.id
                         /\ ~Conflicts(lease, other.gen, other.kind, other.target)
  BY <1>4, <1>7 DEF IInv, Registry
<1> QED BY <1>1, <1>2, <1>3, <1>4, <1>6, <1>8 DEF Registry

\* A message that is stamped names a lease of its own; one that is not has none.
LEMMA Stamping ==
    ASSUME IInv, NEW m \in Message, WellAsked(m), m.op = Nobody,
           leases' = Stamps(m).leases, door'.next = Stamps(m).next,
           engine'.gen = engine.gen
    PROVE  /\ Stamped(m) \in Message /\ WellAsked(Stamped(m))
           /\ leases \subseteq leases' /\ leases' \subseteq Lease
           /\ \A lease \in leases' : lease \in leases \/ lease.id = Stamped(m).op
           /\ Registry' /\ door'.next \in Nat
           /\ Stamped(m).op # Nobody =>
                /\ Stamped(m).op = door.next /\ engine.up
                /\ reload.pc \notin {"quiet", "drained", "torn", "exited"}
                /\ \E lease \in leases' : /\ lease.id = Stamped(m).op
                                          /\ lease.kind = Stamped(m).kind
                                          /\ lease.target = Stamped(m).target
           /\ Stamped(m).op = Nobody => leases' = leases
<1> DEFINE s == Stamped(m)
<1>0. door.next \in Nat /\ leases \subseteq Lease /\ Nobody \notin Nat
  BY OperationsAssumption DEF IInv, OpsTypeOK, Ids
<1>1. CASE Stampable(m)
  <2>1. /\ s \in Message /\ s.op = door.next /\ s.kind = m.kind /\ s.target = m.target
    BY <1>0, <1>1 DEF Stamped, Message, Ids
  <2>2. /\ m.kind \in Asks /\ m.target \in Displays \cup {Nobody}
        /\ Grants(leases, door.gen, m.kind, m.target)
    BY <1>1 DEF Stampable, WellAsked, Asks
  <2>3. /\ leases' = leases \cup {NewLease(door.next, door.gen, m.kind, m.target)}
        /\ door'.next = door.next + 1
    BY <1>1 DEF Stamps
  <2>4. /\ reload.pc \notin {"quiet", "drained", "torn", "exited"} /\ engine.up
        /\ Registry' /\ leases' \subseteq Lease /\ door'.next \in Nat
    BY <2>2, <2>3, Granting
  <2>5. WellAsked(s) BY <2>1, <2>2 DEF WellAsked
  <2> DEFINE new == NewLease(door.next, door.gen, m.kind, m.target)
  <2>a. new.id = door.next /\ new.kind = m.kind /\ new.target = m.target
    BY DEF NewLease
  <2> HIDE DEF s, new
  <2>b. leases' = leases \cup {new} BY <2>3 DEF new
  <2>6. \E lease \in leases' : lease.id = s.op /\ lease.kind = s.kind /\ lease.target = s.target
    BY <2>1, <2>a, <2>b
  <2>7. \A lease \in leases' : lease \in leases \/ lease.id = s.op
    BY <2>1, <2>a, <2>b
  <2> QED BY <1>0, <2>1, <2>3, <2>4, <2>5, <2>6, <2>7 DEF s
<1>2. CASE ~Stampable(m)
  <2>1. s = m /\ leases' = leases /\ door'.next = door.next
    BY <1>2 DEF Stamped, Stamps
  <2>2. Registry' BY <2>1 DEF IInv, Registry, Conflicts
  <2> HIDE DEF s
  <2> QED BY <1>0, <2>1, <2>2 DEF s
<1> QED BY <1>1, <1>2

-----------------------------------------------------------------------------
(* The front door.                                                          *)

LEMMA RouteKeeps ==
    ASSUME IInv, NEW r \in Requests, Route(r[1], r[2])
    PROVE  IInv'
<1> DEFINE message == [kind |-> r[1], target |-> r[2], op |-> Nobody]
           counted == [door EXCEPT !.requests = @ + 1]
<1>0. /\ door \in [paused : BOOLEAN, gen : Generations, queue : Seq(Message),
                   requests : 0 .. MaxRequests, next : Ids]
      /\ door.requests < MaxRequests /\ MaxRequests \in Nat
      /\ sending = Nobody /\ engine.started \in 0 .. MaxReloads
      /\ Flushing \/ engine.up \/ reload.pc = "torn"
  BY OperationsAssumption DEF IInv, OpsTypeOK, Engine, Route, Shut
<1>1. message \in Message /\ WellAsked(message) /\ message.op = Nobody
  BY OperationsAssumption DEF Message, Kinds, WellAsked, Asks
<1>2. UNCHANGED <<quiescing, channel, engine, panel, results, exercises, emergencies,
                  wakes, reload>>
  BY DEF Route
<1>3. counted \in [paused : BOOLEAN, gen : Generations, queue : Seq(Message),
                   requests : 0 .. MaxRequests, next : Ids]
      /\ counted.paused = door.paused /\ counted.gen = door.gen
      /\ counted.queue = door.queue /\ counted.next = door.next
  BY <1>0
<1> HIDE DEF message, counted
<1>4. CASE door.paused
  <2>1. /\ door' = [counted EXCEPT !.queue = Append(@, message)]
        /\ UNCHANGED <<leases, sending>>
    BY <1>4 DEF Route, message, counted
  <2>2. /\ door'.queue = Append(door.queue, message) /\ door'.next = door.next
        /\ door'.gen = door.gen
    BY <1>3, <2>1
  <2>a. Append(door.queue, message) \in Seq(Message) BY <1>0, <1>1
  <2>b. door' = [counted EXCEPT !.queue = Append(door.queue, message)] BY <1>3, <2>1
  <2>c. door' \in [paused : BOOLEAN, gen : Generations, queue : Seq(Message),
                   requests : 0 .. MaxRequests, next : Ids]
    BY <1>3, <2>a, <2>b
  <2>3. OpsTypeOK' BY <1>2, <2>1, <2>c DEF IInv, OpsTypeOK
  <2>4. \A k \in 1 .. Len(door'.queue) :
            WellAsked(door'.queue[k]) /\ door'.queue[k].op = Nobody
    <3>1. door.queue \in Seq(Message) BY <1>0
    <3> QED BY <1>1, <2>2, <3>1 DEF IInv, Messages
  <2>5. Messages' BY <1>2, <2>1, <2>4 DEF IInv, Messages, WellAsked
  <2>6. Registry' BY <1>2, <2>1, <2>2 DEF IInv, Registry, Conflicts
  <2>7. Owned' BY <1>2, <2>1 DEF IInv, Owned, Leased, Holding, Waking, OnTheWay
  <2>8. Single' BY <1>2, <2>1 DEF IInv, Single, Holding, Waking, OnTheWay
  <2>9. Shut' /\ Counted' BY <1>2, <2>1, <2>2, StaysShut DEF Same
  <2> QED BY <2>3, <2>5, <2>6, <2>7, <2>8, <2>9 DEF IInv
<1>5. CASE ~door.paused
  <2> DEFINE s == Stamped(message)
  <2>1. /\ sending' = [message |-> s, to |-> engine.started]
        /\ leases' = Stamps(message).leases
        /\ door' = [counted EXCEPT !.next = Stamps(message).next]
    BY <1>5 DEF Route, message, counted
  <2>2. /\ door'.next = Stamps(message).next /\ door'.queue = door.queue
        /\ door'.gen = door.gen
    BY <1>3, <2>1
  <2>3. /\ s \in Message /\ WellAsked(s)
        /\ leases \subseteq leases' /\ leases' \subseteq Lease
        /\ \A lease \in leases' : lease \in leases \/ lease.id = s.op
        /\ Registry' /\ door'.next \in Nat
        /\ s.op # Nobody =>
             /\ s.op = door.next /\ engine.up
             /\ reload.pc \notin {"quiet", "drained", "torn", "exited"}
             /\ \E lease \in leases' : /\ lease.id = s.op /\ lease.kind = s.kind
                                       /\ lease.target = s.target
        /\ s.op = Nobody => leases' = leases
    BY <1>1, <1>2, <2>1, <2>2, Stamping
  <2> HIDE DEF s
  <2>4. /\ sending'.message = s /\ sending'.to = engine.started
        /\ sending' \in [message : Message, to : 0 .. MaxReloads]
        /\ sending' # Nobody
    BY <1>0, <2>1, <2>3, SendingAssumption
  <2>5. door' \in [paused : BOOLEAN, gen : Generations, queue : Seq(Message),
                   requests : 0 .. MaxRequests, next : Ids]
    BY <1>3, <2>1, <2>2, <2>3 DEF Ids
  <2>6. OpsTypeOK' BY <1>2, <2>3, <2>4, <2>5 DEF IInv, OpsTypeOK
  <2>7. Messages' BY <1>2, <2>2, <2>3, <2>4 DEF IInv, Messages, WellAsked
  <2>8. \A lease \in leases : lease.id \in Nat /\ lease.id < door.next
    BY DEF IInv, Registry, OpsTypeOK, Lease, Ids
  <2>9. Owned' BY <1>0, <1>2, <2>3, <2>4 DEF IInv, Owned, Leased, Holding, Waking, OnTheWay
  <2>10. /\ \A k \in 1 .. Len(channel) : channel[k].op # Nobody => channel[k].op # s.op
         /\ \A e \in Holding : e.id # s.op
         /\ \A w \in Waking : w.id # s.op
    BY <2>3, <2>8, OperationsAssumption DEF IInv, Owned, Leased, Waking
  <2>11. Single' BY <1>0, <1>2, <2>4, <2>10 DEF IInv, Single, Holding, Waking, OnTheWay
  <2>12. Shut' /\ Counted' BY <1>2, <2>2, <2>3, StaysShut DEF Same
  <2> QED BY <2>3, <2>6, <2>7, <2>9, <2>11, <2>12 DEF IInv
<1> QED BY <1>4, <1>5

LEMMA SendKeeps == ASSUME IInv, Send PROVE IInv'
<1>1. /\ UNCHANGED <<leases, quiescing, door, engine, panel, results, exercises,
                     emergencies, wakes, reload>>
      /\ sending # Nobody /\ sending' = Nobody
  BY DEF Send
<1>2. /\ sending \in [message : Message, to : 0 .. MaxReloads] /\ channel \in Seq(Message)
  BY <1>1 DEF IInv, OpsTypeOK
<1>3. Registry' BY <1>1 DEF IInv, Registry, Conflicts
<1>4. Shut' /\ Counted' BY <1>1, StaysShut DEF Same
<1>5. CASE engine.up /\ sending.to = engine.started
  <2>1. channel' = Append(channel, sending.message) BY <1>5 DEF Send
  <2>2. sending.message \in Message BY <1>2
  <2>3. /\ channel' \in Seq(Message) /\ Len(channel') = Len(channel) + 1
        /\ \A k \in 1 .. Len(channel) : channel'[k] = channel[k]
        /\ channel'[Len(channel) + 1] = sending.message
    BY <1>2, <2>1, <2>2
  <2>4. Len(channel) \in Nat BY <1>2
  <2>5. OpsTypeOK' BY <1>1, <2>3 DEF IInv, OpsTypeOK
  <2>6. Messages' BY <1>1, <2>3, <2>4 DEF IInv, Messages, WellAsked
  <2>7. \A id : OnTheWay(id) <=> \E k \in 1 .. Len(channel') : channel'[k].op = id
    BY <1>1, <2>3, <2>4 DEF OnTheWay
  <2>8. Owned'
    BY <1>1, <2>3, <2>4, <2>7 DEF IInv, Owned, Leased, Holding, Waking, OnTheWay
  <2>9. Single'
    BY <1>1, <2>3, <2>4, <2>7 DEF IInv, Single, Holding, Waking, OnTheWay
  <2> QED BY <1>3, <1>4, <2>5, <2>6, <2>8, <2>9 DEF IInv
<1>6. CASE ~(engine.up /\ sending.to = engine.started)
  <2>1. channel' = channel /\ sending.message.op = Nobody
    BY <1>1, <1>6 DEF Send, IInv, Owned
  <2>2. OpsTypeOK' BY <1>1, <2>1 DEF IInv, OpsTypeOK
  <2>3. Messages' BY <1>1, <2>1 DEF IInv, Messages, WellAsked
  <2>4. \A lease \in leases : lease.id # Nobody
    BY OperationsAssumption DEF IInv, OpsTypeOK, Lease, Ids
  <2>5. Owned'
    BY <1>1, <2>1, <2>4 DEF IInv, Owned, Leased, Holding, Waking, OnTheWay
  <2>6. Single' BY <1>1, <2>1 DEF IInv, Single, Holding, Waking, OnTheWay
  <2> QED BY <1>3, <1>4, <2>2, <2>3, <2>5, <2>6 DEF IInv
<1> QED BY <1>5, <1>6

-----------------------------------------------------------------------------
(* The engine.                                                              *)

\* What the engine takes from its channel was on its way, and is no more.
LEMMA Dequeued ==
    ASSUME IInv, channel # <<>>, channel' = Tail(channel), sending' = sending
    PROVE  /\ channel' \in Seq(Message)
           /\ channel[1] \in Message /\ Head(channel) = channel[1] /\ Len(channel) \in Nat \ {0}
           /\ Len(channel') = Len(channel) - 1
           /\ \A k \in 1 .. Len(channel') : channel'[k] = channel[k + 1]
           /\ \A id : OnTheWay(id) <=> id = channel[1].op \/ OnTheWay(id)'
           /\ \A id : id = channel[1].op /\ id # Nobody => ~OnTheWay(id)'

<1>0. channel \in Seq(Message) BY DEF IInv, OpsTypeOK
<1>1. /\ channel' \in Seq(Message)
      /\ channel[1] \in Message /\ Head(channel) = channel[1] /\ Len(channel) \in Nat \ {0}
      /\ Len(channel') = Len(channel) - 1
      /\ \A k \in 1 .. Len(channel') : channel'[k] = channel[k + 1]
  BY <1>0
<1>2. ASSUME NEW id PROVE OnTheWay(id) <=> id = channel[1].op \/ OnTheWay(id)'
  <2>1. (\E k \in 1 .. Len(channel) : channel[k].op = id)
          <=> id = channel[1].op \/ \E k \in 1 .. Len(channel') : channel'[k].op = id
    <3>1. ASSUME NEW k \in 1 .. Len(channel), channel[k].op = id, id # channel[1].op
          PROVE  \E j \in 1 .. Len(channel') : channel'[j].op = id
      <4>1. k # 1 BY <3>1
      <4>2. k - 1 \in 1 .. Len(channel') /\ channel'[k - 1] = channel[k]
        BY <1>1, <4>1
      <4> QED BY <3>1, <4>2
    <3>2. ASSUME NEW k \in 1 .. Len(channel'), channel'[k].op = id
          PROVE  \E j \in 1 .. Len(channel) : channel[j].op = id
      <4>1. k + 1 \in 1 .. Len(channel) BY <1>1
      <4> QED BY <1>1, <3>2, <4>1
    <3>3. 1 \in 1 .. Len(channel) BY <1>1
    <3> QED BY <3>1, <3>2, <3>3
  <2> QED BY <2>1 DEF OnTheWay
<1>3. ASSUME NEW id, id = channel[1].op, id # Nobody PROVE ~OnTheWay(id)'
  <2>1. \A k \in 1 .. Len(channel') : channel'[k].op # id
    <3> TAKE k \in 1 .. Len(channel')
    <3>1. k + 1 \in 1 .. Len(channel) /\ k + 1 # 1 /\ 1 \in 1 .. Len(channel) BY <1>1
    <3> QED BY <1>1, <1>3, <3>1 DEF IInv, Single
  <2>2. sending # Nobody => sending.message.op # id
    <3>1. 1 \in 1 .. Len(channel) BY <1>1
    <3> QED BY <1>3, <3>1 DEF IInv, Single
  <2> QED BY <2>1, <2>2 DEF OnTheWay
<1> QED BY <1>1, <1>2, <1>3

LEMMA Taking ==
    ASSUME IInv, channel # <<>>, channel' = Tail(channel), sending' = sending,
           door'.queue = door.queue, Same, leases \subseteq leases'
    PROVE  /\ Messages'
           /\ \A k \in 1 .. Len(channel') : channel'[k].op # Nobody =>
                \E lease \in leases' : /\ lease.id = channel'[k].op
                                       /\ lease.kind = channel'[k].kind
                                       /\ lease.target = channel'[k].target
           /\ sending' # Nobody /\ sending'.message.op # Nobody =>
                /\ \E lease \in leases' : /\ lease.id = sending'.message.op
                                          /\ lease.kind = sending'.message.kind
                                          /\ lease.target = sending'.message.target
                /\ engine'.up /\ sending'.to = engine'.started
           /\ \A j, k \in 1 .. Len(channel') :
                channel'[j].op = channel'[k].op /\ channel'[j].op # Nobody => j = k
           /\ \A k \in 1 .. Len(channel') :
                sending' # Nobody /\ channel'[k].op = sending'.message.op =>
                  channel'[k].op = Nobody
<1>1. /\ Len(channel) \in Nat \ {0} /\ Len(channel') = Len(channel) - 1
      /\ \A k \in 1 .. Len(channel') : channel'[k] = channel[k + 1]
  BY Dequeued
<1>2. \A k \in 1 .. Len(channel') : k + 1 \in 1 .. Len(channel) /\ channel'[k] = channel[k + 1]
  BY <1>1
<1>3. Messages' BY <1>2 DEF IInv, Messages, WellAsked
<1>4. \A k \in 1 .. Len(channel') : channel'[k].op # Nobody =>
        \E lease \in leases' : /\ lease.id = channel'[k].op
                               /\ lease.kind = channel'[k].kind
                               /\ lease.target = channel'[k].target
  BY <1>2 DEF IInv, Owned, Leased
<1>5. sending' # Nobody /\ sending'.message.op # Nobody =>
        /\ \E lease \in leases' : /\ lease.id = sending'.message.op
                                  /\ lease.kind = sending'.message.kind
                                  /\ lease.target = sending'.message.target
        /\ engine'.up /\ sending'.to = engine'.started
  BY DEF IInv, Owned, Leased, Same
<1>6. ASSUME NEW j \in 1 .. Len(channel'), NEW k \in 1 .. Len(channel'),
             channel'[j].op = channel'[k].op, channel'[j].op # Nobody
      PROVE  j = k
  <2>1. j + 1 = k + 1 BY <1>2, <1>6 DEF IInv, Single
  <2> QED BY <2>1
<1>7. \A k \in 1 .. Len(channel') :
        sending' # Nobody /\ channel'[k].op = sending'.message.op => channel'[k].op = Nobody
  BY <1>2 DEF IInv, Single
<1> QED BY <1>3, <1>4, <1>5, <1>6, <1>7

LEMMA Covering ==
    ASSUME NEW target \in Rules \cup {Nobody} PROVE Covered(target) \subseteq Displays
BY OperationsAssumption DEF Covered

LEMMA Pausing ==
    ASSUME IInv, NEW displays \in SUBSET Displays
    PROVE  /\ Paused(displays) \in Engine /\ Resumed(displays) \in Engine
           /\ [Paused(displays) EXCEPT !.asked = @ \cup displays] \in Engine
           /\ [Resumed(displays) EXCEPT !.asked = @ \ displays] \in Engine
           /\ [Paused(displays) EXCEPT !.asked = displays] \in Engine
           /\ \A e \in {Paused(displays), Resumed(displays),
                       [Paused(displays) EXCEPT !.asked = @ \cup displays],
                       [Resumed(displays) EXCEPT !.asked = @ \ displays],
                       [Paused(displays) EXCEPT !.asked = displays]} :
                e.gen = engine.gen /\ e.up = engine.up /\ e.started = engine.started
<1>1. engine \in Engine BY DEF IInv, OpsTypeOK
<1>2. /\ engine.paused \cup displays \subseteq Displays /\ engine.paused \ displays \subseteq Displays
      /\ engine.asked \cup displays \subseteq Displays /\ engine.asked \ displays \subseteq Displays
  BY <1>1 DEF Engine
<1>3. Paused(displays) \in Engine /\ Resumed(displays) \in Engine
  BY <1>1, <1>2 DEF Paused, Resumed, Engine
<1>4. /\ Paused(displays).asked = engine.asked /\ Resumed(displays).asked = engine.asked
      /\ \A e \in {Paused(displays), Resumed(displays)} :
           e.gen = engine.gen /\ e.up = engine.up /\ e.started = engine.started
  BY <1>1 DEF Paused, Resumed, Engine
<1>5. ASSUME NEW e \in {Paused(displays), Resumed(displays)}, NEW asked \in SUBSET Displays
      PROVE  /\ [e EXCEPT !.asked = asked] \in Engine
             /\ [e EXCEPT !.asked = asked].gen = engine.gen
             /\ [e EXCEPT !.asked = asked].up = engine.up
             /\ [e EXCEPT !.asked = asked].started = engine.started
  <2>1. e \in Engine BY <1>3
  <2> QED BY <1>4, <2>1 DEF Engine
<1>6. /\ [Paused(displays) EXCEPT !.asked = @ \cup displays]
           = [Paused(displays) EXCEPT !.asked = engine.asked \cup displays]
      /\ [Resumed(displays) EXCEPT !.asked = @ \ displays]
           = [Resumed(displays) EXCEPT !.asked = engine.asked \ displays]
  BY <1>4
<1>7. /\ [Paused(displays) EXCEPT !.asked = @ \cup displays] \in Engine
      /\ [Resumed(displays) EXCEPT !.asked = @ \ displays] \in Engine
      /\ [Paused(displays) EXCEPT !.asked = displays] \in Engine
      /\ \A e \in {[Paused(displays) EXCEPT !.asked = @ \cup displays],
                  [Resumed(displays) EXCEPT !.asked = @ \ displays],
                  [Paused(displays) EXCEPT !.asked = displays]} :
            e.gen = engine.gen /\ e.up = engine.up /\ e.started = engine.started
  BY <1>2, <1>5, <1>6
<1> QED BY <1>3, <1>4, <1>7

\* A message that is taken and gives no operation.
LEMMA Dropping ==
    ASSUME IInv, channel # <<>>, channel' = Tail(channel), channel[1].op = Nobody,
           engine' \in Engine, Same,
           UNCHANGED <<leases, quiescing, door, sending, panel, results, exercises,
                       emergencies, wakes, reload>>
    PROVE  IInv'
<1>1. /\ channel' \in Seq(Message)
      /\ \A id : OnTheWay(id) <=> id = channel[1].op \/ OnTheWay(id)'
  BY Dequeued
<1>2. OpsTypeOK' BY <1>1 DEF IInv, OpsTypeOK
<1>3. Registry' BY DEF IInv, Registry, Conflicts, Same
<1>4. \A lease \in leases : lease.id # Nobody
  BY OperationsAssumption DEF IInv, OpsTypeOK, Lease, Ids
<1>5. Owned' BY <1>1, <1>4, Taking DEF IInv, Owned, Leased, Holding, Waking
<1>6. Single' BY <1>1, Taking DEF IInv, Single, Holding, Waking
<1>7. Shut' /\ Counted' BY StaysShut
<1> QED BY <1>2, <1>3, <1>5, <1>6, <1>7, Taking DEF IInv

LEMMA HandlePauseKeeps ==
    ASSUME IInv, HandleControl, channel[1].kind \in {"pause", "resume"}
    PROVE  IInv'
<1>1. /\ channel # <<>> /\ channel' = Tail(channel)
      /\ UNCHANGED <<quiescing, sending, panel, results, wakes, reload>>
  BY DEF HandleControl
<1>2. channel[1] \in Message /\ Head(channel) = channel[1] /\ 1 \in 1 .. Len(channel)
  BY <1>1 DEF IInv, OpsTypeOK
<1>3. channel[1].op = Nobody /\ channel[1].target \in Rules \cup {Nobody}
  BY <1>2 DEF IInv, Messages, WellAsked, Asks
<1>4. HandlePause(channel[1]) \/ HandleResume(channel[1])
  BY <1>2 DEF HandleControl
<1>5. /\ UNCHANGED <<leases, door, exercises, emergencies>>
      /\ engine \in Engine /\ Covered(channel[1].target) \subseteq Displays
  BY <1>3, <1>4, Covering DEF HandlePause, HandleResume, IInv, OpsTypeOK
<1>6. engine' \in Engine /\ Same
  <2> DEFINE c == Covered(channel[1].target)
  <2>1. \/ engine' = [Paused(c) EXCEPT !.asked = @ \cup c]
        \/ engine' = [Resumed(c) EXCEPT !.asked = @ \ c]
    BY <1>4 DEF HandlePause, HandleResume
  <2>2. c \in SUBSET Displays BY <1>5
  <2> HIDE DEF c
  <2>3. /\ [Paused(c) EXCEPT !.asked = @ \cup c] \in Engine
        /\ [Resumed(c) EXCEPT !.asked = @ \ c] \in Engine
        /\ \A e \in {[Paused(c) EXCEPT !.asked = @ \cup c], [Resumed(c) EXCEPT !.asked = @ \ c]} :
             e.gen = engine.gen /\ e.up = engine.up /\ e.started = engine.started
    BY <2>2, Pausing
  <2> QED BY <2>1, <2>3 DEF Same
<1> QED BY <1>1, <1>3, <1>5, <1>6, Dropping

LEMMA HandleEmergencyWakeKeeps ==
    ASSUME IInv, HandleControl, channel[1].kind = "emergency"
    PROVE  IInv'
<1> DEFINE w == [id |-> channel[1].op, started |-> engine.started, left |-> Displays]
<1>1. /\ channel # <<>> /\ channel' = Tail(channel)
      /\ UNCHANGED <<quiescing, sending, panel, results, wakes, reload>>
  BY DEF HandleControl
<1>2. channel[1] \in Message /\ Head(channel) = channel[1] /\ 1 \in 1 .. Len(channel)
  BY <1>1 DEF IInv, OpsTypeOK
<1>3. channel[1].target = Nobody BY <1>2 DEF IInv, Messages, WellAsked
<1>4. HandleEmergencyWake(channel[1]) BY <1>2 DEF HandleControl
<1>5. UNCHANGED <<leases, door, exercises>> /\ engine \in Engine
  BY <1>4 DEF HandleEmergencyWake, IInv, OpsTypeOK
<1>6. engine' \in Engine /\ Same
  BY <1>4, Pausing DEF HandleEmergencyWake, Same
<1>7. w \in Emergency /\ w.id = channel[1].op
  BY <1>2, <1>5 DEF Emergency, Engine, Message
<1> HIDE DEF w
<1>8. emergencies' = emergencies \cup {w} BY <1>4 DEF HandleEmergencyWake, w
<1>9. /\ channel' \in Seq(Message)
      /\ \A id : OnTheWay(id) <=> id = channel[1].op \/ OnTheWay(id)'
      /\ \A id : id = channel[1].op /\ id # Nobody => ~OnTheWay(id)'
  BY <1>1, Dequeued
<1>10. OpsTypeOK' BY <1>1, <1>5, <1>6, <1>7, <1>8, <1>9 DEF IInv, OpsTypeOK
<1>11. Registry' BY <1>5, <1>6 DEF IInv, Registry, Conflicts, Same
<1>12. \A id : id = w.id /\ id # Nobody =>
         OnTheWay(id) /\ ~OnTheWay(id)' /\ Leased(id, "emergency", Nobody)
  <2>1. channel[1].op # Nobody => Leased(channel[1].op, channel[1].kind, channel[1].target)
    BY <1>2 DEF IInv, Owned
  <2> QED BY <1>3, <1>7, <1>9, <2>1
<1>13. \A lease \in leases : lease.id # Nobody
  BY OperationsAssumption DEF IInv, OpsTypeOK, Lease, Ids
<1>14. Waking' = IF w.id = Nobody THEN Waking ELSE Waking \cup {w}
  BY <1>8 DEF Waking
<1>15. Owned'
  <2>1. \A v \in Waking' : Leased(v.id, "emergency", Nobody)
    BY <1>12, <1>14 DEF IInv, Owned
  <2>2. \A lease \in leases : \/ OnTheWay(lease.id)'
                              \/ \E e \in Holding : e.id = lease.id
                              \/ \E v \in Waking' : v.id = lease.id
    BY <1>7, <1>9, <1>13, <1>14 DEF IInv, Owned
  <2> QED BY <1>1, <1>5, <1>6, <2>1, <2>2, Taking DEF IInv, Owned, Leased, Holding
<1>16. Single'
  <2>1. \A v \in Waking' : ~OnTheWay(v.id)' BY <1>9, <1>12, <1>14 DEF IInv, Single
  <2>2. \A e \in Holding : ~OnTheWay(e.id)' BY <1>9 DEF IInv, Single
  <2>3. \A v \in Waking : w.id # Nobody => v.id # w.id BY <1>12 DEF IInv, Single
  <2>4. \A u, v \in Waking' : u.id = v.id => u = v BY <1>14, <2>3 DEF IInv, Single
  <2> QED BY <1>1, <1>5, <1>6, <2>1, <2>2, <2>4, Taking DEF IInv, Single, Holding
<1>17. Shut' /\ Counted' BY <1>1, <1>5, <1>6, StaysShut
<1> QED BY <1>1, <1>5, <1>6, <1>10, <1>11, <1>15, <1>16, <1>17, Taking DEF IInv

LEMMA HandleExerciseKeeps ==
    ASSUME IInv, HandleControl, channel[1].kind = "exercise"
    PROVE  IInv'
<1> DEFINE m        == channel[1]
           adopts   == m.op # Nobody /\ \E lease \in leases : lease.id = m.op
           acquires == ~adopts /\ Grants(leases, engine.gen, "exercise", m.target)
           id       == IF adopts THEN m.op ELSE door.next
           x        == [id |-> id, gen |-> engine.gen, started |-> engine.started,
                        display |-> m.target, step |-> "blank", watch |-> "waiting",
                        pre |-> IF m.target \in engine.dark THEN "dark" ELSE "active"]
<1>1. /\ channel # <<>> /\ channel' = Tail(channel) /\ engine.up
      /\ UNCHANGED <<quiescing, sending, panel, results, wakes, reload>>
  BY DEF HandleControl
<1>2. m \in Message /\ Head(channel) = m /\ 1 \in 1 .. Len(channel)
  BY <1>1 DEF IInv, OpsTypeOK
<1>3. m.target \in Displays BY <1>2 DEF IInv, Messages, WellAsked
<1>4. HandleExercise(m) BY <1>2 DEF HandleControl
<1>5. m.op # Nobody => adopts /\ Leased(m.op, "exercise", m.target)
  <2>1. m.op # Nobody => Leased(m.op, m.kind, m.target) BY <1>2 DEF IInv, Owned
  <2> QED BY <2>1 DEF Leased
<1>6. /\ engine \in Engine /\ door.next \in Nat /\ leases \subseteq Lease /\ Nobody \notin Nat
      /\ door \in [paused : BOOLEAN, gen : Generations, queue : Seq(Message),
                   requests : 0 .. MaxRequests, next : Ids]
  BY OperationsAssumption DEF IInv, OpsTypeOK, Ids
<1>7. CASE ~adopts /\ ~acquires
  <2>1. UNCHANGED <<leases, door, engine, exercises, emergencies>>
    BY <1>4, <1>7 DEF HandleExercise
  <2> QED BY <1>1, <1>5, <1>6, <1>7, <2>1, Dropping DEF Same
<1>8. CASE adopts \/ acquires
  <2>1. /\ leases' = IF adopts THEN leases
                     ELSE leases \cup {NewLease(id, engine.gen, "exercise", m.target)}
        /\ door' = IF adopts THEN door ELSE [door EXCEPT !.next = @ + 1]
        /\ engine' = Paused(UNION {RuleDisplays[r] : r \in RulesOf(m.target)})
        /\ exercises' = exercises \cup {x}
        /\ UNCHANGED emergencies
    BY <1>4, <1>8 DEF HandleExercise
  <2>2. engine' \in Engine /\ Same
    <3>1. UNION {RuleDisplays[r] : r \in RulesOf(m.target)} \in SUBSET Displays
      BY OperationsAssumption DEF RulesOf
    <3> QED BY <2>1, <3>1, Pausing DEF Same
  <2>3. id \in Nat BY <1>2, <1>6 DEF Message, Ids
  <2>4. x \in Exercise /\ x.id = id /\ x.display = m.target /\ x.watch # "gone"
    BY <1>3, <1>6, <2>3 DEF Exercise, Engine, Ids
  <2>5. /\ door'.queue = door.queue /\ door'.gen = door.gen
        /\ door' \in [paused : BOOLEAN, gen : Generations, queue : Seq(Message),
                      requests : 0 .. MaxRequests, next : Ids]
    BY <1>6, <2>1 DEF Ids
  <2>6. /\ Registry' /\ leases \subseteq leases' /\ leases' \subseteq Lease
        /\ \A lease \in leases' : lease \in leases \/ lease.id = id
        /\ \E lease \in leases' : /\ lease.id = id /\ lease.kind = "exercise"
                                  /\ lease.target = m.target
        /\ reload.pc \in {"quiet", "drained", "torn", "exited"} => leases' = leases
    <3>1. CASE adopts
      <4>1. Registry' BY <2>1, <2>2, <3>1 DEF IInv, Registry, Conflicts, Same
      <4>2. Leased(id, "exercise", m.target) BY <1>5, <3>1
      <4> QED BY <1>6, <2>1, <3>1, <4>1, <4>2 DEF Leased
    <3>2. CASE ~adopts
      <4> DEFINE new == NewLease(door.next, engine.gen, "exercise", m.target)
      <4>1. leases' = leases \cup {new} /\ id = door.next BY <2>1, <3>2
      <4>2. door'.next = door.next + 1 BY <1>6, <2>1, <3>2
      <4>3. Grants(leases, engine.gen, "exercise", m.target) BY <1>8, <3>2
      <4>4. /\ Registry' /\ leases' \subseteq Lease
            /\ reload.pc \notin {"quiet", "drained", "torn", "exited"}
        BY <1>3, <2>2, <4>1, <4>2, <4>3, Granting DEF Asks, Same
      <4>5. new.id = door.next /\ new.kind = "exercise" /\ new.target = m.target
        BY DEF NewLease
      <4> HIDE DEF new
      <4> QED BY <4>1, <4>4, <4>5
    <3> QED BY <3>1, <3>2
  <2>7. /\ channel' \in Seq(Message)
        /\ \A i : OnTheWay(i) <=> i = m.op \/ OnTheWay(i)'
        /\ \A i : i = m.op /\ i # Nobody => ~OnTheWay(i)'
    BY <1>1, Dequeued
  <2>8. \A i : OnTheWay(i) /\ i # Nobody => \E lease \in leases : lease.id = i
    BY DEF IInv, Owned, OnTheWay, Leased
  <2>9. \A lease \in leases : lease.id \in Nat /\ lease.id < door.next
    BY <1>6 DEF IInv, Registry, Lease, Ids
  <2>10. \A i : i = id => ~OnTheWay(i)'
    BY <1>6, <2>3, <2>7, <2>8, <2>9
  <2>11. /\ \A e \in Holding : e.id # id
         /\ \A w \in Waking : w.id # id
    <3>1. CASE adopts
      <4>1. OnTheWay(m.op) BY <2>7
      <4> QED BY <3>1, <4>1 DEF IInv, Single
    <3>2. CASE ~adopts BY <2>9, <3>2 DEF IInv, Owned, Leased
    <3> QED BY <3>1, <3>2
  <2>12. m.op # Nobody => m.op = id BY <1>5
  <2> HIDE DEF x, id, adopts, acquires, m
  <2>13. Holding' = Holding \cup {x} BY <2>1, <2>4 DEF Holding
  <2>14. Waking' = Waking BY <2>1 DEF Waking
  <2>15. OpsTypeOK' BY <1>1, <2>1, <2>2, <2>4, <2>5, <2>6, <2>7 DEF IInv, OpsTypeOK
  <2>16. /\ Messages'
         /\ \A k \in 1 .. Len(channel') : channel'[k].op # Nobody =>
              \E lease \in leases' : /\ lease.id = channel'[k].op
                                     /\ lease.kind = channel'[k].kind
                                     /\ lease.target = channel'[k].target
         /\ sending' # Nobody /\ sending'.message.op # Nobody =>
              /\ \E lease \in leases' : /\ lease.id = sending'.message.op
                                        /\ lease.kind = sending'.message.kind
                                        /\ lease.target = sending'.message.target
              /\ engine'.up /\ sending'.to = engine'.started
         /\ \A j, k \in 1 .. Len(channel') :
              channel'[j].op = channel'[k].op /\ channel'[j].op # Nobody => j = k
         /\ \A k \in 1 .. Len(channel') :
              sending' # Nobody /\ channel'[k].op = sending'.message.op =>
                channel'[k].op = Nobody
    BY <1>1, <2>2, <2>5, <2>6, Taking
  <2>17. Owned'
    <3>1. \A e \in Holding' : \E lease \in leases' : /\ lease.id = e.id
                                                     /\ lease.kind = "exercise"
                                                     /\ lease.target = e.display
      BY <2>4, <2>6, <2>13 DEF IInv, Owned, Leased
    <3>2. \A w \in Waking' : \E lease \in leases' : /\ lease.id = w.id
                                                    /\ lease.kind = "emergency"
                                                    /\ lease.target = Nobody
      BY <2>6, <2>14 DEF IInv, Owned, Leased
    <3>3. \A lease \in leases' : \/ OnTheWay(lease.id)'
                                 \/ \E e \in Holding' : e.id = lease.id
                                 \/ \E w \in Waking' : w.id = lease.id
      <4> TAKE lease \in leases'
      <4>1. CASE lease.id = id BY <2>4, <2>13, <4>1
      <4>2. CASE lease.id # id
        <5>1. lease \in leases BY <2>6, <4>2
        <5>2. lease.id # m.op BY <2>9, <2>12, <1>6, <4>2, <5>1
        <5> QED BY <2>7, <2>13, <2>14, <5>1, <5>2 DEF IInv, Owned
      <4> QED BY <4>1, <4>2
    <3> QED BY <2>16, <3>1, <3>2, <3>3 DEF Owned, Leased
  <2>18. Single'
    <3>1. \A e \in Holding' : ~OnTheWay(e.id)' BY <2>4, <2>7, <2>10, <2>13 DEF IInv, Single
    <3>2. \A w \in Waking' : ~OnTheWay(w.id)' BY <2>7, <2>14 DEF IInv, Single
    <3>3. \A e, f \in Holding' : e.id = f.id => e = f
      BY <2>4, <2>11, <2>13 DEF IInv, Single
    <3>4. \A v, w \in Waking' : v.id = w.id => v = w BY <2>14 DEF IInv, Single
    <3> QED BY <2>16, <3>1, <3>2, <3>3, <3>4 DEF Single
  <2>19. Shut' /\ Counted' BY <1>1, <2>2, <2>5, <2>6, StaysShut DEF IInv, Shut
  <2> QED BY <2>6, <2>15, <2>16, <2>17, <2>18, <2>19 DEF IInv
<1> QED BY <1>7, <1>8

LEMMA HandleControlKeeps == ASSUME IInv, HandleControl PROVE IInv'
<1>1. channel \in Seq(Message) /\ channel # <<>> BY DEF IInv, OpsTypeOK, HandleControl
<1>2. channel[1] \in Message BY <1>1
<1>3. channel[1].kind \in Kinds BY <1>2 DEF Message
<1> QED
  BY <1>3, HandlePauseKeeps, HandleEmergencyWakeKeeps, HandleExerciseKeeps DEF Kinds

\* The steps of the machines, and the defensive wakes, touch no operation.
LEMMA MachineKeeps ==
    ASSUME IInv,
           \/ \E d \in Displays : MachineBlanks(d) \/ MachineWakes(d)
           \/ \E r \in results : HandleExerciseResume(r)
           \/ \E d \in wakes : DefensiveWake(d)
    PROVE  IInv'
<1>1. UNCHANGED <<leases, quiescing, door, sending, channel, exercises, emergencies, reload>>
  BY DEF MachineBlanks, MachineWakes, HandleExerciseResume, DefensiveWake
<1>2. engine \in Engine /\ panel \in [Displays -> {"on", "off"}]
  BY DEF IInv, OpsTypeOK
<1>3. /\ engine' \in Engine /\ Same /\ panel' \in [Displays -> {"on", "off"}]
      /\ results' \subseteq Resume /\ wakes' \subseteq Displays
  <2>1. ASSUME NEW d \in Displays, MachineBlanks(d) \/ MachineWakes(d)
        PROVE  engine' \in Engine /\ Same /\ panel' \in [Displays -> {"on", "off"}]
    <3>1. \E dark \in SUBSET Displays : engine' = [engine EXCEPT !.dark = dark]
      BY <1>2, <2>1 DEF MachineBlanks, MachineWakes, Engine
    <3>2. engine' \in Engine /\ Same BY <1>2, <3>1 DEF Engine, Same
    <3>3. panel' \in [Displays -> {"on", "off"}]
      BY <1>2, <2>1 DEF MachineBlanks, MachineWakes
    <3> QED BY <3>2, <3>3
  <2>2. ASSUME NEW d \in Displays, MachineBlanks(d) \/ MachineWakes(d)
        PROVE  UNCHANGED <<results, wakes>>
    BY <2>2 DEF MachineBlanks, MachineWakes
  <2>3. ASSUME NEW r \in results, HandleExerciseResume(r)
        PROVE  engine' \in Engine /\ Same
    <3> DEFINE covered == UNION {RuleDisplays[rule] : rule \in r.rules}
    <3>1. covered \in SUBSET Displays
      <4>1. r \in Resume BY DEF IInv, OpsTypeOK
      <4> QED BY <4>1, OperationsAssumption DEF Resume
    <3>2. \/ engine' = engine
          \/ engine' = Resumed(covered)
      BY <2>3 DEF HandleExerciseResume
    <3> HIDE DEF covered
    <3>3. /\ Resumed(covered) \in Engine
          /\ Resumed(covered).gen = engine.gen
          /\ Resumed(covered).up = engine.up
          /\ Resumed(covered).started = engine.started
      BY <3>1, Pausing
    <3> QED BY <1>2, <3>2, <3>3 DEF Same
  <2>4. ASSUME NEW r \in results, HandleExerciseResume(r)
        PROVE  UNCHANGED <<panel, wakes>> /\ results' \subseteq results
    BY <2>4 DEF HandleExerciseResume
  <2>5. ASSUME NEW d \in wakes, DefensiveWake(d)
        PROVE  /\ UNCHANGED <<engine, results>> /\ wakes' \subseteq wakes
               /\ panel' \in [Displays -> {"on", "off"}]
    BY <1>2, <2>5 DEF DefensiveWake, Command
  <2> QED BY <1>2, <2>1, <2>2, <2>3, <2>4, <2>5 DEF IInv, OpsTypeOK, Same
<1>4. OpsTypeOK' BY <1>1, <1>3 DEF IInv, OpsTypeOK
<1> QED BY <1>1, <1>3, <1>4, Untouched, StaysShut DEF IInv

-----------------------------------------------------------------------------
(* The tasks of the operations.                                             *)

\* An exercise goes on, with or without its supervisor as before.
LEMMA Replacing ==
    ASSUME IInv, NEW e \in exercises, NEW f \in Exercise,
           f.id = e.id, f.display = e.display, f.watch = "gone" <=> e.watch = "gone",
           \/ exercises' = Replace(e, f)
           \/ e.watch = "gone" /\ exercises' = exercises \ {e},
           panel' \in [Displays -> {"on", "off"}],
           UNCHANGED <<leases, quiescing, door, sending, channel, engine, results,
                       emergencies, wakes, reload>>
    PROVE  IInv'
<1>1. ASSUME e.watch = "gone" PROVE Owned' /\ Single'
  <2>1. Holding' = Holding BY <1>1 DEF Holding, Replace
  <2>2. Owned' BY <2>1 DEF IInv, Owned, Leased, Waking, OnTheWay
  <2>3. Single' BY <2>1 DEF IInv, Single, Waking, OnTheWay
  <2> QED BY <2>2, <2>3
<1>2. ASSUME e.watch # "gone" PROVE Owned' /\ Single'
  <2>1. Holding' = (Holding \ {e}) \cup {f} /\ e \in Holding
    BY <1>2 DEF Holding, Replace
  <2>2. Owned' BY <2>1 DEF IInv, Owned, Leased, Waking, OnTheWay
  <2>3. Single' BY <2>1 DEF IInv, Single, Waking, OnTheWay
  <2> QED BY <2>2, <2>3
<1>3. OpsTypeOK' BY DEF IInv, OpsTypeOK, Replace
<1>4. Messages' BY DEF IInv, Messages, WellAsked
<1>5. Registry' BY DEF IInv, Registry, Conflicts
<1>6. Shut' /\ Counted' BY StaysShut DEF Same
<1>7. Owned' /\ Single' BY <1>1, <1>2
<1> QED BY <1>3, <1>4, <1>5, <1>6, <1>7 DEF IInv

\* The step, the panic and the cancellation of an exercise.
LEMMA ExerciseGoesOn ==
    ASSUME IInv, NEW e \in exercises,
           ExerciseStep(e) \/ ExercisePanics(e) \/ ExerciseCancelled(e)
    PROVE  IInv'
<1>1. e \in Exercise /\ panel \in [Displays -> {"on", "off"}]
  BY DEF IInv, OpsTypeOK
<1>2. CASE ExerciseStep(e)
  <2> DEFINE f == [e EXCEPT !.step = AfterStep[e.step]]
  <2>1. AfterStep[e.step] \in {"wake", "restore", "over"}
    BY <1>1, <1>2 DEF ExerciseStep, Exercise, AfterStep
  <2>2. f \in Exercise /\ f.id = e.id /\ f.display = e.display /\ f.watch = e.watch
    BY <1>1, <2>1 DEF Exercise
  <2>3. \/ exercises' = Replace(e, f)
        \/ e.watch = "gone" /\ exercises' = exercises \ {e}
    BY <1>2, <2>2 DEF ExerciseStep
  <2>4. panel' \in [Displays -> {"on", "off"}]
    BY <1>1, <1>2 DEF ExerciseStep, Command, Exercise
  <2>5. UNCHANGED <<leases, quiescing, door, sending, channel, engine, results,
                    emergencies, wakes, reload>>
    BY <1>2 DEF ExerciseStep
  <2> HIDE DEF f
  <2> QED BY <2>2, <2>3, <2>4, <2>5, Replacing
<1>3. CASE ExercisePanics(e) /\ e.watch = "gone"
  <2>1. /\ exercises' = exercises \ {e}
        /\ UNCHANGED <<leases, quiescing, door, sending, channel, engine, panel,
                       results, emergencies, wakes, reload>>
    BY <1>3 DEF ExercisePanics
  <2> QED BY <1>1, <1>3, <2>1, Replacing
<1>4. CASE (ExercisePanics(e) /\ e.watch # "gone") \/ ExerciseCancelled(e)
  <2>1. PICK step \in {"over", e.step} :
          /\ exercises' = Replace(e, [e EXCEPT !.step = step, !.watch = "waking"])
          /\ e.watch # "gone"
    <3>1. CASE ExercisePanics(e) /\ e.watch = "waking"
      <4>1. [e EXCEPT !.step = "over"] = [e EXCEPT !.step = "over", !.watch = "waking"]
        BY <1>1, <3>1 DEF Exercise
      <4>2. exercises' = Replace(e, [e EXCEPT !.step = "over"])
        BY <3>1 DEF ExercisePanics
      <4> QED BY <3>1, <4>1, <4>2
    <3>2. CASE ExercisePanics(e) /\ e.watch = "waiting"
      BY <3>2 DEF ExercisePanics
    <3>3. CASE ExerciseCancelled(e)
      <4>1. [e EXCEPT !.watch = "waking"] = [e EXCEPT !.step = e.step, !.watch = "waking"]
        BY <1>1 DEF Exercise
      <4> QED BY <3>3, <4>1 DEF ExerciseCancelled
    <3> QED BY <1>1, <1>4, <3>1, <3>2, <3>3 DEF Exercise
  <2> DEFINE f == [e EXCEPT !.step = step, !.watch = "waking"]
  <2>2. f \in Exercise /\ f.id = e.id /\ f.display = e.display /\ f.watch = "waking"
    BY <1>1 DEF Exercise
  <2>3. UNCHANGED <<leases, quiescing, door, sending, channel, engine, panel, results,
                    emergencies, wakes, reload>>
    BY <1>4 DEF ExercisePanics, ExerciseCancelled
  <2> HIDE DEF f
  <2>4. exercises' = Replace(e, f) BY <2>1 DEF f
  <2> QED BY <1>1, <2>1, <2>2, <2>3, <2>4, Replacing
<1> QED BY <1>2, <1>3, <1>4

\* No operation shares its lease with one of another kind.
LEMMA Distinct ==
    ASSUME IInv PROVE \A e \in Holding, w \in Waking : e.id # w.id
BY DEF IInv, Owned, Leased, Registry

LEMMA ReleaseKeeps ==
    ASSUME IInv, NEW e \in exercises, e.watch # "gone", Release(e),
           panel' \in [Displays -> {"on", "off"}],
           UNCHANGED <<quiescing, door, sending, channel, engine, emergencies, wakes, reload>>
    PROVE  IInv'
<1> DEFINE f == [e EXCEPT !.watch = "gone"]
<1>1. leases' = Without(e.id) /\ e \in Exercise /\ e \in Holding
  BY DEF Release, IInv, OpsTypeOK, Holding
<1>2. f \in Exercise /\ f.watch = "gone" BY <1>1 DEF Exercise
<1>3. exercises' = exercises \ {e} \/ exercises' = Replace(e, f)
  BY DEF Release
<1> HIDE DEF f
<1>4. Holding' = Holding \ {e} BY <1>2, <1>3 DEF Holding, Replace
<1>5. results' \subseteq Resume
  <2>1. [rules |-> RulesOf(e.display), gen |-> e.gen] \in Resume
    BY <1>1 DEF Resume, Exercise, RulesOf
  <2> QED BY <2>1 DEF IInv, OpsTypeOK, Release
<1>6. OpsTypeOK' BY <1>1, <1>2, <1>3, <1>5 DEF IInv, OpsTypeOK, Without, Replace
<1>7. Messages' BY DEF IInv, Messages, WellAsked
<1>8. Registry' BY <1>1 DEF IInv, Registry, Conflicts, Without
<1>9. e.id \in Nat /\ ~OnTheWay(e.id) BY <1>1 DEF Exercise, Ids, IInv, Single
<1>10. Owned'
  <2>1. \A id, kind, target : Leased(id, kind, target) /\ id # e.id =>
           \E lease \in leases' : lease.id = id /\ lease.kind = kind /\ lease.target = target
    BY <1>1 DEF Leased, Without
  <2>2. \A k \in 1 .. Len(channel) : channel[k].op # Nobody =>
           \E lease \in leases' : /\ lease.id = channel[k].op
                                  /\ lease.kind = channel[k].kind
                                  /\ lease.target = channel[k].target
    BY <1>9, <2>1 DEF IInv, Owned, OnTheWay
  <2>3. sending # Nobody /\ sending.message.op # Nobody =>
           /\ \E lease \in leases' : /\ lease.id = sending.message.op
                                     /\ lease.kind = sending.message.kind
                                     /\ lease.target = sending.message.target
           /\ engine.up /\ sending.to = engine.started
    BY <1>9, <2>1 DEF IInv, Owned, OnTheWay
  <2>4. \A x \in Holding' : \E lease \in leases' : /\ lease.id = x.id
                                                   /\ lease.kind = "exercise"
                                                   /\ lease.target = x.display
    BY <1>1, <1>4, <2>1 DEF IInv, Owned, Single
  <2>5. \A w \in Waking : \E lease \in leases' : /\ lease.id = w.id
                                                 /\ lease.kind = "emergency"
                                                 /\ lease.target = Nobody
    BY <1>1, <2>1, Distinct DEF IInv, Owned
  <2>6. \A lease \in leases' : \/ OnTheWay(lease.id)
                               \/ \E x \in Holding' : x.id = lease.id
                               \/ \E w \in Waking : w.id = lease.id
    BY <1>1, <1>4 DEF IInv, Owned, Without
  <2> QED BY <2>2, <2>3, <2>4, <2>5, <2>6 DEF Owned, Leased, Waking, OnTheWay
<1>11. Single' BY <1>4 DEF IInv, Single, Waking, OnTheWay
<1>12. Shut' /\ Counted'
  <2>1. leases = {} => leases' = {} BY <1>1 DEF Without
  <2> QED BY <2>1, StaysShut DEF Same
<1> QED BY <1>6, <1>7, <1>8, <1>10, <1>11, <1>12 DEF IInv

LEMMA ExerciseEnds ==
    ASSUME IInv, NEW e \in exercises, ExerciseReports(e) \/ ExerciseForcedAwake(e)
    PROVE  IInv'
<1>1. /\ e.watch # "gone" /\ Release(e)
      /\ UNCHANGED <<quiescing, door, sending, channel, engine, emergencies, wakes, reload>>
  BY DEF ExerciseReports, ExerciseForcedAwake
<1>2. panel' \in [Displays -> {"on", "off"}]
  BY DEF ExerciseReports, ExerciseForcedAwake, Command, IInv, OpsTypeOK
<1> QED BY <1>1, <1>2, ReleaseKeeps

LEMMA EmergencyWakesKeeps ==
    ASSUME IInv, NEW w \in emergencies, NEW d \in Displays, EmergencyWakes(w, d)
    PROVE  IInv'
<1> DEFINE f == [w EXCEPT !.left = @ \ {d}]
<1>1. UNCHANGED <<quiescing, door, sending, channel, engine, results, exercises, wakes, reload>>
  BY DEF EmergencyWakes
<1>2. w \in Emergency BY DEF IInv, OpsTypeOK
<1>3. f \in Emergency /\ f.id = w.id BY <1>2 DEF Emergency
<1>4. panel' \in [Displays -> {"on", "off"}]
  BY DEF EmergencyWakes, Command, IInv, OpsTypeOK
<1>5. Holding' = Holding BY <1>1 DEF Holding
<1>6. Messages' BY <1>1 DEF IInv, Messages, WellAsked
<1>7. CASE f.left = {}
  <2>1. emergencies' = emergencies \ {w} /\ leases' = Without(w.id)
    BY <1>7 DEF EmergencyWakes
  <2>2. OpsTypeOK' BY <1>1, <1>4, <2>1 DEF IInv, OpsTypeOK, Without
  <2>3. Registry' BY <1>1, <2>1 DEF IInv, Registry, Conflicts, Without
  <2>4. Waking' = Waking \ {w} BY <2>1 DEF Waking
  <2>5. Shut' /\ Counted'
    <3>1. leases = {} => leases' = {} BY <2>1 DEF Without
    <3> QED BY <1>1, <3>1, StaysShut DEF Same
  <2>6. \A lease \in leases : lease.id # Nobody
    BY OperationsAssumption DEF IInv, OpsTypeOK, Lease, Ids
  <2>7. w.id # Nobody => w \in Waking /\ ~OnTheWay(w.id) BY DEF IInv, Single, Waking
  <2>8. Owned'
    <3>1. \A id, kind, target : Leased(id, kind, target) /\ id # w.id =>
             \E lease \in leases' : lease.id = id /\ lease.kind = kind /\ lease.target = target
      BY <2>1 DEF Leased, Without
    <3>2. \A k \in 1 .. Len(channel) : channel[k].op # Nobody =>
             \E lease \in leases' : /\ lease.id = channel[k].op
                                    /\ lease.kind = channel[k].kind
                                    /\ lease.target = channel[k].target
      BY <2>7, <3>1 DEF IInv, Owned, OnTheWay
    <3>3. sending # Nobody /\ sending.message.op # Nobody =>
             /\ \E lease \in leases' : /\ lease.id = sending.message.op
                                       /\ lease.kind = sending.message.kind
                                       /\ lease.target = sending.message.target
             /\ engine.up /\ sending.to = engine.started
      BY <2>7, <3>1 DEF IInv, Owned, OnTheWay
    <3>4. \A x \in Holding : \E lease \in leases' : /\ lease.id = x.id
                                                    /\ lease.kind = "exercise"
                                                    /\ lease.target = x.display
      <4>1. \A x \in Holding : Leased(x.id, "exercise", x.display) BY DEF IInv, Owned
      <4>2. \A x \in Holding : x.id # w.id
        <5>1. \A x \in Holding : x.id # Nobody BY <2>6, <4>1 DEF Leased
        <5> QED BY <2>7, <5>1, Distinct
      <4> QED BY <3>1, <4>1, <4>2
    <3>5. \A v \in Waking' : \E lease \in leases' : /\ lease.id = v.id
                                                    /\ lease.kind = "emergency"
                                                    /\ lease.target = Nobody
      BY <2>4, <2>7, <3>1 DEF IInv, Owned, Single, Waking
    <3>6. \A lease \in leases' : \/ OnTheWay(lease.id)
                                 \/ \E x \in Holding : x.id = lease.id
                                 \/ \E v \in Waking' : v.id = lease.id
      BY <2>1, <2>4 DEF IInv, Owned, Without
    <3> QED BY <1>1, <1>5, <3>2, <3>3, <3>4, <3>5, <3>6 DEF Owned, Leased, OnTheWay
  <2>9. Single' BY <1>1, <1>5, <2>4 DEF IInv, Single, OnTheWay
  <2> QED BY <1>6, <2>2, <2>3, <2>5, <2>8, <2>9 DEF IInv
<1>8. CASE f.left # {}
  <2>1. emergencies' = (emergencies \ {w}) \cup {f} /\ leases' = leases
    BY <1>8 DEF EmergencyWakes
  <2> HIDE DEF f
  <2>2. OpsTypeOK' BY <1>1, <1>3, <1>4, <2>1 DEF IInv, OpsTypeOK
  <2>3. Registry' BY <1>1, <2>1 DEF IInv, Registry, Conflicts
  <2>4. \/ w.id = Nobody /\ Waking' = Waking
        \/ w \in Waking /\ Waking' = (Waking \ {w}) \cup {f}
    BY <1>3, <2>1 DEF Waking
  <2>5. Shut' /\ Counted' BY <1>1, <2>1, StaysShut DEF Same
  <2>6. Owned' BY <1>1, <1>3, <1>5, <2>1, <2>4 DEF IInv, Owned, Leased, OnTheWay
  <2>7. Single' BY <1>1, <1>3, <1>5, <2>1, <2>4 DEF IInv, Single, OnTheWay
  <2> QED BY <1>6, <2>2, <2>3, <2>5, <2>6, <2>7 DEF IInv
<1> QED BY <1>7, <1>8

-----------------------------------------------------------------------------
(* Runner::reload.                                                          *)

\* The steps of a reload that touch neither a lease nor the engine.
LEMMA ReloadWaits ==
    ASSUME IInv,
           \/ \E changed \in SUBSET Displays : ReloadBegin(changed)
           \/ ReloadPause \/ ReloadQuiesce \/ ReloadQuiet \/ ReloadBusy
           \/ ReloadReopen \/ ReloadBarrier \/ ReloadOpen
    PROVE  IInv'
<1>1. /\ UNCHANGED <<leases, sending, channel, engine, panel, results, exercises, emergencies>>
      /\ door'.queue = door.queue /\ door'.next = door.next
      /\ door.gen \in Generations /\ engine.gen \in Generations
      /\ door \in [paused : BOOLEAN, gen : Generations, queue : Seq(Message),
                   requests : 0 .. MaxRequests, next : Ids]
      /\ reload \in Reload
  <2>1. /\ door \in [paused : BOOLEAN, gen : Generations, queue : Seq(Message),
                     requests : 0 .. MaxRequests, next : Ids]
        /\ reload \in Reload /\ engine \in Engine
    BY DEF IInv, OpsTypeOK
  <2>2. engine.gen \in Generations BY <2>1 DEF Engine
  <2>3. \/ UNCHANGED door
        \/ door' = [door EXCEPT !.paused = TRUE]
        \/ door' = [door EXCEPT !.paused = FALSE]
        \/ door' = [door EXCEPT !.gen = engine.gen]
    BY DEF ReloadBegin, ReloadPause, ReloadQuiesce, ReloadQuiet, ReloadBusy, ReloadReopen,
           ReloadBarrier, ReloadOpen, Install
  <2>4. UNCHANGED <<leases, sending, channel, engine, panel, results, exercises, emergencies>>
    BY DEF ReloadBegin, ReloadPause, ReloadQuiesce, ReloadQuiet, ReloadBusy, ReloadReopen,
           ReloadBarrier, ReloadOpen
  <2> QED BY <2>1, <2>2, <2>3, <2>4
<1>2. /\ quiescing \subseteq 0 .. engine.gen /\ engine.gen <= reload.count
      /\ engine.gen \in Nat /\ reload.count \in 0 .. MaxReloads
      /\ MaxReloads \in Nat /\ quiescing \subseteq Generations
  BY <1>1, OperationsAssumption DEF IInv, Shut, Counted, Generations, Reload, OpsTypeOK
<1>3. \A lease \in leases : lease.gen = engine.gen BY DEF IInv, Registry
<1>4. CASE \E changed \in SUBSET Displays : ReloadBegin(changed)
  <2>1. PICK changed \in SUBSET Displays : ReloadBegin(changed) BY <1>4
  <2>2. /\ UNCHANGED <<quiescing, door, wakes>> /\ reload.pc = "idle"
        /\ reload' = [pc |-> "snapped", dark |-> engine.dark, count |-> reload.count + 1,
                      verify |-> (changed \cap engine.dark) \ Ruled]
        /\ reload.count < MaxReloads
    BY <2>1 DEF ReloadBegin, At
  <2>3. reload' \in Reload
    <3>1. engine.dark \in SUBSET Displays /\ (changed \cap engine.dark) \ Ruled \in SUBSET Displays
      BY DEF IInv, OpsTypeOK, Engine
    <3>2. reload.count + 1 \in 0 .. MaxReloads BY <1>2, <2>2
    <3> QED BY <2>2, <3>1, <3>2 DEF Reload
  <2>4. OpsTypeOK' BY <1>1, <2>2, <2>3 DEF IInv, OpsTypeOK
  <2>5. Shut' BY <1>1, <2>2 DEF IInv, Shut
  <2>6. Counted' BY <1>1, <1>2, <2>2 DEF IInv, Counted
  <2> QED BY <1>1, <2>4, <2>5, <2>6, Untouched DEF Same, IInv
<1>5. CASE ReloadPause
  <2>1. /\ UNCHANGED <<quiescing, wakes>> /\ reload.pc = "snapped"
        /\ reload' = [reload EXCEPT !.pc = "paused"] /\ door' = [door EXCEPT !.paused = TRUE]
    BY <1>5 DEF ReloadPause, At, Goto
  <2>2. /\ reload' \in Reload /\ reload'.pc = "paused" /\ reload'.count = reload.count
        /\ door'.gen = door.gen
        /\ door' \in [paused : BOOLEAN, gen : Generations, queue : Seq(Message),
                      requests : 0 .. MaxRequests, next : Ids]
    BY <1>1, <2>1 DEF Reload
  <2>3. OpsTypeOK' BY <1>1, <2>1, <2>2 DEF IInv, OpsTypeOK
  <2>4. Shut' /\ Counted' BY <1>1, <2>1, <2>2 DEF IInv, Shut, Counted
  <2> QED BY <1>1, <2>3, <2>4, Untouched DEF Same, IInv
<1>6. CASE ReloadQuiesce
  <2>1. /\ UNCHANGED <<door, wakes>> /\ reload.pc = "paused"
        /\ reload' = [reload EXCEPT !.pc = "waiting"]
        /\ quiescing' = quiescing \cup {engine.gen}
    BY <1>6 DEF ReloadQuiesce, At, Goto
  <2>2. reload' \in Reload /\ reload'.pc = "waiting" /\ reload'.count = reload.count
    BY <1>1, <2>1 DEF Reload
  <2>3. OpsTypeOK' BY <1>1, <2>1, <2>2 DEF IInv, OpsTypeOK
  <2>4. Shut' BY <1>1, <1>2, <2>1, <2>2 DEF IInv, Shut
  <2>5. Counted' BY <1>1, <2>1, <2>2 DEF IInv, Counted
  <2> QED BY <1>1, <2>3, <2>4, <2>5, Untouched DEF Same, IInv
<1>7. CASE ReloadQuiet
  <2>1. /\ UNCHANGED <<quiescing, door, wakes>> /\ reload.pc \in {"waiting", "cancelling"}
        /\ reload' = [reload EXCEPT !.pc = "quiet"] /\ leases = {}
    BY <1>3, <1>7 DEF ReloadQuiet, At, Goto, Held
  <2>2. reload' \in Reload /\ reload'.pc = "quiet" /\ reload'.count = reload.count
    BY <1>1, <2>1 DEF Reload
  <2>3. OpsTypeOK' BY <1>1, <2>1, <2>2 DEF IInv, OpsTypeOK
  <2>4. Shut' /\ Counted' BY <1>1, <2>1, <2>2 DEF IInv, Shut, Counted
  <2> QED BY <1>1, <2>3, <2>4, Untouched DEF Same, IInv
<1>8. CASE ReloadBusy
  <2>1. /\ UNCHANGED <<quiescing, wakes>> /\ reload.pc = "cancelling"
        /\ reload' = [reload EXCEPT !.pc = "returning"]
        /\ door' = [door EXCEPT !.gen = engine.gen]
    BY <1>8 DEF ReloadBusy, At, Goto, Install
  <2>2. /\ reload' \in Reload /\ reload'.pc = "returning" /\ reload'.count = reload.count
        /\ door'.gen = engine.gen
        /\ door' \in [paused : BOOLEAN, gen : Generations, queue : Seq(Message),
                      requests : 0 .. MaxRequests, next : Ids]
    BY <1>1, <2>1 DEF Reload
  <2>3. OpsTypeOK' BY <1>1, <2>1, <2>2 DEF IInv, OpsTypeOK
  <2>4. Shut' /\ Counted' BY <1>1, <2>1, <2>2 DEF IInv, Shut, Counted
  <2> QED BY <1>1, <2>3, <2>4, Untouched DEF Same, IInv
<1>9. CASE ReloadReopen
  <2>1. /\ UNCHANGED <<door, wakes>> /\ reload.pc = "busy"
        /\ reload' = [reload EXCEPT !.pc = "idle"]
        /\ quiescing' = quiescing \ {engine.gen}
    BY <1>9 DEF ReloadReopen, At, Goto
  <2>2. reload' \in Reload /\ reload'.pc = "idle" /\ reload'.count = reload.count
    BY <1>1, <2>1 DEF Reload
  <2>3. OpsTypeOK' BY <1>1, <2>1, <2>2 DEF IInv, OpsTypeOK
  <2>4. Shut' /\ Counted' BY <1>1, <2>1, <2>2 DEF IInv, Shut, Counted
  <2> QED BY <1>1, <2>3, <2>4, Untouched DEF Same, IInv
<1>10. CASE ReloadBarrier
  <2>1. /\ UNCHANGED <<quiescing, door, wakes>> /\ reload.pc = "quiet"
        /\ \/ reload' = [reload EXCEPT !.pc = "drained"]
           \/ reload' = [reload EXCEPT !.pc = "exited"]
    BY <1>10 DEF ReloadBarrier, At, Goto
  <2>2. /\ reload' \in Reload /\ reload'.pc \in {"drained", "exited"}
        /\ reload'.count = reload.count
    BY <1>1, <2>1 DEF Reload
  <2>3. OpsTypeOK' BY <1>1, <2>1, <2>2 DEF IInv, OpsTypeOK
  <2>4. Shut' /\ Counted' BY <1>1, <2>1, <2>2 DEF IInv, Shut, Counted
  <2> QED BY <1>1, <2>3, <2>4, Untouched DEF Same, IInv
<1>11. CASE ReloadOpen
  <2>1. /\ UNCHANGED quiescing /\ reload.pc \in {"returning", "restoring", "installing"}
        /\ reload' = [reload EXCEPT !.pc = IF reload.pc = "returning" THEN "busy" ELSE "idle"]
        /\ door' = [door EXCEPT !.paused = FALSE]
    BY <1>11 DEF ReloadOpen, Flushing, At, Goto
  <2>2. /\ reload' \in Reload /\ reload'.count = reload.count
        /\ \/ reload.pc = "returning" /\ reload'.pc = "busy"
           \/ reload.pc # "returning" /\ reload'.pc = "idle"
        /\ door'.gen = door.gen
        /\ door' \in [paused : BOOLEAN, gen : Generations, queue : Seq(Message),
                      requests : 0 .. MaxRequests, next : Ids]
    BY <1>1, <2>1 DEF Reload
  <2>3. wakes' \subseteq Displays
    BY <1>1, <1>11 DEF ReloadOpen, IInv, OpsTypeOK, Reload
  <2>4. OpsTypeOK' BY <1>1, <2>1, <2>2, <2>3 DEF IInv, OpsTypeOK
  <2>5. Shut' /\ Counted' BY <1>1, <2>1, <2>2 DEF IInv, Shut, Counted
  <2> QED BY <1>1, <2>4, <2>5, Untouched DEF Same, IInv
<1> QED BY <1>4, <1>5, <1>6, <1>7, <1>8, <1>9, <1>10, <1>11

LEMMA ReloadCancelKeeps == ASSUME IInv, ReloadCancel PROVE IInv'
<1> DEFINE C(lease) == [lease EXCEPT !.cancelled = TRUE]
<1>1. /\ UNCHANGED <<quiescing, door, sending, channel, engine, panel, results, exercises,
                     emergencies, wakes>>
      /\ reload.pc = "waiting" /\ reload' = [reload EXCEPT !.pc = "cancelling"]
  BY DEF ReloadCancel, At, Goto
<1>2. leases \subseteq Lease /\ \A lease \in leases : lease.gen = engine.gen
  BY DEF IInv, OpsTypeOK, Registry
<1>3. Held(engine.gen) = leases BY <1>2 DEF Held
<1>4. \A lease \in leases : /\ C(lease) \in Lease /\ C(lease).id = lease.id
                            /\ C(lease).gen = lease.gen /\ C(lease).kind = lease.kind
                            /\ C(lease).target = lease.target
  BY <1>2 DEF Lease
<1>5. leases' = {C(lease) : lease \in leases} BY <1>3 DEF ReloadCancel
<1> HIDE DEF C
<1>6. reload' \in Reload /\ reload'.pc = "cancelling" /\ reload'.count = reload.count
  <2>1. reload \in Reload BY DEF IInv, OpsTypeOK
  <2> QED BY <1>1, <2>1 DEF Reload
<1>7. OpsTypeOK' BY <1>1, <1>4, <1>5, <1>6 DEF IInv, OpsTypeOK
<1>8. Messages' BY <1>1 DEF IInv, Messages, WellAsked
<1>9. Registry'
  <2>1. \A lease \in leases' : lease.gen = engine.gen /\ lease.id < door.next
    BY <1>4, <1>5 DEF IInv, Registry
  <2>2. ASSUME NEW a \in leases', NEW b \in leases', a # b
        PROVE  a.id # b.id /\ ~Conflicts(a, b.gen, b.kind, b.target)
    <3>1. PICK x \in leases : a = C(x) BY <1>5
    <3>2. PICK y \in leases : b = C(y) BY <1>5
    <3>3. x.id # y.id /\ ~Conflicts(x, y.gen, y.kind, y.target)
      BY <2>2, <3>1, <3>2 DEF IInv, Registry
    <3> QED BY <1>4, <3>1, <3>2, <3>3 DEF Conflicts
  <2> QED BY <1>1, <2>1, <2>2 DEF Registry
<1>10. Owned'
  <2>1. \A id, kind, target : Leased(id, kind, target) =>
           \E lease \in leases' : lease.id = id /\ lease.kind = kind /\ lease.target = target
    BY <1>4, <1>5 DEF Leased
  <2>2. /\ \A k \in 1 .. Len(channel) : channel[k].op # Nobody =>
             \E lease \in leases' : /\ lease.id = channel[k].op
                                    /\ lease.kind = channel[k].kind
                                    /\ lease.target = channel[k].target
        /\ sending # Nobody /\ sending.message.op # Nobody =>
             \E lease \in leases' : /\ lease.id = sending.message.op
                                    /\ lease.kind = sending.message.kind
                                    /\ lease.target = sending.message.target
        /\ \A e \in Holding : \E lease \in leases' : /\ lease.id = e.id
                                                     /\ lease.kind = "exercise"
                                                     /\ lease.target = e.display
        /\ \A w \in Waking : \E lease \in leases' : /\ lease.id = w.id
                                                    /\ lease.kind = "emergency"
                                                    /\ lease.target = Nobody
    BY <2>1 DEF IInv, Owned
  <2>3. sending # Nobody /\ sending.message.op # Nobody =>
          engine.up /\ sending.to = engine.started
    BY DEF IInv, Owned
  <2>4. \A lease \in leases' : \/ OnTheWay(lease.id)
                               \/ \E e \in Holding : e.id = lease.id
                               \/ \E w \in Waking : w.id = lease.id
    BY <1>4, <1>5 DEF IInv, Owned
  <2> QED BY <1>1, <2>2, <2>3, <2>4 DEF Owned, Leased, Holding, Waking, OnTheWay
<1>11. Single' BY <1>1 DEF IInv, Single, Holding, Waking, OnTheWay
<1>12. Shut' /\ Counted' BY <1>1, <1>6 DEF IInv, Shut, Counted
<1> QED BY <1>7, <1>8, <1>9, <1>10, <1>11, <1>12 DEF IInv

\* Without a lease there is no operation that has one.
LEMMA Leaseless ==
    ASSUME IInv, leases = {}
    PROVE  /\ \A k \in 1 .. Len(channel) : channel[k].op = Nobody
           /\ sending # Nobody => sending.message.op = Nobody
           /\ Holding = {} /\ Waking = {}
BY DEF IInv, Owned, Leased

\* An engine that holds no lease is torn down or replaced.
LEMMA Replaced ==
    ASSUME IInv, leases = {}, leases' = {}, UNCHANGED <<sending, exercises, emergencies>>,
           channel' \in {channel, <<>>}, door'.queue = door.queue, door'.next = door.next
    PROVE  Messages' /\ Registry' /\ Owned' /\ Single'
<1>1. /\ \A k \in 1 .. Len(channel) : channel[k].op = Nobody
      /\ sending # Nobody => sending.message.op = Nobody
      /\ Holding = {} /\ Waking = {}
  BY Leaseless
<1>2. \A k \in 1 .. Len(channel') : k \in 1 .. Len(channel) /\ channel'[k] = channel[k]
  <2>1. CASE channel' = channel BY <2>1
  <2>2. CASE channel' = <<>> BY <2>2
  <2> QED BY <2>1, <2>2
<1>3. Holding' = {} /\ Waking' = {} BY <1>1 DEF Holding, Waking
<1>4. Messages' BY <1>2 DEF IInv, Messages, WellAsked
<1>5. Registry' BY DEF Registry
<1>6. Owned' BY <1>1, <1>2, <1>3 DEF Owned
<1>7. Single' BY <1>1, <1>2, <1>3 DEF Single
<1> QED BY <1>4, <1>5, <1>6, <1>7

LEMMA ReloadTeardownKeeps == ASSUME IInv, ReloadTeardown PROVE IInv'
<1>1. /\ UNCHANGED <<leases, quiescing, door, sending, panel, exercises, emergencies, wakes>>
      /\ engine' = [engine EXCEPT !.up = FALSE]
      /\ channel' = <<>> /\ results' = {}
      /\ reload.pc = "drained" /\ reload' = [reload EXCEPT !.pc = "torn"]
  BY DEF ReloadTeardown, At, Goto
<1>2. leases = {} BY <1>1 DEF IInv, Shut
<1>3. /\ engine' \in Engine /\ engine'.gen = engine.gen
      /\ reload' \in Reload /\ reload'.pc = "torn" /\ reload'.count = reload.count
  <2>1. engine \in Engine /\ reload \in Reload BY DEF IInv, OpsTypeOK
  <2> QED BY <1>1, <2>1 DEF Engine, Reload
<1>4. channel' \in Seq(Message) BY <1>1
<1>5. OpsTypeOK' BY <1>1, <1>3, <1>4 DEF IInv, OpsTypeOK
<1>6. Shut' /\ Counted' BY <1>1, <1>2, <1>3 DEF IInv, Shut, Counted
<1> QED BY <1>1, <1>2, <1>5, <1>6, Replaced DEF IInv

LEMMA Spawning ==
    ASSUME IInv, NEW gen \in Generations PROVE Spawned(gen) \in Engine
<1>1. reload \in Reload BY DEF IInv, OpsTypeOK
<1> QED BY <1>1 DEF Spawned, Engine, Reload

\* The old engine is rebuilt, or the new one is spawned.
LEMMA ReloadSpawns ==
    ASSUME IInv,
           \/ \E d \in Displays : ReloadVerify(d)
           \/ ReloadInstall \/ ReloadSpawnFails
    PROVE  IInv'
<1>1. /\ UNCHANGED <<leases, quiescing, sending, channel, results, exercises, emergencies, wakes>>
      /\ reload.pc = "torn"
  BY DEF ReloadVerify, ReloadInstall, ReloadSpawnFails, At
<1>2. leases = {} /\ engine.gen \in quiescing BY <1>1 DEF IInv, Shut
<1>3. /\ reload \in Reload /\ engine \in Engine
      /\ door \in [paused : BOOLEAN, gen : Generations, queue : Seq(Message),
                   requests : 0 .. MaxRequests, next : Ids]
      /\ panel \in [Displays -> {"on", "off"}]
  BY DEF IInv, OpsTypeOK
<1>4. /\ engine.gen \in 0 .. MaxReloads /\ reload.count \in 0 .. MaxReloads
      /\ engine.gen < reload.count /\ MaxReloads \in Nat
  BY <1>1, <1>3, OperationsAssumption DEF IInv, Counted, Engine, Reload, Generations
<1>5. quiescing \subseteq 0 .. engine.gen BY DEF IInv, Shut
<1>6. CASE \E d \in Displays : /\ panel' = [panel EXCEPT ![d] = "on"]
                               /\ reload' = [reload EXCEPT !.verify = @ \ {d}]
                               /\ UNCHANGED <<door, engine>>
  <2>1. reload' \in Reload /\ reload'.pc = reload.pc /\ reload'.count = reload.count
    BY <1>3, <1>6 DEF Reload
  <2>2. panel' \in [Displays -> {"on", "off"}] BY <1>3, <1>6
  <2>3. OpsTypeOK' BY <1>1, <1>6, <2>1, <2>2 DEF IInv, OpsTypeOK
  <2>4. Shut' /\ Counted' BY <1>1, <1>6, <2>1 DEF IInv, Shut, Counted
  <2> QED BY <1>1, <1>2, <1>6, <2>3, <2>4, Replaced DEF IInv
<1>7. CASE RebuildOld /\ UNCHANGED panel
  <2>1. CASE /\ engine' = Spawned(engine.gen)
             /\ door' = [door EXCEPT !.gen = engine.gen]
             /\ reload' = [reload EXCEPT !.pc = "restoring"]
    <3>1. engine' \in Engine /\ engine'.gen = engine.gen /\ engine'.up
      BY <1>4, <2>1, Spawning DEF Spawned, Generations
    <3>2. reload' \in Reload /\ reload'.pc = "restoring" /\ reload'.count = reload.count
      BY <1>3, <2>1 DEF Reload
    <3>3. /\ door'.gen = engine.gen /\ door'.queue = door.queue /\ door'.next = door.next
          /\ door' \in [paused : BOOLEAN, gen : Generations, queue : Seq(Message),
                        requests : 0 .. MaxRequests, next : Ids]
      BY <1>3, <1>4, <2>1 DEF Generations
    <3>4. OpsTypeOK' BY <1>1, <1>7, <3>1, <3>2, <3>3 DEF IInv, OpsTypeOK
    <3>5. Shut' BY <1>1, <1>2, <3>1, <3>2, <3>3 DEF IInv, Shut
    <3>6. Counted' BY <1>4, <3>1, <3>2 DEF Counted
    <3> QED BY <1>1, <1>2, <3>3, <3>4, <3>5, <3>6, Replaced DEF IInv
  <2>2. CASE UNCHANGED <<engine, door>> /\ reload' = [reload EXCEPT !.pc = "exited"]
    <3>1. reload' \in Reload /\ reload'.pc = "exited" /\ reload'.count = reload.count
      BY <1>3, <2>2 DEF Reload
    <3>2. OpsTypeOK' BY <1>1, <1>7, <2>2, <3>1 DEF IInv, OpsTypeOK
    <3>3. Shut' /\ Counted' BY <1>1, <1>2, <2>2, <3>1 DEF IInv, Shut, Counted
    <3> QED BY <1>1, <1>2, <2>2, <3>2, <3>3, Replaced DEF IInv
  <2> QED BY <1>7, <2>1, <2>2 DEF RebuildOld, Install, Goto
<1>8. CASE ReloadInstall
  <2>1. /\ engine' = Spawned(engine.gen + 1) /\ UNCHANGED panel
        /\ door' = [door EXCEPT !.gen = engine.gen]
        /\ reload' = [reload EXCEPT !.pc = "installing"]
    BY <1>8 DEF ReloadInstall, Install, Goto
  <2>2. engine.gen + 1 \in Generations BY <1>4 DEF Generations
  <2>3. engine' \in Engine /\ engine'.gen = engine.gen + 1 /\ engine'.up
    BY <2>1, <2>2, Spawning DEF Spawned
  <2>4. reload' \in Reload /\ reload'.pc = "installing" /\ reload'.count = reload.count
    BY <1>3, <2>1 DEF Reload
  <2>5. /\ door'.gen = engine.gen /\ door'.queue = door.queue /\ door'.next = door.next
        /\ door' \in [paused : BOOLEAN, gen : Generations, queue : Seq(Message),
                      requests : 0 .. MaxRequests, next : Ids]
    BY <1>3, <1>4, <2>1 DEF Generations
  <2>6. OpsTypeOK' BY <1>1, <2>1, <2>3, <2>4, <2>5 DEF IInv, OpsTypeOK
  <2>7. Shut' BY <1>1, <1>2, <1>4, <1>5, <2>3, <2>4, <2>5 DEF Shut
  <2>8. Counted' BY <1>4, <2>3, <2>4 DEF Counted
  <2> QED BY <1>1, <1>2, <2>5, <2>6, <2>7, <2>8, Replaced DEF IInv
<1> QED BY <1>6, <1>7, <1>8 DEF ReloadVerify, ReloadSpawnFails

LEMMA ReloadFlushKeeps == ASSUME IInv, ReloadFlush PROVE IInv'
<1> DEFINE m == Head(door.queue)
           s == Stamped(m)
<1>1. /\ UNCHANGED <<quiescing, sending, engine, panel, results, exercises, emergencies,
                     wakes, reload>>
      /\ door.queue # <<>> /\ reload.pc \in {"returning", "restoring", "installing"}
      /\ channel' = Append(channel, s) /\ leases' = Stamps(m).leases
      /\ door' = [door EXCEPT !.queue = Tail(@), !.next = Stamps(m).next]
  BY DEF ReloadFlush, Flushing
<1>2. /\ door \in [paused : BOOLEAN, gen : Generations, queue : Seq(Message),
                   requests : 0 .. MaxRequests, next : Ids]
      /\ channel \in Seq(Message)
  BY DEF IInv, OpsTypeOK
<1>3. door.queue \in Seq(Message) BY <1>2
<1>4. /\ m \in Message /\ m = door.queue[1] /\ 1 \in 1 .. Len(door.queue)
      /\ Tail(door.queue) \in Seq(Message)
      /\ \A k \in 1 .. Len(Tail(door.queue)) :
           Tail(door.queue)[k] = door.queue[k + 1] /\ k + 1 \in 1 .. Len(door.queue)
  BY <1>1, <1>3
<1>5. WellAsked(m) /\ m.op = Nobody BY <1>4 DEF IInv, Messages
<1>6. door'.next = Stamps(m).next /\ door'.queue = Tail(door.queue) /\ door'.gen = door.gen
  BY <1>1, <1>2
<1> HIDE DEF m
<1>7. /\ s \in Message /\ WellAsked(s)
      /\ leases \subseteq leases' /\ leases' \subseteq Lease
      /\ \A lease \in leases' : lease \in leases \/ lease.id = s.op
      /\ Registry' /\ door'.next \in Nat
      /\ s.op # Nobody =>
           /\ s.op = door.next
           /\ \E lease \in leases' : /\ lease.id = s.op /\ lease.kind = s.kind
                                     /\ lease.target = s.target
      /\ s.op = Nobody => leases' = leases
  BY <1>1, <1>4, <1>5, <1>6, Stamping
<1> HIDE DEF s
<1>8. door' \in [paused : BOOLEAN, gen : Generations, queue : Seq(Message),
                 requests : 0 .. MaxRequests, next : Ids]
  <2>1. door' = [door EXCEPT !.queue = Tail(door.queue), !.next = Stamps(m).next] BY <1>1
  <2>2. Stamps(m).next \in Ids BY <1>6, <1>7 DEF Ids
  <2> QED BY <1>2, <1>4, <2>1, <2>2
<1>9. /\ channel' \in Seq(Message) /\ Len(channel) \in Nat /\ Len(channel') = Len(channel) + 1
      /\ \A k \in 1 .. Len(channel) : channel'[k] = channel[k]
      /\ channel'[Len(channel) + 1] = s
  BY <1>1, <1>2, <1>7
<1>10. OpsTypeOK' BY <1>1, <1>7, <1>8, <1>9 DEF IInv, OpsTypeOK
<1>11. Messages' BY <1>1, <1>4, <1>6, <1>7, <1>9 DEF IInv, Messages, WellAsked
<1>12. \A lease \in leases : lease.id \in Nat /\ lease.id < door.next
  BY DEF IInv, Registry, OpsTypeOK, Lease, Ids
<1>13. /\ \A k \in 1 .. Len(channel) : channel[k].op # Nobody => channel[k].op # s.op
       /\ sending # Nobody /\ sending.message.op # Nobody => sending.message.op # s.op
       /\ \A e \in Holding : e.id # s.op
       /\ \A w \in Waking : w.id # s.op
  BY <1>7, <1>12, OperationsAssumption DEF IInv, Owned, Leased, Waking
<1>14. \A id : OnTheWay(id)' <=> OnTheWay(id) \/ id = s.op
  BY <1>1, <1>9 DEF OnTheWay
<1>15. Owned'
  <2>1. \A k \in 1 .. Len(channel') : channel'[k].op # Nobody =>
           \E lease \in leases' : /\ lease.id = channel'[k].op
                                  /\ lease.kind = channel'[k].kind
                                  /\ lease.target = channel'[k].target
    <3> SUFFICES ASSUME NEW k \in 1 .. Len(channel'), channel'[k].op # Nobody
                 PROVE  \E lease \in leases' : /\ lease.id = channel'[k].op
                                               /\ lease.kind = channel'[k].kind
                                               /\ lease.target = channel'[k].target
      OBVIOUS
    <3>1. CASE k \in 1 .. Len(channel) BY <1>7, <1>9, <3>1 DEF IInv, Owned, Leased
    <3>2. CASE k = Len(channel) + 1 BY <1>7, <1>9, <3>2
    <3> QED BY <1>9, <3>1, <3>2
  <2>2. \A lease \in leases' : \/ OnTheWay(lease.id)'
                               \/ \E e \in Holding : e.id = lease.id
                               \/ \E w \in Waking : w.id = lease.id
    BY <1>7, <1>14 DEF IInv, Owned
  <2>3. /\ sending # Nobody /\ sending.message.op # Nobody =>
             /\ \E lease \in leases' : /\ lease.id = sending.message.op
                                       /\ lease.kind = sending.message.kind
                                       /\ lease.target = sending.message.target
             /\ engine.up /\ sending.to = engine.started
        /\ \A e \in Holding : \E lease \in leases' : /\ lease.id = e.id
                                                     /\ lease.kind = "exercise"
                                                     /\ lease.target = e.display
        /\ \A w \in Waking : \E lease \in leases' : /\ lease.id = w.id
                                                    /\ lease.kind = "emergency"
                                                    /\ lease.target = Nobody
    BY <1>7 DEF IInv, Owned, Leased
  <2> QED BY <1>1, <2>1, <2>2, <2>3 DEF Owned, Leased, Holding, Waking
<1>16. Single'
  <2>1. ASSUME NEW j \in 1 .. Len(channel'), NEW k \in 1 .. Len(channel'),
               channel'[j].op = channel'[k].op, channel'[j].op # Nobody
        PROVE  j = k
    <3>1. CASE j \in 1 .. Len(channel) /\ k \in 1 .. Len(channel)
      BY <1>9, <2>1, <3>1 DEF IInv, Single
    <3>2. CASE j = Len(channel) + 1 /\ k \in 1 .. Len(channel) BY <1>9, <1>13, <2>1, <3>2
    <3>3. CASE k = Len(channel) + 1 /\ j \in 1 .. Len(channel) BY <1>9, <1>13, <2>1, <3>3
    <3> QED BY <1>9, <3>1, <3>2, <3>3
  <2>2. \A k \in 1 .. Len(channel') :
          sending # Nobody /\ channel'[k].op = sending.message.op => channel'[k].op = Nobody
    BY <1>9, <1>13 DEF IInv, Single
  <2>3. /\ \A e \in Holding : ~OnTheWay(e.id)'
        /\ \A w \in Waking : ~OnTheWay(w.id)'
    BY <1>13, <1>14 DEF IInv, Single
  <2>4. /\ \A e, f \in Holding : e.id = f.id => e = f
        /\ \A v, w \in Waking : v.id = w.id => v = w
    BY DEF IInv, Single
  <2> QED BY <1>1, <2>1, <2>2, <2>3, <2>4 DEF Single, Holding, Waking
<1>17. Shut' /\ Counted' BY <1>1, <1>6, StaysShut DEF Same
<1> QED BY <1>7, <1>10, <1>11, <1>15, <1>16, <1>17 DEF IInv

-----------------------------------------------------------------------------
\* Every step of the daemon keeps the invariant.
LEMMA Induction == IInv /\ [OpsNext]_opsVars => IInv'
<1> SUFFICES ASSUME IInv, [OpsNext]_opsVars PROVE IInv' OBVIOUS
<1>1. ASSUME NEW r \in Requests, Route(r[1], r[2]) PROVE IInv' BY <1>1, RouteKeeps
<1>2. ASSUME \E d \in Displays : MachineBlanks(d) \/ MachineWakes(d) PROVE IInv'
  BY <1>2, MachineKeeps
<1>3. ASSUME NEW changed \in SUBSET Displays, ReloadBegin(changed) PROVE IInv'
  BY <1>3, ReloadWaits
<1>4. CASE Send BY <1>4, SendKeeps
<1>5. CASE HandleControl BY <1>5, HandleControlKeeps
<1>6. ASSUME NEW r \in results, HandleExerciseResume(r) PROVE IInv' BY <1>6, MachineKeeps
<1>7. ASSUME NEW e \in exercises, ExerciseTask(e) PROVE IInv'
  BY <1>7, ExerciseGoesOn, ExerciseEnds DEF ExerciseTask
<1>8. ASSUME NEW w \in emergencies, NEW d \in Displays, EmergencyWakes(w, d) PROVE IInv'
  BY <1>8, EmergencyWakesKeeps
<1>9. ASSUME NEW d \in wakes, DefensiveWake(d) PROVE IInv' BY <1>9, MachineKeeps
<1>10. CASE ReloadStep
  BY <1>10, ReloadWaits, ReloadCancelKeeps, ReloadTeardownKeeps, ReloadSpawns,
     ReloadFlushKeeps DEF ReloadStep
<1>11. CASE UNCHANGED opsVars
  <2>1. UNCHANGED <<leases, quiescing, door, sending, channel, engine, panel, results,
                    exercises, emergencies, wakes, reload>>
    BY <1>11 DEF opsVars
  <2>2. OpsTypeOK' BY <2>1 DEF IInv, OpsTypeOK
  <2> QED BY <2>1, <2>2, Untouched, StaysShut DEF Same, IInv
<1> QED BY <1>1, <1>2, <1>3, <1>4, <1>5, <1>6, <1>7, <1>8, <1>9, <1>10, <1>11
        DEF OpsNext, Progress

\* The invariant holds throughout.
THEOREM Invariance == OpsSpec => []IInv
BY Outset, Induction, PTL DEF OpsSpec

\* Every variable keeps its type.
THEOREM TypeCorrect == OpsSpec => []OpsTypeOK
<1>1. IInv => OpsTypeOK BY DEF IInv
<1> QED BY <1>1, Invariance, PTL

\* Two operations that hold leases never command the same display: the
\* registry refuses the second, whoever asks for it and whenever
\* (OperationRegistry::try_acquire).
THEOREM Apart == OpsSpec => []LeasedOperationsAreApart
<1>1. ASSUME IInv PROVE LeasedOperationsAreApart
  <2>1. \A a, b \in leases : a.kind = "emergency" => a = b
    BY <1>1 DEF IInv, Registry, Conflicts
  <2>2. \A a, b \in leases : a.target = b.target => a = b
    BY <1>1 DEF IInv, Registry, Conflicts
  <2>3. ASSUME NEW e \in Holding, NEW f \in Holding, e.display = f.display PROVE e = f
    <3>1. PICK a \in leases : a.id = e.id /\ a.target = e.display
      BY <1>1 DEF IInv, Owned, Leased
    <3>2. PICK b \in leases : b.id = f.id /\ b.target = f.display
      BY <1>1 DEF IInv, Owned, Leased
    <3>3. a = b BY <2>2, <2>3, <3>1, <3>2
    <3> QED BY <1>1, <3>1, <3>2, <3>3 DEF IInv, Single
  <2>4. ASSUME NEW e \in Holding, NEW w \in Waking PROVE FALSE
    <3>1. PICK a \in leases : a.id = e.id /\ a.kind = "exercise"
      BY <1>1 DEF IInv, Owned, Leased
    <3>2. PICK b \in leases : b.id = w.id /\ b.kind = "emergency"
      BY <1>1 DEF IInv, Owned, Leased
    <3> QED BY <2>1, <3>1, <3>2
  <2>5. ASSUME NEW v \in Waking, NEW w \in Waking PROVE v = w
    <3>1. PICK a \in leases : a.id = v.id /\ a.kind = "emergency"
      BY <1>1 DEF IInv, Owned, Leased
    <3>2. PICK b \in leases : b.id = w.id BY <1>1 DEF IInv, Owned, Leased
    <3>3. a = b BY <2>1, <3>1
    <3> QED BY <1>1, <3>1, <3>2, <3>3 DEF IInv, Single
  <2> QED BY <2>3, <2>4, <2>5 DEF LeasedOperationsAreApart, Holding, Waking
<1> QED BY <1>1, Invariance, PTL

\* Every lease has an owner that will drop it, or a message on its way to one,
\* and a generation that is quiet has none left (mem::forget of the stamp's
\* lease, its adoption, begin_quiesce and wait_generation_empty).
THEOREM Accounted == OpsSpec => []LeasesAreAccounted
<1>1. ASSUME IInv PROVE StampIsAdopted
  <2> DEFINE stamped == {m \in {channel[k] : k \in DOMAIN channel}
                               \cup (IF sending = Nobody THEN {} ELSE {sending.message})
                           : m.op # Nobody}
             owned   == {m.op : m \in stamped}
                          \cup {e.id : e \in {x \in exercises : x.watch # "gone"}}
                          \cup {w.id : w \in emergencies}
  <2>1. channel \in Seq(Message) /\ DOMAIN channel = 1 .. Len(channel)
    BY <1>1 DEF IInv, OpsTypeOK
  <2>2. \A lease \in leases : lease.gen = engine.gen /\ lease.id # Nobody
    BY <1>1, OperationsAssumption DEF IInv, Registry, OpsTypeOK, Lease, Ids
  <2>3. ASSUME NEW m \in stamped
        PROVE  \E lease \in leases : /\ lease.id = m.op /\ lease.kind = m.kind
                                     /\ lease.target = m.target /\ lease.gen = engine.gen
    <3>1. CASE \E k \in 1 .. Len(channel) : m = channel[k]
      BY <1>1, <2>2, <2>3, <3>1 DEF IInv, Owned, Leased
    <3>2. CASE sending # Nobody /\ m = sending.message
      BY <1>1, <2>2, <2>3, <3>2 DEF IInv, Owned, Leased
    <3> QED BY <2>1, <2>3, <3>1, <3>2
  <2>4. ASSUME NEW lease \in leases PROVE lease.id \in owned
    <3>1. CASE OnTheWay(lease.id)
      <4>1. \E m \in stamped : m.op = lease.id
        BY <2>1, <2>2, <3>1 DEF OnTheWay
      <4> QED BY <4>1
    <3>2. CASE ~OnTheWay(lease.id)
      <4>1. \/ \E e \in Holding : e.id = lease.id
            \/ \E w \in Waking : w.id = lease.id
        BY <1>1, <3>2 DEF IInv, Owned
      <4> QED BY <4>1 DEF Holding, Waking
    <3> QED BY <3>1, <3>2
  <2>5. sending # Nobody /\ sending.message.op # Nobody =>
          engine.up /\ sending.to = engine.started
    BY <1>1 DEF IInv, Owned
  <2> QED BY <2>3, <2>4, <2>5 DEF StampIsAdopted
<1>2. ASSUME IInv PROVE QuietHoldsNoLease
  BY <1>2, Leaseless DEF IInv, Shut, QuietHoldsNoLease, Held, Holding, Waking
<1>3. IInv => LeasesAreAccounted BY <1>1, <1>2 DEF LeasesAreAccounted
<1> QED BY <1>3, Invariance, PTL

=============================================================================
