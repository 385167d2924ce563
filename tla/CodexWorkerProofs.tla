-------------------------- MODULE CodexWorkerProofs --------------------------
(***************************************************************************)
(* Proofs about CodexWorker, for any number of messages, turns and         *)
(* processes run under the name.                                           *)
(***************************************************************************)
EXTENDS CodexWorker, SequenceTheorems, TLAPS

(* What the worker has still to handle, in order: what it has taken from   *)
(* the queue and what is still in it.                                      *)
Stream == drained \o wire.notes

Started(t)   == [what |-> "started", turn |-> t]
Completed(t) == [what |-> "completed", turn |-> t]

(* Every turn is announced as started and then as completed before the     *)
(* next one.  A stream that begins with a completion completes the turn    *)
(* the worker believes to be active, and it ends with the start of the     *)
(* turn that runs, if one does.                                            *)
Alternates(s) ==
    \A i \in 1..Len(s) :
        /\ s[i].what = "started" /\ i < Len(s) => s[i + 1] = Completed(s[i].turn)
        /\ s[i].what = "completed" /\ i > 1 => s[i - 1] = Started(s[i].turn)
Opens(s, a) == s # <<>> /\ s[1].what = "completed" => a = s[1].turn
Closes(s, a, turns) ==
    IF s = <<>> THEN turns # <<>> => a = Head(turns)
    ELSE IF s[Len(s)].what = "started" THEN turns # <<>> /\ Head(turns) = s[Len(s)].turn
    ELSE turns = <<>>

NotesInv ==
    /\ Alternates(Stream) /\ Opens(Stream, active)
    /\ server.alive => Closes(Stream, active, server.turns)

(* One request is awaited at a time, the last one written; it fits what    *)
(* the worker believes, and so does the response to it.                    *)
Fits(r) == IF r.op = "steer" THEN active # None /\ r.turn = active ELSE active = None

WireInv ==
    /\ ~server.alive => wire.requests = <<>>
    /\ \A i \in DOMAIN wire.requests :
          wire.requests[i].awaited => /\ pc = "await" /\ wire.reply = {}
                                      /\ i = Len(wire.requests) /\ Fits(wire.requests[i])
    /\ wire.reply # {} => pc = "await"
    /\ \A t \in wire.reply \ {None} :
          /\ active # None => t = active
          /\ active = None => Stream # <<>>
          /\ server.alive => Under(t)

(* Where the worker is in its batch.                                       *)
PlaceInv ==
    /\ drained # <<>> => pc \in {"check", "route"}
    /\ pc = "none" => corrs = NoTurns
    /\ pc \in {"boot", "named"} => active = None /\ next = 0
    /\ pc \in {"top", "check"} => next = 0
    /\ pc = "poll" => cursor < next /\ next <= staged + 1
    /\ pc = "route" => cursor < next /\ next <= staged
    /\ pc = "await" /\ next # 0 => cursor < next /\ next <= staged

(* What has become of each message: those the worker has not come to are   *)
(* untouched, the others are answered, wait for one turn, or are lost.     *)
Frontier == IF next = 0 THEN cursor ELSE next - 1

AccountInv ==
    /\ \A m \in Message : told[m] <= 1 /\ (m \in Pending => told[m] = 0)
    /\ \A t, u \in Turn : \A m \in Message : m \in corrs[t] /\ m \in corrs[u] => t = u
    /\ pc # "none" => /\ \A m \in Message : told[m] > 0 \/ m \in Pending => m <= Frontier
                      /\ \A m \in 1..Frontier : m \in answered \union Pending \union lost
    /\ NothingDropped

Inv ==
    /\ TypeOK /\ PlaceInv /\ WireInv /\ NotesInv /\ AccountInv
    /\ BeliefBacked /\ EndpointTrue

-----------------------------------------------------------------------------
(* Types.                                                                  *)

Servers == [alive: BOOLEAN, last: 0..MaxTurn, turns: Seq(Turn), ask: {"may", "waits", "denied"}]
Wires   == [requests: Seq(Requests), reply: SUBSET (0..MaxTurn), notes: Seq(Notes)]
Places  == {"none", "boot", "named", "await", "top", "check", "poll", "route", "failing",
            "stopping"}
Rows    == [state: {"absent", "starting", "idle", "active", "failed", "stopped"}, key: Keys]

BusOK    == sent \in 0..MaxMessage /\ cursor \in 0..sent
RowOK    == endpoint \in Rows
WorkerOK == /\ pc \in Places /\ thread \in {"none", "own"} /\ life \in 0..MaxLife
            /\ staged \in 0..sent /\ next \in 0..(MaxMessage + 1)
            /\ active \in 0..MaxTurn /\ corrs \in [Turn -> SUBSET Handoff]
            /\ drained \in Seq(Notes)
RecordOK == told \in [Handoff -> 0..3] /\ answered \subseteq Handoff /\ lost \subseteq Handoff

LEMMA TypeParts ==
    TypeOK <=> BusOK /\ RowOK /\ WorkerOK /\ server \in Servers /\ wire \in Wires /\ RecordOK
  BY DEF TypeOK, BusOK, RowOK, WorkerOK, RecordOK, Servers, Wires, Places, Rows

LEMMA Constants ==
    /\ MaxMessage \in Nat /\ MaxTurn \in Nat /\ MaxLife \in Nat
    /\ 0 \in 0..MaxTurn /\ 0 \in Handoff
    /\ \A t \in Turn : t \in 0..MaxTurn /\ t # None
    /\ \A m \in Message : m \in Handoff
  BY WorkerAssumption DEF Turn, Handoff, Message, None

LEMMA WireTyped == NoWire \in Wires
  BY DEF NoWire, Wires

LEMMA ServerTyped ==
    ASSUME NEW last \in 0..MaxTurn
    PROVE  /\ NoServer(last) \in Servers
           /\ [NoServer(last) EXCEPT !.alive = TRUE] \in Servers
<1>1. <<>> \in Seq(Turn)
  OBVIOUS
<1>2. NoServer(last) \in Servers
  BY <1>1 DEF NoServer, Servers
<1> QED BY <1>2 DEF Servers

LEMMA TypeInit == Init => TypeOK
<1> SUFFICES ASSUME Init PROVE TypeOK
    OBVIOUS
<1>1. BusOK /\ RowOK /\ RecordOK
  BY Constants DEF Init, BusOK, RowOK, RecordOK, Rows, Keys
<1>2. corrs \in [Turn -> SUBSET Handoff]
  BY DEF Init, NoTurns
<1>3. WorkerOK
  BY <1>2, Constants DEF Init, WorkerOK, Places, None
<1> QED
  BY <1>1, <1>3, WireTyped, ServerTyped, Constants, TypeParts DEF Init

LEMMA ReportTyped ==
    ASSUME RecordOK, NEW handoffs \in SUBSET Handoff, Report(handoffs), lost' = lost
    PROVE  RecordOK'
  BY DEF Report, RecordOK

LEMMA PendingTyped == WorkerOK => Pending \subseteq Handoff
  BY DEF WorkerOK, Pending

LEMMA RequestTyped ==
    ASSUME wire \in Wires, NEW op \in {"start", "steer"}, NEW about \in Handoff,
           NEW turn \in 0..MaxTurn, Request(op, about, turn)
    PROVE  wire' \in Wires
<1>1. [op |-> op, about |-> about, turn |-> turn, awaited |-> TRUE] \in Requests
  BY DEF Requests
<1>2. wire.requests \in Seq(Requests)
  BY DEF Wires
<1>3. Append(wire.requests, [op |-> op, about |-> about, turn |-> turn, awaited |-> TRUE])
         \in Seq(Requests)
  BY <1>1, <1>2
<1> QED BY <1>3 DEF Request, Wires

LEMMA AbandonedTyped ==
    ASSUME NEW requests \in Seq(Requests)
    PROVE  /\ Abandoned(requests) \in Seq(Requests)
           /\ Len(Abandoned(requests)) = Len(requests)
           /\ \A i \in 1..Len(requests) : ~Abandoned(requests)[i].awaited
<1>0. \A i \in 1..Len(requests) : requests[i] \in Requests
  BY ElementOfSeq
<1>1. \A i \in 1..Len(requests) : [requests[i] EXCEPT !.awaited = FALSE] \in Requests
  BY <1>0 DEF Requests
<1>2. Abandoned(requests) \in [1..Len(requests) -> Requests]
  BY <1>1, LenProperties DEF Abandoned
<1>3. \A i \in 1..Len(requests) : ~Abandoned(requests)[i].awaited
  BY <1>0 DEF Abandoned, Requests
<1>4. Abandoned(requests) \in Seq(Requests)
  BY <1>2
<1> QED BY <1>2, <1>3, <1>4, LenProperties

LEMMA SettledTyped ==
    ASSUME wire \in Wires, NEW how \in {"reply", "timeout", "exit"}, Settled(how)
    PROVE  wire' \in Wires
<1>1. CASE how = "reply"
  BY <1>1 DEF Settled, Wires
<1>2. CASE how = "timeout"
  <2>1. Abandoned(wire.requests) \in Seq(Requests)
    BY AbandonedTyped DEF Wires
  <2>2. wire' = [wire EXCEPT !.requests = Abandoned(wire.requests)]
    BY <1>2 DEF Settled
  <2> QED BY <2>1, <2>2 DEF Wires
<1>3. CASE how = "exit"
  BY <1>3 DEF Settled
<1> QED BY <1>1, <1>2, <1>3

LEMMA TypePartsNext ==
    ASSUME BusOK', RowOK', WorkerOK', server' \in Servers, wire' \in Wires, RecordOK'
    PROVE  TypeOK'
  BY DEF TypeOK, BusOK, RowOK, WorkerOK, RecordOK, Servers, Wires, Places, Rows

(* What a request comes to: it is refused, it steers the running turn, or  *)
(* it starts a turn, announced if no other runs.                           *)
Begun == server.last + 1

LEMMA TakeCases ==
    ASSUME wire \in Wires, server \in Servers, Take
    PROVE  LET r == Head(wire.requests)
           IN  /\ server.alive /\ wire.requests # <<>> /\ r \in Requests
               /\ UNCHANGED <<bus, endpoint, pc, worker, record>>
               /\ wire' \in [requests: {Tail(wire.requests)}, reply: SUBSET (0..MaxTurn),
                             notes: Seq(Notes)]
               /\ \/ /\ UNCHANGED server /\ wire'.notes = wire.notes
                     /\ wire'.reply = IF r.awaited THEN {None} ELSE wire.reply
                  \/ /\ r.op = "steer" /\ server.turns # <<>> /\ Head(server.turns) = r.turn
                     /\ UNCHANGED server /\ wire'.notes = wire.notes
                     /\ wire'.reply = IF r.awaited THEN {r.turn} ELSE wire.reply
                  \/ /\ r.op = "start" /\ Begun \in Turn
                     /\ server' = [server EXCEPT !.last = Begun,
                                                 !.turns = Append(server.turns, Begun)]
                     /\ wire'.notes = IF server.turns = <<>> THEN wire.notes \o <<Started(Begun)>>
                                      ELSE wire.notes
                     /\ wire'.reply = IF r.awaited THEN {Begun} ELSE wire.reply
<1> DEFINE r == Head(wire.requests)
<1>1. server.alive /\ wire.requests # <<>> /\ UNCHANGED <<bus, endpoint, pc, worker, record>>
  BY DEF Take
<1>2. /\ wire.requests \in Seq(Requests) /\ r \in Requests /\ Tail(wire.requests) \in Seq(Requests)
      /\ wire.notes \in Seq(Notes) /\ server.turns \in Seq(Turn) /\ server.last \in 0..MaxTurn
      /\ wire.reply \in SUBSET (0..MaxTurn)
  BY <1>1, HeadTailProperties DEF Wires, Servers
<1>3. r.turn \in 0..MaxTurn /\ r.op \in {"start", "steer"} /\ r.awaited \in BOOLEAN /\ None \in 0..MaxTurn
  BY <1>2, Constants DEF Requests, None
<1>4. ASSUME NEW x \in 0..MaxTurn
      PROVE  /\ Answer(r, x) = IF r.awaited THEN {x} ELSE wire.reply
             /\ Answer(r, x) \in SUBSET (0..MaxTurn)
  BY <1>2 DEF Answer
<1>5. CASE /\ r.op = "start" /\ server.last < MaxTurn
           /\ server' = [server EXCEPT !.last = Begun, !.turns = Append(@, Begun)]
           /\ wire' = [requests |-> Tail(wire.requests), reply |-> Answer(r, Begun),
                       notes |-> wire.notes \o
                                 (IF server.turns = <<>> THEN Told(<<Begun>>) ELSE <<>>)]
  <2>1. Begun \in Turn /\ Begun \in 0..MaxTurn
    BY <1>2, <1>5, Constants DEF Begun, Turn
  <2>2. Told(<<Begun>>) = <<Started(Begun)>> /\ Started(Begun) \in Notes
    BY <2>1 DEF Told, Started, Notes
  <2>3. wire.notes \o <<>> = wire.notes /\ wire.notes \o <<Started(Begun)>> \in Seq(Notes)
    BY <1>2, <2>2, ConcatEmptySeq
  <2> QED BY <1>1, <1>2, <1>4, <1>5, <2>1, <2>2, <2>3
<1>6. CASE wire' = [wire EXCEPT !.requests = Tail(wire.requests), !.reply = Answer(r, None)]
           /\ UNCHANGED server
  BY <1>1, <1>2, <1>3, <1>4, <1>6 DEF Wires
<1>7. CASE /\ r.op = "steer" /\ Runs(r.turn) /\ UNCHANGED server
           /\ wire' = [wire EXCEPT !.requests = Tail(wire.requests), !.reply = Answer(r, r.turn)]
  BY <1>1, <1>2, <1>3, <1>4, <1>7 DEF Wires, Runs
<1> QED BY <1>5, <1>6, <1>7 DEF Take, Begun

(* What the bus and the server do.                                         *)
LEMMA TypeServer ==
    ASSUME TypeOK, Send \/ Take \/ Complete \/ Ask \/ Exit
    PROVE  TypeOK'
<1> USE TypeParts
<1>1. CASE Send
  <2>1. BusOK' /\ WorkerOK'
    BY <1>1, Constants DEF Send, BusOK, WorkerOK, worker
  <2> QED BY <1>1, <2>1, TypePartsNext DEF Send, RowOK, record, RecordOK
<1>2. CASE Take \/ Complete \/ Ask \/ Exit
  <2>1. BusOK' /\ RowOK' /\ WorkerOK' /\ RecordOK'
    BY <1>2 DEF Take, Complete, Ask, Exit, BusOK, RowOK, WorkerOK, RecordOK, bus, worker, record
  <2>2. server.turns \in Seq(Turn) /\ server.last \in 0..MaxTurn /\ wire.notes \in Seq(Notes)
        /\ wire.requests \in Seq(Requests)
    BY DEF Servers, Wires
  <2>3. CASE Ask \/ Exit
    <3>1. server' \in Servers
      BY <2>2, <2>3, ServerTyped DEF Ask, Exit, Servers
    <3>2. <<>> \in Seq(Requests) /\ (wire' = wire \/ wire' = [wire EXCEPT !.requests = <<>>])
      BY <2>3 DEF Ask, Exit
    <3>3. wire' \in Wires
      BY <3>2 DEF Wires
    <3> QED BY <2>1, <3>1, <3>3, TypePartsNext
  <2>4. CASE Complete
    <3>1. server.turns # <<>> /\ Head(server.turns) \in Turn /\ Tail(server.turns) \in Seq(Turn)
      BY <2>2, <2>4 DEF Complete
    <3>2. server' \in Servers
      BY <2>4, <3>1 DEF Complete, Servers
    <3>3. [what |-> "completed", turn |-> Head(server.turns)] \in Notes
      BY <3>1 DEF Notes
    <3>4. Told(Tail(server.turns)) \in Seq(Notes)
      <4>1. CASE Tail(server.turns) = <<>>
        BY <4>1 DEF Told
      <4>2. CASE Tail(server.turns) # <<>>
        <5>1. Head(Tail(server.turns)) \in Turn
          BY <3>1, <4>2
        <5>2. [what |-> "started", turn |-> Head(Tail(server.turns))] \in Notes
          BY <5>1 DEF Notes
        <5> QED BY <4>2, <5>2 DEF Told
      <4> QED BY <4>1, <4>2
    <3>5. wire'.notes \in Seq(Notes) /\ wire' = [wire EXCEPT !.notes = wire'.notes]
      <4>1. <<[what |-> "completed", turn |-> Head(server.turns)]>> \o Told(Tail(server.turns))
               \in Seq(Notes)
        BY <3>3, <3>4
      <4>2. wire.notes \o (<<[what |-> "completed", turn |-> Head(server.turns)]>>
                              \o Told(Tail(server.turns))) \in Seq(Notes)
        BY <2>2, <4>1
      <4> QED BY <2>2, <2>4, <3>3, <3>4, <4>2, ConcatAssociative DEF Complete, Wires
    <3>6. wire' \in Wires
      BY <3>5 DEF Wires
    <3> QED BY <2>1, <3>2, <3>6, TypePartsNext
  <2>5. CASE Take
    <3>1. wire' \in Wires
      <4>1. Tail(wire.requests) \in Seq(Requests)
        BY <2>2, <2>5, TakeCases, HeadTailProperties
      <4> QED BY <2>5, <4>1, TakeCases DEF Wires
    <3>2. server' \in Servers
      <4>1. CASE UNCHANGED server
        BY <4>1
      <4>2. CASE /\ Begun \in Turn
                 /\ server' = [server EXCEPT !.last = Begun, !.turns = Append(server.turns, Begun)]
        <5>1. Append(server.turns, Begun) \in Seq(Turn) /\ Begun \in 0..MaxTurn
          BY <2>2, <4>2, Constants
        <5> QED BY <4>2, <5>1 DEF Servers
      <4> QED BY <2>5, <4>1, <4>2, TakeCases
    <3> QED BY <2>1, <3>1, <3>2, TypePartsNext
  <2> QED BY <1>2, <2>3, <2>4, <2>5
<1> QED BY <1>1, <1>2

LEMMA SetStateTyped ==
    ASSUME RowOK, NEW state \in {"idle", "active", "failed"}, SetState(state)
    PROVE  RowOK'
  BY DEF RowOK, SetState, Rows

(* Starting, and what the row is written by.                               *)
LEMMA TypeBoot ==
    ASSUME TypeOK, \/ Start \/ Allocate \/ Bind \/ BootFails \/ StopAsked
                   \/ RivalFails("none") \/ RivalFails("other")
    PROVE  TypeOK'
<1> USE TypeParts
<1>1. CASE Start
  <2>1. life' \in 0..MaxLife /\ staged' \in 0..sent /\ next' \in 0..(MaxMessage + 1) /\ active' \in 0..MaxTurn
    BY <1>1, Constants DEF Start, WorkerOK, BusOK, None
  <2>2. corrs' \in [Turn -> SUBSET Handoff] /\ drained' \in Seq(Notes)
    BY <1>1 DEF Start, NoTurns
  <2>3. WorkerOK' /\ BusOK'
    BY <1>1, <2>1, <2>2 DEF Start, WorkerOK, BusOK, bus, Places
  <2>4. RowOK'
    BY <1>1 DEF Start, Registered, RowOK, Rows
  <2>5. RecordOK'
    BY <1>1 DEF Start, RecordOK
  <2>6. server' \in Servers /\ wire' \in Wires
    <3>1. server.last \in 0..MaxTurn
      BY DEF Servers
    <3> QED BY <1>1, <3>1, ServerTyped, WireTyped DEF Start
  <2> QED BY <2>3, <2>4, <2>5, <2>6, TypePartsNext
<1>2. CASE Allocate \/ BootFails \/ StopAsked
  <2>1. WorkerOK'
    BY <1>2 DEF Allocate, BootFails, StopAsked, WorkerOK, bus, worker, Places
  <2>2. BusOK' /\ RowOK' /\ RecordOK' /\ server' \in Servers /\ wire' \in Wires
    BY <1>2 DEF Allocate, BootFails, StopAsked, BusOK, RowOK, RecordOK, bus, record
  <2> QED BY <2>1, <2>2, TypePartsNext
<1>3. CASE Bind
  <2>1. WorkerOK' /\ BusOK' /\ RecordOK' /\ server' \in Servers
    BY <1>3 DEF Bind, WorkerOK, BusOK, RecordOK, bus, worker, record, Places
  <2>2. RowOK'
    BY <1>3 DEF Bind, RowOK, Rows, Keys
  <2>3. wire' \in Wires
    BY <1>3, RequestTyped, Constants DEF Bind, InitialTurn, None
  <2> QED BY <2>1, <2>2, <2>3, TypePartsNext
<1>4. CASE RivalFails("none") \/ RivalFails("other")
  <2>1. RowOK'
    BY <1>4 DEF RivalFails, RowOK, Rows, Keys
  <2>2. BusOK' /\ WorkerOK' /\ RecordOK' /\ server' \in Servers /\ wire' \in Wires
    BY <1>4 DEF RivalFails, BusOK, WorkerOK, RecordOK, bus, worker, record
  <2> QED BY <2>1, <2>2, TypePartsNext
<1> QED BY <1>1, <1>2, <1>3, <1>4

(* A request and its response.                                             *)
LEMMA TypeRequest ==
    ASSUME TypeOK, PlaceInv,
           \/ Activate \/ Unrouted("reply") \/ Unrouted("timeout") \/ Unrouted("exit") \/ Route
    PROVE  TypeOK'
<1> USE TypeParts
<1>0. next \in 0..(MaxMessage + 1) /\ staged \in 0..sent /\ sent \in 0..MaxMessage
  BY DEF WorkerOK, BusOK
<1>1. ASSUME pc = "await" PROVE next \in Handoff /\ next + 1 \in 0..(MaxMessage + 1)
  BY <1>0, <1>1, Constants DEF PlaceInv, Handoff
<1>2. CASE Activate
  <2>1. PICK t \in Turn : active' = t /\ corrs' = [corrs EXCEPT ![t] = @ \union {next}]
    BY <1>2 DEF Activate
  <2>2. active' \in 0..MaxTurn /\ corrs' \in [Turn -> SUBSET Handoff]
    BY <1>1, <1>2, <2>1, Constants DEF Activate, WorkerOK
  <2>3. next' \in 0..(MaxMessage + 1)
    BY <1>0, <1>1, <1>2 DEF Activate
  <2>4. WorkerOK'
    BY <1>2, <2>2, <2>3 DEF Activate, Onward, WorkerOK, bus, Places
  <2>5. BusOK' /\ RecordOK' /\ server' \in Servers
    BY <1>2 DEF Activate, BusOK, RecordOK, bus, record
  <2>6. RowOK' /\ wire' \in Wires
    BY <1>2, SetStateTyped, SettledTyped DEF Activate
  <2> QED BY <2>4, <2>5, <2>6, TypePartsNext
<1>3. ASSUME NEW how \in {"reply", "timeout", "exit"}, Unrouted(how) PROVE TypeOK'
  <2>1. BusOK' /\ RowOK' /\ server' \in Servers /\ wire' \in Wires
    BY <1>3, SettledTyped DEF Unrouted, BusOK, RowOK, bus
  <2>2. WorkerOK'
    BY <1>1, <1>3 DEF Unrouted, WorkerOK, bus, Places
  <2>3. RecordOK'
    <3>1. CASE UNCHANGED record
      BY <3>1 DEF record, RecordOK
    <3>2. CASE Report({next}) /\ UNCHANGED lost
      BY <1>1, <1>3, <3>2, ReportTyped DEF Unrouted
    <3> QED BY <1>3, <3>1, <3>2 DEF Unrouted
  <2> QED BY <2>1, <2>2, <2>3, TypePartsNext
<1>4. CASE Route
  <2>1. next \in Handoff /\ active \in 0..MaxTurn
    BY <1>0, <1>4, Constants DEF Route, PlaceInv, Handoff, WorkerOK
  <2>2. wire' \in Wires
    BY <1>4, <2>1, RequestTyped, Constants DEF Route, None
  <2>3. WorkerOK'
    BY <1>4 DEF Route, Joined, WorkerOK, bus, Places
  <2>4. BusOK' /\ RowOK' /\ RecordOK' /\ server' \in Servers
    BY <1>4 DEF Route, BusOK, RowOK, RecordOK, bus, record
  <2> QED BY <2>2, <2>3, <2>4, TypePartsNext
<1> QED BY <1>2, <1>3, <1>4

(* The loop of the worker.                                                 *)
LEMMA TypeLoop ==
    ASSUME TypeOK, Drain \/ Handle \/ Poll \/ Ack
    PROVE  TypeOK'
<1> USE TypeParts
<1>1. CASE Drain
  <2>1. wire.notes \in Seq(Notes) /\ <<>> \in Seq(Notes)
    BY DEF Wires
  <2>2. WorkerOK' /\ BusOK' /\ RowOK' /\ RecordOK'
    BY <1>1, <2>1 DEF Drain, WorkerOK, BusOK, RowOK, RecordOK, bus, record, Places
  <2>3. wire' \in Wires
    BY <1>1, <2>1 DEF Drain, Wires
  <2>4. server' \in Servers
    BY <1>1 DEF Drain, Deny, Servers
  <2> QED BY <2>2, <2>3, <2>4, TypePartsNext
<1>2. CASE Handle
  <2>1. drained \in Seq(Notes) /\ drained # <<>>
    BY <1>2 DEF Handle, WorkerOK
  <2>2. Head(drained) \in Notes /\ Tail(drained) \in Seq(Notes)
    BY <2>1, HeadTailProperties
  <2>3. Head(drained).turn \in Turn /\ Head(drained).turn \in 0..MaxTurn
    BY <2>2, Constants DEF Notes
  <2>4. active' \in 0..MaxTurn /\ corrs' \in [Turn -> SUBSET Handoff]
    BY <1>2, <2>3, Constants DEF Handle, WorkerOK, None
  <2>5. WorkerOK' /\ BusOK' /\ server' \in Servers /\ wire' \in Wires
    BY <1>2, <2>2, <2>4 DEF Handle, WorkerOK, BusOK, bus
  <2>6. RowOK'
    BY <1>2, SetStateTyped DEF Handle
  <2>7. RecordOK'
    <3>1. corrs[Head(drained).turn] \in SUBSET Handoff
      BY <2>3 DEF WorkerOK
    <3> QED BY <1>2, <3>1, ReportTyped DEF Handle, record, RecordOK
  <2> QED BY <2>5, <2>6, <2>7, TypePartsNext
<1>3. CASE Poll
  <2>0. sent \in 0..sent /\ cursor + 1 \in 0..(MaxMessage + 1)
    BY Constants DEF BusOK
  <2>1. WorkerOK'
    <3>1. CASE pc' = "poll" /\ staged' = sent /\ next' = cursor + 1
               /\ UNCHANGED <<life, thread, active, corrs, drained, bus>>
      BY <2>0, <3>1 DEF WorkerOK, bus, Places
    <3>2. CASE pc' = "failing" /\ UNCHANGED <<worker, bus>>
      BY <3>2 DEF WorkerOK, bus, worker, Places
    <3> QED BY <1>3, <3>1, <3>2 DEF Poll
  <2>2. BusOK' /\ RowOK' /\ RecordOK' /\ server' \in Servers /\ wire' \in Wires
    BY <1>3 DEF Poll, BusOK, RowOK, RecordOK, bus, record
  <2> QED BY <2>1, <2>2, TypePartsNext
<1>4. CASE Ack
  <2>1. WorkerOK' /\ BusOK'
    BY <1>4, Constants DEF Ack, Acked, WorkerOK, BusOK, Places
  <2>2. RowOK' /\ RecordOK' /\ server' \in Servers /\ wire' \in Wires
    BY <1>4 DEF Ack, RowOK, RecordOK, record
  <2> QED BY <2>1, <2>2, TypePartsNext
<1> QED BY <1>1, <1>2, <1>3, <1>4

(* The end of a process.                                                   *)
LEMMA TypeOver ==
    ASSUME TypeOK, Over
    PROVE  /\ BusOK' /\ WorkerOK' /\ server' \in Servers /\ wire' \in Wires
           /\ lost' \subseteq Handoff
<1> USE TypeParts
<1>1. WorkerOK'
  BY Constants DEF Over, NoTurns, WorkerOK, bus, Places, None
<1>2. BusOK' /\ lost' \subseteq Handoff
  BY PendingTyped DEF Over, BusOK, bus, RecordOK
<1>3. server.last \in 0..MaxTurn
  BY DEF Servers
<1> QED BY <1>1, <1>2, <1>3, ServerTyped, WireTyped DEF Over

LEMMA TypeEnd ==
    ASSUME TypeOK, Fail \/ Stop \/ Kill
    PROVE  TypeOK'
<1> USE TypeParts
<1>1. CASE Stop
  <2>1. RowOK'
    BY <1>1 DEF Stop, RowOK, Rows
  <2>2. RecordOK'
    BY <1>1, TypeOver DEF Stop, RecordOK
  <2> QED BY <1>1, <2>1, <2>2, TypeOver, TypePartsNext DEF Stop
<1>2. ASSUME Over, UNCHANGED <<endpoint, told, answered>> PROVE TypeOK'
  BY <1>2, TypeOver, TypePartsNext DEF RowOK, RecordOK
<1>3. CASE /\ SetState("failed") /\ Report({0}) /\ pc' = "stopping"
           /\ UNCHANGED <<bus, worker, server, wire, lost>>
  <2>1. RowOK' /\ RecordOK'
    BY <1>3, SetStateTyped, ReportTyped, Constants
  <2>2. BusOK' /\ WorkerOK' /\ server' \in Servers /\ wire' \in Wires
    BY <1>3 DEF BusOK, WorkerOK, bus, worker, Places
  <2> QED BY <2>1, <2>2, TypePartsNext
<1> QED BY <1>1, <1>2, <1>3 DEF Fail, Kill

LEMMA TypeStep == TypeOK /\ PlaceInv /\ [Next]_vars => TypeOK'
<1> SUFFICES ASSUME TypeOK, PlaceInv, [Next]_vars PROVE TypeOK'
    OBVIOUS
<1>1. CASE UNCHANGED vars
  BY <1>1 DEF vars, bus, worker, record, TypeOK
<1> QED BY <1>1, TypeServer, TypeBoot, TypeRequest, TypeLoop, TypeEnd DEF Next, Proceed

-----------------------------------------------------------------------------
(* Streams of notifications.                                               *)

LEMMA NoteTyped == \A t \in Turn : Started(t) \in Notes /\ Completed(t) \in Notes
  BY DEF Started, Completed, Notes

LEMMA NoteForms ==
    ASSUME NEW n \in Notes
    PROVE  /\ n.turn \in Turn /\ n.what \in {"started", "completed"}
           /\ n.what = "started" => n = Started(n.turn)
           /\ n.what = "completed" => n = Completed(n.turn)
  BY DEF Notes, Started, Completed

LEMMA Joins ==
    \A x, y, z \in Seq(Notes) : x \o y \in Seq(Notes) /\ x \o (y \o z) = (x \o y) \o z
  BY ConcatAssociative, ConcatProperties

LEMMA EmptyStream ==
    ASSUME NEW a PROVE Alternates(<<>>) /\ Opens(<<>>, a) /\ Closes(<<>>, a, <<>>)
  BY DEF Alternates, Opens, Closes

(* The elements of a stream that grew by one.                              *)
LEMMA Grown ==
    ASSUME NEW s \in Seq(Notes), NEW n \in Notes
    PROVE  LET u == s \o <<n>>
           IN  /\ u \in Seq(Notes) /\ u # <<>> /\ Len(u) = Len(s) + 1 /\ u[Len(s) + 1] = n
               /\ \A i \in 1..Len(s) : u[i] = s[i]
<1>1. <<n>> \in Seq(Notes) /\ Len(<<n>>) = 1 /\ <<n>>[1] = n
  OBVIOUS
<1>2. s \o <<n>> \in Seq(Notes) /\ Len(s \o <<n>>) = Len(s) + 1
  BY <1>1, ConcatProperties
<1>3. Len(s) \in Nat
  OBVIOUS
<1> QED BY <1>1, <1>2, <1>3, ConcatProperties

(* The stream when the server has announced a turn, while none ran ...     *)
LEMMA GrowsByStart ==
    ASSUME NEW s \in Seq(Notes), NEW a, NEW t \in Turn, NEW turns \in Seq(Turn),
           Alternates(s), Opens(s, a), Closes(s, a, <<>>), turns # <<>>, Head(turns) = t
    PROVE  LET u == s \o <<Started(t)>>
           IN  Alternates(u) /\ Opens(u, a) /\ Closes(u, a, turns)
<1> DEFINE u == s \o <<Started(t)>>
<1>1. /\ u \in Seq(Notes) /\ u # <<>> /\ Len(u) = Len(s) + 1 /\ u[Len(s) + 1] = Started(t)
      /\ \A i \in 1..Len(s) : u[i] = s[i]
  BY Grown, NoteTyped
<1>2. Started(t).what = "started" /\ Started(t).turn = t
  BY DEF Started
<1>3. Len(s) \in Nat /\ (s # <<>> => Len(s) >= 1)
  OBVIOUS
<1>4. ASSUME s # <<>> PROVE s[Len(s)].what # "started"
  BY <1>4 DEF Closes
<1> HIDE DEF u
<1>5. Alternates(u)
  <2> SUFFICES ASSUME NEW i \in 1..Len(u)
               PROVE  /\ u[i].what = "started" /\ i < Len(u) => u[i + 1] = Completed(u[i].turn)
                      /\ u[i].what = "completed" /\ i > 1 => u[i - 1] = Started(u[i].turn)
      BY DEF Alternates
  <2>1. CASE i = Len(s) + 1
    BY <1>1, <1>2, <2>1
  <2>2. CASE i = Len(s)
    BY <1>1, <1>3, <1>4, <2>2 DEF Alternates
  <2>3. CASE i < Len(s)
    BY <1>1, <1>3, <2>3 DEF Alternates
  <2> QED BY <1>1, <1>3, <2>1, <2>2, <2>3
<1>6. Opens(u, a)
  BY <1>1, <1>2, <1>3 DEF Opens
<1>7. Closes(u, a, turns)
  BY <1>1, <1>2, <1>3 DEF Closes
<1> QED BY <1>5, <1>6, <1>7 DEF u

(* ... and when it has announced the end of the turn that ran.             *)
LEMMA GrowsByEnd ==
    ASSUME NEW s \in Seq(Notes), NEW a, NEW turns \in Seq(Turn),
           Alternates(s), Opens(s, a), Closes(s, a, turns), turns # <<>>
    PROVE  LET u == s \o <<Completed(Head(turns))>>
           IN  Alternates(u) /\ Opens(u, a) /\ Closes(u, a, <<>>)
<1> DEFINE t == Head(turns)
           u == s \o <<Completed(t)>>
<1>0. t \in Turn
  OBVIOUS
<1>1. /\ u \in Seq(Notes) /\ u # <<>> /\ Len(u) = Len(s) + 1 /\ u[Len(s) + 1] = Completed(t)
      /\ \A i \in 1..Len(s) : u[i] = s[i]
  BY <1>0, Grown, NoteTyped
<1>2. Completed(t).what = "completed" /\ Completed(t).turn = t
  BY DEF Completed
<1>3. Len(s) \in Nat /\ (s # <<>> => Len(s) >= 1) /\ (s = <<>> <=> Len(s) = 0)
  OBVIOUS
<1>4. ASSUME s # <<>> PROVE s[Len(s)] = Started(t)
  <2>1. s[Len(s)].what = "started" /\ s[Len(s)].turn = t
    BY <1>4 DEF Closes
  <2>2. s[Len(s)] \in Notes
    BY <1>3, <1>4, ElementOfSeq
  <2> QED BY <2>1, <2>2, NoteForms
<1>5. ASSUME s = <<>> PROVE a = t
  BY <1>5 DEF Closes
<1> HIDE DEF u, t
<1>6. Alternates(u)
  <2> SUFFICES ASSUME NEW i \in 1..Len(u)
               PROVE  /\ u[i].what = "started" /\ i < Len(u) => u[i + 1] = Completed(u[i].turn)
                      /\ u[i].what = "completed" /\ i > 1 => u[i - 1] = Started(u[i].turn)
      BY DEF Alternates
  <2>1. CASE i = Len(s) + 1
    BY <1>1, <1>2, <1>3, <1>4, <2>1
  <2>2. CASE i = Len(s)
    <3>1. s # <<>>
      BY <1>3, <2>2
    <3>2. u[i] = Started(t) /\ u[i + 1] = Completed(t)
      BY <1>1, <1>3, <1>4, <2>2, <3>1
    <3>3. Started(t).what = "started" /\ Started(t).turn = t
      BY DEF Started
    <3> QED BY <3>2, <3>3
  <2>3. CASE i < Len(s)
    BY <1>1, <1>3, <2>3 DEF Alternates
  <2> QED BY <1>1, <1>3, <2>1, <2>2, <2>3
<1>7. Opens(u, a)
  BY <1>1, <1>2, <1>3, <1>5 DEF Opens
<1>8. Closes(u, a, <<>>)
  BY <1>1, <1>2, <1>3 DEF Closes
<1> QED BY <1>6, <1>7, <1>8 DEF u, t

(* The worker handles the notification a stream begins with.               *)
LEMMA Handled ==
    ASSUME NEW s \in Seq(Notes), NEW a, s # <<>>, Alternates(s), Opens(s, a)
    PROVE  LET b == IF s[1].what = "started" THEN s[1].turn ELSE None
           IN  /\ Tail(s) \in Seq(Notes) /\ s[1] \in Notes
               /\ Alternates(Tail(s)) /\ Opens(Tail(s), b)
               /\ \A turns \in Seq(Turn) : Closes(s, a, turns) => Closes(Tail(s), b, turns)
               /\ s[1].what = "started" /\ Tail(s) # <<>> => Tail(s)[1] = Completed(s[1].turn)
               /\ s[1].what = "completed" => a = s[1].turn
<1> DEFINE u == Tail(s)
           b == IF s[1].what = "started" THEN s[1].turn ELSE None
<1>1. /\ u \in Seq(Notes) /\ Len(u) = Len(s) - 1 /\ \A i \in 1..Len(u) : u[i] = s[i + 1]
      /\ Len(s) >= 1 /\ Len(s) \in Nat /\ (u = <<>> <=> Len(s) = 1)
  <2>1. u \in Seq(Notes) /\ Len(u) = Len(s) - 1 /\ \A i \in 1..Len(u) : u[i] = s[i + 1]
    BY HeadTailProperties
  <2>2. Len(s) \in Nat /\ Len(s) # 0 /\ (u = <<>> <=> Len(u) = 0)
    BY <2>1, EmptySeq
  <2> QED BY <2>1, <2>2
<1>2. \A i \in 1..Len(s) : s[i] \in Notes
  BY ElementOfSeq
<1>3. s[1] \in Notes
  BY <1>1, <1>2
<1> HIDE DEF u
<1>4. Alternates(u)
  <2> SUFFICES ASSUME NEW i \in 1..Len(u)
               PROVE  /\ u[i].what = "started" /\ i < Len(u) => u[i + 1] = Completed(u[i].turn)
                      /\ u[i].what = "completed" /\ i > 1 => u[i - 1] = Started(u[i].turn)
      BY DEF Alternates
  <2>1. i + 1 \in 1..Len(s) /\ u[i] = s[i + 1] /\ (i < Len(u) => u[i + 1] = s[i + 2] /\ i + 1 < Len(s))
    BY <1>1
  <2>2. i > 1 => u[i - 1] = s[i]
    BY <1>1
  <2> QED BY <1>1, <2>1, <2>2 DEF Alternates
<1>5. ASSUME s[1].what = "started", u # <<>> PROVE u[1] = Completed(s[1].turn)
  BY <1>1, <1>5 DEF Alternates
<1>6. Opens(u, b)
  <2> SUFFICES ASSUME u # <<>>, u[1].what = "completed" PROVE b = u[1].turn
      BY DEF Opens
  <2>1. u[1] = s[2] /\ 2 \in 1..Len(s)
    BY <1>1
  <2>2. s[1] = Started(u[1].turn)
    BY <2>1 DEF Alternates
  <2> QED BY <2>2 DEF Started
<1>7. ASSUME NEW turns \in Seq(Turn), Closes(s, a, turns) PROVE Closes(u, b, turns)
  <2>1. CASE u = <<>>
    <3>1. Len(s) = 1 /\ s[Len(s)] = s[1]
      BY <1>1, <2>1
    <3> QED BY <1>3, <1>7, <2>1, <3>1, NoteForms DEF Closes
  <2>2. CASE u # <<>>
    <3>1. u[Len(u)] = s[Len(s)]
      BY <1>1, <2>2
    <3> QED BY <1>7, <2>2, <3>1 DEF Closes
  <2> QED BY <2>1, <2>2
<1>8. s[1].what = "completed" => a = s[1].turn
  BY DEF Opens
<1> QED BY <1>1, <1>3, <1>4, <1>5, <1>6, <1>7, <1>8 DEF u

-----------------------------------------------------------------------------
(* The notifications the worker has still to handle.                       *)

LEMMA StreamTyped == TypeOK => Stream \in Seq(Notes) /\ drained \in Seq(Notes) /\ wire.notes \in Seq(Notes)
<1> SUFFICES ASSUME TypeOK PROVE Stream \in Seq(Notes) /\ drained \in Seq(Notes) /\ wire.notes \in Seq(Notes)
    OBVIOUS
<1>1. drained \in Seq(Notes) /\ wire.notes \in Seq(Notes)
  BY TypeParts DEF WorkerOK, Wires
<1> QED BY <1>1, ConcatProperties DEF Stream

LEMMA TurnsTyped == TypeOK => server.turns \in Seq(Turn)
  BY TypeParts DEF Servers

LEMMA Appended ==
    ASSUME NEW turns \in Seq(Turn), NEW t \in Turn
    PROVE  /\ Append(turns, t) \in Seq(Turn) /\ Append(turns, t) # <<>>
           /\ Head(Append(turns, t)) = IF turns = <<>> THEN t ELSE Head(turns)
<1>1. Append(turns, t) \in Seq(Turn) /\ Len(Append(turns, t)) = Len(turns) + 1
      /\ Append(turns, t)[1] = IF Len(turns) = 0 THEN t ELSE turns[1]
  <2>1. Len(turns) \in Nat
    OBVIOUS
  <2>2. CASE Len(turns) = 0
    BY <2>2, AppendProperties
  <2>3. CASE Len(turns) # 0
    BY <2>1, <2>3, AppendProperties
  <2> QED BY <2>2, <2>3, AppendProperties
<1>2. Append(turns, t) # <<>> /\ (turns = <<>> <=> Len(turns) = 0)
  BY <1>1, AppendProperties, EmptySeq
<1> QED BY <1>1, <1>2

(* The steps that leave them, and what the worker believes, as they are.   *)
Steady ==
    /\ drained' \o wire'.notes = Stream /\ active' = active
    /\ server'.turns = server.turns /\ server'.alive = server.alive

LEMMA SteadySteps ==
    ASSUME TypeOK, PlaceInv,
           \/ Send \/ Ask \/ Allocate \/ Bind \/ BootFails \/ StopAsked
           \/ RivalFails("none") \/ RivalFails("other")
           \/ Unrouted("reply") \/ Unrouted("timeout") \/ Unrouted("exit")
           \/ Drain \/ Poll \/ Route \/ Ack
           \/ Fail /\ ~Over
    PROVE  Steady
<1>1. CASE Drain
  <2>1. drained = <<>> /\ drained' = wire.notes /\ wire'.notes = <<>>
    BY <1>1, TypeParts DEF Drain, PlaceInv, Wires
  <2>2. wire.notes \o <<>> = <<>> \o wire.notes
    BY StreamTyped, ConcatEmptySeq
  <2>3. server' = [server EXCEPT !.ask = Deny(@)]
    BY <1>1 DEF Drain
  <2>4. server'.turns = server.turns /\ server'.alive = server.alive
    BY <2>3, TypeParts DEF Servers
  <2> QED BY <1>1, <2>1, <2>2, <2>4 DEF Drain, Steady, Stream
<1>2. CASE Ask
  <2>1. server'.turns = server.turns /\ server'.alive = server.alive
    BY <1>2, TypeParts DEF Ask, Servers
  <2> QED BY <1>2, <2>1 DEF Ask, Steady, Stream, worker
<1>3. CASE Send \/ Allocate \/ BootFails \/ StopAsked \/ RivalFails("none") \/ RivalFails("other")
  BY <1>3 DEF Send, Allocate, BootFails, StopAsked, RivalFails, Steady, Stream, worker
<1>4. CASE Poll \/ Ack \/ (Fail /\ ~Over)
  BY <1>4 DEF Poll, Ack, Fail, Steady, Stream, worker
<1>5. CASE Bind \/ Route
  <2>1. wire'.notes = wire.notes
    BY <1>5, TypeParts DEF Bind, Route, InitialTurn, Request, Wires
  <2> QED BY <1>5, <2>1 DEF Bind, Route, Steady, Stream, worker
<1>6. ASSUME NEW how \in {"reply", "timeout", "exit"}, Unrouted(how) PROVE Steady
  <2>1. wire'.notes = wire.notes
    BY <1>6, TypeParts DEF Unrouted, Settled, Wires
  <2> QED BY <1>6, <2>1 DEF Unrouted, Steady, Stream
<1> QED BY <1>1, <1>2, <1>3, <1>4, <1>5, <1>6

(* A process that is new or over has nothing left to handle.               *)
LEMMA Blank ==
    ASSUME TypeOK, Start \/ Over
    PROVE  /\ drained' \o wire'.notes = <<>> /\ active' = None /\ server'.turns = <<>>
           /\ wire' = NoWire
<1>1. drained' = <<>> /\ wire' = NoWire /\ active' = None
  BY DEF Start, Over
<1>2. server'.turns = <<>>
  BY DEF Start, Over, NoServer
<1> QED BY <1>1, <1>2 DEF NoWire

(* A turn that starts is announced, at once if no other runs.              *)
LEMMA TakeStream ==
    ASSUME TypeOK, Take
    PROVE  /\ active' = active /\ pc' = pc /\ server'.alive = server.alive
           /\ \/ drained' \o wire'.notes = Stream /\ server' = server
              \/ /\ Begun \in Turn /\ server'.turns = Append(server.turns, Begun)
                 /\ drained' \o wire'.notes = IF server.turns = <<>>
                                              THEN Stream \o <<Started(Begun)>> ELSE Stream
<1> USE TypeParts
<1>1. active' = active /\ pc' = pc /\ drained' = drained
  BY DEF Take, worker
<1>2. CASE wire'.notes = wire.notes /\ UNCHANGED server
  BY <1>1, <1>2 DEF Stream
<1>3. CASE /\ Begun \in Turn
           /\ server' = [server EXCEPT !.last = Begun, !.turns = Append(server.turns, Begun)]
           /\ wire'.notes = IF server.turns = <<>> THEN wire.notes \o <<Started(Begun)>>
                            ELSE wire.notes
  <2>1. server'.turns = Append(server.turns, Begun) /\ server'.alive = server.alive
    BY <1>3 DEF Servers
  <2>2. <<Started(Begun)>> \in Seq(Notes)
    BY <1>3, NoteTyped
  <2>3. drained \o (wire.notes \o <<Started(Begun)>>) = (drained \o wire.notes) \o <<Started(Begun)>>
    BY <2>2, StreamTyped, Joins
  <2> QED BY <1>1, <1>3, <2>1, <2>3 DEF Stream
<1> QED BY <1>2, <1>3, TakeCases

(* The end of a turn is announced, and with it the start of the next one.  *)
LEMMA CompleteStream ==
    ASSUME TypeOK, Complete
    PROVE  /\ active' = active /\ pc' = pc /\ server'.alive = server.alive /\ server.alive
           /\ server.turns # <<>> /\ server'.turns = Tail(server.turns)
           /\ drained' \o wire'.notes =
                 IF Tail(server.turns) = <<>> THEN Stream \o <<Completed(Head(server.turns))>>
                 ELSE (Stream \o <<Completed(Head(server.turns))>>)
                         \o <<Started(Head(Tail(server.turns)))>>
<1> USE TypeParts
<1>1. active' = active /\ pc' = pc /\ drained' = drained /\ server.turns # <<>> /\ server.alive
  BY DEF Complete, worker
<1>2. server'.turns = Tail(server.turns) /\ server'.alive = server.alive
  BY DEF Complete, Servers
<1>3. Head(server.turns) \in Turn /\ Tail(server.turns) \in Seq(Turn)
  BY <1>1, TurnsTyped
<1> DEFINE c == <<Completed(Head(server.turns))>>
<1>4. c \in Seq(Notes) /\ Completed(Head(server.turns)) = [what |-> "completed", turn |-> Head(server.turns)]
  BY <1>3, NoteTyped DEF Completed
<1>5. wire'.notes = (wire.notes \o c) \o Told(Tail(server.turns))
  <2>1. wire'.notes = wire.notes \o c \o Told(Tail(server.turns))
    BY <1>4 DEF Complete, Wires
  <2> QED BY <2>1
<1> HIDE DEF c
<1>6. wire.notes \o c \in Seq(Notes) /\ drained \o (wire.notes \o c) = Stream \o c
      /\ Stream \o c \in Seq(Notes)
  BY <1>4, StreamTyped, Joins DEF Stream
<1>7. CASE Tail(server.turns) = <<>>
  <2>1. wire'.notes = wire.notes \o c
    BY <1>5, <1>6, <1>7, ConcatEmptySeq DEF Told
  <2> QED BY <1>1, <1>2, <1>6, <1>7, <2>1 DEF c
<1>8. CASE Tail(server.turns) # <<>>
  <2> DEFINE b == <<Started(Head(Tail(server.turns)))>>
  <2>1. Head(Tail(server.turns)) \in Turn
    BY <1>3, <1>8
  <2>2. b \in Seq(Notes) /\ Told(Tail(server.turns)) = b
    BY <1>8, <2>1, NoteTyped DEF Told, Started
  <2> HIDE DEF b
  <2>3. drained \o ((wire.notes \o c) \o b) = (drained \o (wire.notes \o c)) \o b
    <3>1. ASSUME NEW x \in Seq(Notes), NEW y \in Seq(Notes), NEW z \in Seq(Notes)
          PROVE  x \o (y \o z) = (x \o y) \o z
      BY Joins
    <3> QED BY <1>6, <2>2, <3>1, StreamTyped
  <2> QED BY <1>1, <1>2, <1>5, <1>6, <1>8, <2>2, <2>3 DEF b, c
<1> QED BY <1>7, <1>8

(* A response is none of them.                                             *)
LEMMA ActivateStream ==
    ASSUME TypeOK, Activate
    PROVE  drained' \o wire'.notes = Stream /\ server' = server
<1>1. wire'.notes = wire.notes
  BY TypeParts DEF Activate, Settled, Wires
<1> QED BY <1>1 DEF Activate, Stream

(* The worker handles the first of them.                                   *)
LEMMA HandleStream ==
    ASSUME TypeOK, Handle
    PROVE  /\ Stream # <<>> /\ drained' \o wire'.notes = Tail(Stream) /\ Head(drained) = Stream[1]
           /\ UNCHANGED <<bus, pc, life, thread, staged, next, server, wire>>
           /\ drained # <<>> /\ Stream[1] \in Notes
<1>1. drained # <<>> /\ drained' = Tail(drained)
      /\ UNCHANGED <<bus, pc, life, thread, staged, next, server, wire>>
  BY DEF Handle
<1>2. Tail(drained) \in Seq(Notes) /\ Head(drained) \in Notes /\ drained = <<Head(drained)>> \o Tail(drained)
  BY <1>1, StreamTyped
<1> DEFINE n == Head(drained)
           d == Tail(drained)
<1>3. Stream = <<n>> \o (d \o wire.notes)
  <2>1. <<n>> \in Seq(Notes)
    BY <1>2
  <2> QED BY <1>2, <2>1, StreamTyped, ConcatAssociative DEF Stream
<1>4. d \o wire.notes \in Seq(Notes)
  BY <1>2, StreamTyped, ConcatProperties
<1> HIDE DEF n, d
<1>5. ASSUME NEW x \in Seq(Notes), NEW m \in Notes
      PROVE  <<m>> \o x # <<>> /\ Tail(<<m>> \o x) = x /\ (<<m>> \o x)[1] = m
  OBVIOUS
<1> QED BY <1>1, <1>2, <1>3, <1>4, <1>5 DEF n, d

-----------------------------------------------------------------------------
(* The notifications alternate, in every step.                             *)

NotesNow(s, a, alive, turns) ==
    Alternates(s) /\ Opens(s, a) /\ (alive => Closes(s, a, turns))

LEMMA NotesStep ==
    TypeOK /\ PlaceInv /\ WireInv /\ NotesInv /\ [Next]_vars => NotesInv'
<1> SUFFICES ASSUME TypeOK, PlaceInv, WireInv, NotesInv, [Next]_vars
             PROVE  NotesNow(drained' \o wire'.notes, active', server'.alive, server'.turns)
    BY DEF NotesInv, NotesNow, Stream
<1>0. /\ Stream \in Seq(Notes) /\ server.turns \in Seq(Turn)
      /\ Alternates(Stream) /\ Opens(Stream, active)
      /\ server.alive => Closes(Stream, active, server.turns)
  BY StreamTyped, TurnsTyped DEF NotesInv
<1> DEFINE Goal == NotesNow(drained' \o wire'.notes, active', server'.alive, server'.turns)
<1>1. CASE UNCHANGED vars
  BY <1>0, <1>1 DEF vars, worker, NotesNow, Stream
<1>2. CASE Steady
  BY <1>0, <1>2 DEF Steady, NotesNow
<1>3. CASE Start \/ Over
  BY <1>3, Blank, EmptyStream DEF NotesNow
<1>4. CASE Exit
  <2>1. wire'.notes = wire.notes /\ drained' = drained /\ active' = active /\ ~server'.alive
    BY <1>4, TypeParts DEF Exit, NoServer, Wires, worker
  <2> QED BY <1>0, <2>1 DEF NotesNow, Stream
<1>5. CASE Take
  <2>1. CASE drained' \o wire'.notes = Stream /\ server' = server
    BY <1>0, <1>5, <2>1, TakeStream DEF NotesNow
  <2>2. CASE /\ Begun \in Turn /\ server'.turns = Append(server.turns, Begun)
             /\ drained' \o wire'.notes = IF server.turns = <<>>
                                          THEN Stream \o <<Started(Begun)>> ELSE Stream
    <3>1. server'.turns \in Seq(Turn) /\ server'.turns # <<>>
          /\ Head(server'.turns) = IF server.turns = <<>> THEN Begun ELSE Head(server.turns)
      BY <1>0, <2>2, Appended
    <3>2. active' = active /\ server.alive /\ server'.alive = server.alive
      BY <1>5, TakeStream DEF Take
    <3>3. CASE server.turns = <<>>
      <4>1. Closes(Stream, active, <<>>)
        BY <1>0, <3>2, <3>3
      <4> QED BY <1>0, <2>2, <3>1, <3>2, <3>3, <4>1, GrowsByStart DEF NotesNow
    <3>4. CASE server.turns # <<>>
      <4>1. Closes(Stream, active, server'.turns)
        BY <1>0, <3>1, <3>2, <3>4 DEF Closes
      <4> QED BY <1>0, <2>2, <3>2, <3>4, <4>1 DEF NotesNow
    <3> QED BY <3>3, <3>4
  <2> QED BY <1>5, <2>1, <2>2, TakeStream
<1>6. CASE Complete
  <2> DEFINE s == Stream \o <<Completed(Head(server.turns))>>
  <2>1. server.alive /\ server.turns # <<>> /\ active' = active /\ server'.turns = Tail(server.turns)
        /\ server'.alive = server.alive
    BY <1>6, CompleteStream
  <2>2. Alternates(s) /\ Opens(s, active) /\ Closes(s, active, <<>>)
    BY <1>0, <2>1, GrowsByEnd
  <2>3. s \in Seq(Notes)
    BY <1>0, <2>1, Grown, NoteTyped
  <2>4. CASE Tail(server.turns) = <<>>
    BY <1>6, <2>1, <2>2, <2>4, CompleteStream DEF NotesNow
  <2>5. CASE Tail(server.turns) # <<>>
    <3>1. Tail(server.turns) \in Seq(Turn) /\ Head(Tail(server.turns)) \in Turn
      BY <1>0, <2>1, <2>5
    <3> HIDE DEF s
    <3>2. LET u == s \o <<Started(Head(Tail(server.turns)))>>
          IN  Alternates(u) /\ Opens(u, active) /\ Closes(u, active, Tail(server.turns))
      BY <2>2, <2>3, <2>5, <3>1, GrowsByStart
    <3> QED BY <1>6, <2>1, <2>5, <3>2, CompleteStream DEF NotesNow, s
  <2> QED BY <2>4, <2>5
<1>7. CASE Handle
  <2>1. active' = IF Stream[1].what = "started" THEN Stream[1].turn ELSE None
    <3>1. CASE Stream[1].what = "started"
      BY <1>7, <3>1, HandleStream DEF Handle
    <3>2. CASE Stream[1].what = "completed"
      BY <1>0, <1>7, <3>2, HandleStream, Handled DEF Handle
    <3> QED BY <1>7, <3>1, <3>2, HandleStream, NoteForms
  <2>2. Stream # <<>> /\ drained' \o wire'.notes = Tail(Stream) /\ server' = server
    BY <1>7, HandleStream
  <2>3. /\ Alternates(Tail(Stream)) /\ Opens(Tail(Stream), active')
        /\ \A turns \in Seq(Turn) : Closes(Stream, active, turns) => Closes(Tail(Stream), active', turns)
    BY <1>0, <2>1, <2>2, Handled
  <2> QED BY <1>0, <2>2, <2>3 DEF NotesNow
<1>8. CASE Activate
  <2>1. PICK t \in Turn : t \in wire.reply /\ active' = t
    BY <1>8 DEF Activate
  <2>2. t # None /\ (active # None => t = active) /\ (active = None => Stream # <<>>)
    BY <2>1, Constants DEF WireInv
  <2>3. drained' \o wire'.notes = Stream /\ server' = server
    BY <1>8, ActivateStream
  <2>4. Opens(Stream, t)
    <3> SUFFICES ASSUME Stream # <<>>, Stream[1].what = "completed" PROVE t = Stream[1].turn
        BY DEF Opens
    <3>1. active = Stream[1].turn
      BY <1>0 DEF Opens
    <3>2. Stream[1] \in Notes
      BY <1>0
    <3> QED BY <2>2, <3>1, <3>2, NoteForms, Constants
  <2>5. ASSUME server.alive PROVE Closes(Stream, t, server.turns)
    BY <1>0, <2>2, <2>5 DEF Closes
  <2> QED BY <1>0, <2>1, <2>3, <2>4, <2>5 DEF NotesNow
<1>9. CASE Stop \/ Kill \/ Fail
  <2>1. CASE Over
    BY <1>3, <2>1
  <2> QED BY <1>2, <1>9, <2>1, SteadySteps DEF Stop, Kill
<1> QED
  BY <1>1, <1>2, <1>3, <1>4, <1>5, <1>6, <1>7, <1>8, <1>9, SteadySteps DEF Next, Proceed

-----------------------------------------------------------------------------
(* What the server has of a turn, or has announced of its end.             *)

Held(s, turns, t) ==
    \/ \E i \in 1..Len(turns) : turns[i] = t
    \/ \E i \in 1..Len(s) : s[i] = Completed(t)

LEMMA HeldJoin ==
    ASSUME NEW d \in Seq(Notes), NEW n \in Seq(Notes), NEW t
    PROVE  (\E i \in 1..Len(d \o n) : (d \o n)[i] = Completed(t))
              <=> \E notes \in {n, d} : \E i \in DOMAIN notes : notes[i] = Completed(t)
<1>1. /\ Len(d) \in Nat /\ Len(n) \in Nat /\ Len(d \o n) = Len(d) + Len(n)
      /\ \A i \in 1..Len(d) : (d \o n)[i] = d[i]
      /\ \A i \in 1..Len(n) : (d \o n)[Len(d) + i] = n[i]
      /\ DOMAIN d = 1..Len(d) /\ DOMAIN n = 1..Len(n)
  <2>1. \A i \in 1..(Len(d) + Len(n)) : (d \o n)[i] = IF i <= Len(d) THEN d[i] ELSE n[i - Len(d)]
    BY ConcatProperties
  <2>2. Len(d) \in Nat /\ Len(n) \in Nat /\ DOMAIN d = 1..Len(d) /\ DOMAIN n = 1..Len(n)
    BY LenProperties
  <2>3. Len(d \o n) = Len(d) + Len(n)
    BY ConcatProperties
  <2> QED BY <2>1, <2>2, <2>3
<1>2. ASSUME NEW i \in 1..Len(d \o n), (d \o n)[i] = Completed(t)
      PROVE  \E notes \in {n, d} : \E j \in DOMAIN notes : notes[j] = Completed(t)
  <2>1. CASE i <= Len(d)
    <3>1. i \in DOMAIN d /\ d[i] = Completed(t)
      BY <1>1, <1>2, <2>1
    <3> QED BY <3>1
  <2>2. CASE i > Len(d)
    <3>1. i - Len(d) \in DOMAIN n /\ Len(d) + (i - Len(d)) = i
      BY <1>1, <2>2
    <3>2. n[i - Len(d)] = Completed(t)
      BY <1>1, <1>2, <3>1
    <3> QED BY <3>1, <3>2
  <2> QED BY <1>1, <2>1, <2>2
<1>3. ASSUME NEW i \in DOMAIN n, n[i] = Completed(t)
      PROVE  \E j \in 1..Len(d \o n) : (d \o n)[j] = Completed(t)
  <2>1. Len(d) + i \in 1..Len(d \o n) /\ (d \o n)[Len(d) + i] = Completed(t)
    BY <1>1, <1>3
  <2> QED BY <2>1
<1>4. ASSUME NEW i \in DOMAIN d, d[i] = Completed(t)
      PROVE  \E j \in 1..Len(d \o n) : (d \o n)[j] = Completed(t)
  <2>1. i \in 1..Len(d \o n) /\ (d \o n)[i] = Completed(t)
    BY <1>1, <1>4
  <2> QED BY <2>1
<1> QED BY <1>2, <1>3, <1>4

LEMMA UnderHeld ==
    ASSUME drained \in Seq(Notes), wire.notes \in Seq(Notes), server.turns \in Seq(Turn), NEW t
    PROVE  Under(t) <=> Held(Stream, server.turns, t)
<1>1. DOMAIN server.turns = 1..Len(server.turns)
  BY LenProperties
<1>2. Held(Stream, server.turns, t)
        <=> \/ \E i \in DOMAIN server.turns : server.turns[i] = t
            \/ \E notes \in {wire.notes, drained} : \E i \in DOMAIN notes : notes[i] = Completed(t)
  BY <1>1, HeldJoin DEF Held, Stream
<1> QED BY <1>2 DEF Under, Completed

LEMMA UnderHeldNext ==
    ASSUME TypeOK', NEW t
    PROVE  Under(t)' <=> Held(drained' \o wire'.notes, server'.turns, t)
<1>1. drained' \in Seq(Notes) /\ wire'.notes \in Seq(Notes) /\ server'.turns \in Seq(Turn)
  BY DEF TypeOK
<1>2. DOMAIN server'.turns = 1..Len(server'.turns)
  BY <1>1, LenProperties
<1>3. Held(drained' \o wire'.notes, server'.turns, t)
        <=> \/ \E i \in DOMAIN server'.turns : server'.turns[i] = t
            \/ \E notes \in {wire'.notes, drained'} : \E i \in DOMAIN notes : notes[i] = Completed(t)
  BY <1>1, <1>2, HeldJoin DEF Held
<1> QED BY <1>3 DEF Under, Completed

(* A turn is added at the end of the server's queue ...                    *)
LEMMA HeldAdded ==
    ASSUME NEW s \in Seq(Notes), NEW turns \in Seq(Turn), NEW x \in Turn
    PROVE  /\ Held(s, Append(turns, x), x)
           /\ \A t : Held(s, turns, t) => Held(s, Append(turns, x), t)
<1>1. /\ Len(Append(turns, x)) = Len(turns) + 1 /\ Append(turns, x)[Len(turns) + 1] = x
      /\ \A i \in 1..Len(turns) : Append(turns, x)[i] = turns[i]
      /\ Len(turns) \in Nat
  BY AppendProperties, LenProperties
<1> QED BY <1>1 DEF Held

(* ... a notification at the end of the stream ...                         *)
LEMMA HeldNoted ==
    ASSUME NEW s \in Seq(Notes), NEW turns \in Seq(Turn), NEW n \in Notes
    PROVE  \A t : Held(s, turns, t) => Held(s \o <<n>>, turns, t)
<1>1. /\ Len(s \o <<n>>) = Len(s) + 1 /\ \A i \in 1..Len(s) : (s \o <<n>>)[i] = s[i]
      /\ Len(s) \in Nat
  BY Grown, LenProperties
<1> DEFINE u == s \o <<n>>
<1> HIDE DEF u
<1>2. Len(u) = Len(s) + 1 /\ \A i \in 1..Len(s) : u[i] = s[i]
  BY <1>1 DEF u
<1>3. \A t : Held(s, turns, t) => Held(u, turns, t)
  BY <1>1, <1>2 DEF Held
<1> QED BY <1>3 DEF u

(* ... and what ends has its end announced.                                *)
LEMMA HeldEnded ==
    ASSUME NEW s \in Seq(Notes), NEW turns \in Seq(Turn), turns # <<>>
    PROVE  \A t : Held(s, turns, t) => Held(s \o <<Completed(Head(turns))>>, Tail(turns), t)
<1> DEFINE c == Completed(Head(turns))
           u == s \o <<c>>
           v == Tail(turns)
<1>1. /\ Len(u) = Len(s) + 1 /\ u[Len(s) + 1] = c /\ \A i \in 1..Len(s) : u[i] = s[i]
      /\ Len(s) \in Nat
  BY Grown, NoteTyped, LenProperties
<1>2. /\ Len(v) = Len(turns) - 1 /\ \A i \in 1..Len(v) : v[i] = turns[i + 1]
      /\ Len(turns) \in Nat /\ Len(turns) >= 1 /\ Head(turns) = turns[1]
  <2>1. Len(v) = Len(turns) - 1 /\ \A i \in 1..Len(v) : v[i] = turns[i + 1]
    BY HeadTailProperties
  <2>2. Len(turns) \in Nat /\ Len(turns) # 0
    BY EmptySeq
  <2> QED BY <2>1, <2>2
<1> HIDE DEF u, v
<1>3. ASSUME NEW t, NEW i \in 1..Len(turns), turns[i] = t PROVE Held(u, v, t)
  <2>1. CASE i = 1
    <3>1. u[Len(s) + 1] = Completed(t) /\ Len(s) + 1 \in 1..Len(u)
      BY <1>1, <1>2, <1>3, <2>1
    <3> QED BY <3>1 DEF Held
  <2>2. CASE i > 1
    <3>1. i - 1 \in 1..Len(v) /\ v[i - 1] = t
      BY <1>2, <1>3, <2>2
    <3> QED BY <3>1 DEF Held
  <2> QED BY <2>1, <2>2
<1>4. ASSUME NEW t, NEW i \in 1..Len(s), s[i] = Completed(t) PROVE Held(u, v, t)
  <2>1. i \in 1..Len(u) /\ u[i] = Completed(t)
    BY <1>1, <1>4
  <2> QED BY <2>1 DEF Held
<1>5. \A t : Held(s, turns, t) => Held(u, v, t)
  BY <1>3, <1>4 DEF Held
<1> QED BY <1>5 DEF u, v

(* A notification that does not end the turn leaves what there is of it.   *)
LEMMA HeldRead ==
    ASSUME NEW s \in Seq(Notes), NEW turns, NEW t, s # <<>>, s[1] # Completed(t),
           Held(s, turns, t)
    PROVE  Held(Tail(s), turns, t)
<1> DEFINE u == Tail(s)
<1>1. /\ Len(u) = Len(s) - 1 /\ \A i \in 1..Len(u) : u[i] = s[i + 1]
      /\ Len(s) \in Nat
  BY HeadTailProperties
<1> HIDE DEF u
<1>2. ASSUME NEW i \in 1..Len(s), s[i] = Completed(t) PROVE \E j \in 1..Len(u) : u[j] = Completed(t)
  <2>1. i # 1
    BY <1>2
  <2>2. i - 1 \in 1..Len(u) /\ u[i - 1] = s[i]
    BY <1>1, <2>1
  <2> QED BY <1>2, <2>2
<1> QED BY <1>2 DEF Held, u

LEMMA UnderStep ==
    ASSUME TypeOK, TypeOK', PlaceInv, NEW t, Under(t),
           \/ Steady \/ Take \/ Complete \/ Activate
           \/ Handle /\ Stream[1] # Completed(t)
    PROVE  Under(t)'
<1> SUFFICES Held(drained' \o wire'.notes, server'.turns, t)
    BY UnderHeldNext
<1>0. /\ Stream \in Seq(Notes) /\ server.turns \in Seq(Turn)
      /\ Held(Stream, server.turns, t)
  BY StreamTyped, TurnsTyped, UnderHeld
<1>1. CASE Steady \/ Activate
  BY <1>0, <1>1, ActivateStream DEF Steady
<1>2. CASE Take
  <2>1. CASE drained' \o wire'.notes = Stream /\ server' = server
    BY <1>0, <2>1
  <2>2. CASE /\ Begun \in Turn /\ server'.turns = Append(server.turns, Begun)
             /\ drained' \o wire'.notes = IF server.turns = <<>>
                                          THEN Stream \o <<Started(Begun)>> ELSE Stream
    <3>1. Held(Stream, server'.turns, t) /\ server'.turns \in Seq(Turn)
      BY <1>0, <2>2, HeldAdded, Appended
    <3>2. Held(Stream \o <<Started(Begun)>>, server'.turns, t)
      BY <1>0, <2>2, <3>1, HeldNoted, NoteTyped
    <3> QED BY <2>2, <3>1, <3>2
  <2> QED BY <1>2, <2>1, <2>2, TakeStream
<1>3. CASE Complete
  <2> DEFINE s == Stream \o <<Completed(Head(server.turns))>>
             n == Started(Head(Tail(server.turns)))
             v == Tail(server.turns)
  <2>1. /\ server.turns # <<>> /\ server'.turns = v
        /\ drained' \o wire'.notes = IF v = <<>> THEN s ELSE s \o <<n>>
    BY <1>3, CompleteStream
  <2>2. Held(s, v, t)
    BY <1>0, <2>1, HeldEnded
  <2>3. s \in Seq(Notes) /\ v \in Seq(Turn)
    BY <1>0, <2>1, Grown, NoteTyped
  <2>4. CASE v # <<>>
    <3>1. Head(v) \in Turn
      BY <2>3, <2>4
    <3>2. n \in Notes
      BY <3>1, NoteTyped
    <3> HIDE DEF s, n, v
    <3> QED BY <2>1, <2>2, <2>3, <2>4, <3>2, HeldNoted
  <2> QED BY <2>1, <2>2, <2>4
<1>4. CASE Handle /\ Stream[1] # Completed(t)
  BY <1>0, <1>4, HandleStream, HeldRead
<1> QED BY <1>1, <1>2, <1>3, <1>4

(* BeliefBacked: a turn the worker reads the start of either is the one    *)
(* that runs or has its end next in the stream.                            *)
LEMMA BeliefStep ==
    TypeOK /\ TypeOK' /\ PlaceInv /\ WireInv /\ NotesInv /\ BeliefBacked /\ [Next]_vars
       => BeliefBacked'
<1> SUFFICES ASSUME TypeOK, TypeOK', PlaceInv, WireInv, NotesInv, BeliefBacked, [Next]_vars,
                    active' # None, server'.alive
             PROVE  Under(active)'
    BY DEF BeliefBacked
<1>0. Stream \in Seq(Notes) /\ server.turns \in Seq(Turn) /\ active \in 0..MaxTurn
  BY StreamTyped, TurnsTyped, TypeParts DEF WorkerOK
<1>1. CASE UNCHANGED vars
  BY <1>1 DEF vars, worker, BeliefBacked, Under
<1>2. CASE Steady \/ Take \/ Complete
  <2>1. active' = active /\ server.alive
    BY <1>2, TakeStream, CompleteStream DEF Steady
  <2>2. Under(active)
    BY <2>1 DEF BeliefBacked
  <2>3. ASSUME NEW t, t = active, Under(t) PROVE Under(t)'
    BY <1>2, <2>3, UnderStep
  <2> QED BY <2>1, <2>2, <2>3 DEF Under
<1>3. CASE Start \/ Over \/ Exit
  BY <1>3, Blank, TypeParts DEF Exit, NoServer
<1>4. CASE Activate
  <2>1. PICK t \in Turn : t \in wire.reply /\ active' = t
    BY <1>4 DEF Activate
  <2>2. server.alive /\ t # None
    BY <1>4, <2>1, ActivateStream, Constants
  <2>3. Under(t)
    BY <2>1, <2>2 DEF WireInv
  <2>4. Under(t)'
    BY <1>4, <2>3, UnderStep
  <2> QED BY <2>1, <2>4 DEF Under
<1>5. CASE Handle
  <2> DEFINE n == Stream[1]
  <2>1. /\ Stream # <<>> /\ drained' \o wire'.notes = Tail(Stream) /\ Head(drained) = n
        /\ server' = server /\ n \in Notes
    BY <1>5, HandleStream
  <2>2. n.what = "started" /\ active' = n.turn
    <3>1. CASE n.what = "completed"
      <4>1. active = n.turn
        BY <2>1, <3>1 DEF NotesInv, Opens
      <4> QED BY <1>5, <2>1, <3>1, <4>1 DEF Handle
    <3> QED BY <1>5, <2>1, <3>1, NoteForms DEF Handle
  <2>3. Held(Tail(Stream), server.turns, n.turn)
    <3>1. Tail(Stream) \in Seq(Notes)
      BY <1>0, <2>1
    <3>2. CASE Tail(Stream) = <<>>
      <4>1. Len(Stream) = 1
        <5>1. Len(Tail(Stream)) = Len(Stream) - 1 /\ Len(Stream) \in Nat
          BY <1>0, <2>1, HeadTailProperties
        <5>2. Len(Tail(Stream)) = 0
          BY <3>1, <3>2, EmptySeq
        <5> QED BY <5>1, <5>2
      <4>2. Closes(Stream, active, server.turns)
        BY <2>1 DEF NotesInv
      <4>3. server.turns # <<>> /\ Head(server.turns) = n.turn
        BY <2>1, <2>2, <4>1, <4>2 DEF Closes
      <4>4. 1 \in 1..Len(server.turns) /\ server.turns[1] = n.turn
        BY <1>0, <4>3
      <4> QED BY <4>4 DEF Held
    <3>3. CASE Tail(Stream) # <<>>
      <4>1. Tail(Stream)[1] = Completed(n.turn)
        BY <1>0, <2>1, <2>2, <3>3, Handled DEF NotesInv
      <4>2. 1 \in 1..Len(Tail(Stream))
        BY <3>1, <3>3
      <4> QED BY <4>1, <4>2 DEF Held
    <3> QED BY <3>2, <3>3
  <2>4. ASSUME NEW t, t = n.turn PROVE Under(t)'
    BY <2>1, <2>3, <2>4, UnderHeldNext
  <2>5. ASSUME NEW t, t = active' PROVE Under(t)'
    BY <2>2, <2>4, <2>5
  <2> QED BY <2>5 DEF Under
<1>6. CASE Stop \/ Kill \/ Fail
  <2>1. CASE Over
    BY <1>3, <2>1
  <2> QED BY <1>2, <1>6, <2>1, SteadySteps DEF Stop, Kill
<1> QED
  BY <1>1, <1>2, <1>3, <1>4, <1>5, <1>6, SteadySteps DEF Next, Proceed

-----------------------------------------------------------------------------
(* Where the worker is.                                                    *)

LEMMA PlaceStep == TypeOK /\ PlaceInv /\ [Next]_vars => PlaceInv'
<1> SUFFICES ASSUME TypeOK, PlaceInv, [Next]_vars PROVE PlaceInv'
    OBVIOUS
<1>0. /\ sent \in 0..MaxMessage /\ cursor \in 0..sent /\ staged \in 0..sent
      /\ next \in 0..(MaxMessage + 1) /\ MaxMessage \in Nat
  BY Constants DEF TypeOK
<1>1. CASE UNCHANGED vars
  BY <1>1 DEF vars, bus, worker, PlaceInv
<1>2. CASE Send \/ Take \/ Complete \/ Ask \/ Exit \/ RivalFails("none") \/ RivalFails("other")
  BY <1>2 DEF Send, Take, Complete, Ask, Exit, RivalFails, bus, worker, PlaceInv
<1>3. CASE Start \/ Allocate \/ Bind \/ BootFails \/ StopAsked
  BY <1>3 DEF Start, Allocate, Bind, BootFails, StopAsked, bus, worker, PlaceInv
<1>4. CASE Activate
  BY <1>0, <1>4 DEF Activate, Onward, bus, PlaceInv
<1>5. CASE Unrouted("reply") \/ Unrouted("timeout") \/ Unrouted("exit")
  BY <1>0, <1>5 DEF Unrouted, bus, PlaceInv
<1>6. CASE Drain
  BY <1>0, <1>6 DEF Drain, bus, PlaceInv
<1>7. CASE Handle
  <2>1. drained # <<>> /\ UNCHANGED <<bus, pc, staged, next>>
    BY <1>7 DEF Handle
  <2> QED BY <2>1 DEF bus, PlaceInv
<1>8. CASE Poll
  BY <1>0, <1>8 DEF Poll, bus, worker, PlaceInv
<1>9. CASE Route
  BY <1>0, <1>9 DEF Route, bus, PlaceInv
<1>10. CASE Ack
  BY <1>0, <1>10 DEF Ack, bus, PlaceInv
<1>11. CASE Stop \/ Kill \/ Fail
  BY <1>11 DEF Stop, Kill, Fail, Over, bus, worker, PlaceInv
<1> QED
  BY <1>1, <1>2, <1>3, <1>4, <1>5, <1>6, <1>7, <1>8, <1>9, <1>10, <1>11 DEF Next, Proceed

-----------------------------------------------------------------------------
(* EndpointTrue: from bind_thread on the row carries the worker's key,     *)
(* which no second process may write under.                                *)
LEMMA EndpointStep ==
    TypeOK /\ PlaceInv /\ WireInv /\ NotesInv /\ EndpointTrue /\ [Next]_vars => EndpointTrue'
<1> SUFFICES ASSUME TypeOK, PlaceInv, WireInv, NotesInv, EndpointTrue, [Next]_vars PROVE EndpointTrue'
    OBVIOUS
<1>0. endpoint \in Rows
  BY TypeParts DEF RowOK
<1>1. CASE UNCHANGED vars
  BY <1>1 DEF vars, worker, EndpointTrue, Serving
<1>2. CASE Send \/ Take \/ Complete \/ Ask \/ Exit
  BY <1>2 DEF Send, Take, Complete, Ask, Exit, worker, EndpointTrue, Serving
<1>3. CASE RivalFails("none") \/ RivalFails("other")
  BY <1>3 DEF RivalFails, MayWrite, EndpointTrue, Serving, worker
<1>4. CASE Start \/ Allocate \/ Bind \/ BootFails \/ StopAsked
  BY <1>4 DEF Start, Allocate, Bind, BootFails, StopAsked, worker, EndpointTrue, Serving, PlaceInv
<1>5. CASE Activate
  <2>1. PICK t \in Turn : active' = t
    BY <1>5 DEF Activate
  <2>2. endpoint'.state = "active" /\ endpoint'.key = endpoint.key /\ active' # None
    BY <1>0, <1>5, <2>1, Constants DEF Activate, SetState, Rows
  <2>3. endpoint.key = "own"
    BY <1>5 DEF Activate, EndpointTrue, Serving
  <2> QED BY <2>2, <2>3 DEF EndpointTrue
<1>6. CASE Unrouted("reply") \/ Unrouted("timeout") \/ Unrouted("exit") \/ Drain \/ Poll \/ Route \/ Ack
  BY <1>6 DEF Unrouted, Drain, Poll, Route, Ack, worker, EndpointTrue, Serving
<1>7. CASE Handle
  <2>1. Stream \in Seq(Notes) /\ Stream # <<>> /\ Head(drained) = Stream[1] /\ Stream[1] \in Notes
        /\ drained # <<>> /\ pc' = pc
    BY <1>7, StreamTyped, HandleStream
  <2>2. Serving /\ endpoint.key = "own"
    BY <2>1 DEF PlaceInv, Serving, EndpointTrue
  <2>3. CASE Stream[1].what = "started"
    <3>1. active' # None /\ SetState("active")
      BY <1>7, <2>1, <2>3, NoteForms, Constants DEF Handle
    <3> QED BY <1>0, <2>2, <3>1 DEF SetState, EndpointTrue, Rows
  <2>4. CASE Stream[1].what = "completed"
    <3>1. active = Stream[1].turn
      BY <2>1, <2>4 DEF NotesInv, Opens
    <3>2. active' = None /\ SetState("idle")
      BY <1>7, <2>1, <2>4, <3>1 DEF Handle
    <3> QED BY <1>0, <2>2, <3>2 DEF SetState, EndpointTrue, Rows
  <2> QED BY <2>1, <2>3, <2>4, NoteForms
<1>8. CASE Stop \/ Kill \/ Fail
  BY <1>8 DEF Stop, Kill, Fail, Over, EndpointTrue, Serving
<1> QED
  BY <1>1, <1>2, <1>3, <1>4, <1>5, <1>6, <1>7, <1>8 DEF Next, Proceed

-----------------------------------------------------------------------------
(* Requests and responses.                                                 *)

NoneAwaited == \A i \in DOMAIN wire.requests : ~wire.requests[i].awaited

LEMMA AwayFromAwait ==
    ASSUME WireInv, pc # "await" \/ wire.reply # {}
    PROVE  NoneAwaited
  BY DEF WireInv, NoneAwaited

(* Once the request is settled nothing is awaited, and no response kept.   *)
LEMMA SettledWire ==
    ASSUME TypeOK, WireInv, NEW how \in {"reply", "timeout", "exit"}, Settled(how),
           how = "reply" => wire.reply # {}, how # "reply" => wire.reply = {},
           how = "exit" => ~server.alive
    PROVE  /\ wire'.reply = {} /\ NoneAwaited'
           /\ wire.requests = <<>> => wire'.requests = <<>>
<1>0. wire \in Wires /\ wire.requests \in Seq(Requests)
  BY TypeParts DEF Wires
<1>1. CASE how = "reply"
  <2>1. wire'.reply = {} /\ wire'.requests = wire.requests
    BY <1>0, <1>1 DEF Settled, Wires
  <2> QED BY <1>1, <2>1, AwayFromAwait DEF NoneAwaited
<1>2. CASE how = "timeout"
  <2>1. wire'.reply = {} /\ wire'.requests = Abandoned(wire.requests)
    BY <1>0, <1>2 DEF Settled, Wires
  <2>2. /\ Abandoned(wire.requests) \in Seq(Requests)
        /\ Len(Abandoned(wire.requests)) = Len(wire.requests)
        /\ \A i \in 1..Len(wire.requests) : ~Abandoned(wire.requests)[i].awaited
    BY <1>0, AbandonedTyped
  <2>3. DOMAIN Abandoned(wire.requests) = 1..Len(wire.requests)
    BY <2>2, LenProperties
  <2>4. wire.requests = <<>> => Abandoned(wire.requests) = <<>>
    BY <1>0, <2>2, EmptySeq
  <2> QED BY <2>1, <2>2, <2>3, <2>4 DEF NoneAwaited
<1>3. CASE how = "exit"
  <2>1. wire' = wire /\ wire.requests = <<>>
    BY <1>3 DEF Settled, WireInv
  <2> QED BY <1>3, <2>1 DEF NoneAwaited
<1> QED BY <1>1, <1>2, <1>3

LEMMA Quiet ==
    ASSUME wire'.reply = {}, NoneAwaited', ~server'.alive => wire'.requests = <<>>
    PROVE  WireInv'
  BY DEF WireInv, NoneAwaited

(* Away from an await the wire holds no response and nothing awaited.      *)
LEMMA QuietSteps ==
    ASSUME TypeOK, PlaceInv, WireInv,
           \/ Allocate \/ BootFails \/ StopAsked \/ Drain \/ Handle \/ Poll \/ Ack
           \/ Fail /\ ~Over
    PROVE  WireInv'
<1>1. pc # "await" /\ (drained # <<>> => pc # "await")
  BY DEF PlaceInv, Allocate, BootFails, StopAsked, Drain, Handle, Poll, Ack, Fail
<1>2. wire.reply = {} /\ NoneAwaited
  BY <1>1, AwayFromAwait DEF WireInv
<1>3. wire'.requests = wire.requests /\ wire'.reply = wire.reply /\ server'.alive = server.alive
  <2>1. CASE Drain
    BY <2>1, TypeParts DEF Drain, Wires, Servers
  <2> QED BY <2>1 DEF Allocate, BootFails, StopAsked, Handle, Poll, Ack, Fail, worker
<1> QED BY <1>2, <1>3, Quiet DEF NoneAwaited, WireInv

(* A request is written, by a worker that awaits nothing else.             *)
LEMMA RequestWire ==
    ASSUME TypeOK, WireInv, pc # "await", pc' = "await", active' = active, server' = server,
           drained' = drained, server.alive,
           NEW op \in {"start", "steer"}, NEW about \in Handoff, NEW turn \in 0..MaxTurn,
           Request(op, about, turn),
           IF op = "steer" THEN active # None /\ turn = active ELSE active = None
    PROVE  WireInv'
<1> DEFINE r == [op |-> op, about |-> about, turn |-> turn, awaited |-> TRUE]
<1>1. wire.requests \in Seq(Requests) /\ r \in Requests
  BY TypeParts DEF Wires, Requests
<1>2. wire'.requests = Append(wire.requests, r) /\ wire'.reply = wire.reply
  BY TypeParts DEF Request, Wires
<1>3. wire.reply = {} /\ NoneAwaited
  BY AwayFromAwait DEF WireInv
<1>4. Fits(r)
  BY DEF Fits
<1>5. /\ Len(wire'.requests) = Len(wire.requests) + 1 /\ wire'.requests[Len(wire.requests) + 1] = r
      /\ \A i \in 1..Len(wire.requests) : wire'.requests[i] = wire.requests[i]
      /\ Len(wire.requests) \in Nat /\ DOMAIN wire.requests = 1..Len(wire.requests)
      /\ DOMAIN wire'.requests = 1..Len(wire'.requests)
  <2>1. Append(wire.requests, r) \in Seq(Requests)
    BY <1>1
  <2> QED BY <1>1, <1>2, <2>1, AppendProperties, LenProperties
<1> HIDE DEF r
<1>6. ASSUME NEW i \in DOMAIN wire'.requests, wire'.requests[i].awaited
      PROVE  i = Len(wire'.requests) /\ wire'.requests[i] = r
  BY <1>3, <1>5, <1>6 DEF NoneAwaited
<1>7. Fits(r)'
  BY <1>4 DEF Fits, r
<1>8. ASSUME NEW i \in DOMAIN wire'.requests, wire'.requests[i].awaited
      PROVE  Fits(wire.requests[i])'
  BY <1>6, <1>7, <1>8 DEF Fits
<1> QED BY <1>2, <1>3, <1>6, <1>8 DEF WireInv

(* The two halves of WireInv.                                              *)
RequestsInv ==
    /\ ~server.alive => wire.requests = <<>>
    /\ \A i \in DOMAIN wire.requests :
          wire.requests[i].awaited => /\ pc = "await" /\ wire.reply = {}
                                      /\ i = Len(wire.requests) /\ Fits(wire.requests[i])

ReplyFits(t) ==
    /\ active # None => t = active
    /\ active = None => Stream # <<>>
    /\ server.alive => Under(t)

RepliesInv ==
    /\ wire.reply # {} => pc = "await"
    /\ \A t \in wire.reply \ {None} : ReplyFits(t)

LEMMA WireHalves == (WireInv <=> RequestsInv /\ RepliesInv) /\ (WireInv' <=> RequestsInv' /\ RepliesInv')
  BY DEF WireInv, RequestsInv, RepliesInv, ReplyFits

(* What the server does leaves what a response says true.                  *)
LEMMA StreamGrows ==
    ASSUME TypeOK, Steady \/ Take \/ Complete, Stream # <<>>
    PROVE  drained' \o wire'.notes # <<>>
<1>0. Stream \in Seq(Notes) /\ server.turns \in Seq(Turn)
  BY StreamTyped, TurnsTyped
<1>1. CASE Steady
  BY <1>1 DEF Steady
<1>2. CASE Take
  <2>1. Begun \in Turn => Stream \o <<Started(Begun)>> # <<>>
    BY <1>0, NoteTyped, Grown
  <2> QED BY <1>2, <2>1, TakeStream
<1>3. CASE Complete
  <2> DEFINE s == Stream \o <<Completed(Head(server.turns))>>
             v == Tail(server.turns)
  <2>1. /\ server.turns # <<>>
        /\ drained' \o wire'.notes = IF v = <<>> THEN s ELSE s \o <<Started(Head(v))>>
    BY <1>3, CompleteStream
  <2>2. s \in Seq(Notes) /\ s # <<>>
    BY <1>0, <2>1, NoteTyped, Grown
  <2>3. CASE v # <<>>
    <3>1. Started(Head(v)) \in Notes
      BY <1>0, <2>1, <2>3, NoteTyped
    <3> HIDE DEF s, v
    <3> QED BY <2>1, <2>2, <2>3, <3>1, Grown
  <2> QED BY <2>1, <2>2, <2>3
<1> QED BY <1>1, <1>2, <1>3

LEMMA RepliesKept ==
    ASSUME TypeOK, TypeOK', PlaceInv, WireInv, Steady \/ Take \/ Complete, pc' = pc,
           wire'.reply = wire.reply
    PROVE  RepliesInv'
<1>1. active' = active /\ server'.alive = server.alive
  BY TakeStream, CompleteStream DEF Steady
<1>2. ASSUME NEW t \in wire.reply \ {None} PROVE ReplyFits(t)'
  <2>1. ReplyFits(t)
    BY WireHalves DEF RepliesInv
  <2>2. server.alive => Under(t)'
    BY <2>1, UnderStep DEF ReplyFits
  <2>3. active = None => (Stream # <<>>)'
    BY <2>1, StreamGrows DEF ReplyFits, Stream
  <2> QED BY <1>1, <2>1, <2>2, <2>3 DEF ReplyFits
<1> QED BY <1>2, WireHalves DEF RepliesInv

(* The server answers the request the worker awaits, or one it no longer   *)
(* awaits.                                                                 *)
LEMMA TakeWire ==
    ASSUME TypeOK, TypeOK', PlaceInv, WireInv, NotesInv, Take
    PROVE  WireInv'
<1> DEFINE r == Head(wire.requests)
           rest == Tail(wire.requests)
<1>1. wire \in Wires /\ server \in Servers /\ wire.requests \in Seq(Requests)
  BY TypeParts DEF Wires
<1>2. server.alive /\ wire.requests # <<>> /\ wire'.requests = rest /\ active' = active /\ pc' = pc
      /\ server'.alive
  BY <1>1, TakeCases, TakeStream DEF worker
<1>3. /\ Len(rest) = Len(wire.requests) - 1 /\ \A i \in 1..Len(rest) : rest[i] = wire.requests[i + 1]
      /\ Len(wire.requests) \in Nat /\ Len(wire.requests) >= 1 /\ r = wire.requests[1]
      /\ DOMAIN rest = 1..Len(rest) /\ DOMAIN wire.requests = 1..Len(wire.requests)
  <2>1. rest \in Seq(Requests) /\ Len(rest) = Len(wire.requests) - 1
        /\ \A i \in 1..Len(rest) : rest[i] = wire.requests[i + 1]
    BY <1>1, <1>2, HeadTailProperties
  <2>2. Len(wire.requests) \in Nat /\ Len(wire.requests) # 0
    BY <1>1, <1>2, EmptySeq
  <2>3. r = wire.requests[1]
    BY <1>1, <1>2
  <2> QED BY <1>1, <2>1, <2>2, <2>3, LenProperties
<1> HIDE DEF rest, r
<1>4. CASE ~r.awaited
  <2>1. wire'.reply = wire.reply
    BY <1>1, <1>4, TakeCases DEF r
  <2>2. RepliesInv'
    BY <1>2, <2>1, RepliesKept
  <2>3. ASSUME NEW i \in DOMAIN rest, rest[i].awaited
        PROVE  pc = "await" /\ wire.reply = {} /\ i = Len(rest) /\ Fits(rest[i])
    <3>1. i + 1 \in DOMAIN wire.requests /\ rest[i] = wire.requests[i + 1]
      BY <1>3
    <3> QED BY <1>3, <2>3, <3>1 DEF WireInv
  <2>5. RequestsInv'
    BY <1>2, <2>1, <2>3 DEF RequestsInv, Fits
  <2> QED BY <2>2, <2>5, WireHalves
<1>5. CASE r.awaited
  <2>1. pc = "await" /\ wire.reply = {} /\ Len(wire.requests) = 1 /\ Fits(r)
    <3>1. 1 \in DOMAIN wire.requests /\ wire.requests[1].awaited
      BY <1>3, <1>5
    <3>2. pc = "await" /\ wire.reply = {} /\ 1 = Len(wire.requests) /\ Fits(wire.requests[1])
      BY <3>1 DEF WireInv
    <3> QED BY <1>3, <3>2
  <2>2. DOMAIN rest = {}
    BY <1>3, <2>1
  <2>3. RequestsInv'
    BY <1>2, <2>2 DEF RequestsInv
  <2>4. ASSUME NEW t \in wire'.reply, t # None PROVE ReplyFits(t)'
    <3>1. CASE wire'.reply = {None}
      BY <2>4, <3>1
    <3>2. CASE /\ r.op = "steer" /\ server.turns # <<>> /\ Head(server.turns) = r.turn
               /\ wire'.reply = {r.turn}
      <4>1. t = r.turn /\ active # None /\ t = active
        BY <2>1, <2>4, <3>2 DEF Fits
      <4>2. 1 \in 1..Len(server.turns) /\ server.turns[1] = t
        BY <3>2, <4>1, TurnsTyped
      <4>3. Under(t)
        BY <4>2, StreamTyped, TurnsTyped, UnderHeld DEF Held
      <4>4. Under(t)'
        BY <4>3, UnderStep
      <4> QED BY <1>2, <4>1, <4>4 DEF ReplyFits
    <3>3. CASE /\ r.op = "start" /\ Begun \in Turn
               /\ server' = [server EXCEPT !.last = Begun, !.turns = Append(server.turns, Begun)]
               /\ wire'.notes = IF server.turns = <<>> THEN wire.notes \o <<Started(Begun)>>
                                ELSE wire.notes
               /\ wire'.reply = {Begun}
      <4>1. t = Begun /\ active = None
        BY <2>1, <2>4, <3>3 DEF Fits
      <4>2. server'.turns = Append(server.turns, Begun)
        BY <1>1, <3>3 DEF Servers
      <4>3. server'.turns # server.turns
        <5>1. Len(server'.turns) = Len(server.turns) + 1 /\ Len(server.turns) \in Nat
          BY <3>3, <4>2, TurnsTyped, AppendProperties, LenProperties
        <5> QED BY <5>1
      <4>4. drained' \o wire'.notes = IF server.turns = <<>> THEN Stream \o <<Started(Begun)>> ELSE Stream
        BY <4>3, TakeStream
      <4>5. Under(t)'
        <5>1. Len(server.turns) + 1 \in 1..Len(server'.turns) /\ server'.turns[Len(server.turns) + 1] = t
          BY <3>3, <4>1, <4>2, TurnsTyped, AppendProperties, LenProperties
        <5> QED BY <5>1, UnderHeldNext DEF Held
      <4>6. drained' \o wire'.notes # <<>>
        <5>1. CASE server.turns = <<>>
          BY <3>3, <4>4, <5>1, StreamTyped, NoteTyped, Grown
        <5>2. CASE server.turns # <<>>
          <6>1. Stream # <<>>
            <7>1. Head(server.turns) # None
              BY <5>2, TurnsTyped, Constants
            <7> QED BY <1>2, <4>1, <5>2, <7>1 DEF NotesInv, Closes
          <6> QED BY <4>4, <5>2, <6>1
        <5> QED BY <5>1, <5>2
      <4> QED BY <1>2, <4>1, <4>5, <4>6 DEF ReplyFits, Stream
    <3> QED BY <1>1, <1>5, <3>1, <3>2, <3>3, TakeCases DEF r
  <2>5. RepliesInv'
    BY <1>2, <2>1, <2>4 DEF RepliesInv
  <2> QED BY <2>3, <2>5, WireHalves
<1> QED BY <1>4, <1>5

(* The requests the worker awaits stay as they are.                        *)
LEMMA RequestsKept ==
    ASSUME WireInv, wire'.requests = wire.requests, wire'.reply = wire.reply, pc' = pc,
           active' = active, server'.alive = server.alive
    PROVE  RequestsInv'
  BY DEF WireInv, RequestsInv, Fits

LEMMA WireStep ==
    TypeOK /\ TypeOK' /\ PlaceInv /\ WireInv /\ NotesInv /\ [Next]_vars => WireInv'
<1> SUFFICES ASSUME TypeOK, TypeOK', PlaceInv, WireInv, NotesInv, [Next]_vars PROVE WireInv'
    OBVIOUS
<1>0. wire \in Wires /\ server \in Servers /\ wire.requests \in Seq(Requests)
  BY TypeParts DEF Wires
<1>1. CASE \/ UNCHANGED vars
           \/ Send \/ Ask \/ Complete \/ RivalFails("none") \/ RivalFails("other")
  <2>1. wire'.requests = wire.requests /\ wire'.reply = wire.reply /\ pc' = pc /\ active' = active
        /\ server'.alive = server.alive
    BY <1>0, <1>1, CompleteStream
    DEF vars, worker, Send, Ask, Complete, RivalFails, Wires, Servers
  <2>2. Steady \/ Complete
    <3>1. CASE UNCHANGED vars
      BY <3>1 DEF vars, worker, Steady, Stream
    <3> QED BY <1>1, <3>1, SteadySteps
  <2> QED BY <2>1, <2>2, RequestsKept, RepliesKept, WireHalves
<1>2. CASE Take
  BY <1>2, TakeWire
<1>3. CASE Exit
  <2>1. wire'.requests = <<>> /\ wire'.reply = wire.reply /\ pc' = pc /\ active' = active
        /\ ~server'.alive /\ drained' = drained /\ wire'.notes = wire.notes
    BY <1>0, <1>3 DEF Exit, NoServer, Wires, worker
  <2>2. RequestsInv'
    BY <2>1 DEF RequestsInv
  <2>3. RepliesInv'
    BY <2>1 DEF WireInv, RepliesInv, ReplyFits, Stream
  <2> QED BY <2>2, <2>3, WireHalves
<1>4. CASE Start \/ Over
  <2>1. wire' = NoWire
    BY <1>4, Blank
  <2> QED BY <2>1, Quiet DEF NoWire, NoneAwaited
<1>5. CASE Bind
  <2>1. pc # "await" /\ active = None /\ pc' = "await" /\ UNCHANGED <<active, server, drained>>
    BY <1>5 DEF Bind, worker, PlaceInv
  <2>2. CASE server.alive
    <3>1. Request("start", 0, None)
      BY <1>5, <2>2 DEF Bind, InitialTurn
    <3> QED BY <2>1, <2>2, <3>1, RequestWire, Constants DEF None
  <2>3. CASE ~server.alive
    <3>1. wire' = wire /\ wire.requests = <<>> /\ wire.reply = {}
      BY <1>5, <2>1, <2>3 DEF Bind, WireInv
    <3> QED BY <2>1, <3>1, Quiet DEF NoneAwaited
  <2> QED BY <2>2, <2>3
<1>6. CASE Route
  <2>1. pc # "await" /\ UNCHANGED <<active, server, drained>> /\ next \in Handoff /\ active \in 0..MaxTurn
    BY <1>6, Constants DEF Route, PlaceInv, TypeOK, Handoff
  <2>2. CASE server.alive
    <3>1. CASE active # None
      <4>1. pc' = "await" /\ Request("steer", next, active)
        BY <1>6, <2>2, <3>1 DEF Route
      <4> QED BY <2>1, <2>2, <3>1, <4>1, RequestWire
    <3>2. CASE active = None
      <4>1. pc' = "await" /\ Request("start", next, None)
        BY <1>6, <2>2, <3>2 DEF Route
      <4> QED BY <2>1, <2>2, <3>2, <4>1, RequestWire, Constants DEF None
    <3> QED BY <3>1, <3>2
  <2>3. CASE ~server.alive
    <3>1. wire' = wire /\ wire.requests = <<>> /\ wire.reply = {}
      BY <1>6, <2>1, <2>3 DEF Route, WireInv
    <3> QED BY <2>1, <3>1, Quiet DEF NoneAwaited
  <2> QED BY <2>2, <2>3
<1>7. CASE Activate
  <2>1. Settled("reply") /\ wire.reply # {} /\ server' = server
    BY <1>7 DEF Activate
  <2> QED BY <2>1, SettledWire, Quiet DEF WireInv
<1>8. ASSUME NEW how \in {"reply", "timeout", "exit"}, Unrouted(how) PROVE WireInv'
  <2>1. Settled(how) /\ Unanswered(how) /\ server' = server
    BY <1>8 DEF Unrouted
  <2>2. (how = "reply" => wire.reply # {}) /\ (how # "reply" => wire.reply = {})
        /\ (how = "exit" => ~server.alive)
    BY <2>1 DEF Unanswered
  <2> QED BY <2>1, <2>2, SettledWire, Quiet DEF WireInv
<1>9. CASE \/ Allocate \/ BootFails \/ StopAsked \/ Drain \/ Handle \/ Poll \/ Ack
           \/ Fail /\ ~Over
  BY <1>9, QuietSteps
<1>10. CASE Stop \/ Kill \/ Fail
  BY <1>4, <1>9, <1>10 DEF Stop, Kill
<1> QED
  BY <1>1, <1>2, <1>3, <1>4, <1>5, <1>6, <1>7, <1>8, <1>9, <1>10 DEF Next, Proceed

-----------------------------------------------------------------------------
(* What becomes of the messages.                                           *)

LEMMA AccountKept ==
    ASSUME AccountInv, UNCHANGED <<told, answered, lost, corrs, cursor, next>>,
           pc' # "none" => pc # "none"
    PROVE  AccountInv'
  BY DEF AccountInv, NothingDropped, Pending, Frontier

(* A message is routed: it was untouched, since the worker comes to the    *)
(* messages in order.                                                      *)
LEMMA Untouched ==
    ASSUME TypeOK, PlaceInv, AccountInv, pc = "await", next # 0
    PROVE  /\ next \in Message /\ told[next] = 0 /\ next \notin Pending
           /\ Frontier = next - 1 /\ cursor < next /\ next + 1 # 0
           /\ \A m \in Message : m <= next - 1 => m <= next
           /\ \A m \in 1..next : m \in 1..(next - 1) \/ m = next
<1>1. /\ sent \in 0..MaxMessage /\ cursor \in 0..sent /\ staged \in 0..sent
      /\ next \in 0..(MaxMessage + 1) /\ MaxMessage \in Nat /\ told \in [Handoff -> 0..3]
  BY Constants DEF TypeOK
<1>2. cursor < next /\ next <= staged
  BY DEF PlaceInv
<1>3. next \in Message /\ Frontier = next - 1 /\ ~(next <= next - 1)
  BY <1>1, <1>2 DEF Message, Frontier
<1>4. told[next] \in 0..3
  BY <1>1, <1>3, Constants
<1>5. ~(told[next] > 0) /\ next \notin Pending
  BY <1>3 DEF AccountInv
<1> QED BY <1>1, <1>2, <1>3, <1>4, <1>5 DEF Message

(* A report answers messages that were untouched so far, or pending and    *)
(* are so no more.                                                         *)
LEMMA ReportTold ==
    ASSUME TypeOK, NEW handoffs \in SUBSET Handoff, Report(handoffs),
           \A m \in Message : m \in handoffs => told[m] = 0
    PROVE  /\ \A m \in Message : told'[m] = IF m \in handoffs THEN 1 ELSE told[m]
           /\ answered' = answered \union handoffs
<1>1. told \in [Handoff -> 0..3] /\ \A m \in Message : m \in Handoff
  BY Constants DEF TypeOK
<1> QED BY <1>1 DEF Report

LEMMA AccountStep ==
    TypeOK /\ PlaceInv /\ AccountInv /\ [Next]_vars => AccountInv'
<1> SUFFICES ASSUME TypeOK, PlaceInv, AccountInv, [Next]_vars PROVE AccountInv'
    OBVIOUS
<1>0. /\ sent \in 0..MaxMessage /\ cursor \in 0..sent /\ staged \in 0..sent
      /\ next \in 0..(MaxMessage + 1) /\ MaxMessage \in Nat /\ told \in [Handoff -> 0..3]
      /\ corrs \in [Turn -> SUBSET Handoff] /\ \A m \in Message : m \in Handoff /\ m \in Nat
  BY Constants DEF TypeOK, Message
<1>1. CASE \/ UNCHANGED vars
           \/ Send \/ Take \/ Complete \/ Ask \/ Exit \/ RivalFails("none") \/ RivalFails("other")
           \/ Allocate \/ Bind \/ BootFails \/ StopAsked \/ Drain \/ Route
  <2>1. UNCHANGED <<told, answered, lost, corrs, cursor, next>> /\ (pc' # "none" => pc # "none")
    BY <1>1 DEF vars, bus, worker, record, Send, Take, Complete, Ask, Exit, RivalFails,
                Allocate, Bind, BootFails, StopAsked, Drain, Route, Joined
  <2> QED BY <2>1, AccountKept
<1>2. CASE Start
  <2>1. /\ \A t \in Turn : corrs[t] = {}
        /\ \A t \in Turn : corrs'[t] = {}
        /\ \A m \in Message : told'[m] = 0
        /\ next' = 0 /\ UNCHANGED <<cursor, answered, lost>>
    BY <1>0, <1>2 DEF Start, PlaceInv, NoTurns, bus
  <2>2. Pending = {} /\ Pending' = {}
    BY <2>1 DEF Pending
  <2>3. Frontier' = cursor
    BY <2>1 DEF Frontier
  <2>4. \A m \in 1..cursor : m \in answered' \union Pending' \union lost'
    BY <2>1, <2>2 DEF AccountInv, NothingDropped
  <2> QED BY <2>1, <2>2, <2>3, <2>4 DEF AccountInv, NothingDropped
<1>3. ASSUME Over, UNCHANGED <<told, answered>> PROVE AccountInv'
  <2>1. /\ \A t \in Turn : corrs'[t] = {}
        /\ pc' = "none" /\ lost' = lost \union Pending /\ cursor' = cursor
    BY <1>3 DEF Over, NoTurns, bus
  <2>2. Pending' = {}
    BY <2>1 DEF Pending
  <2> QED BY <1>3, <2>1, <2>2 DEF AccountInv, NothingDropped
<1>4. CASE Stop \/ Kill \/ Fail
  <2>1. CASE Over /\ UNCHANGED <<told, answered>>
    BY <1>3, <2>1
  <2>2. CASE Report({0}) /\ UNCHANGED <<bus, worker, lost>> /\ pc = "failing"
    <3>1. \A m \in Message : told'[m] = told[m]
      BY <1>0, <2>2, ReportTold, Constants DEF Message
    <3>2. answered' = answered \union {0} /\ UNCHANGED <<lost, corrs, cursor, next>>
      BY <2>2 DEF Report, bus, worker
    <3>3. Pending' = Pending /\ Frontier' = Frontier
      BY <3>2 DEF Pending, Frontier
    <3> QED BY <2>2, <3>1, <3>2, <3>3 DEF AccountInv, NothingDropped
  <2> QED BY <1>4, <2>1, <2>2 DEF Stop, Kill, Fail
<1>5. CASE Activate
  <2>1. PICK t \in Turn : corrs' = [corrs EXCEPT ![t] = @ \union {next}]
    BY <1>5 DEF Activate
  <2>2. /\ UNCHANGED <<told, answered, lost, cursor>>
        /\ next' = IF next = 0 THEN 0 ELSE next + 1
        /\ pc = "await"
    BY <1>0, <1>5 DEF Activate, record, bus
  <2>3. Pending' = Pending \union {next}
    <3>1. corrs'[t] = corrs[t] \union {next} /\ \A u \in Turn : u # t => corrs'[u] = corrs[u]
      BY <1>0, <2>1
    <3> QED BY <3>1 DEF Pending
  <2>4. \A u \in Turn : \A m \in Message : m \in corrs'[u] => m \in corrs[u] \/ (m = next /\ u = t)
    BY <1>0, <2>1
  <2>5. CASE next = 0
    <3>1. Frontier' = Frontier /\ next \notin Message
      BY <2>2, <2>5 DEF Frontier, Message
    <3> QED BY <2>2, <2>3, <2>4, <3>1 DEF AccountInv, NothingDropped
  <2>6. CASE next # 0
    <3>1. /\ next \in Message /\ told[next] = 0 /\ next \notin Pending
          /\ Frontier = next - 1 /\ cursor < next /\ next + 1 # 0
      BY <2>2, <2>6, Untouched
    <3>2. Frontier' = next
      BY <1>0, <2>2, <2>6, <3>1 DEF Frontier
    <3>3. \A u \in Turn : next \notin corrs[u]
      BY <3>1 DEF Pending
    <3>4. \A m \in Message : told'[m] <= 1 /\ (m \in Pending' => told'[m] = 0)
      BY <2>2, <2>3, <3>1 DEF AccountInv
    <3>5. \A v, u \in Turn : \A m \in Message : m \in corrs'[v] /\ m \in corrs'[u] => v = u
      BY <2>4, <3>3 DEF AccountInv
    <3>6. \A m \in Message : told'[m] > 0 \/ m \in Pending' => m <= next
      BY <1>0, <2>2, <2>3, <3>1 DEF AccountInv
    <3>7. \A m \in 1..next : m \in answered' \union Pending' \union lost'
      BY <1>0, <2>2, <2>3, <3>1 DEF AccountInv
    <3>8. NothingDropped'
      BY <2>2, <2>3 DEF AccountInv, NothingDropped
    <3> QED BY <3>2, <3>4, <3>5, <3>6, <3>7, <3>8 DEF AccountInv
  <2> QED BY <2>5, <2>6
<1>6. ASSUME NEW how \in {"reply", "timeout", "exit"}, Unrouted(how) PROVE AccountInv'
  <2>1. pc = "await" /\ UNCHANGED <<corrs, cursor, lost>>
    BY <1>6 DEF Unrouted, bus, record
  <2>2. CASE next = 0
    BY <1>6, <2>1, <2>2, AccountKept DEF Unrouted, record
  <2>3. CASE next # 0
    <3>1. /\ next \in Message /\ told[next] = 0 /\ next \notin Pending
          /\ Frontier = next - 1 /\ cursor < next /\ next + 1 # 0
      BY <2>1, <2>3, Untouched
    <3>2. /\ \A m \in Message : told'[m] = IF m = next THEN 1 ELSE told[m]
          /\ answered' = answered \union {next} /\ next' = next + 1
      <4>1. Report({next}) /\ next' = next + 1
        BY <1>6, <2>3 DEF Unrouted
      <4>2. {next} \in SUBSET Handoff
        BY <1>0, <3>1
      <4> QED BY <3>1, <4>1, <4>2, ReportTold
    <3>3. Frontier' = next /\ Pending' = Pending
      BY <1>0, <2>1, <3>1, <3>2 DEF Frontier, Pending
    <3>4. \A m \in Message : told'[m] <= 1 /\ (m \in Pending' => told'[m] = 0)
      BY <3>1, <3>2, <3>3 DEF AccountInv
    <3>5. \A m \in Message : told'[m] > 0 \/ m \in Pending' => m <= next
      BY <1>0, <2>1, <3>1, <3>2, <3>3 DEF AccountInv
    <3>6. \A m \in 1..next : m \in answered' \union Pending' \union lost'
      BY <1>0, <2>1, <3>1, <3>2, <3>3 DEF AccountInv
    <3>7. NothingDropped'
      BY <2>1, <3>2, <3>3 DEF AccountInv, NothingDropped
    <3> QED BY <2>1, <3>3, <3>4, <3>5, <3>6, <3>7 DEF AccountInv
  <2> QED BY <2>2, <2>3
<1>7. CASE Handle
  <2> DEFINE n == Head(drained)
  <2>1. n \in Notes /\ UNCHANGED <<pc, cursor, next, lost>>
    <3>1. n \in Notes
      BY <1>7, StreamTyped DEF Handle
    <3>2. UNCHANGED <<pc, cursor, next, lost>>
      BY <1>7 DEF Handle, bus, record
    <3> QED BY <3>1, <3>2
  <2>2. CASE n.what = "started"
    <3>1. UNCHANGED <<told, answered, corrs>>
      BY <1>7, <2>2 DEF Handle, record
    <3> QED BY <2>1, <3>1, AccountKept
  <2>3. CASE n.what = "completed"
    <3> DEFINE h == corrs[n.turn]
    <3>1. n.turn \in Turn /\ h \in SUBSET Handoff /\ h \subseteq Pending
      BY <1>0, <2>1, NoteForms DEF Pending
    <3>2. Report(h) /\ corrs' = [corrs EXCEPT ![n.turn] = {}]
      BY <1>7, <2>3 DEF Handle
    <3>3. /\ \A m \in Message : told'[m] = IF m \in h THEN 1 ELSE told[m]
          /\ answered' = answered \union h
      <4>1. \A m \in Message : m \in h => told[m] = 0
        BY <3>1 DEF AccountInv
      <4> QED BY <3>1, <3>2, <4>1, ReportTold
    <3>4. \A u \in Turn : corrs'[u] = IF u = n.turn THEN {} ELSE corrs[u]
      BY <1>0, <3>2
    <3>5. Pending' \subseteq Pending /\ \A m \in Message : m \in Pending' => m \notin h
      <4>1. ASSUME NEW m \in Pending' PROVE m \in Pending /\ (m \in Message => m \notin h)
        <5>1. PICK u \in Turn : m \in corrs'[u]
          BY DEF Pending
        <5>2. u # n.turn /\ m \in corrs[u]
          BY <3>4, <5>1
        <5> QED BY <3>1, <5>2 DEF AccountInv, Pending
      <4> QED BY <4>1
    <3>6. \A m : m \in Pending => m \in Pending' \/ m \in h
      <4>1. ASSUME NEW m \in Pending, m \notin h PROVE m \in Pending'
        <5>1. PICK u \in Turn : m \in corrs[u]
          BY DEF Pending
        <5>2. m \in corrs'[u]
          BY <3>4, <4>1, <5>1
        <5> QED BY <5>2 DEF Pending
      <4> QED BY <4>1
    <3>7. Frontier' = Frontier
      BY <2>1 DEF Frontier
    <3> HIDE DEF h
    <3>8. \A m \in Message : told'[m] <= 1 /\ (m \in Pending' => told'[m] = 0)
      BY <3>3, <3>5 DEF AccountInv
    <3>9. \A v, u \in Turn : \A m \in Message : m \in corrs'[v] /\ m \in corrs'[u] => v = u
      BY <3>4 DEF AccountInv
    <3>10. pc # "none" => \A m \in Message : told'[m] > 0 \/ m \in Pending' => m <= Frontier
      BY <3>1, <3>3, <3>5 DEF AccountInv
    <3>11. /\ pc # "none" => \A m \in 1..Frontier : m \in answered' \union Pending' \union lost
           /\ \A m \in 1..cursor : m \in answered' \union Pending' \union lost
      BY <3>3, <3>6 DEF AccountInv, NothingDropped
    <3> QED BY <2>1, <3>7, <3>8, <3>9, <3>10, <3>11 DEF AccountInv, NothingDropped
  <2> QED BY <2>1, <2>2, <2>3, NoteForms
<1>8. CASE Poll
  <2>1. UNCHANGED <<told, answered, lost, corrs, cursor>> /\ pc = "check"
        /\ (next' = cursor + 1 \/ next' = next)
    BY <1>8 DEF Poll, bus, worker, record
  <2>2. Pending' = Pending /\ Frontier' = Frontier
    BY <1>0, <2>1 DEF Pending, Frontier, PlaceInv
  <2> QED BY <2>1, <2>2 DEF AccountInv, NothingDropped
<1>9. CASE Ack
  <2>1. UNCHANGED <<told, answered, lost, corrs>> /\ pc = "poll" /\ cursor' = next - 1 /\ next' = 0
        /\ next # 0
    BY <1>0, <1>9 DEF Ack, Acked, record, PlaceInv
  <2>2. Pending' = Pending /\ Frontier' = Frontier /\ cursor' = Frontier
    BY <2>1 DEF Pending, Frontier
  <2> QED BY <2>1, <2>2 DEF AccountInv, NothingDropped
<1> QED
  BY <1>1, <1>2, <1>4, <1>5, <1>6, <1>7, <1>8, <1>9 DEF Next, Proceed

-----------------------------------------------------------------------------
(* All of it.                                                              *)

LEMMA InvInit == Init => Inv
<1> SUFFICES ASSUME Init PROVE Inv
    OBVIOUS
<1>1. TypeOK
  BY TypeInit
<1>2. PlaceInv
  BY DEF Init, PlaceInv
<1>3. drained = <<>> /\ wire = NoWire /\ server = NoServer(0) /\ active = None
  BY DEF Init
<1>4. WireInv
  BY <1>3 DEF WireInv, NoWire
<1>5. NotesInv
  <2>1. Stream = <<>> /\ ~server.alive
    BY <1>3 DEF Stream, NoWire, NoServer
  <2> QED BY <2>1, EmptyStream DEF NotesInv
<1>6. BeliefBacked /\ EndpointTrue
  BY <1>3 DEF Init, BeliefBacked, EndpointTrue, Serving
<1>7. AccountInv
  <2>1. /\ \A t \in Turn : corrs[t] = {}
        /\ \A m \in Message : told[m] = 0
        /\ cursor = 0 /\ pc = "none"
    BY Constants DEF Init, NoTurns
  <2>2. Pending = {}
    BY <2>1 DEF Pending
  <2> QED BY <2>1, <2>2 DEF AccountInv, NothingDropped
<1> QED BY <1>1, <1>2, <1>4, <1>5, <1>6, <1>7 DEF Inv

LEMMA InvStep == Inv /\ [Next]_vars => Inv'
  BY TypeStep, PlaceStep, WireStep, NotesStep, AccountStep, BeliefStep, EndpointStep DEF Inv

(* The inductive invariant holds in every reachable state of the worker.   *)
THEOREM Invariant == Spec => []Inv
  BY InvInit, InvStep, PTL DEF Spec

(* Every variable keeps its type: among others, no turn number, no cursor  *)
(* and no handoff leaves its range, however often processes die.           *)
THEOREM TypeCorrect == Spec => []TypeOK
<1>1. Inv => TypeOK
  BY DEF Inv
<1> QED BY <1>1, Invariant, PTL

(* The turn the worker believes to be active is one the server has, or one *)
(* whose completion it has still to read (_activate_turn and               *)
(* _handle_notification).                                                  *)
THEOREM BeliefIsBacked == Spec => []BeliefBacked
<1>1. Inv => BeliefBacked
  BY DEF Inv
<1> QED BY <1>1, Invariant, PTL

(* One process reports a handoff at most once, as failed to route or with  *)
(* the turn it joined.                                                     *)
THEOREM AnsweredAtMostOnce == Spec => []AnsweredOnce
<1>1. Inv => AnsweredOnce
  BY DEF Inv, AccountInv, AnsweredOnce
<1> QED BY <1>1, Invariant, PTL

(* The cursor passes no message that was not answered, does not wait for   *)
(* its turn, and was not lost with a process that had routed it.           *)
THEOREM NothingIsDropped == Spec => []NothingDropped
<1>1. Inv => NothingDropped
  BY DEF Inv, AccountInv
<1> QED BY <1>1, Invariant, PTL

(* The endpoint row tells what the worker believes, whatever a second      *)
(* process under the name writes (upsert_endpoint).                        *)
THEOREM EndpointIsTrue == Spec => []EndpointTrue
<1>1. Inv => EndpointTrue
  BY DEF Inv
<1> QED BY <1>1, Invariant, PTL
=============================================================================
