---------------------------- MODULE CodexWorker ----------------------------
(***************************************************************************)
(* One Codex worker name: the worker process (CodexWorker.run), its        *)
(* app-server subprocess with the JSONL wire between them, the cursor and  *)
(* the endpoint row it keeps on the bus, and the processes that follow it  *)
(* after a crash.  Direct messages are numbered 1..sent; handoff 0 is the  *)
(* initial task.  The reader thread adds no delay of its own: a line it    *)
(* has not read yet is a line the server has not written yet.              *)
(***************************************************************************)
EXTENDS Naturals, Sequences

CONSTANTS
    MaxMessage,  \* bound on the direct messages
    MaxTurn,     \* bound on the turns the server starts
    MaxLife      \* bound on the processes run under the name

ASSUME WorkerAssumption == MaxMessage \in Nat /\ MaxTurn \in Nat /\ MaxLife \in Nat

Message == 1..MaxMessage
Handoff == 0..MaxMessage
Turn    == 1..MaxTurn
None    == 0

VARIABLES
    sent, cursor,        \* bus: messages in the log, passed by the cursor
    endpoint,            \* bus: the row of the name, state and native key
    pc, life, thread,    \* worker: where it is, which process, its thread
    staged, next,        \* worker: staged maxid, handoff being routed
    active, corrs,       \* worker: believed active turn, correlations by turn
    drained,             \* worker: notifications taken from the queue
    server, wire,        \* app-server, and what is under way to and from it
    told, answered, lost \* history

bus    == <<sent, cursor>>
worker == <<life, thread, staged, next, active, corrs, drained>>
record == <<told, answered, lost>>
vars   == <<bus, endpoint, pc, worker, server, wire, record>>

Requests == [op: {"start", "steer"}, about: Handoff, turn: 0..MaxTurn, awaited: BOOLEAN]
Notes    == [what: {"started", "completed"}, turn: Turn]

\* native key of the row: none, this worker's thread, another worker's thread
Keys == {"none", "own", "other"}

TypeOK ==
    /\ sent \in 0..MaxMessage /\ cursor \in 0..sent
    /\ endpoint \in [state: {"absent", "starting", "idle", "active", "failed", "stopped"},
                     key: Keys]
    /\ pc \in {"none", "boot", "named", "await", "top", "check", "poll", "route",
               "failing", "stopping"}
    /\ thread \in {"none", "own"} /\ life \in 0..MaxLife /\ staged \in 0..sent /\ next \in 0..(MaxMessage + 1)
    /\ active \in 0..MaxTurn /\ corrs \in [Turn -> SUBSET Handoff]
    /\ drained \in Seq(Notes)
    /\ server \in [alive: BOOLEAN, last: 0..MaxTurn, turns: Seq(Turn),
                  ask: {"may", "waits", "denied"}]
    /\ wire \in [requests: Seq(Requests), reply: SUBSET (0..MaxTurn), notes: Seq(Notes)]
    /\ told \in [Handoff -> 0..3] /\ answered \subseteq Handoff /\ lost \subseteq Handoff

NoTurns  == [t \in Turn |-> {}]
NoWire   == [requests |-> <<>>, reply |-> {}, notes |-> <<>>]
NoServer(last) == [alive |-> FALSE, last |-> last, turns |-> <<>>, ask |-> "may"]

Init ==
    /\ sent = 0 /\ cursor = 0 /\ endpoint = [state |-> "absent", key |-> "none"]
    /\ pc = "none" /\ life = 0 /\ thread = "none" /\ staged = 0 /\ next = 0 /\ active = None
    /\ corrs = NoTurns /\ drained = <<>> /\ server = NoServer(0) /\ wire = NoWire
    /\ told = [h \in Handoff |-> 0] /\ answered = {} /\ lost = {}

Pending == UNION {corrs[t] : t \in Turn}

Send ==
    /\ sent < MaxMessage /\ sent' = sent + 1
    /\ UNCHANGED <<cursor, endpoint, pc, worker, server, wire, record>>

-----------------------------------------------------------------------------
(* The endpoint row.  upsert_endpoint refuses a caller without the row's   *)
(* native key, unless the identity binding gives the name to its thread,   *)
(* and raises ValueError, which run does not catch.                        *)

MayWriteAny(key) == TRUE                                  \* seeded fault
MayWrite(key)    == endpoint.key \in {"none", key}

SetState(state) == endpoint' = [endpoint EXCEPT !.state = state]

(* A report: one message to the handoff's sender per report.               *)
Report(handoffs) ==
    /\ told' = [h \in Handoff |-> IF h \in handoffs /\ told[h] < 3 THEN told[h] + 1 ELSE told[h]]
    /\ answered' = answered \union handoffs

-----------------------------------------------------------------------------
(* The server, as the worker uses it: it takes requests in order, answers  *)
(* a steer of the running turn and refuses any other, and answers a start  *)
(* with a new turn, which waits if one is running, or refuses it.  A       *)
(* running turn may ask once for an approval, and waits until it is denied. *)

Runs(t)          == IF server.turns = <<>> THEN FALSE ELSE t = Head(server.turns)
Answer(r, reply) == IF r.awaited THEN {reply} ELSE wire.reply
Told(turns)      == IF turns = <<>> THEN <<>> ELSE <<[what |-> "started", turn |-> Head(turns)]>>

Take ==
    /\ server.alive /\ wire.requests # <<>>
    /\ LET r    == Head(wire.requests)
           new  == server.last + 1
           rest == Tail(wire.requests)
           Refuse == /\ wire' = [wire EXCEPT !.requests = rest, !.reply = Answer(r, None)]
                     /\ UNCHANGED server
       IN  \/ /\ r.op = "start" /\ server.last < MaxTurn
              /\ server' = [server EXCEPT !.last = new, !.turns = Append(@, new)]
              /\ wire' = [requests |-> rest, reply |-> Answer(r, new),
                          notes |-> wire.notes \o
                                    (IF server.turns = <<>> THEN Told(<<new>>) ELSE <<>>)]
           \/ /\ r.op = "start" /\ (server.turns # <<>> \/ server.last = MaxTurn)
              /\ Refuse
           \/ /\ r.op = "steer" /\ Runs(r.turn)
              /\ wire' = [wire EXCEPT !.requests = rest, !.reply = Answer(r, r.turn)]
              /\ UNCHANGED server
           \/ /\ r.op = "steer" /\ ~Runs(r.turn)
              /\ Refuse
    /\ UNCHANGED <<bus, endpoint, pc, worker, record>>

Complete ==
    /\ server.alive /\ server.turns # <<>> /\ server.ask # "waits"
    /\ server' = [server EXCEPT !.turns = Tail(@), !.ask = "may"]
    /\ wire' = [wire EXCEPT !.notes = @ \o
                   <<[what |-> "completed", turn |-> Head(server.turns)]>>
                   \o Told(Tail(server.turns))]
    /\ UNCHANGED <<bus, endpoint, pc, worker, record>>

Ask ==
    /\ server.alive /\ server.turns # <<>> /\ server.ask = "may"
    /\ server' = [server EXCEPT !.ask = "waits"]
    /\ UNCHANGED <<bus, endpoint, pc, worker, wire, record>>

(* The process exits; what it has written stays readable.                  *)
Exit ==
    /\ server.alive /\ server' = NoServer(server.last)
    /\ wire' = [wire EXCEPT !.requests = <<>>]
    /\ UNCHANGED <<bus, endpoint, pc, worker, record>>

-----------------------------------------------------------------------------
(* start: register_starting, initialize and thread/start or thread/resume, *)
(* bind_thread, and the initial turn/start.                                *)

Request(op, about, turn) ==
    wire' = [wire EXCEPT !.requests =
                Append(@, [op |-> op, about |-> about, turn |-> turn, awaited |-> TRUE])]

Registered  == IF endpoint.state = "absent" THEN [endpoint EXCEPT !.state = "starting"]
               ELSE endpoint
InitialTurn == Request("start", 0, None)

Start ==
    /\ pc = "none" /\ life < MaxLife
    /\ pc' = "boot" /\ life' = life + 1 /\ thread' = "none" /\ staged' = cursor /\ next' = 0
    /\ active' = None /\ corrs' = NoTurns /\ drained' = <<>>
    /\ server' = [NoServer(server.last) EXCEPT !.alive = TRUE] /\ wire' = NoWire
    /\ endpoint' = Registered
    /\ told' = [h \in Handoff |-> 0] /\ UNCHANGED <<bus, answered, lost>>

(* The server answers and _alloc_name binds the thread to the name ...     *)
Allocate ==
    /\ pc = "boot" /\ server.alive /\ pc' = "named" /\ thread' = "own"
    /\ UNCHANGED <<bus, endpoint, life, staged, next, active, corrs, drained, server,
                   wire, record>>

(* ... which authorizes the thread to take the endpoint over.              *)
Bind ==
    /\ pc = "named" /\ pc' = "await"
    /\ endpoint' = [state |-> "idle", key |-> "own"]
    /\ IF server.alive THEN InitialTurn ELSE UNCHANGED wire
    /\ UNCHANGED <<bus, worker, server, record>>

BootFails ==
    /\ pc = "boot" /\ pc' = "failing"
    /\ UNCHANGED <<bus, endpoint, worker, server, wire, record>>

-----------------------------------------------------------------------------
(* request: it ends with a response, a timeout or the server's exit.  A    *)
(* late response is never read.                                            *)

Awaiting(requests)  == requests                              \* seeded fault
Abandoned(requests) == [i \in DOMAIN requests |-> [requests[i] EXCEPT !.awaited = FALSE]]

Settled(how) ==
    wire' = CASE how = "reply"   -> [wire EXCEPT !.reply = {}]
              [] how = "timeout" -> [wire EXCEPT !.requests = Abandoned(@)]
              [] how = "exit"    -> wire

(* _activate_turn, then the next message of the batch, or the main loop.   *)
Onward == IF next = 0 THEN "top" ELSE "poll"

Activate ==
    /\ pc = "await" /\ \E t \in Turn :
          /\ t \in wire.reply
          /\ active' = t /\ corrs' = [corrs EXCEPT ![t] = @ \union {next}]
    /\ SetState("active") /\ Settled("reply") /\ pc' = Onward
    /\ next' = next + (IF next = 0 THEN 0 ELSE 1)
    /\ UNCHANGED <<bus, life, thread, staged, drained, server, record>>

Unanswered(how) ==
    \/ how = "reply"   /\ None \in wire.reply
    \/ how = "timeout" /\ wire.reply = {} /\ server.alive
    \/ how = "exit"    /\ wire.reply = {} /\ ~server.alive

(* A handoff that cannot be routed is reported as failed; the initial one  *)
(* ends the worker.                                                        *)
Unrouted(how) ==
    /\ pc = "await" /\ Unanswered(how) /\ Settled(how)
    /\ IF next = 0 THEN pc' = "failing" /\ UNCHANGED <<next, record>>
       ELSE /\ Report({next}) /\ next' = next + 1 /\ pc' = "poll"
            /\ UNCHANGED lost
    /\ UNCHANGED <<bus, endpoint, life, thread, staged, active, corrs, drained, server>>

-----------------------------------------------------------------------------
(* run: pump, test the server, poll, and for every staged message pump     *)
(* again and route; then acknowledge the batch.                            *)

DenyNone(ask) == ask                                         \* seeded fault
Deny(ask)     == IF ask = "waits" THEN "denied" ELSE ask

Drain ==
    /\ \/ pc = "top" /\ pc' = "check"
       \/ pc = "poll" /\ next <= staged /\ pc' = "route"
    /\ drained' = wire.notes /\ wire' = [wire EXCEPT !.notes = <<>>]
    /\ server' = [server EXCEPT !.ask = Deny(@)]
    /\ UNCHANGED <<bus, endpoint, life, thread, staged, next, active, corrs, record>>

Handle ==
    /\ drained # <<>> /\ drained' = Tail(drained)
    /\ LET note == Head(drained)
       IN  \/ /\ note.what = "started"
              /\ active' = note.turn /\ SetState("active")
              /\ UNCHANGED <<corrs, record>>
           \/ /\ note.what = "completed"
              /\ Report(corrs[note.turn]) /\ corrs' = [corrs EXCEPT ![note.turn] = {}]
              /\ active' = IF active = note.turn THEN None ELSE active
              /\ SetState("idle") /\ UNCHANGED lost
    /\ UNCHANGED <<bus, pc, life, thread, staged, next, server, wire>>

Poll ==
    /\ pc = "check" /\ drained = <<>>
    /\ \/ /\ server.alive /\ pc' = "poll" /\ staged' = sent /\ next' = cursor + 1
          /\ UNCHANGED <<life, thread, active, corrs, drained>>
       \/ ~server.alive /\ pc' = "failing" /\ UNCHANGED worker
    /\ UNCHANGED <<bus, endpoint, server, wire, record>>

(* A handoff is correlated with a turn only when the server accepts it.    *)
JoinedEarly == IF active = None THEN corrs                   \* seeded fault
               ELSE [corrs EXCEPT ![active] = @ \union {next}]
Joined      == corrs

(* _route_message: steer the turn the worker believes to be active, or     *)
(* start one.  A write to a server that exited may raise OSError, which    *)
(* ends the worker, or get lost in the pipe.                               *)
Route ==
    /\ pc = "route" /\ drained = <<>>
    /\ \/ /\ server.alive /\ pc' = "await"
          /\ IF active # None THEN Request("steer", next, active)
                              ELSE Request("start", next, None)
       \/ ~server.alive /\ pc' \in {"await", "failing"} /\ UNCHANGED wire
    /\ corrs' = Joined
    /\ UNCHANGED <<bus, endpoint, life, thread, staged, next, active, drained, server,
                   record>>

AckedHead == sent                                           \* seeded fault
Acked == staged

Ack ==
    /\ pc = "poll" /\ next > staged /\ pc' = "top" /\ cursor' = Acked /\ next' = 0
    /\ UNCHANGED <<sent, endpoint, life, thread, staged, active, corrs, drained, server, wire, record>>

-----------------------------------------------------------------------------
(* _report_unexpected_failure, stop, and death.                            *)

Over ==
    /\ pc' = "none" /\ lost' = lost \union Pending
    /\ corrs' = NoTurns /\ active' = None /\ drained' = <<>>
    /\ server' = NoServer(server.last) /\ wire' = NoWire
    /\ UNCHANGED <<bus, life, thread, staged, next>>

Fail ==
    /\ pc = "failing"
    /\ \/ /\ MayWrite(thread) /\ SetState("failed") /\ Report({0}) /\ pc' = "stopping"
          /\ UNCHANGED <<bus, worker, server, wire, lost>>
       \/ /\ ~MayWrite(thread) /\ Over /\ UNCHANGED <<endpoint, told, answered>>

StopAsked ==
    /\ pc = "top" /\ pc' = "stopping"
    /\ UNCHANGED <<bus, endpoint, worker, server, wire, record>>

Stop ==
    /\ pc = "stopping" /\ Over
    /\ endpoint' = [endpoint EXCEPT !.state = IF @ = "failed" THEN "failed" ELSE "stopped"]
    /\ UNCHANGED <<told, answered>>

Kill ==
    /\ pc # "none" /\ Over /\ UNCHANGED <<endpoint, told, answered>>

(* A second process under the same name comes no further than bind_thread, *)
(* which gives it another name.  It fails with the native key it has by    *)
(* then: none, or that of its own thread.                                  *)
RivalFails(key) ==
    /\ pc # "none" /\ key = "other" => pc # "boot"
    /\ MayWrite(key)
    /\ endpoint' = [state |-> "failed", key |-> key]
    /\ UNCHANGED <<bus, pc, worker, server, wire, record>>

Server == Take \/ Complete
Proceed ==
    \/ Allocate \/ Bind \/ (~server.alive /\ BootFails)
    \/ Activate \/ Unrouted("reply") \/ Unrouted("exit")
    \/ Drain \/ Handle \/ Poll \/ Route \/ Ack \/ Fail \/ Stop

Next ==
    \/ Send
    \/ Take \/ Complete \/ Ask \/ Exit
    \/ Start \/ Proceed
    \/ BootFails \/ Unrouted("timeout") \/ StopAsked \/ Kill
    \/ RivalFails("none") \/ RivalFails("other")

Spec == Init /\ [][Next]_vars /\ WF_vars(Proceed) /\ WF_vars(Take) /\ WF_vars(Complete)

-----------------------------------------------------------------------------
(* The turn the worker steers is one the server still has, or one whose    *)
(* completion the worker has yet to read: no timeout or late response      *)
(* leaves it steering a turn that is over, which no notification would     *)
(* correct.                                                                *)
Under(turn) ==
    \/ turn \in {server.turns[i] : i \in DOMAIN server.turns}
    \/ \E notes \in {wire.notes, drained} :
          \E i \in DOMAIN notes : notes[i] = [what |-> "completed", turn |-> turn]

BeliefBacked == active # None /\ server.alive => Under(active)

(* One process answers a handoff at most once: it is reported as failed to *)
(* route, or with the turn it joined, never both.                          *)
AnsweredOnce == \A m \in Message : told[m] <= 1

(* Acknowledged only when routed: a message behind the cursor was answered, *)
(* waits for its turn, or was lost with a process that had routed it.      *)
NothingDropped == \A m \in 1..cursor : m \in answered \union Pending \union lost

(* The endpoint row says what the worker that owns the name believes,      *)
(* whatever a second process under the name does.                          *)
Serving == pc \in {"await", "top", "check", "poll", "route"}

EndpointTrue ==
    Serving => /\ endpoint.key = "own"
               /\ endpoint.state = IF active = None THEN "idle" ELSE "active"

(* A process that stays up answers every message, whatever times out, and  *)
(* the approvals its turns ask for do not hold it up.                      *)
StaysUp == <>[](pc # "none")
Settles == StaysUp => \A m \in Message : (sent >= m) ~> (m \in answered \union lost)
=============================================================================
