-------------------------------- MODULE Rpc --------------------------------
(***************************************************************************)
(* ask and reply of claudebus over the message log, and the FIFOs their    *)
(* processes park on (waiters/<name>.<pid>.fifo).  Whoever inserts a       *)
(* message pokes every FIFO it lists; a poke that finds no reader takes    *)
(* the FIFO for stale and unlinks it, by name, in a later step.  An asker  *)
(* of a slot that was killed leaves its FIFO behind, and the next one of   *)
(* the slot has its pid.  Messages are not pruned within one ask.          *)
(***************************************************************************)
EXTENDS Naturals, Sequences

CONSTANTS
    Asker,       \* slots for processes that ask, one FIFO name each
    Writer,      \* processes that reply or send
    Nothing,     \* no FIFO
    MaxLog       \* bound on the messages

ASSUME RpcAssumption == Nothing \notin Asker /\ Asker \cap Writer = {} /\ MaxLog \in Nat

VARIABLES
    log,         \* messages, by id; corr is the id of the request
    proc,        \* the processes
    fifo,        \* the FIFOs
    lost,        \* history: FIFOs a killed process had yet to poke
    raced        \* history: FIFOs found without a reader, and the asker since

rpcVars == <<log, proc, fifo, lost, raced>>

Process == Asker \union Writer
Out     == [at |-> "out", start |-> 0, corr |-> 0, late |-> FALSE, todo |-> {},
            stale |-> Nothing, result |-> "none"]
NoFifo  == [path |-> FALSE, reader |-> FALSE, linked |-> FALSE, byte |-> FALSE]

RpcInit ==
    /\ log = <<>> /\ proc = [p \in Process |-> Out] /\ fifo = [p \in Asker |-> NoFifo]
    /\ lost = {} /\ raced = {}

At(p, at)  == proc[p].at = at
Go(p, at)  == proc' = [proc EXCEPT ![p].at = at]
Record(m)  == Len(log) < MaxLog /\ log' = Append(log, m)
Listed     == {p \in Asker : fifo[p].path}

(* cmd_ask: where the log ends, then the request, then the pokes.          *)
AskHead(p) ==
    /\ At(p, "out")
    /\ proc' = [proc EXCEPT ![p] = [Out EXCEPT !.at = "ask", !.start = Len(log)]]
    /\ raced' = IF \E q \in Process : proc[q].stale = p THEN raced ELSE raced \ {p}
    /\ lost' = lost \ {p}
    /\ UNCHANGED <<log, fifo>>

AskInsert(p) ==
    /\ At(p, "ask") /\ Record([kind |-> "req", corr |-> Len(log) + 1])
    /\ proc' = [proc EXCEPT ![p].at = "list", ![p].corr = Len(log')]
    /\ UNCHANGED <<fifo, lost, raced>>

(* cmd_reply answers any request, cmd_send only wakes.                     *)
Reply(p) ==
    /\ At(p, "out")
    /\ \E i \in DOMAIN log : /\ log[i].kind = "req"
                             /\ Record([kind |-> "reply", corr |-> i])
    /\ Go(p, "list") /\ UNCHANGED <<fifo, lost, raced>>

Send(p) ==
    /\ At(p, "out") /\ Record([kind |-> "msg", corr |-> 0])
    /\ Go(p, "list") /\ UNCHANGED <<fifo, lost, raced>>

-----------------------------------------------------------------------------
(* poke_waiters: list, then for each name open, write and close; a name    *)
(* without a reader, or gone, is unlinked.                                 *)
ListWaiters(p) ==
    /\ At(p, "list")
    /\ proc' = [proc EXCEPT ![p].at = "poke", ![p].todo = Listed]
    /\ UNCHANGED <<log, fifo, lost, raced>>

HasReader(f) == fifo[f].path /\ fifo[f].reader /\ fifo[f].linked

Poke(p, f) ==
    /\ At(p, "poke") /\ proc[p].stale = Nothing /\ f \in proc[p].todo
    /\ proc' = [proc EXCEPT ![p].todo = @ \ {f},
                            ![p].stale = IF HasReader(f) THEN Nothing ELSE f]
    /\ fifo' = IF HasReader(f) THEN [fifo EXCEPT ![f].byte = TRUE] ELSE fifo
    /\ raced' = IF fifo[f].reader THEN raced ELSE raced \union {f}
    /\ UNCHANGED <<log, lost>>

Reap(p) ==
    /\ At(p, "poke") /\ proc[p].stale # Nothing
    /\ fifo' = [fifo EXCEPT ![proc[p].stale].path = FALSE, ![proc[p].stale].linked = FALSE]
    /\ proc' = [proc EXCEPT ![p].stale = Nothing]
    /\ UNCHANGED <<log, lost, raced>>

Poked(p) ==
    /\ At(p, "poke") /\ proc[p].todo = {} /\ proc[p].stale = Nothing
    /\ Go(p, IF p \in Asker THEN "make" ELSE "out")
    /\ UNCHANGED <<log, fifo, lost, raced>>

-----------------------------------------------------------------------------
(* _open_fifo: mkfifo unless the name exists, then open for reading and    *)
(* writing, which fails if the name is gone again.                         *)
End(p, result) ==
    /\ proc' = [proc EXCEPT ![p].at = "out", ![p].result = result]
    /\ fifo' = [fifo EXCEPT ![p] = NoFifo]

MakeFifo(p) ==
    /\ At(p, "make") /\ Go(p, "open")
    /\ fifo' = [fifo EXCEPT ![p] = [NoFifo EXCEPT !.path = TRUE]]
    /\ UNCHANGED <<log, lost, raced>>

OpenFifo(p) ==
    /\ At(p, "open")
    /\ IF fifo[p].path
       THEN /\ fifo' = [fifo EXCEPT ![p] = [@ EXCEPT !.reader = TRUE, !.linked = TRUE]]
            /\ Go(p, "query")
       ELSE End(p, "error")
    /\ UNCHANGED <<log, lost, raced>>

(* The loop of _await_reply: the first reply to this request, else the     *)
(* deadline, else block; when the loop ends its FIFO is removed.           *)
Answers(p) == {i \in DOMAIN log : /\ log[i].kind = "reply" /\ log[i].corr = proc[p].corr
                                  /\ i > proc[p].start}

AnsweredUnlessLate(p) == Answers(p) # {} /\ ~proc[p].late    \* seeded fault
Answered(p) == Answers(p) # {}

Query(p) ==
    /\ At(p, "query")
    /\ IF Answered(p) THEN End(p, "answered") ELSE Go(p, "check") /\ UNCHANGED fifo
    /\ UNCHANGED <<log, lost, raced>>

Drained(f) == [fifo EXCEPT ![f].byte = FALSE]

BlockDrained(p) == Go(p, "block") /\ fifo' = Drained(p)        \* seeded fault
Block(p) == Go(p, "block") /\ UNCHANGED fifo

CheckDeadline(p) ==
    /\ At(p, "check")
    /\ IF proc[p].late THEN End(p, "gave up") ELSE Block(p)
    /\ UNCHANGED <<log, lost, raced>>

Expire(p) ==
    /\ proc[p].at \in {"query", "check", "block"} /\ ~proc[p].late
    /\ proc' = [proc EXCEPT ![p].late = TRUE]
    /\ UNCHANGED <<log, fifo, lost, raced>>

(* _block: the byte of a poke, at the latest SELECT_CEIL seconds, or the   *)
(* deadline.                                                               *)
Wake(p) ==
    /\ At(p, "block") /\ fifo[p].byte
    /\ fifo' = Drained(p) /\ Go(p, "query")
    /\ UNCHANGED <<log, lost, raced>>

Ceiling(p) ==
    /\ At(p, "block") /\ ~fifo[p].byte /\ Go(p, "query")
    /\ UNCHANGED <<log, fifo, lost, raced>>

(* A process is killed; its FIFO stays, without a reader.                  *)
KillProcess(p) ==
    /\ ~At(p, "out")
    /\ proc' = [proc EXCEPT ![p] = [Out EXCEPT !.result = "killed"]]
    /\ fifo' = IF p \in Asker
               THEN [fifo EXCEPT ![p] = [NoFifo EXCEPT !.path = fifo[p].path]] ELSE fifo
    /\ lost' = lost \union (IF At(p, "list") THEN Asker ELSE proc[p].todo)
    /\ UNCHANGED <<log, raced>>

Await(p) == MakeFifo(p) \/ OpenFifo(p) \/ Query(p) \/ CheckDeadline(p) \/ Wake(p) \/ Ceiling(p)

RpcNext ==
    \/ \E p \in Asker : AskHead(p) \/ AskInsert(p) \/ Await(p) \/ Expire(p)
    \/ \E p \in Writer : Reply(p) \/ Send(p)
    \/ \E p \in Process : \/ ListWaiters(p) \/ Reap(p) \/ Poked(p) \/ KillProcess(p)
                          \/ \E f \in Asker : Poke(p, f)

RpcSpec == RpcInit /\ [][RpcNext]_rpcVars

(* A process that awaits goes on: select returns after SELECT_CEIL seconds *)
(* at the latest.                                                          *)
Fairness == \A p \in Asker : WF_rpcVars(Await(p))

FairSpec == RpcSpec /\ Fairness
-----------------------------------------------------------------------------
(* The values the variables take.                                          *)
RpcTypeOK ==
    /\ log \in Seq([kind: {"req", "reply", "msg"}, corr: 0..MaxLog]) /\ Len(log) <= MaxLog
    /\ proc \in [Process ->
          [at: {"out", "ask", "list", "poke", "make", "open", "query", "check", "block"},
           start: 0..MaxLog, corr: 0..MaxLog, late: BOOLEAN, todo: SUBSET Asker,
           stale: Asker \union {Nothing},
           result: {"none", "answered", "gave up", "error", "killed"}]]
    /\ fifo \in [Asker -> [path: BOOLEAN, reader: BOOLEAN, linked: BOOLEAN, byte: BOOLEAN]]
    /\ \A p \in Asker : fifo[p].linked => fifo[p].path /\ fifo[p].reader
    /\ lost \subseteq Asker /\ raced \subseteq Asker

(* No lost wakeup: an asker that blocks while its answer is in the log has *)
(* a byte in its FIFO or is still to be poked, unless the process that     *)
(* should poke it was killed or one came between its mkfifo and its open.  *)
NoLostWakeup ==
    \A p \in Asker :
        At(p, "block") /\ Answers(p) # {} /\ p \notin lost \union raced
        => fifo[p].byte \/ \E q \in Process : At(q, "list") \/ p \in proc[q].todo

(* An asker that was blocked when its answer came returns it, whether it   *)
(* is woken, times out on a FIFO that was taken away, or is late by then;  *)
(* no poke and no deadline between makes it report that there is none.     *)
AnswerReturned ==
    \A p \in Asker :
        At(p, "block") /\ Answers(p) # {} ~> proc[p].result \in {"answered", "killed"}
=============================================================================
