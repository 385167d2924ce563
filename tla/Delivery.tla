------------------------------ MODULE Delivery ------------------------------
(***************************************************************************)
(* Message delivery of claudebus to one consumer, Me.  The table messages  *)
(* is a log of which prune removes the oldest rows; the row of Me in       *)
(* cursors has two watermarks, last for broadcasts and topics and dm for   *)
(* messages to @Me.  Consumers share nothing but the log, so one is        *)
(* enough; what interleaves are the processes that run under its name:     *)
(* recv, wait and watch deliver, the hooks (Hook) stage, emit and then     *)
(* acknowledge.  Each statement or transaction is one step; between any    *)
(* two a process may end or be killed.                                     *)
(*                                                                         *)
(* Ages are relative to the log: the cutoff of prune lies between two      *)
(* messages, and a cursor remembers the head at its last update.           *)
(***************************************************************************)
EXTENDS Integers, Sequences, FiniteSets

CONSTANTS
    Me, Peer,      \* the consumer; the other names that send
    All, Topic,    \* channels: the broadcast channel and a topic
    Aside,         \* not for Me: @ another name, or a presence row on All
    Process,       \* processes run under the name Me
    Hook,          \* those that stage and acknowledge
    Parked,        \* those that never end (watch without a timeout)
    Subscribed,    \* those that subscribe to Topic
    New,           \* no --since
    Since,         \* New, or the number of --since ("all": MaxMessages)
    Window,        \* how many rows a hook shows, the newest
    MaxMessages,   \* bound on the messages sent
    Registered,    \* TRUE: Me has a cursor when the run starts
    Awake          \* TRUE: Me updates its cursor within every MSG_TTL

Channel == {All, Topic, Aside, Me}

ASSUME DeliveryAssumption ==
    /\ Hook \subseteq Process /\ Parked \subseteq Process \ Hook
    /\ Subscribed \subseteq Process
    /\ New \notin Nat /\ Since \subseteq Nat \union {New} /\ Window \in Nat \ {0}
    /\ MaxMessages \in Nat /\ Registered \in BOOLEAN /\ Awake \in BOOLEAN
    /\ Me \notin Peer \union {All, Topic, Aside}
    /\ All # Topic /\ Aside \notin {All, Topic}

VARIABLES
    log,       \* messages, by id
    pruned,    \* prune removed the ids up to this one
    cursor,    \* the row of Me, and the head when it was last updated
    proc,      \* the processes
    handed,    \* history: how often deliver returned a message
    shown,     \* history: messages that reached an output
    joined     \* history: Me is owed the broadcasts after this id

vars == <<log, pruned, cursor, proc, handed, shown, joined>>

Ids    == 1..MaxMessages
NoRow  == [known |-> FALSE, last |-> 0, dm |-> 0, stamp |-> 0]
Out    == [at |-> "out", since |-> New, upto |-> 0, rows |-> {}]
Places == {"out", "head", "register", "ready", "print", "staged", "emitted"}

TypeOK ==
    /\ log \in Seq([from: {Me} \union Peer, to: Channel])
    /\ Len(log) <= MaxMessages
    /\ pruned \in 0..Len(log)
    /\ cursor \in [known: BOOLEAN, last: 0..Len(log), dm: 0..Len(log), stamp: 0..Len(log)]
    /\ proc \in [Process -> [at: Places, since: Nat \union {New},
                             upto: 0..Len(log), rows: SUBSET (1..Len(log))]]
    /\ handed \in [Ids -> 0..2]
    /\ shown \in SUBSET (1..Len(log))
    /\ joined \in 0..MaxMessages + 1

Init ==
    /\ log = << >> /\ pruned = 0
    /\ cursor = [NoRow EXCEPT !.known = Registered]
    /\ proc = [p \in Process |-> Out]
    /\ handed = [m \in Ids |-> 0] /\ shown = {}
    /\ joined = IF Registered THEN 0 ELSE MaxMessages + 1

Larger(a, b)  == IF a >= b THEN a ELSE b
Smaller(a, b) == IF a <= b THEN a ELSE b

Retained == pruned + 1..Len(log)
head_id  == IF Retained = {} THEN 0 ELSE Len(log)    \* COALESCE(MAX(id), 0)

Send(from, to) ==
    /\ Len(log) < MaxMessages
    /\ log' = Append(log, [from |-> from, to |-> to])
    /\ UNCHANGED <<pruned, cursor, proc, handed, shown, joined>>

Becomes(p, q) == proc' = [proc EXCEPT ![p] = q]
Goto(p, at) == Becomes(p, [proc[p] EXCEPT !.at = at])

-----------------------------------------------------------------------------
(* ensure_cursor, three statements in autocommit: is there a row, what is  *)
(* the head, write the row (over one that came meanwhile).                 *)
Look(p, since) ==
    /\ proc[p].at = "out"
    /\ Becomes(p, [proc[p] EXCEPT !.since = since, !.at =
                      IF cursor.known /\ since = New THEN "ready" ELSE "head"])
    /\ UNCHANGED <<log, pruned, cursor, handed, shown, joined>>

ReadHead(p) ==
    /\ proc[p].at = "head"
    /\ Becomes(p, [proc[p] EXCEPT !.at = "register", !.upto = head_id])
    /\ UNCHANGED <<log, pruned, cursor, handed, shown, joined>>

(* The watermarks a registration writes, from the head it read.            *)
FromTail(since, h)  == [last |-> h, dm |-> h]          \* seeded fault
FirstMarks(since, h) ==
    IF since = New THEN [last |-> h, dm |-> 0]
    ELSE LET b == Larger(0, h - since) IN [last |-> b, dm |-> b]

Register(p) ==
    LET first == FirstMarks(proc[p].since, proc[p].upto)
    IN  /\ proc[p].at = "register"
        /\ cursor' = [known |-> TRUE, last |-> first.last, dm |-> first.dm,
                      stamp |-> Len(log)]
        /\ joined' = Smaller(joined, first.last)
        /\ Goto(p, "ready")
        /\ UNCHANGED <<log, pruned, handed, shown>>

-----------------------------------------------------------------------------
(* What deliver and stage_delivery select: the rows beyond the watermark   *)
(* of their kind, no own broadcast and none that is Aside.                 *)
Listens(p, to) == to = All \/ (to = Topic /\ p \in Subscribed)
MineOneMark(p) ==                                      \* seeded fault
    {m \in Retained : /\ log[m].to = Me \/ (log[m].from # Me /\ Listens(p, log[m].to))
                      /\ m > cursor.last}
Mine(p) ==
    {m \in Retained : \/ log[m].to = Me /\ m > cursor.dm
                      \/ /\ log[m].from # Me /\ Listens(p, log[m].to)
                         /\ m > cursor.last}

Scan == {m \in Retained : m > Smaller(cursor.last, cursor.dm)}

(* deliver: one transaction; with no row to scan it writes nothing.        *)
PassedBeyond(p) == Len(log) + 1                        \* seeded fault
Passed(p) == Len(log)

Deliver(p) ==
    /\ proc[p].at = "ready" /\ p \notin Hook /\ Scan # {}
    /\ cursor' = [known |-> TRUE, last |-> Passed(p), dm |-> Passed(p), stamp |-> Len(log)]
    /\ handed' = [m \in Ids |-> IF m \in Mine(p) THEN Smaller(2, handed[m] + 1)
                                ELSE handed[m]]
    /\ Becomes(p, [proc[p] EXCEPT !.rows = Mine(p),
                                 !.at = IF Mine(p) = {} THEN "ready" ELSE "print"])
    /\ UNCHANGED <<log, pruned, shown, joined>>

Output(p) ==
    /\ proc[p].at = "print"
    /\ shown' = shown \union proc[p].rows
    /\ Goto(p, "ready")
    /\ UNCHANGED <<log, pruned, cursor, handed, joined>>

(* stage_delivery reads only; the hook then writes the newest rows to its  *)
(* stdout, and acknowledges the whole scan when the write succeeded.       *)
Stage(p) ==
    /\ proc[p].at = "ready" /\ p \in Hook
    /\ Becomes(p, [proc[p] EXCEPT
                     !.rows = Mine(p),
                     !.upto = IF Scan = {} THEN Smaller(cursor.last, cursor.dm)
                              ELSE Len(log),
                     !.at = IF Mine(p) = {} THEN "emitted" ELSE "staged"])
    /\ UNCHANGED <<log, pruned, cursor, handed, shown, joined>>

Newest(rows) == {m \in rows : Cardinality({n \in rows : n > m}) < Window}

Emit(p) ==
    /\ proc[p].at = "staged"
    /\ shown' = shown \union Newest(proc[p].rows)
    /\ Goto(p, "emitted")
    /\ UNCHANGED <<log, pruned, cursor, handed, joined>>

(* acknowledge_delivery: up to what was scanned, or the marks if higher.   *)
ThroughHead(p) == Len(log)                             \* seeded fault
ThroughScan(p) == proc[p].upto                         \* seeded fault
Through(p) == Larger(proc[p].upto, Larger(cursor.last, cursor.dm))

Acknowledge(p) ==
    /\ proc[p].at = "emitted"
    /\ cursor' = [known |-> TRUE, last |-> Through(p), dm |-> Through(p), stamp |-> Len(log)]
    /\ Becomes(p, Out)
    /\ UNCHANGED <<log, pruned, handed, shown, joined>>

(* A process ends, by itself, by a timeout or killed.                      *)
Stop(p) ==
    /\ proc[p].at # "out" /\ p \notin Parked
    /\ Becomes(p, Out)
    /\ UNCHANGED <<log, pruned, cursor, handed, shown, joined>>

(* prune, two statements: messages older than MSG_TTL, and later, unless   *)
(* the process is killed, a cursor not updated since the same cutoff.      *)
PruneMessages(cut) ==
    /\ cut \in pruned..Len(log)
    /\ Awake /\ cursor.known => cut <= cursor.stamp
    /\ pruned' = cut
    /\ UNCHANGED <<log, cursor, proc, handed, shown, joined>>

Stale == cursor.stamp < pruned \/ (cursor.stamp = pruned /\ ~Awake)

PruneCursor ==
    /\ cursor.known /\ Stale
    /\ cursor' = NoRow
    /\ UNCHANGED <<log, pruned, proc, handed, shown, joined>>

Next ==
    \/ \E from \in {Me} \union Peer, to \in Channel : Send(from, to)
    \/ \E p \in Process, since \in Since : Look(p, since)
    \/ \E p \in Process : \/ ReadHead(p) \/ Register(p) \/ Deliver(p) \/ Output(p)
                          \/ Stage(p) \/ Emit(p) \/ Acknowledge(p) \/ Stop(p)
    \/ \E cut \in 0..MaxMessages : PruneMessages(cut)
    \/ PruneCursor

Spec == Init /\ [][Next]_vars

(* A parked watch scans again at the latest after SELECT_CEIL seconds, its *)
(* database calls return and its output is read.                           *)
Fairness == \A p \in Parked :
    /\ WF_vars(\E since \in Since : Look(p, since)) /\ WF_vars(ReadHead(p))
    /\ WF_vars(Register(p)) /\ WF_vars(Deliver(p)) /\ WF_vars(Output(p))

FairSpec == Spec /\ Fairness

-----------------------------------------------------------------------------
Addressed(m) ==
    \/ log[m].to = Me
    \/ log[m].from # Me /\ \/ log[m].to = All
                           \/ log[m].to = Topic /\ Subscribed # {}

Seen(m) == handed[m] > 0 \/ m \in shown

(* "concurrent recv for the same consumer can't double-deliver": deliver   *)
(* returns a message to one process, once, whatever runs beside it.        *)
HandedOnce == \A m \in Ids : handed[m] <= 1

(* ... "or drop": a message that the watermark of its kind has passed was  *)
(* returned or shown, if Me was on the bus when it was sent.               *)
NothingSkipped ==
    \A m \in Retained :
        Addressed(m) /\ m > joined /\ cursor.known
            /\ m <= (IF log[m].to = Me THEN cursor.dm ELSE cursor.last)
        => Seen(m)

(* "messages addressed to me are never missed, even if sent just before I  *)
(* joined" (ensure_cursor).                                                *)
DirectNeverMissed ==
    \A m \in Retained : log[m].to = Me /\ cursor.known /\ m <= cursor.dm => Seen(m)

(* A parked watch gets every direct message that is not pruned first.      *)
DirectArrives ==
    \A m \in Ids :
        (m \in DOMAIN log /\ log[m].to = Me) ~> (m <= pruned \/ Seen(m))
=============================================================================
