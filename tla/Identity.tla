------------------------------ MODULE Identity ------------------------------
(***************************************************************************)
(* Which session speaks under which bus name: the identities table and     *)
(* _alloc_name, the endpoint rows and upsert_endpoint, presence, and the   *)
(* commands of sessions (hello, leave, the hooks' _touch, of which another *)
(* command is the first half) as the separate statements they are.  Every  *)
(* session asks for the same name; name n is the n-th candidate of that    *)
(* request.  A command may outlive the process of its session.  All        *)
(* sessions have one provider.                                             *)
(***************************************************************************)
EXTENDS Naturals

CONSTANTS
    Session, NoOne,   \* session (or thread) ids; absent id
    Slot,             \* bound on the commands running at a time
    Known,            \* sessions whose owner pid the launcher finds
    MaxName,          \* bound on the candidates
    MaxRun            \* bound on the processes of a session

ASSUME IdentityAssumption ==
    /\ NoOne \notin Session /\ Known \subseteq Session
    /\ MaxName \in Nat \ {0} /\ MaxRun \in Nat

VARIABLES
    proc,      \* session -> process: up, how often started, greeted since
    ident,     \* identities: session -> name and recorded owner process
    endpoint,  \* endpoints: name -> state and native key; "on" is joined,
               \* active or idle, "off" is left or stopped
    peer,      \* peers: name -> a heartbeat within LIVE_WINDOW
    cmd,       \* the commands under way
    joined     \* history: session -> name under which its last hello ended

vars == <<proc, ident, endpoint, peer, cmd, joined>>

Name    == 1..MaxName
Unnamed == 0
Key     == Session \union {NoOne}

NoRow == [state |-> "absent", key |-> NoOne]
Idle  == [does |-> "nothing", at |-> "end", who |-> NoOne, run |-> 0, name |-> Unnamed,
          read |-> NoRow]

Rows     == [state: {"absent", "started", "on", "off"}, key: Key]
Commands == [does: {"nothing", "hello", "touch", "leave"},
             at: {"beat", "depart", "join", "look", "mark", "end"},
             who: Key, run: 0..MaxRun, name: 0..MaxName, read: Rows]

TypeOK ==
    /\ proc \in [Session -> [up: BOOLEAN, run: 0..MaxRun, met: BOOLEAN]]
    /\ ident \in [Session -> [name: 0..MaxName, owner: 0..MaxRun]]
    /\ endpoint \in [Name -> Rows]
    /\ peer \in [Name -> BOOLEAN]
    /\ cmd \in [Slot -> Commands]
    /\ joined \in [Session -> 0..MaxName]

Init ==
    /\ proc = [s \in Session |-> [up |-> FALSE, run |-> 0, met |-> FALSE]]
    /\ ident = [s \in Session |-> [name |-> Unnamed, owner |-> 0]]
    /\ endpoint = [n \in Name |-> NoRow]
    /\ peer = [n \in Name |-> FALSE]
    /\ cmd = [c \in Slot |-> Idle]
    /\ joined = [s \in Session |-> Unnamed]

-----------------------------------------------------------------------------
(* Sessions start, are resumed under the same id, and die.                 *)

Begin(s) ==
    /\ ~proc[s].up /\ proc[s].run < MaxRun
    /\ proc' = [proc EXCEPT ![s] = [up |-> TRUE, run |-> @.run + 1, met |-> FALSE]]
    /\ UNCHANGED <<ident, endpoint, peer, cmd, joined>>

Die(s) ==
    /\ proc[s].up /\ proc' = [proc EXCEPT ![s].up = FALSE]
    /\ UNCHANGED <<ident, endpoint, peer, cmd, joined>>

-----------------------------------------------------------------------------
(* _alloc_name: the session's name if it has one; else the first candidate *)
(* that is bound to a dead owner, or is neither bound, nor an endpoint,    *)
(* nor a live peer's.                                                      *)

Holders(n) == {s \in Session : ident[s].name = n}

OwnerSilent(s) == ~peer[ident[s].name]               \* seeded fault
OwnerDead(s) ==
    /\ ident[s].owner # 0
    /\ ~(proc[s].up /\ proc[s].run = ident[s].owner)

Free(n) ==
    \/ \E s \in Holders(n) : OwnerDead(s)
    \/ Holders(n) = {} /\ endpoint[n].state = "absent" /\ ~peer[n]

Candidate == CHOOSE n \in Name : Free(n) /\ \A m \in Name : Free(m) => n <= m

Owner(s) == IF s \in Known THEN proc[s].run ELSE 0

(* The name the session has afterwards, and the identities table.          *)
Alloc(s, n) ==
    \/ /\ ident[s].name # Unnamed /\ n = ident[s].name
       /\ ident' = [ident EXCEPT ![s].owner = IF Owner(s) = 0 THEN @ ELSE Owner(s)]
       /\ UNCHANGED joined
    \/ /\ ident[s].name = Unnamed /\ (\E m \in Name : Free(m)) /\ n = Candidate
       /\ ident' = [t \in Session |->
                      IF t = s THEN [name |-> n, owner |-> Owner(s)]
                      ELSE IF ident[t].name = n THEN [name |-> Unnamed, owner |-> 0]
                      ELSE ident[t]]
       /\ joined' = [t \in Session |->
                      IF t = s \/ ident[t].name = n THEN Unnamed ELSE joined[t]]

(* whoami and _resolve: the binding is read on every call; a session that  *)
(* lost its name allocates another.                                        *)
Resolve(s, n) ==
    \/ /\ ident[s].name # Unnamed /\ n = ident[s].name /\ UNCHANGED <<ident, joined>>
    \/ ident[s].name = Unnamed /\ Alloc(s, n)

-----------------------------------------------------------------------------
(* upsert_endpoint, one transaction.                                       *)

Authorized(n, key) == key # NoOne /\ ident[key].name = n

Takeover(n, key) == endpoint[n].key # NoOne /\ key # endpoint[n].key
Elsewhere(key)   == {m \in Name : key # NoOne /\ endpoint[m].key = key}

AcceptsAny(n, key) == TRUE                                   \* seeded fault
Accepts(n, key) ==
    Takeover(n, key) \/ Elsewhere(key) \ {n} # {} => Authorized(n, key)

Upserted(n, key, state) ==
    [m \in Name |->
        IF m = n THEN [state |-> state, key |-> IF key = NoOne THEN endpoint[n].key ELSE key]
        ELSE IF m \in Elsewhere(key) THEN NoRow ELSE endpoint[m]]

Upsert(n, key, state) ==
    endpoint' = IF Accepts(n, key) THEN Upserted(n, key, state) ELSE endpoint

-----------------------------------------------------------------------------
(* The commands.  A session says hello before anything else.               *)

FirstStep == [hello |-> "beat", touch |-> "beat", leave |-> "depart"]

Command(c, s, does) ==
    /\ cmd[c] = Idle /\ proc[s].up /\ (does # "hello" => proc[s].met)
    /\ \E n \in Name :
          /\ IF does = "hello" THEN Alloc(s, n) ELSE Resolve(s, n)
          /\ cmd' = [cmd EXCEPT ![c] = [does |-> does, at |-> FirstStep[does], who |-> s,
                                        run |-> proc[s].run, name |-> n, read |-> NoRow]]
    /\ proc' = [proc EXCEPT ![s].met = TRUE]
    /\ UNCHANGED <<endpoint, peer>>

(* heartbeat                                                               *)
Beat(c) ==
    /\ cmd[c].at = "beat" /\ peer' = [peer EXCEPT ![cmd[c].name] = TRUE]
    /\ cmd' = [cmd EXCEPT ![c].at = IF cmd[c].does = "hello" THEN "join" ELSE "look"]
    /\ UNCHANGED <<proc, ident, endpoint, joined>>

(* hello_core: the row becomes the session's.                              *)
Join(c) ==
    /\ cmd[c].at = "join" /\ Upsert(cmd[c].name, cmd[c].who, "on")
    /\ joined' = IF Authorized(cmd[c].name, cmd[c].who)
                 THEN [joined EXCEPT ![cmd[c].who] = cmd[c].name] ELSE joined
    /\ cmd' = [cmd EXCEPT ![c] = Idle] /\ UNCHANGED <<proc, ident, peer>>

(* leave_core: presence goes first.                                        *)
Depart(c) ==
    /\ cmd[c].at = "depart" /\ peer' = [peer EXCEPT ![cmd[c].name] = FALSE]
    /\ cmd' = [cmd EXCEPT ![c].at = "look"]
    /\ UNCHANGED <<proc, ident, endpoint, joined>>

(* endpoint_state: the row is read in one statement ...                    *)
Read(n) == IF endpoint[n].state = "absent" THEN NoRow
           ELSE [state |-> "on", key |-> endpoint[n].key]

Look(c) ==
    /\ cmd[c].at = "look"
    /\ cmd' = [cmd EXCEPT ![c].at = "mark", ![c].read = Read(cmd[c].name)]
    /\ UNCHANGED <<proc, ident, endpoint, peer, joined>>

(* ... and written back, with the key read, in another.  _touch writes a   *)
(* row of its own if there was none.                                       *)
Mark(c) ==
    /\ cmd[c].at = "mark"
    /\ LET k == cmd[c]
           state == IF k.does = "leave" THEN "off" ELSE "on"
       IN  IF k.read.state # "absent" THEN Upsert(k.name, k.read.key, state)
           ELSE IF k.does = "touch" THEN Upsert(k.name, k.who, state)
           ELSE UNCHANGED endpoint
    /\ cmd' = [cmd EXCEPT ![c] = Idle] /\ UNCHANGED <<proc, ident, peer, joined>>

(* The death of a command, or the end of one that writes no row.           *)
End(c) ==
    /\ cmd[c] # Idle /\ cmd' = [cmd EXCEPT ![c] = Idle]
    /\ UNCHANGED <<proc, ident, endpoint, peer, joined>>

-----------------------------------------------------------------------------
(* Presence: a tab without a session id speaks under the wanted name, as   *)
(* its CLAUDEBUS_ID says; heartbeats age, whether or not prune removes the *)
(* row then.                                                               *)

TabBeat ==
    /\ ~peer[1] /\ peer' = [peer EXCEPT ![1] = TRUE]
    /\ UNCHANGED <<proc, ident, endpoint, cmd, joined>>

Age(n) ==
    /\ peer[n] /\ peer' = [peer EXCEPT ![n] = FALSE]
    /\ UNCHANGED <<proc, ident, endpoint, cmd, joined>>

Step(c) == Beat(c) \/ Join(c) \/ Depart(c) \/ Look(c) \/ Mark(c) \/ End(c)

Next ==
    \/ \E s \in Session : Begin(s) \/ Die(s)
    \/ \E c \in Slot, s \in Session, does \in {"hello", "touch", "leave"} :
          Command(c, s, does)
    \/ \E c \in Slot : Step(c)
    \/ TabBeat
    \/ \E n \in Name : Age(n)

Spec == Init /\ [][Next]_vars

-----------------------------------------------------------------------------
(* A session that lives, has said hello and had its owner recorded keeps   *)
(* its name, however long it is silent: "heartbeat gaps alone never        *)
(* transfer ownership".  A session without a recorded owner keeps it too.  *)
Lives(s) == proc[s].up /\ proc[s].met

NameKept ==
    [][\A s \in Session :
          Lives(s) /\ ident[s].name # Unnamed => ident'[s].name = ident[s].name]_vars

(* Two commands under way never speak under one name for two different     *)
(* sessions whose processes, the ones that issued them, still run.         *)
Speaking(c) == /\ cmd[c] # Idle /\ proc[cmd[c].who].up
               /\ proc[cmd[c].who].run = cmd[c].run

OneVoice ==
    \A c, d \in Slot :
        Speaking(c) /\ Speaking(d) /\ cmd[c].name = cmd[d].name => cmd[c].who = cmd[d].who

(* From the end of its hello and for as long as it has the name, the       *)
(* endpoint row of that name carries the session's key, so that what is    *)
(* routed to the name reaches it: no late leave or state change of an      *)
(* earlier owner, which wrote back what it had read, takes the row away.   *)
RowFollowsBinding ==
    \A s \in Session : joined[s] # Unnamed => /\ ident[s].name = joined[s]
                                              /\ endpoint[joined[s]].key = s
=============================================================================
