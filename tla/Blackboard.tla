----------------------------- MODULE Blackboard -----------------------------
(***************************************************************************)
(* One key of claudebus' blackboard: bb get, set, set --if-ver, del, and   *)
(* the removal of expired rows by prune.  Keys do not interact.  Every     *)
(* operation is one statement; a session that uses --if-ver passes the     *)
(* version of its last get.  Lapse is the time passing the row's ttl.      *)
(***************************************************************************)
EXTENDS Naturals

CONSTANTS
    Session,
    Value,
    Absent,      \* value of a key without a row
    NoAnswer,    \* answer of an unconditional operation
    MaxVersion   \* bound on the versions of the row

ASSUME BlackboardAssumption == MaxVersion \in Nat \ {0} /\ Absent \notin Value

VARIABLES
    row,       \* the row of the key; version 0 if there is none
    seen,      \* version of each session's last get, 0 if there was none
    answer,    \* what the last operation told its caller, if conditional
    reading,   \* history: what became of the value each session read
    removed    \* history: the key was deleted, or outlived its ttl

vars == <<row, seen, answer, reading, removed>>

NoRow == [value |-> Absent, ver |-> 0, mortal |-> FALSE, lapsed |-> FALSE]

TypeOK ==
    /\ row \in [value: Value \union {Absent}, ver: 0..MaxVersion,
                mortal: BOOLEAN, lapsed: BOOLEAN]
    /\ row.ver = 0 <=> row.value = Absent
    /\ seen \in [Session -> 0..MaxVersion]
    /\ answer \in (Session \X {"landed", "conflict"}) \union {NoAnswer}
    /\ reading \in [Session -> {"none", "current", "moved", "reborn"}]
    /\ removed \in BOOLEAN

Init ==
    /\ row = NoRow
    /\ seen = [s \in Session |-> 0] /\ answer = NoAnswer
    /\ reading = [s \in Session |-> "none"] /\ removed = FALSE

Present == row.ver # 0

(* History: a write moves the value under its readers, and one that starts *)
(* a new row (version 1 again) makes it another value altogether.          *)
Overtake(fate) ==
    reading' = [s \in Session |-> IF reading[s] = "none" THEN "none"
                                  ELSE IF reading[s] = "reborn" THEN "reborn" ELSE fate]

Get(s) ==
    LET found == Present /\ ~row.lapsed
    IN  /\ seen' = [seen EXCEPT ![s] = IF found THEN row.ver ELSE 0]
        /\ reading' = [reading EXCEPT ![s] = IF found THEN "current" ELSE "none"]
        /\ answer' = NoAnswer /\ UNCHANGED <<row, removed>>

NextVerKept == IF Present THEN row.ver ELSE 1          \* seeded fault
NextVerNone == row.ver                                 \* seeded fault
NextVer     == row.ver + 1

Put(v, ttl) ==
    /\ row.ver < MaxVersion
    /\ row' = [value |-> v, ver |-> NextVer, mortal |-> ttl, lapsed |-> FALSE]
    /\ UNCHANGED <<seen, removed>>

(* set: an upsert.                                                         *)
Set(v, ttl) ==
    /\ Put(v, ttl) /\ Overtake(IF Present THEN "moved" ELSE "reborn")
    /\ answer' = NoAnswer

(* set --if-ver n: UPDATE ... WHERE key=? AND ver=?.  It matches an        *)
(* expired row that prune has not removed yet.                             *)
Matches(s) == Present /\ seen[s] = row.ver

SetIfVer(s, v, ttl) ==
    \/ /\ Matches(s) /\ Put(v, ttl) /\ Overtake("moved")
       /\ answer' = <<s, "landed">>
    \/ /\ ~Matches(s) /\ answer' = <<s, "conflict">>
       /\ UNCHANGED <<row, seen, reading, removed>>

Del ==
    /\ row' = NoRow /\ removed' = TRUE
    /\ Overtake("moved")
    /\ answer' = NoAnswer /\ UNCHANGED seen

Lapse ==
    /\ Present /\ row.mortal /\ ~row.lapsed
    /\ row' = [row EXCEPT !.lapsed = TRUE] /\ removed' = TRUE
    /\ UNCHANGED <<seen, answer, reading>>

Prune ==
    /\ row.lapsed /\ row' = NoRow
    /\ Overtake("moved")
    /\ UNCHANGED <<seen, answer, removed>>

Next ==
    \/ \E s \in Session : Get(s)
    \/ \E v \in Value, ttl \in BOOLEAN :
          Set(v, ttl) \/ \E s \in Session : SetIfVer(s, v, ttl)
    \/ Del
    \/ Lapse
    \/ Prune

Spec == Init /\ [][Next]_vars

-----------------------------------------------------------------------------
(* "the write only lands if nobody moved the value since you read it"      *)
(* (cmd_bb): --if-ver lands on the value the session read, or on a key     *)
(* that went and came back in between, and lands whenever nobody moved it. *)
CasSound ==
    \A s \in Session : /\ Matches(s) => reading[s] \in {"current", "reborn"}
                       /\ reading[s] = "current" => Matches(s)

(* Until it is deleted or expires for the first time, a key is the         *)
(* register of CasRegister.                                                *)
Register == INSTANCE CasRegister WITH
    Client  <- Session,
    value   <- row.value,
    current <- {s \in Session : reading[s] = "current"}

IsRegister == Register!Init /\ [][~removed' => Register!Next]_(Register!vars)
=============================================================================
