-------------------------------- MODULE Lanes --------------------------------
(***************************************************************************)
(* Lanes and leader election of claudebus (claim, release, elect, leave).  *)
(* A lane is a row of the table "lanes", held by a bus name.  claim and    *)
(* elect read the clock, then wait for the write lock, then decide and     *)
(* write in one transaction; release and leave are single statements.      *)
(* The seat of a role is the lane "leader:<role>"; elect is a claim of it  *)
(* that always carries a ttl and never steals.                             *)
(*                                                                         *)
(* Time left to ts + ttl is kept per row, decremented by Tick down to      *)
(* Over, and Forever for a row without ttl.                                *)
(***************************************************************************)
EXTENDS Integers

CONSTANTS
    Session,   \* the bus names of the sessions
    Survivor,  \* sessions that never vanish without leaving
    NoOne,     \* holder of a lane without a row
    Lane,      \* the names of the lanes
    Seat,      \* the lanes that are leader:<role>
    TTLs,      \* the non-zero values of --ttl
    Horizon,   \* the longest ttl
    LockWait   \* the longest wait for SQLite's write lock

ASSUME LanesAssumption ==
    /\ NoOne \notin Session /\ Survivor \subseteq Session /\ Seat \subseteq Lane
    /\ Horizon \in Nat /\ LockWait \in Nat /\ TTLs \subseteq 1..Horizon

VARIABLES
    lane,    \* the rows: holder and time left
    clock,   \* age of the clock reading of a claim waiting for the lock
    gone,    \* sessions that vanished (killed, no SessionEnd)
    hold     \* history: time left of the lane as its claimant knows it

vars == <<lane, clock, gone, hold>>

Over    == -LockWait - 1
Forever == Horizon + 1
Left    == Over..Forever
Idle    == -1

NoRow == [holder |-> NoOne, left |-> Over]

TypeOK ==
    /\ lane \in [Lane -> [holder: Session \union {NoOne}, left: Left]]
    /\ clock \in [Session -> Idle..LockWait]
    /\ gone \in SUBSET (Session \ Survivor)
    /\ hold \in [Session -> [Lane -> Idle..Forever]]

Init ==
    /\ lane = [l \in Lane |-> NoRow]
    /\ clock = [s \in Session |-> Idle]
    /\ gone = {}
    /\ hold = [s \in Session |-> [l \in Lane |-> Idle]]

(* _lane_free for a reader whose clock is "wait" old: now > ts + ttl.      *)
FreeEarly(l, wait) == lane[l].left <= -wait            \* seeded fault
FreeNever(l, wait) == lane[l].holder = NoOne           \* seeded fault
Free(l, wait) == lane[l].left < -wait

(* The holder as lanes, leader and join report it now.                     *)
Holder(l) == IF Free(l, 0) THEN NoOne ELSE lane[l].holder

(* time.time(), before BEGIN IMMEDIATE.                                    *)
ReadClock(s) ==
    /\ s \notin gone /\ clock[s] = Idle
    /\ clock' = [clock EXCEPT ![s] = 0]
    /\ UNCHANGED <<lane, gone, hold>>

(* The transaction of claim and elect; --steal overrides another holder.   *)
Refused(s, l, steal) ==
    lane[l].holder \notin {NoOne, s} /\ ~steal /\ ~Free(l, clock[s])

Contend(s, l, ttl, steal) ==
    LET left == IF ttl = 0 THEN Forever ELSE ttl - clock[s]
    IN  /\ clock[s] # Idle
        /\ clock' = [clock EXCEPT ![s] = Idle]
        /\ IF Refused(s, l, steal)
           THEN UNCHANGED <<lane, hold>>
           ELSE /\ lane' = [lane EXCEPT ![l] = [holder |-> s, left |-> left]]
                /\ hold' = [x \in Session |-> [hold[x] EXCEPT ![l] =
                                IF x = s THEN (IF left >= 0 THEN left ELSE Idle)
                                ELSE IF steal THEN Idle ELSE @]]
        /\ UNCHANGED gone

Claim(s) == \E l \in Lane, ttl \in TTLs \union {0}, steal \in BOOLEAN :
                Contend(s, l, ttl, steal)
Elect(s, l) == \E ttl \in TTLs : Contend(s, l, ttl, FALSE)

(* release: the caller's own row, or any row with --force.                 *)
ReleaseAny(s, l, force) ==                             \* seeded fault
    /\ s \notin gone /\ clock[s] = Idle
    /\ lane' = [lane EXCEPT ![l] = NoRow]
    /\ hold' = [x \in Session |-> [hold[x] EXCEPT ![l] =
                   IF x = s \/ force THEN Idle ELSE @]]
    /\ UNCHANGED <<clock, gone>>
Release(s, l, force) ==
    /\ s \notin gone /\ clock[s] = Idle
    /\ lane' = IF force \/ lane[l].holder = s
               THEN [lane EXCEPT ![l] = NoRow] ELSE lane
    /\ hold' = [x \in Session |-> [hold[x] EXCEPT ![l] =
                   IF x = s \/ force THEN Idle ELSE @]]
    /\ UNCHANGED <<clock, gone>>

(* leave: every lane of the session.                                       *)
Leave(s) ==
    /\ s \notin gone /\ clock[s] = Idle
    /\ lane' = [l \in Lane |-> IF lane[l].holder = s THEN NoRow ELSE lane[l]]
    /\ hold' = [hold EXCEPT ![s] = [l \in Lane |-> Idle]]
    /\ UNCHANGED <<clock, gone>>

(* A session is killed: it no longer works on anything, its rows stay.     *)
Vanish(s) ==
    /\ s \notin gone \union Survivor
    /\ gone' = gone \union {s}
    /\ clock' = [clock EXCEPT ![s] = Idle]
    /\ hold' = [hold EXCEPT ![s] = [l \in Lane |-> Idle]]
    /\ UNCHANGED lane

(* It is resumed under its name, without knowing what it held.             *)
Resume(s) ==
    /\ s \in gone
    /\ gone' = gone \ {s}
    /\ UNCHANGED <<lane, clock, hold>>

DownUnbounded(n, floor) == IF n = Forever THEN n ELSE n - 1    \* seeded fault
Down(n, floor) == IF n = Forever \/ n = floor THEN n ELSE n - 1

Tick ==
    /\ \A s \in Session : clock[s] < LockWait
    /\ lane' = [l \in Lane |-> [lane[l] EXCEPT !.left = Down(@, Over)]]
    /\ hold' = [s \in Session |-> [l \in Lane |-> Down(hold[s][l], Idle)]]
    /\ clock' = [s \in Session |-> IF clock[s] = Idle THEN Idle ELSE clock[s] + 1]
    /\ UNCHANGED gone

Next ==
    \/ \E s \in Session : ReadClock(s) \/ Claim(s) \/ Leave(s) \/ Vanish(s) \/ Resume(s)
    \/ \E s \in Session, l \in Seat : Elect(s, l)
    \/ \E s \in Session, l \in Lane, force \in BOOLEAN : Release(s, l, force)
    \/ Tick

Spec == Init /\ [][Next]_vars

(* Scheduling: time passes, and a surviving session keeps standing for     *)
(* every seat; its transaction gets the lock in the end.                   *)
Fairness ==
    /\ WF_vars(Tick)
    /\ \A s \in Session : WF_vars(Claim(s))
    /\ \A s \in Survivor : WF_vars(ReadClock(s))
    /\ \A s \in Survivor, l \in Seat : SF_vars(Elect(s, l))

FairSpec == Spec /\ Fairness

-----------------------------------------------------------------------------
(* What a session's belief rests on: while it counts its lane as held, the *)
(* row names it and carries the same deadline.                             *)
HoldBacked ==
    \A s \in Session, l \in Lane :
        hold[s][l] >= 0 => lane[l] = [holder |-> s, left |-> hold[s][l]]

(* "first-class mutual exclusion over a named resource" (claudebus.py:57): *)
(* two sessions never count the same lane, or seat, as theirs at one time, *)
(* whatever a claim waited for the lock; a steal or a forced release ends  *)
(* the other's hold by intent.                                             *)
LaneExclusive ==
    \A l \in Lane, s, t \in Session : hold[s][l] >= 0 /\ hold[t][l] >= 0 => s = t

(* "expiry or leave opens the seat" (cmd_elect): a seat whose leader       *)
(* vanished under a lease gets a leader that is there.                     *)
SeatReopens ==
    \A l \in Seat :
        (lane[l].holder \in gone /\ lane[l].left # Forever)
            ~> (lane[l].holder \notin gone)
=============================================================================
