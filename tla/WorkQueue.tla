------------------------------ MODULE WorkQueue ------------------------------
(***************************************************************************)
(* The work queue of claudebus (submit, pipeline, take, done, fail, retry, *)
(* prune).  A queue is the table "tasks"; every command is a short-lived   *)
(* process.  A statement outside BEGIN IMMEDIATE commits by itself, so     *)
(* "fail" is two steps (three when it dead-letters), and "take" reads the  *)
(* clock before it waits for the write lock.                               *)
(*                                                                         *)
(* Time.  A column that holds a deadline is kept as the time left to it    *)
(* (deadline minus clock), which Tick decrements; a deadline that has been *)
(* over for LockWait or longer is Past, and so is the column value 0.      *)
(***************************************************************************)
EXTENDS Integers, FiniteSets

CONSTANTS
    Worker,    \* the bus names that run commands on the queue
    NoOne,     \* claimed_by of a task nobody claimed
    MaxTasks,  \* bound: how many tasks are ever submitted
    Attempts,  \* values of --max-attempts
    Prios,     \* values of --prio
    Leases,    \* values of --lease
    Delays,    \* values of the nack backoff (--delay or 5 * 2^gen)
    Repeats,   \* how many ids of one --after list may be repeated
    Horizon,   \* the longest lease or delay
    LockWait,  \* the longest wait for SQLite's write lock (busy_timeout)
    TaskTTL,   \* a done task is purged when older
    MsgTTL     \* a dead task is purged when older

ASSUME WorkQueueAssumption ==
    /\ NoOne \notin Worker
    /\ MaxTasks \in Nat /\ Horizon \in Nat /\ LockWait \in Nat
    /\ TaskTTL \in Nat /\ MsgTTL \in Nat /\ TaskTTL <= MsgTTL
    /\ Attempts \subseteq Nat /\ Prios \subseteq Int /\ Repeats \subseteq Nat
    /\ Leases \subseteq 1..Horizon /\ Delays \subseteq 0..Horizon

VARIABLES
    tasks,      \* ids of the rows of the table
    row,        \* their columns
    seq,        \* the last AUTOINCREMENT id
    cmd,        \* the command each worker is running, between its steps
    told,       \* tasks whose dead-lettering was sent to the submitter, and
                \* (history) those whose report was lost with a killed fail
    hold,       \* history: time left of the lease each worker was granted
    overrun,    \* history: tasks a fail hit while another worker held them
    started,    \* history: tasks ever handed out
    completed   \* history: tasks ever acknowledged with done

vars == <<tasks, row, seq, cmd, told, hold, overrun, started, completed>>

TaskId == 1..MaxTasks
Past    == -LockWait
Timer   == Past..Horizon
Columns == [by: Worker \union {NoOne}, lease: Timer, notBefore: Timer, gen: Nat,
            done: BOOLEAN, dead: BOOLEAN, prio: Int, maxa: Nat,
            after: SUBSET TaskId, listed: Nat, age: 0..MsgTTL + 1]

(* max_attempts 0 falls back to 3: "gen >= (maxa or 3)".                   *)
Limit(r) == IF r.maxa = 0 THEN 3 ELSE r.maxa
Row == {r \in Columns : r.gen <= Limit(r)}
Ops == {"idle", "take", "requeue", "bury", "tell"}

Idle == [op |-> "idle", task |-> 0, wait |-> 0]

(* The columns a row is inserted with; a deleted row is reset to Fresh.    *)
Fresh == [by |-> NoOne, lease |-> Past, notBefore |-> Past, gen |-> 0,
          done |-> FALSE, dead |-> FALSE, prio |-> 0, maxa |-> 0,
          after |-> {}, listed |-> 0, age |-> 0]

SpentLate(t) == row[t].gen > Limit(row[t])             \* seeded fault
Spent(t) == row[t].gen >= Limit(row[t])

(* SELECT COUNT of the listed ids that are done, compared with how many    *)
(* ids the list has: a purged id or a repeated one is never counted.       *)
DepsPresent(t) == row[t].after \subseteq tasks          \* seeded fault
DepsMet(t) == Cardinality({d \in row[t].after : d \in tasks /\ row[d].done})
                = row[t].listed

(* The candidates of a take whose clock reading is "wait" ticks old.       *)
ReadyLeased(wait) ==                                   \* seeded fault
    {t \in tasks : ~row[t].done /\ ~row[t].dead /\ row[t].notBefore <= -wait}
ReadyUnclaimed(wait) ==                                \* seeded fault
    {t \in tasks : row[t].by = NoOne /\ ~row[t].done /\ ~row[t].dead}
Ready(wait) == {t \in tasks : /\ ~row[t].done /\ ~row[t].dead
                              /\ row[t].lease <= -wait
                              /\ row[t].notBefore <= -wait}

(* ORDER BY prio DESC, id                                                  *)
Before(t, u) == \/ row[t].prio > row[u].prio
                \/ row[t].prio = row[u].prio /\ t < u

Held(t) == \E w \in Worker : hold[w][t] > 0

TypeOK ==
    /\ tasks \in SUBSET (1..seq)
    /\ seq \in 0..MaxTasks
    /\ row \in [TaskId -> Row]
    /\ cmd \in [Worker -> [op: Ops, task: 0..MaxTasks, wait: 0..LockWait]]
    /\ \A w \in Worker : cmd[w].op \in {"requeue", "bury", "tell"} => cmd[w].task \in TaskId
    /\ told \in SUBSET TaskId
    /\ hold \in [Worker -> [TaskId -> 0..Horizon]]
    /\ overrun \in SUBSET TaskId
    /\ started \in SUBSET TaskId
    /\ completed \in SUBSET TaskId

Init ==
    /\ tasks = {} /\ seq = 0
    /\ row = [t \in TaskId |-> Fresh]
    /\ cmd = [w \in Worker |-> Idle]
    /\ told = {} /\ overrun = {} /\ started = {} /\ completed = {}
    /\ hold = [w \in Worker |-> [t \in TaskId |-> 0]]

-----------------------------------------------------------------------------
(* submit --prio --max-attempts --after: the ids need not exist yet, and   *)
(* one may be listed more than once.                                       *)
Submit(p, m, deps, extra) ==
    /\ seq < MaxTasks
    /\ deps = {} => extra = 0
    /\ seq' = seq + 1
    /\ tasks' = tasks \union {seq'}
    /\ row' = [row EXCEPT ![seq'] = [Fresh EXCEPT
                  !.prio = p, !.maxa = m, !.after = deps,
                  !.listed = Cardinality(deps) + extra]]
    /\ UNCHANGED <<cmd, told, hold, overrun, started, completed>>

(* pipeline: n chained rows in one transaction.                            *)
Pipeline(p, m, n) ==
    /\ seq + n <= MaxTasks
    /\ seq' = seq + n
    /\ tasks' = tasks \union (seq + 1)..seq'
    /\ row' = [t \in TaskId |->
                  IF t \in (seq + 1)..seq'
                  THEN LET prev == IF t = seq + 1 THEN {} ELSE {t - 1}
                       IN  [Fresh EXCEPT !.prio = p, !.maxa = m, !.after = prev,
                                         !.listed = Cardinality(prev)]
                  ELSE row[t]]
    /\ UNCHANGED <<cmd, told, hold, overrun, started, completed>>

(* take reads the clock, then waits for the write lock ...                 *)
TakeBegin(w) ==
    /\ cmd[w] = Idle
    /\ cmd' = [cmd EXCEPT ![w] = [op |-> "take", task |-> 0, wait |-> 0]]
    /\ UNCHANGED <<tasks, row, seq, told, hold, overrun, started, completed>>

(* ... and scans the candidates in order under the lock: spent ones are    *)
(* dead-lettered and reported on the way to the first one whose            *)
(* dependencies are done.                                                  *)
TakeCommit(w, lease) ==
    LET wait   == cmd[w].wait
        fit    == {t \in Ready(wait) : ~Spent(t) /\ DepsMet(t)}
        got    == {t \in fit : \A u \in fit \ {t} : Before(t, u)}
        buried == {t \in Ready(wait) : Spent(t) /\ \A g \in got : Before(t, g)}
        left   == lease - wait
    IN  /\ cmd[w].op = "take"
        /\ row' = [t \in TaskId |->
              IF t \in buried THEN [row[t] EXCEPT !.dead = TRUE, !.lease = Past]
              ELSE IF t \in got THEN [row[t] EXCEPT !.by = w, !.lease = left,
                                                    !.gen = @ + 1]
              ELSE row[t]]
        /\ hold' = [hold EXCEPT ![w] = [t \in TaskId |->
              IF t \in got THEN (IF left > 0 THEN left ELSE 0) ELSE @[t]]]
        /\ told' = told \union buried
        /\ started' = started \union got
        /\ cmd' = [cmd EXCEPT ![w] = Idle]
        /\ UNCHANGED <<tasks, seq, overrun, completed>>

(* fail, first statement: the SELECT that checks the claim and decides.    *)
(* From here on the worker has given the task up.                          *)
FailRead(w, t) ==
    /\ cmd[w] = Idle
    /\ t \in tasks /\ row[t].by = w /\ ~row[t].done /\ ~row[t].dead
    /\ cmd' = [cmd EXCEPT ![w] = [op |-> IF Spent(t) THEN "bury" ELSE "requeue",
                                  task |-> t, wait |-> 0]]
    /\ hold' = [hold EXCEPT ![w][t] = 0]
    /\ UNCHANGED <<tasks, row, seq, told, overrun, started, completed>>

(* fail, second statement: the UPDATE by id alone.                         *)
Requeue(w, delay) ==
    LET t == cmd[w].task
    IN  /\ cmd[w].op = "requeue"
        /\ row' = IF t \in tasks
                  THEN [row EXCEPT ![t] = [@ EXCEPT !.lease = Past, !.notBefore = delay]]
                  ELSE row
        /\ overrun' = IF Held(t) THEN overrun \union {t} ELSE overrun
        /\ cmd' = [cmd EXCEPT ![w] = Idle]
        /\ UNCHANGED <<tasks, seq, told, hold, started, completed>>

(* fail on the last attempt: dead=1, by id alone, and then the message.    *)
BurySilently(w) ==                                     \* seeded fault
    LET t == cmd[w].task
    IN  /\ cmd[w].op = "bury" /\ t \in tasks
        /\ row' = [row EXCEPT ![t] = [@ EXCEPT !.dead = TRUE, !.lease = Past]]
        /\ cmd' = [cmd EXCEPT ![w] = Idle]
        /\ UNCHANGED <<tasks, seq, told, hold, overrun, started, completed>>
Bury(w) ==
    LET t == cmd[w].task
    IN  /\ cmd[w].op = "bury"
        /\ row' = IF t \in tasks
                  THEN [row EXCEPT ![t] = [@ EXCEPT !.dead = TRUE, !.lease = Past]]
                  ELSE row
        /\ overrun' = IF Held(t) THEN overrun \union {t} ELSE overrun
        /\ cmd' = [cmd EXCEPT ![w].op = "tell"]
        /\ UNCHANGED <<tasks, seq, told, hold, started, completed>>

Tell(w) ==
    /\ cmd[w].op = "tell"
    /\ told' = told \union {cmd[w].task}
    /\ cmd' = [cmd EXCEPT ![w] = Idle]
    /\ UNCHANGED <<tasks, row, seq, hold, overrun, started, completed>>

(* A command dies between its statements, or its lock wait runs out.       *)
Crash(w) ==
    /\ cmd[w].op # "idle"
    /\ cmd' = [cmd EXCEPT ![w] = Idle]
    /\ told' = IF cmd[w].op = "tell" THEN told \union {cmd[w].task} ELSE told
    /\ UNCHANGED <<tasks, row, seq, hold, overrun, started, completed>>

(* done: one guarded UPDATE; neither the lease nor dead is looked at.      *)
DoneByAnyone(w, t) ==                                  \* seeded fault
    /\ cmd[w] = Idle
    /\ t \in tasks /\ ~row[t].done
    /\ row' = [row EXCEPT ![t].done = TRUE]
    /\ completed' = completed \union {t}
    /\ hold' = [hold EXCEPT ![w][t] = 0]
    /\ UNCHANGED <<tasks, seq, cmd, told, overrun, started>>
Done(w, t) ==
    /\ cmd[w] = Idle
    /\ t \in tasks /\ row[t].by = w /\ ~row[t].done
    /\ row' = [row EXCEPT ![t].done = TRUE]
    /\ completed' = completed \union {t}
    /\ hold' = [hold EXCEPT ![w][t] = 0]
    /\ UNCHANGED <<tasks, seq, cmd, told, overrun, started>>

(* retry: the operator's reset of any undone task; it ends every attempt.  *)
Retry(t) ==
    /\ t \in tasks /\ ~row[t].done
    /\ row' = [row EXCEPT ![t] = [@ EXCEPT !.dead = FALSE, !.gen = 0, !.by = NoOne,
                                           !.lease = Past, !.notBefore = Past]]
    /\ told' = told \ {t}
    /\ hold' = [w \in Worker |-> [hold[w] EXCEPT ![t] = 0]]
    /\ UNCHANGED <<tasks, seq, cmd, overrun, started, completed>>

(* prune, run by any command's heartbeat.                                  *)
Prune ==
    LET old == {t \in tasks : \/ row[t].done /\ row[t].age > TaskTTL
                              \/ row[t].dead /\ row[t].age > MsgTTL}
    IN  /\ old # {}
        /\ tasks' = tasks \ old
        /\ row' = [t \in TaskId |-> IF t \in old THEN Fresh ELSE row[t]]
        /\ UNCHANGED <<seq, cmd, told, hold, overrun, started, completed>>

(* One unit of time.  A lock wait never outlasts LockWait.                 *)
Down(n, floor) == IF n > floor THEN n - 1 ELSE floor

Tick ==
    /\ \A w \in Worker : cmd[w].op = "take" => cmd[w].wait < LockWait
    /\ row' = [t \in TaskId |->
                  IF t \in tasks
                  THEN [row[t] EXCEPT !.lease = Down(@, Past),
                                      !.notBefore = Down(@, Past),
                                      !.age = IF @ > MsgTTL THEN @ ELSE @ + 1]
                  ELSE row[t]]
    /\ hold' = [w \in Worker |-> [t \in TaskId |-> Down(hold[w][t], 0)]]
    /\ cmd' = [w \in Worker |-> IF cmd[w].op = "take"
                                THEN [cmd[w] EXCEPT !.wait = @ + 1] ELSE cmd[w]]
    /\ UNCHANGED <<tasks, seq, told, overrun, started, completed>>

Take(w) == \E lease \in Leases : TakeCommit(w, lease)
Nack(w) == \/ \E t \in TaskId : FailRead(w, t)
           \/ \E delay \in Delays : Requeue(w, delay)
           \/ Bury(w)
           \/ Tell(w)

Next ==
    \/ \E p \in Prios, m \in Attempts, deps \in SUBSET TaskId, extra \in Repeats :
          Submit(p, m, deps, extra)
    \/ \E p \in Prios, m \in Attempts, n \in TaskId : Pipeline(p, m, n)
    \/ \E w \in Worker : TakeBegin(w) \/ Take(w) \/ Nack(w) \/ Crash(w)
    \/ \E w \in Worker, t \in TaskId : Done(w, t)
    \/ \E t \in TaskId : Retry(t)
    \/ Prune
    \/ Tick

Spec == Init /\ [][Next]_vars

(* Scheduling: time passes; some worker keeps polling the queue; a take    *)
(* that keeps asking for the lock gets it; a fail that is not killed ends. *)
Fairness ==
    /\ WF_vars(Tick)
    /\ WF_vars(\E w \in Worker : TakeBegin(w))
    /\ \A w \in Worker : SF_vars(Take(w))
    /\ \A w \in Worker : WF_vars(\/ \E delay \in Delays : Requeue(w, delay)
                                 \/ Bury(w) \/ Tell(w))

FairSpec == Spec /\ Fairness

-----------------------------------------------------------------------------
(* What a live lease rests on: the row still names its holder, still       *)
(* carries its deadline, and is neither done nor dead, unless a fail of an *)
(* earlier holder has overrun the task.                                    *)
LeaseBacked ==
    \A w \in Worker, t \in TaskId :
        t \notin overrun /\ hold[w][t] > 0 =>
            /\ t \in tasks
            /\ row[t].by = w
            /\ row[t].lease = hold[w][t]
            /\ ~row[t].done /\ ~row[t].dead

(* "two workers must not take the same task" (tests/bus/test_bus.py:105):  *)
(* at no time do two workers hold an unexpired lease on one task.  A fail  *)
(* that comes late breaks it.                                              *)
TakenByOneWorker ==
    \A t \in TaskId, v, w \in Worker :
        hold[v][t] > 0 /\ hold[w][t] > 0 => v = w

(* The same for every task no late fail has hit: expiry, the stale clock   *)
(* of a take that waited for the lock, dead-lettering, retry, a crash and  *)
(* purging never put one task in two workers' hands.                       *)
LeaseExclusive ==
    \A t \in TaskId \ overrun, v, w \in Worker :
        hold[v][t] > 0 /\ hold[w][t] > 0 => v = w

(* A task is handed out only after every task of its --after list was      *)
(* acknowledged, whatever has been purged or retried since (_deps_met).    *)
DependenciesFirst ==
    \A t \in started \cap tasks : row[t].after \subseteq completed

(* Nobody is still working under a live lease on a task that is done or    *)
(* dead-lettered: an acknowledgement comes from the last claimant only.    *)
ParkedIsIdle ==
    \A t \in tasks \ overrun : row[t].done \/ row[t].dead => ~Held(t)

(* "park the task out of the take path and tell the submitter"             *)
(* (_dead_letter): every dead task was reported, or the fail that buried   *)
(* it is about to, or was killed before it did.                            *)
DeadLetterReported ==
    \A t \in tasks : row[t].dead =>
        t \in told \/ \E w \in Worker : cmd[w].op = "tell" /\ cmd[w].task = t

(* Operators intervene finitely often: no retry and no nack for ever.      *)
HandsOff ==
    /\ <>[][\A t \in TaskId : ~Retry(t)]_vars
    /\ <>[][\A w \in Worker, t \in TaskId : ~FailRead(w, t)]_vars

(* "failures surface instead of looping forever" (_dead_letter): a task    *)
(* once handed out is in the end acknowledged, dead-lettered, reset by an  *)
(* operator or blocked by its dependencies, even if every worker that      *)
(* takes it dies.                                                          *)
HandedOutSettles ==
    HandsOff => \A t \in TaskId :
        (t \in tasks /\ row[t].gen > 0)
            ~> \/ t \notin tasks \/ row[t].done \/ row[t].dead
               \/ row[t].gen = 0 \/ ~DepsMet(t)

(* "workers drain it in order" (cmd_pipeline): once every task a task      *)
(* waits for has been acknowledged, the task is handed out.  The purge of  *)
(* a done task breaks it.                                                  *)
PipelineDrains ==
    HandsOff => \A t \in TaskId :
        (t \in tasks /\ row[t].after \subseteq completed
            /\ row[t].listed = Cardinality(row[t].after))
            ~> (t \in started)
=============================================================================
