--------------------------- MODULE WorkQueueProofs ---------------------------
(***************************************************************************)
(* Proofs about WorkQueue, for any workers, leases and bounds.             *)
(***************************************************************************)
EXTENDS WorkQueue, FiniteSetTheorems, TLAPS

(* A deadline that comes one unit closer stays a deadline.                 *)
LEMMA DownTimer ==
    ASSUME NEW n \in Timer
    PROVE  Down(n, Past) \in Timer
BY WorkQueueAssumption DEF Down, Timer, Past

LEMMA DownHold ==
    ASSUME NEW n \in 0..Horizon
    PROVE  Down(n, 0) \in 0..Horizon
BY WorkQueueAssumption DEF Down

LEMMA PastTimer == Past \in Timer /\ Past \in Int
BY WorkQueueAssumption DEF Timer, Past

LEMMA RowIff == \A r : r \in Row <=> r \in Columns /\ r.gen <= Limit(r)
BY DEF Row

(* The column updates of the commands turn rows into rows.                 *)
LEMMA FreshRow == Fresh \in Row
BY PastTimer, WorkQueueAssumption DEF Fresh, Columns, Limit, Row

LEMMA SubmittedRow ==
    ASSUME NEW p \in Prios, NEW m \in Attempts, NEW deps \in SUBSET TaskId, NEW n \in Nat
    PROVE  [Fresh EXCEPT !.prio = p, !.maxa = m, !.after = deps, !.listed = n] \in Row
<1> DEFINE new == [Fresh EXCEPT !.prio = p, !.maxa = m, !.after = deps, !.listed = n]
<1>1. Fresh \in Columns /\ p \in Int /\ m \in Nat
  BY FreshRow, WorkQueueAssumption DEF Row
<1>2. new \in Columns
  BY <1>1 DEF Columns
<1>3. new.gen = 0 /\ new.maxa = m
  BY DEF Fresh
<1> HIDE DEF new
<1>4. 0 <= Limit(new)
  BY <1>1, <1>3 DEF Limit
<1>5. new \in Row
  BY <1>2, <1>3, <1>4, RowIff
<1> QED
  BY <1>5 DEF new

(* A change of columns that leaves max_attempts alone and gen alone or 0.  *)
LEMMA SameLimit ==
    ASSUME NEW r \in Row, NEW s \in Columns, s.maxa = r.maxa, s.gen = r.gen \/ s.gen = 0
    PROVE  s \in Row
<1>1. r \in Columns /\ r.gen <= Limit(r)
  BY RowIff
<1>2. Limit(s) = Limit(r)
  BY DEF Limit
<1>3. 0 <= Limit(r)
  BY <1>1 DEF Limit, Columns
<1> QED
  BY <1>1, <1>2, <1>3, RowIff

LEMMA UpdatedRow ==
    ASSUME NEW r \in Row, NEW l \in Timer, NEW b \in Timer
    PROVE  /\ [r EXCEPT !.dead = TRUE, !.lease = l] \in Row
           /\ [r EXCEPT !.lease = l, !.notBefore = b] \in Row
           /\ [r EXCEPT !.done = TRUE] \in Row
           /\ [r EXCEPT !.dead = FALSE, !.gen = 0, !.by = NoOne,
                         !.lease = l, !.notBefore = b] \in Row
<1>0. r \in Columns
  BY RowIff
<1>1. [r EXCEPT !.dead = TRUE, !.lease = l] \in Row
  <2> DEFINE s == [r EXCEPT !.dead = TRUE, !.lease = l]
  <2>1. s \in Columns /\ s.gen = r.gen /\ s.maxa = r.maxa
     BY <1>0 DEF Columns
  <2> QED BY <2>1, SameLimit
<1>2. [r EXCEPT !.lease = l, !.notBefore = b] \in Row
  <2> DEFINE s == [r EXCEPT !.lease = l, !.notBefore = b]
  <2>1. s \in Columns /\ s.gen = r.gen /\ s.maxa = r.maxa
     BY <1>0 DEF Columns
  <2> QED BY <2>1, SameLimit
<1>3. [r EXCEPT !.dead = FALSE, !.gen = 0, !.by = NoOne,
                         !.lease = l, !.notBefore = b] \in Row
  <2> DEFINE s == [r EXCEPT !.dead = FALSE, !.gen = 0, !.by = NoOne,
                         !.lease = l, !.notBefore = b]
  <2>1. s \in Columns /\ s.gen = 0 /\ s.maxa = r.maxa
     BY <1>0 DEF Columns
  <2> QED BY <2>1, SameLimit
<1>4. [r EXCEPT !.done = TRUE] \in Row
  <2> DEFINE s == [r EXCEPT !.done = TRUE]
  <2>1. s \in Columns /\ s.gen = r.gen /\ s.maxa = r.maxa
     BY <1>0 DEF Columns
  <2> QED BY <2>1, SameLimit
<1> QED BY <1>1, <1>2, <1>3, <1>4

LEMMA AgedRow ==
    ASSUME NEW r \in Row, NEW l \in Timer, NEW b \in Timer, NEW a \in 0..MsgTTL + 1
    PROVE  [r EXCEPT !.lease = l, !.notBefore = b, !.age = a] \in Row
<1> DEFINE s == [r EXCEPT !.lease = l, !.notBefore = b, !.age = a]
<1>0. r \in Columns
  BY RowIff
<1>1. s \in Columns /\ s.gen = r.gen /\ s.maxa = r.maxa
  BY <1>0 DEF Columns
<1> QED
  BY <1>1, SameLimit

LEMMA TakenRow ==
    ASSUME NEW r \in Row, ~(r.gen >= Limit(r)), NEW w \in Worker, NEW l \in Timer
    PROVE  [r EXCEPT !.by = w, !.lease = l, !.gen = @ + 1] \in Row
<1> DEFINE new == [r EXCEPT !.by = w, !.lease = l, !.gen = @ + 1]
<1>0. r \in Columns
  BY RowIff
<1>1. r.gen + 1 \in Nat /\ r.gen \in Nat /\ r.maxa \in Nat
  BY <1>0 DEF Columns
<1>2. new \in Columns
  BY <1>0, <1>1 DEF Columns
<1>3. new.gen = r.gen + 1 /\ new.maxa = r.maxa
  BY <1>0 DEF Columns
<1> HIDE DEF new
<1>4. Limit(new) = Limit(r)
  BY <1>3 DEF Limit
<1>6. Limit(r) \in Nat
  BY <1>1 DEF Limit
<1>5. new \in Row
  BY <1>1, <1>2, <1>3, <1>4, <1>6, RowIff
<1> QED
  BY <1>5 DEF new

LEMMA TaskIdFinite == IsFiniteSet(TaskId)
BY WorkQueueAssumption, FS_Interval DEF TaskId

LEMMA DepsFinite ==
    ASSUME NEW deps \in SUBSET TaskId
    PROVE  IsFiniteSet(deps) /\ Cardinality(deps) \in Nat
BY TaskIdFinite, FS_Subset, FS_CardinalityType

LEMMA TasksAreIds == TypeOK => tasks \subseteq TaskId
<1> SUFFICES ASSUME TypeOK PROVE tasks \subseteq TaskId
    OBVIOUS
<1>1. tasks \subseteq 1..seq /\ seq \in 0..MaxTasks
  BY DEF TypeOK
<1> QED
  BY <1>1, WorkQueueAssumption DEF TaskId

(* The types of the state: the columns, the commands in flight and the     *)
(* attempt counter, which never passes --max-attempts.                     *)
LEMMA TypeInit == Init => TypeOK
BY FreshRow, WorkQueueAssumption DEF Init, TypeOK, Idle, Ops

LEMMA TypeStep == TypeOK /\ [Next]_vars => TypeOK'
<1> SUFFICES ASSUME TypeOK, [Next]_vars
             PROVE  TypeOK'
    OBVIOUS
<1> USE WorkQueueAssumption
<1>1. ASSUME NEW p \in Prios, NEW m \in Attempts, NEW deps \in SUBSET TaskId,
             NEW extra \in Repeats, Submit(p, m, deps, extra)
      PROVE  TypeOK'
  <2> DEFINE new == [Fresh EXCEPT !.prio = p, !.maxa = m, !.after = deps,
                                  !.listed = Cardinality(deps) + extra]
  <2>1. Cardinality(deps) + extra \in Nat
    BY DepsFinite
  <2>2. new \in Row
    BY <2>1, SubmittedRow
  <2>3. row' = [row EXCEPT ![seq'] = new]
    BY <1>1 DEF Submit
  <2> HIDE DEF new
  <2>4. row' \in [TaskId -> Row]
    BY <2>2, <2>3 DEF TypeOK
  <2>5. tasks' \in SUBSET (1..seq') /\ seq' \in 0..MaxTasks
    BY <1>1 DEF Submit, TypeOK
  <2> QED
    BY <1>1, <2>4, <2>5 DEF Submit, TypeOK
<1>2. ASSUME NEW p \in Prios, NEW m \in Attempts, NEW n \in TaskId, Pipeline(p, m, n)
      PROVE  TypeOK'
  <2> DEFINE prev(t) == IF t = seq + 1 THEN {} ELSE {t - 1}
             new(t)  == [Fresh EXCEPT !.prio = p, !.maxa = m, !.after = prev(t),
                                      !.listed = Cardinality(prev(t))]
  <2>1. row' = [t \in TaskId |-> IF t \in (seq + 1)..seq' THEN new(t) ELSE row[t]]
    BY <1>2 DEF Pipeline
  <2>2. ASSUME NEW t \in TaskId, t \in (seq + 1)..seq'
        PROVE  new(t) \in Row
    <3>1. prev(t) \in SUBSET TaskId
      BY <2>2 DEF TypeOK, TaskId
    <3>2. Cardinality(prev(t)) \in Nat
      BY <3>1, DepsFinite
    <3> HIDE DEF prev
    <3> QED
      BY <3>1, <3>2, SubmittedRow
  <2> HIDE DEF new
  <2>3. row' \in [TaskId -> Row]
    BY <2>1, <2>2 DEF TypeOK
  <2>4. seq + n <= MaxTasks /\ seq' = seq + n /\ tasks' = tasks \union (seq + 1)..seq'
    BY <1>2 DEF Pipeline
  <2>5. seq \in Nat /\ n \in Nat /\ seq' \in 0..MaxTasks /\ tasks \in SUBSET (1..seq)
    BY <2>4 DEF TypeOK, TaskId
  <2>6. tasks' \in SUBSET (1..seq')
    BY <2>4, <2>5
  <2> QED
    BY <1>2, <2>3, <2>5, <2>6 DEF Pipeline, TypeOK
<1>3. ASSUME NEW w \in Worker, TakeBegin(w) PROVE TypeOK'
  BY <1>3 DEF TakeBegin, TypeOK, Ops
<1>4. ASSUME NEW w \in Worker, NEW lease \in Leases, TakeCommit(w, lease) PROVE TypeOK'
  <2> DEFINE wait   == cmd[w].wait
             fit    == {t \in Ready(wait) : ~Spent(t) /\ DepsMet(t)}
             got    == {t \in fit : \A u \in fit \ {t} : Before(t, u)}
             buried == {t \in Ready(wait) : Spent(t) /\ \A g \in got : Before(t, g)}
             left   == lease - wait
  <2>1. left \in Timer /\ (left > 0 => left \in 0..Horizon)
    BY DEF TypeOK, Timer, Past
  <2>2. Ready(wait) \subseteq TaskId
    <3>1. tasks \subseteq TaskId
      BY TasksAreIds
    <3> QED
      BY <3>1 DEF Ready
  <2>3. got \in SUBSET TaskId /\ buried \in SUBSET TaskId /\ \A t \in got : ~Spent(t)
    BY <2>2
  <2>4. /\ row' = [t \in TaskId |->
              IF t \in buried THEN [row[t] EXCEPT !.dead = TRUE, !.lease = Past]
              ELSE IF t \in got THEN [row[t] EXCEPT !.by = w, !.lease = left,
                                                    !.gen = @ + 1]
              ELSE row[t]]
        /\ hold' = [hold EXCEPT ![w] = [t \in TaskId |->
              IF t \in got THEN (IF left > 0 THEN left ELSE 0) ELSE @[t]]]
        /\ told' = told \union buried
        /\ started' = started \union got
        /\ cmd' = [cmd EXCEPT ![w] = Idle]
        /\ UNCHANGED <<tasks, seq, overrun, completed>>
    BY <1>4 DEF TakeCommit
  <2> HIDE DEF got, buried, left
  <2>5. ASSUME NEW t \in TaskId PROVE row'[t] \in Row
    <3>1. row[t] \in Row
      BY DEF TypeOK
    <3>2. CASE t \in buried
      <4>1. [row[t] EXCEPT !.dead = TRUE, !.lease = Past] \in Row
        BY <3>1, PastTimer, UpdatedRow
      <4> QED
        BY <2>4, <3>2, <4>1
    <3>3. CASE t \in got /\ t \notin buried
      <4>1. ~(row[t].gen >= Limit(row[t]))
        BY <2>3, <3>3 DEF Spent
      <4>2. row'[t] = [row[t] EXCEPT !.by = w, !.lease = left, !.gen = @ + 1]
        BY <2>4, <3>3
      <4>3. [row[t] EXCEPT !.by = w, !.lease = left, !.gen = @ + 1] \in Row
        BY <2>1, <3>1, <4>1, TakenRow
      <4> QED
        BY <4>2, <4>3
    <3>4. CASE t \notin got /\ t \notin buried
      BY <2>4, <3>1, <3>4
    <3> QED
      BY <3>2, <3>3, <3>4
  <2>6. row' \in [TaskId -> Row]
    BY <2>4, <2>5
  <2>7. hold' \in [Worker -> [TaskId -> 0..Horizon]]
    <3> DEFINE new == [t \in TaskId |->
              IF t \in got THEN (IF left > 0 THEN left ELSE 0) ELSE hold[w][t]]
    <3>1. new \in [TaskId -> 0..Horizon]
      BY <2>1 DEF TypeOK
    <3>2. hold' = [hold EXCEPT ![w] = new]
      BY <2>4
    <3> QED
      BY <3>1, <3>2 DEF TypeOK
  <2>8. /\ cmd' \in [Worker -> [op: Ops, task: 0..MaxTasks, wait: 0..LockWait]]
        /\ \A v \in Worker : cmd'[v].op \in {"requeue", "bury", "tell"}
                                    => cmd'[v].task \in TaskId
    <3>1. /\ Idle \in [op: Ops, task: 0..MaxTasks, wait: 0..LockWait]
          /\ Idle.op = "idle"
      BY DEF Idle, Ops
    <3> QED
      BY <2>4, <3>1 DEF TypeOK
  <2> QED
    BY <2>3, <2>4, <2>6, <2>7, <2>8 DEF TypeOK
<1>5. ASSUME NEW w \in Worker, Nack(w) PROVE TypeOK'
  <2>1. ASSUME NEW t \in TaskId, FailRead(w, t) PROVE TypeOK'
    <3>1. PICK op \in {"requeue", "bury"} :
             cmd' = [cmd EXCEPT ![w] = [op |-> op, task |-> t, wait |-> 0]]
      BY <2>1 DEF FailRead
    <3>2. /\ UNCHANGED <<tasks, row, seq, told, overrun, started, completed>>
          /\ hold' = [hold EXCEPT ![w][t] = 0]
      BY <2>1 DEF FailRead
    <3>3. [op |-> op, task |-> t, wait |-> 0]
             \in [op: Ops, task: 0..MaxTasks, wait: 0..LockWait]
      BY DEF Ops, TaskId
    <3>4. cmd' \in [Worker -> [op: Ops, task: 0..MaxTasks, wait: 0..LockWait]]
      BY <3>1, <3>3 DEF TypeOK
    <3>5. \A v \in Worker : cmd'[v].op \in {"requeue", "bury", "tell"}
                             => cmd'[v].task \in TaskId
      BY <3>1 DEF TypeOK
    <3>6. hold' \in [Worker -> [TaskId -> 0..Horizon]]
      BY <3>2 DEF TypeOK
    <3> QED
      BY <3>2, <3>4, <3>5, <3>6 DEF TypeOK
  <2>2. ASSUME NEW delay \in Delays, Requeue(w, delay) PROVE TypeOK'
    <3>1. cmd[w].task \in TaskId /\ delay \in Timer
      BY <2>2, PastTimer DEF Requeue, TypeOK, Timer, Past
    <3>2. row' \in [TaskId -> Row]
      <4> DEFINE t == cmd[w].task
      <4>1. [row[t] EXCEPT !.lease = Past, !.notBefore = delay] \in Row
        BY <3>1, PastTimer, UpdatedRow DEF TypeOK
      <4> QED
        BY <2>2, <4>1 DEF Requeue, TypeOK
    <3> QED
      BY <2>2, <3>1, <3>2 DEF Requeue, TypeOK, Idle, Ops
  <2>3. CASE Bury(w)
    <3>1. cmd[w].task \in TaskId
      BY <2>3 DEF Bury, TypeOK
    <3>2. row' \in [TaskId -> Row]
      <4> DEFINE t == cmd[w].task
      <4>1. [row[t] EXCEPT !.dead = TRUE, !.lease = Past] \in Row
        BY <3>1, PastTimer, UpdatedRow DEF TypeOK
      <4> QED
        BY <2>3, <4>1 DEF Bury, TypeOK
    <3> QED
      BY <2>3, <3>1, <3>2 DEF Bury, TypeOK, Ops
  <2>4. CASE Tell(w)
    BY <2>4 DEF Tell, TypeOK, Idle, Ops
  <2> QED
    BY <1>5, <2>1, <2>2, <2>3, <2>4 DEF Nack
<1>6. ASSUME NEW w \in Worker, Crash(w) PROVE TypeOK'
  BY <1>6 DEF Crash, TypeOK, Idle, Ops
<1>7. ASSUME NEW w \in Worker, NEW t \in TaskId, Done(w, t) PROVE TypeOK'
  <2>1. row' \in [TaskId -> Row]
    <3>1. [row[t] EXCEPT !.done = TRUE] \in Row
      BY PastTimer, UpdatedRow DEF TypeOK
    <3> QED
      BY <1>7, <3>1 DEF Done, TypeOK
  <2> QED
    BY <1>7, <2>1 DEF Done, TypeOK
<1>8. ASSUME NEW t \in TaskId, Retry(t) PROVE TypeOK'
  <2>1. row' \in [TaskId -> Row]
    <3>1. [row[t] EXCEPT !.dead = FALSE, !.gen = 0, !.by = NoOne,
                         !.lease = Past, !.notBefore = Past] \in Row
      BY PastTimer, UpdatedRow DEF TypeOK
    <3> QED
      BY <1>8, <3>1 DEF Retry, TypeOK
  <2> QED
    BY <1>8, <2>1 DEF Retry, TypeOK
<1>9. CASE Prune
  BY <1>9, FreshRow DEF Prune, TypeOK
<1>10. CASE Tick
  <2>1. ASSUME NEW t \in TaskId PROVE row'[t] \in Row
    <3> DEFINE r == row[t]
               a == IF r.age > MsgTTL THEN r.age ELSE r.age + 1
    <3>1. r \in Row
      BY DEF TypeOK
    <3>2. r.lease \in Timer /\ r.notBefore \in Timer /\ a \in 0..MsgTTL + 1
      BY <3>1 DEF Row, Columns
    <3>3. Down(r.lease, Past) \in Timer /\ Down(r.notBefore, Past) \in Timer
      BY <3>2, DownTimer
    <3>4. \/ row'[t] = r
          \/ row'[t] = [r EXCEPT !.lease = Down(r.lease, Past),
                                 !.notBefore = Down(r.notBefore, Past), !.age = a]
      BY <1>10 DEF Tick
    <3> HIDE DEF a, r
    <3> QED
      <4>1. [r EXCEPT !.lease = Down(r.lease, Past),
                      !.notBefore = Down(r.notBefore, Past), !.age = a] \in Row
        BY <3>1, <3>2, <3>3, AgedRow
      <4> QED
        BY <3>1, <3>4, <4>1 DEF r
  <2>2. row' \in [TaskId -> Row]
    BY <1>10, <2>1 DEF Tick
  <2>3. hold' \in [Worker -> [TaskId -> 0..Horizon]]
    BY <1>10, DownHold DEF Tick, TypeOK
  <2>4. ASSUME NEW w \in Worker
        PROVE  /\ cmd'[w] \in [op: Ops, task: 0..MaxTasks, wait: 0..LockWait]
               /\ cmd'[w].op = cmd[w].op /\ cmd'[w].task = cmd[w].task
    <3>1. cmd[w] \in [op: Ops, task: 0..MaxTasks, wait: 0..LockWait]
      BY DEF TypeOK
    <3>2. CASE cmd[w].op = "take"
      <4>1. cmd[w].wait + 1 \in 0..LockWait
        <5>1. cmd[w].wait < LockWait
          BY <1>10, <3>2 DEF Tick
        <5> QED
          BY <3>1, <5>1
      <4>2. cmd'[w] = [cmd[w] EXCEPT !.wait = cmd[w].wait + 1]
        BY <1>10, <3>2 DEF Tick
      <4> QED
        BY <3>1, <4>1, <4>2
    <3>3. CASE cmd[w].op # "take"
      BY <1>10, <3>1, <3>3 DEF Tick
    <3> QED
      BY <3>2, <3>3
  <2>5. cmd' \in [Worker -> [op: Ops, task: 0..MaxTasks, wait: 0..LockWait]]
    BY <1>10, <2>4 DEF Tick
  <2> QED
    BY <1>10, <2>2, <2>3, <2>4, <2>5 DEF Tick, TypeOK
<1>11. CASE UNCHANGED vars
  BY <1>11 DEF vars, TypeOK
<1> QED
  BY <1>1, <1>2, <1>3, <1>4, <1>5, <1>6, <1>7, <1>8, <1>9, <1>10, <1>11 DEF Next, Take

(* The queue's state keeps its types for any workers, leases and bounds.   *)
THEOREM TypeCorrect == Spec => []TypeOK
BY TypeInit, TypeStep, PTL DEF Spec

-----------------------------------------------------------------------------
(* LeaseBacked is inductive: a take hands out only tasks whose lease is    *)
(* over, and an overrun is recorded when a fail zeroes a live one.         *)
Backed(w, t) ==
    /\ t \in tasks
    /\ row[t].by = w
    /\ row[t].lease = hold[w][t]
    /\ ~row[t].done /\ ~row[t].dead

LEMMA LeaseStep == TypeOK /\ LeaseBacked /\ [Next]_vars => LeaseBacked'
<1> SUFFICES ASSUME TypeOK, LeaseBacked, [Next]_vars,
                    NEW w \in Worker, NEW t \in TaskId,
                    t \notin overrun', hold'[w][t] > 0
             PROVE  Backed(w, t)'
    BY DEF LeaseBacked, Backed
<1> USE WorkQueueAssumption
<1>0. hold[w][t] \in Nat /\ row[t] \in Columns /\ hold \in [Worker -> [TaskId -> 0..Horizon]]
  BY RowIff DEF TypeOK
<1>a. t \notin overrun /\ hold[w][t] > 0 => Backed(w, t)
  BY DEF LeaseBacked, Backed
<1>1. ASSUME NEW p \in Prios, NEW m \in Attempts, NEW deps \in SUBSET TaskId,
             NEW extra \in Repeats, Submit(p, m, deps, extra)
      PROVE  Backed(w, t)'
  <2>1. Backed(w, t)
    BY <1>1, <1>a DEF Submit
  <2>2. seq' = seq + 1 /\ tasks' = tasks \union {seq'} /\ hold' = hold
    BY <1>1 DEF Submit
  <2>3. t # seq'
    BY <2>1, <2>2 DEF Backed, TypeOK
  <2>4. row'[t] = row[t]
    BY <1>1, <2>3 DEF Submit, TypeOK
  <2> QED
    BY <2>1, <2>2, <2>4 DEF Backed
<1>2. ASSUME NEW p \in Prios, NEW m \in Attempts, NEW n \in TaskId, Pipeline(p, m, n)
      PROVE  Backed(w, t)'
  <2>1. Backed(w, t)
    BY <1>2, <1>a DEF Pipeline
  <2>2. seq' = seq + n /\ tasks' = tasks \union (seq + 1)..seq' /\ hold' = hold
    BY <1>2 DEF Pipeline
  <2>3. t \notin (seq + 1)..seq'
    BY <2>1, <2>2 DEF Backed, TypeOK
  <2>4. row'[t] = row[t]
    BY <1>2, <2>3 DEF Pipeline
  <2> QED
    BY <2>1, <2>2, <2>4 DEF Backed
<1>3. ASSUME NEW v \in Worker, TakeBegin(v) PROVE Backed(w, t)'
  BY <1>3, <1>a DEF TakeBegin, Backed
<1>4. ASSUME NEW v \in Worker, NEW lease \in Leases, TakeCommit(v, lease)
      PROVE  Backed(w, t)'
  <2> DEFINE wait   == cmd[v].wait
             fit    == {u \in Ready(wait) : ~Spent(u) /\ DepsMet(u)}
             got    == {u \in fit : \A x \in fit \ {u} : Before(u, x)}
             buried == {u \in Ready(wait) : Spent(u) /\ \A g \in got : Before(u, g)}
             left   == lease - wait
  <2>1. wait \in Nat /\ left \in Int
    <3>1. cmd[v] \in [op: Ops, task: 0..MaxTasks, wait: 0..LockWait]
      BY DEF TypeOK
    <3>2. cmd[v].wait \in 0..LockWait
      BY <3>1
    <3>3. LockWait \in Nat /\ Horizon \in Nat /\ lease \in 1..Horizon
      BY WorkQueueAssumption
    <3> QED
      BY <3>2, <3>3
  <2>2. /\ row' = [u \in TaskId |->
              IF u \in buried THEN [row[u] EXCEPT !.dead = TRUE, !.lease = Past]
              ELSE IF u \in got THEN [row[u] EXCEPT !.by = v, !.lease = left,
                                                    !.gen = @ + 1]
              ELSE row[u]]
        /\ hold' = [hold EXCEPT ![v] = [u \in TaskId |->
              IF u \in got THEN (IF left > 0 THEN left ELSE 0) ELSE @[u]]]
        /\ overrun' = overrun /\ tasks' = tasks
    BY <1>4 DEF TakeCommit
  <2>3. t \in Ready(wait) => /\ row[t].lease <= 0 /\ ~row[t].done /\ ~row[t].dead
                             /\ t \in tasks
    BY <2>1, <1>0 DEF Ready, Columns, Timer, Past
  <2>4. t \in got => t \in Ready(wait) /\ t \notin buried
    OBVIOUS
  <2>5. t \in buried => t \in Ready(wait)
    OBVIOUS
  <2> HIDE DEF got, buried, wait, left
  <2>6. CASE t \in got /\ w = v
    <3>1. left > 0 /\ hold'[w][t] = left
      <4>1. hold'[v] = [u \in TaskId |->
                IF u \in got THEN (IF left > 0 THEN left ELSE 0) ELSE hold[v][u]]
        BY <2>2, <1>0
      <4>2. hold'[v][t] = IF left > 0 THEN left ELSE 0
        BY <4>1, <2>6
      <4> QED
        BY <4>2, <2>1, <2>6
    <3>2. row'[t] = [row[t] EXCEPT !.by = v, !.lease = left, !.gen = @ + 1]
      BY <2>2, <2>4, <2>6
    <3>3. row'[t].by = v /\ row'[t].lease = left /\ row'[t].done = row[t].done
          /\ row'[t].dead = row[t].dead
      BY <3>2, <1>0 DEF Columns
    <3> QED
      BY <2>2, <2>3, <2>4, <2>6, <3>1, <3>3 DEF Backed
  <2>7. CASE ~(t \in got /\ w = v)
    <3>1. hold'[w][t] = hold[w][t]
      BY <2>2, <2>7, <1>0
    <3>2. Backed(w, t)
      BY <2>2, <3>1, <1>a
    <3>3. t \notin Ready(wait)
      BY <2>3, <3>1, <3>2, <1>0 DEF Backed
    <3>4. row'[t] = row[t]
      BY <2>2, <2>4, <2>5, <3>3
    <3> QED
      BY <2>2, <3>1, <3>2, <3>4 DEF Backed
  <2> QED
    BY <2>6, <2>7
<1>5. ASSUME NEW v \in Worker, Nack(v) PROVE Backed(w, t)'
  <2>1. ASSUME NEW u \in TaskId, FailRead(v, u) PROVE Backed(w, t)'
    <3>1. hold'[w][t] = hold[w][t]
      BY <2>1, <1>0 DEF FailRead
    <3> QED
      BY <2>1, <3>1, <1>a DEF FailRead, Backed
  <2>2. ASSUME NEW delay \in Delays, Requeue(v, delay) PROVE Backed(w, t)'
    <3>1. hold' = hold /\ tasks' = tasks /\ overrun \subseteq overrun'
      BY <2>2 DEF Requeue
    <3>2. Backed(w, t)
      BY <3>1, <1>a
    <3>3. t # cmd[v].task
      BY <2>2, <3>1 DEF Requeue, Held
    <3>4. row'[t] = row[t]
      BY <2>2, <3>3 DEF Requeue, TypeOK
    <3> QED
      BY <3>1, <3>2, <3>4 DEF Backed
  <2>3. CASE Bury(v)
    <3>1. hold' = hold /\ tasks' = tasks /\ overrun \subseteq overrun'
      BY <2>3 DEF Bury
    <3>2. Backed(w, t)
      BY <3>1, <1>a
    <3>3. t # cmd[v].task
      BY <2>3, <3>1 DEF Bury, Held
    <3>4. row'[t] = row[t]
      BY <2>3, <3>3 DEF Bury, TypeOK
    <3> QED
      BY <3>1, <3>2, <3>4 DEF Backed
  <2>4. CASE Tell(v)
    BY <2>4, <1>a DEF Tell, Backed
  <2> QED
    BY <1>5, <2>1, <2>2, <2>3, <2>4 DEF Nack
<1>6. ASSUME NEW v \in Worker, Crash(v) PROVE Backed(w, t)'
  BY <1>6, <1>a DEF Crash, Backed
<1>7. ASSUME NEW v \in Worker, NEW u \in TaskId, Done(v, u) PROVE Backed(w, t)'
  <2>1. hold' = [hold EXCEPT ![v][u] = 0] /\ tasks' = tasks /\ overrun' = overrun
        /\ row[u].by = v /\ row' = [row EXCEPT ![u].done = TRUE]
    BY <1>7 DEF Done
  <2>2. hold'[w][t] = hold[w][t] /\ ~(w = v /\ t = u)
    BY <2>1, <1>0
  <2>3. Backed(w, t)
    BY <2>1, <2>2, <1>a
  <2>4. t # u
    BY <2>1, <2>2, <2>3 DEF Backed
  <2>5. row'[t] = row[t]
    BY <2>1, <2>4 DEF TypeOK
  <2> QED
    BY <2>1, <2>2, <2>3, <2>5 DEF Backed
<1>8. ASSUME NEW u \in TaskId, Retry(u) PROVE Backed(w, t)'
  <2>1. t # u /\ hold'[w][t] = hold[w][t]
    BY <1>8, <1>0 DEF Retry
  <2>2. Backed(w, t)
    BY <1>8, <2>1, <1>a DEF Retry
  <2>3. row'[t] = row[t] /\ tasks' = tasks
    BY <1>8, <2>1 DEF Retry, TypeOK
  <2> QED
    BY <2>1, <2>2, <2>3 DEF Backed
<1>9. CASE Prune
  <2>1. Backed(w, t) /\ hold' = hold
    BY <1>9, <1>a DEF Prune
  <2>2. t \in tasks' /\ row'[t] = row[t]
    BY <1>9, <2>1 DEF Prune, Backed
  <2> QED
    BY <2>1, <2>2 DEF Backed
<1>10. CASE Tick
  <2>1. hold'[w][t] = Down(hold[w][t], 0) /\ tasks' = tasks /\ overrun' = overrun
    BY <1>10 DEF Tick
  <2>2. hold[w][t] > 0 /\ hold'[w][t] = hold[w][t] - 1
    BY <2>1, <1>0 DEF Down
  <2>3. Backed(w, t)
    BY <2>1, <2>2, <1>a
  <2>4. row'[t] = [row[t] EXCEPT !.lease = Down(@, Past),
                                 !.notBefore = Down(@, Past),
                                 !.age = IF @ > MsgTTL THEN @ ELSE @ + 1]
    BY <1>10, <2>3 DEF Tick, Backed
  <2>5. /\ row'[t].by = row[t].by /\ row'[t].done = row[t].done
        /\ row'[t].dead = row[t].dead /\ row'[t].lease = Down(row[t].lease, Past)
    BY <2>4, <1>0 DEF Columns
  <2>6. Down(row[t].lease, Past) = row[t].lease - 1
    BY <2>2, <2>3, <1>0 DEF Down, Backed, Past
  <2> QED
    BY <2>1, <2>2, <2>3, <2>5, <2>6 DEF Backed
<1>11. CASE UNCHANGED vars
  BY <1>11, <1>a DEF vars, Backed
<1> QED
  BY <1>1, <1>2, <1>3, <1>4, <1>5, <1>6, <1>7, <1>8, <1>9, <1>10, <1>11 DEF Next, Take

LEMMA LeaseInit == Init => LeaseBacked
BY DEF Init, LeaseBacked

(* Every live lease is backed by its row, unless a fail overran the task.  *)
THEOREM LeaseIsBacked == Spec => []LeaseBacked
BY TypeCorrect, LeaseInit, LeaseStep, PTL DEF Spec

LEMMA BackedExclusive == LeaseBacked => LeaseExclusive
BY DEF LeaseBacked, LeaseExclusive

LEMMA BackedIdle == LeaseBacked /\ TypeOK => ParkedIsIdle
BY TasksAreIds DEF LeaseBacked, ParkedIsIdle, Held

(* No two workers hold a live lease on a task that no fail overran,        *)
(* whatever expiries, stale clocks, retries, crashes and purges happen.    *)
THEOREM ExclusiveLease == Spec => []LeaseExclusive
BY LeaseIsBacked, BackedExclusive, PTL

(* A done or dead-lettered task is in nobody's hands.                      *)
THEOREM ParkedTasksIdle == Spec => []ParkedIsIdle
BY LeaseIsBacked, TypeCorrect, BackedIdle, PTL

-----------------------------------------------------------------------------
(* The COUNT of _deps_met equals the length of the list only when every    *)
(* listed task is done, because a list is at least as long as its set.     *)
LEMMA CountIsAll ==
    ASSUME NEW deps \in SUBSET TaskId, NEW S \in SUBSET deps, NEW n \in Nat,
           Cardinality(deps) <= n, Cardinality(S) = n
    PROVE  S = deps
<1>1. IsFiniteSet(deps) /\ Cardinality(deps) \in Nat
  BY DepsFinite
<1>2. Cardinality(S) <= Cardinality(deps)
      /\ (Cardinality(S) = Cardinality(deps) => S = deps)
  BY <1>1, FS_Subset
<1> QED
  BY <1>1, <1>2

(* What DependenciesFirst rests on: an id is handed out only after it was  *)
(* assigned, done rows were acknowledged, and lists cover their sets.      *)
DepsInv ==
    /\ started \subseteq 1..seq
    /\ \A t \in tasks : row[t].done => t \in completed
    /\ \A t \in TaskId : Cardinality(row[t].after) <= row[t].listed
    /\ DependenciesFirst

(* A command that neither submits nor hands out keeps DepsInv when every   *)
(* row keeps its list, or is deleted, and gains done only with completed.  *)
Kept(t) == /\ row'[t].after = row[t].after
           /\ row'[t].listed = row[t].listed
           /\ row'[t].done => row[t].done \/ t \in completed'

LEMMA DepsKept ==
    ASSUME TypeOK, DepsInv, \A t \in TaskId : Kept(t), tasks' \subseteq tasks, seq' = seq,
           started' = started, completed \subseteq completed'
    PROVE  DepsInv'
<1>1. tasks \subseteq TaskId
  BY TasksAreIds
<1> QED
  BY <1>1 DEF DepsInv, Kept, DependenciesFirst

LEMMA DepsStep == TypeOK /\ DepsInv /\ [Next]_vars => DepsInv'
<1> SUFFICES ASSUME TypeOK, DepsInv, [Next]_vars
             PROVE  DepsInv'
    OBVIOUS
<1> USE WorkQueueAssumption
<1>0. tasks \subseteq TaskId /\ seq \in 0..MaxTasks /\ tasks \subseteq 1..seq
      /\ \A t \in TaskId : row[t] \in Columns
  BY TasksAreIds, RowIff DEF TypeOK
<1>1. ASSUME NEW p \in Prios, NEW m \in Attempts, NEW deps \in SUBSET TaskId,
             NEW extra \in Repeats, Submit(p, m, deps, extra)
      PROVE  DepsInv'
  <2> DEFINE n   == Cardinality(deps) + extra
             new == [Fresh EXCEPT !.prio = p, !.maxa = m, !.after = deps, !.listed = n]
  <2>1. seq' = seq + 1 /\ tasks' = tasks \union {seq'} /\ row' = [row EXCEPT ![seq'] = new]
        /\ started' = started /\ completed' = completed /\ seq < MaxTasks
    BY <1>1 DEF Submit
  <2>2. Cardinality(deps) <= n
    BY DepsFinite
  <2>3. new.after = deps /\ new.listed = n /\ ~new.done
    BY DEF Fresh
  <2> HIDE DEF new, n
  <2>4. seq' \in TaskId /\ row'[seq'] = new /\ seq' \notin started
    BY <2>1, <1>0 DEF TaskId, TypeOK, DepsInv
  <2>5. \A t \in TaskId : t # seq' => row'[t] = row[t]
    BY <2>1 DEF TypeOK
  <2>6. started' \subseteq 1..seq'
    BY <2>1, <1>0 DEF DepsInv
  <2>7. \A t \in tasks' : row'[t].done => t \in completed'
    BY <2>1, <2>3, <2>4, <2>5, <1>0 DEF DepsInv
  <2>8. \A t \in TaskId : Cardinality(row'[t].after) <= row'[t].listed
    BY <2>2, <2>3, <2>4, <2>5 DEF DepsInv
  <2>9. DependenciesFirst'
    BY <2>1, <2>4, <2>5, <1>0 DEF DepsInv, DependenciesFirst
  <2> QED
    BY <2>6, <2>7, <2>8, <2>9 DEF DepsInv
<1>2. ASSUME NEW p \in Prios, NEW m \in Attempts, NEW n \in TaskId, Pipeline(p, m, n)
      PROVE  DepsInv'
  <2> DEFINE prev(t) == IF t = seq + 1 THEN {} ELSE {t - 1}
             new(t)  == [Fresh EXCEPT !.prio = p, !.maxa = m, !.after = prev(t),
                                      !.listed = Cardinality(prev(t))]
  <2>1. row' = [t \in TaskId |-> IF t \in (seq + 1)..seq' THEN new(t) ELSE row[t]]
    BY <1>2 DEF Pipeline
  <2>2. seq' = seq + n /\ tasks' = tasks \union (seq + 1)..seq'
        /\ started' = started /\ completed' = completed /\ seq + n <= MaxTasks
    BY <1>2 DEF Pipeline
  <2>3. ASSUME NEW t \in TaskId, t \in (seq + 1)..seq'
        PROVE  ~new(t).done /\ Cardinality(new(t).after) <= new(t).listed
    <3>1. prev(t) \in SUBSET TaskId
      BY <2>3, <1>0 DEF TaskId
    <3>2. Cardinality(prev(t)) \in Nat
      BY <3>1, DepsFinite
    <3> HIDE DEF prev
    <3> QED
      BY <3>2 DEF Fresh
  <2> HIDE DEF new
  <2>4. n \in Nat /\ (seq + 1)..seq' \subseteq TaskId
    BY <2>2, <1>0 DEF TaskId
  <2>5. started' \subseteq 1..seq'
    BY <2>2, <2>4, <1>0 DEF DepsInv
  <2>6. \A t \in tasks' : row'[t].done => t \in completed'
    BY <2>1, <2>2, <2>3, <2>4, <1>0 DEF DepsInv
  <2>7. \A t \in TaskId : Cardinality(row'[t].after) <= row'[t].listed
    BY <2>1, <2>3 DEF DepsInv
  <2>8. ASSUME NEW t \in started', t \in tasks' PROVE row'[t].after \subseteq completed'
    <3>1. t \in 1..seq
      BY <2>2, <2>8 DEF DepsInv
    <3>2. t \notin (seq + 1)..seq' /\ t \in TaskId
      BY <3>1, <2>2, <2>4, <1>0 DEF TaskId
    <3> QED
      BY <2>1, <2>2, <2>8, <3>2 DEF DepsInv, DependenciesFirst
  <2> QED
    BY <2>5, <2>6, <2>7, <2>8 DEF DepsInv, DependenciesFirst
<1>3. ASSUME NEW w \in Worker, TakeBegin(w) PROVE DepsInv'
  BY <1>3, DepsKept DEF TakeBegin, Kept
<1>4. ASSUME NEW w \in Worker, NEW lease \in Leases, TakeCommit(w, lease) PROVE DepsInv'
  <2> DEFINE wait   == cmd[w].wait
             fit    == {u \in Ready(wait) : ~Spent(u) /\ DepsMet(u)}
             got    == {u \in fit : \A x \in fit \ {u} : Before(u, x)}
             buried == {u \in Ready(wait) : Spent(u) /\ \A g \in got : Before(u, g)}
             left   == lease - wait
  <2>1. row' = [u \in TaskId |->
              IF u \in buried THEN [row[u] EXCEPT !.dead = TRUE, !.lease = Past]
              ELSE IF u \in got THEN [row[u] EXCEPT !.by = w, !.lease = left,
                                                    !.gen = @ + 1]
              ELSE row[u]]
        /\ started' = started \union got
        /\ seq' = seq /\ tasks' = tasks /\ completed' = completed
    BY <1>4 DEF TakeCommit
  <2>2. \A u \in got : u \in tasks /\ DepsMet(u)
    BY DEF Ready
  <2> HIDE DEF got, buried, left
  <2>3. ASSUME NEW u \in TaskId
        PROVE  /\ row'[u].after = row[u].after /\ row'[u].listed = row[u].listed
               /\ row'[u].done = row[u].done
    <3>1. row[u] \in Columns
      BY <1>0
    <3>2. CASE u \in buried
      <4>1. row'[u] = [row[u] EXCEPT !.dead = TRUE, !.lease = Past]
        BY <2>1, <3>2
      <4> QED
        BY <3>1, <4>1 DEF Columns
    <3>3. CASE u \in got /\ u \notin buried
      <4>1. row'[u] = [row[u] EXCEPT !.by = w, !.lease = left, !.gen = @ + 1]
        BY <2>1, <3>3
      <4> QED
        BY <3>1, <4>1 DEF Columns
    <3>4. CASE u \notin got /\ u \notin buried
      BY <2>1, <3>4
    <3> QED
      BY <3>2, <3>3, <3>4
  <2>4. ASSUME NEW u \in got PROVE row[u].after \subseteq completed
    <3> DEFINE S == {d \in row[u].after : d \in tasks /\ row[d].done}
    <3>1. /\ row[u].after \in SUBSET TaskId /\ row[u].listed \in Nat
          /\ Cardinality(row[u].after) <= row[u].listed
      BY <2>2, <2>4, <1>0 DEF Columns, DepsInv
    <3>2. Cardinality(S) = row[u].listed
      BY <2>2, <2>4 DEF DepsMet
    <3>3. S \in SUBSET row[u].after
      OBVIOUS
    <3> HIDE DEF S
    <3>4. S = row[u].after
      BY <3>1, <3>2, <3>3, CountIsAll
    <3> QED
      BY <3>4 DEF S, DepsInv
  <2>5. started' \subseteq 1..seq'
    BY <2>1, <2>2, <1>0 DEF DepsInv
  <2>6. \A t \in tasks' : row'[t].done => t \in completed'
    BY <2>1, <2>3, <1>0 DEF DepsInv
  <2>7. \A t \in TaskId : Cardinality(row'[t].after) <= row'[t].listed
    BY <2>3 DEF DepsInv
  <2>8. DependenciesFirst'
    BY <2>1, <2>3, <2>4, <1>0 DEF DepsInv, DependenciesFirst
  <2> QED
    BY <2>5, <2>6, <2>7, <2>8 DEF DepsInv
<1>5. ASSUME NEW w \in Worker, Nack(w) PROVE DepsInv'
  <2>1. ASSUME NEW t \in TaskId, FailRead(w, t) PROVE DepsInv'
    BY <2>1, DepsKept DEF FailRead, Kept
  <2>2. ASSUME NEW delay \in Delays, Requeue(w, delay) PROVE DepsInv'
    <3>1. \A t \in TaskId : Kept(t)
      BY <2>2, <1>0 DEF Requeue, Kept, TypeOK, Columns
    <3> QED
      BY <2>2, <3>1, DepsKept DEF Requeue
  <2>3. CASE Bury(w)
    <3>1. \A t \in TaskId : Kept(t)
      BY <2>3, <1>0 DEF Bury, Kept, TypeOK, Columns
    <3> QED
      BY <2>3, <3>1, DepsKept DEF Bury
  <2>4. CASE Tell(w)
    BY <2>4, DepsKept DEF Tell, Kept
  <2> QED
    BY <1>5, <2>1, <2>2, <2>3, <2>4 DEF Nack
<1>6. ASSUME NEW w \in Worker, Crash(w) PROVE DepsInv'
  BY <1>6, DepsKept DEF Crash, Kept
<1>7. ASSUME NEW w \in Worker, NEW u \in TaskId, Done(w, u) PROVE DepsInv'
  <2>1. \A t \in TaskId : Kept(t)
    BY <1>7, <1>0 DEF Done, Kept, TypeOK, Columns
  <2> QED
    BY <1>7, <2>1, DepsKept DEF Done
<1>8. ASSUME NEW u \in TaskId, Retry(u) PROVE DepsInv'
  <2>1. \A t \in TaskId : Kept(t)
    BY <1>8, <1>0 DEF Retry, Kept, TypeOK, Columns
  <2> QED
    BY <1>8, <2>1, DepsKept DEF Retry
<1>9. CASE Prune
  <2> DEFINE old == tasks \ tasks'
  <2>1. /\ tasks' \subseteq tasks /\ seq' = seq
        /\ started' = started /\ completed' = completed
        /\ \A t \in TaskId : row'[t] = Fresh \/ row'[t] = row[t]
        /\ \A t \in tasks' : row'[t] = row[t]
    BY <1>9, <1>0 DEF Prune
  <2>2. Cardinality(Fresh.after) <= Fresh.listed
    BY FS_EmptySet DEF Fresh
  <2> QED
    BY <2>1, <2>2, <1>0 DEF DepsInv, DependenciesFirst
<1>10. CASE Tick
  <2>1. ASSUME NEW t \in TaskId PROVE Kept(t)
    <3>1. row[t] \in Columns
      BY <1>0
    <3>2. \/ row'[t] = row[t]
          \/ row'[t] = [row[t] EXCEPT !.lease = Down(@, Past),
                                      !.notBefore = Down(@, Past),
                                      !.age = IF @ > MsgTTL THEN @ ELSE @ + 1]
      BY <1>10 DEF Tick
    <3> QED
      BY <3>1, <3>2 DEF Kept, Columns
  <2> QED
    BY <1>10, <2>1, DepsKept DEF Tick
<1>11. CASE UNCHANGED vars
  BY <1>11, DepsKept DEF vars, Kept
<1> QED
  BY <1>1, <1>2, <1>3, <1>4, <1>5, <1>6, <1>7, <1>8, <1>9, <1>10, <1>11 DEF Next, Take

LEMMA DepsInit == Init => DepsInv
<1>1. Cardinality(Fresh.after) <= Fresh.listed
  BY FS_EmptySet DEF Fresh
<1> QED
  BY <1>1 DEF Init, DepsInv, DependenciesFirst

(* A task is handed out only after every task of its list was done.        *)
THEOREM DependenciesRespected == Spec => []DependenciesFirst
<1>1. DepsInv => DependenciesFirst
  BY DEF DepsInv
<1> QED
  BY <1>1, TypeCorrect, DepsInit, DepsStep, PTL DEF Spec

-----------------------------------------------------------------------------
Telling(t) == \E w \in Worker : cmd[w].op = "tell" /\ cmd[w].task = t
Reported(t) == row[t].dead => t \in told \/ Telling(t)

(* A command other than one that tells may change without ending a report. *)
LEMMA StillTelling ==
    ASSUME TypeOK, NEW w \in Worker, cmd[w].op # "tell", NEW c,
           cmd' = [cmd EXCEPT ![w] = c], NEW t, Telling(t)
    PROVE  Telling(t)'
<1>1. PICK v \in Worker : cmd[v].op = "tell" /\ cmd[v].task = t
  BY DEF Telling
<1>2. cmd'[v] = cmd[v]
  BY <1>1 DEF TypeOK
<1> QED
  BY <1>1, <1>2 DEF Telling

LEMMA ReportedStep ==
    ASSUME TypeOK, \A t \in TaskId : Reported(t), [Next]_vars
    PROVE  \A t \in TaskId : Reported(t)'
<1> SUFFICES ASSUME NEW t \in TaskId PROVE Reported(t)'
    OBVIOUS
<1>0. Reported(t) /\ row[t] \in Columns /\ row = [u \in TaskId |-> row[u]]
  BY DEF TypeOK, Row
<1>1. ASSUME row'[t].dead => row[t].dead, told \subseteq told', Telling(t) => t \in told' \/ Telling(t)'
      PROVE  Reported(t)'
  BY <1>0, <1>1 DEF Reported
<1>2. ASSUME UNCHANGED <<cmd, told>>, row'[t].dead => row[t].dead PROVE Reported(t)'
  BY <1>0, <1>2 DEF Reported, Telling
<1>3. ~Fresh.dead
  BY DEF Fresh
<1>4. ASSUME NEW p \in Prios, NEW m \in Attempts, NEW deps \in SUBSET TaskId,
             NEW extra \in Repeats, Submit(p, m, deps, extra)
      PROVE  Reported(t)'
  <2>1. row'[t].dead => row[t].dead
    BY <1>0, <1>3, <1>4 DEF Submit, Fresh
  <2> QED BY <1>2, <1>4, <2>1 DEF Submit
<1>5. ASSUME NEW p \in Prios, NEW m \in Attempts, NEW n \in TaskId, Pipeline(p, m, n)
      PROVE  Reported(t)'
  <2>1. row'[t].dead => row[t].dead
    BY <1>0, <1>3, <1>5 DEF Pipeline, Fresh
  <2> QED BY <1>2, <1>5, <2>1 DEF Pipeline
<1>6. ASSUME NEW w \in Worker, TakeBegin(w) PROVE Reported(t)'
  <2>1. cmd[w].op # "tell" /\ row' = row /\ told' = told
    BY <1>6 DEF TakeBegin, Idle
  <2> QED BY <1>1, <1>6, <2>1, StillTelling DEF TakeBegin
<1>7. ASSUME NEW w \in Worker, NEW lease \in Leases, TakeCommit(w, lease) PROVE Reported(t)'
  <2> DEFINE fit    == {u \in Ready(cmd[w].wait) : ~Spent(u) /\ DepsMet(u)}
             got    == {u \in fit : \A x \in fit \ {u} : Before(u, x)}
             buried == {u \in Ready(cmd[w].wait) : Spent(u) /\ \A g \in got : Before(u, g)}
  <2>1. /\ row' = [u \in TaskId |->
              IF u \in buried THEN [row[u] EXCEPT !.dead = TRUE, !.lease = Past]
              ELSE IF u \in got THEN [row[u] EXCEPT !.by = w, !.lease = lease - cmd[w].wait,
                                                    !.gen = @ + 1]
              ELSE row[u]]
        /\ told' = told \union buried
        /\ cmd' = [cmd EXCEPT ![w] = Idle] /\ cmd[w].op # "tell"
    BY <1>7 DEF TakeCommit
  <2>2. Telling(t) => Telling(t)'
    BY <2>1, StillTelling
  <2> HIDE DEF buried, got
  <2>3. CASE t \in buried
    BY <2>1, <2>3 DEF Reported
  <2>4. CASE t \notin buried
    <3>1. row'[t].dead = row[t].dead
      BY <1>0, <2>1, <2>4 DEF Columns
    <3> QED BY <1>1, <2>1, <2>2, <3>1
  <2> QED BY <2>3, <2>4
<1>8. ASSUME NEW w \in Worker, Nack(w) PROVE Reported(t)'
  <2>1. ASSUME NEW u \in TaskId, FailRead(w, u) PROVE Reported(t)'
    <3>1. cmd[w].op # "tell" /\ row' = row /\ told' = told
      BY <2>1 DEF FailRead, Idle
    <3>2. Telling(t) => Telling(t)'
      BY <2>1, <3>1, StillTelling DEF FailRead
    <3> QED BY <1>1, <3>1, <3>2
  <2>2. ASSUME NEW delay \in Delays, Requeue(w, delay) PROVE Reported(t)'
    <3>1. cmd[w].op # "tell" /\ told' = told /\ cmd' = [cmd EXCEPT ![w] = Idle]
      BY <2>2 DEF Requeue
    <3>2. row'[t].dead => row[t].dead
      BY <1>0, <2>2 DEF Requeue, Columns
    <3>3. Telling(t) => Telling(t)'
      BY <3>1, StillTelling
    <3> QED BY <1>1, <3>1, <3>2, <3>3
  <2>3. ASSUME Bury(w) PROVE Reported(t)'
    <3>1. cmd[w].op # "tell" /\ told' = told /\ cmd' = [cmd EXCEPT ![w] = [@ EXCEPT !.op = "tell"]]
      BY <2>3 DEF Bury
    <3>2. CASE cmd[w].task = t
      <4>1. cmd'[w].op = "tell" /\ cmd'[w].task = t
        BY <3>1, <3>2 DEF TypeOK
      <4> QED BY <4>1 DEF Reported, Telling
    <3>3. CASE cmd[w].task # t
      <4>1. row'[t] = row[t]
        BY <1>0, <2>3, <3>3 DEF Bury
      <4>2. Telling(t) => Telling(t)'
        BY <3>1, StillTelling
      <4> QED BY <1>1, <3>1, <4>1, <4>2
    <3> QED BY <3>2, <3>3
  <2>4. ASSUME Tell(w) PROVE Reported(t)'
    <3>1. row' = row /\ told' = told \union {cmd[w].task} /\ cmd' = [cmd EXCEPT ![w] = Idle]
      BY <2>4 DEF Tell
    <3>2. Telling(t) => t \in told' \/ Telling(t)'
      BY <3>1 DEF Telling, TypeOK
    <3> QED BY <1>1, <3>1, <3>2
  <2> QED BY <1>8, <2>1, <2>2, <2>3, <2>4 DEF Nack
<1>9. ASSUME NEW w \in Worker, Crash(w) PROVE Reported(t)'
  <2>1. row' = row /\ told \subseteq told' /\ cmd' = [cmd EXCEPT ![w] = Idle]
        /\ (cmd[w].op = "tell" => cmd[w].task \in told')
    BY <1>9 DEF Crash
  <2>2. Telling(t) => t \in told' \/ Telling(t)'
    BY <2>1 DEF Telling, TypeOK
  <2> QED BY <1>1, <2>1, <2>2
<1>10. ASSUME NEW w \in Worker, NEW u \in TaskId, Done(w, u) PROVE Reported(t)'
  <2>1. row'[t].dead => row[t].dead
    BY <1>0, <1>10 DEF Done, Columns
  <2> QED BY <1>2, <1>10, <2>1 DEF Done
<1>11. ASSUME NEW u \in TaskId, Retry(u) PROVE Reported(t)'
  <2>1. row'[u].dead = FALSE /\ cmd' = cmd
    BY <1>0, <1>11 DEF Retry, TypeOK, Row, Columns
  <2>2. t # u => row'[t] = row[t] /\ (t \in told => t \in told')
    BY <1>0, <1>11 DEF Retry
  <2> QED BY <1>0, <2>1, <2>2 DEF Reported, Telling
<1>12. ASSUME Prune PROVE Reported(t)'
  <2>1. row'[t].dead => row[t].dead
    BY <1>3, <1>12 DEF Prune
  <2> QED BY <1>2, <1>12, <2>1 DEF Prune
<1>13. ASSUME Tick PROVE Reported(t)'
  <2>1. row'[t].dead => row[t].dead
    BY <1>0, <1>13 DEF Tick, Columns
  <2>2. \A w \in Worker : cmd[w].op = "tell" => cmd'[w] = cmd[w]
    BY <1>13 DEF Tick
  <2>3. Telling(t) => Telling(t)'
    BY <2>2 DEF Telling
  <2> QED BY <1>1, <1>13, <2>1, <2>3 DEF Tick
<1>14. CASE UNCHANGED vars
  BY <1>2, <1>14 DEF vars
<1> QED
  BY <1>4, <1>5, <1>6, <1>7, <1>8, <1>9, <1>10, <1>11, <1>12, <1>13, <1>14 DEF Next, Take

(* A dead-lettered task was reported to its submitter, or its report is    *)
(* under way, or was lost with a fail that was killed (_dead_letter).      *)
THEOREM DeadLettersReported == Spec => []DeadLetterReported
<1>1. Init => \A t \in TaskId : Reported(t)
  BY DEF Init, Reported, Fresh
<1>2. TypeOK /\ (\A t \in TaskId : Reported(t)) /\ [Next]_vars
         => (\A t \in TaskId : Reported(t))'
  BY ReportedStep
<1>3. TypeOK /\ (\A t \in TaskId : Reported(t)) => DeadLetterReported
  BY TasksAreIds DEF Reported, Telling, DeadLetterReported
<1> QED
  BY <1>1, <1>2, <1>3, TypeCorrect, PTL DEF Spec
=============================================================================
