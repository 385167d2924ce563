--------------------------- MODULE DeliveryProofs ---------------------------
(***************************************************************************)
(* Proofs about Delivery, for any number of processes and messages.        *)
(***************************************************************************)
EXTENDS Delivery, FiniteSetTheorems, TLAPS

(* A state of a process and a cursor fit a log of n messages.              *)
CursorFits(c, n) == c \in [known: BOOLEAN, last: 0..n, dm: 0..n, stamp: 0..n]
Fits(q, n) ==
    q \in [at: Places, since: Nat \union {New}, upto: 0..n, rows: SUBSET (1..n)]

(* An update of one field keeps a process state well typed.                *)
LEMMA Updates ==
    ASSUME NEW n \in Nat, NEW q, Fits(q, n)
    PROVE  /\ \A at \in Places : Fits([q EXCEPT !.at = at], n)
           /\ \A at \in Places, since \in Nat \union {New} :
                 Fits([q EXCEPT !.since = since, !.at = at], n)
           /\ \A at \in Places, upto \in 0..n :
                 Fits([q EXCEPT !.at = at, !.upto = upto], n)
           /\ \A at \in Places, rows \in SUBSET (1..n) :
                 Fits([q EXCEPT !.rows = rows, !.at = at], n)
           /\ \A at \in Places, rows \in SUBSET (1..n), upto \in 0..n :
                 Fits([q EXCEPT !.rows = rows, !.upto = upto, !.at = at], n)
           /\ Fits(Out, n)
<1>1. \A at \in Places : Fits([q EXCEPT !.at = at], n)
  BY DEF Fits
<1>2. \A at \in Places, since \in Nat \union {New} :
         Fits([q EXCEPT !.since = since, !.at = at], n)
  BY DEF Fits
<1>3. \A at \in Places, upto \in 0..n : Fits([q EXCEPT !.at = at, !.upto = upto], n)
  BY DEF Fits
<1>4. \A at \in Places, rows \in SUBSET (1..n) :
         Fits([q EXCEPT !.rows = rows, !.at = at], n)
  BY DEF Fits
<1>5. \A at \in Places, rows \in SUBSET (1..n), upto \in 0..n :
         Fits([q EXCEPT !.rows = rows, !.upto = upto, !.at = at], n)
  BY DEF Fits
<1>6. Fits(Out, n)
  BY DEF Fits, Out, Places
<1> QED
  BY <1>1, <1>2, <1>3, <1>4, <1>5, <1>6

(* What fits a log fits a longer one.                                      *)
LEMMA Grows ==
    ASSUME NEW n \in Nat, NEW q, NEW c
    PROVE  /\ Fits(q, n) => Fits(q, n + 1)
           /\ CursorFits(c, n) => CursorFits(c, n + 1)
  BY DEF Fits, CursorFits

(* TypeOK, with the state of the processes in terms of Fits.               *)
LogTyped     == log \in Seq([from: {Me} \union Peer, to: Channel]) /\ Len(log) <= MaxMessages
HistoryTyped ==
    handed \in [Ids -> 0..2] /\ shown \in SUBSET (1..Len(log)) /\ joined \in 0..MaxMessages + 1
ProcTyped    ==
    proc \in [Process -> [at: Places, since: Nat \union {New}, upto: 0..Len(log),
                         rows: SUBSET (1..Len(log))]]

LEMMA TypeParts ==
    TypeOK <=> /\ LogTyped /\ HistoryTyped /\ ProcTyped
               /\ pruned \in 0..Len(log) /\ CursorFits(cursor, Len(log))
  BY DEF TypeOK, LogTyped, HistoryTyped, ProcTyped, CursorFits

LEMMA TypePartsNext ==
    ASSUME LogTyped', HistoryTyped', ProcTyped', pruned' \in 0..Len(log'),
           CursorFits(cursor', Len(log'))
    PROVE  TypeOK'
  BY DEF TypeOK, LogTyped, HistoryTyped, ProcTyped, CursorFits

LEMMA Lengths == LogTyped => Len(log) \in Nat /\ MaxMessages \in Nat
  BY DeliveryAssumption DEF LogTyped

LEMMA Becoming ==
    ASSUME ProcTyped, NEW p \in Process, NEW q, Fits(q, Len(log)),
           Becomes(p, q), log' = log
    PROVE  ProcTyped'
  BY DEF ProcTyped, Fits, Becomes

LEMMA ProcFits ==
    ASSUME ProcTyped, NEW p \in Process
    PROVE  Fits(proc[p], Len(log))
  BY DEF ProcTyped, Fits

LEMMA MarksFit ==
    ASSUME NEW n \in Nat, NEW since \in Nat \union {New}, NEW h \in 0..n
    PROVE  FirstMarks(since, h).last \in 0..n /\ FirstMarks(since, h).dm \in 0..n
  BY DeliveryAssumption DEF FirstMarks, Larger

LEMMA TypeInit == Init => TypeOK
<1> SUFFICES ASSUME Init PROVE TypeOK
    OBVIOUS
<1>1. Len(log) = 0 /\ LogTyped
  BY DeliveryAssumption DEF Init, LogTyped
<1>2. HistoryTyped
  BY <1>1, DeliveryAssumption DEF Init, HistoryTyped, Ids
<1>3. Fits(Out, 0)
  BY DEF Fits, Out, Places
<1>4. ProcTyped
  BY <1>1, <1>3 DEF Init, ProcTyped, Fits
<1>5. CursorFits(cursor, 0)
  BY DeliveryAssumption DEF Init, CursorFits, NoRow
<1> QED
  BY <1>1, <1>2, <1>4, <1>5, TypeParts DEF Init

LEMMA SendTyped ==
    ASSUME TypeOK, NEW from \in {Me} \union Peer, NEW to \in Channel, Send(from, to)
    PROVE  TypeOK'
<1>1. LogTyped /\ HistoryTyped /\ ProcTyped /\ CursorFits(cursor, Len(log))
      /\ pruned \in 0..Len(log) /\ Len(log) \in Nat
  BY TypeParts, Lengths
<1>2. LogTyped' /\ Len(log') = Len(log) + 1
  BY <1>1, DeliveryAssumption DEF Send, LogTyped
<1>3. HistoryTyped'
  BY <1>1, <1>2 DEF Send, HistoryTyped
<1>4. ProcTyped'
  <2>1. proc' = proc /\ \A p \in Process : Fits(proc[p], Len(log) + 1)
    BY <1>1, ProcFits, Grows DEF Send
  <2> QED
    BY <1>1, <1>2, <2>1 DEF ProcTyped, Fits
<1>5. CursorFits(cursor', Len(log'))
  BY <1>1, <1>2, Grows DEF Send
<1> QED
  BY <1>1, <1>2, <1>3, <1>4, <1>5, TypePartsNext DEF Send

(* A step of a process that leaves the log alone.                          *)
LEMMA ProcessStepTyped ==
    ASSUME TypeOK, NEW p \in Process,
           \/ \E since \in Since : Look(p, since)
           \/ ReadHead(p) \/ Register(p) \/ Deliver(p) \/ Output(p)
           \/ Stage(p) \/ Emit(p) \/ Acknowledge(p) \/ Stop(p)
    PROVE  TypeOK'
<1> DEFINE n == Len(log)
<1>1. LogTyped /\ HistoryTyped /\ ProcTyped /\ CursorFits(cursor, n)
      /\ pruned \in 0..n /\ n \in Nat /\ MaxMessages \in Nat
  BY TypeParts, Lengths
<1>2. Fits(proc[p], n)
  BY <1>1, ProcFits
<1>3. Mine(p) \in SUBSET (1..n) /\ head_id \in 0..n
  BY <1>1 DEF Mine, Retained, head_id
<1>4. /\ {"out", "head", "register", "ready", "print", "staged", "emitted"} \subseteq Places
      /\ Fits(Out, n) /\ Since \subseteq Nat \union {New}
  <2>1. Fits(Out, n)
    BY <1>1, <1>2, Updates
  <2> QED BY <2>1, DeliveryAssumption DEF Places
<1>5. ASSUME log' = log, pruned' = pruned, HistoryTyped', CursorFits(cursor', n),
             NEW q, Fits(q, n), Becomes(p, q)
      PROVE  TypeOK'
  <2>1. ProcTyped' BY <1>1, <1>5, Becoming
  <2>2. LogTyped' BY <1>1, <1>5 DEF LogTyped
  <2> QED BY <1>1, <1>5, <2>1, <2>2, TypePartsNext
<1>6. ASSUME UNCHANGED <<log, handed, shown, joined>> PROVE HistoryTyped'
  BY <1>1, <1>6 DEF HistoryTyped
<1>7. ASSUME NEW since \in Since, Look(p, since) PROVE TypeOK'
  <2>1. \E at \in Places : Becomes(p, [proc[p] EXCEPT !.since = since, !.at = at])
    BY <1>4, <1>7 DEF Look
  <2>2. \E q : Fits(q, n) /\ Becomes(p, q)
    BY <1>1, <1>2, <1>4, <2>1, Updates
  <2>3. HistoryTyped' /\ CursorFits(cursor', n) /\ log' = log /\ pruned' = pruned
    BY <1>1, <1>6, <1>7 DEF Look
  <2> QED BY <1>5, <2>2, <2>3
<1>8. ASSUME ReadHead(p) PROVE TypeOK'
  BY <1>1, <1>2, <1>3, <1>4, <1>5, <1>6, <1>8, Updates DEF ReadHead
<1>9. ASSUME Register(p) PROVE TypeOK'
  <2> DEFINE first == FirstMarks(proc[p].since, proc[p].upto)
  <2>1. first.last \in 0..n /\ first.dm \in 0..n
    BY <1>1, <1>2, MarksFit DEF Fits
  <2>2. /\ cursor' = [known |-> TRUE, last |-> first.last, dm |-> first.dm, stamp |-> n]
        /\ joined' = Smaller(joined, first.last)
        /\ UNCHANGED <<log, pruned, handed, shown>> /\ Goto(p, "ready")
    BY <1>9 DEF Register
  <2> HIDE DEF first
  <2>3. CursorFits(cursor', n)
    BY <1>1, <2>1, <2>2 DEF CursorFits
  <2>4. n <= MaxMessages
    BY <1>1 DEF LogTyped
  <2>5. joined' \in 0..MaxMessages + 1
    BY <1>1, <2>1, <2>2, <2>4 DEF HistoryTyped, Smaller
  <2>6. HistoryTyped'
    BY <1>1, <2>2, <2>5 DEF HistoryTyped
  <2> QED BY <1>2, <1>4, <1>5, <2>2, <2>3, <2>6, <1>1, Updates DEF Goto
<1>10. ASSUME Deliver(p) PROVE TypeOK'
  <2>1. CursorFits(cursor', n)
    BY <1>1, <1>10 DEF Deliver, CursorFits, Passed
  <2>2. HistoryTyped'
    BY <1>1, <1>10 DEF Deliver, HistoryTyped, Smaller
  <2>3. \E at \in Places : Becomes(p, [proc[p] EXCEPT !.rows = Mine(p), !.at = at])
    BY <1>4, <1>10 DEF Deliver
  <2> QED BY <1>1, <1>2, <1>3, <1>5, <1>10, <2>1, <2>2, <2>3, Updates DEF Deliver
<1>11. ASSUME Output(p) PROVE TypeOK'
  <2>1. HistoryTyped'
    BY <1>1, <1>2, <1>11 DEF Output, HistoryTyped, Fits
  <2> QED BY <1>1, <1>2, <1>4, <1>5, <1>11, <2>1, Updates DEF Output, Goto
<1>12. ASSUME Stage(p) PROVE TypeOK'
  <2>1. (IF Scan = {} THEN Smaller(cursor.last, cursor.dm) ELSE Len(log)) \in 0..n
    BY <1>1 DEF CursorFits, Smaller
  <2>2. \E at \in Places : Becomes(p, [proc[p] EXCEPT !.rows = Mine(p),
          !.upto = IF Scan = {} THEN Smaller(cursor.last, cursor.dm) ELSE Len(log), !.at = at])
    BY <1>4, <1>12 DEF Stage
  <2> QED BY <1>1, <1>2, <1>3, <1>5, <1>6, <1>12, <2>1, <2>2, Updates DEF Stage
<1>13. ASSUME Emit(p) PROVE TypeOK'
  <2>1. HistoryTyped'
    BY <1>1, <1>2, <1>13 DEF Emit, HistoryTyped, Fits, Newest
  <2> QED BY <1>1, <1>2, <1>4, <1>5, <1>13, <2>1, Updates DEF Emit, Goto
<1>14. ASSUME Acknowledge(p) PROVE TypeOK'
  <2>1. Through(p) \in 0..n
    BY <1>1, <1>2 DEF Through, Larger, CursorFits, Fits
  <2>2. CursorFits(cursor', n)
    BY <1>1, <1>14, <2>1 DEF Acknowledge, CursorFits
  <2>3. HistoryTyped'
    BY <1>6, <1>14, <1>1 DEF Acknowledge, HistoryTyped
  <2> QED BY <1>4, <1>5, <1>14, <2>2, <2>3 DEF Acknowledge
<1>15. ASSUME Stop(p) PROVE TypeOK'
  BY <1>1, <1>4, <1>5, <1>6, <1>15 DEF Stop
<1> QED
  BY <1>7, <1>8, <1>9, <1>10, <1>11, <1>12, <1>13, <1>14, <1>15

LEMMA TypeStep == TypeOK /\ [Next]_vars => TypeOK'
<1> SUFFICES ASSUME TypeOK, [Next]_vars PROVE TypeOK'
    OBVIOUS
<1>1. ASSUME NEW cut \in 0..MaxMessages, PruneMessages(cut) PROVE TypeOK'
  BY <1>1 DEF PruneMessages, TypeOK
<1>2. ASSUME PruneCursor PROVE TypeOK'
  BY <1>2, Lengths, TypeParts DEF PruneCursor, TypeOK, NoRow
<1>3. ASSUME UNCHANGED vars PROVE TypeOK'
  BY <1>3 DEF vars, TypeOK
<1> QED
  BY <1>1, <1>2, <1>3, SendTyped, ProcessStepTyped DEF Next

(* Every reachable state is well typed.                                    *)
THEOREM TypeCorrect == Spec => []TypeOK
  BY TypeInit, TypeStep, PTL DEF Spec

-----------------------------------------------------------------------------
(* A name that is on the bus and stays in touch, without --since: one mark *)
(* in effect, nobody on the way to a registration, and whatever was handed *)
(* out lies behind the mark.                                               *)
Undisturbed == Registered /\ Awake /\ Since = {New}

Marked ==
    /\ cursor.known /\ cursor.last = cursor.dm /\ pruned <= cursor.stamp
    /\ \A p \in Process : proc[p].at \notin {"head", "register"}

HandedBehind ==
    \A m \in Ids : handed[m] <= 1 /\ (handed[m] > 0 => m <= cursor.last)

(* The parts of the type invariant the arguments below need.               *)
LEMMA Ranges ==
    ASSUME TypeOK
    PROVE  /\ Len(log) \in Nat /\ MaxMessages \in Nat /\ Len(log) <= MaxMessages
           /\ cursor.last \in 0..Len(log) /\ cursor.dm \in 0..Len(log)
           /\ cursor.stamp \in 0..Len(log) /\ pruned \in 0..Len(log)
           /\ \A p \in Process : proc[p].upto \in 0..Len(log)
           /\ \A m \in Ids : handed[m] \in 0..2
           /\ Ids = 1..MaxMessages
  BY Lengths, TypeParts DEF TypeOK, Ids, LogTyped

LEMMA MarkedInit == ASSUME Undisturbed, Init PROVE Marked /\ HandedBehind
  BY DeliveryAssumption DEF Undisturbed, Init, Marked, HandedBehind, NoRow, Out, Ids

LEMMA MarkedStep ==
    ASSUME Undisturbed, TypeOK, Marked, [Next]_vars
    PROVE  Marked'
<1> USE DEF Undisturbed
<1>1. /\ \A p \in Process : proc[p].at \notin {"head", "register"}
      /\ cursor.known /\ cursor.last = cursor.dm /\ pruned <= cursor.stamp
      /\ Len(log) \in Nat /\ pruned \in 0..Len(log) /\ cursor.stamp \in 0..Len(log)
      /\ proc = [p \in Process |-> proc[p]]
      /\ \A p \in Process, f \in {"at", "since", "upto", "rows"} : f \in DOMAIN proc[p]
  BY Ranges DEF Marked, TypeOK
<1>2. ASSUME NEW p \in Process, NEW q, Becomes(p, q),
             q.at \notin {"head", "register"}
      PROVE  \A r \in Process : proc'[r].at \notin {"head", "register"}
  BY <1>1, <1>2 DEF Becomes
<1>3. ASSUME NEW from \in {Me} \union Peer, NEW to \in Channel, Send(from, to)
      PROVE  Marked'
  BY <1>3 DEF Send, Marked
<1>4. ASSUME NEW p \in Process, NEW since \in Since, Look(p, since)
      PROVE  Marked'
  BY <1>1, <1>2, <1>4 DEF Look, Marked
<1>5. ASSUME NEW p \in Process, ReadHead(p) \/ Register(p) PROVE Marked'
  BY <1>1, <1>5 DEF ReadHead, Register
<1>6. ASSUME NEW p \in Process, Deliver(p) PROVE Marked'
  <2>1. \A r \in Process : proc'[r].at \notin {"head", "register"}
    BY <1>1, <1>2, <1>6 DEF Deliver
  <2> QED BY <1>1, <1>6, <2>1 DEF Deliver, Marked, Passed
<1>7. ASSUME NEW p \in Process, Output(p) PROVE Marked'
  BY <1>1, <1>2, <1>7 DEF Output, Goto, Marked
<1>8. ASSUME NEW p \in Process, Stage(p) PROVE Marked'
  BY <1>1, <1>2, <1>8 DEF Stage, Marked
<1>9. ASSUME NEW p \in Process, Emit(p) PROVE Marked'
  BY <1>1, <1>2, <1>9 DEF Emit, Goto, Marked
<1>10. ASSUME NEW p \in Process, Acknowledge(p) PROVE Marked'
  <2>1. \A r \in Process : proc'[r].at \notin {"head", "register"}
    BY <1>1, <1>2, <1>10 DEF Acknowledge, Out
  <2> QED BY <1>1, <1>10, <2>1 DEF Acknowledge, Marked
<1>11. ASSUME NEW p \in Process, Stop(p) PROVE Marked'
  BY <1>1, <1>2, <1>11 DEF Stop, Out, Marked
<1>12. ASSUME NEW cut \in 0..MaxMessages, PruneMessages(cut) PROVE Marked'
  BY <1>1, <1>12 DEF PruneMessages, Marked
<1>13. ~PruneCursor
  BY <1>1 DEF PruneCursor, Stale
<1>14. ASSUME UNCHANGED vars PROVE Marked'
  BY <1>14 DEF vars, Marked
<1> QED
  BY <1>3, <1>4, <1>5, <1>6, <1>7, <1>8, <1>9, <1>10, <1>11, <1>12, <1>13, <1>14 DEF Next

LEMMA HandedStep ==
    ASSUME Undisturbed, TypeOK, Marked, HandedBehind, [Next]_vars
    PROVE  HandedBehind'
<1> USE Ranges
<1>1. ASSUME NEW p \in Process, Deliver(p) PROVE HandedBehind'
  <2>1. cursor'.last = Len(log)
    BY <1>1 DEF Deliver, Passed
  <2>2. ASSUME NEW m \in Ids, m \in Mine(p) PROVE handed[m] = 0 /\ m <= Len(log)
    BY <2>2 DEF Mine, Marked, HandedBehind, Retained
  <2>3. ASSUME NEW m \in Ids PROVE handed'[m] <= 1 /\ (handed'[m] > 0 => m <= cursor'.last)
    <3>1. CASE m \in Mine(p)
      BY <1>1, <2>1, <2>2, <3>1 DEF Deliver, Smaller
    <3>2. CASE m \notin Mine(p)
      BY <1>1, <2>1, <3>2 DEF Deliver, HandedBehind
    <3> QED BY <3>1, <3>2
  <2> QED BY <2>3 DEF HandedBehind
<1>2. ASSUME NEW p \in Process, Acknowledge(p) PROVE HandedBehind'
  <2>1. cursor'.last = Through(p) /\ cursor.last <= Through(p) /\ Through(p) \in Nat
    BY <1>2 DEF Acknowledge, Through, Larger
  <2> QED BY <1>2, <2>1 DEF Acknowledge, HandedBehind
<1>3. ASSUME UNCHANGED <<cursor, handed>> PROVE HandedBehind'
  BY <1>3 DEF HandedBehind
<1>4. ~PruneCursor /\ \A p \in Process : ~Register(p)
  BY DEF PruneCursor, Stale, Marked, Undisturbed, Register
<1>5. CASE UNCHANGED vars
  BY <1>3, <1>5 DEF vars
<1>6. CASE \E from \in {Me} \union Peer, to \in Channel : Send(from, to)
  BY <1>3, <1>6 DEF Send
<1>7. CASE \E p \in Process : \/ \E since \in Since : Look(p, since)
                             \/ ReadHead(p) \/ Output(p) \/ Stage(p) \/ Emit(p) \/ Stop(p)
  BY <1>3, <1>7 DEF Look, ReadHead, Output, Stage, Emit, Stop
<1>8. CASE \E cut \in 0..MaxMessages : PruneMessages(cut)
  BY <1>3, <1>8 DEF PruneMessages
<1> QED
  BY <1>1, <1>2, <1>4, <1>5, <1>6, <1>7, <1>8 DEF Next

(* No message is handed out twice under a name that is registered and in   *)
(* touch, however many processes read and acknowledge under it (deliver,   *)
(* acknowledge_delivery).                                                  *)
THEOREM HandedOutOnce == ASSUME Undisturbed PROVE Spec => []HandedOnce
<1>1. Init => TypeOK /\ Marked /\ HandedBehind
  BY TypeInit, MarkedInit
<1>2. TypeOK /\ Marked /\ HandedBehind /\ [Next]_vars => (TypeOK /\ Marked /\ HandedBehind)'
  BY TypeStep, MarkedStep, HandedStep
<1>3. HandedBehind => HandedOnce
  BY DEF HandedBehind, HandedOnce
<1> QED
  BY <1>1, <1>2, <1>3, PTL DEF Spec

-----------------------------------------------------------------------------
(* If besides all processes have the same subscriptions and no batch is    *)
(* larger than what a hook shows, nothing between the marks gets lost: a   *)
(* retained message that Me is to get was seen, or is beyond the mark and  *)
(* beyond every batch on its way to an acknowledgement, or is in the batch.*)
Whole == Undisturbed /\ Subscribed = Process /\ Window >= MaxMessages

Unlost(m) ==
    /\ m <= cursor.last => Seen(m)
    /\ \A p \in Process : m <= proc[p].upto =>
          /\ proc[p].at = "staged" => Seen(m) \/ m \in proc[p].rows
          /\ proc[p].at = "emitted" => Seen(m)

Complete == \A m \in Retained : Addressed(m) => Unlost(m)

LEMMA AllShown ==
    ASSUME TypeOK, Whole, NEW p \in Process
    PROVE  Newest(proc[p].rows) = proc[p].rows
<1>1. /\ proc[p].rows \subseteq 1..Len(log) /\ Len(log) \in Nat /\ MaxMessages \in Nat
      /\ Len(log) <= MaxMessages /\ Window \in Nat /\ Window >= MaxMessages
  BY Ranges, DeliveryAssumption DEF TypeOK, Whole
<1> SUFFICES ASSUME NEW m \in proc[p].rows
             PROVE  Cardinality({n \in proc[p].rows : n > m}) < Window
    BY DEF Newest
<1>2. m \in 1..Len(log) /\ {n \in proc[p].rows : n > m} \subseteq (m + 1)..Len(log)
  BY <1>1
<1>3. IsFiniteSet((m + 1)..Len(log)) /\ Cardinality((m + 1)..Len(log)) <= Len(log) - m
  <2>1. m + 1 \in Int /\ Len(log) \in Int
    BY <1>1, <1>2
  <2>2. /\ IsFiniteSet((m + 1)..Len(log))
        /\ Cardinality((m + 1)..Len(log)) =
             IF m + 1 > Len(log) THEN 0 ELSE Len(log) - (m + 1) + 1
    BY <2>1, FS_Interval
  <2> QED BY <1>1, <1>2, <2>2
<1>4. Cardinality({n \in proc[p].rows : n > m}) <= Cardinality((m + 1)..Len(log))
  BY <1>2, <1>3, FS_Subset
<1>5. IsFiniteSet({n \in proc[p].rows : n > m})
  BY <1>2, <1>3, FS_Subset
<1>6. /\ Cardinality({n \in proc[p].rows : n > m}) \in Nat
      /\ Cardinality((m + 1)..Len(log)) \in Nat
  BY <1>3, <1>5, FS_CardinalityType
<1> QED
  BY <1>1, <1>2, <1>3, <1>4, <1>6

(* Under one set of subscriptions every process selects the same rows.     *)
LEMMA MineIsAddressed ==
    ASSUME Whole, Marked, NEW p \in Process
    PROVE  Mine(p) = {m \in Retained : Addressed(m) /\ m > cursor.last}
  BY DeliveryAssumption DEF Whole, Marked, Mine, Addressed, Listens

LEMMA CompleteInit == ASSUME Init PROVE Complete
<1>1. Retained = {}
  BY DEF Init, Retained
<1> QED
  BY <1>1 DEF Complete

LEMMA CompleteSend ==
    ASSUME TypeOK, Complete, NEW from \in {Me} \union Peer, NEW to \in Channel,
           Send(from, to)
    PROVE  Complete'
<1>1. /\ Len(log') = Len(log) + 1 /\ \A m \in 1..Len(log) : log'[m] = log[m]
      /\ UNCHANGED <<pruned, cursor, proc, handed, shown>>
  BY TypeParts DEF Send, LogTyped
<1> SUFFICES ASSUME NEW m \in Retained', Addressed(m)'
             PROVE  Unlost(m)'
    BY DEF Complete
<1>2. CASE m \in Retained
  <2>1. Unlost(m)
    BY <1>1, <1>2, Ranges DEF Complete, Addressed, Retained
  <2> QED BY <1>1, <2>1 DEF Unlost, Seen
<1>3. CASE m \notin Retained
  <2>1. m = Len(log) + 1
    BY <1>1, <1>3, Ranges DEF Retained
  <2> QED BY <1>1, <2>1, Ranges DEF Unlost
<1> QED BY <1>2, <1>3

LEMMA CompleteProcess ==
    ASSUME TypeOK, Whole, Marked, Complete, NEW p \in Process,
           \/ \E since \in Since : Look(p, since)
           \/ ReadHead(p) \/ Register(p) \/ Deliver(p) \/ Output(p)
           \/ Stage(p) \/ Emit(p) \/ Acknowledge(p) \/ Stop(p)
    PROVE  Complete'
<1>1. UNCHANGED <<log, pruned>>
  BY DEF Look, ReadHead, Register, Deliver, Output, Stage, Emit, Acknowledge, Stop
<1> SUFFICES ASSUME NEW m \in Retained, Addressed(m)
             PROVE  Unlost(m)'
    BY <1>1 DEF Complete, Retained, Addressed
<1>2. Unlost(m) /\ m \in Nat /\ m <= Len(log)
  BY Ranges DEF Complete, Retained
<1>3. Mine(p) = {n \in Retained : Addressed(n) /\ n > cursor.last}
  BY MineIsAddressed, Ranges
<1>4. proc = [r \in Process |-> proc[r]]
      /\ proc[p] \in [at: Places, since: Nat \union {New}, upto: 0..Len(log),
                     rows: SUBSET (1..Len(log))]
  BY DEF TypeOK
<1>5. ASSUME UNCHANGED cursor, handed' = handed, Seen(m) => Seen(m)', NEW q, Becomes(p, q),
             m <= q.upto => /\ q.at = "staged" => Seen(m)' \/ m \in q.rows
                            /\ q.at = "emitted" => Seen(m)'
      PROVE  Unlost(m)'
  BY <1>2, <1>4, <1>5 DEF Unlost, Becomes
<1>6. ASSUME UNCHANGED <<handed, shown>> PROVE Seen(m)' <=> Seen(m)
  BY <1>6 DEF Seen
<1>7. ASSUME NEW since \in Since, Look(p, since) PROVE Unlost(m)'
  BY <1>4, <1>5, <1>6, <1>7 DEF Look
<1>8. ~ReadHead(p) /\ ~Register(p)
  BY DEF Marked, ReadHead, Register
<1>9. ASSUME Deliver(p) PROVE Unlost(m)'
  <2>1. m \in Ids
    BY <1>2, Ranges DEF Retained
  <2>2. Seen(m)'
    <3>1. CASE m <= cursor.last
      <4>1. Seen(m) BY <1>2, <3>1 DEF Unlost
      <4> QED BY <1>9, <4>1, <2>1, Ranges DEF Deliver, Seen, Smaller
    <3>2. CASE m > cursor.last
      <4>1. m \in Mine(p) BY <1>3, <3>2
      <4> QED BY <1>9, <4>1, <2>1, Ranges DEF Deliver, Seen, Smaller
    <3> QED BY <1>2, <3>1, <3>2, Ranges
  <2> QED BY <2>2 DEF Unlost
<1>10. ASSUME Output(p) PROVE Unlost(m)'
  BY <1>4, <1>5, <1>10 DEF Output, Goto, Seen
<1>11. ASSUME Stage(p) PROVE Unlost(m)'
  <2> DEFINE upto == IF Scan = {} THEN Smaller(cursor.last, cursor.dm) ELSE Len(log)
  <2>1. m <= cursor.last => Seen(m)
    BY <1>2 DEF Unlost
  <2>2. m > cursor.last => m \in Mine(p)
    BY <1>3
  <2>3. m <= cursor.last \/ m > cursor.last
    BY <1>2, Ranges
  <2> DEFINE q == [proc[p] EXCEPT !.rows = Mine(p), !.upto = upto,
                     !.at = IF Mine(p) = {} THEN "emitted" ELSE "staged"]
  <2>4. q.rows = Mine(p) /\ q.at = (IF Mine(p) = {} THEN "emitted" ELSE "staged")
    BY <1>4
  <2>5. Becomes(p, q) /\ UNCHANGED <<cursor, handed, shown>>
    BY <1>11 DEF Stage
  <2> HIDE DEF q
  <2> QED BY <1>5, <1>6, <2>1, <2>2, <2>3, <2>4, <2>5
<1>12. ASSUME Emit(p) PROVE Unlost(m)'
  <2>1. shown' = shown \union proc[p].rows /\ proc[p].at = "staged"
    BY <1>12, AllShown DEF Emit
  <2> QED BY <1>2, <1>4, <1>5, <1>12, <2>1 DEF Emit, Goto, Seen, Unlost
<1>13. ASSUME Acknowledge(p) PROVE Unlost(m)'
  <2>1. /\ cursor'.last = Through(p) /\ proc[p].at = "emitted" /\ Becomes(p, Out)
        /\ UNCHANGED <<handed, shown>>
    BY <1>13 DEF Acknowledge
  <2>2. Through(p) = Larger(proc[p].upto, cursor.last)
    BY Ranges DEF Through, Marked, Larger
  <2>3. m <= Through(p) => Seen(m)
    BY <1>2, <2>1, <2>2, Ranges DEF Unlost, Larger
  <2>4. \A r \in Process : proc'[r] = (IF r = p THEN Out ELSE proc[r])
    BY <1>4, <2>1 DEF Becomes
  <2> QED BY <1>2, <1>6, <2>1, <2>3, <2>4 DEF Unlost, Out
<1>14. ASSUME Stop(p) PROVE Unlost(m)'
  BY <1>4, <1>5, <1>6, <1>14 DEF Stop, Out
<1> QED
  BY <1>7, <1>8, <1>9, <1>10, <1>11, <1>12, <1>13, <1>14

LEMMA CompleteStep ==
    ASSUME TypeOK, Whole, Marked, Complete, [Next]_vars
    PROVE  Complete'
<1>1. ASSUME NEW cut \in 0..MaxMessages, PruneMessages(cut) PROVE Complete'
  <2>1. pruned' = cut /\ cut \in pruned..Len(log) /\ UNCHANGED <<log, cursor, proc, handed, shown>>
    BY <1>1 DEF PruneMessages
  <2>2. Retained' \subseteq Retained
    BY <2>1, Ranges DEF Retained
  <2>3. \A m : (Addressed(m)' <=> Addressed(m)) /\ (Unlost(m) => Unlost(m)')
    BY <2>1 DEF Addressed, Unlost, Seen
  <2> QED BY <2>2, <2>3 DEF Complete
<1>2. ~PruneCursor
  BY Ranges DEF PruneCursor, Stale, Marked, Whole, Undisturbed
<1>3. ASSUME UNCHANGED vars PROVE Complete'
  BY <1>3 DEF vars, Complete, Retained, Addressed, Unlost, Seen
<1> QED
  BY <1>1, <1>2, <1>3, CompleteSend, CompleteProcess DEF Next

(* Nothing the watermarks pass is skipped, under those conditions, whoever *)
(* is killed between reading, writing and acknowledging.                   *)
THEOREM NoneSkipped == ASSUME Whole PROVE Spec => []NothingSkipped
<1> Undisturbed
  BY DEF Whole
<1>1. Init => TypeOK /\ Marked /\ Complete
  BY TypeInit, MarkedInit, CompleteInit
<1>2. TypeOK /\ Marked /\ Complete /\ [Next]_vars => (TypeOK /\ Marked /\ Complete)'
  BY TypeStep, MarkedStep, CompleteStep
<1>3. Marked /\ Complete => NothingSkipped
  BY DEF Marked, Complete, Unlost, NothingSkipped
<1> QED
  BY <1>1, <1>2, <1>3, PTL DEF Spec

-----------------------------------------------------------------------------
(* Without hooks, and with no --since but one that replays everything, a   *)
(* registration puts the mark for direct messages at 0.                    *)
Reading == Hook = {} /\ \A n \in Since \ {New} : n >= MaxMessages

FromZero ==
    \A p \in Process : /\ proc[p].at \notin {"staged", "emitted"}
                       /\ proc[p].since \in Since \union {New}

Direct(m) == log[m].to = Me
DirectKept == \A m \in Retained : Direct(m) /\ m <= cursor.dm => Seen(m)

LEMMA FromZeroStep ==
    ASSUME Reading, TypeOK, FromZero, [Next]_vars
    PROVE  FromZero'
<1>1. \A p \in Process : proc[p] \in [at: Places, since: Nat \union {New},
                                      upto: 0..Len(log), rows: SUBSET (1..Len(log))]
  BY DEF TypeOK
<1>2. proc = [p \in Process |-> proc[p]]
  BY DEF TypeOK
<1>3. ASSUME NEW p \in Process, NEW q, Becomes(p, q),
             q.at \notin {"staged", "emitted"}, q.since \in Since \union {New}
      PROVE  FromZero'
  BY <1>2, <1>3 DEF FromZero, Becomes
<1>4. ASSUME NEW p \in Process, NEW since \in Since, Look(p, since) PROVE FromZero'
  BY <1>1, <1>3, <1>4 DEF Look, FromZero
<1>5. ASSUME NEW p \in Process, ReadHead(p) PROVE FromZero'
  BY <1>1, <1>3, <1>5 DEF ReadHead, FromZero
<1>6. ASSUME NEW p \in Process, Register(p) PROVE FromZero'
  BY <1>1, <1>3, <1>6 DEF Register, Goto, FromZero
<1>7. ASSUME NEW p \in Process, Deliver(p) PROVE FromZero'
  BY <1>1, <1>3, <1>7 DEF Deliver, FromZero
<1>8. ASSUME NEW p \in Process, Output(p) PROVE FromZero'
  BY <1>1, <1>3, <1>8 DEF Output, Goto, FromZero
<1>9. ASSUME NEW p \in Process, Stage(p) \/ Emit(p) \/ Acknowledge(p) PROVE FromZero'
  BY <1>9 DEF Stage, Emit, Acknowledge, FromZero, Reading
<1>10. ASSUME NEW p \in Process, Stop(p) PROVE FromZero'
  BY <1>3, <1>10 DEF Stop, Out
<1>11. CASE UNCHANGED proc
  BY <1>11 DEF FromZero
<1> QED
  BY <1>4, <1>5, <1>6, <1>7, <1>8, <1>9, <1>10, <1>11
  DEF Next, Send, PruneMessages, PruneCursor, vars

LEMMA DirectStep ==
    ASSUME Reading, TypeOK, FromZero, DirectKept, [Next]_vars
    PROVE  DirectKept'
<1> USE Ranges
<1>1. ASSUME NEW from \in {Me} \union Peer, NEW to \in Channel, Send(from, to)
      PROVE  DirectKept'
  <2>1. /\ Len(log') = Len(log) + 1 /\ \A m \in 1..Len(log) : log'[m] = log[m]
        /\ UNCHANGED <<pruned, cursor, handed, shown>>
    BY <1>1, TypeParts DEF Send, LogTyped
  <2>2. \A m \in Retained' : m <= cursor.dm => m \in Retained /\ log'[m] = log[m]
    BY <2>1 DEF Retained
  <2> QED BY <2>1, <2>2 DEF DirectKept, Direct, Seen
<1>2. ASSUME NEW p \in Process, Register(p) PROVE DirectKept'
  <2>1. proc[p].since = New \/ (proc[p].since \in Nat /\ proc[p].since >= MaxMessages)
    BY DeliveryAssumption DEF FromZero, Reading
  <2>2. FirstMarks(proc[p].since, proc[p].upto).dm = 0
    BY <2>1 DEF FirstMarks, Larger
  <2>3. cursor'.dm = 0 /\ UNCHANGED <<log, pruned>>
    BY <1>2, <2>2 DEF Register
  <2> QED BY <2>3 DEF DirectKept, Retained
<1>3. ASSUME NEW p \in Process, Deliver(p) PROVE DirectKept'
  <2>1. UNCHANGED <<log, pruned, shown>> /\ Retained \subseteq Ids
    BY <1>3 DEF Deliver, Retained
  <2> SUFFICES ASSUME NEW m \in Retained, Direct(m) PROVE Seen(m)'
      BY <2>1 DEF DirectKept, Retained, Direct
  <2>2. Seen(m) \/ m \in Mine(p)
    BY DEF DirectKept, Direct, Mine, Retained
  <2> QED BY <1>3, <2>1, <2>2 DEF Deliver, Seen, Smaller
<1>4. ASSUME NEW p \in Process, Output(p) PROVE DirectKept'
  BY <1>4 DEF Output, DirectKept, Retained, Direct, Seen
<1>5. ASSUME NEW p \in Process, Stage(p) \/ Emit(p) \/ Acknowledge(p) PROVE DirectKept'
  BY <1>5 DEF Stage, Emit, Acknowledge, FromZero, Reading
<1>6. ASSUME NEW cut \in 0..MaxMessages, PruneMessages(cut) PROVE DirectKept'
  BY <1>6 DEF PruneMessages, DirectKept, Retained, Direct, Seen
<1>7. ASSUME PruneCursor PROVE DirectKept'
  BY <1>7 DEF PruneCursor, NoRow, DirectKept, Retained
<1>8. CASE UNCHANGED <<log, pruned, cursor, handed, shown>>
  BY <1>8 DEF DirectKept, Retained, Direct, Seen
<1> QED
  BY <1>1, <1>2, <1>3, <1>4, <1>5, <1>6, <1>7, <1>8
  DEF Next, Look, ReadHead, Stop, vars

(* No direct message is passed over, "even if sent just before I joined",  *)
(* although registrations race and cursors come and go: ensure_cursor and  *)
(* deliver by themselves keep that promise, whatever the number of         *)
(* processes.                                                              *)
THEOREM DirectMessagesKept == ASSUME Reading PROVE Spec => []DirectNeverMissed
<1>1. Init => TypeOK /\ FromZero /\ DirectKept
  <2>1. Init => FromZero /\ DirectKept
    BY DEF Init, FromZero, Out, DirectKept, Retained
  <2> QED BY <2>1, TypeInit
<1>2. TypeOK /\ FromZero /\ DirectKept /\ [Next]_vars => (TypeOK /\ FromZero /\ DirectKept)'
  BY TypeStep, FromZeroStep, DirectStep
<1>3. DirectKept => DirectNeverMissed
  BY DEF DirectKept, Direct, DirectNeverMissed
<1> QED
  BY <1>1, <1>2, <1>3, PTL DEF Spec
=============================================================================
