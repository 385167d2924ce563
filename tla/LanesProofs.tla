----------------------------- MODULE LanesProofs -----------------------------
(***************************************************************************)
(* Proofs about Lanes, for any sessions, lanes and ttls.                   *)
(***************************************************************************)
EXTENDS Lanes, TLAPS

LEMMA DownInRange ==
    ASSUME NEW floor \in {Over, Idle}, NEW n \in floor..Forever
    PROVE  Down(n, floor) \in floor..Forever
BY LanesAssumption DEF Down, Over, Idle, Forever

LEMMA NoRowTyped == NoRow \in [holder: Session \union {NoOne}, left: Left]
BY LanesAssumption DEF NoRow, Left, Over, Forever

(* What a granted claim writes has its type.                               *)
LEMMA GrantTyped ==
    ASSUME NEW s \in Session, NEW ttl \in TTLs \union {0}, NEW wait \in 0..LockWait,
           NEW left, left = IF ttl = 0 THEN Forever ELSE ttl - wait
    PROVE  /\ left \in Left
           /\ (IF left >= 0 THEN left ELSE Idle) \in Idle..Forever
BY LanesAssumption DEF Left, Over, Forever, Idle

LEMMA TypeInit == Init => TypeOK
BY NoRowTyped, LanesAssumption DEF Init, TypeOK, Idle, Forever

LEMMA ContendTyped ==
    ASSUME TypeOK, NEW s \in Session, NEW l \in Lane, NEW ttl \in TTLs \union {0},
           NEW steal \in BOOLEAN, Contend(s, l, ttl, steal)
    PROVE  TypeOK'
<1> USE LanesAssumption
<1> DEFINE left == IF ttl = 0 THEN Forever ELSE ttl - clock[s]
<1>1. clock[s] \in 0..LockWait
  BY DEF Contend, TypeOK, Idle
<1>2. left \in Left /\ (IF left >= 0 THEN left ELSE Idle) \in Idle..Forever
  BY <1>1, GrantTyped
<1>3. /\ clock' = [clock EXCEPT ![s] = Idle] /\ gone' = gone
      /\ \/ UNCHANGED <<lane, hold>>
         \/ /\ lane' = [lane EXCEPT ![l] = [holder |-> s, left |-> left]]
            /\ hold' = [x \in Session |-> [hold[x] EXCEPT ![l] =
                            IF x = s THEN (IF left >= 0 THEN left ELSE Idle)
                            ELSE IF steal THEN Idle ELSE @]]
  BY DEF Contend
<1> HIDE DEF left
<1>4. Idle \in Idle..Forever /\ Idle \in Idle..LockWait
  BY DEF Idle, Forever
<1> QED
  BY <1>2, <1>3, <1>4 DEF TypeOK

LEMMA TypeStep == TypeOK /\ [Next]_vars => TypeOK'
<1> SUFFICES ASSUME TypeOK, [Next]_vars
             PROVE  TypeOK'
    OBVIOUS
<1> USE LanesAssumption
<1>0. Idle \in Idle..Forever /\ Idle \in Idle..LockWait
  BY DEF Idle, Forever
<1>1. ASSUME NEW s \in Session, ReadClock(s) PROVE TypeOK'
  BY <1>1 DEF ReadClock, TypeOK, Idle
<1>2. ASSUME NEW s \in Session, Claim(s) PROVE TypeOK'
  BY <1>2, ContendTyped DEF Claim
<1>3. ASSUME NEW s \in Session, NEW l \in Seat, Elect(s, l) PROVE TypeOK'
  BY <1>3, ContendTyped DEF Elect
<1>4. ASSUME NEW s \in Session, NEW l \in Lane, NEW force \in BOOLEAN, Release(s, l, force)
      PROVE  TypeOK'
  BY <1>4, <1>0, NoRowTyped DEF Release, TypeOK
<1>5. ASSUME NEW s \in Session, Leave(s) PROVE TypeOK'
  BY <1>5, <1>0, NoRowTyped DEF Leave, TypeOK
<1>6. ASSUME NEW s \in Session, Vanish(s) PROVE TypeOK'
  BY <1>6, <1>0 DEF Vanish, TypeOK
<1>7. ASSUME NEW s \in Session, Resume(s) PROVE TypeOK'
  BY <1>7 DEF Resume, TypeOK
<1>8. CASE Tick
  <2>1. lane' \in [Lane -> [holder: Session \union {NoOne}, left: Left]]
    BY <1>8, DownInRange DEF Tick, TypeOK, Left
  <2>2. hold' \in [Session -> [Lane -> Idle..Forever]]
    BY <1>8, DownInRange DEF Tick, TypeOK
  <2>3. clock' \in [Session -> Idle..LockWait]
    BY <1>8 DEF Tick, TypeOK, Idle
  <2> QED
    BY <1>8, <2>1, <2>2, <2>3 DEF Tick, TypeOK
<1>9. CASE UNCHANGED vars
  BY <1>9 DEF vars, TypeOK
<1> QED
  BY <1>1, <1>2, <1>3, <1>4, <1>5, <1>6, <1>7, <1>8, <1>9 DEF Next

(* The state of the lanes keeps its types.                                 *)
THEOREM TypeCorrect == Spec => []TypeOK
BY TypeInit, TypeStep, PTL DEF Spec

-----------------------------------------------------------------------------
(* HoldBacked is inductive: a claim is refused as long as the row of       *)
(* another holder is not over for the clock it read, and a clock reading   *)
(* is never ahead of the time.                                             *)
LEMMA ContendBacked ==
    ASSUME TypeOK, HoldBacked, NEW s \in Session, NEW l \in Lane,
           NEW ttl \in TTLs \union {0}, NEW steal \in BOOLEAN,
           Contend(s, l, ttl, steal)
    PROVE  HoldBacked'
<1> USE LanesAssumption
<1> DEFINE left == IF ttl = 0 THEN Forever ELSE ttl - clock[s]
<1>1. clock[s] \in 0..LockWait
  BY DEF Contend, TypeOK, Idle
<1>2. CASE Refused(s, l, steal)
  BY <1>2 DEF Contend, HoldBacked
<1>3. CASE ~Refused(s, l, steal)
  <2>1. /\ lane' = [lane EXCEPT ![l] = [holder |-> s, left |-> left]]
        /\ hold' = [x \in Session |-> [hold[x] EXCEPT ![l] =
                        IF x = s THEN (IF left >= 0 THEN left ELSE Idle)
                        ELSE IF steal THEN Idle ELSE @]]
    BY <1>3 DEF Contend
  <2>2. left \in Int
    BY <1>1, GrantTyped DEF Left, Over, Forever
  <2>3. ASSUME NEW x \in Session, x # s, hold[x][l] >= 0 PROVE steal
    <3>1. lane[l] = [holder |-> x, left |-> hold[x][l]]
      BY <2>3 DEF HoldBacked
    <3>2. lane[l].holder \notin {NoOne, s} /\ ~(lane[l].left < -clock[s])
      BY <1>1, <2>3, <3>1 DEF TypeOK, Idle, Forever
    <3> QED
      BY <1>3, <3>2 DEF Refused, Free
  <2> HIDE DEF left
  <2>4. ASSUME NEW x \in Session, NEW m \in Lane, hold'[x][m] >= 0
        PROVE  lane'[m] = [holder |-> x, left |-> hold'[x][m]]
    <3>1. CASE m # l
      BY <2>1, <2>4, <3>1 DEF HoldBacked, TypeOK
    <3>2. CASE m = l /\ x = s
      <4>1. hold'[x][m] = IF left >= 0 THEN left ELSE Idle
        BY <2>1, <3>2 DEF TypeOK
      <4>2. hold'[x][m] = left
        BY <2>2, <2>4, <4>1 DEF Idle
      <4> QED
        BY <2>1, <3>2, <4>2 DEF TypeOK
    <3>3. CASE m = l /\ x # s
      <4>1. hold'[x][m] = IF steal THEN Idle ELSE hold[x][l]
        BY <2>1, <3>3 DEF TypeOK
      <4> QED
        BY <2>3, <2>4, <3>3, <4>1 DEF Idle
    <3> QED
      BY <3>1, <3>2, <3>3
  <2> QED
    BY <2>4 DEF HoldBacked
<1> QED
  BY <1>2, <1>3

LEMMA BackedStep == TypeOK /\ HoldBacked /\ [Next]_vars => HoldBacked'
<1> SUFFICES ASSUME TypeOK, HoldBacked, [Next]_vars
             PROVE  HoldBacked'
    OBVIOUS
<1> USE LanesAssumption DEF HoldBacked
<1>1. ASSUME NEW s \in Session, ReadClock(s) PROVE HoldBacked'
  BY <1>1 DEF ReadClock
<1>2. ASSUME NEW s \in Session, Claim(s) PROVE HoldBacked'
  BY <1>2, ContendBacked DEF Claim
<1>3. ASSUME NEW s \in Session, NEW l \in Seat, Elect(s, l) PROVE HoldBacked'
  BY <1>3, ContendBacked DEF Elect
<1>4. ASSUME NEW s \in Session, NEW l \in Lane, NEW force \in BOOLEAN, Release(s, l, force)
      PROVE  HoldBacked'
  BY <1>4 DEF Release, TypeOK, Idle, NoRow
<1>5. ASSUME NEW s \in Session, Leave(s) PROVE HoldBacked'
  BY <1>5 DEF Leave, TypeOK, Idle, NoRow
<1>6. ASSUME NEW s \in Session, Vanish(s) PROVE HoldBacked'
  BY <1>6 DEF Vanish, TypeOK, Idle
<1>7. ASSUME NEW s \in Session, Resume(s) PROVE HoldBacked'
  BY <1>7 DEF Resume
<1>8. CASE Tick
  <2> SUFFICES ASSUME NEW s \in Session, NEW l \in Lane, hold'[s][l] >= 0
               PROVE  lane'[l] = [holder |-> s, left |-> hold'[s][l]]
    OBVIOUS
  <2>1. hold'[s][l] = Down(hold[s][l], Idle) /\ hold[s][l] \in Idle..Forever
    BY <1>8 DEF Tick, TypeOK
  <2>2. hold[s][l] >= 0 /\ Down(hold[s][l], Idle) = Down(hold[s][l], Over)
    BY <2>1 DEF Down, Idle, Over, Forever
  <2>3. lane[l] = [holder |-> s, left |-> hold[s][l]]
    BY <2>2
  <2> QED
    BY <1>8, <2>1, <2>2, <2>3 DEF Tick
<1>9. CASE UNCHANGED vars
  BY <1>9 DEF vars
<1> QED
  BY <1>1, <1>2, <1>3, <1>4, <1>5, <1>6, <1>7, <1>8, <1>9 DEF Next

LEMMA BackedInit == Init => HoldBacked
BY DEF Init, HoldBacked, Idle

(* Every held lane is backed by a row of its holder.                       *)
THEOREM HoldIsBacked == Spec => []HoldBacked
BY TypeCorrect, BackedInit, BackedStep, PTL DEF Spec

(* Lanes and seats exclude each other's holders.                           *)
THEOREM ExclusiveLane == Spec => []LaneExclusive
<1>1. HoldBacked => LaneExclusive
  <2> SUFFICES ASSUME HoldBacked, NEW l \in Lane, NEW s \in Session, NEW t \in Session,
                      hold[s][l] >= 0, hold[t][l] >= 0
               PROVE  s = t
      BY DEF LaneExclusive
  <2>1. lane[l] = [holder |-> s, left |-> hold[s][l]]
    BY Zenon DEF HoldBacked
  <2>2. lane[l] = [holder |-> t, left |-> hold[t][l]]
    BY Zenon DEF HoldBacked
  <2> QED
    BY <2>1, <2>2
<1> QED
  BY <1>1, HoldIsBacked, PTL
=============================================================================
