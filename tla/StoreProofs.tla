---------------------------- MODULE StoreProofs -----------------------------
(***************************************************************************)
(* Proofs about the two stores: Blackboard, for any sessions, values and   *)
(* versions, and MemorySync, for any machines, remotes, files, edits and   *)
(* push attempts.                                                          *)
(***************************************************************************)
EXTENDS Blackboard, MemorySync, FiniteSetTheorems, TLAPS

Fates   == {"none", "current", "moved", "reborn"}
Answers == (Session \X {"landed", "conflict"}) \union {NoAnswer}

LEMMA OvertakeTyped ==
    ASSUME NEW fate \in Fates, reading \in [Session -> Fates], Overtake(fate)
    PROVE  /\ reading' \in [Session -> Fates]
           /\ \A s \in Session :
                 reading'[s] = IF reading[s] = "none" THEN "none"
                               ELSE IF reading[s] = "reborn" THEN "reborn" ELSE fate
  BY DEF Overtake, Fates

LEMMA TypeInit == Init => TypeOK
<1> SUFFICES ASSUME Init PROVE TypeOK
    OBVIOUS
<1>1. reading \in [Session -> Fates] /\ seen \in [Session -> 0..MaxVersion]
  BY BlackboardAssumption DEF Init, Fates
<1>2. answer \in Answers /\ removed \in BOOLEAN
  BY DEF Init, Answers
<1> QED
  BY <1>1, <1>2, BlackboardAssumption DEF Init, TypeOK, NoRow, Fates, Answers

LEMMA PutTyped ==
    ASSUME TypeOK, NEW v \in Value, NEW ttl \in BOOLEAN, Put(v, ttl)
    PROVE  /\ row' \in [value: Value \union {Absent}, ver: 0..MaxVersion,
                        mortal: BOOLEAN, lapsed: BOOLEAN]
           /\ row'.ver = row.ver + 1 /\ row'.value = v
           /\ row'.mortal = ttl /\ ~row'.lapsed
           /\ row'.ver = 0 <=> row'.value = Absent
           /\ seen' = seen /\ removed' = removed
<1>1. /\ row.ver \in 0..MaxVersion /\ MaxVersion \in Nat
      /\ Absent \notin Value
  BY BlackboardAssumption DEF TypeOK
<1>2. /\ row.ver < MaxVersion /\ seen' = seen /\ removed' = removed
      /\ row' = [value |-> v, ver |-> row.ver + 1, mortal |-> ttl, lapsed |-> FALSE]
  BY DEF Put, NextVer
<1>3. row.ver + 1 \in 1..MaxVersion
  BY <1>1, <1>2
<1>4. /\ row'.ver = row.ver + 1 /\ row'.value = v
      /\ row'.mortal = ttl /\ row'.lapsed = FALSE
  BY <1>2
<1>5. row' \in [value: Value \union {Absent}, ver: 0..MaxVersion,
               mortal: BOOLEAN, lapsed: BOOLEAN]
  BY <1>1, <1>2, <1>3
<1> QED
  BY <1>1, <1>2, <1>3, <1>4, <1>5

LEMMA TypeStep == TypeOK /\ [Next]_vars => TypeOK'
<1> SUFFICES ASSUME TypeOK, [Next]_vars PROVE TypeOK'
    OBVIOUS
<1> USE BlackboardAssumption
<1>0. reading \in [Session -> Fates]
  BY DEF TypeOK, Fates
<1>1. ASSUME NEW s \in Session, Get(s) PROVE TypeOK'
  BY <1>1 DEF Get, TypeOK
<1>2. ASSUME NEW v \in Value, NEW ttl \in BOOLEAN, Put(v, ttl),
             NEW fate \in Fates, Overtake(fate), answer' \in Answers
      PROVE  TypeOK'
  BY <1>0, <1>2, PutTyped, OvertakeTyped DEF TypeOK, Fates, Answers
<1>3. ASSUME NEW v \in Value, NEW ttl \in BOOLEAN, Set(v, ttl) PROVE TypeOK'
  BY <1>2, <1>3 DEF Set, Fates, Answers
<1>4. ASSUME NEW v \in Value, NEW ttl \in BOOLEAN, NEW s \in Session,
             SetIfVer(s, v, ttl)
      PROVE  TypeOK'
  <2>1. <<s, "landed">> \in Answers /\ <<s, "conflict">> \in Answers
    BY DEF Answers
  <2>2. CASE Matches(s)
    BY <1>2, <1>4, <2>1, <2>2 DEF SetIfVer, Fates
  <2>3. CASE ~Matches(s)
    BY <1>4, <2>1, <2>3 DEF SetIfVer, TypeOK, Answers
  <2> QED BY <2>2, <2>3
<1>5. ASSUME Del \/ Prune PROVE TypeOK'
  <2>1. row' = NoRow /\ seen' = seen /\ Overtake("moved") /\ answer' \in Answers
        /\ removed' \in BOOLEAN
    BY <1>5 DEF Del, Prune, TypeOK, Answers
  <2>2. reading' \in [Session -> Fates]
    BY <1>0, <2>1, OvertakeTyped DEF Fates
  <2> QED BY <2>1, <2>2 DEF TypeOK, NoRow, Fates, Answers
<1>6. ASSUME Lapse PROVE TypeOK'
  BY <1>6 DEF Lapse, TypeOK
<1>7. ASSUME UNCHANGED vars PROVE TypeOK'
  BY <1>7 DEF vars, TypeOK
<1> QED
  BY <1>1, <1>3, <1>4, <1>5, <1>6, <1>7 DEF Next

(* Every reachable state is well typed.                                    *)
THEOREM TypeCorrect == Spec => []TypeOK
  BY TypeInit, TypeStep, PTL DEF Spec

-----------------------------------------------------------------------------
(* What a reading's fate says of the version it saw: a moved one is below  *)
(* the row's as long as the key is there.                                  *)
Dated ==
    \A s \in Session :
        /\ reading[s] = "none" => seen[s] = 0
        /\ reading[s] = "current" => seen[s] = row.ver /\ Present
        /\ reading[s] = "moved" /\ Present => seen[s] < row.ver

LEMMA DatedStep == TypeOK /\ Dated /\ [Next]_vars => Dated'
<1> SUFFICES ASSUME TypeOK, Dated, [Next]_vars PROVE Dated'
    OBVIOUS
<1>0. /\ reading \in [Session -> Fates] /\ seen \in [Session -> 0..MaxVersion]
      /\ row.ver \in 0..MaxVersion /\ MaxVersion \in Nat
  BY BlackboardAssumption DEF TypeOK, Fates
<1>1. ASSUME NEW s \in Session, Get(s) PROVE Dated'
  BY <1>0, <1>1 DEF Get, Dated, Present
<1>2. ASSUME NEW v \in Value, NEW ttl \in BOOLEAN, Set(v, ttl) PROVE Dated'
  <2>1. row'.ver = row.ver + 1 /\ seen' = seen
    BY <1>2, PutTyped DEF Set
  <2>2. CASE Present
    <3>1. \A s \in Session : reading'[s] = IF reading[s] = "none" THEN "none"
                               ELSE IF reading[s] = "reborn" THEN "reborn" ELSE "moved"
      BY <1>0, <1>2, <2>2, OvertakeTyped DEF Set, Fates
    <3> QED BY <1>0, <2>1, <2>2, <3>1 DEF Dated, Fates, Present
  <2>3. CASE ~Present
    <3>1. \A s \in Session : reading'[s] = IF reading[s] = "none" THEN "none" ELSE "reborn"
      BY <1>0, <1>2, <2>3, OvertakeTyped DEF Set, Fates
    <3> QED BY <2>1, <3>1 DEF Dated
  <2> QED BY <2>2, <2>3
<1>3. ASSUME NEW v \in Value, NEW ttl \in BOOLEAN, NEW s \in Session,
             SetIfVer(s, v, ttl)
      PROVE  Dated'
  <2>0. CASE ~Matches(s)
    BY <1>3, <2>0 DEF SetIfVer, Dated, Present
  <2> SUFFICES ASSUME Matches(s) PROVE Dated'
      BY <2>0
  <2>1. row'.ver = row.ver + 1 /\ seen' = seen /\ Present
    BY <1>3, PutTyped DEF SetIfVer, Matches
  <2>2. \A r \in Session : reading'[r] = IF reading[r] = "none" THEN "none"
                             ELSE IF reading[r] = "reborn" THEN "reborn" ELSE "moved"
    BY <1>0, <1>3, OvertakeTyped DEF SetIfVer, Fates
  <2> QED BY <1>0, <2>1, <2>2 DEF Dated, Fates, Present
<1>4. ASSUME Del \/ Prune PROVE Dated'
  <2>1. row'.ver = 0 /\ seen' = seen
    BY <1>4 DEF Del, Prune, NoRow
  <2>2. \A r \in Session : reading'[r] = IF reading[r] = "none" THEN "none"
                             ELSE IF reading[r] = "reborn" THEN "reborn" ELSE "moved"
    BY <1>0, <1>4, OvertakeTyped DEF Del, Prune, Fates
  <2> QED BY <2>1, <2>2 DEF Dated, Present
<1>5. ASSUME Lapse PROVE Dated'
  BY <1>5 DEF Lapse, TypeOK, Dated, Present
<1>6. ASSUME UNCHANGED vars PROVE Dated'
  BY <1>6 DEF vars, Dated, Present
<1> QED
  BY <1>1, <1>2, <1>3, <1>4, <1>5, <1>6 DEF Next

LEMMA DatedIsSound == TypeOK /\ Dated => CasSound
<1> SUFFICES ASSUME TypeOK, Dated, NEW s \in Session
             PROVE  /\ Matches(s) => reading[s] \in {"current", "reborn"}
                    /\ reading[s] = "current" => Matches(s)
    BY DEF CasSound
<1>1. row.ver \in Nat
  BY BlackboardAssumption DEF TypeOK
<1> QED
  BY <1>1 DEF TypeOK, Dated, Present, Matches

(* A conditional write lands on a value nobody moved since its session     *)
(* read it, always, and on no other, unless the key was removed and set    *)
(* anew (bb set --if-ver).                                                 *)
THEOREM ConditionalWrites == Spec => []CasSound
<1>1. Init => TypeOK /\ Dated
  BY TypeInit DEF Init, Dated
<1>2. TypeOK /\ Dated /\ [Next]_vars => (TypeOK /\ Dated)'
  BY TypeStep, DatedStep
<1> QED
  BY <1>1, <1>2, DatedIsSound, PTL DEF Spec

-----------------------------------------------------------------------------
(* A key that was never removed has one life: before its first value       *)
(* nobody has a reading, and no reading is of another.                     *)
OneLife ==
    ~removed =>
        /\ ~row.lapsed
        /\ \A s \in Session : reading[s] # "reborn" /\ (~Present => reading[s] = "none")

OfCurrent == {s \in Session : reading[s] = "current"}

LEMMA OneLifeStep == ASSUME TypeOK, OneLife, [Next]_vars PROVE OneLife'
<1>0. reading \in [Session -> Fates] /\ row.ver \in Nat
  BY BlackboardAssumption DEF TypeOK, Fates
<1>1. ASSUME NEW s \in Session, Get(s) PROVE OneLife'
  BY <1>0, <1>1 DEF Get, OneLife, Present
<1>2. ASSUME NEW v \in Value, NEW ttl \in BOOLEAN, Put(v, ttl),
             NEW fate \in Fates, Overtake(fate), fate = "reborn" => ~Present
      PROVE  OneLife'
  <2>1. row'.ver # 0 /\ ~row'.lapsed /\ removed' = removed
    BY <1>0, <1>2, PutTyped
  <2>2. ~removed => \A s \in Session : reading'[s] # "reborn"
    BY <1>0, <1>2, OvertakeTyped DEF OneLife
  <2> QED BY <2>1, <2>2 DEF OneLife, Present
<1>3. ASSUME NEW v \in Value, NEW ttl \in BOOLEAN, Set(v, ttl) PROVE OneLife'
  BY <1>2, <1>3 DEF Set, Fates
<1>4. ASSUME NEW v \in Value, NEW ttl \in BOOLEAN, NEW s \in Session, SetIfVer(s, v, ttl)
      PROVE  OneLife'
  <2>1. CASE Matches(s)
    BY <1>2, <1>4, <2>1 DEF SetIfVer, Fates
  <2>2. CASE ~Matches(s)
    BY <1>4, <2>2 DEF SetIfVer, OneLife, Present
  <2> QED BY <2>1, <2>2
<1>5. ASSUME Del \/ Lapse PROVE OneLife'
  BY <1>5 DEF Del, Lapse, OneLife
<1>6. ASSUME Prune PROVE OneLife'
  BY <1>6 DEF Prune, OneLife
<1>7. ASSUME UNCHANGED vars PROVE OneLife'
  BY <1>7 DEF vars, OneLife, Present
<1> QED
  BY <1>1, <1>3, <1>4, <1>5, <1>6, <1>7 DEF Next

LEMMA RegisterInit == Init => Register!Init
  BY DEF Init, NoRow, Register!Init

LEMMA RegisterStep ==
    ASSUME TypeOK, Dated, OneLife, [Next]_vars
    PROVE  [~removed' => Register!Next]_(Register!vars)
<1> SUFFICES ASSUME ~removed'
             PROVE  [Register!Next]_(Register!vars)
    OBVIOUS
<1> ~removed
  BY DEF Next, Get, Set, SetIfVer, Put, Del, Lapse, Prune, vars
<1>0. /\ reading \in [Session -> Fates] /\ row.ver \in Nat
      /\ Present <=> row.value # Absent
  BY BlackboardAssumption DEF TypeOK, Fates, Present
<1>1. ASSUME NEW s \in Session, Get(s) PROVE Register!Read(s)
  <2>1. CASE Present
    <3>1. reading' = [reading EXCEPT ![s] = "current"] /\ row' = row /\ answer' = NoAnswer
      BY <1>1, <2>1 DEF Get, OneLife
    <3>2. OfCurrent' = OfCurrent \union {s}
      BY <1>0, <3>1 DEF OfCurrent
    <3> QED BY <1>0, <2>1, <3>1, <3>2 DEF Register!Read, OfCurrent
  <2>2. CASE ~Present
    <3>1. reading' = [reading EXCEPT ![s] = "none"] /\ row' = row /\ answer' = NoAnswer
      BY <1>1, <2>2 DEF Get
    <3>2. OfCurrent' = OfCurrent \ {s}
      BY <1>0, <3>1 DEF OfCurrent
    <3> QED BY <1>0, <2>2, <3>1, <3>2 DEF Register!Read, OfCurrent
  <2> QED BY <2>1, <2>2
<1>2. ASSUME NEW v \in Value, NEW ttl \in BOOLEAN, Put(v, ttl),
             NEW fate \in Fates, Overtake(fate), fate \in {"moved", "reborn"}
      PROVE  Register!Assign(v)
  <2>1. row'.value = v
    BY <1>2, PutTyped
  <2>2. OfCurrent' = {}
    BY <1>0, <1>2, OvertakeTyped DEF OfCurrent
  <2> QED BY <2>1, <2>2 DEF Register!Assign, OfCurrent
<1>3. ASSUME NEW v \in Value, NEW ttl \in BOOLEAN, Set(v, ttl)
      PROVE  Register!Write(v)
  BY <1>2, <1>3 DEF Set, Fates, Register!Write
<1>4. ASSUME NEW v \in Value, NEW ttl \in BOOLEAN, NEW s \in Session,
             SetIfVer(s, v, ttl)
      PROVE  Register!CompareAndSet(s, v)
  <2>1. s \in OfCurrent <=> Matches(s)
    BY DatedIsSound DEF CasSound, OneLife, OfCurrent
  <2>2. CASE Matches(s)
    <3>1. Register!Assign(v) /\ answer' = <<s, "landed">>
      BY <1>2, <1>4, <2>2 DEF SetIfVer, Fates
    <3> QED BY <2>1, <2>2, <3>1 DEF Register!CompareAndSet, OfCurrent
  <2>3. CASE ~Matches(s)
    <3>1. answer' = <<s, "conflict">> /\ UNCHANGED <<row, reading>>
      BY <1>4, <2>3 DEF SetIfVer
    <3> QED BY <2>1, <2>3, <3>1 DEF Register!CompareAndSet, OfCurrent
  <2> QED BY <2>2, <2>3
<1>5. ~Del /\ ~Lapse /\ ~Prune
  BY DEF Del, Lapse, Prune, OneLife
<1>6. ASSUME UNCHANGED vars PROVE UNCHANGED Register!vars
  BY <1>6 DEF vars, Register!vars
<1> QED
  BY <1>1, <1>3, <1>4, <1>5, <1>6 DEF Next, Register!Next

(* A key is a compare-and-set register until it is removed for the first   *)
(* time: every step of bb is one of CasRegister's or leaves the value, its *)
(* readers and the answer alone.                                           *)
THEOREM ImplementsRegister == Spec => IsRegister
<1>1. Init => TypeOK /\ Dated /\ OneLife /\ Register!Init
  <2>1. Init => Dated /\ OneLife
    BY DEF Init, NoRow, Dated, OneLife, Present
  <2> QED BY <2>1, TypeInit, RegisterInit
<1>2. TypeOK /\ Dated /\ OneLife /\ [Next]_vars => (TypeOK /\ Dated /\ OneLife)'
  BY TypeStep, DatedStep, OneLifeStep
<1>3. TypeOK /\ Dated /\ OneLife /\ [Next]_vars => [~removed' => Register!Next]_(Register!vars)
  BY RegisterStep
<1> QED
  BY <1>1, <1>2, <1>3, PTL DEF Spec, IsRegister

(* If it is never removed, it implements CasRegister altogether.           *)
THEOREM ImplementsWhole == Spec /\ []~removed => Register!Spec
<1>1. ~removed' /\ [~removed' => Register!Next]_(Register!vars) => [Register!Next]_(Register!vars)
  OBVIOUS
<1> QED
  BY <1>1, ImplementsRegister, PTL DEF IsRegister, Register!Spec

-----------------------------------------------------------------------------
(* MemorySync.  Sequences of commits.                                      *)
Once(s) == \A i, j \in DOMAIN s : s[i] = s[j] => i = j

LEMMA Ranked ==
    ASSUME NEW K \in SUBSET Nat, IsFiniteSet(K)
    PROVE  /\ Cardinality(K) \in Nat
           /\ \A i \in K : Rank(K, i) \in 1..Cardinality(K)
           /\ \A i, j \in K : Rank(K, i) = Rank(K, j) => i = j
           /\ \A n \in 1..Cardinality(K) : \E i \in K : Rank(K, i) = n
<1> DEFINE Upto(i) == {j \in K : j <= i}
           N == Cardinality(K)
<1>1. N \in Nat
  BY FS_CardinalityType
<1>2. ASSUME NEW i \in K
      PROVE  IsFiniteSet(Upto(i)) /\ Cardinality(Upto(i)) \in 1..N
  <2>1. Upto(i) \in SUBSET K /\ i \in Upto(i)
    OBVIOUS
  <2>2. IsFiniteSet(Upto(i)) /\ Cardinality(Upto(i)) <= N
    BY <2>1, FS_Subset
  <2>3. Cardinality(Upto(i)) \in Nat /\ Cardinality(Upto(i)) # 0
    BY <2>1, <2>2, FS_CardinalityType, FS_EmptySet
  <2> QED BY <1>1, <2>2, <2>3
<1>3. ASSUME NEW i \in K, NEW j \in K, i < j
      PROVE  Cardinality(Upto(i)) # Cardinality(Upto(j))
  <2>0. i \in Nat /\ j \in Nat /\ \A k \in K : k \in Nat
    OBVIOUS
  <2>a. \A k \in K : k <= i => k <= j
    BY <1>3, <2>0
  <2>b. ~(j <= i)
    BY <1>3, <2>0
  <2>1. Upto(i) \in SUBSET Upto(j)
    BY <2>a
  <2>2. j \in Upto(j) /\ j \notin Upto(i)
    BY <2>b, <2>0
  <2> QED BY <1>2, <2>1, <2>2, FS_Subset
<1>4. \A i, j \in K : Rank(K, i) = Rank(K, j) => i = j
  <2> SUFFICES ASSUME NEW i \in K, NEW j \in K, Rank(K, i) = Rank(K, j), i # j
               PROVE  FALSE
    OBVIOUS
  <2>1. i < j \/ j < i
    OBVIOUS
  <2> QED BY <1>3, <2>1 DEF Rank
<1>5. \A i \in K : Rank(K, i) \in 1..N
  BY <1>2 DEF Rank
<1> DEFINE f == [i \in K |-> Rank(K, i)]
<1>6. f \in Injection(K, 1..N)
  BY <1>4, <1>5 DEF Injection, IsInjective
<1>7. IsFiniteSet(1..N) /\ Cardinality(1..N) = N
  BY <1>1, FS_Interval
<1>8. f \in Surjection(K, 1..N)
  BY <1>6, <1>7, FS_Injection
<1>9. \A n \in 1..N : \E i \in K : Rank(K, i) = n
  BY <1>8 DEF Surjection
<1> QED
  BY <1>1, <1>4, <1>5, <1>9

(* Ascending lists every element of a finite set, and each once.           *)
LEMMA Ascends ==
    ASSUME NEW K \in SUBSET Nat, IsFiniteSet(K)
    PROVE  /\ Ascending(K) \in Seq(K) /\ Len(Ascending(K)) = Cardinality(K)
           /\ In(Ascending(K)) = K /\ Once(Ascending(K))
<1> DEFINE N == Cardinality(K)
           Nth(n) == CHOOSE i \in K : Rank(K, i) = n
<1>1. N \in Nat
  BY Ranked
<1>2. \A n \in 1..N : Nth(n) \in K /\ Rank(K, Nth(n)) = n
  BY Ranked
<1>3. \A i \in K : Rank(K, i) \in 1..N /\ Nth(Rank(K, i)) = i
  BY <1>2, Ranked
<1>4. Ascending(K) = [n \in 1..N |-> Nth(n)]
  BY DEF Ascending
<1> HIDE DEF Nth, N
<1>5. Ascending(K) \in Seq(K) /\ Len(Ascending(K)) = N /\ DOMAIN Ascending(K) = 1..N
  BY <1>1, <1>2, <1>4
<1>6. In(Ascending(K)) = K
  BY <1>2, <1>3, <1>4 DEF In
<1>7. Once(Ascending(K))
  BY <1>2, <1>4 DEF Once
<1> QED
  BY <1>5, <1>6, <1>7 DEF N

LEMMA SeqFinite ==
    ASSUME NEW S, NEW s \in Seq(S), NEW D \in SUBSET DOMAIN s
    PROVE  D \in SUBSET Nat /\ IsFiniteSet(D)
<1>1. DOMAIN s = 1..Len(s) /\ Len(s) \in Nat
  OBVIOUS
<1>2. IsFiniteSet(1..Len(s))
  BY <1>1, FS_Interval
<1> QED
  BY <1>1, <1>2, FS_Subset

(* Without takes away what the other branch has, and nothing else.         *)
LEMMA Withouts ==
    ASSUME NEW S, NEW s \in Seq(S), NEW t
    PROVE  /\ Without(s, t) \in Seq(S)
           /\ In(Without(s, t)) = In(s) \ In(t)
           /\ Once(s) => Once(Without(s, t))
<1> DEFINE K == {i \in DOMAIN s : s[i] \notin In(t)}
           a == Ascending(K)
<1>1. K \in SUBSET Nat /\ IsFiniteSet(K) /\ K \subseteq DOMAIN s
  BY SeqFinite
<1>2. a \in Seq(K) /\ In(a) = K /\ Once(a)
  BY <1>1, Ascends
<1>3. Without(s, t) = [n \in DOMAIN a |-> s[a[n]]]
  BY DEF Without
<1>4. \A i \in K : i \in DOMAIN s /\ s[i] \in S /\ s[i] \in In(s) \ In(t)
  BY DEF In
<1>5. \A x \in In(s) \ In(t) : \E i \in K : x = s[i]
  BY DEF In
<1> HIDE DEF a, K
<1>6. DOMAIN a = 1..Len(a) /\ Len(a) \in Nat /\ \A n \in DOMAIN a : a[n] \in K
  BY <1>2
<1>7. Without(s, t) \in Seq(S) /\ DOMAIN Without(s, t) = DOMAIN a
  BY <1>3, <1>4, <1>6
<1>8. In(Without(s, t)) = In(s) \ In(t)
  <2>1. ASSUME NEW n \in DOMAIN a PROVE Without(s, t)[n] \in In(s) \ In(t)
    BY <1>3, <1>4, <1>6
  <2>2. ASSUME NEW x \in In(s) \ In(t) PROVE \E n \in DOMAIN a : Without(s, t)[n] = x
    <3>1. PICK i \in K : x = s[i]
      BY <1>5
    <3>2. PICK n \in DOMAIN a : a[n] = i
      BY <1>2, <3>1 DEF In
    <3> QED BY <1>3, <3>1, <3>2
  <2>3. In(Without(s, t)) = {Without(s, t)[n] : n \in DOMAIN a}
    BY <1>7 DEF In
  <2> QED BY <2>1, <2>2, <2>3
<1>9. ASSUME Once(s) PROVE Once(Without(s, t))
  BY <1>2, <1>3, <1>4, <1>6, <1>7, <1>9 DEF Once
<1> QED
  BY <1>7, <1>8, <1>9

LEMMA Cats ==
    ASSUME NEW S, NEW s \in Seq(S), NEW t \in Seq(S)
    PROVE  /\ s \o t \in Seq(S) /\ In(s \o t) = In(s) \union In(t)
           /\ Once(s) /\ Once(t) /\ In(s) \cap In(t) = {} => Once(s \o t)
<1>1. /\ s \o t \in Seq(S) /\ Len(s \o t) = Len(s) + Len(t)
      /\ Len(s) \in Nat /\ Len(t) \in Nat /\ DOMAIN (s \o t) = 1..Len(s) + Len(t)
      /\ DOMAIN s = 1..Len(s) /\ DOMAIN t = 1..Len(t)
      /\ \A i \in 1..Len(s) : (s \o t)[i] = s[i]
      /\ \A i \in 1..Len(s) + Len(t) : i > Len(s) => (s \o t)[i] = t[i - Len(s)]
  OBVIOUS
<1> DEFINE c == s \o t
<1>c. /\ c \in Seq(S) /\ DOMAIN c = 1..Len(s) + Len(t)
      /\ \A i \in 1..Len(s) : c[i] = s[i]
      /\ \A i \in 1..Len(s) + Len(t) : i > Len(s) => c[i] = t[i - Len(s)]
  BY <1>1
<1> HIDE DEF c
<1>2. ASSUME NEW i \in 1..Len(s) + Len(t)
      PROVE  \/ i \in 1..Len(s) /\ c[i] = s[i] /\ c[i] \in In(s)
             \/ i - Len(s) \in 1..Len(t) /\ c[i] = t[i - Len(s)] /\ c[i] \in In(t)
  <2>1. i <= Len(s) \/ (i > Len(s) /\ i - Len(s) \in 1..Len(t))
    BY <1>1
  <2>2. CASE i <= Len(s)
    BY <1>1, <1>c, <2>2 DEF In
  <2>3. CASE i > Len(s) /\ i - Len(s) \in 1..Len(t)
    BY <1>1, <1>c, <2>3 DEF In
  <2> QED BY <2>1, <2>2, <2>3
<1>3. \A x \in In(s) : \E i \in DOMAIN c : c[i] = x
  <2> SUFFICES ASSUME NEW i \in DOMAIN s PROVE \E j \in DOMAIN c : c[j] = s[i]
    BY DEF In
  <2>1. i \in 1..Len(s) /\ i \in DOMAIN c
    BY <1>1, <1>c
  <2> QED BY <1>c, <2>1
<1>4. \A x \in In(t) : \E i \in DOMAIN c : c[i] = x
  <2> SUFFICES ASSUME NEW i \in DOMAIN t PROVE \E j \in DOMAIN c : c[j] = t[i]
    BY DEF In
  <2>1. i + Len(s) \in DOMAIN c /\ i + Len(s) > Len(s) /\ (i + Len(s)) - Len(s) = i
    BY <1>1, <1>c
  <2>2. c[i + Len(s)] = t[i]
    BY <1>c, <2>1
  <2> QED BY <2>1, <2>2
<1>5. In(c) = In(s) \union In(t)
  <2>1. \A x \in In(c) : x \in In(s) \union In(t)
    BY <1>2, <1>c DEF In
  <2>2. \A x \in In(s) \union In(t) : x \in In(c)
    BY <1>3, <1>4 DEF In
  <2> QED BY <2>1, <2>2
<1>6. ASSUME Once(s), Once(t), In(s) \cap In(t) = {} PROVE Once(c)
  <2> SUFFICES ASSUME NEW i \in 1..Len(s) + Len(t), NEW j \in 1..Len(s) + Len(t), c[i] = c[j]
               PROVE  i = j
    BY <1>c DEF Once
  <2>1. CASE i \in 1..Len(s) /\ c[i] = s[i] /\ c[i] \in In(s)
    <3>1. j \in 1..Len(s) /\ c[j] = s[j]
      BY <1>2, <1>6, <2>1
    <3> QED BY <1>1, <1>6, <2>1, <3>1 DEF Once
  <2>2. CASE i - Len(s) \in 1..Len(t) /\ c[i] = t[i - Len(s)] /\ c[i] \in In(t)
    <3>1. j - Len(s) \in 1..Len(t) /\ c[j] = t[j - Len(s)]
      BY <1>2, <1>6, <2>2
    <3>2. i - Len(s) = j - Len(s)
      BY <1>1, <1>6, <2>2, <3>1 DEF Once
    <3> QED BY <1>1, <3>2
  <2> QED BY <1>2, <2>1, <2>2
<1> QED
  BY <1>c, <1>5, <1>6 DEF c

(* A sequence cut in two, before k.                                        *)
LEMMA Cuts ==
    ASSUME NEW S, NEW s \in Seq(S), NEW k \in 1..Len(s)
    PROVE  LET a == SubSeq(s, 1, k - 1)
               b == SubSeq(s, k, Len(s))
           IN  /\ a \in Seq(S) /\ b \in Seq(S) /\ In(s) = In(a) \union In(b)
               /\ Once(s) => Once(a) /\ Once(b)
<1> DEFINE a == SubSeq(s, 1, k - 1)
           b == SubSeq(s, k, Len(s))
<1>1. Len(s) \in Nat /\ DOMAIN s = 1..Len(s) /\ k \in Nat /\ 1 <= k /\ k <= Len(s)
  OBVIOUS
<1>2. a \in Seq(S) /\ DOMAIN a = 1..k - 1 /\ \A i \in 1..k - 1 : a[i] = s[i] /\ i \in DOMAIN s
  BY <1>1
<1>3. /\ b \in Seq(S) /\ DOMAIN b = 1..Len(s) - k + 1
      /\ \A i \in 1..Len(s) - k + 1 : b[i] = s[i + k - 1] /\ i + k - 1 \in DOMAIN s
  BY <1>1
<1> HIDE DEF a, b
<1>4. \A x \in In(a) \union In(b) : x \in In(s)
  BY <1>2, <1>3 DEF In
<1>5. ASSUME NEW i \in DOMAIN s PROVE s[i] \in In(a) \union In(b)
  <2>1. CASE i < k
    <3>1. i \in 1..k - 1
      BY <1>1, <2>1
    <3> QED BY <1>2, <3>1 DEF In
  <2>2. CASE i >= k
    <3>1. i - k + 1 \in 1..Len(s) - k + 1 /\ (i - k + 1) + k - 1 = i
      BY <1>1, <2>2
    <3>2. b[i - k + 1] = s[i]
      BY <1>3, <3>1
    <3> QED BY <1>3, <3>1, <3>2 DEF In
  <2> QED BY <1>1, <2>1, <2>2
<1>6. In(s) = In(a) \union In(b)
  BY <1>4, <1>5 DEF In
<1>7. ASSUME Once(s) PROVE Once(a) /\ Once(b)
  <2>1. Once(a)
    BY <1>2, <1>7 DEF Once
  <2>2. ASSUME NEW i \in 1..Len(s) - k + 1, NEW j \in 1..Len(s) - k + 1, b[i] = b[j] PROVE i = j
    <3>1. i + k - 1 = j + k - 1
      BY <1>3, <1>7, <2>2 DEF Once
    <3> QED BY <1>1, <3>1
  <2> QED BY <1>3, <2>1, <2>2 DEF Once
<1> QED
  BY <1>2, <1>3, <1>6, <1>7 DEF a, b

LEMMA PrefixIn ==
    ASSUME NEW S, NEW s \in Seq(S), NEW t \in Seq(S), IsPrefix(s, t)
    PROVE  In(s) \subseteq In(t)
<1>1. Len(s) \in Nat /\ Len(t) \in Nat /\ Len(s) <= Len(t) /\ DOMAIN s = 1..Len(s)
      /\ DOMAIN t = 1..Len(t)
  BY DEF IsPrefix
<1>2. SubSeq(s, 1, Len(s)) = SubSeq(t, 1, Len(s))
  BY DEF IsPrefix
<1>3. ASSUME NEW i \in 1..Len(s) PROVE s[i] = t[i] /\ i \in DOMAIN t
  <2>1. SubSeq(s, 1, Len(s))[i] = s[i] /\ SubSeq(t, 1, Len(s))[i] = t[i]
    BY <1>1
  <2> QED BY <1>1, <1>2, <2>1
<1>4. \A i \in DOMAIN s : s[i] \in In(t)
  BY <1>1, <1>3 DEF In
<1> QED
  BY <1>4 DEF In

LEMMA LeastOf ==
    ASSUME NEW S \in SUBSET Nat, S # {} PROVE \E x \in S : \A y \in S : x <= y
<1> DEFINE R == OpToRel(<, Nat)
<1>1. IsWellFoundedOn(R, Nat)
  BY NatLessThanWellFounded
<1>2. ASSUME NEW x \in Nat, NEW y \in Nat, x < y PROVE <<x, y>> \in R
  BY <1>2 DEF OpToRel
<1> HIDE DEF R
<1>3. PICK x \in S : \A y \in S : ~ (<<y, x>> \in R)
  BY <1>1, WFMin
<1>4. ASSUME NEW y \in S PROVE x <= y
  <2>1. ~ (y < x)
    BY <1>2, <1>3
  <2> QED BY <2>1
<1> QED BY <1>4

-----------------------------------------------------------------------------
(* What git may do to one repository, which is then g: every edit it had   *)
(* stays, on the branch if it was there, no commit comes twice, and what   *)
(* is new in it was committed somewhere, or is committed now.              *)
Tree     == [branch: Seq(Edit), tree: SUBSET Edit, rebasing: BOOLEAN,
             head: Seq(Edit), left: Seq(Edit)]
Held(g)  == In(g.branch) \union In(g.head) \union In(g.left)
Kept(g)  == g.tree \union In(g.branch) \union In(g.head)

Whole(g) ==
    /\ Once(g.branch) /\ Once(g.head) /\ Once(g.left)
    /\ g.rebasing => In(g.branch) \subseteq In(g.head) \union In(g.left)
    /\ ~g.rebasing => g.head = <<>> /\ g.left = <<>>

Somewhere == UNION {Held(repo[h]) : h \in Host}

Git(h, g) ==
    /\ g \in Tree /\ Whole(g) /\ g.tree \subseteq repo[h].tree
    /\ Kept(repo[h]) \subseteq Kept(g) /\ In(repo[h].branch) \subseteq In(g.branch)
    /\ Held(g) \subseteq Somewhere \union (repo[h].tree \ g.tree)

(* The repositories as a whole: an uncommitted edit is nowhere else.       *)
RepoInv ==
    /\ \A h \in Host : Whole(repo[h])
    /\ \A h, g \in Host : repo[h].tree \cap Held(repo[g]) = {}
    /\ \A h, g \in Host : h # g => repo[h].tree \cap repo[g].tree = {}
    /\ \A h \in Host : repo[h].tree \union Held(repo[h]) \subseteq DOMAIN edits
    /\ \A e \in DOMAIN edits : e \in Kept(repo[edits[e].by])

LEMMA GitStep ==
    ASSUME repo \in [Host -> Tree], RepoInv, NEW h \in Host, NEW g, Git(h, g),
           repo' = [repo EXCEPT ![h] = g], UNCHANGED edits
    PROVE  /\ repo' \in [Host -> Tree] /\ RepoInv'
           /\ \A x \in Host : In(repo[x].branch) \subseteq In(repo'[x].branch)
<1>1. repo' \in [Host -> Tree] /\ repo'[h] = g /\ \A x \in Host \ {h} : repo'[x] = repo[x]
  BY DEF Git
<1>2. \A x \in Host : repo'[x].tree \subseteq repo[x].tree
  BY <1>1 DEF Git
<1>3. \A x \in Host : \A e \in Held(repo'[x]) :
         (\E y \in Host : e \in Held(repo[y])) \/ (e \in repo[h].tree /\ e \notin g.tree)
  BY <1>1 DEF Git, Somewhere
<1>4. \A x \in Host : Whole(repo'[x])
  BY <1>1 DEF Git, RepoInv
<1>5. ASSUME NEW x \in Host, NEW y \in Host, NEW e, e \in repo'[x].tree, e \in Held(repo'[y])
      PROVE  FALSE
  <2>1. e \in repo[x].tree /\ \A z \in Host : e \notin Held(repo[z])
    BY <1>2, <1>5 DEF RepoInv
  <2>2. e \in repo[h].tree /\ e \notin g.tree
    BY <1>3, <1>5, <2>1
  <2>3. x = h
    BY <2>1, <2>2 DEF RepoInv
  <2> QED BY <1>1, <1>5, <2>2, <2>3
<1>6. \A x, y \in Host : x # y => repo'[x].tree \cap repo'[y].tree = {}
  BY <1>2 DEF RepoInv
<1>7. \A x \in Host : repo'[x].tree \union Held(repo'[x]) \subseteq DOMAIN edits
  BY <1>2, <1>3 DEF RepoInv
<1>8. \A e \in DOMAIN edits : e \in Kept(repo'[edits[e].by])
  <2> SUFFICES ASSUME NEW e \in DOMAIN edits PROVE e \in Kept(repo'[edits[e].by])
    OBVIOUS
  <2>1. e \in Kept(repo[edits[e].by])
    BY DEF RepoInv
  <2>2. CASE edits[e].by = h
    BY <1>1, <2>1, <2>2 DEF Git
  <2>3. CASE edits[e].by # h
    BY <2>1, <2>3
  <2> QED BY <2>2, <2>3
<1>9. \A x \in Host : In(repo[x].branch) \subseteq In(repo'[x].branch)
  BY <1>1 DEF Git
<1>10. RepoInv'
  BY <1>4, <1>5, <1>6, <1>7, <1>8 DEF RepoInv
<1> QED
  BY <1>1, <1>9, <1>10

-----------------------------------------------------------------------------
(* Each thing the transport, the hooks and the user ask of git is such a   *)
(* change.                                                                 *)
LEMMA InEmpty == In(<<>>) = {} /\ Once(<<>>)
  BY DEF In, Once

LEMMA TreeFields ==
    ASSUME repo \in [Host -> Tree], NEW h \in Host
    PROVE  /\ repo[h] \in Tree /\ repo[h].branch \in Seq(Edit) /\ repo[h].tree \subseteq Edit
           /\ repo[h].head \in Seq(Edit) /\ repo[h].left \in Seq(Edit)
           /\ repo[h].rebasing \in BOOLEAN
  BY DEF Tree

LEMMA HeldSomewhere ==
    ASSUME NEW h \in Host PROVE Held(repo[h]) \subseteq Somewhere
  BY DEF Somewhere

LEMMA CommittedGit ==
    ASSUME repo \in [Host -> Tree], RepoInv, NEW m \in Host
    PROVE  Git(m, Committed(m))
<1> DEFINE c == Commits(m)
           t == repo[m].tree
<1>1. t \in SUBSET Nat /\ IsFiniteSet(t) /\ t \subseteq Edit
  <2>1. t \subseteq Edit /\ MaxEdit \in Nat
    BY TreeFields, SyncAssumption
  <2>2. IsFiniteSet(1..MaxEdit) /\ 1..MaxEdit \subseteq Nat
    BY <2>1, FS_Interval
  <2> QED BY <2>1, <2>2, FS_Subset DEF Edit
<1>2. c \in Seq(Edit) /\ In(c) = t /\ Once(c)
  <2>1. c \in Seq(t) /\ In(c) = t /\ Once(c)
    BY <1>1, Ascends DEF Commits
  <2> QED BY <1>1, <2>1
<1>3. /\ t \cap In(repo[m].branch) = {} /\ t \cap In(repo[m].head) = {}
      /\ Whole(repo[m])
  BY DEF RepoInv, Held
<1> HIDE DEF c, t
<1>4. CASE repo[m].rebasing
  <2> DEFINE g == [repo[m] EXCEPT !.head = @ \o c, !.tree = {}]
  <2>1. Committed(m) = g
    BY <1>4 DEF Committed, c
  <2>2. /\ repo[m].head \o c \in Seq(Edit)
        /\ In(repo[m].head \o c) = In(repo[m].head) \union t
        /\ Once(repo[m].head \o c)
    BY <1>2, <1>3, TreeFields, Cats DEF Whole
  <2>3. /\ g \in Tree /\ g.branch = repo[m].branch /\ g.tree = {} /\ g.rebasing
        /\ g.head = repo[m].head \o c /\ g.left = repo[m].left
    BY <1>4, <2>2, TreeFields DEF Tree
  <2> HIDE DEF g
  <2>4. Whole(g)
    BY <1>3, <1>4, <2>2, <2>3 DEF Whole
  <2>5. Kept(repo[m]) \subseteq Kept(g)
    BY <2>2, <2>3 DEF Kept, t
  <2>6. Held(g) \subseteq Somewhere \union (repo[m].tree \ g.tree)
    BY <2>2, <2>3, HeldSomewhere DEF Held, t
  <2> QED BY <2>1, <2>3, <2>4, <2>5, <2>6 DEF Git
<1>5. CASE ~repo[m].rebasing
  <2> DEFINE g == [repo[m] EXCEPT !.branch = @ \o c, !.tree = {}]
  <2>1. Committed(m) = g
    BY <1>5 DEF Committed, c
  <2>2. /\ repo[m].branch \o c \in Seq(Edit)
        /\ In(repo[m].branch \o c) = In(repo[m].branch) \union t
        /\ Once(repo[m].branch \o c)
    BY <1>2, <1>3, TreeFields, Cats DEF Whole
  <2>3. /\ g \in Tree /\ g.branch = repo[m].branch \o c /\ g.tree = {} /\ ~g.rebasing
        /\ g.head = repo[m].head /\ g.left = repo[m].left
    BY <1>5, <2>2, TreeFields DEF Tree
  <2> HIDE DEF g
  <2>4. Whole(g)
    BY <1>3, <1>5, <2>2, <2>3 DEF Whole
  <2>5. Kept(repo[m]) \subseteq Kept(g)
    BY <2>2, <2>3 DEF Kept, t
  <2>6. Held(g) \subseteq Somewhere \union (repo[m].tree \ g.tree)
    BY <2>2, <2>3, HeldSomewhere DEF Held, t
  <2> QED BY <2>1, <2>2, <2>3, <2>4, <2>5, <2>6 DEF Git
<1> QED
  BY <1>4, <1>5

(* What a branch has besides another one is apart from it.                 *)
LEMMA Mines ==
    ASSUME repo \in [Host -> Tree], RepoInv, NEW m \in Host, NEW r \in Host
    PROVE  /\ Mine(m, r) \in Seq(Edit) /\ Once(Mine(m, r))
           /\ In(Mine(m, r)) = In(repo[m].branch) \ In(repo[r].branch)
           /\ repo[r].branch \in Seq(Edit) /\ Once(repo[r].branch)
<1>1. repo[m].branch \in Seq(Edit) /\ repo[r].branch \in Seq(Edit)
  BY TreeFields
<1>2. Once(repo[m].branch) /\ Once(repo[r].branch)
  BY DEF RepoInv, Whole
<1> QED
  BY <1>1, <1>2, Withouts DEF Mine

LEMMA RebasedGit ==
    ASSUME repo \in [Host -> Tree], RepoInv, NEW m \in Host, NEW r \in Host, ~repo[m].rebasing
    PROVE  Git(m, Rebased(m, r))
<1>1. CASE Current(m, r)
  <2>1. Rebased(m, r) = repo[m]
    BY <1>1 DEF Rebased
  <2> QED BY <2>1, TreeFields, HeldSomewhere DEF Git, RepoInv
<1>2. CASE ~Current(m, r)
  <2> DEFINE b == repo[r].branch \o Mine(m, r)
             g == [repo[m] EXCEPT !.branch = b]
  <2>1. Rebased(m, r) = g
    BY <1>2 DEF Rebased
  <2>2. b \in Seq(Edit) /\ Once(b) /\ In(b) = In(repo[r].branch) \union In(repo[m].branch)
    BY Mines, Cats
  <2> HIDE DEF b
  <2>3. /\ g \in Tree /\ g.branch = b /\ g.tree = repo[m].tree /\ ~g.rebasing
        /\ g.head = repo[m].head /\ g.left = repo[m].left
    BY <2>2, TreeFields DEF Tree
  <2> HIDE DEF g
  <2>4. Whole(g)
    BY <2>2, <2>3 DEF Whole, RepoInv
  <2>5. Kept(repo[m]) \subseteq Kept(g)
    BY <2>2, <2>3 DEF Kept
  <2>6. Held(g) \subseteq Held(repo[m]) \union Held(repo[r])
    BY <2>2, <2>3 DEF Held
  <2> QED BY <2>1, <2>2, <2>3, <2>4, <2>5, <2>6, HeldSomewhere DEF Git
<1> QED
  BY <1>1, <1>2

LEMMA StoppedGit ==
    ASSUME repo \in [Host -> Tree], RepoInv, NEW m \in Host, NEW r \in Host,
           ~repo[m].rebasing, Conflicts(m, r)
    PROVE  Git(m, Stopped(m, r))
<1> DEFINE w == Mine(m, r)
           k == CHOOSE i \in Clashes(m, r) : \A j \in Clashes(m, r) : i <= j
           a == SubSeq(w, 1, k - 1)
           b == SubSeq(w, k, Len(w))
           d == repo[r].branch \o a
           g == [repo[m] EXCEPT !.rebasing = TRUE, !.head = d, !.left = b]
<1>1. w \in Seq(Edit) /\ Once(w) /\ In(w) = In(repo[m].branch) \ In(repo[r].branch)
  BY Mines
<1>2. k \in 1..Len(w)
  <2>1. Clashes(m, r) \subseteq 1..Len(w)
    BY <1>1 DEF Clashes
  <2>2. Clashes(m, r) \in SUBSET Nat /\ Clashes(m, r) # {}
    BY <2>1 DEF Conflicts
  <2>3. \E i \in Clashes(m, r) : \A j \in Clashes(m, r) : i <= j
    BY <2>2, LeastOf
  <2> QED BY <2>1, <2>3
<1>3. Stopped(m, r) = g
  BY DEF Stopped
<1> HIDE DEF k, w
<1>4. /\ a \in Seq(Edit) /\ b \in Seq(Edit) /\ In(w) = In(a) \union In(b)
      /\ Once(a) /\ Once(b)
  BY <1>1, <1>2, Cuts
<1> HIDE DEF a, b
<1>5. d \in Seq(Edit) /\ Once(d) /\ In(d) = In(repo[r].branch) \union In(a)
  BY <1>1, <1>4, Mines, Cats
<1> HIDE DEF d
<1>6. /\ g \in Tree /\ g.branch = repo[m].branch /\ g.tree = repo[m].tree /\ g.rebasing
      /\ g.head = d /\ g.left = b
  BY <1>4, <1>5, TreeFields DEF Tree
<1> HIDE DEF g
<1>7. Whole(repo[m]) /\ repo[m].head = <<>>
  BY DEF RepoInv, Whole
<1>8. Whole(g)
  BY <1>1, <1>4, <1>5, <1>6, <1>7 DEF Whole
<1>9. Kept(repo[m]) \subseteq Kept(g)
  BY <1>6, <1>7, InEmpty DEF Kept
<1>10. Held(g) \subseteq Held(repo[m]) \union Held(repo[r])
  BY <1>1, <1>4, <1>5, <1>6 DEF Held
<1> QED
  BY <1>3, <1>6, <1>8, <1>9, <1>10, HeldSomewhere DEF Git

LEMMA PushedGit ==
    ASSUME repo \in [Host -> Tree], RepoInv, NEW m \in Host, NEW r \in Host, Accepts(m, r)
    PROVE  Git(r, [repo[r] EXCEPT !.branch = repo[m].branch])
<1> DEFINE g == [repo[r] EXCEPT !.branch = repo[m].branch]
<1>1. In(repo[r].branch) \subseteq In(repo[m].branch) /\ ~repo[r].rebasing
  BY TreeFields, PrefixIn DEF Accepts
<1>2. /\ g \in Tree /\ g.branch = repo[m].branch /\ g.tree = repo[r].tree /\ ~g.rebasing
      /\ g.head = repo[r].head /\ g.left = repo[r].left
  BY <1>1, TreeFields DEF Tree
<1> HIDE DEF g
<1>3. Whole(g)
  BY <1>1, <1>2 DEF Whole, RepoInv
<1>4. Kept(repo[r]) \subseteq Kept(g)
  BY <1>1, <1>2 DEF Kept
<1>5. Held(g) \subseteq Held(repo[m]) \union Held(repo[r])
  BY <1>2 DEF Held
<1>6. Git(r, g)
  BY <1>1, <1>2, <1>3, <1>4, <1>5, HeldSomewhere DEF Git
<1> QED
  BY <1>6 DEF g

LEMMA ResolvedGit ==
    ASSUME repo \in [Host -> Tree], RepoInv, NEW m \in Host, repo[m].rebasing, repo[m].tree = {}
    PROVE  Git(m, [NoRepo EXCEPT !.branch = repo[m].head \o Without(repo[m].left, repo[m].head)])
<1> DEFINE w == Without(repo[m].left, repo[m].head)
           b == repo[m].head \o w
           g == [NoRepo EXCEPT !.branch = b]
<1>1. Whole(repo[m]) /\ repo[m].left \in Seq(Edit) /\ repo[m].head \in Seq(Edit)
  BY TreeFields DEF RepoInv
<1>2. w \in Seq(Edit) /\ Once(w) /\ In(w) = In(repo[m].left) \ In(repo[m].head)
  BY <1>1, Withouts DEF Whole
<1> HIDE DEF w
<1>3. b \in Seq(Edit) /\ Once(b) /\ In(b) = In(repo[m].head) \union In(repo[m].left)
  BY <1>1, <1>2, Cats DEF Whole
<1> HIDE DEF b
<1>4. /\ g \in Tree /\ g.branch = b /\ g.tree = {} /\ ~g.rebasing
      /\ g.head = <<>> /\ g.left = <<>>
  <2>1. <<>> \in Seq(Edit) /\ {} \in SUBSET Edit
    OBVIOUS
  <2>2. /\ NoRepo \in Tree /\ NoRepo.tree = {} /\ ~NoRepo.rebasing
        /\ NoRepo.head = <<>> /\ NoRepo.left = <<>>
    BY <2>1 DEF NoRepo, Tree
  <2> QED BY <1>3, <2>2 DEF Tree
<1> HIDE DEF g
<1>5. In(repo[m].branch) \subseteq In(b)
  BY <1>1, <1>3 DEF Whole
<1>6. Whole(g)
  BY <1>3, <1>4, InEmpty DEF Whole
<1>7. Kept(repo[m]) \subseteq Kept(g)
  BY <1>3, <1>4, <1>5 DEF Kept
<1>8. Held(g) \subseteq Held(repo[m])
  BY <1>3, <1>4, InEmpty DEF Held
<1>9. Git(m, g)
  BY <1>4, <1>5, <1>6, <1>7, <1>8, HeldSomewhere DEF Git
<1> QED
  BY <1>9 DEF g, b, w

-----------------------------------------------------------------------------
(* What is known of the runs.  due is on the branch of Winpc; a run of the *)
(* reconciler that pushed has carried it, and the status says OK of it     *)
(* only after that, unless another process wrote the status.               *)
Run == [at: {"end", "guard", "commit", "pull", "push", "retry", "status", "report"},
        cand: Nat, tries: 0..Attempts - 1, state: {"PASS", "FAIL", "UNKNOWN"},
        reconciles: BOOLEAN]
Status == [verdict: {"none", "OK", "DEGRADED", "BAD"}, fresh: BOOLEAN]

Carried ==
    \E i \in DOMAIN Candidates[Winpc] : due \subseteq In(repo[Candidates[Winpc][i]].branch)

RunInv ==
    \A m \in Machine :
       /\ sync[m].at \in {"pull", "push", "retry"} => sync[m].cand \in DOMAIN Candidates[m]
       /\ sync[m].state = "PASS" => sync[m].at \in {"status", "report"}
       /\ sync[m].reconciles => m = Winpc
       /\ sync[m].at = "report" => sync[m].reconciles

CarryInv ==
    /\ due \subseteq In(repo[Winpc].branch)
    /\ sync[Winpc].reconciles =>
          /\ sync[Winpc].state = "PASS" => Carried
          /\ ~other => IF sync[Winpc].at # "report" THEN ~status.fresh
                       ELSE status.fresh /\ status.verdict = "OK" => Carried

SyncTypes ==
    /\ edits \in Seq([file: File, by: Machine]) /\ Len(edits) \in 0..MaxEdit
    /\ repo \in [Host -> Tree] /\ sync \in [Machine -> Run] /\ status \in Status
    /\ due \subseteq Edit /\ other \in BOOLEAN

SyncInv == SyncTypes /\ RepoInv /\ RunInv /\ CarryInv

LEMMA SyncTypesOK == SyncTypes => SyncTypeOK
  BY SyncAssumption DEF SyncTypes, SyncTypeOK, Tree, Run, Status

LEMMA Hosts ==
    /\ Winpc \in Machine /\ Machine \subseteq Host
    /\ \A m \in Machine : \A i \in DOMAIN Candidates[m] :
          Candidates[m][i] \in Host /\ Candidates[m][i] # m
  BY SyncAssumption DEF Host

LEMMA SyncInvInit == SyncInit => SyncInv
<1> SUFFICES ASSUME SyncInit PROVE SyncInv
    OBVIOUS
<1>1. <<>> \in Seq(Edit) /\ {} \in SUBSET Edit /\ <<>> \in Seq([file: File, by: Machine])
      /\ Len(<<>>) = 0 /\ DOMAIN <<>> = {} /\ 0 \in 0..MaxEdit /\ 0 \in 0..Attempts - 1
  BY SyncAssumption
<1>2. NoRepo \in Tree /\ Whole(NoRepo) /\ NoRepo.tree = {} /\ Held(NoRepo) = {}
  BY <1>1, InEmpty DEF NoRepo, Tree, Whole, Held
<1>3. Done \in Run
  BY <1>1 DEF Done, Run
<1>4. \A h \in Host : repo[h] = NoRepo
  BY DEF SyncInit
<1>5. \A m \in Machine : sync[m] = Done
  BY DEF SyncInit
<1>6. SyncTypes
  BY <1>1, <1>2, <1>3 DEF SyncInit, SyncTypes, Status
<1>7. RepoInv
  <2>1. DOMAIN edits = {}
    BY <1>1 DEF SyncInit
  <2> QED BY <1>2, <1>4, <2>1 DEF RepoInv
<1>8. RunInv /\ CarryInv
  BY <1>5, Hosts DEF RunInv, CarryInv, Done, SyncInit
<1> QED
  BY <1>6, <1>7, <1>8 DEF SyncInv

(* At most one thing is asked of git in a step, of one repository.         *)
Gits == \/ UNCHANGED repo
        \/ \E h \in Host, g \in Tree : Git(h, g) /\ repo' = [repo EXCEPT ![h] = g]

LEMMA GitsStep ==
    ASSUME repo \in [Host -> Tree], RepoInv, UNCHANGED edits, Gits
    PROVE  /\ repo' \in [Host -> Tree] /\ RepoInv'
           /\ \A x \in Host : In(repo[x].branch) \subseteq In(repo'[x].branch)
<1>1. CASE UNCHANGED repo
  BY <1>1 DEF RepoInv
<1>2. CASE \E h \in Host, g \in Tree : Git(h, g) /\ repo' = [repo EXCEPT ![h] = g]
  BY <1>2, GitStep
<1> QED
  BY <1>1, <1>2 DEF Gits

(* What was carried stays carried, as branches only grow.                  *)
LEMMA CarriedStays ==
    ASSUME UNCHANGED due, Carried,
           \A x \in Host : In(repo[x].branch) \subseteq In(repo'[x].branch)
    PROVE  Carried'
  BY Hosts DEF Carried

(* The steps that leave due, status and other alone: one run moves on.     *)
LEMMA RunStep ==
    ASSUME SyncInv, Gits, UNCHANGED <<edits, status, due, other>>,
           NEW m \in Machine, NEW s \in Run, sync' = [sync EXCEPT ![m] = s],
           s.at \in {"pull", "push", "retry"} => s.cand \in DOMAIN Candidates[m],
           s.state = "PASS" => s.at \in {"status", "report"},
           s.reconciles => m = Winpc,
           s.at = "report" => s.reconciles,
           s.reconciles =>
              /\ sync[m].reconciles
              /\ s.state = "PASS" => sync[m].state = "PASS" \/ (m = Winpc => Carried')
              /\ s.at = "report" /\ sync[m].at # "report" => s.state = sync[m].state
              /\ sync[m].at = "report" => s.at = "report"
    PROVE  SyncInv'
<1>1. /\ SyncTypes /\ RepoInv /\ RunInv /\ CarryInv
      /\ repo \in [Host -> Tree] /\ sync \in [Machine -> Run]
  BY DEF SyncInv, SyncTypes
<1>2. /\ repo' \in [Host -> Tree] /\ RepoInv'
      /\ \A x \in Host : In(repo[x].branch) \subseteq In(repo'[x].branch)
  BY <1>1, GitsStep
<1>3. sync'[m] = s /\ sync' \in [Machine -> Run] /\ \A n \in Machine \ {m} : sync'[n] = sync[n]
  BY <1>1
<1>4. SyncTypes'
  BY <1>1, <1>2, <1>3 DEF SyncTypes
<1>5. RunInv'
  BY <1>1, <1>3 DEF RunInv
<1>6. due' \subseteq In(repo'[Winpc].branch)
  BY <1>1, <1>2, Hosts DEF CarryInv
<1>7. Carried => Carried'
  BY <1>2, CarriedStays
<1>8. ASSUME sync'[Winpc].reconciles
      PROVE  /\ sync'[Winpc].state = "PASS" => Carried'
             /\ ~other => IF sync'[Winpc].at # "report" THEN ~status.fresh
                          ELSE status.fresh /\ status.verdict = "OK" => Carried'
  <2>1. CASE m = Winpc
    BY <1>1, <1>3, <1>7, <1>8, <2>1 DEF CarryInv
  <2>2. CASE m # Winpc
    <3>1. sync'[Winpc] = sync[Winpc]
      BY <1>3, <2>2, Hosts
    <3> QED BY <1>1, <1>7, <1>8, <3>1 DEF CarryInv
  <2> QED BY <2>1, <2>2
<1>9. CarryInv'
  BY <1>6, <1>8 DEF CarryInv
<1> QED
  BY <1>2, <1>4, <1>5, <1>9 DEF SyncInv

(* How a run moves on.                                                     *)
LEMMA RunGoes ==
    ASSUME sync \in [Machine -> Run], NEW m \in Machine, NEW at,
           at \in {"commit", "push", "retry", "status"},
           NEW state \in {"PASS", "FAIL", "UNKNOWN"},
           \/ GoWith(m, at, state)
           \/ Go(m, at) /\ state = sync[m].state
    PROVE  \E s \in Run : /\ sync' = [sync EXCEPT ![m] = s]
                          /\ s.at = at /\ s.state = state /\ s.cand = sync[m].cand
                          /\ s.reconciles = sync[m].reconciles
<1> DEFINE s == [sync[m] EXCEPT !.at = at, !.state = state]
<1>1. sync[m] \in Run
  OBVIOUS
<1>2. /\ s \in Run /\ s.at = at /\ s.state = state /\ s.cand = sync[m].cand
      /\ s.reconciles = sync[m].reconciles
  BY <1>1 DEF Run
<1>3. CASE GoWith(m, at, state)
  <2>1. sync' = [sync EXCEPT ![m] = s]
    BY <1>3 DEF GoWith
  <2> HIDE DEF s
  <2> QED BY <1>2, <2>1
<1>4. CASE Go(m, at) /\ state = sync[m].state
  <2>1. s = [sync[m] EXCEPT !.at = at]
    BY <1>1, <1>4 DEF Run
  <2>2. sync' = [sync EXCEPT ![m] = [sync[m] EXCEPT !.at = at]]
    BY <1>4 DEF Go
  <2> HIDE DEF s
  <2> QED BY <1>2, <2>1, <2>2
<1> QED
  BY <1>3, <1>4

LEMMA RunTriesNext ==
    ASSUME sync \in [Machine -> Run], NEW m \in Machine, NEW state \in {"FAIL", "UNKNOWN"},
           sync[m].cand \in DOMAIN Candidates[m], NextCandidate(m, state)
    PROVE  \E s \in Run : /\ sync' = [sync EXCEPT ![m] = s]
                          /\ s.at \in {"pull", "status"} /\ s.state = state
                          /\ s.at = "pull" => s.cand \in DOMAIN Candidates[m]
                          /\ s.reconciles = sync[m].reconciles
<1> DEFINE to == IF sync[m].cand < Len(Candidates[m]) THEN "pull" ELSE "status"
           s == [sync[m] EXCEPT !.state = state, !.tries = 0, !.cand = sync[m].cand + 1, !.at = to]
<1>1. sync[m] \in Run /\ Candidates[m] \in Seq(Host) /\ 0 \in 0..Attempts - 1
  BY SyncAssumption
<1>2. to \in {"pull", "status"}
  OBVIOUS
<1>3. sync[m].cand + 1 \in Nat
  BY <1>1 DEF Run
<1>4. to = "pull" => sync[m].cand + 1 \in DOMAIN Candidates[m]
  BY <1>1
<1>5. sync' = [sync EXCEPT ![m] = s]
  BY DEF NextCandidate
<1> HIDE DEF to
<1>6. /\ s \in Run /\ s.at = to /\ s.state = state /\ s.cand = sync[m].cand + 1
      /\ s.reconciles = sync[m].reconciles
  BY <1>1, <1>2, <1>3 DEF Run
<1> HIDE DEF s
<1> QED
  BY <1>6, <1>4, <1>2, <1>5

LEMMA RemoteIsOther ==
    ASSUME NEW m \in Machine, sync[m].cand \in DOMAIN Candidates[m]
    PROVE  m \in Host /\ Remote(m) \in Host /\ Remote(m) # m
  BY Hosts DEF Remote

(* A pull stops or ends; either way it is something asked of git.          *)
LEMMA PullGits ==
    ASSUME SyncInv, NEW m \in Machine, NEW r \in Host, MayPull(m, r),
           \/ Conflicts(m, r) /\ repo' = [repo EXCEPT ![m] = Stopped(m, r)]
           \/ repo' = [repo EXCEPT ![m] = Rebased(m, r)]
    PROVE  Gits
<1>1. repo \in [Host -> Tree] /\ RepoInv /\ m \in Host /\ ~repo[m].rebasing
  BY Hosts DEF SyncInv, SyncTypes, MayPull
<1>2. CASE Conflicts(m, r) /\ repo' = [repo EXCEPT ![m] = Stopped(m, r)]
  <2>1. Git(m, Stopped(m, r))
    BY <1>1, <1>2, StoppedGit
  <2>2. Stopped(m, r) \in Tree
    BY <2>1 DEF Git
  <2> QED BY <1>1, <1>2, <2>1, <2>2 DEF Gits
<1>3. CASE repo' = [repo EXCEPT ![m] = Rebased(m, r)]
  <2>1. Git(m, Rebased(m, r))
    BY <1>1, RebasedGit
  <2>2. Rebased(m, r) \in Tree
    BY <2>1 DEF Git
  <2> QED BY <1>1, <1>3, <2>1, <2>2 DEF Gits
<1> QED
  BY <1>2, <1>3

LEMMA CommitGits ==
    ASSUME SyncInv, NEW m \in Machine, repo' = [repo EXCEPT ![m] = Committed(m)]
    PROVE  Gits
<1>1. repo \in [Host -> Tree] /\ RepoInv /\ m \in Host
  BY Hosts DEF SyncInv, SyncTypes
<1>2. Git(m, Committed(m)) /\ Committed(m) \in Tree
  BY <1>1, CommittedGit DEF Git
<1> QED
  BY <1>1, <1>2 DEF Gits

-----------------------------------------------------------------------------
(* One lemma for each step of a run that is not RunStep as it stands.      *)
LEMMA CommitStep ==
    ASSUME SyncInv, NEW m \in Machine, Commit(m)
    PROVE  SyncInv'
<1>1. /\ SyncTypes /\ RepoInv /\ RunInv /\ CarryInv /\ sync[m].at = "commit"
      /\ repo \in [Host -> Tree] /\ sync \in [Machine -> Run] /\ sync[m] \in Run
      /\ UNCHANGED <<edits, status, other>>
  BY DEF SyncInv, SyncTypes, Commit, At
<1> DEFINE to == IF Candidates[m] = <<>> THEN "status" ELSE "pull"
           s == [sync[m] EXCEPT !.at = to, !.cand = 1]
<1>2. sync' = [sync EXCEPT ![m] = s]
  BY DEF Commit
<1>3. /\ s \in Run /\ s.at = to /\ s.cand = 1 /\ s.state = sync[m].state
      /\ s.reconciles = sync[m].reconciles
  BY <1>1 DEF Run
<1>4. to \in {"pull", "status"} /\ (to = "pull" => 1 \in DOMAIN Candidates[m])
  BY SyncAssumption
<1> HIDE DEF s, to
<1>5. Gits
  BY CommitGits DEF Commit, Gits
<1>6. /\ repo' \in [Host -> Tree] /\ RepoInv'
      /\ \A x \in Host : In(repo[x].branch) \subseteq In(repo'[x].branch)
  BY <1>1, <1>5, GitsStep
<1>7. sync'[m] = s /\ sync' \in [Machine -> Run] /\ \A n \in Machine \ {m} : sync'[n] = sync[n]
  BY <1>1, <1>2, <1>3
<1>8. m \in Host /\ In(repo'[m].branch) \subseteq Edit
  <2>1. m \in Host /\ repo'[m].branch \in Seq(Edit)
    BY <1>6, Hosts DEF Tree
  <2> QED BY <2>1 DEF In
<1>9. due' = IF sync[m].reconciles THEN In(repo'[m].branch) ELSE due
  BY DEF Commit
<1>10. SyncTypes'
  BY <1>1, <1>6, <1>7, <1>8, <1>9 DEF SyncTypes
<1>11. RunInv'
  BY <1>1, <1>3, <1>4, <1>7 DEF RunInv
<1>12. due' \subseteq In(repo'[Winpc].branch)
  BY <1>1, <1>6, <1>9, Hosts DEF CarryInv, RunInv
<1>13. CarryInv'
  <2>1. CASE m = Winpc
    BY <1>1, <1>3, <1>4, <1>7, <1>12, <2>1 DEF CarryInv, RunInv
  <2>2. CASE m # Winpc
    <3>1. sync'[Winpc] = sync[Winpc] /\ UNCHANGED due
      BY <1>1, <1>7, <1>9, <2>2, Hosts DEF RunInv
    <3>2. Carried => Carried'
      BY <1>6, <3>1, CarriedStays
    <3> QED BY <1>1, <1>12, <3>1, <3>2 DEF CarryInv
  <2> QED BY <2>1, <2>2
<1> QED
  BY <1>6, <1>10, <1>11, <1>13 DEF SyncInv

LEMMA PushStep ==
    ASSUME SyncInv, NEW m \in Machine, Push(m)
    PROVE  SyncInv'
<1>1. /\ repo \in [Host -> Tree] /\ RepoInv /\ RunInv /\ CarryInv /\ sync \in [Machine -> Run]
      /\ sync[m].at = "push" /\ sync[m].cand \in DOMAIN Candidates[m]
  BY DEF SyncInv, SyncTypes, RunInv, Push, At
<1> DEFINE r == Remote(m)
<1>2. m \in Host /\ r \in Host /\ r # m
  BY <1>1, RemoteIsOther
<1>3. /\ Accepts(m, r) /\ GoWith(m, "status", "PASS") /\ UNCHANGED Rest
      /\ repo' = [repo EXCEPT ![r].branch = repo[m].branch]
  BY DEF Push
<1> HIDE DEF r
<1> DEFINE g == [repo[r] EXCEPT !.branch = repo[m].branch]
<1>4. Git(r, g) /\ repo' = [repo EXCEPT ![r] = g]
  BY <1>1, <1>2, <1>3, PushedGit
<1>5. Gits
  <2>1. g \in Tree
    BY <1>4 DEF Git
  <2> QED BY <1>2, <1>4, <2>1 DEF Gits
<1>6. repo'[r].branch = repo[m].branch
  BY <1>1, <1>2, <1>4 DEF Tree
<1>7. m = Winpc => Carried'
  <2> SUFFICES ASSUME m = Winpc PROVE Carried'
    OBVIOUS
  <2>1. due' \subseteq In(repo[m].branch)
    BY <1>1, <1>3 DEF CarryInv, Rest
  <2>2. r = Candidates[m][sync[m].cand]
    BY DEF r, Remote
  <2> QED BY <1>1, <1>6, <2>1, <2>2 DEF Carried
<1>8. PICK s \in Run : /\ sync' = [sync EXCEPT ![m] = s]
                       /\ s.at = "status" /\ s.state = "PASS" /\ s.cand = sync[m].cand
                       /\ s.reconciles = sync[m].reconciles
  BY <1>1, <1>3, RunGoes
<1>9. UNCHANGED <<edits, status, due, other>>
  BY <1>3 DEF Rest
<1> QED
  BY <1>1, <1>5, <1>7, <1>8, <1>9, RunStep DEF RunInv

LEMMA DoneIsRun ==
    /\ Done \in Run /\ Done.at = "end" /\ Done.state = "UNKNOWN" /\ ~Done.reconciles
<1>1. 0 \in 0..Attempts - 1
  BY SyncAssumption
<1> QED
  BY <1>1 DEF Done, Run

(* A run that ends reports only to the reconciler.                         *)
LEMMA RunFinishes ==
    ASSUME NEW r \in Run
    PROVE  LET s == IF r.reconciles THEN [r EXCEPT !.at = "report"] ELSE Done
           IN  /\ s \in Run /\ s.at \in {"report", "end"} /\ s.reconciles = r.reconciles
               /\ r.reconciles => s.at = "report" /\ s.state = r.state
               /\ ~r.reconciles => s.at = "end" /\ s.state = "UNKNOWN"
<1>1. CASE r.reconciles
  <2> DEFINE s == [r EXCEPT !.at = "report"]
  <2>1. s \in Run /\ s.at = "report" /\ s.reconciles = r.reconciles /\ s.state = r.state
    BY DEF Run
  <2> QED BY <1>1, <2>1
<1>2. CASE ~r.reconciles
  <2>1. r.reconciles \in BOOLEAN /\ Done.reconciles = FALSE
    BY DEF Run, Done
  <2>2. r.reconciles = Done.reconciles
    BY <1>2, <2>1
  <2>3. Done \in Run /\ Done.at = "end" /\ Done.state = "UNKNOWN"
    BY DoneIsRun
  <2> QED BY <1>2, <2>2, <2>3
<1> QED BY <1>1, <1>2

LEMMA WriteStatusStep ==
    ASSUME SyncInv, NEW m \in Machine, WriteStatus(m)
    PROVE  SyncInv'
<1>1. /\ SyncTypes /\ RepoInv /\ RunInv /\ CarryInv /\ sync \in [Machine -> Run]
      /\ sync[m] \in Run /\ sync[m].at = "status" /\ UNCHANGED <<edits, repo, due, other>>
  BY DEF SyncInv, SyncTypes, WriteStatus, At
<1> DEFINE s == IF sync[m].reconciles THEN [sync[m] EXCEPT !.at = "report"] ELSE Done
<1>2. sync' = [sync EXCEPT ![m] = s]
  BY DEF WriteStatus
<1>3. /\ s \in Run /\ s.at \in {"report", "end"} /\ s.reconciles = sync[m].reconciles
      /\ sync[m].reconciles => s.at = "report" /\ s.state = sync[m].state
      /\ ~sync[m].reconciles => s.at = "end" /\ s.state = "UNKNOWN"
  BY <1>1, RunFinishes
<1> HIDE DEF s
<1>4. sync'[m] = s /\ sync' \in [Machine -> Run] /\ \A n \in Machine \ {m} : sync'[n] = sync[n]
  BY <1>1, <1>2, <1>3
<1>5. \/ UNCHANGED status /\ m # Winpc
      \/ \E check \in {"PASS", "FAIL"} :
            status' = [verdict |-> Verdict({check, sync[m].state}), fresh |-> TRUE]
  BY DEF WriteStatus
<1>6. ASSUME NEW check \in {"PASS", "FAIL"}
      PROVE  /\ Verdict({check, sync[m].state}) \in {"OK", "DEGRADED", "BAD"}
             /\ Verdict({check, sync[m].state}) = "OK" => sync[m].state = "PASS"
  BY <1>1 DEF Verdict, Run
<1>7. status' \in Status
  <2>1. CASE UNCHANGED status
    BY <1>1, <2>1 DEF SyncTypes
  <2>2. ASSUME NEW check \in {"PASS", "FAIL"},
               status' = [verdict |-> Verdict({check, sync[m].state}), fresh |-> TRUE]
        PROVE  status' \in Status
    BY <1>6, <2>2 DEF Status
  <2> QED BY <1>5, <2>1, <2>2
<1>8. m = Winpc => (status'.verdict = "OK" => sync[m].state = "PASS")
  BY <1>5, <1>6
<1>9. SyncTypes' /\ RepoInv'
  BY <1>1, <1>4, <1>7 DEF SyncTypes, RepoInv
<1>10. RunInv'
  BY <1>1, <1>3, <1>4 DEF RunInv
<1>11. Carried' = Carried
  BY <1>1 DEF Carried
<1>12. CarryInv'
  <2>1. CASE m = Winpc
    BY <1>1, <1>3, <1>4, <1>8, <1>11, <2>1 DEF CarryInv, RunInv
  <2>2. CASE m # Winpc
    <3>1. sync'[Winpc] = sync[Winpc]
      BY <1>4, <2>2, Hosts
    <3>2. UNCHANGED status
      BY <2>2 DEF WriteStatus
    <3> QED BY <1>1, <1>11, <3>1, <3>2 DEF CarryInv
  <2> QED BY <2>1, <2>2
<1> QED
  BY <1>9, <1>10, <1>12 DEF SyncInv

LEMMA ReconcileStep ==
    ASSUME SyncInv, Reconcile PROVE SyncInv'
<1>1. /\ SyncTypes /\ RepoInv /\ RunInv /\ CarryInv /\ sync \in [Machine -> Run]
      /\ Winpc \in Machine /\ UNCHANGED <<edits, repo, due>>
  BY Hosts DEF SyncInv, SyncTypes, Reconcile
<1> DEFINE s == [Done EXCEPT !.at = "guard", !.reconciles = TRUE]
<1>2. sync' = [sync EXCEPT ![Winpc] = s]
  BY DEF Reconcile
<1>3. s \in Run /\ s.at = "guard" /\ s.reconciles /\ s.state = "UNKNOWN"
  BY DoneIsRun DEF Run
<1> HIDE DEF s
<1>4. /\ sync'[Winpc] = s /\ sync' \in [Machine -> Run]
      /\ \A n \in Machine \ {Winpc} : sync'[n] = sync[n]
  BY <1>1, <1>2, <1>3
<1>5. status' \in Status /\ other' \in BOOLEAN /\ status'.fresh = other'
  BY <1>1 DEF Reconcile, SyncTypes, Status
<1>6. SyncTypes' /\ RepoInv'
  BY <1>1, <1>4, <1>5 DEF SyncTypes, RepoInv
<1>7. RunInv'
  BY <1>1, <1>3, <1>4 DEF RunInv
<1>8. CarryInv'
  BY <1>1, <1>3, <1>4, <1>5 DEF CarryInv
<1> QED
  BY <1>6, <1>7, <1>8 DEF SyncInv

LEMMA ReportStep ==
    ASSUME SyncInv, Report PROVE SyncInv'
<1>1. /\ SyncTypes /\ RepoInv /\ RunInv /\ CarryInv /\ sync \in [Machine -> Run]
      /\ Winpc \in Machine /\ UNCHANGED <<edits, repo, status>> /\ due' = {} /\ other' = FALSE
      /\ sync' = [sync EXCEPT ![Winpc] = Done]
  BY Hosts DEF SyncInv, SyncTypes, Report
<1>2. Done \in Run /\ Done.at = "end" /\ ~Done.reconciles /\ Done.state = "UNKNOWN"
  BY DoneIsRun
<1>3. /\ sync'[Winpc] = Done /\ sync' \in [Machine -> Run]
      /\ \A n \in Machine \ {Winpc} : sync'[n] = sync[n]
  BY <1>1, <1>2
<1>4. SyncTypes' /\ RepoInv'
  BY <1>1, <1>3 DEF SyncTypes, RepoInv
<1>5. RunInv'
  BY <1>1, <1>2, <1>3 DEF RunInv
<1>6. CarryInv'
  BY <1>1, <1>2, <1>3 DEF CarryInv
<1> QED
  BY <1>4, <1>5, <1>6 DEF SyncInv

LEMMA SessionStartStep ==
    ASSUME SyncInv, NEW m \in Machine, SessionStart(m)
    PROVE  SyncInv'
<1>1. /\ SyncTypes /\ RepoInv /\ RunInv /\ CarryInv /\ repo \in [Host -> Tree]
      /\ UNCHANGED <<edits, sync, due>>
  BY DEF SyncInv, SyncTypes, SessionStart
<1>2. 1 \in DOMAIN Candidates[m] /\ HookPull(m, Candidates[m][1])
  BY SyncAssumption DEF SessionStart
<1>3. Candidates[m][1] \in Host
  BY <1>2, Hosts
<1>4. Gits
  BY <1>2, <1>3, PullGits DEF HookPull, Gits
<1>5. /\ repo' \in [Host -> Tree] /\ RepoInv'
      /\ \A x \in Host : In(repo[x].branch) \subseteq In(repo'[x].branch)
  BY <1>1, <1>4, GitsStep
<1>6. Carried => Carried'
  BY <1>1, <1>5, CarriedStays
<1>7. \/ UNCHANGED <<status, other>>
      \/ m = Winpc /\ status' \in Status /\ other' = sync[m].reconciles
  <2>1. CASE m # Winpc
    BY <2>1 DEF SessionStart
  <2>2. CASE m = Winpc
    <3>1. PICK check \in {"PASS", "FAIL"} :
             status' = [verdict |-> Verdict({check}), fresh |-> TRUE]
      BY <2>2 DEF SessionStart
    <3>2. Verdict({check}) \in {"OK", "DEGRADED", "BAD"}
      BY DEF Verdict
    <3> QED BY <2>2, <3>1, <3>2 DEF SessionStart, Status
  <2> QED BY <2>1, <2>2
<1>8. sync \in [Machine -> Run] /\ \A n \in Machine : sync[n].reconciles \in BOOLEAN
  BY <1>1 DEF SyncTypes, Run
<1>9. SyncTypes' /\ RunInv'
  BY <1>1, <1>5, <1>7, <1>8 DEF SyncTypes, RunInv
<1>10. CarryInv'
  BY <1>1, <1>5, <1>6, <1>7, Hosts DEF CarryInv
<1> QED
  BY <1>5, <1>9, <1>10 DEF SyncInv

(* A new edit is nowhere yet.                                              *)
LEMMA WriteStep ==
    ASSUME SyncInv, NEW m \in Machine, NEW f \in File, Write(m, f)
    PROVE  SyncInv'
<1>1. /\ SyncTypes /\ RepoInv /\ RunInv /\ CarryInv /\ repo \in [Host -> Tree] /\ m \in Host
      /\ UNCHANGED <<sync, status, due, other>>
  BY Hosts DEF SyncInv, SyncTypes, Write
<1> DEFINE E == [file: File, by: Machine]
           N == Len(edits)
           g == [repo[m] EXCEPT !.tree = @ \union {N + 1}]
<1>2. /\ edits \in Seq(E) /\ N \in Nat /\ N < MaxEdit /\ DOMAIN edits = 1..N
      /\ edits' = Append(edits, [file |-> f, by |-> m])
  BY <1>1 DEF SyncTypes, Write
<1>3. /\ edits' \in Seq(E) /\ Len(edits') = N + 1 /\ DOMAIN edits' = 1..N + 1
      /\ \A e \in 1..N : edits'[e] = edits[e]
      /\ edits'[N + 1] = [file |-> f, by |-> m]
  BY <1>2
<1>4. repo' = [repo EXCEPT ![m] = g]
  BY <1>3 DEF Write
<1>5. Len(edits') \in 0..MaxEdit /\ N + 1 \in Edit
  BY <1>2, <1>3, SyncAssumption DEF Edit
<1>6. /\ g \in Tree /\ g.branch = repo[m].branch /\ g.tree = repo[m].tree \union {N + 1}
      /\ g.rebasing = repo[m].rebasing /\ g.head = repo[m].head /\ g.left = repo[m].left
  BY <1>1, <1>5, TreeFields DEF Tree
<1> HIDE DEF g, E
<1>7. /\ repo' \in [Host -> Tree] /\ repo'[m] = g /\ \A x \in Host \ {m} : repo'[x] = repo[x]
  BY <1>1, <1>4, <1>6
<1>8. \A x \in Host : /\ Held(repo'[x]) = Held(repo[x])
                      /\ repo'[x].branch = repo[x].branch
                      /\ repo'[x].tree \subseteq repo[x].tree \union (IF x = m THEN {N + 1} ELSE {})
                      /\ Kept(repo[x]) \subseteq Kept(repo'[x])
                      /\ Whole(repo'[x])
  <2> SUFFICES ASSUME NEW x \in Host
               PROVE  /\ Held(repo'[x]) = Held(repo[x])
                      /\ repo'[x].branch = repo[x].branch
                      /\ repo'[x].tree \subseteq repo[x].tree \union (IF x = m THEN {N + 1} ELSE {})
                      /\ Kept(repo[x]) \subseteq Kept(repo'[x])
                      /\ Whole(repo'[x])
    OBVIOUS
  <2>1. CASE x = m
    BY <1>1, <1>6, <1>7, <2>1 DEF Held, Kept, Whole, RepoInv
  <2>2. CASE x # m
    BY <1>1, <1>7, <2>2 DEF RepoInv
  <2> QED BY <2>1, <2>2
<1>9. \A x \in Host : N + 1 \notin repo[x].tree \union Held(repo[x])
  BY <1>1, <1>2 DEF RepoInv
<1>10. \A x, y \in Host : repo'[x].tree \cap Held(repo'[y]) = {}
  BY <1>1, <1>8, <1>9 DEF RepoInv
<1>11. \A x, y \in Host : x # y => repo'[x].tree \cap repo'[y].tree = {}
  BY <1>1, <1>8, <1>9 DEF RepoInv
<1>12. \A x \in Host : repo'[x].tree \union Held(repo'[x]) \subseteq DOMAIN edits'
  <2>1. DOMAIN edits \subseteq DOMAIN edits' /\ N + 1 \in DOMAIN edits'
    BY <1>2, <1>3
  <2> QED BY <1>1, <1>8, <2>1 DEF RepoInv
<1>13. \A e \in DOMAIN edits' : e \in Kept(repo'[edits'[e].by])
  <2> SUFFICES ASSUME NEW e \in DOMAIN edits' PROVE e \in Kept(repo'[edits'[e].by])
    OBVIOUS
  <2>1. CASE e = N + 1
    BY <1>3, <1>6, <1>7, <2>1 DEF Kept
  <2>2. CASE e # N + 1
    <3>1. e \in 1..N /\ edits'[e] = edits[e]
      BY <1>2, <1>3, <2>2
    <3>2. edits[e].by \in Host
      <4>1. edits[e] \in E
        BY <1>2, <3>1
      <4> QED BY <4>1, Hosts DEF E
    <3> QED BY <1>1, <1>2, <1>8, <3>1, <3>2 DEF RepoInv
  <2> QED BY <2>1, <2>2
<1>14. RepoInv'
  BY <1>8, <1>10, <1>11, <1>12, <1>13 DEF RepoInv
<1>15. SyncTypes' /\ RunInv'
  BY <1>1, <1>3, <1>5, <1>7 DEF SyncTypes, RunInv, E
<1>16. CarryInv'
  BY <1>1, <1>8, Hosts DEF CarryInv, Carried
<1> QED
  BY <1>14, <1>15, <1>16 DEF SyncInv

LEMMA SyncInvStep ==
    ASSUME SyncInv, [SyncNext]_syncVars
    PROVE  SyncInv'
<1>1. /\ SyncTypes /\ RepoInv /\ RunInv /\ CarryInv /\ sync \in [Machine -> Run]
      /\ repo \in [Host -> Tree]
  BY DEF SyncInv, SyncTypes
<1>2. \A m \in Machine :
         /\ sync[m] \in Run
         /\ sync[m].at \in {"pull", "push", "retry"} =>
               /\ sync[m].cand \in DOMAIN Candidates[m] /\ sync[m].state # "PASS"
               /\ m \in Host /\ Remote(m) \in Host
         /\ sync[m].state \in {"PASS", "FAIL", "UNKNOWN"}
  BY <1>1, RemoteIsOther DEF RunInv, Run
<1>3. Rest' = Rest => UNCHANGED <<edits, status, due, other>>
  BY DEF Rest
<1>next. ASSUME NEW m \in Machine, NEW state \in {"FAIL", "UNKNOWN"},
                sync[m].at \in {"pull", "push", "retry"}, NextCandidate(m, state), Gits,
                UNCHANGED Rest
         PROVE  SyncInv'
  <2>1. PICK s \in Run : /\ sync' = [sync EXCEPT ![m] = s]
                         /\ s.at \in {"pull", "status"} /\ s.state = state
                         /\ s.at = "pull" => s.cand \in DOMAIN Candidates[m]
                         /\ s.reconciles = sync[m].reconciles
    BY <1>1, <1>2, <1>next, RunTriesNext
  <2>2. sync[m].reconciles => m = Winpc
    BY <1>1 DEF RunInv
  <2> QED BY <1>3, <1>next, <2>1, <2>2, RunStep
<1>go. ASSUME NEW m \in Machine, NEW at \in {"commit", "push", "retry", "status"},
              NEW state \in {"FAIL", "UNKNOWN"}, sync[m].at # "report",
              at \in {"push", "retry"} => sync[m].at \in {"pull", "push", "retry"},
              GoWith(m, at, state) \/ (Go(m, at) /\ state = sync[m].state),
              Gits, UNCHANGED Rest
       PROVE  SyncInv'
  <2>1. PICK s \in Run : /\ sync' = [sync EXCEPT ![m] = s]
                         /\ s.at = at /\ s.state = state /\ s.cand = sync[m].cand
                         /\ s.reconciles = sync[m].reconciles
    BY <1>1, <1>go, RunGoes
  <2>2. sync[m].reconciles => m = Winpc
    BY <1>1 DEF RunInv
  <2> QED BY <1>2, <1>3, <1>go, <2>1, <2>2, RunStep
<1>quiet. ASSUME Gits, UNCHANGED sync, UNCHANGED Rest PROVE SyncInv'
  <2>1. Winpc \in Machine
    BY Hosts
  <2> QED BY <1>1, <1>2, <1>3, <1>quiet, <2>1, RunStep DEF RunInv
<1>none. UNCHANGED repo => Gits
  BY DEF Gits
<1>4. ASSUME NEW m \in Machine, CommitOnWrite(m) PROVE SyncInv'
  BY <1>4, <1>quiet, CommitGits DEF CommitOnWrite, Rest
<1>5. ASSUME NEW m \in Machine, Resolve(m) PROVE SyncInv'
  <2> DEFINE g == [NoRepo EXCEPT !.branch = repo[m].head \o Without(repo[m].left, repo[m].head)]
  <2>1. m \in Host /\ Git(m, g) /\ repo' = [repo EXCEPT ![m] = g]
    BY <1>1, <1>5, Hosts, ResolvedGit DEF Resolve
  <2>2. g \in Tree
    BY <2>1 DEF Git
  <2> HIDE DEF g
  <2>3. Gits
    BY <2>1, <2>2 DEF Gits
  <2>4. UNCHANGED <<sync, Rest>>
    BY <1>5 DEF Resolve
  <2> QED BY <1>quiet, <2>3, <2>4
<1>6. ASSUME NEW m \in Machine, SyncBegin(m) PROVE SyncInv'
  <2> DEFINE s == [Done EXCEPT !.at = "guard"]
  <2>1. sync' = [sync EXCEPT ![m] = s] /\ UNCHANGED <<repo, Rest>>
    BY <1>6 DEF SyncBegin
  <2>2. s \in Run /\ s.at = "guard" /\ s.state = "UNKNOWN" /\ ~s.reconciles
    BY DoneIsRun DEF Run
  <2> HIDE DEF s
  <2> QED BY <1>3, <1>none, <2>1, <2>2, RunStep
<1>7. ASSUME NEW m \in Machine, Guard(m) PROVE SyncInv'
  <2>1. /\ sync[m].at = "guard" /\ UNCHANGED <<repo, Rest>>
        /\ GoWith(m, "status", "FAIL") \/ Go(m, "commit")
    BY <1>7 DEF Guard, At
  <2>2. sync[m].state \in {"FAIL", "UNKNOWN"}
    BY <1>1, <1>2, <2>1 DEF RunInv
  <2>3. CASE GoWith(m, "status", "FAIL")
    BY <1>go, <1>none, <2>1, <2>3
  <2>4. CASE Go(m, "commit")
    BY <1>go, <1>none, <2>1, <2>2, <2>4
  <2> QED BY <2>1, <2>3, <2>4
<1>8. ASSUME NEW m \in Machine, Unreachable(m) PROVE SyncInv'
  BY <1>8, <1>next, <1>none DEF Unreachable, At
<1>9. ASSUME NEW m \in Machine, PullFails(m) PROVE SyncInv'
  <2>1. sync[m].at = "pull" /\ NextCandidate(m, "FAIL") /\ UNCHANGED Rest
    BY <1>9 DEF PullFails, At
  <2>2. Gits
    BY <1>2, <1>9, <1>none, <2>1, PullGits DEF PullFails
  <2> QED BY <1>next, <2>1, <2>2
<1>10. ASSUME NEW m \in Machine, Pull(m) PROVE SyncInv'
  <2>1. sync[m].at = "pull" /\ Go(m, "push") /\ UNCHANGED Rest
    BY <1>10 DEF Pull, At
  <2>2. Gits
    BY <1>2, <1>10, <2>1, PullGits DEF Pull
  <2>3. sync[m].state \in {"FAIL", "UNKNOWN"}
    BY <1>2, <2>1
  <2> QED BY <1>go, <2>1, <2>2, <2>3
<1>11. ASSUME NEW m \in Machine, PushLost(m) PROVE SyncInv'
  BY <1>11, <1>next, <1>none DEF PushLost, At
<1>12. ASSUME NEW m \in Machine, Rejected(m) PROVE SyncInv'
  <2>1. sync[m].at = "push" /\ Go(m, "retry") /\ UNCHANGED <<repo, Rest>>
    BY <1>12 DEF Rejected, At
  <2>2. sync[m].state \in {"FAIL", "UNKNOWN"}
    BY <1>2, <2>1
  <2> QED BY <1>go, <1>none, <2>1, <2>2
<1>13. ASSUME NEW m \in Machine, Retry(m) PROVE SyncInv'
  <2>1. sync[m].at = "retry" /\ UNCHANGED Rest
    BY <1>13 DEF Retry, At
  <2>2. Gits
    BY <1>2, <1>13, <1>none, <2>1, PullGits DEF Retry
  <2>3. CASE \E state \in {"FAIL", "UNKNOWN"} : NextCandidate(m, state)
    BY <1>next, <2>1, <2>2, <2>3
  <2>4. CASE ~Exhausted(m) /\ sync' = [sync EXCEPT ![m].at = "push", ![m].tries = @ + 1]
    <3> DEFINE s == [sync[m] EXCEPT !.at = "push", !.tries = sync[m].tries + 1]
    <3>0. sync[m] \in Run /\ sync[m].tries \in 0..Attempts - 1
      BY <1>2 DEF Run
    <3>4. sync[m].tries + 1 # Attempts /\ Attempts \in Nat
      BY <2>4, SyncAssumption DEF Exhausted
    <3>1. sync[m].tries + 1 \in 0..Attempts - 1
      BY <3>0, <3>4
    <3>2. /\ s \in Run /\ s.at = "push" /\ s.cand = sync[m].cand /\ s.state = sync[m].state
          /\ s.reconciles = sync[m].reconciles
      BY <3>0, <3>1 DEF Run
    <3>3. sync' = [sync EXCEPT ![m] = s]
      BY <2>4
    <3> HIDE DEF s
    <3> QED BY <1>1, <1>2, <1>3, <2>1, <2>2, <3>2, <3>3, RunStep DEF RunInv
  <2> QED BY <1>13, <2>3, <2>4 DEF Retry
<1>14. ASSUME NEW m \in Machine, SyncKilled(m) PROVE SyncInv'
  <2> DEFINE s == IF sync[m].reconciles THEN [sync[m] EXCEPT !.at = "report"] ELSE Done
  <2>1. sync' = [sync EXCEPT ![m] = s] /\ UNCHANGED <<repo, Rest>> /\ sync[m].at # "report"
    BY <1>14 DEF SyncKilled
  <2>2. /\ s \in Run /\ s.at \in {"report", "end"} /\ s.reconciles = sync[m].reconciles
        /\ sync[m].reconciles => s.at = "report" /\ s.state = sync[m].state
        /\ ~sync[m].reconciles => s.at = "end" /\ s.state = "UNKNOWN"
    BY <1>2, RunFinishes
  <2> HIDE DEF s
  <2> QED BY <1>1, <1>2, <1>3, <1>none, <2>1, <2>2, RunStep DEF RunInv
<1>15. ASSUME UNCHANGED syncVars PROVE SyncInv'
  <2>1. UNCHANGED <<repo, sync>> /\ UNCHANGED Rest
    BY <1>15 DEF syncVars, Rest
  <2> QED BY <1>quiet, <1>none, <2>1
<1> QED
  BY <1>4, <1>5, <1>6, <1>7, <1>8, <1>9, <1>10, <1>11, <1>12, <1>13, <1>14, <1>15,
     CommitStep, PushStep, WriteStatusStep, ReconcileStep, ReportStep, SessionStartStep,
     WriteStep DEF SyncNext, Sync

LEMMA SyncInvariant == SyncSpec => []SyncInv
  BY SyncInvInit, SyncInvStep, PTL DEF SyncSpec

(* Every reachable state of MemorySync is well typed.                      *)
THEOREM SyncTypeCorrect == SyncSpec => []SyncTypeOK
<1>1. SyncInv => SyncTypeOK
  BY SyncTypesOK DEF SyncInv
<1> QED
  BY <1>1, SyncInvariant, PTL

(* A memory stays on the machine that wrote it and is on no branch twice,  *)
(* for any machines, remotes and files, whatever conflicts (commit_all,    *)
(* pull_rebase, push_with_retry, the hooks).                               *)
THEOREM MemoriesAreKept == SyncSpec => []NothingLost
<1>1. SyncInv => NothingLost
  <2> SUFFICES ASSUME SyncInv PROVE NothingLost
    OBVIOUS
  <2>1. \A e \in DOMAIN edits :
           e \in repo[edits[e].by].tree \union In(repo[edits[e].by].branch)
                 \union In(repo[edits[e].by].head)
    BY DEF SyncInv, RepoInv, Kept
  <2>2. \A h \in Host : Once(repo[h].branch)
    BY DEF SyncInv, RepoInv, Whole
  <2> QED BY <2>1, <2>2 DEF NothingLost, Once
<1> QED
  BY <1>1, SyncInvariant, PTL

(* An OK of the reconciler is true: what was committed when its run began  *)
(* to pull is in another repository (reconcile.ps1, sync_repo, cli.py).    *)
THEOREM OkIsTrue == SyncSpec => OkIsCarried
<1>1. SyncInv /\ [SyncNext]_syncVars =>
         [Report /\ Reported = "OK" /\ ~other
          => \E i \in DOMAIN Candidates[Winpc] :
                due \subseteq In(repo[Candidates[Winpc][i]].branch)]_syncVars
  <2> SUFFICES ASSUME SyncInv, Report, Reported = "OK", ~other
               PROVE  Carried
    BY DEF Carried
  <2>1. sync[Winpc].at = "report" /\ sync[Winpc].reconciles
    BY Hosts DEF SyncInv, RunInv, Report, At
  <2>2. status.fresh /\ status.verdict = "OK"
    BY DEF Reported
  <2> QED BY <2>1, <2>2 DEF SyncInv, CarryInv
<1> QED
  BY <1>1, SyncInvariant, PTL DEF SyncSpec, OkIsCarried
=============================================================================
