-------------------------- MODULE ProtocolProofs ---------------------------
(***************************************************************************)
(* Proofs about the two protocols over the message log: ContractNet, for   *)
(* any bidders, awarding processes and messages, and Rpc, for any askers,  *)
(* writers and messages.                                                   *)
(***************************************************************************)
EXTENDS ContractNet, Rpc, FiniteSetTheorems, TLAPS

Kinds == {"cfp", "bid", "award"}
Steps == {"out", "check", "bids", "insert"}

LEMMA Inserts ==
    ASSUME msgs \in Seq(Kinds), NEW kind \in Kinds, Insert(kind)
    PROVE  /\ msgs' \in Seq(Kinds) /\ Len(msgs') = Len(msgs) + 1
           /\ Len(msgs) \in Nat /\ Len(msgs') <= MaxMessages
           /\ \A m \in 1..Len(msgs) : msgs'[m] = msgs[m]
           /\ msgs'[Len(msgs) + 1] = kind
  BY ContractNetAssumption DEF Insert

LEMMA TypeInit == Init => TypeOK
  BY ContractNetAssumption DEF Init, TypeOK

LEMMA TypeStep == TypeOK /\ [Next]_vars => TypeOK'
<1> SUFFICES ASSUME TypeOK, [Next]_vars PROVE TypeOK'
    OBVIOUS
<1>0. msgs \in Seq(Kinds) /\ Len(msgs) \in Nat /\ pruned \in 0..Len(msgs)
  BY DEF TypeOK, Kinds
<1>1. ASSUME NEW kind \in Kinds, Insert(kind), UNCHANGED pruned,
             bidding' \in SUBSET Bidder, step' \in [Awarder -> Steps]
      PROVE  TypeOK'
  BY <1>0, <1>1, Inserts DEF TypeOK, Kinds, Steps
<1>2. bidding \in SUBSET Bidder /\ step \in [Awarder -> Steps]
  BY DEF TypeOK, Steps
<1>3. ASSUME Announce PROVE TypeOK'
  BY <1>1, <1>2, <1>3 DEF Announce, Kinds
<1>4. ASSUME NEW b \in Bidder, FindCfp(b) PROVE TypeOK'
  BY <1>4 DEF FindCfp, TypeOK
<1>5. ASSUME NEW b \in Bidder, Bid(b) PROVE TypeOK'
  BY <1>1, <1>2, <1>5 DEF Bid, Kinds
<1>6. ASSUME NEW a \in Awarder, \/ FindOwnCfp(a) \/ CheckAwarded(a)
                                \/ \E named \in BOOLEAN : ReadBids(a, named)
      PROVE  TypeOK'
  BY <1>6 DEF FindOwnCfp, CheckAwarded, ReadBids, TypeOK
<1>7. ASSUME NEW a \in Awarder, Award(a) PROVE TypeOK'
  <2>1. step' \in [Awarder -> Steps]
    BY <1>2, <1>7 DEF Award, Steps
  <2> QED BY <1>1, <1>2, <1>7, <2>1 DEF Award, Kinds
<1>8. ASSUME Kill PROVE TypeOK'
  BY <1>8 DEF Kill, TypeOK
<1>9. ASSUME NEW cut \in 0..MaxMessages, Prune(cut) PROVE TypeOK'
  BY <1>0, <1>9 DEF Prune, TypeOK
<1>10. ASSUME UNCHANGED vars PROVE TypeOK'
  BY <1>10 DEF vars, TypeOK
<1> QED
  BY <1>3, <1>4, <1>5, <1>6, <1>7, <1>8, <1>9, <1>10 DEF Next

(* Every reachable state is well typed.                                    *)
THEOREM TypeCorrect == Spec => []TypeOK
  BY TypeInit, TypeStep, PTL DEF Spec

-----------------------------------------------------------------------------
(* The cfp is the first message and the first to be pruned; an awarding    *)
(* process that is under way has found it, and nothing was pruned since.   *)
CfpFirst ==
    /\ \A m \in 1..Len(msgs) : msgs[m] = "cfp" <=> m = 1
    /\ bidding # {} => Len(msgs) > 0
    /\ \A a \in Awarder : step[a] # "out" => Len(msgs) > 0 /\ pruned = 0

(* Those that found no award and may insert one.                           *)
Pending == {a \in Awarder : step[a] \in {"bids", "insert"}}

Counted == Cardinality(Awards) + Cardinality(Pending) <= Cardinality(Awarder)

LEMMA CfpFirstStep ==
    ASSUME Undivided, TypeOK, CfpFirst, [Next]_vars
    PROVE  CfpFirst'
<1>0. /\ msgs \in Seq(Kinds) /\ Len(msgs) \in Nat /\ pruned \in 0..Len(msgs)
      /\ step \in [Awarder -> Steps]
  BY DEF TypeOK, Kinds, Steps
<1>1. OfKind("cfp") # {} => Len(msgs) > 0 /\ pruned = 0
  BY <1>0 DEF OfKind, CfpFirst
<1>2. ASSUME Announce PROVE CfpFirst'
  <2>1. Len(msgs) = 0 /\ Insert("cfp") /\ UNCHANGED <<pruned, bidding, step>>
    BY <1>2 DEF Announce
  <2>2. Len(msgs') = 1 /\ msgs'[1] = "cfp"
    BY <1>0, <2>1, Inserts DEF Kinds
  <2>3. \A a \in Awarder : step[a] = "out"
    BY <2>1 DEF CfpFirst
  <2> QED BY <2>1, <2>2, <2>3 DEF CfpFirst
<1>3. ASSUME NEW b \in Bidder, FindCfp(b) PROVE CfpFirst'
  <2>1. Len(msgs) > 0 /\ UNCHANGED <<msgs, pruned, step>>
    BY <1>1, <1>3 DEF FindCfp
  <2> QED BY <2>1 DEF CfpFirst
<1>4. ASSUME NEW b \in Bidder, Bid(b) PROVE CfpFirst'
  BY <1>0, <1>4, Inserts DEF Bid, Kinds, CfpFirst
<1>5. ASSUME NEW a \in Awarder, FindOwnCfp(a) PROVE CfpFirst'
  BY <1>0, <1>1, <1>5 DEF FindOwnCfp, CfpFound, CfpFirst
<1>6. ASSUME NEW a \in Awarder, CheckAwarded(a) \/ \E named \in BOOLEAN : ReadBids(a, named)
      PROVE  CfpFirst'
  BY <1>0, <1>6 DEF CheckAwarded, ReadBids, CfpFirst
<1>7. ASSUME NEW a \in Awarder, Award(a) PROVE CfpFirst'
  <2>1. Len(msgs) > 0
    BY <1>7 DEF Award, CfpFirst
  <2> QED BY <1>0, <1>7, <2>1, Inserts DEF Award, Kinds, CfpFirst
<1>8. ASSUME Kill PROVE CfpFirst'
  BY <1>0, <1>8 DEF Kill, CfpFirst
<1>9. ASSUME NEW cut \in 0..MaxMessages, Prune(cut) PROVE CfpFirst'
  BY <1>9 DEF Prune, CfpFirst
<1>10. ASSUME UNCHANGED vars PROVE CfpFirst'
  BY <1>10 DEF vars, CfpFirst
<1> QED
  BY <1>2, <1>3, <1>4, <1>5, <1>6, <1>7, <1>8, <1>9, <1>10 DEF Next

LEMMA Sizes ==
    ASSUME TypeOK
    PROVE  /\ IsFiniteSet(Awards) /\ Cardinality(Awards) \in Nat
           /\ IsFiniteSet(Pending) /\ Cardinality(Pending) \in Nat
           /\ IsFiniteSet(Awarder) /\ Cardinality(Awarder) \in Nat
           /\ Cardinality(Pending) <= Cardinality(Awarder)
<1>1. Len(msgs) \in Nat /\ Awards \subseteq 1..Len(msgs)
  BY DEF TypeOK, Awards
<1>2. IsFiniteSet(1..Len(msgs))
  BY <1>1, FS_Interval
<1>3. IsFiniteSet(Awards)
  BY <1>1, <1>2, FS_Subset
<1>4. Pending \subseteq Awarder /\ IsFiniteSet(Awarder)
  BY ContractNetAssumption DEF Pending
<1>5. IsFiniteSet(Pending) /\ Cardinality(Pending) <= Cardinality(Awarder)
  BY <1>4, FS_Subset
<1> QED
  BY <1>3, <1>4, <1>5, FS_CardinalityType

(* Awards and pending processes stay as many if the messages that are      *)
(* awards do, and no process becomes pending.                              *)
LEMMA NoneAdded ==
    ASSUME TypeOK, Counted, Awards' = Awards, Pending' \subseteq Pending
    PROVE  Counted'
<1>1. IsFiniteSet(Pending') /\ Cardinality(Pending') <= Cardinality(Pending)
  BY Sizes, FS_Subset
<1>2. Cardinality(Pending') \in Nat
  BY <1>1, FS_CardinalityType
<1> QED
  BY <1>1, <1>2, Sizes DEF Counted

LEMMA CountedStep ==
    ASSUME Undivided, TypeOK, CfpFirst, Counted, [Next]_vars
    PROVE  Counted'
<1>0. /\ msgs \in Seq(Kinds) /\ Len(msgs) \in Nat /\ pruned \in 0..Len(msgs)
      /\ step \in [Awarder -> Steps]
  BY DEF TypeOK, Kinds, Steps
<1>1. ASSUME NEW kind \in {"cfp", "bid"}, Insert(kind), UNCHANGED step PROVE Counted'
  <2>1. Awards' = Awards
    BY <1>0, <1>1, Inserts DEF Awards, Kinds
  <2> QED BY <1>1, <2>1, NoneAdded DEF Pending
<1>2. ASSUME UNCHANGED <<msgs, step>> PROVE Counted'
  BY <1>2 DEF Counted, Awards, Pending
<1>3. ASSUME Announce \/ \E b \in Bidder : FindCfp(b) \/ Bid(b) PROVE Counted'
  BY <1>1, <1>2, <1>3 DEF Announce, FindCfp, Bid
<1>4. ASSUME NEW a \in Awarder, FindOwnCfp(a) \/ \E named \in BOOLEAN : ReadBids(a, named)
      PROVE  Counted'
  <2>1. Awards' = Awards /\ Pending' \subseteq Pending
    BY <1>0, <1>4 DEF FindOwnCfp, ReadBids, Awards, Pending
  <2> QED BY <2>1, NoneAdded
<1>5. ASSUME NEW a \in Awarder, CheckAwarded(a) PROVE Counted'
  <2>1. msgs' = msgs /\ pruned = 0
    BY <1>5 DEF CheckAwarded, CfpFirst
  <2>2. CASE OfKind("award") = {}
    <3>1. Awards = {}
      BY <1>0, <2>1, <2>2 DEF OfKind, Awards
    <3>2. Awards' = {}
      BY <2>1, <3>1 DEF Awards
    <3>3. Pending' \subseteq Awarder
      BY DEF Pending
    <3>4. IsFiniteSet(Pending') /\ Cardinality(Pending') <= Cardinality(Awarder)
      BY <3>3, Sizes, FS_Subset
    <3>5. Cardinality(Awards') = 0 /\ Cardinality(Pending') \in Nat
      BY <3>2, <3>4, FS_EmptySet, FS_CardinalityType
    <3> QED BY <3>4, <3>5, Sizes DEF Counted
  <2>3. CASE OfKind("award") # {}
    <3>1. Awards' = Awards /\ Pending' \subseteq Pending
      BY <1>0, <1>5, <2>3 DEF CheckAwarded, Awards, Pending
    <3> QED BY <3>1, NoneAdded
  <2> QED BY <2>2, <2>3
<1>6. ASSUME NEW a \in Awarder, Award(a) PROVE Counted'
  <2>1. a \in Pending /\ Insert("award") /\ step' = [step EXCEPT ![a] = "out"]
    BY <1>6 DEF Award, Pending
  <2>2. Pending' = Pending \ {a}
    BY <1>0, <2>1 DEF Pending
  <2>3. Awards' = Awards \union {Len(msgs) + 1} /\ Len(msgs) + 1 \notin Awards
    BY <1>0, <2>1, Inserts DEF Awards, Kinds
  <2>4. Cardinality(Pending') = Cardinality(Pending) - 1
    BY <2>1, <2>2, Sizes, FS_RemoveElement
  <2>5. Cardinality(Awards') = Cardinality(Awards) + 1
    BY <2>3, Sizes, FS_AddElement
  <2> QED BY <2>4, <2>5, Sizes DEF Counted
<1>7. ASSUME Kill PROVE Counted'
  <2>1. Awards' = Awards /\ Pending' \subseteq Pending
    BY <1>0, <1>7 DEF Kill, Awards, Pending
  <2> QED BY <2>1, NoneAdded
<1>8. ASSUME NEW cut \in 0..MaxMessages, Prune(cut) PROVE Counted'
  BY <1>2, <1>8 DEF Prune
<1>9. ASSUME UNCHANGED vars PROVE Counted'
  BY <1>2, <1>9 DEF vars
<1> QED
  BY <1>3, <1>4, <1>5, <1>6, <1>7, <1>8, <1>9 DEF Next

LEMMA CountedInit == ASSUME Init PROVE CfpFirst /\ Counted
<1>1. Awards = {} /\ Pending = {} /\ CfpFirst
  BY DEF Init, Awards, Pending, CfpFirst
<1>2. Cardinality(Awards) = 0 /\ Cardinality(Pending) = 0 /\ Cardinality(Awarder) \in Nat
  BY <1>1, FS_EmptySet, FS_CardinalityType, ContractNetAssumption
<1> QED
  BY <1>1, <1>2 DEF Counted

LEMMA CountedAlways ==
    ASSUME Undivided
    PROVE  Spec => [](TypeOK /\ Counted)
<1>1. Init => TypeOK /\ CfpFirst /\ Counted
  BY TypeInit, CountedInit
<1>2. TypeOK /\ CfpFirst /\ Counted /\ [Next]_vars => (TypeOK /\ CfpFirst /\ Counted)'
  BY TypeStep, CfpFirstStep, CountedStep
<1> QED
  BY <1>1, <1>2, PTL DEF Spec

(* There are never more awards than processes that award: whoever starts   *)
(* after an award finds it, as long as it finds the cfp (_do_award).       *)
THEOREM AwardsBounded == ASSUME Undivided PROVE Spec => []AwardPerAwarder
<1>1. TypeOK /\ Counted => AwardPerAwarder
  BY Sizes DEF Counted, AwardPerAwarder
<1> QED
  BY <1>1, CountedAlways, PTL

(* "One award per cfp" holds if a single process of the issuer awards.     *)
THEOREM SingleAward ==
    ASSUME Undivided, Cardinality(Awarder) = 1
    PROVE  Spec => []OneAward
<1>1. TypeOK /\ Counted => OneAward
  BY Sizes DEF Counted, OneAward
<1> QED
  BY <1>1, CountedAlways, PTL

-----------------------------------------------------------------------------
(* Rpc: the records its variables hold.                                    *)
Entry  == [kind: {"req", "reply", "msg"}, corr: 0..MaxLog]
Points == {"out", "ask", "list", "poke", "make", "open", "query", "check", "block"}
Ends   == {"none", "answered", "gave up", "error", "killed"}
State  == [at: Points, start: 0..MaxLog, corr: 0..MaxLog, late: BOOLEAN,
           todo: SUBSET Asker, stale: Asker \union {Nothing}, result: Ends]
Pipe   == [path: BOOLEAN, reader: BOOLEAN, linked: BOOLEAN, byte: BOOLEAN]

Sound(g)  == \A p \in Asker : g[p].linked => g[p].path /\ g[p].reader

LEMMA Types ==
    RpcTypeOK <=> /\ log \in Seq(Entry) /\ Len(log) <= MaxLog
                  /\ proc \in [Process -> State]
                  /\ fifo \in [Asker -> Pipe] /\ Sound(fifo)
                  /\ lost \subseteq Asker /\ raced \subseteq Asker
  BY DEF RpcTypeOK, Entry, State, Points, Ends, Pipe, Sound

LEMMA Records ==
    ASSUME log \in Seq(Entry), NEW m \in Entry, Record(m)
    PROVE  /\ log' \in Seq(Entry) /\ Len(log') = Len(log) + 1
           /\ Len(log) \in Nat /\ Len(log') \in 0..MaxLog
           /\ \A i \in 1..Len(log) : log'[i] = log[i]
           /\ log'[Len(log) + 1] = m
  BY RpcAssumption DEF Record

LEMMA Askers == Asker \subseteq Process /\ Writer \subseteq Process /\ Asker \cap Writer = {}
  BY RpcAssumption DEF Process

LEMMA OutIsState == Out \in State /\ NoFifo \in Pipe
  BY RpcAssumption DEF Out, NoFifo, State, Pipe, Points, Ends

LEMMA RpcTypeInit == RpcInit => RpcTypeOK
<1>1. log = <<>> => log \in Seq(Entry) /\ Len(log) <= MaxLog
  BY RpcAssumption
<1>2. ASSUME RpcInit PROVE fifo \in [Asker -> Pipe] /\ Sound(fifo)
  BY <1>2, OutIsState DEF RpcInit, Sound, NoFifo
<1> QED
  BY <1>1, <1>2, OutIsState, Types DEF RpcInit

(* One process at a time moves.                                            *)
LEMMA Moves ==
    ASSUME proc \in [Process -> State], NEW p \in Process, NEW s \in State,
           proc' = [proc EXCEPT ![p] = s]
    PROVE  proc' \in [Process -> State]
  OBVIOUS

LEMMA Goes ==
    ASSUME proc \in [Process -> State], NEW p \in Process, NEW at \in Points, Go(p, at)
    PROVE  /\ proc' \in [Process -> State]
           /\ proc' = [proc EXCEPT ![p] = [proc[p] EXCEPT !.at = at]]
<1>1. [proc[p] EXCEPT !.at = at] \in State
  BY DEF State
<1>2. proc' = [proc EXCEPT ![p] = [proc[p] EXCEPT !.at = at]]
  BY DEF Go
<1> QED
  BY <1>1, <1>2

LEMMA Pipes ==
    ASSUME fifo \in [Asker -> Pipe], Sound(fifo), NEW p \in Asker, NEW f \in Pipe,
           f.linked => f.path /\ f.reader, fifo' = [fifo EXCEPT ![p] = f]
    PROVE  fifo' \in [Asker -> Pipe] /\ Sound(fifo')
  BY DEF Sound

LEMMA RpcTypeStep == RpcTypeOK /\ [RpcNext]_rpcVars => RpcTypeOK'
<1> SUFFICES ASSUME RpcTypeOK, [RpcNext]_rpcVars PROVE RpcTypeOK'
    OBVIOUS
<1>0. /\ log \in Seq(Entry) /\ Len(log) \in 0..MaxLog
      /\ proc \in [Process -> State] /\ fifo \in [Asker -> Pipe] /\ Sound(fifo)
      /\ lost \subseteq Asker /\ raced \subseteq Asker
  BY RpcAssumption, Types
<1>1. (/\ log' \in Seq(Entry) /\ Len(log') <= MaxLog
       /\ proc' \in [Process -> State]
       /\ fifo' \in [Asker -> Pipe] /\ Sound(fifo')
       /\ lost' \subseteq Asker /\ raced' \subseteq Asker) => RpcTypeOK'
  BY DEF RpcTypeOK, Entry, State, Points, Ends, Pipe, Sound
<1>in. \A p \in Asker : p \in Process /\ proc[p] \in State
  BY <1>0, Askers
<1>log. ASSUME UNCHANGED log PROVE log' \in Seq(Entry) /\ Len(log') <= MaxLog
  BY <1>0, <1>log, RpcAssumption
<1>fifo. ASSUME UNCHANGED fifo PROVE fifo' \in [Asker -> Pipe] /\ Sound(fifo')
  BY <1>0, <1>fifo DEF Sound
<1>new. ASSUME NEW m \in Entry, Record(m) PROVE log' \in Seq(Entry) /\ Len(log') <= MaxLog
  BY <1>0, <1>new, Records, RpcAssumption
<1>end. ASSUME NEW p \in Asker, NEW r \in Ends, End(p, r)
        PROVE  proc' \in [Process -> State] /\ fifo' \in [Asker -> Pipe] /\ Sound(fifo')
  <2>0. proc[p] \in State
    BY <1>in
  <2>1. [proc[p] EXCEPT !.at = "out", !.result = r] \in State
    BY <2>0 DEF State, Points
  <2>2. proc' = [proc EXCEPT ![p] = [proc[p] EXCEPT !.at = "out", !.result = r]]
    BY <1>end DEF End
  <2>3. fifo' \in [Asker -> Pipe] /\ Sound(fifo')
    BY <1>0, <1>end, OutIsState, Pipes DEF End, NoFifo
  <2> QED BY <1>0, <2>1, <2>2, <2>3, <1>in, Moves
<1>2. ASSUME NEW p \in Asker, AskHead(p)
      PROVE  RpcTypeOK'
  <2>1. [Out EXCEPT !.at = "ask", !.start = Len(log)] \in State
    BY <1>0, OutIsState DEF State, Points
  <2>2. proc' \in [Process -> State]
    BY <1>0, <1>2, <2>1, <1>in, Moves DEF AskHead
  <2> QED BY <1>0, <1>1, <1>2, <1>log, <1>fifo, <2>2 DEF AskHead
<1>3. ASSUME NEW p \in Asker, AskInsert(p) PROVE RpcTypeOK'
  <2>1. [kind |-> "req", corr |-> Len(log) + 1] \in Entry
    BY <1>0, <1>3, RpcAssumption DEF AskInsert, Record, Entry
  <2>2. Len(log') \in 0..MaxLog
    BY <1>0, <1>3, <2>1, Records DEF AskInsert
  <2>0. proc[p] \in State
    BY <1>in
  <2>3. [proc[p] EXCEPT !.at = "list", !.corr = Len(log')] \in State
    BY <2>0, <2>2 DEF State, Points
  <2>4. proc' = [proc EXCEPT ![p] = [proc[p] EXCEPT !.at = "list", !.corr = Len(log')]]
    BY <1>3 DEF AskInsert
  <2> QED BY <1>0, <1>1, <1>3, <1>fifo, <1>new, <2>1, <2>3, <2>4, <1>in, Moves DEF AskInsert
<1>4. ASSUME NEW p \in Writer, Reply(p) \/ Send(p) PROVE RpcTypeOK'
  <2>1. \A i \in DOMAIN log : [kind |-> "reply", corr |-> i] \in Entry
    BY <1>0, RpcAssumption DEF Entry
  <2>2. [kind |-> "msg", corr |-> 0] \in Entry
    BY RpcAssumption DEF Entry
  <2>3. log' \in Seq(Entry) /\ Len(log') <= MaxLog
    BY <1>4, <1>new, <2>1, <2>2 DEF Reply, Send
  <2>4. proc' \in [Process -> State]
    BY <1>0, <1>4, Askers, Goes DEF Reply, Send, Points
  <2> QED BY <1>0, <1>1, <1>4, <1>fifo, <2>3, <2>4 DEF Reply, Send
<1>5. ASSUME NEW p \in Process, ListWaiters(p) PROVE RpcTypeOK'
  <2>1. [proc[p] EXCEPT !.at = "poke", !.todo = Listed] \in State
    BY <1>0 DEF State, Points, Listed
  <2>2. proc' = [proc EXCEPT ![p] = [proc[p] EXCEPT !.at = "poke", !.todo = Listed]]
    BY <1>5 DEF ListWaiters
  <2> QED BY <1>0, <1>1, <1>5, <1>log, <1>fifo, <2>1, <2>2, Moves DEF ListWaiters
<1>6. ASSUME NEW p \in Process, NEW f \in Asker, Poke(p, f) PROVE RpcTypeOK'
  <2> DEFINE st == IF HasReader(f) THEN Nothing ELSE f
  <2>1. [proc[p] EXCEPT !.todo = @ \ {f}, !.stale = st] \in State
    BY <1>0 DEF State
  <2>2. proc' = [proc EXCEPT ![p] = [proc[p] EXCEPT !.todo = @ \ {f}, !.stale = st]]
    BY <1>6 DEF Poke
  <2>3. [fifo[f] EXCEPT !.byte = TRUE] \in Pipe
    BY <1>0 DEF Pipe
  <2>4. CASE HasReader(f)
    <3>1. fifo' = [fifo EXCEPT ![f] = [fifo[f] EXCEPT !.byte = TRUE]]
      BY <1>6, <2>4 DEF Poke
    <3>2. fifo[f].path /\ fifo[f].reader /\ fifo[f].linked
      BY <2>4 DEF HasReader
    <3>3. LET g == [fifo[f] EXCEPT !.byte = TRUE] IN g.linked => g.path /\ g.reader
      BY <1>0, <3>2 DEF Pipe
    <3>4. fifo' \in [Asker -> Pipe] /\ Sound(fifo')
      BY <1>0, <2>3, <3>1, <3>3, Pipes DEF Pipe
    <3> QED BY <1>0, <1>1, <1>6, <1>log, <2>1, <2>2, <3>4, Moves DEF Poke
  <2>5. CASE ~HasReader(f)
    BY <1>0, <1>1, <1>6, <1>log, <1>fifo, <2>1, <2>2, <2>5, Moves DEF Poke
  <2> QED BY <2>4, <2>5
<1>7. ASSUME NEW p \in Process, Reap(p) PROVE RpcTypeOK'
  <2>1. proc[p].stale \in Asker
    BY <1>0, <1>7 DEF Reap, State
  <2> DEFINE f == proc[p].stale
  <2>2. [fifo[f] EXCEPT !.path = FALSE, !.linked = FALSE] \in Pipe
    BY <1>0, <2>1 DEF Pipe
  <2>3. fifo' = [fifo EXCEPT ![f] = [fifo[f] EXCEPT !.path = FALSE, !.linked = FALSE]]
    BY <1>7 DEF Reap
  <2>4. ~[fifo[f] EXCEPT !.path = FALSE, !.linked = FALSE].linked
    BY <1>0, <2>1 DEF Pipe
  <2>5. fifo' \in [Asker -> Pipe] /\ Sound(fifo')
    BY <1>0, <2>1, <2>2, <2>3, <2>4, Pipes
  <2>6. [proc[p] EXCEPT !.stale = Nothing] \in State
    BY <1>0 DEF State
  <2>7. proc' = [proc EXCEPT ![p] = [proc[p] EXCEPT !.stale = Nothing]]
    BY <1>7 DEF Reap
  <2> QED BY <1>0, <1>1, <1>7, <1>log, <2>5, <2>6, <2>7, Moves DEF Reap
<1>8. ASSUME NEW p \in Process, Poked(p) PROVE RpcTypeOK'
  <2>1. proc' \in [Process -> State]
    BY <1>0, <1>8, Goes DEF Poked, Points
  <2> QED BY <1>0, <1>1, <1>8, <1>log, <1>fifo, <2>1 DEF Poked
<1>9. ASSUME NEW p \in Asker, MakeFifo(p) PROVE RpcTypeOK'
  <2>1. proc' \in [Process -> State]
    BY <1>0, <1>9, <1>in, Goes DEF MakeFifo, Points
  <2>2. [NoFifo EXCEPT !.path = TRUE] \in Pipe /\ ~[NoFifo EXCEPT !.path = TRUE].linked
    BY DEF NoFifo, Pipe
  <2>3. fifo' \in [Asker -> Pipe] /\ Sound(fifo')
    BY <1>0, <1>9, <2>2, Pipes DEF MakeFifo
  <2> QED BY <1>0, <1>1, <1>9, <1>log, <2>1, <2>3 DEF MakeFifo
<1>10. ASSUME NEW p \in Asker, OpenFifo(p) PROVE RpcTypeOK'
  <2>1. CASE fifo[p].path
    <3>1. proc' \in [Process -> State]
      BY <1>0, <1>10, <2>1, <1>in, Goes DEF OpenFifo, Points
    <3>2. LET g == [fifo[p] EXCEPT !.reader = TRUE, !.linked = TRUE]
          IN  g \in Pipe /\ g.path /\ g.reader
      BY <1>0, <2>1 DEF Pipe
    <3>3. fifo' = [fifo EXCEPT ![p] = [fifo[p] EXCEPT !.reader = TRUE, !.linked = TRUE]]
      BY <1>10, <2>1 DEF OpenFifo
    <3>4. fifo' \in [Asker -> Pipe] /\ Sound(fifo')
      BY <1>0, <3>2, <3>3, Pipes DEF Pipe
    <3> QED BY <1>0, <1>1, <1>10, <1>log, <3>1, <3>4 DEF OpenFifo
  <2>2. CASE ~fifo[p].path
    BY <1>0, <1>1, <1>10, <1>log, <1>end, <2>2 DEF OpenFifo, Ends
  <2> QED BY <2>1, <2>2
<1>11. ASSUME NEW p \in Asker, Query(p) PROVE RpcTypeOK'
  <2>1. CASE Answered(p)
    BY <1>0, <1>1, <1>11, <1>log, <1>end, <2>1 DEF Query, Ends
  <2>2. CASE ~Answered(p)
    <3>1. proc' \in [Process -> State]
      BY <1>0, <1>11, <2>2, <1>in, Goes DEF Query, Points
    <3> QED BY <1>0, <1>1, <1>11, <1>log, <1>fifo, <2>2, <3>1 DEF Query
  <2> QED BY <2>1, <2>2
<1>12. ASSUME NEW p \in Asker, CheckDeadline(p) PROVE RpcTypeOK'
  <2>1. CASE proc[p].late
    BY <1>0, <1>1, <1>12, <1>log, <1>end, <2>1 DEF CheckDeadline, Ends
  <2>2. CASE ~proc[p].late
    <3>1. proc' \in [Process -> State]
      BY <1>0, <1>12, <2>2, <1>in, Goes DEF CheckDeadline, Block, Points
    <3> QED BY <1>0, <1>1, <1>12, <1>log, <1>fifo, <2>2, <3>1 DEF CheckDeadline, Block
  <2> QED BY <2>1, <2>2
<1>13. ASSUME NEW p \in Asker, Expire(p) PROVE RpcTypeOK'
  <2>0. proc[p] \in State
    BY <1>in
  <2>1. [proc[p] EXCEPT !.late = TRUE] \in State
    BY <2>0 DEF State
  <2>2. proc' = [proc EXCEPT ![p] = [proc[p] EXCEPT !.late = TRUE]]
    BY <1>13 DEF Expire
  <2> QED BY <1>0, <1>1, <1>13, <1>log, <1>fifo, <2>1, <2>2, <1>in, Moves DEF Expire
<1>14. ASSUME NEW p \in Asker, Wake(p) PROVE RpcTypeOK'
  <2>1. proc' \in [Process -> State]
    BY <1>0, <1>14, <1>in, Goes DEF Wake, Points
  <2>2. LET g == [fifo[p] EXCEPT !.byte = FALSE]
        IN  g \in Pipe /\ (g.linked => g.path /\ g.reader)
    BY <1>0 DEF Pipe, Sound
  <2>3. fifo' = [fifo EXCEPT ![p] = [fifo[p] EXCEPT !.byte = FALSE]]
    BY <1>14 DEF Wake, Drained
  <2>4. fifo' \in [Asker -> Pipe] /\ Sound(fifo')
    BY <1>0, <2>2, <2>3, Pipes
  <2> QED BY <1>0, <1>1, <1>14, <1>log, <2>1, <2>4 DEF Wake
<1>15. ASSUME NEW p \in Asker, Ceiling(p) PROVE RpcTypeOK'
  <2>1. proc' \in [Process -> State]
    BY <1>0, <1>15, <1>in, Goes DEF Ceiling, Points
  <2> QED BY <1>0, <1>1, <1>15, <1>log, <1>fifo, <2>1 DEF Ceiling
<1>16. ASSUME NEW p \in Process, KillProcess(p) PROVE RpcTypeOK'
  <2>1. [Out EXCEPT !.result = "killed"] \in State
    BY OutIsState DEF State, Ends
  <2>2. proc' \in [Process -> State]
    BY <1>0, <1>16, <2>1, Moves DEF KillProcess
  <2>3. proc[p].todo \subseteq Asker
    BY <1>0 DEF State
  <2>4. lost' \subseteq Asker
    BY <1>0, <1>16, <2>3 DEF KillProcess
  <2>5. fifo' \in [Asker -> Pipe] /\ Sound(fifo')
    <3>1. CASE p \in Asker
      <4>1. LET g == [NoFifo EXCEPT !.path = fifo[p].path] IN g \in Pipe /\ ~g.linked
        BY <1>0, <3>1 DEF Pipe, NoFifo
      <4> QED BY <1>0, <1>16, <3>1, <4>1, Pipes DEF KillProcess
    <3>2. CASE p \notin Asker
      BY <1>16, <1>fifo, <3>2 DEF KillProcess
    <3> QED BY <3>1, <3>2
  <2> QED BY <1>0, <1>1, <1>16, <1>log, <2>2, <2>4, <2>5 DEF KillProcess
<1>17. ASSUME UNCHANGED rpcVars PROVE RpcTypeOK'
  BY <1>0, <1>1, <1>17, <1>log, <1>fifo DEF rpcVars
<1> QED
  BY <1>2, <1>3, <1>4, <1>5, <1>6, <1>7, <1>8, <1>9, <1>10, <1>11, <1>12, <1>13, <1>14,
     <1>15, <1>16, <1>17 DEF RpcNext, Await

(* Every reachable state of Rpc is well typed.                             *)
THEOREM RpcTypeCorrect == RpcSpec => []RpcTypeOK
  BY RpcTypeInit, RpcTypeStep, PTL DEF RpcSpec

-----------------------------------------------------------------------------
(* A FIFO has a reader as long as its asker awaits, and its name until a   *)
(* poke has found it without a reader; only a process that is poking has   *)
(* FIFOs left to poke.                                                     *)
Waiting(p)  == proc[p].at \in {"check", "block"}
Awaiting(p) == proc[p].at \in {"query", "check", "block"}

FifoInv ==
    /\ \A p \in Asker : fifo[p].reader <=> Awaiting(p)
    /\ \A p \in Asker : fifo[p].reader /\ p \notin raced => fifo[p].path /\ fifo[p].linked
    /\ \A q \in Process : proc[q].stale # Nothing => proc[q].stale \in raced
    /\ \A q \in Process : proc[q].todo # {} => At(q, "poke")

(* Whoever has read the log without its answer and finds it there now has  *)
(* a poke behind it or before it.  NoLostWakeup says it of an asker that   *)
(* blocks, and is not inductive: one that passes the deadline check blocks *)
(* on what it read before.                                                 *)
Owes(q, p) == At(q, "list") \/ p \in proc[q].todo
Excused    == lost \union raced

WakeInv ==
    \A p \in Asker :
        Waiting(p) /\ Answers(p) # {} /\ p \notin Excused
        => fifo[p].byte \/ \E q \in Process : Owes(q, p)

RpcInv == RpcTypeOK /\ FifoInv /\ WakeInv

LEMMA RpcInvInit == RpcInit => RpcInv
<1>1. ASSUME RpcInit PROVE FifoInv /\ WakeInv
  <2>1. \A p \in Process : proc[p] = Out
    BY <1>1 DEF RpcInit
  <2>2. \A p \in Asker : p \in Process /\ fifo[p] = NoFifo
    BY <1>1, Askers DEF RpcInit
  <2> QED
    BY <2>1, <2>2 DEF FifoInv, WakeInv, Waiting, Awaiting, Out, NoFifo
<1> QED
  BY <1>1, RpcTypeInit DEF RpcInv

(* A step of a that leaves alone the FIFOs of the others.                  *)
LEMMA FifoKept ==
    ASSUME RpcTypeOK, FifoInv, NEW a \in Process, NEW s \in State,
           proc' = [proc EXCEPT ![a] = s],
           \A p \in Asker \ {a} : /\ fifo'[p].reader = fifo[p].reader
                                  /\ p \notin raced' /\ fifo[p].reader =>
                                        /\ p \notin raced
                                        /\ fifo[p].path /\ fifo[p].linked
                                           => fifo'[p].path /\ fifo'[p].linked,
           a \in Asker => /\ fifo'[a].reader <=> s.at \in {"query", "check", "block"}
                          /\ fifo'[a].reader /\ a \notin raced'
                             => fifo'[a].path /\ fifo'[a].linked,
           s.stale # Nothing => s.stale \in raced',
           \A q \in Process \ {a} : proc[q].stale \in raced => proc[q].stale \in raced',
           s.todo # {} => s.at = "poke"
    PROVE  FifoInv'
<1>1. proc \in [Process -> State] /\ \A p \in Asker : p \in Process
  BY Types, Askers
<1>2. proc'[a] = s /\ \A q \in Process \ {a} : proc'[q] = proc[q]
  BY <1>1
<1>3. \A p \in Asker : fifo'[p].reader <=> proc'[p].at \in {"query", "check", "block"}
  BY <1>1, <1>2 DEF FifoInv, Awaiting
<1>4. \A p \in Asker : fifo'[p].reader /\ p \notin raced' => fifo'[p].path /\ fifo'[p].linked
  BY DEF FifoInv
<1>5. \A q \in Process : proc'[q].stale # Nothing => proc'[q].stale \in raced'
  BY <1>2 DEF FifoInv
<1>6. \A q \in Process : proc'[q].todo # {} => proc'[q].at = "poke"
  BY <1>2 DEF FifoInv, At
<1> QED
  BY <1>3, <1>4, <1>5, <1>6 DEF FifoInv, Awaiting, At

(* A step of a that adds no message: it owes what it owed or has paid it.  *)
LEMMA WakeKept ==
    ASSUME RpcTypeOK, WakeInv, NEW a \in Process, NEW s \in State,
           UNCHANGED log, proc' = [proc EXCEPT ![a] = s],
           s.at \in {"check", "block"} =>
              /\ s.corr = proc[a].corr /\ s.start = proc[a].start
              /\ Waiting(a) \/ Answers(a) = {},
           \A p \in Asker : proc'[p].at \in {"check", "block"} =>
              /\ fifo[p].byte => fifo'[p].byte
              /\ p \in Excused => p \in lost' \union raced'
              /\ p \in lost' \union raced' \/ (Owes(a, p) =>
                    s.at = "list" \/ p \in s.todo \/ fifo'[p].byte)
    PROVE  WakeInv'
<1> SUFFICES ASSUME NEW p \in Asker, Waiting(p)', Answers(p)' # {}, (p \notin Excused)'
             PROVE  (fifo[p].byte \/ \E q \in Process : Owes(q, p))'
    BY DEF WakeInv
<1>1. proc \in [Process -> State] /\ p \in Process
  BY Types, Askers
<1>2. proc'[a] = s /\ \A q \in Process \ {a} : proc'[q] = proc[q]
  BY <1>1
<1>3. proc'[p].at \in {"check", "block"} /\ p \notin lost' \union raced'
  BY DEF Waiting, Excused
<1>4. proc'[p].corr = proc[p].corr /\ proc'[p].start = proc[p].start
  BY <1>2, <1>3
<1>5. Answers(p) # {}
  BY <1>4 DEF Answers
<1>6. Waiting(p)
  BY <1>2, <1>3, <1>5 DEF Waiting
<1>7. fifo[p].byte \/ \E q \in Process : Owes(q, p)
  BY <1>3, <1>5, <1>6 DEF WakeInv
<1>8. ASSUME NEW q \in Process, Owes(q, p)
      PROVE  fifo'[p].byte \/ \E r \in Process : Owes(r, p)'
  <2>1. CASE q = a
    BY <1>2, <1>3, <1>8, <2>1 DEF Owes, At
  <2>2. CASE q # a
    BY <1>2, <1>8, <2>2 DEF Owes, At
  <2> QED BY <2>1, <2>2
<1> QED
  BY <1>3, <1>7, <1>8

(* Whoever has added a message owes every poke.                            *)
LEMMA WakeOwed ==
    ASSUME NEW a \in Process, At(a, "list")' PROVE WakeInv'
  BY DEF WakeInv, Owes

(* A step of an asker on its own FIFO, with no poke behind it.             *)
LEMMA OwnStep ==
    ASSUME RpcInv, NEW a \in Asker, NEW s \in State, NEW g \in Pipe,
           proc[a].at \notin {"list", "poke"},
           proc' = [proc EXCEPT ![a] = s], s.todo = proc[a].todo, s.stale = proc[a].stale,
           fifo' = [fifo EXCEPT ![a] = g], UNCHANGED <<log, lost, raced>>,
           g.reader <=> s.at \in {"query", "check", "block"},
           g.reader /\ a \notin raced => g.path /\ g.linked,
           s.at \in {"check", "block"} =>
              /\ s.corr = proc[a].corr /\ s.start = proc[a].start
              /\ Waiting(a) \/ Answers(a) = {}
              /\ fifo[a].byte => g.byte
    PROVE  FifoInv' /\ WakeInv'
<1>0. /\ RpcTypeOK /\ FifoInv /\ WakeInv /\ a \in Process
      /\ proc \in [Process -> State] /\ fifo \in [Asker -> Pipe]
  BY Types, Askers DEF RpcInv
<1>1. fifo'[a] = g /\ \A p \in Asker \ {a} : fifo'[p] = fifo[p]
  BY <1>0
<1>2. /\ proc[a].todo = {} /\ \A q \in Process : proc[q].stale # Nothing => proc[q].stale \in raced
      /\ \A p \in Asker : fifo[p].reader /\ p \notin raced => fifo[p].path /\ fifo[p].linked
  BY <1>0 DEF FifoInv, At
<1>3. proc'[a].at = s.at
  BY <1>0
<1>4. FifoInv'
  BY <1>0, <1>1, <1>2, FifoKept
<1>5. \A p \in Asker : proc'[p].at \in {"check", "block"} => (fifo[p].byte => fifo'[p].byte)
  BY <1>1, <1>3
<1>6. WakeInv'
  BY <1>0, <1>2, <1>5, WakeKept DEF Owes, At, Excused
<1> QED
  BY <1>4, <1>6

LEMMA RpcInvStep ==
    ASSUME RpcInv, [RpcNext]_rpcVars
    PROVE  FifoInv' /\ WakeInv'
<1>0. /\ RpcTypeOK /\ FifoInv /\ WakeInv
      /\ log \in Seq(Entry) /\ Len(log) \in 0..MaxLog
      /\ proc \in [Process -> State] /\ fifo \in [Asker -> Pipe] /\ Sound(fifo)
      /\ lost \subseteq Asker /\ raced \subseteq Asker
  BY RpcAssumption, Types DEF RpcInv
<1>in. \A p \in Asker : p \in Process /\ proc[p] \in State
  BY <1>0, Askers
<1>own. /\ \A p \in Asker : fifo[p].reader <=> proc[p].at \in {"query", "check", "block"}
        /\ \A p \in Asker : fifo[p].reader /\ p \notin raced => fifo[p].path /\ fifo[p].linked
        /\ \A q \in Process : proc[q].stale # Nothing => proc[q].stale \in raced
        /\ \A q \in Process : proc[q].todo # {} => proc[q].at = "poke"
  BY <1>0 DEF FifoInv, Awaiting, At
<1>new. ASSUME RpcTypeOK' PROVE \A p \in Process : proc'[p] \in State
  BY <1>new DEF RpcTypeOK, State, Points, Ends
<1>typ. \A p \in Process : proc'[p] \in State
  BY <1>0, <1>new, RpcTypeStep
<1>go. ASSUME NEW p \in Process, NEW at \in Points, Go(p, at)
       PROVE  \E s \in State :
                 /\ proc' = [proc EXCEPT ![p] = s]
                 /\ s.at = at /\ s.todo = proc[p].todo /\ s.stale = proc[p].stale
                 /\ s.corr = proc[p].corr /\ s.start = proc[p].start
  <2> DEFINE s == [proc[p] EXCEPT !.at = at]
  <2>1. proc[p] \in State /\ proc' = [proc EXCEPT ![p] = s]
    BY <1>0, <1>go DEF Go
  <2>2. /\ s \in State
        /\ s.at = at /\ s.todo = proc[p].todo /\ s.stale = proc[p].stale
        /\ s.corr = proc[p].corr /\ s.start = proc[p].start
    BY <2>1 DEF State
  <2> HIDE DEF s
  <2> QED BY <2>1, <2>2
<1>2. ASSUME NEW p \in Asker, AskHead(p) PROVE FifoInv' /\ WakeInv'
  <2> DEFINE s == [Out EXCEPT !.at = "ask", !.start = Len(log)]
  <2>1. /\ p \in Process /\ proc[p].at = "out" /\ proc' = [proc EXCEPT ![p] = s]
        /\ UNCHANGED <<log, fifo>> /\ lost' = lost \ {p}
        /\ raced' = IF \E q \in Process : proc[q].stale = p THEN raced ELSE raced \ {p}
    BY <1>2, <1>in DEF AskHead, At
  <2>2. /\ s \in State /\ s.at = "ask" /\ s.todo = {} /\ s.stale = Nothing
    BY <1>0, OutIsState DEF Out, State, Points
  <2>3. \A q \in Process : proc[q].stale \in raced => proc[q].stale \in raced'
    BY <2>1
  <2>4. proc[p].todo = {}
    BY <1>own, <2>1
  <2>5. proc'[p].at = "ask"
    BY <1>0, <2>1, <2>2
  <2> HIDE DEF s
  <2>6. FifoInv'
    BY <1>0, <1>own, <2>1, <2>2, <2>3, FifoKept
  <2>7. WakeInv'
    BY <1>0, <2>1, <2>2, <2>4, <2>5, WakeKept DEF Owes, At, Excused
  <2> QED BY <2>6, <2>7
<1>3. ASSUME NEW p \in Asker, AskInsert(p) PROVE FifoInv' /\ WakeInv'
  <2> DEFINE s == [proc[p] EXCEPT !.at = "list", !.corr = Len(log')]
  <2>1. /\ p \in Process /\ proc[p].at = "ask" /\ proc' = [proc EXCEPT ![p] = s]
        /\ UNCHANGED <<fifo, lost, raced>>
    BY <1>3, <1>in DEF AskInsert, At
  <2>2. s \in State
    BY <1>0, <1>typ, <2>1
  <2>3. s.at = "list" /\ s.todo = proc[p].todo /\ s.stale = proc[p].stale
    BY <1>0, <2>1 DEF State
  <2>4. proc'[p].at = "list"
    BY <1>0, <2>1, <2>3
  <2> HIDE DEF s
  <2>5. FifoInv'
    BY <1>0, <1>own, <2>1, <2>2, <2>3, FifoKept
  <2> QED BY <2>1, <2>4, <2>5, WakeOwed DEF At
<1>4. ASSUME NEW p \in Writer, Reply(p) \/ Send(p) PROVE FifoInv' /\ WakeInv'
  <2>1. p \in Process /\ p \notin Asker /\ "list" \in Points
    BY Askers DEF Points
  <2>2. Go(p, "list") /\ proc[p].at = "out" /\ UNCHANGED <<fifo, lost, raced>>
    BY <1>4 DEF Reply, Send, At
  <2>s. PICK s \in State : /\ proc' = [proc EXCEPT ![p] = s]
                           /\ s.at = "list" /\ s.todo = proc[p].todo /\ s.stale = proc[p].stale
                           /\ s.corr = proc[p].corr /\ s.start = proc[p].start
    BY <1>go, <2>1, <2>2
  <2>3. proc'[p].at = "list"
    BY <1>0, <2>1, <2>s
  <2>4. FifoInv'
    BY <1>0, <1>own, <2>1, <2>2, <2>s, FifoKept
  <2> QED BY <2>1, <2>3, <2>4, WakeOwed DEF At
<1>5. ASSUME NEW p \in Process, ListWaiters(p) PROVE FifoInv' /\ WakeInv'
  <2> DEFINE s == [proc[p] EXCEPT !.at = "poke", !.todo = Listed]
  <2>1. /\ proc[p].at = "list" /\ proc' = [proc EXCEPT ![p] = s]
        /\ UNCHANGED <<log, fifo, lost, raced>>
    BY <1>5 DEF ListWaiters, At
  <2>2. s \in State
    BY <1>0, <1>typ, <2>1
  <2>3. s.at = "poke" /\ s.todo = Listed /\ s.stale = proc[p].stale
    BY <1>0 DEF State
  <2>4. \A f \in Asker : proc'[f].at \in {"check", "block"} /\ f \notin raced => f \in Listed
    BY <1>in, <1>own, <1>0, <2>1, <2>3 DEF Listed
  <2> HIDE DEF s
  <2>5. FifoInv'
    BY <1>0, <1>own, <2>1, <2>2, <2>3, FifoKept
  <2>6. WakeInv'
    BY <1>0, <2>1, <2>2, <2>3, <2>4, WakeKept DEF Owes, At, Excused
  <2> QED BY <2>5, <2>6
<1>6. ASSUME NEW p \in Process, NEW f \in Asker, Poke(p, f) PROVE FifoInv' /\ WakeInv'
  <2> DEFINE st == IF HasReader(f) THEN Nothing ELSE f
             s  == [proc[p] EXCEPT !.todo = @ \ {f}, !.stale = st]
  <2>1. /\ proc[p].at = "poke" /\ proc' = [proc EXCEPT ![p] = s]
        /\ fifo' = IF HasReader(f) THEN [fifo EXCEPT ![f].byte = TRUE] ELSE fifo
        /\ raced' = IF fifo[f].reader THEN raced ELSE raced \union {f}
        /\ UNCHANGED <<log, lost>>
    BY <1>6 DEF Poke, At
  <2>2. s \in State
    BY <1>0, <1>typ, <2>1
  <2>3. s.at = "poke" /\ s.todo = proc[p].todo \ {f} /\ s.stale = st
    BY <1>0, <2>1 DEF State
  <2>4. \A g \in Asker : /\ fifo'[g].reader = fifo[g].reader /\ fifo'[g].path = fifo[g].path
                         /\ fifo'[g].linked = fifo[g].linked
                         /\ fifo[g].byte => fifo'[g].byte
    BY <1>0, <2>1 DEF Pipe
  <2>5. HasReader(f) => fifo'[f].byte
    BY <1>0, <2>1 DEF Pipe
  <2>6. ~HasReader(f) => f \in raced'
    BY <1>own, <2>1 DEF HasReader
  <2>7. raced \subseteq raced'
    BY <2>1
  <2>8. st # Nothing => st \in raced'
    BY <2>6
  <2>8a. p \in Asker => (fifo'[p].reader <=> s.at \in {"query", "check", "block"})
    BY <1>own, <2>1, <2>3, <2>4
  <2>8b. \A g \in Asker : fifo'[g].reader /\ g \notin raced' => fifo'[g].path /\ fifo'[g].linked
    BY <1>own, <2>4, <2>7
  <2>8c. \A q \in Process : proc[q].stale \in raced => proc[q].stale \in raced'
    BY <2>7
  <2> HIDE DEF s, st
  <2>9. FifoInv'
    <3>1. proc' = [proc EXCEPT ![p] = s]
      BY <2>1
    <3>2. s.todo # {} => s.at = "poke"
      BY <2>3
    <3>3. s.stale # Nothing => s.stale \in raced'
      BY <2>3, <2>8
    <3> QED BY <1>0, <2>2, <2>4, <2>7, <2>8a, <2>8b, <2>8c, <3>1, <3>2, <3>3, FifoKept
  <2>10. \A g \in Asker : \/ g \in lost' \union raced'
                          \/ g \in proc[p].todo => g \in s.todo \/ fifo'[g].byte
    BY <2>3, <2>5, <2>6
  <2>11. WakeInv'
    BY <1>0, <2>1, <2>2, <2>3, <2>4, <2>7, <2>10, WakeKept DEF Owes, At, Excused
  <2> QED BY <2>9, <2>11
<1>7. ASSUME NEW p \in Process, Reap(p) PROVE FifoInv' /\ WakeInv'
  <2> DEFINE s == [proc[p] EXCEPT !.stale = Nothing]
             f == proc[p].stale
  <2>1. /\ proc[p].at = "poke" /\ proc' = [proc EXCEPT ![p] = s] /\ f # Nothing
        /\ fifo' = [fifo EXCEPT ![f].path = FALSE, ![f].linked = FALSE]
        /\ UNCHANGED <<log, lost, raced>>
    BY <1>7 DEF Reap, At
  <2>2. s \in State
    BY <1>0, <1>typ, <2>1
  <2>3. s.at = "poke" /\ s.todo = proc[p].todo /\ s.stale = Nothing
    BY <1>0, <2>1 DEF State
  <2>4. f \in raced
    BY <1>own, <2>1
  <2>5. \A g \in Asker : /\ fifo'[g].reader = fifo[g].reader /\ fifo'[g].byte = fifo[g].byte
                         /\ g \notin raced => fifo'[g] = fifo[g]
    BY <1>0, <2>1, <2>4 DEF Pipe
  <2>6. p \in Asker => ~fifo'[p].reader
    BY <1>own, <2>1, <2>5
  <2> HIDE DEF s, f
  <2>7. FifoInv'
    BY <1>0, <1>own, <2>1, <2>2, <2>3, <2>5, <2>6, FifoKept
  <2>8. WakeInv'
    <3>1. proc' = [proc EXCEPT ![p] = s] /\ UNCHANGED log
      BY <2>1
    <3>2. \A g \in Asker : /\ fifo[g].byte => fifo'[g].byte
                           /\ g \in Excused => g \in lost' \union raced'
                           /\ Owes(p, g) => g \in s.todo
      BY <2>1, <2>3, <2>5 DEF Owes, At, Excused
    <3> QED BY <1>0, <2>2, <2>3, <3>1, <3>2, WakeKept
  <2> QED BY <2>7, <2>8
<1>8. ASSUME NEW p \in Process, Poked(p) PROVE FifoInv' /\ WakeInv'
  <2> DEFINE to == IF p \in Asker THEN "make" ELSE "out"
  <2>1. /\ proc[p].at = "poke" /\ proc[p].todo = {} /\ proc[p].stale = Nothing
        /\ Go(p, to) /\ UNCHANGED <<log, fifo, lost, raced>>
    BY <1>8 DEF Poked, At
  <2>2. to \in Points /\ to \notin {"query", "check", "block", "list"}
    BY DEF Points
  <2>3. p \in Asker => ~fifo'[p].reader
    BY <1>own, <2>1
  <2> HIDE DEF to
  <2>s. PICK s \in State : /\ proc' = [proc EXCEPT ![p] = s]
                           /\ s.at = to /\ s.todo = proc[p].todo /\ s.stale = proc[p].stale
                           /\ s.corr = proc[p].corr /\ s.start = proc[p].start
    BY <1>go, <2>1, <2>2
  <2>4. FifoInv'
    BY <1>0, <1>own, <2>1, <2>2, <2>3, <2>s, FifoKept
  <2>5. WakeInv'
    <3>1. \A g \in Asker : ~Owes(p, g)
      BY <2>1 DEF Owes, At
    <3> QED BY <1>0, <2>1, <2>2, <2>s, <3>1, WakeKept DEF Excused
  <2> QED BY <2>4, <2>5
<1>end. ASSUME NEW p \in Asker, NEW r \in Ends, End(p, r), UNCHANGED <<log, lost, raced>>,
               proc[p].at \notin {"list", "poke"}
        PROVE  FifoInv' /\ WakeInv'
  <2> DEFINE s == [proc[p] EXCEPT !.at = "out", !.result = r]
  <2>1. /\ p \in Process /\ proc' = [proc EXCEPT ![p] = s]
        /\ fifo' = [fifo EXCEPT ![p] = NoFifo]
    BY <1>end, <1>in DEF End
  <2>2. proc[p] \in State
    BY <1>0, <2>1
  <2>3. s \in State /\ s.at = "out" /\ s.todo = proc[p].todo /\ s.stale = proc[p].stale
    BY <2>2 DEF State, Points
  <2>4. NoFifo \in Pipe /\ ~NoFifo.reader
    BY OutIsState DEF NoFifo
  <2> HIDE DEF s
  <2> QED BY <1>end, <2>1, <2>3, <2>4, OwnStep
<1>stay. ASSUME NEW p \in Asker, NEW at \in Points, Go(p, at), UNCHANGED <<log, fifo, lost, raced>>,
                proc[p].at \in {"query", "check", "block"}, at \in {"query", "check", "block"},
                at \in {"check", "block"} => Waiting(p) \/ Answers(p) = {}
         PROVE  FifoInv' /\ WakeInv'
  <2>1. p \in Process /\ fifo[p] \in Pipe /\ fifo' = [fifo EXCEPT ![p] = fifo[p]]
    BY <1>0, <1>in, <1>stay
  <2>s. PICK s \in State : /\ proc' = [proc EXCEPT ![p] = s]
                           /\ s.at = at /\ s.todo = proc[p].todo /\ s.stale = proc[p].stale
                           /\ s.corr = proc[p].corr /\ s.start = proc[p].start
    BY <1>go, <1>stay, <2>1
  <2> QED BY <1>own, <1>stay, <2>1, <2>s, OwnStep
<1>9. ASSUME NEW p \in Asker, MakeFifo(p) PROVE FifoInv' /\ WakeInv'
  <2>1. /\ p \in Process /\ proc[p].at = "make" /\ Go(p, "open") /\ "open" \in Points
        /\ fifo' = [fifo EXCEPT ![p] = [NoFifo EXCEPT !.path = TRUE]]
        /\ UNCHANGED <<log, lost, raced>>
    BY <1>9, <1>in DEF MakeFifo, At, Points
  <2>2. [NoFifo EXCEPT !.path = TRUE] \in Pipe /\ ~[NoFifo EXCEPT !.path = TRUE].reader
    BY DEF NoFifo, Pipe
  <2>s. PICK s \in State : /\ proc' = [proc EXCEPT ![p] = s]
                           /\ s.at = "open" /\ s.todo = proc[p].todo /\ s.stale = proc[p].stale
                           /\ s.corr = proc[p].corr /\ s.start = proc[p].start
    BY <1>go, <2>1
  <2> QED BY <2>1, <2>2, <2>s, OwnStep
<1>10. ASSUME NEW p \in Asker, OpenFifo(p) PROVE FifoInv' /\ WakeInv'
  <2>1. proc[p].at = "open" /\ UNCHANGED <<log, lost, raced>>
    BY <1>10 DEF OpenFifo, At
  <2>2. CASE fifo[p].path
    <3> DEFINE g == [fifo[p] EXCEPT !.reader = TRUE, !.linked = TRUE]
    <3>1. p \in Process /\ Go(p, "query") /\ "query" \in Points /\ fifo' = [fifo EXCEPT ![p] = g]
      BY <1>10, <1>in, <2>2 DEF OpenFifo, Points
    <3>2. fifo[p] \in Pipe
      BY <1>0
    <3>3. g \in Pipe /\ g.path /\ g.reader /\ g.linked
      BY <2>2, <3>2 DEF Pipe
    <3>s. PICK s \in State : /\ proc' = [proc EXCEPT ![p] = s]
                           /\ s.at = "query" /\ s.todo = proc[p].todo /\ s.stale = proc[p].stale
                           /\ s.corr = proc[p].corr /\ s.start = proc[p].start
      BY <1>go, <3>1
    <3> HIDE DEF g
    <3> QED BY <2>1, <3>1, <3>3, <3>s, OwnStep
  <2>3. CASE ~fifo[p].path
    BY <1>10, <1>end, <2>1, <2>3 DEF OpenFifo, Ends
  <2> QED BY <2>2, <2>3
<1>11. ASSUME NEW p \in Asker, Query(p) PROVE FifoInv' /\ WakeInv'
  <2>1. proc[p].at = "query" /\ UNCHANGED <<log, lost, raced>>
    BY <1>11 DEF Query, At
  <2>2. CASE Answered(p)
    BY <1>11, <1>end, <2>1, <2>2 DEF Query, Ends
  <2>3. CASE ~Answered(p)
    BY <1>11, <1>stay, <2>1, <2>3 DEF Query, Answered, Points
  <2> QED BY <2>2, <2>3
<1>12. ASSUME NEW p \in Asker, CheckDeadline(p) PROVE FifoInv' /\ WakeInv'
  <2>1. proc[p].at = "check" /\ UNCHANGED <<log, lost, raced>>
    BY <1>12 DEF CheckDeadline, At
  <2>2. CASE proc[p].late
    BY <1>12, <1>end, <2>1, <2>2 DEF CheckDeadline, Ends
  <2>3. CASE ~proc[p].late
    BY <1>12, <1>stay, <2>1, <2>3 DEF CheckDeadline, Block, Waiting, Points
  <2> QED BY <2>2, <2>3
<1>13. ASSUME NEW p \in Asker, Expire(p) PROVE FifoInv' /\ WakeInv'
  <2> DEFINE s == [proc[p] EXCEPT !.late = TRUE]
  <2>1. /\ p \in Process /\ proc[p].at \in {"query", "check", "block"}
        /\ proc' = [proc EXCEPT ![p] = s] /\ UNCHANGED <<log, fifo, lost, raced>>
    BY <1>13, <1>in DEF Expire
  <2>2. proc[p] \in State /\ fifo[p] \in Pipe
    BY <1>0, <2>1
  <2>3. /\ s \in State /\ s.at = proc[p].at /\ s.todo = proc[p].todo
        /\ s.stale = proc[p].stale /\ s.corr = proc[p].corr /\ s.start = proc[p].start
    BY <2>2 DEF State
  <2>4. fifo' = [fifo EXCEPT ![p] = fifo[p]]
    BY <1>0, <2>1
  <2> HIDE DEF s
  <2> QED BY <1>own, <2>1, <2>2, <2>3, <2>4, OwnStep DEF Waiting
<1>14. ASSUME NEW p \in Asker, Wake(p) PROVE FifoInv' /\ WakeInv'
  <2> DEFINE g == [fifo[p] EXCEPT !.byte = FALSE]
  <2>1. /\ p \in Process /\ proc[p].at = "block" /\ Go(p, "query") /\ "query" \in Points
        /\ fifo' = [fifo EXCEPT ![p] = g] /\ UNCHANGED <<log, lost, raced>>
    BY <1>14, <1>in DEF Wake, At, Drained, Points
  <2>2. fifo[p] \in Pipe
    BY <1>0
  <2>3. g \in Pipe /\ g.reader = fifo[p].reader /\ g.path = fifo[p].path /\ g.linked = fifo[p].linked
    BY <2>2 DEF Pipe
  <2>s. PICK s \in State : /\ proc' = [proc EXCEPT ![p] = s]
                           /\ s.at = "query" /\ s.todo = proc[p].todo /\ s.stale = proc[p].stale
                           /\ s.corr = proc[p].corr /\ s.start = proc[p].start
    BY <1>go, <2>1
  <2> HIDE DEF g
  <2> QED BY <1>own, <2>1, <2>3, <2>s, OwnStep
<1>15. ASSUME NEW p \in Asker, Ceiling(p) PROVE FifoInv' /\ WakeInv'
  BY <1>15, <1>stay DEF Ceiling, At, Points
<1>16. ASSUME NEW p \in Process, KillProcess(p) PROVE FifoInv' /\ WakeInv'
  <2> DEFINE s == [Out EXCEPT !.result = "killed"]
  <2>1. /\ proc' = [proc EXCEPT ![p] = s] /\ UNCHANGED <<log, raced>>
        /\ fifo' = IF p \in Asker
                   THEN [fifo EXCEPT ![p] = [NoFifo EXCEPT !.path = fifo[p].path]] ELSE fifo
        /\ lost' = lost \union (IF proc[p].at = "list" THEN Asker ELSE proc[p].todo)
    BY <1>16 DEF KillProcess, At
  <2>2. s \in State
    BY <1>0, <1>typ, <2>1
  <2>3. s.at = "out" /\ s.todo = {} /\ s.stale = Nothing
    BY DEF Out
  <2>4. \A f \in Asker : f # p => fifo'[f] = fifo[f]
    BY <1>0, <2>1
  <2>5. p \in Asker => ~fifo'[p].reader
    BY <1>0, <2>1 DEF NoFifo
  <2>6. \A f \in Asker : proc'[f].at \in {"check", "block"} => f # p
    BY <1>0, <2>1, <2>3
  <2>7. \A f \in Asker : proc[p].at = "list" \/ f \in proc[p].todo => f \in lost'
    BY <2>1
  <2> HIDE DEF s
  <2>8. FifoInv'
    BY <1>0, <1>own, <2>1, <2>2, <2>3, <2>4, <2>5, FifoKept
  <2>9. WakeInv'
    BY <1>0, <2>1, <2>2, <2>3, <2>4, <2>6, <2>7, WakeKept DEF Owes, At, Excused
  <2> QED BY <2>8, <2>9
<1>17. ASSUME UNCHANGED rpcVars PROVE FifoInv' /\ WakeInv'
  BY <1>0, <1>17 DEF rpcVars, FifoInv, WakeInv, Waiting, Awaiting, Answers, Owes, At, Excused
<1> QED
  BY <1>2, <1>3, <1>4, <1>5, <1>6, <1>7, <1>8, <1>9, <1>10, <1>11, <1>12, <1>13, <1>14,
     <1>15, <1>16, <1>17 DEF RpcNext, Await

(* No lost wakeup, for any number of askers and writers: every message     *)
(* inserted after an asker has read the log is followed by a poke of the   *)
(* FIFO that asker has open, unless the process that should poke was       *)
(* killed, or a poke took the FIFO away while it was opened (cmd_reply,    *)
(* poke_waiters, _await_reply).                                            *)
THEOREM WakeupsAreKept == RpcSpec => []NoLostWakeup
<1>1. RpcInit => RpcInv
  BY RpcInvInit
<1>2. RpcInv /\ [RpcNext]_rpcVars => RpcInv'
  BY RpcInvStep, RpcTypeStep DEF RpcInv
<1>3. RpcInv => NoLostWakeup
  BY DEF RpcInv, WakeInv, NoLostWakeup, Waiting, Owes, At, Excused
<1> QED
  BY <1>1, <1>2, <1>3, PTL DEF RpcSpec
=============================================================================
