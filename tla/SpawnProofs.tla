----------------------------- MODULE SpawnProofs -----------------------------
(***************************************************************************)
(* Proofs about Spawn, and the Identity it is built on, for any sessions,  *)
(* candidates, commands under way and leads.                               *)
(***************************************************************************)
EXTENDS Spawn, WellFoundedInduction, TLAPS

(* No two sessions have one name.                                          *)
NamesUnique ==
    \A s, t \in Session : ident[s].name # Unnamed /\ ident[s].name = ident[t].name => s = t

(* A session that lives and has said hello has its process recorded, if    *)
(* the launcher finds it at all.                                           *)
OwnerRecorded ==
    \A s \in Session :
        /\ proc[s].up => proc[s].run # 0
        /\ s \notin Known => ident[s].owner = 0
        /\ Lives(s) /\ ident[s].name # Unnamed => ident[s].owner \in {0, proc[s].run}

(* A command of a process that still runs speaks under the name its        *)
(* session has.                                                            *)
Bound(k, procs, idents) ==
    /\ k.who \in Session /\ k.name \in Name /\ k.run <= procs[k.who].run
    /\ procs[k.who].up /\ procs[k.who].run = k.run =>
          procs[k.who].met /\ idents[k.who].name = k.name

CommandsBound == \A c \in Slot : cmd[c] # Idle => Bound(cmd[c], proc, ident)

(* A row that no session has said hello in has no key.                     *)
RowsKeyed == \A n \in Name : endpoint[n].state = "started" => endpoint[n].key = NoOne

Inv ==
    /\ SpawnTypeOK
    /\ NamesUnique /\ OwnerRecorded /\ CommandsBound /\ RowFollowsBinding /\ RowsKeyed
    /\ ChildIsRegistered

-----------------------------------------------------------------------------
(* The candidate.                                                          *)

LEMMA Least ==
    ASSUME NEW S \in SUBSET Nat, S # {} PROVE \E x \in S : \A y \in S : x <= y
<1> DEFINE R == OpToRel(<, Nat)
<1>1. IsWellFoundedOn(R, Nat)
  BY NatLessThanWellFounded
<1>2. ASSUME NEW x \in Nat, NEW y \in Nat, x < y PROVE <<x, y>> \in R
  BY <1>2 DEF OpToRel
<1> HIDE DEF R
<1>3. PICK x \in S : \A y \in S : ~ (<<y, x>> \in R)
  BY <1>1, WFMin
<1>4. ASSUME NEW y \in S PROVE x <= y
  <2>1. ~ (y < x)
    BY <1>2, <1>3
  <2> QED BY <2>1
<1> QED BY <1>4

(* If a candidate is free, _alloc_name gives out one that is.              *)
LEMMA CandidateFree ==
    ASSUME \E m \in Name : Free(m)
    PROVE  Candidate \in Name /\ Free(Candidate)
<1> DEFINE S == {m \in Name : Free(m)}
<1>1. S \in SUBSET Nat /\ S # {}
  BY DEF Name
<1> HIDE DEF S
<1>2. \E n \in S : \A m \in S : n <= m
  BY <1>1, Least
<1>3. \E n \in Name : Free(n) /\ \A m \in Name : Free(m) => n <= m
  BY <1>2 DEF S
<1> QED BY <1>3 DEF Candidate

LEMMA Constants ==
    /\ NoOne \notin Session /\ NoOne \in Key /\ MaxRun \in Nat /\ MaxName \in Nat
    /\ Wanted \in Name /\ Unnamed \notin Name /\ Unnamed \in 0..MaxName
    /\ \A s \in Session : s \in Key
    /\ \A n \in Name : n \in 0..MaxName
  BY IdentityAssumption DEF Key, Wanted, Name, Unnamed

-----------------------------------------------------------------------------
(* What a step does to the sessions.                                       *)

Starts(s) ==
    /\ ~proc[s].up /\ proc[s].run < MaxRun
    /\ proc' = [proc EXCEPT ![s] = [up |-> TRUE, run |-> @.run + 1, met |-> FALSE]]

Ends(s) == proc' = [proc EXCEPT ![s].up = FALSE]

ProcStep == Same /\ ((\E s \in Session : Starts(s)) \/ \E s : Ends(s))

RowStep ==
    /\ UNCHANGED <<ident, peer, cmd, joined, proc>>
    /\ \E key \in Key, state \in {"started", "off"} :
          Upsert(Wanted, key, state) /\ (state = "started" => key = NoOne)

Others == UNCHANGED <<proc, ident, endpoint, cmd, joined>> /\ peer' \in [Name -> BOOLEAN]

CommandStep == \E c \in Slot, s \in Session, does \in {"hello", "touch", "leave"} : Command(c, s, does)

StepStep == \E c \in Slot : Step(c)

spawned == <<vars, spawnVars>>

LEMMA LeadKinds ==
    ASSUME SpawnTypeOK, OwnerRecorded, NEW p \in Lead, LeadStep(p)
    PROVE  ProcStep \/ RowStep \/ Others
<1>0. peer \in [Name -> BOOLEAN] /\ lead[p].read \in Rows
      /\ proc \in [Session -> [up: BOOLEAN, run: 0..MaxRun, met: BOOLEAN]]
  BY DEF SpawnTypeOK, TypeOK
<1>1. CASE Same /\ KillSession
  BY <1>0, <1>1 DEF KillSession, EndChild, ProcStep, Ends, Others, Same
<1>2. CASE Same /\ UNCHANGED proc
  BY <1>0, <1>2 DEF Same, Others
<1>3. CASE Write(p)
  BY <1>3, Constants DEF Write, RowStep
<1>4. CASE MarkStopped(p)
  <2>1. CASE lead[p].read.state # "absent"
    <3>1. lead[p].read.key \in Key
      BY <1>0 DEF Rows
    <3> QED BY <1>4, <2>1, <3>1 DEF MarkStopped, RowStep
  <2>2. CASE lead[p].read.state = "absent"
    BY <1>0, <1>4, <2>2 DEF MarkStopped, Others
  <2> QED BY <2>1, <2>2
<1>5. CASE Launch(p)
  <2>1. CASE UNCHANGED proc
    BY <1>2, <1>5, <2>1 DEF Launch
  <2>2. ASSUME NEW s \in Session, proc[s].run = 0, MaxRun > 0,
               proc' = [proc EXCEPT ![s] = [up |-> TRUE, run |-> 1, met |-> FALSE]]
        PROVE  Starts(s)
    <3>1. ~proc[s].up /\ proc[s].run + 1 = 1
      BY <2>2 DEF OwnerRecorded
    <3> QED BY <2>2, <3>1 DEF Starts
  <2> QED BY <1>5, <2>1, <2>2 DEF Launch, ProcStep
<1>6. CASE Confirm(p)
  BY <1>1, <1>2, <1>6 DEF Confirm
<1> QED
  BY <1>1, <1>2, <1>3, <1>4, <1>5, <1>6
  DEF LeadStep, Spawn, Respawn, Reap, Check, Register, Announce, KillName, Unregister, LookUp,
      PruneSpawns, Drop, Abandon

LEMMA Kinds ==
    ASSUME SpawnTypeOK, OwnerRecorded, [SpawnNext]_spawned
    PROVE  ProcStep \/ RowStep \/ Others \/ CommandStep \/ StepStep
<1>0. peer \in [Name -> BOOLEAN]
  BY DEF SpawnTypeOK, TypeOK
<1>1. CASE UNCHANGED spawned
  BY <1>0, <1>1 DEF spawned, vars, Others
<1>2. CASE SessionStep
  <2>1. CASE \E s \in Session : Begin(s) \/ Die(s)
    BY <2>1 DEF Begin, Die, ProcStep, Starts, Ends, Same
  <2>2. CASE TabBeat \/ \E n \in Name : Age(n)
    BY <1>0, <2>2 DEF TabBeat, Age, Others
  <2> QED BY <1>2, <2>1, <2>2 DEF SessionStep, CommandStep, StepStep
<1>3. CASE \E p \in Lead : LeadStep(p)
  BY <1>3, LeadKinds
<1>4. CASE AgeRow
  BY <1>0, <1>4 DEF AgeRow, Same, Others
<1>5. CASE ChildDies
  BY <1>0, <1>5 DEF ChildDies, EndChild, ProcStep, Ends, Same
<1> QED BY <1>1, <1>2, <1>3, <1>4, <1>5 DEF SpawnNext

(* What a session's command allocates, or keeps.                           *)
LEMMA CommandCases ==
    ASSUME TypeOK, NEW c \in Slot, NEW s \in Session, NEW does \in {"hello", "touch", "leave"},
           Command(c, s, does)
    PROVE  \E n \in Name :
              /\ cmd[c] = Idle /\ proc[s].up /\ (does # "hello" => proc[s].met)
              /\ cmd' = [cmd EXCEPT ![c] = [does |-> does, at |-> FirstStep[does], who |-> s,
                                            run |-> proc[s].run, name |-> n, read |-> NoRow]]
              /\ proc' = [proc EXCEPT ![s].met = TRUE] /\ UNCHANGED <<endpoint, peer>>
              /\ \/ /\ ident[s].name = n /\ UNCHANGED joined
                    /\ \/ ident' = ident /\ does # "hello"
                       \/ ident' = [ident EXCEPT ![s].owner = IF Owner(s) = 0 THEN @ ELSE Owner(s)]
                 \/ /\ ident[s].name = Unnamed /\ Free(n)
                    /\ ident' = [t \in Session |->
                                   IF t = s THEN [name |-> n, owner |-> Owner(s)]
                                   ELSE IF ident[t].name = n THEN [name |-> Unnamed, owner |-> 0]
                                   ELSE ident[t]]
                    /\ joined' = [t \in Session |->
                                    IF t = s \/ ident[t].name = n THEN Unnamed ELSE joined[t]]
<1>1. PICK n \in Name :
          /\ IF does = "hello" THEN Alloc(s, n) ELSE Resolve(s, n)
          /\ cmd' = [cmd EXCEPT ![c] = [does |-> does, at |-> FirstStep[does], who |-> s,
                                        run |-> proc[s].run, name |-> n, read |-> NoRow]]
  BY DEF Command
<1>2. Alloc(s, n) \/ (does # "hello" /\ ident[s].name = n /\ UNCHANGED <<ident, joined>>)
  BY <1>1 DEF Resolve
<1>3. Alloc(s, n) => \/ /\ ident[s].name = n /\ UNCHANGED joined
                        /\ ident' = [ident EXCEPT ![s].owner = IF Owner(s) = 0 THEN @ ELSE Owner(s)]
                     \/ /\ ident[s].name = Unnamed /\ Free(n)
                        /\ ident' = [t \in Session |->
                                   IF t = s THEN [name |-> n, owner |-> Owner(s)]
                                   ELSE IF ident[t].name = n THEN [name |-> Unnamed, owner |-> 0]
                                   ELSE ident[t]]
                        /\ joined' = [t \in Session |->
                                    IF t = s \/ ident[t].name = n THEN Unnamed ELSE joined[t]]
  BY CandidateFree DEF Alloc
<1> QED BY <1>1, <1>2, <1>3 DEF Command

-----------------------------------------------------------------------------
(* Types.                                                                  *)

Procs  == [up: BOOLEAN, run: 0..MaxRun, met: BOOLEAN]
Idents == [name: 0..MaxName, owner: 0..MaxRun]

LEMMA TypeParts ==
    /\ TypeOK <=> /\ proc \in [Session -> Procs] /\ ident \in [Session -> Idents]
                  /\ endpoint \in [Name -> Rows] /\ peer \in [Name -> BOOLEAN]
                  /\ cmd \in [Slot -> Commands] /\ joined \in [Session -> 0..MaxName]
    /\ TypeOK' <=> /\ proc' \in [Session -> Procs] /\ ident' \in [Session -> Idents]
                   /\ endpoint' \in [Name -> Rows] /\ peer' \in [Name -> BOOLEAN]
                   /\ cmd' \in [Slot -> Commands] /\ joined' \in [Session -> 0..MaxName]
  BY DEF TypeOK, Procs, Idents

LEMMA RowTyped ==
    /\ NoRow \in Rows
    /\ endpoint \in [Name -> Rows] => \A n \in Name : Read(n) \in Rows
  BY Constants DEF NoRow, Rows, Read

LEMMA IdleTyped == Idle \in Commands
  BY RowTyped, Constants DEF Idle, Commands

LEMMA OwnerTyped ==
    ASSUME TypeOK, NEW s \in Session PROVE Owner(s) \in 0..MaxRun
<1>1. proc[s].run \in 0..MaxRun /\ 0 \in 0..MaxRun
  BY TypeParts, Constants DEF Procs
<1> QED BY <1>1 DEF Owner

LEMMA UpsertTyped ==
    ASSUME endpoint \in [Name -> Rows], NEW n \in Name, NEW key \in Key,
           NEW state \in {"started", "on", "off"}, Upsert(n, key, state)
    PROVE  endpoint' \in [Name -> Rows]
<1>1. Upserted(n, key, state) \in [Name -> Rows]
  BY RowTyped DEF Upserted, Rows
<1> QED BY <1>1 DEF Upsert

LEMMA ProcTyped ==
    ASSUME TypeOK, ProcStep PROVE TypeOK'
<1> USE TypeParts
<1>1. CASE \E s \in Session : Starts(s)
  <2>1. PICK s \in Session : Starts(s)
    BY <1>1
  <2>2. proc[s].run + 1 \in 0..MaxRun
    BY <2>1, Constants DEF Starts, Procs
  <2> QED BY <2>1, <2>2 DEF ProcStep, Same, Starts, Procs
<1>2. CASE \E s : Ends(s)
  BY <1>2 DEF ProcStep, Same, Ends, Procs
<1> QED BY <1>1, <1>2 DEF ProcStep

LEMMA CommandTyped ==
    ASSUME TypeOK, CommandStep PROVE TypeOK'
<1> USE TypeParts
<1>1. PICK c \in Slot, s \in Session, does \in {"hello", "touch", "leave"} : Command(c, s, does)
  BY DEF CommandStep
<1>2. PICK n \in Name :
              /\ cmd' = [cmd EXCEPT ![c] = [does |-> does, at |-> FirstStep[does], who |-> s,
                                            run |-> proc[s].run, name |-> n, read |-> NoRow]]
              /\ proc' = [proc EXCEPT ![s].met = TRUE] /\ UNCHANGED <<endpoint, peer>>
              /\ \/ /\ ident[s].name = n /\ UNCHANGED joined
                    /\ \/ ident' = ident
                       \/ ident' = [ident EXCEPT ![s].owner = IF Owner(s) = 0 THEN @ ELSE Owner(s)]
                 \/ /\ ident' = [t \in Session |->
                                   IF t = s THEN [name |-> n, owner |-> Owner(s)]
                                   ELSE IF ident[t].name = n THEN [name |-> Unnamed, owner |-> 0]
                                   ELSE ident[t]]
                    /\ joined' = [t \in Session |->
                                    IF t = s \/ ident[t].name = n THEN Unnamed ELSE joined[t]]
  BY <1>1, CommandCases
<1>3. FirstStep[does] \in {"beat", "depart"} /\ proc[s].run \in 0..MaxRun /\ n \in 0..MaxName
  BY Constants DEF FirstStep, Procs
<1>4. [does |-> does, at |-> FirstStep[does], who |-> s, run |-> proc[s].run, name |-> n,
       read |-> NoRow] \in Commands
  BY <1>3, Constants, RowTyped DEF Commands
<1>5. cmd' \in [Slot -> Commands]
  BY <1>2, <1>4
<1>6. proc' \in [Session -> Procs]
  BY <1>2 DEF Procs
<1>7. Owner(s) \in 0..MaxRun /\ 0 \in 0..MaxRun /\ Unnamed \in 0..MaxName
  BY OwnerTyped, Constants
<1>8. ident' \in [Session -> Idents] /\ joined' \in [Session -> 0..MaxName]
  <2>1. ASSUME ident' = [ident EXCEPT ![s].owner = IF Owner(s) = 0 THEN @ ELSE Owner(s)]
        PROVE  ident' \in [Session -> Idents]
    BY <1>7, <2>1 DEF Idents
  <2>2. ASSUME ident' = [t \in Session |->
                           IF t = s THEN [name |-> n, owner |-> Owner(s)]
                           ELSE IF ident[t].name = n THEN [name |-> Unnamed, owner |-> 0]
                           ELSE ident[t]]
        PROVE  ident' \in [Session -> Idents]
    <3>1. [name |-> n, owner |-> Owner(s)] \in Idents /\ [name |-> Unnamed, owner |-> 0] \in Idents
      BY <1>3, <1>7 DEF Idents
    <3> QED BY <2>2, <3>1
  <2>3. joined' \in [Session -> 0..MaxName]
    BY <1>2, <1>7
  <2> QED BY <1>2, <2>1, <2>2, <2>3
<1> QED BY <1>2, <1>5, <1>6, <1>8

(* A command writes the row of its own name.                               *)
LEMMA StepRow ==
    ASSUME TypeOK, CommandsBound, NEW c \in Slot, Step(c)
    PROVE  \/ UNCHANGED endpoint
           \/ \E key \in Key, state \in {"on", "off"} : Upsert(cmd[c].name, key, state)
<1>1. CASE Join(c)
  <2>1. cmd[c].who \in Key
    BY <1>1, TypeParts DEF Commands
  <2> QED BY <1>1, <2>1 DEF Join
<1>2. CASE Mark(c)
  <2>1. cmd[c].read.key \in Key /\ cmd[c].who \in Key
    BY TypeParts DEF Commands, Rows
  <2> QED BY <1>2, <2>1 DEF Mark
<1> QED BY <1>1, <1>2 DEF Step, Beat, Depart, Look, End

LEMMA Busy ==
    ASSUME NEW c \in Slot, Step(c) PROVE cmd[c] # Idle
  BY DEF Step, Beat, Join, Depart, Look, Mark, End, Idle

LEMMA StepTyped ==
    ASSUME TypeOK, CommandsBound, StepStep PROVE TypeOK'
<1> USE TypeParts
<1>1. PICK c \in Slot : Step(c)
  BY DEF StepStep
<1>2. cmd[c].name \in Name /\ cmd[c].who \in Session /\ cmd[c] \in Commands
  BY <1>1, Busy DEF CommandsBound, Bound
<1>3. cmd' \in [Slot -> Commands]
  <2>1. CASE cmd' = [cmd EXCEPT ![c] = Idle]
    BY <2>1, IdleTyped
  <2>2. ASSUME NEW at \in {"join", "look"}, cmd' = [cmd EXCEPT ![c].at = at] PROVE cmd' \in [Slot -> Commands]
    BY <2>2 DEF Commands
  <2>3. CASE cmd' = [cmd EXCEPT ![c].at = "mark", ![c].read = Read(cmd[c].name)]
    <3>1. Read(cmd[c].name) \in Rows
      BY <1>2, RowTyped
    <3> QED BY <2>3, <3>1 DEF Commands
  <2> QED BY <1>1, <2>1, <2>2, <2>3 DEF Step, Beat, Join, Depart, Look, Mark, End
<1>4. endpoint' \in [Name -> Rows]
  BY <1>1, <1>2, StepRow, UpsertTyped
<1>5. proc' = proc /\ ident' = ident
  BY <1>1 DEF Step, Beat, Join, Depart, Look, Mark, End
<1>6. peer' \in [Name -> BOOLEAN]
  BY <1>1 DEF Step, Beat, Join, Depart, Look, Mark, End
<1>7. joined' \in [Session -> 0..MaxName]
  BY <1>1, <1>2, Constants DEF Step, Beat, Join, Depart, Look, Mark, End
<1> QED BY <1>3, <1>4, <1>5, <1>6, <1>7

LEMMA TypeStep ==
    ASSUME TypeOK, CommandsBound, ProcStep \/ RowStep \/ Others \/ CommandStep \/ StepStep
    PROVE  TypeOK'
<1> USE TypeParts
<1>1. CASE RowStep
  BY <1>1, UpsertTyped, Constants DEF RowStep
<1>2. CASE Others
  BY <1>2 DEF Others
<1> QED BY <1>1, <1>2, ProcTyped, CommandTyped, StepTyped

(* What the leads and tmux keep.                                           *)
Ats   == {"reap", "check", "launch", "confirm", "register", "announce", "write", "unregister",
          "look", "mark", "drop", "end"}
Leads == [does: {"nothing", "spawn", "kill", "prune"}, at: Ats, read: Rows]
Panes == [holds: {"nothing", "running", "corpse"}, child: Key]

LEMMA SpawnParts ==
    /\ SpawnTypeOK <=> /\ TypeOK /\ pane \in Panes /\ registry \in {"absent", "fresh", "old"}
                       /\ lead \in [Lead -> Leads] /\ overtaken \in BOOLEAN
    /\ SpawnTypeOK' <=> /\ TypeOK' /\ pane' \in Panes /\ registry' \in {"absent", "fresh", "old"}
                        /\ lead' \in [Lead -> Leads] /\ overtaken' \in BOOLEAN
  BY DEF SpawnTypeOK, Panes, Leads, Ats

LEMMA LeadTyped ==
    ASSUME SpawnTypeOK, NEW p \in Lead, LeadStep(p)
    PROVE  /\ pane' \in Panes /\ registry' \in {"absent", "fresh", "old"}
           /\ lead' \in [Lead -> Leads] /\ overtaken' \in BOOLEAN
<1> USE SpawnParts
<1>1. Ready \in Leads /\ Gone \in Panes
  BY RowTyped, Constants DEF Ready, Leads, Ats, Gone, Panes
<1>2. lead' \in [Lead -> Leads]
  <2>1. CASE Finish(p) \/ lead' = lead
    BY <1>1, <2>1 DEF Finish
  <2>2. ASSUME NEW at \in Ats, Go(p, at) PROVE lead' \in [Lead -> Leads]
    BY <2>2 DEF Go, Leads
  <2>3. ASSUME NEW at \in Ats, NEW does \in {"spawn", "kill", "prune"},
               lead' = [lead EXCEPT ![p].does = does, ![p].at = at]
        PROVE  lead' \in [Lead -> Leads]
    BY <2>3 DEF Leads
  <2>4. CASE LookUp(p)
    <3>1. Read(Wanted) \in Rows
      BY RowTyped, TypeParts, Constants
    <3> QED BY <2>4, <3>1 DEF LookUp, Leads, Ats
  <2>5. \A at \in {"check", "launch", "confirm", "register", "announce", "write", "look"} :
           Go(p, at) => lead' \in [Lead -> Leads]
    BY <2>2 DEF Ats
  <2>6. ASSUME LeadStep(p), ~LookUp(p)
        PROVE  \/ Finish(p)
               \/ \E at \in {"check", "launch", "confirm", "register", "announce", "write", "look"} :
                     Go(p, at)
               \/ \E does \in {"spawn", "kill", "prune"},
                     at \in {"check", "reap", "unregister", "drop"} :
                     lead' = [lead EXCEPT ![p].does = does, ![p].at = at]
    BY <2>6
    DEF LeadStep, Spawn, Respawn, Reap, Check, Launch, Confirm, Register, Announce, Write, KillName,
        Unregister, MarkStopped, PruneSpawns, Drop, Abandon
  <2>7. \A at \in {"check", "reap", "unregister", "drop"} : at \in Ats
    BY DEF Ats
  <2> QED BY <2>1, <2>3, <2>4, <2>5, <2>6, <2>7
<1>3. pane' \in Panes
  <2>1. CASE KillSession
    BY <1>1, <2>1 DEF KillSession, EndChild
  <2>2. ASSUME NEW s \in Session, pane' = [holds |-> "running", child |-> s] PROVE pane' \in Panes
    BY <2>2, Constants DEF Panes
  <2> QED BY <2>1, <2>2
    DEF LeadStep, Spawn, Respawn, Reap, Check, Launch, Confirm, Register, Announce, Write, KillName,
        Unregister, LookUp, MarkStopped, PruneSpawns, Drop, Abandon
<1>4. registry' \in {"absent", "fresh", "old"}
  BY DEF LeadStep, Spawn, Respawn, Reap, Check, Launch, Confirm, Register, Announce, Write, KillName,
        Unregister, LookUp, MarkStopped, PruneSpawns, Drop, Abandon
<1>5. overtaken' \in BOOLEAN
  BY DEF LeadStep, Spawn, Respawn, Reap, Check, Launch, Confirm, Register, Announce, Write, KillName,
        Unregister, LookUp, MarkStopped, PruneSpawns, Drop, Abandon, KillSession, Running
<1> QED BY <1>2, <1>3, <1>4, <1>5

LEMMA SpawnTypeStep ==
    ASSUME SpawnTypeOK, OwnerRecorded, CommandsBound, [SpawnNext]_spawned
    PROVE  SpawnTypeOK'
<1> USE SpawnParts
<1>1. TypeOK'
  BY Kinds, TypeStep
<1>2. CASE UNCHANGED spawned \/ SessionStep
  BY <1>1, <1>2 DEF spawned, SessionStep, spawnVars
<1>3. CASE \E p \in Lead : LeadStep(p)
  BY <1>1, <1>3, LeadTyped
<1>4. CASE AgeRow \/ ChildDies
  BY <1>1, <1>4 DEF AgeRow, ChildDies, EndChild, Panes
<1> QED BY <1>2, <1>3, <1>4 DEF SpawnNext

-----------------------------------------------------------------------------
(* Names.                                                                  *)

(* The session that has a free name, if one has, is dead.                  *)
LEMMA FreeIsDead ==
    ASSUME NamesUnique, OwnerRecorded, NEW n \in Name, Free(n),
           NEW s \in Session, ident[s].name = n
    PROVE  ~Lives(s)
<1>1. PICK h \in Session : ident[h].name = n /\ OwnerDead(h)
  BY DEF Free, Holders
<1>2. h = s
  BY <1>1, Constants DEF NamesUnique
<1>3. Lives(s) => ident[s].owner \in {0, proc[s].run}
  BY Constants DEF OwnerRecorded
<1> QED BY <1>1, <1>2, <1>3 DEF OwnerDead, Lives

Kept == \A s \in Session : Lives(s) /\ ident[s].name # Unnamed => ident'[s].name = ident[s].name

LEMMA KeptStep ==
    ASSUME TypeOK, NamesUnique, OwnerRecorded,
           ProcStep \/ RowStep \/ Others \/ CommandStep \/ StepStep
    PROVE  Kept
<1>1. CASE ProcStep \/ RowStep \/ Others \/ StepStep
  BY <1>1 DEF ProcStep, Same, RowStep, Others, StepStep, Step, Beat, Join, Depart, Look, Mark, End, Kept
<1>2. CASE CommandStep
  <2>1. PICK c \in Slot, s \in Session, does \in {"hello", "touch", "leave"} : Command(c, s, does)
    BY <1>2 DEF CommandStep
  <2>2. PICK n \in Name :
           \/ ident' = ident
           \/ ident' = [ident EXCEPT ![s].owner = IF Owner(s) = 0 THEN @ ELSE Owner(s)]
           \/ /\ ident[s].name = Unnamed /\ Free(n)
              /\ ident' = [t \in Session |->
                                   IF t = s THEN [name |-> n, owner |-> Owner(s)]
                                   ELSE IF ident[t].name = n THEN [name |-> Unnamed, owner |-> 0]
                                   ELSE ident[t]]
    BY <2>1, CommandCases
  <2>3. CASE \/ ident' = ident
             \/ ident' = [ident EXCEPT ![s].owner = IF Owner(s) = 0 THEN @ ELSE Owner(s)]
    BY <2>3, TypeParts DEF Kept, Idents
  <2>4. CASE /\ ident[s].name = Unnamed /\ Free(n)
             /\ ident' = [t \in Session |->
                                   IF t = s THEN [name |-> n, owner |-> Owner(s)]
                                   ELSE IF ident[t].name = n THEN [name |-> Unnamed, owner |-> 0]
                                   ELSE ident[t]]
    <3>1. ASSUME NEW t \in Session, Lives(t), ident[t].name # Unnamed
          PROVE  ident'[t].name = ident[t].name
      <4>1. ident[t].name # n /\ t # s
        BY <2>4, <3>1, FreeIsDead
      <4> QED BY <2>4, <4>1
    <3> QED BY <3>1 DEF Kept
  <2> QED BY <2>2, <2>3, <2>4
<1> QED BY <1>1, <1>2

LEMMA NamesStep ==
    ASSUME TypeOK, NamesUnique, OwnerRecorded,
           ProcStep \/ RowStep \/ Others \/ CommandStep \/ StepStep
    PROVE  NamesUnique'
<1>1. CASE ProcStep \/ RowStep \/ Others \/ StepStep
  BY <1>1 DEF ProcStep, Same, RowStep, Others, StepStep, Step, Beat, Join, Depart, Look, Mark, End,
              NamesUnique
<1>2. CASE CommandStep
  <2>1. PICK c \in Slot, s \in Session, does \in {"hello", "touch", "leave"} : Command(c, s, does)
    BY <1>2 DEF CommandStep
  <2>2. PICK n \in Name :
           \/ ident' = ident
           \/ ident' = [ident EXCEPT ![s].owner = IF Owner(s) = 0 THEN @ ELSE Owner(s)]
           \/ ident' = [t \in Session |->
                                   IF t = s THEN [name |-> n, owner |-> Owner(s)]
                                   ELSE IF ident[t].name = n THEN [name |-> Unnamed, owner |-> 0]
                                   ELSE ident[t]]
    BY <2>1, CommandCases
  <2>3. CASE \/ ident' = ident
             \/ ident' = [ident EXCEPT ![s].owner = IF Owner(s) = 0 THEN @ ELSE Owner(s)]
    <3>1. \A t \in Session : ident'[t].name = ident[t].name
      BY <2>3, TypeParts DEF Idents
    <3> QED BY <3>1 DEF NamesUnique
  <2>4. CASE ident' = [t \in Session |->
                                   IF t = s THEN [name |-> n, owner |-> Owner(s)]
                                   ELSE IF ident[t].name = n THEN [name |-> Unnamed, owner |-> 0]
                                   ELSE ident[t]]
    <3>1. \A t \in Session :
             ident'[t].name = IF t = s THEN n ELSE IF ident[t].name = n THEN Unnamed ELSE ident[t].name
      BY <2>4
    <3> QED BY <3>1 DEF NamesUnique
  <2> QED BY <2>2, <2>3, <2>4
<1> QED BY <1>1, <1>2

LEMMA OwnerStep ==
    ASSUME TypeOK, OwnerRecorded, ProcStep \/ RowStep \/ Others \/ CommandStep \/ StepStep
    PROVE  OwnerRecorded'
<1> USE TypeParts
<1>1. CASE RowStep \/ Others \/ StepStep
  BY <1>1 DEF RowStep, Others, StepStep, Step, Beat, Join, Depart, Look, Mark, End,
              OwnerRecorded, Lives
<1>2. CASE ProcStep
  <2>1. ident' = ident
    BY <1>2 DEF ProcStep, Same
  <2>2. CASE \E s \in Session : Starts(s)
    <3>1. PICK s \in Session : Starts(s)
      BY <2>2
    <3>2. /\ proc'[s].up /\ proc'[s].run = proc[s].run + 1 /\ ~proc'[s].met
          /\ proc[s].run \in Nat /\ \A t \in Session : t # s => proc'[t] = proc[t]
      BY <3>1, Constants DEF Starts, Procs
    <3> QED BY <2>1, <3>2 DEF OwnerRecorded, Lives
  <2>3. CASE \E s : Ends(s)
    <3>1. \A t \in Session : /\ proc'[t].up => proc[t].up
                             /\ proc'[t].run = proc[t].run /\ proc'[t].met = proc[t].met
      BY <2>3 DEF Ends, Procs
    <3> QED BY <2>1, <3>1 DEF OwnerRecorded, Lives
  <2> QED BY <1>2, <2>2, <2>3 DEF ProcStep
<1>3. CASE CommandStep
  <2>1. PICK c \in Slot, s \in Session, does \in {"hello", "touch", "leave"} : Command(c, s, does)
    BY <1>3 DEF CommandStep
  <2>2. PICK n \in Name :
              /\ proc[s].up /\ (does # "hello" => proc[s].met)
              /\ proc' = [proc EXCEPT ![s].met = TRUE]
              /\ \/ /\ ident[s].name = n
                    /\ \/ ident' = ident /\ does # "hello"
                       \/ ident' = [ident EXCEPT ![s].owner = IF Owner(s) = 0 THEN @ ELSE Owner(s)]
                 \/ ident' = [t \in Session |->
                                   IF t = s THEN [name |-> n, owner |-> Owner(s)]
                                   ELSE IF ident[t].name = n THEN [name |-> Unnamed, owner |-> 0]
                                   ELSE ident[t]]
    BY <2>1, CommandCases
  <2>3. /\ proc'[s].up /\ proc'[s].met /\ proc'[s].run = proc[s].run
        /\ \A t \in Session : t # s => proc'[t] = proc[t]
    BY <2>2 DEF Procs
  <2>4. /\ proc[s].run # 0 /\ Owner(s) \in {0, proc[s].run} /\ (s \notin Known => Owner(s) = 0)
        /\ (Owner(s) = 0 => s \notin Known)
    BY <2>2 DEF OwnerRecorded, Owner
  <2>5. CASE ident' = ident /\ does # "hello"
    BY <2>2, <2>3, <2>5 DEF OwnerRecorded, Lives
  <2>6. CASE ident' = [ident EXCEPT ![s].owner = IF Owner(s) = 0 THEN @ ELSE Owner(s)]
    <3>1. /\ ident'[s].owner = IF Owner(s) = 0 THEN ident[s].owner ELSE Owner(s)
          /\ \A t \in Session : t # s => ident'[t] = ident[t]
      BY <2>6 DEF Idents
    <3>2. ident'[s].owner \in {0, proc[s].run} /\ (s \notin Known => ident'[s].owner = 0)
      BY <2>4, <3>1 DEF OwnerRecorded
    <3> QED BY <2>3, <2>4, <3>1, <3>2 DEF OwnerRecorded, Lives
  <2>7. CASE ident' = [t \in Session |->
                                   IF t = s THEN [name |-> n, owner |-> Owner(s)]
                                   ELSE IF ident[t].name = n THEN [name |-> Unnamed, owner |-> 0]
                                   ELSE ident[t]]
    <3>1. /\ ident'[s].owner = Owner(s)
          /\ \A t \in Session : t # s => \/ ident'[t] = ident[t]
                                         \/ ident'[t].name = Unnamed /\ ident'[t].owner = 0
      BY <2>7
    <3> QED BY <2>3, <2>4, <3>1 DEF OwnerRecorded, Lives
  <2> QED BY <2>2, <2>5, <2>6, <2>7
<1> QED BY <1>1, <1>2, <1>3

-----------------------------------------------------------------------------
(* Commands.                                                               *)

LEMMA ProcsGrow ==
    ASSUME TypeOK, ProcStep \/ RowStep \/ Others \/ CommandStep \/ StepStep, NEW s \in Session
    PROVE  /\ proc[s].run <= proc'[s].run /\ proc[s].run \in Nat /\ proc'[s].run \in Nat
           /\ proc'[s].run = proc[s].run /\ proc'[s].up =>
                 proc[s].up /\ (proc[s].met => proc'[s].met)
<1> USE TypeParts
<1>0. proc[s].run \in Nat
  BY Constants DEF Procs
<1>1. CASE ProcStep
  <2>1. CASE \E t \in Session : Starts(t)
    <3>1. PICK t \in Session : Starts(t)
      BY <2>1
    <3>2. CASE s = t
      <4>1. proc'[s].run = proc[s].run + 1
        BY <3>1, <3>2 DEF Starts
      <4> QED BY <1>0, <4>1
    <3>3. CASE s # t
      <4>1. proc'[s] = proc[s]
        BY <3>1, <3>3 DEF Starts
      <4> QED BY <1>0, <4>1
    <3> QED BY <3>2, <3>3
  <2>2. CASE \E t : Ends(t)
    <3>1. (proc'[s].up => proc[s].up) /\ proc'[s].run = proc[s].run /\ proc'[s].met = proc[s].met
      BY <2>2 DEF Ends, Procs
    <3> QED BY <1>0, <3>1
  <2> QED BY <1>1, <2>1, <2>2 DEF ProcStep
<1>2. CASE RowStep \/ Others \/ StepStep
  <2>1. proc' = proc
    BY <1>2 DEF RowStep, Others, StepStep, Step, Beat, Join, Depart, Look, Mark, End
  <2> QED BY <1>0, <2>1
<1>3. CASE CommandStep
  <2>1. PICK t \in Session : proc' = [proc EXCEPT ![t].met = TRUE]
    BY <1>3 DEF CommandStep, Command
  <2>2. proc'[s].up = proc[s].up /\ proc'[s].run = proc[s].run /\ (proc[s].met => proc'[s].met)
    BY <2>1 DEF Procs
  <2> QED BY <1>0, <2>2
<1> QED BY <1>1, <1>2, <1>3

LEMMA BoundKept ==
    ASSUME TypeOK, ProcStep \/ RowStep \/ Others \/ CommandStep \/ StepStep, Kept,
           NEW c \in Slot, Bound(cmd[c], proc, ident)
    PROVE  Bound(cmd[c], proc', ident')
<1> DEFINE k == cmd[c]
<1>1. k.who \in Session /\ k.name \in Name /\ k.run <= proc[k.who].run /\ k.run \in Nat
  BY TypeParts, Constants DEF Bound, Commands
<1>2. k.run <= proc'[k.who].run
  BY <1>1, ProcsGrow
<1>3. ASSUME proc'[k.who].up, proc'[k.who].run = k.run
      PROVE  proc'[k.who].met /\ ident'[k.who].name = k.name
  <2>1. proc'[k.who].run = proc[k.who].run
    BY <1>1, <1>3, ProcsGrow
  <2>2. proc[k.who].up /\ (proc[k.who].met => proc'[k.who].met)
    BY <1>1, <1>3, <2>1, ProcsGrow
  <2>3. proc[k.who].met /\ ident[k.who].name = k.name
    BY <1>3, <2>1, <2>2 DEF Bound
  <2>4. ident[k.who].name # Unnamed
    BY <1>1, <2>3, Constants
  <2> QED BY <1>1, <2>2, <2>3, <2>4 DEF Kept, Lives
<1> QED BY <1>1, <1>2, <1>3 DEF Bound

LEMMA BoundStep ==
    ASSUME TypeOK, CommandsBound, ProcStep \/ RowStep \/ Others \/ CommandStep \/ StepStep, Kept
    PROVE  CommandsBound'
<1> SUFFICES ASSUME NEW d \in Slot, cmd'[d] # Idle PROVE Bound(cmd'[d], proc', ident')
    BY DEF CommandsBound
<1> USE TypeParts
<1>1. CASE cmd'[d] = cmd[d]
  BY <1>1, BoundKept DEF CommandsBound
<1>2. CASE ProcStep \/ RowStep \/ Others
  BY <1>1, <1>2 DEF ProcStep, Same, RowStep, Others
<1>3. CASE StepStep
  <2>1. PICK c \in Slot : Step(c)
    BY <1>3 DEF StepStep
  <2>2. CASE d # c
    BY <1>1, <2>1, <2>2 DEF Step, Beat, Join, Depart, Look, Mark, End
  <2>3. CASE d = c
    <3>1. /\ cmd'[d].who = cmd[d].who /\ cmd'[d].run = cmd[d].run /\ cmd'[d].name = cmd[d].name
      BY <2>1, <2>3 DEF Step, Beat, Join, Depart, Look, Mark, End, Commands
    <3>2. Bound(cmd[d], proc', ident')
      BY <2>1, <2>3, Busy, BoundKept DEF CommandsBound
    <3> QED BY <3>1, <3>2 DEF Bound
  <2> QED BY <2>2, <2>3
<1>4. CASE CommandStep
  <2>1. PICK c \in Slot, s \in Session, does \in {"hello", "touch", "leave"} : Command(c, s, does)
    BY <1>4 DEF CommandStep
  <2>2. PICK n \in Name :
              /\ cmd' = [cmd EXCEPT ![c] = [does |-> does, at |-> FirstStep[does], who |-> s,
                                            run |-> proc[s].run, name |-> n, read |-> NoRow]]
              /\ proc' = [proc EXCEPT ![s].met = TRUE]
              /\ \/ /\ ident[s].name = n
                    /\ \/ ident' = ident
                       \/ ident' = [ident EXCEPT ![s].owner = IF Owner(s) = 0 THEN @ ELSE Owner(s)]
                 \/ ident' = [t \in Session |->
                                   IF t = s THEN [name |-> n, owner |-> Owner(s)]
                                   ELSE IF ident[t].name = n THEN [name |-> Unnamed, owner |-> 0]
                                   ELSE ident[t]]
    BY <2>1, CommandCases
  <2>3. CASE d # c
    BY <1>1, <2>2, <2>3
  <2>4. CASE d = c
    <3>1. cmd'[d].who = s /\ cmd'[d].run = proc[s].run /\ cmd'[d].name = n
      BY <2>2, <2>4
    <3>2. proc'[s].met /\ proc'[s].run = proc[s].run /\ proc[s].run <= proc[s].run
      BY <2>2, Constants DEF Procs
    <3>3. ident'[s].name = n
      BY <2>2 DEF Idents
    <3> QED BY <3>1, <3>2, <3>3 DEF Bound
  <2> QED BY <2>3, <2>4
<1> QED BY <1>2, <1>3, <1>4

-----------------------------------------------------------------------------
(* Rows.                                                                   *)

(* A write of any row leaves a session the row of the name it joined: a    *)
(* key that differs from the row's, or that another row has, must be that  *)
(* of the session the name is bound to.                                    *)
LEMMA UpsertFollows ==
    ASSUME TypeOK, NamesUnique, RowFollowsBinding, NEW n \in Name, NEW key \in Key, NEW state,
           Upsert(n, key, state), NEW s \in Session, joined[s] # Unnamed
    PROVE  endpoint'[joined[s]].key = s
<1> USE TypeParts
<1>1. /\ joined[s] \in Name /\ ident[s].name = joined[s] /\ endpoint[joined[s]].key = s /\ s # NoOne
      /\ key # NoOne => key \in Session
  BY Constants DEF RowFollowsBinding, Name, Unnamed, Key
<1>2. CASE ~Accepts(n, key)
  BY <1>1, <1>2 DEF Upsert
<1>3. CASE Accepts(n, key)
  <2>1. endpoint' = Upserted(n, key, state)
    BY <1>3 DEF Upsert
  <2>2. CASE joined[s] = n
    <3>1. endpoint'[n].key = IF key = NoOne THEN s ELSE key
      BY <1>1, <2>1, <2>2 DEF Upserted
    <3>2. ASSUME key # NoOne, key # s PROVE FALSE
      <4>1. Authorized(n, key)
        BY <1>1, <1>3, <2>2, <3>2 DEF Accepts, Takeover
      <4> QED BY <1>1, <2>2, <3>2, <4>1 DEF Authorized, NamesUnique
    <3> QED BY <2>2, <3>1, <3>2
  <2>3. CASE joined[s] # n
    <3>1. ASSUME joined[s] \in Elsewhere(key) PROVE FALSE
      <4>1. key = s /\ Authorized(n, key)
        BY <1>1, <1>3, <2>3, <3>1 DEF Elsewhere, Accepts
      <4> QED BY <1>1, <2>3, <4>1 DEF Authorized
    <3>2. endpoint'[joined[s]] = endpoint[joined[s]]
      BY <1>1, <2>1, <2>3, <3>1 DEF Upserted
    <3> QED BY <1>1, <3>2
  <2> QED BY <2>2, <2>3
<1> QED BY <1>2, <1>3

LEMMA FollowsStep ==
    ASSUME TypeOK, TypeOK', NamesUnique, CommandsBound, RowFollowsBinding,
           ProcStep \/ RowStep \/ Others \/ CommandStep \/ StepStep
    PROVE  RowFollowsBinding'
<1> USE TypeParts
<1> SUFFICES ASSUME NEW s \in Session, joined'[s] # Unnamed
             PROVE  ident'[s].name = joined'[s] /\ endpoint'[joined'[s]].key = s
    BY DEF RowFollowsBinding
<1>1. CASE ProcStep \/ Others
  BY <1>1 DEF ProcStep, Same, Others, RowFollowsBinding
<1>2. CASE RowStep
  <2>1. ident' = ident /\ joined' = joined
    BY <1>2 DEF RowStep
  <2> QED BY <1>2, <2>1, UpsertFollows, Constants DEF RowStep, RowFollowsBinding
<1>3. CASE CommandStep
  <2>1. PICK c \in Slot, t \in Session, does \in {"hello", "touch", "leave"} : Command(c, t, does)
    BY <1>3 DEF CommandStep
  <2>2. PICK n \in Name :
              /\ endpoint' = endpoint
              /\ \/ /\ joined' = joined
                    /\ \/ ident' = ident
                       \/ ident' = [ident EXCEPT ![t].owner = IF Owner(t) = 0 THEN @ ELSE Owner(t)]
                 \/ /\ ident' = [u \in Session |->
                                   IF u = t THEN [name |-> n, owner |-> Owner(t)]
                                   ELSE IF ident[u].name = n THEN [name |-> Unnamed, owner |-> 0]
                                   ELSE ident[u]]
                    /\ joined' = [u \in Session |->
                                    IF u = t \/ ident[u].name = n THEN Unnamed ELSE joined[u]]
    BY <2>1, CommandCases
  <2>3. joined'[s] = joined[s] /\ ident'[s].name = ident[s].name
    BY <2>2 DEF Idents
  <2> QED BY <2>2, <2>3 DEF RowFollowsBinding
<1>4. CASE StepStep
  <2>1. PICK c \in Slot : Step(c)
    BY <1>4 DEF StepStep
  <2>2. cmd[c].name \in Name /\ cmd[c].who \in Session /\ ident' = ident
    <3>1. ident' = ident
      BY <2>1 DEF Step, Beat, Join, Depart, Look, Mark, End
    <3> QED BY <2>1, <3>1, Busy DEF CommandsBound, Bound
  <2>3. ASSUME joined[s] # Unnamed PROVE endpoint'[joined[s]].key = s /\ ident[s].name = joined[s]
    BY <2>1, <2>2, <2>3, StepRow, UpsertFollows DEF RowFollowsBinding
  <2>4. CASE joined'[s] = joined[s]
    BY <2>2, <2>3, <2>4
  <2>5. CASE joined'[s] # joined[s]
    <3>1. /\ Upsert(cmd[c].name, cmd[c].who, "on") /\ Authorized(cmd[c].name, cmd[c].who)
          /\ joined' = [joined EXCEPT ![cmd[c].who] = cmd[c].name]
      BY <2>1, <2>5 DEF Step, Beat, Join, Depart, Look, Mark, End
    <3>2. s = cmd[c].who /\ joined'[s] = cmd[c].name /\ ident[s].name = cmd[c].name
      BY <2>2, <2>5, <3>1 DEF Authorized
    <3>3. endpoint' = Upserted(cmd[c].name, s, "on")
      BY <3>1, <3>2 DEF Upsert, Accepts
    <3>4. endpoint'[cmd[c].name].key = s
      BY <2>2, <3>2, <3>3, Constants DEF Upserted
    <3> QED BY <2>2, <3>2, <3>4
  <2> QED BY <2>4, <2>5
<1> QED BY <1>1, <1>2, <1>3, <1>4

(* Only a row without a key is written as started.                         *)
LEMMA KeyedStep ==
    ASSUME TypeOK, CommandsBound, RowsKeyed,
           ProcStep \/ RowStep \/ Others \/ CommandStep \/ StepStep
    PROVE  /\ RowsKeyed'
           /\ \A n \in Name : endpoint[n].key # NoOne => endpoint'[n].state # "started"
<1> USE TypeParts
<1>1. CASE UNCHANGED endpoint
  BY <1>1 DEF RowsKeyed
<1>2. ASSUME NEW m \in Name, NEW key \in Key, NEW state \in {"started", "on", "off"},
             Upsert(m, key, state), state = "started" => key = NoOne
      PROVE  /\ RowsKeyed'
             /\ \A n \in Name : endpoint[n].key # NoOne => endpoint'[n].state # "started"
  <2>1. CASE ~Accepts(m, key)
    BY <1>1, <1>2, <2>1 DEF Upsert
  <2>2. CASE Accepts(m, key)
    <3>1. endpoint' = Upserted(m, key, state)
      BY <1>2, <2>2 DEF Upsert
    <3>2. ASSUME NEW n \in Name, endpoint'[n].state = "started"
          PROVE  endpoint[n].key = NoOne /\ endpoint'[n].key = NoOne
      <4>1. CASE n = m
        <5>1. state = "started" /\ key = NoOne /\ endpoint'[n].key = endpoint[n].key
          BY <1>2, <3>1, <3>2, <4>1 DEF Upserted
        <5>2. ~Takeover(n, key)
          BY <2>2, <4>1, <5>1 DEF Accepts, Authorized
        <5> QED BY <5>1, <5>2 DEF Takeover
      <4>2. CASE n # m
        <5>1. endpoint'[n] = endpoint[n]
          BY <3>1, <3>2, <4>2 DEF Upserted, NoRow
        <5> QED BY <3>2, <5>1 DEF RowsKeyed
      <4> QED BY <4>1, <4>2
    <3> QED BY <3>2 DEF RowsKeyed
  <2> QED BY <2>1, <2>2
<1>3. CASE StepStep
  <2>1. PICK c \in Slot : Step(c)
    BY <1>3 DEF StepStep
  <2>2. cmd[c].name \in Name
    BY <2>1, Busy DEF CommandsBound, Bound
  <2>3. CASE \E key \in Key, state \in {"on", "off"} : Upsert(cmd[c].name, key, state)
    BY <1>2, <2>2, <2>3
  <2> QED BY <1>1, <2>1, <2>3, StepRow
<1>4. CASE RowStep
  BY <1>2, <1>4, Constants DEF RowStep
<1>5. CASE ProcStep \/ Others \/ CommandStep
  BY <1>1, <1>5 DEF ProcStep, Same, Others, CommandStep, Command
<1> QED BY <1>3, <1>4, <1>5

-----------------------------------------------------------------------------
(* The registry.                                                           *)

Pledged == registry # "absent" \/ \E p \in Lead : lead[p].at \in {"confirm", "register"}

LEMMA RegisteredStep ==
    ASSUME SpawnTypeOK, ChildIsRegistered, [SpawnNext]_spawned
    PROVE  ChildIsRegistered'
<1> USE SpawnParts
<1> SUFFICES ASSUME Running', ~overtaken' PROVE Pledged'
    BY DEF ChildIsRegistered, Pledged
<1>1. CASE UNCHANGED spawned \/ SessionStep
  <2>1. UNCHANGED <<pane, registry, lead, overtaken>>
    BY <1>1 DEF spawned, spawnVars, SessionStep
  <2> QED BY <2>1 DEF ChildIsRegistered, Pledged, Running
<1>2. CASE AgeRow \/ ChildDies
  BY <1>2 DEF AgeRow, ChildDies, EndChild, ChildIsRegistered, Pledged, Running, Panes
<1>3. ASSUME NEW p \in Lead, LeadStep(p) PROVE Pledged'
  <2>1. CASE Launch(p)
    <3>1. CASE Finish(p) /\ UNCHANGED pane
      <4>1. lead[p].at = "launch" /\ UNCHANGED <<registry, overtaken>> /\ Running
        BY <2>1, <3>1 DEF Launch, Running
      <4>2. \A q \in Lead : q # p => lead'[q] = lead[q]
        BY <3>1 DEF Finish
      <4> QED BY <4>1, <4>2 DEF ChildIsRegistered, Pledged
    <3>2. CASE Go(p, "confirm")
      <4>1. lead'[p].at = "confirm"
        BY <3>2 DEF Go, Leads
      <4> QED BY <4>1 DEF Pledged
    <3> QED BY <2>1, <3>1, <3>2 DEF Launch
  <2>2. CASE Confirm(p)
    <3>1. Go(p, "register")
      BY <2>2 DEF Confirm, KillSession, EndChild, Gone, Running
    <3>2. lead'[p].at = "register"
      BY <3>1 DEF Go, Leads
    <3> QED BY <3>2 DEF Pledged
  <2>3. CASE Register(p)
    BY <2>3 DEF Register, Pledged
  <2>4. CASE Reap(p) \/ KillName(p)
    BY <2>4 DEF Reap, KillName, KillSession, EndChild, Gone, Running
  <2>5. CASE Unregister(p) \/ Drop(p)
    BY <2>5 DEF Unregister, Drop, Running
  <2>6. CASE Abandon(p)
    <3>1. Running /\ ~overtaken /\ lead[p].at \notin {"confirm", "register"} /\ registry' = registry
      BY <2>6 DEF Abandon, Running
    <3>2. \A q \in Lead : q # p => lead'[q] = lead[q]
      BY <2>6 DEF Abandon, Finish
    <3> QED BY <3>1, <3>2 DEF ChildIsRegistered, Pledged
  <2>7. CASE \/ Spawn(p) \/ Respawn(p) \/ Check(p) \/ Announce(p) \/ Write(p) \/ LookUp(p)
             \/ MarkStopped(p) \/ PruneSpawns(p)
    <3>1. UNCHANGED <<pane, registry, overtaken>> /\ lead[p].at \notin {"confirm", "register"}
      BY <2>7 DEF Spawn, Respawn, Check, Announce, Write, LookUp, MarkStopped, PruneSpawns, Ready
    <3>2. \A q \in Lead : q # p => lead'[q] = lead[q]
      BY <2>7 DEF Spawn, Respawn, Check, Announce, Write, LookUp, MarkStopped, PruneSpawns,
                  Go, Finish
    <3> QED BY <3>1, <3>2 DEF ChildIsRegistered, Pledged, Running
  <2> QED BY <1>3, <2>1, <2>2, <2>3, <2>4, <2>5, <2>6, <2>7 DEF LeadStep
<1> QED BY <1>1, <1>2, <1>3 DEF SpawnNext

-----------------------------------------------------------------------------
(* All of it.                                                              *)

LEMMA InvInit == SpawnInit => Inv
<1> SUFFICES ASSUME SpawnInit PROVE Inv
    OBVIOUS
<1> USE DEF SpawnInit, Init
<1>1. TypeOK
  BY RowTyped, IdleTyped, Constants, TypeParts DEF Procs, Idents
<1>2. Ready \in Leads /\ Gone \in Panes
  BY RowTyped, Constants DEF Ready, Leads, Ats, Gone, Panes
<1>3. SpawnTypeOK
  BY <1>1, <1>2, SpawnParts
<1>4. NamesUnique /\ OwnerRecorded /\ CommandsBound /\ RowFollowsBinding
  BY DEF NamesUnique, OwnerRecorded, CommandsBound, RowFollowsBinding, Lives
<1>5. RowsKeyed /\ ChildIsRegistered
  BY DEF RowsKeyed, NoRow, ChildIsRegistered, Running, Gone
<1> QED BY <1>3, <1>4, <1>5 DEF Inv

LEMMA InvStep == Inv /\ [SpawnNext]_spawned => Inv'
<1> SUFFICES ASSUME Inv, [SpawnNext]_spawned PROVE Inv'
    OBVIOUS
<1>1. /\ SpawnTypeOK /\ NamesUnique /\ OwnerRecorded /\ CommandsBound /\ RowFollowsBinding
      /\ RowsKeyed /\ ChildIsRegistered /\ TypeOK
  BY DEF Inv, SpawnTypeOK
<1>2. ProcStep \/ RowStep \/ Others \/ CommandStep \/ StepStep
  BY <1>1, Kinds
<1>3. SpawnTypeOK' /\ TypeOK'
  BY <1>1, SpawnTypeStep DEF SpawnTypeOK
<1>4. NamesUnique' /\ OwnerRecorded' /\ RowsKeyed'
  BY <1>1, <1>2, NamesStep, OwnerStep, KeyedStep
<1>5. CommandsBound'
  BY <1>1, <1>2, KeptStep, BoundStep
<1>6. RowFollowsBinding'
  BY <1>1, <1>2, <1>3, FollowsStep
<1>7. ChildIsRegistered'
  BY <1>1, RegisteredStep
<1> QED BY <1>3, <1>4, <1>5, <1>6, <1>7 DEF Inv

(* The inductive invariant holds in every reachable state of names, rows   *)
(* and children.                                                           *)
THEOREM Invariant == SpawnSpec => []Inv
  BY InvInit, InvStep, PTL DEF SpawnSpec, spawned

(* Every variable keeps its type: among others, a session never has a name *)
(* that is no candidate, nor a row a key that is no session's.             *)
THEOREM TypeCorrect == SpawnSpec => []SpawnTypeOK
<1>1. Inv => SpawnTypeOK
  BY DEF Inv
<1> QED BY <1>1, Invariant, PTL

(* Commands of two living sessions never speak under one name              *)
(* (_alloc_name).                                                          *)
THEOREM OneVoicePerName == SpawnSpec => []OneVoice
<1>1. Inv => OneVoice
  <2> SUFFICES ASSUME Inv, NEW c \in Slot, NEW d \in Slot, Speaking(c), Speaking(d),
                      cmd[c].name = cmd[d].name
               PROVE  cmd[c].who = cmd[d].who
      BY DEF OneVoice
  <2>1. /\ cmd[c].who \in Session /\ cmd[d].who \in Session /\ cmd[c].name \in Name
        /\ ident[cmd[c].who].name = cmd[c].name /\ ident[cmd[d].who].name = cmd[d].name
    BY DEF Inv, CommandsBound, Bound, Speaking
  <2> QED BY <2>1, Constants DEF Inv, NamesUnique
<1> QED BY <1>1, Invariant, PTL

(* From the end of its hello on, the row of a session's name carries its   *)
(* key (upsert_endpoint).                                                  *)
THEOREM RowsFollowBindings == SpawnSpec => []RowFollowsBinding
<1>1. Inv => RowFollowsBinding
  BY DEF Inv
<1> QED BY <1>1, Invariant, PTL

(* A child that runs is in the registry once its spawn has put it there    *)
(* (cmd_spawn, cmd_kill, prune).                                           *)
THEOREM ChildrenAreRegistered == SpawnSpec => []ChildIsRegistered
<1>1. Inv => ChildIsRegistered
  BY DEF Inv
<1> QED BY <1>1, Invariant, PTL

(* No session that lives loses its name, spawned or not (_alloc_name).     *)
THEOREM NamesAreKept == SpawnSpec => NameKept
<1>1. Inv /\ [SpawnNext]_spawned =>
         [\A s \in Session :
             Lives(s) /\ ident[s].name # Unnamed => ident'[s].name = ident[s].name]_vars
  BY Kinds, KeptStep DEF Inv, SpawnTypeOK, Kept
<1> QED BY <1>1, Invariant, PTL DEF SpawnSpec, NameKept, spawned

(* What a parent writes never takes the row back from a child that has     *)
(* said hello (upsert_endpoint without a key).                             *)
THEOREM ChildrenOwnRows == SpawnSpec => ChildOwnsRow
<1>1. Inv /\ [SpawnNext]_spawned =>
         [\A n \in Name : endpoint[n].key # NoOne => endpoint'[n].state # "started"]_endpoint
  BY Kinds, KeyedStep DEF Inv, SpawnTypeOK
<1> QED BY <1>1, Invariant, PTL DEF SpawnSpec, ChildOwnsRow, spawned
=============================================================================
