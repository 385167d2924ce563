------------------------------- MODULE MCSpawn -------------------------------
(* An instance of Spawn for TLC, in two families of behaviours: sessions   *)
(* that are resumed, without spawns, and spawns of sessions that are not.  *)
EXTENDS Spawn, FiniteSets, TLC

VARIABLE family

SessionSymmetry == Permutations(Slot) \union Permutations(Lead)
                   \union Permutations(Known) \union Permutations(Session \ Known)

(* The bounds of the first family: only the heartbeat of the first name    *)
(* ages.  Of the second: none does, no session runs twice, two commands    *)
(* run at a time and those of sessions are hellos.                         *)
Fresh(n) == peer[n] => peer'[n]
Busy     == {c \in Slot : cmd[c] # Idle} \union {p \in Lead : lead[p] # Ready}
Bounded  == /\ \A s \in Session : proc[s].run <= 1
            /\ Cardinality(Busy) <= 2
            /\ \A c \in Slot : cmd[c].does \in {"nothing", "hello"}

MCInit == SpawnInit /\ family \in {"resumes", "spawns"}
MCNext ==
    /\ SpawnNext /\ UNCHANGED family
    /\ \A n \in Name : n # 1 \/ family = "spawns" => Fresh(n)
    /\ IF family = "resumes" THEN UNCHANGED spawnVars ELSE Bounded'

MCSpec == MCInit /\ [][MCNext]_<<vars, spawnVars, family>>
=============================================================================
