-------------------------------- MODULE Spawn --------------------------------
(***************************************************************************)
(* Spawned sessions: spawn, respawn, kill and the pruning of the registry, *)
(* for the first candidate name, on top of Identity.  tmux is external:    *)
(* new-session fails if the session exists, remain-on-exit keeps the dead  *)
(* pane, kill-session ends whatever runs in it.  The child is a session of *)
(* its own, which says hello under the name it was given.  All spawners    *)
(* have one parent and agent.                                              *)
(***************************************************************************)
EXTENDS Identity

CONSTANT Lead   \* bound on the spawn, respawn, kill and prune commands running at a time

VARIABLES
    pane,      \* tmux: what session cb-<name> holds, and for which child
    registry,  \* spawns: the row of the name, absent, fresh or past SPAWN_TTL
    lead,      \* the commands of leads under way, and the row each has read
    overtaken  \* history: why the running child may be missing in the registry

spawnVars == <<pane, registry, lead, overtaken>>

Wanted == 1
Gone   == [holds |-> "nothing", child |-> NoOne]
Ready  == [does |-> "nothing", at |-> "end", read |-> NoRow]

SpawnTypeOK ==
    /\ TypeOK
    /\ pane \in [holds: {"nothing", "running", "corpse"}, child: Key]
    /\ registry \in {"absent", "fresh", "old"}
    /\ lead \in [Lead -> [does: {"nothing", "spawn", "kill", "prune"},
                          at: {"reap", "check", "launch", "confirm", "register", "announce", "write",
                               "unregister", "look", "mark", "drop", "end"},
                          read: Rows]]
    /\ overtaken \in BOOLEAN

SpawnInit ==
    /\ Init /\ pane = Gone /\ registry = "absent"
    /\ lead = [p \in Lead |-> Ready] /\ overtaken = FALSE

-----------------------------------------------------------------------------
Go(p, at) == lead' = [lead EXCEPT ![p].at = at]
Finish(p) == lead' = [lead EXCEPT ![p] = Ready]
Running   == pane.holds = "running"

EndChild(holds) ==
    /\ pane' = IF holds = "nothing" THEN Gone ELSE [pane EXCEPT !.holds = holds]
    /\ proc' = IF Running THEN [proc EXCEPT ![pane.child].up = FALSE] ELSE proc

(* kill-session: the pane goes, and the child with it if it still ran.     *)
KillSession == EndChild("nothing") /\ overtaken' = FALSE

Same == UNCHANGED <<ident, endpoint, peer, cmd, joined>>

(* cmd_spawn, cmd_respawn, cmd_kill, prune begin.  respawn refuses a name  *)
(* without a row and one that lives.                                       *)
Spawn(p) ==
    /\ lead[p] = Ready /\ lead' = [lead EXCEPT ![p].does = "spawn", ![p].at = "check"]
    /\ Same /\ UNCHANGED <<proc, pane, registry, overtaken>>

Respawn(p) ==
    /\ lead[p] = Ready /\ registry # "absent" /\ ~Running
    /\ lead' = [lead EXCEPT ![p].does = "spawn", ![p].at = "reap"]
    /\ Same /\ UNCHANGED <<proc, pane, registry, overtaken>>

Reap(p) ==
    /\ lead[p].at = "reap" /\ KillSession /\ Go(p, "check")
    /\ Same /\ UNCHANGED registry

(* The name must be free, or that of a spawn of this parent whose session  *)
(* is dead.                                                                *)
Available ==
    /\ Holders(Wanted) # {} => /\ registry # "absent" /\ ~Running
                               /\ \E s \in Holders(Wanted) : OwnerDead(s)
    /\ endpoint[Wanted].state # "absent" => registry # "absent"

Check(p) ==
    /\ lead[p].at = "check"
    /\ IF Available THEN Go(p, "launch") ELSE Finish(p)
    /\ Same /\ UNCHANGED <<proc, pane, registry, overtaken>>

(* new-session starts a session that never ran before.                     *)
Launch(p) ==
    /\ lead[p].at = "launch"
    /\ IF pane.holds # "nothing" THEN Finish(p) /\ UNCHANGED <<proc, pane>>
       ELSE \E s \in Session :
              /\ proc[s].run = 0 /\ MaxRun > 0
              /\ proc' = [proc EXCEPT ![s] = [up |-> TRUE, run |-> 1, met |-> FALSE]]
              /\ pane' = [holds |-> "running", child |-> s]
              /\ Go(p, "confirm")
    /\ Same /\ UNCHANGED <<registry, overtaken>>

(* A child that died in its first second and a half is not registered.     *)
Confirm(p) ==
    /\ lead[p].at = "confirm"
    /\ IF Running THEN Go(p, "register") /\ UNCHANGED <<proc, pane, overtaken>>
       ELSE Finish(p) /\ KillSession
    /\ Same /\ UNCHANGED registry

Register(p) ==
    /\ lead[p].at = "register" /\ registry' = "fresh" /\ Go(p, "announce")
    /\ Same /\ UNCHANGED <<proc, pane, overtaken>>

(* A row the child has not written yet is written for it, without a key,   *)
(* in a second statement.                                                  *)
Announce(p) ==
    /\ lead[p].at = "announce"
    /\ IF endpoint[Wanted].state = "absent" THEN Go(p, "write") ELSE Finish(p)
    /\ Same /\ UNCHANGED <<proc, pane, registry, overtaken>>

Write(p) ==
    /\ lead[p].at = "write" /\ Finish(p) /\ Upsert(Wanted, NoOne, "started")
    /\ UNCHANGED <<ident, peer, cmd, joined, proc, pane, registry, overtaken>>

(* cmd_kill: the session, the row, and the endpoint's state.               *)
KillRowFirst(p) ==                                           \* seeded fault
    /\ lead[p] = Ready /\ registry # "absent" /\ registry' = "absent"
    /\ lead' = [lead EXCEPT ![p].does = "kill", ![p].at = "reap"]
    /\ Same /\ UNCHANGED <<proc, pane, overtaken>>

KillName(p) ==
    /\ lead[p] = Ready /\ (pane.holds # "nothing" \/ registry # "absent")
    /\ lead' = [lead EXCEPT ![p].does = "kill", ![p].at = "unregister"]
    /\ KillSession /\ Same /\ UNCHANGED registry

Unregister(p) ==
    /\ lead[p].at = "unregister" /\ registry' = "absent" /\ Go(p, "look")
    /\ overtaken' = (overtaken \/ Running)
    /\ Same /\ UNCHANGED <<proc, pane>>

LookUp(p) ==
    /\ lead[p].at = "look"
    /\ lead' = [lead EXCEPT ![p].at = "mark", ![p].read = Read(Wanted)]
    /\ Same /\ UNCHANGED <<proc, pane, registry, overtaken>>

MarkStopped(p) ==
    /\ lead[p].at = "mark" /\ Finish(p)
    /\ IF lead[p].read.state # "absent" THEN Upsert(Wanted, lead[p].read.key, "off")
       ELSE UNCHANGED endpoint
    /\ UNCHANGED <<ident, peer, cmd, joined, proc, pane, registry, overtaken>>

(* prune: old rows and live sessions are listed, then rows are dropped by  *)
(* name.                                                                   *)
PruneSpawns(p) ==
    /\ lead[p] = Ready /\ registry = "old" /\ ~Running
    /\ lead' = [lead EXCEPT ![p].does = "prune", ![p].at = "drop"]
    /\ Same /\ UNCHANGED <<proc, pane, registry, overtaken>>

Drop(p) ==
    /\ lead[p].at = "drop" /\ Finish(p) /\ registry' = "absent"
    /\ overtaken' = (overtaken \/ Running)
    /\ Same /\ UNCHANGED <<proc, pane>>

AgeRow ==
    /\ registry = "fresh" /\ registry' = "old"
    /\ Same /\ UNCHANGED <<proc, pane, lead, overtaken>>

(* A lead's command is killed; a child not registered by then stays so.    *)
Abandon(p) ==
    /\ lead[p] # Ready /\ Finish(p)
    /\ overtaken' = (overtaken \/ lead[p].at \in {"confirm", "register"})
    /\ Same /\ UNCHANGED <<proc, pane, registry>>

(* The child's process ends, or another session's.                         *)
ChildDies ==
    /\ Running /\ EndChild("corpse")
    /\ Same /\ UNCHANGED <<registry, lead, overtaken>>

SessionStep ==
    /\ \/ \E s \in Session : Begin(s) \/ (Die(s) /\ ~(Running /\ s = pane.child))
       \/ \E c \in Slot, s \in Session, does \in {"hello", "touch", "leave"} : Command(c, s, does)
       \/ \E c \in Slot : Step(c)
       \/ TabBeat
       \/ \E n \in Name : Age(n)
    /\ UNCHANGED spawnVars

LeadStep(p) ==
    \/ Spawn(p) \/ Respawn(p) \/ Reap(p) \/ Check(p) \/ Launch(p) \/ Confirm(p)
    \/ Register(p) \/ Announce(p) \/ Write(p)
    \/ KillName(p) \/ Unregister(p) \/ LookUp(p) \/ MarkStopped(p)
    \/ PruneSpawns(p) \/ Drop(p) \/ Abandon(p)

SpawnNext ==
    \/ SessionStep
    \/ \E p \in Lead : LeadStep(p)
    \/ AgeRow
    \/ ChildDies

SpawnSpec == SpawnInit /\ [][SpawnNext]_<<vars, spawnVars>>

-----------------------------------------------------------------------------
(* Once its spawn has registered it, a running child has a registry row at *)
(* every moment, so that sessions, tree, kill and respawn know of it;      *)
(* unless the spawn was killed before it registered the child, or a kill   *)
(* or a prune dropped the row of a child launched after it had looked.     *)
ChildIsRegistered ==
    Running /\ ~overtaken =>
        registry # "absent" \/ \E p \in Lead : lead[p].at \in {"confirm", "register"}

(* "The child owns endpoint state once it has started": nothing its        *)
(* parent writes afterwards puts the row of a session that said hello back *)
(* to started, whenever the child's hello falls.                           *)
ChildOwnsRow ==
    [][\A n \in Name : endpoint[n].key # NoOne => endpoint'[n].state # "started"]_endpoint
=============================================================================
