---------------------------- MODULE InstallHooks ----------------------------
(***************************************************************************)
(* install_codex_hooks.py beside the installer of the bundle: it adds the  *)
(* bridge's command to the events of hooks.json that lack it and records   *)
(* which it added in a state file of its own, so that an uninstall takes   *)
(* away those and no others.  One such process runs at a time; it may be   *)
(* killed between its two writes.  A user edits hooks.json while none      *)
(* runs.                                                                   *)
(***************************************************************************)
EXTENDS InstallBus

CONSTANTS
    Bridge,          \* the bundle's codex_hook.py
    Event            \* lifecycle events of Codex

ASSUME HooksAssumption == Bridge \in Files /\ \A es \in SUBSET Event : es # Missing

VARIABLES
    hooks,       \* hooks.json: who put the bridge's command at an event
    state,       \* the state file: the events recorded as added, or Missing
    hooker,      \* the process: its step and hooks.json as it read it
    orphans,     \* history: added by an install that was killed before it recorded them
    withdrawn    \* history: the bridge is missing because an installer took it away

hooksVars == <<hooks, state, hooker, orphans, withdrawn>>
vars      == <<installVars, hooksVars>>

Who     == {"none", "user", "installer"}
Idle    == [at |-> "end", doc |-> [e \in Event |-> "none"]]
Owned   == IF state = Missing THEN {} ELSE state
Present(h) == {e \in Event : h[e] # "none"}

Init ==
    /\ InstallInit
    /\ hooks = [e \in Event |-> "none"] /\ state = Missing
    /\ hooker = Idle /\ orphans = {} /\ withdrawn = FALSE

(* The user adds the command to an event, or removes it.                   *)
UserEdit(e) ==
    /\ hooker = Idle
    /\ hooks' = [hooks EXCEPT ![e] = IF @ = "none" THEN "user" ELSE "none"]
    /\ orphans' = orphans \ {e}
    /\ UNCHANGED <<installVars, state, hooker, withdrawn>>

(* main: the bridge must be a readable file that compiles.                 *)
BridgeAny == TRUE                                            \* seeded fault
BridgeFound == target[Bridge] # Missing

Install ==
    /\ hooker = Idle /\ BridgeFound
    /\ hooker' = [hooker EXCEPT !.at = "load"]
    /\ UNCHANGED <<installVars, hooks, state, orphans, withdrawn>>

(* install_document, then write_atomic: nothing is written when nothing    *)
(* changes.                                                                *)
Added(doc) == [e \in Event |-> IF doc[e] = "none" THEN "installer" ELSE doc[e]]

WriteHooks ==
    /\ hooker.at = "load"
    /\ IF Present(hooks) = Event THEN hooker' = Idle /\ UNCHANGED <<hooks, orphans>>
       ELSE /\ hooks' = Added(hooks)
            /\ hooker' = [at |-> "record", doc |-> hooks]
            /\ orphans' = orphans \union (Event \ Present(hooks))
    /\ UNCHANGED <<installVars, state, withdrawn>>

RecordedOnly == Event \ Present(hooker.doc)                  \* seeded fault
Recorded     == Owned \union (Event \ Present(hooker.doc))

WriteState ==
    /\ hooker.at = "record" /\ state' = Recorded /\ hooker' = Idle
    /\ orphans' = orphans \ (Event \ Present(hooker.doc))
    /\ UNCHANGED <<installVars, hooks, withdrawn>>

(* --uninstall: the recorded events, then the record itself.               *)
Removed == [e \in Event |-> IF e \in Owned THEN "none" ELSE hooks[e]]

Uninstall ==
    /\ hooker = Idle /\ hooks' = Removed
    /\ hooker' = [hooker EXCEPT !.at = "unlink"]
    /\ orphans' = orphans \ Owned
    /\ UNCHANGED <<installVars, state, withdrawn>>

Unlink ==
    /\ hooker.at = "unlink" /\ state' = Missing /\ hooker' = Idle
    /\ UNCHANGED <<installVars, hooks, orphans, withdrawn>>

KillHooker ==
    /\ hooker # Idle /\ hooker' = Idle
    /\ UNCHANGED <<installVars, hooks, state, orphans, withdrawn>>

Hooker ==
    \/ Install \/ WriteHooks \/ WriteState \/ Uninstall \/ Unlink \/ KillHooker
    \/ \E e \in Event : UserEdit(e)

Bundler ==
    /\ InstallNext
    /\ withdrawn' = (target'[Bridge] = Missing /\ (withdrawn \/ target[Bridge] # Missing))
    /\ UNCHANGED <<hooks, state, hooker, orphans>>

Next == Bundler \/ Hooker

Spec == Init /\ [][Next]_vars
-----------------------------------------------------------------------------
(* The values the variables take.                                          *)
TypeOK ==
    /\ InstallTypeOK
    /\ hooks \in [Event -> Who] /\ state \in (SUBSET Event) \union {Missing}
    /\ hooker \in [at: {"end", "load", "record", "unlink"}, doc: [Event -> Who]]
    /\ orphans \subseteq Event /\ withdrawn \in BOOLEAN

(* What the installer added to hooks.json can be taken away again: between *)
(* its processes every such event is recorded, however often users edit,   *)
(* install and uninstall, unless a process was killed between its writes.  *)
Reversible ==
    hooker = Idle => \A e \in Event : hooks[e] = "installer" => e \in Owned \union orphans

(* Codex is never pointed at a bridge that is not there, unless an undone  *)
(* or rolled back bundle took it away.                                     *)
BridgeThere ==
    (\E e \in Event : hooks[e] = "installer") => target[Bridge] # Missing \/ withdrawn
=============================================================================
