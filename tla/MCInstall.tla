----------------------------- MODULE MCInstall ------------------------------
(***************************************************************************)
(* Three families of behaviours, each explored in full: "rivals", two      *)
(* installers at a time and one backup; "again", one installer after       *)
(* another, the source edited between them, two backups; "hooks", one      *)
(* installer whose source stays as it is, and the hook installer.  Each    *)
(* has one rollback.                                                       *)
(***************************************************************************)
EXTENDS InstallHooks, TLC

CONSTANTS First, Core

VARIABLE family

MCBundle == <<Core, Bridge>>
Others   == Process \ {First}
VersionSymmetry == Permutations(Version)

MCInit ==
    /\ Init /\ family \in {"rivals", "again", "hooks"}

MCNext ==
    /\ Next /\ UNCHANGED family
    /\ family # "rivals" => \A p \in Others : run'[p] = Still
    /\ family # "again" => Len(manifests') < MaxManifest
    /\ family = "again" => source' = source \/ \A p \in Process : run[p] = Still
    /\ family = "hooks" => source' = source /\ written' = 0
    /\ family # "hooks" => UNCHANGED <<hooks, hooker, state>>

MCSpec == MCInit /\ [][MCNext]_<<vars, family>>
=============================================================================
