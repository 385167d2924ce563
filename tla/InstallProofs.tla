--------------------------- MODULE InstallProofs ---------------------------
(***************************************************************************)
(* Proofs about the installers, InstallBus and InstallHooks, for any       *)
(* bundle, contents, events, number of installers and bounds.              *)
(***************************************************************************)
EXTENDS InstallHooks, TLAPS

Steps == {"end", "lock", "snapshot", "prepare", "copy", "verify", "migrate", "undo",
          "undo drop", "undo base", "wait", "preserve", "restore", "restore drop",
          "restore base", "restored"}
Runs  == [at: Steps, want: Contents, file: 0..Length, manifest: 0..MaxManifest, base: Bases,
          restore: BOOLEAN]

LEMMA BundleFiles ==
    /\ Length \in Nat \ {0}
    /\ \A i \in 1..Length : Bundle[i] \in Files
  BY InstallAssumption DEF Length, Files

LEMMA StillTyped == Still \in Runs
<1>1. NoFiles \in Contents
  BY DEF NoFiles, Contents
<1>2. "end" \in Steps /\ 0 \in 0..Length /\ 0 \in 0..MaxManifest /\ NoBase \in Bases
  BY BundleFiles, InstallAssumption DEF Steps, Bases
<1> QED
  BY <1>1, <1>2 DEF Still, Runs

LEMMA MessagesTyped == base \in Bases => Messages \in SUBSET Message
  BY DEF Bases, Messages

LEMMA TypeInit == InstallInit => InstallTypeOK
<1> SUFFICES ASSUME InstallInit PROVE InstallTypeOK
    OBVIOUS
<1>1. source \in [Files -> Version] /\ target \in Contents /\ base \in Bases
  BY DEF InstallInit, Contents, Bases
<1>2. run \in [Process -> Runs]
  BY StillTyped DEF InstallInit
<1>3. manifests \in Seq(Manifest) /\ Len(manifests) <= MaxManifest
  BY InstallAssumption DEF InstallInit
<1>4. written \in 0..MaxMessage /\ lock \in Process \union {Nobody} /\ preserved \subseteq Saved
      /\ whole \subseteq Contents /\ atLock \subseteq Message
  BY <1>1, InstallAssumption DEF InstallInit
<1> QED
  BY <1>1, <1>2, <1>3, <1>4 DEF InstallTypeOK, Runs, Steps

(* The index of a manifest never points beyond the manifests, and the      *)
(* index of a file is one of the bundle's while files are copied.          *)
Indexed ==
    \A p \in Process :
        /\ run[p].at \in {"copy", "verify", "migrate", "undo", "undo drop", "undo base", "wait",
                          "preserve", "restore", "restore drop", "restore base", "restored"}
              => run[p].manifest \in DOMAIN manifests
        /\ run[p].at \in {"copy", "undo", "restore"} => run[p].file \in 1..Length

LEMMA RunTyped == InstallTypeOK => run \in [Process -> Runs]
  BY DEF InstallTypeOK, Runs, Steps

LEMMA Types ==
    ASSUME InstallTypeOK
    PROVE  /\ source \in [Files -> Version] /\ target \in Contents /\ base \in Bases
           /\ manifests \in Seq(Manifest) /\ Len(manifests) \in Nat
           /\ DOMAIN manifests = 1..Len(manifests) /\ Len(manifests) <= MaxManifest
           /\ \A m \in DOMAIN manifests : manifests[m] \in Manifest
<1>1. manifests \in Seq(Manifest) /\ Len(manifests) <= MaxManifest
      /\ source \in [Files -> Version] /\ target \in Contents /\ base \in Bases
  BY DEF InstallTypeOK
<1>2. Len(manifests) \in Nat /\ DOMAIN manifests = 1..Len(manifests)
  BY <1>1
<1>3. \A m \in DOMAIN manifests : manifests[m] \in Manifest
  BY <1>1
<1> QED
  BY <1>1, <1>2, <1>3

(* The steps of one installer leave the table of the installers typed.     *)
LEMMA Moved ==
    ASSUME run \in [Process -> Runs], NEW p \in Process, NEW at \in Steps, NEW n \in 0..Length
    PROVE  /\ [run EXCEPT ![p].at = at] \in [Process -> Runs]
           /\ [run EXCEPT ![p].file = n] \in [Process -> Runs]
           /\ [run EXCEPT ![p].at = at, ![p].file = n] \in [Process -> Runs]
  BY DEF Runs

LEMMA EndTyped ==
    ASSUME InstallTypeOK, NEW p \in Process, End(p)
    PROVE  run' \in [Process -> Runs] /\ lock' \in Process \union {Nobody}
<1>1. lock \in Process \union {Nobody}
  BY DEF InstallTypeOK
<1> QED
  BY <1>1, RunTyped, StillTyped DEF End

LEMMA GoTyped ==
    ASSUME InstallTypeOK, NEW p \in Process, NEW at \in Steps, Go(p, at) \/ GoFirst(p, at)
    PROVE  run' \in [Process -> Runs]
<1>1. 1 \in 0..Length
  BY BundleFiles
<1>2. /\ [run EXCEPT ![p].at = at] \in [Process -> Runs]
      /\ [run EXCEPT ![p].at = at, ![p].file = 1] \in [Process -> Runs]
  BY <1>1, RunTyped, Moved
<1> QED
  BY <1>2 DEF Go, GoFirst

LEMMA GoFileTyped ==
    ASSUME InstallTypeOK, NEW p \in Process, NEW then \in Steps, GoFile(p, then)
    PROVE  run' \in [Process -> Runs]
<1>1. run[p].file \in 0..Length
  BY RunTyped DEF Runs
<1>2. CASE run[p].file = Length
  <2>1. [run EXCEPT ![p].at = then] \in [Process -> Runs]
    BY <1>1, RunTyped, Moved
  <2> QED BY <1>2, <2>1 DEF GoFile, Go
<1>3. CASE run[p].file # Length
  <2>1. run[p].file + 1 \in 0..Length
    BY <1>1, <1>3, BundleFiles
  <2>2. run' = [run EXCEPT ![p].file = run[p].file + 1]
    BY <1>3 DEF GoFile
  <2> QED BY <2>1, <2>2, RunTyped, Moved
<1> QED BY <1>2, <1>3

LEMMA SetStatusTyped ==
    ASSUME InstallTypeOK, NEW p \in Process, run[p].manifest \in DOMAIN manifests,
           NEW s \in {"activated", "failed", "rolled_back"}, SetStatus(p, s)
    PROVE  manifests' \in Seq(Manifest) /\ Len(manifests') = Len(manifests)
<1>1. \A m \in 1..Len(manifests) : manifests[m] \in Manifest
  BY Types
<1>2. manifests' \in [1..Len(manifests) -> Manifest]
  BY <1>1, Types DEF SetStatus, Manifest
<1> QED BY <1>2, Types

LEMMA ReplaceTyped ==
    ASSUME InstallTypeOK, NEW f \in Files, NEW c \in Version \union {Missing}, Replace(f, c)
    PROVE  target' \in Contents
  BY Types DEF Replace, Contents

LEMMA RestoreTyped ==
    ASSUME InstallTypeOK, Indexed, NEW p \in Process, NEW then \in Steps,
           run[p].at \in {"undo", "restore"}, RestoreFile(p, then)
    PROVE  /\ target' \in Contents /\ run' \in [Process -> Runs]
           /\ lock' \in Process \union {Nobody}
<1> DEFINE saved == manifests[run[p].manifest].saved.files
           f     == Bundle[run[p].file]
<1>1. saved \in Contents /\ f \in Files
  <2>1. manifests[run[p].manifest] \in Manifest
    BY Types DEF Indexed
  <2> QED
    BY <2>1, BundleFiles DEF Indexed, Manifest, Saved
<1>2. saved[f] \in Version \union {Missing} /\ Replace(f, saved[f])
  BY <1>1 DEF Contents, RestoreFile
<1>3. target' \in Contents
  BY <1>1, <1>2, ReplaceTyped
<1>4. End(p) \/ (GoFile(p, then) /\ UNCHANGED lock)
  BY DEF RestoreFile
<1> QED
  BY <1>3, <1>4, EndTyped, GoFileTyped DEF InstallTypeOK

-----------------------------------------------------------------------------
(* Types and indices are kept by every step.                               *)

TypeInv == InstallTypeOK /\ Indexed

LEMMA TypeFrame ==
    ASSUME InstallTypeOK, target' \in Contents, base' \in Bases,
           lock' \in Process \union {Nobody}, run' \in [Process -> Runs],
           manifests' \in Seq(Manifest), Len(manifests') <= MaxManifest,
           preserved' \subseteq Saved, whole' \subseteq Contents, atLock' \subseteq Message,
           UNCHANGED world
    PROVE  InstallTypeOK'
  BY DEF InstallTypeOK, Runs, Steps, world

LEMMA TypeApply ==
    ASSUME TypeInv, NEW p \in Process,
           Validate(p) \/ Apply(p) \/ Snapshot(p) \/ Prepare(p) \/ Verify(p)
    PROVE  InstallTypeOK'
<1> USE DEF TypeInv
<1>1. run \in [Process -> Runs] /\ p \in DOMAIN run
  BY RunTyped
<1>2. CASE Validate(p)
  <2>1. source \in Contents /\ "lock" \in Steps
    BY Types DEF Contents, Steps
  <2>2. run' \in [Process -> Runs]
    BY <1>1, <1>2, <2>1 DEF Validate, Validated, Runs
  <2> QED BY <1>2, <2>2 DEF Validate, history, InstallTypeOK, Runs, Steps, world
<1>3. CASE Apply(p)
  <2>1. run' \in [Process -> Runs] /\ lock' \in Process \union {Nobody}
    <3>1. CASE Refuse(p)
      BY <3>1, EndTyped DEF Refuse
    <3>2. CASE Lock(p) /\ Go(p, "snapshot")
      BY <3>2, GoTyped DEF Lock, Steps
    <3> QED BY <1>3, <3>1, <3>2 DEF Apply
  <2>2. atLock' \subseteq Message
    BY <1>3, MessagesTyped DEF Apply, Refuse, Lock, InstallTypeOK
  <2> QED BY <1>3, <2>1, <2>2 DEF Apply, InstallTypeOK, Runs, Steps, world
<1>4. CASE Snapshot(p)
  <2>1. "prepare" \in Steps /\ base \in Bases
    BY Types DEF Steps
  <2>2. run' \in [Process -> Runs]
    BY <1>1, <1>4, <2>1 DEF Snapshot, Runs
  <2> QED BY <1>4, <2>2 DEF Snapshot, history, InstallTypeOK, Runs, Steps, world
<1>5. CASE Prepare(p)
  <2>1. SavedBefore(p) \in Saved
    BY <1>1, Types DEF SavedBefore, Saved, Runs
  <2>2. [status |-> "prepared", saved |-> SavedBefore(p)] \in Manifest
    BY <2>1 DEF Manifest
  <2>3. /\ manifests' \in Seq(Manifest) /\ Len(manifests') = Len(manifests) + 1
        /\ Len(manifests') \in 0..MaxManifest
    BY <1>5, <2>2, Types, InstallAssumption DEF Prepare
  <2>4. run' = [run EXCEPT ![p].at = "copy", ![p].file = 1, ![p].manifest = Len(manifests')]
    BY <1>5 DEF Prepare
  <2>5. "copy" \in Steps /\ 1 \in 0..Length
    BY BundleFiles DEF Steps
  <2>6. run' \in [Process -> Runs]
    BY <1>1, <2>3, <2>4, <2>5 DEF Runs
  <2>7. Len(manifests') <= MaxManifest
    BY <2>3
  <2> QED BY <1>5, <2>3, <2>6, <2>7 DEF Prepare, history, InstallTypeOK, Runs, Steps, world
<1>6. CASE Verify(p)
  <2>1. run' \in [Process -> Runs]
    BY <1>6, GoTyped DEF Verify, Steps
  <2> QED BY <1>6, <2>1 DEF Verify, history, InstallTypeOK, Runs, Steps, world
<1> QED BY <1>2, <1>3, <1>4, <1>5, <1>6

LEMMA TypeWork ==
    ASSUME TypeInv, NEW p \in Process, Copy(p) \/ Activate(p) \/ Undo(p) \/ UndoBase(p)
    PROVE  InstallTypeOK'
<1> USE DEF TypeInv
<1>1. run \in [Process -> Runs] /\ p \in DOMAIN run
  BY RunTyped
<1>2. CASE Copy(p)
  <2>1. target' \in Contents /\ run' \in [Process -> Runs]
    <3>1. CASE GoFirst(p, "undo") /\ UNCHANGED target
      BY <3>1, GoTyped, Types DEF Steps
    <3>2. CASE /\ Replace(Bundle[run[p].file], source[Bundle[run[p].file]])
               /\ GoFile(p, "verify")
      <4>1. Bundle[run[p].file] \in Files
        BY <1>2, BundleFiles DEF Copy, At, Indexed
      <4>2. source[Bundle[run[p].file]] \in Version \union {Missing}
        BY <4>1, Types
      <4> QED BY <3>2, <4>1, <4>2, ReplaceTyped, GoFileTyped DEF Steps
    <3> QED BY <1>2, <3>1, <3>2 DEF Copy
  <2> QED BY <1>2, <2>1 DEF Copy, history, InstallTypeOK, Runs, Steps, world
<1>3. CASE Activate(p)
  <2>1. base' \in Bases /\ UNCHANGED <<world, target, preserved, atLock>>
    BY <1>3, MessagesTyped, Types DEF Activate, Migrated, Bases
  <2>2. CASE SetStatus(p, "activated") /\ whole' = whole \union {target} /\ End(p)
    <3>1. manifests' \in Seq(Manifest) /\ Len(manifests') = Len(manifests)
      BY <1>3, <2>2, SetStatusTyped DEF Activate, At, Indexed
    <3>2. whole' \subseteq Contents /\ Len(manifests') <= MaxManifest
      BY <2>2, <3>1, Types DEF InstallTypeOK
    <3> QED BY <2>1, <2>2, <3>1, <3>2, EndTyped, TypeFrame DEF InstallTypeOK
  <2>3. CASE GoFirst(p, "undo") /\ UNCHANGED <<lock, manifests, whole>>
    <3>1. run' \in [Process -> Runs]
      BY <2>3, GoTyped DEF Steps
    <3> QED BY <2>1, <2>3, <3>1 DEF InstallTypeOK, Runs, Steps, world
  <2> QED BY <1>3, <2>2, <2>3 DEF Activate
<1>4. CASE Undo(p)
  <2>1. /\ target' \in Contents /\ run' \in [Process -> Runs]
        /\ lock' \in Process \union {Nobody}
    BY <1>4, RestoreTyped DEF Undo, At, Steps
  <2> QED BY <1>4, <2>1 DEF Undo, history, InstallTypeOK, Runs, Steps, world
<1>5. CASE UndoBase(p)
  <2>1. manifests' \in Seq(Manifest) /\ Len(manifests') = Len(manifests)
    BY <1>5, SetStatusTyped DEF UndoBase, At, Indexed
  <2>2. Len(manifests') <= MaxManifest
    BY <2>1, Types
  <2>3. base' \in Bases
    BY <1>1, <1>5 DEF UndoBase, Runs
  <2>4. run' \in [Process -> Runs] /\ lock' \in Process \union {Nobody}
    BY <1>5, EndTyped DEF UndoBase
  <2> QED BY <1>5, <2>1, <2>2, <2>3, <2>4 DEF UndoBase, history, InstallTypeOK, Runs, Steps, world
<1> QED BY <1>2, <1>3, <1>4, <1>5

LEMMA DropTyped ==
    ASSUME TypeInv, NEW p \in Process, NEW at \in Steps, Drop(p), Go(p, at)
    PROVE  InstallTypeOK'
<1>1. base' \in Bases
  BY MessagesTyped, Types DEF Drop, TypeInv, Bases
<1>2. run' \in [Process -> Runs]
  BY GoTyped DEF TypeInv
<1> QED
  BY <1>1, <1>2 DEF TypeInv, Drop, history, InstallTypeOK, Runs, Steps, world

LEMMA TypeRollback ==
    ASSUME TypeInv, NEW p \in Process,
           \/ \E m \in DOMAIN manifests, restore \in BOOLEAN : Choose(p, m, restore)
           \/ Rollback(p) \/ Preserve(p) \/ Restore(p) \/ RestoreBase(p) \/ Restored(p)
           \/ KillInstaller(p)
    PROVE  InstallTypeOK'
<1> USE DEF TypeInv
<1>1. run \in [Process -> Runs] /\ p \in DOMAIN run
  BY RunTyped
<1>2. ASSUME NEW m \in DOMAIN manifests, NEW restore \in BOOLEAN, Choose(p, m, restore)
      PROVE  InstallTypeOK'
  <2>1. m \in 0..MaxManifest /\ "wait" \in Steps
    BY Types, InstallAssumption DEF Steps
  <2>2. run' \in [Process -> Runs]
    BY <1>1, <1>2, <2>1 DEF Choose, Runs
  <2> QED BY <1>2, <2>2 DEF Choose, history, InstallTypeOK, Runs, Steps, world
<1>3. CASE Rollback(p)
  <2>1. run' \in [Process -> Runs] /\ lock' \in Process \union {Nobody}
    <3>1. CASE Refuse(p)
      BY <3>1, EndTyped DEF Refuse
    <3>2. CASE Lock(p) /\ Go(p, "preserve")
      BY <3>2, GoTyped DEF Lock, Steps
    <3> QED BY <1>3, <3>1, <3>2 DEF Rollback
  <2>2. atLock' \subseteq Message
    BY <1>3, MessagesTyped DEF Rollback, Refuse, Lock, InstallTypeOK
  <2> QED BY <1>3, <2>1, <2>2 DEF Rollback, InstallTypeOK, Runs, Steps, world
<1>4. CASE Preserve(p)
  <2>1. run' \in [Process -> Runs]
    BY <1>4, GoTyped DEF Preserve, Steps
  <2>2. [files |-> target, base |-> base] \in Saved /\ preserved \subseteq Saved
    BY Types DEF InstallTypeOK, Saved
  <2> QED BY <1>4, <2>1, <2>2 DEF Preserve, history, InstallTypeOK, Runs, Steps, world
<1>5. CASE Restore(p)
  <2>1. /\ target' \in Contents /\ run' \in [Process -> Runs]
        /\ lock' \in Process \union {Nobody}
    BY <1>5, RestoreTyped DEF Restore, At, Steps
  <2> QED BY <1>5, <2>1 DEF Restore, history, InstallTypeOK, Runs, Steps, world
<1>6. CASE RestoreBase(p)
  <2>1. manifests[run[p].manifest] \in Manifest
    BY <1>6, Types DEF RestoreBase, At, Indexed
  <2>2. base' \in Bases
    BY <1>6, <2>1 DEF RestoreBase, Manifest, Saved
  <2>3. run' \in [Process -> Runs]
    BY <1>6, GoTyped DEF RestoreBase, Steps
  <2> QED BY <1>6, <2>2, <2>3 DEF RestoreBase, history, InstallTypeOK, Runs, Steps, world
<1>7. CASE Restored(p)
  <2>1. manifests' \in Seq(Manifest) /\ Len(manifests') = Len(manifests)
    BY <1>7, SetStatusTyped DEF Restored, At, Indexed
  <2>2. Len(manifests') <= MaxManifest
    BY <2>1, Types
  <2>3. run' \in [Process -> Runs] /\ lock' \in Process \union {Nobody}
    BY <1>7, EndTyped DEF Restored
  <2> QED BY <1>7, <2>1, <2>2, <2>3 DEF Restored, history, InstallTypeOK, Runs, Steps, world
<1>8. CASE KillInstaller(p)
  BY <1>8, EndTyped DEF KillInstaller, history, InstallTypeOK, Runs, Steps, world
<1> QED BY <1>2, <1>3, <1>4, <1>5, <1>6, <1>7, <1>8

LEMMA TypeStep ==
    ASSUME TypeInv, [InstallNext]_installVars
    PROVE  InstallTypeOK'
<1> USE DEF TypeInv
<1>1. CASE WriteMessage
  <2>0. written \in 0..MaxMessage
    BY DEF InstallTypeOK
  <2>1. written' \in 0..MaxMessage /\ written' \in Message
    BY <1>1, <2>0, InstallAssumption DEF WriteMessage, Message
  <2>2. base' \in Bases
    BY <1>1, <2>1, Types DEF WriteMessage, Bases
  <2> QED BY <1>1, <2>1, <2>2 DEF WriteMessage, history, InstallTypeOK
<1>2. ASSUME NEW f \in Files, NEW v \in Version, Edit(f, v) PROVE InstallTypeOK'
  BY <1>2 DEF Edit, history, InstallTypeOK
<1>3. ASSUME NEW p \in Process, Installer(p) PROVE InstallTypeOK'
  <2>1. CASE UndoDrop(p)
    BY <2>1, DropTyped DEF UndoDrop, Steps
  <2>2. CASE RestoreDrop(p)
    BY <2>2, DropTyped DEF RestoreDrop, Steps
  <2> QED BY <1>3, <2>1, <2>2, TypeApply, TypeWork, TypeRollback DEF Installer
<1>4. CASE UNCHANGED installVars
  BY <1>4 DEF installVars, history, world, InstallTypeOK
<1> QED BY <1>1, <1>2, <1>3, <1>4 DEF InstallNext

-----------------------------------------------------------------------------
(* The lock.  The steps at which an installer holds it, and those at which *)
(* it has begun to replace what is installed.                              *)

Holding == {"snapshot", "prepare", "copy", "verify", "migrate", "undo", "undo drop",
            "undo base", "preserve", "restore", "restore drop", "restore base", "restored"}
PutBack   == {"undo drop", "undo base", "restore drop", "restore base", "restored"}
Replacing == {"copy", "verify", "migrate", "undo", "restore"} \union PutBack

Exclusive == \A p \in Process : run[p].at \in Holding => lock = p

(* The other installers stay where they are.                               *)
LEMMA Others ==
    ASSUME InstallTypeOK, NEW p \in Process, Installer(p), NEW q \in Process, q # p
    PROVE  run'[q] = run[q]
<1> USE RunTyped
<1>1. ASSUME NEW at \in Steps, Go(p, at) \/ GoFirst(p, at) \/ GoFile(p, at) \/ End(p)
      PROVE  run'[q] = run[q]
  BY <1>1 DEF Go, GoFirst, GoFile, End
<1>2. CASE Validate(p) \/ Snapshot(p) \/ Prepare(p)
  BY <1>2 DEF Validate, Snapshot, Prepare
<1>3. ASSUME NEW m \in DOMAIN manifests, NEW restore \in BOOLEAN, Choose(p, m, restore)
      PROVE  run'[q] = run[q]
  BY <1>3 DEF Choose
<1>4. CASE Apply(p) \/ Copy(p) \/ Verify(p) \/ Activate(p)
  BY <1>4, <1>1 DEF Apply, Refuse, Copy, Verify, Activate, Steps
<1>5. CASE Undo(p) \/ UndoDrop(p) \/ UndoBase(p)
  BY <1>5, <1>1 DEF Undo, RestoreFile, UndoDrop, UndoBase, Steps
<1>6. CASE Rollback(p) \/ Preserve(p) \/ Restore(p) \/ RestoreDrop(p) \/ RestoreBase(p)
           \/ Restored(p) \/ KillInstaller(p)
  BY <1>6, <1>1 DEF Rollback, Refuse, Preserve, Restore, RestoreFile, RestoreDrop, RestoreBase,
                    Restored, KillInstaller, Steps
<1> QED BY <1>2, <1>3, <1>4, <1>5, <1>6 DEF Installer

(* Only the holder releases the lock, and it is taken only when free.      *)
LEMMA LockMoves ==
    ASSUME NEW p \in Process, Installer(p)
    PROVE  \/ lock' = lock
           \/ lock = Nobody /\ lock' = p
           \/ lock = p /\ lock' = Nobody
<1>1. CASE Validate(p) \/ Snapshot(p) \/ Prepare(p) \/ Copy(p) \/ Verify(p) \/ Preserve(p)
           \/ UndoDrop(p) \/ RestoreDrop(p) \/ RestoreBase(p)
  BY <1>1 DEF Validate, Snapshot, Prepare, Copy, Verify, Preserve, UndoDrop, RestoreDrop,
              RestoreBase, Drop
<1>2. CASE Apply(p) \/ Rollback(p)
  BY <1>2 DEF Apply, Rollback, Refuse, Lock, Free, End
<1>3. CASE Activate(p) \/ Undo(p) \/ UndoBase(p) \/ Restore(p) \/ Restored(p) \/ KillInstaller(p)
  BY <1>3 DEF Activate, Undo, UndoBase, Restore, RestoreFile, Restored, KillInstaller, End
<1>4. ASSUME NEW m \in DOMAIN manifests, NEW restore \in BOOLEAN, Choose(p, m, restore)
      PROVE  lock' = lock
  BY <1>4 DEF Choose
<1> QED BY <1>1, <1>2, <1>3, <1>4 DEF Installer

(* While another installer holds the lock, an installer changes nothing.   *)
LEMMA Locked ==
    ASSUME InstallTypeOK, Exclusive, NEW p \in Process, Installer(p),
           NEW q \in Process, q # p, run[q].at \in Holding
    PROVE  UNCHANGED <<target, base, manifests, preserved, whole, atLock>>
<1>1. lock = q /\ ~Free /\ run[p].at \notin Holding
  BY InstallAssumption DEF Exclusive, Free
<1>2. Validate(p) \/ KillInstaller(p)
      \/ \E m \in DOMAIN manifests, restore \in BOOLEAN : Choose(p, m, restore)
  BY <1>1 DEF Installer, Holding, Apply, Refuse, Lock, Snapshot, Prepare, Copy, Verify, Activate,
              Undo, UndoDrop, UndoBase, Rollback, Preserve, Restore, RestoreDrop, RestoreBase,
              Restored, At
<1> QED BY <1>2 DEF Validate, KillInstaller, Choose, history

(* Where an installer stands once it has moved; it takes along what it has *)
(* read, until it ends.                                                    *)
Carries(p) ==
    /\ run'[p].want = run[p].want /\ run'[p].base = run[p].base
    /\ run'[p].manifest = run[p].manifest

LEMMA Going ==
    ASSUME InstallTypeOK, NEW p \in Process, NEW at, Go(p, at) \/ GoFirst(p, at)
    PROVE  run'[p].at = at /\ run'[p].file \in {1, run[p].file} /\ Carries(p)
  BY RunTyped DEF Go, GoFirst, Carries, Runs

LEMMA GoingFirst ==
    ASSUME InstallTypeOK, NEW p \in Process, NEW at, GoFirst(p, at)
    PROVE  run'[p].file = 1
  BY RunTyped DEF GoFirst, Runs

LEMMA GoingFile ==
    ASSUME InstallTypeOK, NEW p \in Process, NEW at, GoFile(p, at),
           run[p].file \in 1..Length
    PROVE  /\ Carries(p)
           /\ \/ run[p].file = Length /\ run'[p].at = at
              \/ run[p].file # Length /\ run'[p].at = run[p].at /\ run'[p].file \in 1..Length
<1>1. run[p] \in Runs /\ p \in DOMAIN run
  BY RunTyped
<1>2. CASE run[p].file = Length
  BY <1>2, Going DEF GoFile
<1>3. CASE run[p].file # Length
  <2>1. run[p].file + 1 \in 1..Length
    BY <1>3, BundleFiles
  <2>2. run' = [run EXCEPT ![p].file = run[p].file + 1]
    BY <1>3 DEF GoFile
  <2> QED BY <1>1, <1>3, <2>1, <2>2 DEF Runs, Carries
<1> QED BY <1>2, <1>3

LEMMA Ending ==
    ASSUME InstallTypeOK, NEW p \in Process, End(p)
    PROVE  run'[p].at = "end"
  BY RunTyped DEF End, Still

-----------------------------------------------------------------------------
LEMMA ExclusiveStep ==
    ASSUME TypeInv, Exclusive, [InstallNext]_installVars
    PROVE  Exclusive'
<1> USE DEF TypeInv
<1>1. CASE WriteMessage \/ \E f \in Files, v \in Version : Edit(f, v)
  BY <1>1 DEF WriteMessage, Edit, Exclusive
<1>2. ASSUME NEW p \in Process, Installer(p), NEW q \in Process, run'[q].at \in Holding
      PROVE  lock' = q
  <2>1. CASE q # p
    BY <1>2, <2>1, Others, LockMoves, InstallAssumption DEF Exclusive
  <2>2. CASE q = p
    <3>1. CASE run[p].at \in Holding /\ UNCHANGED lock
      BY <2>2, <3>1 DEF Exclusive
    <3>2. CASE Validate(p) \/ \E m \in DOMAIN manifests, restore \in BOOLEAN : Choose(p, m, restore)
      <4>1. CASE Validate(p)
        BY <1>2, <2>2, <4>1, RunTyped DEF Validate, Runs, Holding
      <4>2. ASSUME NEW m \in DOMAIN manifests, NEW restore \in BOOLEAN, Choose(p, m, restore)
            PROVE  FALSE
        BY <1>2, <2>2, <4>2, RunTyped DEF Choose, Runs, Holding
      <4> QED BY <3>2, <4>1, <4>2
    <3>3. ASSUME End(p) PROVE FALSE
      BY <1>2, <2>2, <3>3, Ending DEF Holding
    <3>4. CASE Apply(p) \/ Rollback(p)
      BY <2>2, <3>3, <3>4 DEF Apply, Rollback, Refuse, Lock
    <3>5. CASE Snapshot(p) \/ Prepare(p) \/ Copy(p) \/ Verify(p) \/ Activate(p) \/ UndoDrop(p)
               \/ RestoreDrop(p) \/ RestoreBase(p) \/ Preserve(p) \/ Undo(p) \/ Restore(p)
      BY <3>1, <3>3, <3>5 DEF Snapshot, Prepare, Copy, Verify, Activate, UndoDrop, RestoreDrop,
            RestoreBase, Preserve, Undo, Restore, RestoreFile, Drop, At, Holding
    <3>6. CASE UndoBase(p) \/ Restored(p) \/ KillInstaller(p)
      BY <3>3, <3>6 DEF UndoBase, Restored, KillInstaller
    <3> QED BY <1>2, <3>2, <3>4, <3>5, <3>6 DEF Installer
  <2> QED BY <2>1, <2>2
<1>3. CASE UNCHANGED installVars
  BY <1>3 DEF installVars, Exclusive
<1> QED BY <1>1, <1>2, <1>3 DEF InstallNext, Exclusive

(* A manifest is never removed and what it saved never changes.            *)
LEMMA ManifestsKept ==
    ASSUME TypeInv, [InstallNext]_installVars
    PROVE  /\ \A m \in DOMAIN manifests : /\ m \in DOMAIN manifests'
                                          /\ manifests'[m].saved = manifests[m].saved
           /\ preserved \subseteq preserved'
<1> USE DEF TypeInv
<1> DEFINE Kept == \A m \in DOMAIN manifests : /\ m \in DOMAIN manifests'
                                               /\ manifests'[m].saved = manifests[m].saved
<1>1. ASSUME manifests' = manifests PROVE Kept
  BY <1>1
<1>2. ASSUME NEW p \in Process, Prepare(p) PROVE Kept
  BY <1>2, Types DEF Prepare
<1>3. ASSUME NEW p \in Process, NEW s, SetStatus(p, s) PROVE Kept
  BY <1>3, Types DEF SetStatus, Manifest
<1>4. CASE WriteMessage \/ (\E f \in Files, v \in Version : Edit(f, v)) \/ UNCHANGED installVars
  BY <1>1, <1>4 DEF WriteMessage, Edit, installVars
<1>5. ASSUME NEW p \in Process, Installer(p) PROVE Kept
  <2>1. CASE Activate(p) \/ UndoBase(p) \/ Restored(p)
    BY <1>1, <1>3, <2>1 DEF Activate, UndoBase, Restored
  <2>2. CASE Validate(p) \/ Apply(p) \/ Snapshot(p) \/ Copy(p) \/ Verify(p) \/ Undo(p)
             \/ UndoDrop(p) \/ Rollback(p) \/ Preserve(p) \/ Restore(p) \/ RestoreDrop(p)
             \/ RestoreBase(p) \/ KillInstaller(p)
             \/ \E m \in DOMAIN manifests, restore \in BOOLEAN : Choose(p, m, restore)
    BY <1>1, <2>2 DEF Validate, Apply, Snapshot, Copy, Verify, Undo, UndoDrop, Rollback, Preserve,
         Restore, RestoreDrop, RestoreBase, KillInstaller, Choose, Drop
  <2> QED BY <1>2, <1>5, <2>1, <2>2 DEF Installer
<1>6. preserved \subseteq preserved'
  BY DEF InstallNext, installVars, WriteMessage, Edit, Installer, Validate, Apply, Snapshot, Prepare,
         Copy, Verify, Activate, Undo, UndoDrop, UndoBase, Rollback, Preserve, Restore, RestoreDrop,
         RestoreBase, Restored, KillInstaller, Choose, Drop
<1> QED BY <1>4, <1>5, <1>6 DEF InstallNext

LEMMA BackupsKept ==
    ASSUME TypeInv, [InstallNext]_installVars
    PROVE  Backups \subseteq Backups'
  BY ManifestsKept DEF Backups

LEMMA IndexedStep ==
    ASSUME TypeInv, Exclusive, [InstallNext]_installVars
    PROVE  Indexed'
<1> USE DEF TypeInv
<1> DEFINE Steady(q) == run'[q] = run[q]
           Chosen == {"copy", "verify", "migrate", "undo", "undo drop", "undo base", "wait",
                      "preserve", "restore", "restore drop", "restore base", "restored"}
           Good(q) == /\ run'[q].at \in Chosen => run'[q].manifest \in DOMAIN manifests'
                      /\ run'[q].at \in {"copy", "undo", "restore"} => run'[q].file \in 1..Length
<1>1. ASSUME NEW q \in Process, Steady(q) PROVE Good(q)
  BY <1>1, ManifestsKept DEF Indexed
<1>2. ASSUME NEW p \in Process, Installer(p) PROVE Good(p)
  <2>0. 1 \in 1..Length
    BY BundleFiles
  <2>1. ASSUME Carries(p), run[p].at \in Chosen PROVE run'[p].manifest \in DOMAIN manifests'
    BY <2>1, ManifestsKept DEF Indexed, Carries
  <2>2. CASE Validate(p) \/ Snapshot(p)
    <3>1. run'[p].at \in {"lock", "prepare"}
      BY <2>2, RunTyped DEF Validate, Snapshot, Runs
    <3> QED BY <3>1
  <2>3. ASSUME NEW m \in DOMAIN manifests, NEW restore \in BOOLEAN, Choose(p, m, restore)
        PROVE  Good(p)
    <3>1. run'[p].at = "wait" /\ run'[p].manifest = m
      BY <2>3, RunTyped DEF Choose, Runs
    <3> QED BY <3>1, ManifestsKept
  <2>4. CASE Prepare(p)
    <3>1. run'[p].at = "copy" /\ run'[p].file = 1 /\ run'[p].manifest = Len(manifests')
      BY <2>4, RunTyped DEF Prepare, Runs
    <3>2. Len(manifests') \in DOMAIN manifests'
      BY <2>4, Types DEF Prepare
    <3> QED BY <2>0, <3>1, <3>2
  <2>5. ASSUME End(p) PROVE Good(p)
    BY <2>5, Ending
  <2>6. CASE Apply(p)
    <3>1. ASSUME Go(p, "snapshot") PROVE Good(p)
      <4>1. run'[p].at = "snapshot"
        BY <3>1, Going
      <4> QED BY <4>1
    <3> QED BY <2>5, <2>6, <3>1 DEF Apply, Refuse
  <2>7. ASSUME GoFirst(p, "undo") \/ GoFirst(p, "restore"), run[p].at \in Chosen PROVE Good(p)
    BY <2>0, <2>1, <2>7, Going, GoingFirst
  <2>8. ASSUME NEW at \in Chosen \ {"copy", "undo", "restore"}, Go(p, at), run[p].at \in Chosen
        PROVE  Good(p)
    BY <2>1, <2>8, Going
  <2>9. ASSUME NEW at \in Chosen \ {"copy", "undo", "restore"}, GoFile(p, at),
               run[p].at \in {"copy", "undo", "restore"}
        PROVE  Good(p)
    <3>1. run[p].file \in 1..Length
      BY <2>9 DEF Indexed
    <3> QED BY <2>1, <2>9, <3>1, GoingFile
  <2>10. CASE Copy(p) \/ Verify(p) \/ Activate(p) \/ Undo(p) \/ UndoDrop(p) \/ UndoBase(p)
    BY <2>5, <2>7, <2>8, <2>9, <2>10 DEF Copy, Verify, Activate, Undo, RestoreFile, UndoDrop,
       UndoBase, At
  <2>11. CASE Rollback(p) \/ Preserve(p) \/ Restore(p) \/ RestoreDrop(p) \/ RestoreBase(p)
              \/ Restored(p) \/ KillInstaller(p)
    BY <2>5, <2>7, <2>8, <2>9, <2>11 DEF Rollback, Refuse, Preserve, Restore, RestoreFile,
       RestoreDrop, RestoreBase, Restored, KillInstaller, At
  <2> QED BY <1>2, <2>2, <2>3, <2>4, <2>6, <2>10, <2>11 DEF Installer
<1>3. ASSUME NEW p \in Process, Installer(p) PROVE \A q \in Process : Good(q)
  BY <1>1, <1>2, <1>3, Others
<1>4. ASSUME run' = run PROVE \A q \in Process : Good(q)
  BY <1>1, <1>4
<1>5. \A q \in Process : Good(q)
  BY <1>3, <1>4 DEF InstallNext, WriteMessage, Edit, installVars
<1> QED BY <1>5 DEF Indexed

-----------------------------------------------------------------------------
(* The inductive invariant.  Before an installer begins to replace what is *)
(* installed, all that was ever whole and all messages that were there     *)
(* under a lock are in some backup (Covered), the messages by way of the   *)
(* snapshot it carries (Noted); and what it is about to say of the files   *)
(* is true of them (Exact).                                                *)

MessagesOf(b) == IF b = NoBase THEN {} ELSE b
SavedBundles  == {s.files : s \in Backups}
SavedMessages == UNION {MessagesOf(s.base) : s \in Backups}

Covered(q) == run[q].at \in Replacing
                 => whole \subseteq SavedBundles /\ atLock \subseteq SavedMessages
Noted(q)   == run[q].at = "prepare"
                 => atLock \subseteq SavedMessages \union MessagesOf(run[q].base)
Exact(q)   == /\ run[q].at = "migrate" => target = run[q].want
              /\ run[q].at \in PutBack => target = manifests[run[q].manifest].saved.files
Safe(q)    == Covered(q) /\ Noted(q) /\ Exact(q)

BundlesKept  == whole \subseteq SavedBundles \union {target}
MessagesKept == atLock \subseteq SavedMessages \union Messages

InstallInv ==
    /\ TypeInv /\ Exclusive
    /\ \A q \in Process : Safe(q)
    /\ BundlesKept /\ MessagesKept

LEMMA InvInit == InstallInit => InstallInv
<1> SUFFICES ASSUME InstallInit PROVE InstallInv
    OBVIOUS
<1>1. \A q \in Process : run[q].at = "end"
  BY DEF InstallInit, Still
<1>2. Indexed /\ Exclusive /\ \A q \in Process : Safe(q)
  BY <1>1 DEF Indexed, Exclusive, Safe, Covered, Noted, Exact, Holding, Replacing, PutBack
<1>3. BundlesKept /\ MessagesKept
  BY DEF InstallInit, BundlesKept, MessagesKept
<1> QED BY <1>2, <1>3, TypeInit DEF InstallInv, TypeInv

LEMMA SavedKept ==
    ASSUME TypeInv, [InstallNext]_installVars
    PROVE  SavedBundles \subseteq SavedBundles' /\ SavedMessages \subseteq SavedMessages'
<1>1. Backups \subseteq Backups'
  BY BackupsKept
<1>2. SavedBundles \subseteq SavedBundles'
  BY <1>1 DEF SavedBundles
<1>3. ASSUME NEW x \in SavedMessages PROVE x \in SavedMessages'
  <2>1. PICK s \in Backups : x \in MessagesOf(s.base)
    BY DEF SavedMessages
  <2> QED BY <1>1, <2>1 DEF SavedMessages, MessagesOf
<1> QED BY <1>2, <1>3

(* What is in a backup is saved.                                           *)
LEMMA InBackup ==
    ASSUME NEW s \in Backups
    PROVE  s.files \in SavedBundles /\ MessagesOf(s.base) \subseteq SavedMessages
  BY DEF SavedBundles, SavedMessages

(* The installers beside the one that moves stay safe.                     *)
LEMMA OthersSafe ==
    ASSUME InstallInv, NEW p \in Process, Installer(p), NEW q \in Process, q # p
    PROVE  Safe(q)'
<1>1. run'[q] = run[q] /\ Safe(q) /\ TypeInv /\ InstallTypeOK
  BY Others DEF InstallInv, TypeInv
<1>2. CASE run[q].at \notin Holding
  <2>1. run'[q].at \notin Replacing \union PutBack \union {"prepare", "migrate"}
    BY <1>1, <1>2 DEF Holding, Replacing, PutBack
  <2> QED BY <2>1 DEF Safe, Covered, Noted, Exact
<1>3. CASE run[q].at \in Holding
  <2>1. UNCHANGED <<target, base, manifests, preserved, whole, atLock>>
    BY <1>1, <1>3, Locked DEF InstallInv
  <2>2. UNCHANGED <<SavedBundles, SavedMessages>>
    BY <2>1 DEF SavedBundles, SavedMessages, Backups
  <2> QED BY <1>1, <2>1, <2>2 DEF Safe, Covered, Noted, Exact
<1> QED BY <1>2, <1>3

(* An installer that stands at none of the steps the parts speak of is     *)
(* safe, and one that goes on replacing stays covered.                     *)
LEMMA Elsewhere ==
    ASSUME NEW p \in Process, run'[p].at \notin Replacing \union {"prepare"}
    PROVE  Safe(p)'
  BY DEF Safe, Covered, Noted, Exact, Replacing, PutBack

LEMMA StaysCovered ==
    ASSUME InstallInv, [InstallNext]_installVars, NEW p \in Process, run[p].at \in Replacing,
           UNCHANGED <<whole, atLock>>
    PROVE  Covered(p)'
<1>1. whole \subseteq SavedBundles /\ atLock \subseteq SavedMessages
  BY DEF InstallInv, Safe, Covered
<1>2. whole' \subseteq SavedBundles' /\ atLock' \subseteq SavedMessages'
  BY <1>1, SavedKept DEF InstallInv
<1> QED BY <1>2 DEF Covered

(* restore_sources.  Unless its closing comparison ended it, what it       *)
(* leaves behind is what the manifest saved.                               *)
LEMMA RestoreExact ==
    ASSUME InstallInv, NEW p \in Process, run[p].at \in {"undo", "restore"},
           NEW then \in PutBack, RestoreFile(p, then), UNCHANGED manifests
    PROVE  \/ run'[p].at = "end"
           \/ run'[p].at = run[p].at
           \/ run'[p].at = then /\ target' = manifests'[run'[p].manifest].saved.files
<1>1. TypeInv /\ InstallTypeOK /\ run[p].file \in 1..Length
  BY DEF InstallInv, TypeInv, Indexed
<1>2. ASSUME End(p) PROVE run'[p].at = "end"
  BY <1>1, <1>2, Ending
<1>3. ASSUME GoFile(p, then), run[p].file # Length PROVE run'[p].at = run[p].at
  BY <1>1, <1>3, GoingFile
<1>4. ASSUME GoFile(p, then), run[p].file = Length PROVE run'[p].at = then /\ Carries(p)
  BY <1>1, <1>4, GoingFile
<1> QED BY <1>2, <1>3, <1>4 DEF RestoreFile, Carries

LEMMA OwnSafe ==
    ASSUME InstallInv, NEW p \in Process, Installer(p), [InstallNext]_installVars
    PROVE  Safe(p)'
<1>0. TypeInv /\ InstallTypeOK /\ Safe(p) /\ run \in [Process -> Runs]
  BY RunTyped DEF InstallInv, TypeInv
<1>1. ASSUME End(p) PROVE Safe(p)'
  <2>1. run'[p].at = "end"
    BY <1>0, <1>1, Ending
  <2> QED BY <2>1, Elsewhere DEF Replacing, PutBack
<1>2. CASE Validate(p)
  <2>1. run'[p].at = "lock"
    BY <1>0, <1>2 DEF Validate, Runs
  <2> QED BY <2>1, Elsewhere DEF Replacing, PutBack
<1>3. ASSUME NEW m \in DOMAIN manifests, NEW restore \in BOOLEAN, Choose(p, m, restore)
      PROVE  Safe(p)'
  <2>1. run'[p].at = "wait"
    BY <1>0, <1>3 DEF Choose, Runs
  <2> QED BY <2>1, Elsewhere DEF Replacing, PutBack
<1>4. CASE Apply(p)
  <2>1. ASSUME Go(p, "snapshot") PROVE Safe(p)'
    <3>1. run'[p].at = "snapshot"
      BY <1>0, <2>1, Going
    <3> QED BY <3>1, Elsewhere DEF Replacing, PutBack
  <2> QED BY <1>1, <1>4, <2>1 DEF Apply, Refuse
<1>5. CASE Rollback(p)
  <2>1. ASSUME Go(p, "preserve") PROVE Safe(p)'
    <3>1. run'[p].at = "preserve"
      BY <1>0, <2>1, Going
    <3> QED BY <3>1, Elsewhere DEF Replacing, PutBack
  <2> QED BY <1>1, <1>5, <2>1 DEF Rollback, Refuse
<1>6. CASE Snapshot(p)
  <2>1. run'[p].at = "prepare" /\ run'[p].base = base
    BY <1>0, <1>6 DEF Snapshot, Runs
  <2>2. atLock' \subseteq SavedMessages' \union MessagesOf(base)
    BY <1>0, <1>6, SavedKept DEF Snapshot, history, InstallInv, MessagesKept, Messages, MessagesOf
  <2> QED BY <2>1, <2>2 DEF Safe, Covered, Noted, Exact, Replacing, PutBack, MessagesOf
<1>7. CASE Prepare(p)
  <2>1. run'[p].at = "copy"
    BY <1>0, <1>7 DEF Prepare, Runs
  <2>2. SavedBefore(p) \in Backups'
    <3>1. /\ Len(manifests') \in DOMAIN manifests'
          /\ manifests'[Len(manifests')] = [status |-> "prepared", saved |-> SavedBefore(p)]
      BY <1>0, <1>7, Types DEF Prepare
    <3>2. manifests'[Len(manifests')].saved = SavedBefore(p)
      BY <3>1
    <3> QED BY <3>1, <3>2 DEF Backups
  <2>3. target \in SavedBundles' /\ MessagesOf(run[p].base) \subseteq SavedMessages'
    BY <2>2 DEF SavedBundles, SavedMessages, SavedBefore, MessagesOf
  <2>4. whole \subseteq SavedBundles \union {target}
    BY DEF InstallInv, BundlesKept
  <2>5. atLock \subseteq SavedMessages \union MessagesOf(run[p].base)
    BY <1>0, <1>7 DEF Prepare, At, Safe, Noted
  <2>6. whole' \subseteq SavedBundles' /\ atLock' \subseteq SavedMessages'
    BY <1>0, <1>7, <2>3, <2>4, <2>5, SavedKept DEF Prepare, history
  <2> QED BY <2>1, <2>6 DEF Safe, Covered, Noted, Exact, PutBack
<1>8. CASE Copy(p)
  <2>1. run'[p].at \in {"copy", "verify", "undo"}
    <3>1. ASSUME GoFirst(p, "undo") PROVE run'[p].at = "undo"
      BY <1>0, <3>1, Going
    <3>2. ASSUME GoFile(p, "verify") PROVE run'[p].at \in {"copy", "verify"}
      BY <1>0, <1>8, <3>2, GoingFile DEF Copy, At, TypeInv, Indexed
    <3> QED BY <1>8, <3>1, <3>2 DEF Copy
  <2>2. Covered(p)'
    BY <1>8, StaysCovered DEF Copy, At, history, Replacing
  <2> QED BY <2>1, <2>2 DEF Safe, Noted, Exact, PutBack
<1>9. CASE Verify(p)
  <2>1. Covered(p)'
    BY <1>9, StaysCovered DEF Verify, At, history, Replacing
  <2>2. CASE Verified(p) /\ Go(p, "migrate")
    <3>1. run'[p].at = "migrate" /\ run'[p].want = run[p].want
      BY <1>0, <2>2, Going DEF Carries
    <3> QED BY <1>9, <2>1, <2>2, <3>1 DEF Verify, Verified, Safe, Noted, Exact, PutBack
  <2>3. CASE GoFirst(p, "undo")
    <3>1. run'[p].at = "undo"
      BY <1>0, <2>3, Going
    <3> QED BY <2>1, <3>1 DEF Safe, Noted, Exact, PutBack
  <2> QED BY <1>9, <2>2, <2>3 DEF Verify
<1>10. CASE Activate(p)
  <2>1. CASE GoFirst(p, "undo") /\ UNCHANGED <<lock, manifests, whole>>
    <3>1. run'[p].at = "undo"
      BY <1>0, <2>1, Going
    <3>2. Covered(p)'
      BY <1>10, <2>1, StaysCovered DEF Activate, At, Replacing
    <3> QED BY <3>1, <3>2 DEF Safe, Noted, Exact, PutBack
  <2> QED BY <1>1, <1>10, <2>1 DEF Activate
<1>11. CASE Undo(p) \/ Restore(p)
  <2>1. PICK then \in PutBack : RestoreFile(p, then)
    BY <1>11 DEF Undo, Restore, PutBack
  <2>2. run[p].at \in {"undo", "restore"} /\ UNCHANGED manifests
    BY <1>11 DEF Undo, Restore, At
  <2>3. Covered(p)'
    BY <1>11, <2>2, StaysCovered DEF Undo, Restore, history, Replacing
  <2>4. \/ run'[p].at = "end"
        \/ run'[p].at = run[p].at
        \/ run'[p].at = then /\ target' = manifests'[run'[p].manifest].saved.files
    BY <2>1, <2>2, RestoreExact
  <2> QED BY <2>2, <2>3, <2>4 DEF Safe, Noted, Exact, PutBack
<1>12. CASE UndoDrop(p) \/ RestoreDrop(p) \/ RestoreBase(p)
  <2>1. /\ run[p].at \in PutBack /\ UNCHANGED <<target, manifests, whole, atLock>>
        /\ \E at \in PutBack : Go(p, at)
    BY <1>12 DEF UndoDrop, RestoreDrop, RestoreBase, Drop, At, history, PutBack
  <2>2. run'[p].at \in PutBack /\ run'[p].manifest = run[p].manifest
    BY <1>0, <2>1, Going DEF Carries
  <2>3. Covered(p)'
    BY <2>1, StaysCovered DEF Replacing
  <2>4. target' = manifests'[run'[p].manifest].saved.files
    BY <1>0, <2>1, <2>2 DEF Safe, Exact
  <2> QED BY <2>2, <2>3, <2>4 DEF Safe, Noted, Exact, PutBack
<1>13. CASE Preserve(p)
  <2>1. run'[p].at = "restore"
    BY <1>0, <1>13, Going DEF Preserve
  <2>2. [files |-> target, base |-> base] \in Backups'
    BY <1>13 DEF Preserve, Backups
  <2>3. target \in SavedBundles' /\ Messages \subseteq SavedMessages'
    BY <2>2 DEF SavedBundles, SavedMessages, MessagesOf, Messages
  <2>4. whole' \subseteq SavedBundles' /\ atLock' \subseteq SavedMessages'
    BY <1>0, <1>13, <2>3, SavedKept DEF Preserve, history, InstallInv, BundlesKept, MessagesKept
  <2> QED BY <2>1, <2>4 DEF Safe, Covered, Noted, Exact, PutBack
<1>14. CASE UndoBase(p) \/ Restored(p) \/ KillInstaller(p)
  BY <1>1, <1>14 DEF UndoBase, Restored, KillInstaller
<1> QED BY <1>2, <1>3, <1>4, <1>5, <1>6, <1>7, <1>8, <1>9, <1>10, <1>11, <1>12, <1>13, <1>14
        DEF Installer

LEMMA BundlesStep ==
    ASSUME InstallInv, [InstallNext]_installVars
    PROVE  BundlesKept'
<1>0. /\ SavedBundles \subseteq SavedBundles'
      /\ whole \subseteq SavedBundles \union {target}
  BY SavedKept DEF InstallInv, BundlesKept
<1>1. ASSUME UNCHANGED <<target, whole>> PROVE BundlesKept'
  BY <1>0, <1>1 DEF BundlesKept
<1>2. CASE WriteMessage \/ (\E f \in Files, v \in Version : Edit(f, v)) \/ UNCHANGED installVars
  BY <1>1, <1>2 DEF WriteMessage, Edit, installVars, history
<1>3. ASSUME NEW p \in Process, Installer(p) PROVE BundlesKept'
  <2>1. CASE Copy(p) \/ Undo(p) \/ Restore(p)
    <3>1. whole \subseteq SavedBundles
      BY <2>1 DEF Copy, Undo, Restore, At, Replacing, InstallInv, Safe, Covered
    <3> QED BY <1>0, <2>1, <3>1 DEF Copy, Undo, Restore, history, BundlesKept
  <2>2. CASE Activate(p)
    BY <1>0, <2>2 DEF Activate, BundlesKept
  <2>3. CASE Validate(p) \/ Apply(p) \/ Snapshot(p) \/ Prepare(p) \/ Verify(p) \/ UndoDrop(p)
             \/ UndoBase(p) \/ Rollback(p) \/ Preserve(p) \/ RestoreDrop(p) \/ RestoreBase(p)
             \/ Restored(p) \/ KillInstaller(p)
             \/ \E m \in DOMAIN manifests, restore \in BOOLEAN : Choose(p, m, restore)
    BY <1>1, <2>3 DEF Validate, Apply, Snapshot, Prepare, Verify, UndoDrop, UndoBase, Rollback,
       Preserve, RestoreDrop, RestoreBase, Restored, KillInstaller, Choose, Drop, history
  <2> QED BY <1>3, <2>1, <2>2, <2>3 DEF Installer
<1> QED BY <1>2, <1>3 DEF InstallNext

LEMMA MessagesStep ==
    ASSUME InstallInv, [InstallNext]_installVars
    PROVE  MessagesKept'
<1>0. /\ SavedMessages \subseteq SavedMessages'
      /\ atLock \subseteq SavedMessages \union Messages
      /\ TypeInv /\ InstallTypeOK /\ base \in Bases
  BY SavedKept, Types DEF InstallInv, MessagesKept, TypeInv
<1>1. ASSUME Messages \subseteq Messages', atLock' \subseteq atLock \union Messages
      PROVE  MessagesKept'
  BY <1>0, <1>1 DEF MessagesKept
<1>2. ASSUME base' = base PROVE Messages' = Messages
  BY <1>2 DEF Messages
<1>3. CASE WriteMessage
  <2>0. written \in 0..MaxMessage /\ written < MaxMessage
    BY <1>0, <1>3 DEF WriteMessage, InstallTypeOK
  <2>1. written + 1 \in Message
    BY <2>0, InstallAssumption DEF Message
  <2>2. base \in SUBSET Message /\ base' = base \union {written + 1}
    BY <1>0, <1>3 DEF WriteMessage, Bases
  <2>3. base' # NoBase
    BY <2>1, <2>2, InstallAssumption DEF Message
  <2>4. Messages \subseteq Messages'
    BY <2>2, <2>3 DEF Messages
  <2> QED BY <1>1, <1>3, <2>4 DEF WriteMessage, history
<1>4. CASE (\E f \in Files, v \in Version : Edit(f, v)) \/ UNCHANGED installVars
  BY <1>1, <1>2, <1>4 DEF Edit, installVars, history
<1>5. ASSUME NEW p \in Process, Installer(p) PROVE MessagesKept'
  <2>1. CASE UndoDrop(p) \/ UndoBase(p) \/ RestoreDrop(p) \/ RestoreBase(p)
    <3>1. atLock \subseteq SavedMessages
      BY <2>1 DEF UndoDrop, UndoBase, RestoreDrop, RestoreBase, At, Replacing, PutBack,
                  InstallInv, Safe, Covered
    <3> QED BY <1>0, <2>1, <3>1 DEF UndoDrop, UndoBase, RestoreDrop, RestoreBase, Drop, history,
                                   MessagesKept
  <2>2. CASE Activate(p)
    <3>1. Messages \in SUBSET Message
      BY <1>0, MessagesTyped
    <3>2. Messages' = Messages
      BY <2>2, <3>1, InstallAssumption DEF Activate, Migrated, Messages, Message
    <3> QED BY <1>1, <2>2, <3>2 DEF Activate
  <2>3. CASE Apply(p) \/ Rollback(p)
    BY <1>1, <1>2, <2>3 DEF Apply, Rollback, Refuse, Lock
  <2>4. CASE Validate(p) \/ Snapshot(p) \/ Prepare(p) \/ Copy(p) \/ Verify(p) \/ Undo(p)
             \/ Preserve(p) \/ Restore(p) \/ Restored(p) \/ KillInstaller(p)
             \/ \E m \in DOMAIN manifests, restore \in BOOLEAN : Choose(p, m, restore)
    BY <1>1, <1>2, <2>4 DEF Validate, Snapshot, Prepare, Copy, Verify, Undo, Preserve, Restore,
       Restored, KillInstaller, Choose, history
  <2> QED BY <1>5, <2>1, <2>2, <2>3, <2>4 DEF Installer
<1> QED BY <1>3, <1>4, <1>5 DEF InstallNext

LEMMA InvStep == InstallInv /\ [InstallNext]_installVars => InstallInv'
<1> SUFFICES ASSUME InstallInv, [InstallNext]_installVars PROVE InstallInv'
    OBVIOUS
<1>1. TypeInv /\ Exclusive
  BY DEF InstallInv
<1>2. TypeInv' /\ Exclusive'
  BY <1>1, TypeStep, IndexedStep, ExclusiveStep DEF TypeInv
<1>3. ASSUME NEW q \in Process PROVE Safe(q)'
  <2>1. ASSUME NEW p \in Process, Installer(p) PROVE Safe(q)'
    BY <2>1, OthersSafe, OwnSafe
  <2>2. CASE WriteMessage \/ (\E f \in Files, v \in Version : Edit(f, v)) \/ UNCHANGED installVars
    <3>1. UNCHANGED <<run, target, manifests, preserved, whole, atLock>>
      BY <2>2 DEF WriteMessage, Edit, installVars, history
    <3>2. UNCHANGED <<SavedBundles, SavedMessages>>
      BY <3>1 DEF SavedBundles, SavedMessages, Backups
    <3>3. Safe(q)
      BY DEF InstallInv
    <3> QED BY <3>1, <3>2, <3>3 DEF Safe, Covered, Noted, Exact
  <2> QED BY <2>1, <2>2 DEF InstallNext
<1> QED BY <1>2, <1>3, BundlesStep, MessagesStep DEF InstallInv

LEMMA Invariance == InstallSpec => []InstallInv
  BY InvInit, InvStep, PTL DEF InstallSpec

-----------------------------------------------------------------------------
(* The installer beside the hook installer behaves as it does alone.       *)
THEOREM ComposedInstalls == Spec => InstallSpec
<1>1. Init => InstallInit
  BY DEF Init
<1>2. [Next]_vars => [InstallNext]_installVars
  BY DEF Next, vars, Bundler, Hooker, Install, WriteHooks, WriteState, Uninstall, Unlink, KillHooker,
         UserEdit
<1> QED BY <1>1, <1>2, PTL DEF Spec, InstallSpec

(* A bundle that was once whole is installed or in a backup.               *)
THEOREM BundlesAreKept == Spec => []WholeSaved
<1>1. InstallInv => WholeSaved
  BY DEF InstallInv, BundlesKept, SavedBundles, WholeSaved
<1> QED BY <1>1, Invariance, ComposedInstalls, PTL

(* A message that was there when a lock was taken is there or in a backup. *)
THEOREM MessagesAreKept == Spec => []MessagesSaved
<1>1. ASSUME NEW x \in SavedMessages
      PROVE  x \in UNION {s.base : s \in {b \in Backups : b.base # NoBase}}
  <2>1. PICK s \in Backups : x \in MessagesOf(s.base)
    BY DEF SavedMessages
  <2> QED BY <2>1 DEF MessagesOf
<1>2. InstallInv => MessagesSaved
  BY <1>1 DEF InstallInv, MessagesKept, MessagesSaved
<1> QED BY <1>2, Invariance, ComposedInstalls, PTL

(* What a manifest comes to say is true of the files when it says so.      *)
LEMMA VerdictStep ==
    ASSUME InstallInv, [InstallNext]_installVars, NEW m \in DOMAIN manifests
    PROVE  /\ EndsAs(m, "activated") => \E p \in Process : target' = run[p].want
           /\ EndsAs(m, "failed") \/ EndsAs(m, "rolled_back")
                 => target' = manifests[m].saved.files
<1> DEFINE Ends == \E s \in {"activated", "failed", "rolled_back"} : EndsAs(m, s)
<1>0. TypeInv /\ InstallTypeOK /\ (\A p \in Process : Safe(p)) /\ m \in 1..Len(manifests)
  BY Types DEF InstallInv, TypeInv
<1>1. ASSUME manifests' = manifests PROVE ~Ends
  BY <1>1 DEF EndsAs
<1>2. ASSUME NEW p \in Process, NEW s, SetStatus(p, s), Ends
      PROVE  EndsAs(m, s) /\ m = run[p].manifest /\ \A x : EndsAs(m, x) => x = s
  BY <1>0, <1>2, Types DEF SetStatus, EndsAs, Manifest
<1>3. ASSUME NEW p \in Process, Installer(p), Ends
      PROVE  /\ EndsAs(m, "activated") => target' = run[p].want
             /\ EndsAs(m, "failed") \/ EndsAs(m, "rolled_back")
                   => target' = manifests[m].saved.files
  <2>1. CASE Activate(p)
    <3>1. SetStatus(p, "activated") /\ target' = run[p].want
      BY <1>0, <1>1, <1>3, <2>1 DEF Activate, At, Safe, Exact
    <3> QED BY <1>2, <1>3, <3>1
  <2>2. CASE UndoBase(p) \/ Restored(p)
    <3>1. PICK s \in {"failed", "rolled_back"} : SetStatus(p, s)
      BY <2>2 DEF UndoBase, Restored
    <3>2. target' = manifests[run[p].manifest].saved.files
      BY <1>0, <2>2 DEF UndoBase, Restored, At, Safe, Exact, PutBack
    <3> QED BY <1>2, <1>3, <3>1, <3>2
  <2>3. CASE Prepare(p)
    <3>1. manifests'[m] = manifests[m]
      BY <1>0, <2>3, Types DEF Prepare
    <3> QED BY <1>3, <3>1 DEF EndsAs
  <2>4. CASE Validate(p) \/ Apply(p) \/ Snapshot(p) \/ Copy(p) \/ Verify(p) \/ Undo(p)
             \/ UndoDrop(p) \/ Rollback(p) \/ Preserve(p) \/ Restore(p) \/ RestoreDrop(p)
             \/ RestoreBase(p) \/ KillInstaller(p)
             \/ \E n \in DOMAIN manifests, restore \in BOOLEAN : Choose(p, n, restore)
    <3>1. manifests' = manifests
      BY <2>4 DEF Validate, Apply, Snapshot, Copy, Verify, Undo, UndoDrop, Rollback, Preserve,
         Restore, RestoreDrop, RestoreBase, KillInstaller, Choose, Drop
    <3> QED BY <1>1, <1>3, <3>1
  <2> QED BY <1>3, <2>1, <2>2, <2>3, <2>4 DEF Installer
<1>4. ASSUME Ends PROVE \E p \in Process : Installer(p)
  BY <1>1, <1>4 DEF InstallNext, WriteMessage, Edit, installVars
<1> QED BY <1>3, <1>4

(* What a manifest comes to say is true when it says so: activated, the    *)
(* installed files are a validated bundle, undone or rolled back, they are *)
(* the saved ones (apply, rollback_manifest).                              *)
THEOREM VerdictsAreTrue == Spec => VerdictTrue
<1>1. InstallInv /\ [InstallNext]_installVars
      => [\A m \in DOMAIN manifests :
            /\ EndsAs(m, "activated") => \E p \in Process : target' = run[p].want
            /\ (EndsAs(m, "failed") \/ EndsAs(m, "rolled_back"))
                  => target' = manifests[m].saved.files]_installVars
  BY VerdictStep
<1>2. InstallSpec => VerdictTrue
  BY <1>1, Invariance, PTL DEF InstallSpec, VerdictTrue
<1> QED BY <1>2, ComposedInstalls, PTL

-----------------------------------------------------------------------------
(* The hook installer: every event of its own is recorded or orphaned.     *)
(* While the record is about to go, each of them is orphaned.              *)

HooksTypeOK ==
    /\ hooks \in [Event -> Who] /\ state \in (SUBSET Event) \union {Missing}
    /\ hooker \in [at: {"end", "load", "record", "unlink"}, doc: [Event -> Who]]
    /\ orphans \subseteq Event /\ withdrawn \in BOOLEAN

Ours == {e \in Event : hooks[e] = "installer"}

HooksInv ==
    /\ HooksTypeOK
    /\ Ours \subseteq Owned \union orphans
    /\ hooker.at = "unlink" => Ours \subseteq orphans

LEMMA HooksInit == Init => HooksInv
<1> SUFFICES ASSUME Init PROVE HooksInv
    OBVIOUS
<1>1. hooks = [e \in Event |-> "none"] /\ "none" \in Who
  BY DEF Init, Who
<1>2. hooker \in [at: {"end", "load", "record", "unlink"}, doc: [Event -> Who]]
  BY <1>1 DEF Init, Idle
<1>3. Ours = {}
  BY <1>1 DEF Ours
<1> QED BY <1>1, <1>2, <1>3 DEF Init, Idle, HooksInv, HooksTypeOK

LEMMA HooksStep == HooksInv /\ [Next]_vars => HooksInv'
<1> SUFFICES ASSUME HooksInv, [Next]_vars PROVE HooksInv'
    OBVIOUS
<1> USE DEF HooksInv, HooksTypeOK, Ours, Owned, Idle, Who, Present, Added
<1>0. \A es \in SUBSET Event : es # Missing
  BY HooksAssumption
<1>1. CASE Bundler
  BY <1>1 DEF Bundler
<1>2. ASSUME NEW e \in Event, UserEdit(e) PROVE HooksInv'
  BY <1>2 DEF UserEdit
<1>3. CASE Install
  BY <1>3 DEF Install
<1>4. CASE WriteHooks
  BY <1>4 DEF WriteHooks
<1>5. CASE WriteState
  BY <1>0, <1>5 DEF WriteState, Recorded
<1>6. CASE Uninstall
  BY <1>6 DEF Uninstall, Removed
<1>7. CASE Unlink
  BY <1>7 DEF Unlink
<1>8. CASE KillHooker
  BY <1>8 DEF KillHooker
<1>9. CASE UNCHANGED vars
  BY <1>9 DEF vars, hooksVars
<1> QED BY <1>1, <1>2, <1>3, <1>4, <1>5, <1>6, <1>7, <1>8, <1>9 DEF Next, Hooker

(* What the installer added can be taken away again.                       *)
THEOREM HooksAreReversible == Spec => []Reversible
<1>1. HooksInv => Reversible
  BY DEF HooksInv, Ours, Reversible
<1> QED BY <1>1, HooksInit, HooksStep, PTL DEF Spec

(* Every reachable state of the two installers is well typed.              *)
THEOREM TypeCorrect == Spec => []TypeOK
<1>1. InstallInv /\ HooksInv => TypeOK
  BY DEF InstallInv, TypeInv, HooksInv, HooksTypeOK, TypeOK
<1>2. Spec => []HooksInv
  BY HooksInit, HooksStep, PTL DEF Spec
<1> QED BY <1>1, <1>2, Invariance, ComposedInstalls, PTL

(* An install that found the bridge, or lost it to an installer since,     *)
(* is the only one that can add to hooks.json.                             *)
BridgeInv ==
    /\ HooksTypeOK /\ InstallTypeOK
    /\ hooker.at = "load" \/ Ours # {} => target[Bridge] # Missing \/ withdrawn

LEMMA BridgeStep == BridgeInv /\ [Next]_vars /\ HooksInv' /\ InstallTypeOK' => BridgeInv'
<1> SUFFICES ASSUME BridgeInv, [Next]_vars, HooksInv', InstallTypeOK' PROVE BridgeInv'
    OBVIOUS
<1>0. HooksTypeOK' /\ InstallTypeOK'
  BY DEF HooksInv
<1> USE <1>0 DEF BridgeInv, HooksTypeOK, Ours
<1>1. CASE Bundler
  BY <1>1 DEF Bundler
<1>2. ASSUME NEW e \in Event, UserEdit(e) PROVE BridgeInv'
  BY <1>2 DEF UserEdit, installVars, Idle
<1>3. CASE Install
  BY <1>3 DEF Install, BridgeFound, installVars
<1>4. CASE WriteHooks
  BY <1>4 DEF WriteHooks, installVars, Idle
<1>5. CASE WriteState \/ Unlink \/ KillHooker
  BY <1>5 DEF WriteState, Unlink, KillHooker, installVars, Idle
<1>6. CASE Uninstall
  BY <1>6 DEF Uninstall, Removed, installVars
<1>7. CASE UNCHANGED vars
  BY <1>7 DEF vars, hooksVars, installVars
<1> QED BY <1>1, <1>2, <1>3, <1>4, <1>5, <1>6, <1>7 DEF Next, Hooker

(* Codex is pointed at a bridge that is there, unless an undone or rolled  *)
(* back bundle took it away.                                               *)
THEOREM BridgeIsThere == Spec => []BridgeThere
<1>1. Init => BridgeInv
  <2>1. ASSUME Init PROVE hooker.at # "load" /\ Ours = {}
    BY <2>1 DEF Init, Idle, Ours
  <2> QED BY <2>1, HooksInit, TypeInit DEF BridgeInv, HooksInv, Init
<1>2. Spec => []HooksInv
  BY HooksInit, HooksStep, PTL DEF Spec
<1>3. InstallInv => InstallTypeOK
  BY DEF InstallInv, TypeInv
<1>4. BridgeInv => BridgeThere
  BY DEF BridgeInv, Ours, BridgeThere
<1> QED BY <1>1, <1>2, <1>3, <1>4, BridgeStep, Invariance, ComposedInstalls, PTL DEF Spec
=============================================================================
