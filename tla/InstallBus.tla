----------------------------- MODULE InstallBus -----------------------------
(***************************************************************************)
(* install_bus.py: apply and rollback of the bundle, as processes that may *)
(* be killed between any two file operations, while sessions go on writing *)
(* to the database and the source tree is edited.  Whether a listener is   *)
(* live when an installer looks is left open: any attempt may be refused.  *)
(* A file is the version of its content, its mode is left out; a database  *)
(* is the set of the messages in it.  A copy or a restore that raises in   *)
(* the middle ends its process as a kill does.                             *)
(***************************************************************************)
EXTENDS Naturals, Sequences, FiniteSets

CONSTANTS
    Bundle,          \* the files of the bundle, in the order they are copied
    Version,         \* contents a source file may have
    Missing,         \* content of a file that does not exist
    Process,         \* bound on the installers running at a time
    Nobody,          \* holder of a lock that is free
    NoBase,          \* database that does not exist
    MaxMessage,      \* bound on the messages written
    MaxManifest,     \* bound on the manifests
    MaxPreserved     \* bound on the failed states preserved

ASSUME InstallAssumption ==
    /\ Missing \notin Version /\ Nobody \notin Process /\ Len(Bundle) \in Nat \ {0}
    /\ MaxMessage \in Nat /\ MaxManifest \in Nat /\ MaxPreserved \in Nat
    /\ \A ms \in SUBSET (1..MaxMessage) : ms # NoBase

VARIABLES
    source,      \* the source tree
    target,      \* the installed files
    base,        \* the database, bus.db
    written,     \* number of messages ever written
    lock,        \* holder of .v5-install.lock
    manifests,   \* the backup directories with their manifests
    preserved,   \* the failed-state directories of rollbacks
    run,         \* the installers under way
    whole,       \* history: the bundles that have been installed whole
    atLock       \* history: messages in the database when a lock was taken

world      == <<source, written>>
history    == <<whole, atLock>>
installVars == <<world, target, base, lock, manifests, preserved, run, history>>

Length   == Len(Bundle)
Files    == {Bundle[i] : i \in 1..Length}
Contents == [Files -> Version \union {Missing}]
Message  == 1..MaxMessage
Bases    == (SUBSET Message) \union {NoBase}
Saved    == [files: Contents, base: Bases]
Manifest == [status: {"prepared", "activated", "failed", "rolled_back"}, saved: Saved]

NoFiles == [f \in Files |-> Missing]
Still   == [at |-> "end", want |-> NoFiles, file |-> 0, manifest |-> 0, base |-> NoBase,
            restore |-> FALSE]

InstallInit ==
    /\ source \in {[f \in Files |-> v] : v \in Version}
    /\ target \in {[f \in Files |-> c] : c \in Version \union {Missing}}
    /\ base \in {NoBase, {}} /\ written = 0
    /\ lock = Nobody /\ manifests = <<>> /\ preserved = {}
    /\ run = [p \in Process |-> Still] /\ whole = {target} /\ atLock = {}

-----------------------------------------------------------------------------
(* The surroundings: sessions write messages, the source tree is edited.   *)

WriteMessage ==
    /\ base # NoBase /\ written < MaxMessage
    /\ written' = written + 1 /\ base' = base \union {written'}
    /\ UNCHANGED <<source, target, lock, manifests, preserved, run, history>>

Edit(f, v) ==
    /\ source' = [source EXCEPT ![f] = v]
    /\ UNCHANGED <<written, target, base, lock, manifests, preserved, run, history>>

-----------------------------------------------------------------------------
At(p, at)      == run[p].at = at
Go(p, at)      == run' = [run EXCEPT ![p].at = at]
GoFirst(p, at) == run' = [run EXCEPT ![p].at = at, ![p].file = 1]
GoFile(p, then) == IF run[p].file = Length THEN Go(p, then)
                   ELSE run' = [run EXCEPT ![p].file = @ + 1]
End(p)         == /\ run' = [run EXCEPT ![p] = Still]
                  /\ lock' = IF lock = p THEN Nobody ELSE lock
Messages       == IF base = NoBase THEN {} ELSE base
SetStatus(p, s) == manifests' = [manifests EXCEPT ![run[p].manifest].status = s]

(* install_lock; what it guards is the target.                             *)
Free == lock = Nobody

Refuse(p) == Free /\ End(p) /\ UNCHANGED atLock
Lock(p)   == Free /\ lock' = p /\ atLock' = atLock \union Messages

(* apply: the bundle is validated before the lock is taken and after, and  *)
(* listeners must be drained unless --allow-active.                        *)
Validated == source

Validate(p) ==
    /\ At(p, "end") /\ Len(manifests) < MaxManifest
    /\ run' = [run EXCEPT ![p].at = "lock", ![p].want = Validated]
    /\ UNCHANGED <<world, target, base, lock, manifests, preserved, history>>

Apply(p) ==
    /\ At(p, "lock")
    /\ \/ Refuse(p)                      \* a listener, or another source
       \/ Lock(p) /\ Validated = run[p].want /\ Go(p, "snapshot")
    /\ UNCHANGED <<world, target, base, manifests, preserved, whole>>

(* The files and the database are saved, then the manifest is written.     *)
Snapshot(p) ==
    /\ At(p, "snapshot")
    /\ run' = [run EXCEPT ![p].at = "prepare", ![p].base = base]
    /\ UNCHANGED <<world, target, base, lock, manifests, preserved, history>>

SavedAfter(p)  == [files |-> run[p].want, base |-> run[p].base]    \* seeded fault
SavedFiles(p)  == [files |-> target, base |-> NoBase]              \* seeded fault
SavedBefore(p) == [files |-> target, base |-> run[p].base]

Prepare(p) ==
    /\ At(p, "prepare") /\ Len(manifests) < MaxManifest
    /\ manifests' = Append(manifests, [status |-> "prepared", saved |-> SavedBefore(p)])
    /\ run' = [run EXCEPT ![p].at = "copy", ![p].file = 1, ![p].manifest = Len(manifests')]
    /\ UNCHANGED <<world, target, base, lock, preserved, history>>

(* Each file is replaced by what the source holds by then; when copying    *)
(* fails, all is undone.                                                   *)
Replace(f, c) == target' = [target EXCEPT ![f] = c]

Copy(p) ==
    /\ At(p, "copy")
    /\ \/ /\ Replace(Bundle[run[p].file], source[Bundle[run[p].file]])
          /\ GoFile(p, "verify")
       \/ GoFirst(p, "undo") /\ UNCHANGED target
    /\ UNCHANGED <<world, base, lock, manifests, preserved, history>>

VerifiedAny(p) == TRUE                                       \* seeded fault
Verified(p)    == target = run[p].want

Verify(p) ==
    /\ At(p, "verify")
    /\ IF Verified(p) THEN Go(p, "migrate") ELSE GoFirst(p, "undo")
    /\ UNCHANGED <<world, target, base, lock, manifests, preserved, history>>

(* migrate_and_verify runs the installed program, which creates the        *)
(* database if there is none; then the manifest says so.                   *)
Migrated == Messages

Activate(p) ==
    /\ At(p, "migrate") /\ base' = Migrated
    /\ \/ SetStatus(p, "activated") /\ whole' = whole \union {target} /\ End(p)
       \/ GoFirst(p, "undo") /\ UNCHANGED <<lock, manifests, whole>>
    /\ UNCHANGED <<world, target, preserved, atLock>>

-----------------------------------------------------------------------------
(* restore_sources, file by file; its closing comparison of what it finds  *)
(* with the manifest raises.                                               *)
RestoreFile(p, then) ==
    LET saved == manifests[run[p].manifest].saved.files
        f     == Bundle[run[p].file]
    IN  /\ Replace(f, saved[f])
        /\ IF run[p].file = Length /\ target' # saved THEN End(p)
           ELSE GoFile(p, then) /\ UNCHANGED lock

Undo(p) ==
    /\ At(p, "undo") /\ RestoreFile(p, "undo drop")
    /\ UNCHANGED <<world, base, manifests, preserved, history>>

(* The database is put back: first its -wal and -shm are removed, with the *)
(* commits not yet checkpointed, then the snapshot replaces it.            *)
Drop(p) ==
    /\ \E rest \in SUBSET Messages : base' = IF base = NoBase THEN NoBase ELSE rest
    /\ UNCHANGED <<world, target, lock, manifests, preserved, history>>

UndoDrop(p) == At(p, "undo drop") /\ Drop(p) /\ Go(p, "undo base")

UndoBase(p) ==
    /\ At(p, "undo base") /\ base' = run[p].base
    /\ SetStatus(p, "failed") /\ End(p)
    /\ UNCHANGED <<world, target, preserved, history>>

-----------------------------------------------------------------------------
(* rollback --manifest: validated before the lock, then listeners, the     *)
(* present state is preserved, the files and on request the database.      *)
Choose(p, m, restore) ==
    /\ At(p, "end") /\ m \in DOMAIN manifests
    /\ restore => manifests[m].saved.base # NoBase
    /\ run' = [run EXCEPT ![p].at = "wait", ![p].manifest = m, ![p].restore = restore]
    /\ UNCHANGED <<world, target, base, lock, manifests, preserved, history>>

Rollback(p) ==
    /\ At(p, "wait")
    /\ \/ Refuse(p)                      \* a listener
       \/ Lock(p) /\ Go(p, "preserve")
    /\ UNCHANGED <<world, target, base, manifests, preserved, whole>>

Preserve(p) ==
    /\ At(p, "preserve") /\ Cardinality(preserved) < MaxPreserved /\ GoFirst(p, "restore")
    /\ preserved' = preserved \union {[files |-> target, base |-> base]}
    /\ UNCHANGED <<world, target, base, lock, manifests, history>>

Restore(p) ==
    /\ At(p, "restore")
    /\ RestoreFile(p, IF run[p].restore THEN "restore drop" ELSE "restored")
    /\ UNCHANGED <<world, base, manifests, preserved, history>>

RestoreDrop(p) == At(p, "restore drop") /\ Drop(p) /\ Go(p, "restore base")

RestoreBase(p) ==
    /\ At(p, "restore base") /\ base' = manifests[run[p].manifest].saved.base
    /\ Go(p, "restored")
    /\ UNCHANGED <<world, target, lock, manifests, preserved, history>>

Restored(p) ==
    /\ At(p, "restored") /\ SetStatus(p, "rolled_back") /\ End(p)
    /\ UNCHANGED <<world, target, base, preserved, history>>

(* The process is killed, or raises: the kernel releases its lock.         *)
KillInstaller(p) ==
    /\ ~At(p, "end") /\ End(p)
    /\ UNCHANGED <<world, target, base, manifests, preserved, history>>

Installer(p) ==
    \/ Validate(p) \/ Apply(p) \/ Snapshot(p) \/ Prepare(p) \/ Copy(p) \/ Verify(p)
    \/ Activate(p) \/ Undo(p) \/ UndoDrop(p) \/ UndoBase(p) \/ Rollback(p) \/ Preserve(p)
    \/ Restore(p) \/ RestoreDrop(p) \/ RestoreBase(p) \/ Restored(p) \/ KillInstaller(p)
    \/ \E m \in DOMAIN manifests, restore \in BOOLEAN : Choose(p, m, restore)

InstallNext ==
    \/ WriteMessage
    \/ \E f \in Files, v \in Version : Edit(f, v)
    \/ \E p \in Process : Installer(p)

InstallSpec == InstallInit /\ [][InstallNext]_installVars
-----------------------------------------------------------------------------
(* The values the variables take.                                          *)
InstallTypeOK ==
    /\ source \in [Files -> Version] /\ target \in Contents /\ base \in Bases
    /\ written \in 0..MaxMessage
    /\ lock \in Process \union {Nobody}
    /\ manifests \in Seq(Manifest) /\ Len(manifests) <= MaxManifest
    /\ preserved \subseteq Saved
    /\ run \in [Process ->
          [at: {"end", "lock", "snapshot", "prepare", "copy", "verify", "migrate", "undo",
                "undo drop", "undo base", "wait", "preserve", "restore", "restore drop",
                "restore base", "restored"},
           want: Contents, file: 0..Length, manifest: 0..MaxManifest, base: Bases,
           restore: BOOLEAN]]
    /\ whole \subseteq Contents /\ atLock \subseteq Message

Backups == {manifests[m].saved : m \in DOMAIN manifests} \union preserved
EndsAs(m, s) == manifests'[m].status = s /\ manifests[m].status # s

(* What a manifest comes to say is true of the installed files when it     *)
(* says so: activated, they are one of the validated source trees whole;   *)
(* undone or rolled back, they are the files the manifest saved, although  *)
(* other installers, edits of the source and kills come in between.        *)
VerdictTrue ==
    [][\A m \in DOMAIN manifests :
          /\ EndsAs(m, "activated") => \E p \in Process : target' = run[p].want
          /\ (EndsAs(m, "failed") \/ EndsAs(m, "rolled_back"))
                => target' = manifests[m].saved.files]_installVars

(* A bundle that was once installed whole is the installed one or is kept  *)
(* in a backup, wherever installers were killed.                           *)
WholeSaved == \A b \in whole : b = target \/ \E s \in Backups : s.files = b

(* A message that was in the database when an installer took the lock is   *)
(* in the database or in a saved one, even when an installer is killed     *)
(* while it replaces the database.                                         *)
MessagesSaved ==
    atLock \subseteq Messages \union UNION {s.base : s \in {b \in Backups : b.base # NoBase}}
=============================================================================
