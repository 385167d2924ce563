----------------------------- MODULE MemorySync -----------------------------
(***************************************************************************)
(* The memory transport: one repository per machine and a bare relay,      *)
(* transport.py's sync_repo over candidate remotes, the hooks that commit  *)
(* and pull beside it, and the reconciler that reports a verdict.  Git is  *)
(* modelled by what these calls rely on.  An edit is one change to one     *)
(* file and becomes one commit; a rebase keeps its identity.  The second   *)
(* repository of a machine is synchronised alike and independently, and    *)
(* mid-merge is treated as mid-rebase.                                     *)
(***************************************************************************)
EXTENDS Naturals, Sequences, FiniteSets, SequencesExt

CONSTANTS
    Machine, Relay,
    Winpc,           \* the machine with the reconciler; no one reads the other's status
    Candidates,      \* the remotes a machine tries, in order
    File, Clash,     \* files; those on which concurrent edits conflict
    Attempts,        \* of a push
    MaxEdit          \* bound on the edits

Host == Machine \union {Relay}

ASSUME SyncAssumption ==
    /\ Relay \notin Machine /\ Winpc \in Machine /\ Clash \subseteq File
    /\ Candidates \in [Machine -> Seq(Host)]
    /\ \A m \in Machine : \A i \in DOMAIN Candidates[m] : Candidates[m][i] # m
    /\ Attempts \in Nat \ {0} /\ MaxEdit \in Nat

VARIABLES
    edits,       \* the edits ever made: which file, on which machine
    repo,        \* branch, rebase under way, uncommitted edits
    sync,        \* the run of cli.py sync on each machine
    status,      \* the status file of Winpc
    due,         \* history: what Winpc had committed when the reconciler's run began to pull
    other        \* history: another process wrote the status since the run began

syncVars == <<edits, repo, sync, status, due, other>>

Edit    == 1..MaxEdit
Done    == [at |-> "end", cand |-> 0, tries |-> 0, state |-> "UNKNOWN", reconciles |-> FALSE]
NoRepo  == [branch |-> <<>>, tree |-> {}, rebasing |-> FALSE, head |-> <<>>, left |-> <<>>]

SyncInit ==
    /\ edits = <<>> /\ repo = [h \in Host |-> NoRepo]
    /\ sync = [m \in Machine |-> Done]
    /\ status = [verdict |-> "none", fresh |-> FALSE] /\ due = {} /\ other = FALSE

-----------------------------------------------------------------------------
(* Git.  Commits are put in the order of their edits, and what one branch  *)
(* has and another has not in the order of the branch.                     *)
In(s)         == {s[i] : i \in DOMAIN s}
Rank(K, i)    == Cardinality({j \in K : j <= i})
Ascending(K)  == [n \in 1..Cardinality(K) |-> CHOOSE i \in K : Rank(K, i) = n]
Without(s, t) == LET kept == Ascending({i \in DOMAIN s : s[i] \notin In(t)})
                 IN  [n \in DOMAIN kept |-> s[kept[n]]]
Touched(es)   == {edits[e].file : e \in es}
Tracked(m)    == Touched(In(repo[m].branch))
InTheWay(m, r) == Touched(repo[m].tree) \cap (Tracked(m) \union Tracked(r)) # {}
Commits(m)    == Ascending(repo[m].tree)

(* add -A and commit: on the branch, or on the detached HEAD of a rebase.  *)
Committed(m) ==
    IF repo[m].rebasing
    THEN [repo[m] EXCEPT !.head = @ \o Commits(m), !.tree = {}]
    ELSE [repo[m] EXCEPT !.branch = @ \o Commits(m), !.tree = {}]

(* pull --rebase: uncommitted edits are in the way of files either side    *)
(* tracks; what only this side has is put after the other branch, and the  *)
(* first commit that clashes stops it.                                     *)
Mine(m, r)  == Without(repo[m].branch, repo[r].branch)
Theirs(m, r) == Without(repo[r].branch, repo[m].branch)
Clashes(m, r) ==
    {i \in DOMAIN Mine(m, r) : edits[Mine(m, r)[i]].file \in Clash \cap Touched(In(Theirs(m, r)))}
Current(m, r) == IsPrefix(repo[r].branch, repo[m].branch)
MayPull(m, r) == ~repo[m].rebasing /\ ~InTheWay(m, r)
Conflicts(m, r) == ~Current(m, r) /\ Clashes(m, r) # {}

Rebased(m, r) ==
    IF Current(m, r) THEN repo[m]
    ELSE [repo[m] EXCEPT !.branch = repo[r].branch \o Mine(m, r)]
Stopped(m, r) ==
    LET k == CHOOSE i \in Clashes(m, r) : \A j \in Clashes(m, r) : i <= j
    IN  [repo[m] EXCEPT !.rebasing = TRUE,
                        !.head = repo[r].branch \o SubSeq(Mine(m, r), 1, k - 1),
                        !.left = SubSeq(Mine(m, r), k, Len(Mine(m, r)))]

(* push: a fast-forward, and with updateInstead into a clean worktree.     *)
AcceptsAny(m, r) == TRUE                                     \* seeded fault
Accepts(m, r) ==
    IsPrefix(repo[r].branch, repo[m].branch) /\ ~repo[r].rebasing /\ ~InTheWay(r, m)

-----------------------------------------------------------------------------
(* A session edits a memory; hook-commit-on-write commits it without a     *)
(* look at the state of the repository.                                    *)
Write(m, f) ==
    /\ Len(edits) < MaxEdit /\ edits' = Append(edits, [file |-> f, by |-> m])
    /\ repo' = [repo EXCEPT ![m].tree = @ \union {Len(edits')}]
    /\ UNCHANGED <<sync, status, due, other>>

CommitOnWrite(m) ==
    /\ repo[m].tree # {}
    /\ repo' = [repo EXCEPT ![m] = Committed(m)]
    /\ UNCHANGED <<edits, sync, status, due, other>>

(* The checks of cli.py beside the sync: completeness, lint, placement.    *)
Verdict(states) == IF "FAIL" \in states THEN "BAD"
                   ELSE IF "UNKNOWN" \in states THEN "DEGRADED" ELSE "OK"

(* hook-pull: a bounded pull whose outcome is ignored, then cli.py index.  *)
HookPull(m, r) ==
    \/ MayPull(m, r) /\ repo' = [repo EXCEPT ![m] = IF Conflicts(m, r) THEN Stopped(m, r)
                                                ELSE Rebased(m, r)]
    \/ UNCHANGED repo

SessionStart(m) ==
    /\ Candidates[m] # <<>> /\ HookPull(m, Candidates[m][1])
    /\ IF m # Winpc THEN UNCHANGED <<status, other>>
       ELSE /\ other' = sync[m].reconciles
            /\ \E check \in {"PASS", "FAIL"} :
                  status' = [verdict |-> Verdict({check}), fresh |-> TRUE]
    /\ UNCHANGED <<edits, sync, due>>

-----------------------------------------------------------------------------
(* sync_repo, one run at a time on a machine, by the reconciler or by the  *)
(* hook at the end of a session.                                           *)
At(m, at)    == sync[m].at = at
Go(m, at)    == sync' = [sync EXCEPT ![m].at = at]
GoWith(m, at, s) == sync' = [sync EXCEPT ![m].at = at, ![m].state = s]
Remote(m)    == Candidates[m][sync[m].cand]
NextCandidate(m, s) ==
    sync' = [sync EXCEPT ![m].state = s, ![m].tries = 0, ![m].cand = @ + 1, ![m].at =
                IF sync[m].cand < Len(Candidates[m]) THEN "pull" ELSE "status"]
Rest == <<edits, status, due, other>>

(* What the reconciler takes for fresh was written at most five seconds    *)
(* before it started.                                                      *)
SyncBegin(m) ==
    /\ At(m, "end") /\ sync' = [sync EXCEPT ![m] = [Done EXCEPT !.at = "guard"]]
    /\ UNCHANGED <<repo, Rest>>

Reconcile ==
    /\ At(Winpc, "end")
    /\ sync' = [sync EXCEPT ![Winpc] = [Done EXCEPT !.at = "guard", !.reconciles = TRUE]]
    /\ \E recent \in BOOLEAN :
          /\ recent => status.fresh
          /\ status' = [status EXCEPT !.fresh = recent] /\ other' = recent
    /\ UNCHANGED <<edits, repo, due>>

(* repo_state; commit_all ignores a commit that fails, because another git *)
(* holds the index.                                                        *)
Guard(m) ==
    /\ At(m, "guard")
    /\ IF repo[m].rebasing THEN GoWith(m, "status", "FAIL") ELSE Go(m, "commit")
    /\ UNCHANGED <<repo, Rest>>

Commit(m) ==
    /\ At(m, "commit")
    /\ \/ repo' = [repo EXCEPT ![m] = Committed(m)]
       \/ UNCHANGED repo
    /\ sync' = [sync EXCEPT ![m].at = IF Candidates[m] = <<>> THEN "status" ELSE "pull",
                            ![m].cand = 1]
    /\ due' = IF sync[m].reconciles THEN In(repo'[m].branch) ELSE due
    /\ UNCHANGED <<edits, status, other>>

(* pull_rebase: PASS, FAIL, or UNKNOWN when the remote is out of reach.    *)
Unreachable(m) ==
    /\ At(m, "pull") /\ NextCandidate(m, "UNKNOWN") /\ UNCHANGED <<repo, Rest>>

PullFails(m) ==
    /\ At(m, "pull") /\ NextCandidate(m, "FAIL")
    /\ \/ ~MayPull(m, Remote(m)) /\ UNCHANGED repo
       \/ /\ MayPull(m, Remote(m)) /\ Conflicts(m, Remote(m))
          /\ repo' = [repo EXCEPT ![m] = Stopped(m, Remote(m))]
    /\ UNCHANGED Rest

Pull(m) ==
    /\ At(m, "pull") /\ MayPull(m, Remote(m)) /\ ~Conflicts(m, Remote(m))
    /\ repo' = [repo EXCEPT ![m] = Rebased(m, Remote(m))]
    /\ Go(m, "push") /\ UNCHANGED Rest

(* push_with_retry: a rejected push pulls and tries again.                 *)
Push(m) ==
    /\ At(m, "push") /\ Accepts(m, Remote(m))
    /\ repo' = [repo EXCEPT ![Remote(m)].branch = repo[m].branch]
    /\ GoWith(m, "status", "PASS") /\ UNCHANGED Rest

PushLost(m) ==
    /\ At(m, "push") /\ NextCandidate(m, "FAIL") /\ UNCHANGED <<repo, Rest>>

Exhausted(m) == sync[m].tries + 1 = Attempts
Rejected(m) ==
    /\ At(m, "push") /\ ~Accepts(m, Remote(m)) /\ Go(m, "retry")
    /\ UNCHANGED <<repo, Rest>>

Retry(m) ==
    /\ At(m, "retry")
    /\ \/ NextCandidate(m, "UNKNOWN") /\ UNCHANGED repo
       \/ ~MayPull(m, Remote(m)) /\ NextCandidate(m, "FAIL") /\ UNCHANGED repo
       \/ /\ MayPull(m, Remote(m)) /\ Conflicts(m, Remote(m)) /\ NextCandidate(m, "FAIL")
          /\ repo' = [repo EXCEPT ![m] = Stopped(m, Remote(m))]
       \/ /\ MayPull(m, Remote(m)) /\ ~Conflicts(m, Remote(m))
          /\ repo' = [repo EXCEPT ![m] = Rebased(m, Remote(m))]
          /\ IF Exhausted(m) THEN NextCandidate(m, "FAIL")
             ELSE sync' = [sync EXCEPT ![m].at = "push", ![m].tries = @ + 1]
    /\ UNCHANGED Rest

(* _regenerate writes the verdict, unless the run is killed before.        *)
WriteStatus(m) ==
    /\ At(m, "status")
    /\ IF m # Winpc THEN UNCHANGED status
       ELSE \E check \in {"PASS", "FAIL"} :
               status' = [verdict |-> Verdict({check, sync[m].state}), fresh |-> TRUE]
    /\ sync' = [sync EXCEPT ![m] = IF @.reconciles THEN [@ EXCEPT !.at = "report"] ELSE Done]
    /\ UNCHANGED <<edits, repo, due, other>>

SyncKilled(m) ==
    /\ sync[m].at \notin {"end", "report"}
    /\ sync' = [sync EXCEPT ![m] = IF @.reconciles THEN [@ EXCEPT !.at = "report"] ELSE Done]
    /\ UNCHANGED <<repo, Rest>>

(* reconcile.ps1 reads the status file; a stale one is BAD.                *)
ReportedAny == status.verdict                                \* seeded fault
Reported == IF status.fresh THEN status.verdict ELSE "BAD"

Report ==
    /\ At(Winpc, "report") /\ sync' = [sync EXCEPT ![Winpc] = Done]
    /\ due' = {} /\ other' = FALSE
    /\ UNCHANGED <<edits, repo, status>>

(* The user finishes a rebase, keeping both sides of each clash.           *)
Resolve(m) ==
    /\ repo[m].rebasing /\ repo[m].tree = {}
    /\ repo' = [repo EXCEPT ![m] = [NoRepo EXCEPT
                   !.branch = repo[m].head \o Without(repo[m].left, repo[m].head)]]
    /\ UNCHANGED <<sync, Rest>>

Sync(m) ==
    \/ SyncBegin(m) \/ Guard(m) \/ Commit(m) \/ Unreachable(m) \/ PullFails(m) \/ Pull(m)
    \/ Push(m) \/ PushLost(m) \/ Rejected(m) \/ Retry(m) \/ WriteStatus(m) \/ SyncKilled(m)

SyncNext ==
    \/ Reconcile \/ Report
    \/ \E m \in Machine :
          \/ Sync(m) \/ CommitOnWrite(m) \/ SessionStart(m) \/ Resolve(m)
          \/ \E f \in File : Write(m, f)

SyncSpec == SyncInit /\ [][SyncNext]_syncVars
-----------------------------------------------------------------------------
(* The values the variables take.                                          *)
SyncTypeOK ==
    /\ edits \in Seq([file: File, by: Machine]) /\ Len(edits) <= MaxEdit
    /\ repo \in [Host -> [branch: Seq(Edit), tree: SUBSET Edit, rebasing: BOOLEAN,
                          head: Seq(Edit), left: Seq(Edit)]]
    /\ sync \in [Machine ->
          [at: {"end", "guard", "commit", "pull", "push", "retry", "status", "report"},
           cand: Nat, tries: 0..Attempts - 1, state: {"PASS", "FAIL", "UNKNOWN"},
           reconciles: BOOLEAN]]
    /\ status \in [verdict: {"none", "OK", "DEGRADED", "BAD"}, fresh: BOOLEAN]
    /\ due \subseteq Edit /\ other \in BOOLEAN

(* A memory written on a machine stays there, uncommitted, on the branch   *)
(* or in the rebase under way, and is on the branch once, whatever is      *)
(* pulled, rebased, pushed by the peer or committed by the hook meanwhile. *)
NothingLost ==
    /\ \A e \in DOMAIN edits :
          LET r == repo[edits[e].by]
          IN  e \in r.tree \union In(r.branch) \union In(r.head)
    /\ \A h \in Host : \A i, j \in DOMAIN repo[h].branch :
          repo[h].branch[i] = repo[h].branch[j] => i = j

(* When the reconciler reports OK and no other process wrote the status    *)
(* since its run began, every edit committed when the run began to pull is *)
(* in another repository.                                                  *)
OkIsCarried ==
    [][Report /\ Reported = "OK" /\ ~other
       => \E i \in DOMAIN Candidates[Winpc] :
             due \subseteq In(repo[Candidates[Winpc][i]].branch)]_syncVars
=============================================================================
