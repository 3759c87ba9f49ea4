--------------------------- MODULE ManagedRepository ---------------------------
(***************************************************************************)
(* One managed Git repository and the row of PostgreSQL that names its     *)
(* accepted commit (backend/apps/core/repository_service.py).              *)
(*                                                                         *)
(* The branch (a file) and the accepted head (a column) cannot change in   *)
(* one atomic step, so the service orders its effects: take the file lock, *)
(* open the transaction and lock the row, write objects, advance the       *)
(* branch by compare-and-swap, record the accepted commit, commit the      *)
(* transaction, release the lock.  A worker can fail or die between any    *)
(* two of them, and an operator or a damaged disk can change the branch    *)
(* behind the service's back.                                              *)
(*                                                                         *)
(* A commit is content addressed: it is its lineage, the sequence of       *)
(* changes from the root.  Its parent is its front, an ancestor is a       *)
(* prefix, and the empty sequence is the absent commit (None).             *)
(***************************************************************************)
EXTENDS Naturals, Sequences, SequencesExt

CONSTANTS
    Proc,         \* worker processes (requests, tasks, operator commands)
    NoProc,       \* nobody: the row lock is free
    Change,       \* what an authored commit can change
    Foreign,      \* a change some other program put on the branch
    MaxHistory,   \* bound: length of the accepted history
    MaxDrift      \* bound: number of outside interferences

ASSUME NoProcAssumption  == NoProc \notin Proc
ASSUME ForeignAssumption == Foreign \notin Change
ASSUME BoundAssumption   == MaxHistory \in Nat /\ MaxDrift \in Nat

NoCommit == <<>>
Authored == Seq(Change)                 \* commits the service can create
Commit   == Seq(Change \cup {Foreign})  \* anything the branch can name

VARIABLES
    objects,    \* commits present in the object database
    ref,        \* refs/heads/main, NoCommit when absent
    accepted,   \* WorkspaceRepository.accepted_commit, durable
    indexed,    \* WorkspaceRepository.indexed_commit, durable
    published,  \* commits retained by publications, durable
    recorded,   \* last_reconciliation_state, durable
    flock,      \* file lock each process holds: "none", "sh" or "ex"
    row,        \* holder of the row lock (SELECT FOR UPDATE)
    stages,     \* owners of the staging directories on disk
    pc,         \* program counter of each process
    head,       \* the head a process was given or has read
    made,       \* the commit a writer made
    drift       \* outside interferences so far

repo  == <<objects, ref, stages>>
db    == <<accepted, indexed, published, recorded>>
locks == <<flock, row>>
local == <<pc, head, made>>
vars  == <<objects, ref, accepted, indexed, published, recorded, flock, row,
           stages, pc, head, made, drift>>

RepositoryReconciliationState ==
    {"never", "matched", "missing", "advanced", "mismatched", "corrupt",
     "unavailable"}

WritePC == {"w_begin", "w_objects", "w_advance", "w_accept", "w_undo",
            "w_cleanup", "w_commit", "w_unlock"}
ReadPC  == {"r_head", "r_serve"}
PC == {"idle", "w_lock", "r_lock", "c_lock", "x_lock", "p_lock", "i_lock",
       "c_begin", "x_begin", "x_repair", "x_record", "p_begin", "p_insert",
       "i_read", "i_write"} \cup WritePC \cup ReadPC

TypeOK ==
    /\ objects \subseteq Commit
    /\ ref \in Commit
    /\ accepted \in Authored
    /\ indexed \in Authored
    /\ published \subseteq Authored
    /\ recorded \in RepositoryReconciliationState
    /\ flock \in [Proc -> {"none", "sh", "ex"}]
    /\ row \in Proc \cup {NoProc}
    /\ stages \subseteq Proc
    /\ pc \in [Proc -> PC]
    /\ head \in [Proc -> Authored]
    /\ made \in [Proc -> Authored]
    /\ drift \in Nat

Init ==
    /\ objects = {} /\ ref = NoCommit /\ stages = {}
    /\ accepted = NoCommit /\ indexed = NoCommit
    /\ published = {} /\ recorded = "never"
    /\ flock = [p \in Proc |-> "none"] /\ row = NoProc
    /\ pc = [p \in Proc |-> "idle"]
    /\ head = [p \in Proc |-> NoCommit]
    /\ made = [p \in Proc |-> NoCommit]
    /\ drift = 0

-----------------------------------------------------------------------------
(* Classification of the branch against the accepted head. *)

\* git merge-base --is-ancestor
IsAncestor(ancestor, descendant) == IsPrefix(ancestor, descendant)

\* The ordered tests of _classify_reconciliation.
Classify ==
    IF accepted = NoCommit
       THEN IF ref = NoCommit THEN "matched"
            ELSE IF ref \in objects THEN "advanced" ELSE "corrupt"
    ELSE IF accepted \notin objects \/ ref = NoCommit THEN "missing"
    ELSE IF ref = accepted THEN "matched"
    ELSE IF ref \notin objects THEN "corrupt"
    ELSE IF IsAncestor(accepted, ref) THEN "advanced" ELSE "mismatched"

\* The second component: the accepted content can be read.
AcceptedUsable ==
    IF accepted = NoCommit THEN ref = NoCommit ELSE accepted \in objects

\* What _classify_reconciliation can return: its state and whether the accepted
\* content is usable.  Any Git command may fail, which counts as corruption.
Verdicts == { <<Classify, AcceptedUsable>>, <<"corrupt", accepted # NoCommit>> }

-----------------------------------------------------------------------------
(* Locks. *)

LockShared(p) ==
    /\ \A q \in Proc : flock[q] # "ex"
    /\ flock' = [flock EXCEPT ![p] = "sh"]

\* Mutant: writers only keep readers out.
LockExclusiveBesideWriter(p) ==
    /\ \A q \in Proc : flock[q] # "sh"
    /\ flock' = [flock EXCEPT ![p] = "ex"]

LockExclusive(p) ==
    /\ \A q \in Proc : flock[q] = "none"
    /\ flock' = [flock EXCEPT ![p] = "ex"]

SelectForUpdate(p) == row = NoProc /\ row' = p

\* An UPDATE outside a transaction holds the row only for its own duration.
UpdateRow == row = NoProc

Goto(p, label) == pc' = [pc EXCEPT ![p] = label]

\* Mutant: the transaction is left open when the call ends.
LeaveKeepingRow(p) ==
    /\ Goto(p, "idle")
    /\ head' = [head EXCEPT ![p] = NoCommit]
    /\ made' = [made EXCEPT ![p] = NoCommit]
    /\ flock' = [flock EXCEPT ![p] = "none"]
    /\ UNCHANGED row

\* The call returns or raises: the transaction ends, then the lock is released.
Leave(p) ==
    /\ Goto(p, "idle")
    /\ head' = [head EXCEPT ![p] = NoCommit]
    /\ made' = [made EXCEPT ![p] = NoCommit]
    /\ flock' = [flock EXCEPT ![p] = "none"]
    /\ row' = IF row = p THEN NoProc ELSE row

\* LOCK_TIMEOUT_SECONDS expire while another process holds the lock.
LockTimeout(p) ==
    /\ \/ /\ pc[p] \in {"w_lock", "x_lock"}
          /\ \E q \in Proc : flock[q] # "none"
       \/ /\ pc[p] \in {"r_lock", "c_lock", "p_lock", "i_lock"}
          /\ \E q \in Proc : flock[q] = "ex"
    /\ Leave(p)
    /\ UNCHANGED <<repo, db, drift>>

-----------------------------------------------------------------------------
(* commit_repository_files *)

\* The caller composed its change on the head it saw, expected_base.
WriteStart(p) ==
    /\ pc[p] = "idle"
    /\ Goto(p, "w_lock")
    /\ head' = [head EXCEPT ![p] = accepted]
    /\ UNCHANGED <<repo, db, locks, made, drift>>

\* Holding the lock, the writer first removes every staging directory.
WriteLock(p) ==
    /\ pc[p] = "w_lock"
    /\ LockExclusive(p)
    /\ Goto(p, "w_begin")
    /\ stages' = {}
    /\ UNCHANGED <<objects, ref, db, row, head, made, drift>>

\* The branch is not at the accepted head, or cannot be compared with it:
\* record that, commit, and refuse.
WriteRefuse(p) ==
    /\ pc[p] = "w_begin"
    /\ UpdateRow
    /\ \E v \in Verdicts : v[1] # "matched" /\ recorded' = v[1]
    /\ Leave(p)
    /\ UNCHANGED <<repo, accepted, indexed, published, drift>>

\* expected_base is stale, the repository is not active or the migration guard
\* rejects the change: the transaction rolls back, nothing is recorded.
WriteRejected(p) ==
    /\ pc[p] = "w_begin"
    /\ row = NoProc
    /\ Leave(p)
    /\ UNCHANGED <<repo, db, drift>>

WriteBegin(p) ==
    /\ pc[p] = "w_begin"
    /\ Classify = "matched"
    /\ head[p] = accepted
    /\ SelectForUpdate(p)
    /\ stages' = stages \cup {p}
    /\ Goto(p, "w_objects")
    /\ UNCHANGED <<objects, ref, db, flock, head, made, drift>>

\* Mutant: commit-tree without its parent.
WriteOrphanObjects(p) ==
    /\ pc[p] = "w_objects"
    /\ Len(head[p]) < MaxHistory
    /\ \E c \in Change :
         /\ made' = [made EXCEPT ![p] = <<c>>]
         /\ objects' = objects \cup {<<c>>}
    /\ Goto(p, "w_advance")
    /\ UNCHANGED <<ref, stages, db, locks, head, drift>>

\* read-tree .. commit-tree: the objects exist before any name does.
WriteObjects(p) ==
    /\ pc[p] = "w_objects"
    /\ Len(head[p]) < MaxHistory
    /\ \E c \in Change :
         /\ made' = [made EXCEPT ![p] = Append(head[p], c)]
         /\ objects' = objects \cup {Append(head[p], c)}
    /\ Goto(p, "w_advance")
    /\ UNCHANGED <<ref, stages, db, locks, head, drift>>

\* The tree is the base's tree: no commit is made and no head is recorded.
WriteUnchanged(p) ==
    /\ pc[p] = "w_objects"
    /\ head[p] # NoCommit
    /\ made' = [made EXCEPT ![p] = head[p]]
    /\ Goto(p, "w_cleanup")
    /\ UNCHANGED <<repo, db, locks, head, drift>>

\* Mutant: update-ref without the value it expects.
OverwriteRef(p) ==
    /\ pc[p] = "w_advance"
    /\ made[p] \in objects
    /\ ref' = made[p]

\* update-ref new base: the compare-and-swap on the branch, which names only
\* commits that exist.
SwapRef(p) ==
    /\ pc[p] = "w_advance"
    /\ ref = head[p]
    /\ made[p] \in objects
    /\ ref' = made[p]

AdvanceRef(p) ==
    /\ SwapRef(p)
    /\ Goto(p, "w_accept")
    /\ UNCHANGED <<objects, stages, db, locks, head, made, drift>>

\* The command moved the branch but was killed at its timeout: write_commit
\* raises, and since "advanced" was never set nothing moves the branch back.
AdvanceRefTimesOut(p) ==
    /\ SwapRef(p)
    /\ stages' = {}
    /\ Leave(p)
    /\ UNCHANGED <<objects, db, drift>>

\* A Git command before or at the swap fails and leaves the branch alone.
WriteGitFails(p) ==
    /\ pc[p] \in {"w_objects", "w_advance"}
    /\ stages' = {}
    /\ Leave(p)
    /\ UNCHANGED <<objects, ref, db, drift>>

\* _accept_commit and the attribution, inside the open transaction.
AcceptCommit(p) ==
    /\ pc[p] = "w_accept"
    /\ Goto(p, "w_cleanup")
    /\ UNCHANGED <<repo, db, locks, head, made, drift>>

\* They raise (the actor is no member, the database refuses).
AcceptFails(p) ==
    /\ pc[p] = "w_accept"
    /\ Goto(p, "w_undo")
    /\ UNCHANGED <<repo, db, locks, head, made, drift>>

\* rollback_ref, a compare-and-swap back to the base, and the raise.
RollbackRef(p) ==
    /\ pc[p] = "w_undo"
    /\ ref = made[p]
    /\ head[p] \in objects \cup {NoCommit}
    /\ ref' = head[p]
    /\ stages' = {}
    /\ Leave(p)
    /\ UNCHANGED <<objects, db, drift>>

\* rollback_ref itself fails: logged as critical, the branch stays ahead.
RollbackRefFails(p) ==
    /\ pc[p] = "w_undo"
    /\ stages' = {}
    /\ Leave(p)
    /\ UNCHANGED <<objects, ref, db, drift>>

\* Mutant: the new objects are still in the staging directory.
CleanupObjects(p) ==
    /\ pc[p] = "w_cleanup"
    /\ stages' = {}
    /\ objects' = objects \ {made[p]}
    /\ Goto(p, "w_commit")
    /\ UNCHANGED <<ref, db, locks, head, made, drift>>

\* Mutant: the file lock is released before the SQL commit.
CleanupAndUnlock(p) ==
    /\ pc[p] = "w_cleanup"
    /\ stages' = {}
    /\ flock' = [flock EXCEPT ![p] = "none"]
    /\ Goto(p, "w_commit")
    /\ UNCHANGED <<objects, ref, db, row, head, made, drift>>

CleanupStages(p) ==
    /\ pc[p] = "w_cleanup"
    /\ stages' = {}
    /\ Goto(p, "w_commit")
    /\ UNCHANGED <<objects, ref, db, locks, head, made, drift>>

\* The cleanup in the finally clause raises: the transaction rolls back and
\* the handler that would move the branch back has already been left.
CleanupFails(p) ==
    /\ pc[p] = "w_cleanup"
    /\ Leave(p)
    /\ UNCHANGED <<repo, db, drift>>

\* COMMIT: the accepted head and the reconciliation become durable at once.
WriteCommit(p) ==
    /\ pc[p] = "w_commit"
    /\ accepted' = made[p]
    /\ recorded' = "matched"
    /\ row' = NoProc
    /\ Goto(p, "w_unlock")
    /\ UNCHANGED <<repo, indexed, published, flock, head, made, drift>>

WriteCommitFails(p) ==
    /\ pc[p] = "w_commit"
    /\ Leave(p)
    /\ UNCHANGED <<repo, db, drift>>

WriteReturn(p) ==
    /\ pc[p] = "w_unlock"
    /\ Leave(p)
    /\ UNCHANGED <<repo, db, drift>>

Write(p) ==
    \/ WriteStart(p) \/ WriteLock(p) \/ WriteRefuse(p) \/ WriteRejected(p)
    \/ WriteBegin(p) \/ WriteObjects(p) \/ WriteUnchanged(p) \/ AdvanceRef(p)
    \/ AdvanceRefTimesOut(p) \/ WriteGitFails(p) \/ AcceptCommit(p)
    \/ AcceptFails(p) \/ RollbackRef(p) \/ RollbackRefFails(p)
    \/ CleanupStages(p) \/ CleanupFails(p) \/ WriteCommit(p)
    \/ WriteCommitFails(p) \/ WriteReturn(p)

-----------------------------------------------------------------------------
(* read_accepted_repository_file and its siblings *)

ReadStart(p) ==
    /\ pc[p] = "idle"
    /\ Goto(p, "r_lock")
    /\ UNCHANGED <<repo, db, locks, head, made, drift>>

ReadLock(p) ==
    /\ pc[p] = "r_lock"
    /\ LockShared(p)
    /\ Goto(p, "r_head")
    /\ UNCHANGED <<repo, db, row, head, made, drift>>

\* refresh_from_db: only now is the head read.
ReadHead(p) ==
    /\ pc[p] = "r_head"
    /\ accepted # NoCommit
    /\ head' = [head EXCEPT ![p] = accepted]
    /\ Goto(p, "r_serve")
    /\ UNCHANGED <<repo, db, locks, made, drift>>

ReadNothing(p) ==
    /\ pc[p] = "r_head"
    /\ accepted = NoCommit
    /\ Leave(p)
    /\ UNCHANGED <<repo, db, drift>>

\* Classify, record, and serve the head or refuse; the call ends either way.
ReadServe(p) ==
    /\ pc[p] = "r_serve"
    /\ UpdateRow
    /\ \E v \in Verdicts : recorded' = v[1]
    /\ Leave(p)
    /\ UNCHANGED <<repo, accepted, indexed, published, drift>>

Read(p) == ReadStart(p) \/ ReadLock(p) \/ ReadHead(p) \/ ReadNothing(p)
              \/ ReadServe(p)

-----------------------------------------------------------------------------
(* reconcile_workspace_repository, diagnosis ("c_") and repair ("x_") *)

ReconcileStart(p) ==
    /\ pc[p] = "idle"
    /\ Goto(p, "c_lock") \/ Goto(p, "x_lock")
    /\ UNCHANGED <<repo, db, locks, head, made, drift>>

\* The repository cannot be loaded: recorded without any lock.
ReconcileUnavailable(p) ==
    /\ pc[p] = "idle"
    /\ UpdateRow
    /\ recorded' = "unavailable"
    /\ UNCHANGED <<repo, accepted, indexed, published, locks, local, drift>>

ReconcileLock(p) ==
    /\ \/ pc[p] = "c_lock" /\ LockShared(p) /\ Goto(p, "c_begin")
       \/ pc[p] = "x_lock" /\ LockExclusive(p) /\ Goto(p, "x_begin")
    /\ UNCHANGED <<repo, db, row, head, made, drift>>

\* can_repair: nothing was accepted yet, or the accepted commit is usable.
CanRepair(verdict) ==
    /\ verdict[1] # "matched"
    /\ accepted = NoCommit \/ verdict[2]

\* Nothing to repair, or nothing may be: record the verdict.
Diagnose(p) ==
    /\ UpdateRow
    /\ \E v \in Verdicts :
         /\ \/ pc[p] = "c_begin"
            \/ pc[p] = "x_begin" /\ ~CanRepair(v)
         /\ recorded' = v[1]
    /\ Leave(p)
    /\ UNCHANGED <<repo, accepted, indexed, published, drift>>

RepairBegin(p) ==
    /\ pc[p] = "x_begin"
    /\ \E v \in Verdicts : CanRepair(v)
    /\ SelectForUpdate(p)
    /\ Goto(p, "x_repair")
    /\ UNCHANGED <<repo, db, flock, head, made, drift>>

\* Mutant: repair accepts the newest commit on the branch.
AdoptRef(p) ==
    /\ pc[p] = "x_repair"
    /\ accepted' = ref
    /\ Goto(p, "x_record")
    /\ UNCHANGED <<repo, indexed, published, recorded, locks, head, made, drift>>

\* recover_ref: the branch is set to the accepted head, which must exist, or
\* deleted.
RecoverRef(p) ==
    /\ pc[p] = "x_repair"
    /\ accepted \in objects \cup {NoCommit, ref}
    /\ ref' = accepted
    /\ Goto(p, "x_record")
    /\ UNCHANGED <<objects, stages, db, locks, head, made, drift>>

\* verify_commit, or the compare-and-swap from the branch just read, fails.
RecoverRefFails(p) ==
    /\ pc[p] = "x_repair"
    /\ Leave(p)
    /\ UNCHANGED <<repo, db, drift>>

RepairRecord(p) ==
    /\ pc[p] = "x_record"
    /\ \E v \in Verdicts : recorded' = v[1]
    /\ Leave(p)
    /\ UNCHANGED <<repo, accepted, indexed, published, drift>>

Reconcile(p) ==
    \/ ReconcileStart(p) \/ ReconcileUnavailable(p) \/ ReconcileLock(p)
    \/ Diagnose(p) \/ RepairBegin(p) \/ RecoverRef(p) \/ RecoverRefFails(p)
    \/ RepairRecord(p)

-----------------------------------------------------------------------------
(* pin_accepted_repository_for_publication around one publication insert *)

PinStart(p) ==
    /\ pc[p] = "idle"
    /\ Goto(p, "p_lock")
    /\ UNCHANGED <<repo, db, locks, head, made, drift>>

PinLock(p) ==
    /\ pc[p] = "p_lock"
    /\ LockShared(p)
    /\ Goto(p, "p_begin")
    /\ UNCHANGED <<repo, db, row, head, made, drift>>

\* Mutant: publishing does not wait for the index.
PublishableUnindexed ==
    /\ accepted # NoCommit
    /\ Classify = "matched"

\* The conditions under which publication may proceed.
Publishable ==
    /\ accepted # NoCommit
    /\ indexed = accepted
    /\ Classify = "matched"

PinBegin(p) ==
    /\ pc[p] = "p_begin"
    /\ Publishable
    /\ SelectForUpdate(p)
    /\ head' = [head EXCEPT ![p] = accepted]
    /\ Goto(p, "p_insert")
    /\ UNCHANGED <<repo, db, flock, made, drift>>

\* One of them fails, or a Git command does.
PinRefuse(p) ==
    /\ pc[p] = "p_begin"
    /\ row = NoProc
    /\ Leave(p)
    /\ UNCHANGED <<repo, db, drift>>

\* The insert, the checks after the yield, and the commit.
PinPublish(p) ==
    /\ pc[p] = "p_insert"
    /\ accepted = head[p] /\ indexed = head[p] /\ Classify = "matched"
    /\ published' = published \cup {head[p]}
    /\ Leave(p)
    /\ UNCHANGED <<repo, accepted, indexed, recorded, drift>>

\* The publisher raises or the checks after the yield do.
PinAbort(p) ==
    /\ pc[p] = "p_insert"
    /\ Leave(p)
    /\ UNCHANGED <<repo, db, drift>>

Publish(p) == PinStart(p) \/ PinLock(p) \/ PinBegin(p) \/ PinRefuse(p)
                 \/ PinPublish(p) \/ PinAbort(p)

-----------------------------------------------------------------------------
(* index_repository_content *)

IndexStart(p) ==
    /\ pc[p] = "idle"
    /\ accepted # NoCommit
    /\ indexed # accepted
    /\ Goto(p, "i_lock")
    /\ UNCHANGED <<repo, db, locks, head, made, drift>>

IndexLock(p) ==
    /\ pc[p] = "i_lock"
    /\ LockShared(p)
    /\ Goto(p, "i_read")
    /\ UNCHANGED <<repo, db, row, head, made, drift>>

\* The snapshot is read under the lock, which is released before parsing.
IndexRead(p) ==
    /\ pc[p] = "i_read"
    /\ UpdateRow
    /\ \E v \in Verdicts :
         /\ recorded' = v[1]
         /\ v[2] /\ accepted \in objects
    /\ flock' = [flock EXCEPT ![p] = "none"]
    /\ head' = [head EXCEPT ![p] = accepted]
    /\ Goto(p, "i_write")
    /\ UNCHANGED <<repo, accepted, indexed, published, row, made, drift>>

\* The accepted content is not usable: the verdict is recorded all the same.
IndexUnreadable(p) ==
    /\ pc[p] = "i_read"
    /\ UpdateRow
    /\ \E v \in Verdicts :
         /\ recorded' = v[1]
         /\ ~v[2] \/ accepted \notin objects
    /\ Leave(p)
    /\ UNCHANGED <<repo, accepted, indexed, published, drift>>

\* Mutant: the projection is stored whatever was accepted meanwhile.
IndexWriteStale(p) ==
    /\ pc[p] = "i_write"
    /\ row = NoProc
    /\ indexed' = head[p]
    /\ Leave(p)
    /\ UNCHANGED <<repo, accepted, published, recorded, drift>>

\* The projection replaces the old one only if its head is still accepted.
IndexWrite(p) ==
    /\ pc[p] = "i_write"
    /\ row = NoProc
    /\ accepted = head[p]
    /\ indexed' = head[p]
    /\ Leave(p)
    /\ UNCHANGED <<repo, accepted, published, recorded, drift>>

\* The head moved, or the snapshot was rejected: the old projection stays.
IndexGiveUp(p) ==
    /\ pc[p] = "i_write"
    /\ Leave(p)
    /\ UNCHANGED <<repo, db, drift>>

Index(p) == IndexStart(p) \/ IndexLock(p) \/ IndexRead(p)
               \/ IndexUnreadable(p) \/ IndexWrite(p) \/ IndexGiveUp(p)

-----------------------------------------------------------------------------
(* Crashes and outside interference. *)

\* The process dies: the kernel drops its lock, PostgreSQL its transaction.
Crash(p) ==
    /\ pc[p] # "idle"
    /\ Leave(p)
    /\ UNCHANGED <<repo, db, drift>>

\* Somebody else commits on the branch, moves it, or deletes it.
DriftRef ==
    /\ drift < MaxDrift
    /\ drift' = drift + 1
    /\ \/ ref' \in (objects \cup {NoCommit}) \ {ref} /\ UNCHANGED objects
       \/ ref' = Append(ref, Foreign) /\ objects' = objects \cup {ref'}
       \/ ref' = Append(ref, Foreign) /\ UNCHANGED objects
    /\ UNCHANGED <<stages, db, locks, local>>

\* An object is lost.
DriftObject ==
    /\ drift < MaxDrift
    /\ drift' = drift + 1
    /\ \E o \in objects : objects' = objects \ {o}
    /\ UNCHANGED <<ref, stages, db, locks, local>>

Step(p) == LockTimeout(p) \/ Write(p) \/ Read(p) \/ Reconcile(p) \/ Publish(p)
              \/ Index(p)

Next == (\E p \in Proc : Step(p) \/ Crash(p)) \/ DriftRef \/ DriftObject

Spec == Init /\ [][Next]_vars

\* The flock wait ends by itself and PostgreSQL queues row-lock waiters, so a
\* call that has started and may repeatedly go on does go on.
Proceed(p) == pc[p] # "idle" /\ Step(p)

FairSpec == Spec /\ \A p \in Proc : SF_vars(Proceed(p))

-----------------------------------------------------------------------------
(* Correctness. *)

History == INSTANCE AcceptedHistory

\* The repository's rows behave like the abstract history whatever writers,
\* crashes, repairs and outside interference do: accepted content is only ever
\* extended, by one authored change at a time, never rewound, forked or adopted
\* from the branch; only the accepted and indexed head is published.
ImplementsHistory == History!Spec

\* Without interference a failure between the branch's advance and the SQL
\* commit leaves the branch at most one authored commit ahead of the accepted
\* head; every other state _classify_reconciliation can report needs
\* interference.
BranchNeverDiverges ==
    drift = 0 => \/ ref = accepted
                 \/ \E c \in Change : ref = Append(accepted, c)

\* Everything the database names can be read from the object database: the
\* accepted head, the commit the index was built from and every publication.
NamedCommitsExist ==
    drift = 0 => {accepted, indexed} \cup published \subseteq objects \cup {NoCommit}

\* A call that got past the commit may report success: the database accepted
\* this writer's commit, no other writer's, and the branch is there too.
AcknowledgedWriteIsDurable ==
    \A p \in Proc : pc[p] = "w_unlock" =>
        /\ accepted = made[p]
        /\ drift = 0 => ref = made[p]

\* Nothing moves the accepted head while a reader serves it under the lock.
ReadIsStable == \A p \in Proc : pc[p] = "r_serve" => head[p] = accepted

\* Between proof and retention neither the accepted head nor the index moves,
\* and without interference neither does the branch
\* (pin_accepted_repository_for_publication).
PinIsStable ==
    \A p \in Proc : pc[p] = "p_insert" =>
        /\ head[p] = accepted
        /\ head[p] = indexed
        /\ drift = 0 => head[p] = ref

\* The cleanup that removes every staging directory of the repository never
\* removes the one a running writer still builds its index in.
StageSurvives ==
    \A p \in Proc :
        pc[p] \in {"w_objects", "w_advance", "w_accept", "w_undo", "w_cleanup"}
            => p \in stages

\* The service names no commit that does not exist, and once its own swap has
\* been refused it never overwrites what somebody else put on the branch: only
\* repair replaces a branch that is not where a writer left it.
BranchMovesSafely ==
    [][ref' # ref /\ drift' = drift =>
          /\ ref' \in objects \cup {NoCommit}
          /\ \/ ref' = accepted
             \/ ref = accepted /\ \E c \in Change : ref' = Append(accepted, c)]_vars

\* Every call ends, by success, refusal or timeout: no writer, reader, repair,
\* publisher or indexer waits forever for another.
CallsEnd == \A p \in Proc : pc[p] # "idle" ~> pc[p] = "idle"


=============================================================================
