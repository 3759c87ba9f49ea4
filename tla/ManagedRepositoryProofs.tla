------------------------ MODULE ManagedRepositoryProofs ------------------------
(***************************************************************************)
(* ManagedRepository keeps its safety invariants and implements            *)
(* AcceptedHistory for any number of processes, any changes and any bound  *)
(* on the history and on outside interference.                             *)
(***************************************************************************)
EXTENDS ManagedRepository, TLAPS

\* What a program counter says about the locks the process holds.
ExclusivePC == WritePC \cup {"x_begin", "x_repair", "x_record"}
SharedPC == ReadPC \cup {"c_begin", "p_begin", "p_insert", "i_read"}
RowPC == {"w_objects", "w_advance", "w_accept", "w_undo", "w_cleanup",
          "w_commit", "x_repair", "x_record", "p_insert"}
StagePC == {"w_objects", "w_advance", "w_accept", "w_undo", "w_cleanup"}

LocksHeld ==
    /\ \A p \in Proc : pc[p] \in ExclusivePC => flock[p] = "ex"
    /\ \A p \in Proc : pc[p] \in SharedPC => flock[p] = "sh"
    /\ \A p \in Proc : pc[p] \in RowPC => row = p
    /\ \A p, q \in Proc : p # q /\ flock[p] = "ex" => flock[q] = "none"

\* The head a process works on is still the accepted one.
HeadIsFresh ==
    /\ \A p \in Proc :
         pc[p] \in {"w_objects", "w_advance", "w_accept", "w_undo", "r_serve",
                    "p_insert"} => head[p] = accepted
    /\ \A p \in Proc :
         pc[p] \in {"p_insert", "i_lock", "i_read", "i_write"}
            => accepted # NoCommit
    /\ \A p \in Proc : pc[p] = "p_insert" => indexed = accepted

\* A writer's commit is the accepted head or one change on top of it.
MadeOnHead ==
    /\ \A p \in Proc : pc[p] \in {"w_advance", "w_accept", "w_undo"} =>
         \E c \in Change : made[p] = Append(accepted, c)
    /\ \A p \in Proc : pc[p] \in {"w_cleanup", "w_commit"} =>
         made[p] = accepted \/ \E c \in Change : made[p] = Append(accepted, c)
    /\ \A p \in Proc : pc[p] = "w_unlock" => made[p] = accepted

\* Without interference a running writer knows where the branch is.
BranchIsKnown ==
    drift = 0 =>
      /\ ref = accepted \/ \E c \in Change : ref = Append(accepted, c)
      /\ \A p \in Proc :
           pc[p] \in {"w_objects", "w_advance", "p_insert"} => ref = accepted
      /\ \A p \in Proc :
           pc[p] \in {"w_accept", "w_undo", "w_cleanup", "w_commit", "w_unlock"}
              => ref = made[p]

\* Without interference no named commit and no commit being made is missing.
NothingIsMissing ==
    drift = 0 =>
      /\ {accepted, indexed} \cup published \subseteq objects \cup {NoCommit}
      /\ \A p \in Proc :
           pc[p] \in {"w_advance", "w_accept", "w_undo", "w_cleanup", "w_commit"}
              => made[p] \in objects

StageIsKept == \A p \in Proc : pc[p] \in StagePC => p \in stages

Inv == /\ TypeOK /\ LocksHeld /\ HeadIsFresh /\ MadeOnHead /\ BranchIsKnown
       /\ NothingIsMissing /\ StageIsKept

-----------------------------------------------------------------------------
LEMMA InitInv == Init => Inv
BY BoundAssumption
   DEF Init, Inv, TypeOK, LocksHeld, HeadIsFresh, MadeOnHead, BranchIsKnown,
       NothingIsMissing, StageIsKept, NoCommit, Authored, Commit, PC, WritePC,
       ReadPC, ExclusivePC, SharedPC, RowPC, StagePC,
       RepositoryReconciliationState

LEMMA VerdictType == \A v \in Verdicts : v[1] \in RepositoryReconciliationState
BY DEF Verdicts, Classify, RepositoryReconciliationState

LEMMA MatchedBranch == Classify = "matched" => ref = accepted
BY DEF Classify

LEMMA CommitTypes ==
    /\ NoCommit \in Authored
    /\ Authored \subseteq Commit
    /\ \A s \in Authored, c \in Change :
         /\ Append(s, c) \in Authored
         /\ Append(s, c) # NoCommit
    /\ \A s \in Commit : Append(s, Foreign) \in Commit
<1>1. NoCommit \in Authored
  BY DEF NoCommit, Authored
<1>2. ASSUME NEW s \in Authored  PROVE s \in Commit
  BY <1>2 DEF Authored, Commit
<1>3. ASSUME NEW s \in Authored, NEW c \in Change
      PROVE  Append(s, c) \in Authored /\ Append(s, c) # NoCommit
  <2>1. Append(s, c) \in Authored
    BY <1>3 DEF Authored
  <2>2. Append(s, c) # NoCommit
    <3>1. Len(Append(s, c)) # 0 /\ Len(<<>>) = 0
      BY <1>3 DEF Authored
    <3>2. QED BY <3>1 DEF NoCommit
  <2>3. QED BY <2>1, <2>2
<1>4. ASSUME NEW s \in Commit  PROVE Append(s, Foreign) \in Commit
  BY DEF Commit
<1>5. QED BY <1>1, <1>2, <1>3, <1>4

\* A call that ends, having done nothing but record a verdict and remove the
\* staging directories under the exclusive lock, disturbs nobody.
LEMMA LeavingKeepsInv ==
    ASSUME Inv, NEW p \in Proc, Leave(p),
           UNCHANGED <<objects, ref, accepted, indexed, published, drift>>,
           recorded' \in RepositoryReconciliationState,
           \/ stages' = stages
           \/ stages' = {} /\ flock[p] = "ex"
    PROVE  Inv'
<1>1. TypeOK'
  BY CommitTypes DEF Inv, TypeOK, Leave, Goto, PC
<1>2. \A q \in Proc \ {p} : /\ pc'[q] = pc[q] /\ head'[q] = head[q]
                            /\ made'[q] = made[q] /\ flock'[q] = flock[q]
  BY DEF Inv, TypeOK, Leave, Goto
<1>3. pc'[p] = "idle" /\ flock'[p] = "none"
  BY DEF Inv, TypeOK, Leave, Goto
<1>4. LocksHeld'
  BY <1>2, <1>3, NoProcAssumption
     DEF Inv, LocksHeld, Leave, ExclusivePC, SharedPC, RowPC, WritePC, ReadPC
<1>5. HeadIsFresh' /\ MadeOnHead'
  BY <1>2, <1>3 DEF Inv, HeadIsFresh, MadeOnHead
<1>6. BranchIsKnown' /\ NothingIsMissing'
  BY <1>2, <1>3 DEF Inv, BranchIsKnown, NothingIsMissing
<1>7. StageIsKept'
  <2>1. ASSUME NEW q \in Proc, pc'[q] \in StagePC  PROVE q \in stages'
    <3>1. q # p /\ pc[q] \in StagePC
      BY <1>2, <1>3, <2>1 DEF StagePC
    <3>2. flock[q] = "ex" /\ q \in stages
      BY <3>1 DEF Inv, LocksHeld, StageIsKept, StagePC, ExclusivePC, WritePC
    <3>3. QED BY <3>1, <3>2 DEF Inv, LocksHeld
  <2>2. QED BY <2>1 DEF StageIsKept
<1>8. QED BY <1>1, <1>4, <1>5, <1>6, <1>7 DEF Inv

-----------------------------------------------------------------------------
LEMMA WriteKeepsInv == ASSUME Inv, NEW p \in Proc, Write(p) PROVE Inv'
<1> USE DEF Inv, TypeOK, LocksHeld, HeadIsFresh, MadeOnHead, BranchIsKnown,
            NothingIsMissing, StageIsKept, PC, WritePC, ReadPC,
            ExclusivePC, SharedPC, RowPC, StagePC, Goto, repo, db, locks
<1>1. CASE WriteStart(p)
  BY <1>1 DEF WriteStart
<1>2. CASE WriteLock(p)
  BY <1>2 DEF WriteLock, LockExclusive
<1>3. CASE WriteRefuse(p)
  BY <1>3, VerdictType, LeavingKeepsInv DEF WriteRefuse
<1>4. CASE WriteRejected(p)
  BY <1>4, LeavingKeepsInv DEF WriteRejected
<1>5. CASE WriteBegin(p)
  BY <1>5, MatchedBranch, NoProcAssumption DEF WriteBegin, SelectForUpdate
<1>6. CASE WriteObjects(p)
  <2>1. PICK c \in Change :
          /\ made' = [made EXCEPT ![p] = Append(accepted, c)]
          /\ objects' = objects \cup {Append(accepted, c)}
    BY <1>6 DEF WriteObjects
  <2>2. Append(accepted, c) \in Authored \cap Commit
    <3>1. accepted \in Authored
      OBVIOUS
    <3>2. QED BY <3>1, CommitTypes
  <2>3. TypeOK'
    <3>1. objects' \subseteq Commit
      BY <2>1, <2>2
    <3>2. made' \in [Proc -> Authored]
      BY <2>1, <2>2
    <3>3. QED BY <1>6, <3>1, <3>2 DEF WriteObjects
  <2>4. (LocksHeld /\ HeadIsFresh /\ StageIsKept)'
    BY <1>6 DEF WriteObjects
  <2>5. MadeOnHead'
    BY <1>6, <2>1 DEF WriteObjects
  <2>6. (BranchIsKnown /\ NothingIsMissing)'
    BY <1>6, <2>1 DEF WriteObjects
  <2>7. QED BY <2>3, <2>4, <2>5, <2>6
<1>7. CASE WriteUnchanged(p)
  BY <1>7 DEF WriteUnchanged
<1>8. CASE AdvanceRef(p)
  BY <1>8, CommitTypes DEF AdvanceRef, SwapRef
<1>9. CASE AdvanceRefTimesOut(p)
  BY <1>9, CommitTypes DEF AdvanceRefTimesOut, SwapRef, Leave
<1>10. CASE WriteGitFails(p)
  BY <1>10, LeavingKeepsInv DEF WriteGitFails
<1>11. CASE AcceptCommit(p)
  BY <1>11 DEF AcceptCommit
<1>12. CASE AcceptFails(p)
  BY <1>12 DEF AcceptFails
<1>13. CASE RollbackRef(p)
  BY <1>13, CommitTypes DEF RollbackRef, Leave
<1>14. CASE RollbackRefFails(p)
  BY <1>14, LeavingKeepsInv DEF RollbackRefFails
<1>15. CASE CleanupStages(p)
  BY <1>15 DEF CleanupStages
<1>16. CASE CleanupFails(p)
  BY <1>16, LeavingKeepsInv DEF CleanupFails
<1>17. CASE WriteCommit(p)
  <2>1. accepted' = accepted \/ \E c \in Change : accepted' = Append(accepted, c)
    BY <1>17 DEF WriteCommit
  <2>2. TypeOK'
    BY <1>17 DEF WriteCommit, RepositoryReconciliationState
  <2>3. \A q \in Proc \ {p} : flock[q] = "none"
    BY <1>17 DEF WriteCommit
  <2>4. (LocksHeld /\ StageIsKept)'
    BY <1>17, <2>3 DEF WriteCommit
  <2>5. accepted # NoCommit => accepted' # NoCommit
    BY <2>1, CommitTypes
  <2>6. (HeadIsFresh /\ MadeOnHead)'
    BY <1>17, <2>3, <2>5 DEF WriteCommit
  <2>7. (BranchIsKnown /\ NothingIsMissing)'
    BY <1>17, <2>3 DEF WriteCommit
  <2>8. QED BY <2>2, <2>4, <2>6, <2>7
<1>18. CASE WriteCommitFails(p)
  BY <1>18, LeavingKeepsInv DEF WriteCommitFails
<1>19. CASE WriteReturn(p)
  BY <1>19, LeavingKeepsInv DEF WriteReturn
<1>20. QED
  BY <1>1, <1>2, <1>3, <1>4, <1>5, <1>6, <1>7, <1>8, <1>9, <1>10, <1>11, <1>12,
     <1>13, <1>14, <1>15, <1>16, <1>17, <1>18, <1>19 DEF Write

LEMMA ReadKeepsInv == ASSUME Inv, NEW p \in Proc, Read(p) PROVE Inv'
<1> USE DEF Inv, TypeOK, LocksHeld, HeadIsFresh, MadeOnHead, BranchIsKnown,
            NothingIsMissing, StageIsKept, PC, WritePC, ReadPC,
            ExclusivePC, SharedPC, RowPC, StagePC, Goto, repo, db, locks
<1>1. CASE ReadStart(p)
  BY <1>1 DEF ReadStart
<1>2. CASE ReadLock(p)
  BY <1>2 DEF ReadLock, LockShared
<1>3. CASE ReadHead(p)
  BY <1>3 DEF ReadHead
<1>4. CASE ReadNothing(p)
  BY <1>4, LeavingKeepsInv DEF ReadNothing
<1>5. CASE ReadServe(p)
  BY <1>5, VerdictType, LeavingKeepsInv DEF ReadServe
<1>6. QED BY <1>1, <1>2, <1>3, <1>4, <1>5 DEF Read

LEMMA ReconcileKeepsInv == ASSUME Inv, NEW p \in Proc, Reconcile(p) PROVE Inv'
<1> USE DEF Inv, TypeOK, LocksHeld, HeadIsFresh, MadeOnHead, BranchIsKnown,
            NothingIsMissing, StageIsKept, PC, WritePC, ReadPC,
            ExclusivePC, SharedPC, RowPC, StagePC, Goto, repo, db, locks
<1>1. CASE ReconcileStart(p)
  <2>1. CASE Goto(p, "c_lock")
    BY <1>1, <2>1 DEF ReconcileStart
  <2>2. CASE Goto(p, "x_lock")
    BY <1>1, <2>2 DEF ReconcileStart
  <2>3. QED BY <1>1, <2>1, <2>2 DEF ReconcileStart
<1>2. CASE ReconcileUnavailable(p)
  BY <1>2 DEF ReconcileUnavailable, RepositoryReconciliationState, local
<1>3. CASE ReconcileLock(p)
  <2>1. CASE pc[p] = "c_lock" /\ LockShared(p) /\ Goto(p, "c_begin")
    BY <1>3, <2>1 DEF ReconcileLock, LockShared
  <2>2. CASE pc[p] = "x_lock" /\ LockExclusive(p) /\ Goto(p, "x_begin")
    BY <1>3, <2>2 DEF ReconcileLock, LockExclusive
  <2>3. QED BY <1>3, <2>1, <2>2 DEF ReconcileLock
<1>4. CASE Diagnose(p)
  <2>1. recorded' \in RepositoryReconciliationState
    BY <1>4, VerdictType DEF Diagnose
  <2>2. QED BY <1>4, <2>1, LeavingKeepsInv DEF Diagnose
<1>5. CASE RepairBegin(p)
  BY <1>5, NoProcAssumption DEF RepairBegin, SelectForUpdate
<1>6. CASE RecoverRef(p)
  <2>1. \A q \in Proc : pc[q] \notin StagePC \cup {"w_commit", "w_unlock", "p_insert"}
    BY <1>6 DEF RecoverRef
  <2>2. TypeOK'
    BY <1>6, CommitTypes DEF RecoverRef
  <2>3. (LocksHeld /\ HeadIsFresh /\ MadeOnHead /\ StageIsKept)'
    BY <1>6 DEF RecoverRef
  <2>4. (BranchIsKnown /\ NothingIsMissing)'
    BY <1>6, <2>1 DEF RecoverRef
  <2>5. QED BY <2>2, <2>3, <2>4
<1>7. CASE RecoverRefFails(p)
  BY <1>7, LeavingKeepsInv DEF RecoverRefFails
<1>8. CASE RepairRecord(p)
  BY <1>8, VerdictType, LeavingKeepsInv DEF RepairRecord
<1>9. QED
  BY <1>1, <1>2, <1>3, <1>4, <1>5, <1>6, <1>7, <1>8 DEF Reconcile

LEMMA PublishKeepsInv == ASSUME Inv, NEW p \in Proc, Publish(p) PROVE Inv'
<1> USE DEF Inv, TypeOK, LocksHeld, HeadIsFresh, MadeOnHead, BranchIsKnown,
            NothingIsMissing, StageIsKept, PC, WritePC, ReadPC,
            ExclusivePC, SharedPC, RowPC, StagePC, Goto, repo, db, locks
<1>1. CASE PinStart(p)
  BY <1>1 DEF PinStart
<1>2. CASE PinLock(p)
  BY <1>2 DEF PinLock, LockShared
<1>3. CASE PinBegin(p)
  BY <1>3, MatchedBranch, NoProcAssumption
     DEF PinBegin, SelectForUpdate, Publishable
<1>4. CASE PinRefuse(p)
  BY <1>4, LeavingKeepsInv DEF PinRefuse
<1>5. CASE PinPublish(p)
  BY <1>5, CommitTypes DEF PinPublish, Leave
<1>6. CASE PinAbort(p)
  BY <1>6, LeavingKeepsInv DEF PinAbort
<1>7. QED BY <1>1, <1>2, <1>3, <1>4, <1>5, <1>6 DEF Publish

LEMMA IndexKeepsInv == ASSUME Inv, NEW p \in Proc, Index(p) PROVE Inv'
<1> USE DEF Inv, TypeOK, LocksHeld, HeadIsFresh, MadeOnHead, BranchIsKnown,
            NothingIsMissing, StageIsKept, PC, WritePC, ReadPC,
            ExclusivePC, SharedPC, RowPC, StagePC, Goto, repo, db, locks
<1>1. CASE IndexStart(p)
  BY <1>1 DEF IndexStart
<1>2. CASE IndexLock(p)
  BY <1>2 DEF IndexLock, LockShared
<1>3. CASE IndexRead(p)
  BY <1>3, VerdictType DEF IndexRead
<1>4. CASE IndexUnreadable(p)
  <2>1. recorded' \in RepositoryReconciliationState
    BY <1>4, VerdictType DEF IndexUnreadable
  <2>2. QED BY <1>4, <2>1, LeavingKeepsInv DEF IndexUnreadable
<1>5. CASE IndexWrite(p)
  BY <1>5, CommitTypes DEF IndexWrite, Leave
<1>6. CASE IndexGiveUp(p)
  BY <1>6, LeavingKeepsInv DEF IndexGiveUp
<1>7. QED BY <1>1, <1>2, <1>3, <1>4, <1>5, <1>6 DEF Index

LEMMA InterferenceKeepsInv == ASSUME Inv, DriftRef \/ DriftObject PROVE Inv'
<1> USE DEF Inv, TypeOK, LocksHeld, HeadIsFresh, MadeOnHead, BranchIsKnown,
            NothingIsMissing, StageIsKept, PC, WritePC, ReadPC,
            ExclusivePC, SharedPC, RowPC, StagePC, Goto, repo, db, locks
<1>1. drift' # 0
  BY DEF DriftRef, DriftObject
<1>2. objects' \subseteq Commit /\ ref' \in Commit
  <2>1. CASE DriftRef
    <3>1. ref' \in objects \cup {NoCommit} \/ ref' = Append(ref, Foreign)
      BY <2>1 DEF DriftRef
    <3>2. objects' \in {objects, objects \cup {ref'}}
      BY <2>1 DEF DriftRef
    <3>3. ref' \in Commit
      <4>1. ref \in Commit /\ objects \subseteq Commit /\ NoCommit \in Commit
        BY CommitTypes
      <4>2. Append(ref, Foreign) \in Commit
        BY <4>1, CommitTypes
      <4>3. QED BY <3>1, <4>1, <4>2
    <3>4. QED BY <3>2, <3>3
  <2>2. CASE DriftObject
    BY <2>2 DEF DriftObject
  <2>3. QED BY <2>1, <2>2
<1>3. drift' \in Nat /\ UNCHANGED <<stages, db, locks, local>>
  BY DEF DriftRef, DriftObject
<1>4. TypeOK' /\ (LocksHeld /\ HeadIsFresh /\ MadeOnHead /\ StageIsKept)'
  BY <1>2, <1>3 DEF local
<1>5. QED BY <1>1, <1>3, <1>4

-----------------------------------------------------------------------------
LEMMA NextKeepsInv == Inv /\ [Next]_vars => Inv'
<1> SUFFICES ASSUME Inv, [Next]_vars PROVE Inv'
  OBVIOUS
<1>1. CASE UNCHANGED vars
  BY <1>1
     DEF vars, Inv, TypeOK, LocksHeld, HeadIsFresh, MadeOnHead, BranchIsKnown,
         NothingIsMissing, StageIsKept
<1>2. ASSUME NEW p \in Proc, Step(p) PROVE Inv'
  <2>1. CASE LockTimeout(p)
    BY <2>1, LeavingKeepsInv DEF LockTimeout, repo, db, Inv, TypeOK
  <2>2. QED
    BY <1>2, <2>1, WriteKeepsInv, ReadKeepsInv, ReconcileKeepsInv,
       PublishKeepsInv, IndexKeepsInv DEF Step
<1>3. ASSUME NEW p \in Proc, Crash(p) PROVE Inv'
  BY <1>3, LeavingKeepsInv DEF Crash, repo, db, Inv, TypeOK
<1>4. QED BY <1>1, <1>2, <1>3, InterferenceKeepsInv DEF Next

\* The inductive invariant, from which every safety theorem below follows.
THEOREM InvIsInvariant == Spec => []Inv
<1>1. QED BY InitInv, NextKeepsInv, PTL DEF Spec

-----------------------------------------------------------------------------
\* Every variable keeps its type; in particular the accepted history, the index
\* and the publications never hold a change the service did not author.
THEOREM TypeCorrect == Spec => []TypeOK
<1>1. Inv => TypeOK
  BY DEF Inv
<1>2. QED BY <1>1, InvIsInvariant, PTL

\* commit_repository_files fails or dies between update-ref and COMMIT: the
\* branch is at most one authored commit ahead of the accepted head.
THEOREM BranchStaysClose == Spec => []BranchNeverDiverges
<1>1. Inv => BranchNeverDiverges
  BY DEF Inv, BranchIsKnown, BranchNeverDiverges
<1>2. QED BY <1>1, InvIsInvariant, PTL

\* Objects are written before any row names them and are never pruned.
THEOREM NamedCommitsAreReadable == Spec => []NamedCommitsExist
<1>1. Inv => NamedCommitsExist
  BY DEF Inv, NothingIsMissing, NamedCommitsExist
<1>2. QED BY <1>1, InvIsInvariant, PTL

\* A writer past its SQL commit has its own commit accepted and on the branch.
THEOREM AcknowledgedWritesAreDurable == Spec => []AcknowledgedWriteIsDurable
<1>1. Inv => AcknowledgedWriteIsDurable
  BY DEF Inv, MadeOnHead, BranchIsKnown, AcknowledgedWriteIsDurable
<1>2. QED BY <1>1, InvIsInvariant, PTL

\* The shared lock keeps the accepted head still while a reader serves it.
THEOREM ReadsAreStable == Spec => []ReadIsStable
<1>1. Inv => ReadIsStable
  BY DEF Inv, HeadIsFresh, ReadIsStable
<1>2. QED BY <1>1, InvIsInvariant, PTL

\* pin_accepted_repository_for_publication keeps head, index and branch still.
THEOREM PinsAreStable == Spec => []PinIsStable
<1>1. Inv => PinIsStable
  BY DEF Inv, HeadIsFresh, BranchIsKnown, PinIsStable
<1>2. QED BY <1>1, InvIsInvariant, PTL

\* _cleanup_staging_directories removes no running writer's directory.
THEOREM StagesSurvive == Spec => []StageSurvives
<1>1. Inv => StageSurvives
  BY DEF Inv, StageIsKept, StagePC, StageSurvives
<1>2. QED BY <1>1, InvIsInvariant, PTL

\* The branch is only moved to a commit that exists, from the accepted head to
\* an authored commit on top of it or back to the accepted head.
THEOREM BranchMovesAreSafe == Spec => BranchMovesSafely
<1> DEFINE Safe == ref' # ref /\ drift' = drift =>
          /\ ref' \in objects \cup {NoCommit}
          /\ \/ ref' = accepted
             \/ ref = accepted /\ \E c \in Change : ref' = Append(accepted, c)
<1>1. ASSUME Inv, Next, ref' # ref, drift' = drift
      PROVE  Safe
  <2>1. PICK p \in Proc : Step(p) \/ Crash(p)
    BY <1>1 DEF Next, DriftRef, DriftObject, Inv, TypeOK
  <2>2. \/ SwapRef(p) \/ RollbackRef(p) \/ RecoverRef(p)
    BY <1>1, <2>1
       DEF Step, Crash, LockTimeout, Write, Read, Reconcile, Publish, Index, repo,
           WriteStart, WriteLock, WriteRefuse, WriteRejected, WriteBegin,
           WriteObjects, WriteUnchanged, AdvanceRef, AdvanceRefTimesOut,
           WriteGitFails, AcceptCommit, AcceptFails, RollbackRefFails,
           CleanupStages, CleanupFails, WriteCommit, WriteCommitFails,
           WriteReturn, ReadStart, ReadLock, ReadHead, ReadNothing, ReadServe,
           ReconcileStart, ReconcileUnavailable, ReconcileLock, Diagnose,
           RepairBegin, RecoverRefFails, RepairRecord, PinStart, PinLock,
           PinBegin, PinRefuse, PinPublish, PinAbort, IndexStart, IndexLock,
           IndexRead, IndexUnreadable, IndexWrite, IndexGiveUp
  <2>3. CASE SwapRef(p)
    BY <1>1, <2>3 DEF SwapRef, Inv, HeadIsFresh, MadeOnHead
  <2>4. CASE RollbackRef(p)
    BY <1>1, <2>4 DEF RollbackRef, Inv, HeadIsFresh
  <2>5. CASE RecoverRef(p)
    BY <1>1, <2>5 DEF RecoverRef
  <2>6. QED BY <2>2, <2>3, <2>4, <2>5
<1>2. Inv /\ [Next]_vars => [Safe]_vars
  BY <1>1 DEF vars
<1>3. QED BY <1>2, InvIsInvariant, PTL DEF Spec, BranchMovesSafely

\* ManagedRepository implements AcceptedHistory: only WriteCommit extends the
\* history, only IndexWrite moves the index and only PinPublish publishes.
THEOREM HistoryIsImplemented == Spec => ImplementsHistory
<1>1. Init => History!Init
  BY DEF Init, History!Init, NoCommit
<1>2. Inv /\ [Next]_vars => [History!Next]_(History!history)
  <2> SUFFICES ASSUME Inv, [Next]_vars
               PROVE  [History!Next]_(History!history)
    OBVIOUS
  <2> USE DEF History!history
  <2>1. CASE UNCHANGED vars \/ DriftRef \/ DriftObject
    BY <2>1 DEF vars, DriftRef, DriftObject, db
  <2>2. ASSUME NEW p \in Proc, WriteCommit(p)
        PROVE  History!Accept \/ UNCHANGED History!history
    BY <2>2 DEF WriteCommit, Inv, MadeOnHead, History!Accept
  <2>3. ASSUME NEW p \in Proc, IndexWrite(p)
        PROVE  History!Index
    BY <2>3 DEF IndexWrite, Inv, HeadIsFresh, NoCommit, History!Index
  <2>4. ASSUME NEW p \in Proc, PinPublish(p)
        PROVE  History!Publish
    BY <2>4 DEF PinPublish, Inv, HeadIsFresh, NoCommit, History!Publish
  <2>5. ASSUME NEW p \in Proc, Step(p) \/ Crash(p),
               ~WriteCommit(p), ~IndexWrite(p), ~PinPublish(p)
        PROVE  UNCHANGED History!history
    BY <2>5
       DEF Step, Crash, LockTimeout, Write, Read, Reconcile, Publish, Index, db,
           WriteStart, WriteLock, WriteRefuse, WriteRejected, WriteBegin,
           WriteObjects, WriteUnchanged, AdvanceRef, AdvanceRefTimesOut,
           WriteGitFails, AcceptCommit, AcceptFails, RollbackRef,
           RollbackRefFails, CleanupStages, CleanupFails, WriteCommitFails,
           WriteReturn, ReadStart, ReadLock, ReadHead, ReadNothing, ReadServe,
           ReconcileStart, ReconcileUnavailable, ReconcileLock, Diagnose,
           RepairBegin, RecoverRef, RecoverRefFails, RepairRecord, PinStart,
           PinLock, PinBegin, PinRefuse, PinAbort, IndexStart, IndexLock,
           IndexRead, IndexUnreadable, IndexGiveUp
  <2>6. QED
    BY <2>1, <2>2, <2>3, <2>4, <2>5 DEF Next, History!Next
<1>3. QED
  BY <1>1, <1>2, InvIsInvariant, PTL DEF Spec, ImplementsHistory, History!Spec

=============================================================================
