-------------------------- MODULE CoordinatedRequests --------------------------
(***************************************************************************)
(* coordinated_repository_transaction: one SQL transaction that writes     *)
(* several managed repositories (backend/apps/core/repository_service.py,  *)
(* opened for every signed-in request by RLSRequestScopeMiddleware).       *)
(*                                                                         *)
(* Git has no transaction to join, so every write moves a branch at once   *)
(* and the scope puts it back when the SQL that accepts it does not        *)
(* happen.  SQL can be undone in parts: nested coordinated scopes are      *)
(* savepoints that also restore the branches to their checkpoint, plain    *)
(* savepoints of callers that know nothing of Git undo SQL only, and the   *)
(* scope aligns the branches it wrote with SQL before it commits.  Files   *)
(* created next to SQL rows are kept or discarded by the same outcome.     *)
(*                                                                         *)
(* A commit is its lineage: the sequence of the processes that wrote it.   *)
(* The classification of branches and the steps inside one write are       *)
(* ManagedRepository's; here a write is one step, done or failed.          *)
(***************************************************************************)
EXTENDS Naturals, Sequences, FiniteSets, SequencesExt

CONSTANTS
    Proc,       \* workers that serve requests or run operator controllers
    Repo,       \* managed repositories
    File,       \* artifacts: stored files with a row that names them
    NoProc,     \* holder of a free lock
    Absent,     \* a repository the scope has not enlisted
    Foreign,    \* author of a commit some other program put on a branch
    MaxDepth,   \* bound: nested savepoints
    MaxHistory, \* bound: commits in a lineage
    MaxFaults   \* bound: kinds of faults that happen in one behaviour

ASSUME NoProcAssumption == NoProc \notin Proc /\ Foreign \notin Proc
ASSUME BoundAssumption  ==
    MaxDepth \in Nat /\ MaxHistory \in Nat /\ MaxFaults \in Nat

NoCommit == <<>>
Commit == Seq(Proc \cup {Foreign})
ASSUME AbsentAssumption == Absent \notin Commit

\* What can go wrong outside the program's control.
Fault == {"crash",   \* a process dies inside a scope
          "git",     \* a Git or storage command fails while undoing
          "ack",     \* the COMMIT happens but its acknowledgement is lost
          "drift",   \* another program moves a branch nobody holds
          "meddle"}  \* another program moves a branch a scope holds

VARIABLES
    ref,       \* the branch of each repository
    accepted,  \* the accepted head of each repository, durable
    disk,      \* artifacts in storage
    rows,      \* artifacts named by a durable row
    holder,    \* the exclusive file lock of each repository
    pc,        \* "idle", "open", "commit", "undo" or "close"
    original,  \* .repositories: the branch when the scope enlisted it
    written,   \* .written
    created,   \* .created_artifacts
    retained,  \* .retained_artifacts, and nothing unless .database_committed
    sql,       \* the accepted heads the open transaction sees
    sqlRows,   \* the artifact rows the open transaction inserted
    stack,     \* savepoints
    doomed,    \* needs_rollback of the innermost atomic block
    faults     \* kinds of faults so far

durable == <<accepted, rows>>
scope   == <<original, written, created, retained>>
txn     == <<sql, sqlRows, stack, doomed>>
vars == <<ref, accepted, disk, rows, holder, pc, original, written, created,
          retained, sql, sqlRows, stack, doomed, faults>>

Savepoint == [nested : BOOLEAN,               \* a coordinated scope
              refs : [Repo -> Commit],        \* .checkpoint()
              enlisted : SUBSET Repo,
              sql : [Repo -> Commit],
              rows : SUBSET File]

TypeOK ==
    /\ ref \in [Repo -> Commit]
    /\ accepted \in [Repo -> Commit]
    /\ disk \subseteq File
    /\ rows \subseteq File
    /\ holder \in [Repo -> Proc \cup {NoProc}]
    /\ pc \in [Proc -> {"idle", "open", "commit", "undo", "close"}]
    /\ original \in [Proc -> [Repo -> Commit \cup {Absent}]]
    /\ written \in [Proc -> SUBSET Repo]
    /\ created \in [Proc -> SUBSET File]
    /\ retained \in [Proc -> SUBSET File]
    /\ sql \in [Proc -> [Repo -> Commit]]
    /\ sqlRows \in [Proc -> SUBSET File]
    /\ stack \in [Proc -> Seq(Savepoint)]
    /\ doomed \in [Proc -> BOOLEAN]
    /\ faults \subseteq Fault

NoScope(p) ==
    /\ original' = [original EXCEPT ![p] = [r \in Repo |-> Absent]]
    /\ written'  = [written EXCEPT ![p] = {}]
    /\ created'  = [created EXCEPT ![p] = {}]
    /\ retained' = [retained EXCEPT ![p] = {}]
    /\ sql'      = [sql EXCEPT ![p] = [r \in Repo |-> NoCommit]]
    /\ sqlRows'  = [sqlRows EXCEPT ![p] = {}]
    /\ stack'    = [stack EXCEPT ![p] = <<>>]
    /\ doomed'   = [doomed EXCEPT ![p] = FALSE]

Init ==
    /\ ref = [r \in Repo |-> NoCommit]
    /\ accepted = [r \in Repo |-> NoCommit]
    /\ disk = {} /\ rows = {}
    /\ holder = [r \in Repo |-> NoProc]
    /\ pc = [p \in Proc |-> "idle"]
    /\ original = [p \in Proc |-> [r \in Repo |-> Absent]]
    /\ written = [p \in Proc |-> {}]
    /\ created = [p \in Proc |-> {}]
    /\ retained = [p \in Proc |-> {}]
    /\ sql = [p \in Proc |-> [r \in Repo |-> NoCommit]]
    /\ sqlRows = [p \in Proc |-> {}]
    /\ stack = [p \in Proc |-> <<>>]
    /\ doomed = [p \in Proc |-> FALSE]
    /\ faults = {}

-----------------------------------------------------------------------------
(* Helpers. *)

Enlisted(p) == {r \in Repo : original[p][r] # Absent}

Happens(fault) ==
    /\ faults' = faults \cup {fault}
    /\ Cardinality(faults') <= MaxFaults

\* The repositories whose branch a failing Git command leaves where it is.
Unreachable(failed) == IF failed = {} THEN UNCHANGED faults ELSE Happens("git")

\* The branches of the repositories in `which` are moved to `target`.
MoveRefs(which, target) ==
    ref' = [r \in Repo |-> IF r \in which THEN target[r] ELSE ref[r]]

Goto(p, label) == pc' = [pc EXCEPT ![p] = label]

Running(p) == pc[p] = "open" /\ ~doomed[p]

Top(p) == Head(stack[p])

\* ROLLBACK TO SAVEPOINT; what was enlisted after it still reads as committed.
RollbackToTop(p) ==
    /\ sql' = [sql EXCEPT ![p] =
         [r \in Repo |-> IF r \in Top(p).enlisted THEN Top(p).sql[r]
                         ELSE IF r \in Enlisted(p) THEN accepted[r]
                         ELSE NoCommit]]
    /\ sqlRows' = [sqlRows EXCEPT ![p] = Top(p).rows]
    /\ stack' = [stack EXCEPT ![p] = Tail(@)]
    /\ doomed' = [doomed EXCEPT ![p] = FALSE]

\* restore(checkpoint): every enlisted branch goes back to where it was when
\* the nested scope began or, if enlisted later, when it was enlisted.
Checkpoint(p) ==
    [r \in Enlisted(p) |->
        IF r \in Top(p).enlisted THEN Top(p).refs[r] ELSE original[p][r]]

-----------------------------------------------------------------------------
(* The body of a scope. *)

Open(p) ==
    /\ pc[p] = "idle"
    /\ Goto(p, "open")
    /\ UNCHANGED <<ref, disk, durable, holder, scope, txn, faults>>

\* enlist: the exclusive lock is held until the outermost scope ends.
Enlist(p, r) ==
    /\ Running(p)
    /\ original[p][r] = Absent
    /\ holder[r] = NoProc
    /\ holder' = [holder EXCEPT ![r] = p]
    /\ original' = [original EXCEPT ![p][r] = ref[r]]
    /\ sql' = [sql EXCEPT ![p][r] = accepted[r]]
    /\ UNCHANGED <<ref, disk, durable, pc, written, created, retained, sqlRows,
                   stack, doomed, faults>>

\* Mutant: the new commit is based on whatever the branch names.
WriteOnBranch(p, r) ==
    /\ Running(p)
    /\ original[p][r] # Absent
    /\ Len(ref[r]) < MaxHistory
    /\ ref' = [ref EXCEPT ![r] = Append(@, p)]
    /\ sql' = [sql EXCEPT ![p][r] = Append(ref[r], p)]
    /\ written' = [written EXCEPT ![p] = @ \cup {r}]
    /\ UNCHANGED <<disk, durable, holder, pc, original, created, retained,
                   sqlRows, stack, doomed, faults>>

\* commit_repository_files on an enlisted repository whose branch matches.
Write(p, r) ==
    /\ Running(p)
    /\ original[p][r] # Absent
    /\ ref[r] = sql[p][r]
    /\ Len(ref[r]) < MaxHistory
    /\ ref' = [ref EXCEPT ![r] = Append(@, p)]
    /\ sql' = [sql EXCEPT ![p][r] = Append(@, p)]
    /\ written' = [written EXCEPT ![p] = @ \cup {r}]
    /\ UNCHANGED <<disk, durable, holder, pc, original, created, retained,
                   sqlRows, stack, doomed, faults>>

\* The write raises.  Its own savepoint undoes its SQL; the branch was never
\* moved, was moved back, or was moved and stays (killed at the timeout).
WriteFails(p, r) ==
    /\ Running(p)
    /\ original[p][r] # Absent
    /\ ref[r] = sql[p][r]
    /\ Len(ref[r]) < MaxHistory
    /\ \/ UNCHANGED <<ref, faults>>
       \/ ref' = [ref EXCEPT ![r] = Append(@, p)] /\ Happens("git")
    /\ written' = [written EXCEPT ![p] = @ \cup {r}]
    /\ UNCHANGED <<disk, durable, holder, pc, original, created, retained, txn>>

\* A file is stored, its row inserted and its fate registered.
CreateArtifact(p, f) ==
    /\ Running(p)
    /\ f \notin disk
    /\ disk' = disk \cup {f}
    /\ created' = [created EXCEPT ![p] = @ \cup {f}]
    /\ sqlRows' = [sqlRows EXCEPT ![p] = @ \cup {f}]
    /\ UNCHANGED <<ref, durable, holder, pc, original, written, retained, sql,
                   stack, doomed, faults>>

\* A nested coordinated scope or a plain transaction.atomic begins.
BeginSavepoint(p) ==
    /\ Running(p)
    /\ Len(stack[p]) < MaxDepth
    /\ \E nested \in BOOLEAN :
         stack' = [stack EXCEPT ![p] =
           <<[nested |-> nested,
              refs |-> [r \in Repo |-> IF r \in Enlisted(p) THEN ref[r]
                                                            ELSE NoCommit],
              enlisted |-> Enlisted(p), sql |-> sql[p],
              rows |-> sqlRows[p]]>> \o @]
    /\ UNCHANGED <<ref, disk, durable, holder, pc, scope, sql, sqlRows, doomed,
                   faults>>

\* transaction.set_rollback(True).  Outermost, the middleware does it for an
\* error response when changed() finds that a branch moved.
SetRollback(p) ==
    /\ Running(p)
    /\ stack[p] = <<>> => \E r \in Enlisted(p) : ref[r] # original[p][r]
    /\ doomed' = [doomed EXCEPT ![p] = TRUE]
    /\ UNCHANGED <<ref, disk, durable, holder, pc, scope, sql, sqlRows, stack,
                   faults>>

\* The innermost plain block ends; SQL alone is kept or undone.
ExitPlain(p) ==
    /\ pc[p] = "open"
    /\ stack[p] # <<>>
    /\ ~Top(p).nested
    /\ IF doomed[p]
          THEN RollbackToTop(p)
          ELSE /\ stack' = [stack EXCEPT ![p] = Tail(@)]
               /\ UNCHANGED <<sql, sqlRows, doomed>>
    /\ UNCHANGED <<ref, disk, durable, holder, pc, scope, faults>>

\* The innermost nested scope ends well: align_written_refs.
ExitNested(p) ==
    /\ Running(p)
    /\ stack[p] # <<>>
    /\ Top(p).nested
    /\ MoveRefs(written[p], sql[p])
    /\ stack' = [stack EXCEPT ![p] = Tail(@)]
    /\ UNCHANGED <<disk, durable, holder, pc, scope, sql, sqlRows, doomed,
                   faults>>

\* It was marked for rollback, or an exception passes through it (also one
\* that aligning raised): SQL goes back, then the branches.
AbortNested(p) ==
    /\ pc[p] = "open"
    /\ stack[p] # <<>>
    /\ Top(p).nested
    /\ RollbackToTop(p)
    /\ \E failed \in SUBSET Enlisted(p) :
         /\ Unreachable(failed)
         /\ MoveRefs(Enlisted(p) \ failed, Checkpoint(p))
    /\ UNCHANGED <<disk, durable, holder, pc, scope>>

\* An exception passes through a plain block; a caller may catch it outside.
AbortPlain(p) ==
    /\ pc[p] = "open"
    /\ stack[p] # <<>>
    /\ ~Top(p).nested
    /\ RollbackToTop(p)
    /\ UNCHANGED <<ref, disk, durable, holder, pc, scope, faults>>

-----------------------------------------------------------------------------
(* The outermost scope ends. *)

\* Mutant: the outermost scope trusts the branches as they are.
ExitUnaligned(p) ==
    /\ Running(p)
    /\ stack[p] = <<>>
    /\ retained' = [retained EXCEPT ![p] = created[p] \cap sqlRows[p]]
    /\ Goto(p, "commit")
    /\ UNCHANGED <<ref, disk, durable, holder, original, written, created, txn,
                   faults>>

\* Mutant: it also aligns the repositories that were only read.
ExitAligningAll(p) ==
    /\ Running(p)
    /\ stack[p] = <<>>
    /\ MoveRefs(Enlisted(p), sql[p])
    /\ retained' = [retained EXCEPT ![p] = created[p] \cap sqlRows[p]]
    /\ Goto(p, "commit")
    /\ UNCHANGED <<disk, durable, holder, original, written, created, txn, faults>>

\* Mutant: it keeps files whose rows a savepoint has undone.
ExitRetainingAll(p) ==
    /\ Running(p)
    /\ stack[p] = <<>>
    /\ MoveRefs(written[p], sql[p])
    /\ retained' = [retained EXCEPT ![p] = created[p]]
    /\ Goto(p, "commit")
    /\ UNCHANGED <<disk, durable, holder, original, written, created, txn, faults>>

\* align_written_refs and prepare_artifacts, the last steps before COMMIT.
Exit(p) ==
    /\ Running(p)
    /\ stack[p] = <<>>
    /\ MoveRefs(written[p], sql[p])
    /\ retained' = [retained EXCEPT ![p] = created[p] \cap sqlRows[p]]
    /\ Goto(p, "commit")
    /\ UNCHANGED <<disk, durable, holder, original, written, created, txn, faults>>

\* An exception, a refused alignment, a busy repository or a rollback mark.
Abort(p) ==
    /\ pc[p] = "open"
    /\ stack[p] = <<>>
    /\ Goto(p, "undo")
    /\ UNCHANGED <<ref, disk, durable, holder, scope, txn, faults>>

MakeDurable(p) ==
    /\ accepted' = [r \in Repo |-> IF r \in written[p] THEN sql[p][r]
                                                       ELSE accepted[r]]
    /\ rows' = rows \cup sqlRows[p]

\* Mutant: a failing post-commit callback runs before mark_committed.
CommitThenUndo(p) ==
    /\ pc[p] = "commit"
    /\ MakeDurable(p)
    /\ Goto(p, "close") \/ Goto(p, "undo")
    /\ UNCHANGED <<ref, disk, holder, scope, txn, faults>>

\* COMMIT and mark_committed, the first on_commit callback.
CommitSql(p) ==
    /\ pc[p] = "commit"
    /\ MakeDurable(p)
    /\ Goto(p, "close")
    /\ UNCHANGED <<ref, disk, holder, scope, txn, faults>>

\* COMMIT raises, although with a lost acknowledgement it took place.
CommitFails(p) ==
    /\ pc[p] = "commit"
    /\ \/ UNCHANGED <<durable, faults>>
       \/ MakeDurable(p) /\ Happens("ack")
    /\ Goto(p, "undo")
    /\ UNCHANGED <<ref, disk, holder, scope, txn>>

\* Mutant: repositories the scope never enlisted are restored too.
UndoEverywhere(p) ==
    /\ pc[p] = "undo"
    /\ MoveRefs(Repo, original[p])
    /\ retained' = [retained EXCEPT ![p] = {}]
    /\ Goto(p, "close")
    /\ UNCHANGED <<disk, durable, holder, original, written, created, txn, faults>>

\* restore(): every enlisted branch to where it was enlisted; as the database
\* is not known to have committed, no artifact is retained.
Undo(p) ==
    /\ pc[p] = "undo"
    /\ \E failed \in SUBSET Enlisted(p) :
         /\ Unreachable(failed)
         /\ MoveRefs(Enlisted(p) \ failed, original[p])
    /\ retained' = [retained EXCEPT ![p] = {}]
    /\ Goto(p, "close")
    /\ UNCHANGED <<disk, durable, holder, original, written, created, txn>>

\* Whatever happened: discard the other artifacts, close, release the locks.
Close(p) ==
    /\ pc[p] = "close"
    /\ \E failed \in SUBSET (created[p] \ retained[p]) :
         /\ Unreachable(failed)
         /\ disk' = disk \ ((created[p] \ retained[p]) \ failed)
    /\ holder' = [r \in Repo |-> IF holder[r] = p THEN NoProc ELSE holder[r]]
    /\ Goto(p, "idle")
    /\ NoScope(p)
    /\ UNCHANGED <<ref, durable>>

\* The process dies: the kernel releases its locks, PostgreSQL rolls back.
Crash(p) ==
    /\ pc[p] # "idle"
    /\ Happens("crash")
    /\ holder' = [r \in Repo |-> IF holder[r] = p THEN NoProc ELSE holder[r]]
    /\ Goto(p, "idle")
    /\ NoScope(p)
    /\ UNCHANGED <<ref, disk, durable>>

-----------------------------------------------------------------------------
(* Around the scopes. *)

\* Another program commits on a branch or rewinds it.
Drift(r) ==
    /\ Happens(IF holder[r] = NoProc THEN "drift" ELSE "meddle")
    /\ \/ Len(ref[r]) < MaxHistory /\ ref' = [ref EXCEPT ![r] = Append(@, Foreign)]
       \/ ref[r] # NoCommit /\ ref' = [ref EXCEPT ![r] = Front(@)]
    /\ UNCHANGED <<disk, durable, holder, pc, scope, txn>>

\* The operator repairs a repository to its accepted head.
Repair(r) ==
    /\ holder[r] = NoProc
    /\ ref[r] # accepted[r]
    /\ ref' = [ref EXCEPT ![r] = accepted[r]]
    /\ UNCHANGED <<disk, durable, holder, pc, scope, txn, faults>>

Body(p) ==
    \/ \E r \in Repo : Enlist(p, r) \/ Write(p, r) \/ WriteFails(p, r)
    \/ \E f \in File : CreateArtifact(p, f)
    \/ BeginSavepoint(p) \/ SetRollback(p)

Leaving(p) ==
    \/ ExitPlain(p) \/ ExitNested(p) \/ AbortNested(p) \/ AbortPlain(p)
    \/ Exit(p) \/ Abort(p) \/ CommitSql(p) \/ CommitFails(p) \/ Undo(p)
    \/ Close(p)

Next ==
    \/ \E p \in Proc : Open(p) \/ Body(p) \/ Leaving(p) \/ Crash(p)
    \/ \E r \in Repo : Drift(r) \/ Repair(r)

Spec == Init /\ [][Next]_vars

-----------------------------------------------------------------------------
(* Correctness. *)

\* Without faults a repository nobody holds has its branch at its accepted
\* head, whatever was nested, undone, caught or committed in between: the SQL
\* outcome and the Git outcome of every scope agree, savepoint by savepoint.
QuietIsMatched ==
    faults = {} => \A r \in Repo : holder[r] = NoProc => ref[r] = accepted[r]

\* Failing compensation and dying processes may leave a branch ahead of its
\* accepted head, never behind or beside it: what was accepted can be read and
\* repaired.  Only outside drift and a lost acknowledgement break this.
BranchNeverLosesAccepted ==
    faults \cap {"ack", "drift", "meddle"} = {} =>
        \A r \in Repo : IsPrefix(accepted[r], ref[r])

\* Under every fault a commit only extends accepted histories, with commits of
\* the process that commits: no concurrent scope's write is lost, and nothing
\* another program put on a branch is accepted.
AcceptedOnlyGrows ==
    [][\A r \in Repo : accepted'[r] # accepted[r] =>
          \E p \in Proc : /\ pc[p] = "commit" /\ pc'[p] # "commit"
                          /\ IsStrictPrefix(accepted[r], accepted'[r])
                          /\ \A i \in Len(accepted[r]) + 1 .. Len(accepted'[r]) :
                               accepted'[r][i] = p]_vars

\* "Merely reading or rejecting a write must never repair preexisting
\* repository drift" (align_written_refs): a branch found away from its
\* accepted head stays there until the operator repairs it.
DriftIsLeftAlone ==
    [][\A p \in Proc, r \in Repo :
          /\ "meddle" \notin faults
          /\ Body(p) \/ Leaving(p)
          /\ original[p][r] \notin {Absent, accepted[r]}
          /\ ref[r] = original[p][r]
          => ref'[r] = ref[r]]_vars

\* A durable row always finds its file, unless an acknowledgement was lost; and
\* without faults every file without a durable row belongs to an open scope
\* that will still decide about it: nothing is leaked by a savepoint.
FilesMatchRows ==
    /\ "ack" \notin faults => rows \subseteq disk
    /\ faults = {} => \A f \in disk \ rows : \E p \in Proc : f \in created[p]

=============================================================================
