----------------------- MODULE CoordinatedRequestsProofs -----------------------
(***************************************************************************)
(* CoordinatedRequests keeps its safety properties for any processes,      *)
(* repositories and files, any depth of nested savepoints and any faults.  *)
(***************************************************************************)
EXTENDS CoordinatedRequests, TLAPS

Saved(p) == {stack[p][i] : i \in 1..Len(stack[p])}

Deciding(p) == pc[p] \in {"open", "commit"}

\* The history c is base and then commits of p alone.
Extends(base, c, p) ==
    /\ IsPrefix(base, c)
    /\ \A i \in Len(base) + 1 .. Len(c) : c[i] = p

\* A scope holds the locks of what it enlisted, writes nothing else and starts
\* with nothing.
LocksHeld ==
    /\ \A p \in Proc, r \in Repo : original[p][r] # Absent <=> holder[r] = p
    /\ \A p \in Proc : written[p] \subseteq Enlisted(p)
    /\ \A p \in Proc : \A s \in Saved(p) : s.enlisted \subseteq Enlisted(p)
    /\ \A p \in Proc : pc[p] = "idle" =>
         Enlisted(p) = {} /\ created[p] = {} /\ sqlRows[p] = {} /\ Saved(p) = {}

\* What a transaction may still commit extends what is accepted by its own
\* writes, also after it goes back to a savepoint.
ExtendsAccepted(p) ==
    Deciding(p) =>
      /\ \A r \in Enlisted(p) : Extends(accepted[r], sql[p][r], p)
      /\ \A s \in Saved(p) : \A r \in s.enlisted :
            Extends(accepted[r], s.sql[r], p)

\* Without faults a scope found every branch at its accepted head, and only a
\* branch it wrote can be elsewhere before the scope has decided.
QuietInside(p) ==
    faults = {} =>
      /\ pc[p] \in {"open", "commit", "undo"} =>
           \A r \in Enlisted(p) : original[p][r] = accepted[r]
      /\ Deciding(p) => \A r \in Enlisted(p) \ written[p] :
           /\ ref[r] = accepted[r] /\ sql[p][r] = accepted[r]
           /\ \A s \in Saved(p) : r \in s.enlisted =>
                s.refs[r] = accepted[r] /\ s.sql[r] = accepted[r]
      /\ pc[p] = "close" => \A r \in Enlisted(p) : ref[r] = accepted[r]

LosesNothing == faults \cap {"ack", "drift", "meddle"} = {}

\* Every position a branch may be moved back to has the accepted head behind it.
BehindEveryTarget(p) ==
    LosesNothing =>
      /\ pc[p] \in {"open", "commit", "undo"} =>
           \A r \in Enlisted(p) : IsPrefix(accepted[r], original[p][r])
      /\ Deciding(p) => \A s \in Saved(p) : \A r \in s.enlisted :
           IsPrefix(accepted[r], s.refs[r])

\* The scope about to commit has aligned the branches it wrote.
Aligned(p) ==
    "meddle" \notin faults /\ pc[p] = "commit" =>
      \A r \in written[p] : ref[r] = sql[p][r]

\* A branch found away from its accepted head was neither written nor moved.
DriftIsKept(p) ==
    "meddle" \notin faults /\ Deciding(p) =>
      \A r \in Enlisted(p) : original[p][r] # accepted[r] =>
        /\ r \notin written[p]
        /\ sql[p][r] = accepted[r] /\ ref[r] = original[p][r]
        /\ \A s \in Saved(p) : r \in s.enlisted =>
             s.refs[r] = original[p][r] /\ s.sql[r] = accepted[r]

BranchesOf(p) ==
    /\ ExtendsAccepted(p) /\ QuietInside(p) /\ BehindEveryTarget(p)
    /\ Aligned(p) /\ DriftIsKept(p)

\* A file belongs to the scope that created it until that scope has decided.
FilesOf(p) ==
    /\ created[p] \subseteq disk /\ sqlRows[p] \subseteq created[p]
    /\ \A s \in Saved(p) : s.rows \subseteq created[p]
    /\ pc[p] = "commit" => retained[p] = created[p] \cap sqlRows[p]
    /\ faults = {} /\ pc[p] = "close" => retained[p] \subseteq rows
    /\ "ack" \notin faults =>
         /\ pc[p] \in {"open", "commit", "undo"} => created[p] \cap rows = {}
         /\ pc[p] = "close" => created[p] \cap rows \subseteq retained[p]

FilesAreOwned ==
    /\ \A p, q \in Proc : p # q => created[p] \cap created[q] = {}
    /\ \A p \in Proc : FilesOf(p)

Inv == /\ TypeOK /\ LocksHeld /\ FilesAreOwned /\ FilesMatchRows
       /\ QuietIsMatched /\ BranchNeverLosesAccepted
       /\ \A p \in Proc : BranchesOf(p)

-----------------------------------------------------------------------------
(* Commits, savepoints and types. *)

\* What appending to a lineage keeps.
LEMMA AppendFacts ==
    ASSUME NEW b \in Commit, NEW x \in Proc \cup {Foreign}
    PROVE  /\ Append(b, x) \in Commit
           /\ \A a \in Commit : IsPrefix(a, b) => IsPrefix(a, Append(b, x))
           /\ \A a \in Commit : Extends(a, b, x) => Extends(a, Append(b, x), x)
BY DEF Commit, IsPrefix, Extends

LEMMA ReflexiveFacts ==
    ASSUME NEW b \in Commit
    PROVE  /\ IsPrefix(b, b)
           /\ \A p \in Proc : Extends(b, b, p)
           /\ \A a \in Commit, p \in Proc : Extends(a, b, p) => IsPrefix(a, b)
BY DEF Commit, IsPrefix, Extends

LEMMA FrontFact ==
    ASSUME NEW b \in Commit, b # NoCommit PROVE Front(b) \in Commit
<1>1. Len(b) \in Nat /\ Len(b) # 0
  BY DEF Commit, NoCommit
<1>2. \A i \in 1..(Len(b) - 1) : b[i] \in Proc \cup {Foreign}
  BY <1>1 DEF Commit
<1>3. SubSeq(b, 1, Len(b) - 1) \in Seq(Proc \cup {Foreign})
  BY <1>1 DEF Commit
<1>4. QED BY <1>3 DEF Front, Commit

\* Leaving a savepoint, entering one, and dropping all of them.
LEMMA PopFacts ==
    ASSUME TypeOK, NEW p \in Proc, stack[p] # <<>>,
           stack' = [stack EXCEPT ![p] = Tail(@)]
    PROVE  /\ Top(p) \in Saved(p) /\ Top(p) \in Savepoint
           /\ stack' \in [Proc -> Seq(Savepoint)]
           /\ \A q \in Proc : Saved(q)' \subseteq Saved(q)
BY DEF TypeOK, Saved, Top

LEMMA PushFacts ==
    ASSUME TypeOK, NEW p \in Proc, NEW s \in Savepoint,
           stack' = [stack EXCEPT ![p] = <<s>> \o @]
    PROVE  /\ stack' \in [Proc -> Seq(Savepoint)]
           /\ Saved(p)' \subseteq Saved(p) \cup {s}
           /\ \A q \in Proc \ {p} : stack'[q] = stack[q]
BY DEF TypeOK, Saved

LEMMA DropFacts ==
    ASSUME TypeOK, NEW p \in Proc, stack' = [stack EXCEPT ![p] = <<>>]
    PROVE  /\ stack' \in [Proc -> Seq(Savepoint)]
           /\ Saved(p)' = {}
           /\ \A q \in Proc \ {p} : stack'[q] = stack[q]
BY DEF TypeOK, Saved

\* The savepoint a nested block begins with.
NewSavepoint(p, nested) ==
    [nested |-> nested,
     refs |-> [r \in Repo |-> IF r \in Enlisted(p) THEN ref[r] ELSE NoCommit],
     enlisted |-> Enlisted(p), sql |-> sql[p], rows |-> sqlRows[p]]

LEMMA NewSavepointTyped ==
    ASSUME TypeOK, NEW p \in Proc, NEW nested \in BOOLEAN
    PROVE  NewSavepoint(p, nested) \in Savepoint
<1>1. NoCommit \in Commit
  BY DEF Commit, NoCommit
<1>2. [r \in Repo |-> IF r \in Enlisted(p) THEN ref[r] ELSE NoCommit]
        \in [Repo -> Commit]
  BY <1>1 DEF TypeOK
<1>3. Enlisted(p) \subseteq Repo /\ sql[p] \in [Repo -> Commit]
      /\ sqlRows[p] \subseteq File
  BY DEF TypeOK, Enlisted
<1>4. QED BY <1>2, <1>3 DEF NewSavepoint, Savepoint

\* A rollback to the innermost savepoint, in terms of each repository.
LEMMA RollbackFacts ==
    ASSUME TypeOK, NEW p \in Proc, stack[p] # <<>>, RollbackToTop(p)
    PROVE  /\ sql' \in [Proc -> [Repo -> Commit]]
           /\ sqlRows' \in [Proc -> SUBSET File]
           /\ doomed' \in [Proc -> BOOLEAN]
           /\ \A q \in Proc \ {p} : /\ sql'[q] = sql[q] /\ sqlRows'[q] = sqlRows[q]
                                    /\ stack'[q] = stack[q]
           /\ sqlRows'[p] = Top(p).rows
           /\ \A r \in Repo : sql'[p][r] = IF r \in Top(p).enlisted
                                              THEN Top(p).sql[r]
                                           ELSE IF r \in Enlisted(p)
                                              THEN accepted[r] ELSE NoCommit
<1>1. Top(p) \in Savepoint
  BY PopFacts DEF RollbackToTop
<1>2. NoCommit \in Commit
  BY DEF Commit, NoCommit
<1> DEFINE back == [r \in Repo |-> IF r \in Top(p).enlisted THEN Top(p).sql[r]
                                   ELSE IF r \in Enlisted(p) THEN accepted[r]
                                   ELSE NoCommit]
<1>3. back \in [Repo -> Commit]
  BY <1>1, <1>2 DEF TypeOK, Savepoint
<1>4. sql' = [sql EXCEPT ![p] = back]
  BY DEF RollbackToTop
<1>5. Top(p).rows \in SUBSET File
  BY <1>1 DEF Savepoint
<1>6. \A r \in Repo : back[r] = IF r \in Top(p).enlisted THEN Top(p).sql[r]
                                ELSE IF r \in Enlisted(p) THEN accepted[r]
                                ELSE NoCommit
  OBVIOUS
<1> HIDE DEF back
<1>7. QED BY <1>3, <1>4, <1>5, <1>6 DEF TypeOK, RollbackToTop

LEMMA MoveRefsTyped ==
    ASSUME TypeOK, NEW which \in SUBSET Repo, NEW target,
           \A r \in which : target[r] \in Commit, MoveRefs(which, target)
    PROVE  ref' \in [Repo -> Commit]
BY DEF TypeOK, MoveRefs

LEMMA CheckpointTyped ==
    ASSUME TypeOK, NEW p \in Proc, Top(p) \in Savepoint
    PROVE  \A r \in Enlisted(p) : Checkpoint(p)[r] \in Commit
BY DEF TypeOK, Enlisted, Checkpoint, Savepoint

LEMMA NoScopeTyped ==
    ASSUME TypeOK, NEW p \in Proc, NoScope(p)
    PROVE  /\ original' \in [Proc -> [Repo -> Commit \cup {Absent}]]
           /\ written' \in [Proc -> SUBSET Repo]
           /\ created' \in [Proc -> SUBSET File]
           /\ retained' \in [Proc -> SUBSET File]
           /\ sql' \in [Proc -> [Repo -> Commit]]
           /\ sqlRows' \in [Proc -> SUBSET File]
           /\ stack' \in [Proc -> Seq(Savepoint)]
           /\ doomed' \in [Proc -> BOOLEAN]
<1>1. [r \in Repo |-> Absent] \in [Repo -> Commit \cup {Absent}]
  OBVIOUS
<1>2. [r \in Repo |-> NoCommit] \in [Repo -> Commit]
  BY DEF Commit, NoCommit
<1>3. <<>> \in Seq(Savepoint)
  OBVIOUS
<1>4. QED BY <1>1, <1>2, <1>3 DEF TypeOK, NoScope

LEMMA FaultsTyped ==
    ASSUME TypeOK
    PROVE  /\ \A f \in Fault : Happens(f) => faults' \subseteq Fault
           /\ \A failed : Unreachable(failed) => faults' \subseteq Fault
BY DEF TypeOK, Happens, Unreachable, Fault

LEMMA BodyKeepsTypes == ASSUME TypeOK, NEW p \in Proc, Body(p) PROVE TypeOK'
<1> USE DEF Running, durable, scope, txn
<1>1. CASE \E r \in Repo : Enlist(p, r)
  <2>1. PICK r \in Repo : Enlist(p, r)
    BY <1>1
  <2>2. /\ holder' \in [Repo -> Proc \cup {NoProc}]
        /\ original' \in [Proc -> [Repo -> Commit \cup {Absent}]]
        /\ sql' \in [Proc -> [Repo -> Commit]]
    BY <2>1 DEF Enlist, TypeOK
  <2>3. QED BY <2>1, <2>2 DEF Enlist, TypeOK
<1>2. CASE \E r \in Repo : Write(p, r)
  <2>1. PICK r \in Repo : Write(p, r)
    BY <1>2
  <2>2. Append(ref[r], p) \in Commit /\ Append(sql[p][r], p) \in Commit
    BY AppendFacts DEF TypeOK
  <2>3. /\ ref' \in [Repo -> Commit]
        /\ sql' \in [Proc -> [Repo -> Commit]]
        /\ written' \in [Proc -> SUBSET Repo]
    BY <2>1, <2>2 DEF Write, TypeOK
  <2>4. QED BY <2>1, <2>3 DEF Write, TypeOK
<1>3. CASE \E r \in Repo : WriteFails(p, r)
  <2>1. PICK r \in Repo : WriteFails(p, r)
    BY <1>3
  <2>2. Append(ref[r], p) \in Commit
    BY AppendFacts DEF TypeOK
  <2>3. faults' \subseteq Fault
    BY <2>1, FaultsTyped DEF WriteFails, TypeOK, Fault
  <2>4. ref' \in [Repo -> Commit]
    BY <2>1, <2>2 DEF WriteFails, TypeOK
  <2>5. written' \in [Proc -> SUBSET Repo]
    BY <2>1 DEF WriteFails, TypeOK
  <2>6. QED BY <2>1, <2>3, <2>4, <2>5 DEF WriteFails, TypeOK
<1>4. CASE \E f \in File : CreateArtifact(p, f)
  BY <1>4 DEF CreateArtifact, TypeOK
<1>5. CASE BeginSavepoint(p)
  <2>1. PICK nested \in BOOLEAN :
          stack' = [stack EXCEPT ![p] = <<NewSavepoint(p, nested)>> \o @]
    BY <1>5 DEF BeginSavepoint, NewSavepoint
  <2>2. stack' \in [Proc -> Seq(Savepoint)]
    BY <2>1, NewSavepointTyped, PushFacts
  <2>3. QED BY <1>5, <2>2 DEF BeginSavepoint, TypeOK
<1>6. CASE SetRollback(p)
  BY <1>6 DEF SetRollback, TypeOK
<1>7. QED BY <1>1, <1>2, <1>3, <1>4, <1>5, <1>6 DEF Body

LEMMA LeavingKeepsTypes == ASSUME TypeOK, NEW p \in Proc, Leaving(p) PROVE TypeOK'
<1> USE DEF Running, Goto, durable, scope, txn
<1>1. CASE ExitPlain(p)
  <2>1. stack[p] # <<>> /\ stack' = [stack EXCEPT ![p] = Tail(@)]
    BY <1>1 DEF ExitPlain, RollbackToTop
  <2>2. stack' \in [Proc -> Seq(Savepoint)]
    BY <2>1, PopFacts
  <2>3. /\ sql' \in [Proc -> [Repo -> Commit]]
        /\ sqlRows' \in [Proc -> SUBSET File]
        /\ doomed' \in [Proc -> BOOLEAN]
    BY <1>1, <2>1, RollbackFacts DEF ExitPlain, TypeOK
  <2>4. QED BY <1>1, <2>2, <2>3 DEF ExitPlain, TypeOK
<1>2. CASE ExitNested(p)
  <2>1. stack' \in [Proc -> Seq(Savepoint)]
    BY <1>2, PopFacts DEF ExitNested
  <2>2. ref' \in [Repo -> Commit]
    <3>1. written[p] \in SUBSET Repo /\ \A r \in written[p] : sql[p][r] \in Commit
      BY DEF TypeOK
    <3>2. QED BY <1>2, <3>1, MoveRefsTyped DEF ExitNested
  <2>3. QED BY <1>2, <2>1, <2>2 DEF ExitNested, TypeOK
<1>3. CASE AbortNested(p)
  <2>1. /\ stack' \in [Proc -> Seq(Savepoint)]
        /\ Top(p) \in Savepoint
    BY <1>3, PopFacts DEF AbortNested, RollbackToTop
  <2>2. /\ sql' \in [Proc -> [Repo -> Commit]]
        /\ sqlRows' \in [Proc -> SUBSET File]
        /\ doomed' \in [Proc -> BOOLEAN]
    BY <1>3, RollbackFacts DEF AbortNested
  <2>3. PICK failed \in SUBSET Enlisted(p) :
          /\ Unreachable(failed)
          /\ MoveRefs(Enlisted(p) \ failed, Checkpoint(p))
    BY <1>3 DEF AbortNested
  <2>4. ref' \in [Repo -> Commit]
    <3>1. Enlisted(p) \ failed \in SUBSET Repo
      BY DEF Enlisted
    <3>2. \A r \in Enlisted(p) \ failed : Checkpoint(p)[r] \in Commit
      BY <2>1, CheckpointTyped
    <3>3. QED BY <2>3, <3>1, <3>2, MoveRefsTyped
  <2>5. faults' \subseteq Fault
    BY <2>3, FaultsTyped
  <2>6. QED BY <1>3, <2>1, <2>2, <2>4, <2>5 DEF AbortNested, TypeOK
<1>4. CASE AbortPlain(p)
  <2>1. stack' \in [Proc -> Seq(Savepoint)]
    BY <1>4, PopFacts DEF AbortPlain, RollbackToTop
  <2>2. /\ sql' \in [Proc -> [Repo -> Commit]]
        /\ sqlRows' \in [Proc -> SUBSET File]
        /\ doomed' \in [Proc -> BOOLEAN]
    BY <1>4, RollbackFacts DEF AbortPlain
  <2>3. QED BY <1>4, <2>1, <2>2 DEF AbortPlain, TypeOK
<1>5. CASE Exit(p)
  <2>1. ref' \in [Repo -> Commit]
    <3>1. written[p] \in SUBSET Repo /\ \A r \in written[p] : sql[p][r] \in Commit
      BY DEF TypeOK
    <3>2. QED BY <1>5, <3>1, MoveRefsTyped DEF Exit
  <2>2. retained' \in [Proc -> SUBSET File]
    BY <1>5 DEF Exit, TypeOK
  <2>3. QED BY <1>5, <2>1, <2>2 DEF Exit, TypeOK
<1>6. CASE Abort(p)
  BY <1>6 DEF Abort, TypeOK
<1>7. CASE CommitSql(p)
  <2>1. accepted' \in [Repo -> Commit] /\ rows' \subseteq File
    BY <1>7 DEF CommitSql, MakeDurable, TypeOK
  <2>2. QED BY <1>7, <2>1 DEF CommitSql, TypeOK
<1>8. CASE CommitFails(p)
  <2>1. accepted' \in [Repo -> Commit] /\ rows' \subseteq File
    <3>1. CASE UNCHANGED durable
      BY <3>1 DEF TypeOK
    <3>2. CASE MakeDurable(p)
      BY <3>2 DEF MakeDurable, TypeOK
    <3>3. QED BY <1>8, <3>1, <3>2 DEF CommitFails
  <2>2. faults' \subseteq Fault
    BY <1>8, FaultsTyped DEF CommitFails, TypeOK, Fault
  <2>3. QED BY <1>8, <2>1, <2>2 DEF CommitFails, TypeOK
<1>9. CASE Undo(p)
  <2>1. PICK failed \in SUBSET Enlisted(p) :
          Unreachable(failed) /\ MoveRefs(Enlisted(p) \ failed, original[p])
    BY <1>9 DEF Undo
  <2>2. ref' \in [Repo -> Commit]
    <3>1. Enlisted(p) \ failed \in SUBSET Repo
      BY DEF Enlisted
    <3>2. \A r \in Enlisted(p) \ failed : original[p][r] \in Commit
      BY DEF TypeOK, Enlisted
    <3>3. QED BY <2>1, <3>1, <3>2, MoveRefsTyped
  <2>3. faults' \subseteq Fault
    BY <2>1, FaultsTyped
  <2>4. retained' \in [Proc -> SUBSET File]
    BY <1>9 DEF Undo, TypeOK
  <2>5. QED BY <1>9, <2>2, <2>3, <2>4 DEF Undo, TypeOK
<1>10. CASE Close(p)
  <2>1. disk' \subseteq File /\ faults' \subseteq Fault
    BY <1>10, FaultsTyped DEF Close, TypeOK
  <2>2. holder' \in [Repo -> Proc \cup {NoProc}]
    BY <1>10 DEF Close, TypeOK
  <2>3. QED BY <1>10, <2>1, <2>2, NoScopeTyped DEF Close, TypeOK
<1>11. QED
  BY <1>1, <1>2, <1>3, <1>4, <1>5, <1>6, <1>7, <1>8, <1>9, <1>10 DEF Leaving

LEMMA NextKeepsTypes == TypeOK /\ [Next]_vars => TypeOK'
<1> SUFFICES ASSUME TypeOK, [Next]_vars PROVE TypeOK'
  OBVIOUS
<1> USE DEF Goto, durable, scope, txn
<1>1. CASE UNCHANGED vars
  BY <1>1 DEF TypeOK, vars
<1>2. ASSUME NEW p \in Proc, Open(p) PROVE TypeOK'
  BY <1>2 DEF Open, TypeOK
<1>3. ASSUME NEW p \in Proc, Crash(p) PROVE TypeOK'
  <2>1. holder' \in [Repo -> Proc \cup {NoProc}] /\ faults' \subseteq Fault
    BY <1>3, FaultsTyped DEF Crash, TypeOK, Fault
  <2>2. QED BY <1>3, <2>1, NoScopeTyped DEF Crash, TypeOK
<1>4. ASSUME NEW r \in Repo, Drift(r) PROVE TypeOK'
  <2>1. Append(ref[r], Foreign) \in Commit
    BY AppendFacts DEF TypeOK
  <2>2. ref[r] # NoCommit => Front(ref[r]) \in Commit
    BY FrontFact DEF TypeOK
  <2>3. ref' \in [Repo -> Commit]
    BY <1>4, <2>1, <2>2 DEF Drift, TypeOK
  <2>4. faults' \subseteq Fault
    <3>1. "drift" \in Fault /\ "meddle" \in Fault
      BY DEF Fault
    <3>2. QED BY <1>4, <3>1, FaultsTyped DEF Drift
  <2>5. QED BY <1>4, <2>3, <2>4 DEF Drift, TypeOK
<1>5. ASSUME NEW r \in Repo, Repair(r) PROVE TypeOK'
  BY <1>5 DEF Repair, TypeOK
<1>6. QED
  BY <1>1, <1>2, <1>3, <1>4, <1>5, BodyKeepsTypes, LeavingKeepsTypes DEF Next

-----------------------------------------------------------------------------
(* What a step of one scope leaves alone. *)

LEMMA InitInv == Init => Inv
<1> SUFFICES ASSUME Init PROVE Inv
  OBVIOUS
<1>1. NoCommit \in Commit
  BY DEF NoCommit, Commit
<1>2. TypeOK
  <2>1. <<>> \in Seq(Savepoint)
    OBVIOUS
  <2>2. QED BY <1>1, <2>1 DEF Init, TypeOK
<1>3. \A p \in Proc : Enlisted(p) = {} /\ Saved(p) = {}
  BY DEF Init, Enlisted, Saved
<1>4. LocksHeld
  BY <1>3, NoProcAssumption DEF Init, LocksHeld
<1>5. FilesAreOwned /\ FilesMatchRows /\ QuietIsMatched
  BY <1>3 DEF Init, FilesAreOwned, FilesOf, FilesMatchRows, QuietIsMatched
<1>6. BranchNeverLosesAccepted
  BY <1>1, ReflexiveFacts DEF Init, BranchNeverLosesAccepted
<1>7. \A p \in Proc : BranchesOf(p)
  BY <1>3 DEF Init, BranchesOf, ExtendsAccepted, QuietInside, BehindEveryTarget,
              Aligned, DriftIsKept, Deciding
<1>8. QED BY <1>2, <1>4, <1>5, <1>6, <1>7 DEF Inv

\* A step of p's scope: the other scopes keep their state, and the branches and
\* accepted heads of repositories p does not hold stay.
OnlyOwn(p) ==
    /\ \A q \in Proc \ {p} :
         /\ pc'[q] = pc[q] /\ original'[q] = original[q]
         /\ written'[q] = written[q] /\ created'[q] = created[q]
         /\ retained'[q] = retained[q] /\ sql'[q] = sql[q]
         /\ sqlRows'[q] = sqlRows[q] /\ stack'[q] = stack[q]
    /\ \A r \in Repo : holder[r] # p =>
         /\ ref'[r] = ref[r] /\ accepted'[r] = accepted[r]
         /\ holder'[r] = NoProc => holder[r] = NoProc
    /\ faults \subseteq faults'

LEMMA OthersKept ==
    ASSUME Inv, NEW p \in Proc, OnlyOwn(p), NEW q \in Proc \ {p}
    PROVE  /\ Enlisted(q)' = Enlisted(q) /\ Saved(q)' = Saved(q)
           /\ BranchesOf(q)'
<1>1. Enlisted(q)' = Enlisted(q) /\ Saved(q)' = Saved(q)
  BY DEF OnlyOwn, Enlisted, Saved
<1>2. \A r \in Enlisted(q) : ref'[r] = ref[r] /\ accepted'[r] = accepted[r]
  BY DEF Inv, LocksHeld, OnlyOwn, Enlisted
<1>3. /\ written[q] \subseteq Enlisted(q)
      /\ \A s \in Saved(q) : s.enlisted \subseteq Enlisted(q)
  BY DEF Inv, LocksHeld
<1>4. /\ pc'[q] = pc[q] /\ original'[q] = original[q]
      /\ written'[q] = written[q] /\ sql'[q] = sql[q]
      /\ faults \subseteq faults'
  BY DEF OnlyOwn
<1>5. BranchesOf(q)
  BY DEF Inv
<1>6. ExtendsAccepted(q)'
  BY <1>1, <1>2, <1>3, <1>4, <1>5 DEF BranchesOf, ExtendsAccepted, Deciding
<1>7. QuietInside(q)'
  BY <1>1, <1>2, <1>3, <1>4, <1>5 DEF BranchesOf, QuietInside, Deciding
<1>8. BehindEveryTarget(q)'
  BY <1>1, <1>2, <1>3, <1>4, <1>5
     DEF BranchesOf, BehindEveryTarget, LosesNothing, Deciding
<1>9. Aligned(q)'
  BY <1>1, <1>2, <1>3, <1>4, <1>5 DEF BranchesOf, Aligned
<1>10. DriftIsKept(q)'
  BY <1>1, <1>2, <1>3, <1>4, <1>5 DEF BranchesOf, DriftIsKept, Deciding
<1>11. QED BY <1>1, <1>6, <1>7, <1>8, <1>9, <1>10 DEF BranchesOf

\* What p has to establish about its own repositories.
Settled(p) ==
    \A r \in Repo : holder[r] = p =>
      /\ LosesNothing' => IsPrefix(accepted'[r], ref'[r])
      /\ faults' = {} /\ holder'[r] = NoProc => ref'[r] = accepted'[r]

LEMMA ScopeStep ==
    ASSUME Inv, NEW p \in Proc, OnlyOwn(p), TypeOK', LocksHeld',
           FilesAreOwned', FilesMatchRows', BranchesOf(p)', Settled(p)
    PROVE  Inv'
<1>1. \A q \in Proc : BranchesOf(q)'
  BY OthersKept
<1>2. faults \subseteq faults' /\ \A r \in Repo : holder[r] # p =>
         /\ ref'[r] = ref[r] /\ accepted'[r] = accepted[r]
         /\ holder'[r] = NoProc => holder[r] = NoProc
  BY DEF OnlyOwn
<1>3. QuietIsMatched'
  BY <1>2 DEF Inv, QuietIsMatched, Settled
<1>4. BranchNeverLosesAccepted'
  BY <1>2 DEF Inv, BranchNeverLosesAccepted, Settled, LosesNothing
<1>5. QED BY <1>1, <1>3, <1>4 DEF Inv

LEMMA LocksFrame ==
    ASSUME Inv, NEW p \in Proc, OnlyOwn(p), UNCHANGED <<holder, original>>,
           pc'[p] # "idle", written'[p] \subseteq Enlisted(p),
           \A s \in Saved(p)' : s.enlisted \subseteq Enlisted(p)
    PROVE  LocksHeld' /\ \A q \in Proc : Enlisted(q)' = Enlisted(q)
<1>1. \A q \in Proc : Enlisted(q)' = Enlisted(q)
  BY DEF Enlisted
<1>2. \A q \in Proc \ {p} : Saved(q)' = Saved(q)
  BY DEF OnlyOwn, Saved
<1>3. LocksHeld'
  BY <1>1, <1>2 DEF Inv, LocksHeld, OnlyOwn
<1>4. QED BY <1>1, <1>3

LEMMA FilesFrame ==
    ASSUME Inv, NEW p \in Proc, OnlyOwn(p), UNCHANGED <<disk, rows, created>>,
           sqlRows'[p] \subseteq created[p],
           \A s \in Saved(p)' : s.rows \subseteq created[p],
           pc[p] # "close",
           pc'[p] = "commit" => retained'[p] = created[p] \cap sqlRows'[p],
           pc'[p] = "close" => retained'[p] = {}
    PROVE  FilesAreOwned' /\ FilesMatchRows'
<1>1. \A q \in Proc \ {p} : FilesOf(q)'
  BY DEF Inv, FilesAreOwned, FilesOf, OnlyOwn, Saved
<1>2. "ack" \notin faults => created[p] \cap rows = {}
  <2>1. pc[p] \in {"idle", "open", "commit", "undo"}
    BY DEF Inv, TypeOK
  <2>2. pc[p] = "idle" => created[p] = {}
    BY DEF Inv, LocksHeld
  <2>3. FilesOf(p)
    BY DEF Inv, FilesAreOwned
  <2>4. QED BY <2>1, <2>2, <2>3 DEF FilesOf
<1>3. FilesOf(p)'
  BY <1>2 DEF Inv, FilesAreOwned, FilesOf, OnlyOwn
<1>4. FilesAreOwned'
  BY <1>1, <1>3 DEF Inv, FilesAreOwned
<1>5. FilesMatchRows'
  BY DEF Inv, FilesMatchRows, OnlyOwn
<1>6. QED BY <1>4, <1>5

\* A step that moves no branch and changes nothing SQL says of one.
LEMMA BranchesFrame ==
    ASSUME Inv, NEW p \in Proc, OnlyOwn(p), TypeOK',
           UNCHANGED <<ref, accepted, holder, original, sql, written>>,
           Saved(p)' \subseteq Saved(p),
           \/ pc'[p] = "open" /\ pc[p] \in {"idle", "open"}
           \/ pc'[p] = "undo" /\ pc[p] \in {"open", "commit"},
           FilesAreOwned', FilesMatchRows'
    PROVE  Inv'
<1>1. LocksHeld' /\ Enlisted(p)' = Enlisted(p)
  BY LocksFrame DEF Inv, LocksHeld
<1>2. pc[p] = "idle" => Enlisted(p) = {} /\ Saved(p) = {}
  BY DEF Inv, LocksHeld
<1>3. BranchesOf(p)'
  <2>1. faults \subseteq faults' /\ BranchesOf(p)
    BY DEF OnlyOwn, Inv
  <2>2. ExtendsAccepted(p)'
    BY <1>1, <1>2, <2>1 DEF BranchesOf, ExtendsAccepted, Deciding
  <2>3. QuietInside(p)'
    BY <1>1, <1>2, <2>1 DEF BranchesOf, QuietInside, Deciding
  <2>4. BehindEveryTarget(p)'
    BY <1>1, <1>2, <2>1 DEF BranchesOf, BehindEveryTarget, LosesNothing, Deciding
  <2>5. Aligned(p)'
    BY <2>1 DEF Aligned
  <2>6. DriftIsKept(p)'
    BY <1>1, <1>2, <2>1 DEF BranchesOf, DriftIsKept, Deciding
  <2>7. QED BY <2>2, <2>3, <2>4, <2>5, <2>6 DEF BranchesOf
<1>4. Settled(p)
  BY NoProcAssumption
     DEF Inv, BranchNeverLosesAccepted, LosesNothing, OnlyOwn, Settled
<1>5. QED BY <1>1, <1>3, <1>4, ScopeStep

-----------------------------------------------------------------------------
(* The steps of a scope. *)

LEMMA OpenKeepsInv == ASSUME Inv, TypeOK', NEW p \in Proc, Open(p) PROVE Inv'
<1>1. OnlyOwn(p) /\ pc'[p] = "open" /\ pc[p] = "idle"
  BY DEF Inv, TypeOK, OnlyOwn, Open, Goto, durable, scope, txn
<1>2. UNCHANGED <<ref, disk, durable, holder, scope, txn>>
  BY DEF Open
<1>3. Saved(p)' = Saved(p) /\ sqlRows[p] = {} /\ Saved(p) = {}
  <2>1. stack' = stack
    BY <1>2 DEF txn
  <2>2. sqlRows[p] = {} /\ Saved(p) = {}
    BY <1>1 DEF Inv, LocksHeld
  <2>3. QED BY <2>1, <2>2 DEF Saved
<1>4. FilesAreOwned' /\ FilesMatchRows'
  BY <1>1, <1>2, <1>3, FilesFrame DEF durable, scope, txn
<1>5. QED BY <1>1, <1>2, <1>3, <1>4, BranchesFrame DEF durable, scope, txn

LEMMA EnlistKeepsInv ==
    ASSUME Inv, TypeOK', NEW p \in Proc, NEW r \in Repo, Enlist(p, r) PROVE Inv'
<1>1. /\ pc[p] = "open" /\ pc' = pc /\ holder[r] = NoProc
      /\ original[p][r] = Absent
      /\ holder' = [holder EXCEPT ![r] = p]
      /\ original' = [original EXCEPT ![p][r] = ref[r]]
      /\ sql' = [sql EXCEPT ![p][r] = accepted[r]]
      /\ UNCHANGED <<ref, disk, accepted, rows, written, created, retained,
                     sqlRows, stack, faults>>
  BY DEF Enlist, Running, durable
<1>2. OnlyOwn(p)
  BY <1>1 DEF Inv, TypeOK, OnlyOwn
<1>3. /\ original'[p][r] = ref[r] /\ sql'[p][r] = accepted[r]
      /\ \A x \in Repo \ {r} : /\ original'[p][x] = original[p][x]
                               /\ sql'[p][x] = sql[p][x]
  BY <1>1 DEF Inv, TypeOK
<1>4. ref[r] # Absent /\ ref[r] \in Commit /\ accepted[r] \in Commit
  BY AbsentAssumption DEF Inv, TypeOK
<1>5. Saved(p)' = Saved(p) /\ r \notin Enlisted(p)
      /\ Enlisted(p)' = Enlisted(p) \cup {r}
  BY <1>1, <1>3, <1>4 DEF Saved, Enlisted
<1>6. /\ written[p] \subseteq Enlisted(p)
      /\ \A s \in Saved(p) : s.enlisted \subseteq Enlisted(p)
  BY DEF Inv, LocksHeld
<1>7. LocksHeld'
  <2>1. \A q \in Proc, x \in Repo : original'[q][x] # Absent <=> holder'[x] = q
    BY <1>1, <1>2, <1>3, <1>4, NoProcAssumption
       DEF Inv, TypeOK, LocksHeld, OnlyOwn
  <2>2. \A q \in Proc \ {p} : Enlisted(q)' = Enlisted(q) /\ Saved(q)' = Saved(q)
    BY <1>2, OthersKept
  <2>3. QED BY <1>1, <1>5, <1>6, <2>1, <2>2 DEF Inv, LocksHeld
<1>8. FilesAreOwned' /\ FilesMatchRows'
  <2>1. FilesOf(p)
    BY DEF Inv, FilesAreOwned
  <2>2. QED BY <1>1, <1>2, <1>5, <2>1, FilesFrame DEF FilesOf
<1>9. BranchesOf(p)'
  <2>1. BranchesOf(p)
    BY DEF Inv
  <2>2. ExtendsAccepted(p)'
    BY <1>1, <1>3, <1>4, <1>5, <1>6, <2>1, ReflexiveFacts
       DEF BranchesOf, ExtendsAccepted, Deciding
  <2>3. faults = {} => ref[r] = accepted[r]
    BY <1>1 DEF Inv, QuietIsMatched
  <2>4. QuietInside(p)'
    BY <1>1, <1>3, <1>5, <1>6, <2>1, <2>3 DEF BranchesOf, QuietInside, Deciding
  <2>5. LosesNothing => IsPrefix(accepted[r], ref[r])
    BY DEF Inv, BranchNeverLosesAccepted, LosesNothing
  <2>6. BehindEveryTarget(p)'
    BY <1>1, <1>3, <1>5, <1>6, <2>1, <2>5
       DEF BranchesOf, BehindEveryTarget, LosesNothing, Deciding
  <2>7. Aligned(p)'
    BY <1>1 DEF Aligned
  <2>8. DriftIsKept(p)'
    BY <1>1, <1>3, <1>5, <1>6, <2>1 DEF BranchesOf, DriftIsKept, Deciding
  <2>9. QED BY <2>2, <2>4, <2>6, <2>7, <2>8 DEF BranchesOf
<1>10. Settled(p)
  BY <1>1, NoProcAssumption
     DEF Inv, TypeOK, BranchNeverLosesAccepted, LosesNothing, Settled
<1>11. QED BY <1>2, <1>7, <1>8, <1>9, <1>10, ScopeStep

\* A write that happens, and one that raises after it moved the branch or not.
LEMMA WriteKeepsInv ==
    ASSUME Inv, TypeOK', NEW p \in Proc, NEW r \in Repo,
           Write(p, r) \/ WriteFails(p, r)
    PROVE  Inv'
<1>1. /\ pc[p] = "open" /\ pc' = pc /\ original[p][r] # Absent
      /\ ref[r] = sql[p][r]
      /\ ref' = ref \/ ref' = [ref EXCEPT ![r] = Append(@, p)]
      /\ \/ ref' = [ref EXCEPT ![r] = Append(@, p)] /\ faults' = faults
            /\ sql' = [sql EXCEPT ![p][r] = Append(@, p)]
         \/ ref' = ref /\ faults' = faults /\ sql' = sql
         \/ "git" \in faults' /\ sql' = sql
      /\ faults \subseteq faults'
      /\ written' = [written EXCEPT ![p] = @ \cup {r}]
      /\ UNCHANGED <<disk, accepted, rows, holder, original, created, retained,
                     sqlRows, stack>>
  BY DEF Write, WriteFails, Running, Happens, durable, txn
<1>2. \A q \in Proc \ {p} : sql'[q] = sql[q] /\ written'[q] = written[q]
  BY <1>1 DEF Inv, TypeOK
<1>3. holder[r] = p
  BY <1>1 DEF Inv, LocksHeld
<1>4. \A x \in Repo \ {r} : ref'[x] = ref[x] /\ sql'[p][x] = sql[p][x]
  BY <1>1 DEF Inv, TypeOK
<1>5. OnlyOwn(p)
  BY <1>1, <1>2, <1>3, <1>4 DEF OnlyOwn
<1>6. /\ ref[r] \in Commit /\ accepted[r] \in Commit /\ sql[p][r] \in Commit
      /\ ref'[r] \in {ref[r], Append(ref[r], p)}
      /\ sql'[p][r] \in {sql[p][r], Append(sql[p][r], p)}
      /\ written'[p] = written[p] \cup {r}
  BY <1>1 DEF Inv, TypeOK
<1>7. Saved(p)' = Saved(p) /\ Enlisted(p)' = Enlisted(p) /\ r \in Enlisted(p)
  BY <1>1 DEF Saved, Enlisted
<1>8. /\ written[p] \subseteq Enlisted(p)
      /\ \A s \in Saved(p) : s.enlisted \subseteq Enlisted(p)
  BY DEF Inv, LocksHeld
<1>9. LocksHeld'
  BY <1>1, <1>5, <1>6, <1>7, <1>8, LocksFrame
<1>10. FilesAreOwned' /\ FilesMatchRows'
  <2>1. FilesOf(p)
    BY DEF Inv, FilesAreOwned
  <2>2. QED BY <1>1, <1>5, <1>7, <2>1, FilesFrame DEF FilesOf
<1>11. BranchesOf(p)'
  <2>1. BranchesOf(p)
    BY DEF Inv
  <2>2. Extends(accepted[r], sql'[p][r], p)
    <3>1. Extends(accepted[r], sql[p][r], p)
      BY <1>1, <1>7, <2>1 DEF BranchesOf, ExtendsAccepted, Deciding
    <3>2. QED BY <1>6, <3>1, AppendFacts
  <2>3. ExtendsAccepted(p)'
    <3>1. ASSUME NEW x \in Enlisted(p)
          PROVE  Extends(accepted[x], sql'[p][x], p)
      BY <1>1, <1>4, <2>1, <2>2, <3>1
         DEF BranchesOf, ExtendsAccepted, Deciding, Enlisted
    <3>2. QED BY <1>1, <1>7, <2>1, <3>1 DEF BranchesOf, ExtendsAccepted, Deciding
  <2>4. QuietInside(p)'
    <3>1. \A x \in Enlisted(p) \ written'[p] :
            x \in Enlisted(p) \ written[p] /\ ref'[x] = ref[x] /\ sql'[p][x] = sql[p][x]
      BY <1>4, <1>6 DEF Enlisted
    <3>2. QED BY <1>1, <1>7, <2>1, <3>1 DEF BranchesOf, QuietInside, Deciding
  <2>5. BehindEveryTarget(p)'
    BY <1>1, <1>7, <2>1
       DEF BranchesOf, BehindEveryTarget, LosesNothing, Deciding
  <2>6. Aligned(p)'
    BY <1>1 DEF Aligned
  <2>7. DriftIsKept(p)'
    <3>1. "meddle" \notin faults' => original[p][r] = accepted[r]
      BY <1>1, <1>7, <2>1 DEF BranchesOf, DriftIsKept, Deciding
    <3>2. \A x \in Enlisted(p) \ {r} :
            /\ x \notin written[p] => x \notin written'[p]
            /\ ref'[x] = ref[x] /\ sql'[p][x] = sql[p][x]
      BY <1>4, <1>6 DEF Enlisted
    <3>3. QED
      BY <1>1, <1>7, <2>1, <3>1, <3>2 DEF BranchesOf, DriftIsKept, Deciding
  <2>8. QED BY <2>3, <2>4, <2>5, <2>6, <2>7 DEF BranchesOf
<1>12. Settled(p)
  <2>1. LosesNothing' => \A x \in Repo : IsPrefix(accepted[x], ref[x])
    BY <1>1 DEF Inv, BranchNeverLosesAccepted, LosesNothing
  <2>2. LosesNothing' => IsPrefix(accepted[r], ref'[r])
    BY <1>6, <2>1, AppendFacts
  <2>3. QED BY <1>1, <1>4, <2>1, <2>2, NoProcAssumption DEF Settled
<1>13. QED BY <1>5, <1>9, <1>10, <1>11, <1>12, ScopeStep

LEMMA CreateArtifactKeepsInv ==
    ASSUME Inv, TypeOK', NEW p \in Proc, NEW f \in File, CreateArtifact(p, f)
    PROVE  Inv'
<1>1. /\ pc[p] = "open" /\ pc' = pc /\ f \notin disk
      /\ disk' = disk \cup {f}
      /\ created' = [created EXCEPT ![p] = @ \cup {f}]
      /\ sqlRows' = [sqlRows EXCEPT ![p] = @ \cup {f}]
      /\ UNCHANGED <<ref, accepted, rows, holder, original, written, retained,
                     sql, stack, faults>>
  BY DEF CreateArtifact, Running, durable
<1>2. OnlyOwn(p) /\ created'[p] = created[p] \cup {f}
      /\ sqlRows'[p] = sqlRows[p] \cup {f}
  BY <1>1 DEF Inv, TypeOK, OnlyOwn
<1>3. \A q \in Proc : Saved(q)' = Saved(q)
  BY <1>1 DEF Saved
<1>4. \A q \in Proc : created[q] \subseteq disk /\ FilesOf(q)
  BY DEF Inv, FilesAreOwned, FilesOf
<1>5. FilesMatchRows'
  <2>1. "ack" \notin faults => rows \subseteq disk'
    BY <1>1 DEF Inv, FilesMatchRows
  <2>2. ASSUME faults = {}, NEW g \in disk' \ rows
        PROVE  \E q \in Proc : g \in created'[q]
    <3>1. CASE g = f
      BY <1>2, <3>1
    <3>2. CASE g # f
      BY <1>1, <1>2, <2>2, <3>2 DEF Inv, FilesMatchRows, OnlyOwn
    <3>3. QED BY <3>1, <3>2
  <2>3. QED BY <1>1, <2>1, <2>2 DEF FilesMatchRows
<1>6. FilesAreOwned'
  <2>1. \A q \in Proc : FilesOf(q)'
    <3>1. "ack" \notin faults => f \notin rows
      BY <1>1 DEF Inv, FilesMatchRows
    <3>2. FilesOf(p)'
      BY <1>1, <1>2, <1>3, <1>4, <3>1 DEF FilesOf
    <3>3. \A q \in Proc \ {p} : FilesOf(q)'
      BY <1>1, <1>2, <1>3, <1>4 DEF FilesOf, OnlyOwn
    <3>4. QED BY <3>2, <3>3
  <2>2. \A q, o \in Proc : q # o => created'[q] \cap created'[o] = {}
    BY <1>1, <1>2, <1>4 DEF Inv, FilesAreOwned, OnlyOwn
  <2>3. QED BY <2>1, <2>2 DEF FilesAreOwned
<1>7. QED BY <1>1, <1>2, <1>3, <1>5, <1>6, BranchesFrame

LEMMA BeginSavepointKeepsInv ==
    ASSUME Inv, TypeOK', NEW p \in Proc, BeginSavepoint(p) PROVE Inv'
<1>1. /\ pc[p] = "open"
      /\ UNCHANGED <<ref, disk, accepted, rows, holder, pc, original, written,
                     created, retained, sql, sqlRows, faults>>
  BY DEF BeginSavepoint, Running, durable, scope
<1>2. PICK nested \in BOOLEAN :
        stack' = [stack EXCEPT ![p] = <<NewSavepoint(p, nested)>> \o @]
  BY DEF BeginSavepoint, NewSavepoint
<1> DEFINE s == NewSavepoint(p, nested)
<1>3. /\ s.enlisted = Enlisted(p) /\ s.sql = sql[p] /\ s.rows = sqlRows[p]
      /\ \A r \in Enlisted(p) : s.refs[r] = ref[r]
  BY DEF NewSavepoint, Enlisted
<1>4. s \in Savepoint
  BY NewSavepointTyped DEF Inv
<1> HIDE DEF s
<1>5. /\ Saved(p)' \subseteq Saved(p) \cup {s}
      /\ \A q \in Proc \ {p} : stack'[q] = stack[q]
  BY <1>2, <1>4, PushFacts DEF Inv, s
<1>6. OnlyOwn(p)
  BY <1>1, <1>5 DEF OnlyOwn
<1>7. /\ written[p] \subseteq Enlisted(p)
      /\ \A t \in Saved(p) : t.enlisted \subseteq Enlisted(p)
  BY DEF Inv, LocksHeld
<1>8. LocksHeld' /\ Enlisted(p)' = Enlisted(p)
  BY <1>1, <1>3, <1>5, <1>6, <1>7, LocksFrame
<1>9. FilesAreOwned' /\ FilesMatchRows'
  <2>1. FilesOf(p)
    BY DEF Inv, FilesAreOwned
  <2>2. QED BY <1>1, <1>3, <1>5, <1>6, <2>1, FilesFrame DEF FilesOf
<1>10. BranchesOf(p)'
  <2>1. BranchesOf(p)
    BY DEF Inv
  <2>2. LosesNothing => \A r \in Enlisted(p) : IsPrefix(accepted[r], ref[r])
    BY DEF Inv, BranchNeverLosesAccepted, LosesNothing, Enlisted
  <2>3. ExtendsAccepted(p)'
    BY <1>1, <1>3, <1>5, <1>8, <2>1 DEF BranchesOf, ExtendsAccepted, Deciding
  <2>4. QuietInside(p)'
    BY <1>1, <1>3, <1>5, <1>8, <2>1 DEF BranchesOf, QuietInside, Deciding
  <2>5. BehindEveryTarget(p)'
    BY <1>1, <1>3, <1>5, <1>8, <2>1, <2>2
       DEF BranchesOf, BehindEveryTarget, LosesNothing, Deciding
  <2>6. Aligned(p)'
    BY <1>1 DEF Aligned
  <2>7. DriftIsKept(p)'
    BY <1>1, <1>3, <1>5, <1>8, <2>1 DEF BranchesOf, DriftIsKept, Deciding
  <2>8. QED BY <2>3, <2>4, <2>5, <2>6, <2>7 DEF BranchesOf
<1>11. Settled(p)
  BY <1>1, NoProcAssumption
     DEF Inv, BranchNeverLosesAccepted, LosesNothing, Settled
<1>12. QED BY <1>6, <1>8, <1>9, <1>10, <1>11, ScopeStep

LEMMA SetRollbackKeepsInv ==
    ASSUME Inv, TypeOK', NEW p \in Proc, SetRollback(p) PROVE Inv'
<1>1. /\ pc[p] = "open"
      /\ UNCHANGED <<ref, disk, accepted, rows, holder, pc, original, written,
                     created, retained, sql, sqlRows, stack, faults>>
  BY DEF SetRollback, Running, durable, scope
<1>2. OnlyOwn(p) /\ Saved(p)' = Saved(p)
  BY <1>1 DEF OnlyOwn, Saved
<1>3. FilesAreOwned' /\ FilesMatchRows'
  <2>1. FilesOf(p)
    BY DEF Inv, FilesAreOwned
  <2>2. QED BY <1>1, <1>2, <2>1, FilesFrame DEF FilesOf
<1>4. QED BY <1>1, <1>2, <1>3, BranchesFrame

\* After a rollback to a savepoint, SQL says of a branch what it said then or
\* what is accepted; either is right for a branch the scope did not write.
LEMMA RollbackBranches ==
    ASSUME Inv, NEW p \in Proc, pc[p] = "open", stack[p] # <<>>, RollbackToTop(p)
    PROVE  /\ Top(p) \in Saved(p) /\ Saved(p)' \subseteq Saved(p)
           /\ sqlRows'[p] \subseteq created[p]
           /\ \A q \in Proc \ {p} : /\ sql'[q] = sql[q] /\ sqlRows'[q] = sqlRows[q]
                                    /\ stack'[q] = stack[q]
           /\ \A r \in Enlisted(p) :
                /\ Extends(accepted[r], sql'[p][r], p)
                /\ faults = {} /\ r \notin written[p] => sql'[p][r] = accepted[r]
                /\ "meddle" \notin faults /\ original[p][r] # accepted[r] =>
                     sql'[p][r] = accepted[r]
<1>1. Top(p) \in Saved(p) /\ Saved(p)' \subseteq Saved(p)
  BY PopFacts DEF Inv, RollbackToTop
<1>2. /\ \A q \in Proc \ {p} : /\ sql'[q] = sql[q] /\ sqlRows'[q] = sqlRows[q]
                               /\ stack'[q] = stack[q]
      /\ sqlRows'[p] = Top(p).rows
      /\ \A r \in Enlisted(p) : sql'[p][r] = IF r \in Top(p).enlisted
                                               THEN Top(p).sql[r] ELSE accepted[r]
  BY RollbackFacts DEF Inv, Enlisted
<1>3. sqlRows'[p] \subseteq created[p]
  BY <1>1, <1>2 DEF Inv, FilesAreOwned, FilesOf
<1>4. BranchesOf(p)
  BY DEF Inv
<1>5. ASSUME NEW r \in Enlisted(p)
      PROVE  /\ Extends(accepted[r], sql'[p][r], p)
             /\ faults = {} /\ r \notin written[p] => sql'[p][r] = accepted[r]
             /\ "meddle" \notin faults /\ original[p][r] # accepted[r] =>
                  sql'[p][r] = accepted[r]
  <2>1. CASE r \in Top(p).enlisted
    <3>1. sql'[p][r] = Top(p).sql[r]
      BY <1>2, <2>1
    <3>2. Extends(accepted[r], Top(p).sql[r], p)
      BY <1>1, <1>4, <2>1 DEF BranchesOf, ExtendsAccepted, Deciding
    <3>3. faults = {} /\ r \notin written[p] => Top(p).sql[r] = accepted[r]
      BY <1>1, <1>4, <2>1 DEF BranchesOf, QuietInside, Deciding
    <3>4. "meddle" \notin faults /\ original[p][r] # accepted[r] =>
            Top(p).sql[r] = accepted[r]
      BY <1>1, <1>4, <2>1 DEF BranchesOf, DriftIsKept, Deciding
    <3>5. QED BY <3>1, <3>2, <3>3, <3>4
  <2>2. CASE r \notin Top(p).enlisted
    <3>1. sql'[p][r] = accepted[r]
      BY <1>2, <2>2
    <3>2. Extends(accepted[r], accepted[r], p)
      BY ReflexiveFacts DEF Inv, TypeOK, Enlisted
    <3>3. QED BY <3>1, <3>2
  <2>3. QED BY <2>1, <2>2
<1>6. QED BY <1>1, <1>2, <1>3, <1>5

\* A rollback to a savepoint that also moves branches of the scope back.
LEMMA RollbackStep ==
    ASSUME Inv, TypeOK', NEW p \in Proc, pc[p] = "open", stack[p] # <<>>,
           RollbackToTop(p), faults \subseteq faults',
           UNCHANGED <<disk, accepted, rows, holder, pc, original, written,
                       created, retained>>,
           \A r \in Repo : holder[r] # p => ref'[r] = ref[r],
           \A r \in Enlisted(p) :
             /\ LosesNothing' => IsPrefix(accepted[r], ref'[r])
             /\ faults' = {} /\ r \notin written[p] => ref'[r] = accepted[r]
             /\ "meddle" \notin faults' /\ original[p][r] # accepted[r] =>
                  ref'[r] = original[p][r]
    PROVE  Inv'
<1>1. OnlyOwn(p)
  BY RollbackBranches DEF OnlyOwn
<1>2. Saved(p)' \subseteq Saved(p)
  BY RollbackBranches
<1>3. /\ written[p] \subseteq Enlisted(p)
      /\ \A s \in Saved(p) : s.enlisted \subseteq Enlisted(p)
  BY DEF Inv, LocksHeld
<1>4. LocksHeld' /\ Enlisted(p)' = Enlisted(p)
  BY <1>1, <1>2, <1>3, LocksFrame
<1>5. FilesAreOwned' /\ FilesMatchRows'
  <2>1. FilesOf(p)
    BY DEF Inv, FilesAreOwned
  <2>2. QED BY <1>1, <1>2, <2>1, FilesFrame, RollbackBranches DEF FilesOf
<1>6. BranchesOf(p)'
  <2>1. BranchesOf(p)
    BY DEF Inv
  <2>2. \A r \in Enlisted(p) :
          /\ Extends(accepted[r], sql'[p][r], p)
          /\ faults = {} /\ r \notin written[p] => sql'[p][r] = accepted[r]
          /\ "meddle" \notin faults /\ original[p][r] # accepted[r] =>
               sql'[p][r] = accepted[r]
    BY RollbackBranches
  <2>3. ExtendsAccepted(p)'
    BY <1>2, <1>4, <2>1, <2>2 DEF BranchesOf, ExtendsAccepted, Deciding
  <2>4. QuietInside(p)'
    BY <1>2, <1>4, <2>1, <2>2 DEF BranchesOf, QuietInside, Deciding
  <2>5. BehindEveryTarget(p)'
    BY <1>2, <1>4, <2>1 DEF BranchesOf, BehindEveryTarget, LosesNothing, Deciding
  <2>6. Aligned(p)'
    BY DEF Aligned
  <2>7. DriftIsKept(p)'
    BY <1>2, <1>4, <2>1, <2>2 DEF BranchesOf, DriftIsKept, Deciding
  <2>8. QED BY <2>3, <2>4, <2>5, <2>6, <2>7 DEF BranchesOf
<1>7. Settled(p)
  <2>1. \A r \in Repo : holder[r] = p => r \in Enlisted(p) /\ holder'[r] # NoProc
    BY NoProcAssumption DEF Inv, LocksHeld, Enlisted
  <2>2. QED BY <2>1 DEF Settled
<1>8. QED BY <1>1, <1>4, <1>5, <1>6, <1>7, ScopeStep

LEMMA UndoneSqlKeepsInv ==
    ASSUME Inv, TypeOK', NEW p \in Proc, pc[p] = "open", stack[p] # <<>>,
           RollbackToTop(p),
           UNCHANGED <<ref, disk, durable, holder, pc, scope, faults>>
    PROVE  Inv'
<1>1. UNCHANGED <<disk, accepted, rows, holder, pc, original, written, created,
                  retained, ref, faults>>
  BY DEF durable, scope
<1>2. BranchesOf(p)
  BY DEF Inv
<1>3. ASSUME NEW r \in Enlisted(p)
      PROVE  /\ LosesNothing' => IsPrefix(accepted[r], ref'[r])
             /\ faults' = {} /\ r \notin written[p] => ref'[r] = accepted[r]
             /\ "meddle" \notin faults' /\ original[p][r] # accepted[r] =>
                  ref'[r] = original[p][r]
  <2>1. LosesNothing => IsPrefix(accepted[r], ref[r])
    BY DEF Inv, BranchNeverLosesAccepted, LosesNothing, Enlisted
  <2>2. faults = {} /\ r \notin written[p] => ref[r] = accepted[r]
    BY <1>2 DEF BranchesOf, QuietInside, Deciding
  <2>3. "meddle" \notin faults /\ original[p][r] # accepted[r] =>
          ref[r] = original[p][r]
    BY <1>2 DEF BranchesOf, DriftIsKept, Deciding
  <2>4. QED BY <1>1, <2>1, <2>2, <2>3 DEF LosesNothing
<1>4. QED BY <1>1, <1>3, RollbackStep

LEMMA PlainKeepsInv ==
    ASSUME Inv, TypeOK', NEW p \in Proc, ExitPlain(p) \/ AbortPlain(p) PROVE Inv'
<1>1. /\ pc[p] = "open" /\ stack[p] # <<>>
      /\ UNCHANGED <<ref, disk, durable, holder, pc, scope, faults>>
  BY DEF ExitPlain, AbortPlain
<1>2. CASE RollbackToTop(p)
  BY <1>1, <1>2, UndoneSqlKeepsInv
<1>3. CASE stack' = [stack EXCEPT ![p] = Tail(@)] /\ UNCHANGED <<sql, sqlRows>>
  <2>1. Saved(p)' \subseteq Saved(p)
    BY <1>1, <1>3, PopFacts DEF Inv
  <2>2. OnlyOwn(p)
    BY <1>1, <1>3 DEF Inv, TypeOK, OnlyOwn, durable, scope
  <2>3. FilesAreOwned' /\ FilesMatchRows'
    <3>1. FilesOf(p)
      BY DEF Inv, FilesAreOwned
    <3>2. QED BY <1>1, <1>3, <2>1, <2>2, <3>1, FilesFrame
              DEF FilesOf, durable, scope
  <2>4. QED BY <1>1, <1>3, <2>1, <2>2, <2>3, BranchesFrame DEF durable, scope
<1>4. QED BY <1>2, <1>3 DEF ExitPlain, AbortPlain

LEMMA AbortNestedKeepsInv ==
    ASSUME Inv, TypeOK', NEW p \in Proc, AbortNested(p) PROVE Inv'
<1>1. /\ pc[p] = "open" /\ stack[p] # <<>> /\ RollbackToTop(p)
      /\ UNCHANGED <<disk, accepted, rows, holder, pc, original, written,
                     created, retained>>
  BY DEF AbortNested, durable, scope
<1>2. PICK failed \in SUBSET Enlisted(p) :
        /\ Unreachable(failed)
        /\ MoveRefs(Enlisted(p) \ failed, Checkpoint(p))
  BY DEF AbortNested
<1>3. \A r \in Repo : holder[r] # p => ref'[r] = ref[r]
  BY <1>2 DEF Inv, LocksHeld, Enlisted, MoveRefs
<1>4. faults \subseteq faults' /\ (faults' = {} => failed = {})
  BY <1>2 DEF Unreachable, Happens
<1>5. BranchesOf(p) /\ Top(p) \in Saved(p)
  BY <1>1, RollbackBranches DEF Inv
<1>6. ASSUME NEW r \in Enlisted(p)
      PROVE  /\ LosesNothing' => IsPrefix(accepted[r], ref'[r])
             /\ faults' = {} /\ r \notin written[p] => ref'[r] = accepted[r]
             /\ "meddle" \notin faults' /\ original[p][r] # accepted[r] =>
                  ref'[r] = original[p][r]
  <2>1. /\ LosesNothing' => LosesNothing
        /\ "meddle" \notin faults' => "meddle" \notin faults
        /\ faults' = {} => faults = {}
    BY <1>4 DEF LosesNothing
  <2>2. CASE r \in failed
    <3>1. ref'[r] = ref[r] /\ faults' # {}
      BY <1>2, <1>4, <2>2 DEF MoveRefs, Enlisted
    <3>2. LosesNothing => IsPrefix(accepted[r], ref[r])
      BY DEF Inv, BranchNeverLosesAccepted, LosesNothing, Enlisted
    <3>3. "meddle" \notin faults /\ original[p][r] # accepted[r] =>
            ref[r] = original[p][r]
      BY <1>1, <1>5 DEF BranchesOf, DriftIsKept, Deciding
    <3>4. QED BY <2>1, <3>1, <3>2, <3>3
  <2>3. CASE r \notin failed
    <3>1. ref'[r] = Checkpoint(p)[r]
      BY <1>2, <2>3 DEF MoveRefs, Enlisted
    <3>2. Checkpoint(p)[r] = IF r \in Top(p).enlisted THEN Top(p).refs[r]
                                                      ELSE original[p][r]
      BY DEF Checkpoint
    <3>3. LosesNothing => IsPrefix(accepted[r], Checkpoint(p)[r])
      BY <1>1, <1>5, <3>2 DEF BranchesOf, BehindEveryTarget, Deciding
    <3>4. faults = {} /\ r \notin written[p] => Checkpoint(p)[r] = accepted[r]
      BY <1>1, <1>5, <3>2 DEF BranchesOf, QuietInside, Deciding
    <3>5. "meddle" \notin faults /\ original[p][r] # accepted[r] =>
            Checkpoint(p)[r] = original[p][r]
      BY <1>1, <1>5, <3>2 DEF BranchesOf, DriftIsKept, Deciding
    <3>6. QED BY <2>1, <3>1, <3>3, <3>4, <3>5
  <2>4. QED BY <2>2, <2>3
<1>7. QED BY <1>1, <1>3, <1>4, <1>6, RollbackStep

\* align_written_refs moves the branches the scope wrote, and no other, to what
\* SQL says of them.
LEMMA AlignFacts ==
    ASSUME Inv, NEW p \in Proc, pc[p] = "open", MoveRefs(written[p], sql[p])
    PROVE  /\ \A r \in written[p] : ref'[r] = sql[p][r]
           /\ \A r \in Repo \ written[p] : ref'[r] = ref[r]
           /\ \A r \in Repo : holder[r] # p => ref'[r] = ref[r]
           /\ LosesNothing => \A r \in Repo : IsPrefix(accepted[r], ref'[r])
<1>1. written[p] \subseteq Enlisted(p) /\ Enlisted(p) \subseteq Repo
  BY DEF Inv, LocksHeld, Enlisted
<1>2. /\ \A r \in written[p] : ref'[r] = sql[p][r]
      /\ \A r \in Repo \ written[p] : ref'[r] = ref[r]
  BY <1>1 DEF MoveRefs
<1>3. \A r \in Repo : holder[r] # p => r \notin written[p]
  BY <1>1 DEF Inv, LocksHeld, Enlisted
<1>4. \A r \in written[p] : IsPrefix(accepted[r], sql[p][r])
  <2>1. ASSUME NEW r \in written[p] PROVE Extends(accepted[r], sql[p][r], p)
    BY <1>1 DEF Inv, BranchesOf, ExtendsAccepted, Deciding
  <2>2. QED BY <2>1 DEF Extends
<1>5. LosesNothing => \A r \in Repo : IsPrefix(accepted[r], ref[r])
  BY DEF Inv, BranchNeverLosesAccepted, LosesNothing
<1>6. QED BY <1>1, <1>2, <1>3, <1>4, <1>5

\* Aligning at the end of a nested scope, and before COMMIT.
LEMMA AlignKeepsInv ==
    ASSUME Inv, TypeOK', NEW p \in Proc, ExitNested(p) \/ Exit(p) PROVE Inv'
<1>1. /\ pc[p] = "open" /\ pc'[p] \in {"open", "commit"}
      /\ MoveRefs(written[p], sql[p])
      /\ UNCHANGED <<disk, accepted, rows, holder, original, written, created,
                     sql, sqlRows, faults>>
      /\ pc'[p] = "commit" => retained'[p] = created[p] \cap sqlRows[p]
  BY DEF ExitNested, Exit, Running, Goto, durable, scope, txn, Inv, TypeOK
<1>2. /\ \A r \in written[p] : ref'[r] = sql[p][r]
      /\ \A r \in Repo \ written[p] : ref'[r] = ref[r]
      /\ \A r \in Repo : holder[r] # p => ref'[r] = ref[r]
      /\ LosesNothing => \A r \in Repo : IsPrefix(accepted[r], ref'[r])
  BY <1>1, AlignFacts
<1>3. Saved(p)' \subseteq Saved(p)
      /\ \A q \in Proc \ {p} : stack'[q] = stack[q] /\ pc'[q] = pc[q]
                               /\ retained'[q] = retained[q]
  <2>1. CASE ExitNested(p)
    BY <2>1, PopFacts DEF ExitNested, scope, Inv, TypeOK
  <2>2. CASE Exit(p)
    <3>1. stack' = stack
      BY <2>2 DEF Exit, txn
    <3>2. QED BY <2>2, <3>1 DEF Exit, Goto, Saved, Inv, TypeOK
  <2>3. QED BY <2>1, <2>2
<1>4. OnlyOwn(p)
  BY <1>1, <1>2, <1>3 DEF OnlyOwn
<1>5. /\ written[p] \subseteq Enlisted(p) /\ Enlisted(p) \subseteq Repo
      /\ \A s \in Saved(p) : s.enlisted \subseteq Enlisted(p)
  BY DEF Inv, LocksHeld, Enlisted
<1>6. LocksHeld' /\ Enlisted(p)' = Enlisted(p)
  BY <1>1, <1>3, <1>4, <1>5, LocksFrame
<1>7. FilesAreOwned' /\ FilesMatchRows'
  <2>1. FilesOf(p)
    BY DEF Inv, FilesAreOwned
  <2>2. QED BY <1>1, <1>3, <1>4, <2>1, FilesFrame DEF FilesOf
<1>8. BranchesOf(p)'
  <2>1. BranchesOf(p)
    BY DEF Inv
  <2>2. ExtendsAccepted(p)'
    BY <1>1, <1>3, <1>6, <2>1 DEF BranchesOf, ExtendsAccepted, Deciding
  <2>3. QuietInside(p)'
    BY <1>1, <1>2, <1>3, <1>5, <1>6, <2>1 DEF BranchesOf, QuietInside, Deciding
  <2>4. BehindEveryTarget(p)'
    BY <1>1, <1>3, <1>6, <2>1
       DEF BranchesOf, BehindEveryTarget, LosesNothing, Deciding
  <2>5. Aligned(p)'
    BY <1>1, <1>2 DEF Aligned
  <2>6. DriftIsKept(p)'
    BY <1>1, <1>2, <1>3, <1>5, <1>6, <2>1 DEF BranchesOf, DriftIsKept, Deciding
  <2>7. QED BY <2>2, <2>3, <2>4, <2>5, <2>6 DEF BranchesOf
<1>9. Settled(p)
  BY <1>1, <1>2, NoProcAssumption DEF LosesNothing, Settled
<1>10. QED BY <1>4, <1>6, <1>7, <1>8, <1>9, ScopeStep

LEMMA AbortKeepsInv == ASSUME Inv, TypeOK', NEW p \in Proc, Abort(p) PROVE Inv'
<1>1. /\ pc[p] = "open" /\ pc'[p] = "undo"
      /\ UNCHANGED <<ref, disk, accepted, rows, holder, original, written,
                     created, retained, sql, sqlRows, stack, faults>>
      /\ \A q \in Proc \ {p} : pc'[q] = pc[q]
  BY DEF Abort, Goto, durable, scope, txn, Inv, TypeOK
<1>2. OnlyOwn(p) /\ Saved(p)' = Saved(p)
  BY <1>1 DEF OnlyOwn, Saved
<1>3. FilesAreOwned' /\ FilesMatchRows'
  <2>1. FilesOf(p)
    BY DEF Inv, FilesAreOwned
  <2>2. QED BY <1>1, <1>2, <2>1, FilesFrame DEF FilesOf
<1>4. QED BY <1>1, <1>2, <1>3, BranchesFrame

\* The transaction of p becomes durable, acknowledged or not.
LEMMA DurableFiles ==
    ASSUME Inv, NEW p \in Proc, pc[p] = "commit", OnlyOwn(p), MakeDurable(p),
           UNCHANGED <<disk, created, retained, sqlRows, stack>>,
           \/ pc'[p] = "close"
           \/ pc'[p] = "undo" /\ "ack" \in faults'
    PROVE  FilesAreOwned' /\ FilesMatchRows'
<1>1. \A q \in Proc : FilesOf(q)
  BY DEF Inv, FilesAreOwned
<1>2. \A q \in Proc \ {p} : created[p] \cap created[q] = {}
  BY DEF Inv, FilesAreOwned
<1>3. /\ sqlRows[p] \subseteq created[p] /\ created[p] \subseteq disk
      /\ retained[p] = created[p] \cap sqlRows[p]
  BY <1>1 DEF FilesOf
<1>4. rows' = rows \cup sqlRows[p]
  BY DEF MakeDurable
<1>5. faults \subseteq faults' /\ \A q \in Proc : Saved(q)' = Saved(q)
  BY DEF OnlyOwn, Saved
<1>6. FilesOf(p)'
  <2>1. "ack" \notin faults' => created[p] \cap rows = {}
    BY <1>1, <1>5 DEF FilesOf
  <2>2. QED BY <1>1, <1>3, <1>4, <1>5, <2>1 DEF FilesOf
<1>7. ASSUME NEW q \in Proc \ {p} PROVE FilesOf(q)'
  <2>1. created[q] \cap rows' = created[q] \cap rows
    BY <1>2, <1>3, <1>4
  <2>2. pc'[q] = pc[q]
    BY DEF OnlyOwn
  <2>3. rows \subseteq rows'
    BY <1>4
  <2>4. FilesOf(q)
    BY <1>1
  <2>5. QED BY <1>5, <2>1, <2>2, <2>3, <2>4 DEF FilesOf
<1>8. FilesAreOwned'
  BY <1>6, <1>7 DEF Inv, FilesAreOwned
<1>9. FilesMatchRows'
  <2>1. "ack" \notin faults => rows \subseteq disk
    BY DEF Inv, FilesMatchRows
  <2>2. faults = {} => \A f \in disk \ rows : \E q \in Proc : f \in created[q]
    BY DEF Inv, FilesMatchRows
  <2>3. QED BY <1>3, <1>4, <1>5, <2>1, <2>2 DEF FilesMatchRows
<1>10. QED BY <1>8, <1>9

LEMMA DurableKeepsInv ==
    ASSUME Inv, TypeOK', NEW p \in Proc, pc[p] = "commit", MakeDurable(p),
           UNCHANGED <<ref, disk, holder, scope, txn>>,
           \A q \in Proc \ {p} : pc'[q] = pc[q],
           faults \subseteq faults',
           \/ pc'[p] = "close"
           \/ pc'[p] = "undo" /\ "ack" \in faults'
    PROVE  Inv'
<1>1. UNCHANGED <<original, written, created, retained, sql, sqlRows, stack>>
  BY DEF scope, txn
<1>2. /\ written[p] \subseteq Enlisted(p) /\ Enlisted(p) \subseteq Repo
      /\ \A s \in Saved(p) : s.enlisted \subseteq Enlisted(p)
  BY DEF Inv, LocksHeld, Enlisted
<1>3. /\ \A r \in written[p] : accepted'[r] = sql[p][r]
      /\ \A r \in Repo \ written[p] : accepted'[r] = accepted[r]
  BY <1>2 DEF MakeDurable
<1>4. OnlyOwn(p)
  <2>1. \A r \in Repo : holder[r] # p => r \notin written[p]
    BY <1>2 DEF Inv, LocksHeld, Enlisted
  <2>2. QED BY <1>1, <1>3, <2>1 DEF OnlyOwn
<1>5. LocksHeld' /\ Enlisted(p)' = Enlisted(p)
  BY <1>1, <1>2, <1>4, LocksFrame DEF Saved
<1>6. FilesAreOwned' /\ FilesMatchRows'
  BY <1>1, <1>4, DurableFiles
<1>7. BranchesOf(p)
  BY DEF Inv
<1>8. "meddle" \notin faults => \A r \in written[p] : ref[r] = sql[p][r]
  BY <1>7 DEF BranchesOf, Aligned
<1>9. BranchesOf(p)'
  <2>1. ExtendsAccepted(p)' /\ Aligned(p)' /\ DriftIsKept(p)'
    BY DEF ExtendsAccepted, Aligned, DriftIsKept, Deciding
  <2>2. faults = {} => \A r \in Enlisted(p) : ref[r] = accepted'[r]
    BY <1>2, <1>3, <1>7, <1>8 DEF BranchesOf, QuietInside, Deciding
  <2>3. QuietInside(p)'
    BY <1>5, <2>2 DEF QuietInside, Deciding
  <2>4. BehindEveryTarget(p)'
    BY DEF BehindEveryTarget, LosesNothing, Deciding
  <2>5. QED BY <2>1, <2>3, <2>4 DEF BranchesOf
<1>10. Settled(p)
  <2>1. ASSUME LosesNothing', NEW r \in Repo PROVE IsPrefix(accepted'[r], ref[r])
    <3>1. LosesNothing /\ "meddle" \notin faults
      BY <2>1 DEF LosesNothing
    <3>2. CASE r \in written[p]
      <4>1. accepted'[r] = ref[r] /\ ref[r] \in Commit
        BY <1>3, <1>8, <3>1, <3>2 DEF Inv, TypeOK
      <4>2. QED BY <4>1, ReflexiveFacts
    <3>3. CASE r \notin written[p]
      BY <1>3, <3>1, <3>3 DEF Inv, BranchNeverLosesAccepted, LosesNothing
    <3>4. QED BY <3>2, <3>3
  <2>2. QED BY <2>1, NoProcAssumption DEF Settled
<1>11. QED BY <1>4, <1>5, <1>6, <1>9, <1>10, ScopeStep

LEMMA CommitSqlKeepsInv ==
    ASSUME Inv, TypeOK', NEW p \in Proc, CommitSql(p) PROVE Inv'
<1>1. /\ pc[p] = "commit" /\ pc'[p] = "close" /\ faults' = faults
      /\ \A q \in Proc \ {p} : pc'[q] = pc[q]
  BY DEF CommitSql, Goto, Inv, TypeOK
<1>2. MakeDurable(p) /\ UNCHANGED <<ref, disk, holder, scope, txn>>
  BY DEF CommitSql
<1>3. QED BY <1>1, <1>2, DurableKeepsInv

LEMMA CommitFailsKeepsInv ==
    ASSUME Inv, TypeOK', NEW p \in Proc, CommitFails(p) PROVE Inv'
<1>1. /\ pc[p] = "commit" /\ pc'[p] = "undo"
      /\ \A q \in Proc \ {p} : pc'[q] = pc[q]
      /\ UNCHANGED <<ref, disk, holder, scope, txn>>
  BY DEF CommitFails, Goto, Inv, TypeOK
<1>2. CASE MakeDurable(p) /\ Happens("ack")
  BY <1>1, <1>2, DurableKeepsInv DEF Happens
<1>3. CASE UNCHANGED <<durable, faults>>
  <2>1. UNCHANGED <<ref, disk, accepted, rows, holder, original, written,
                    created, retained, sql, sqlRows, stack, faults>>
    BY <1>1, <1>3 DEF durable, scope, txn
  <2>2. OnlyOwn(p) /\ Saved(p)' = Saved(p)
    BY <1>1, <2>1 DEF OnlyOwn, Saved
  <2>3. FilesAreOwned' /\ FilesMatchRows'
    <3>1. FilesOf(p)
      BY DEF Inv, FilesAreOwned
    <3>2. QED BY <1>1, <2>1, <2>2, <3>1, FilesFrame DEF FilesOf
  <2>4. QED BY <1>1, <2>1, <2>2, <2>3, BranchesFrame
<1>4. QED BY <1>2, <1>3 DEF CommitFails

LEMMA UndoKeepsInv == ASSUME Inv, TypeOK', NEW p \in Proc, Undo(p) PROVE Inv'
<1>1. /\ pc[p] = "undo" /\ pc'[p] = "close"
      /\ \A q \in Proc \ {p} : pc'[q] = pc[q] /\ retained'[q] = retained[q]
      /\ retained'[p] = {}
      /\ UNCHANGED <<disk, accepted, rows, holder, original, written, created,
                     sql, sqlRows, stack>>
  BY DEF Undo, Goto, durable, txn, Inv, TypeOK
<1>2. PICK failed \in SUBSET Enlisted(p) :
        Unreachable(failed) /\ MoveRefs(Enlisted(p) \ failed, original[p])
  BY DEF Undo
<1>3. faults \subseteq faults' /\ (faults' = {} => failed = {})
  BY <1>2 DEF Unreachable, Happens
<1>4. /\ \A r \in Repo : holder[r] # p => r \notin Enlisted(p)
      /\ \A r \in Repo : holder[r] = p => r \in Enlisted(p)
      /\ written[p] \subseteq Enlisted(p)
      /\ \A s \in Saved(p) : s.enlisted \subseteq Enlisted(p)
  BY DEF Inv, LocksHeld, Enlisted
<1>5. \A r \in Repo : ref'[r] = IF r \in Enlisted(p) \ failed THEN original[p][r]
                                                              ELSE ref[r]
  BY <1>2 DEF MoveRefs
<1>6. OnlyOwn(p) /\ Saved(p)' = Saved(p)
  BY <1>1, <1>3, <1>4, <1>5 DEF OnlyOwn, Saved
<1>7. LocksHeld' /\ Enlisted(p)' = Enlisted(p)
  BY <1>1, <1>4, <1>6, LocksFrame
<1>8. FilesAreOwned' /\ FilesMatchRows'
  <2>1. FilesOf(p)
    BY DEF Inv, FilesAreOwned
  <2>2. QED BY <1>1, <1>6, <2>1, FilesFrame DEF FilesOf
<1>9. BranchesOf(p)
  BY DEF Inv
<1>10. BranchesOf(p)'
  <2>1. /\ ExtendsAccepted(p)' /\ Aligned(p)' /\ DriftIsKept(p)'
        /\ BehindEveryTarget(p)'
    BY <1>1 DEF ExtendsAccepted, Aligned, DriftIsKept, BehindEveryTarget, Deciding
  <2>2. faults' = {} => \A r \in Enlisted(p) : ref'[r] = accepted[r]
    BY <1>1, <1>3, <1>5, <1>9 DEF BranchesOf, QuietInside, Enlisted
  <2>3. QuietInside(p)'
    BY <1>1, <1>7, <2>2 DEF QuietInside, Deciding
  <2>4. QED BY <2>1, <2>3 DEF BranchesOf
<1>11. Settled(p)
  <2>1. ASSUME LosesNothing', NEW r \in Repo, holder[r] = p
        PROVE  IsPrefix(accepted[r], ref'[r])
    <3>1. LosesNothing
      BY <1>3, <2>1 DEF LosesNothing
    <3>2. IsPrefix(accepted[r], ref[r])
      BY <3>1 DEF Inv, BranchNeverLosesAccepted, LosesNothing
    <3>3. IsPrefix(accepted[r], original[p][r])
      BY <1>1, <1>4, <1>9, <2>1, <3>1 DEF BranchesOf, BehindEveryTarget
    <3>4. QED BY <1>5, <3>2, <3>3
  <2>2. QED BY <1>1, <2>1, NoProcAssumption DEF Settled
<1>12. QED BY <1>6, <1>7, <1>8, <1>10, <1>11, ScopeStep

\* A scope that is gone holds nothing.
LEMMA NoScopeFacts ==
    ASSUME Inv, NEW p \in Proc, NoScope(p), Goto(p, "idle"),
           holder' = [r \in Repo |-> IF holder[r] = p THEN NoProc ELSE holder[r]],
           faults \subseteq faults', UNCHANGED <<ref, durable>>
    PROVE  /\ OnlyOwn(p) /\ LocksHeld' /\ BranchesOf(p)'
           /\ created'[p] = {} /\ sqlRows'[p] = {} /\ Saved(p)' = {}
           /\ pc'[p] = "idle"
<1>1. /\ original'[p] = [r \in Repo |-> Absent] /\ written'[p] = {}
      /\ created'[p] = {} /\ sqlRows'[p] = {} /\ pc'[p] = "idle"
      /\ \A q \in Proc \ {p} :
           /\ pc'[q] = pc[q] /\ original'[q] = original[q]
           /\ written'[q] = written[q] /\ created'[q] = created[q]
           /\ retained'[q] = retained[q] /\ sql'[q] = sql[q]
           /\ sqlRows'[q] = sqlRows[q]
  BY DEF NoScope, Goto, Inv, TypeOK
<1>2. Saved(p)' = {} /\ \A q \in Proc \ {p} : stack'[q] = stack[q]
  BY DropFacts DEF NoScope, Inv
<1>3. Enlisted(p)' = {}
  BY <1>1 DEF Enlisted
<1>4. \A r \in Repo : /\ holder[r] = p => holder'[r] = NoProc
                      /\ holder[r] # p => holder'[r] = holder[r]
  OBVIOUS
<1>5. OnlyOwn(p)
  BY <1>1, <1>2, <1>4 DEF OnlyOwn, durable
<1>6. LocksHeld'
  <2>1. \A q \in Proc \ {p} : Enlisted(q)' = Enlisted(q) /\ Saved(q)' = Saved(q)
    BY <1>5, OthersKept
  <2>2. \A q \in Proc, r \in Repo : original'[q][r] # Absent <=> holder'[r] = q
    <3>1. ASSUME NEW q \in Proc \ {p}, NEW r \in Repo
          PROVE  original'[q][r] # Absent <=> holder'[r] = q
      BY <1>1, <1>4, NoProcAssumption DEF Inv, LocksHeld
    <3>2. ASSUME NEW r \in Repo PROVE original'[p][r] = Absent /\ holder'[r] # p
      BY <1>1, <1>4, NoProcAssumption
    <3>3. QED BY <3>1, <3>2
  <2>3. QED BY <1>1, <1>2, <1>3, <2>1, <2>2 DEF Inv, LocksHeld
<1>7. BranchesOf(p)'
  BY <1>1, <1>3 DEF BranchesOf, ExtendsAccepted, QuietInside, BehindEveryTarget,
                    Aligned, DriftIsKept, Deciding
<1>8. QED BY <1>1, <1>2, <1>5, <1>6, <1>7

LEMMA CloseKeepsInv == ASSUME Inv, TypeOK', NEW p \in Proc, Close(p) PROVE Inv'
<1>1. /\ pc[p] = "close" /\ NoScope(p) /\ Goto(p, "idle")
      /\ holder' = [r \in Repo |-> IF holder[r] = p THEN NoProc ELSE holder[r]]
      /\ UNCHANGED <<ref, durable>>
  BY DEF Close
<1>2. PICK failed \in SUBSET (created[p] \ retained[p]) :
        /\ Unreachable(failed)
        /\ disk' = disk \ ((created[p] \ retained[p]) \ failed)
  BY DEF Close
<1>3. faults \subseteq faults' /\ (faults' = {} => failed = {})
  BY <1>2 DEF Unreachable, Happens
<1>4. /\ OnlyOwn(p) /\ LocksHeld' /\ BranchesOf(p)'
      /\ created'[p] = {} /\ sqlRows'[p] = {} /\ Saved(p)' = {}
      /\ pc'[p] = "idle"
  BY <1>1, <1>3, NoScopeFacts
<1>5. \A q \in Proc \ {p} : created[p] \cap created[q] = {}
  BY DEF Inv, FilesAreOwned
<1>6. FilesOf(p) /\ rows' = rows
  BY <1>1 DEF Inv, FilesAreOwned, durable
<1>7. FilesAreOwned'
  <2>1. FilesOf(p)'
    BY <1>4 DEF FilesOf
  <2>2. ASSUME NEW q \in Proc \ {p} PROVE FilesOf(q)'
    <3>1. FilesOf(q) /\ Saved(q)' = Saved(q)
      BY <1>4, OthersKept DEF Inv, FilesAreOwned
    <3>2. created[q] \subseteq disk'
      BY <1>2, <1>5, <3>1 DEF FilesOf
    <3>3. QED BY <1>3, <1>4, <1>6, <3>1, <3>2 DEF FilesOf, OnlyOwn
  <2>3. \A q, o \in Proc : q # o => created'[q] \cap created'[o] = {}
    BY <1>4 DEF Inv, FilesAreOwned, OnlyOwn
  <2>4. QED BY <2>1, <2>2, <2>3 DEF FilesAreOwned
<1>8. FilesMatchRows'
  <2>1. "ack" \notin faults' => rows \subseteq disk'
    <3>1. "ack" \notin faults => created[p] \cap rows \subseteq retained[p]
      BY <1>1, <1>6 DEF FilesOf
    <3>2. "ack" \notin faults => rows \subseteq disk
      BY DEF Inv, FilesMatchRows
    <3>3. QED BY <1>2, <1>3, <3>1, <3>2
  <2>2. ASSUME faults' = {}, NEW f \in disk' \ rows
        PROVE  \E q \in Proc : f \in created'[q]
    <3>1. retained[p] \subseteq rows /\ faults = {}
      BY <1>1, <1>3, <1>6, <2>2 DEF FilesOf
    <3>2. f \in disk \ rows /\ f \notin created[p]
      BY <1>2, <1>3, <2>2, <3>1
    <3>3. PICK q \in Proc : f \in created[q]
      BY <3>1, <3>2 DEF Inv, FilesMatchRows
    <3>4. QED BY <1>4, <3>2, <3>3 DEF OnlyOwn
  <2>3. QED BY <1>6, <2>1, <2>2 DEF FilesMatchRows
<1>9. Settled(p)
  <2>1. \A r \in Repo : ref'[r] = ref[r] /\ accepted'[r] = accepted[r]
    BY <1>1 DEF durable
  <2>2. LosesNothing' => \A r \in Repo : IsPrefix(accepted[r], ref[r])
    BY <1>3 DEF Inv, BranchNeverLosesAccepted, LosesNothing
  <2>3. faults' = {} => \A r \in Enlisted(p) : ref[r] = accepted[r]
    BY <1>1, <1>3 DEF Inv, BranchesOf, QuietInside
  <2>4. \A r \in Repo : holder[r] = p => r \in Enlisted(p)
    BY DEF Inv, LocksHeld, Enlisted
  <2>5. QED BY <2>1, <2>2, <2>3, <2>4 DEF Settled
<1>10. QED BY <1>4, <1>7, <1>8, <1>9, ScopeStep

LEMMA CrashKeepsInv == ASSUME Inv, TypeOK', NEW p \in Proc, Crash(p) PROVE Inv'
<1>1. /\ NoScope(p) /\ Goto(p, "idle") /\ UNCHANGED <<ref, disk, durable>>
      /\ holder' = [r \in Repo |-> IF holder[r] = p THEN NoProc ELSE holder[r]]
      /\ faults \subseteq faults' /\ faults' # {}
  BY DEF Crash, Happens
<1>2. /\ OnlyOwn(p) /\ LocksHeld' /\ BranchesOf(p)'
      /\ created'[p] = {} /\ sqlRows'[p] = {} /\ Saved(p)' = {}
      /\ pc'[p] = "idle"
  BY <1>1, NoScopeFacts
<1>3. FilesAreOwned' /\ FilesMatchRows'
  <2>1. FilesOf(p)'
    BY <1>2 DEF FilesOf
  <2>2. ASSUME NEW q \in Proc \ {p} PROVE FilesOf(q)'
    <3>1. FilesOf(q) /\ Saved(q)' = Saved(q)
      BY <1>2, OthersKept DEF Inv, FilesAreOwned
    <3>2. QED BY <1>1, <1>2, <3>1 DEF FilesOf, OnlyOwn, durable
  <2>3. \A q, o \in Proc : q # o => created'[q] \cap created'[o] = {}
    BY <1>2 DEF Inv, FilesAreOwned, OnlyOwn
  <2>4. FilesMatchRows'
    BY <1>1 DEF Inv, FilesMatchRows, durable
  <2>5. QED BY <2>1, <2>2, <2>3, <2>4 DEF FilesAreOwned
<1>4. Settled(p)
  BY <1>1 DEF Inv, BranchNeverLosesAccepted, LosesNothing, Settled, durable
<1>5. QED BY <1>2, <1>3, <1>4, ScopeStep

\* A branch moves that no scope wrote, or the operator puts one back.
LEMMA BranchMovedFromOutside ==
    ASSUME Inv, TypeOK', NEW r \in Repo, Drift(r) \/ Repair(r) PROVE Inv'
<1>1. /\ UNCHANGED <<disk, accepted, rows, holder, pc, original, written,
                     created, retained, sql, sqlRows, stack>>
      /\ \A x \in Repo \ {r} : ref'[x] = ref[x]
      /\ faults \subseteq faults'
      /\ \/ holder[r] = NoProc /\ ref'[r] = accepted[r] /\ faults' = faults
         \/ holder[r] = NoProc /\ "drift" \in faults'
         \/ "meddle" \in faults'
  BY DEF Drift, Repair, Happens, durable, scope, txn, Inv, TypeOK
<1>2. \A p \in Proc : Saved(p)' = Saved(p) /\ Enlisted(p)' = Enlisted(p)
  BY <1>1 DEF Saved, Enlisted
<1>3. LocksHeld'
  BY <1>1, <1>2 DEF Inv, LocksHeld
<1>4. FilesAreOwned' /\ FilesMatchRows'
  BY <1>1, <1>2 DEF Inv, FilesAreOwned, FilesOf, FilesMatchRows
<1>5. QuietIsMatched'
  BY <1>1 DEF Inv, QuietIsMatched
<1>6. BranchNeverLosesAccepted'
  <2>1. CASE LosesNothing'
    <3>1. ref'[r] = accepted[r] /\ faults' = faults
      BY <1>1, <2>1 DEF LosesNothing
    <3>2. IsPrefix(accepted[r], accepted[r])
      BY ReflexiveFacts DEF Inv, TypeOK
    <3>3. QED BY <1>1, <3>1, <3>2 DEF Inv, BranchNeverLosesAccepted
  <2>2. QED BY <2>1 DEF BranchNeverLosesAccepted, LosesNothing
<1>7. ASSUME NEW p \in Proc PROVE BranchesOf(p)'
  <2>1. BranchesOf(p) /\ written[p] \subseteq Enlisted(p)
    BY DEF Inv, LocksHeld
  <2>2. "meddle" \notin faults' => \A x \in Enlisted(p) : ref'[x] = ref[x]
    BY <1>1, NoProcAssumption DEF Inv, LocksHeld, Enlisted
  <2>3. ExtendsAccepted(p)'
    BY <1>1, <1>2, <2>1 DEF BranchesOf, ExtendsAccepted, Deciding
  <2>4. QuietInside(p)'
    BY <1>1, <1>2, <2>1, <2>2 DEF BranchesOf, QuietInside, Deciding
  <2>5. BehindEveryTarget(p)'
    BY <1>1, <1>2, <2>1 DEF BranchesOf, BehindEveryTarget, LosesNothing, Deciding
  <2>6. Aligned(p)'
    BY <1>1, <1>2, <2>1, <2>2 DEF BranchesOf, Aligned
  <2>7. DriftIsKept(p)'
    BY <1>1, <1>2, <2>1, <2>2 DEF BranchesOf, DriftIsKept, Deciding
  <2>8. QED BY <2>3, <2>4, <2>5, <2>6, <2>7 DEF BranchesOf
<1>8. QED BY <1>3, <1>4, <1>5, <1>6, <1>7 DEF Inv

LEMMA NextKeepsInv == Inv /\ [Next]_vars => Inv'
<1> SUFFICES ASSUME Inv, [Next]_vars PROVE Inv'
  OBVIOUS
<1>1. TypeOK'
  BY NextKeepsTypes DEF Inv
<1>2. CASE UNCHANGED vars
  <2>1. \A p \in Proc : Saved(p)' = Saved(p) /\ Enlisted(p)' = Enlisted(p)
    BY <1>2 DEF Saved, Enlisted, vars
  <2>2. LocksHeld' /\ FilesAreOwned' /\ FilesMatchRows' /\ QuietIsMatched'
        /\ BranchNeverLosesAccepted'
    BY <1>2, <2>1 DEF Inv, LocksHeld, FilesAreOwned, FilesOf, FilesMatchRows,
                      QuietIsMatched, BranchNeverLosesAccepted, vars
  <2>3. \A p \in Proc : BranchesOf(p)'
    BY <1>2, <2>1 DEF Inv, BranchesOf, ExtendsAccepted, QuietInside, Aligned,
                      BehindEveryTarget, LosesNothing, DriftIsKept, Deciding, vars
  <2>4. QED BY <1>1, <2>2, <2>3 DEF Inv
<1>3. ASSUME NEW p \in Proc, Open(p) \/ Crash(p) PROVE Inv'
  BY <1>1, <1>3, OpenKeepsInv, CrashKeepsInv
<1>4. ASSUME NEW p \in Proc, Body(p) PROVE Inv'
  BY <1>1, <1>4, EnlistKeepsInv, WriteKeepsInv, CreateArtifactKeepsInv,
     BeginSavepointKeepsInv, SetRollbackKeepsInv DEF Body
<1>5. ASSUME NEW p \in Proc, Leaving(p) PROVE Inv'
  BY <1>1, <1>5, PlainKeepsInv, AlignKeepsInv, AbortNestedKeepsInv,
     AbortKeepsInv, CommitSqlKeepsInv, CommitFailsKeepsInv, UndoKeepsInv,
     CloseKeepsInv DEF Leaving
<1>6. ASSUME NEW r \in Repo, Drift(r) \/ Repair(r) PROVE Inv'
  BY <1>1, <1>6, BranchMovedFromOutside
<1>7. QED BY <1>2, <1>3, <1>4, <1>5, <1>6 DEF Next

-----------------------------------------------------------------------------
(* The theorems. *)

LEMMA InvIsInvariant == Spec => []Inv
BY InitInv, NextKeepsInv, PTL DEF Spec

\* Every step of every scope keeps the types of the branches, the transaction's
\* view of them, the savepoints and the files.
THEOREM TypesAreKept == Spec => []TypeOK
<1>1. Inv => TypeOK
  BY DEF Inv
<1>2. QED BY <1>1, InvIsInvariant, PTL

\* Whatever was nested, undone, caught or committed, a repository whose lock is
\* free has its branch at its accepted head while nothing fails.
THEOREM QuietRepositoriesMatch == Spec => []QuietIsMatched
<1>1. Inv => QuietIsMatched
  BY DEF Inv
<1>2. QED BY <1>1, InvIsInvariant, PTL

\* Dying processes and failing compensation leave a branch at or ahead of its
\* accepted head, at any depth of savepoints.
THEOREM BranchesKeepAccepted == Spec => []BranchNeverLosesAccepted
<1>1. Inv => BranchNeverLosesAccepted
  BY DEF Inv
<1>2. QED BY <1>1, InvIsInvariant, PTL

\* A durable row names a stored file, and no file is left behind by a scope
\* that decided (prepare_artifacts and the discarding at the end of a scope).
THEOREM FilesAreKept == Spec => []FilesMatchRows
<1>1. Inv => FilesMatchRows
  BY DEF Inv
<1>2. QED BY <1>1, InvIsInvariant, PTL

\* Only a committing transaction changes an accepted head, and by the commits
\* it wrote: under any faults no write of another scope is lost.
THEOREM AcceptedHistoryGrows == Spec => AcceptedOnlyGrows
<1> DEFINE Grows == \A r \in Repo : accepted'[r] # accepted[r] =>
          \E p \in Proc : /\ pc[p] = "commit" /\ pc'[p] # "commit"
                          /\ IsStrictPrefix(accepted[r], accepted'[r])
                          /\ \A i \in Len(accepted[r]) + 1 .. Len(accepted'[r]) :
                               accepted'[r][i] = p
<1>1. ASSUME Inv, Next PROVE Grows
  <2>1. ASSUME NEW p \in Proc, pc[p] = "commit", MakeDurable(p),
               pc'[p] \in {"close", "undo"}
        PROVE  Grows
    <3>1. ASSUME NEW r \in Repo, accepted'[r] # accepted[r]
          PROVE  Extends(accepted[r], accepted'[r], p)
      <4>1. r \in written[p] /\ accepted'[r] = sql[p][r]
        BY <2>1, <3>1 DEF MakeDurable
      <4>2. r \in Enlisted(p)
        BY <1>1, <4>1 DEF Inv, LocksHeld
      <4>3. ExtendsAccepted(p)
        BY <1>1 DEF Inv, BranchesOf
      <4>4. QED BY <2>1, <4>1, <4>2, <4>3 DEF ExtendsAccepted, Deciding
    <3>2. QED BY <2>1, <3>1 DEF Extends, IsStrictPrefix
  <2>2. CASE UNCHANGED accepted
    BY <2>2
  <2>3. ASSUME NEW p \in Proc, CommitSql(p) PROVE Grows
    <3>1. pc[p] = "commit" /\ MakeDurable(p) /\ pc'[p] = "close"
      BY <2>3, <1>1 DEF CommitSql, Goto, Inv, TypeOK
    <3>2. QED BY <2>1, <3>1
  <2>4. ASSUME NEW p \in Proc, CommitFails(p) PROVE Grows
    <3>1. /\ pc[p] = "commit" /\ pc'[p] = "undo"
          /\ MakeDurable(p) \/ UNCHANGED accepted
      BY <2>4, <1>1 DEF CommitFails, Goto, Inv, TypeOK, durable
    <3>2. QED BY <2>1, <2>2, <3>1
  <2>5. ASSUME NEW p \in Proc, Leaving(p), ~CommitSql(p), ~CommitFails(p)
        PROVE  UNCHANGED accepted
    BY <2>5 DEF Leaving, ExitPlain, ExitNested, AbortNested, AbortPlain, Exit,
                Abort, Undo, Close, durable
  <2>6. ASSUME NEW p \in Proc, Open(p) \/ Body(p) \/ Crash(p)
        PROVE  UNCHANGED accepted
    BY <2>6 DEF Open, Body, Crash, Enlist, Write, WriteFails, CreateArtifact,
                BeginSavepoint, SetRollback, durable
  <2>7. ASSUME NEW r \in Repo, Drift(r) \/ Repair(r) PROVE UNCHANGED accepted
    BY <2>7 DEF Drift, Repair, durable
  <2> HIDE DEF Grows
  <2>8. QED BY <1>1, <2>2, <2>3, <2>4, <2>5, <2>6, <2>7 DEF Next
<1>2. Inv /\ [Next]_vars => [Grows]_vars
  BY <1>1
<1>3. QED BY <1>2, InvIsInvariant, PTL DEF Spec, AcceptedOnlyGrows

\* No step of a scope moves a branch it found away from its accepted head, not
\* even aligning, restoring a checkpoint or undoing.
THEOREM ScopesLeaveDriftAlone == Spec => DriftIsLeftAlone
<1> DEFINE Alone == \A p \in Proc, r \in Repo :
          /\ "meddle" \notin faults
          /\ Body(p) \/ Leaving(p)
          /\ original[p][r] \notin {Absent, accepted[r]}
          /\ ref[r] = original[p][r]
          => ref'[r] = ref[r]
<1>1. ASSUME Inv, NEW p \in Proc, NEW r \in Repo, "meddle" \notin faults,
             Body(p) \/ Leaving(p), original[p][r] \notin {Absent, accepted[r]},
             ref[r] = original[p][r]
      PROVE  ref'[r] = ref[r]
  <2>1. r \in Enlisted(p) /\ original[p][r] # accepted[r]
    BY <1>1 DEF Enlisted
  <2>2. Deciding(p) =>
          /\ r \notin written[p] /\ sql[p][r] # ref[r]
          /\ \A s \in Saved(p) : r \in s.enlisted => s.refs[r] = ref[r]
    BY <1>1, <2>1 DEF Inv, BranchesOf, DriftIsKept
  <2>3. ASSUME NEW x \in Repo, Write(p, x) \/ WriteFails(p, x)
        PROVE  ref'[r] = ref[r]
    <3>1. x # r
      BY <2>2, <2>3 DEF Write, WriteFails, Running, Deciding
    <3>2. QED BY <1>1, <2>3, <3>1 DEF Write, WriteFails, Inv, TypeOK
  <2>4. ASSUME MoveRefs(written[p], sql[p]), pc[p] = "open"
        PROVE  ref'[r] = ref[r]
    BY <2>2, <2>4 DEF MoveRefs, Deciding
  <2>5. ASSUME AbortNested(p) PROVE ref'[r] = ref[r]
    <3>1. pc[p] = "open" /\ Top(p) \in Saved(p)
      BY <1>1, <2>5, PopFacts DEF AbortNested, RollbackToTop, Inv
    <3>2. Checkpoint(p)[r] = ref[r]
      BY <1>1, <2>1, <2>2, <3>1 DEF Checkpoint, Deciding
    <3>3. QED BY <2>5, <3>2 DEF AbortNested, MoveRefs
  <2>6. ASSUME Undo(p) PROVE ref'[r] = ref[r]
    BY <1>1, <2>6 DEF Undo, MoveRefs
  <2>7. CASE Body(p)
    <3>1. CASE \E x \in Repo : Write(p, x) \/ WriteFails(p, x)
      BY <2>3, <3>1
    <3>2. CASE ~\E x \in Repo : Write(p, x) \/ WriteFails(p, x)
      BY <2>7, <3>2 DEF Body, Enlist, CreateArtifact, BeginSavepoint, SetRollback
    <3>3. QED BY <3>1, <3>2
  <2>8. CASE Leaving(p)
    <3>1. CASE ExitNested(p) \/ Exit(p)
      BY <2>4, <3>1 DEF ExitNested, Exit, Running
    <3>2. CASE ~(ExitNested(p) \/ Exit(p) \/ AbortNested(p) \/ Undo(p))
      BY <2>8, <3>2 DEF Leaving, ExitPlain, AbortPlain, Abort, CommitSql,
                        CommitFails, Close
    <3>3. QED BY <2>5, <2>6, <3>1, <3>2
  <2>9. QED BY <1>1, <2>7, <2>8
<1>2. Inv /\ [Next]_vars => [Alone]_vars
  BY <1>1
<1>3. QED BY <1>2, InvIsInvariant, PTL DEF Spec, DriftIsLeftAlone

=============================================================================
