------------------------ MODULE MCCoordinatedRequests ------------------------
(* TLC instances of CoordinatedRequests: see the .cfg files. *)
EXTENDS CoordinatedRequests, TLC

Symmetric == Permutations(Proc) \cup Permutations(Repo)

Untouched(r) ==
    ref[r] = NoCommit /\ accepted[r] = NoCommit /\ holder[r] = NoProc
Inactive(p)  ==
    pc[p] = "idle" /\ \A r \in Repo : p \notin ToSet(accepted[r])

\* One instance with two dimensions at a time: one process that nests scopes
\* over every repository while nothing fails, or two processes and a fault at
\* one repository, with flat scopes.
EitherInstance ==
    \/ /\ faults = {}
       /\ \E p \in Proc : \A q \in Proc \ {p} : Inactive(q)
    \/ /\ \E r \in Repo : \A s \in Repo \ {r} : Untouched(s)
       /\ \A p \in Proc : Len(stack[p]) <= 1
=============================================================================
