---------------------------- MODULE AcceptedHistory ----------------------------
(***************************************************************************)
(* What a managed repository promises to everything that reads it: a       *)
(* history that only grows, an index that follows it, and publications     *)
(* that keep what they published.  There are no locks, branches, crashes   *)
(* or repairs here; ManagedRepository implements this specification.       *)
(*                                                                         *)
(* The promise is that of the rows WorkspaceRepository.accepted_commit,    *)
(* WorkspaceRepository.indexed_commit and RepositoryPublication.           *)
(***************************************************************************)
EXTENDS Sequences

CONSTANT Change      \* what an authored commit can change

VARIABLES
    accepted,    \* the accepted history, a sequence of changes
    indexed,     \* the history the content index was built from
    published    \* the histories publications retain

history == <<accepted, indexed, published>>

Init ==
    /\ accepted = <<>>
    /\ indexed = <<>>
    /\ published = {}

\* A write is accepted: one change is added on top of the current head.
Accept ==
    /\ \E c \in Change : accepted' = Append(accepted, c)
    /\ UNCHANGED <<indexed, published>>

\* The index catches up with the head.
Index ==
    /\ accepted # <<>>
    /\ indexed' = accepted
    /\ UNCHANGED <<accepted, published>>

\* An indexed head is published.
Publish ==
    /\ accepted # <<>>
    /\ indexed = accepted
    /\ published' = published \cup {accepted}
    /\ UNCHANGED <<accepted, indexed>>

Next == Accept \/ Index \/ Publish

Spec == Init /\ [][Next]_history

=============================================================================
