---------------------------- MODULE SyncJobsProofs ----------------------------
(***************************************************************************)
(* SyncJobs keeps its invariants for any records, page size, number of     *)
(* workers and runs, lease, retries and interleaving of tasks, people and  *)
(* the provider.                                                           *)
(***************************************************************************)
EXTENDS SyncJobs, FiniteSetTheorems, TLAPS

Count == Cardinality(Existing)

Starters == {j \in Existing : jobs[j].run = j}

\* Jobs are numbered as they are made, belong to the run of a first job, and no
\* two jobs of a run read the same page.
RowsInOrder ==
    /\ Existing = 1..Count
    /\ \A j \in Existing : /\ jobs[j].run \in Starters
                           /\ jobs[j].cursor <= Cardinality(Record)
    /\ \A j, k \in Existing :
         jobs[j].run = jobs[k].run /\ jobs[j].cursor = jobs[k].cursor => j = k
    /\ Cardinality(Starters) <= MaxRuns

\* A run goes on only from a job that has ended.
ContinuedAfterEnd ==
    \A j \in Existing, k \in Job :
      jobs[j].key = <<"continuation", k>> => k \in Existing /\ ~Pending(k)

\* What is recorded was read by a job that succeeded.
LogIsRead ==
    \A i \in DOMAIN log :
      log[i].job \in Existing /\ jobs[log[i].job].state = "succeeded"

\* The job to be done is the last of its run: the pages before its own are the
\* ones the run has recorded.
PendingIsLast ==
    \A j \in Existing : Pending(j) =>
      /\ jobs[j].attempts < MaxAttempts
      /\ \A k \in Existing \ {j} :
           jobs[k].run = jobs[j].run => jobs[k].cursor < jobs[j].cursor
      /\ Cardinality(EntriesOf(jobs[j].run)) = jobs[j].cursor - 1

\* One page is read at a time, by a job that is to be done.
WorkIsPending ==
    /\ \A p \in working : Pending(p.job)
    /\ \A p, q \in working : p = q
    /\ \A j \in Job : tasks[j] > 0 => j \in Existing
    /\ leasing.jobs \subseteq Existing
    /\ planned # None => \E n \in 0..MaxClock : planned = <<"scheduled", n>>

\* A record that was there all the while has been seen by the run, or is listed
\* behind the pages the run has read.
FirmIsAhead ==
    \A u \in Job : EntriesOf(u) # {} =>
      /\ firm[u] \subseteq remote
      /\ \A r \in firm[u] :
           \/ r \in SeenBy(u)
           \/ Position(r) > Cardinality(EntriesOf(u)) * PageSize

\* The pages of a run were recorded in their order.
RecordedInOrder ==
    \A i \in DOMAIN log :
      /\ Cardinality(EarlierOf(i)) = CursorOf(log[i]) - 1
      /\ \A k \in EarlierOf(i) : CursorOf(log[k]) < CursorOf(log[i])

Inv == /\ TypeOK /\ RowsInOrder /\ ContinuedAfterEnd /\ LogIsRead /\ PendingIsLast
       /\ WorkIsPending /\ RecordedInOrder /\ FirmIsAhead
       /\ RetirementsAreSound /\ RetirementsAreReviewed

-----------------------------------------------------------------------------
(* Numbers and positions. *)

LEMMA ProductGrows ==
    ASSUME NEW a \in Nat, NEW m \in Nat, NEW c \in Nat, a <= m
    PROVE  a * c \in Nat /\ m * c \in Nat /\ a * c <= m * c
OBVIOUS

LEMMA ConstantTypes ==
    /\ Cardinality(Record) \in Nat \ {0} /\ PageSize \in Nat \ {0}
    /\ MaxRuns \in Nat \ {0} /\ MaxAttempts \in Nat \ {0}
    /\ Interval \in Nat \ {0} /\ LeaseTime \in Nat \ {0} /\ MaxDelay \in Nat \ {0}
    /\ MaxTasks \in Nat \ {0} /\ MaxClock \in Nat /\ MaxUpsets \in Nat
    /\ Job = 1..(MaxRuns * Cardinality(Record))
    /\ MaxRuns * Cardinality(Record) \in Nat
<1>1. Cardinality(Record) \in Nat \ {0}
  BY RecordAssumption, FS_CardinalityType, FS_EmptySet
<1>2. /\ PageSize \in Nat \ {0} /\ MaxRuns \in Nat \ {0}
      /\ MaxAttempts \in Nat \ {0} /\ Interval \in Nat \ {0}
      /\ LeaseTime \in Nat \ {0} /\ MaxDelay \in Nat \ {0}
      /\ MaxTasks \in Nat \ {0} /\ MaxClock \in Nat /\ MaxUpsets \in Nat
  BY LimitAssumption
<1>3. MaxRuns * Cardinality(Record) \in Nat
  BY <1>1, <1>2, ProductGrows
<1>4. QED BY <1>1, <1>2, <1>3 DEF Job

\* Where r is among the members of S.
Rank(S, r) == Cardinality({q \in S : q <= r})

LEMMA RankType ==
    ASSUME NEW S \in SUBSET Nat, IsFiniteSet(S), NEW r \in Nat
    PROVE  /\ IsFiniteSet({q \in S : q <= r})
           /\ Rank(S, r) \in Nat /\ Rank(S, r) <= Cardinality(S)
           /\ r \in S => Rank(S, r) >= 1
<1>1. {q \in S : q <= r} \in SUBSET S
  OBVIOUS
<1>2. IsFiniteSet({q \in S : q <= r}) /\ Rank(S, r) <= Cardinality(S)
  BY <1>1, FS_Subset DEF Rank
<1>3. Rank(S, r) \in Nat
  BY <1>2, FS_CardinalityType DEF Rank
<1>4. r \in S => Rank(S, r) # 0
  <2>1. r \in S => {q \in S : q <= r} # {}
    OBVIOUS
  <2>2. QED BY <1>2, <2>1, FS_EmptySet DEF Rank
<1>5. QED BY <1>2, <1>3, <1>4

LEMMA RankIsStrict ==
    ASSUME NEW S \in SUBSET Nat, IsFiniteSet(S), NEW q \in S, NEW r \in S, q < r
    PROVE  Rank(S, q) < Rank(S, r)
<1> DEFINE A == {x \in S : x <= q}
           B == {x \in S : x <= r}
<1>1. IsFiniteSet(B) /\ Cardinality(A) \in Nat /\ Cardinality(B) \in Nat
  BY RankType DEF Rank
<1>2. A \in SUBSET B /\ r \in B /\ r \notin A
  <2>1. q \in Nat /\ r \in Nat /\ \A x \in S : x \in Nat
    OBVIOUS
  <2>2. \A x \in S : x <= q => x <= r
    BY <2>1
  <2>3. ~(r <= q) /\ r <= r
    BY <2>1
  <2>4. QED BY <2>2, <2>3
<1>3. Cardinality(A) <= Cardinality(B) /\ Cardinality(A) # Cardinality(B)
  <2> HIDE DEF A, B
  <2>1. QED BY <1>1, <1>2, FS_Subset
<1>4. QED BY <1>1, <1>3 DEF Rank

\* The ranks of the members of S are 1, 2, ... without a gap.
LEMMA RankIsBijective ==
    ASSUME NEW S \in SUBSET Nat, IsFiniteSet(S)
    PROVE  [r \in S |-> Rank(S, r)] \in Bijection(S, 1..Cardinality(S))
<1> DEFINE f == [r \in S |-> Rank(S, r)]
           n == Cardinality(S)
<1>1. n \in Nat
  BY FS_CardinalityType
<1>2. \A r \in S : Rank(S, r) \in 1..n
  <2>1. ASSUME NEW r \in S PROVE Rank(S, r) \in 1..n
    <3>1. r \in Nat
      OBVIOUS
    <3>2. Rank(S, r) \in Nat /\ Rank(S, r) <= n /\ Rank(S, r) >= 1
      BY <3>1, RankType
    <3>3. QED BY <1>1, <3>2
  <2>2. QED BY <2>1
<1>3. \A q, r \in S : f[q] = f[r] => q = r
  <2>1. ASSUME NEW q \in S, NEW r \in S, q < r PROVE f[q] # f[r]
    <3>1. Rank(S, q) < Rank(S, r)
      BY <2>1, RankIsStrict
    <3>2. Rank(S, q) \in Nat /\ Rank(S, r) \in Nat
      BY <1>2
    <3>3. QED BY <3>1, <3>2
  <2>2. \A q, r \in S : q # r => q < r \/ r < q
    OBVIOUS
  <2> HIDE DEF f
  <2>3. QED BY <2>1, <2>2
<1>4. f \in Injection(S, 1..n)
  <2>1. f \in [S -> 1..n]
    BY <1>2
  <2> HIDE DEF f
  <2>2. QED BY <1>3, <2>1 DEF Injection, IsInjective
<1>5. IsFiniteSet(1..n) /\ Cardinality(1..n) = n
  BY <1>1, FS_Interval
<1>6. f \in Surjection(S, 1..n)
  <2> HIDE DEF f
  <2>1. QED BY <1>4, <1>5, FS_Injection
<1>7. QED BY <1>4, <1>6 DEF Bijection

\* The last of a finite set is that of the highest rank.
LEMMA FiniteHasMax ==
    ASSUME NEW S \in SUBSET Nat, IsFiniteSet(S), S # {}
    PROVE  Max(S) \in S
<1> DEFINE n == Cardinality(S)
<1>1. n \in Nat \ {0}
  BY FS_CardinalityType, FS_EmptySet
<1>2. PICK m \in S : Rank(S, m) = n
  <2>1. [r \in S |-> Rank(S, r)] \in Surjection(S, 1..n)
    BY RankIsBijective DEF Bijection
  <2>2. n \in 1..n
    BY <1>1
  <2>3. \A k \in 1..n : \E m \in S : [r \in S |-> Rank(S, r)][m] = k
    BY <2>1 DEF Surjection
  <2>4. PICK m \in S : [r \in S |-> Rank(S, r)][m] = n
    BY <2>2, <2>3
  <2>5. QED BY <2>4
<1>3. ASSUME NEW k \in S PROVE m >= k
  <2>1. k \in Nat /\ m \in Nat
    OBVIOUS
  <2>2. m < k => Rank(S, m) < Rank(S, k)
    BY RankIsStrict
  <2>3. Rank(S, k) <= n /\ Rank(S, k) \in Nat
    BY <2>1, RankType
  <2>4. ~(m < k)
    BY <1>1, <1>2, <2>2, <2>3
  <2>5. QED BY <2>1, <2>4
<1>4. QED BY <1>3 DEF Max

\* A page that is not beyond the end of S is full.
LEMMA PageIsFull ==
    ASSUME NEW S \in SUBSET Nat, IsFiniteSet(S), NEW a \in Nat, NEW m \in Nat,
           a <= m, m <= Cardinality(S)
    PROVE  Cardinality({r \in S : Rank(S, r) > a /\ Rank(S, r) <= m}) = m - a
<1> DEFINE f == [r \in S |-> Rank(S, r)]
           T == {r \in S : Rank(S, r) > a /\ Rank(S, r) <= m}
           g == [r \in T |-> f[r]]
           I == (a + 1)..m
<1>1. /\ f \in [S -> 1..Cardinality(S)]
      /\ \A q, r \in S : f[q] = f[r] => q = r
      /\ \A k \in 1..Cardinality(S) : \E r \in S : f[r] = k
  BY RankIsBijective DEF Bijection, Injection, Surjection, IsInjective
<1>2. T = {r \in S : f[r] \in I}
  <2>1. ASSUME NEW r \in S PROVE Rank(S, r) > a /\ Rank(S, r) <= m <=> f[r] \in I
    <3>1. r \in Nat
      OBVIOUS
    <3>2. Rank(S, r) \in Nat
      BY <3>1, RankType
    <3>3. QED BY <3>2
  <2>2. QED BY <2>1
<1>3. T \subseteq S /\ IsFiniteSet(T)
  BY FS_Subset
<1>4. Cardinality(S) \in Nat
  BY FS_CardinalityType
<1>5. g \in Bijection(T, I)
  <2> HIDE DEF f, T
  <2>1. g \in [T -> I]
    BY <1>2
  <2>2. \A q, r \in T : g[q] = g[r] => q = r
    BY <1>1, <1>3
  <2>3. \A k \in I : \E r \in T : g[r] = k
    BY <1>1, <1>2, <1>4
  <2> HIDE DEF g, I
  <2>4. QED BY <2>1, <2>2, <2>3 DEF Bijection, Injection, Surjection, IsInjective
<1>6. Cardinality(I) = m - a
  <2>1. a + 1 \in Int /\ m \in Int
    OBVIOUS
  <2>2. Cardinality(I) = IF a + 1 > m THEN 0 ELSE m - (a + 1) + 1
    BY <2>1, FS_Interval
  <2>3. QED BY <2>2
<1>7. Cardinality(I) = Cardinality(T)
  <2> HIDE DEF T, I, g
  <2>1. ExistsBijection(T, I)
    BY <1>5 DEF ExistsBijection
  <2>2. QED BY <1>3, <2>1, FS_Bijection
<1>8. QED BY <1>6, <1>7

LEMMA RankGrows ==
    ASSUME NEW S \in SUBSET Nat, IsFiniteSet(S), NEW x \in Nat, NEW r \in Nat
    PROVE  Rank(S, r) <= Rank(S \cup {x}, r)
<1> DEFINE A == {q \in S : q <= r}
           B == {q \in S \cup {x} : q <= r}
<1>1. IsFiniteSet(S \cup {x}) /\ S \cup {x} \in SUBSET Nat
  BY FS_AddElement
<1>2. IsFiniteSet(B)
  BY <1>1, RankType
<1>3. A \in SUBSET B
  OBVIOUS
<1>4. Cardinality(A) <= Cardinality(B)
  <2> HIDE DEF A, B
  <2>1. QED BY <1>2, <1>3, FS_Subset
<1>5. QED BY <1>4 DEF Rank

LEMMA RankStays ==
    ASSUME NEW S \in SUBSET Nat, NEW x \in Nat, NEW r \in Nat, r < x
    PROVE  Rank(S \ {x}, r) = Rank(S, r)
<1>1. {q \in S \ {x} : q <= r} = {q \in S : q <= r}
  OBVIOUS
<1>2. QED BY <1>1 DEF Rank

LEMMA RemoteFacts ==
    ASSUME TypeOK
    PROVE  /\ remote \in SUBSET Nat /\ IsFiniteSet(remote)
           /\ Cardinality(remote) \in Nat
           /\ Cardinality(remote) <= Cardinality(Record)
           /\ \A r : Position(r) = Rank(remote, r)
           /\ \A r \in Record : Position(r) \in Nat
           /\ \A r \in remote : Position(r) >= 1
<1>1. remote \in SUBSET Record /\ Record \in SUBSET Nat /\ IsFiniteSet(Record)
  BY RecordAssumption DEF TypeOK
<1>2. IsFiniteSet(remote) /\ Cardinality(remote) <= Cardinality(Record)
  BY <1>1, FS_Subset
<1>3. \A r : Position(r) = Rank(remote, r)
  BY DEF Position, Rank
<1>4. \A r \in Nat : Rank(remote, r) \in Nat /\ (r \in remote => Rank(remote, r) >= 1)
  BY <1>1, <1>2, RankType
<1>5. QED BY <1>1, <1>2, <1>3, <1>4, FS_CardinalityType

\* A record behind a page proves that the page is full and another follows.
LEMMA RecordBehindPage ==
    ASSUME TypeOK, NEW n \in Nat \ {0}, NEW r \in remote, Position(r) > n * PageSize
    PROVE  HasMore(n)
<1>1. PageSize \in Nat \ {0}
  BY ConstantTypes
<1>2. n * PageSize \in Nat /\ (n - 1) * PageSize \in Nat
      /\ (n - 1) * PageSize <= n * PageSize
      /\ n * PageSize - (n - 1) * PageSize = PageSize
  BY <1>1
<1>3. n * PageSize < Cardinality(remote)
  <2>1. Rank(remote, r) <= Cardinality(remote) /\ Rank(remote, r) \in Nat
    BY RemoteFacts, RankType
  <2>2. QED BY <1>2, <2>1, RemoteFacts
<1>4. Cardinality({q \in remote : /\ Rank(remote, q) > (n - 1) * PageSize
                                  /\ Rank(remote, q) <= n * PageSize}) = PageSize
  <2>1. n * PageSize <= Cardinality(remote)
    BY <1>2, <1>3, RemoteFacts
  <2>2. QED BY <1>2, <2>1, RemoteFacts, PageIsFull
<1>5. Listing(n) = {q \in remote : /\ Rank(remote, q) > (n - 1) * PageSize
                                   /\ Rank(remote, q) <= n * PageSize}
  BY RemoteFacts DEF Listing
<1>6. QED BY <1>3, <1>4, <1>5 DEF HasMore

\* A page that is followed by another leaves room for its cursor.
LEMMA NextCursor ==
    ASSUME TypeOK, NEW n \in Nat \ {0}, HasMore(n)
    PROVE  n + 1 <= Cardinality(Record)
<1>1. PageSize \in Nat \ {0}
  BY ConstantTypes
<1>2. n * PageSize \in Nat /\ n <= n * PageSize
  BY <1>1
<1>3. n * PageSize < Cardinality(remote)
  BY DEF HasMore
<1>4. QED BY <1>2, <1>3, RemoteFacts, ConstantTypes

-----------------------------------------------------------------------------
(* Jobs, runs and the log. *)

LEMMA JobFacts ==
    ASSUME TypeOK
    PROVE  /\ \A j \in Existing :
                /\ j \in Job /\ jobs[j] \in JobRow
                /\ jobs[j].run \in Job /\ jobs[j].cursor \in Nat \ {0}
                /\ jobs[j].attempts \in 0..MaxAttempts
                /\ jobs[j].state \in {"pending", "succeeded", "dead_letter", "cancelled"}
                /\ jobs[j].available \in 0..MaxClock /\ jobs[j].key \in Key
           /\ IsFiniteSet(Existing) /\ Count \in Nat
           /\ IsFiniteSet(Starters) /\ Cardinality(Starters) \in Nat
           /\ Started = Cardinality(Starters)
<1>1. \A j \in Existing : j \in Job /\ jobs[j] \in JobRow
  BY DEF TypeOK, Existing
<1>2. IsFiniteSet(Job)
  <2>1. MaxRuns * Cardinality(Record) \in Int /\ Job = 1..(MaxRuns * Cardinality(Record))
    BY ConstantTypes
  <2>2. QED BY <2>1, FS_Interval
<1>3. IsFiniteSet(Existing)
  BY <1>2, FS_Subset DEF Existing
<1>4. IsFiniteSet(Starters)
  BY <1>3, FS_Subset DEF Starters
<1>5. Count \in Nat /\ Cardinality(Starters) \in Nat
  BY <1>3, <1>4, FS_CardinalityType DEF Count
<1>6. Started = Cardinality(Starters)
  BY DEF Started, Starters
<1>7. QED BY <1>1, <1>3, <1>4, <1>5, <1>6 DEF JobRow

LEMMA EntryFacts ==
    ASSUME TypeOK
    PROVE  /\ Len(log) \in Nat /\ DOMAIN log = 1..Len(log)
           /\ \A i \in DOMAIN log : /\ log[i] \in Observations
                                    /\ log[i].seen \subseteq Record
                                    /\ log[i].retired \subseteq Record
           /\ \A u : /\ EntriesOf(u) \subseteq DOMAIN log
                     /\ IsFiniteSet(EntriesOf(u))
                     /\ Cardinality(EntriesOf(u)) \in Nat
<1>1. Len(log) \in Nat /\ DOMAIN log = 1..Len(log)
      /\ \A i \in DOMAIN log : log[i] \in Observations
  BY DEF TypeOK
<1>2. IsFiniteSet(1..Len(log))
  <2>1. 1 \in Int /\ Len(log) \in Int
    BY <1>1
  <2>2. QED BY <2>1, FS_Interval
<1>3. \A u : EntriesOf(u) \in SUBSET (1..Len(log))
  BY <1>1 DEF EntriesOf
<1>4. \A u : IsFiniteSet(EntriesOf(u)) /\ Cardinality(EntriesOf(u)) \in Nat
  <2>1. TAKE u
  <2>2. IsFiniteSet(EntriesOf(u))
    BY <1>2, <1>3, FS_Subset
  <2>3. QED BY <2>2, FS_CardinalityType
<1>5. QED BY <1>1, <1>3, <1>4 DEF Observations

\* The pages that the runs have room for, and the job each has been given to.
Pages == Starters \X (1..Cardinality(Record))

LEMMA JobsArePages ==
    ASSUME TypeOK, RowsInOrder, NEW free \in SUBSET Pages,
           \A j \in Existing : <<jobs[j].run, jobs[j].cursor>> \notin free
    PROVE  /\ IsFiniteSet(Pages)
           /\ Cardinality(Pages) = Cardinality(Starters) * Cardinality(Record)
           /\ Count <= Cardinality(Pages \ free)
<1> DEFINE f == [j \in Existing |-> <<jobs[j].run, jobs[j].cursor>>]
<1>1. IsFiniteSet(Pages)
      /\ Cardinality(Pages) = Cardinality(Starters) * Cardinality(Record)
  <2>1. 1 \in Int /\ Cardinality(Record) \in Nat \ {0}
    BY ConstantTypes
  <2>2. IsFiniteSet(1..Cardinality(Record))
        /\ Cardinality(1..Cardinality(Record)) = Cardinality(Record)
    BY <2>1, FS_Interval
  <2>3. IsFiniteSet(Starters)
    BY JobFacts
  <2>4. QED BY <2>2, <2>3, FS_Product DEF Pages
<1>2. ASSUME NEW j \in Existing PROVE f[j] \in Pages \ free
  <2>1. jobs[j].run \in Starters /\ jobs[j].cursor <= Cardinality(Record)
        /\ jobs[j].cursor \in Nat \ {0}
    BY JobFacts DEF RowsInOrder
  <2>2. jobs[j].cursor \in 1..Cardinality(Record)
    BY <2>1, ConstantTypes
  <2>3. QED BY <2>1, <2>2 DEF Pages
<1>3. \A j, k \in Existing : f[j] = f[k] => j = k
  BY DEF RowsInOrder
<1>4. f \in Injection(Existing, Pages \ free)
  <2>1. f \in [Existing -> Pages \ free]
    BY <1>2
  <2> HIDE DEF f
  <2>2. QED BY <1>3, <2>1 DEF Injection, IsInjective
<1>5. IsFiniteSet(Pages \ free)
  BY <1>1, FS_Difference
<1>6. Count <= Cardinality(Pages \ free)
  <2> HIDE DEF f
  <2>1. QED BY <1>4, <1>5, FS_Injection DEF Count
<1>7. QED BY <1>1, <1>6

\* Each run that starts has room for all its pages.
LEMMA RoomForRun ==
    ASSUME TypeOK, RowsInOrder, Started < MaxRuns
    PROVE  Count + 1 \in Job
<1> DEFINE S == Cardinality(Starters)
           C == Cardinality(Record)
<1>1. Count <= S * C
  <2>1. {} \in SUBSET Pages /\ Pages \ {} = Pages
        /\ \A j \in Existing : <<jobs[j].run, jobs[j].cursor>> \notin {}
    OBVIOUS
  <2>2. Count <= Cardinality(Pages \ {}) /\ Cardinality(Pages) = S * C
    BY <2>1, JobsArePages
  <2>3. QED BY <2>1, <2>2
<1>2. S \in Nat /\ S + 1 <= MaxRuns /\ Count \in Nat
  BY JobFacts, ConstantTypes
<1>3. C \in Nat \ {0} /\ MaxRuns \in Nat \ {0} /\ Job = 1..(MaxRuns * C)
  BY ConstantTypes
<1> HIDE DEF S, C
<1>4. (S + 1) * C <= MaxRuns * C /\ (S + 1) * C \in Nat /\ MaxRuns * C \in Nat
  BY <1>2, <1>3, ProductGrows
<1>5. (S + 1) * C = S * C + C /\ S * C \in Nat
  BY <1>2, <1>3
<1>6. Count + 1 <= MaxRuns * C
  BY <1>1, <1>2, <1>3, <1>4, <1>5
<1>7. QED BY <1>2, <1>3, <1>4, <1>6

LEMMA RoomForContinuation ==
    ASSUME TypeOK, RowsInOrder, NEW u \in Starters, NEW n \in Nat \ {0},
           n <= Cardinality(Record),
           \A k \in Existing : jobs[k].run = u => jobs[k].cursor # n
    PROVE  Count + 1 \in Job
<1> DEFINE S == Cardinality(Starters)
           C == Cardinality(Record)
<1>1. <<u, n>> \in Pages
  BY ConstantTypes DEF Pages
<1>2. /\ IsFiniteSet(Pages) /\ Cardinality(Pages) = S * C
      /\ Count <= Cardinality(Pages \ {<<u, n>>})
  <2>1. {<<u, n>>} \in SUBSET Pages
    BY <1>1
  <2>2. \A j \in Existing : <<jobs[j].run, jobs[j].cursor>> \notin {<<u, n>>}
    OBVIOUS
  <2>3. QED BY <2>1, <2>2, JobsArePages
<1>3. Cardinality(Pages \ {<<u, n>>}) = Cardinality(Pages) - 1
  BY <1>1, <1>2, FS_RemoveElement
<1>4. S \in Nat /\ S <= MaxRuns /\ Count \in Nat
  BY JobFacts DEF RowsInOrder
<1>5. C \in Nat \ {0} /\ MaxRuns \in Nat \ {0} /\ Job = 1..(MaxRuns * C)
  BY ConstantTypes
<1> HIDE DEF S, C
<1>6. S * C <= MaxRuns * C /\ S * C \in Nat /\ MaxRuns * C \in Nat
  BY <1>4, <1>5, ProductGrows
<1>7. QED BY <1>2, <1>3, <1>4, <1>5, <1>6

\* The identity of a job: what never changes of it.
SameIdentity(j) ==
    /\ jobs'[j].run = jobs[j].run /\ jobs'[j].cursor = jobs[j].cursor
    /\ jobs'[j].key = jobs[j].key

\* A step that makes a job: one of a new run, or the next one of a run.
LEMMA NewJobKeepsRows ==
    ASSUME TypeOK, RowsInOrder, NEW u, NEW n \in Nat \ {0},
           Existing' = Existing \cup {Count + 1},
           \A j \in Existing : SameIdentity(j),
           jobs'[Count + 1].run = u, jobs'[Count + 1].cursor = n,
           n <= Cardinality(Record),
           \/ u = Count + 1 /\ Cardinality(Starters) < MaxRuns
           \/ /\ u \in Starters
              /\ \A k \in Existing : jobs[k].run = u => jobs[k].cursor < n
    PROVE  RowsInOrder' /\ Count + 1 \notin Existing
<1> DEFINE new == Count + 1
<1>1. /\ Existing = 1..Count /\ Count \in Nat
      /\ \A j \in Existing : jobs[j].run \in Starters /\ jobs[j].run \in Existing
  BY JobFacts DEF RowsInOrder, Starters
<1>2. new \notin Existing /\ Existing' = 1..new
  BY <1>1
<1>3. Count' = new
  <2>1. 1 \in Int /\ new \in Int /\ ~(1 > new)
    BY <1>1
  <2>2. Cardinality(1..new) = new - 1 + 1
    BY <2>1, FS_Interval
  <2>3. new \in Nat
    BY <1>1
  <2> HIDE DEF new
  <2>4. Count' = Cardinality(1..new)
    BY <1>2 DEF Count
  <2>5. QED BY <2>2, <2>3, <2>4
<1>4. Starters' = IF u = new THEN Starters \cup {new} ELSE Starters
  <2> HIDE DEF new
  <2>1. \A j \in Existing : jobs'[j].run = j <=> jobs[j].run = j
    BY DEF SameIdentity
  <2>2. jobs'[new].run = u
    BY DEF new
  <2>3. Existing' = Existing \cup {new}
    BY DEF new
  <2>4. QED BY <1>2, <2>1, <2>2, <2>3 DEF Starters
<1>5. Cardinality(Starters') <= MaxRuns
  <2>1. CASE u = new
    <3>1. Cardinality(Starters \cup {new}) = Cardinality(Starters) + 1
      BY <1>2, JobFacts, FS_AddElement DEF Starters
    <3>2. Cardinality(Starters) < MaxRuns
      BY <1>2, <2>1 DEF Starters
    <3>3. QED BY <1>4, <2>1, <3>1, <3>2, JobFacts, ConstantTypes
  <2>2. CASE u # new
    BY <1>4, <2>2 DEF RowsInOrder
  <2>3. QED BY <2>1, <2>2
<1>6. \A j \in Existing' : /\ jobs'[j].run \in Starters'
                           /\ jobs'[j].cursor <= Cardinality(Record)
  <2>1. ASSUME NEW j \in Existing
        PROVE  jobs'[j].run \in Starters' /\ jobs'[j].cursor <= Cardinality(Record)
    BY <1>1, <1>4 DEF SameIdentity, RowsInOrder
  <2>2. jobs'[new].run \in Starters' /\ jobs'[new].cursor <= Cardinality(Record)
    BY <1>4
  <2>3. QED BY <2>1, <2>2
<1>7. \A j, k \in Existing' :
        jobs'[j].run = jobs'[k].run /\ jobs'[j].cursor = jobs'[k].cursor => j = k
  <2>1. ASSUME NEW j \in Existing, jobs'[j].run = u PROVE jobs'[j].cursor # n
    <3>1. jobs[j].run = u /\ u \in Existing /\ jobs'[j].cursor = jobs[j].cursor
      BY <1>1, <2>1 DEF SameIdentity
    <3>2. u # new
      BY <1>2, <3>1
    <3>3. jobs[j].cursor < n
      BY <3>1, <3>2
    <3>4. QED BY <3>1, <3>3, JobFacts
  <2>2. \A j, k \in Existing :
          jobs'[j].run = jobs'[k].run /\ jobs'[j].cursor = jobs'[k].cursor => j = k
    BY DEF SameIdentity, RowsInOrder
  <2>3. QED BY <2>1, <2>2
<1>8. QED BY <1>2, <1>3, <1>5, <1>6, <1>7 DEF RowsInOrder

\* What the log says of a run, while the identities of its jobs stay.
LEMMA LogFrame ==
    ASSUME TypeOK, LogIsRead, \A j \in Existing : SameIdentity(j), log' = log
    PROVE  /\ \A u : EntriesOf(u)' = EntriesOf(u) /\ SeenBy(u)' = SeenBy(u)
           /\ \A i \in DOMAIN log : /\ RunOf(log[i])' = RunOf(log[i])
                                    /\ CursorOf(log[i])' = CursorOf(log[i])
                                    /\ EarlierOf(i)' = EarlierOf(i)
           /\ RecordedInOrder => RecordedInOrder'
           /\ RetirementsAreSound /\ firm' = firm => RetirementsAreSound'
<1>1. \A i \in DOMAIN log : /\ RunOf(log[i])' = RunOf(log[i])
                            /\ CursorOf(log[i])' = CursorOf(log[i])
  BY DEF LogIsRead, SameIdentity, RunOf, CursorOf
<1>2. ASSUME NEW u PROVE EntriesOf(u)' = EntriesOf(u)
  BY <1>1 DEF EntriesOf
<1>3. ASSUME NEW u PROVE SeenBy(u)' = SeenBy(u)
  BY <1>2 DEF SeenBy
<1>4. ASSUME NEW i \in DOMAIN log PROVE EarlierOf(i)' = EarlierOf(i)
  <2>1. \A k \in 1..(i - 1) : k \in DOMAIN log
    BY EntryFacts
  <2>2. QED BY <1>1, <2>1 DEF EarlierOf
<1>5. RecordedInOrder => RecordedInOrder'
  <2>1. \A i \in DOMAIN log : EarlierOf(i) \subseteq DOMAIN log
    BY EntryFacts DEF EarlierOf
  <2>2. QED BY <1>1, <1>4, <2>1 DEF RecordedInOrder
<1>6. RetirementsAreSound /\ firm' = firm => RetirementsAreSound'
  BY <1>1 DEF RetirementsAreSound
<1>7. QED BY <1>1, <1>2, <1>3, <1>4, <1>5, <1>6

-----------------------------------------------------------------------------
(* Steps that record nothing. *)

LEMMA OrderIsUnique == TypeOK /\ PendingIsLast /\ RecordedInOrder => RunsReadInOrder
<1> SUFFICES ASSUME TypeOK, PendingIsLast, RecordedInOrder PROVE RunsReadInOrder
  OBVIOUS
<1>1. ASSUME NEW j \in Existing, NEW k \in Existing, Pending(j), Pending(k),
             jobs[j].run = jobs[k].run, j # k
      PROVE  FALSE
  <2>1. jobs[j].cursor < jobs[k].cursor /\ jobs[k].cursor < jobs[j].cursor
    BY <1>1 DEF PendingIsLast
  <2>2. jobs[j].cursor \in Nat /\ jobs[k].cursor \in Nat
    BY JobFacts
  <2>3. QED BY <2>1, <2>2
<1>2. QED BY <1>1 DEF RunsReadInOrder, RecordedInOrder

LEMMA InitInv == Init => Inv
<1> SUFFICES ASSUME Init PROVE Inv
  OBVIOUS
<1>1. Existing = {} /\ Starters = {} /\ \A j \in Job : jobs[j] = None
  BY DEF Init, Existing, Starters
<1>2. /\ 0 \in 0..MaxClock /\ 0 \in 0..(MaxClock + Interval) /\ 0 \in 0..MaxTasks
      /\ 0 \in 0..MaxUpsets
  BY ConstantTypes
<1>3. TypeOK
  BY <1>2 DEF Init, TypeOK, NotLeasing
<1>4. Cardinality({}) = 0 /\ MaxRuns \in Nat
  BY FS_EmptySet, ConstantTypes
<1>5. RowsInOrder
  <2>1. 1..0 = {}
    OBVIOUS
  <2>2. QED BY <1>1, <1>4, <2>1 DEF RowsInOrder, Count
<1>6. DOMAIN log = {} /\ log = <<>>
  BY DEF Init
<1>7. ContinuedAfterEnd /\ LogIsRead /\ PendingIsLast /\ RecordedInOrder
  BY <1>1, <1>6 DEF ContinuedAfterEnd, LogIsRead, PendingIsLast, RecordedInOrder
<1>8. WorkIsPending
  BY DEF Init, WorkIsPending, NotLeasing
<1>9. FirmIsAhead /\ RetirementsAreSound /\ RetirementsAreReviewed
  BY <1>6 DEF FirmIsAhead, EntriesOf, RetirementsAreSound, RetirementsAreReviewed
<1>10. QED BY <1>3, <1>5, <1>7, <1>8, <1>9 DEF Inv

LEMMA JobsFrame ==
    ASSUME Inv, Existing' = Existing, log' = log,
           \A j \in Existing :
             /\ SameIdentity(j)
             /\ Pending(j)' => Pending(j) /\ jobs'[j].attempts < MaxAttempts
             /\ jobs[j].state = "succeeded" => jobs'[j].state = "succeeded"
    PROVE  /\ RowsInOrder' /\ ContinuedAfterEnd' /\ LogIsRead' /\ PendingIsLast'
           /\ RecordedInOrder'
<1>1. Count' = Count /\ \A j \in Existing : jobs'[j].run = jobs[j].run
  BY DEF Count, SameIdentity
<1>2. Starters' = Starters
  BY <1>1 DEF Starters
<1>3. RowsInOrder'
  BY <1>1, <1>2 DEF Inv, RowsInOrder, SameIdentity
<1>4. ContinuedAfterEnd'
  BY DEF Inv, ContinuedAfterEnd, SameIdentity
<1>5. LogIsRead'
  BY DEF Inv, LogIsRead
<1>7. PendingIsLast'
  <2> SUFFICES ASSUME NEW j \in Existing, Pending(j)'
               PROVE  /\ jobs'[j].attempts < MaxAttempts
                      /\ \A k \in Existing \ {j} :
                           jobs'[k].run = jobs'[j].run
                             => jobs'[k].cursor < jobs'[j].cursor
                      /\ Cardinality(EntriesOf(jobs[j].run)') = jobs'[j].cursor - 1
    BY <1>1 DEF PendingIsLast
  <2>1. Pending(j) /\ jobs'[j].attempts < MaxAttempts
    OBVIOUS
  <2>2. ASSUME NEW k \in Existing \ {j}, jobs'[k].run = jobs'[j].run
        PROVE  jobs'[k].cursor < jobs'[j].cursor
    BY <2>1, <2>2 DEF Inv, PendingIsLast, SameIdentity
  <2>3. Cardinality(EntriesOf(jobs[j].run)) = jobs'[j].cursor - 1
    BY <2>1 DEF Inv, PendingIsLast, SameIdentity
  <2>4. EntriesOf(jobs[j].run)' = EntriesOf(jobs[j].run)
    <3>1. \A i \in DOMAIN log : RunOf(log[i])' = RunOf(log[i])
      BY LogFrame DEF Inv
    <3>2. jobs'[j].run = jobs[j].run
      BY <1>1
    <3>3. QED BY <3>1, <3>2 DEF EntriesOf
  <2>5. QED BY <2>1, <2>2, <2>3, <2>4
<1>8. RecordedInOrder'
  BY LogFrame DEF Inv
<1>9. QED BY <1>3, <1>4, <1>5, <1>7, <1>8

LEMMA ListingFrame ==
    ASSUME Inv, log' = log, \A j \in Existing : SameIdentity(j),
           UNCHANGED <<remote, firm>>
    PROVE  FirmIsAhead'
<1>1. \A u : EntriesOf(u)' = EntriesOf(u) /\ SeenBy(u)' = SeenBy(u)
  BY LogFrame DEF Inv
<1>2. \A r : Position(r)' = Position(r)
  BY DEF Position
<1>3. QED BY <1>1, <1>2 DEF Inv, FirmIsAhead

\* A step that makes no job, records nothing and moves no record.
LEMMA QuietStep ==
    ASSUME Inv, TypeOK', WorkIsPending', Existing' = Existing,
           \A j \in Existing :
             /\ SameIdentity(j)
             /\ Pending(j)' => Pending(j) /\ jobs'[j].attempts < MaxAttempts
             /\ jobs[j].state = "succeeded" => jobs'[j].state = "succeeded",
           UNCHANGED <<remote, log, conflict, firm, reviewed>>
    PROVE  Inv'
<1>1. /\ RowsInOrder' /\ ContinuedAfterEnd' /\ LogIsRead' /\ PendingIsLast'
      /\ RecordedInOrder'
  BY JobsFrame
<1>2. FirmIsAhead'
  BY ListingFrame
<1>3. RetirementsAreSound'
  BY LogFrame DEF Inv
<1>4. RetirementsAreReviewed'
  BY DEF Inv, RetirementsAreReviewed
<1>5. QED BY <1>1, <1>2, <1>3, <1>4 DEF Inv

LEMMA UnchangedJobs ==
    ASSUME Inv, jobs' = jobs
    PROVE  /\ Existing' = Existing
           /\ \A j \in Existing :
                /\ SameIdentity(j)
                /\ Pending(j)' => Pending(j) /\ jobs'[j].attempts < MaxAttempts
                /\ jobs[j].state = "succeeded" => jobs'[j].state = "succeeded"
BY DEF Inv, PendingIsLast, Existing, SameIdentity, Pending

LEMMA UpsetsCount == TypeOK /\ upsets < MaxUpsets => upsets + 1 \in 0..MaxUpsets
<1>1. TypeOK => upsets \in 0..MaxUpsets
  BY DEF TypeOK
<1>2. QED BY <1>1, ConstantTypes

LEMMA PlanKeepsInv == ASSUME Inv, Plan PROVE Inv'
<1>1. /\ planned' = <<"scheduled", clock \div Interval>>
      /\ UNCHANGED <<remote, jobs, log, conflict, mapped, active, nextSync, tasks,
                     leasing, working, firm, reviewed, clock, upsets>>
  BY DEF Plan, rows, ghosts, bounds
<1>2. clock \div Interval \in 0..MaxClock
  <2>1. clock \in Nat /\ clock <= MaxClock /\ Interval \in Nat \ {0} /\ MaxClock \in Nat
    BY ConstantTypes DEF Inv, TypeOK
  <2>2. clock \div Interval \in Nat /\ clock \div Interval <= clock
    BY <2>1
  <2>3. QED BY <2>1, <2>2
<1>3. TypeOK'
  <2>1. planned' \in Key
    BY <1>1, <1>2 DEF Key
  <2>2. QED BY <1>1, <2>1 DEF Inv, TypeOK
<1>4. Existing' = Existing /\ \A j : Pending(j)' = Pending(j)
  BY <1>1 DEF Existing, Pending
<1>5. WorkIsPending'
  BY <1>1, <1>2, <1>4 DEF Inv, WorkIsPending
<1>6. QED BY <1>1, <1>3, <1>5, UnchangedJobs, QuietStep

LEMMA ListDueKeepsInv == ASSUME Inv, ListDue PROVE Inv'
<1>1. /\ leasing' = [jobs |-> Due, at |-> clock]
      /\ UNCHANGED <<remote, jobs, log, conflict, mapped, active, nextSync, tasks,
                     planned, working, firm, reviewed, clock, upsets>>
  BY DEF ListDue, rows, ghosts, bounds
<1>2. Due \subseteq Existing /\ Existing \subseteq Job
  BY DEF Due, Pending, Existing
<1>3. TypeOK'
  BY <1>1, <1>2 DEF Inv, TypeOK
<1>4. Existing' = Existing /\ \A j : Pending(j)' = Pending(j)
  BY <1>1 DEF Existing, Pending
<1>5. WorkIsPending'
  BY <1>1, <1>2, <1>4 DEF Inv, WorkIsPending
<1>6. QED BY <1>1, <1>3, <1>5, UnchangedJobs, QuietStep

LEMMA QueuedFacts ==
    ASSUME Inv, NEW sent \in SUBSET Existing
    PROVE  /\ Queued(sent) \in [Job -> 0..MaxTasks]
           /\ \A j \in Job : Queued(sent)[j] > 0 => j \in Existing
<1>1. \A j \in Job : tasks[j] \in 0..MaxTasks
  BY DEF Inv, TypeOK
<1>2. \A j \in Job : Lesser(tasks[j] + 1, MaxTasks) \in 0..MaxTasks
  BY <1>1, ConstantTypes DEF Lesser
<1>3. QED BY <1>1, <1>2 DEF Queued, Inv, WorkIsPending

LEMMA DispatchKeepsInv == ASSUME Inv, Dispatch PROVE Inv'
<1>1. /\ \A p \in working : p.job \notin leasing.jobs
      /\ jobs' = [j \in Job |-> IF j \in leasing.jobs
                                THEN [jobs[j] EXCEPT !.available = Leased(leasing.at)]
                                ELSE jobs[j]]
      /\ tasks' = Queued(leasing.jobs) /\ leasing' = NotLeasing
      /\ UNCHANGED <<remote, log, conflict, mapped, active, nextSync, planned,
                     working, firm, reviewed, clock, upsets>>
  BY DEF Dispatch, ghosts, bounds
<1>2. leasing.jobs \subseteq Existing /\ leasing.at \in 0..MaxClock
  BY DEF Inv, WorkIsPending, TypeOK
<1>3. Leased(leasing.at) \in 0..MaxClock
  BY <1>2, ConstantTypes DEF Leased, Lesser
<1>4. ASSUME NEW j \in Existing
      PROVE  /\ jobs'[j] \in JobRow /\ jobs'[j].run = jobs[j].run
             /\ jobs'[j].cursor = jobs[j].cursor /\ jobs'[j].key = jobs[j].key
             /\ jobs'[j].state = jobs[j].state /\ jobs'[j].attempts = jobs[j].attempts
             /\ j \notin leasing.jobs => jobs'[j] = jobs[j]
  <2>1. j \in Job /\ jobs[j] \in JobRow
    BY JobFacts DEF Inv
  <2>2. CASE j \in leasing.jobs
    <3>1. jobs'[j] = [jobs[j] EXCEPT !.available = Leased(leasing.at)]
      BY <1>1, <2>1, <2>2
    <3>2. QED BY <1>3, <2>1, <2>2, <3>1 DEF JobRow
  <2>3. CASE j \notin leasing.jobs
    BY <1>1, <2>1, <2>3
  <2>4. QED BY <2>2, <2>3
<1>5. \A j \in Job \ Existing : jobs'[j] = None
  BY <1>1, <1>2 DEF Existing
<1>6. Existing' = Existing
  BY <1>4, <1>5, NoneAssumption DEF Existing
<1>7. \A j \in Existing : Pending(j)' <=> Pending(j)
  BY <1>4, <1>6 DEF Pending, Existing
<1>8. TypeOK'
  <2>1. jobs' \in [Job -> JobRow \cup {None}]
    BY <1>1, <1>4, <1>5
  <2>2. leasing' \in [jobs : SUBSET Job, at : 0..MaxClock]
    BY <1>1, ConstantTypes DEF NotLeasing
  <2>3. QED BY <1>1, <1>2, <2>1, <2>2, QueuedFacts DEF Inv, TypeOK
<1>9. WorkIsPending'
  <2>1. \A p \in working : p.job \in Existing
    BY DEF Inv, WorkIsPending, Pending, Existing, TypeOK
  <2>2. \A j \in Job : tasks'[j] > 0 => j \in Existing'
    BY <1>1, <1>2, <1>6, QueuedFacts
  <2>3. leasing'.jobs \subseteq Existing'
    BY <1>1 DEF NotLeasing
  <2>4. QED BY <1>1, <1>7, <2>1, <2>2, <2>3 DEF Inv, WorkIsPending
<1>10. \A j \in Existing :
         /\ SameIdentity(j)
         /\ Pending(j)' => Pending(j) /\ jobs'[j].attempts < MaxAttempts
         /\ jobs[j].state = "succeeded" => jobs'[j].state = "succeeded"
  BY <1>4, <1>7 DEF SameIdentity, Inv, PendingIsLast
<1>11. QED BY <1>1, <1>6, <1>8, <1>9, <1>10, QuietStep

LEMMA DispatchDiesKeepsInv == ASSUME Inv, DispatchDies PROVE Inv'
<1>1. /\ leasing' = NotLeasing /\ upsets < MaxUpsets /\ upsets' = upsets + 1
      /\ UNCHANGED <<remote, jobs, log, conflict, mapped, active, nextSync, planned,
                     working, firm, reviewed, clock>>
  BY DEF DispatchDies, Upset, rows, ghosts
<1>2. PICK sent \in SUBSET leasing.jobs : tasks' = Queued(sent)
  BY DEF DispatchDies
<1>3. sent \in SUBSET Existing
  BY <1>2 DEF Inv, WorkIsPending
<1>4. TypeOK'
  <2>1. leasing' \in [jobs : SUBSET Job, at : 0..MaxClock]
    BY <1>1, ConstantTypes DEF NotLeasing
  <2>2. upsets' \in 0..MaxUpsets
    BY <1>1, UpsetsCount DEF Inv
  <2>3. QED BY <1>1, <1>2, <1>3, <2>1, <2>2, QueuedFacts DEF Inv, TypeOK
<1>5. Existing' = Existing /\ \A j : Pending(j)' = Pending(j)
  BY <1>1 DEF Existing, Pending
<1>6. WorkIsPending'
  <2>1. \A j \in Job : tasks'[j] > 0 => j \in Existing'
    BY <1>2, <1>3, <1>5, QueuedFacts
  <2>2. leasing'.jobs \subseteq Existing'
    BY <1>1 DEF NotLeasing
  <2>3. QED BY <1>1, <1>5, <2>1, <2>2 DEF Inv, WorkIsPending
<1>7. QED BY <1>1, <1>4, <1>6, UnchangedJobs, QuietStep

LEMMA StartKeepsInv == ASSUME Inv, NEW j \in Job, Start(j) PROVE Inv'
<1>1. /\ tasks[j] > 0 /\ working = {}
      /\ tasks' = [tasks EXCEPT ![j] = @ - 1]
      /\ working' = IF Open(j) THEN {[job |-> j, began |-> clock]} ELSE {}
      /\ UNCHANGED <<remote, jobs, log, conflict, mapped, active, nextSync, planned,
                     leasing, firm, reviewed, clock, upsets>>
  BY DEF Start, Unlocked, rows, ghosts, bounds
<1>2. j \in Existing
  BY <1>1 DEF Inv, WorkIsPending
<1>3. TypeOK'
  <2>1. tasks' \in [Job -> 0..MaxTasks]
    <3>1. tasks \in [Job -> 0..MaxTasks] /\ tasks[j] \in 0..MaxTasks
      BY DEF Inv, TypeOK
    <3>2. tasks[j] - 1 \in 0..MaxTasks
      BY <1>1, <3>1, ConstantTypes
    <3>3. QED BY <1>1, <3>1, <3>2
  <2>2. working' \subseteq [job : Job, began : 0..MaxClock]
    BY <1>1 DEF Inv, TypeOK
  <2>3. QED BY <1>1, <2>1, <2>2 DEF Inv, TypeOK
<1>4. Existing' = Existing /\ \A k : Pending(k)' = Pending(k)
  BY <1>1 DEF Existing, Pending
<1>5. Open(j) => Pending(j)
  BY <1>2, JobFacts DEF Inv, Open, Pending, Existing
<1>6. WorkIsPending'
  <2>1. \A k \in Job : tasks'[k] > 0 => k \in Existing'
    BY <1>1, <1>2, <1>4 DEF Inv, WorkIsPending, TypeOK
  <2>2. \A p \in working' : Pending(p.job)'
    BY <1>1, <1>4, <1>5
  <2>3. \A p, q \in working' : p = q
    BY <1>1
  <2>4. QED BY <1>1, <1>4, <2>1, <2>2, <2>3 DEF Inv, WorkIsPending
<1>7. QED BY <1>1, <1>3, <1>6, UnchangedJobs, QuietStep

LEMMA OneMoreAttempt ==
    ASSUME Inv, NEW j \in Existing, Pending(j)
    PROVE  /\ jobs[j] \in JobRow
           /\ jobs[j].attempts + 1 \in 1..MaxAttempts
           /\ jobs[j].attempts + 1 \in 0..MaxAttempts
<1>1. jobs[j].attempts < MaxAttempts
  BY DEF Inv, PendingIsLast
<1>2. jobs[j] \in JobRow /\ jobs[j].attempts \in 0..MaxAttempts
  BY JobFacts DEF Inv
<1>3. MaxAttempts \in Nat
  BY ConstantTypes
<1>4. QED BY <1>1, <1>2, <1>3

LEMMA FailKeepsInv == ASSUME Inv, NEW p \in working, Fail(p) PROVE Inv'
<1> DEFINE j == p.job
           attempts == jobs[j].attempts + 1
<1>1. j \in Existing /\ Pending(j) /\ p.began \in 0..MaxClock /\ j \in Job
  BY DEF Inv, WorkIsPending, TypeOK, Pending, Existing
<1>2. jobs[j] \in JobRow /\ attempts \in 1..MaxAttempts
  BY <1>1, OneMoreAttempt
<1>3. /\ working' = working \ {p}
      /\ UNCHANGED <<remote, log, conflict, mapped, active, nextSync, tasks, planned,
                     leasing, firm, reviewed, clock, upsets>>
  BY DEF Fail, beats, ghosts, bounds
<1>4. PICK delay \in 1..MaxDelay :
        jobs' = [jobs EXCEPT
                   ![j].state = IF Exhausted(attempts) THEN "dead_letter" ELSE "pending",
                   ![j].attempts = attempts,
                   ![j].available = Lesser(p.began + delay, MaxClock)]
  BY DEF Fail
<1>5. Lesser(p.began + delay, MaxClock) \in 0..MaxClock
  BY <1>1, ConstantTypes DEF Lesser
<1> HIDE DEF j, attempts
<1> DEFINE to == IF Exhausted(attempts) THEN "dead_letter" ELSE "pending"
           due == Lesser(p.began + delay, MaxClock)
<1>20. jobs' = [jobs EXCEPT ![j] = [jobs[j] EXCEPT !.state = to, !.attempts = attempts,
                                                    !.available = due]]
  BY <1>1, <1>2, <1>4 DEF Inv, TypeOK, JobRow
<1>21. to \in {"dead_letter", "pending"} /\ attempts \in 0..MaxAttempts /\ due \in 0..MaxClock
  BY <1>2, <1>5
<1> HIDE DEF to, due
<1>22. jobs'[j] = [jobs[j] EXCEPT !.state = to, !.attempts = attempts, !.available = due]
  BY <1>1, <1>20 DEF Inv, TypeOK
<1> USE DEF to
<1>6. /\ jobs'[j].state = IF Exhausted(attempts) THEN "dead_letter" ELSE "pending"
      /\ jobs'[j].attempts = attempts /\ jobs'[j].run = jobs[j].run
      /\ jobs'[j].cursor = jobs[j].cursor /\ jobs'[j].key = jobs[j].key
      /\ jobs'[j] \in JobRow
      /\ \A k \in Job \ {j} : jobs'[k] = jobs[k]
      /\ DOMAIN jobs' = Job
  <2>1. /\ jobs'[j].state = to /\ jobs'[j].attempts = attempts
        /\ jobs'[j].run = jobs[j].run /\ jobs'[j].cursor = jobs[j].cursor
        /\ jobs'[j].key = jobs[j].key /\ jobs'[j] \in JobRow
    <3> HIDE DEF to
    <3>1. QED BY <1>2, <1>21, <1>22 DEF JobRow
  <2>2. (\A k \in Job \ {j} : jobs'[k] = jobs[k]) /\ DOMAIN jobs' = Job
    BY <1>20 DEF Inv, TypeOK
  <2>3. QED BY <2>1, <2>2
<1> HIDE DEF to
<1>7. Existing' = Existing
  BY <1>1, <1>6, NoneAssumption DEF Existing
<1>8. \A k \in Existing \ {j} : Pending(k)' = Pending(k)
  BY <1>6 DEF Pending, Existing
<1>9. Pending(j)' => attempts < MaxAttempts
  BY <1>2, <1>6, ConstantTypes DEF Pending, Exhausted
<1>10. TypeOK'
  <2>1. jobs' \in [Job -> JobRow \cup {None}]
    <3>1. jobs \in [Job -> JobRow \cup {None}]
      BY DEF Inv, TypeOK
    <3>2. QED BY <1>6, <1>20, <3>1
  <2>2. QED BY <1>3, <2>1 DEF Inv, TypeOK
<1>11. working' = {}
  BY <1>3 DEF Inv, WorkIsPending
<1>12. WorkIsPending'
  BY <1>3, <1>7, <1>11 DEF Inv, WorkIsPending
<1>13. ASSUME NEW k \in Existing
       PROVE  /\ SameIdentity(k)
              /\ Pending(k)' => Pending(k) /\ jobs'[k].attempts < MaxAttempts
              /\ jobs[k].state = "succeeded" => jobs'[k].state = "succeeded"
  <2>1. CASE k = j
    BY <1>1, <1>6, <1>9, <2>1 DEF SameIdentity, Pending
  <2>2. CASE k # j
    BY <1>6, <1>8, <2>2 DEF SameIdentity, Inv, PendingIsLast, Existing
  <2>3. QED BY <2>1, <2>2
<1>14. QED BY <1>3, <1>7, <1>10, <1>12, <1>13, QuietStep

LEMMA WorkerDiesKeepsInv == ASSUME Inv, NEW p \in working, WorkerDies(p) PROVE Inv'
<1>1. /\ working' = working \ {p} /\ upsets < MaxUpsets /\ upsets' = upsets + 1
      /\ UNCHANGED <<remote, jobs, log, conflict, mapped, active, nextSync, tasks,
                     planned, leasing, firm, reviewed, clock>>
  BY DEF WorkerDies, Upset, rows, beats, ghosts
<1>2. TypeOK'
  <2>1. upsets' \in 0..MaxUpsets
    BY <1>1, UpsetsCount DEF Inv
  <2>2. working' \subseteq [job : Job, began : 0..MaxClock]
    BY <1>1 DEF Inv, TypeOK
  <2>3. QED BY <1>1, <2>1, <2>2 DEF Inv, TypeOK
<1>3. Existing' = Existing /\ \A j : Pending(j)' = Pending(j)
  BY <1>1 DEF Existing, Pending
<1>4. WorkIsPending'
  BY <1>1, <1>3 DEF Inv, WorkIsPending
<1>5. QED BY <1>1, <1>2, <1>4, UnchangedJobs, QuietStep

LEMMA CancelKeepsInv == ASSUME Inv, NEW j \in Job, CancelSyncJob(j) PROVE Inv'
<1>1. /\ Pending(j) /\ working = {} /\ upsets < MaxUpsets /\ upsets' = upsets + 1
      /\ jobs' = [jobs EXCEPT ![j].state = "cancelled"]
      /\ UNCHANGED <<remote, log, conflict, mapped, active, nextSync, tasks, planned,
                     leasing, working, firm, reviewed, clock>>
  BY DEF CancelSyncJob, Unlocked, Upset, beats, ghosts
<1>2. j \in Existing /\ jobs[j] \in JobRow
  BY <1>1, JobFacts DEF Inv, Pending, Existing
<1>3. /\ jobs'[j].state = "cancelled" /\ jobs'[j] \in JobRow
      /\ jobs'[j].run = jobs[j].run /\ jobs'[j].cursor = jobs[j].cursor
      /\ jobs'[j].key = jobs[j].key
      /\ \A k \in Job \ {j} : jobs'[k] = jobs[k]
  BY <1>1, <1>2 DEF Inv, TypeOK, JobRow
<1>4. Existing' = Existing
  BY <1>2, <1>3, NoneAssumption DEF Existing
<1>5. TypeOK'
  <2>1. jobs' \in [Job -> JobRow \cup {None}]
    BY <1>1, <1>3 DEF Inv, TypeOK
  <2>2. upsets' \in 0..MaxUpsets
    BY <1>1, UpsetsCount DEF Inv
  <2>3. QED BY <1>1, <2>1, <2>2 DEF Inv, TypeOK
<1>6. WorkIsPending'
  BY <1>1, <1>4 DEF Inv, WorkIsPending
<1>7. ASSUME NEW k \in Existing
      PROVE  /\ SameIdentity(k)
             /\ Pending(k)' => Pending(k) /\ jobs'[k].attempts < MaxAttempts
             /\ jobs[k].state = "succeeded" => jobs'[k].state = "succeeded"
  <2>1. CASE k = j
    BY <1>1, <1>3, <2>1 DEF SameIdentity, Pending
  <2>2. CASE k # j
    <3>1. jobs'[k] = jobs[k]
      BY <1>3, <2>2 DEF Existing
    <3>2. QED BY <3>1 DEF SameIdentity, Pending, Inv, PendingIsLast
  <2>3. QED BY <2>1, <2>2
<1>8. QED BY <1>1, <1>4, <1>5, <1>6, <1>7, QuietStep

LEMMA UpdateConnectionKeepsInv == ASSUME Inv, UpdateConnection PROVE Inv'
<1>1. /\ upsets < MaxUpsets /\ upsets' = upsets + 1
      /\ active' \in {active, ~active} /\ nextSync' \in {nextSync, clock}
      /\ UNCHANGED <<remote, jobs, log, conflict, mapped, tasks, planned, leasing,
                     working, firm, reviewed, clock>>
  BY DEF UpdateConnection, Upset, beats, ghosts
<1>2. TypeOK'
  <2>1. upsets' \in 0..MaxUpsets /\ nextSync' \in 0..(MaxClock + Interval)
    BY <1>1, ConstantTypes DEF Inv, TypeOK
  <2>2. active' \in BOOLEAN
    BY <1>1 DEF Inv, TypeOK
  <2>3. QED BY <1>1, <2>1, <2>2 DEF Inv, TypeOK
<1>3. Existing' = Existing /\ \A j : Pending(j)' = Pending(j)
  BY <1>1 DEF Existing, Pending
<1>4. WorkIsPending'
  BY <1>1, <1>3 DEF Inv, WorkIsPending
<1>5. QED BY <1>1, <1>2, <1>4, UnchangedJobs, QuietStep

LEMMA TickKeepsInv == ASSUME Inv, Tick PROVE Inv'
<1>1. /\ clock < MaxClock /\ clock' = clock + 1
      /\ UNCHANGED <<remote, jobs, log, conflict, mapped, active, nextSync, tasks,
                     planned, leasing, working, firm, reviewed, upsets>>
  BY DEF Tick, rows, beats, ghosts
<1>2. TypeOK'
  <2>1. clock' \in 0..MaxClock
    <3>1. clock \in 0..MaxClock
      BY DEF Inv, TypeOK
    <3>2. QED BY <1>1, <3>1, ConstantTypes
  <2>2. QED BY <1>1, <2>1 DEF Inv, TypeOK
<1>3. Existing' = Existing /\ \A j : Pending(j)' = Pending(j)
  BY <1>1 DEF Existing, Pending
<1>4. WorkIsPending'
  BY <1>1, <1>3 DEF Inv, WorkIsPending
<1>5. QED BY <1>1, <1>2, <1>4, UnchangedJobs, QuietStep

-----------------------------------------------------------------------------
(* Runs that start. *)

LEMMA EntriesFrame ==
    ASSUME TypeOK, LogIsRead, \A j \in Existing : SameIdentity(j), log' = log,
           NEW j, NEW u, jobs'[j].run = u
    PROVE  EntriesOf(jobs[j].run)' = EntriesOf(u)
<1>1. \A i \in DOMAIN log : RunOf(log[i])' = RunOf(log[i])
  BY LogFrame
<1>2. QED BY <1>1 DEF EntriesOf

\* What a run has recorded, its jobs have: a new one has recorded nothing.
LEMMA NothingRecorded ==
    ASSUME Inv, NEW u, u \notin Existing
    PROVE  EntriesOf(u) = {}
<1>1. \A j \in Existing : jobs[j].run \in Existing
  BY DEF Inv, RowsInOrder, Starters
<1>2. \A i \in DOMAIN log : RunOf(log[i]) \in Existing
  BY <1>1 DEF Inv, LogIsRead, RunOf
<1>3. QED BY <1>2 DEF EntriesOf

LEMMA NewRunKeepsInv ==
    ASSUME Inv, NEW key \in Key, \A k : key # <<"continuation", k>>,
           working = {}, Started < MaxRuns,
           jobs' = Enqueued(jobs, key, None, 1), planned' \in {planned, None},
           UNCHANGED <<remote, log, conflict, mapped, active, nextSync, tasks, leasing,
                       working, firm, reviewed, clock, upsets>>
    PROVE  Inv'
<1> DEFINE new == Count + 1
           row == [state |-> "pending", run |-> new, cursor |-> 1, key |-> key,
                   attempts |-> 0, available |-> clock]
<1>1. planned' \in Key \cup {None}
  BY DEF Inv, TypeOK
<1>2. CASE jobs' = jobs
  <2>1. TypeOK'
    BY <1>1, <1>2 DEF Inv, TypeOK
  <2>2. Existing' = Existing
    BY <1>2 DEF Existing
  <2>3. WorkIsPending'
    BY <1>2, <2>2 DEF Inv, WorkIsPending
  <2>4. QED BY <1>2, <2>1, <2>3, UnchangedJobs, QuietStep
<1>3. CASE jobs' # jobs
  <2>1. jobs' = [jobs EXCEPT ![new] = row]
    BY <1>3 DEF Enqueued, Count, Existing
  <2>2. /\ Existing = 1..Count /\ Count \in Nat /\ new \in Job /\ new \notin Existing
        /\ \A j \in Existing : j \in Job /\ jobs[j].run \in Existing
    <3>1. Existing = 1..Count /\ Count \in Nat
      BY JobFacts DEF Inv, RowsInOrder
    <3>2. \A j \in Existing : j \in Job /\ jobs[j].run \in Existing
      BY JobFacts DEF Inv, RowsInOrder, Starters
    <3>3. new \in Job
      BY RoomForRun DEF Inv
    <3>4. QED BY <3>1, <3>2, <3>3
  <2>3. clock \in 0..MaxClock
    BY DEF Inv, TypeOK
  <2>4. Cardinality(Record) >= 1 /\ 0 < MaxAttempts /\ 0 \in 0..MaxAttempts
    BY ConstantTypes
  <2>5. Cardinality(Starters) < MaxRuns
    BY JobFacts DEF Inv
  <2> HIDE DEF new
  <2>6. row \in JobRow
    BY <2>2, <2>3, <2>4 DEF JobRow
  <2>7. /\ jobs'[new] = row /\ \A j \in Job \ {new} : jobs'[j] = jobs[j]
        /\ jobs' \in [Job -> JobRow \cup {None}]
    BY <2>1, <2>2, <2>6 DEF Inv, TypeOK
  <2>8. Existing' = Existing \cup {new}
    <3>1. row # None
      BY <2>6, NoneAssumption
    <3>2. \A j \in Job : jobs'[j] # None <=> j \in Existing \/ j = new
      BY <2>7, <3>1 DEF Existing
    <3>3. QED BY <2>2, <3>2 DEF Existing
  <2>9. \A j \in Existing : jobs'[j] = jobs[j] /\ SameIdentity(j) /\ Pending(j)' = Pending(j)
    BY <2>2, <2>7 DEF SameIdentity, Pending
  <2>10. jobs'[new].run = new /\ jobs'[new].cursor = 1 /\ jobs'[new].key = key
         /\ jobs'[new].attempts = 0
    BY <2>7
  <2> HIDE DEF row
  <2>11. RowsInOrder'
    <3>1. 1 \in Nat \ {0} /\ 1 <= Cardinality(Record)
      BY <2>4
    <3>2. QED BY <2>5, <2>8, <2>9, <2>10, <3>1, NewJobKeepsRows DEF Inv, new
  <2>12. ContinuedAfterEnd'
    <3>1. ASSUME NEW j \in Existing, NEW k \in Job, jobs[j].key = <<"continuation", k>>
          PROVE  k \in Existing' /\ ~Pending(k)'
      BY <2>8, <2>9, <3>1 DEF Inv, ContinuedAfterEnd
    <3>2. ASSUME NEW j \in Existing', NEW k \in Job, jobs'[j].key = <<"continuation", k>>
          PROVE  k \in Existing' /\ ~Pending(k)'
      <4>1. j \in Existing /\ jobs'[j] = jobs[j]
        BY <2>8, <2>9, <2>10, <3>2
      <4>2. QED BY <3>1, <3>2, <4>1
    <3>3. QED BY <3>2 DEF ContinuedAfterEnd
  <2>13. LogIsRead'
    BY <2>8, <2>9 DEF Inv, LogIsRead
  <2>14. RecordedInOrder' /\ RetirementsAreSound'
    BY <2>9, LogFrame DEF Inv
  <2>15. PendingIsLast'
    <3>1. ASSUME NEW j \in Existing, Pending(j)
          PROVE  /\ jobs'[j].attempts < MaxAttempts
                 /\ \A k \in Existing' \ {j} :
                      jobs'[k].run = jobs'[j].run => jobs'[k].cursor < jobs'[j].cursor
                 /\ Cardinality(EntriesOf(jobs[j].run)') = jobs'[j].cursor - 1
      <4>1. jobs'[j] = jobs[j] /\ jobs[j].run # new
        BY <2>2, <2>9
      <4>2. \A k \in Existing' \ {j} :
              jobs'[k].run = jobs'[j].run => jobs'[k].cursor < jobs'[j].cursor
        BY <2>8, <2>9, <2>10, <3>1, <4>1 DEF Inv, PendingIsLast
      <4>3. EntriesOf(jobs[j].run)' = EntriesOf(jobs[j].run)
        BY <2>9, <4>1, EntriesFrame DEF Inv
      <4>4. QED BY <3>1, <4>1, <4>2, <4>3 DEF Inv, PendingIsLast
    <3>2. /\ jobs'[new].attempts < MaxAttempts
          /\ \A k \in Existing' \ {new} :
               jobs'[k].run = jobs'[new].run => jobs'[k].cursor < jobs'[new].cursor
      BY <2>2, <2>4, <2>8, <2>9, <2>10
    <3>3. ASSUME NEW j, j = new
          PROVE  Cardinality(EntriesOf(jobs[j].run)') = jobs'[j].cursor - 1
      <4>1. EntriesOf(jobs[j].run)' = EntriesOf(new)
        BY <2>9, <2>10, <3>3, EntriesFrame DEF Inv
      <4>2. EntriesOf(new) = {}
        BY <2>2, NothingRecorded
      <4>3. QED BY <2>10, <3>3, <4>1, <4>2, FS_EmptySet
    <3>4. SUFFICES ASSUME NEW j \in Existing', Pending(j)'
                   PROVE  /\ jobs'[j].attempts < MaxAttempts
                          /\ \A k \in Existing' \ {j} :
                               jobs'[k].run = jobs'[j].run
                                 => jobs'[k].cursor < jobs'[j].cursor
                          /\ Cardinality(EntriesOf(jobs[j].run)') = jobs'[j].cursor - 1
      BY DEF PendingIsLast
    <3>5. CASE j = new
      BY <3>2, <3>3, <3>5
    <3>6. CASE j # new
      BY <2>8, <2>9, <3>1, <3>4, <3>6
    <3>7. QED BY <3>5, <3>6
  <2>16. WorkIsPending'
    BY <2>8 DEF Inv, WorkIsPending
  <2>17. FirmIsAhead'
    BY <2>9, ListingFrame
  <2>18. RetirementsAreReviewed'
    BY DEF Inv, RetirementsAreReviewed
  <2>19. TypeOK'
    BY <1>1, <2>7 DEF Inv, TypeOK
  <2>20. QED BY <2>11, <2>12, <2>13, <2>14, <2>15, <2>16, <2>17, <2>18, <2>19 DEF Inv
<1>4. QED BY <1>2, <1>3

LEMMA EnqueuePlannedKeepsInv == ASSUME Inv, EnqueuePlanned PROVE Inv'
<1>1. /\ planned # None /\ Started < MaxRuns /\ working = {}
      /\ jobs' = Enqueued(jobs, planned, None, 1) /\ planned' = None
      /\ UNCHANGED <<remote, log, conflict, mapped, active, nextSync, tasks, leasing,
                     working, firm, reviewed, clock, upsets>>
  BY DEF EnqueuePlanned, Unlocked, ghosts, bounds
<1>2. planned \in Key /\ \A k : planned # <<"continuation", k>>
  BY <1>1 DEF Inv, TypeOK, WorkIsPending
<1>3. QED BY <1>1, <1>2, NewRunKeepsInv

LEMMA RequestSyncKeepsInv ==
    ASSUME Inv, NEW m \in ManualKey, RequestSync(m)
    PROVE  Inv'
<1>1. /\ Started < MaxRuns /\ working = {}
      /\ jobs' = Enqueued(jobs, <<"manual", m>>, None, 1)
      /\ UNCHANGED <<remote, log, conflict, mapped, active, nextSync, tasks, planned,
                     leasing, working, firm, reviewed, clock, upsets>>
  BY DEF RequestSync, Unlocked, beats, ghosts, bounds
<1>2. <<"manual", m>> \in Key /\ \A k : <<"manual", m>> # <<"continuation", k>>
  BY DEF Key
<1>3. QED BY <1>1, <1>2, NewRunKeepsInv

-----------------------------------------------------------------------------
(* Conflicts that are resolved, and records that come and go. *)

LEMMA ResolveConflictKeepsInv ==
    ASSUME Inv, NEW r \in Record, ResolveConflict(r)
    PROVE  Inv'
<1>1. /\ upsets < MaxUpsets /\ upsets' = upsets + 1
      /\ conflict' = [conflict EXCEPT ![r] = "none"]
      /\ reviewed' = IF conflict[r] = "retired_remote" THEN reviewed \cup {r} ELSE reviewed
      /\ UNCHANGED <<remote, jobs, log, mapped, active, nextSync, tasks, planned,
                     leasing, working, firm, clock>>
  BY DEF ResolveConflict, Upset, beats
<1>2. TypeOK'
  <2>1. upsets' \in 0..MaxUpsets
    BY <1>1, UpsetsCount DEF Inv
  <2>2. QED BY <1>1, <2>1 DEF Inv, TypeOK
<1>3. Existing' = Existing /\ \A j : Pending(j)' = Pending(j)
  BY <1>1 DEF Existing, Pending
<1>4. WorkIsPending'
  BY <1>1, <1>3 DEF Inv, WorkIsPending
<1>5. /\ RowsInOrder' /\ ContinuedAfterEnd' /\ LogIsRead' /\ PendingIsLast'
      /\ RecordedInOrder'
  BY <1>1, UnchangedJobs, JobsFrame
<1>6. FirmIsAhead' /\ RetirementsAreSound'
  BY <1>1, UnchangedJobs, ListingFrame, LogFrame DEF Inv
<1>7. RetirementsAreReviewed'
  <2>1. ASSUME NEW q \in Record \ reviewed', q # r PROVE conflict'[q] = conflict[q]
    BY <1>1, <2>1 DEF Inv, TypeOK
  <2>2. r \notin reviewed' => conflict[r] # "retired_remote"
    BY <1>1
  <2>3. reviewed \subseteq reviewed'
    BY <1>1
  <2>4. QED BY <1>1, <2>1, <2>2, <2>3 DEF Inv, RetirementsAreReviewed
<1>8. QED BY <1>2, <1>4, <1>5, <1>6, <1>7 DEF Inv

\* A record that appears pushes those behind it further back.
LEMMA AppearKeepsInv == ASSUME Inv, NEW x \in Record, Appear(x) PROVE Inv'
<1>1. /\ upsets < MaxUpsets /\ upsets' = upsets + 1 /\ remote' = remote \cup {x}
      /\ UNCHANGED <<jobs, log, conflict, mapped, active, nextSync, tasks, planned,
                     leasing, working, firm, reviewed, clock>>
  BY DEF Appear, Upset, rows, beats, ghosts
<1>2. TypeOK'
  <2>1. upsets' \in 0..MaxUpsets
    BY <1>1, UpsetsCount DEF Inv
  <2>2. QED BY <1>1, <2>1 DEF Inv, TypeOK
<1>3. Existing' = Existing /\ \A j : Pending(j)' = Pending(j)
  BY <1>1 DEF Existing, Pending
<1>4. WorkIsPending'
  BY <1>1, <1>3 DEF Inv, WorkIsPending
<1>5. /\ RowsInOrder' /\ ContinuedAfterEnd' /\ LogIsRead' /\ PendingIsLast'
      /\ RecordedInOrder'
  BY <1>1, UnchangedJobs, JobsFrame
<1>6. RetirementsAreSound' /\ RetirementsAreReviewed'
  BY <1>1, UnchangedJobs, LogFrame DEF Inv, RetirementsAreReviewed
<1>7. \A u : EntriesOf(u)' = EntriesOf(u) /\ SeenBy(u)' = SeenBy(u)
  BY <1>1, UnchangedJobs, LogFrame DEF Inv
<1>8. ASSUME NEW r \in remote
      PROVE  Position(r)' \in Nat /\ Position(r) \in Nat /\ Position(r) <= Position(r)'
  <2>1. r \in Nat /\ x \in Nat /\ r \in Record /\ remote \in SUBSET Nat /\ IsFiniteSet(remote)
    BY RemoteFacts, RecordAssumption DEF Inv, TypeOK
  <2>2. Rank(remote, r) <= Rank(remote \cup {x}, r)
    BY <2>1, RankGrows
  <2>3. Position(r) = Rank(remote, r) /\ Position(r)' = Rank(remote \cup {x}, r)
    BY <1>1 DEF Position, Rank
  <2>4. IsFiniteSet(remote \cup {x}) /\ remote \cup {x} \in SUBSET Nat
    BY <2>1, FS_AddElement
  <2>5. Rank(remote, r) \in Nat /\ Rank(remote \cup {x}, r) \in Nat
    BY <2>1, <2>4, RankType
  <2>6. QED BY <2>2, <2>3, <2>5
<1>9. FirmIsAhead'
  <2> SUFFICES ASSUME NEW u \in Job, EntriesOf(u) # {}
               PROVE  /\ firm[u] \subseteq remote'
                      /\ \A r \in firm[u] :
                           \/ r \in SeenBy(u)
                           \/ Position(r)' > Cardinality(EntriesOf(u)) * PageSize
    BY <1>1, <1>7 DEF FirmIsAhead
  <2>1. firm[u] \subseteq remote
    BY DEF Inv, FirmIsAhead
  <2>2. ASSUME NEW r \in firm[u], r \notin SeenBy(u)
        PROVE  Position(r)' > Cardinality(EntriesOf(u)) * PageSize
    <3>1. Position(r) > Cardinality(EntriesOf(u)) * PageSize
      BY <2>2 DEF Inv, FirmIsAhead
    <3>2. Cardinality(EntriesOf(u)) \in Nat /\ PageSize \in Nat
      BY EntryFacts, ConstantTypes DEF Inv
    <3>3. Cardinality(EntriesOf(u)) * PageSize \in Nat
      BY <3>2, ProductGrows
    <3>4. QED BY <1>8, <2>1, <3>1, <3>3
  <2>3. QED BY <1>1, <2>1, <2>2
<1>10. QED BY <1>2, <1>4, <1>5, <1>6, <1>9 DEF Inv

\* A record that vanishes moves those behind it: they are firm no more.
LEMMA VanishKeepsInv == ASSUME Inv, NEW x \in Record, Vanish(x) PROVE Inv'
<1>1. /\ upsets < MaxUpsets /\ upsets' = upsets + 1 /\ remote' = remote \ {x}
      /\ firm' = [j \in Job |-> {q \in firm[j] : q < x}]
      /\ UNCHANGED <<jobs, log, conflict, mapped, active, nextSync, tasks, planned,
                     leasing, working, reviewed, clock>>
  BY DEF Vanish, Upset, rows, beats
<1>2. TypeOK'
  <2>1. upsets' \in 0..MaxUpsets
    BY <1>1, UpsetsCount DEF Inv
  <2>2. firm' \in [Job -> SUBSET Record]
    BY <1>1 DEF Inv, TypeOK
  <2>3. QED BY <1>1, <2>1, <2>2 DEF Inv, TypeOK
<1>3. Existing' = Existing /\ \A j : Pending(j)' = Pending(j)
  BY <1>1 DEF Existing, Pending
<1>4. WorkIsPending'
  BY <1>1, <1>3 DEF Inv, WorkIsPending
<1>5. /\ RowsInOrder' /\ ContinuedAfterEnd' /\ LogIsRead' /\ PendingIsLast'
      /\ RecordedInOrder'
  BY <1>1, UnchangedJobs, JobsFrame
<1>6. \A u : EntriesOf(u)' = EntriesOf(u) /\ SeenBy(u)' = SeenBy(u)
  BY <1>1, UnchangedJobs, LogFrame DEF Inv
<1>7. RetirementsAreReviewed'
  BY <1>1 DEF Inv, RetirementsAreReviewed
<1>8. RetirementsAreSound'
  <2>1. ASSUME NEW i \in DOMAIN log
        PROVE  /\ RunOf(log[i])' = RunOf(log[i]) /\ RunOf(log[i]) \in Job
               /\ log[i].retired \cap firm[RunOf(log[i])] = {}
    <3>1. RunOf(log[i]) \in Job
      BY JobFacts DEF Inv, LogIsRead, RunOf
    <3>2. QED BY <1>1, <3>1 DEF Inv, RetirementsAreSound, RunOf
  <2>2. \A u \in Job : firm'[u] \subseteq firm[u]
    BY <1>1
  <2>3. QED BY <1>1, <2>1, <2>2 DEF RetirementsAreSound
<1>9. ASSUME NEW r \in remote, r < x PROVE Position(r)' = Position(r)
  <2>1. r \in Nat /\ x \in Nat /\ remote \in SUBSET Nat
    BY RemoteFacts, RecordAssumption DEF Inv, TypeOK
  <2>2. Rank(remote \ {x}, r) = Rank(remote, r)
    BY <1>9, <2>1, RankStays
  <2>3. QED BY <1>1, <2>2 DEF Position, Rank
<1>10. FirmIsAhead'
  <2> SUFFICES ASSUME NEW u \in Job, EntriesOf(u) # {}
               PROVE  /\ firm'[u] \subseteq remote'
                      /\ \A r \in firm'[u] :
                           \/ r \in SeenBy(u)
                           \/ Position(r)' > Cardinality(EntriesOf(u)) * PageSize
    BY <1>1, <1>6 DEF FirmIsAhead
  <2>1. firm[u] \subseteq remote
    BY DEF Inv, FirmIsAhead
  <2>2. \A r \in firm'[u] : r \in firm[u] /\ r < x /\ r \in remote
    BY <1>1, <2>1
  <2>3. x \in Nat /\ ~(x < x)
    BY RecordAssumption
  <2>4. firm'[u] \subseteq remote'
    BY <1>1, <2>2, <2>3
  <2>5. \A r \in firm'[u] : \/ r \in SeenBy(u)
                            \/ Position(r) > Cardinality(EntriesOf(u)) * PageSize
    BY <2>2 DEF Inv, FirmIsAhead
  <2>6. QED BY <1>9, <2>2, <2>4, <2>5
<1>11. QED BY <1>2, <1>4, <1>5, <1>7, <1>8, <1>10 DEF Inv

-----------------------------------------------------------------------------
(* Pages that are read. *)

LEMMA LastIsMax ==
    ASSUME NEW S \in SUBSET Nat, NEW m \in S, \A k \in S : k <= m
    PROVE  Max(S) = m
<1>1. \E x \in S : \A y \in S : x >= y
  OBVIOUS
<1>2. Max(S) \in S /\ \A y \in S : Max(S) >= y
  BY <1>1 DEF Max
<1>3. Max(S) \in Nat /\ m \in Nat
  BY <1>2
<1>4. Max(S) <= m /\ Max(S) >= m
  BY <1>2
<1>5. QED BY <1>3, <1>4

\* The log after a page of the run u has been recorded by the job j.
LEMMA LogGrows ==
    ASSUME TypeOK, LogIsRead, NEW j \in Existing, NEW u, u = jobs[j].run,
           NEW seen, NEW retired, NEW end, end = Len(log) + 1,
           log' = Append(log, [job |-> j, seen |-> seen, retired |-> retired]),
           \A k \in Existing : SameIdentity(k)
    PROVE  /\ end \in Nat /\ DOMAIN log = 1..(end - 1) /\ end \notin DOMAIN log
           /\ DOMAIN log' = DOMAIN log \cup {end}
           /\ \A i \in DOMAIN log : log'[i] = log[i]
           /\ log'[end] = [job |-> j, seen |-> seen, retired |-> retired]
           /\ \A i \in DOMAIN log : /\ RunOf(log[i])' = RunOf(log[i])
                                    /\ CursorOf(log[i])' = CursorOf(log[i])
           /\ jobs'[log'[end].job].run = u
           /\ \A w : w # u => EntriesOf(w)' = EntriesOf(w) /\ SeenBy(w)' = SeenBy(w)
           /\ EntriesOf(u)' = EntriesOf(u) \cup {end}
           /\ SeenBy(u)' = SeenBy(u) \cup (seen \cup retired)
<1>1. Len(log) \in Nat /\ DOMAIN log = 1..Len(log) /\ log \in Seq(Observations)
  BY EntryFacts DEF TypeOK
<1>2. /\ end \in Nat /\ DOMAIN log = 1..(end - 1) /\ end \notin DOMAIN log
      /\ DOMAIN log' = DOMAIN log \cup {end}
      /\ \A i \in DOMAIN log : log'[i] = log[i]
      /\ log'[end] = [job |-> j, seen |-> seen, retired |-> retired]
  BY <1>1
<1>3. \A i \in DOMAIN log : /\ RunOf(log[i])' = RunOf(log[i])
                            /\ CursorOf(log[i])' = CursorOf(log[i])
  BY <1>2 DEF LogIsRead, SameIdentity, RunOf, CursorOf
<1>4. jobs'[log'[end].job].run = u
  BY <1>2 DEF SameIdentity
<1>5. \A w : EntriesOf(w)' = {i \in DOMAIN log' : jobs'[log'[i].job].run = w}
  BY DEF EntriesOf, RunOf
<1>6. \A i \in DOMAIN log : jobs'[log'[i].job].run = jobs[log[i].job].run
  BY <1>3 DEF RunOf
<1>7. \A w : EntriesOf(w) = {i \in DOMAIN log : jobs[log[i].job].run = w}
  BY DEF EntriesOf, RunOf
<1>8. ASSUME NEW w, w # u PROVE EntriesOf(w)' = EntriesOf(w)
  BY <1>2, <1>4, <1>5, <1>6, <1>7, <1>8
<1>9. EntriesOf(u)' = EntriesOf(u) \cup {end}
  BY <1>2, <1>4, <1>5, <1>6, <1>7
<1>10. ASSUME NEW w, w # u PROVE SeenBy(w)' = SeenBy(w)
  <2>1. \A i \in EntriesOf(w) : log'[i] = log[i]
    BY <1>2, <1>7
  <2>2. \A x : x \in SeenBy(w)' <=>
               \E i \in EntriesOf(w) : x \in log'[i].seen \cup log'[i].retired
    <3>1. \A x : x \in SeenBy(w)' <=>
                 \E i \in EntriesOf(w)' : x \in log'[i].seen \cup log'[i].retired
      BY DEF SeenBy
    <3>2. QED BY <1>8, <1>10, <3>1
  <2>3. \A x : x \in SeenBy(w) <=>
               \E i \in EntriesOf(w) : x \in log[i].seen \cup log[i].retired
    BY DEF SeenBy
  <2>4. \A x : x \in SeenBy(w)' <=> x \in SeenBy(w)
    BY <2>1, <2>2, <2>3
  <2>5. QED BY <2>4
<1>11. SeenBy(u)' = SeenBy(u) \cup (seen \cup retired)
  <2>1. \A i \in EntriesOf(u) : log'[i] = log[i]
    BY <1>2, <1>7
  <2>2. \A x : x \in SeenBy(u)' <=>
               \E i \in EntriesOf(u) \cup {end} : x \in log'[i].seen \cup log'[i].retired
    <3>1. \A x : x \in SeenBy(u)' <=>
                 \E i \in EntriesOf(u)' : x \in log'[i].seen \cup log'[i].retired
      BY DEF SeenBy
    <3>2. QED BY <1>9, <3>1
  <2>3. \A x : x \in SeenBy(u) <=>
               \E i \in EntriesOf(u) : x \in log[i].seen \cup log[i].retired
    BY DEF SeenBy
  <2>4. log'[end].seen = seen /\ log'[end].retired = retired
    BY <1>2
  <2>5. \A x : x \in SeenBy(u)' <=> x \in SeenBy(u) \/ x \in seen \cup retired
    BY <2>1, <2>2, <2>3, <2>4
  <2>6. QED BY <2>5
<1>12. QED BY <1>2, <1>3, <1>4, <1>8, <1>9, <1>10, <1>11

\* The jobs after a page has been read: the job has succeeded, and another one
\* goes on from the next page if there is one.
LEMMA ReadJobs ==
    ASSUME Inv, NEW p \in working, ReadPage(p), NEW j, j = p.job,
           NEW u, u = jobs[j].run, NEW n, n = jobs[j].cursor
    PROVE  /\ j \in Existing /\ Pending(j)
           /\ jobs' \in [Job -> JobRow \cup {None}]
           /\ Existing' = IF HasMore(n) THEN Existing \cup {Count + 1} ELSE Existing
           /\ RowsInOrder'
           /\ \A k \in Existing : SameIdentity(k) /\ (k # j => jobs'[k] = jobs[k])
           /\ jobs'[j].state = "succeeded"
           /\ HasMore(n) =>
                /\ Count + 1 \notin Existing
                /\ jobs'[Count + 1].run = u /\ jobs'[Count + 1].cursor = n + 1
                /\ jobs'[Count + 1].key = <<"continuation", j>>
                /\ jobs'[Count + 1].attempts = 0
<1> DEFINE T == Succeeded(j)
<1>1. j \in Existing /\ Pending(j) /\ j \in Job
  BY DEF Inv, WorkIsPending, TypeOK, Pending, Existing
<1>2. /\ jobs[j] \in JobRow /\ jobs[j].attempts + 1 \in 0..MaxAttempts
      /\ u \in Job /\ n \in Nat \ {0}
  <2>1. u \in Job /\ n \in Nat \ {0}
    BY <1>1, JobFacts DEF Inv
  <2>2. QED BY <1>1, <2>1, OneMoreAttempt
<1>3. jobs' = IF HasMore(n) THEN Enqueued(T, <<"continuation", j>>, u, n + 1) ELSE T
  BY DEF ReadPage, SameRun
<1>4. T = [jobs EXCEPT ![j] = [jobs[j] EXCEPT !.state = "succeeded",
                                               !.attempts = jobs[j].attempts + 1]]
  BY <1>1, <1>2 DEF Succeeded, Inv, TypeOK, JobRow
<1>5. /\ T[j] = [jobs[j] EXCEPT !.state = "succeeded", !.attempts = jobs[j].attempts + 1]
      /\ \A k \in Job \ {j} : T[k] = jobs[k]
      /\ DOMAIN T = Job
  BY <1>1, <1>4 DEF Inv, TypeOK
<1> HIDE DEF T
<1>6. /\ T[j] \in JobRow /\ T[j].state = "succeeded" /\ T[j].run = jobs[j].run
      /\ T[j].cursor = jobs[j].cursor /\ T[j].key = jobs[j].key
  BY <1>2, <1>5 DEF JobRow
<1>7. T \in [Job -> JobRow \cup {None}]
  <2>1. jobs \in [Job -> JobRow \cup {None}]
    BY DEF Inv, TypeOK
  <2>2. T = [jobs EXCEPT ![j] = T[j]]
    BY <1>1, <1>4, <1>5
  <2>3. QED BY <1>6, <2>1, <2>2
<1>8. {k \in Job : T[k] # None} = Existing
  BY <1>1, <1>5, <1>6, NoneAssumption DEF Existing
<1>9. \A k \in Existing : /\ T[k].run = jobs[k].run /\ T[k].cursor = jobs[k].cursor
                          /\ T[k].key = jobs[k].key /\ (k # j => T[k] = jobs[k])
  BY <1>5, <1>6 DEF Existing
<1>10. CASE ~HasMore(n)
  <2>1. jobs' = T /\ Existing' = Existing
    BY <1>3, <1>8, <1>10 DEF Existing
  <2>2. \A k \in Existing : SameIdentity(k)
    BY <1>9, <2>1 DEF SameIdentity
  <2>3. Count' = Count
    BY <2>1 DEF Count
  <2>4. Starters' = Starters
    BY <2>1, <2>2 DEF Starters, SameIdentity
  <2>5. RowsInOrder'
    BY <2>1, <2>2, <2>3, <2>4 DEF Inv, RowsInOrder, SameIdentity
  <2>6. QED BY <1>1, <1>6, <1>7, <1>9, <1>10, <2>1, <2>2, <2>5
<1>11. CASE HasMore(n)
  <2> DEFINE new == Count + 1
             row == [state |-> "pending", run |-> u, cursor |-> n + 1,
                     key |-> <<"continuation", j>>, attempts |-> 0, available |-> clock]
  <2>1. n + 1 <= Cardinality(Record)
    BY <1>2, <1>11, NextCursor DEF Inv
  <2>2. u \in Starters
    BY <1>1 DEF Inv, RowsInOrder
  <2>3. \A k \in Existing : jobs[k].run = u => jobs[k].cursor < n + 1
    <3>1. ASSUME NEW k \in Existing, jobs[k].run = u PROVE jobs[k].cursor <= n
      <4>1. CASE k = j
        BY <1>2, <4>1
      <4>2. CASE k # j
        <5>1. jobs[k].cursor < n
          BY <1>1, <3>1, <4>2 DEF Inv, PendingIsLast
        <5>2. jobs[k].cursor \in Nat
          BY JobFacts DEF Inv
        <5>3. QED BY <1>2, <5>1, <5>2
      <4>3. QED BY <4>1, <4>2
    <3>2. \A k \in Existing : jobs[k].cursor \in Nat
      BY JobFacts DEF Inv
    <3>3. QED BY <1>2, <3>1, <3>2
  <2>4. new \in Job
    <3>1. n + 1 \in Nat \ {0} /\ \A k \in Existing : jobs[k].cursor \in Nat
      BY <1>2, JobFacts DEF Inv
    <3>2. \A k \in Existing : jobs[k].run = u => jobs[k].cursor # n + 1
      BY <2>3, <3>1
    <3>3. QED BY <2>1, <2>2, <3>1, <3>2, RoomForContinuation DEF Inv
  <2>5. new \notin Existing
    <3>1. Existing = 1..Count /\ Count \in Nat
      BY JobFacts DEF Inv, RowsInOrder
    <3>2. QED BY <3>1
  <2>6. row \in JobRow
    <3>1. clock \in 0..MaxClock
      BY DEF Inv, TypeOK
    <3>2. <<"continuation", j>> \in Key
      BY <1>1 DEF Key
    <3>3. n + 1 \in Nat \ {0} /\ 0 \in 0..MaxAttempts
      <4>1. n + 1 \in Nat \ {0}
        BY <1>2
      <4>2. QED BY <4>1, ConstantTypes
    <3>4. QED BY <1>2, <3>1, <3>2, <3>3 DEF JobRow
  <2>7. jobs' = [T EXCEPT ![new] = row]
    <3>1. \A k \in Existing : T[k].key # <<"continuation", j>>
      BY <1>1, <1>9 DEF Inv, ContinuedAfterEnd
    <3>2. ~\E k \in Job : T[k] # None /\ T[k].key = <<"continuation", j>>
      BY <1>8, <3>1
    <3>3. u # None
      BY <1>2, NoneAssumption
    <3>4. QED BY <1>3, <1>8, <1>11, <3>2, <3>3 DEF Enqueued, Count
  <2> HIDE DEF new
  <2>8. /\ jobs'[new] = row /\ \A k \in Job \ {new} : jobs'[k] = T[k]
        /\ jobs' \in [Job -> JobRow \cup {None}]
    <3> HIDE DEF row
    <3>1. QED BY <1>7, <2>4, <2>6, <2>7
  <2>9. Existing' = Existing \cup {new}
    <3>1. row # None
      BY <2>6, NoneAssumption
    <3>2. \A k \in Job : jobs'[k] # None <=> k \in Existing \/ k = new
      BY <1>8, <2>8, <3>1
    <3>3. QED BY <2>4, <3>2 DEF Existing
  <2>10. \A k \in Existing : SameIdentity(k) /\ (k # j => jobs'[k] = jobs[k])
    <3>1. \A k \in Existing : jobs'[k] = T[k]
      BY <2>5, <2>8 DEF Existing
    <3>2. QED BY <1>9, <3>1 DEF SameIdentity
  <2>11. jobs'[j].state = "succeeded"
    BY <1>1, <1>6, <2>5, <2>8
  <2>12. /\ jobs'[new].run = u /\ jobs'[new].cursor = n + 1
         /\ jobs'[new].key = <<"continuation", j>> /\ jobs'[new].attempts = 0
    BY <2>8
  <2> HIDE DEF row
  <2>13. RowsInOrder'
    <3>1. n + 1 \in Nat \ {0}
      BY <1>2
    <3>2. QED BY <2>1, <2>2, <2>3, <2>9, <2>10, <2>12, <3>1, NewJobKeepsRows DEF Inv, new
  <2>14. QED
    BY <1>1, <1>11, <2>5, <2>8, <2>9, <2>10, <2>11, <2>12, <2>13 DEF new
<1>12. QED BY <1>10, <1>11

\* What the page says of the firm records: each is in the log of the run by now,
\* or behind the page.  A last page thus retires none of them.
LEMMA FirmAreRead ==
    ASSUME Inv, NEW p \in working, ReadPage(p), NEW j, j = p.job,
           NEW u, u = jobs[j].run, NEW n, n = jobs[j].cursor,
           NEW r \in firm'[u]
    PROVE  /\ r \in remote /\ Position(r) \in Nat /\ n * PageSize \in Nat
           /\ \/ r \in SeenBy(u)
              \/ r \in Listing(n)
              \/ Position(r) > n * PageSize
<1>1. j \in Existing /\ Pending(j)
  BY DEF Inv, WorkIsPending, TypeOK, Pending, Existing
<1>2. n \in Nat \ {0} /\ u \in Job /\ Cardinality(EntriesOf(u)) = n - 1
  BY <1>1, JobFacts DEF Inv, PendingIsLast
<1>3. PageSize \in Nat \ {0}
  BY ConstantTypes
<1>4. firm' = IF EntriesOf(u) = {} THEN [firm EXCEPT ![u] = remote] ELSE firm
  BY DEF ReadPage
<1>5. r \in remote /\ (r \in SeenBy(u) \/ Position(r) > (n - 1) * PageSize)
  <2>1. CASE EntriesOf(u) = {}
    <3>1. n - 1 = 0
      BY <1>2, <2>1, FS_EmptySet
    <3>2. (n - 1) * PageSize = 0
      BY <1>3, <3>1
    <3>3. firm'[u] = remote
      BY <1>2, <1>4, <2>1 DEF Inv, TypeOK
    <3>4. Position(r) >= 1 /\ Position(r) \in Nat
      BY <3>3, RemoteFacts DEF Inv, TypeOK
    <3>5. QED BY <3>2, <3>3, <3>4
  <2>2. CASE EntriesOf(u) # {}
    BY <1>2, <1>4, <2>2 DEF Inv, FirmIsAhead
  <2>3. QED BY <2>1, <2>2
<1>6. Position(r) \in Nat
  BY <1>5, RemoteFacts DEF Inv, TypeOK
<1>7. n * PageSize \in Nat
  BY <1>2, <1>3, ProductGrows
<1>8. Position(r) > (n - 1) * PageSize => r \in Listing(n) \/ Position(r) > n * PageSize
  BY <1>5, <1>6, <1>7 DEF Listing
<1>9. QED BY <1>5, <1>6, <1>7, <1>8

LEMMA ReadPageKeepsInv == ASSUME Inv, NEW p \in working, ReadPage(p) PROVE Inv'
<1>1. PICK j, u, n, read, retired, end :
        /\ j = p.job /\ u = jobs[j].run /\ n = jobs[j].cursor
        /\ read = Listing(n)
        /\ retired = IF HasMore(n) THEN {} ELSE RetiredObservations(u, read)
        /\ end = Len(log) + 1
  OBVIOUS
<1>2. /\ log' = Append(log, [job |-> j, seen |-> read, retired |-> retired])
      /\ mapped' = mapped \cup (read \cap Matching)
      /\ conflict' = [r \in Record |->
            IF r \in retired THEN "retired_remote"
            ELSE IF r \in read \ (mapped \cup Matching) THEN "unmatched"
            ELSE conflict[r]]
      /\ reviewed' = reviewed \ retired
      /\ nextSync' = IF HasMore(n) THEN nextSync ELSE p.began + Interval
      /\ firm' = IF EntriesOf(u) = {} THEN [firm EXCEPT ![u] = remote] ELSE firm
      /\ working' = working \ {p}
      /\ UNCHANGED <<remote, active, tasks, planned, leasing, clock, upsets>>
  BY <1>1 DEF ReadPage, Reviewable, Updated, beats, bounds
<1>3. /\ j \in Existing /\ Pending(j)
      /\ jobs' \in [Job -> JobRow \cup {None}]
      /\ Existing' = IF HasMore(n) THEN Existing \cup {Count + 1} ELSE Existing
      /\ RowsInOrder'
      /\ \A k \in Existing : SameIdentity(k) /\ (k # j => jobs'[k] = jobs[k])
      /\ jobs'[j].state = "succeeded"
      /\ HasMore(n) =>
           /\ Count + 1 \notin Existing
           /\ jobs'[Count + 1].run = u /\ jobs'[Count + 1].cursor = n + 1
           /\ jobs'[Count + 1].key = <<"continuation", j>>
           /\ jobs'[Count + 1].attempts = 0
  BY <1>1, ReadJobs
<1>4. /\ j \in Job /\ u \in Job /\ n \in Nat \ {0} /\ p.began \in 0..MaxClock
      /\ Cardinality(EntriesOf(u)) = n - 1
      /\ \A k \in Existing \ {j} : jobs[k].run = u => jobs[k].cursor < n
  BY <1>1, <1>3, JobFacts DEF Inv, TypeOK, PendingIsLast
<1>5. working' = {}
  BY <1>2 DEF Inv, WorkIsPending
<1>6. /\ end \in Nat /\ DOMAIN log = 1..(end - 1) /\ end \notin DOMAIN log
      /\ DOMAIN log' = DOMAIN log \cup {end}
      /\ \A i \in DOMAIN log : log'[i] = log[i]
      /\ log'[end] = [job |-> j, seen |-> read, retired |-> retired]
      /\ \A i \in DOMAIN log : /\ RunOf(log[i])' = RunOf(log[i])
                               /\ CursorOf(log[i])' = CursorOf(log[i])
      /\ jobs'[log'[end].job].run = u
      /\ \A w : w # u => EntriesOf(w)' = EntriesOf(w) /\ SeenBy(w)' = SeenBy(w)
      /\ EntriesOf(u)' = EntriesOf(u) \cup {end}
      /\ SeenBy(u)' = SeenBy(u) \cup (read \cup retired)
  <2>1. TypeOK /\ LogIsRead
    BY DEF Inv
  <2>2. j \in Existing /\ u = jobs[j].run /\ end = Len(log) + 1
    BY <1>1, <1>3
  <2>3. log' = Append(log, [job |-> j, seen |-> read, retired |-> retired])
    BY <1>2
  <2>4. \A k \in Existing : SameIdentity(k)
    BY <1>3
  <2>5. /\ end \in Nat /\ DOMAIN log = 1..(end - 1) /\ end \notin DOMAIN log
        /\ DOMAIN log' = DOMAIN log \cup {end}
    BY <2>1, <2>2, <2>3, <2>4, LogGrows
  <2>6. /\ \A i \in DOMAIN log : log'[i] = log[i]
        /\ log'[end] = [job |-> j, seen |-> read, retired |-> retired]
        /\ jobs'[log'[end].job].run = u
    BY <2>1, <2>2, <2>3, <2>4, LogGrows
  <2>7. \A i \in DOMAIN log : /\ RunOf(log[i])' = RunOf(log[i])
                              /\ CursorOf(log[i])' = CursorOf(log[i])
    BY <2>1, <2>2, <2>3, <2>4, LogGrows
  <2>8. \A w : w # u => EntriesOf(w)' = EntriesOf(w) /\ SeenBy(w)' = SeenBy(w)
    BY <2>1, <2>2, <2>3, <2>4, LogGrows
  <2>9. /\ EntriesOf(u)' = EntriesOf(u) \cup {end}
        /\ SeenBy(u)' = SeenBy(u) \cup (read \cup retired)
    BY <2>1, <2>2, <2>3, <2>4, LogGrows
  <2>10. QED BY <2>5, <2>6, <2>7, <2>8, <2>9
<1>7. read \subseteq Record /\ read \subseteq remote /\ retired \subseteq Record
      /\ retired \cap read = {} /\ retired \cap SeenBy(u) = {}
      /\ (HasMore(n) => retired = {})
  <2>1. read \subseteq remote /\ remote \subseteq Record
    BY <1>1 DEF Listing, Inv, TypeOK
  <2>2. \A r \in retired : r \in Record /\ r \notin read /\ r \notin SeenBy(u)
    BY <1>1 DEF RetiredObservations
  <2>3. QED BY <1>1, <2>1, <2>2
<1>8. \A w \in Job : firm'[w] = IF w = u /\ EntriesOf(u) = {} THEN remote ELSE firm[w]
  BY <1>2, <1>4 DEF Inv, TypeOK
<1>9. /\ end \notin EntriesOf(u)
      /\ Cardinality(EntriesOf(u) \cup {end}) = n
      /\ IsFiniteSet(EntriesOf(u))
  <2>1. IsFiniteSet(EntriesOf(u)) /\ end \notin EntriesOf(u)
    BY <1>6, EntryFacts DEF Inv
  <2>2. Cardinality(EntriesOf(u) \cup {end}) = Cardinality(EntriesOf(u)) + 1
    BY <2>1, FS_AddElement
  <2>3. QED BY <1>4, <2>1, <2>2
<1>10. TypeOK'
  <2>1. log' \in Seq(Observations)
    <3>1. [job |-> j, seen |-> read, retired |-> retired] \in Observations
      BY <1>4, <1>7 DEF Observations
    <3>2. log \in Seq(Observations)
      BY DEF Inv, TypeOK
    <3>3. QED BY <1>2, <3>1, <3>2
  <2>2. mapped' \subseteq Record /\ reviewed' \subseteq Record
    BY <1>2, <1>7 DEF Inv, TypeOK
  <2>3. conflict' \in [Record -> {"none", "unmatched", "retired_remote"}]
    BY <1>2 DEF Inv, TypeOK
  <2>4. nextSync' \in 0..(MaxClock + Interval)
    <3>1. nextSync \in 0..(MaxClock + Interval)
      BY DEF Inv, TypeOK
    <3>2. p.began + Interval \in 0..(MaxClock + Interval)
      BY <1>4, ConstantTypes
    <3>3. QED BY <1>2, <3>1, <3>2
  <2>5. firm' \in [Job -> SUBSET Record]
    <3>1. firm \in [Job -> SUBSET Record] /\ remote \in SUBSET Record
      BY DEF Inv, TypeOK
    <3>2. QED BY <1>2, <3>1
  <2>6. QED BY <1>2, <1>3, <1>5, <2>1, <2>2, <2>3, <2>4, <2>5 DEF Inv, TypeOK
<1>11. \A k \in Existing' : k \in Existing \/ (HasMore(n) /\ k = Count + 1)
  BY <1>3
<1>12. Existing \subseteq Existing' /\ ~Pending(j)'
  BY <1>3 DEF Pending
<1>13. \A k \in Existing : k # j => Pending(k)' = Pending(k)
  BY <1>3 DEF Pending
<1>14. ContinuedAfterEnd'
  <2>1. ASSUME NEW k \in Existing, NEW m \in Job, jobs'[k].key = <<"continuation", m>>
        PROVE  m \in Existing' /\ ~Pending(m)'
    <3>1. m \in Existing /\ ~Pending(m)
      BY <1>3, <2>1 DEF SameIdentity, Inv, ContinuedAfterEnd
    <3>2. QED BY <1>3, <1>12, <1>13, <3>1
  <2>2. ASSUME NEW k, HasMore(n), k = Count + 1, NEW m \in Job,
               jobs'[k].key = <<"continuation", m>>
        PROVE  m \in Existing' /\ ~Pending(m)'
    <3>1. m = j
      BY <1>3, <2>2
    <3>2. QED BY <1>3, <1>12, <3>1
  <2>3. QED BY <1>11, <2>1, <2>2 DEF ContinuedAfterEnd
<1>15. \A i \in DOMAIN log : log[i].job \in Existing \ {j}
                             /\ jobs[log[i].job].state = "succeeded"
  BY <1>3 DEF Inv, LogIsRead, Pending
<1>16. LogIsRead'
  <2>1. \A i \in DOMAIN log : /\ log'[i].job \in Existing'
                              /\ jobs'[log'[i].job].state = "succeeded"
    BY <1>3, <1>6, <1>12, <1>15
  <2>2. log'[end].job \in Existing' /\ jobs'[log'[end].job].state = "succeeded"
    BY <1>3, <1>6, <1>12
  <2>3. QED BY <1>6, <2>1, <2>2 DEF LogIsRead
<1>17. PendingIsLast'
  <2> SUFFICES ASSUME NEW k \in Existing', Pending(k)'
               PROVE  /\ jobs'[k].attempts < MaxAttempts
                      /\ \A m \in Existing' \ {k} :
                           jobs'[m].run = jobs'[k].run => jobs'[m].cursor < jobs'[k].cursor
                      /\ Cardinality(EntriesOf(jobs[k].run)') = jobs'[k].cursor - 1
    BY DEF PendingIsLast
  <2>1. k # j
    BY <1>12
  <2>2. PICK w : w = jobs'[k].run
    OBVIOUS
  <2>3. EntriesOf(jobs[k].run)' = {i \in DOMAIN log' : jobs'[log'[i].job].run = w}
    BY <2>2 DEF EntriesOf, RunOf
  <2>4. EntriesOf(w)' = {i \in DOMAIN log' : jobs'[log'[i].job].run = w}
    BY DEF EntriesOf, RunOf
  <2>5. CASE k \in Existing
    <3>1. Pending(k) /\ jobs'[k] = jobs[k] /\ w = jobs[k].run
      BY <1>3, <1>13, <2>1, <2>2, <2>5
    <3>2. w # u
      <4>1. ASSUME w = u PROVE FALSE
        <5>1. jobs[k].cursor < n /\ n < jobs[k].cursor
          BY <1>1, <1>3, <1>4, <2>1, <2>5, <3>1, <4>1 DEF Inv, PendingIsLast
        <5>2. jobs[k].cursor \in Nat
          BY <2>5, JobFacts DEF Inv
        <5>3. QED BY <1>4, <5>1, <5>2
      <4>2. QED BY <4>1
    <3>3. EntriesOf(jobs[k].run)' = EntriesOf(w)
      BY <1>6, <2>3, <2>4, <3>2
    <3>4. \A m \in Existing \ {k} :
            jobs'[m].run = jobs'[k].run => jobs'[m].cursor < jobs'[k].cursor
      BY <1>3, <2>5, <3>1 DEF SameIdentity, Inv, PendingIsLast
    <3>5. \A m \in Existing' \ {k} :
            jobs'[m].run = jobs'[k].run => jobs'[m].cursor < jobs'[k].cursor
      BY <1>3, <1>11, <2>2, <3>2, <3>4
    <3>6. Cardinality(EntriesOf(w)) = jobs[k].cursor - 1 /\ jobs[k].attempts < MaxAttempts
      BY <2>5, <3>1 DEF Inv, PendingIsLast
    <3>7. QED BY <3>1, <3>3, <3>5, <3>6
  <2>6. CASE k \notin Existing
    <3>1. HasMore(n) /\ k = Count + 1
      BY <1>11, <2>6
    <3>2. jobs'[k].run = u /\ jobs'[k].cursor = n + 1 /\ jobs'[k].attempts = 0 /\ w = u
      BY <1>3, <2>2, <3>1
    <3>3. \A m \in Existing' \ {k} : m \in Existing
      BY <1>11, <3>1
    <3>4. ASSUME NEW m \in Existing, jobs'[m].run = u PROVE jobs'[m].cursor < n + 1
      <4>1. jobs'[m].cursor = jobs[m].cursor /\ jobs[m].run = u
        BY <1>3, <3>4 DEF SameIdentity
      <4>2. m = j \/ jobs[m].cursor < n
        BY <1>4, <4>1
      <4>3. jobs[m].cursor \in Nat
        BY JobFacts DEF Inv
      <4>4. QED BY <1>1, <1>4, <4>1, <4>2, <4>3
    <3>5. EntriesOf(jobs[k].run)' = EntriesOf(u) \cup {end}
      BY <1>6, <2>3, <2>4, <3>2
    <3>6. Cardinality(EntriesOf(jobs[k].run)') = (n + 1) - 1
      BY <1>4, <1>9, <3>5
    <3>7. 0 < MaxAttempts
      BY ConstantTypes
    <3>8. QED BY <3>2, <3>3, <3>4, <3>6, <3>7
  <2>7. QED BY <2>5, <2>6
<1>18. WorkIsPending'
  BY <1>2, <1>5, <1>12 DEF Inv, WorkIsPending
<1>19. RecordedInOrder'
  <2>1. ASSUME NEW i \in DOMAIN log
        PROVE  /\ \A k \in 1..(i - 1) : k \in DOMAIN log
               /\ Cardinality({k \in 1..(i - 1) : RunOf(log[k])' = RunOf(log[i])'})
                    = CursorOf(log[i])' - 1
               /\ \A k \in 1..(i - 1) : RunOf(log[k])' = RunOf(log[i])'
                    => CursorOf(log[k])' < CursorOf(log[i])'
    <3>1. \A k \in 1..(i - 1) : k \in DOMAIN log
      BY <1>6
    <3>2. {k \in 1..(i - 1) : RunOf(log[k])' = RunOf(log[i])'} = EarlierOf(i)
      BY <1>6, <3>1 DEF EarlierOf
    <3>3. QED BY <1>6, <3>1, <3>2 DEF Inv, RecordedInOrder, EarlierOf
  <2>2. \A k \in DOMAIN log : RunOf(log[k]) = u => CursorOf(log[k]) < n
    <3>1. \A k \in DOMAIN log : RunOf(log[k]) = jobs[log[k].job].run
                                /\ CursorOf(log[k]) = jobs[log[k].job].cursor
      BY DEF RunOf, CursorOf
    <3>2. QED BY <1>4, <1>15, <3>1
  <2>3. ASSUME NEW i, i = end
        PROVE  /\ Cardinality({k \in 1..(i - 1) : RunOf(log[k])' = RunOf(log[i])'})
                    = CursorOf(log[i])' - 1
               /\ \A k \in 1..(i - 1) : RunOf(log[k])' = RunOf(log[i])'
                    => CursorOf(log[k])' < CursorOf(log[i])'
    <3>1. RunOf(log[i])' = u /\ CursorOf(log[i])' = n
      <4>1. jobs'[j].cursor = n
        BY <1>1, <1>3 DEF SameIdentity
      <4>2. QED BY <1>6, <2>3, <4>1 DEF RunOf, CursorOf
    <3>2. {k \in 1..(i - 1) : RunOf(log[k])' = RunOf(log[i])'} = EntriesOf(u)
      BY <1>6, <2>3, <3>1 DEF EntriesOf
    <3>3. Cardinality({k \in 1..(i - 1) : RunOf(log[k])' = RunOf(log[i])'})
            = CursorOf(log[i])' - 1
      BY <1>4, <3>1, <3>2
    <3>4. ASSUME NEW k \in 1..(i - 1), RunOf(log[k])' = RunOf(log[i])'
          PROVE  CursorOf(log[k])' < CursorOf(log[i])'
      <4>1. k \in DOMAIN log
        BY <1>6, <2>3
      <4>2. RunOf(log[k]) = u
        BY <1>6, <3>1, <3>4, <4>1
      <4>3. QED BY <1>6, <2>2, <3>1, <4>1, <4>2
    <3>5. QED BY <3>3, <3>4
  <2>4. QED BY <1>6, <2>1, <2>3 DEF RecordedInOrder, EarlierOf
<1>20. FirmIsAhead'
  <2>1. ASSUME NEW w \in Job, EntriesOf(w)' # {}
        PROVE  /\ firm'[w] \subseteq remote'
               /\ \A r \in firm'[w] :
                    \/ r \in SeenBy(w)'
                    \/ Position(r)' > Cardinality(EntriesOf(w)') * PageSize
    <3>1. \A r : Position(r)' = Position(r)
      BY <1>2 DEF Position
    <3>2. CASE w # u
      <4>1. EntriesOf(w)' = EntriesOf(w) /\ SeenBy(w)' = SeenBy(w) /\ firm'[w] = firm[w]
        BY <1>6, <1>8, <3>2
      <4>2. EntriesOf(w) # {}
        BY <2>1, <4>1
      <4>3. QED BY <1>2, <3>1, <4>1, <4>2 DEF Inv, FirmIsAhead
    <3>3. CASE w = u
      <4>1. Cardinality(EntriesOf(w)') = n
        BY <1>6, <1>9, <3>3
      <4>2. ASSUME NEW r \in firm'[w]
            PROVE  /\ r \in remote
                   /\ r \in SeenBy(u) \cup read \/ Position(r) > n * PageSize
        BY <1>1, <3>3, FirmAreRead
      <4>3. SeenBy(w)' = SeenBy(u) \cup (read \cup retired)
        BY <1>6, <3>3
      <4>4. QED BY <1>2, <3>1, <4>1, <4>2, <4>3
    <3>4. QED BY <3>2, <3>3
  <2>2. QED BY <2>1 DEF FirmIsAhead
<1>21. RetirementsAreSound'
  <2>1. ASSUME NEW i \in DOMAIN log
        PROVE  log'[i].retired \cap firm'[jobs'[log'[i].job].run] = {}
    <3>1. PICK w : w = RunOf(log[i])
      OBVIOUS
    <3>2. w \in Job /\ jobs'[log'[i].job].run = w
      BY <1>6, <1>15, <3>1, JobFacts DEF Inv, RunOf
    <3>3. i \in EntriesOf(w)
      BY <3>1 DEF EntriesOf
    <3>4. firm'[w] = firm[w]
      BY <1>8, <3>2, <3>3
    <3>5. QED BY <1>6, <3>1, <3>2, <3>4 DEF Inv, RetirementsAreSound
  <2>2. ASSUME NEW r \in retired, r \in firm'[u] PROVE FALSE
    <3>1. r \in remote /\ r \notin read /\ r \notin SeenBy(u) /\ ~HasMore(n)
      BY <1>1, <1>7, <2>2, FirmAreRead
    <3>2. Position(r) > n * PageSize
      BY <1>1, <2>2, <3>1, FirmAreRead
    <3>3. QED BY <1>4, <3>1, <3>2, RecordBehindPage DEF Inv
  <2>3. log'[end].retired \cap firm'[jobs'[log'[end].job].run] = {}
    BY <1>6, <2>2
  <2>4. QED BY <1>6, <2>1, <2>3 DEF RetirementsAreSound, RunOf
<1>22. RetirementsAreReviewed'
  <2> SUFFICES ASSUME NEW r \in Record, r \notin reviewed', NEW entries,
                      entries = {i \in DOMAIN log' : r \in log'[i].seen \cup log'[i].retired},
                      entries # {}, r \in log'[Max(entries)].retired
               PROVE  conflict'[r] = "retired_remote"
    BY DEF RetirementsAreReviewed
  <2>1. CASE r \in retired
    BY <1>2, <2>1
  <2>2. CASE r \in read
    <3>1. end \in entries
      BY <1>6, <2>2
    <3>2. entries \in SUBSET Nat /\ \A k \in entries : k <= end
      BY <1>6
    <3>3. Max(entries) = end
      BY <3>1, <3>2, LastIsMax
    <3>4. r \notin log'[end].retired
      BY <1>6, <1>7, <2>2
    <3>5. QED BY <3>3, <3>4
  <2>3. CASE r \notin retired /\ r \notin read
    <3>1. entries = {i \in DOMAIN log : r \in log[i].seen \cup log[i].retired}
      BY <1>6, <2>3
    <3>2. r \in Record \ reviewed /\ conflict'[r] = conflict[r]
      BY <1>2, <2>3
    <3>3. Max(entries) \in DOMAIN log
      <4>1. entries \in SUBSET Nat /\ IsFiniteSet(entries)
        <5>1. 1 \in Int /\ end - 1 \in Int
          BY <1>6
        <5>2. IsFiniteSet(1..(end - 1))
          BY <5>1, FS_Interval
        <5>3. entries \in SUBSET (1..(end - 1))
          BY <1>6, <3>1
        <5>4. entries \in SUBSET Nat
          BY <5>3
        <5>5. IsFiniteSet(entries)
          BY <5>2, <5>3, FS_Subset
        <5>6. QED BY <5>4, <5>5
      <4>2. QED BY <3>1, <4>1, FiniteHasMax
    <3>4. r \in log[Max(entries)].retired
      BY <1>6, <3>3
    <3>5. QED BY <3>1, <3>2, <3>4 DEF Inv, RetirementsAreReviewed
  <2>4. QED BY <2>1, <2>2, <2>3
<1>23. QED
  BY <1>3, <1>10, <1>14, <1>16, <1>17, <1>18, <1>19, <1>20, <1>21, <1>22 DEF Inv

-----------------------------------------------------------------------------
(* The theorems. *)

LEMMA NextKeepsInv == Inv /\ [Next]_vars => Inv'
<1> SUFFICES ASSUME Inv, [Next]_vars PROVE Inv'
  OBVIOUS
<1>1. CASE Plan
  BY <1>1, PlanKeepsInv
<1>2. CASE EnqueuePlanned
  BY <1>2, EnqueuePlannedKeepsInv
<1>3. ASSUME NEW k \in ManualKey, RequestSync(k) PROVE Inv'
  BY <1>3, RequestSyncKeepsInv
<1>4. CASE ListDue
  BY <1>4, ListDueKeepsInv
<1>5. CASE Dispatch
  BY <1>5, DispatchKeepsInv
<1>6. CASE DispatchDies
  BY <1>6, DispatchDiesKeepsInv
<1>7. ASSUME NEW p \in working, ReadPage(p) PROVE Inv'
  BY <1>7, ReadPageKeepsInv
<1>8. ASSUME NEW p \in working, Fail(p) PROVE Inv'
  BY <1>8, FailKeepsInv
<1>9. ASSUME NEW p \in working, WorkerDies(p) PROVE Inv'
  BY <1>9, WorkerDiesKeepsInv
<1>10. ASSUME NEW j \in Job, Start(j) PROVE Inv'
  BY <1>10, StartKeepsInv
<1>11. ASSUME NEW j \in Job, CancelSyncJob(j) PROVE Inv'
  BY <1>11, CancelKeepsInv
<1>12. CASE UpdateConnection
  BY <1>12, UpdateConnectionKeepsInv
<1>13. ASSUME NEW r \in Record, ResolveConflict(r) PROVE Inv'
  BY <1>13, ResolveConflictKeepsInv
<1>14. ASSUME NEW r \in Record, Appear(r) PROVE Inv'
  BY <1>14, AppearKeepsInv
<1>15. ASSUME NEW r \in Record, Vanish(r) PROVE Inv'
  BY <1>15, VanishKeepsInv
<1>16. CASE Tick
  BY <1>16, TickKeepsInv
<1>17. CASE UNCHANGED vars
  <2>1. UNCHANGED <<remote, jobs, log, conflict, mapped, active, nextSync, tasks,
                    planned, leasing, working, firm, reviewed, clock, upsets>>
    BY <1>17 DEF vars
  <2>2. TypeOK'
    BY <2>1 DEF Inv, TypeOK
  <2>3. Existing' = Existing /\ \A j : Pending(j)' = Pending(j)
    BY <2>1 DEF Existing, Pending
  <2>4. WorkIsPending'
    BY <2>1, <2>3 DEF Inv, WorkIsPending
  <2>5. QED BY <2>1, <2>2, <2>4, UnchangedJobs, QuietStep
<1>18. QED
  BY <1>1, <1>2, <1>3, <1>4, <1>5, <1>6, <1>7, <1>8, <1>9, <1>10, <1>11, <1>12,
     <1>13, <1>14, <1>15, <1>16, <1>17 DEF Next

LEMMA InvIsInvariant == Spec => []Inv
<1>1. Inv /\ [Next]_vars => Inv'
  BY NextKeepsInv
<1>2. QED BY <1>1, InitInv, PTL DEF Spec

\* Every job, observation, conflict, lease and clock keeps its type: a run that
\* starts finds room for all the pages it may have, whatever is enqueued,
\* cancelled or continued meanwhile, and attempts never exceed MAX_JOB_ATTEMPTS.
THEOREM TypesAreKept == Spec => []TypeOK
<1>1. Inv => TypeOK
  BY DEF Inv
<1>2. QED BY <1>1, InvIsInvariant, PTL

\* Whatever is queued twice, dies, is tried again or cancelled (process_sync_job
\* and its tasks): a run records its pages in their order and each of them once,
\* and at most one of its jobs is to be done.
THEOREM PagesAreReadInOrder == Spec => []RunsReadInOrder
<1>1. Inv => RunsReadInOrder
  BY OrderIsUnique DEF Inv
<1>2. QED BY <1>1, InvIsInvariant, PTL

\* However many runs of a connection overlap: _retired_observations retires no
\* record that the provider had all the while its run lasted, unless one before
\* it in the listing vanished meanwhile.
THEOREM RetirementsAreEarned == Spec => []RetirementsAreSound
<1>1. Inv => RetirementsAreSound
  BY DEF Inv
<1>2. QED BY <1>1, InvIsInvariant, PTL

\* A record whose last observation is its retirement has its conflict open, as
\* _halo_conflicts_for_observations left it, until a person resolves it.
THEOREM RetirementsAreShown == Spec => []RetirementsAreReviewed
<1>1. Inv => RetirementsAreReviewed
  BY DEF Inv
<1>2. QED BY <1>1, InvIsInvariant, PTL

===============================================================================
