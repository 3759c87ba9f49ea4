-------------------------------- MODULE SyncJobs --------------------------------
(***************************************************************************)
(* Synchronization of one HaloPSA connection (apps/core/integrations.py,   *)
(* integration_providers.py and the beat tasks of apps/core/tasks.py): the *)
(* scheduler and people enqueue jobs, the dispatcher leases due jobs and   *)
(* queues their tasks, and a task reads one page of a remote collection,   *)
(* which continues the run in a further job or ends it.  The last page     *)
(* retires the records the run did not find.                               *)
(*                                                                         *)
(* A task runs in one transaction (system_rls_scope) that locks its job    *)
(* and, by select_related, the connection: everybody else who locks or     *)
(* refers to the connection waits, and a dead worker leaves no trace.      *)
(***************************************************************************)
EXTENDS Integers, FiniteSets, Sequences, FiniteSetsExt

CONSTANTS
    Workers,      \* the number of Celery workers
    Record,       \* remote ids, which the provider lists in their order
    Matching,     \* records that match exactly one TekDocs entity
    PageSize,     \* HALO_PAGE_SIZE
    MaxAttempts,  \* MAX_JOB_ATTEMPTS
    Interval,     \* sync_interval_minutes, in slots
    LeaseTime,    \* INTEGRATION_DISPATCH_LEASE, in slots
    MaxDelay,     \* the longest delay of a retry, in slots
    ManualKey,    \* Idempotency-Key headers of manual requests
    None,
    MaxRuns,      \* bound: runs that start
    MaxClock,     \* bound: the clock stops there and everything is due
    MaxTasks,     \* bound: tasks of one job queued at a time
    MaxUpsets     \* bound: deaths, records that appear or vanish, changes of the
                  \* connection, cancelled jobs and resolved conflicts, together

ASSUME RecordAssumption ==
    /\ Record \subseteq Nat \ {0} /\ Record # {} /\ IsFiniteSet(Record)
    /\ Matching \subseteq Record
ASSUME LimitAssumption ==
    /\ \A n \in {Workers, PageSize, MaxAttempts, Interval, LeaseTime, MaxDelay, MaxRuns,
                 MaxTasks} : n \in Nat \ {0}
    /\ \A n \in {MaxClock, MaxUpsets} : n \in Nat

VARIABLES
    remote,    \* the records the provider has
    jobs,      \* the committed IntegrationSyncJob rows
    log,       \* the observations, by job, in the order of observed_at
    conflict,  \* the open conflict of each record
    mapped,    \* records with an IntegrationEntityMapping
    active,    \* IntegrationConnection.active
    nextSync,  \* IntegrationConnection.next_sync_at
    tasks,     \* queued tasks of each job
    planned,   \* the key of a scheduled job that is not inserted yet
    leasing,   \* the jobs a dispatcher has listed and when
    working,   \* the jobs whose page is being read, and since when
    firm,      \* records that no page of the run may have missed
    reviewed,  \* records whose last retirement a person has resolved
    clock, upsets

rows   == <<jobs, log, conflict, mapped, active, nextSync>>
beats  == <<tasks, planned, leasing>>
ghosts == <<firm, reviewed>>
bounds == <<clock, upsets>>
vars == <<remote, jobs, log, conflict, mapped, active, nextSync, tasks, planned,
          leasing, working, firm, reviewed, clock, upsets>>

\* Every page but the last of a run is full, so this is room for all of them.
Job == 1..(MaxRuns * Cardinality(Record))
Key == ({"scheduled"} \X (0..MaxClock)) \cup ({"manual"} \X ManualKey)
         \cup ({"continuation"} \X Job)

\* "processing" is never durable, so no lease on a job (JOB_LEASE) ever applies.
JobRow ==
    [state : {"pending", "succeeded", "dead_letter", "cancelled"}, run : Job,
     cursor : Nat \ {0}, key : Key, attempts : 0..MaxAttempts,
     available : 0..MaxClock]

ASSUME NoneAssumption == None \notin Job /\ None \notin JobRow /\ None \notin Key

Observations == [job : Job, seen : SUBSET Record, retired : SUBSET Record]

TypeOK ==
    /\ remote \subseteq Record /\ mapped \subseteq Record /\ reviewed \subseteq Record
    /\ jobs \in [Job -> JobRow \cup {None}]
    /\ log \in Seq(Observations)
    /\ conflict \in [Record -> {"none", "unmatched", "retired_remote"}]
    /\ active \in BOOLEAN /\ nextSync \in 0..(MaxClock + Interval)
    /\ tasks \in [Job -> 0..MaxTasks]
    /\ planned \in Key \cup {None}
    /\ leasing \in [jobs : SUBSET Job, at : 0..MaxClock]
    /\ working \subseteq [job : Job, began : 0..MaxClock]
    /\ firm \in [Job -> SUBSET Record]
    /\ clock \in 0..MaxClock /\ upsets \in 0..MaxUpsets

NotLeasing == [jobs |-> {}, at |-> 0]

Init ==
    /\ remote = Record
    /\ jobs = [j \in Job |-> None]
    /\ log = <<>>
    /\ conflict = [r \in Record |-> "none"]
    /\ mapped = {}
    /\ active = TRUE /\ nextSync = 0
    /\ tasks = [j \in Job |-> 0]
    /\ planned = None /\ leasing = NotLeasing
    /\ working = {}
    /\ firm = [j \in Job |-> {}]
    /\ reviewed = {}
    /\ clock = 0 /\ upsets = 0

-----------------------------------------------------------------------------
(* Helpers. *)

Lesser(a, b) == IF a <= b THEN a ELSE b

Existing == {j \in Job : jobs[j] # None}
Pending(j) == jobs[j] # None /\ jobs[j].state = "pending"
RunOf(entry) == jobs[entry.job].run
Started == Cardinality({j \in Existing : jobs[j].run = j})

Upset == upsets < MaxUpsets /\ upsets' = upsets + 1

\* No task holds the connection's row, nor that of a job with it.
Unlocked == working = {}

\* The job with this key, made if there is none; None starts a run of its own.
Enqueued(table, key, run, cursor) ==
    LET fresh == Cardinality({j \in Job : table[j] # None}) + 1
    IN  IF \E j \in Job : table[j] # None /\ table[j].key = key THEN table
        ELSE [table EXCEPT ![fresh] =
                [state |-> "pending", run |-> IF run = None THEN fresh ELSE run,
                 cursor |-> cursor, key |-> key, attempts |-> 0,
                 available |-> clock]]

\* The provider's listing: page n has the n-th PageSize records.
Position(r) == Cardinality({q \in remote : q <= r})
Listing(n) == {r \in remote : Position(r) > (n - 1) * PageSize
                              /\ Position(r) <= n * PageSize}
HasMore(n) ==
    Cardinality(Listing(n)) = PageSize /\ n * PageSize < Cardinality(remote)

\* What a run has recorded until now.
EntriesOf(run) == {i \in DOMAIN log : RunOf(log[i]) = run}
SeenBy(run) == UNION {log[i].seen \cup log[i].retired : i \in EntriesOf(run)}

\* The last observation another run made of a record says that it exists.
LastSeenByOthers(run, r) ==
    LET entries == {i \in DOMAIN log \ EntriesOf(run) :
                      r \in log[i].seen \cup log[i].retired}
    IN  entries # {} /\ r \in log[Max(entries)].seen

\* _retired_observations, for the run's last page.
RetiredObservations(run, read) ==
    {r \in Record \ (SeenBy(run) \cup read) : LastSeenByOthers(run, r)}

-----------------------------------------------------------------------------
(* Enqueuing. *)

\* schedule_due_connections reads what is due; the row it inserts refers to the
\* connection and becomes durable only when no task holds that.
Plan ==
    /\ planned = None /\ Started < MaxRuns
    /\ active /\ nextSync <= clock
    /\ planned' = <<"scheduled", clock \div Interval>>
    /\ UNCHANGED <<remote, rows, tasks, leasing, working, ghosts, bounds>>

EnqueuePlanned ==
    /\ planned # None /\ Started < MaxRuns
    /\ Unlocked
    /\ jobs' = Enqueued(jobs, planned, None, 1)
    /\ planned' = None
    /\ UNCHANGED <<remote, log, conflict, mapped, active, nextSync, tasks, leasing,
                   working, ghosts, bounds>>

\* The manual request of IntegrationJobListCreateView.
RequestSync(k) ==
    /\ active /\ Started < MaxRuns
    /\ Unlocked
    /\ jobs' = Enqueued(jobs, <<"manual", k>>, None, 1)
    /\ jobs' # jobs
    /\ UNCHANGED <<remote, log, conflict, mapped, active, nextSync, beats, working,
                   ghosts, bounds>>

-----------------------------------------------------------------------------
(* dispatch_integration_syncs. *)

Due == {j \in Job : Pending(j) /\ jobs[j].available <= clock}

ListDue ==
    /\ leasing = NotLeasing /\ Due # {}
    /\ leasing' = [jobs |-> Due, at |-> clock]
    /\ UNCHANGED <<remote, rows, tasks, planned, working, ghosts, bounds>>

Leased(at) == Lesser(at + LeaseTime, MaxClock)

Queued(sent) ==
    [j \in Job |-> IF j \in sent THEN Lesser(tasks[j] + 1, MaxTasks) ELSE tasks[j]]

\* The update waits for the listed rows and takes them as they are by then, and
\* a task that starts before the commit waits for it: this is one step.
Dispatch ==
    /\ leasing # NotLeasing
    /\ \A p \in working : p.job \notin leasing.jobs
    /\ jobs' = [j \in Job |-> IF j \in leasing.jobs
                              THEN [jobs[j] EXCEPT !.available = Leased(leasing.at)]
                              ELSE jobs[j]]
    /\ tasks' = Queued(leasing.jobs)
    /\ leasing' = NotLeasing
    /\ UNCHANGED <<remote, log, conflict, mapped, active, nextSync, planned, working,
                   ghosts, bounds>>

\* The dispatcher dies: the lease is rolled back, tasks it has sent are not.
DispatchDies ==
    /\ leasing # NotLeasing
    /\ Upset
    /\ \E sent \in SUBSET leasing.jobs : tasks' = Queued(sent)
    /\ leasing' = NotLeasing
    /\ UNCHANGED <<remote, rows, planned, working, ghosts, clock>>

-----------------------------------------------------------------------------
(* process_sync_job. *)

\* Mutant: only a cancelled job is left alone.
Unfinished(j) == jobs[j].state # "cancelled"

\* Neither the lease nor the connection's state is looked at again.
Open(j) == jobs[j].state \notin {"succeeded", "dead_letter", "cancelled"}

\* The task of a job that has ended is only taken from the queue.
Start(j) ==
    /\ Cardinality(working) < Workers
    /\ tasks[j] > 0 /\ Unlocked
    /\ tasks' = [tasks EXCEPT ![j] = @ - 1]
    /\ working' = IF Open(j) THEN working \cup {[job |-> j, began |-> clock]} ELSE working
    /\ UNCHANGED <<remote, rows, planned, leasing, ghosts, bounds>>

\* Mutant: get_or_create for update_or_create.
Undisturbed(r, found) == IF conflict[r] # "none" THEN conflict[r] ELSE found

Updated(r, found) == found

\* _halo_conflicts_for_observations: a unique match becomes a mapping, and a
\* conflict that is open already shows what was found last.
Reviewable(read, retired) ==
    /\ mapped' = mapped \cup (read \cap Matching)
    /\ conflict' = [r \in Record |->
          IF r \in retired THEN Updated(r, "retired_remote")
          ELSE IF r \in read \ (mapped \cup Matching) THEN Updated(r, "unmatched")
          ELSE conflict[r]]
    /\ reviewed' = reviewed \ retired

\* Mutant: the continuation is enqueued without sync_run_id.
OtherRun(j) == None

SameRun(j) == jobs[j].run

Succeeded(j) ==
    [jobs EXCEPT ![j].state = "succeeded", ![j].attempts = @ + 1]

\* The provider answers and its page is recorded, which nobody sees in between:
\* with a next cursor the run goes on in another job, else what it has not found
\* is retired and the connection is due an interval later.
ReadPage(p) ==
    /\ p \in working
    /\ LET j == p.job
           run == jobs[j].run
           n == jobs[j].cursor
           read == Listing(n)
           retired == IF HasMore(n) THEN {} ELSE RetiredObservations(run, read)
       IN  /\ log' = Append(log, [job |-> j, seen |-> read, retired |-> retired])
           /\ Reviewable(read, retired)
           /\ jobs' = IF HasMore(n)
                      THEN Enqueued(Succeeded(j), <<"continuation", j>>, SameRun(j), n + 1)
                      ELSE Succeeded(j)
           /\ nextSync' = IF HasMore(n) THEN nextSync ELSE p.began + Interval
           /\ firm' = IF EntriesOf(run) = {} THEN [firm EXCEPT ![run] = remote] ELSE firm
    /\ working' = working \ {p}
    /\ UNCHANGED <<remote, active, beats, bounds>>

\* Mutant: one attempt too many.
OneMore(attempts) == attempts > MaxAttempts

Exhausted(attempts) == attempts >= MaxAttempts

\* The fetch or the recording of its page fails: the attempt counts, and the job
\* is due again after min(2**attempts, 60) minutes or the provider's retry_at.
Fail(p) ==
    /\ p \in working
    /\ LET j == p.job
           attempts == jobs[j].attempts + 1
       IN  \E delay \in 1..MaxDelay :
             jobs' = [jobs EXCEPT
                        ![j].state = IF Exhausted(attempts) THEN "dead_letter" ELSE "pending",
                        ![j].attempts = attempts,
                        ![j].available = Lesser(p.began + delay, MaxClock)]
    /\ working' = working \ {p}
    /\ UNCHANGED <<remote, log, conflict, mapped, active, nextSync, beats, ghosts, bounds>>

\* The worker dies and its task with it; PostgreSQL rolls the attempt back.
WorkerDies(p) ==
    /\ p \in working
    /\ Upset
    /\ working' = working \ {p}
    /\ UNCHANGED <<remote, rows, beats, ghosts, clock>>

-----------------------------------------------------------------------------
(* People, the provider and time. *)

\* cancel_sync_job; a job whose page is being read is cancelled after that.
CancelSyncJob(j) ==
    /\ Pending(j) /\ Unlocked
    /\ Upset
    /\ jobs' = [jobs EXCEPT ![j].state = "cancelled"]
    /\ UNCHANGED <<remote, log, conflict, mapped, active, nextSync, beats, working, ghosts,
                   clock>>

\* update_connection: paused, resumed, or sent to another address.
UpdateConnection ==
    /\ Unlocked
    /\ Upset
    /\ \/ active' = ~active /\ UNCHANGED nextSync
       \/ nextSync' = clock /\ UNCHANGED active
    /\ UNCHANGED <<remote, jobs, log, conflict, mapped, beats, working, ghosts,
                   clock>>

\* resolve_conflict, whichever way: a mapping that is accepted exists already.
ResolveConflict(r) ==
    /\ conflict[r] # "none"
    /\ Upset
    /\ conflict' = [conflict EXCEPT ![r] = "none"]
    /\ reviewed' = IF conflict[r] = "retired_remote" THEN reviewed \cup {r} ELSE reviewed
    /\ UNCHANGED <<remote, jobs, log, mapped, active, nextSync, beats, working, firm, clock>>

Appear(r) ==
    /\ r \notin remote
    /\ Upset
    /\ remote' = remote \cup {r}
    /\ UNCHANGED <<rows, beats, working, ghosts, clock>>

\* Those behind it move up, perhaps to a page that a run has read already.
Vanish(r) ==
    /\ r \in remote
    /\ Upset
    /\ remote' = remote \ {r}
    /\ firm' = [j \in Job |-> {q \in firm[j] : q < r}]
    /\ UNCHANGED <<rows, beats, working, reviewed, clock>>

Tick ==
    /\ clock < MaxClock /\ clock' = clock + 1
    /\ UNCHANGED <<remote, rows, beats, working, ghosts, upsets>>

Next ==
    \/ Plan \/ EnqueuePlanned \/ \E k \in ManualKey : RequestSync(k)
    \/ ListDue \/ Dispatch \/ DispatchDies
    \/ \E p \in working : ReadPage(p) \/ Fail(p) \/ WorkerDies(p)
    \/ \E j \in Job : Start(j) \/ CancelSyncJob(j)
    \/ UpdateConnection
    \/ \E r \in Record : ResolveConflict(r) \/ Appear(r) \/ Vanish(r)
    \/ Tick

Spec == Init /\ [][Next]_vars

-----------------------------------------------------------------------------
(* Correctness. *)

\* The log entries of a run before the i-th.
EarlierOf(i) == {k \in 1..(i - 1) : RunOf(log[k]) = RunOf(log[i])}
CursorOf(entry) == jobs[entry.job].cursor

\* Whatever is queued twice, dies or is tried again: a run records its pages in
\* their order and each of them once, and at most one of its jobs is to be done.
RunsReadInOrder ==
    /\ \A i \in DOMAIN log :
          /\ Cardinality(EarlierOf(i)) = CursorOf(log[i]) - 1
          /\ \A k \in EarlierOf(i) : CursorOf(log[k]) < CursorOf(log[i])
    /\ \A j, k \in Existing : Pending(j) /\ Pending(k) /\ jobs[j].run = jobs[k].run => j = k

\* However the runs of a connection overlap: no run retires a record that the
\* provider had all the while, unless one before it vanished, as the provider
\* counts its pages by position.
RetirementsAreSound ==
    \A i \in DOMAIN log : log[i].retired \cap firm[RunOf(log[i])] = {}

\* A record last observed as retired is in front of somebody: its conflict is
\* open and says so, unless a person has resolved it since.
RetirementsAreReviewed ==
    \A r \in Record \ reviewed :
        LET entries == {i \in DOMAIN log : r \in log[i].seen \cup log[i].retired}
        IN  entries # {} /\ r \in log[Max(entries)].retired
              => conflict[r] = "retired_remote"
=============================================================================
