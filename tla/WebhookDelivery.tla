---------------------------- MODULE WebhookDelivery ----------------------------
(***************************************************************************)
(* Outbound webhooks (backend/apps/core/webhooks.py) as the beat task      *)
(* dispatch_webhook_deliveries runs them (backend/apps/core/tasks.py).     *)
(*                                                                         *)
(* The dispatcher claims a delivery, calls the endpoint and records the    *)
(* outcome, each in a transaction.atomic of its own.  The task wraps the   *)
(* whole batch in system_rls_scope, so those are savepoints: no claim and  *)
(* no outcome is durable before the batch ends, the rows a claim has       *)
(* locked stay locked until then, and a worker that dies or is killed at   *)
(* CELERY_TASK_TIME_LIMIT undoes what it recorded but not what it sent.    *)
(***************************************************************************)
EXTENDS Naturals, Sequences, FiniteSets

CONSTANTS
    Worker,         \* Celery workers
    Endpoint,       \* outbound endpoints
    Unreadable,     \* endpoints whose signing key cannot be decrypted
    Organization,   \* their owners
    OwnerOf,        \* the organization of each endpoint
    Delivery,       \* the rows, numbered as ties between them are broken
    EndpointOf,     \* the endpoint of each row
    MaxAttempts,    \* MAX_WEBHOOK_ATTEMPTS
    AttemptsLimit,  \* the check constraint webhook_attempts_bounded
    MaxDelay,       \* the cap of _retry_delay, in its units
    BatchSize,      \* batch_size
    TimeLimit,      \* unanswered calls a batch survives: CELERY_TASK_TIME_LIMIT
    MaxClock,       \* bound: the clock stops there and everything is due
    MaxCrashes,     \* bound: workers that die at an arbitrary point
    MaxAdmin,       \* bound: actions of operators
    MaxAccepted     \* bound: the counters of accepted calls stop there

ASSUME EndpointAssumption ==
    /\ OwnerOf \in [Endpoint -> Organization]
    /\ EndpointOf \in [Delivery -> Endpoint]
    /\ Unreadable \subseteq Endpoint
ASSUME DeliveryAssumption ==
    /\ Delivery \subseteq Nat /\ IsFiniteSet(Delivery)
    /\ Delivery \cap (Endpoint \cup Organization) = {}
ASSUME LimitAssumption ==
    /\ MaxAttempts \in Nat \ {0} /\ AttemptsLimit \in Nat
    /\ MaxDelay \in Nat \ {0} /\ BatchSize \in Nat \ {0}
    /\ TimeLimit \in Nat \ {0} /\ MaxClock \in Nat
    /\ MaxCrashes \in Nat /\ MaxAdmin \in Nat /\ MaxAccepted \in Nat \ {0}

VARIABLES
    rows,       \* the committed delivery rows
    active,     \* WebhookEndpoint.active
    generation, \* WebhookEndpoint.secret_generation
    pc,         \* "idle", "claim", "send" or "record"
    queue,      \* due rows a worker has still to look at
    now,        \* the time at which its batch began
    mine,       \* the rows as its open transaction sees them
    locked,     \* the rows, endpoints and organizations it has locked
    claimed,    \* the key generation its request is signed with
    outcome,    \* the answer to its request
    slow,       \* unanswered calls in its batch
    clock,
    crashes, admin,
    accepted,   \* calls the endpoint answered with success
    undone      \* rows some batch of which was rolled back

endpoints == <<active, generation>>
batch     == <<queue, now, mine, locked, claimed, outcome, slow>>
ghosts    == <<accepted, undone>>
bounds    == <<clock, crashes, admin>>
vars == <<rows, active, generation, pc, queue, now, mine, locked, claimed,
          outcome, slow, clock, crashes, admin, accepted, undone>>

\* A claim is never durable, so no committed row is ever "processing" and the
\* lease that would expire, PROCESSING_LEASE, never applies.
State == {"absent", "pending", "delivered", "dead_letter"}
Row == [state : State, attempts : Nat, available : 0..MaxClock]
OwnRow == [state : State \cup {"processing"}, attempts : Nat, available : 0..MaxClock]

Outcome == {"none", "success", "temporary", "rejected", "unanswered"}

Lockable == Delivery \cup Endpoint \cup Organization

TypeOK ==
    /\ rows \in [Delivery -> Row]
    /\ active \in [Endpoint -> BOOLEAN]
    /\ generation \in [Endpoint -> Nat]
    /\ pc \in [Worker -> {"idle", "claim", "send", "record"}]
    /\ queue \in [Worker -> Seq(Delivery)]
    /\ now \in [Worker -> 0..MaxClock]
    /\ mine \in [Worker -> [Delivery -> OwnRow]]
    /\ locked \in [Worker -> SUBSET Lockable]
    /\ claimed \in [Worker -> Nat]
    /\ outcome \in [Worker -> Outcome]
    /\ slow \in [Worker -> Nat]
    /\ clock \in 0..MaxClock /\ crashes \in 0..MaxCrashes /\ admin \in 0..MaxAdmin
    /\ accepted \in [Delivery -> 0..MaxAccepted]
    /\ undone \subseteq Delivery

Unborn == [state |-> "absent", attempts |-> 0, available |-> 0]

Init ==
    /\ rows = [d \in Delivery |-> Unborn]
    /\ active = [e \in Endpoint |-> TRUE]
    /\ generation = [e \in Endpoint |-> 1]
    /\ pc = [w \in Worker |-> "idle"]
    /\ queue = [w \in Worker |-> <<>>]
    /\ now = [w \in Worker |-> 0]
    /\ mine = [w \in Worker |-> [d \in Delivery |-> Unborn]]
    /\ locked = [w \in Worker |-> {}]
    /\ claimed = [w \in Worker |-> 0]
    /\ outcome = [w \in Worker |-> "none"]
    /\ slow = [w \in Worker |-> 0]
    /\ clock = 0 /\ crashes = 0 /\ admin = 0
    /\ accepted = [d \in Delivery |-> 0]
    /\ undone = {}

-----------------------------------------------------------------------------
(* Helpers. *)

Lesser(a, b) == IF a <= b THEN a ELSE b

\* _retry_delay: doubling from one unit up to the cap.
RetryDelay(attempts) == Lesser(2 ^ (attempts - 1), MaxDelay)

Counted(counter, d) == [counter EXCEPT ![d] = Lesser(@ + 1, MaxAccepted)]

\* The first rows due at time t in the order (available_at, created_at, id).
DueRows(t) ==
    {d \in Delivery : rows[d].state = "pending" /\ rows[d].available <= t}

Earlier(a, b) ==
    \/ rows[a].available < rows[b].available
    \/ rows[a].available = rows[b].available /\ a < b

IsDueQueue(q, t) ==
    /\ \A i, j \in DOMAIN q : i < j => Earlier(q[i], q[j])
    /\ \A i \in DOMAIN q, d \in DueRows(t) :
         (\A j \in DOMAIN q : d # q[j]) => Earlier(q[i], d)

DueQueues(t) ==
    {q \in [1..Lesser(Cardinality(DueRows(t)), BatchSize) -> DueRows(t)] :
        IsDueQueue(q, t)}

\* Mutant: FOR UPDATE OF the delivery row alone.
RowsOnly(d) == {d}

\* SELECT FOR UPDATE locks the rows of every joined table.
RowsOf(d) == {d, EndpointOf[d], OwnerOf[EndpointOf[d]]}

LockedElsewhere(w) == UNION {locked[v] : v \in Worker \ {w}}

\* SKIP LOCKED finds one of the rows held by another transaction.
Held(w, d) == RowsOf(d) \cap LockedElsewhere(w) # {}

Free(r) == \A w \in Worker : r \notin locked[w]

Goto(w, label) == pc' = [pc EXCEPT ![w] = label]

\* The row as this transaction sees it: its own version or the committed one.
View(w, d) == IF d \in locked[w] THEN mine[w][d] ELSE rows[d]

EndBatch(w) ==
    /\ Goto(w, "idle")
    /\ queue' = [queue EXCEPT ![w] = <<>>]
    /\ now' = [now EXCEPT ![w] = 0]
    /\ mine' = [mine EXCEPT ![w] = [d \in Delivery |-> Unborn]]
    /\ locked' = [locked EXCEPT ![w] = {}]
    /\ claimed' = [claimed EXCEPT ![w] = 0]
    /\ outcome' = [outcome EXCEPT ![w] = "none"]
    /\ slow' = [slow EXCEPT ![w] = 0]

\* PostgreSQL undoes the batch; the calls it made stay made.
RollBack(w) ==
    /\ EndBatch(w)
    /\ undone' = undone \cup (locked[w] \cap Delivery)
    /\ UNCHANGED <<rows, endpoints, accepted>>

Alive(w) == slow[w] < TimeLimit

-----------------------------------------------------------------------------
(* The batch of one worker. *)

\* The beat starts the task; the due rows are listed as they are committed.
Start(w) ==
    /\ pc[w] = "idle"
    /\ DueRows(clock) # {}
    /\ now' = [now EXCEPT ![w] = clock]
    /\ \E q \in DueQueues(clock) : queue' = [queue EXCEPT ![w] = q]
    /\ Goto(w, "claim")
    /\ UNCHANGED <<rows, endpoints, mine, locked, claimed, outcome, slow, bounds,
                   ghosts>>

Looking(w) == pc[w] = "claim" /\ queue[w] # <<>> /\ Alive(w)

\* Another transaction holds one of the rows: nothing is found.
Skip(w) ==
    /\ Looking(w)
    /\ Held(w, Head(queue[w]))
    /\ queue' = [queue EXCEPT ![w] = Tail(@)]
    /\ UNCHANGED <<rows, endpoints, pc, now, mine, locked, claimed, outcome, slow,
                   bounds, ghosts>>

\* Mutant: the list of due rows is trusted.
Listed(w, d) == View(w, d).state # "absent"

\* The row is still pending and due now that it is locked.
Claimable(w, d) ==
    View(w, d).state = "pending" /\ View(w, d).available <= now[w]

\* The claim's row lock is kept whatever the claim decides.
Take(w, d, row) ==
    /\ locked' = [locked EXCEPT ![w] = @ \cup RowsOf(d)]
    /\ mine' = [mine EXCEPT ![w][d] = row]

\* It was finished, claimed or postponed by a batch that has ended since.
PassOver(w) ==
    /\ Looking(w)
    /\ LET d == Head(queue[w]) IN
         /\ ~Held(w, d)
         /\ ~Claimable(w, d)
         /\ Take(w, d, View(w, d))
    /\ queue' = [queue EXCEPT ![w] = Tail(@)]
    /\ UNCHANGED <<rows, endpoints, pc, now, claimed, outcome, slow, bounds, ghosts>>

\* The endpoint was deactivated: the delivery is dead.
ClaimInactive(w) ==
    /\ Looking(w)
    /\ LET d == Head(queue[w]) IN
         /\ ~Held(w, d)
         /\ Claimable(w, d)
         /\ ~active[EndpointOf[d]]
         /\ Take(w, d, [View(w, d) EXCEPT !.state = "dead_letter"])
    /\ queue' = [queue EXCEPT ![w] = Tail(@)]
    /\ UNCHANGED <<rows, endpoints, pc, now, claimed, outcome, slow, bounds, ghosts>>

\* Saving the attempt breaks the check constraint, or the key is unreadable.
ClaimMustRaise(w, d) ==
    \/ View(w, d).attempts + 1 > AttemptsLimit
    \/ EndpointOf[d] \in Unreadable

\* Mutant: each claim is committed by itself.
ClaimDurably(w) ==
    /\ Looking(w)
    /\ LET d == Head(queue[w]) IN
         /\ ~Held(w, d)
         /\ Claimable(w, d)
         /\ active[EndpointOf[d]]
         /\ Take(w, d, [View(w, d) EXCEPT !.state = "processing", !.attempts = @ + 1])
         /\ rows' = [rows EXCEPT ![d] = mine'[w][d]]
         /\ claimed' = [claimed EXCEPT ![w] = generation[EndpointOf[d]]]
    /\ Goto(w, "send")
    /\ UNCHANGED <<endpoints, queue, now, outcome, slow, bounds, ghosts>>

\* The attempt is counted and the request signed with the current key.
Claim(w) ==
    /\ Looking(w)
    /\ LET d == Head(queue[w]) IN
         /\ ~Held(w, d)
         /\ Claimable(w, d)
         /\ active[EndpointOf[d]]
         /\ ~ClaimMustRaise(w, d)
         /\ Take(w, d, [View(w, d) EXCEPT !.state = "processing", !.attempts = @ + 1])
         /\ claimed' = [claimed EXCEPT ![w] = generation[EndpointOf[d]]]
    /\ Goto(w, "send")
    /\ UNCHANGED <<rows, endpoints, queue, now, outcome, slow, bounds, ghosts>>

\* Nobody catches it: the task fails and its transaction rolls back.
ClaimRaises(w) ==
    /\ Looking(w)
    /\ LET d == Head(queue[w]) IN
         /\ ~Held(w, d)
         /\ Claimable(w, d)
         /\ active[EndpointOf[d]]
         /\ ClaimMustRaise(w, d)
    /\ RollBack(w)
    /\ UNCHANGED bounds

\* post_webhook: an answer, or none before the timeouts.
Send(w) ==
    /\ pc[w] = "send" /\ Alive(w)
    /\ LET d == Head(queue[w]) IN
         /\ \E answer \in Outcome \ {"none"} :
              /\ outcome' = [outcome EXCEPT ![w] = answer]
              /\ accepted' = IF answer = "success" THEN Counted(accepted, d)
                                                   ELSE accepted
              /\ slow' = [slow EXCEPT ![w] = @ + IF answer = "unanswered" THEN 1 ELSE 0]
    /\ Goto(w, "record")
    /\ UNCHANGED <<rows, endpoints, queue, now, mine, locked, claimed, bounds, undone>>

\* Mutant: a timeout leaves an empty error code, which counts as success.
RecordedOnSilence(row, answer, t) ==
    IF answer \in {"success", "unanswered"} THEN [row EXCEPT !.state = "delivered"]
    ELSE [row EXCEPT
            !.state = IF answer = "rejected" \/ row.attempts >= MaxAttempts
                      THEN "dead_letter" ELSE "pending",
            !.available = Lesser(t + RetryDelay(row.attempts), MaxClock)]

\* Mutant: an attempt that got no answer does not count.
RecordedUncounted(row, answer, t) ==
    IF answer = "success" THEN [row EXCEPT !.state = "delivered"]
    ELSE IF answer = "unanswered"
    THEN [row EXCEPT !.state = "pending", !.attempts = @ - 1]
    ELSE [row EXCEPT
            !.state = IF answer = "rejected" \/ row.attempts >= MaxAttempts
                      THEN "dead_letter" ELSE "pending",
            !.available = Lesser(t + RetryDelay(row.attempts), MaxClock)]

\* The row after an answer: the delay counts from when the batch began.
Recorded(row, answer, t) ==
    IF answer = "success" THEN [row EXCEPT !.state = "delivered"]
    ELSE [row EXCEPT
            !.state = IF answer = "rejected" \/ row.attempts >= MaxAttempts
                      THEN "dead_letter" ELSE "pending",
            !.available = Lesser(t + RetryDelay(row.attempts), MaxClock)]

\* _record_delivery_outcome; its fence always holds, the row is still locked.
Record(w) ==
    /\ pc[w] = "record" /\ Alive(w)
    /\ LET d == Head(queue[w]) IN
         mine' = [mine EXCEPT ![w][d] = Recorded(@, outcome[w], now[w])]
    /\ queue' = [queue EXCEPT ![w] = Tail(@)]
    /\ outcome' = [outcome EXCEPT ![w] = "none"]
    /\ claimed' = [claimed EXCEPT ![w] = 0]
    /\ Goto(w, "claim")
    /\ UNCHANGED <<rows, endpoints, now, locked, slow, bounds, ghosts>>

\* The task ends: every outcome of the batch becomes durable at once.
Commit(w) ==
    /\ pc[w] = "claim" /\ queue[w] = <<>> /\ Alive(w)
    /\ rows' = [d \in Delivery |-> View(w, d)]
    /\ EndBatch(w)
    /\ UNCHANGED <<endpoints, bounds, ghosts>>

\* CELERY_TASK_TIME_LIMIT: the worker process is killed.
Killed(w) ==
    /\ ~Alive(w)
    /\ RollBack(w)
    /\ UNCHANGED bounds

\* It dies for any other reason, between any two steps.
Crash(w) ==
    /\ pc[w] # "idle"
    /\ crashes < MaxCrashes
    /\ crashes' = crashes + 1
    /\ RollBack(w)
    /\ UNCHANGED <<clock, admin>>

Step(w) ==
    \/ Start(w) \/ Skip(w) \/ PassOver(w) \/ ClaimInactive(w) \/ Claim(w)
    \/ ClaimRaises(w) \/ Send(w) \/ Record(w) \/ Commit(w) \/ Killed(w)

-----------------------------------------------------------------------------
(* Around the batches. *)

\* project_webhook_deliveries for one event and endpoint; the new row's foreign
\* keys wait for whoever holds the endpoint or its organization.
Project(d) ==
    /\ rows[d].state = "absent"
    /\ active[EndpointOf[d]]
    /\ \A r \in RowsOf(d) : Free(r)
    /\ rows' = [rows EXCEPT ![d] = [Unborn EXCEPT !.state = "pending",
                                                  !.available = clock]]
    /\ UNCHANGED <<endpoints, pc, batch, bounds, ghosts>>

Administer == admin < MaxAdmin /\ admin' = admin + 1

\* set_webhook_endpoint_active
SetActive(e) ==
    /\ Administer
    /\ Free(e)
    /\ active' = [active EXCEPT ![e] = ~@]
    /\ UNCHANGED <<rows, generation, pc, batch, clock, crashes, ghosts>>

\* rotate_webhook_secret
Rotate(e) ==
    /\ Administer
    /\ Free(e)
    /\ generation' = [generation EXCEPT ![e] = @ + 1]
    /\ UNCHANGED <<rows, active, pc, batch, clock, crashes, ghosts>>

\* retry_webhook_delivery; the attempts already made keep counting.
Retry(d) ==
    /\ Administer
    /\ Free(d)
    /\ rows[d].state = "dead_letter"
    /\ active[EndpointOf[d]]
    /\ rows' = [rows EXCEPT ![d].state = "pending", ![d].available = clock]
    /\ UNCHANGED <<endpoints, pc, batch, clock, crashes, ghosts>>

Tick ==
    /\ clock < MaxClock
    /\ clock' = clock + 1
    /\ UNCHANGED <<rows, endpoints, pc, batch, crashes, admin, ghosts>>

Next ==
    \/ \E w \in Worker : Step(w) \/ Crash(w)
    \/ \E d \in Delivery : Project(d) \/ Retry(d)
    \/ \E e \in Endpoint : SetActive(e) \/ Rotate(e)
    \/ Tick

Spec == Init /\ [][Next]_vars

\* The beat starts the task every 30 seconds, a batch runs until it ends or is
\* killed, and time passes.
FairSpec == Spec /\ WF_vars(Tick) /\ \A w \in Worker : WF_vars(Step(w))

-----------------------------------------------------------------------------
(* Correctness. *)

Promise == INSTANCE AtLeastOnce WITH
    Item <- Delivery,
    state <- [d \in Delivery |-> rows[d].state],
    received <- {d \in Delivery : accepted[d] > 0}

\* Whatever dies, is killed, raises or is retried: a delivery counts as
\* delivered only if its endpoint accepted it, a delivered one is never sent
\* again, and only the operator's retry revives a dead one.
ImplementsPromise == Promise!Spec

\* A call that is about to be made goes to an endpoint that is still active and
\* is signed with the key that is still current, however long the batch has run.
CallIsCurrent ==
    \A w \in Worker : pc[w] = "send" =>
        LET e == EndpointOf[Head(queue[w])]
        IN  active[e] /\ claimed[w] = generation[e]

\* Without a rolled back batch an endpoint accepts each delivery at most once,
\* whatever the operators change meanwhile.
AcceptedOnce == \A d \in Delivery \ undone : accepted[d] <= 1

\* Every delivery ends: it is accepted or dead-lettered, however its endpoint
\* behaves.
DeliveriesEnd ==
    \A d \in Delivery :
        rows[d].state = "pending" ~> rows[d].state \in {"delivered", "dead_letter"}

=============================================================================
