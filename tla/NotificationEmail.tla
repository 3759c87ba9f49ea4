--------------------------- MODULE NotificationEmail ---------------------------
(***************************************************************************)
(* Notification mail (backend/apps/core/notification_email.py) as the beat *)
(* task dispatch_notification_emails runs it (backend/apps/core/tasks.py). *)
(*                                                                         *)
(* A batch first looks at every due delivery: it is suppressed, put off or *)
(* claimed.  Then the claims are mailed as digests of one recipient each,  *)
(* and each answer is recorded.  The task's transaction surrounds it all,  *)
(* so nothing is durable, and no row lock is released, before it ends.     *)
(***************************************************************************)
EXTENDS DeliverySchedule, Sequences, FiniteSets

CONSTANTS
    Worker,         \* Celery workers
    Recipient,      \* accounts, each with a preference for its surface
    Organization,   \* clients
    Wish,           \* the preferences an account may choose from
    Delivery,       \* the rows, numbered as ties between them are broken
    RecipientOf,    \* the account each row is for
    OrgOf,          \* the client each row is about
    MaxAttempts,    \* MAX_EMAIL_ATTEMPTS
    MaxDigest,      \* MAX_DIGEST_ITEMS
    MaxDelay,       \* the cap of _retry_delay, in slots
    BatchSize,      \* batch_size
    MaxClock,       \* bound: the clock stops there and everything is due
    MaxCrashes,     \* bound: workers that die
    MaxAdmin,       \* bound: changes of accounts, authority and preferences, retries
    MaxUpsets,      \* bound: both together
    MaxAccepted     \* bound: the counters of accepted mails stop there

ASSUME RecipientAssumption ==
    /\ Wish \subseteq Preference
    /\ RecipientOf \in [Delivery -> Recipient]
    /\ OrgOf \in [Delivery -> Organization]
ASSUME DeliveryAssumption ==
    /\ Delivery \subseteq Nat /\ IsFiniteSet(Delivery)
    /\ Delivery \cap (Recipient \cup Organization) = {}
ASSUME LimitAssumption ==
    /\ MaxAttempts \in Nat \ {0} /\ MaxDigest \in Nat \ {0}
    /\ MaxDelay \in Nat \ {0} /\ BatchSize \in Nat \ {0} /\ MaxClock \in Nat
    /\ MaxCrashes \in Nat /\ MaxAdmin \in Nat /\ MaxUpsets \in Nat
    /\ MaxAccepted \in Nat \ {0}

VARIABLES
    rows,       \* the committed delivery rows
    active,     \* User.is_active
    authorized, \* rows whose recipient may still see their subject
    wish,       \* NotificationPreference of each account
    pc,         \* "idle", "batch" or "record"
    queue,      \* due rows a worker has still to look at
    now,        \* the time at which its batch began
    mine,       \* the rows as its open transaction sees them
    locked,     \* the rows, accounts and organizations it has locked
    grouped,    \* its claims by recipient
    outcome,    \* what the mail server answered to its digest
    clock, crashes, admin,
    accepted,   \* of those, mails the server was seen to accept
    undone      \* rows some batch of which was rolled back

people == <<active, authorized, wish>>
batch  == <<queue, now, mine, locked, grouped, outcome>>
ghosts == <<accepted, undone>>
bounds == <<clock, crashes, admin>>
vars == <<rows, active, authorized, wish, pc, queue, now, mine, locked, grouped,
          outcome, clock, crashes, admin, accepted, undone>>

\* As a claim is never durable, no committed row is "processing" and the lease
\* EMAIL_PROCESSING_LEASE never applies.
State == {"absent", "pending", "delivered", "suppressed", "dead_letter"}
RowIn(states) ==
    [state : states, attempts : 0..MaxAttempts, available : 0..MaxClock,
     created : 0..MaxClock, retries : 0..MaxAdmin]

\* "temporary" is also a connection lost before the server's answer was read.
Outcome == {"none", "success", "temporary", "permanent"}

TypeOK ==
    /\ rows \in [Delivery -> RowIn(State)]
    /\ active \in [Recipient -> BOOLEAN]
    /\ authorized \subseteq Delivery
    /\ wish \in [Recipient -> Wish]
    /\ pc \in [Worker -> {"idle", "batch", "record"}]
    /\ queue \in [Worker -> Seq(Delivery)]
    /\ now \in [Worker -> 0..MaxClock]
    /\ mine \in [Worker -> [Delivery -> RowIn(State \cup {"processing"})]]
    /\ locked \in [Worker -> SUBSET (Delivery \cup Recipient \cup Organization)]
    /\ grouped \in [Worker -> Seq(Seq(Delivery) \ {<<>>})]
    /\ outcome \in [Worker -> Outcome]
    /\ clock \in 0..MaxClock /\ crashes \in 0..MaxCrashes /\ admin \in 0..MaxAdmin
    /\ accepted \in [Delivery -> 0..MaxAccepted]
    /\ undone \subseteq Delivery

Unborn == [state |-> "absent", attempts |-> 0, available |-> 0, created |-> 0,
           retries |-> 0]

Init ==
    /\ rows = [d \in Delivery |-> Unborn]
    /\ active = [r \in Recipient |-> TRUE]
    /\ authorized = Delivery
    /\ wish \in [Recipient -> Wish]
    /\ pc = [w \in Worker |-> "idle"]
    /\ queue = [w \in Worker |-> <<>>]
    /\ now = [w \in Worker |-> 0]
    /\ mine = [w \in Worker |-> [d \in Delivery |-> Unborn]]
    /\ locked = [w \in Worker |-> {}]
    /\ grouped = [w \in Worker |-> <<>>]
    /\ outcome = [w \in Worker |-> "none"]
    /\ clock = 0 /\ crashes = 0 /\ admin = 0
    /\ accepted = [d \in Delivery |-> 0]
    /\ undone = {}

-----------------------------------------------------------------------------
(* Helpers. *)

Lesser(a, b) == IF a <= b THEN a ELSE b

\* _retry_delay: doubling from one unit up to the cap.
RetryDelay(attempts) == Lesser(2 ^ (attempts - 1), MaxDelay)

\* The first rows due at time t in the order (available_at, created_at, id).
DueRows(t) ==
    {d \in Delivery : rows[d].state = "pending" /\ rows[d].available <= t}

Earlier(a, b) ==
    \/ rows[a].available < rows[b].available
    \/ rows[a].available = rows[b].available /\ rows[a].created < rows[b].created
    \/ rows[a].available = rows[b].available /\ rows[a].created = rows[b].created
       /\ a < b

IsDueQueue(q, t) ==
    /\ \A i, j \in DOMAIN q : i < j => Earlier(q[i], q[j])
    /\ \A i \in DOMAIN q, d \in DueRows(t) :
         (\A j \in DOMAIN q : d # q[j]) => Earlier(q[i], d)

DueQueues(t) ==
    {q \in [1..Lesser(Cardinality(DueRows(t)), BatchSize) -> DueRows(t)] :
        IsDueQueue(q, t)}

\* Mutant: FOR UPDATE OF the delivery row alone.
RowsOnly(d) == {d}

\* SELECT FOR UPDATE locks the rows of every joined table.
RowsOf(d) == {d, RecipientOf[d], OrgOf[d]}

\* SKIP LOCKED finds one of the rows held by another transaction.
Held(w, d) == \E v \in Worker \ {w} : RowsOf(d) \cap locked[v] # {}

Free(r) == \A w \in Worker : r \notin locked[w]

View(w, d) == IF d \in locked[w] THEN mine[w][d] ELSE rows[d]

\* Mutant: claims are gathered by surface alone.
FiledTogether(groups, d) ==
    IF groups = <<>> THEN <<<<d>>>> ELSE <<Append(Head(groups), d)>>

\* The dictionary of claims by recipient, in the order of its first claims.
Filed(groups, d) ==
    IF \E i \in DOMAIN groups : RecipientOf[groups[i][1]] = RecipientOf[d]
    THEN [i \in DOMAIN groups |->
            IF RecipientOf[groups[i][1]] = RecipientOf[d]
            THEN Append(groups[i], d) ELSE groups[i]]
    ELSE Append(groups, <<d>>)

\* The next digest, of at most MaxDigest claims of one recipient.
Letter(w) ==
    LET group == Head(grouped[w])
    IN  SubSeq(group, 1, Lesser(Len(group), MaxDigest))

\* The claims left once that digest is done.
LeftOver(groups) ==
    IF Len(Head(groups)) > MaxDigest
    THEN <<SubSeq(Head(groups), MaxDigest + 1, Len(Head(groups)))>> \o Tail(groups)
    ELSE Tail(groups)

EndBatch(w) ==
    /\ pc' = [pc EXCEPT ![w] = "idle"]
    /\ queue' = [queue EXCEPT ![w] = <<>>]
    /\ now' = [now EXCEPT ![w] = 0]
    /\ mine' = [mine EXCEPT ![w] = [d \in Delivery |-> Unborn]]
    /\ locked' = [locked EXCEPT ![w] = {}]
    /\ grouped' = [grouped EXCEPT ![w] = <<>>]
    /\ outcome' = [outcome EXCEPT ![w] = "none"]

-----------------------------------------------------------------------------
(* The batch of one worker: first the claims. *)

Start(w) ==
    /\ pc[w] = "idle"
    /\ DueRows(clock) # {}
    /\ now' = [now EXCEPT ![w] = clock]
    /\ \E q \in DueQueues(clock) : queue' = [queue EXCEPT ![w] = q]
    /\ pc' = [pc EXCEPT ![w] = "batch"]
    /\ UNCHANGED <<rows, people, mine, locked, grouped, outcome, bounds, ghosts>>

\* Mutant: the list of due rows is trusted.
Listed(w, d) == View(w, d).state # "absent"

\* The row is still pending and due now that it is locked.
Claimable(w, d) ==
    View(w, d).state = "pending" /\ View(w, d).available <= now[w]

\* Membership, account, authority and preference as they are at the claim.
Welcome(d) ==
    /\ active[RecipientOf[d]]
    /\ d \in authorized
    /\ wish[RecipientOf[d]].enabled

\* When the preference lets this row be mailed.
EligibleAt(w, d) ==
    NextDeliveryAt(wish[RecipientOf[d]], View(w, d).created, now[w])

\* What every look at a row does, whatever it decides.
Look(w, d) ==
    /\ pc[w] = "batch" /\ queue[w] # <<>> /\ d = Head(queue[w])
    /\ queue' = [queue EXCEPT ![w] = Tail(@)]
    /\ UNCHANGED <<rows, people, pc, now, outcome, bounds, ghosts>>

\* The claim's row lock is kept whatever the claim decides.
Take(w, d, row) ==
    /\ ~Held(w, d)
    /\ locked' = [locked EXCEPT ![w] = @ \cup RowsOf(d)]
    /\ mine' = [mine EXCEPT ![w][d] = row]

Skip(w, d) ==
    /\ Look(w, d)
    /\ Held(w, d)
    /\ UNCHANGED <<mine, locked, grouped>>

PassOver(w, d) ==
    /\ Look(w, d)
    /\ ~Claimable(w, d)
    /\ Take(w, d, View(w, d))
    /\ UNCHANGED grouped

\* _suppress
Suppress(w, d) ==
    /\ Look(w, d)
    /\ Claimable(w, d) /\ ~Welcome(d)
    /\ Take(w, d, [View(w, d) EXCEPT !.state = "suppressed"])
    /\ UNCHANGED grouped

\* Not yet: the schedule is kept and no attempt is counted.
Defer(w, d) ==
    /\ Look(w, d)
    /\ Claimable(w, d) /\ Welcome(d) /\ EligibleAt(w, d) > now[w]
    /\ Take(w, d, [View(w, d) EXCEPT !.available = Lesser(EligibleAt(w, d), MaxClock)])
    /\ UNCHANGED grouped

Claim(w, d) ==
    /\ Look(w, d)
    /\ Claimable(w, d) /\ Welcome(d) /\ EligibleAt(w, d) <= now[w]
    /\ Take(w, d, [View(w, d) EXCEPT !.state = "processing", !.attempts = @ + 1])
    /\ grouped' = [grouped EXCEPT ![w] = Filed(@, d)]

-----------------------------------------------------------------------------
(* Then the digests. *)

Addressed(w) == {d \in Delivery : \E i \in DOMAIN Letter(w) : Letter(w)[i] = d}

\* The SMTP call: one mail for the whole digest.
Send(w) ==
    /\ pc[w] = "batch" /\ queue[w] = <<>> /\ grouped[w] # <<>>
    /\ \E answer \in Outcome \ {"none"} :
         /\ outcome' = [outcome EXCEPT ![w] = answer]
         /\ accepted' = [d \in Delivery |->
                           IF d \in Addressed(w) /\ answer = "success"
                           THEN Lesser(accepted[d] + 1, MaxAccepted) ELSE accepted[d]]
    /\ pc' = [pc EXCEPT ![w] = "record"]
    /\ UNCHANGED <<rows, people, queue, now, mine, locked, grouped, bounds, undone>>

Retried(row, t) ==
    [row EXCEPT !.state = "pending",
                !.available = Lesser(t + RetryDelay(row.attempts), MaxClock)]

\* Mutant: "accepted != 1" is not looked at.
RecordedAsSent(row, answer, t) ==
    IF answer # "permanent" THEN [row EXCEPT !.state = "delivered"]
    ELSE [row EXCEPT !.state = "dead_letter"]

\* Mutant: one attempt too many.
RecordedLate(row, answer, t) ==
    IF answer = "success" THEN [row EXCEPT !.state = "delivered"]
    ELSE IF answer = "permanent" \/ row.attempts > MaxAttempts
         THEN [row EXCEPT !.state = "dead_letter"]
         ELSE Retried(row, t)

\* Mutant: only a permanent refusal ends the attempts.
RecordedForever(row, answer, t) ==
    CASE answer = "success" -> [row EXCEPT !.state = "delivered"]
      [] answer = "permanent" -> [row EXCEPT !.state = "dead_letter"]
      [] OTHER -> [Retried(row, t) EXCEPT !.attempts = 0]

\* A row of the digest after the answer: the delay counts from the batch's start.
Recorded(row, answer, t) ==
    IF answer = "success" THEN [row EXCEPT !.state = "delivered"]
    ELSE IF answer = "permanent" \/ row.attempts >= MaxAttempts
         THEN [row EXCEPT !.state = "dead_letter"]
         ELSE Retried(row, t)

\* _finish; its fence always holds, the rows are still locked.
Record(w) ==
    /\ pc[w] = "record"
    /\ mine' = [mine EXCEPT ![w] =
                  [d \in Delivery |-> IF d \in Addressed(w)
                                      THEN Recorded(@[d], outcome[w], now[w])
                                      ELSE @[d]]]
    /\ grouped' = [grouped EXCEPT ![w] = LeftOver(@)]
    /\ outcome' = [outcome EXCEPT ![w] = "none"]
    /\ pc' = [pc EXCEPT ![w] = "batch"]
    /\ UNCHANGED <<rows, people, queue, now, locked, bounds, ghosts>>

Commit(w) ==
    /\ pc[w] = "batch" /\ queue[w] = <<>> /\ grouped[w] = <<>>
    /\ rows' = [d \in Delivery |-> View(w, d)]
    /\ EndBatch(w)
    /\ UNCHANGED <<people, bounds, ghosts>>

\* The worker dies between any two steps: PostgreSQL rolls the batch back.
Crash(w) ==
    /\ pc[w] # "idle"
    /\ crashes < MaxCrashes /\ crashes + admin < MaxUpsets
    /\ crashes' = crashes + 1
    /\ EndBatch(w)
    /\ undone' = undone \cup (locked[w] \cap Delivery)
    /\ UNCHANGED <<rows, people, clock, admin, accepted>>

Step(w) ==
    \/ Start(w)
    \/ \E d \in Delivery :
          Skip(w, d) \/ PassOver(w, d) \/ Suppress(w, d) \/ Defer(w, d) \/ Claim(w, d)
    \/ Send(w) \/ Record(w) \/ Commit(w)

-----------------------------------------------------------------------------
(* Around the batches. *)

\* project_inbox_notifications: the row refers to the account and the client, so
\* it waits for whoever has locked them.  Bound: while a digest can follow.
Project(d) ==
    /\ rows[d].state = "absent"
    /\ clock + Day <= MaxClock
    /\ active[RecipientOf[d]] /\ d \in authorized
    /\ \A r \in RowsOf(d) : Free(r)
    /\ rows' = [rows EXCEPT ![d] = [Unborn EXCEPT !.state = "pending",
                                                  !.available = clock,
                                                  !.created = clock]]
    /\ UNCHANGED <<people, pc, batch, bounds, ghosts>>

Administer ==
    /\ admin < MaxAdmin /\ crashes + admin < MaxUpsets
    /\ admin' = admin + 1
    /\ UNCHANGED <<pc, batch, clock, crashes, ghosts>>

\* An account is closed or opened again: an update of the locked row.
SetAccount(r) ==
    /\ Administer
    /\ Free(r)
    /\ active' = [active EXCEPT ![r] = ~@]
    /\ UNCHANGED <<rows, authorized, wish>>

\* Roles, assignments and publications change; no dispatcher locks those.
SetAuthority(d) ==
    /\ Administer
    /\ authorized' = IF d \in authorized THEN authorized \ {d} ELSE authorized \cup {d}
    /\ UNCHANGED <<rows, active, wish>>

\* The recipient chooses another preference.
SetWish(r) ==
    /\ Administer
    /\ \E p \in Wish \ {wish[r]} : wish' = [wish EXCEPT ![r] = p]
    /\ UNCHANGED <<rows, active, authorized>>

\* NotificationDeliveryAdminRetryView
Retry(d) ==
    /\ Administer
    /\ Free(d) /\ Free(RecipientOf[d]) /\ Free(OrgOf[d])
    /\ rows[d].state = "dead_letter"
    /\ rows' = [rows EXCEPT ![d] = [rows[d] EXCEPT !.state = "pending", !.attempts = 0,
                                                   !.retries = @ + 1,
                                                   !.available = clock]]
    /\ UNCHANGED people

Tick ==
    /\ clock < MaxClock
    /\ clock' = clock + 1
    /\ UNCHANGED <<rows, people, pc, batch, crashes, admin, ghosts>>

Next ==
    \/ \E w \in Worker : Step(w) \/ Crash(w)
    \/ \E d \in Delivery : Project(d) \/ SetAuthority(d) \/ Retry(d)
    \/ \E r \in Recipient : SetAccount(r) \/ SetWish(r)
    \/ Tick

Spec == Init /\ [][Next]_vars

\* The beat starts the task every minute, a batch runs until it ends, and time
\* passes.
FairSpec == Spec /\ WF_vars(Tick) /\ \A w \in Worker : WF_vars(Step(w))

-----------------------------------------------------------------------------
(* Correctness. *)

Promise == INSTANCE AtLeastOnce WITH
    Item <- Delivery,
    state <- [d \in Delivery |-> rows[d].state],
    received <- {d \in Delivery : accepted[d] > 0}

\* Whatever dies or is put off: a notification counts as delivered only after a
\* mail with it was accepted, a delivered or suppressed one is never mailed
\* again, and only the administrator's retry revives a dead one.
ImplementsPromise == Promise!Spec

\* A digest shows its reader nothing that was meant for someone else.
DigestsAreNotMixed ==
    \A w \in Worker : pc[w] = "record" =>
        \A d, e \in Addressed(w) : RecipientOf[d] = RecipientOf[e]

\* Nothing is mailed to an account that is closed by then: closing it waits for
\* the batch that has claimed its mail.
ClosedAccountsGetNothing ==
    \A w \in Worker : pc[w] = "record" =>
        \A d \in Addressed(w) : active[RecipientOf[d]]

\* Without a rolled back batch a notification is in at most one accepted mail.
MailedOnce == \A d \in Delivery \ undone : accepted[d] <= 1

\* Every notification ends as delivered, suppressed or dead-lettered.
DeliveriesEnd ==
    \A d \in Delivery :
        rows[d].state = "pending" ~>
            rows[d].state \in {"delivered", "suppressed", "dead_letter"}

=============================================================================
