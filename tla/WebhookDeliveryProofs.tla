------------------------- MODULE WebhookDeliveryProofs -------------------------
(***************************************************************************)
(* The webhook dispatcher keeps its safety invariants and implements       *)
(* AtLeastOnce for any number of workers, endpoints and deliveries and any *)
(* limits on attempts, delays, batches and calls.                          *)
(***************************************************************************)
EXTENDS WebhookDelivery, FiniteCounting, TLAPS

Typed ==
    /\ rows \in [Delivery -> Row]
    /\ mine \in [Worker -> [Delivery -> OwnRow]]
    /\ active \in [Endpoint -> BOOLEAN]
    /\ generation \in [Endpoint -> Nat]
    /\ pc \in [Worker -> {"idle", "claim", "send", "record"}]
    /\ queue \in [Worker -> Seq(Delivery)]
    /\ now \in [Worker -> 0..MaxClock]
    /\ locked \in [Worker -> SUBSET Lockable]
    /\ claimed \in [Worker -> Nat]
    /\ outcome \in [Worker -> Outcome]
    /\ slow \in [Worker -> Nat]
    /\ clock \in 0..MaxClock
    /\ accepted \in [Delivery -> 0..MaxAccepted]
    /\ undone \subseteq Delivery

LocksExclude == \A v, w \in Worker : v # w => locked[v] \cap locked[w] = {}

\* A worker that is calling has locked the row, its endpoint and its owner, and
\* what the claim read of them still holds.
CallsAreCovered ==
    \A w \in Worker : pc[w] \in {"send", "record"} =>
        /\ queue[w] # <<>>
        /\ RowsOf(Head(queue[w])) \subseteq locked[w]
        /\ mine[w][Head(queue[w])].state = "processing"
        /\ mine[w][Head(queue[w])].attempts > 0
        /\ active[EndpointOf[Head(queue[w])]]
        /\ claimed[w] = generation[EndpointOf[Head(queue[w])]]
        /\ pc[w] = "record" /\ outcome[w] = "success"
              => accepted[Head(queue[w])] > 0

\* How a locked row may differ from the committed one.
OwnRowsFollow ==
    \A w \in Worker, d \in Delivery : d \in locked[w] =>
        \/ mine[w][d].state = rows[d].state
        \/ /\ rows[d].state = "pending"
           /\ \/ mine[w][d].state = "dead_letter"
              \/ mine[w][d].state = "delivered" /\ accepted[d] > 0
              \/ /\ mine[w][d].state = "processing"
                 /\ pc[w] \in {"send", "record"} /\ d = Head(queue[w])

\* Worker w has yet to commit, or to record, that d was accepted.
Remembers(w, d) ==
    /\ d \in locked[w]
    /\ \/ mine[w][d].state = "delivered"
       \/ pc[w] = "record" /\ d = Head(queue[w]) /\ outcome[w] = "success"

\* An accepted delivery whose batches all committed, or still run, is not
\* forgotten: nobody can claim it again.
AcceptedIsKnown ==
    \A d \in Delivery \ undone :
        /\ accepted[d] <= 1
        /\ accepted[d] > 0 => \/ rows[d].state = "delivered"
                              \/ \E w \in Worker : Remembers(w, d)

Inv == /\ Typed /\ LocksExclude /\ CallsAreCovered /\ OwnRowsFollow
       /\ AcceptedIsKnown

-----------------------------------------------------------------------------
LEMMA InitInv == Init => Inv
<1> SUFFICES ASSUME Init PROVE Inv
  OBVIOUS
<1> USE DEF Init, Unborn
<1>1. Typed
  <2>1. Unborn \in Row /\ Unborn \in OwnRow
    BY LimitAssumption DEF State, Row, OwnRow
  <2>2. QED BY <2>1, LimitAssumption DEF Typed, Outcome, State
<1>2. LocksExclude /\ CallsAreCovered /\ OwnRowsFollow /\ AcceptedIsKnown
  BY DEF LocksExclude, CallsAreCovered, OwnRowsFollow, AcceptedIsKnown
<1>3. QED BY <1>1, <1>2 DEF Inv

LEMMA RowsOfType ==
    ASSUME NEW d \in Delivery
    PROVE  RowsOf(d) \subseteq Lockable /\ RowsOf(d) \cap Delivery = {d}
BY EndpointAssumption, DeliveryAssumption DEF RowsOf, Lockable

LEMMA DueQueueType ==
    ASSUME NEW t, NEW q \in DueQueues(t)  PROVE q \in Seq(Delivery)
<1>1. DueRows(t) \in SUBSET Delivery
  BY DEF DueRows
<1>2. Cardinality(DueRows(t)) \in Nat
  BY <1>1, FS_Subset, FS_CardinalityType, DeliveryAssumption
<1>3. Lesser(Cardinality(DueRows(t)), BatchSize) \in Nat
  BY <1>2, LimitAssumption DEF Lesser
<1>4. q \in [1..Lesser(Cardinality(DueRows(t)), BatchSize) -> Delivery]
  BY <1>1 DEF DueQueues
<1>5. QED BY <1>3, <1>4

LEMMA ViewType ==
    ASSUME Typed, NEW w \in Worker, NEW d \in Delivery
    PROVE  View(w, d) \in OwnRow
<1>1. CASE d \in locked[w]
  BY <1>1 DEF Typed, View, OwnRow
<1>2. CASE d \notin locked[w]
  BY <1>2 DEF Typed, View, OwnRow, Row
<1>3. QED BY <1>1, <1>2

\* What a claim makes of a row.
LEMMA ClaimedRowType ==
    ASSUME NEW row \in OwnRow
    PROVE  /\ [row EXCEPT !.state = "dead_letter"] \in OwnRow
           /\ [row EXCEPT !.state = "dead_letter"].state = "dead_letter"
           /\ [row EXCEPT !.state = "processing", !.attempts = @ + 1] \in OwnRow
           /\ [row EXCEPT !.state = "processing", !.attempts = @ + 1].state
                = "processing"
           /\ [row EXCEPT !.state = "processing", !.attempts = @ + 1].attempts > 0
<1>1. row.attempts + 1 \in Nat /\ row.attempts + 1 > 0
  BY DEF OwnRow
<1>2. [row EXCEPT !.state = "processing", !.attempts = @ + 1].attempts
        = row.attempts + 1
  BY DEF OwnRow
<1>3. /\ [row EXCEPT !.state = "dead_letter"] \in OwnRow
      /\ [row EXCEPT !.state = "dead_letter"].state = "dead_letter"
      /\ [row EXCEPT !.state = "processing", !.attempts = @ + 1] \in OwnRow
      /\ [row EXCEPT !.state = "processing", !.attempts = @ + 1].state = "processing"
  BY <1>1 DEF OwnRow, State
<1>4. QED BY <1>1, <1>2, <1>3

\* After an attempt the next one waits, and at most as long as the cap.
LEMMA RetryDelayType ==
    ASSUME NEW n \in Nat, n > 0  PROVE RetryDelay(n) \in 1..MaxDelay
<1>1. n - 1 \in Nat
  OBVIOUS
<1>2. 2 ^ (n - 1) \in Nat /\ 2 ^ (n - 1) # 0
  BY <1>1, Power
<1> DEFINE p == 2 ^ (n - 1)
<1>3. RetryDelay(n) = IF p <= MaxDelay THEN p ELSE MaxDelay
  BY DEF RetryDelay, Lesser
<1> HIDE DEF p
<1>4. p \in Nat /\ p # 0
  BY <1>2 DEF p
<1>5. QED BY <1>3, <1>4, LimitAssumption

\* An answer to an attempt is recorded as one would expect.
LEMMA RecordedType ==
    ASSUME NEW row \in OwnRow, row.attempts > 0,
           NEW answer \in Outcome, NEW t \in 0..MaxClock
    PROVE  /\ Recorded(row, answer, t) \in OwnRow
           /\ Recorded(row, answer, t).state
                \in {"delivered", "dead_letter", "pending"}
           /\ Recorded(row, answer, t).state = "delivered"
                <=> answer = "success"
<1>1. Lesser(t + RetryDelay(row.attempts), MaxClock) \in 0..MaxClock
  <2>1. RetryDelay(row.attempts) \in 1..MaxDelay
    BY RetryDelayType DEF OwnRow
  <2>2. \A n \in 1..MaxDelay : Lesser(t + n, MaxClock) \in 0..MaxClock
    BY LimitAssumption DEF Lesser
  <2>3. QED BY <2>1, <2>2
<1>2. QED BY <1>1 DEF Recorded, State, OwnRow

\* A batch takes the rows of a delivery nobody else holds.
LEMMA TakeLocks ==
    ASSUME Inv, NEW w \in Worker, NEW d \in Delivery, NEW row,
           ~Held(w, d), Take(w, d, row)
    PROVE  /\ locked' \in [Worker -> SUBSET Lockable]
           /\ LocksExclude'
           /\ \A v \in Worker \ {w} : /\ locked'[v] = locked[v]
                                      /\ mine'[v] = mine[v]
                                      /\ d \notin locked[v]
           /\ locked'[w] = locked[w] \cup RowsOf(d)
           /\ d \in locked'[w]
           /\ mine'[w][d] = row
           /\ row \in OwnRow => mine' \in [Worker -> [Delivery -> OwnRow]]
           /\ \A x \in Delivery \ {d} : /\ mine'[w][x] = mine[w][x]
                                        /\ x \in locked'[w] <=> x \in locked[w]
<1> USE RowsOfType DEF Inv, Typed, Take
<1>1. \A v \in Worker \ {w} : /\ locked'[v] = locked[v]
                              /\ mine'[v] = mine[v]
                              /\ RowsOf(d) \cap locked[v] = {}
  BY DEF Held, LockedElsewhere
<1>2. d \in RowsOf(d)
  BY DEF RowsOf
<1>3. locked'[w] = locked[w] \cup RowsOf(d)
  OBVIOUS
<1>4. LocksExclude'
  BY <1>1, <1>3 DEF LocksExclude
<1>5. locked' \in [Worker -> SUBSET Lockable]
  OBVIOUS
<1>6. row \in OwnRow => mine' \in [Worker -> [Delivery -> OwnRow]]
  OBVIOUS
<1>7. mine'[w][d] = row /\ \A x \in Delivery \ {d} : mine'[w][x] = mine[w][x]
  OBVIOUS
<1>8. \A x \in Delivery \ {d} : x \in locked'[w] <=> x \in locked[w]
  BY <1>3
<1>9. QED BY <1>1, <1>2, <1>3, <1>4, <1>5, <1>6, <1>7, <1>8

-----------------------------------------------------------------------------
\* Listing the due rows and leaving one out change no row and no lock.
LEMMA ListingKeepsInv ==
    ASSUME Inv, NEW w \in Worker, Start(w) \/ Skip(w)  PROVE Inv'
<1> USE DEF Inv, Goto, Looking
<1>1. /\ pc[w] \in {"idle", "claim"} /\ pc'[w] = "claim"
      /\ \A v \in Worker \ {w} : pc'[v] = pc[v] /\ queue'[v] = queue[v]
      /\ UNCHANGED <<rows, active, generation, mine, locked, claimed, outcome,
                     accepted, undone>>
  BY DEF Typed, Start, Skip, endpoints, ghosts
<1>2. Typed'
  <2>1. CASE Start(w)
    BY <2>1, DueQueueType DEF Start, Typed, endpoints, ghosts, bounds
  <2>2. CASE Skip(w)
    <3>1. Tail(queue[w]) \in Seq(Delivery)
      BY <2>2 DEF Skip, Typed
    <3>2. QED BY <2>2, <3>1 DEF Skip, Typed, endpoints, ghosts, bounds
  <2>3. QED BY <2>1, <2>2
<1>3. LocksExclude'
  BY <1>1 DEF LocksExclude
<1>4. CallsAreCovered'
  BY <1>1 DEF CallsAreCovered
<1>5. OwnRowsFollow'
  BY <1>1 DEF OwnRowsFollow
<1>6. AcceptedIsKnown'
  BY <1>1 DEF AcceptedIsKnown, Remembers
<1>7. QED BY <1>2, <1>3, <1>4, <1>5, <1>6

\* A claim of any outcome: it takes the rows, and the row it keeps either is
\* the one it saw, or was pending and is now dead or being called.
LEMMA ClaimingKeepsInv ==
    ASSUME Inv, NEW w \in Worker, PassOver(w) \/ ClaimInactive(w) \/ Claim(w)
    PROVE  Inv'
<1> DEFINE d == Head(queue[w])
<1> USE DEF Inv, Goto, Looking
<1>1. d \in Delivery /\ Tail(queue[w]) \in Seq(Delivery) /\ queue[w] # <<>>
  BY DEF Typed, PassOver, ClaimInactive, Claim
<1>2. /\ pc[w] = "claim"
      /\ ~Held(w, d)
      /\ Take(w, d, mine'[w][d])
      /\ \A v \in Worker \ {w} : /\ pc'[v] = pc[v] /\ queue'[v] = queue[v]
                                 /\ claimed'[v] = claimed[v]
      /\ UNCHANGED <<rows, active, generation, now, outcome, slow, clock,
                     accepted, undone>>
  BY <1>1 DEF Typed, PassOver, ClaimInactive, Claim, Take, endpoints, ghosts, bounds
<1>3. View(w, d) \in OwnRow
  BY <1>1, ViewType
<1>4. /\ mine'[w][d] \in OwnRow
      /\ \/ /\ mine'[w][d] = View(w, d)
            /\ pc'[w] = "claim"
         \/ /\ View(w, d).state = "pending"
            /\ mine'[w][d].state = "dead_letter"
            /\ pc'[w] = "claim"
         \/ /\ View(w, d).state = "pending"
            /\ mine'[w][d].state = "processing" /\ mine'[w][d].attempts > 0
            /\ pc'[w] = "send" /\ queue'[w] = queue[w]
            /\ active[EndpointOf[d]] /\ claimed'[w] = generation[EndpointOf[d]]
  <2>1. CASE PassOver(w)
    BY <1>1, <1>3, <2>1 DEF PassOver, Typed, Take
  <2>2. CASE ClaimInactive(w)
    <3>1. mine'[w][d] = [View(w, d) EXCEPT !.state = "dead_letter"]
      BY <1>1, <2>2 DEF ClaimInactive, Typed, Take
    <3>2. mine'[w][d] \in OwnRow /\ mine'[w][d].state = "dead_letter"
      BY <1>3, <3>1, ClaimedRowType
    <3>3. View(w, d).state = "pending" /\ pc'[w] = "claim"
      BY <2>2 DEF ClaimInactive, Claimable
    <3>4. QED BY <3>2, <3>3
  <2>3. CASE Claim(w)
    <3>1. mine'[w][d] = [View(w, d) EXCEPT !.state = "processing",
                                           !.attempts = @ + 1]
      BY <1>1, <2>3 DEF Claim, Typed, Take
    <3>2. /\ mine'[w][d] \in OwnRow
          /\ mine'[w][d].state = "processing" /\ mine'[w][d].attempts > 0
      BY <1>3, <3>1, ClaimedRowType
    <3>3. /\ View(w, d).state = "pending"
          /\ pc'[w] = "send" /\ queue'[w] = queue[w]
          /\ active[EndpointOf[d]] /\ claimed'[w] = generation[EndpointOf[d]]
      BY <1>1, <2>3 DEF Claim, Claimable, Typed
    <3>4. QED BY <3>2, <3>3
  <2>4. QED BY <2>1, <2>2, <2>3
<1>5. /\ locked' \in [Worker -> SUBSET Lockable]
      /\ LocksExclude'
      /\ \A v \in Worker \ {w} : /\ locked'[v] = locked[v]
                                 /\ mine'[v] = mine[v]
                                 /\ d \notin locked[v]
      /\ locked'[w] = locked[w] \cup RowsOf(d)
      /\ d \in locked'[w]
      /\ \A x \in Delivery \ {d} : /\ mine'[w][x] = mine[w][x]
                                   /\ x \in locked'[w] <=> x \in locked[w]
  BY <1>1, <1>2, TakeLocks
<1>7. Typed'
  <2>1. mine' \in [Worker -> [Delivery -> OwnRow]]
    BY <1>1, <1>2, <1>4, TakeLocks
  <2>2. queue' \in [Worker -> Seq(Delivery)]
    BY <1>1 DEF Typed, PassOver, ClaimInactive, Claim
  <2>3. /\ pc' \in [Worker -> {"idle", "claim", "send", "record"}]
        /\ claimed' \in [Worker -> Nat]
    <3>1. CASE PassOver(w) \/ ClaimInactive(w)
      BY <1>1, <3>1 DEF Typed, PassOver, ClaimInactive
    <3>2. CASE Claim(w)
      <4>1. /\ pc' = [pc EXCEPT ![w] = "send"]
            /\ claimed' = [claimed EXCEPT ![w] = generation[EndpointOf[d]]]
        BY <1>1, <3>2 DEF Claim, Goto
      <4>2. generation[EndpointOf[d]] \in Nat
        BY <1>1, EndpointAssumption DEF Typed
      <4>3. QED BY <1>1, <4>1, <4>2 DEF Typed
    <3>3. QED BY <3>1, <3>2
  <2>4. QED BY <1>2, <1>5, <2>1, <2>2, <2>3 DEF Typed
\* What the claim saw of the row: a pending row is pending for everybody.
<1>8. /\ d \in locked[w] => View(w, d) = mine[w][d]
      /\ d \notin locked[w] => View(w, d) = rows[d]
      /\ View(w, d).state = "pending" => rows[d].state = "pending"
  BY <1>1 DEF View, OwnRowsFollow
<1>9. CallsAreCovered'
  <2>1. ASSUME NEW v \in Worker, v # w, pc'[v] \in {"send", "record"}
        PROVE  /\ queue'[v] # <<>>
               /\ RowsOf(Head(queue'[v])) \subseteq locked'[v]
               /\ mine'[v][Head(queue'[v])].state = "processing"
               /\ mine'[v][Head(queue'[v])].attempts > 0
               /\ active'[EndpointOf[Head(queue'[v])]]
               /\ claimed'[v] = generation'[EndpointOf[Head(queue'[v])]]
               /\ pc'[v] = "record" /\ outcome'[v] = "success"
                     => accepted'[Head(queue'[v])] > 0
    BY <1>2, <1>5, <2>1 DEF CallsAreCovered
  <2>2. ASSUME pc'[w] \in {"send", "record"}
        PROVE  /\ queue'[w] # <<>>
               /\ RowsOf(Head(queue'[w])) \subseteq locked'[w]
               /\ mine'[w][Head(queue'[w])].state = "processing"
               /\ mine'[w][Head(queue'[w])].attempts > 0
               /\ active'[EndpointOf[Head(queue'[w])]]
               /\ claimed'[w] = generation'[EndpointOf[Head(queue'[w])]]
               /\ pc'[w] = "send"
    <3>1. /\ mine'[w][d].state = "processing" /\ mine'[w][d].attempts > 0
          /\ pc'[w] = "send"
          /\ queue'[w] = queue[w] /\ active[EndpointOf[d]]
          /\ claimed'[w] = generation[EndpointOf[d]]
      BY <1>4, <2>2
    <3>2. RowsOf(d) \subseteq locked'[w]
      BY <1>5
    <3>3. QED BY <1>1, <1>2, <3>1, <3>2
  <2>3. QED BY <2>1, <2>2 DEF CallsAreCovered, RowsOf
<1>10. OwnRowsFollow'
  <2>1. ASSUME NEW v \in Worker, NEW x \in Delivery, x \in locked'[v], v # w
        PROVE  \/ mine'[v][x].state = rows'[x].state
               \/ /\ rows'[x].state = "pending"
                  /\ \/ mine'[v][x].state = "dead_letter"
                     \/ mine'[v][x].state = "delivered" /\ accepted'[x] > 0
                     \/ /\ mine'[v][x].state = "processing"
                        /\ pc'[v] \in {"send", "record"} /\ x = Head(queue'[v])
    BY <1>2, <1>5, <2>1 DEF OwnRowsFollow
  <2>2. ASSUME NEW x \in Delivery, x \in locked'[w], x # d
        PROVE  \/ mine'[w][x].state = rows'[x].state
               \/ /\ rows'[x].state = "pending"
                  /\ \/ mine'[w][x].state = "dead_letter"
                     \/ mine'[w][x].state = "delivered" /\ accepted'[x] > 0
    BY <1>2, <1>5, <2>2 DEF OwnRowsFollow
  <2>3. \/ mine'[w][d].state = rows'[d].state
        \/ /\ rows'[d].state = "pending"
           /\ \/ mine'[w][d].state = "dead_letter"
              \/ mine'[w][d].state = "delivered" /\ accepted'[d] > 0
              \/ /\ mine'[w][d].state = "processing"
                 /\ pc'[w] \in {"send", "record"} /\ d = Head(queue'[w])
    <3>1. CASE mine'[w][d] = View(w, d)
      BY <1>1, <1>2, <1>8, <3>1 DEF OwnRowsFollow
    <3>2. CASE mine'[w][d] # View(w, d)
      BY <1>2, <1>4, <1>8, <3>2
    <3>3. QED BY <1>4, <3>1, <3>2
  <2>4. QED BY <2>1, <2>2, <2>3 DEF OwnRowsFollow
<1>11. AcceptedIsKnown'
  <2>1. ASSUME NEW x \in Delivery, NEW v \in Worker, Remembers(v, x)
        PROVE  Remembers(v, x)'
    <3>1. CASE v # w
      BY <1>2, <1>5, <2>1, <3>1 DEF Remembers
    <3>2. CASE v = w
      <4>1. x \in locked[w] /\ mine[w][x].state = "delivered"
        BY <1>2, <2>1, <3>2 DEF Remembers
      <4>2. CASE x # d
        BY <1>5, <3>2, <4>1, <4>2 DEF Remembers
      <4>3. CASE x = d
        BY <1>4, <1>5, <1>8, <3>2, <4>1, <4>3 DEF Remembers
      <4>4. QED BY <4>2, <4>3
    <3>3. QED BY <3>1, <3>2
  <2>2. QED BY <1>2, <2>1 DEF AcceptedIsKnown
<1>12. QED BY <1>5, <1>7, <1>9, <1>10, <1>11

-----------------------------------------------------------------------------
\* Nobody has accepted a delivery that is about to be sent, unless a batch of
\* it was rolled back.
LEMMA SendKeepsInv == ASSUME Inv, NEW w \in Worker, Send(w) PROVE Inv'
<1> DEFINE d == Head(queue[w])
<1> USE DEF Inv, Goto
<1>1. /\ d \in Delivery /\ queue[w] # <<>> /\ pc[w] = "send"
      /\ d \in locked[w]
      /\ mine[w][d].state = "processing" /\ mine[w][d].attempts > 0
      /\ RowsOf(d) \subseteq locked[w]
      /\ active[EndpointOf[d]] /\ claimed[w] = generation[EndpointOf[d]]
  BY DEF Send, Typed, CallsAreCovered, RowsOf
<1>2. /\ pc'[w] = "record"
      /\ \A v \in Worker \ {w} : pc'[v] = pc[v] /\ outcome'[v] = outcome[v]
      /\ UNCHANGED <<rows, active, generation, queue, now, mine, locked, claimed,
                     clock, undone>>
  BY DEF Send, Typed, endpoints, bounds
<1>3. /\ outcome' \in [Worker -> Outcome]
      /\ slow' \in [Worker -> Nat]
      /\ pc' \in [Worker -> {"idle", "claim", "send", "record"}]
  BY DEF Send, Typed
<1>4. \/ outcome'[w] # "success" /\ accepted' = accepted
      \/ outcome'[w] = "success" /\ accepted' = Counted(accepted, d)
  BY DEF Send, Typed
<1>5. /\ accepted' \in [Delivery -> 0..MaxAccepted]
      /\ \A x \in Delivery \ {d} : accepted'[x] = accepted[x]
      /\ \A x \in Delivery : accepted[x] > 0 => accepted'[x] > 0
      /\ outcome'[w] = "success" => accepted'[d] > 0
      /\ accepted[d] = 0 => accepted'[d] <= 1
      /\ outcome'[w] # "success" => accepted'[d] = accepted[d]
  <2>1. \A n \in 0..MaxAccepted : /\ Lesser(n + 1, MaxAccepted) \in 0..MaxAccepted
                                  /\ Lesser(n + 1, MaxAccepted) > 0
                                  /\ n = 0 => Lesser(n + 1, MaxAccepted) <= 1
    BY LimitAssumption DEF Lesser
  <2>2. CASE outcome'[w] # "success" /\ accepted' = accepted
    BY <1>1, <2>2, LimitAssumption DEF Typed
  <2>3. CASE outcome'[w] = "success" /\ accepted' = Counted(accepted, d)
    <3>1. accepted' = [accepted EXCEPT ![d] = Lesser(accepted[d] + 1, MaxAccepted)]
      BY <2>3 DEF Counted
    <3>2. accepted[d] \in 0..MaxAccepted
      BY <1>1 DEF Typed
    <3>3. QED BY <1>1, <2>1, <2>3, <3>1, <3>2 DEF Typed
  <2>4. QED BY <1>4, <2>2, <2>3
<1>6. Typed'
  BY <1>2, <1>3, <1>5 DEF Typed
<1>7. LocksExclude'
  BY <1>2 DEF LocksExclude
<1>8. CallsAreCovered'
  <2>1. ASSUME NEW v \in Worker, pc'[v] \in {"send", "record"}
        PROVE  /\ queue[v] # <<>>
               /\ RowsOf(Head(queue[v])) \subseteq locked[v]
               /\ mine[v][Head(queue[v])].state = "processing"
               /\ mine[v][Head(queue[v])].attempts > 0
               /\ active[EndpointOf[Head(queue[v])]]
               /\ claimed[v] = generation[EndpointOf[Head(queue[v])]]
               /\ pc'[v] = "record" /\ outcome'[v] = "success"
                     => accepted'[Head(queue[v])] > 0
    <3>1. CASE v = w
      BY <1>1, <1>5, <3>1
    <3>2. CASE v # w
      <4>1. Head(queue[v]) \in Delivery
        BY <1>2, <2>1, <3>2 DEF CallsAreCovered, Typed
      <4>2. QED BY <1>2, <1>5, <2>1, <3>2, <4>1 DEF CallsAreCovered
    <3>3. QED BY <3>1, <3>2
  <2>2. QED BY <1>2, <2>1 DEF CallsAreCovered, RowsOf
<1>9. OwnRowsFollow'
  <2>1. ASSUME NEW v \in Worker, NEW x \in Delivery, x \in locked[v]
        PROVE  \/ mine[v][x].state = rows[x].state
               \/ /\ rows[x].state = "pending"
                  /\ \/ mine[v][x].state = "dead_letter"
                     \/ mine[v][x].state = "delivered" /\ accepted'[x] > 0
                     \/ /\ mine[v][x].state = "processing"
                        /\ pc'[v] \in {"send", "record"} /\ x = Head(queue[v])
    BY <1>1, <1>2, <1>5, <2>1 DEF OwnRowsFollow
  <2>2. QED BY <1>2, <2>1 DEF OwnRowsFollow
<1>10. AcceptedIsKnown'
  <2>1. ASSUME d \notin undone  PROVE accepted[d] = 0
    <3>1. rows[d].state # "delivered"
      BY <1>1 DEF OwnRowsFollow, Typed, Row, State
    <3>2. \A v \in Worker : ~Remembers(v, d)
      BY <1>1 DEF Remembers, LocksExclude
    <3>3. accepted[d] \in Nat /\ ~(accepted[d] > 0)
      BY <1>1, <2>1, <3>1, <3>2 DEF AcceptedIsKnown, Typed
    <3>4. QED BY <3>3
  <2>2. ASSUME d \notin undone
        PROVE  /\ accepted'[d] <= 1
               /\ accepted'[d] > 0 => Remembers(w, d)'
    BY <1>1, <1>2, <1>5, <2>1, <2>2 DEF Remembers
  <2>3. ASSUME NEW x \in Delivery, NEW v \in Worker, x # d, Remembers(v, x)
        PROVE  Remembers(v, x)'
    BY <1>1, <1>2, <2>3 DEF Remembers
  <2>4. QED BY <1>2, <1>5, <2>2, <2>3 DEF AcceptedIsKnown
<1>11. QED BY <1>6, <1>7, <1>8, <1>9, <1>10

LEMMA RecordKeepsInv == ASSUME Inv, NEW w \in Worker, Record(w) PROVE Inv'
<1> DEFINE d == Head(queue[w])
           row == Recorded(mine[w][d], outcome[w], now[w])
<1> USE DEF Inv, Goto
<1>1. /\ d \in Delivery /\ queue[w] # <<>> /\ pc[w] = "record"
      /\ d \in locked[w]
      /\ mine[w][d].state = "processing" /\ mine[w][d].attempts > 0
      /\ outcome[w] = "success" => accepted[d] > 0
      /\ Tail(queue[w]) \in Seq(Delivery)
  BY DEF Record, Typed, CallsAreCovered, RowsOf
<1>2. /\ mine' = [mine EXCEPT ![w][d] = row]
      /\ pc'[w] = "claim"
      /\ \A v \in Worker \ {w} : /\ pc'[v] = pc[v] /\ outcome'[v] = outcome[v]
                                 /\ queue'[v] = queue[v] /\ mine'[v] = mine[v]
                                 /\ claimed'[v] = claimed[v]
      /\ UNCHANGED <<rows, active, generation, now, locked, clock, accepted,
                     undone>>
  BY DEF Record, Typed, endpoints, bounds, ghosts
<1>3. /\ row \in OwnRow
      /\ row.state \in {"delivered", "dead_letter", "pending"}
      /\ row.state = "delivered" <=> outcome[w] = "success"
  <2>1. mine[w][d] \in OwnRow /\ outcome[w] \in Outcome /\ now[w] \in 0..MaxClock
    BY <1>1 DEF Typed
  <2>2. QED BY <1>1, <2>1, RecordedType
<1>4. /\ mine' \in [Worker -> [Delivery -> OwnRow]]
      /\ mine'[w][d] = row
      /\ \A x \in Delivery \ {d} : mine'[w][x] = mine[w][x]
  BY <1>1, <1>2, <1>3 DEF Typed
<1>5. Typed'
  <2>1. /\ outcome' \in [Worker -> Outcome]
        /\ claimed' \in [Worker -> Nat]
        /\ slow' = slow
        /\ pc' \in [Worker -> {"idle", "claim", "send", "record"}]
        /\ queue' \in [Worker -> Seq(Delivery)]
    BY <1>1 DEF Record, Typed, Outcome
  <2>2. QED BY <1>2, <1>4, <2>1 DEF Typed
<1>6. LocksExclude'
  BY <1>2 DEF LocksExclude
<1>7. CallsAreCovered'
  BY <1>2 DEF CallsAreCovered, RowsOf
<1>8. OwnRowsFollow'
  <2>1. ASSUME NEW v \in Worker, NEW x \in Delivery, x \in locked[v]
        PROVE  \/ mine'[v][x].state = rows[x].state
               \/ /\ rows[x].state = "pending"
                  /\ \/ mine'[v][x].state = "dead_letter"
                     \/ mine'[v][x].state = "delivered" /\ accepted[x] > 0
                     \/ /\ mine'[v][x].state = "processing"
                        /\ pc'[v] \in {"send", "record"} /\ x = Head(queue'[v])
    <3>1. CASE v # w
      BY <1>2, <2>1, <3>1 DEF OwnRowsFollow
    <3>2. CASE v = w /\ x # d
      BY <1>4, <2>1, <3>2 DEF OwnRowsFollow
    <3>3. CASE v = w /\ x = d
      <4>1. rows[d].state = "pending"
        BY <1>1 DEF OwnRowsFollow, Typed, Row, State
      <4>2. QED BY <1>1, <1>3, <1>4, <3>3, <4>1
    <3>4. QED BY <3>1, <3>2, <3>3
  <2>2. QED BY <1>2, <2>1 DEF OwnRowsFollow
<1>9. AcceptedIsKnown'
  <2>1. ASSUME NEW v \in Worker, NEW x \in Delivery, Remembers(v, x)
        PROVE  Remembers(v, x)'
    <3>1. CASE v # w
      BY <1>2, <2>1, <3>1 DEF Remembers
    <3>2. CASE v = w /\ x # d
      BY <1>2, <1>4, <2>1, <3>2 DEF Remembers
    <3>3. CASE v = w /\ x = d
      <4>1. outcome[w] = "success"
        BY <1>1, <2>1, <3>3 DEF Remembers
      <4>2. QED BY <1>1, <1>2, <1>3, <1>4, <3>3, <4>1 DEF Remembers
    <3>4. QED BY <3>1, <3>2, <3>3
  <2>2. QED BY <1>2, <2>1 DEF AcceptedIsKnown
<1>10. QED BY <1>5, <1>6, <1>7, <1>8, <1>9

\* What the end of a batch leaves of it.
LEMMA BatchEnds ==
    ASSUME Inv, NEW w \in Worker, EndBatch(w)
    PROVE  /\ mine' \in [Worker -> [Delivery -> OwnRow]]
           /\ pc' \in [Worker -> {"idle", "claim", "send", "record"}]
           /\ queue' \in [Worker -> Seq(Delivery)]
           /\ now' \in [Worker -> 0..MaxClock]
           /\ locked' \in [Worker -> SUBSET Lockable]
           /\ claimed' \in [Worker -> Nat]
           /\ outcome' \in [Worker -> Outcome]
           /\ slow' \in [Worker -> Nat]
           /\ pc'[w] = "idle" /\ locked'[w] = {}
           /\ \A v \in Worker \ {w} :
                /\ pc'[v] = pc[v] /\ queue'[v] = queue[v] /\ mine'[v] = mine[v]
                /\ locked'[v] = locked[v] /\ claimed'[v] = claimed[v]
                /\ outcome'[v] = outcome[v]
<1>1. Unborn \in OwnRow
  BY LimitAssumption DEF Unborn, OwnRow, State
<1>2. QED BY <1>1, LimitAssumption DEF Inv, Typed, EndBatch, Goto, Outcome

LEMMA RollBackKeepsInv ==
    ASSUME Inv, NEW w \in Worker, RollBack(w), clock' = clock  PROVE Inv'
<1>1. /\ UNCHANGED <<rows, active, generation, accepted>>
      /\ undone' = undone \cup (locked[w] \cap Delivery)
  BY DEF RollBack, endpoints
<1>2. EndBatch(w)
  BY DEF RollBack
<1>3. Typed'
  BY <1>1, <1>2, BatchEnds DEF Inv, Typed
<1>idle. /\ pc'[w] = "idle" /\ locked'[w] = {}
      /\ \A v \in Worker \ {w} :
           /\ pc'[v] = pc[v] /\ queue'[v] = queue[v] /\ mine'[v] = mine[v]
           /\ locked'[v] = locked[v] /\ claimed'[v] = claimed[v]
           /\ outcome'[v] = outcome[v]
  BY <1>2, BatchEnds
<1>4. LocksExclude'
  BY <1>idle DEF Inv, LocksExclude
<1>5. CallsAreCovered'
  BY <1>1, <1>idle DEF Inv, CallsAreCovered, RowsOf
<1>6. OwnRowsFollow'
  BY <1>1, <1>idle DEF Inv, OwnRowsFollow
<1>7. AcceptedIsKnown'
  <2>1. ASSUME NEW d \in Delivery \ undone', NEW v \in Worker, Remembers(v, d)
        PROVE  Remembers(v, d)'
    <3>1. v # w
      BY <1>1, <2>1 DEF Remembers
    <3>2. QED BY <1>2, <2>1, <3>1, BatchEnds DEF Remembers
  <2>2. QED BY <1>1, <2>1 DEF Inv, AcceptedIsKnown
<1>8. QED BY <1>3, <1>4, <1>5, <1>6, <1>7 DEF Inv

LEMMA CommitKeepsInv == ASSUME Inv, NEW w \in Worker, Commit(w) PROVE Inv'
<1>1. /\ UNCHANGED <<active, generation, clock, accepted, undone>>
      /\ pc[w] = "claim" /\ EndBatch(w)
      /\ rows' = [d \in Delivery |-> View(w, d)]
  BY DEF Commit, endpoints, bounds, ghosts
<1>2. ASSUME NEW d \in Delivery
      PROVE  /\ rows'[d] \in Row
             /\ d \notin locked[w] => rows'[d] = rows[d]
             /\ d \in locked[w] => rows'[d].state = mine[w][d].state
  <2>1. CASE d \in locked[w]
    <3>1. rows'[d] = mine[w][d] /\ mine[w][d] \in OwnRow
      BY <1>1, <2>1 DEF View, Inv, Typed
    <3>2. mine[w][d].state \in State
      BY <1>1, <2>1 DEF Inv, OwnRowsFollow, Typed, Row, State
    <3>3. QED BY <2>1, <3>1, <3>2 DEF OwnRow, Row
  <2>2. CASE d \notin locked[w]
    BY <1>1, <2>2 DEF View, Inv, Typed
  <2>3. QED BY <2>1, <2>2
<1>3. Typed'
  <2>1. rows' \in [Delivery -> Row]
    BY <1>1, <1>2
  <2>2. QED BY <1>1, <2>1, BatchEnds DEF Inv, Typed
<1>idle. /\ pc'[w] = "idle" /\ locked'[w] = {}
      /\ \A v \in Worker \ {w} :
           /\ pc'[v] = pc[v] /\ queue'[v] = queue[v] /\ mine'[v] = mine[v]
           /\ locked'[v] = locked[v] /\ claimed'[v] = claimed[v]
           /\ outcome'[v] = outcome[v]
  BY <1>1, BatchEnds
<1>4. LocksExclude'
  BY <1>idle DEF Inv, LocksExclude
<1>5. CallsAreCovered'
  BY <1>1, <1>idle DEF Inv, CallsAreCovered, RowsOf
<1>6. \A v \in Worker \ {w}, d \in Delivery : d \in locked[v] => rows'[d] = rows[d]
  BY <1>2 DEF Inv, LocksExclude
<1>7. OwnRowsFollow'
  BY <1>1, <1>6, <1>idle DEF Inv, OwnRowsFollow
<1>8. AcceptedIsKnown'
  <2>1. ASSUME NEW d \in Delivery, rows[d].state = "delivered"
        PROVE  rows'[d].state = "delivered"
    BY <1>2, <2>1 DEF Inv, OwnRowsFollow
  <2>2. ASSUME NEW d \in Delivery, NEW v \in Worker, Remembers(v, d)
        PROVE  rows'[d].state = "delivered" \/ Remembers(v, d)'
    <3>1. CASE v = w
      BY <1>1, <1>2, <2>2, <3>1 DEF Remembers
    <3>2. CASE v # w
      BY <1>1, <2>2, <3>2, BatchEnds DEF Remembers
    <3>3. QED BY <3>1, <3>2
  <2>3. QED BY <1>1, <2>1, <2>2 DEF Inv, AcceptedIsKnown
<1>9. QED BY <1>3, <1>4, <1>5, <1>7, <1>8 DEF Inv

-----------------------------------------------------------------------------
\* A delivery in nobody's hands and not delivered was never accepted.
LEMMA FreeRows ==
    ASSUME Inv, NEW d \in Delivery \ undone, Free(d), rows[d].state # "delivered"
    PROVE  accepted[d] = 0
<1>1. \A w \in Worker : ~Remembers(w, d)
  BY DEF Free, Remembers
<1>2. ~(accepted[d] > 0)
  BY <1>1 DEF Inv, AcceptedIsKnown
<1>3. QED BY <1>2, LimitAssumption DEF Inv, Typed

\* A new or revived row: nobody holds the delivery.
LEMMA PendingKeepsInv ==
    ASSUME Inv, NEW d \in Delivery, Project(d) \/ Retry(d)  PROVE Inv'
<1>0. clock \in 0..MaxClock /\ "pending" \in State
  BY DEF Inv, Typed, State
<1>1. /\ Free(d) /\ rows[d].state # "delivered"
      /\ UNCHANGED <<active, generation, pc, queue, now, mine, locked, claimed,
                     outcome, slow, clock, accepted, undone>>
      /\ rows' \in [Delivery -> Row]
      /\ \A x \in Delivery \ {d} : rows'[x] = rows[x]
  <2>1. CASE Project(d)
    <3>1. [Unborn EXCEPT !.state = "pending", !.available = clock] \in Row
      BY <1>0 DEF Unborn, Row
    <3>2. QED BY <2>1, <3>1
              DEF Project, RowsOf, Inv, Typed, endpoints, batch, bounds, ghosts
  <2>2. CASE Retry(d)
    <3>1. rows' = [rows EXCEPT ![d] = [rows[d] EXCEPT !.state = "pending",
                                                      !.available = clock]]
      BY <2>2 DEF Retry, Inv, Typed, Row
    <3>2. rows[d] \in Row
      BY DEF Inv, Typed
    <3>3. [rows[d] EXCEPT !.state = "pending", !.available = clock] \in Row
      BY <1>0, <3>2 DEF Row
    <3>4. rows' \in [Delivery -> Row]
      BY <3>1, <3>3 DEF Inv, Typed
    <3>5. \A x \in Delivery \ {d} : rows'[x] = rows[x]
      BY <3>1 DEF Inv, Typed
    <3>6. QED BY <2>2, <3>4, <3>5 DEF Retry, endpoints, batch, ghosts
  <2>3. QED BY <2>1, <2>2
<1>2. Typed'
  BY <1>1 DEF Inv, Typed
<1>3. LocksExclude' /\ CallsAreCovered'
  BY <1>1 DEF Inv, LocksExclude, CallsAreCovered, RowsOf
<1>4. OwnRowsFollow'
  BY <1>1 DEF Inv, OwnRowsFollow, Free
<1>5. AcceptedIsKnown'
  <2>1. d \notin undone => accepted[d] = 0
    BY <1>1, FreeRows
  <2>2. \A x \in Delivery, v \in Worker : Remembers(v, x) => Remembers(v, x)'
    BY <1>1 DEF Remembers
  <2>3. QED BY <1>1, <2>1, <2>2 DEF Inv, AcceptedIsKnown
<1>6. QED BY <1>2, <1>3, <1>4, <1>5 DEF Inv

\* An operator changes an endpoint nobody is calling.
LEMMA OperatorKeepsInv ==
    ASSUME Inv, NEW e \in Endpoint, SetActive(e) \/ Rotate(e)  PROVE Inv'
<1>1. /\ Free(e)
      /\ UNCHANGED <<rows, pc, queue, now, mine, locked, claimed,
                     outcome, slow, clock, accepted, undone>>
      /\ active' \in [Endpoint -> BOOLEAN]
      /\ generation' \in [Endpoint -> Nat]
      /\ \A x \in Endpoint \ {e} : active'[x] = active[x] /\ generation'[x] = generation[x]
  <2>1. CASE SetActive(e)
    BY <2>1 DEF SetActive, Inv, Typed, batch, ghosts
  <2>2. CASE Rotate(e)
    BY <2>2 DEF Rotate, Inv, Typed, batch, ghosts
  <2>3. QED BY <2>1, <2>2
<1>2. Typed'
  BY <1>1 DEF Inv, Typed
<1>3. CallsAreCovered'
  <2>1. ASSUME NEW w \in Worker, pc[w] \in {"send", "record"}
        PROVE  EndpointOf[Head(queue[w])] \in Endpoint \ {e}
    <3>1. Head(queue[w]) \in Delivery
      BY <2>1 DEF Inv, Typed, CallsAreCovered
    <3>2. EndpointOf[Head(queue[w])] \in locked[w]
      BY <2>1 DEF Inv, CallsAreCovered, RowsOf
    <3>3. QED BY <1>1, <3>1, <3>2, EndpointAssumption DEF Free
  <2>2. QED BY <1>1, <2>1 DEF Inv, CallsAreCovered, RowsOf
<1>4. LocksExclude' /\ OwnRowsFollow' /\ AcceptedIsKnown'
  BY <1>1 DEF Inv, LocksExclude, OwnRowsFollow, AcceptedIsKnown, Remembers
<1>5. QED BY <1>2, <1>3, <1>4 DEF Inv

LEMMA TimeKeepsInv ==
    ASSUME Inv, clock' \in 0..MaxClock,
           UNCHANGED <<rows, endpoints, pc, batch, ghosts>>
    PROVE  Inv'
BY DEF Inv, Typed, LocksExclude, CallsAreCovered, RowsOf, OwnRowsFollow,
       AcceptedIsKnown, Remembers, endpoints, batch, ghosts

LEMMA NextKeepsInv == Inv /\ [Next]_vars => Inv'
<1> SUFFICES ASSUME Inv, [Next]_vars  PROVE Inv'
  OBVIOUS
<1>1. ASSUME NEW w \in Worker, Step(w)  PROVE Inv'
  <2>1. CASE Start(w) \/ Skip(w)
    BY <2>1, ListingKeepsInv
  <2>2. CASE PassOver(w) \/ ClaimInactive(w) \/ Claim(w)
    BY <2>2, ClaimingKeepsInv
  <2>3. CASE ClaimRaises(w) \/ Killed(w)
    BY <2>3, RollBackKeepsInv DEF ClaimRaises, Killed, bounds
  <2>4. CASE Send(w)
    BY <2>4, SendKeepsInv
  <2>5. CASE Record(w)
    BY <2>5, RecordKeepsInv
  <2>6. CASE Commit(w)
    BY <2>6, CommitKeepsInv
  <2>7. QED BY <1>1, <2>1, <2>2, <2>3, <2>4, <2>5, <2>6 DEF Step
<1>2. ASSUME NEW w \in Worker, Crash(w)  PROVE Inv'
  BY <1>2, RollBackKeepsInv DEF Crash
<1>3. ASSUME NEW d \in Delivery, Project(d) \/ Retry(d)  PROVE Inv'
  BY <1>3, PendingKeepsInv
<1>4. ASSUME NEW e \in Endpoint, SetActive(e) \/ Rotate(e)  PROVE Inv'
  BY <1>4, OperatorKeepsInv
<1>5. CASE Tick
  BY <1>5, TimeKeepsInv, LimitAssumption DEF Tick, Inv, Typed
<1>6. CASE UNCHANGED vars
  BY <1>6, TimeKeepsInv DEF vars, Inv, Typed, endpoints, batch, ghosts
<1>7. QED BY <1>1, <1>2, <1>3, <1>4, <1>5, <1>6 DEF Next

-----------------------------------------------------------------------------
\* The bounds on workers that die and on operators are kept.
Bounded == crashes \in 0..MaxCrashes /\ admin \in 0..MaxAdmin

LEMMA InitBounded == Init => Bounded
BY LimitAssumption DEF Init, Bounded

LEMMA NextKeepsBounded == Bounded /\ [Next]_vars => Bounded'
<1> SUFFICES ASSUME Bounded, [Next]_vars  PROVE Bounded'
  OBVIOUS
<1> USE LimitAssumption DEF Bounded
<1>1. ASSUME NEW w \in Worker, Step(w)  PROVE UNCHANGED <<crashes, admin>>
  BY <1>1, Zenon
     DEF Step, Start, Skip, PassOver, ClaimInactive, Claim, ClaimRaises, Send,
         Record, Commit, Killed, bounds
<1>2. ASSUME NEW w \in Worker, Crash(w)  PROVE Bounded'
  BY <1>2 DEF Crash
<1>3. ASSUME NEW d \in Delivery, Project(d) \/ Retry(d)  PROVE Bounded'
  BY <1>3 DEF Project, Retry, Administer, bounds
<1>4. ASSUME NEW e \in Endpoint, SetActive(e) \/ Rotate(e)  PROVE Bounded'
  BY <1>4 DEF SetActive, Rotate, Administer
<1>5. CASE Tick
  BY <1>5 DEF Tick
<1>6. CASE UNCHANGED vars
  BY <1>6 DEF vars
<1>7. QED BY <1>1, <1>2, <1>3, <1>4, <1>5, <1>6 DEF Next

\* The variables keep their types: a worker always finds the row it calls for at
\* the head of its queue, and the time a failed attempt leaves in it is one
\* _retry_delay can produce (a row is only recorded after an attempt was counted).
THEOREM TypesAreKept == Spec => []TypeOK
<1>1. Inv /\ Bounded => TypeOK
  BY DEF Inv, Typed, Bounded, TypeOK
<1>2. QED BY InitInv, NextKeepsInv, InitBounded, NextKeepsBounded, <1>1, PTL
          DEF Spec

\* A request that is about to leave goes to an active endpoint and is signed
\* with its current key (_claim_delivery, set_webhook_endpoint_active and
\* rotate_webhook_secret).
THEOREM CallsAreCurrent == Spec => []CallIsCurrent
<1>1. Inv => CallIsCurrent
  BY DEF Inv, CallsAreCovered, CallIsCurrent
<1>2. QED BY InitInv, NextKeepsInv, <1>1, PTL DEF Spec

\* Without a rolled back batch an endpoint accepts a delivery at most once
\* (dispatch_due_webhooks under the task's transaction).
THEOREM NothingIsAcceptedTwice == Spec => []AcceptedOnce
<1>1. Inv => AcceptedOnce
  BY DEF Inv, AcceptedIsKnown, AcceptedOnce
<1>2. QED BY InitInv, NextKeepsInv, <1>1, PTL DEF Spec

-----------------------------------------------------------------------------
(* The dispatcher implements AtLeastOnce. *)

States == [d \in Delivery |-> rows[d].state]
Received == {d \in Delivery : accepted[d] > 0}

\* Rows move as the promise allows.
MovesAreAllowed ==
    \A d \in Delivery :
        \/ rows'[d].state = rows[d].state
        \/ rows[d].state = "absent" /\ rows'[d].state = "pending"
        \/ rows[d].state = "pending" /\ rows'[d].state = "dead_letter"
        \/ rows[d].state = "pending" /\ rows'[d].state = "delivered" /\ accepted[d] > 0
        \/ rows[d].state = "dead_letter" /\ rows'[d].state = "pending"

LEMMA Moving ==
    ASSUME Inv, Inv', UNCHANGED accepted, MovesAreAllowed  PROVE Promise!Move
<1>1. States' \in [Delivery -> Promise!State]
  BY DEF Inv, Typed, Row, State, States, Promise!State
<1>2. \A d \in Delivery : Promise!Allowed(d, States'[d])
  BY DEF MovesAreAllowed, Promise!Allowed, States
<1>3. UNCHANGED Received
  BY DEF Received
<1>4. QED BY <1>1, <1>2, <1>3 DEF Promise!Move, States, Received

LEMMA CommitMoves == ASSUME Inv, NEW w \in Worker, Commit(w) PROVE MovesAreAllowed
<1> SUFFICES ASSUME NEW d \in Delivery
             PROVE  \/ rows'[d].state = rows[d].state
                    \/ /\ rows[d].state = "pending"
                       /\ \/ rows'[d].state = "dead_letter"
                          \/ rows'[d].state = "delivered" /\ accepted[d] > 0
  BY DEF MovesAreAllowed
<1>1. rows'[d] = View(w, d) /\ pc[w] = "claim"
  BY DEF Commit
<1>2. QED BY <1>1 DEF View, Inv, OwnRowsFollow

\* A call that is accepted hands over a delivery that is still promised.
LEMMA SendHandsOver ==
    ASSUME Inv, NEW w \in Worker, Send(w)
    PROVE  \/ \E items \in SUBSET Delivery : Promise!HandOver(items)
           \/ UNCHANGED <<rows, accepted>>
<1> DEFINE d == Head(queue[w])
<1>1. /\ d \in Delivery /\ rows[d].state = "pending"
      /\ rows' = rows
  <2>1. /\ d \in Delivery /\ d \in locked[w] /\ rows' = rows
        /\ mine[w][d].state = "processing"
    BY DEF Send, Inv, Typed, CallsAreCovered, RowsOf
  <2>2. rows[d].state # "processing"
    BY <2>1 DEF Inv, Typed, Row, State
  <2>3. QED BY <2>1, <2>2 DEF Inv, OwnRowsFollow
<1>2. accepted' = accepted \/ accepted' = Counted(accepted, d)
  BY DEF Send
<1>3. CASE accepted' = Counted(accepted, d)
  <2>1. Received' = Received \cup {d}
    BY <1>1, <1>3, LimitAssumption DEF Received, Counted, Lesser, Inv, Typed
  <2>2. States[d] = "pending" /\ States' = States
    BY <1>1 DEF States
  <2>3. PICK c \in Delivery : c = d
    BY <1>1
  <2>4. Promise!HandOver({c})
    BY <2>1, <2>2, <2>3 DEF Promise!HandOver, States, Received
  <2>5. {c} \in SUBSET Delivery
    OBVIOUS
  <2>6. QED BY <2>4, <2>5
<1>4. QED BY <1>1, <1>2, <1>3

\* No other step of a worker, and none of an operator but the retry, changes a
\* committed row or makes a call.
LEMMA OthersStutter ==
    ASSUME NEW w \in Worker,
           \/ Start(w) \/ Skip(w) \/ PassOver(w) \/ ClaimInactive(w) \/ Claim(w)
           \/ ClaimRaises(w) \/ Record(w) \/ Killed(w) \/ Crash(w)
    PROVE  UNCHANGED <<rows, accepted>>
BY DEF Start, Skip, PassOver, ClaimInactive, Claim, ClaimRaises, Record, Killed,
       Crash, RollBack, ghosts

LEMMA NextIsPromised == Inv /\ [Next]_vars => [Promise!Next]_(Promise!promise)
<1> SUFFICES ASSUME Inv, [Next]_vars  PROVE [Promise!Next]_(Promise!promise)
  OBVIOUS
<1>1. Inv'
  BY NextKeepsInv
<1>2. ASSUME UNCHANGED <<rows, accepted>>  PROVE UNCHANGED Promise!promise
  BY <1>2 DEF Promise!promise
<1>3. ASSUME NEW w \in Worker, Step(w) \/ Crash(w)
      PROVE  [Promise!Next]_(Promise!promise)
  <2>1. CASE Commit(w)
    <3>1. Promise!Move
      BY <1>1, <2>1, CommitMoves, Moving DEF Commit, ghosts
    <3>2. QED BY <3>1 DEF Promise!Next
  <2>2. CASE Send(w)
    BY <1>2, <2>2, SendHandsOver DEF Promise!Next
  <2>3. CASE ~Commit(w) /\ ~Send(w)
    BY <1>2, <1>3, <2>3, OthersStutter DEF Step
  <2>4. QED BY <2>1, <2>2, <2>3
<1>4. ASSUME NEW d \in Delivery, Project(d) \/ Retry(d)
      PROVE  [Promise!Next]_(Promise!promise)
  <2>1. MovesAreAllowed /\ UNCHANGED accepted
    <3>1. \/ rows[d].state = "absent" /\ rows'[d].state = "pending"
          \/ rows[d].state = "dead_letter" /\ rows'[d].state = "pending"
      <4>1. CASE Project(d)
        BY <4>1 DEF Project, Inv, Typed, Unborn
      <4>2. CASE Retry(d)
        <5>1. rows'[d] = [rows[d] EXCEPT !.state = "pending", !.available = clock]
          BY <4>2 DEF Retry, Inv, Typed
        <5>2. rows[d] \in Row
          BY DEF Inv, Typed
        <5>3. QED BY <4>2, <5>1, <5>2 DEF Retry, Row
      <4>3. QED BY <1>4, <4>1, <4>2
    <3>2. /\ \A x \in Delivery \ {d} : rows'[x].state = rows[x].state
          /\ UNCHANGED accepted
      BY <1>4 DEF Project, Retry, Inv, Typed, Row, ghosts
    <3>3. QED BY <3>1, <3>2 DEF MovesAreAllowed
  <2>2. QED BY <1>1, <2>1, Moving DEF Promise!Next
<1>5. CASE \/ \E e \in Endpoint : SetActive(e) \/ Rotate(e)
           \/ Tick \/ UNCHANGED vars
  BY <1>2, <1>5 DEF SetActive, Rotate, Tick, vars, ghosts
<1>6. QED BY <1>3, <1>4, <1>5 DEF Next

LEMMA InitIsPromised == Init => Promise!Init
BY DEF Init, Unborn, Promise!Init

\* Whatever dies, is killed, raises or is retried, the dispatcher keeps the
\* at-least-once promise.
THEOREM PromiseIsImplemented == Spec => ImplementsPromise
BY InitInv, NextKeepsInv, InitIsPromised, NextIsPromised, PTL
   DEF Spec, ImplementsPromise, Promise!Spec

=============================================================================
