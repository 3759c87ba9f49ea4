------------------------ MODULE NotificationEmailProofs ------------------------
(***************************************************************************)
(* The mail dispatcher keeps its safety invariants and implements          *)
(* AtLeastOnce for any number of workers, accounts, clients and rows, any  *)
(* preferences and any limits on attempts, digests, batches and mails.     *)
(***************************************************************************)
EXTENDS NotificationEmail, FiniteCounting, SequenceTheorems, TLAPS

Lockable == Delivery \cup Recipient \cup Organization

\* The times at which a row can become due.
Times == 0..MaxClock
         \cup {Lesser(t + RetryDelay(n), MaxClock) : t \in 0..MaxClock, n \in Nat}
         \cup {Lesser(NextDeliveryAt(p, c, t), MaxClock) :
                 p \in Wish, c \in 0..MaxClock, t \in 0..MaxClock}

RowOf(states) == [state : states, attempts : Nat, available : Times,
                  created : 0..MaxClock, retries : Nat]
CommittedRows == RowOf(State)
OwnRows == RowOf(State \cup {"processing"})

Group == Seq(Delivery) \ {<<>>}

Typed ==
    /\ rows \in [Delivery -> CommittedRows]
    /\ active \in [Recipient -> BOOLEAN]
    /\ wish \in [Recipient -> Wish]
    /\ pc \in [Worker -> {"idle", "batch", "record"}]
    /\ queue \in [Worker -> Seq(Delivery)]
    /\ now \in [Worker -> 0..MaxClock]
    /\ mine \in [Worker -> [Delivery -> OwnRows]]
    /\ locked \in [Worker -> SUBSET Lockable]
    /\ grouped \in [Worker -> Seq(Group)]
    /\ outcome \in [Worker -> Outcome]
    /\ clock \in 0..MaxClock
    /\ accepted \in [Delivery -> 0..MaxAccepted]
    /\ undone \subseteq Delivery

LocksExclude == \A v, w \in Worker : v # w => locked[v] \cap locked[w] = {}

\* Every recipient has one group of claims, and no claim is in it twice.
Sorted(g) ==
    /\ \A i \in DOMAIN g : \A k \in DOMAIN g[i] :
          RecipientOf[g[i][k]] = RecipientOf[g[i][1]]
    /\ \A i \in DOMAIN g : \A k, l \in DOMAIN g[i] : g[i][k] = g[i][l] => k = l
    /\ \A i, j \in DOMAIN g : RecipientOf[g[i][1]] = RecipientOf[g[j][1]] => i = j

Members(g) == {d \in Delivery : \E i \in DOMAIN g : \E k \in DOMAIN g[i] : g[i][k] = d}

\* A claim that waits for its mail or its answer is locked with its account and
\* client, and what the claim read of the account still holds.
ClaimsAreCovered ==
    \A w \in Worker :
        /\ Sorted(grouped[w])
        /\ \A d \in Members(grouped[w]) :
              /\ RowsOf(d) \subseteq locked[w]
              /\ mine[w][d].state = "processing"
              /\ active[RecipientOf[d]]
        /\ pc[w] = "record" =>
              /\ grouped[w] # <<>>
              /\ outcome[w] = "success" => \A d \in Addressed(w) : accepted[d] > 0

\* How a locked row may differ from the committed one.
OwnRowsFollow ==
    \A w \in Worker, d \in Delivery : d \in locked[w] =>
        \/ mine[w][d].state = rows[d].state
        \/ /\ rows[d].state = "pending"
           /\ \/ mine[w][d].state \in {"dead_letter", "suppressed"}
              \/ mine[w][d].state = "delivered" /\ accepted[d] > 0
              \/ mine[w][d].state = "processing" /\ d \in Members(grouped[w])

\* Worker w has yet to commit, or to record, that d was accepted.
Remembers(w, d) ==
    /\ d \in locked[w]
    /\ \/ mine[w][d].state = "delivered"
       \/ pc[w] = "record" /\ d \in Addressed(w) /\ outcome[w] = "success"

\* An accepted row whose batches all committed, or still run, is not forgotten:
\* nobody can claim it again.
AcceptedIsKnown ==
    \A d \in Delivery \ undone :
        /\ accepted[d] <= 1
        /\ accepted[d] > 0 => \/ rows[d].state = "delivered"
                              \/ \E w \in Worker : Remembers(w, d)

Inv == /\ Typed /\ LocksExclude /\ ClaimsAreCovered /\ OwnRowsFollow
       /\ AcceptedIsKnown

-----------------------------------------------------------------------------
(* Groups of claims. *)

\* A claim is filed with the others of its recipient, or begins a group.
LEMMA FiledGroups ==
    ASSUME NEW g \in Seq(Group), Sorted(g), NEW d \in Delivery, d \notin Members(g)
    PROVE  /\ Filed(g, d) \in Seq(Group) /\ Sorted(Filed(g, d))
           /\ Members(Filed(g, d)) = Members(g) \cup {d}
<1> DEFINE f == Filed(g, d)
           Mine(i) == RecipientOf[g[i][1]] = RecipientOf[d]
<1>1. /\ Len(g) \in Nat /\ DOMAIN g = 1..Len(g)
      /\ \A i \in DOMAIN g : /\ g[i] \in Seq(Delivery) /\ g[i] # <<>>
                             /\ Len(g[i]) \in Nat /\ DOMAIN g[i] = 1..Len(g[i])
  BY DEF Group
<1>2. \A i \in DOMAIN g : Len(g[i]) > 0 /\ 1 \in DOMAIN g[i] /\ g[i][1] \in Delivery
  BY <1>1
<1>3. ASSUME NEW i \in DOMAIN g
      PROVE  LET a == Append(g[i], d) IN
             /\ a \in Group /\ DOMAIN a = 1..(Len(g[i]) + 1)
             /\ \A k \in DOMAIN g[i] : a[k] = g[i][k]
             /\ a[Len(g[i]) + 1] = d /\ a[1] = g[i][1]
             /\ \A k \in DOMAIN a : k \in DOMAIN g[i] \/ k = Len(g[i]) + 1
  <2>1. g[i] \in Seq(Delivery) /\ Len(g[i]) \in Nat /\ Len(g[i]) > 0
    BY <1>1, <1>2
  <2>2. Len(Append(g[i], d)) = Len(g[i]) + 1 /\ Append(g[i], d) \in Seq(Delivery)
    BY <2>1
  <2> QED
    BY <1>1, <2>1, <2>2 DEF Group
<1>4. \A i \in DOMAIN g : \A k \in DOMAIN g[i] : g[i][k] # d
  BY DEF Members
<1>5. CASE \E i \in DOMAIN g : Mine(i)
  <2>1. f = [i \in DOMAIN g |-> IF Mine(i) THEN Append(g[i], d) ELSE g[i]]
    BY <1>5 DEF Filed
  <2>2. f \in Seq(Group)
    <3>1. \A i \in 1..Len(g) : (IF Mine(i) THEN Append(g[i], d) ELSE g[i]) \in Group
      BY <1>1, <1>3
    <3>2. f \in [1..Len(g) -> Group]
      BY <1>1, <2>1, <3>1
    <3> QED
      BY <1>1, <3>2
  <2>3. /\ DOMAIN f = DOMAIN g
        /\ \A i \in DOMAIN g : Mine(i) => f[i] = Append(g[i], d)
        /\ \A i \in DOMAIN g : ~Mine(i) => f[i] = g[i]
    BY <2>1
  <2> HIDE DEF f
  <2>4. ASSUME NEW i \in DOMAIN g
        PROVE  /\ f[i][1] = g[i][1] /\ DOMAIN g[i] \subseteq DOMAIN f[i]
               /\ \A k \in DOMAIN g[i] : f[i][k] = g[i][k]
               /\ \A k \in DOMAIN f[i] :
                    k \in DOMAIN g[i] \/ (k = Len(g[i]) + 1 /\ Mine(i) /\ f[i][k] = d)
    <3>1. CASE Mine(i)
      <4>1. f[i] = Append(g[i], d) /\ i \in DOMAIN g
        BY <2>3, <2>4, <3>1
      <4>2. /\ DOMAIN f[i] = 1..(Len(g[i]) + 1)
            /\ \A k \in DOMAIN g[i] : f[i][k] = g[i][k]
            /\ f[i][Len(g[i]) + 1] = d /\ f[i][1] = g[i][1]
            /\ \A k \in DOMAIN f[i] : k \in DOMAIN g[i] \/ k = Len(g[i]) + 1
        BY <1>3, <4>1
      <4>3. DOMAIN g[i] = 1..Len(g[i]) /\ Len(g[i]) \in Nat
        BY <1>1, <4>1
      <4> QED
        BY ONLY <3>1, <4>2, <4>3
    <3>2. CASE ~Mine(i)
      BY <2>3, <3>2
    <3> QED
      BY <3>1, <3>2
  <2>5. Sorted(f)
    <3>1. ASSUME NEW i \in DOMAIN f, NEW k \in DOMAIN f[i]
          PROVE  RecipientOf[f[i][k]] = RecipientOf[f[i][1]]
      BY <2>3, <2>4 DEF Sorted
    <3>2. ASSUME NEW i \in DOMAIN f, NEW k \in DOMAIN f[i], NEW l \in DOMAIN f[i],
                 f[i][k] = f[i][l]
          PROVE  k = l
      <4>1. i \in DOMAIN g
        BY <2>3
      <4>2. CASE k \in DOMAIN g[i] /\ l \in DOMAIN g[i]
        BY <2>4, <3>2, <4>1, <4>2 DEF Sorted
      <4>3. CASE k \notin DOMAIN g[i] \/ l \notin DOMAIN g[i]
        BY <1>4, <2>4, <3>2, <4>1, <4>3
      <4> QED
        BY <4>2, <4>3
    <3>3. ASSUME NEW i \in DOMAIN f, NEW j \in DOMAIN f,
                 RecipientOf[f[i][1]] = RecipientOf[f[j][1]]
          PROVE  i = j
      BY <2>3, <2>4, <3>3 DEF Sorted
    <3> QED
      BY <3>1, <3>2, <3>3 DEF Sorted
  <2>6. Members(f) = Members(g) \cup {d}
    <3>1. ASSUME NEW x \in Members(f) PROVE x \in Members(g) \cup {d}
      BY <2>3, <2>4, <3>1 DEF Members
    <3>2. ASSUME NEW x \in Members(g) PROVE x \in Members(f)
      BY <2>3, <2>4, <3>2 DEF Members
    <3>3. d \in Members(f)
      <4>1. PICK i \in DOMAIN g : Mine(i)
        BY <1>5
      <4>2. f[i][Len(g[i]) + 1] = d /\ Len(g[i]) + 1 \in DOMAIN f[i] /\ i \in DOMAIN f
        BY <1>1, <1>3, <2>3, <4>1
      <4> QED
        BY <4>2 DEF Members
    <3> QED
      BY <3>1, <3>2, <3>3
  <2> QED
    BY <2>2, <2>5, <2>6 DEF f
<1>6. CASE ~\E i \in DOMAIN g : Mine(i)
  <2>1. f = Append(g, <<d>>)
    BY <1>6 DEF Filed
  <2>2. <<d>> \in Group /\ DOMAIN <<d>> = {1} /\ <<d>>[1] = d
    <3>1. <<d>> \in Seq(Delivery) /\ Len(<<d>>) = 1
      OBVIOUS
    <3> QED
      BY <3>1 DEF Group
  <2>3. /\ f \in Seq(Group) /\ DOMAIN f = 1..(Len(g) + 1)
        /\ \A i \in DOMAIN g : f[i] = g[i]
        /\ f[Len(g) + 1] = <<d>>
        /\ \A i \in DOMAIN f : i \in DOMAIN g \/ i = Len(g) + 1
        /\ Len(g) + 1 \in DOMAIN f /\ Len(g) + 1 \notin DOMAIN g
        /\ DOMAIN g \subseteq DOMAIN f
    BY <1>1, <2>1, <2>2
  <2> HIDE DEF f
  <2>4. Sorted(f)
    <3>1. ASSUME NEW i \in DOMAIN f, NEW k \in DOMAIN f[i]
          PROVE  RecipientOf[f[i][k]] = RecipientOf[f[i][1]]
      BY <2>2, <2>3 DEF Sorted
    <3>2. ASSUME NEW i \in DOMAIN f, NEW k \in DOMAIN f[i], NEW l \in DOMAIN f[i],
                 f[i][k] = f[i][l]
          PROVE  k = l
      BY <2>2, <2>3, <3>2 DEF Sorted
    <3>3. ASSUME NEW i \in DOMAIN f, NEW j \in DOMAIN f,
                 RecipientOf[f[i][1]] = RecipientOf[f[j][1]]
          PROVE  i = j
      BY <1>6, <2>2, <2>3, <3>3 DEF Sorted
    <3> QED
      BY <3>1, <3>2, <3>3 DEF Sorted
  <2>5. Members(f) = Members(g) \cup {d}
    <3>1. ASSUME NEW x \in Members(f) PROVE x \in Members(g) \cup {d}
      BY <2>2, <2>3, <3>1 DEF Members
    <3>2. ASSUME NEW x \in Members(g) PROVE x \in Members(f)
      BY <2>3, <3>2 DEF Members
    <3>3. d \in Members(f)
      BY <2>2, <2>3 DEF Members
    <3> QED
      BY <3>1, <3>2, <3>3
  <2> QED
    BY <2>3, <2>4, <2>5 DEF f
<1> QED
  BY <1>5, <1>6

\* The claims of the next digest.
NextOf(g) ==
    LET letter == SubSeq(Head(g), 1, Lesser(Len(Head(g)), MaxDigest))
    IN  {d \in Delivery : \E i \in DOMAIN letter : letter[i] = d}

\* A digest is of one recipient, and what it leaves is sorted as before.
LEMMA LettersTaken ==
    ASSUME NEW g \in Seq(Group), g # <<>>, Sorted(g)
    PROVE  /\ NextOf(g) \subseteq Members(g)
           /\ \A d, e \in NextOf(g) : RecipientOf[d] = RecipientOf[e]
           /\ LeftOver(g) \in Seq(Group) /\ Sorted(LeftOver(g))
           /\ Members(LeftOver(g)) = Members(g) \ NextOf(g)
<1> DEFINE taken == NextOf(g)
           h == Head(g)
           n == Lesser(Len(h), MaxDigest)
           letter == SubSeq(h, 1, n)
           o == LeftOver(g)
<1>1. /\ Len(g) \in Nat /\ Len(g) > 0 /\ DOMAIN g = 1..Len(g) /\ h = g[1]
      /\ \A i \in DOMAIN g : /\ g[i] \in Group /\ g[i] \in Seq(Delivery) /\ g[i] # <<>>
                             /\ Len(g[i]) \in Nat /\ DOMAIN g[i] = 1..Len(g[i])
  BY DEF Group
<1>2. /\ h \in Seq(Delivery) /\ Len(h) \in Nat /\ Len(h) > 0 /\ DOMAIN h = 1..Len(h)
      /\ 1 \in DOMAIN g
  BY <1>1
<1>0. MaxDigest \in Nat /\ MaxDigest > 0
  BY LimitAssumption
<1>3. n \in 1..Len(h) /\ n <= MaxDigest /\ n \in Nat /\ (Len(h) > MaxDigest => n = MaxDigest)
      /\ (Len(h) <= MaxDigest => n = Len(h))
  BY <1>2, <1>0 DEF Lesser
<1>4. taken = {d \in Delivery : \E k \in 1..n : h[k] = d}
  <2>1. DOMAIN letter = 1..n /\ \A k \in 1..n : letter[k] = h[k]
    BY <1>2, <1>3
  <2> QED
    BY <2>1 DEF NextOf
<1> HIDE DEF h, n, letter, taken
<1>5. \A d \in taken : /\ RecipientOf[d] = RecipientOf[g[1][1]]
                       /\ \E k \in 1..n : k \in DOMAIN g[1] /\ g[1][k] = d
  <2>1. SUFFICES ASSUME NEW d \in taken
                 PROVE  /\ RecipientOf[d] = RecipientOf[g[1][1]]
                        /\ \E k \in 1..n : k \in DOMAIN g[1] /\ g[1][k] = d
    OBVIOUS
  <2>2. PICK k \in 1..n : h[k] = d
    BY <1>4
  <2>3. k \in DOMAIN g[1] /\ g[1][k] = d
    BY <1>1, <1>2, <1>3, <2>2
  <2> QED
    BY <1>2, <2>3 DEF Sorted
<1>6. taken \subseteq Members(g)
  BY <1>2, <1>4, <1>5 DEF Members
<1>7. CASE Len(h) > MaxDigest
  <2> DEFINE rest == SubSeq(h, MaxDigest + 1, Len(h))
  <2>1. /\ rest \in Seq(Delivery) /\ Len(rest) = Len(h) - MaxDigest
        /\ DOMAIN rest = 1..(Len(h) - MaxDigest)
        /\ \A k \in 1..(Len(h) - MaxDigest) : rest[k] = h[k + MaxDigest]
    <3>1. /\ MaxDigest + 1 \in Int /\ Len(h) \in Int /\ MaxDigest + 1 <= Len(h)
          /\ \A k \in (MaxDigest + 1)..Len(h) : h[k] \in Delivery
      BY <1>2, <1>7, <1>0
    <3>2. /\ rest \in Seq(Delivery) /\ Len(rest) = Len(h) - (MaxDigest + 1) + 1
          /\ \A k \in 1..(Len(h) - (MaxDigest + 1) + 1) :
                rest[k] = h[(MaxDigest + 1) + k - 1]
      BY <3>1, SubSeqProperties
    <3>3. Len(h) - (MaxDigest + 1) + 1 = Len(h) - MaxDigest
      BY <1>2, <1>0
    <3>4. \A k \in 1..(Len(h) - MaxDigest) : (MaxDigest + 1) + k - 1 = k + MaxDigest
      BY <1>2, <1>0
    <3> QED
      BY <3>2, <3>3, <3>4
  <2> HIDE DEF rest
  <2>2. rest \in Group
    <3>1. Len(rest) > 0
      BY <1>2, <1>7, <1>0, <2>1
    <3>2. rest # <<>>
      BY <3>1
    <3> QED
      BY <2>1, <3>2 DEF Group
  <2>3. o = <<rest>> \o Tail(g)
    BY <1>7 DEF LeftOver, h, rest
  <2> HIDE DEF o
  <2>4. /\ o \in Seq(Group) /\ DOMAIN o = DOMAIN g
        /\ o[1] = rest /\ \A i \in DOMAIN g \ {1} : o[i] = g[i]
    <3>1. <<rest>> \in Seq(Group) /\ Len(<<rest>>) = 1 /\ <<rest>>[1] = rest
      BY <2>2
    <3>2. /\ Tail(g) \in Seq(Group) /\ Len(Tail(g)) = Len(g) - 1
          /\ \A i \in 1..(Len(g) - 1) : Tail(g)[i] = g[i + 1]
      BY <1>1
    <3>3. /\ o \in Seq(Group) /\ Len(o) = Len(g) /\ o[1] = rest
          /\ \A i \in 2..Len(g) : o[i] = Tail(g)[i - 1]
      BY <1>1, <2>3, <3>1, <3>2
    <3> QED
      BY <1>1, <3>2, <3>3
  <2>5. ASSUME NEW k \in DOMAIN rest
        PROVE  k + MaxDigest \in DOMAIN g[1] /\ rest[k] = g[1][k + MaxDigest]
               /\ k \in Nat /\ k + MaxDigest > n
    BY <1>1, <1>2, <1>3, <1>7, <2>1, <1>0
  <2>6. 1 \in DOMAIN rest
    BY <1>2, <1>7, <2>1, <1>0
  <2>7. \A i \in DOMAIN o : \A k \in DOMAIN o[i] :
           RecipientOf[o[i][k]] = RecipientOf[g[i][1]]
    BY <1>2, <2>4, <2>5 DEF Sorted
  <2>8. \A i \in DOMAIN o : 1 \in DOMAIN o[i]
    BY <1>1, <2>4, <2>6
  <2>9. Sorted(o)
    <3>1. ASSUME NEW i \in DOMAIN o, NEW k \in DOMAIN o[i]
          PROVE  RecipientOf[o[i][k]] = RecipientOf[o[i][1]]
      BY <2>7, <2>8
    <3>2. ASSUME NEW i \in DOMAIN o, NEW k \in DOMAIN o[i], NEW l \in DOMAIN o[i],
                 o[i][k] = o[i][l]
          PROVE  k = l
      <4>1. CASE i = 1
        <5>1. /\ k + MaxDigest \in DOMAIN g[1] /\ l + MaxDigest \in DOMAIN g[1]
              /\ g[1][k + MaxDigest] = g[1][l + MaxDigest] /\ k \in Nat /\ l \in Nat
          BY <2>4, <2>5, <3>2, <4>1
        <5>2. k + MaxDigest = l + MaxDigest
          BY <1>2, <5>1 DEF Sorted
        <5> QED
          BY <5>1, <5>2, <1>0
      <4>2. CASE i # 1
        BY <2>4, <3>2, <4>2 DEF Sorted
      <4> QED
        BY <4>1, <4>2
    <3>3. ASSUME NEW i \in DOMAIN o, NEW j \in DOMAIN o,
                 RecipientOf[o[i][1]] = RecipientOf[o[j][1]]
          PROVE  i = j
      BY <2>4, <2>7, <2>8, <3>3 DEF Sorted
    <3> QED
      BY <3>1, <3>2, <3>3 DEF Sorted
  <2>10. ASSUME NEW x \in Members(o)  PROVE x \in Members(g) \ taken
    <3>0. PICK i \in DOMAIN o : \E k \in DOMAIN o[i] : o[i][k] = x
      BY DEF Members
    <3>1. PICK k \in DOMAIN o[i] : o[i][k] = x
      BY <3>0
    <3>2. CASE i = 1
      <4>1. /\ k + MaxDigest \in DOMAIN g[1] /\ g[1][k + MaxDigest] = x
            /\ k + MaxDigest > n
        BY <2>4, <2>5, <3>1, <3>2
      <4>2. x \notin taken
        <5>1. ASSUME NEW l \in 1..n, l \in DOMAIN g[1], g[1][l] = x  PROVE FALSE
          <6>1. l = k + MaxDigest
            BY <1>2, <4>1, <5>1 DEF Sorted
          <6> QED
            BY <1>3, <4>1, <6>1
        <5> QED
          BY <1>5, <5>1
      <4> QED
        BY <1>2, <4>1, <4>2 DEF Members
    <3>3. CASE i # 1
      <4>1. i \in DOMAIN g /\ k \in DOMAIN g[i] /\ g[i][k] = x
        BY <2>4, <3>1, <3>3
      <4>2. x \notin taken
        <5>1. RecipientOf[x] = RecipientOf[g[i][1]]
          BY <4>1 DEF Sorted
        <5>2. RecipientOf[g[i][1]] # RecipientOf[g[1][1]]
          BY <1>2, <3>3, <4>1 DEF Sorted
        <5> QED
          BY <1>5, <5>1, <5>2
      <4> QED
        BY <4>1, <4>2 DEF Members
    <3> QED
      BY <3>2, <3>3
  <2>11. ASSUME NEW x \in Members(g) \ taken  PROVE x \in Members(o)
    <3>0. PICK i \in DOMAIN g : \E k \in DOMAIN g[i] : g[i][k] = x
      BY DEF Members
    <3>1. PICK k \in DOMAIN g[i] : g[i][k] = x
      BY <3>0
    <3>2. CASE i = 1
      <4>1. k \in 1..Len(h) /\ k \notin 1..n /\ h[k] = x
        BY <1>1, <1>2, <1>4, <3>1, <3>2 DEF Members
      <4>2. k - MaxDigest \in DOMAIN rest /\ rest[k - MaxDigest] = x
        <5>1. k \in Nat /\ k > MaxDigest /\ k <= Len(h)
          <6>1. n = MaxDigest /\ MaxDigest \in Nat /\ Len(h) \in Nat
            BY <1>2, <1>3, <1>7, <1>0
          <6> QED
            BY ONLY <4>1, <6>1
        <5>2. k - MaxDigest \in 1..(Len(h) - MaxDigest) /\ (k - MaxDigest) + MaxDigest = k
          BY <1>2, <1>0, <5>1
        <5> QED
          BY <2>1, <4>1, <5>2
      <4> QED
        BY <1>2, <2>4, <4>2 DEF Members
    <3>3. CASE i # 1
      BY <2>4, <3>1, <3>3 DEF Members
    <3> QED
      BY <3>2, <3>3
  <2> QED
    BY <1>5, <1>6, <2>4, <2>9, <2>10, <2>11 DEF o, taken
<1>8. CASE ~(Len(h) > MaxDigest)
  <2>1. o = Tail(g)
    BY <1>8 DEF LeftOver, h
  <2> HIDE DEF o
  <2>2. /\ o \in Seq(Group) /\ Len(o) = Len(g) - 1 /\ DOMAIN o = 1..(Len(g) - 1)
        /\ \A i \in 1..(Len(g) - 1) : o[i] = g[i + 1]
    BY <1>1, <2>1
  <2>3. ASSUME NEW i \in DOMAIN o
        PROVE  i + 1 \in DOMAIN g /\ o[i] = g[i + 1] /\ i \in Nat /\ i + 1 # 1
    BY <1>1, <2>2
  <2>4. Sorted(o)
    <3>1. ASSUME NEW i \in DOMAIN o, NEW k \in DOMAIN o[i]
          PROVE  RecipientOf[o[i][k]] = RecipientOf[o[i][1]]
      BY <2>3 DEF Sorted
    <3>2. ASSUME NEW i \in DOMAIN o, NEW k \in DOMAIN o[i], NEW l \in DOMAIN o[i],
                 o[i][k] = o[i][l]
          PROVE  k = l
      BY <2>3, <3>2 DEF Sorted
    <3>3. ASSUME NEW i \in DOMAIN o, NEW j \in DOMAIN o,
                 RecipientOf[o[i][1]] = RecipientOf[o[j][1]]
          PROVE  i = j
      <4>1. i + 1 = j + 1
        BY <2>3, <3>3 DEF Sorted
      <4> QED
        BY <2>3, <4>1
    <3> QED
      BY <3>1, <3>2, <3>3 DEF Sorted
  <2>5. ASSUME NEW x \in Members(o)  PROVE x \in Members(g) \ taken
    <3>0. PICK i \in DOMAIN o : \E k \in DOMAIN o[i] : o[i][k] = x
      BY DEF Members
    <3>1. PICK k \in DOMAIN o[i] : o[i][k] = x
      BY <3>0
    <3>2. k \in DOMAIN g[i + 1] /\ g[i + 1][k] = x /\ i + 1 \in DOMAIN g /\ i + 1 # 1
      BY <2>3, <3>1
    <3>3. x \notin taken
      <4>1. RecipientOf[x] = RecipientOf[g[i + 1][1]]
        BY <3>2 DEF Sorted
      <4>2. RecipientOf[g[i + 1][1]] # RecipientOf[g[1][1]]
        BY <1>2, <3>2 DEF Sorted
      <4> QED
        BY <1>5, <4>1, <4>2
    <3> QED
      BY <3>2, <3>3 DEF Members
  <2>6. ASSUME NEW x \in Members(g) \ taken  PROVE x \in Members(o)
    <3>0. PICK i \in DOMAIN g : \E k \in DOMAIN g[i] : g[i][k] = x
      BY DEF Members
    <3>1. PICK k \in DOMAIN g[i] : g[i][k] = x
      BY <3>0
    <3>2. i # 1
      <4>1. SUFFICES ASSUME i = 1 PROVE x \in taken
        OBVIOUS
      <4>2. n = Len(h) /\ k \in 1..n /\ h[k] = x
        BY <1>1, <1>2, <1>3, <1>8, <1>0, <3>1, <4>1
      <4> QED
        BY <1>4, <4>2 DEF Members
    <3>3. i - 1 \in DOMAIN o /\ o[i - 1] = g[i]
      BY <1>1, <2>2, <3>1, <3>2
    <3> QED
      BY <3>1, <3>3 DEF Members
  <2> QED
    BY <1>5, <1>6, <2>2, <2>4, <2>5, <2>6 DEF o, taken
<1> QED
  BY <1>7, <1>8 DEF taken

LEMMA NoGroups == <<>> \in Seq(Group) /\ Sorted(<<>>) /\ Members(<<>>) = {}
BY DEF Sorted, Members

\* What the next digest of a batch is made of, and what it leaves.
LEMMA DigestShape ==
    ASSUME Inv, NEW w \in Worker, grouped[w] # <<>>
    PROVE  /\ Addressed(w) \subseteq Members(grouped[w])
           /\ \A d, e \in Addressed(w) : RecipientOf[d] = RecipientOf[e]
           /\ LeftOver(grouped[w]) \in Seq(Group) /\ Sorted(LeftOver(grouped[w]))
           /\ Members(LeftOver(grouped[w])) = Members(grouped[w]) \ Addressed(w)
<1>1. grouped[w] \in Seq(Group) /\ Sorted(grouped[w])
  BY DEF Inv, Typed, ClaimsAreCovered
<1>2. Addressed(w) = NextOf(grouped[w])
  BY DEF Addressed, Letter, NextOf
<1> QED
  BY <1>1, <1>2, LettersTaken

\* A claim is locked, and its row is still pending for everybody else.  Nobody
\* has seen it accepted but in a batch that was rolled back.
LEMMA ClaimedRows ==
    ASSUME Inv, NEW w \in Worker, NEW d \in Members(grouped[w])
    PROVE  /\ d \in Delivery /\ d \in locked[w]
           /\ mine[w][d].state = "processing" /\ rows[d].state = "pending"
           /\ pc[w] # "record" /\ d \notin undone => accepted[d] = 0
<1>1. /\ d \in Delivery /\ d \in locked[w]
      /\ mine[w][d].state = "processing"
  BY DEF Inv, ClaimsAreCovered, RowsOf, Members
<1>2. rows[d].state \in State
  BY <1>1 DEF Inv, Typed, CommittedRows, RowOf
<1>3. rows[d].state = "pending"
  BY <1>1, <1>2 DEF Inv, OwnRowsFollow, State
<1>4. ASSUME pc[w] # "record", d \notin undone  PROVE accepted[d] = 0
  <2>1. \A v \in Worker : ~Remembers(v, d)
    BY <1>1, <1>4 DEF Remembers, Inv, LocksExclude
  <2>2. ~(accepted[d] > 0)
    BY <1>1, <1>3, <1>4, <2>1 DEF Inv, AcceptedIsKnown
  <2> QED
    BY <1>1, <2>2, LimitAssumption DEF Inv, Typed
<1> QED
  BY <1>1, <1>3, <1>4

-----------------------------------------------------------------------------
LEMMA InitInv == Init => Inv
<1> SUFFICES ASSUME Init PROVE Inv
  OBVIOUS
<1> USE DEF Init
<1>1. Unborn \in CommittedRows /\ Unborn \in OwnRows
  BY LimitAssumption DEF Unborn, State, Times, CommittedRows, OwnRows, RowOf
<1>2. Typed
  BY <1>1, LimitAssumption, NoGroups DEF Typed, Outcome
<1>3. ClaimsAreCovered
  BY NoGroups DEF ClaimsAreCovered
<1>4. LocksExclude /\ OwnRowsFollow /\ AcceptedIsKnown
  BY DEF LocksExclude, OwnRowsFollow, AcceptedIsKnown
<1> QED
  BY <1>2, <1>3, <1>4 DEF Inv

LEMMA RowsOfType ==
    ASSUME NEW d \in Delivery
    PROVE  /\ RowsOf(d) \subseteq Lockable /\ RowsOf(d) \cap Delivery = {d}
           /\ RecipientOf[d] \in Recipient /\ RecipientOf[d] \in RowsOf(d)
BY RecipientAssumption, DeliveryAssumption DEF RowsOf, Lockable

LEMMA DueQueueType ==
    ASSUME NEW t, NEW q \in DueQueues(t)  PROVE q \in Seq(Delivery)
<1>1. DueRows(t) \in SUBSET Delivery
  BY DEF DueRows
<1>2. Cardinality(DueRows(t)) \in Nat
  BY <1>1, FS_Subset, FS_CardinalityType, DeliveryAssumption
<1>3. Lesser(Cardinality(DueRows(t)), BatchSize) \in Nat
  BY <1>2, LimitAssumption DEF Lesser
<1>4. q \in [1..Lesser(Cardinality(DueRows(t)), BatchSize) -> Delivery]
  BY <1>1 DEF DueQueues
<1> QED
  BY <1>3, <1>4

LEMMA ViewType ==
    ASSUME Typed, NEW w \in Worker, NEW d \in Delivery
    PROVE  View(w, d) \in OwnRows
<1>1. CASE d \in locked[w]
  BY <1>1 DEF Typed, View
<1>2. CASE d \notin locked[w]
  BY <1>2 DEF Typed, View, OwnRows, CommittedRows, RowOf
<1> QED
  BY <1>1, <1>2

\* What a claim makes of a row.
LEMMA ClaimedRowType ==
    ASSUME NEW row \in OwnRows
    PROVE  /\ [row EXCEPT !.state = "processing", !.attempts = @ + 1] \in OwnRows
           /\ [row EXCEPT !.state = "processing", !.attempts = @ + 1].state
                = "processing"
<1>1. row.attempts + 1 \in Nat
  BY DEF OwnRows, RowOf
<1> QED
  BY <1>1 DEF OwnRows, RowOf, State

\* An answer is recorded as one would expect, whatever the delay.
LEMMA RecordedType ==
    ASSUME NEW row \in OwnRows, NEW answer \in Outcome, NEW t \in 0..MaxClock
    PROVE  /\ Recorded(row, answer, t) \in OwnRows
           /\ Recorded(row, answer, t).state
                \in {"delivered", "dead_letter", "pending"}
           /\ Recorded(row, answer, t).state = "delivered"
                <=> answer = "success"
<1>1. Lesser(t + RetryDelay(row.attempts), MaxClock) \in Times
  BY DEF Times, OwnRows, RowOf
<1>2. /\ Retried(row, t) \in OwnRows /\ Retried(row, t).state = "pending"
      /\ \A end \in {"delivered", "dead_letter"} :
            [row EXCEPT !.state = end] \in OwnRows /\ [row EXCEPT !.state = end].state = end
  BY <1>1 DEF Retried, State, OwnRows, RowOf
<1>3. CASE answer = "success"
  BY <1>2, <1>3 DEF Recorded
<1>4. CASE answer # "success" /\ (answer = "permanent" \/ row.attempts >= MaxAttempts)
  BY <1>2, <1>4 DEF Recorded
<1>5. CASE ~(answer = "success" \/ answer = "permanent" \/ row.attempts >= MaxAttempts)
  BY <1>2, <1>5 DEF Recorded
<1> QED
  BY <1>3, <1>4, <1>5

\* A batch takes the rows of a delivery nobody else holds.
LEMMA TakeLocks ==
    ASSUME Inv, NEW w \in Worker, NEW d \in Delivery, NEW row, Take(w, d, row)
    PROVE  /\ locked' \in [Worker -> SUBSET Lockable]
           /\ LocksExclude'
           /\ \A v \in Worker \ {w} : /\ locked'[v] = locked[v]
                                      /\ mine'[v] = mine[v]
                                      /\ d \notin locked[v]
           /\ locked'[w] = locked[w] \cup RowsOf(d)
           /\ d \in locked'[w]
           /\ mine'[w][d] = row
           /\ row \in OwnRows => mine' \in [Worker -> [Delivery -> OwnRows]]
           /\ \A x \in Delivery \ {d} : /\ mine'[w][x] = mine[w][x]
                                        /\ x \in locked'[w] <=> x \in locked[w]
<1> USE RowsOfType DEF Inv, Typed, Take
<1>1. \A v \in Worker \ {w} : /\ locked'[v] = locked[v]
                              /\ mine'[v] = mine[v]
                              /\ RowsOf(d) \cap locked[v] = {}
  BY DEF Held
<1>2. d \in RowsOf(d)
  BY DEF RowsOf
<1>3. locked'[w] = locked[w] \cup RowsOf(d)
  OBVIOUS
<1>4. LocksExclude'
  BY <1>1, <1>3 DEF LocksExclude
<1>5. locked' \in [Worker -> SUBSET Lockable]
  OBVIOUS
<1>6. row \in OwnRows => mine' \in [Worker -> [Delivery -> OwnRows]]
  OBVIOUS
<1>7. mine'[w][d] = row /\ \A x \in Delivery \ {d} : mine'[w][x] = mine[w][x]
  OBVIOUS
<1>8. \A x \in Delivery \ {d} : x \in locked'[w] <=> x \in locked[w]
  BY <1>3
<1> QED
  BY <1>1, <1>2, <1>3, <1>4, <1>5, <1>6, <1>7, <1>8

\* The digest of a batch that has not moved.
LEMMA DigestStays ==
    ASSUME NEW w \in Worker, grouped'[w] = grouped[w]
    PROVE  Addressed(w)' = Addressed(w)
BY DEF Addressed, Letter

-----------------------------------------------------------------------------
\* Listing the due rows and leaving one out change no row and no lock.
LEMMA ListingKeepsInv ==
    ASSUME Inv, NEW w \in Worker, Start(w) \/ \E d \in Delivery : Skip(w, d)
    PROVE  Inv'
<1> USE DEF Inv
<1>1. /\ pc' \in [Worker -> {"idle", "batch", "record"}]
      /\ pc[w] # "record" /\ pc'[w] = "batch"
      /\ \A v \in Worker \ {w} : pc'[v] = pc[v]
      /\ UNCHANGED <<rows, active, wish, mine, locked, grouped, outcome, clock,
                     accepted, undone>>
  BY DEF Typed, Start, Skip, Look, people, bounds, ghosts
<1>2. /\ queue' \in [Worker -> Seq(Delivery)]
      /\ now' \in [Worker -> 0..MaxClock]
  <2>1. CASE Start(w)
    BY <2>1, DueQueueType DEF Start, Typed
  <2>2. CASE \E d \in Delivery : Skip(w, d)
    <3>1. Tail(queue[w]) \in Seq(Delivery)
      BY <2>2 DEF Skip, Look, Typed
    <3> QED
      BY <2>2, <3>1 DEF Skip, Look, Typed
  <2> QED
    BY <2>1, <2>2
<1>3. Typed'
  BY <1>1, <1>2 DEF Typed
<1>4. \A v \in Worker : Addressed(v)' = Addressed(v)
  BY <1>1, DigestStays
<1>5. LocksExclude' /\ ClaimsAreCovered' /\ OwnRowsFollow'
  BY <1>1, <1>4 DEF LocksExclude, ClaimsAreCovered, OwnRowsFollow, RowsOf
<1>6. AcceptedIsKnown'
  BY <1>1, <1>4 DEF AcceptedIsKnown, Remembers
<1> QED
  BY <1>3, <1>5, <1>6

\* What a look at row d may have done to it.
Looked(w, d) ==
    /\ mine'[w][d] \in OwnRows
    /\ \/ /\ mine'[w][d].state = View(w, d).state
          /\ grouped'[w] = grouped[w]
       \/ /\ View(w, d).state = "pending"
          /\ mine'[w][d].state = "suppressed"
          /\ grouped'[w] = grouped[w]
       \/ /\ View(w, d).state = "pending"
          /\ mine'[w][d].state = "processing"
          /\ grouped'[w] = Filed(grouped[w], d)
          /\ active[RecipientOf[d]]

LEMMA LookTakes ==
    ASSUME Inv, NEW w \in Worker, NEW d \in Delivery,
           PassOver(w, d) \/ Suppress(w, d) \/ Defer(w, d) \/ Claim(w, d)
    PROVE  /\ Look(w, d) /\ Take(w, d, mine'[w][d]) /\ Looked(w, d)
           /\ \A v \in Worker \ {w} : grouped'[v] = grouped[v]
           /\ grouped' = [grouped EXCEPT ![w] = grouped'[w]]
<1>1. View(w, d) \in OwnRows
  BY ViewType DEF Inv
<1>2. ASSUME NEW row, Take(w, d, row)  PROVE mine'[w][d] = row
  BY <1>2, TakeLocks
<1>3. grouped \in [Worker -> Seq(Group)]
  BY DEF Inv, Typed
<1>4. CASE PassOver(w, d)
  BY <1>1, <1>2, <1>3, <1>4 DEF PassOver, Looked
<1>5. CASE Suppress(w, d)
  <2>1. mine'[w][d] = [View(w, d) EXCEPT !.state = "suppressed"]
    BY <1>2, <1>5 DEF Suppress
  <2>2. mine'[w][d] \in OwnRows /\ mine'[w][d].state = "suppressed"
    BY <1>1, <2>1 DEF OwnRows, RowOf, State
  <2> QED
    BY <1>3, <1>5, <2>1, <2>2 DEF Suppress, Claimable, Looked
<1>6. CASE Defer(w, d)
  <2> DEFINE time == Lesser(EligibleAt(w, d), MaxClock)
  <2>1. mine'[w][d] = [View(w, d) EXCEPT !.available = time]
    BY <1>2, <1>6 DEF Defer
  <2>2. time \in Times
    <3>1. /\ wish[RecipientOf[d]] \in Wish /\ View(w, d).created \in 0..MaxClock
          /\ now[w] \in 0..MaxClock
      BY <1>1, RecipientAssumption DEF Inv, Typed, OwnRows, RowOf
    <3> QED
      BY <3>1 DEF Times, EligibleAt
  <2> HIDE DEF time
  <2>3. mine'[w][d] \in OwnRows /\ mine'[w][d].state = View(w, d).state
    BY <1>1, <2>1, <2>2 DEF OwnRows, RowOf
  <2>4. Look(w, d) /\ grouped' = grouped /\ Take(w, d, mine'[w][d])
    BY <1>6, <2>1 DEF Defer, time
  <2> QED
    BY <1>3, <2>3, <2>4 DEF Looked
<1>7. CASE Claim(w, d)
  <2>1. mine'[w][d] = [View(w, d) EXCEPT !.state = "processing", !.attempts = @ + 1]
    BY <1>2, <1>7 DEF Claim
  <2>2. mine'[w][d] \in OwnRows /\ mine'[w][d].state = "processing"
    BY <1>1, <2>1, ClaimedRowType
  <2>3. /\ Look(w, d) /\ Take(w, d, mine'[w][d])
        /\ View(w, d).state = "pending" /\ active[RecipientOf[d]]
        /\ grouped' = [grouped EXCEPT ![w] = Filed(grouped[w], d)]
    BY <1>7, <2>1 DEF Claim, Claimable, Welcome
  <2> QED
    BY <1>3, <2>2, <2>3 DEF Looked
<1> QED
  BY <1>4, <1>5, <1>6, <1>7

\* A look of any outcome: it takes the rows, and the row it keeps either has the
\* state it saw, or was pending and is now suppressed or claimed.
LEMMA LookingKeepsInv ==
    ASSUME Inv, NEW w \in Worker, NEW d \in Delivery,
           PassOver(w, d) \/ Suppress(w, d) \/ Defer(w, d) \/ Claim(w, d)
    PROVE  Inv'
<1>1. /\ Look(w, d) /\ Take(w, d, mine'[w][d]) /\ Looked(w, d)
      /\ \A v \in Worker \ {w} : grouped'[v] = grouped[v]
      /\ grouped' = [grouped EXCEPT ![w] = grouped'[w]]
  BY LookTakes
<1>2. /\ pc[w] = "batch"
      /\ Tail(queue[w]) \in Seq(Delivery)
      /\ queue' = [queue EXCEPT ![w] = Tail(queue[w])]
      /\ UNCHANGED <<rows, active, wish, pc, now, outcome, clock, accepted, undone>>
  BY <1>1 DEF Look, Inv, Typed, people, bounds, ghosts
<1>3. /\ locked' \in [Worker -> SUBSET Lockable]
      /\ LocksExclude'
      /\ \A v \in Worker \ {w} : /\ locked'[v] = locked[v]
                                 /\ mine'[v] = mine[v]
                                 /\ d \notin locked[v]
      /\ locked'[w] = locked[w] \cup RowsOf(d)
      /\ d \in locked'[w]
      /\ mine' \in [Worker -> [Delivery -> OwnRows]]
      /\ \A x \in Delivery \ {d} : /\ mine'[w][x] = mine[w][x]
                                   /\ x \in locked'[w] <=> x \in locked[w]
  BY <1>1, TakeLocks DEF Looked
\* What the look saw of the row: a pending row is pending for everybody.
<1>4. /\ d \in locked[w] => View(w, d) = mine[w][d]
      /\ d \notin locked[w] => View(w, d) = rows[d]
      /\ View(w, d).state = "pending" => rows[d].state = "pending"
  BY DEF View, Inv, OwnRowsFollow
<1>5. d \in Members(grouped[w]) => View(w, d).state = "processing"
  BY <1>4, ClaimedRows
<1>6. /\ grouped'[w] \in Seq(Group) /\ Sorted(grouped'[w])
      /\ \/ Members(grouped'[w]) = Members(grouped[w])
         \/ /\ Members(grouped'[w]) = Members(grouped[w]) \cup {d}
            /\ active[RecipientOf[d]]
      /\ mine'[w][d].state = "processing" =>
            View(w, d).state = "processing" \/ d \in Members(grouped'[w])
      /\ d \in Members(grouped'[w]) => mine'[w][d].state = "processing"
  <2>1. grouped[w] \in Seq(Group) /\ Sorted(grouped[w])
    BY DEF Inv, Typed, ClaimsAreCovered
  <2> DEFINE Claims == /\ View(w, d).state = "pending" /\ active[RecipientOf[d]]
                       /\ mine'[w][d].state = "processing"
                       /\ grouped'[w] = Filed(grouped[w], d)
  <2>2. CASE ~Claims
    BY <1>1, <1>5, <2>1, <2>2 DEF Looked
  <2>3. CASE Claims
    <3>1. /\ d \notin Members(grouped[w]) /\ active[RecipientOf[d]]
          /\ grouped'[w] = Filed(grouped[w], d) /\ mine'[w][d].state = "processing"
      BY <1>5, <2>3
    <3>2. /\ Filed(grouped[w], d) \in Seq(Group) /\ Sorted(Filed(grouped[w], d))
          /\ Members(Filed(grouped[w], d)) = Members(grouped[w]) \cup {d}
      BY <2>1, <3>1, FiledGroups
    <3> QED
      BY <3>1, <3>2
  <2> QED
    BY <2>2, <2>3
<1>7. Typed'
  <2>1. grouped' \in [Worker -> Seq(Group)]
    BY <1>1, <1>6 DEF Inv, Typed
  <2>2. queue' \in [Worker -> Seq(Delivery)]
    BY <1>2 DEF Inv, Typed
  <2> QED
    BY <1>2, <1>3, <2>1, <2>2 DEF Inv, Typed
<1>8. \A v \in Worker \ {w} : Addressed(v)' = Addressed(v)
  BY <1>1, DigestStays
<1>9. ClaimsAreCovered'
  <2>1. ASSUME NEW v \in Worker \ {w}
        PROVE  /\ Sorted(grouped'[v])
               /\ \A x \in Members(grouped'[v]) :
                     /\ RowsOf(x) \subseteq locked'[v]
                     /\ mine'[v][x].state = "processing"
                     /\ active'[RecipientOf[x]]
               /\ pc'[v] = "record" =>
                     /\ grouped'[v] # <<>>
                     /\ outcome'[v] = "success" =>
                           \A x \in Addressed(v)' : accepted'[x] > 0
    BY <1>1, <1>2, <1>3, <1>8 DEF Inv, ClaimsAreCovered
  <2>2. ASSUME NEW x \in Members(grouped'[w])
        PROVE  /\ RowsOf(x) \subseteq locked'[w]
               /\ mine'[w][x].state = "processing"
               /\ active'[RecipientOf[x]]
    <3>1. CASE x = d
      <4>1. active[RecipientOf[d]]
        BY <1>6, <2>2, <3>1 DEF Inv, ClaimsAreCovered
      <4> QED
        BY <1>2, <1>3, <1>6, <2>2, <3>1, <4>1
    <3>2. CASE x # d
      <4>1. x \in Members(grouped[w]) /\ x \in Delivery
        BY <1>6, <2>2, <3>2 DEF Members
      <4> QED
        BY <1>2, <1>3, <3>2, <4>1 DEF Inv, ClaimsAreCovered
    <3> QED
      BY <3>1, <3>2
  <2> QED
    BY <1>2, <1>6, <2>1, <2>2 DEF ClaimsAreCovered, RowsOf
<1>10. OwnRowsFollow'
  <2>1. ASSUME NEW v \in Worker, NEW x \in Delivery, x \in locked'[v],
               v # w \/ x # d
        PROVE  \/ mine'[v][x].state = rows'[x].state
               \/ /\ rows'[x].state = "pending"
                  /\ \/ mine'[v][x].state \in {"dead_letter", "suppressed"}
                     \/ mine'[v][x].state = "delivered" /\ accepted'[x] > 0
                     \/ mine'[v][x].state = "processing" /\ x \in Members(grouped'[v])
    <3>1. /\ mine'[v][x] = mine[v][x] /\ x \in locked[v]
          /\ Members(grouped[v]) \subseteq Members(grouped'[v])
      BY <1>1, <1>3, <1>6, <2>1
    <3> QED
      BY <1>2, <3>1 DEF Inv, OwnRowsFollow
  <2>2. \/ mine'[w][d].state = rows'[d].state
        \/ /\ rows'[d].state = "pending"
           /\ \/ mine'[w][d].state \in {"dead_letter", "suppressed"}
              \/ mine'[w][d].state = "delivered" /\ accepted'[d] > 0
              \/ mine'[w][d].state = "processing" /\ d \in Members(grouped'[w])
    <3>1. CASE mine'[w][d].state = View(w, d).state
      <4>1. CASE d \in locked[w]
        <5>1. Members(grouped[w]) \subseteq Members(grouped'[w])
          BY <1>6
        <5> QED
          BY <1>2, <1>4, <3>1, <4>1, <5>1 DEF Inv, OwnRowsFollow
      <4>2. CASE d \notin locked[w]
        BY <1>2, <1>4, <3>1, <4>2
      <4> QED
        BY <4>1, <4>2
    <3>2. CASE mine'[w][d].state # View(w, d).state
      BY <1>1, <1>2, <1>4, <1>6, <3>2 DEF Looked
    <3> QED
      BY <3>1, <3>2
  <2> QED
    BY <2>1, <2>2 DEF OwnRowsFollow
<1>11. AcceptedIsKnown'
  <2>1. ASSUME NEW v \in Worker, NEW x \in Delivery, Remembers(v, x),
               rows[x].state # "delivered"
        PROVE  Remembers(v, x)'
    <3>1. CASE v # w
      BY <1>2, <1>3, <1>8, <2>1, <3>1 DEF Remembers
    <3>2. CASE v = w /\ x # d
      BY <1>2, <1>3, <2>1, <3>2 DEF Remembers
    <3>3. CASE v = w /\ x = d
      <4>1. mine'[w][d].state = "delivered"
        BY <1>1, <1>2, <1>4, <2>1, <3>3 DEF Remembers, Looked
      <4> QED
        BY <1>3, <3>3, <4>1 DEF Remembers
    <3> QED
      BY <3>1, <3>2, <3>3
  <2> QED
    BY <1>2, <2>1 DEF Inv, AcceptedIsKnown
<1> QED
  BY <1>3, <1>7, <1>9, <1>10, <1>11 DEF Inv

-----------------------------------------------------------------------------
\* The digest leaves: every row of it is claimed, so none was accepted before.
LEMMA SendKeepsInv == ASSUME Inv, NEW w \in Worker, Send(w) PROVE Inv'
<1>1. /\ pc[w] = "batch" /\ grouped[w] # <<>>
      /\ pc' = [pc EXCEPT ![w] = "record"]
      /\ UNCHANGED <<rows, active, wish, queue, now, mine, locked, grouped, clock,
                     undone>>
  BY DEF Send, people, bounds
<1>2. PICK answer \in Outcome \ {"none"} :
         /\ outcome' = [outcome EXCEPT ![w] = answer]
         /\ accepted' = [d \in Delivery |->
                           IF d \in Addressed(w) /\ answer = "success"
                           THEN Lesser(accepted[d] + 1, MaxAccepted) ELSE accepted[d]]
  BY DEF Send
<1>3. /\ pc'[w] = "record" /\ outcome'[w] = answer
      /\ \A v \in Worker \ {w} : pc'[v] = pc[v] /\ outcome'[v] = outcome[v]
  BY <1>1, <1>2 DEF Inv, Typed
<1>4. \A v \in Worker : Addressed(v)' = Addressed(v)
  BY <1>1, DigestStays
<1>5. ASSUME NEW d \in Addressed(w)
      PROVE  /\ d \in Members(grouped[w]) /\ d \in Delivery
             /\ d \in locked[w] /\ mine[w][d].state = "processing"
             /\ d \notin undone => accepted[d] = 0
  BY <1>1, <1>5, DigestShape, ClaimedRows
<1>6. ASSUME NEW d \in Delivery
      PROVE  /\ accepted'[d] \in 0..MaxAccepted
             /\ accepted[d] > 0 => accepted'[d] > 0
             /\ d \in Addressed(w) /\ answer = "success" =>
                   accepted'[d] > 0 /\ (accepted[d] = 0 => accepted'[d] <= 1)
             /\ ~(d \in Addressed(w) /\ answer = "success") =>
                   accepted'[d] = accepted[d]
  <2>1. accepted[d] \in 0..MaxAccepted /\ MaxAccepted \in Nat \ {0}
    BY LimitAssumption DEF Inv, Typed
  <2>2. accepted'[d] = IF d \in Addressed(w) /\ answer = "success"
                       THEN Lesser(accepted[d] + 1, MaxAccepted) ELSE accepted[d]
    BY <1>2
  <2> QED
    BY <2>1, <2>2 DEF Lesser
<1>7. Typed'
  <2>1. accepted' \in [Delivery -> 0..MaxAccepted]
    BY <1>2, <1>6
  <2> QED
    BY <1>1, <1>2, <2>1 DEF Inv, Typed
<1>8. LocksExclude'
  BY <1>1 DEF Inv, LocksExclude
<1>9. ClaimsAreCovered'
  <2>1. ASSUME NEW v \in Worker
        PROVE  /\ Sorted(grouped[v])
               /\ \A d \in Members(grouped[v]) :
                     /\ RowsOf(d) \subseteq locked[v]
                     /\ mine[v][d].state = "processing"
                     /\ active[RecipientOf[d]]
    BY DEF Inv, ClaimsAreCovered
  <2>2. ASSUME NEW v \in Worker, pc'[v] = "record"
        PROVE  /\ grouped[v] # <<>>
               /\ outcome'[v] = "success" => \A d \in Addressed(v) : accepted'[d] > 0
    <3>1. CASE v = w
      BY <1>1, <1>3, <1>5, <1>6, <3>1
    <3>2. CASE v # w
      <4>1. /\ grouped[v] # <<>>
            /\ outcome[v] = "success" => \A d \in Addressed(v) : accepted[d] > 0
        BY <1>3, <2>2, <3>2 DEF Inv, ClaimsAreCovered
      <4>2. Addressed(v) \subseteq Delivery
        BY DEF Addressed
      <4> QED
        BY <1>3, <1>6, <3>2, <4>1, <4>2
    <3> QED
      BY <3>1, <3>2
  <2> QED
    BY <1>1, <1>4, <2>1, <2>2 DEF ClaimsAreCovered, RowsOf
<1>10. OwnRowsFollow'
  BY <1>1, <1>6 DEF Inv, OwnRowsFollow
<1>11. AcceptedIsKnown'
  <2>1. ASSUME NEW d \in Delivery, d \notin undone
        PROVE  /\ accepted'[d] <= 1
               /\ accepted'[d] > 0 => \/ rows[d].state = "delivered"
                                      \/ \E v \in Worker : Remembers(v, d)'
    <3>1. CASE d \in Addressed(w) /\ answer = "success"
      <4>1. Remembers(w, d)'
        BY <1>1, <1>3, <1>4, <1>5, <3>1 DEF Remembers
      <4> QED
        BY <1>5, <1>6, <2>1, <3>1, <4>1
    <3>2. CASE ~(d \in Addressed(w) /\ answer = "success")
      <4>1. ASSUME NEW v \in Worker, Remembers(v, d)  PROVE Remembers(v, d)'
        BY <1>1, <1>3, <1>4, <4>1 DEF Remembers
      <4> QED
        BY <1>6, <2>1, <3>2, <4>1 DEF Inv, AcceptedIsKnown
    <3> QED
      BY <3>1, <3>2
  <2> QED
    BY <1>1, <2>1 DEF AcceptedIsKnown
<1> QED
  BY <1>7, <1>8, <1>9, <1>10, <1>11 DEF Inv

\* The answer is recorded: an accepted mail is remembered by its rows.
LEMMA RecordKeepsInv == ASSUME Inv, NEW w \in Worker, Record(w) PROVE Inv'
<1>1. /\ pc[w] = "record" /\ grouped[w] # <<>>
      /\ outcome[w] = "success" => \A d \in Addressed(w) : accepted[d] > 0
      /\ pc' = [pc EXCEPT ![w] = "batch"]
      /\ outcome' = [outcome EXCEPT ![w] = "none"]
      /\ grouped' = [grouped EXCEPT ![w] = LeftOver(grouped[w])]
      /\ UNCHANGED <<rows, active, wish, queue, now, locked, clock, accepted, undone>>
  BY DEF Record, Inv, ClaimsAreCovered, people, bounds, ghosts
<1>2. /\ pc'[w] = "batch" /\ grouped'[w] = LeftOver(grouped[w])
      /\ \A v \in Worker \ {w} : /\ pc'[v] = pc[v] /\ outcome'[v] = outcome[v]
                                 /\ grouped'[v] = grouped[v]
  BY <1>1 DEF Inv, Typed
<1>3. /\ \A v \in Worker \ {w} : mine'[v] = mine[v]
      /\ \A d \in Delivery \ Addressed(w) : mine'[w][d] = mine[w][d]
      /\ \A d \in Addressed(w) :
            mine'[w][d] = Recorded(mine[w][d], outcome[w], now[w])
      /\ mine' \in [Worker -> [Delivery -> OwnRows]]
  <2>1. mine' = [mine EXCEPT ![w] =
                  [d \in Delivery |-> IF d \in Addressed(w)
                                      THEN Recorded(mine[w][d], outcome[w], now[w])
                                      ELSE mine[w][d]]]
    BY DEF Record
  <2>2. /\ mine \in [Worker -> [Delivery -> OwnRows]]
        /\ outcome[w] \in Outcome /\ now[w] \in 0..MaxClock
    BY DEF Inv, Typed
  <2>3. \A d \in Delivery : /\ mine[w][d] \in OwnRows
                            /\ Recorded(mine[w][d], outcome[w], now[w]) \in OwnRows
    BY <2>2, RecordedType
  <2>4. Addressed(w) \subseteq Delivery
    BY DEF Addressed
  <2> QED
    BY <2>1, <2>2, <2>3, <2>4
<1>4. /\ Addressed(w) \subseteq Members(grouped[w])
      /\ LeftOver(grouped[w]) \in Seq(Group) /\ Sorted(LeftOver(grouped[w]))
      /\ Members(LeftOver(grouped[w])) = Members(grouped[w]) \ Addressed(w)
  BY <1>1, DigestShape
<1>5. ASSUME NEW d \in Addressed(w)
      PROVE  /\ d \in Delivery /\ d \in locked[w]
             /\ mine[w][d].state = "processing" /\ rows[d].state = "pending"
             /\ mine'[w][d].state \in {"delivered", "dead_letter", "pending"}
             /\ mine'[w][d].state = "delivered" <=> outcome[w] = "success"
  <2>1. /\ d \in Delivery /\ d \in locked[w]
        /\ mine[w][d].state = "processing" /\ rows[d].state = "pending"
    BY <1>4, ClaimedRows
  <2>2. mine[w][d] \in OwnRows /\ outcome[w] \in Outcome /\ now[w] \in 0..MaxClock
    BY <2>1 DEF Inv, Typed
  <2> QED
    BY <1>3, <2>1, <2>2, RecordedType
<1>6. Typed'
  <2>1. grouped' \in [Worker -> Seq(Group)]
    BY <1>1, <1>4 DEF Inv, Typed
  <2>2. outcome' \in [Worker -> Outcome] /\ pc' \in [Worker -> {"idle", "batch", "record"}]
    BY <1>1 DEF Inv, Typed, Outcome
  <2> QED
    BY <1>1, <1>3, <2>1, <2>2 DEF Inv, Typed
<1>7. LocksExclude'
  BY <1>1 DEF Inv, LocksExclude
<1>8. \A v \in Worker \ {w} : Addressed(v)' = Addressed(v)
  BY <1>2, DigestStays
<1>9. ClaimsAreCovered'
  <2>1. ASSUME NEW v \in Worker \ {w}
        PROVE  /\ Sorted(grouped'[v])
               /\ \A x \in Members(grouped'[v]) :
                     /\ RowsOf(x) \subseteq locked'[v]
                     /\ mine'[v][x].state = "processing"
                     /\ active'[RecipientOf[x]]
               /\ pc'[v] = "record" =>
                     /\ grouped'[v] # <<>>
                     /\ outcome'[v] = "success" =>
                           \A x \in Addressed(v)' : accepted'[x] > 0
    BY <1>1, <1>2, <1>3, <1>8 DEF Inv, ClaimsAreCovered
  <2>2. ASSUME NEW x \in Members(grouped'[w])
        PROVE  /\ RowsOf(x) \subseteq locked'[w]
               /\ mine'[w][x].state = "processing"
               /\ active'[RecipientOf[x]]
    <3>1. x \in Members(grouped[w]) /\ x \in Delivery \ Addressed(w)
      BY <1>2, <1>4, <2>2 DEF Members
    <3> QED
      BY <1>1, <1>3, <3>1 DEF Inv, ClaimsAreCovered
  <2> QED
    BY <1>2, <1>4, <2>1, <2>2 DEF ClaimsAreCovered, RowsOf
<1>10. OwnRowsFollow'
  <2>1. ASSUME NEW v \in Worker, NEW x \in Delivery, x \in locked[v],
               v # w \/ x \notin Addressed(w)
        PROVE  \/ mine'[v][x].state = rows[x].state
               \/ /\ rows[x].state = "pending"
                  /\ \/ mine'[v][x].state \in {"dead_letter", "suppressed"}
                     \/ mine'[v][x].state = "delivered" /\ accepted[x] > 0
                     \/ mine'[v][x].state = "processing" /\ x \in Members(grouped'[v])
    <3>1. /\ mine'[v][x] = mine[v][x]
          /\ x \in Members(grouped[v]) => x \in Members(grouped'[v])
      BY <1>2, <1>3, <1>4, <2>1
    <3> QED
      BY <2>1, <3>1 DEF Inv, OwnRowsFollow
  <2>2. ASSUME NEW x \in Addressed(w)
        PROVE  \/ mine'[w][x].state = rows[x].state
               \/ /\ rows[x].state = "pending"
                  /\ \/ mine'[w][x].state \in {"dead_letter", "suppressed"}
                     \/ mine'[w][x].state = "delivered" /\ accepted[x] > 0
    BY <1>1, <1>5
  <2> QED
    BY <1>1, <2>1, <2>2 DEF OwnRowsFollow
<1>11. AcceptedIsKnown'
  <2>1. ASSUME NEW v \in Worker, NEW x \in Delivery, Remembers(v, x)
        PROVE  Remembers(v, x)'
    <3>1. CASE v # w
      BY <1>1, <1>2, <1>3, <1>8, <2>1, <3>1 DEF Remembers
    <3>2. CASE v = w /\ x \in Addressed(w)
      BY <1>1, <1>5, <2>1, <3>2 DEF Remembers
    <3>3. CASE v = w /\ x \notin Addressed(w)
      BY <1>1, <1>3, <2>1, <3>3 DEF Remembers
    <3> QED
      BY <3>1, <3>2, <3>3
  <2> QED
    BY <1>1, <2>1 DEF Inv, AcceptedIsKnown
<1> QED
  BY <1>6, <1>7, <1>9, <1>10, <1>11 DEF Inv

-----------------------------------------------------------------------------
(* The end of a batch. *)

LEMMA BatchEnds ==
    ASSUME Inv, NEW w \in Worker, EndBatch(w)
    PROVE  /\ pc' \in [Worker -> {"idle", "batch", "record"}]
           /\ queue' \in [Worker -> Seq(Delivery)]
           /\ now' \in [Worker -> 0..MaxClock]
           /\ mine' \in [Worker -> [Delivery -> OwnRows]]
           /\ locked' \in [Worker -> SUBSET Lockable]
           /\ grouped' \in [Worker -> Seq(Group)]
           /\ outcome' \in [Worker -> Outcome]
           /\ pc'[w] = "idle" /\ locked'[w] = {} /\ grouped'[w] = <<>>
           /\ \A v \in Worker \ {w} :
                /\ pc'[v] = pc[v] /\ grouped'[v] = grouped[v] /\ mine'[v] = mine[v]
                /\ locked'[v] = locked[v] /\ outcome'[v] = outcome[v]
                /\ Addressed(v)' = Addressed(v)
<1>1. Unborn \in OwnRows
  BY LimitAssumption DEF Unborn, OwnRows, State, Times, RowOf
<1>2. /\ pc' \in [Worker -> {"idle", "batch", "record"}]
      /\ queue' \in [Worker -> Seq(Delivery)]
      /\ now' \in [Worker -> 0..MaxClock]
      /\ locked' \in [Worker -> SUBSET Lockable]
      /\ outcome' \in [Worker -> Outcome]
  BY LimitAssumption DEF Inv, Typed, EndBatch, Outcome
<1>3. mine' \in [Worker -> [Delivery -> OwnRows]]
  BY <1>1 DEF Inv, Typed, EndBatch
<1>4. grouped' \in [Worker -> Seq(Group)]
  BY NoGroups DEF Inv, Typed, EndBatch
<1>5. /\ pc'[w] = "idle" /\ locked'[w] = {} /\ grouped'[w] = <<>>
      /\ \A v \in Worker \ {w} :
           /\ pc'[v] = pc[v] /\ grouped'[v] = grouped[v] /\ mine'[v] = mine[v]
           /\ locked'[v] = locked[v] /\ outcome'[v] = outcome[v]
  BY DEF Inv, Typed, EndBatch
<1>6. \A v \in Worker \ {w} : Addressed(v)' = Addressed(v)
  BY <1>5, DigestStays
<1> QED
  BY <1>2, <1>3, <1>4, <1>5, <1>6

\* A batch that has ended covers nothing.
LEMMA EndedBatchIsCovered ==
    ASSUME Inv, NEW w \in Worker, EndBatch(w), UNCHANGED <<active, accepted>>
    PROVE  LocksExclude' /\ ClaimsAreCovered'
<1>1. LocksExclude'
  BY BatchEnds DEF Inv, LocksExclude
<1>2. ASSUME NEW v \in Worker \ {w}
      PROVE  /\ Sorted(grouped'[v])
             /\ \A x \in Members(grouped'[v]) :
                   /\ RowsOf(x) \subseteq locked'[v]
                   /\ mine'[v][x].state = "processing"
                   /\ active'[RecipientOf[x]]
             /\ pc'[v] = "record" =>
                   /\ grouped'[v] # <<>>
                   /\ outcome'[v] = "success" =>
                         \A x \in Addressed(v)' : accepted'[x] > 0
  <2>1. /\ pc'[v] = pc[v] /\ grouped'[v] = grouped[v] /\ mine'[v] = mine[v]
        /\ locked'[v] = locked[v] /\ outcome'[v] = outcome[v]
        /\ Addressed(v)' = Addressed(v)
    BY BatchEnds
  <2>2. ClaimsAreCovered /\ active' = active /\ accepted' = accepted
    BY DEF Inv
  <2> QED
    BY <2>1, <2>2 DEF ClaimsAreCovered
<1>3. Sorted(grouped'[w]) /\ Members(grouped'[w]) = {} /\ pc'[w] = "idle"
  BY BatchEnds, NoGroups
<1> QED
  BY <1>1, <1>2, <1>3 DEF ClaimsAreCovered, RowsOf

\* The other batches follow their rows as before, if those rows stay.
LEMMA OthersFollow ==
    ASSUME Inv, NEW w \in Worker, EndBatch(w), UNCHANGED accepted,
           \A v \in Worker \ {w}, d \in Delivery : d \in locked[v] => rows'[d] = rows[d]
    PROVE  OwnRowsFollow'
<1>1. ASSUME NEW v \in Worker, NEW d \in Delivery, d \in locked'[v]
      PROVE  \/ mine'[v][d].state = rows'[d].state
             \/ /\ rows'[d].state = "pending"
                /\ \/ mine'[v][d].state \in {"dead_letter", "suppressed"}
                   \/ mine'[v][d].state = "delivered" /\ accepted'[d] > 0
                   \/ mine'[v][d].state = "processing" /\ d \in Members(grouped'[v])
  <2>1. /\ v # w /\ grouped'[v] = grouped[v] /\ mine'[v] = mine[v]
        /\ locked'[v] = locked[v]
    BY <1>1, BatchEnds
  <2>2. d \in locked[v] /\ rows'[d] = rows[d]
    BY <1>1, <2>1
  <2> QED
    BY <2>1, <2>2 DEF Inv, OwnRowsFollow
<1> QED
  BY <1>1 DEF OwnRowsFollow

LEMMA CrashKeepsInv == ASSUME Inv, NEW w \in Worker, Crash(w)  PROVE Inv'
<1>1. /\ UNCHANGED <<rows, active, wish, clock, accepted>>
      /\ undone' = undone \cup (locked[w] \cap Delivery)
      /\ EndBatch(w)
  BY DEF Crash, people
<1>2. Typed'
  BY <1>1, BatchEnds DEF Inv, Typed
<1>3. LocksExclude' /\ ClaimsAreCovered'
  BY <1>1, EndedBatchIsCovered
<1>4. OwnRowsFollow'
  BY <1>1, OthersFollow
<1>5. AcceptedIsKnown'
  <2>1. ASSUME NEW d \in Delivery \ undone', NEW v \in Worker, Remembers(v, d)
        PROVE  Remembers(v, d)'
    <3>1. v # w
      BY <1>1, <2>1 DEF Remembers
    <3> QED
      BY <1>1, <2>1, <3>1, BatchEnds DEF Remembers
  <2> QED
    BY <1>1, <2>1 DEF Inv, AcceptedIsKnown
<1> QED
  BY <1>2, <1>3, <1>4, <1>5 DEF Inv

\* What a batch commits: no row is still claimed.
LEMMA CommittedRow ==
    ASSUME Inv, NEW w \in Worker, Commit(w), NEW d \in Delivery
    PROVE  /\ rows'[d] \in CommittedRows
           /\ d \notin locked[w] => rows'[d] = rows[d]
           /\ d \in locked[w] =>
                 /\ rows'[d].state = mine[w][d].state
                 /\ \/ rows'[d].state = rows[d].state
                    \/ /\ rows[d].state = "pending"
                       /\ \/ rows'[d].state \in {"dead_letter", "suppressed"}
                          \/ rows'[d].state = "delivered" /\ accepted[d] > 0
<1>1. /\ grouped[w] = <<>> /\ rows'[d] = View(w, d)
      /\ rows[d] \in CommittedRows
  BY DEF Commit, Inv, Typed
<1>2. CASE d \in locked[w]
  <2>1. rows'[d] = mine[w][d] /\ mine[w][d] \in OwnRows
    BY <1>1, <1>2 DEF View, Inv, Typed
  <2>2. d \notin Members(grouped[w])
    BY <1>1, NoGroups
  <2>3. \/ rows'[d].state = rows[d].state
        \/ /\ rows[d].state = "pending"
           /\ \/ rows'[d].state \in {"dead_letter", "suppressed"}
              \/ rows'[d].state = "delivered" /\ accepted[d] > 0
    BY <1>2, <2>1, <2>2 DEF Inv, OwnRowsFollow
  <2>4. rows'[d].state \in State
    BY <1>1, <2>3 DEF CommittedRows, RowOf, State
  <2> QED
    BY <1>2, <2>1, <2>3, <2>4 DEF OwnRows, CommittedRows, RowOf
<1>3. CASE d \notin locked[w]
  BY <1>1, <1>3 DEF View
<1> QED
  BY <1>2, <1>3

LEMMA CommitKeepsInv == ASSUME Inv, NEW w \in Worker, Commit(w) PROVE Inv'
<1>1. /\ UNCHANGED <<active, wish, clock, accepted, undone>>
      /\ pc[w] = "batch" /\ EndBatch(w)
      /\ rows' = [d \in Delivery |-> View(w, d)]
  BY DEF Commit, people, bounds, ghosts
<1>2. Typed'
  <2>1. rows' \in [Delivery -> CommittedRows]
    BY <1>1, CommittedRow
  <2> QED
    BY <1>1, <2>1, BatchEnds DEF Inv, Typed
<1>3. LocksExclude' /\ ClaimsAreCovered'
  BY <1>1, EndedBatchIsCovered
<1>4. \A v \in Worker \ {w}, d \in Delivery : d \in locked[v] => rows'[d] = rows[d]
  BY CommittedRow DEF Inv, LocksExclude
<1>5. OwnRowsFollow'
  BY <1>1, <1>4, OthersFollow
<1>6. AcceptedIsKnown'
  <2>1. ASSUME NEW d \in Delivery, rows[d].state = "delivered"
        PROVE  rows'[d].state = "delivered"
    BY <2>1, CommittedRow
  <2>2. ASSUME NEW d \in Delivery, NEW v \in Worker, Remembers(v, d)
        PROVE  rows'[d].state = "delivered" \/ Remembers(v, d)'
    <3>1. CASE v = w
      BY <1>1, <2>2, <3>1, CommittedRow DEF Remembers
    <3>2. CASE v # w
      BY <1>1, <2>2, <3>2, BatchEnds DEF Remembers
    <3> QED
      BY <3>1, <3>2
  <2> QED
    BY <1>1, <2>1, <2>2 DEF Inv, AcceptedIsKnown
<1> QED
  BY <1>2, <1>3, <1>5, <1>6 DEF Inv

-----------------------------------------------------------------------------
(* Around the batches. *)

\* A row in nobody's hands and not delivered was never in an accepted mail.
LEMMA FreeRows ==
    ASSUME Inv, NEW d \in Delivery \ undone, Free(d), rows[d].state # "delivered"
    PROVE  accepted[d] = 0
<1>1. \A w \in Worker : ~Remembers(w, d)
  BY DEF Free, Remembers
<1>2. ~(accepted[d] > 0)
  BY <1>1 DEF Inv, AcceptedIsKnown
<1> QED
  BY <1>2, LimitAssumption DEF Inv, Typed

\* A new or revived row: nobody holds it.
LEMMA PendingRow ==
    ASSUME Inv, NEW d \in Delivery, Project(d) \/ Retry(d)
    PROVE  /\ Free(d)
           /\ \/ rows[d].state = "absent" \/ rows[d].state = "dead_letter"
           /\ rows'[d].state = "pending"
           /\ UNCHANGED <<active, wish, pc, batch, clock, ghosts>>
           /\ rows' \in [Delivery -> CommittedRows]
           /\ \A x \in Delivery \ {d} : rows'[x] = rows[x]
<1>1. /\ clock \in Times /\ clock \in 0..MaxClock /\ "pending" \in State
      /\ rows \in [Delivery -> CommittedRows]
  BY DEF Inv, Typed, Times, State
<1>2. CASE Project(d)
  <2> DEFINE row == [Unborn EXCEPT !.state = "pending", !.available = clock,
                                   !.created = clock]
  <2>1. row \in CommittedRows /\ row.state = "pending"
    BY <1>1 DEF Unborn, CommittedRows, RowOf
  <2>2. rows' = [rows EXCEPT ![d] = row]
    BY <1>2 DEF Project
  <2> HIDE DEF row
  <2>3. /\ rows' \in [Delivery -> CommittedRows] /\ rows'[d].state = "pending"
        /\ \A x \in Delivery \ {d} : rows'[x] = rows[x]
    BY <1>1, <2>1, <2>2
  <2> QED
    BY <1>2, <2>3 DEF Project, RowsOf, people, bounds
<1>3. CASE Retry(d)
  <2> DEFINE row == [rows[d] EXCEPT !.state = "pending", !.attempts = 0,
                                    !.retries = rows[d].retries + 1,
                                    !.available = clock]
  <2>1. row \in CommittedRows /\ row.state = "pending"
    <3>1. rows[d] \in CommittedRows /\ rows[d].retries + 1 \in Nat
      BY <1>1 DEF CommittedRows, RowOf
    <3> QED
      BY <1>1, <3>1 DEF CommittedRows, RowOf
  <2>2. rows' = [rows EXCEPT ![d] = row]
    BY <1>3 DEF Retry
  <2> HIDE DEF row
  <2>3. /\ rows' \in [Delivery -> CommittedRows] /\ rows'[d].state = "pending"
        /\ \A x \in Delivery \ {d} : rows'[x] = rows[x]
    BY <1>1, <2>1, <2>2
  <2> QED
    BY <1>3, <2>3 DEF Retry, Administer, people
<1> QED
  BY <1>2, <1>3

LEMMA PendingKeepsInv ==
    ASSUME Inv, NEW d \in Delivery, Project(d) \/ Retry(d)  PROVE Inv'
<1>1. /\ Free(d) /\ rows[d].state # "delivered"
      /\ UNCHANGED <<active, wish, pc, queue, now, mine, locked, grouped, outcome,
                     clock, accepted, undone>>
      /\ rows' \in [Delivery -> CommittedRows]
      /\ \A x \in Delivery \ {d} : rows'[x] = rows[x]
  BY PendingRow DEF batch, ghosts
<1>2. Typed'
  BY <1>1 DEF Inv, Typed
<1>3. \A v \in Worker : Addressed(v)' = Addressed(v)
  BY <1>1, DigestStays
<1>4. LocksExclude' /\ ClaimsAreCovered'
  BY <1>1, <1>3 DEF Inv, LocksExclude, ClaimsAreCovered, RowsOf
<1>5. OwnRowsFollow'
  BY <1>1 DEF Inv, OwnRowsFollow, Free
<1>6. AcceptedIsKnown'
  <2>1. d \notin undone => accepted[d] = 0
    BY <1>1, FreeRows
  <2>2. \A x \in Delivery, v \in Worker : Remembers(v, x) => Remembers(v, x)'
    BY <1>1, <1>3 DEF Remembers
  <2> QED
    BY <1>1, <2>1, <2>2 DEF Inv, AcceptedIsKnown
<1> QED
  BY <1>2, <1>4, <1>5, <1>6 DEF Inv

\* Accounts nobody has locked, preferences and the clock may change.
LEMMA PeopleKeepInv ==
    ASSUME Inv, UNCHANGED <<rows, pc, batch, ghosts>>, clock' \in 0..MaxClock,
           wish' \in [Recipient -> Wish], active' \in [Recipient -> BOOLEAN],
           \A r \in Recipient : active'[r] = active[r] \/ Free(r)
    PROVE  Inv'
<1>1. UNCHANGED <<rows, pc, queue, now, mine, locked, grouped, outcome, accepted,
                  undone>>
  BY DEF batch, ghosts
<1>2. Typed'
  BY <1>1 DEF Inv, Typed
<1>3. \A v \in Worker : Addressed(v)' = Addressed(v)
  BY <1>1, DigestStays
<1>4. ClaimsAreCovered'
  <2>1. ASSUME NEW w \in Worker, NEW d \in Members(grouped[w])
        PROVE  active'[RecipientOf[d]]
    <3>1. /\ RecipientOf[d] \in Recipient /\ RecipientOf[d] \in RowsOf(d)
      BY ClaimedRows, RowsOfType
    <3>2. RecipientOf[d] \in locked[w] /\ active[RecipientOf[d]]
      BY <3>1 DEF Inv, ClaimsAreCovered
    <3> QED
      BY <3>1, <3>2 DEF Free
  <2> QED
    BY <1>1, <1>3, <2>1 DEF Inv, ClaimsAreCovered, RowsOf
<1>5. LocksExclude' /\ OwnRowsFollow'
  BY <1>1 DEF Inv, LocksExclude, OwnRowsFollow
<1>6. AcceptedIsKnown'
  BY <1>1, <1>3 DEF Inv, AcceptedIsKnown, Remembers
<1> QED
  BY <1>2, <1>4, <1>5, <1>6 DEF Inv

LEMMA NextKeepsInv == Inv /\ [Next]_vars => Inv'
<1> SUFFICES ASSUME Inv, [Next]_vars  PROVE Inv'
  OBVIOUS
<1>0. /\ clock \in 0..MaxClock /\ wish \in [Recipient -> Wish]
      /\ active \in [Recipient -> BOOLEAN]
  BY DEF Inv, Typed
<1>1. ASSUME NEW w \in Worker, Step(w)  PROVE Inv'
  <2>1. CASE Start(w) \/ \E d \in Delivery : Skip(w, d)
    BY <2>1, ListingKeepsInv
  <2>2. CASE \E d \in Delivery :
                PassOver(w, d) \/ Suppress(w, d) \/ Defer(w, d) \/ Claim(w, d)
    BY <2>2, LookingKeepsInv
  <2>3. CASE Send(w)
    BY <2>3, SendKeepsInv
  <2>4. CASE Record(w)
    BY <2>4, RecordKeepsInv
  <2>5. CASE Commit(w)
    BY <2>5, CommitKeepsInv
  <2> QED
    BY <1>1, <2>1, <2>2, <2>3, <2>4, <2>5 DEF Step
<1>2. ASSUME NEW w \in Worker, Crash(w)  PROVE Inv'
  BY <1>2, CrashKeepsInv
<1>3. ASSUME NEW d \in Delivery, Project(d) \/ Retry(d)  PROVE Inv'
  BY <1>3, PendingKeepsInv
<1>4. ASSUME NEW d \in Delivery, SetAuthority(d)  PROVE Inv'
  <2>1. UNCHANGED <<rows, active, wish, pc, batch, ghosts, clock>>
    BY <1>4 DEF SetAuthority, Administer
  <2> QED
    BY <1>0, <2>1, PeopleKeepInv
<1>5. ASSUME NEW r \in Recipient, SetWish(r)  PROVE Inv'
  <2>1. UNCHANGED <<rows, active, pc, batch, ghosts, clock>>
        /\ wish' \in [Recipient -> Wish]
    BY <1>0, <1>5 DEF SetWish, Administer
  <2> QED
    BY <1>0, <2>1, PeopleKeepInv
<1>6. ASSUME NEW r \in Recipient, SetAccount(r)  PROVE Inv'
  <2>1. /\ UNCHANGED <<rows, wish, pc, batch, ghosts, clock>>
        /\ Free(r) /\ active' = [active EXCEPT ![r] = ~active[r]]
    BY <1>6 DEF SetAccount, Administer
  <2>2. /\ active' \in [Recipient -> BOOLEAN]
        /\ \A q \in Recipient : active'[q] = active[q] \/ q = r
    BY <1>0, <2>1
  <2> QED
    BY <1>0, <2>1, <2>2, PeopleKeepInv
<1>7. CASE Tick
  <2>1. UNCHANGED <<rows, active, wish, pc, batch, ghosts>> /\ clock' \in 0..MaxClock
    BY <1>0, <1>7, LimitAssumption DEF Tick, people
  <2> QED
    BY <1>0, <2>1, PeopleKeepInv
<1>8. CASE UNCHANGED vars
  <2>1. UNCHANGED <<rows, active, wish, pc, batch, ghosts, clock>>
    BY <1>8 DEF vars, batch, ghosts
  <2> QED
    BY <1>0, <2>1, PeopleKeepInv
<1> QED
  BY <1>1, <1>2, <1>3, <1>4, <1>5, <1>6, <1>7, <1>8 DEF Next

-----------------------------------------------------------------------------
(* Attempts, times and retries stay in their bounds. *)

\* After an attempt the next one waits, and at most as long as the cap.
LEMMA RetryDelayType ==
    ASSUME NEW n \in Nat, n > 0  PROVE RetryDelay(n) \in 1..MaxDelay
<1>1. n - 1 \in Nat
  OBVIOUS
<1>2. 2 ^ (n - 1) \in Nat /\ 2 ^ (n - 1) # 0
  BY <1>1, Power
<1> DEFINE p == 2 ^ (n - 1)
<1>3. RetryDelay(n) = IF p <= MaxDelay THEN p ELSE MaxDelay
  BY DEF RetryDelay, Lesser
<1> HIDE DEF p
<1>4. p \in Nat /\ p # 0
  BY <1>2 DEF p
<1> QED
  BY <1>3, <1>4, LimitAssumption

\* The schedule knows no time before the first.
LEMMA ScheduleType ==
    ASSUME NEW p \in Preference, NEW created \in Nat, NEW t \in Nat
    PROVE  NextDeliveryAt(p, created, t) \in Nat
<1>1. /\ Day \in Nat \ {0} /\ HourSlots \in Nat \ {0}
      /\ p.digest \in Nat /\ p.end \in Nat
      /\ p.mode \in {"immediate", "hourly", "daily"}
  BY DayAssumption DEF Preference
<1>2. \A s \in Nat : StartOfDay(s) \in Nat /\ NextHour(s) \in Nat
  <2>1. ASSUME NEW s \in Nat, NEW m \in Nat \ {0}
        PROVE  s % m \in Nat /\ s - (s % m) \in Nat
    <3>1. s % m \in 0..(m - 1) /\ s = (s \div m) * m + (s % m) /\ s \div m \in Nat
      BY SMT
    <3>2. (s \div m) * m \in Nat
      BY <3>1, SMT
    <3> QED
      BY <3>1, <3>2, SMT
  <2>2. ASSUME NEW s \in Nat
        PROVE  StartOfDay(s) \in Nat /\ NextHour(s) \in Nat
    <3>1. s - (s % Day) \in Nat /\ s - (s % HourSlots) \in Nat
      BY <1>1, <2>1
    <3> DEFINE h == s - (s % HourSlots)
    <3> HIDE DEF h
    <3>2. h + HourSlots \in Nat
      BY <1>1, <3>1 DEF h
    <3> QED
      BY <3>1, <3>2 DEF StartOfDay, TimeOfDay, NextHour, h
  <2> QED
    BY <2>2
<1>3. Candidate(p, created, t) \in Nat
  <2>1. NextDigest(p, created) \in Nat
    BY <1>1, <1>2 DEF NextDigest
  <2> QED
    BY <1>1, <1>2, <2>1 DEF Candidate
<1>4. \A s \in Nat : OutsideQuietHours(p, s) \in Nat
  BY <1>1, <1>2 DEF OutsideQuietHours
<1> QED
  BY <1>3, <1>4 DEF NextDeliveryAt

\* A row that can still be tried has an attempt left, one that is being tried
\* has used one, and every retry was an action of the administrator.
Sound(row, retries) ==
    /\ row.available \in 0..MaxClock
    /\ row.attempts <= MaxAttempts
    /\ row.state = "pending" => row.attempts < MaxAttempts
    /\ row.state = "processing" => row.attempts > 0
    /\ row.retries <= retries

Bounded ==
    /\ authorized \subseteq Delivery
    /\ crashes \in 0..MaxCrashes /\ admin \in 0..MaxAdmin
    /\ \A d \in Delivery : Sound(rows[d], admin)
    /\ \A w \in Worker, d \in Delivery : Sound(mine[w][d], admin)

LEMMA UnbornIsSound == \A n \in Nat : Sound(Unborn, n)
BY LimitAssumption DEF Unborn, Sound

LEMMA SoundForLonger ==
    ASSUME NEW row \in OwnRows, NEW n \in Nat, NEW m \in Nat, n <= m, Sound(row, n)
    PROVE  Sound(row, m)
<1>1. row.retries \in Nat
  BY DEF OwnRows, RowOf
<1> QED
  BY <1>1 DEF Sound

LEMMA InitBounded == Init => Bounded
<1> SUFFICES ASSUME Init PROVE Bounded
  OBVIOUS
<1>1. \A n \in Nat : Sound(Unborn, n)
  BY UnbornIsSound
<1> HIDE DEF Sound
<1> QED
  BY <1>1, LimitAssumption DEF Init, Bounded

\* A look leaves a sound row: only a row with an attempt left is claimed.
LEMMA LookedIsSound ==
    ASSUME Inv, Bounded, NEW w \in Worker, NEW d \in Delivery,
           PassOver(w, d) \/ Suppress(w, d) \/ Defer(w, d) \/ Claim(w, d)
    PROVE  Sound(mine'[w][d], admin)
<1> DEFINE row == View(w, d)
<1>1. row \in OwnRows /\ Sound(row, admin)
  <2>1. row \in OwnRows
    BY ViewType DEF Inv
  <2>2. Sound(row, admin)
    BY DEF View, Bounded
  <2> QED
    BY <2>1, <2>2
<1>2. ASSUME NEW new, Take(w, d, new)  PROVE mine'[w][d] = new
  BY <1>2, TakeLocks
<1>3. row.attempts \in Nat /\ MaxAttempts \in Nat \ {0}
  BY <1>1, LimitAssumption DEF OwnRows, RowOf
<1>4. CASE PassOver(w, d)
  <2>1. mine'[w][d] = row
    BY <1>2, <1>4 DEF PassOver
  <2> QED
    BY <1>1, <2>1
<1>5. CASE Suppress(w, d)
  <2>1. mine'[w][d] = [row EXCEPT !.state = "suppressed"]
    BY <1>2, <1>5 DEF Suppress
  <2> HIDE DEF row
  <2> QED
    BY <1>1, <2>1 DEF Sound, OwnRows, RowOf
<1>6. CASE Defer(w, d)
  <2> DEFINE time == Lesser(EligibleAt(w, d), MaxClock)
  <2>1. mine'[w][d] = [row EXCEPT !.available = time]
    BY <1>2, <1>6 DEF Defer
  <2>2. time \in 0..MaxClock
    <3>1. /\ wish[RecipientOf[d]] \in Preference /\ row.created \in Nat
          /\ now[w] \in Nat
      BY <1>1, RecipientAssumption DEF Inv, Typed, OwnRows, RowOf
    <3>2. EligibleAt(w, d) \in Nat
      BY <3>1, ScheduleType DEF EligibleAt
    <3> QED
      BY <3>2, LimitAssumption DEF Lesser
  <2> HIDE DEF row, time
  <2> QED
    BY <1>1, <2>1, <2>2 DEF Sound, OwnRows, RowOf
<1>7. CASE Claim(w, d)
  <2> DEFINE count == row.attempts + 1
  <2>1. /\ mine'[w][d] = [row EXCEPT !.state = "processing", !.attempts = count]
        /\ row.state = "pending"
    BY <1>2, <1>7 DEF Claim, Claimable
  <2>2. count \in Nat /\ count > 0 /\ count <= MaxAttempts
    BY <1>1, <1>3, <2>1 DEF Sound
  <2> HIDE DEF row, count
  <2>3. /\ mine'[w][d].state = "processing" /\ mine'[w][d].attempts = count
        /\ mine'[w][d].available = row.available /\ mine'[w][d].retries = row.retries
    BY <1>1, <2>1 DEF OwnRows, RowOf
  <2> QED
    BY <1>1, <2>2, <2>3 DEF Sound
<1> QED
  BY <1>4, <1>5, <1>6, <1>7

\* An answer leaves a sound row: one is tried again only if it has an attempt left.
LEMMA RecordedIsSound ==
    ASSUME NEW row \in OwnRows, NEW n \in Nat, Sound(row, n),
           row.state = "processing", NEW answer \in Outcome, NEW t \in 0..MaxClock
    PROVE  Sound(Recorded(row, answer, t), n)
<1> DEFINE time == Lesser(t + RetryDelay(row.attempts), MaxClock)
<1>1. row.attempts \in Nat /\ row.attempts > 0 /\ MaxAttempts \in Nat
  BY LimitAssumption DEF Sound, OwnRows, RowOf
<1>2. time \in 0..MaxClock
  <2>1. RetryDelay(row.attempts) \in 1..MaxDelay
    BY <1>1, RetryDelayType
  <2>2. \A k \in 1..MaxDelay : Lesser(t + k, MaxClock) \in 0..MaxClock
    BY LimitAssumption DEF Lesser
  <2> QED
    BY <2>1, <2>2
<1>3. ASSUME NEW end \in {"delivered", "dead_letter"}
      PROVE  Sound([row EXCEPT !.state = end], n)
  BY DEF Sound, OwnRows, RowOf
<1>4. CASE answer = "success"
  BY <1>3, <1>4 DEF Recorded
<1>5. CASE answer # "success" /\ (answer = "permanent" \/ row.attempts >= MaxAttempts)
  BY <1>3, <1>5 DEF Recorded
<1>6. CASE ~(answer = "success" \/ answer = "permanent" \/ row.attempts >= MaxAttempts)
  <2>1. Recorded(row, answer, t) = [row EXCEPT !.state = "pending", !.available = time]
    BY <1>6 DEF Recorded, Retried
  <2> HIDE DEF time
  <2>2. row.attempts < MaxAttempts
    BY <1>1, <1>6
  <2> QED
    BY <1>2, <2>1, <2>2 DEF Sound, OwnRows, RowOf
<1> QED
  BY <1>4, <1>5, <1>6

\* Whatever a step makes of the rows: it leaves each as it was or sound.
LEMMA StaysBounded ==
    ASSUME Inv, Bounded, NEW n \in 0..MaxAdmin, admin <= n, admin' = n,
           authorized' \subseteq Delivery, crashes' \in 0..MaxCrashes,
           \A d \in Delivery : rows'[d] = rows[d] \/ Sound(rows'[d], n),
           \A w \in Worker, d \in Delivery :
               mine'[w][d] = mine[w][d] \/ Sound(mine'[w][d], n)
    PROVE  Bounded'
<1>1. admin \in Nat /\ n \in Nat
  BY LimitAssumption DEF Bounded
<1>2. ASSUME NEW d \in Delivery  PROVE Sound(rows'[d], n)
  <2>1. rows[d] \in OwnRows /\ Sound(rows[d], admin)
    BY DEF Inv, Typed, Bounded, OwnRows, CommittedRows, RowOf
  <2>2. Sound(rows[d], n)
    BY <1>1, <2>1, SoundForLonger
  <2> QED
    BY <2>2
<1>3. ASSUME NEW w \in Worker, NEW d \in Delivery  PROVE Sound(mine'[w][d], n)
  <2>1. mine[w][d] \in OwnRows /\ Sound(mine[w][d], admin)
    BY DEF Inv, Typed, Bounded
  <2>2. Sound(mine[w][d], n)
    BY <1>1, <2>1, SoundForLonger
  <2> QED
    BY <2>2
<1> QED
  BY <1>2, <1>3 DEF Bounded

LEMMA StepKeepsBounded ==
    ASSUME Inv, Bounded, NEW w \in Worker, Step(w) \/ Crash(w)  PROVE Bounded'
<1> DEFINE n == admin
<1>0. n \in 0..MaxAdmin /\ n \in Nat /\ n <= n /\ authorized \subseteq Delivery
      /\ crashes \in 0..MaxCrashes
  BY LimitAssumption DEF Bounded
<1>1. UNCHANGED <<admin, authorized>> /\ crashes' \in 0..MaxCrashes
  <2>1. CASE Crash(w)
    BY <1>0, <2>1, LimitAssumption DEF Crash, people
  <2>2. CASE Step(w)
    <3>1. UNCHANGED <<admin, authorized, crashes>>
      BY <2>2, Zenon DEF Step, Start, Skip, PassOver, Suppress, Defer, Claim, Look,
                         Send, Record, Commit, people, bounds
    <3> QED
      BY <1>0, <3>1
  <2> QED
    BY <2>1, <2>2
<1>2. ASSUME EndBatch(w)
      PROVE  \A v \in Worker, d \in Delivery :
                mine'[v][d] = mine[v][d] \/ Sound(mine'[v][d], n)
  <2>1. \A v \in Worker, d \in Delivery :
           mine'[v][d] = mine[v][d] \/ mine'[v][d] = Unborn
    BY <1>2 DEF EndBatch, Inv, Typed
  <2>2. Sound(Unborn, n)
    BY <1>0, UnbornIsSound
  <2> QED
    BY <2>1, <2>2
<1>3. CASE Start(w) \/ (\E d \in Delivery : Skip(w, d)) \/ Send(w)
  <2>1. UNCHANGED <<rows, mine>>
    BY <1>3 DEF Start, Skip, Look, Send
  <2> QED
    BY <1>0, <1>1, <2>1, StaysBounded
<1>4. ASSUME NEW d \in Delivery,
             PassOver(w, d) \/ Suppress(w, d) \/ Defer(w, d) \/ Claim(w, d)
      PROVE  Bounded'
  <2>1. rows' = rows /\ Sound(mine'[w][d], n)
    BY <1>4, LookTakes, LookedIsSound DEF Look
  <2>2. ASSUME NEW v \in Worker, NEW x \in Delivery
        PROVE  mine'[v][x] = mine[v][x] \/ Sound(mine'[v][x], n)
    <3>1. Take(w, d, mine'[w][d])
      BY <1>4, LookTakes
    <3>2. v # w \/ x # d => mine'[v][x] = mine[v][x]
      BY <3>1, TakeLocks
    <3> QED
      BY <2>1, <3>2
  <2> QED
    BY <1>0, <1>1, <2>1, <2>2, StaysBounded
<1>5. CASE Record(w)
  <2>1. rows' = rows /\ grouped[w] # <<>>
    BY <1>5 DEF Record, Inv, ClaimsAreCovered
  <2>2. ASSUME NEW d \in Addressed(w)
        PROVE  Sound(Recorded(mine[w][d], outcome[w], now[w]), n)
    <3>1. /\ d \in Delivery /\ mine[w][d].state = "processing"
      BY <2>1, DigestShape, ClaimedRows
    <3>2. /\ mine[w][d] \in OwnRows /\ outcome[w] \in Outcome
          /\ now[w] \in 0..MaxClock /\ Sound(mine[w][d], n)
      BY <3>1 DEF Inv, Typed, Bounded
    <3> QED
      BY <1>0, <3>1, <3>2, RecordedIsSound
  <2>3. ASSUME NEW v \in Worker, NEW d \in Delivery
        PROVE  \/ mine'[v][d] = mine[v][d]
               \/ /\ v = w /\ d \in Addressed(w)
                  /\ mine'[v][d] = Recorded(mine[w][d], outcome[w], now[w])
    BY <1>5 DEF Record, Inv, Typed
  <2>4. \A v \in Worker, d \in Delivery :
           mine'[v][d] = mine[v][d] \/ Sound(mine'[v][d], n)
    BY <2>2, <2>3
  <2> QED
    BY <1>0, <1>1, <2>1, <2>4, StaysBounded
<1>6. CASE Commit(w)
  <2>1. /\ EndBatch(w)
        /\ \A d \in Delivery : rows'[d] = mine[w][d] \/ rows'[d] = rows[d]
    BY <1>6 DEF Commit, View
  <2>2. \A d \in Delivery : rows'[d] = rows[d] \/ Sound(rows'[d], n)
    BY <2>1 DEF Bounded
  <2> QED
    BY <1>0, <1>1, <1>2, <2>1, <2>2, StaysBounded
<1>7. CASE Crash(w)
  <2>1. EndBatch(w) /\ rows' = rows
    BY <1>7 DEF Crash
  <2> QED
    BY <1>0, <1>1, <1>2, <2>1, StaysBounded
<1> QED
  BY <1>3, <1>4, <1>5, <1>6, <1>7 DEF Step

LEMMA PendingKeepsBounded ==
    ASSUME Inv, Bounded, NEW d \in Delivery, Project(d) \/ Retry(d)  PROVE Bounded'
<1>1. /\ admin \in 0..MaxAdmin /\ admin \in Nat /\ clock \in 0..MaxClock
      /\ authorized \subseteq Delivery /\ crashes \in 0..MaxCrashes
      /\ MaxAttempts \in Nat \ {0} /\ MaxAdmin \in Nat
  BY LimitAssumption DEF Inv, Typed, Bounded
<1>2. rows[d] \in OwnRows /\ rows[d].retries \in Nat /\ rows[d].retries <= admin
  BY DEF Inv, Typed, Bounded, Sound, OwnRows, CommittedRows, RowOf
<1>3. \A x \in Delivery \ {d} : rows'[x] = rows[x]
  BY PendingRow
<1>4. CASE Project(d)
  <2> DEFINE row == [Unborn EXCEPT !.state = "pending", !.available = clock,
                                   !.created = clock]
  <2>1. Sound(row, admin)
    BY <1>1 DEF Sound, Unborn
  <2>2. rows'[d] = row /\ UNCHANGED <<mine, authorized, admin, crashes>>
    BY <1>4 DEF Project, Inv, Typed, people, batch, bounds
  <2> HIDE DEF row
  <2>3. \A x \in Delivery : rows'[x] = rows[x] \/ Sound(rows'[x], admin)
    BY <1>3, <2>1, <2>2
  <2>4. admin <= admin
    BY <1>1
  <2> QED
    BY <1>1, <2>2, <2>3, <2>4, StaysBounded
<1>5. CASE Retry(d)
  <2> DEFINE more == rows[d].retries + 1
             row == [rows[d] EXCEPT !.state = "pending", !.attempts = 0,
                                    !.retries = more, !.available = clock]
             n == admin + 1
  <2>1. rows'[d] = row /\ UNCHANGED <<mine, authorized, crashes>> /\ admin' = n
        /\ admin < MaxAdmin
    BY <1>5 DEF Retry, Administer, Inv, Typed, people, batch
  <2>2. n \in 0..MaxAdmin /\ n \in Nat /\ admin <= n /\ more <= n
    BY <1>1, <1>2, <2>1
  <2> HIDE DEF more, n
  <2>3. Sound(row, n)
    <3>1. /\ row.state = "pending" /\ row.attempts = 0 /\ row.retries = more
          /\ row.available = clock
      BY <1>2 DEF OwnRows, RowOf
    <3> HIDE DEF row
    <3> QED
      BY <1>1, <2>2, <3>1 DEF Sound
  <2> HIDE DEF row
  <2>4. \A x \in Delivery : rows'[x] = rows[x] \/ Sound(rows'[x], n)
    BY <1>3, <2>1, <2>3
  <2> QED
    BY <1>1, <2>1, <2>2, <2>4, StaysBounded
<1> QED
  BY <1>4, <1>5

LEMMA NextKeepsBounded == Inv /\ Bounded /\ [Next]_vars => Bounded'
<1> SUFFICES ASSUME Inv, Bounded, [Next]_vars  PROVE Bounded'
  OBVIOUS
<1>0. /\ admin \in 0..MaxAdmin /\ admin \in Nat /\ MaxAdmin \in Nat
      /\ authorized \subseteq Delivery /\ crashes \in 0..MaxCrashes
  BY LimitAssumption DEF Bounded
<1>1. ASSUME UNCHANGED <<rows, mine, crashes>>, authorized' \subseteq Delivery,
             admin' = admin \/ (admin < MaxAdmin /\ admin' = admin + 1)
      PROVE  Bounded'
  <2>1. PICK n \in 0..MaxAdmin : admin' = n /\ admin <= n
    BY <1>0, <1>1
  <2> QED
    BY <1>0, <1>1, <2>1, StaysBounded
<1>2. ASSUME NEW w \in Worker, Step(w) \/ Crash(w)  PROVE Bounded'
  BY <1>2, StepKeepsBounded
<1>3. ASSUME NEW d \in Delivery, Project(d) \/ Retry(d)  PROVE Bounded'
  BY <1>3, PendingKeepsBounded
<1>4. ASSUME NEW d \in Delivery, SetAuthority(d)  PROVE Bounded'
  BY <1>0, <1>1, <1>4 DEF SetAuthority, Administer, batch
<1>5. ASSUME NEW r \in Recipient, SetAccount(r) \/ SetWish(r)  PROVE Bounded'
  BY <1>0, <1>1, <1>5 DEF SetAccount, SetWish, Administer, batch
<1>6. CASE Tick \/ UNCHANGED vars
  <2>1. UNCHANGED <<rows, mine, crashes, authorized, admin>>
    BY <1>6 DEF Tick, vars, people, batch
  <2> QED
    BY <1>0, <1>1, <2>1
<1> QED
  BY <1>2, <1>3, <1>4, <1>5, <1>6 DEF Next

\* The variables keep their types: no row is tried more often than
\* MAX_EMAIL_ATTEMPTS allows between two retries, and the time at which it is due
\* is one that the schedule or _retry_delay can produce.
THEOREM TypesAreKept == Spec => []TypeOK
<1>1. ASSUME Inv, Bounded  PROVE TypeOK
  <2>1. ASSUME NEW states, NEW row \in RowOf(states), Sound(row, admin)
        PROVE  row \in RowIn(states)
    <3>1. /\ row.attempts \in 0..MaxAttempts /\ row.retries \in 0..MaxAdmin
          /\ row.available \in 0..MaxClock
      BY <1>1, <2>1, LimitAssumption DEF Sound, RowOf, Bounded
    <3> QED
      BY <3>1 DEF RowOf, RowIn
  <2>2. rows \in [Delivery -> RowIn(State)]
    <3>1. \A d \in Delivery : rows[d] \in RowOf(State) /\ Sound(rows[d], admin)
      BY <1>1 DEF Inv, Typed, Bounded, CommittedRows
    <3>2. \A d \in Delivery : rows[d] \in RowIn(State)
      BY <2>1, <3>1
    <3> QED
      BY <1>1, <3>2 DEF Inv, Typed
  <2>3. mine \in [Worker -> [Delivery -> RowIn(State \cup {"processing"})]]
    <3>1. \A w \in Worker, d \in Delivery :
             /\ mine[w][d] \in RowOf(State \cup {"processing"})
             /\ Sound(mine[w][d], admin)
      BY <1>1 DEF Inv, Typed, Bounded, OwnRows
    <3>2. \A w \in Worker, d \in Delivery :
             mine[w][d] \in RowIn(State \cup {"processing"})
      BY <2>1, <3>1
    <3> QED
      BY <1>1, <3>2 DEF Inv, Typed
  <2> QED
    BY <1>1, <2>2, <2>3 DEF Inv, Typed, Bounded, TypeOK, Group, Lockable
<1> QED
  BY InitInv, NextKeepsInv, InitBounded, NextKeepsBounded, <1>1, PTL DEF Spec

-----------------------------------------------------------------------------
\* A digest on its way is of one recipient (the dictionary of claims by
\* recipient in dispatch_notification_emails).
THEOREM DigestsStayApart == Spec => []DigestsAreNotMixed
<1>1. ASSUME Inv  PROVE DigestsAreNotMixed
  <2>1. ASSUME NEW w \in Worker, pc[w] = "record"
        PROVE  \A d, e \in Addressed(w) : RecipientOf[d] = RecipientOf[e]
    <3>1. grouped[w] # <<>>
      BY <1>1, <2>1 DEF Inv, ClaimsAreCovered
    <3> QED
      BY <1>1, <3>1, DigestShape
  <2> QED
    BY <2>1 DEF DigestsAreNotMixed
<1> QED
  BY InitInv, NextKeepsInv, <1>1, PTL DEF Spec

\* Nothing is on its way to a closed account (the row lock that SELECT FOR
\* UPDATE takes on the joined account makes closing it wait).
THEOREM ClosedAccountsStayUnmailed == Spec => []ClosedAccountsGetNothing
<1>1. ASSUME Inv  PROVE ClosedAccountsGetNothing
  <2>1. ASSUME NEW w \in Worker, pc[w] = "record", NEW d \in Addressed(w)
        PROVE  active[RecipientOf[d]]
    <3>1. grouped[w] # <<>>
      BY <1>1, <2>1 DEF Inv, ClaimsAreCovered
    <3>2. d \in Members(grouped[w])
      BY <1>1, <2>1, <3>1, DigestShape
    <3> QED
      BY <1>1, <3>2 DEF Inv, ClaimsAreCovered
  <2> QED
    BY <2>1 DEF ClosedAccountsGetNothing
<1> QED
  BY InitInv, NextKeepsInv, <1>1, PTL DEF Spec

\* Without a rolled back batch a notification is mailed at most once
\* (dispatch_notification_emails under the task's transaction).
THEOREM NothingIsMailedTwice == Spec => []MailedOnce
<1>1. Inv => MailedOnce
  BY DEF Inv, AcceptedIsKnown, MailedOnce
<1> QED
  BY InitInv, NextKeepsInv, <1>1, PTL DEF Spec

-----------------------------------------------------------------------------
(* The dispatcher implements AtLeastOnce. *)

States == [d \in Delivery |-> rows[d].state]
Received == {d \in Delivery : accepted[d] > 0}

\* Rows move as the promise allows.
MovesAreAllowed ==
    \A d \in Delivery :
        \/ rows'[d].state = rows[d].state
        \/ rows[d].state \in {"absent", "dead_letter"} /\ rows'[d].state = "pending"
        \/ /\ rows[d].state = "pending"
           /\ \/ rows'[d].state \in {"dead_letter", "suppressed"}
              \/ rows'[d].state = "delivered" /\ accepted[d] > 0

LEMMA Moving ==
    ASSUME Inv, Inv', UNCHANGED accepted, MovesAreAllowed  PROVE Promise!Move
<1>1. States' \in [Delivery -> Promise!State]
  BY DEF Inv, Typed, CommittedRows, RowOf, State, States, Promise!State
<1>2. \A d \in Delivery : Promise!Allowed(d, States'[d])
  BY DEF MovesAreAllowed, Promise!Allowed, States
<1>3. UNCHANGED Received
  BY DEF Received
<1> QED
  BY <1>1, <1>2, <1>3 DEF Promise!Move, States, Received

\* A mail that is accepted hands over rows that are still promised.
LEMMA SendHandsOver ==
    ASSUME Inv, NEW w \in Worker, Send(w)
    PROVE  \/ \E items \in SUBSET Delivery : Promise!HandOver(items)
           \/ UNCHANGED <<rows, accepted>>
<1>1. /\ \A d \in Addressed(w) : d \in Delivery /\ rows[d].state = "pending"
      /\ rows' = rows /\ accepted \in [Delivery -> 0..MaxAccepted]
  BY DigestShape, ClaimedRows DEF Send, Inv, Typed
<1>2. PICK answer \in Outcome \ {"none"} :
         accepted' = [d \in Delivery |->
                        IF d \in Addressed(w) /\ answer = "success"
                        THEN Lesser(accepted[d] + 1, MaxAccepted) ELSE accepted[d]]
  BY DEF Send
<1>3. CASE answer = "success"
  <2>1. ASSUME NEW d \in Delivery
        PROVE  accepted'[d] > 0 <=> accepted[d] > 0 \/ d \in Addressed(w)
    <3>1. accepted[d] \in Nat /\ MaxAccepted \in Nat \ {0}
      BY <1>1, LimitAssumption
    <3>2. accepted'[d] = IF d \in Addressed(w)
                         THEN Lesser(accepted[d] + 1, MaxAccepted) ELSE accepted[d]
      BY <1>2, <1>3
    <3> QED
      BY <3>1, <3>2 DEF Lesser
  <2>2. Received' = Received \cup Addressed(w)
    BY <1>1, <2>1 DEF Received
  <2>3. States' = States /\ \A d \in Addressed(w) : States[d] = "pending"
    BY <1>1 DEF States
  <2>4. PICK items \in SUBSET Delivery : items = Addressed(w)
    BY DEF Addressed
  <2>5. Promise!HandOver(items)
    BY <2>2, <2>3, <2>4 DEF Promise!HandOver, States, Received
  <2> QED
    BY <2>5
<1>4. CASE answer # "success"
  BY <1>1, <1>2, <1>4
<1> QED
  BY <1>3, <1>4

\* No other step of a worker changes a committed row or sends a mail.
LEMMA OthersStutter ==
    ASSUME NEW w \in Worker,
           \/ Start(w) \/ Record(w) \/ Crash(w)
           \/ \E d \in Delivery : Skip(w, d) \/ PassOver(w, d) \/ Suppress(w, d)
                                  \/ Defer(w, d) \/ Claim(w, d)
    PROVE  UNCHANGED <<rows, accepted>>
BY DEF Start, Skip, PassOver, Suppress, Defer, Claim, Look, Record, Crash, ghosts

LEMMA NextIsPromised == Inv /\ [Next]_vars => [Promise!Next]_(Promise!promise)
<1> SUFFICES ASSUME Inv, [Next]_vars  PROVE [Promise!Next]_(Promise!promise)
  OBVIOUS
<1>1. Inv'
  BY NextKeepsInv
<1>2. ASSUME UNCHANGED <<rows, accepted>>  PROVE UNCHANGED Promise!promise
  BY <1>2 DEF Promise!promise
<1>3. ASSUME NEW w \in Worker, Step(w) \/ Crash(w)
      PROVE  [Promise!Next]_(Promise!promise)
  <2>1. CASE Commit(w)
    <3>1. MovesAreAllowed /\ UNCHANGED accepted
      BY <2>1, CommittedRow DEF MovesAreAllowed, Commit, ghosts
    <3>2. Promise!Move
      BY <1>1, <3>1, Moving
    <3> QED
      BY <3>2 DEF Promise!Next
  <2>2. CASE Send(w)
    BY <1>2, <2>2, SendHandsOver DEF Promise!Next
  <2>3. CASE ~Commit(w) /\ ~Send(w)
    BY <1>2, <1>3, <2>3, OthersStutter DEF Step
  <2> QED
    BY <2>1, <2>2, <2>3
<1>4. ASSUME NEW d \in Delivery, Project(d) \/ Retry(d)
      PROVE  [Promise!Next]_(Promise!promise)
  <2>1. MovesAreAllowed /\ UNCHANGED accepted
    BY <1>4, PendingRow DEF MovesAreAllowed, ghosts
  <2>2. Promise!Move
    BY <1>1, <2>1, Moving
  <2> QED
    BY <2>2 DEF Promise!Next
<1>5. CASE \/ \E d \in Delivery : SetAuthority(d)
           \/ \E r \in Recipient : SetAccount(r) \/ SetWish(r)
           \/ Tick \/ UNCHANGED vars
  BY <1>2, <1>5 DEF SetAuthority, SetAccount, SetWish, Administer, Tick, vars, ghosts
<1> QED
  BY <1>3, <1>4, <1>5 DEF Next

LEMMA InitIsPromised == Init => Promise!Init
BY DEF Init, Unborn, Promise!Init

\* Whatever dies, is put off or is retried, the dispatcher keeps the
\* at-least-once promise.
THEOREM PromiseIsImplemented == Spec => ImplementsPromise
BY InitInv, NextKeepsInv, InitIsPromised, NextIsPromised, PTL
   DEF Spec, ImplementsPromise, Promise!Spec

=============================================================================
