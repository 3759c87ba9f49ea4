-------------------------- MODULE InvoiceLedgerProofs --------------------------
(***************************************************************************)
(* InvoiceLedger is safe for any number of requests, invoices, items,      *)
(* settings and periods: its numbers, its final documents, its claimed     *)
(* periods, its stock and its corrections.  Two of its requests wait for   *)
(* each other only in the circles the model names.                         *)
(*                                                                         *)
(* Inv says what the locks protect.  Ledger rests on it and says in which  *)
(* order rows are locked, and what adds up: the stock, the credits and the *)
(* mails.                                                                  *)
(***************************************************************************)
EXTENDS InvoiceLedger, FiniteCounting, TLAPS

Number == [series : Series, period : Period, sequence : Nat]
Units == [Item -> Nat]
Document ==
    [state : {"absent", "draft", "issued"}, kind : {"invoice", "credit"},
     period : Period, quantity : Units, used : Units, source : Invoice \cup {None},
     number : {<<>>} \cup Number, claimed : Item \cup {None}, withdrawn : BOOLEAN,
     voided : BOOLEAN, deliveries : Nat]
Counters == [Series -> [period : 0..MaxPeriod, next : Nat]]
Terms == [from : Period, source : Nat]
Version == {0} \cup {Max(T) : T \in SUBSET Nat}
Claim == [invoice : Invoice \cup {None}, version : Version]
Tables == {"invoice", "line", "claim", "tenant", "client", "numbers", "stock", "contract",
           "schedule"}
Key == Invoice \cup {None} \cup Item \cup (Invoice \X Item)
Lockable == Tables \X Key
Op == DraftOps \cup IssuedOps \cup OtherOps \cup {"none", "delivered"}
Request == [op : Op, invoice : Invoice \cup {None}, item : Item \cup {None}]

DocTyped == doc \in [Invoice -> Document]
NumbersTyped == numbers \in [setting : Setting, series : Counters]
ScheduleTyped ==
    /\ contract \in Nat
    /\ schedule \in [enabled : BOOLEAN, terms : Seq(Terms), claims : [Period -> Claim]]
SessionTyped ==
    /\ request \in [Session -> Request]
    /\ todo \in [Session -> Seq(Lockable)]
    /\ held \in [Session -> SUBSET Lockable]

LocksExclude == \A s, t \in Session : s # t => held[s] \cap held[t] = {}

Elements(t) == {t[n] : n \in DOMAIN t}
ToLock(s) == Elements(todo[s])

\* What a request has found under its first lock stays true, and the rows it
\* needs are locked or will be.
RequestHolds(s) ==
    LET op == request[s].op
        i == request[s].invoice
        k == request[s].item
    IN  /\ op \in DraftOps \cup IssuedOps \cup {"delivered"} => i \in Invoice
        /\ op \in LineOps \cup {"receive", "archive"} => k \in Item
        /\ op \in DraftOps => Of(i) \in held[s] \cup ToLock(s)
        /\ op \in DraftOps \ {"update_line", "delete_line"} =>
             Of(i) \in held[s] /\ IsDraft(i)
        /\ op \in IssuedOps \cup {"delivered"} =>
             Of(i) \in held[s] /\ IsValid(i)
        /\ op \in {"update_line", "delete_line"} =>
             /\ LineOf(i, k) \in held[s]
             /\ doc[i].state # "absent" /\ doc[i].quantity[k] > 0
        /\ op = "delete_line" => k # doc[i].claimed
        /\ op = "delete" =>
             /\ doc[i].claimed = None
             /\ \A l \in Lines(i) : LineOf(i, l) \in held[s] \cup ToLock(s)

RequestsHold == \A s \in Session : RequestHolds(s)

AbsentIsBlank == \A i \in Invoice : doc[i].state = "absent" => doc[i] = Absent

\* The invoices numbered in series r, or in a period of it when it restarts.
NumberedIn(r, p) ==
    {i \in Issued : /\ doc[i].number.series = r
                    /\ r.reset => doc[i].number.period = p}

\* The counter of a series is one more than what was issued in its period, and
\* nothing was issued in later ones.
CountersAgree ==
    \A r \in Series, p \in Period :
        LET c == numbers.series[r]
        IN  /\ {doc[i].number.sequence : i \in NumberedIn(r, p)}
                 = 1..Cardinality(NumberedIn(r, p))
            /\ ~r.reset \/ c.period = p => c.next = Cardinality(NumberedIn(r, p)) + 1
            /\ r.reset /\ p > c.period => NumberedIn(r, p) = {}

\* The document of a claimed period has the line that bills it.
Bills(i) == LET k == doc[i].claimed IN
    doc[i].state # "absent" /\ k \in Item /\ doc[i].quantity[k] > 0

\* The schedule and the documents of its claimed periods.
ClaimHolds(p) ==
    LET claim == schedule.claims[p] IN
    /\ schedule.terms # <<>>
    /\ claim.version = InForce(p)
    /\ claim.invoice \in Invoice /\ Bills(claim.invoice)
    /\ \A q \in Period \ {p} : schedule.claims[q].invoice # claim.invoice

ClaimsHold ==
    /\ schedule.enabled => schedule.terms # <<>>
    /\ \A p \in Period : schedule.claims[p] # Unclaimed => ClaimHolds(p)

Inv == /\ DocTyped /\ NumbersTyped /\ ScheduleTyped /\ SessionTyped
       /\ LocksExclude /\ RequestsHold /\ AbsentIsBlank /\ CountersAgree
       /\ ClaimsHold

-----------------------------------------------------------------------------
(* What a transaction that holds the locks does to the documents. *)

Created(i) == doc[i].state = "absent" /\ doc'[i].state = "draft"

Edited(locks, i) ==
    /\ Of(i) \in locks /\ IsDraft(i)
    /\ doc'[i].state \in {"draft", "issued"}
    /\ doc'[i].claimed = doc[i].claimed
    /\ \A k \in Item : doc[i].quantity[k] > 0 /\ ~(doc'[i].quantity[k] > 0) =>
         LineOf(i, k) \in locks /\ k # doc[i].claimed

Deleted(locks, i) ==
    /\ Of(i) \in locks /\ IsDraft(i) /\ doc[i].claimed = None
    /\ \A k \in Lines(i) : LineOf(i, k) \in locks
    /\ doc'[i] = Absent

Closed(locks, i) ==
    /\ Of(i) \in locks /\ doc[i].state = "issued"
    /\ \/ doc'[i] = [doc[i] EXCEPT !.voided = TRUE]
       \/ doc'[i] = [doc[i] EXCEPT !.deliveries = @ + 1]

DocStep(locks) ==
    \A i \in Invoice :
        doc'[i] = doc[i] \/ Created(i) \/ Edited(locks, i) \/ Deleted(locks, i) \/ Closed(locks, i)

\* Nothing is issued, and what was issued keeps its number.
NumbersKept ==
    \A i \in Invoice :
        /\ doc'[i].state = "issued" <=> doc[i].state = "issued"
        /\ doc[i].state = "issued" => doc'[i].number = doc[i].number

-----------------------------------------------------------------------------
(* The greatest of finitely many numbers. *)

LEMMA MaxIsGreatest ==
    ASSUME NEW n \in Nat
    PROVE  \A T \in SUBSET (0..n) : T # {} => Max(T) \in T /\ \A x \in T : x <= Max(T)
<1> DEFINE G == {T \in SUBSET (0..n) : T # {} => \E m \in T : \A x \in T : x <= m}
           D == 0..n
<1>1. IsFiniteSet(D)
  <2>1. 0 \in Int /\ n \in Int
    OBVIOUS
  <2> QED
    BY <2>1, FS_Interval
<1>2. ASSUME NEW T \in SUBSET D, \A U \in SUBSET T : U # T => U \in G
      PROVE  T \in G
  <2> SUFFICES ASSUME T # {} PROVE \E m \in T : \A x \in T : x <= m
    OBVIOUS
  <2>1. PICK a \in T : TRUE
    OBVIOUS
  <2>2. CASE T \ {a} = {}
    <3>1. \A x \in T : x = a
      BY <2>2
    <3>2. a <= a
      BY <2>1
    <3> QED
      BY <3>1, <3>2
  <2>3. CASE T \ {a} # {}
    <3>1. T \ {a} \in SUBSET T /\ T \ {a} # T
      BY <2>1
    <3>2. T \ {a} \in G
      BY <1>2, <3>1
    <3>3. PICK b \in T \ {a} : \A x \in T \ {a} : x <= b
      BY <2>3, <3>2
    <3>4. \A x \in T : x \in Nat
      OBVIOUS
    <3>5. CASE a <= b
      BY <3>3, <3>5
    <3>6. CASE ~(a <= b)
      <4>1. \A x \in T : x <= a
        BY <3>3, <3>4, <3>6
      <4> QED
        BY <4>1
    <3> QED
      BY <3>5, <3>6
  <2> QED
    BY <2>2, <2>3
<1> HIDE DEF G, D
<1>3. SUBSET D \subseteq G
  BY <1>1, <1>2, SubsetInduction
<1> USE DEF G, D
<1>4. ASSUME NEW T \in SUBSET (0..n), T # {}
      PROVE  Max(T) \in T /\ \A x \in T : x <= Max(T)
  <2>1. \E m \in T : \A x \in T : x <= m
    BY <1>3, <1>4
  <2>2. \E m \in T : \A x \in T : m >= x
    BY <2>1
  <2> QED
    BY <2>2 DEF Max
<1> QED
  BY <1>4

-----------------------------------------------------------------------------
(* Sequences of rows to lock. *)

LEMMA TailElements ==
    ASSUME NEW S, NEW t \in Seq(S), t # <<>>
    PROVE  /\ Head(t) \in S /\ Tail(t) \in Seq(S)
           /\ Elements(t) = {Head(t)} \cup Elements(Tail(t))
<1>1. Len(t) \in Nat /\ Len(t) > 0 /\ DOMAIN t = 1..Len(t) /\ t[1] = Head(t)
  OBVIOUS
<1>2. /\ Tail(t) \in Seq(S) /\ Len(Tail(t)) = Len(t) - 1
      /\ DOMAIN Tail(t) = 1..(Len(t) - 1)
      /\ \A k \in 1..(Len(t) - 1) : Tail(t)[k] = t[k + 1]
  BY <1>1
<1>3. \A k \in DOMAIN t : t[k] = Head(t) \/ (k - 1 \in DOMAIN Tail(t) /\ Tail(t)[k - 1] = t[k])
  BY <1>1, <1>2
<1>4. \A k \in DOMAIN Tail(t) : k + 1 \in DOMAIN t /\ Tail(t)[k] = t[k + 1]
  BY <1>1, <1>2
<1>5. Elements(t) = {Head(t)} \cup Elements(Tail(t))
  <2>1. ASSUME NEW x \in Elements(t)
        PROVE  x \in {Head(t)} \cup Elements(Tail(t))
    BY <1>3, <2>1 DEF Elements
  <2>2. ASSUME NEW x \in {Head(t)} \cup Elements(Tail(t))
        PROVE  x \in Elements(t)
    BY <1>1, <1>4, <2>2 DEF Elements
  <2> QED
    BY <2>1, <2>2
<1> QED
  BY <1>1, <1>2, <1>5

LEMMA LaterElements ==
    ASSUME NEW S, NEW t \in Seq(S), NEW k \in Nat, k >= 2, k <= Len(t)
    PROVE  t[k] \in Elements(Tail(t))
<1>1. /\ DOMAIN Tail(t) = 1..(Len(t) - 1)
      /\ \A n \in 1..(Len(t) - 1) : Tail(t)[n] = t[n + 1]
  OBVIOUS
<1>2. k - 1 \in DOMAIN Tail(t) /\ Tail(t)[k - 1] = t[k]
  BY <1>1
<1> QED
  BY <1>2 DEF Elements

LEMMA JoinedElements ==
    ASSUME NEW S, NEW a \in Seq(S), NEW b \in Seq(S)
    PROVE  /\ a \o b \in Seq(S)
           /\ Elements(a \o b) = Elements(a) \cup Elements(b)
           /\ a # <<>> => a \o b # <<>> /\ Head(a \o b) = Head(a)
<1> DEFINE c == a \o b
<1>1. /\ c \in Seq(S) /\ Len(c) = Len(a) + Len(b) /\ Len(a) \in Nat /\ Len(b) \in Nat
      /\ DOMAIN a = 1..Len(a) /\ DOMAIN b = 1..Len(b) /\ DOMAIN c = 1..Len(c)
      /\ \A n \in 1..Len(a) : c[n] = a[n]
      /\ \A n \in 1..Len(b) : c[Len(a) + n] = b[n]
  OBVIOUS
<1>2. ASSUME a # <<>> PROVE c # <<>> /\ Head(c) = Head(a)
  BY <1>1, <1>2
<1> HIDE DEF c
<1>3. \A n \in DOMAIN c : n \in DOMAIN a \/ (n - Len(a) \in DOMAIN b /\ c[n] = b[n - Len(a)])
  <2> SUFFICES ASSUME NEW n \in 1..Len(c), ~(n \in 1..Len(a))
               PROVE  n - Len(a) \in 1..Len(b) /\ c[n] = b[n - Len(a)]
    BY <1>1
  <2>1. n - Len(a) \in 1..Len(b) /\ Len(a) + (n - Len(a)) = n
    BY <1>1
  <2> QED
    BY <1>1, <2>1
<1>4. \A n \in DOMAIN b : Len(a) + n \in DOMAIN c
  BY <1>1
<1>5. \A n \in DOMAIN a : n \in DOMAIN c
  BY <1>1
<1>6. Elements(c) = Elements(a) \cup Elements(b)
  <2>1. ASSUME NEW n \in DOMAIN c PROVE c[n] \in Elements(a) \cup Elements(b)
    BY <1>1, <1>3 DEF Elements
  <2>2. ASSUME NEW n \in DOMAIN a PROVE a[n] \in Elements(c)
    BY <1>1, <1>5 DEF Elements
  <2>3. ASSUME NEW n \in DOMAIN b PROVE b[n] \in Elements(c)
    BY <1>1, <1>4 DEF Elements
  <2> QED
    BY <2>1, <2>2, <2>3 DEF Elements
<1> QED
  BY <1>1, <1>2, <1>6 DEF c

LEMMA Rows ==
    /\ \A i \in Invoice : Of(i) \in Lockable /\ ClaimOf(i) \in Lockable
    /\ \A i \in Invoice, k \in Item : LineOf(i, k) \in Lockable
    /\ \A k \in Item \cup {None} : Stock(k) \in Lockable
    /\ {Of(None), Tenant, Client, Numbers, Contract, Schedule} \subseteq Lockable
  BY DEF Of, LineOf, ClaimOf, Tenant, Client, Numbers, Stock, Contract, Schedule, Lockable,
         Tables, Key

LEMMA OneRow ==
    ASSUME NEW a \in Lockable, NEW t, t = <<a>>
    PROVE  t \in Seq(Lockable) /\ t # <<>> /\ Head(t) = a /\ Elements(t) = {a}
<1>1. t \in Seq(Lockable) /\ Len(t) = 1 /\ Head(t) = a /\ DOMAIN t = {1} /\ t[1] = a
  OBVIOUS
<1> QED
  BY <1>1 DEF Elements

LEMMA TwoRows ==
    ASSUME NEW a \in Lockable, NEW b \in Lockable, NEW t, t = <<a, b>>
    PROVE  t \in Seq(Lockable) /\ t # <<>> /\ Head(t) = a
<1>1. t \in Seq(Lockable) /\ Len(t) = 2 /\ Head(t) = a
  OBVIOUS
<1> QED
  BY <1>1

LEMMA ThreeRows ==
    ASSUME NEW a \in Lockable, NEW b \in Lockable, NEW c \in Lockable,
           NEW t, t = <<a, b, c>>
    PROVE  t \in Seq(Lockable) /\ t # <<>> /\ Head(t) = a
<1>1. t \in Seq(Lockable) /\ Len(t) = 3 /\ Head(t) = a
  OBVIOUS
<1> QED
  BY <1>1

LEMMA OrderedRows ==
    ASSUME NEW i \in Invoice, NEW S \in SUBSET Item, NEW o \in Orders(S)
    PROVE  LET lines == [n \in DOMAIN o |-> LineOf(i, o[n])]
               items == [n \in DOMAIN o |-> Stock(o[n])]
           IN  /\ lines \in Seq(Lockable) /\ Elements(lines) = {LineOf(i, k) : k \in S}
               /\ items \in Seq(Lockable) /\ Elements(items) = {Stock(k) : k \in S}
<1> DEFINE lines == [n \in DOMAIN o |-> LineOf(i, o[n])]
           items == [n \in DOMAIN o |-> Stock(o[n])]
           c == Cardinality(S)
<1>1. o \in [1..c -> S] /\ {o[n] : n \in DOMAIN o} = S /\ DOMAIN o = 1..c
  BY DEF Orders
<1>2. c \in Nat
  BY ItemAssumption, FS_Subset, FS_CardinalityType
<1> HIDE DEF c
<1>3. ASSUME NEW n \in 1..c PROVE LineOf(i, o[n]) \in Lockable /\ Stock(o[n]) \in Lockable
  BY <1>1, Rows
<1>4. lines \in Seq(Lockable) /\ items \in Seq(Lockable)
  <2>1. lines \in [1..c -> Lockable]
    BY <1>1, <1>3
  <2>2. items \in [1..c -> Lockable]
    BY <1>1, <1>3
  <2> HIDE DEF lines, items
  <2> QED
    BY <1>2, <2>1, <2>2
<1>5. Elements(lines) = {LineOf(i, k) : k \in S}
  <2>1. Elements(lines) = {LineOf(i, o[n]) : n \in DOMAIN o}
    BY DEF Elements
  <2> QED
    BY <1>1, <2>1
<1>6. Elements(items) = {Stock(k) : k \in S}
  <2>1. Elements(items) = {Stock(o[n]) : n \in DOMAIN o}
    BY DEF Elements
  <2> QED
    BY <1>1, <2>1
<1> QED
  BY <1>4, <1>5, <1>6

\* A deletion locks the draft first, then its lines, and items that the lines
\* drew on.
LEMMA DeletePlanShape ==
    ASSUME DocTyped, NEW i \in Invoice, NEW plan \in DeletePlans(i)
    PROVE  /\ plan \in Seq(Lockable) /\ plan # <<>> /\ Head(plan) = Of(i)
           /\ \A k \in Lines(i) : LineOf(i, k) \in Elements(Tail(plan))
           /\ \A row \in Elements(plan) :
                row = Of(i) \/ \E k \in Item : row \in {LineOf(i, k), Stock(k)}
<1>1. PICK o \in Orders(Drawn(i)), u \in Orders(Lines(i) \ Drawn(i)) :
        plan = DeletePlan(i, o, u)
  BY DEF DeletePlans
<1> DEFINE first == <<Of(i)>>
           drawn == [n \in DOMAIN o |-> LineOf(i, o[n])]
           items == [n \in DOMAIN o |-> Stock(o[n])]
           other == [n \in DOMAIN u |-> LineOf(i, u[n])]
<1>2. /\ drawn \in Seq(Lockable) /\ Elements(drawn) = {LineOf(i, k) : k \in Drawn(i)}
      /\ items \in Seq(Lockable) /\ Elements(items) = {Stock(k) : k \in Drawn(i)}
  <2>1. Drawn(i) \in SUBSET Item
    BY DEF Drawn
  <2> QED
    BY <2>1, OrderedRows
<1>3. other \in Seq(Lockable) /\ Elements(other) = {LineOf(i, k) : k \in Lines(i) \ Drawn(i)}
  <2>1. Lines(i) \ Drawn(i) \in SUBSET Item
    BY DEF Lines
  <2> QED
    BY <2>1, OrderedRows
<1>4. /\ first \in Seq(Lockable) /\ first # <<>> /\ Head(first) = Of(i)
      /\ Elements(first) = {Of(i)}
  BY Rows, OneRow
<1>5. plan = ((first \o drawn) \o items) \o other
  BY <1>1 DEF DeletePlan
<1> HIDE DEF first, drawn, items, other
<1>6. /\ first \o drawn \in Seq(Lockable) /\ first \o drawn # <<>>
      /\ Head(first \o drawn) = Of(i)
      /\ Elements(first \o drawn) = {Of(i)} \cup Elements(drawn)
  BY <1>2, <1>4, JoinedElements
<1>7. /\ (first \o drawn) \o items \in Seq(Lockable) /\ (first \o drawn) \o items # <<>>
      /\ Head((first \o drawn) \o items) = Of(i)
      /\ Elements((first \o drawn) \o items) = {Of(i)} \cup Elements(drawn) \cup Elements(items)
  <2> DEFINE front == first \o drawn
  <2>1. /\ front \in Seq(Lockable) /\ front # <<>> /\ Head(front) = Of(i)
        /\ Elements(front) = {Of(i)} \cup Elements(drawn)
    BY <1>6
  <2> HIDE DEF front
  <2>2. /\ front \o items \in Seq(Lockable) /\ front \o items # <<>>
        /\ Head(front \o items) = Of(i)
        /\ Elements(front \o items) = Elements(front) \cup Elements(items)
    BY <1>2, <2>1, JoinedElements
  <2> QED
    BY <2>1, <2>2 DEF front
<1>8. /\ plan \in Seq(Lockable) /\ plan # <<>> /\ Head(plan) = Of(i)
      /\ Elements(plan) = {Of(i)} \cup Elements(drawn) \cup Elements(items) \cup Elements(other)
  <2> DEFINE front == (first \o drawn) \o items
  <2>1. /\ front \in Seq(Lockable) /\ front # <<>> /\ Head(front) = Of(i)
        /\ Elements(front) = {Of(i)} \cup Elements(drawn) \cup Elements(items)
        /\ plan = front \o other
    BY <1>5, <1>7
  <2> HIDE DEF front
  <2>2. /\ front \o other \in Seq(Lockable)
        /\ Elements(front \o other) = Elements(front) \cup Elements(other)
        /\ front \o other # <<>> /\ Head(front \o other) = Head(front)
    BY <1>3, <2>1, JoinedElements
  <2> QED
    BY <2>1, <2>2
<1>9. Elements(plan) = {Of(i)} \cup Elements(Tail(plan))
  BY <1>8, TailElements
<1>10. \A k \in Lines(i) : LineOf(i, k) \in Elements(plan) /\ LineOf(i, k) # Of(i)
  BY <1>2, <1>3, <1>8 DEF LineOf, Of
<1>11. ASSUME NEW row \in Elements(plan)
       PROVE  row = Of(i) \/ \E k \in Item : row \in {LineOf(i, k), Stock(k)}
  BY <1>2, <1>3, <1>8, <1>11 DEF Drawn, Lines
<1> QED
  BY <1>8, <1>9, <1>10, <1>11

LEMMA PlanShape ==
    ASSUME DocTyped, NEW i \in Invoice, NEW k \in Item \cup {None},
           NEW op \in (DraftOps \cup IssuedOps) \ {"delete"}, op \in LineOps => k \in Item
    PROVE  LET plan == Plan(op, i, k) IN
           /\ plan \in Seq(Lockable) /\ plan # <<>>
           /\ Head(plan) = IF op \in {"update_line", "delete_line"}
                           THEN LineOf(i, k) ELSE Of(i)
           /\ op \in {"update_line", "delete_line"} => Of(i) \in Elements(Tail(plan))
<1> DEFINE plan == Plan(op, i, k)
           stocked == IF doc[i].used[k] > 0 THEN <<Stock(k)>> ELSE <<>>
           credited == IF doc[i].kind = "credit" THEN <<Of(doc[i].source)>> ELSE <<>>
<1>1. doc[i].source \in Invoice \cup {None}
  BY DEF DocTyped, Document
<1>2. {Of(i), ClaimOf(i), Tenant, Client, Numbers, Stock(k), Of(doc[i].source)} \subseteq Lockable
  BY <1>1, Rows
<1>3. stocked \in Seq(Lockable) /\ credited \in Seq(Lockable)
  BY <1>2
<1> HIDE DEF stocked, credited
<1>4. CASE op \in {"create_line", "redate", "sell_stock", "withdraw", "void", "follow_up", "deliver"}
  <2>1. \/ plan = <<Of(i), Client>>
        \/ plan = <<Of(i), Client, Stock(k)>>
        \/ plan = <<Of(i), ClaimOf(i)>>
        \/ plan = <<Of(i), Tenant, Client>>
        \/ plan = <<Of(i), Tenant>>
    BY <1>4 DEF Plan
  <2>2. /\ Of(i) \in Lockable /\ Client \in Lockable /\ Stock(k) \in Lockable
        /\ Tenant \in Lockable /\ ClaimOf(i) \in Lockable
    BY <1>2
  <2> HIDE DEF plan
  <2>3. plan \in Seq(Lockable) /\ plan # <<>> /\ Head(plan) = Of(i)
    BY <2>1, <2>2, TwoRows, ThreeRows
  <2> QED
    BY <1>4, <2>3 DEF plan
<1>5. CASE op = "issue"
  <2>1. plan = <<Of(i), Tenant, Client, Numbers>> \o credited
    BY <1>5 DEF Plan, credited
  <2> HIDE DEF plan
  <2>2. plan \in Seq(Lockable) /\ Len(plan) >= 1 /\ plan[1] = Of(i)
    BY <1>2, <1>3, <2>1
  <2>3. plan # <<>> /\ Head(plan) = Of(i)
    BY <2>2
  <2> QED
    BY <1>5, <2>2, <2>3 DEF plan
<1>6. CASE op \in {"update_line", "delete_line"}
  <2>1. plan = <<LineOf(i, k), Client, Of(i)>> \o stocked
    BY <1>6 DEF Plan, stocked
  <2>2. LineOf(i, k) \in Lockable
    BY <1>6, Rows DEF LineOps
  <2> HIDE DEF plan
  <2>3. /\ plan \in Seq(Lockable) /\ Len(plan) >= 3
        /\ plan[1] = LineOf(i, k) /\ plan[3] = Of(i)
    BY <1>2, <1>3, <2>1, <2>2
  <2>4. plan # <<>> /\ Head(plan) = LineOf(i, k)
    BY <2>3
  <2>5. Of(i) \in Elements(Tail(plan))
    BY <2>3, LaterElements
  <2> QED
    BY <1>6, <2>3, <2>4, <2>5 DEF plan
<1> QED
  BY <1>4, <1>5, <1>6 DEF DraftOps, LineOps, IssuedOps

LEMMA LatestClaimShape ==
    ASSUME ClaimsHold
    PROVE  LatestClaim = <<>> \/ \E i \in Invoice : LatestClaim = <<ClaimOf(i)>>
<1> DEFINE billed == {p \in Period : schedule.claims[p] # Unclaimed}
<1> SUFFICES ASSUME billed # {} PROVE \E i \in Invoice : LatestClaim = <<ClaimOf(i)>>
  BY DEF LatestClaim
<1>1. billed \in SUBSET (0..MaxPeriod) /\ MaxPeriod \in Nat
  BY BoundAssumption DEF Period
<1>2. Max(billed) \in billed
  BY <1>1, MaxIsGreatest
<1>3. LatestClaim = <<ClaimOf(schedule.claims[Max(billed)].invoice)>>
  BY DEF LatestClaim
<1> QED
  BY <1>2, <1>3 DEF ClaimsHold, ClaimHolds

LEMMA OtherPlanShape ==
    ASSUME ClaimsHold, NEW op \in OtherOps, NEW k \in Item \cup {None}
    PROVE  PlanOfOther(op, k) \in Seq(Lockable) /\ PlanOfOther(op, k) # <<>>
<1> DEFINE plan == PlanOfOther(op, k)
<1>1. {Numbers, Stock(k), Contract, Schedule, Client} \subseteq Lockable
  BY Rows
<1>2. \/ plan = <<Numbers>>
      \/ plan = <<Stock(k)>>
      \/ plan = <<Contract>>
      \/ plan = <<Contract, Schedule>> \o LatestClaim
      \/ plan = <<Contract, Schedule, Client>>
      \/ plan = <<Schedule>>
  <2>1. CASE op \in {"configure", "receive", "archive"}
    BY <2>1 DEF PlanOfOther, PlansOfOther
  <2>2. CASE op \in {"edit_source", "enroll"}
    BY <2>2 DEF PlanOfOther, PlansOfOther
  <2>3. CASE op = "amend"
    BY <2>3 DEF PlanOfOther, PlansOfOther
  <2>4. CASE op \in {"generate", "stop"}
    BY <2>4 DEF PlanOfOther, PlansOfOther
  <2> QED
    BY <2>1, <2>2, <2>3, <2>4 DEF OtherOps
<1>3. <<Contract, Schedule>> \in Seq(Lockable) /\ <<Contract, Schedule>> # <<>>
  BY <1>1, TwoRows
<1>4. LatestClaim \in Seq(Lockable)
  <2>1. CASE LatestClaim = <<>>
    BY <2>1
  <2>2. CASE \E i \in Invoice : LatestClaim = <<ClaimOf(i)>>
    BY <2>2, Rows, OneRow
  <2> QED
    BY <2>1, <2>2, LatestClaimShape
<1> HIDE DEF plan
<1>5. plan \in Seq(Lockable) /\ plan # <<>>
  <2>1. /\ Numbers \in Lockable /\ Stock(k) \in Lockable /\ Contract \in Lockable
        /\ Schedule \in Lockable /\ Client \in Lockable
    BY <1>1
  <2>2. CASE plan = <<Numbers>> \/ plan = <<Stock(k)>> \/ plan = <<Contract>> \/ plan = <<Schedule>>
    BY <2>1, <2>2, OneRow
  <2>3. CASE plan = <<Contract, Schedule, Client>>
    BY <2>1, <2>3, ThreeRows
  <2>4. CASE plan = <<Contract, Schedule>> \o LatestClaim
    <3> DEFINE a == <<Contract, Schedule>>
    <3>1. a \in Seq(Lockable) /\ a # <<>> /\ plan = a \o LatestClaim
      BY <1>3, <2>4
    <3> HIDE DEF a
    <3> QED
      BY <1>4, <3>1, JoinedElements
  <2> QED
    BY <1>2, <2>2, <2>3, <2>4
<1> QED
  BY <1>5 DEF plan

-----------------------------------------------------------------------------
(* The transactions that write documents without numbering them. *)

LEMMA AbsentTyped == Absent \in Document
<1>1. 1 \in Period
  BY BoundAssumption DEF Period
<1>2. Nothing \in Units
  BY DEF Nothing, Units
<1> QED
  BY <1>1, <1>2 DEF Absent, Document

LEMMA AtCommit ==
    ASSUME Inv, NEW s \in Session, todo[s] = <<>>,
           request[s].op \in DraftOps \cup IssuedOps \cup {"delivered"}
    PROVE  LET op == request[s].op
               i == request[s].invoice
               k == request[s].item
           IN  /\ i \in Invoice /\ doc[i] \in Document /\ Of(i) \in held[s]
               /\ op \in LineOps => k \in Item
               /\ op \in DraftOps \ {"update_line", "delete_line"} => IsDraft(i)
               /\ op \in IssuedOps \cup {"delivered"} => IsValid(i)
               /\ op \in {"update_line", "delete_line"} => LineOf(i, k) \in held[s]
               /\ op = "delete_line" => k # doc[i].claimed
               /\ op = "delete" =>
                    doc[i].claimed = None /\ \A l \in Lines(i) : LineOf(i, l) \in held[s]
<1>1. ToLock(s) = {}
  BY DEF ToLock, Elements
<1> QED
  BY <1>1 DEF Inv, RequestsHold, RequestHolds, DocTyped

WithLine(i, k, q, u) ==
    [doc EXCEPT ![i].quantity[k] = q, ![i].used = [doc[i].used EXCEPT ![k] = u]]

LEMMA LineIsWritten ==
    ASSUME Inv, NEW locks, NEW i \in Invoice, NEW k \in Item, NEW q \in Nat, NEW u \in Nat,
           Of(i) \in locks, IsDraft(i),
           q = 0 => LineOf(i, k) \in locks /\ k # doc[i].claimed,
           doc' = WithLine(i, k, q, u)
    PROVE  /\ doc' = [doc EXCEPT ![i] =
                [doc[i] EXCEPT !.quantity = [doc[i].quantity EXCEPT ![k] = q],
                               !.used = [doc[i].used EXCEPT ![k] = u]]]
           /\ DocTyped' /\ DocStep(locks) /\ NumbersKept
<1> DEFINE quantity == [doc[i].quantity EXCEPT ![k] = q]
           used == [doc[i].used EXCEPT ![k] = u]
<1>1. doc \in [Invoice -> Document] /\ doc[i] \in Document
  BY DEF Inv, DocTyped
<1>2. doc[i].quantity \in Units /\ doc[i].used \in Units
  BY <1>1 DEF Document
<1>3. /\ quantity \in Units /\ used \in Units /\ quantity[k] = q
      /\ \A l \in Item \ {k} : quantity[l] = doc[i].quantity[l]
  BY <1>2 DEF Units
<1> HIDE DEF used
<1>4. doc' = [doc EXCEPT ![i].quantity[k] = q, ![i].used = used]
  BY DEF used, WithLine
<1>5. doc' = [doc EXCEPT ![i] = [doc[i] EXCEPT !.quantity = quantity, !.used = used]]
  BY <1>1, <1>4
<1> HIDE DEF quantity
<1> DEFINE d == [doc[i] EXCEPT !.quantity = quantity, !.used = used]
<1>6. /\ d \in Document /\ d.state = doc[i].state /\ d.claimed = doc[i].claimed
      /\ d.quantity = quantity /\ d.number = doc[i].number
  BY <1>1, <1>3 DEF Document
<1> HIDE DEF d
<1>7. doc'[i] = d /\ \A j \in Invoice \ {i} : doc'[j] = doc[j]
  BY <1>1, <1>5 DEF d
<1>8. DocTyped'
  BY <1>1, <1>5, <1>6 DEF DocTyped, d
<1>9. NumbersKept
  BY <1>6, <1>7 DEF NumbersKept
<1>10. Edited(locks, i)
  <2>1. ASSUME NEW l \in Item, doc[i].quantity[l] > 0, ~(doc'[i].quantity[l] > 0)
        PROVE  LineOf(i, l) \in locks /\ l # doc[i].claimed
    <3>1. l = k /\ q = 0
      BY <1>3, <1>6, <1>7, <2>1
    <3> QED
      BY <3>1
  <2> QED
    BY <1>6, <1>7, <2>1 DEF Edited, IsDraft
<1>11. DocStep(locks)
  BY <1>7, <1>10 DEF DocStep
<1> QED
  BY <1>5, <1>8, <1>9, <1>11 DEF quantity, used

LEMMA Writes ==
    ASSUME Inv, NEW s \in Session,
           \/ \E q \in 1..MaxQuantity : CreateLine(s, q)
           \/ \E q \in 0..MaxQuantity : ChangeLine(s, q)
           \/ \E p \in Period : Redate(s, p)
           \/ DeleteInvoice(s) \/ WithdrawRecurringDraft(s)
           \/ \E i \in Invoice, p \in Period : CreateInvoiceFromIssued(s, i, p)
           \/ VoidInvoice(s) \/ RecordDelivery(s)
    PROVE  /\ DocTyped' /\ DocStep(held[s]) /\ NumbersKept
           /\ End(s) /\ UNCHANGED <<numbers, contract, schedule>>
<1> DEFINE i == request[s].invoice
           k == request[s].item
           G == DocTyped' /\ DocStep(held[s]) /\ NumbersKept
                /\ End(s) /\ UNCHANGED <<numbers, contract, schedule>>
<1> USE DEF Commit, DocTyped
<1>1. DocTyped /\ MaxQuantity \in Nat
  BY BoundAssumption DEF Inv
<1>2. ASSUME NEW q \in 1..MaxQuantity, CreateLine(s, q) PROVE G
  <2> DEFINE u == IF request[s].op = "sell_stock" THEN q ELSE 0
  <2>1. i \in Invoice /\ k \in Item /\ Of(i) \in held[s]
    BY <1>2, AtCommit DEF CreateLine, DraftOps, LineOps
  <2>2. q \in Nat /\ u \in Nat /\ q # 0
    BY <1>1
  <2>3. /\ IsDraft(i) /\ End(s) /\ UNCHANGED <<numbers, contract, schedule>>
        /\ doc' = WithLine(i, k, q, u)
    BY <1>2 DEF CreateLine, WithLine
  <2> HIDE DEF u, i, k
  <2>4. DocTyped' /\ DocStep(held[s]) /\ NumbersKept
    BY <2>1, <2>2, <2>3, LineIsWritten
  <2> QED
    BY <2>3, <2>4
<1>3. ASSUME NEW q \in 0..MaxQuantity, ChangeLine(s, q) PROVE G
  <2> DEFINE u == IF doc[i].used[k] > 0 THEN q ELSE 0
  <2>1. /\ i \in Invoice /\ k \in Item /\ Of(i) \in held[s]
        /\ LineOf(i, k) \in held[s] /\ (q = 0 => k # doc[i].claimed)
    BY <1>3, AtCommit DEF ChangeLine, DraftOps, LineOps
  <2>2. q \in Nat /\ u \in Nat
    BY <1>1
  <2>3. /\ IsDraft(i) /\ End(s) /\ UNCHANGED <<numbers, contract, schedule>>
        /\ doc' = WithLine(i, k, q, u)
    BY <1>3 DEF ChangeLine, WithLine
  <2> HIDE DEF u, i, k
  <2>4. DocTyped' /\ DocStep(held[s]) /\ NumbersKept
    BY <2>1, <2>2, <2>3, LineIsWritten
  <2> QED
    BY <2>3, <2>4
<1>4. ASSUME NEW p \in Period, Redate(s, p) PROVE G
  <2>1. /\ i \in Invoice /\ Of(i) \in held[s] /\ doc[i] \in Document /\ IsDraft(i)
    BY <1>4, AtCommit DEF Redate, DraftOps, LineOps
  <2>2. doc' = [doc EXCEPT ![i] = [doc[i] EXCEPT !.period = p]]
    BY <1>4 DEF Redate
  <2>3. DocTyped'
    BY <1>1, <2>1, <2>2 DEF Document
  <2>4. DocStep(held[s]) /\ NumbersKept
    BY <1>1, <2>1, <2>2 DEF Document, DocStep, NumbersKept, Edited, IsDraft
  <2> QED
    BY <1>4, <2>3, <2>4 DEF Redate
<1>5. ASSUME DeleteInvoice(s) PROVE G
  <2>1. /\ i \in Invoice /\ Of(i) \in held[s] /\ doc[i] \in Document /\ IsDraft(i)
        /\ doc[i].claimed = None /\ \A l \in Lines(i) : LineOf(i, l) \in held[s]
    BY <1>5, AtCommit DEF DeleteInvoice, DraftOps, LineOps
  <2>2. doc' = [doc EXCEPT ![i] = Absent] /\ Absent \in Document
    BY <1>5, AbsentTyped DEF DeleteInvoice
  <2>3. DocTyped'
    BY <1>1, <2>1, <2>2
  <2>4. DocStep(held[s]) /\ NumbersKept
    BY <1>1, <2>1, <2>2 DEF DocStep, NumbersKept, Deleted, IsDraft, Absent
  <2> QED
    BY <1>5, <2>3, <2>4 DEF DeleteInvoice
<1>6. ASSUME WithdrawRecurringDraft(s) PROVE G
  <2>1. /\ i \in Invoice /\ Of(i) \in held[s] /\ doc[i] \in Document /\ IsDraft(i)
    BY <1>6, AtCommit DEF WithdrawRecurringDraft, DraftOps, LineOps
  <2>2. doc' = [doc EXCEPT ![i] = [doc[i] EXCEPT !.withdrawn = TRUE]]
    BY <1>6 DEF WithdrawRecurringDraft
  <2>3. DocTyped'
    BY <1>1, <2>1, <2>2 DEF Document
  <2>4. DocStep(held[s]) /\ NumbersKept
    BY <1>1, <2>1, <2>2 DEF Document, DocStep, NumbersKept, Edited, IsDraft
  <2> QED
    BY <1>6, <2>3, <2>4 DEF WithdrawRecurringDraft
<1>7. ASSUME NEW j \in Invoice, NEW p \in Period, CreateInvoiceFromIssued(s, j, p) PROVE G
  <2>1. /\ i \in Invoice /\ doc[i] \in Document /\ doc[j].state = "absent"
    BY <1>7, AtCommit DEF CreateInvoiceFromIssued, IssuedOps
  <2>2. PICK kind \in {"supplement", "replacement", "credit"} :
          doc' = [doc EXCEPT ![j] =
                    [Absent EXCEPT !.state = "draft", !.source = i, !.period = p,
                       !.kind = IF kind = "credit" THEN "credit" ELSE "invoice",
                       !.quantity = IF kind = "supplement" THEN Nothing ELSE doc[i].quantity]]
    BY <1>7 DEF CreateInvoiceFromIssued
  <2>3. Nothing \in Units
    BY DEF Nothing, Units
  <2>4. /\ DocTyped' /\ doc'[j].state = "draft"
        /\ \A l \in Invoice \ {j} : doc'[l] = doc[l]
    <3> DEFINE units == IF kind = "supplement" THEN Nothing ELSE doc[i].quantity
               side == IF kind = "credit" THEN "credit" ELSE "invoice"
               new == [Absent EXCEPT !.state = "draft", !.source = i, !.period = p,
                                     !.kind = side, !.quantity = units]
    <3>1. units \in Units /\ side \in {"invoice", "credit"}
      BY <2>1, <2>3 DEF Document
    <3> HIDE DEF units, side
    <3>2. new \in Document /\ new.state = "draft"
      BY <1>7, <2>1, <3>1, AbsentTyped DEF Document
    <3>3. doc' = [doc EXCEPT ![j] = new]
      BY <2>2 DEF units, side
    <3> HIDE DEF new
    <3> QED
      BY <1>1, <1>7, <3>2, <3>3
  <2>5. DocStep(held[s]) /\ NumbersKept
    BY <2>1, <2>4 DEF DocStep, NumbersKept, Created
  <2> QED
    BY <1>7, <2>4, <2>5 DEF CreateInvoiceFromIssued
<1>8. ASSUME VoidInvoice(s) PROVE G
  <2>1. /\ i \in Invoice /\ Of(i) \in held[s] /\ doc[i] \in Document /\ IsValid(i)
    BY <1>8, AtCommit DEF VoidInvoice, IssuedOps
  <2>2. doc' = [doc EXCEPT ![i] = [doc[i] EXCEPT !.voided = TRUE]]
    BY <1>8 DEF VoidInvoice
  <2>3. DocTyped'
    BY <1>1, <2>1, <2>2 DEF Document
  <2>4. DocStep(held[s]) /\ NumbersKept
    BY <1>1, <2>1, <2>2 DEF Document, DocStep, NumbersKept, Closed, IsValid
  <2> QED
    BY <1>8, <2>3, <2>4 DEF VoidInvoice
<1>9. ASSUME RecordDelivery(s) PROVE G
  <2>1. /\ i \in Invoice /\ Of(i) \in held[s] /\ doc[i] \in Document /\ IsValid(i)
    BY <1>9, AtCommit DEF RecordDelivery
  <2>2. doc' = [doc EXCEPT ![i] = [doc[i] EXCEPT !.deliveries = @ + 1]]
    BY <1>9 DEF RecordDelivery
  <2>3. DocTyped'
    <3>1. doc[i].deliveries + 1 \in Nat
      BY <2>1 DEF Document
    <3>2. [doc[i] EXCEPT !.deliveries = @ + 1] \in Document
      BY <2>1, <3>1 DEF Document
    <3> QED
      BY <1>1, <2>1, <2>2, <3>2
  <2>4. DocStep(held[s]) /\ NumbersKept
    BY <1>1, <2>1, <2>2 DEF Document, DocStep, NumbersKept, Closed, IsValid
  <2> QED
    BY <1>9, <2>3, <2>4 DEF RecordDelivery
<1> QED
  BY <1>2, <1>3, <1>4, <1>5, <1>6, <1>7, <1>8, <1>9

-----------------------------------------------------------------------------
(* What such a transaction leaves as it was. *)

LEMMA OthersHold ==
    ASSUME Inv, NEW locks, DocStep(locks), NEW t \in Session, held[t] \cap locks = {},
           request'[t] = request[t], todo'[t] = todo[t], held'[t] = held[t]
    PROVE  RequestHolds(t)'
<1> DEFINE op == request[t].op
           i == request[t].invoice
           k == request[t].item
<1>1. RequestHolds(t) /\ DocTyped /\ AbsentIsBlank
  BY DEF Inv, RequestsHold
<1>2. /\ request'[t].op = op /\ request'[t].invoice = i /\ request'[t].item = k
      /\ ToLock(t)' = ToLock(t)
  BY DEF ToLock
<1>3. CASE op \notin DraftOps \cup IssuedOps \cup {"delivered"}
  <2>1. op \notin {"update_line", "delete_line", "delete"}
    BY <1>3 DEF DraftOps, LineOps
  <2> QED
    BY <1>1, <1>2, <1>3, <2>1 DEF RequestHolds
<1>4. CASE op \in DraftOps \cup IssuedOps \cup {"delivered"}
  <2>1. /\ i \in Invoice /\ doc[i] \in Document
        /\ doc'[i] = doc[i] \/ Created(i) \/ Edited(locks, i) \/ Deleted(locks, i)
             \/ Closed(locks, i)
    BY <1>1, <1>4 DEF RequestHolds, DocStep, DocTyped
  <2>2. Of(i) \in held[t] /\ doc[i].state # "absent" => doc'[i] = doc[i]
    BY <2>1 DEF Created, Edited, Deleted, Closed
  <2>3. CASE op \notin {"update_line", "delete_line"}
    <3>1. Of(i) \in held[t] /\ doc[i].state # "absent"
      BY <1>1, <1>4, <2>3 DEF RequestHolds, IsDraft, IsValid
    <3>2. doc'[i] = doc[i] /\ Of(i) \in held'[t]
      BY <2>2, <3>1
    <3>3. Lines(i)' = Lines(i)
      BY <3>2 DEF Lines
    <3> QED
      BY <1>1, <1>2, <2>1, <2>3, <3>2, <3>3 DEF RequestHolds, IsDraft, IsValid
  <2>4. CASE op \in {"update_line", "delete_line"}
    <3>1. /\ LineOf(i, k) \in held[t] /\ doc[i].state # "absent" /\ doc[i].quantity[k] > 0
          /\ op = "delete_line" => k # doc[i].claimed
          /\ Of(i) \in held[t] \cup ToLock(t) /\ k \in Item
      BY <1>1, <2>4 DEF RequestHolds, DraftOps, LineOps
    <3>2. LineOf(i, k) \notin locks
      BY <3>1
    <3>3. /\ doc'[i].state # "absent" /\ doc'[i].quantity[k] > 0
          /\ doc'[i].claimed = doc[i].claimed
      BY <2>1, <3>1, <3>2 DEF Created, Edited, Deleted, Closed, Document, Lines
    <3> QED
      BY <1>2, <2>1, <2>4, <3>1, <3>3
         DEF RequestHolds, DraftOps, LineOps, IssuedOps
  <2> QED
    BY <2>3, <2>4
<1> QED
  BY <1>3, <1>4

LEMMA SessionEnds ==
    ASSUME Inv, NEW s \in Session, End(s), DocStep(held[s])
    PROVE  SessionTyped' /\ LocksExclude' /\ RequestsHold'
<1>1. SessionTyped /\ LocksExclude
  BY DEF Inv
<1>2. /\ request'[s] = Idle /\ todo'[s] = <<>> /\ held'[s] = {}
      /\ \A t \in Session \ {s} :
           request'[t] = request[t] /\ todo'[t] = todo[t] /\ held'[t] = held[t]
  BY <1>1 DEF End, SessionTyped
<1>3. SessionTyped'
  <2>1. Idle \in Request
    BY DEF Idle, Op, Request
  <2>2. <<>> \in Seq(Lockable) /\ {} \in SUBSET Lockable
    OBVIOUS
  <2> QED
    BY <1>1, <2>1, <2>2 DEF End, SessionTyped
<1>4. LocksExclude'
  BY <1>1, <1>2 DEF LocksExclude
<1>5. ASSUME NEW t \in Session PROVE RequestHolds(t)'
  <2>1. CASE t = s
    <3>1. request'[t].op = "none"
      BY <1>2, <2>1 DEF Idle
    <3> QED
      BY <3>1 DEF RequestHolds, DraftOps, LineOps, IssuedOps
  <2>2. CASE t # s
    BY <1>1, <1>2, <2>2, OthersHold DEF LocksExclude
  <2> QED
    BY <2>1, <2>2
<1> QED
  BY <1>3, <1>4, <1>5 DEF RequestsHold

LEMMA AbsentStaysBlank ==
    ASSUME Inv, NEW locks, DocStep(locks)
    PROVE  AbsentIsBlank'
<1> SUFFICES ASSUME NEW i \in Invoice, doc'[i].state = "absent"
             PROVE  doc'[i] = Absent
  BY DEF AbsentIsBlank
<1>1. /\ doc[i] \in Document /\ (doc[i].state = "absent" => doc[i] = Absent)
      /\ doc'[i] = doc[i] \/ Created(i) \/ Edited(locks, i) \/ Deleted(locks, i)
           \/ Closed(locks, i)
  BY DEF Inv, AbsentIsBlank, DocStep, DocTyped
<1> QED
  BY <1>1 DEF Created, Edited, Deleted, Closed, Document

LEMMA BillsStays ==
    ASSUME Inv, NEW locks, DocStep(locks), NEW i \in Invoice, Bills(i)
    PROVE  Bills(i)'
<1> DEFINE k == doc[i].claimed
<1>1. /\ doc[i] \in Document /\ k \in Item /\ doc[i].quantity[k] > 0 /\ k # None
      /\ doc[i].state # "absent"
      /\ doc'[i] = doc[i] \/ Created(i) \/ Edited(locks, i) \/ Deleted(locks, i)
           \/ Closed(locks, i)
  BY ItemAssumption DEF Inv, DocStep, DocTyped, Bills
<1>2. /\ doc'[i].state # "absent" /\ doc'[i].claimed = k /\ doc'[i].quantity[k] > 0
  BY <1>1 DEF Created, Edited, Deleted, Closed, Document
<1> QED
  BY <1>1, <1>2 DEF Bills

LEMMA ClaimsStay ==
    ASSUME Inv, NEW locks, DocStep(locks), UNCHANGED schedule
    PROVE  ClaimsHold'
  BY BillsStays DEF Inv, ClaimsHold, ClaimHolds, InForce

LEMMA CountersStay ==
    ASSUME Inv, NumbersKept, numbers'.series = numbers.series
    PROVE  CountersAgree'
<1>1. ASSUME NEW r \in Series, NEW p \in Period
      PROVE  /\ NumberedIn(r, p)' = NumberedIn(r, p)
             /\ {doc'[i].number.sequence : i \in NumberedIn(r, p)'}
                  = {doc[i].number.sequence : i \in NumberedIn(r, p)}
  BY DEF NumberedIn, Issued, NumbersKept
<1> QED
  BY <1>1 DEF Inv, CountersAgree

LEMMA FinalStays ==
    ASSUME Inv, NEW locks, DocStep(locks), NEW i \in Invoice,
           doc[i].state = "issued" \/ doc[i].withdrawn
    PROVE  /\ doc'[i] = [doc[i] EXCEPT !.voided = doc'[i].voided,
                                       !.deliveries = doc'[i].deliveries]
           /\ doc[i].voided => doc'[i].voided
           /\ doc'[i].deliveries >= doc[i].deliveries
<1>1. /\ doc[i] \in Document /\ (doc[i].state = "absent" => doc[i] = Absent)
      /\ doc'[i] = doc[i] \/ Created(i) \/ Edited(locks, i) \/ Deleted(locks, i)
           \/ Closed(locks, i)
  BY DEF Inv, DocStep, DocTyped, AbsentIsBlank
<1>2. \/ doc'[i] = doc[i]
      \/ doc'[i] = [doc[i] EXCEPT !.voided = TRUE]
      \/ doc'[i] = [doc[i] EXCEPT !.deliveries = @ + 1]
  BY <1>1 DEF Created, Edited, Deleted, Closed, IsDraft, Absent
<1>3. CASE doc'[i] = doc[i]
  <2>1. doc[i] = [doc[i] EXCEPT !.voided = doc[i].voided, !.deliveries = doc[i].deliveries]
    BY <1>1 DEF Document
  <2>2. doc[i].deliveries >= doc[i].deliveries
    BY <1>1 DEF Document
  <2> QED
    BY <1>3, <2>1, <2>2
<1>4. CASE doc'[i] = [doc[i] EXCEPT !.voided = TRUE]
  <2>1. doc'[i] = [doc[i] EXCEPT !.voided = TRUE, !.deliveries = doc[i].deliveries]
    BY <1>1, <1>4 DEF Document
  <2>2. doc'[i].voided = TRUE /\ doc'[i].deliveries = doc[i].deliveries
    BY <1>1, <1>4 DEF Document
  <2>3. doc[i].deliveries >= doc[i].deliveries
    BY <1>1 DEF Document
  <2> QED
    BY <2>1, <2>2, <2>3
<1>5. CASE doc'[i] = [doc[i] EXCEPT !.deliveries = @ + 1]
  <2> DEFINE n == doc[i].deliveries + 1
  <2>1. n \in Nat /\ n >= doc[i].deliveries
    BY <1>1 DEF Document
  <2> HIDE DEF n
  <2>2. doc'[i] = [doc[i] EXCEPT !.deliveries = n]
    BY <1>5 DEF n
  <2>3. doc'[i] = [doc[i] EXCEPT !.voided = doc[i].voided, !.deliveries = n]
    BY <1>1, <2>2 DEF Document
  <2>4. doc'[i].voided = doc[i].voided /\ doc'[i].deliveries = n
    BY <1>1, <2>2 DEF Document
  <2> QED
    BY <2>1, <2>3, <2>4
<1> QED
  BY <1>2, <1>3, <1>4, <1>5

-----------------------------------------------------------------------------
(* Steps that only lock or unlock. *)

LEMMA RowsStay ==
    ASSUME Inv, UNCHANGED rows
    PROVE  /\ DocTyped' /\ NumbersTyped' /\ ScheduleTyped'
           /\ AbsentIsBlank' /\ CountersAgree' /\ ClaimsHold'
           /\ DocStep({})
<1>1. doc' = doc /\ numbers' = numbers /\ contract' = contract /\ schedule' = schedule
  BY DEF rows
<1>2. DocTyped' /\ NumbersTyped' /\ ScheduleTyped'
  BY <1>1 DEF Inv, DocTyped, NumbersTyped, ScheduleTyped
<1>3. DocStep({}) /\ NumbersKept
  BY <1>1 DEF DocStep, NumbersKept
<1> QED
  BY <1>1, <1>2, <1>3, AbsentStaysBlank, CountersStay, ClaimsStay

LEMMA BeginKeepsInv ==
    ASSUME Inv, NEW s \in Session, NEW op \in Op, NEW i \in Invoice \cup {None},
           NEW k \in Item \cup {None},
           NEW plan \in Seq(Lockable), plan # <<>>, Begin(s, op, i, k, plan),
           RequestHolds(s)'
    PROVE  Inv'
<1>1. /\ DocTyped' /\ NumbersTyped' /\ ScheduleTyped'
      /\ AbsentIsBlank' /\ CountersAgree' /\ ClaimsHold' /\ DocStep({})
  BY RowsStay DEF Begin
<1>2. SessionTyped /\ LocksExclude
  BY DEF Inv
<1>3. /\ Head(plan) \in Lockable /\ Tail(plan) \in Seq(Lockable)
      /\ \A t \in Session \ {s} : Head(plan) \notin held[t]
  BY TailElements DEF Begin, HeldByOthers
<1>4. /\ held'[s] = {Head(plan)}
      /\ \A t \in Session \ {s} :
           request'[t] = request[t] /\ todo'[t] = todo[t] /\ held'[t] = held[t]
  BY <1>2 DEF Begin, SessionTyped
<1>5. SessionTyped'
  <2>1. [op |-> op, invoice |-> i, item |-> k] \in Request
    BY DEF Request
  <2> QED
    BY <1>2, <1>3, <2>1 DEF Begin, SessionTyped
<1>6. LocksExclude'
  BY <1>2, <1>3, <1>4 DEF LocksExclude
<1>7. RequestsHold'
  <2>1. ASSUME NEW t \in Session, t # s PROVE RequestHolds(t)'
    BY <1>1, <1>4, <2>1, OthersHold
  <2> QED
    BY <2>1 DEF RequestsHold
<1> QED
  BY <1>1, <1>5, <1>6, <1>7 DEF Inv

\* The plan of a request on a draft.
LEMMA DraftPlan ==
    ASSUME Inv, NEW s \in Session, NEW i \in Invoice, NEW op \in DraftOps,
           NEW k \in Item \cup {None}, BeginOnDraft(s, op, i, k)
    PROVE  \E plan \in Seq(Lockable) :
             /\ plan # <<>> /\ Begin(s, op, i, k, plan) /\ plan \in Plans(op, i, k)
             /\ Head(plan) = IF op \in {"update_line", "delete_line"}
                             THEN LineOf(i, k) ELSE Of(i)
             /\ op \in {"update_line", "delete_line"} => Of(i) \in Elements(Tail(plan))
             /\ op = "delete" => \A l \in Lines(i) : LineOf(i, l) \in Elements(Tail(plan))
<1>1. PICK plan \in Plans(op, i, k) : Begin(s, op, i, k, plan)
  BY DEF BeginOnDraft
<1>2. CASE op = "delete"
  <2>1. plan \in DeletePlans(i)
    BY <1>1, <1>2 DEF Plans
  <2> QED
    BY <1>1, <1>2, <2>1, DeletePlanShape DEF Inv
<1>3. CASE op # "delete"
  <2>1. plan = Plan(op, i, k) /\ (op \in LineOps => k \in Item)
    BY <1>1, <1>3 DEF Plans, BeginOnDraft
  <2> HIDE DEF BeginOnDraft
  <2> QED
    BY <1>1, <1>3, <2>1, PlanShape DEF Inv
<1> QED
  BY <1>2, <1>3

LEMMA BeginOnDraftKeepsInv ==
    ASSUME Inv, NEW s \in Session, NEW i \in Invoice, NEW op \in DraftOps,
           NEW k \in Item \cup {None}, BeginOnDraft(s, op, i, k)
    PROVE  Inv'
<1>1. PICK plan \in Seq(Lockable) :
        /\ plan # <<>> /\ Begin(s, op, i, k, plan)
        /\ Head(plan) = IF op \in {"update_line", "delete_line"}
                        THEN LineOf(i, k) ELSE Of(i)
        /\ op \in {"update_line", "delete_line"} => Of(i) \in Elements(Tail(plan))
        /\ op = "delete" => \A l \in Lines(i) : LineOf(i, l) \in Elements(Tail(plan))
  BY DraftPlan
<1>2. /\ request'[s] = [op |-> op, invoice |-> i, item |-> k]
      /\ held'[s] = {Head(plan)} /\ ToLock(s)' = Elements(Tail(plan)) /\ doc' = doc
  BY <1>1 DEF Begin, Inv, SessionTyped, ToLock, rows
<1>3. /\ doc[i] \in Document /\ IsDraft(i) /\ (op \in LineOps => k \in Item)
      /\ op \in {"update_line", "delete_line"} => doc[i].quantity[k] > 0
      /\ op = "delete_line" => k # doc[i].claimed
      /\ op = "delete" => doc[i].claimed = None
  BY DEF BeginOnDraft, Inv, DocTyped, Lines
<1>4. RequestHolds(s)'
  <2>1. op \notin IssuedOps \cup {"delivered", "receive", "archive"}
    BY DEF DraftOps, LineOps, IssuedOps
  <2>2. Of(i) \in held'[s] \cup ToLock(s)'
    BY <1>1, <1>2
  <2>3. Lines(i)' = Lines(i)
    BY <1>2 DEF Lines
  <2>4. op = "delete" => \A l \in Lines(i)' : LineOf(i, l) \in ToLock(s)'
    BY <1>1, <1>2, <2>3
  <2> QED
    BY <1>1, <1>2, <1>3, <2>1, <2>2, <2>4 DEF RequestHolds, IsDraft
<1> QED
  BY <1>1, <1>4, BeginKeepsInv DEF Op

LEMMA BeginOnIssuedKeepsInv ==
    ASSUME Inv, NEW s \in Session, NEW i \in Invoice, NEW op \in IssuedOps,
           BeginOnIssued(s, op, i)
    PROVE  Inv'
<1> DEFINE plan == Plan(op, i, None)
<1>1. op \notin DraftOps /\ op \notin {"delivered", "receive", "archive"}
  BY DEF DraftOps, LineOps, IssuedOps
<1>2. plan \in Seq(Lockable) /\ plan # <<>> /\ Head(plan) = Of(i)
  BY <1>1, PlanShape DEF Inv, DraftOps, LineOps
<1> HIDE DEF plan
<1>3. Begin(s, op, i, None, plan)
  BY DEF BeginOnIssued, plan
<1>4. /\ request'[s] = [op |-> op, invoice |-> i, item |-> None]
      /\ held'[s] = {Of(i)} /\ doc' = doc
  BY <1>2, <1>3 DEF Begin, Inv, SessionTyped, rows
<1>5. IsValid(i)
  BY DEF BeginOnIssued
<1>6. RequestHolds(s)'
  BY <1>1, <1>4, <1>5 DEF RequestHolds, IsValid, DraftOps, LineOps
<1> QED
  BY <1>2, <1>3, <1>6, BeginKeepsInv DEF Op

LEMMA BeginOtherKeepsInv ==
    ASSUME Inv, NEW s \in Session, NEW op \in OtherOps, NEW k \in Item \cup {None},
           BeginOther(s, op, k)
    PROVE  Inv'
<1>1. op \notin DraftOps \cup LineOps \cup IssuedOps \cup {"delivered", "delete", "delete_line"}
  BY DEF DraftOps, LineOps, IssuedOps, OtherOps
<1>2. /\ request'[s] = [op |-> op, invoice |-> None, item |-> k]
      /\ op \in {"receive", "archive"} => k \in Item
  BY DEF BeginOther, Begin, Inv, SessionTyped
<1>3. RequestHolds(s)'
  <2>1. op \notin {"update_line", "delete_line"}
    BY <1>1 DEF LineOps
  <2> QED
    BY <1>1, <1>2, <2>1 DEF RequestHolds
<1>4. Begin(s, op, None, k, PlanOfOther(op, k))
  BY DEF BeginOther
<1>5. PlanOfOther(op, k) \in Seq(Lockable) /\ PlanOfOther(op, k) # <<>>
  BY OtherPlanShape DEF Inv
<1> QED
  BY <1>3, <1>4, <1>5, BeginKeepsInv DEF Op

LEMMA LockKeepsInv ==
    ASSUME Inv, NEW s \in Session, Lock(s)
    PROVE  Inv'
<1>1. /\ DocTyped' /\ NumbersTyped' /\ ScheduleTyped'
      /\ AbsentIsBlank' /\ CountersAgree' /\ ClaimsHold' /\ DocStep({})
  BY RowsStay DEF Lock
<1>2. SessionTyped /\ LocksExclude /\ RequestsHold
  BY DEF Inv
<1>3. /\ Head(todo[s]) \in Lockable /\ Tail(todo[s]) \in Seq(Lockable)
      /\ ToLock(s) = {Head(todo[s])} \cup Elements(Tail(todo[s]))
      /\ \A t \in Session \ {s} : Head(todo[s]) \notin held[t]
  BY <1>2, TailElements DEF Lock, HeldByOthers, SessionTyped, ToLock
<1>4. /\ held'[s] = held[s] \cup {Head(todo[s])} /\ todo'[s] = Tail(todo[s])
      /\ request' = request /\ doc' = doc
      /\ \A t \in Session \ {s} :
           request'[t] = request[t] /\ todo'[t] = todo[t] /\ held'[t] = held[t]
  BY <1>2 DEF Lock, SessionTyped, rows
<1>5. SessionTyped'
  BY <1>2, <1>3 DEF Lock, SessionTyped
<1>6. LocksExclude'
  BY <1>2, <1>3, <1>4 DEF LocksExclude
<1>7. RequestHolds(s)'
  <2>1. held[s] \subseteq held'[s] /\ held'[s] \cup ToLock(s)' = held[s] \cup ToLock(s)
    BY <1>3, <1>4 DEF ToLock
  <2> QED
    BY <1>2, <1>4, <2>1 DEF RequestsHold, RequestHolds, IsDraft, IsValid, Lines
<1>8. RequestsHold'
  <2>1. ASSUME NEW t \in Session, t # s PROVE RequestHolds(t)'
    BY <1>1, <1>4, <2>1, OthersHold
  <2> QED
    BY <1>7, <2>1 DEF RequestsHold
<1> QED
  BY <1>1, <1>5, <1>6, <1>8 DEF Inv

LEMMA MailKeepsInv ==
    ASSUME Inv, NEW s \in Session, Mail(s)
    PROVE  Inv'
<1>1. /\ DocTyped' /\ NumbersTyped' /\ ScheduleTyped'
      /\ AbsentIsBlank' /\ CountersAgree' /\ ClaimsHold' /\ DocStep({})
  BY RowsStay DEF Mail
<1>2. SessionTyped /\ LocksExclude /\ RequestsHold
  BY DEF Inv
<1>3. /\ request'[s].op = "delivered" /\ request'[s].invoice = request[s].invoice
      /\ held' = held /\ doc' = doc
      /\ \A t \in Session \ {s} : request'[t] = request[t] /\ todo'[t] = todo[t]
  BY <1>2 DEF Mail, SessionTyped, rows
<1>4. SessionTyped'
  <2>1. [request[s] EXCEPT !.op = "delivered"] \in Request
    BY <1>2 DEF SessionTyped, Op, Request
  <2>2. <<Client>> \in Seq(Lockable)
    BY Rows
  <2> QED
    BY <1>2, <2>1, <2>2 DEF Mail, SessionTyped
<1>5. LocksExclude'
  BY <1>2, <1>3 DEF LocksExclude
<1>6. /\ request[s].invoice \in Invoice /\ Of(request[s].invoice) \in held[s]
      /\ IsValid(request[s].invoice)
  BY <1>2 DEF RequestsHold, RequestHolds, Mail, IssuedOps
<1>7. RequestHolds(s)'
  BY <1>3, <1>6 DEF RequestHolds, IsValid, DraftOps, LineOps, IssuedOps
<1>8. RequestsHold'
  <2>1. ASSUME NEW t \in Session, t # s PROVE RequestHolds(t)'
    BY <1>1, <1>3, <2>1, OthersHold
  <2> QED
    BY <1>7, <2>1 DEF RequestsHold
<1> QED
  BY <1>1, <1>4, <1>5, <1>8 DEF Inv

LEMMA AbortKeepsInv ==
    ASSUME Inv, NEW s \in Session, Abort(s)
    PROVE  Inv'
<1>1. /\ DocTyped' /\ NumbersTyped' /\ ScheduleTyped'
      /\ AbsentIsBlank' /\ CountersAgree' /\ ClaimsHold'
  BY RowsStay DEF Abort
<1>2. DocStep(held[s])
  BY DEF Abort, rows, DocStep
<1>3. SessionTyped' /\ LocksExclude' /\ RequestsHold'
  BY <1>2, SessionEnds DEF Abort
<1> QED
  BY <1>1, <1>3 DEF Inv

-----------------------------------------------------------------------------
(* Issuing. *)
(* Issuing. *)

LEMMA IssueWrites ==
    ASSUME Inv, NEW s \in Session, IssueInvoice(s)
    PROVE  LET i == request[s].invoice
               r == SeriesOf(numbers.setting, doc[i].kind)
               p == doc[i].period
               counter == Counter(r, p)
           IN  /\ i \in Invoice /\ r \in Series /\ p \in Period /\ IsDraft(i)
               /\ counter \in [period : 0..MaxPeriod, next : Nat]
               /\ r.reset => p >= numbers.series[r].period
               /\ doc' = [doc EXCEPT ![i] = [doc[i] EXCEPT !.state = "issued",
                    !.number = [series |-> r, period |-> p, sequence |-> counter.next]]]
               /\ numbers' = [numbers EXCEPT !.series =
                    [numbers.series EXCEPT ![r] = [counter EXCEPT !.next = @ + 1]]]
               /\ DocTyped' /\ NumbersTyped' /\ DocStep(held[s])
<1> DEFINE i == request[s].invoice
           r == SeriesOf(numbers.setting, doc[i].kind)
           p == doc[i].period
           counter == Counter(r, p)
           number == [series |-> r, period |-> p, sequence |-> counter.next]
<1>1. /\ i \in Invoice /\ Of(i) \in held[s] /\ doc[i] \in Document /\ IsDraft(i)
  BY AtCommit DEF IssueInvoice, Commit, DraftOps, LineOps
<1>2. DocTyped /\ NumbersTyped /\ MaxPeriod \in Nat
  BY BoundAssumption DEF Inv
<1>3. r \in Series /\ p \in Period
  <2>1. numbers.setting \in Setting /\ doc[i].kind \in {"invoice", "credit"} /\ p \in Period
    BY <1>1, <1>2 DEF NumbersTyped, Document
  <2> QED
    BY <2>1 DEF Series
<1>4. counter \in [period : 0..MaxPeriod, next : Nat]
  <2>1. numbers.series[r] \in [period : 0..MaxPeriod, next : Nat]
    BY <1>2, <1>3 DEF NumbersTyped, Counters
  <2>2. [period |-> p, next |-> 1] \in [period : 0..MaxPeriod, next : Nat]
    BY <1>2, <1>3 DEF Period
  <2> QED
    BY <2>1, <2>2 DEF Counter
<1>5. /\ r.reset => p >= numbers.series[r].period
      /\ doc' = [doc EXCEPT ![i].state = "issued", ![i].number = number]
      /\ numbers' = [numbers EXCEPT !.series[r] = [counter EXCEPT !.next = @ + 1]]
  BY DEF IssueInvoice
<1> HIDE DEF r, p, counter
<1>6. number \in Number
  BY <1>3, <1>4 DEF Number
<1> HIDE DEF number
<1>7. doc' = [doc EXCEPT ![i] = [doc[i] EXCEPT !.state = "issued", !.number = number]]
  BY <1>1, <1>2, <1>5 DEF DocTyped
<1>8. numbers' = [numbers EXCEPT !.series =
                    [numbers.series EXCEPT ![r] = [counter EXCEPT !.next = @ + 1]]]
  BY <1>5
<1>9. DocTyped'
  BY <1>1, <1>2, <1>6, <1>7 DEF DocTyped, Document
<1>10. NumbersTyped'
  <2>1. [counter EXCEPT !.next = @ + 1] \in [period : 0..MaxPeriod, next : Nat]
    BY <1>4
  <2> QED
    BY <1>2, <1>3, <1>8, <2>1 DEF NumbersTyped, Counters
<1>11. DocStep(held[s])
  BY <1>1, <1>2, <1>7 DEF DocStep, Edited, DocTyped, Document
<1> QED
  BY <1>1, <1>3, <1>4, <1>5, <1>7, <1>8, <1>9, <1>10, <1>11 DEF r, p, counter, number

LEMMA IssueKeepsCounters ==
    ASSUME Inv, NEW i \in Invoice, NEW r \in Series, NEW p \in Period,
           NEW counter \in [period : 0..MaxPeriod, next : Nat], counter = Counter(r, p),
           doc[i].state = "draft", r.reset => p >= numbers.series[r].period,
           doc' = [doc EXCEPT ![i] = [doc[i] EXCEPT !.state = "issued",
                !.number = [series |-> r, period |-> p, sequence |-> counter.next]]],
           numbers' = [numbers EXCEPT !.series =
                [numbers.series EXCEPT ![r] = [counter EXCEPT !.next = @ + 1]]]
    PROVE  CountersAgree'
<1> DEFINE c == numbers.series[r]
           number == [series |-> r, period |-> p, sequence |-> counter.next]
<1>1. /\ doc[i].state = "draft" /\ (r.reset => p >= c.period)
      /\ doc' = [doc EXCEPT ![i] = [doc[i] EXCEPT !.state = "issued", !.number = number]]
      /\ numbers' = [numbers EXCEPT !.series =
           [numbers.series EXCEPT ![r] = [counter EXCEPT !.next = @ + 1]]]
  OBVIOUS
<1>2. counter = IF r.reset /\ c.period # p THEN [period |-> p, next |-> 1] ELSE c
  BY DEF Counter
<1>3. DocTyped /\ NumbersTyped /\ CountersAgree /\ IsFiniteSet(Invoice)
  BY InvoiceAssumption DEF Inv
<1>4. c \in [period : 0..MaxPeriod, next : Nat] /\ p \in Nat /\ c.period \in Nat
  BY <1>1, <1>3 DEF NumbersTyped, Counters, Period
<1> HIDE DEF c
<1>5. number.series = r /\ number.period = p /\ number.sequence = counter.next
  OBVIOUS
<1> HIDE DEF number
<1>6. /\ doc'[i].state = "issued" /\ doc'[i].number = number
      /\ \A j \in Invoice \ {i} : doc'[j] = doc[j]
  <2>1. doc[i] \in Document
    BY <1>3 DEF DocTyped
  <2>2. /\ doc'[i] = [doc[i] EXCEPT !.state = "issued", !.number = number]
        /\ \A j \in Invoice \ {i} : doc'[j] = doc[j]
    BY <1>1, <1>3 DEF DocTyped
  <2>3. "state" \in DOMAIN doc[i] /\ "number" \in DOMAIN doc[i]
    BY ONLY <2>1, SMTT(30) DEF Document
  <2> QED
    BY ONLY <2>2, <2>3, SMTT(30)
<1>7. /\ numbers'.series[r].next = counter.next + 1
      /\ numbers'.series[r].period = counter.period
      /\ \A o \in Series \ {r} : numbers'.series[o] = numbers.series[o]
  BY <1>1, <1>3 DEF NumbersTyped, Counters
<1>8. ASSUME NEW o \in Series, NEW q \in Period
      PROVE  /\ IsFiniteSet(NumberedIn(o, q)) /\ Cardinality(NumberedIn(o, q)) \in Nat
             /\ i \notin NumberedIn(o, q)
  <2>1. NumberedIn(o, q) \in SUBSET Invoice /\ i \notin NumberedIn(o, q)
    BY <1>1 DEF NumberedIn, Issued
  <2>2. IsFiniteSet(NumberedIn(o, q))
    BY <1>3, <2>1, FS_Subset
  <2> QED
    BY <2>1, <2>2, FS_CardinalityType
\* A series or a period that the number is not of.
<1>9. ASSUME NEW o \in Series, NEW q \in Period, o # r \/ (r.reset /\ q # p)
      PROVE  /\ NumberedIn(o, q)' = NumberedIn(o, q)
             /\ {doc'[j].number.sequence : j \in NumberedIn(o, q)'}
                  = {doc[j].number.sequence : j \in NumberedIn(o, q)}
  <2>1. NumberedIn(o, q)' = NumberedIn(o, q)
    BY <1>1, <1>5, <1>6, <1>9 DEF NumberedIn, Issued
  <2>2. \A j \in NumberedIn(o, q) : doc'[j] = doc[j]
    BY <1>6, <1>8 DEF NumberedIn, Issued
  <2> QED
    BY ONLY <2>1, <2>2, SMTT(30)
\* The period, or all of a series that does not restart.
<1>10. ASSUME NEW q \in Period, r.reset => q = p
       PROVE  /\ NumberedIn(r, q)' = NumberedIn(r, q) \cup {i}
              /\ counter.next = Cardinality(NumberedIn(r, q)) + 1
              /\ Cardinality(NumberedIn(r, q)') = counter.next
              /\ {doc'[j].number.sequence : j \in NumberedIn(r, q)'} = 1..counter.next
  <2> DEFINE N == NumberedIn(r, q)
  <2>1. NumberedIn(r, q)' = N \cup {i}
    <3>1. i \in NumberedIn(r, q)'
      BY <1>1, <1>5, <1>6, <1>10 DEF NumberedIn, Issued
    <3>2. i \notin N
      BY <1>1, <1>8
    <3>3. ASSUME NEW j \in Invoice, j # i
          PROVE  j \in NumberedIn(r, q)' <=> j \in N
      BY <1>6, <3>3 DEF NumberedIn, Issued
    <3>4. N \subseteq Invoice /\ NumberedIn(r, q)' \subseteq Invoice
      BY DEF NumberedIn, Issued
    <3> QED
      BY <3>1, <3>3, <3>4
  <2>2. /\ {doc[j].number.sequence : j \in N} = 1..Cardinality(N)
        /\ ~r.reset \/ c.period = q => c.next = Cardinality(N) + 1
        /\ r.reset /\ q > c.period => N = {}
    BY <1>1, <1>3 DEF CountersAgree, c
  <2>3. counter.next = Cardinality(N) + 1
    <3>1. CASE r.reset /\ c.period # p
      <4>1. N = {} /\ counter.next = 1
        BY <1>1, <1>2, <1>4, <1>10, <2>2, <3>1
      <4> QED
        BY <4>1, FS_EmptySet
    <3>2. CASE ~(r.reset /\ c.period # p)
      BY <1>2, <1>10, <2>2, <3>2
    <3> QED
      BY <3>1, <3>2
  <2>4. IsFiniteSet(N) /\ Cardinality(N) \in Nat /\ i \notin N
    BY <1>1, <1>8
  <2>5. Cardinality(N \cup {i}) = Cardinality(N) + 1
    BY <2>4, FS_AddElement
  <2>6. {doc'[j].number.sequence : j \in N \cup {i}}
          = {doc[j].number.sequence : j \in N} \cup {counter.next}
    <3>1. \A j \in N : doc'[j] = doc[j]
      BY <1>6, <2>4 DEF NumberedIn, Issued
    <3>2. \A j \in N : doc'[j].number.sequence = doc[j].number.sequence
      BY <3>1
    <3>3. doc'[i].number.sequence = counter.next
      BY <1>5, <1>6
    <3> HIDE DEF N
    <3> QED
      BY <3>2, <3>3
  <2>7. 1..Cardinality(N) \cup {Cardinality(N) + 1} = 1..(Cardinality(N) + 1)
    BY <2>4
  <2> QED
    BY <2>1, <2>2, <2>3, <2>5, <2>6, <2>7
<1>11. SUFFICES ASSUME NEW o \in Series, NEW q \in Period
       PROVE  LET N == NumberedIn(o, q)'
                  d == numbers'.series[o]
              IN  /\ {doc'[j].number.sequence : j \in N} = 1..Cardinality(N)
                  /\ ~o.reset \/ d.period = q => d.next = Cardinality(N) + 1
                  /\ o.reset /\ q > d.period => N = {}
  BY DEF CountersAgree
<1>12. /\ {doc[j].number.sequence : j \in NumberedIn(o, q)} = 1..Cardinality(NumberedIn(o, q))
       /\ ~o.reset \/ numbers.series[o].period = q =>
            numbers.series[o].next = Cardinality(NumberedIn(o, q)) + 1
       /\ o.reset /\ q > numbers.series[o].period => NumberedIn(o, q) = {}
  BY <1>3 DEF CountersAgree
<1>13. CASE o # r
  BY <1>7, <1>9, <1>12, <1>13
<1>14. CASE o = r /\ (r.reset => q = p)
  <2>1. r.reset => counter.period = p
    BY <1>2
  <2>2. r.reset => ~(q > numbers'.series[o].period)
    BY <1>4, <1>7, <1>14, <2>1
  <2> QED
    BY <1>4, <1>7, <1>10, <1>14, <2>2
<1>15. CASE o = r /\ r.reset /\ q # p
  <2>1. counter.period = p
    BY <1>2, <1>15
  <2>2. q > p => NumberedIn(o, q) = {}
    BY <1>1, <1>4, <1>12, <1>15 DEF c, Period
  <2> QED
    BY <1>7, <1>9, <1>12, <1>15, <2>1, <2>2
<1> QED
  BY <1>13, <1>14, <1>15

LEMMA IssueKeepsInv ==
    ASSUME Inv, NEW s \in Session, IssueInvoice(s)
    PROVE  Inv' /\ DocStep(held[s])
<1>1. DocTyped' /\ NumbersTyped' /\ DocStep(held[s])
  BY IssueWrites
<1>2. CountersAgree'
  <2> DEFINE i == request[s].invoice
             r == SeriesOf(numbers.setting, doc[i].kind)
             p == doc[i].period
             counter == Counter(r, p)
  <2>1. /\ i \in Invoice /\ r \in Series /\ p \in Period /\ doc[i].state = "draft"
        /\ counter \in [period : 0..MaxPeriod, next : Nat]
        /\ r.reset => p >= numbers.series[r].period
        /\ doc' = [doc EXCEPT ![i] = [doc[i] EXCEPT !.state = "issued",
             !.number = [series |-> r, period |-> p, sequence |-> counter.next]]]
        /\ numbers' = [numbers EXCEPT !.series =
             [numbers.series EXCEPT ![r] = [counter EXCEPT !.next = @ + 1]]]
    BY IssueWrites DEF IsDraft
  <2> QED
    BY <2>1, IssueKeepsCounters
<1>3. SessionTyped' /\ LocksExclude' /\ RequestsHold'
  BY <1>1, SessionEnds DEF IssueInvoice, Commit
<1>4. schedule' = schedule /\ contract' = contract
  BY DEF IssueInvoice
<1>5. ScheduleTyped' /\ ClaimsHold' /\ AbsentIsBlank'
  BY <1>1, <1>4, ClaimsStay, AbsentStaysBlank DEF Inv, ScheduleTyped
<1> QED
  BY <1>1, <1>2, <1>3, <1>5 DEF Inv

-----------------------------------------------------------------------------
(* The other transactions. *)

LEMMA WritesKeepInv ==
    ASSUME Inv, NEW s \in Session, DocTyped', DocStep(held[s]), NumbersKept,
           End(s), UNCHANGED <<numbers, contract, schedule>>
    PROVE  Inv'
<1>1. SessionTyped' /\ LocksExclude' /\ RequestsHold'
  BY SessionEnds
<1>2. CountersAgree' /\ ClaimsHold' /\ AbsentIsBlank'
  BY CountersStay, ClaimsStay, AbsentStaysBlank
<1>3. NumbersTyped' /\ ScheduleTyped'
  BY DEF Inv, NumbersTyped, ScheduleTyped
<1> QED
  BY <1>1, <1>2, <1>3 DEF Inv

LEMMA CreateDraftKeepsInv ==
    ASSUME Inv, NEW i \in Invoice, NEW p \in Period, CreateDraft(i, p)
    PROVE  Inv' /\ DocStep({})
<1>1. /\ doc' = [doc EXCEPT ![i] = [Absent EXCEPT !.state = "draft", !.period = p]]
      /\ doc[i].state = "absent" /\ UNCHANGED <<numbers, contract, schedule, session>>
  BY DEF CreateDraft
<1>2. DocTyped /\ Absent \in Document
  BY AbsentTyped DEF Inv
<1>3. DocTyped' /\ DocStep({}) /\ NumbersKept
  <2>1. DocTyped'
    BY <1>1, <1>2 DEF DocTyped, Document
  <2>2. doc'[i].state = "draft" /\ \A j \in Invoice \ {i} : doc'[j] = doc[j]
    BY <1>1, <1>2 DEF DocTyped, Document
  <2> QED
    BY <1>1, <2>1, <2>2 DEF DocStep, Created, NumbersKept
<1>4. CountersAgree' /\ ClaimsHold' /\ AbsentIsBlank'
  BY <1>1, <1>3, CountersStay, ClaimsStay, AbsentStaysBlank
<1>5. SessionTyped' /\ LocksExclude'
  BY <1>1 DEF session, Inv, SessionTyped, LocksExclude
<1>6. RequestsHold'
  BY <1>1, <1>3, OthersHold DEF session, RequestsHold
<1>7. NumbersTyped' /\ ScheduleTyped'
  BY <1>1 DEF Inv, NumbersTyped, ScheduleTyped
<1> QED
  BY <1>3, <1>4, <1>5, <1>6, <1>7 DEF Inv

LEMMA ConfigureKeepsInv ==
    ASSUME Inv, NEW s \in Session, ConfigureIssueSettings(s)
    PROVE  Inv'
<1>1. PICK k \in Setting : numbers' = [numbers EXCEPT !.setting = k]
  BY DEF ConfigureIssueSettings
<1>2. NumbersTyped' /\ numbers'.series = numbers.series
  BY <1>1 DEF Inv, NumbersTyped
<1>3. /\ doc' = doc /\ contract' = contract /\ schedule' = schedule /\ End(s)
      /\ DocStep(held[s]) /\ NumbersKept
  BY DEF ConfigureIssueSettings, Commit, DocStep, NumbersKept
<1>4. SessionTyped' /\ LocksExclude' /\ RequestsHold'
  BY <1>3, SessionEnds
<1>5. CountersAgree' /\ ClaimsHold' /\ AbsentIsBlank'
  BY <1>2, <1>3, CountersStay, ClaimsStay, AbsentStaysBlank
<1>6. DocTyped' /\ ScheduleTyped'
  BY <1>3 DEF Inv, DocTyped, ScheduleTyped
<1> QED
  BY <1>2, <1>4, <1>5, <1>6 DEF Inv

LEMMA QuietWritesKeepInv ==
    ASSUME Inv, NEW s \in Session, End(s), UNCHANGED <<doc, numbers>>,
           ScheduleTyped', ClaimsHold'
    PROVE  Inv'
<1>1. DocStep(held[s]) /\ NumbersKept
  BY DEF DocStep, NumbersKept
<1>2. SessionTyped' /\ LocksExclude' /\ RequestsHold'
  BY <1>1, SessionEnds
<1>3. CountersAgree' /\ AbsentIsBlank'
  BY <1>1, CountersStay, AbsentStaysBlank
<1>4. DocTyped' /\ NumbersTyped'
  BY DEF Inv, DocTyped, NumbersTyped
<1> QED
  BY <1>2, <1>3, <1>4 DEF Inv

LEMMA StockStepsKeepInv ==
    ASSUME Inv, NEW s \in Session,
           ReceiveStock(s) \/ ArchiveStockItem(s) \/ UpdateCost(s)
    PROVE  Inv'
<1>1. End(s) /\ UNCHANGED <<doc, numbers, schedule>> /\ contract' \in Nat
  BY DEF ReceiveStock, ArchiveStockItem, UpdateCost, Commit, Inv, ScheduleTyped
<1>2. DocStep({}) /\ ScheduleTyped'
  BY <1>1 DEF DocStep, Inv, ScheduleTyped
<1> QED
  BY <1>1, <1>2, ClaimsStay, QuietWritesKeepInv

LEMMA StopKeepsInv ==
    ASSUME Inv, NEW s \in Session, StopSchedule(s)
    PROVE  Inv'
<1>1. /\ End(s) /\ UNCHANGED <<doc, numbers, contract>>
      /\ schedule' = [schedule EXCEPT !.enabled = FALSE]
  BY DEF StopSchedule, Commit
<1>2. ScheduleTyped' /\ schedule'.enabled = FALSE
      /\ schedule'.terms = schedule.terms /\ schedule'.claims = schedule.claims
  BY <1>1 DEF Inv, ScheduleTyped
<1>3. ClaimsHold'
  <2>1. \A p \in Period : InForce(p)' = InForce(p)
    BY ONLY <1>2, SMTT(30) DEF InForce
  <2>2. doc' = doc /\ ClaimsHold
    BY <1>1 DEF Inv
  <2> QED
    BY ONLY <1>2, <2>1, <2>2, SMTT(30) DEF ClaimsHold, ClaimHolds, Bills
<1> QED
  BY <1>1, <1>2, <1>3, QuietWritesKeepInv

LEMMA EnrollKeepsInv ==
    ASSUME Inv, NEW s \in Session, NEW p \in Period, Enroll(s, p)
    PROVE  Inv'
<1>1. /\ End(s) /\ UNCHANGED <<doc, numbers, contract>> /\ schedule.terms = <<>>
      /\ schedule' = [schedule EXCEPT !.enabled = TRUE,
                                      !.terms = <<[from |-> p, source |-> contract]>>]
  BY DEF Enroll, Commit
<1>2. <<[from |-> p, source |-> contract]>> \in Seq(Terms)
  BY DEF Inv, ScheduleTyped, Terms
<1>3. /\ ScheduleTyped' /\ schedule'.claims = schedule.claims
      /\ schedule'.terms = <<[from |-> p, source |-> contract]>>
  BY <1>1, <1>2 DEF Inv, ScheduleTyped
<1>4. schedule'.terms # <<>>
  BY <1>3
<1>5. \A q \in Period : schedule.claims[q] = Unclaimed
  BY <1>1 DEF Inv, ClaimsHold, ClaimHolds
<1>6. ClaimsHold'
  BY <1>3, <1>4, <1>5 DEF ClaimsHold
<1> QED
  BY <1>1, <1>3, <1>6, QuietWritesKeepInv

LEMMA AmendKeepsInv ==
    ASSUME Inv, NEW s \in Session, NEW p \in Period, AmendTerms(s, p)
    PROVE  Inv'
<1> DEFINE new == [from |-> p, source |-> contract]
<1>1. /\ End(s) /\ UNCHANGED <<doc, numbers, contract>>
      /\ schedule' = [schedule EXCEPT !.terms = Append(schedule.terms, new)]
      /\ \A q \in Period : schedule.claims[q] # Unclaimed => p > q
  BY DEF AmendTerms, Commit, Amendable
<1>2. ScheduleTyped /\ ClaimsHold /\ new \in Terms
  BY DEF Inv, ScheduleTyped, Terms
<1> HIDE DEF new
<1>3. /\ ScheduleTyped' /\ schedule'.claims = schedule.claims
      /\ schedule'.terms = Append(schedule.terms, new)
      /\ schedule.terms \in Seq(Terms)
  <2>1. Append(schedule.terms, new) \in Seq(Terms)
    BY <1>2 DEF ScheduleTyped
  <2> QED
    BY <1>1, <1>2, <2>1 DEF ScheduleTyped
<1>4. /\ schedule'.terms # <<>>
      /\ Len(schedule.terms) \in Nat
      /\ DOMAIN schedule.terms = 1..Len(schedule.terms)
      /\ DOMAIN schedule'.terms = 1..(Len(schedule.terms) + 1)
      /\ \A v \in DOMAIN schedule.terms : schedule'.terms[v] = schedule.terms[v]
      /\ schedule'.terms[Len(schedule.terms) + 1].from = p
  BY <1>2, <1>3 DEF new
<1>5. ASSUME NEW q \in Period, schedule.claims[q] # Unclaimed
      PROVE  InForce(q)' = InForce(q)
  <2>1. ~(p <= q)
    BY <1>1, <1>5 DEF Period
  <2>2. {v \in DOMAIN schedule'.terms : schedule'.terms[v].from <= q}
          = {v \in DOMAIN schedule.terms : schedule.terms[v].from <= q}
    BY <1>4, <2>1
  <2> QED
    BY <2>2 DEF InForce
<1>6. ClaimsHold'
  BY <1>1, <1>2, <1>3, <1>4, <1>5 DEF ClaimsHold, ClaimHolds, Bills
<1> QED
  BY <1>1, <1>3, <1>6, QuietWritesKeepInv

LEMMA GenerateKeepsInv ==
    ASSUME Inv, NEW s \in Session, NEW i \in Invoice, NEW p \in Period,
           GenerateRecurringDraft(s, i, p)
    PROVE  Inv' /\ DocStep(held[s])
<1> DEFINE claim == [invoice |-> i, version |-> InForce(p)]
<1>10. PICK k \in Item :
        doc' = [doc EXCEPT ![i] = [Absent EXCEPT !.state = "draft", !.period = p,
                                     !.quantity[k] = 1, !.claimed = k]]
  BY DEF GenerateRecurringDraft
<1>1. /\ End(s) /\ UNCHANGED <<numbers, contract>>
      /\ doc[i].state = "absent" /\ schedule.enabled
      /\ schedule' = [schedule EXCEPT !.claims = [schedule.claims EXCEPT ![p] = claim]]
  BY DEF GenerateRecurringDraft, Commit
<1>2. DocTyped /\ ScheduleTyped /\ ClaimsHold /\ Absent \in Document
  BY AbsentTyped DEF Inv
<1>3. /\ DocTyped' /\ doc'[i].state = "draft" /\ Bills(i)'
      /\ \A j \in Invoice \ {i} : doc'[j] = doc[j]
  <2> DEFINE quantity == [Nothing EXCEPT ![k] = 1]
             d == [Absent EXCEPT !.state = "draft", !.period = p, !.quantity = quantity,
                                 !.claimed = k]
  <2>1. quantity \in Units /\ quantity[k] > 0
    BY DEF Nothing, Units
  <2>2. d = [Absent EXCEPT !.state = "draft", !.period = p, !.quantity[k] = 1, !.claimed = k]
    BY DEF Absent
  <2> HIDE DEF quantity
  <2>3. d \in Document /\ d.state = "draft" /\ d.claimed = k /\ d.quantity = quantity
    BY <1>2, <2>1 DEF Document
  <2>4. doc' = [doc EXCEPT ![i] = d]
    BY <1>10, <2>2
  <2> HIDE DEF d
  <2>5. DocTyped' /\ doc'[i] = d /\ \A j \in Invoice \ {i} : doc'[j] = doc[j]
    BY <1>2, <2>3, <2>4 DEF DocTyped
  <2> QED
    BY <2>1, <2>3, <2>5 DEF Bills
<1>4. DocStep(held[s]) /\ NumbersKept
  BY <1>1, <1>3 DEF DocStep, Created, NumbersKept
<1>5. claim \in Claim
  <2>1. {0} \cup {v \in DOMAIN schedule.terms : schedule.terms[v].from <= p} \in SUBSET Nat
    BY <1>2 DEF ScheduleTyped
  <2>2. InForce(p) \in Version
    BY <2>1 DEF Version, InForce
  <2> QED
    BY <2>2 DEF Claim
<1> HIDE DEF claim
<1>6. /\ ScheduleTyped' /\ schedule'.enabled = schedule.enabled
      /\ schedule'.terms = schedule.terms
      /\ schedule'.claims[p] = claim
      /\ \A q \in Period \ {p} : schedule'.claims[q] = schedule.claims[q]
  BY <1>1, <1>2, <1>5 DEF ScheduleTyped
<1>7. ClaimsHold'
  <2>1. schedule.terms # <<>>
    BY <1>1, <1>2 DEF ClaimsHold
  <2>2. ASSUME NEW q \in Period PROVE InForce(q)' = InForce(q)
    BY <1>6 DEF InForce
  <2>3. ASSUME NEW q \in Period \ {p}, schedule.claims[q] # Unclaimed
        PROVE  /\ schedule.claims[q].invoice \in Invoice \ {i}
               /\ schedule.claims[q].version = InForce(q)
               /\ Bills(schedule.claims[q].invoice)'
               /\ \A o \in Period \ {q} : schedule.claims[o].invoice # schedule.claims[q].invoice
    <3>1. ClaimHolds(q) /\ Bills(schedule.claims[q].invoice)
      BY <1>2, <2>3 DEF ClaimsHold, ClaimHolds
    <3> QED
      BY <1>1, <1>3, <3>1 DEF ClaimHolds, Bills
  <2>4. ASSUME NEW q \in Period \ {p} PROVE schedule.claims[q].invoice # i
    BY <2>3, <2>4, InvoiceAssumption DEF Unclaimed
  <2>5. claim.invoice = i /\ claim.version = InForce(p)
    BY DEF claim
  <2>6. ASSUME NEW q \in Period, schedule'.claims[q] # Unclaimed
        PROVE  ClaimHolds(q)'
    <3>1. CASE q = p
      BY <1>3, <1>6, <2>1, <2>2, <2>4, <2>5, <3>1 DEF ClaimHolds
    <3>2. CASE q # p
      <4>1. schedule'.claims[q] = schedule.claims[q]
        BY <1>6, <3>2
      <4>2. /\ schedule.claims[q].invoice \in Invoice \ {i}
            /\ schedule.claims[q].version = InForce(q)
            /\ Bills(schedule.claims[q].invoice)'
            /\ \A o \in Period \ {q} : schedule.claims[o].invoice # schedule.claims[q].invoice
        BY <2>3, <2>6, <3>2, <4>1
      <4>3. \A o \in Period \ {q} : schedule'.claims[o].invoice # schedule.claims[q].invoice
        BY <1>6, <2>5, <4>2
      <4> QED
        BY <1>6, <2>1, <2>2, <4>1, <4>2, <4>3 DEF ClaimHolds
    <3> QED
      BY <3>1, <3>2
  <2> QED
    BY <1>6, <2>1, <2>6 DEF ClaimsHold
<1>8. SessionTyped' /\ LocksExclude' /\ RequestsHold'
  BY <1>1, <1>4, SessionEnds
<1>9. CountersAgree' /\ AbsentIsBlank' /\ NumbersTyped'
  BY <1>1, <1>4, CountersStay, AbsentStaysBlank DEF Inv, NumbersTyped
<1> QED
  BY <1>3, <1>4, <1>6, <1>7, <1>8, <1>9 DEF Inv

-----------------------------------------------------------------------------
LEMMA InitInv == Init => Inv
<1> SUFFICES ASSUME Init PROVE Inv
  OBVIOUS
<1> USE DEF Init
<1>1. MaxPeriod \in Nat
  BY BoundAssumption
<1>2. DocTyped
  BY AbsentTyped DEF DocTyped
<1>3. NumbersTyped /\ \A r \in Series : numbers.series[r] = [period |-> 0, next |-> 1]
  BY <1>1 DEF NumbersTyped, Counters
<1>4. ScheduleTyped
  BY DEF ScheduleTyped, Claim, Version, Unclaimed
<1>5. SessionTyped /\ LocksExclude
  BY DEF SessionTyped, LocksExclude, Idle, Op, Request
<1>6. RequestsHold
  BY DEF RequestsHold, RequestHolds, Idle, DraftOps, LineOps, IssuedOps
<1>7. AbsentIsBlank
  BY DEF AbsentIsBlank
<1>8. CountersAgree
  <2>1. ASSUME NEW r \in Series, NEW p \in Period PROVE NumberedIn(r, p) = {}
    BY DEF NumberedIn, Issued, Absent
  <2>2. ASSUME NEW r \in Series, NEW p \in Period
        PROVE  {doc[i].number.sequence : i \in NumberedIn(r, p)}
                 = 1..Cardinality(NumberedIn(r, p))
    <3>1. NumberedIn(r, p) = {} /\ Cardinality({}) = 0
      BY <2>1, FS_EmptySet
    <3>2. 1..0 = {}
      OBVIOUS
    <3> QED
      BY <3>1, <3>2
  <2>3. ASSUME NEW r \in Series, NEW p \in Period
        PROVE  numbers.series[r].next = Cardinality(NumberedIn(r, p)) + 1
    <3>1. NumberedIn(r, p) = {} /\ Cardinality({}) = 0
      BY <2>1, FS_EmptySet
    <3>2. numbers.series[r].next = 1
      BY <1>3
    <3> QED
      BY <3>1, <3>2
  <2> QED
    BY <2>1, <2>2, <2>3 DEF CountersAgree
<1>9. ClaimsHold
  BY DEF ClaimsHold
<1> QED
  BY <1>2, <1>3, <1>4, <1>5, <1>6, <1>7, <1>8, <1>9 DEF Inv

LEMMA NextKeepsInv ==
    ASSUME Inv, [Next]_vars
    PROVE  Inv' /\ \E locks : DocStep(locks)
<1>1. ASSUME UNCHANGED vars PROVE Inv' /\ DocStep({})
  <2>1. UNCHANGED rows /\ UNCHANGED session
    BY <1>1 DEF vars
  <2>2. /\ DocTyped' /\ NumbersTyped' /\ ScheduleTyped'
        /\ AbsentIsBlank' /\ CountersAgree' /\ ClaimsHold' /\ DocStep({})
    BY <2>1, RowsStay
  <2>3. SessionTyped' /\ LocksExclude'
    BY <2>1 DEF session, Inv, SessionTyped, LocksExclude
  <2>4. RequestsHold'
    BY <2>1, <2>2, OthersHold DEF session, RequestsHold
  <2> QED
    BY <2>2, <2>3, <2>4 DEF Inv
<1>2. ASSUME NEW i \in Invoice, NEW p \in Period, CreateDraft(i, p)
      PROVE  Inv' /\ DocStep({})
  BY <1>2, CreateDraftKeepsInv
<1>3. ASSUME NEW s \in Session, Step(s)
      PROVE  Inv' /\ (DocStep(held[s]) \/ DocStep({}))
  <2> DEFINE Locks ==
               \/ \E i \in Invoice, op \in DraftOps, k \in Item \cup {None} : BeginOnDraft(s, op, i, k)
               \/ \E i \in Invoice, op \in IssuedOps : BeginOnIssued(s, op, i)
               \/ \E op \in OtherOps, k \in Item \cup {None} : BeginOther(s, op, k)
               \/ Lock(s) \/ Abort(s) \/ Mail(s)
             WritesDocuments ==
               \/ \E q \in 1..MaxQuantity : CreateLine(s, q)
               \/ \E q \in 0..MaxQuantity : ChangeLine(s, q)
               \/ \E p \in Period : Redate(s, p)
               \/ DeleteInvoice(s) \/ WithdrawRecurringDraft(s)
               \/ \E i \in Invoice, p \in Period : CreateInvoiceFromIssued(s, i, p)
               \/ VoidInvoice(s) \/ RecordDelivery(s)
             WritesOthers ==
               \/ \E p \in Period : Enroll(s, p) \/ AmendTerms(s, p)
               \/ ConfigureIssueSettings(s) \/ ReceiveStock(s) \/ ArchiveStockItem(s)
               \/ UpdateCost(s) \/ StopSchedule(s)
             Generates ==
               \E i \in Invoice, p \in Period : GenerateRecurringDraft(s, i, p)
  <2>1. Locks \/ WritesDocuments \/ WritesOthers \/ Generates \/ IssueInvoice(s)
    BY <1>3, Zenon DEF Step
  <2>2. CASE Locks
    <3>1. UNCHANGED rows
      BY <2>2 DEF BeginOnDraft, BeginOnIssued, BeginOther, Begin, Lock, Abort, Mail
    <3>2. Inv'
      BY <2>2, BeginOnDraftKeepsInv, BeginOnIssuedKeepsInv, BeginOtherKeepsInv,
         LockKeepsInv, AbortKeepsInv, MailKeepsInv
    <3> QED
      BY <3>1, <3>2, RowsStay
  <2>3. CASE WritesDocuments
    <3>1. /\ DocTyped' /\ DocStep(held[s]) /\ NumbersKept
          /\ End(s) /\ UNCHANGED <<numbers, contract, schedule>>
      BY <2>3, Writes
    <3> QED
      BY <3>1, WritesKeepInv
  <2>4. CASE WritesOthers
    <3>1. UNCHANGED doc
      BY <2>4 DEF Enroll, AmendTerms, ConfigureIssueSettings, ReceiveStock,
         ArchiveStockItem, UpdateCost, StopSchedule
    <3>2. DocStep({})
      BY <3>1 DEF DocStep
    <3>3. Inv'
      BY <2>4, EnrollKeepsInv, AmendKeepsInv, ConfigureKeepsInv, StockStepsKeepInv,
         StopKeepsInv
    <3> QED
      BY <3>2, <3>3
  <2>5. CASE Generates
    BY <2>5, GenerateKeepsInv
  <2>6. CASE IssueInvoice(s)
    BY <2>6, IssueKeepsInv
  <2> QED
    BY <2>1, <2>2, <2>3, <2>4, <2>5, <2>6
<1> QED
  BY <1>1, <1>2, <1>3 DEF Next

-----------------------------------------------------------------------------
(* The order in which requests lock rows. *)

Prefix(t, k) == {t[m] : m \in 1..(k - 1)}

\* What a request has locked before it locks the k-th of the rows to come.
Ahead(s, k) == held[s] \cup Prefix(todo[s], k)

ClaimRows == {ClaimOf(i) : i \in Invoice}
DraftRows(i) == {Of(i)} \cup {LineOf(i, k) : k \in Item} \cup {Stock(k) : k \in Item}

\* Request r has locked the rows of before when it asks for row: with the
\* tenant's row locked;
AsksWithTenant(r, row, before) ==
    /\ row \in {Client, Numbers}
    /\ Tenant \in before /\ before \subseteq {Of(r.invoice), Tenant, Client}

\* to issue a credit note, for the invoice it credits;
AsksSource(r, row, before) ==
    /\ r.op = "issue" /\ \E j \in Invoice : row = Of(j)
    /\ Tenant \in before /\ before \subseteq {Of(r.invoice), Tenant, Client, Numbers}

\* with a line locked, for its invoice;
AsksInvoice(r, row, before) ==
    /\ r.op \in {"update_line", "delete_line"} /\ row = Of(r.invoice)
    /\ before \subseteq {LineOf(r.invoice, r.item), Client}

\* for the client, with a line, a draft and its claim, or the schedule locked;
AsksClient(r, row, before) ==
    /\ row = Client
    /\ \/ r.op \in {"update_line", "delete_line"} /\ before \subseteq {LineOf(r.invoice, r.item)}
       \/ r.op \in DraftOps /\ before \subseteq {Of(r.invoice), ClaimOf(r.invoice)}
       \/ before \subseteq {Contract, Schedule} \cup ClaimRows

\* for the item of a line;
AsksStock(r, row, before) ==
    /\ r.op \in LineOps /\ row = Stock(r.item)
    /\ Of(r.invoice) \in before
    /\ before \subseteq {Of(r.invoice), Client, LineOf(r.invoice, r.item)}

\* to delete a draft, for its lines and their items, and at last for the client;
AsksToDelete(r, row, before) ==
    /\ r.op = "delete" /\ row \in {Client} \cup DraftRows(r.invoice)
    /\ Of(r.invoice) \in before /\ before \subseteq DraftRows(r.invoice)

\* for a claim, or for the schedule.
AsksClaim(r, row, before) ==
    row \in ClaimRows /\ before \subseteq {Of(r.invoice), Contract, Schedule}
AsksSchedule(r, row, before) ==
    row = Schedule /\ before \subseteq {Contract}

MayAsk(r, row, before) ==
    /\ row \in Row
    /\ \/ row = Tenant
       \/ AsksWithTenant(r, row, before)
       \/ AsksSource(r, row, before)
       \/ AsksInvoice(r, row, before)
       \/ AsksClient(r, row, before)
       \/ AsksStock(r, row, before)
       \/ AsksToDelete(r, row, before)
       \/ AsksClaim(r, row, before)
       \/ AsksSchedule(r, row, before)

\* all is what a request has locked when it commits, or mails.
EndsInOrder(r, all) ==
    /\ Client \in Referenced(r.op) => Client \in all \/ MayAsk(r, Client, all)
    /\ r.op = "deliver" => Tenant \in all /\ all \subseteq {Of(r.invoice), Tenant, Client}

SessionInOrder(s) ==
    /\ held[s] \subseteq Row
    /\ \A k \in DOMAIN todo[s] : MayAsk(request[s], todo[s][k], Ahead(s, k))
    /\ EndsInOrder(request[s], held[s] \cup ToLock(s))
LocksInOrder == \A s \in Session : SessionInOrder(s)

PlanInOrder(r, plan) ==
    /\ plan[1] \in Row
    /\ \A k \in 2..Len(plan) : MayAsk(r, plan[k], Prefix(plan, k))
    /\ EndsInOrder(r, Elements(plan))

LEMMA RowsTyped ==
    /\ \A i \in Invoice : Of(i) \in Row /\ ClaimOf(i) \in Row
    /\ \A i \in Invoice, k \in Item : LineOf(i, k) \in Row
    /\ \A k \in Item : Stock(k) \in Row
    /\ Tenant \in Row /\ Client \in Row /\ Numbers \in Row /\ Contract \in Row
    /\ Schedule \in Row
  BY DEF Row

LEMMA RowsDiffer ==
    /\ \A i, j \in Invoice \cup {None} : Of(i) = Of(j) => i = j
    /\ \A i, j \in Invoice \cup {None} : \A k, l \in Item \cup {None} :
          /\ LineOf(i, k) = LineOf(j, l) => i = j /\ k = l
          /\ Of(i) # LineOf(j, l)
    /\ \A i \in Invoice \cup {None} :
          Of(i) \notin {Tenant, Client, Numbers, Contract, Schedule}
    /\ \A i, j \in Invoice \cup {None} : Of(i) # ClaimOf(j)
    /\ \A i \in Invoice \cup {None}, k \in Item \cup {None} :
          /\ Of(i) # Stock(k) /\ ClaimOf(i) # Stock(k)
          /\ LineOf(i, k) \notin {Tenant, Client, Numbers, Contract, Schedule}
    /\ \A i, j \in Invoice \cup {None}, k, l \in Item \cup {None} :
          LineOf(i, k) # ClaimOf(j) /\ LineOf(i, k) # Stock(l)
    /\ \A i \in Invoice \cup {None} :
          ClaimOf(i) \notin {Tenant, Client, Numbers, Contract, Schedule}
    /\ \A k \in Item \cup {None} :
          Stock(k) \notin {Tenant, Client, Numbers, Contract, Schedule}
    /\ Tenant \notin {Client, Numbers, Contract, Schedule}
    /\ Client \notin {Numbers, Contract, Schedule}
    /\ Numbers \notin {Contract, Schedule}
    /\ Contract # Schedule
  BY DEF Of, LineOf, ClaimOf, Tenant, Client, Numbers, Stock, Contract, Schedule

LEMMA Prefixes ==
    ASSUME NEW t
    PROVE  /\ Prefix(t, 1) = {}
           /\ Prefix(t, 2) = {t[1]}
           /\ Prefix(t, 3) = {t[1], t[2]}
           /\ Prefix(t, 4) = {t[1], t[2], t[3]}
           /\ Prefix(t, 5) = {t[1], t[2], t[3], t[4]}
<1>1. /\ 1..0 = {} /\ 1..1 = {1} /\ 1..2 = {1, 2} /\ 1..3 = {1, 2, 3}
      /\ 1..4 = {1, 2, 3, 4}
  OBVIOUS
<1>2. 1 - 1 = 0 /\ 2 - 1 = 1 /\ 3 - 1 = 2 /\ 4 - 1 = 3 /\ 5 - 1 = 4
  OBVIOUS
<1>3. Prefix(t, 1) = {} /\ Prefix(t, 2) = {t[1]}
  BY <1>1, <1>2, Zenon DEF Prefix
<1>4. Prefix(t, 3) = {t[1], t[2]}
  BY <1>1, <1>2, Zenon DEF Prefix
<1>5. Prefix(t, 4) = {t[1], t[2], t[3]}
  BY <1>1, <1>2, Zenon DEF Prefix
<1>6. Prefix(t, 5) = {t[1], t[2], t[3], t[4]}
  BY <1>1, <1>2, Zenon DEF Prefix
<1> QED
  BY <1>3, <1>4, <1>5, <1>6

LEMMA TailPrefix ==
    ASSUME NEW S, NEW t \in Seq(S), t # <<>>, NEW k \in 1..Len(t)
    PROVE  {Head(t)} \cup Prefix(Tail(t), k) = Prefix(t, k + 1)
<1>1. Len(t) \in Nat /\ Len(t) > 0 /\ t[1] = Head(t)
  OBVIOUS
<1>2. \A n \in 1..(Len(t) - 1) : Tail(t)[n] = t[n + 1]
  OBVIOUS
<1>3. \A m \in 1..(k - 1) : m + 1 \in 1..((k + 1) - 1) /\ Tail(t)[m] = t[m + 1]
  BY <1>1, <1>2
<1>4. \A m \in 1..((k + 1) - 1) :
         m = 1 \/ (m - 1 \in 1..(k - 1) /\ Tail(t)[m - 1] = t[m])
  BY <1>1, <1>2
<1>5. 1 \in 1..((k + 1) - 1)
  BY <1>1
<1>6. ASSUME NEW x \in {Head(t)} \cup Prefix(Tail(t), k) PROVE x \in Prefix(t, k + 1)
  BY <1>1, <1>3, <1>5, <1>6 DEF Prefix
<1>7. ASSUME NEW x \in Prefix(t, k + 1) PROVE x \in {Head(t)} \cup Prefix(Tail(t), k)
  <2>1. PICK m \in 1..((k + 1) - 1) : x = t[m]
    BY <1>7 DEF Prefix
  <2>2. CASE m = 1
    BY <1>1, <2>1, <2>2
  <2>3. CASE m - 1 \in 1..(k - 1) /\ Tail(t)[m - 1] = t[m]
    BY <2>1, <2>3 DEF Prefix
  <2> QED
    BY <1>4, <2>2, <2>3
<1> QED
  BY <1>6, <1>7

\* Locking the first of the rows to come leaves what is ahead of the others.
LEMMA Advances ==
    ASSUME NEW t \in Seq(Lockable), t # <<>>, NEW before, NEW r,
           \A k \in 2..Len(t) : MayAsk(r, t[k], before \cup Prefix(t, k)),
           EndsInOrder(r, before \cup Elements(t))
    PROVE  LET now == before \cup {Head(t)} IN
           /\ \A k \in DOMAIN Tail(t) : MayAsk(r, Tail(t)[k], now \cup Prefix(Tail(t), k))
           /\ EndsInOrder(r, now \cup Elements(Tail(t)))
<1> DEFINE now == before \cup {Head(t)}
<1>1. /\ Len(t) \in Nat /\ Len(t) > 0 /\ DOMAIN Tail(t) = 1..(Len(t) - 1)
      /\ \A n \in 1..(Len(t) - 1) : Tail(t)[n] = t[n + 1]
  OBVIOUS
<1>2. ASSUME NEW k \in DOMAIN Tail(t)
      PROVE  MayAsk(r, Tail(t)[k], now \cup Prefix(Tail(t), k))
  <2>1. k \in 1..Len(t) /\ k + 1 \in 2..Len(t) /\ Tail(t)[k] = t[k + 1]
    BY <1>1
  <2>2. {Head(t)} \cup Prefix(Tail(t), k) = Prefix(t, k + 1)
    BY <2>1, TailPrefix
  <2>3. now \cup Prefix(Tail(t), k) = before \cup Prefix(t, k + 1)
    BY <2>2
  <2>4. MayAsk(r, t[k + 1], before \cup Prefix(t, k + 1))
    BY <2>1
  <2> QED
    BY <2>1, <2>3, <2>4, Zenon
<1>3. now \cup Elements(Tail(t)) = before \cup Elements(t)
  BY TailElements
<1> QED
  BY <1>2, <1>3

LEMMA OneInOrder ==
    ASSUME NEW r, NEW a \in Row,
           NEW t \in Seq(Lockable), Len(t) = 1, t[1] = a, EndsInOrder(r, {a})
    PROVE  PlanInOrder(r, t)
<1>1. DOMAIN t = {1}
  OBVIOUS
<1>2. Elements(t) = {a}
  BY <1>1 DEF Elements
<1> QED
  BY <1>2 DEF PlanInOrder

LEMMA TwoInOrder ==
    ASSUME NEW r, NEW a \in Row, NEW b,
           NEW t \in Seq(Lockable), Len(t) = 2, t[1] = a, t[2] = b,
           MayAsk(r, b, {a}), EndsInOrder(r, {a, b})
    PROVE  PlanInOrder(r, t)
<1>1. Len(t) = 2 /\ t[1] = a /\ t[2] = b /\ DOMAIN t = {1, 2}
  OBVIOUS
<1>2. Elements(t) = {a, b} /\ Prefix(t, 2) = {a}
  BY <1>1, Prefixes DEF Elements
<1>3. \A k \in 2..Len(t) : k = 2
  BY <1>1
<1> QED
  BY <1>1, <1>2, <1>3, Zenon DEF PlanInOrder

LEMMA ThreeInOrder ==
    ASSUME NEW r, NEW a \in Row, NEW b, NEW c,
           NEW t \in Seq(Lockable), Len(t) = 3, t[1] = a, t[2] = b, t[3] = c,
           MayAsk(r, b, {a}), MayAsk(r, c, {a, b}), EndsInOrder(r, {a, b, c})
    PROVE  PlanInOrder(r, t)
<1>1. Len(t) = 3 /\ t[1] = a /\ t[2] = b /\ t[3] = c /\ DOMAIN t = {1, 2, 3}
  OBVIOUS
<1>2. Elements(t) = {a, b, c} /\ Prefix(t, 2) = {a} /\ Prefix(t, 3) = {a, b}
  BY <1>1, Prefixes DEF Elements
<1>3. \A k \in 2..Len(t) : k \in {2, 3}
  BY <1>1
<1> QED
  BY <1>1, <1>2, <1>3, Zenon DEF PlanInOrder

LEMMA FourInOrder ==
    ASSUME NEW r, NEW a \in Row, NEW b, NEW c, NEW d,
           NEW t \in Seq(Lockable), Len(t) = 4, t[1] = a, t[2] = b, t[3] = c, t[4] = d,
           MayAsk(r, b, {a}), MayAsk(r, c, {a, b}), MayAsk(r, d, {a, b, c}),
           EndsInOrder(r, {a, b, c, d})
    PROVE  PlanInOrder(r, t)
<1>1. /\ Len(t) = 4 /\ t[1] = a /\ t[2] = b /\ t[3] = c /\ t[4] = d
      /\ DOMAIN t = {1, 2, 3, 4}
  OBVIOUS
<1>2. /\ Elements(t) = {a, b, c, d} /\ Prefix(t, 2) = {a} /\ Prefix(t, 3) = {a, b}
      /\ Prefix(t, 4) = {a, b, c}
  BY <1>1, Prefixes DEF Elements
<1>3. \A k \in 2..Len(t) : k \in {2, 3, 4}
  BY <1>1
<1> QED
  BY <1>1, <1>2, <1>3, Zenon DEF PlanInOrder

LEMMA FiveInOrder ==
    ASSUME NEW r, NEW a \in Row, NEW b, NEW c, NEW d, NEW e,
           NEW t \in Seq(Lockable), Len(t) = 5, t[1] = a, t[2] = b, t[3] = c, t[4] = d, t[5] = e,
           MayAsk(r, b, {a}), MayAsk(r, c, {a, b}), MayAsk(r, d, {a, b, c}),
           MayAsk(r, e, {a, b, c, d}), EndsInOrder(r, {a, b, c, d, e})
    PROVE  PlanInOrder(r, t)
<1>1. /\ Len(t) = 5 /\ t[1] = a /\ t[2] = b /\ t[3] = c /\ t[4] = d /\ t[5] = e
      /\ DOMAIN t = {1, 2, 3, 4, 5}
  OBVIOUS
<1>2. /\ Elements(t) = {a, b, c, d, e} /\ Prefix(t, 2) = {a} /\ Prefix(t, 3) = {a, b}
      /\ Prefix(t, 4) = {a, b, c} /\ Prefix(t, 5) = {a, b, c, d}
  BY <1>1, Prefixes DEF Elements
<1>3. \A k \in 2..Len(t) : k \in {2, 3, 4, 5}
  BY <1>1
<1> QED
  BY <1>1, <1>2, <1>3, Zenon DEF PlanInOrder

LEMMA PlansAreInOrder ==
    ASSUME DocTyped, NEW i \in Invoice, NEW k \in Item \cup {None},
           NEW op \in (DraftOps \cup IssuedOps) \ {"delete"}, op \in LineOps => k \in Item,
           doc[i].kind = "credit" => doc[i].source \in Invoice
    PROVE  PlanInOrder([op |-> op, invoice |-> i, item |-> k], Plan(op, i, k))
<1> DEFINE plan == Plan(op, i, k)
           from == doc[i].source
           r == [op |-> op, invoice |-> i, item |-> k]
<1>1. /\ r.op = op /\ r.invoice = i /\ r.item = k
      /\ plan \in Seq(Lockable)
      /\ Of(i) \in Row /\ ClaimOf(i) \in Row /\ (k \in Item => LineOf(i, k) \in Row)
  BY PlanShape, RowsTyped
<1> HIDE DEF r
<1>2. MayAsk(r, Tenant, {Of(i)})
  BY RowsTyped DEF MayAsk
<1>3. /\ MayAsk(r, Client, {Of(i), Tenant}) /\ MayAsk(r, Numbers, {Of(i), Tenant, Client})
  BY <1>1, RowsTyped DEF MayAsk, AsksWithTenant
<1>4. CASE op \in {"create_line", "redate", "sell_stock"}
  <2>1. MayAsk(r, Client, {Of(i)})
    BY <1>1, <1>4, RowsTyped DEF MayAsk, AsksClient, DraftOps, LineOps
  <2>2. EndsInOrder(r, {Of(i), Client}) /\ EndsInOrder(r, {Of(i), Client, Stock(k)})
    BY <1>1, <1>4 DEF EndsInOrder
  <2>3. CASE op = "sell_stock"
    <3>1. MayAsk(r, Stock(k), {Of(i), Client})
      BY <1>1, <2>3, RowsTyped DEF MayAsk, AsksStock, LineOps
    <3>2. Len(plan) = 3 /\ plan[1] = Of(i) /\ plan[2] = Client /\ plan[3] = Stock(k)
      BY <2>3 DEF Plan
    <3> QED
      BY <1>1, <2>1, <2>2, <3>1, <3>2, ThreeInOrder DEF r
  <2>4. CASE op # "sell_stock"
    <3>1. Len(plan) = 2 /\ plan[1] = Of(i) /\ plan[2] = Client
      BY <1>4, <2>4 DEF Plan
    <3> QED
      BY <1>1, <2>1, <2>2, <3>1, TwoInOrder DEF r
  <2> QED
    BY <2>3, <2>4
<1>5. CASE op \in {"update_line", "delete_line"}
  <2>1. MayAsk(r, Client, {LineOf(i, k)})
    BY <1>1, <1>5, RowsTyped DEF MayAsk, AsksClient
  <2>2. MayAsk(r, Of(i), {LineOf(i, k), Client})
    BY <1>1, <1>5, RowsTyped DEF MayAsk, AsksInvoice
  <2>3. LineOf(i, k) \in Row /\ k \in Item
    BY <1>1, <1>5 DEF LineOps
  <2>4. CASE doc[i].used[k] > 0
    <3>1. /\ Len(plan) = 4 /\ plan[1] = LineOf(i, k) /\ plan[2] = Client
          /\ plan[3] = Of(i) /\ plan[4] = Stock(k)
      BY <1>5, <2>4 DEF Plan
    <3>2. MayAsk(r, Stock(k), {LineOf(i, k), Client, Of(i)})
      BY <1>1, <1>5, <2>3, RowsTyped DEF MayAsk, AsksStock, LineOps
    <3>3. EndsInOrder(r, {LineOf(i, k), Client, Of(i), Stock(k)})
      BY <1>1, <1>5 DEF EndsInOrder
    <3> QED
      BY <1>1, <2>1, <2>2, <2>3, <3>1, <3>2, <3>3, FourInOrder DEF r
  <2>5. CASE ~(doc[i].used[k] > 0)
    <3>1. /\ Len(plan) = 3 /\ plan[1] = LineOf(i, k) /\ plan[2] = Client /\ plan[3] = Of(i)
      BY <1>5, <2>5 DEF Plan
    <3>2. EndsInOrder(r, {LineOf(i, k), Client, Of(i)})
      BY <1>1, <1>5 DEF EndsInOrder
    <3> QED
      BY <1>1, <2>1, <2>2, <2>3, <3>1, <3>2, ThreeInOrder DEF r
  <2> QED
    BY <2>4, <2>5
<1>6. CASE op = "withdraw"
  <2>1. Len(plan) = 2 /\ plan[1] = Of(i) /\ plan[2] = ClaimOf(i)
    BY <1>6 DEF Plan
  <2>2. MayAsk(r, ClaimOf(i), {Of(i)})
    BY <1>1 DEF MayAsk, AsksClaim, ClaimRows
  <2>3. MayAsk(r, Client, {Of(i), ClaimOf(i)})
    BY <1>1, <1>6, RowsTyped DEF MayAsk, AsksClient, DraftOps
  <2>4. EndsInOrder(r, {Of(i), ClaimOf(i)})
    BY <1>1, <1>6, <2>3 DEF EndsInOrder
  <2> QED
    BY <1>1, <2>1, <2>2, <2>4, TwoInOrder DEF r
<1>7. CASE op = "issue"
  <2>1. /\ Client \notin Referenced(op) /\ \A all : EndsInOrder(r, all)
    BY <1>1, <1>7, RowsDiffer DEF EndsInOrder, Referenced
  <2>2. CASE doc[i].kind = "credit"
    <3>1. /\ Len(plan) = 5 /\ plan[1] = Of(i) /\ plan[2] = Tenant /\ plan[3] = Client
          /\ plan[4] = Numbers /\ plan[5] = Of(from)
      BY <1>7, <2>2 DEF Plan
    <3>2. MayAsk(r, Of(from), {Of(i), Tenant, Client, Numbers})
      BY <1>1, <1>7, <2>2, RowsTyped DEF MayAsk, AsksSource
    <3> QED
      BY <1>1, <1>2, <1>3, <2>1, <3>1, <3>2, FiveInOrder DEF r
  <2>3. CASE doc[i].kind # "credit"
    <3>1. /\ Len(plan) = 4 /\ plan[1] = Of(i) /\ plan[2] = Tenant /\ plan[3] = Client
          /\ plan[4] = Numbers
      BY <1>7, <2>3 DEF Plan
    <3> QED
      BY <1>1, <1>2, <1>3, <2>1, <3>1, FourInOrder DEF r
  <2> QED
    BY <2>2, <2>3
<1>8. CASE op \in {"void", "follow_up"}
  <2>1. Len(plan) = 3 /\ plan[1] = Of(i) /\ plan[2] = Tenant /\ plan[3] = Client
    BY <1>8 DEF Plan
  <2>2. EndsInOrder(r, {Of(i), Tenant, Client})
    BY <1>1, <1>8 DEF EndsInOrder
  <2> QED
    BY <1>1, <1>2, <1>3, <2>1, <2>2, ThreeInOrder DEF r
<1>9. CASE op = "deliver"
  <2>1. Len(plan) = 2 /\ plan[1] = Of(i) /\ plan[2] = Tenant
    BY <1>9 DEF Plan
  <2>2. EndsInOrder(r, {Of(i), Tenant})
    BY <1>1, <1>9, RowsDiffer DEF EndsInOrder, Referenced
  <2> QED
    BY <1>1, <1>2, <2>1, <2>2, TwoInOrder DEF r
<1> QED
  BY <1>4, <1>5, <1>6, <1>7, <1>8, <1>9 DEF DraftOps, LineOps, IssuedOps

LEMMA DeletePlansAreInOrder ==
    ASSUME DocTyped, NEW i \in Invoice, NEW k \in Item \cup {None}, NEW plan \in DeletePlans(i)
    PROVE  PlanInOrder([op |-> "delete", invoice |-> i, item |-> k], plan)
<1> DEFINE r == [op |-> "delete", invoice |-> i, item |-> k]
<1>1. r.op = "delete" /\ r.invoice = i
  OBVIOUS
<1> HIDE DEF r
<1>2. /\ plan \in Seq(Lockable) /\ plan # <<>> /\ Head(plan) = Of(i)
      /\ Elements(plan) \subseteq DraftRows(i)
  BY DeletePlanShape DEF DraftRows
<1>3. /\ Len(plan) \in Nat /\ DOMAIN plan = 1..Len(plan) /\ 1 \in DOMAIN plan
      /\ plan[1] = Of(i)
  BY <1>2
<1>4. DraftRows(i) \subseteq Row /\ Client \in Row
  BY RowsTyped DEF DraftRows
<1>5. ASSUME NEW row \in {Client} \cup DraftRows(i), NEW before \in SUBSET DraftRows(i),
             Of(i) \in before
      PROVE  MayAsk(r, row, before)
  <2>1. row \in Row
    BY <1>4
  <2>2. AsksToDelete(r, row, before)
    BY <1>1, <1>5 DEF AsksToDelete
  <2> QED
    BY <2>1, <2>2 DEF MayAsk
<1>6. ASSUME NEW n \in 2..Len(plan) PROVE MayAsk(r, plan[n], Prefix(plan, n))
  <2>1. n \in DOMAIN plan /\ 1 \in 1..(n - 1) /\ \A m \in 1..(n - 1) : m \in DOMAIN plan
    BY <1>3
  <2>2. plan[n] \in DraftRows(i) /\ Prefix(plan, n) \subseteq DraftRows(i)
    BY <1>2, <2>1 DEF Elements, Prefix
  <2>3. Of(i) \in Prefix(plan, n)
    BY <1>3, <2>1 DEF Prefix
  <2> QED
    BY <1>5, <2>2, <2>3
<1>7. EndsInOrder(r, Elements(plan))
  <2>1. Of(i) \in Elements(plan)
    BY <1>3 DEF Elements
  <2> QED
    BY <1>1, <1>2, <1>5, <2>1 DEF EndsInOrder
<1>8. plan[1] \in Row
  BY <1>3, RowsTyped
<1> QED
  BY <1>6, <1>7, <1>8 DEF PlanInOrder, r

LEMMA OtherPlansAreInOrder ==
    ASSUME ClaimsHold, NEW op \in OtherOps, NEW k \in Item \cup {None},
           op \in {"receive", "archive"} => k \in Item
    PROVE  PlanInOrder([op |-> op, invoice |-> None, item |-> k], PlanOfOther(op, k))
<1> DEFINE plan == PlanOfOther(op, k)
           r == [op |-> op, invoice |-> None, item |-> k]
<1>1. r.op = op /\ plan \in Seq(Lockable)
  BY OtherPlanShape
<1> HIDE DEF r
<1>2. MayAsk(r, Schedule, {Contract})
  BY RowsTyped DEF MayAsk, AsksSchedule
<1>3. /\ MayAsk(r, Client, {Contract}) /\ MayAsk(r, Client, {Contract, Schedule})
      /\ \A i \in Invoice : MayAsk(r, Client, {Contract, Schedule, ClaimOf(i)})
  BY RowsTyped DEF MayAsk, AsksClient, ClaimRows
<1>4. CASE op \in {"configure", "receive", "archive", "stop", "edit_source", "enroll"}
  <2>1. PICK a \in Row : Len(plan) = 1 /\ plan[1] = a /\ EndsInOrder(r, {a})
    <3>1. CASE op \in {"configure", "receive", "archive", "stop", "edit_source"}
      <4>1. \A all : EndsInOrder(r, all)
        BY <1>1, <3>1, RowsDiffer DEF EndsInOrder, Referenced
      <4>2. \E a \in Row : plan = <<a>>
        BY <3>1, RowsTyped DEF PlanOfOther, PlansOfOther
      <4> QED
        BY <4>1, <4>2
    <3>2. CASE op = "enroll"
      <4>1. EndsInOrder(r, {Contract})
        BY <1>1, <1>3, <3>2 DEF EndsInOrder
      <4> QED
        BY <3>2, <4>1, RowsTyped DEF PlanOfOther, PlansOfOther
    <3> QED
      BY <1>4, <3>1, <3>2
  <2> QED
    BY <1>1, <2>1, OneInOrder DEF r
<1>5. CASE op = "generate"
  <2>1. Len(plan) = 3 /\ plan[1] = Contract /\ plan[2] = Schedule /\ plan[3] = Client
    BY <1>5 DEF PlanOfOther, PlansOfOther
  <2>2. EndsInOrder(r, {Contract, Schedule, Client})
    BY <1>1, <1>5 DEF EndsInOrder
  <2> QED
    BY <1>1, <1>2, <1>3, <2>1, <2>2, RowsTyped, ThreeInOrder DEF r
<1>6. CASE op = "amend"
  <2>1. plan = <<Contract, Schedule>> \o LatestClaim
    BY <1>6 DEF PlanOfOther, PlansOfOther
  <2>2. CASE LatestClaim = <<>>
    <3>1. Len(plan) = 2 /\ plan[1] = Contract /\ plan[2] = Schedule
      BY <2>1, <2>2
    <3>2. EndsInOrder(r, {Contract, Schedule})
      BY <1>1, <1>3, <1>6 DEF EndsInOrder
    <3> QED
      BY <1>1, <1>2, <3>1, <3>2, RowsTyped, TwoInOrder DEF r
  <2>3. CASE \E i \in Invoice : LatestClaim = <<ClaimOf(i)>>
    <3>1. PICK i \in Invoice : LatestClaim = <<ClaimOf(i)>>
      BY <2>3
    <3>2. Len(plan) = 3 /\ plan[1] = Contract /\ plan[2] = Schedule /\ plan[3] = ClaimOf(i)
      BY <2>1, <3>1
    <3>3. EndsInOrder(r, {Contract, Schedule, ClaimOf(i)})
      BY <1>1, <1>3, <1>6 DEF EndsInOrder
    <3>4. MayAsk(r, ClaimOf(i), {Contract, Schedule})
      BY RowsTyped DEF MayAsk, AsksClaim, ClaimRows
    <3> QED
      BY <1>1, <1>2, <3>2, <3>3, <3>4, RowsTyped, ThreeInOrder DEF r
  <2> QED
    BY <2>2, <2>3, LatestClaimShape
<1> QED
  BY <1>4, <1>5, <1>6 DEF OtherOps

-----------------------------------------------------------------------------
(* The order of the locks is kept. *)

LEMMA BeginKeepsOrder ==
    ASSUME SessionTyped, LocksInOrder, NEW s \in Session, NEW op, NEW i, NEW k,
           NEW plan \in Seq(Lockable), plan # <<>>,
           PlanInOrder([op |-> op, invoice |-> i, item |-> k], plan),
           Begin(s, op, i, k, plan)
    PROVE  LocksInOrder'
<1> DEFINE r == [op |-> op, invoice |-> i, item |-> k]
<1>1. /\ request' = [request EXCEPT ![s] = r]
      /\ todo' = [todo EXCEPT ![s] = Tail(plan)]
      /\ held' = [held EXCEPT ![s] = {Head(plan)}]
      /\ PlanInOrder(r, plan)
  BY DEF Begin
<1> HIDE DEF r
<1>2. /\ request'[s] = r /\ todo'[s] = Tail(plan) /\ held'[s] = {} \cup {Head(plan)}
      /\ \A t \in Session \ {s} :
            request'[t] = request[t] /\ todo'[t] = todo[t] /\ held'[t] = held[t]
  BY <1>1 DEF SessionTyped
<1>3. ASSUME NEW t \in Session, t # s PROVE SessionInOrder(t)'
  BY <1>2, <1>3, Zenon DEF LocksInOrder, SessionInOrder, Ahead, ToLock
<1>4. SessionInOrder(s)'
  <2>1. /\ \A n \in 2..Len(plan) : MayAsk(r, plan[n], {} \cup Prefix(plan, n))
        /\ EndsInOrder(r, {} \cup Elements(plan))
    BY <1>1 DEF PlanInOrder
  <2>3. {} \cup {Head(plan)} \subseteq Row
    BY <1>1 DEF PlanInOrder
  <2>2. LET now == {} \cup {Head(plan)} IN
        /\ \A n \in DOMAIN Tail(plan) :
              MayAsk(r, Tail(plan)[n], now \cup Prefix(Tail(plan), n))
        /\ EndsInOrder(r, now \cup Elements(Tail(plan)))
    BY <2>1, Advances
  <2> QED
    BY <1>2, <2>2, <2>3, Zenon DEF SessionInOrder, Ahead, ToLock
<1> QED
  BY <1>3, <1>4 DEF LocksInOrder

LEMMA LockKeepsOrder ==
    ASSUME SessionTyped, LocksInOrder, NEW s \in Session, Lock(s)
    PROVE  LocksInOrder'
<1> DEFINE t == todo[s]
<1>1. /\ t \in Seq(Lockable) /\ t # <<>>
      /\ todo' = [todo EXCEPT ![s] = Tail(t)]
      /\ held' = [held EXCEPT ![s] = held[s] \cup {Head(t)}]
      /\ request' = request
  BY DEF Lock, SessionTyped
<1>2. /\ todo'[s] = Tail(t) /\ held'[s] = held[s] \cup {Head(t)}
      /\ \A r \in Session \ {s} : todo'[r] = todo[r] /\ held'[r] = held[r]
  BY <1>1 DEF SessionTyped
<1>3. ASSUME NEW r \in Session, r # s PROVE SessionInOrder(r)'
  BY <1>1, <1>2, <1>3, Zenon DEF LocksInOrder, SessionInOrder, Ahead, ToLock
<1>4. SessionInOrder(s)'
  <2>1. /\ \A k \in DOMAIN t : MayAsk(request[s], t[k], held[s] \cup Prefix(t, k))
        /\ EndsInOrder(request[s], held[s] \cup Elements(t))
    BY Zenon DEF LocksInOrder, SessionInOrder, Ahead, ToLock
  <2>2. \A k \in 2..Len(t) : k \in DOMAIN t
    BY <1>1
  <2>4. held[s] \cup {Head(t)} \subseteq Row
    <3>1. 1 \in DOMAIN t /\ t[1] = Head(t)
      BY <1>1
    <3>2. held[s] \subseteq Row /\ t[1] \in Row
      BY <2>1, <3>1, Zenon DEF LocksInOrder, SessionInOrder, MayAsk
    <3> QED
      BY <3>1, <3>2
  <2>3. LET now == held[s] \cup {Head(t)} IN
        /\ \A k \in DOMAIN Tail(t) : MayAsk(request[s], Tail(t)[k], now \cup Prefix(Tail(t), k))
        /\ EndsInOrder(request[s], now \cup Elements(Tail(t)))
    BY <1>1, <2>1, <2>2, Advances
  <2> QED
    BY <1>1, <1>2, <2>3, <2>4, Zenon DEF SessionInOrder, Ahead, ToLock
<1> QED
  BY <1>3, <1>4 DEF LocksInOrder

LEMMA EndKeepsOrder ==
    ASSUME SessionTyped, LocksInOrder, NEW s \in Session, End(s)
    PROVE  LocksInOrder'
<1>1. /\ request'[s] = Idle /\ todo'[s] = <<>> /\ held'[s] = {}
      /\ \A r \in Session \ {s} :
            request'[r] = request[r] /\ todo'[r] = todo[r] /\ held'[r] = held[r]
  BY DEF End, SessionTyped
<1>2. ASSUME NEW r \in Session, r # s PROVE SessionInOrder(r)'
  BY <1>1, <1>2, Zenon DEF LocksInOrder, SessionInOrder, Ahead, ToLock
<1>3. SessionInOrder(s)'
  <2>1. DOMAIN todo'[s] = {}
    BY <1>1
  <2>2. held'[s] \cup Elements(todo'[s]) = {}
    BY <1>1, <2>1 DEF Elements
  <2>3. EndsInOrder(Idle, {})
    BY RowsDiffer DEF EndsInOrder, Idle, Referenced
  <2>4. EndsInOrder(request'[s], held'[s] \cup ToLock(s)')
    BY <1>1, <2>2, <2>3, Zenon DEF ToLock
  <2>5. held'[s] \subseteq Row /\ \A n \in DOMAIN todo'[s] : FALSE
    BY <1>1, <2>1
  <2> QED
    BY <2>4, <2>5, Zenon DEF SessionInOrder
<1> QED
  BY <1>2, <1>3 DEF LocksInOrder

\* Recording a mail asks for the client's row with the tenant's locked.
LEMMA MailKeepsOrder ==
    ASSUME SessionTyped, LocksInOrder, NEW s \in Session, Mail(s)
    PROVE  LocksInOrder'
<1> DEFINE r == [request[s] EXCEPT !.op = "delivered"]
<1>1. /\ request[s].op = "deliver" /\ todo[s] = <<>>
      /\ request' = [request EXCEPT ![s] = r]
      /\ todo' = [todo EXCEPT ![s] = <<Client>>] /\ held' = held
  BY DEF Mail, session
<1>2. /\ request'[s] = r /\ todo'[s] = <<Client>>
      /\ r.op = "delivered" /\ r.invoice = request[s].invoice
      /\ \A t \in Session \ {s} : request'[t] = request[t] /\ todo'[t] = todo[t]
  BY <1>1 DEF SessionTyped, Request
<1> HIDE DEF r
<1>3. ASSUME NEW t \in Session, t # s PROVE SessionInOrder(t)'
  BY <1>1, <1>2, <1>3, Zenon DEF LocksInOrder, SessionInOrder, Ahead, ToLock
<1>4. SessionInOrder(s)'
  <2>1. ToLock(s) = {}
    BY <1>1 DEF ToLock, Elements
  <2>2. Tenant \in held[s] /\ held[s] \subseteq {Of(r.invoice), Tenant, Client}
    BY <1>1, <1>2, <2>1 DEF LocksInOrder, SessionInOrder, EndsInOrder
  <2>3. MayAsk(r, Client, held[s]) /\ held[s] \subseteq Row
    BY <2>2, RowsTyped DEF MayAsk, AsksWithTenant, LocksInOrder, SessionInOrder
  <2>4. EndsInOrder(r, held[s] \cup {Client})
    BY <1>2 DEF EndsInOrder
  <2>5. DOMAIN todo'[s] = {1} /\ todo'[s][1] = Client
    BY <1>2
  <2>6. Prefix(todo'[s], 1) = {} /\ Elements(todo'[s]) = {Client}
    BY <2>5, Prefixes DEF Elements
  <2>7. held[s] \cup {} = held[s]
    OBVIOUS
  <2>8. \A n \in DOMAIN todo'[s] : MayAsk(r, todo'[s][n], held'[s] \cup Prefix(todo'[s], n))
    <3>1. MayAsk(r, todo'[s][1], held'[s] \cup Prefix(todo'[s], 1))
      BY <1>1, <2>3, <2>5, <2>6, <2>7
    <3> QED
      BY <2>5, <3>1
  <2> QED
    BY <1>1, <1>2, <2>3, <2>4, <2>6, <2>8, Zenon DEF SessionInOrder, Ahead, ToLock
<1> QED
  BY <1>3, <1>4 DEF LocksInOrder

-----------------------------------------------------------------------------
(* What a transaction does to the documents and the stock. *)

StockItem == [onHand : Nat, received : Nat, archived : BOOLEAN]
StockTyped == stock \in [Item -> StockItem]
ShortNumber == [series : Series, period : Period, sequence : 1..MaxSequence]

\* What draws on the stock is a line, and what credits an invoice names one
\* that is issued.
SoundLine(d, k) ==
    /\ d.used[k] > 0 => d.quantity[k] > 0
    /\ d.used[k] <= MaxQuantity /\ d.quantity[k] <= MaxQuantity
Sound(d) ==
    /\ \A k \in Item : SoundLine(d, k)
    /\ d.number \in {<<>>} \cup ShortNumber
    /\ d.kind = "credit" => d.source \in Invoice
    /\ d.source \in Invoice => doc[d.source].state = "issued"
    /\ d.state # "issued" => ~d.voided
DocsSound == \A i \in Invoice : Sound(doc[i])

CountersBounded == \A r \in Series : numbers.series[r].next \in 1..MaxSequence + 1

Edits(i, d) ==
    /\ doc[i].state # "issued" /\ d.state # "issued"
    /\ Sound(d) /\ d.deliveries <= doc[i].deliveries
    /\ \/ ChangeStock(doc[i].used, d.used)
       \/ d.used = doc[i].used /\ UNCHANGED stock
Issues(i, d) ==
    /\ doc[i].state = "draft" /\ d.state = "issued"
    /\ d.number \in ShortNumber /\ UNCHANGED stock
    /\ d.quantity = doc[i].quantity /\ d.used = doc[i].used
    /\ d.kind = doc[i].kind /\ d.source = doc[i].source
    /\ d.voided = doc[i].voided /\ d.deliveries = doc[i].deliveries
    /\ d.kind = "credit" => Creditable(i)
Closes(i, d) ==
    /\ IsValid(i) /\ UNCHANGED stock
    /\ \/ d = [doc[i] EXCEPT !.voided = TRUE] /\ doc[i].deliveries = 0 /\ CreditsOf(i) = {}
       \/ /\ d = [doc[i] EXCEPT !.deliveries = doc[i].deliveries + 1]
          /\ \E s \in Session : request[s].op = "delivered" /\ request'[s].op # "delivered"

Receives(k) ==
    /\ ~stock[k].archived /\ stock[k].received < MaxStock
    /\ stock' = [stock EXCEPT ![k] = [stock[k] EXCEPT !.onHand = stock[k].onHand + 1,
                                                      !.received = stock[k].received + 1]]
Archives(k) ==
    /\ \A i \in Invoice : doc[i].state = "draft" => k \notin Drawn(i)
    /\ stock' = [stock EXCEPT ![k] = [stock[k] EXCEPT !.archived = TRUE]]

Effect ==
    \/ doc' = doc /\ (stock' = stock \/ \E k \in Item : Receives(k) \/ Archives(k))
    \/ \E i \in Invoice, d \in Document :
          doc' = [doc EXCEPT ![i] = d] /\ (Edits(i, d) \/ Issues(i, d) \/ Closes(i, d))

LEMMA AbsentSound ==
    Sound(Absent) /\ Absent \in Document /\ Absent.used = Nothing /\ Absent.state = "absent"
    /\ Absent.deliveries = 0 /\ Absent.quantity = Nothing
<1>1. /\ Absent.used = Nothing /\ Absent.quantity = Nothing /\ Absent.state = "absent"
      /\ Absent.number = <<>> /\ Absent.kind = "invoice" /\ Absent.source = None
      /\ Absent.voided = FALSE /\ Absent.deliveries = 0
  BY DEF Absent
<1>2. MaxQuantity \in Nat /\ None \notin Invoice /\ \A k \in Item : Nothing[k] = 0
  BY BoundAssumption, InvoiceAssumption DEF Nothing
<1>3. Sound(Absent)
  BY <1>1, <1>2 DEF Sound, SoundLine
<1> QED
  BY <1>1, <1>3, AbsentTyped

\* A document made from a blank one.
LEMMA Creates ==
    ASSUME Inv, NEW i \in Invoice, doc[i].state = "absent", UNCHANGED stock,
           NEW d \in Document, doc' = [doc EXCEPT ![i] = d],
           d.state = "draft", d.used = Nothing, \A k \in Item : d.quantity[k] <= MaxQuantity,
           d.number = <<>>, ~d.voided, d.deliveries = 0,
           \/ d.kind = "invoice" /\ d.source = None
           \/ d.source \in Invoice /\ doc[d.source].state = "issued"
    PROVE  Effect
<1>1. /\ doc[i].used = Nothing /\ doc[i].deliveries = 0 /\ MaxQuantity \in Nat
      /\ None \notin Invoice /\ \A k \in Item : Nothing[k] = 0
  BY BoundAssumption, InvoiceAssumption, AbsentSound DEF Inv, AbsentIsBlank, Nothing
<1>2. d.kind = "credit" => d.source \in Invoice
  BY <1>1
<1>3. d.source \in Invoice => doc[d.source].state = "issued"
  BY <1>1
<1>4. ASSUME NEW k \in Item PROVE SoundLine(d, k)
  <2>1. d.used[k] = 0
    BY <1>1
  <2> QED
    BY <1>1, <2>1 DEF SoundLine
<1>5. Sound(d)
  BY <1>2, <1>3, <1>4 DEF Sound
<1>6. d.deliveries <= doc[i].deliveries
  BY <1>1
<1>7. Edits(i, d)
  BY <1>1, <1>5, <1>6 DEF Edits
<1> QED
  BY <1>7 DEF Effect

LEMMA LineEdits ==
    ASSUME Inv, DocsSound, NEW i \in Invoice, NEW k \in Item, NEW q \in 0..MaxQuantity,
           NEW u \in 0..MaxQuantity, u > 0 => q > 0, IsDraft(i),
           NEW used, used = [doc[i].used EXCEPT ![k] = u],
           doc' = [doc EXCEPT ![i].quantity[k] = q, ![i].used = used],
           ChangeStock(doc[i].used, used)
    PROVE  Effect
<1> DEFINE quantity == [doc[i].quantity EXCEPT ![k] = q]
           d == [doc[i] EXCEPT !.quantity = quantity, !.used = used]
<1>1. doc \in [Invoice -> Document] /\ doc[i] \in Document /\ MaxQuantity \in Nat
  BY BoundAssumption DEF Inv, DocTyped
<1>2. doc[i].quantity \in Units /\ doc[i].used \in Units /\ q \in Nat /\ u \in Nat
  BY <1>1 DEF Document
<1>3. /\ quantity \in Units /\ used \in Units /\ quantity[k] = q /\ used[k] = u
      /\ \A l \in Item \ {k} : quantity[l] = doc[i].quantity[l] /\ used[l] = doc[i].used[l]
  BY <1>2 DEF Units
<1>4. doc' = [doc EXCEPT ![i] = d]
  BY <1>1
<1> HIDE DEF quantity
<1>5. /\ d \in Document /\ d.used = used /\ d.quantity = quantity
      /\ d.state = doc[i].state /\ d.number = doc[i].number /\ d.kind = doc[i].kind
      /\ d.source = doc[i].source /\ d.voided = doc[i].voided
      /\ d.deliveries = doc[i].deliveries
  BY <1>1, <1>3 DEF Document
<1> HIDE DEF d
<1>6. Sound(doc[i])
  BY DEF DocsSound
<1>7. ASSUME NEW l \in Item PROVE SoundLine(d, l)
  <2>1. CASE l = k
    BY <1>1, <1>3, <1>5, <2>1 DEF SoundLine
  <2>2. CASE l # k
    BY <1>3, <1>5, <1>6, <2>2 DEF SoundLine, Sound
  <2> QED
    BY <2>1, <2>2
<1>8. Sound(d)
  BY <1>5, <1>6, <1>7 DEF Sound
<1>9. doc[i].deliveries <= doc[i].deliveries /\ doc[i].state # "issued"
  BY <1>1 DEF Document, IsDraft
<1>10. Edits(i, d)
  BY <1>5, <1>8, <1>9 DEF Edits
<1> QED
  BY <1>4, <1>5, <1>10 DEF Effect

LEMMA StepEffect ==
    ASSUME Inv, StockTyped, DocsSound, CountersBounded, [Next]_vars
    PROVE  Effect
<1> USE DEF Commit
<1>1. /\ DocTyped /\ MaxQuantity \in Nat /\ AbsentIsBlank /\ Absent \in Document
      /\ None \notin Invoice
  BY BoundAssumption, InvoiceAssumption, AbsentTyped DEF Inv
<1>2. ASSUME UNCHANGED <<doc, stock>> PROVE Effect
  BY <1>2 DEF Effect
<1>3. CASE UNCHANGED vars
  BY <1>2, <1>3 DEF vars, rows
<1>4. ASSUME NEW i \in Invoice, NEW p \in Period, CreateDraft(i, p) PROVE Effect
  <2> DEFINE d == [Absent EXCEPT !.state = "draft", !.period = p]
  <2>1. /\ doc' = [doc EXCEPT ![i] = d] /\ UNCHANGED stock /\ doc[i].state = "absent"
    BY <1>4 DEF CreateDraft
  <2>2. d \in Document
    BY <1>1 DEF Document
  <2>3. /\ d.state = "draft" /\ d.used = Nothing /\ d.quantity = Nothing /\ d.number = <<>>
        /\ ~d.voided /\ d.deliveries = 0 /\ d.kind = "invoice" /\ d.source = None
    BY DEF Absent
  <2>4. \A k \in Item : d.quantity[k] <= MaxQuantity
    BY <1>1, <2>3 DEF Nothing
  <2> HIDE DEF d
  <2> QED
    BY <1>1, <2>1, <2>2, <2>3, <2>4, Creates
<1>5. ASSUME NEW s \in Session, Step(s) PROVE Effect
  <2> DEFINE i == request[s].invoice
             k == request[s].item
             op == request[s].op
  <2>1. CASE \/ \E j \in Invoice, o \in DraftOps, l \in Item \cup {None} :
                   BeginOnDraft(s, o, j, l)
             \/ \E j \in Invoice, o \in IssuedOps : BeginOnIssued(s, o, j)
             \/ \E o \in OtherOps, l \in Item \cup {None} : BeginOther(s, o, l)
             \/ Lock(s) \/ Abort(s) \/ Mail(s)
    <3>1. UNCHANGED rows
      BY <2>1 DEF BeginOnDraft, BeginOnIssued, BeginOther, Begin, Lock, Abort, Mail
    <3> QED
      BY <1>2, <3>1 DEF rows
  <2>2. CASE \/ \E p \in Period : Enroll(s, p) \/ AmendTerms(s, p)
             \/ ConfigureIssueSettings(s) \/ UpdateCost(s) \/ StopSchedule(s)
    <3>1. UNCHANGED <<doc, stock>>
      BY <2>2, Zenon DEF Enroll, AmendTerms, ConfigureIssueSettings, UpdateCost, StopSchedule
    <3> QED
      BY <1>2, <3>1
  <2>3. ASSUME NEW q \in 1..MaxQuantity, CreateLine(s, q) PROVE Effect
    <3> DEFINE u == IF op = "sell_stock" THEN q ELSE 0
               used == [doc[i].used EXCEPT ![k] = u]
    <3>1. i \in Invoice /\ k \in Item
      BY <2>3, AtCommit DEF CreateLine, DraftOps, LineOps
    <3>2. q \in 0..MaxQuantity /\ u \in 0..MaxQuantity /\ (u > 0 => q > 0)
      BY <1>1
    <3>3. /\ IsDraft(i) /\ ChangeStock(doc[i].used, used)
          /\ doc' = [doc EXCEPT ![i].quantity[k] = q, ![i].used = used]
      BY <2>3 DEF CreateLine
    <3>4. used = [doc[i].used EXCEPT ![k] = u]
      OBVIOUS
    <3> HIDE DEF u, used, i, k
    <3> QED
      BY <3>1, <3>2, <3>3, <3>4, LineEdits
  <2>4. ASSUME NEW q \in 0..MaxQuantity, ChangeLine(s, q) PROVE Effect
    <3> DEFINE u == IF doc[i].used[k] > 0 THEN q ELSE 0
               used == [doc[i].used EXCEPT ![k] = u]
    <3>1. i \in Invoice /\ k \in Item
      BY <2>4, AtCommit DEF ChangeLine, DraftOps, LineOps
    <3>2. u \in 0..MaxQuantity /\ (u > 0 => q > 0)
      BY <1>1
    <3>3. /\ IsDraft(i) /\ ChangeStock(doc[i].used, used)
          /\ doc' = [doc EXCEPT ![i].quantity[k] = q, ![i].used = used]
      BY <2>4 DEF ChangeLine
    <3>4. used = [doc[i].used EXCEPT ![k] = u]
      OBVIOUS
    <3> HIDE DEF u, used, i, k
    <3> QED
      BY <3>1, <3>2, <3>3, <3>4, LineEdits
  <2>5. ASSUME DeleteInvoice(s) PROVE Effect
    <3>1. /\ i \in Invoice /\ IsDraft(i) /\ doc[i].deliveries \in Nat
      BY <2>5, AtCommit DEF DeleteInvoice, DraftOps, LineOps, Document
    <3>2. doc' = [doc EXCEPT ![i] = Absent] /\ ChangeStock(doc[i].used, Absent.used)
      BY <2>5, AbsentSound DEF DeleteInvoice
    <3>3. 0 <= doc[i].deliveries
      BY <3>1
    <3>4. Edits(i, Absent)
      BY <3>1, <3>2, <3>3, AbsentSound DEF Edits, IsDraft
    <3> QED
      BY <1>1, <3>1, <3>2, <3>4 DEF Effect
  <2>6. ASSUME NEW p \in Period, Redate(s, p) PROVE Effect
    <3> DEFINE d == [doc[i] EXCEPT !.period = p]
    <3>1. /\ i \in Invoice /\ doc[i] \in Document /\ IsDraft(i)
      BY <2>6, AtCommit DEF Redate, DraftOps, LineOps
    <3>2. doc' = [doc EXCEPT ![i] = d] /\ UNCHANGED stock
      BY <2>6 DEF Redate
    <3>3. /\ d \in Document /\ d.used = doc[i].used /\ d.quantity = doc[i].quantity
          /\ d.state = doc[i].state /\ d.number = doc[i].number /\ d.kind = doc[i].kind
          /\ d.source = doc[i].source /\ d.voided = doc[i].voided
          /\ d.deliveries = doc[i].deliveries
      BY <3>1 DEF Document
    <3> HIDE DEF d
    <3>4. Sound(d)
      BY <3>1, <3>3 DEF DocsSound, Sound, SoundLine
    <3>5. doc[i].deliveries <= doc[i].deliveries /\ doc[i].state # "issued"
      BY <3>1 DEF Document, IsDraft
    <3>6. Edits(i, d)
      BY <3>2, <3>3, <3>4, <3>5 DEF Edits
    <3> QED
      BY <3>1, <3>2, <3>3, <3>6 DEF Effect
  <2>7. ASSUME WithdrawRecurringDraft(s) PROVE Effect
    <3> DEFINE d == [doc[i] EXCEPT !.withdrawn = TRUE]
    <3>1. /\ i \in Invoice /\ doc[i] \in Document /\ IsDraft(i)
      BY <2>7, AtCommit DEF WithdrawRecurringDraft, DraftOps, LineOps
    <3>2. doc' = [doc EXCEPT ![i] = d] /\ UNCHANGED stock
      BY <2>7 DEF WithdrawRecurringDraft
    <3>3. /\ d \in Document /\ d.used = doc[i].used /\ d.quantity = doc[i].quantity
          /\ d.state = doc[i].state /\ d.number = doc[i].number /\ d.kind = doc[i].kind
          /\ d.source = doc[i].source /\ d.voided = doc[i].voided
          /\ d.deliveries = doc[i].deliveries
      BY <3>1 DEF Document
    <3> HIDE DEF d
    <3>4. Sound(d)
      BY <3>1, <3>3 DEF DocsSound, Sound, SoundLine
    <3>5. doc[i].deliveries <= doc[i].deliveries /\ doc[i].state # "issued"
      BY <3>1 DEF Document, IsDraft
    <3>6. Edits(i, d)
      BY <3>2, <3>3, <3>4, <3>5 DEF Edits
    <3> QED
      BY <3>1, <3>2, <3>3, <3>6 DEF Effect
  <2>8. ASSUME NEW j \in Invoice, NEW p \in Period, CreateInvoiceFromIssued(s, j, p)
        PROVE  Effect
    <3>1. /\ i \in Invoice /\ doc[i] \in Document /\ doc[i].state = "issued"
          /\ doc[j].state = "absent"
      BY <2>8, AtCommit DEF CreateInvoiceFromIssued, IssuedOps, IsValid
    <3>2. PICK kind \in {"supplement", "replacement", "credit"} :
            doc' = [doc EXCEPT ![j] =
                      [Absent EXCEPT !.state = "draft", !.source = i, !.period = p,
                         !.kind = IF kind = "credit" THEN "credit" ELSE "invoice",
                         !.quantity = IF kind = "supplement" THEN Nothing ELSE doc[i].quantity]]
      BY <2>8 DEF CreateInvoiceFromIssued
    <3> DEFINE sort == IF kind = "credit" THEN "credit" ELSE "invoice"
               quantity == IF kind = "supplement" THEN Nothing ELSE doc[i].quantity
               d == [Absent EXCEPT !.state = "draft", !.source = i, !.period = p,
                                   !.kind = sort, !.quantity = quantity]
    <3>3. /\ sort \in {"credit", "invoice"} /\ quantity \in Units
          /\ \A l \in Item : quantity[l] <= MaxQuantity
      <4>1. /\ doc[i].quantity \in Units
            /\ \A l \in Item : doc[i].quantity[l] <= MaxQuantity
        BY <3>1 DEF Document, DocsSound, Sound, SoundLine
      <4>2. Nothing \in Units /\ \A l \in Item : Nothing[l] <= MaxQuantity
        BY <1>1 DEF Nothing, Units
      <4> QED
        BY <4>1, <4>2
    <3>4. doc' = [doc EXCEPT ![j] = d] /\ UNCHANGED stock
      BY <2>8, <3>2 DEF CreateInvoiceFromIssued
    <3> HIDE DEF sort, quantity
    <3>5. d \in Document
      BY <1>1, <3>1, <3>3 DEF Document
    <3>6. /\ d.state = "draft" /\ d.used = Nothing /\ d.quantity = quantity /\ d.number = <<>>
          /\ ~d.voided /\ d.deliveries = 0 /\ d.source = i
      BY DEF Absent
    <3> HIDE DEF d
    <3> QED
      BY <1>1, <3>1, <3>3, <3>4, <3>5, <3>6, Creates
  <2>9. ASSUME NEW j \in Invoice, NEW p \in Period, GenerateRecurringDraft(s, j, p)
        PROVE  Effect
    <3>1. /\ UNCHANGED stock /\ doc[j].state = "absent"
          /\ \E l \in Item :
                doc' = [doc EXCEPT ![j] = [Absent EXCEPT !.state = "draft", !.period = p,
                                             !.quantity[l] = 1, !.claimed = l]]
      BY <2>9 DEF GenerateRecurringDraft
    <3>2. PICK l \in Item :
            doc' = [doc EXCEPT ![j] = [Absent EXCEPT !.state = "draft", !.period = p,
                                         !.quantity[l] = 1, !.claimed = l]]
      BY <3>1
    <3> DEFINE quantity == [Nothing EXCEPT ![l] = 1]
               d == [Absent EXCEPT !.state = "draft", !.period = p,
                                   !.quantity = quantity, !.claimed = l]
    <3>3. doc' = [doc EXCEPT ![j] = d]
      BY <3>2 DEF Absent
    <3>4. quantity \in Units /\ \A m \in Item : quantity[m] <= MaxQuantity
      BY <1>1, BoundAssumption DEF Nothing, Units
    <3> HIDE DEF quantity
    <3>5. d \in Document
      BY <1>1, <3>4 DEF Document
    <3>6. /\ d.state = "draft" /\ d.used = Nothing /\ d.quantity = quantity /\ d.number = <<>>
          /\ ~d.voided /\ d.deliveries = 0 /\ d.kind = "invoice" /\ d.source = None
      BY DEF Absent
    <3> HIDE DEF d
    <3> QED
      BY <1>1, <3>1, <3>3, <3>4, <3>5, <3>6, Creates
  <2>10. ASSUME IssueInvoice(s) PROVE Effect
    <3> DEFINE series == SeriesOf(numbers.setting, doc[i].kind)
               number == [series |-> series, period |-> doc[i].period,
                          sequence |-> Counter(series, doc[i].period).next]
               d == [doc[i] EXCEPT !.state = "issued", !.number = number]
    <3>1. /\ i \in Invoice /\ doc[i] \in Document
      BY <2>10, AtCommit DEF IssueInvoice, DraftOps, LineOps
    <3>2. /\ doc' = [doc EXCEPT ![i].state = "issued", ![i].number = number]
          /\ UNCHANGED stock /\ IsDraft(i)
          /\ Counter(series, doc[i].period).next <= MaxSequence
          /\ doc[i].kind = "credit" => Creditable(i)
      BY <2>10 DEF IssueInvoice
    <3>3. DocTyped'
      BY <2>10, IssueKeepsInv DEF Inv
    <3>4. doc' = [doc EXCEPT ![i] = d]
      <4> HIDE DEF number
      <4> QED
        BY <1>1, <3>1, <3>2 DEF DocTyped
    <3>5. /\ d.number = number /\ d.state = "issued"
          /\ d.quantity = doc[i].quantity /\ d.used = doc[i].used
          /\ d.kind = doc[i].kind /\ d.source = doc[i].source
          /\ d.voided = doc[i].voided /\ d.deliveries = doc[i].deliveries
      <4> HIDE DEF number
      <4> QED
        BY <3>1 DEF Document
    <3>6. d \in Document /\ doc'[i] = d
      <4> HIDE DEF d
      <4> QED
        BY <1>1, <3>1, <3>3, <3>4 DEF DocTyped
    <3>7. number \in ShortNumber
      <4> DEFINE next == Counter(series, doc[i].period).next
      <4>1. series \in Series /\ doc[i].period \in Period
        <5>1. doc[i].kind \in {"invoice", "credit"} /\ doc[i].period \in Period
          BY <3>1 DEF Document
        <5>2. numbers.setting \in Setting
          BY DEF Inv, NumbersTyped
        <5> QED
          BY <5>1, <5>2 DEF Series
      <4>2. next \in 1..MaxSequence
        <5>1. numbers.series[series].next \in 1..MaxSequence + 1
          BY <4>1 DEF CountersBounded
        <5>2. next = 1 \/ next = numbers.series[series].next
          BY DEF Counter
        <5>3. MaxSequence \in Nat /\ next <= MaxSequence
          BY <3>2, BoundAssumption
        <5> HIDE DEF next
        <5> QED
          BY <5>1, <5>2, <5>3
      <4> QED
        BY <4>1, <4>2 DEF ShortNumber
    <3> HIDE DEF d, number
    <3>8. Issues(i, d)
      BY <3>2, <3>5, <3>7 DEF Issues, IsDraft
    <3> QED
      BY <3>1, <3>4, <3>6, <3>8 DEF Effect
  <2>11. ASSUME VoidInvoice(s) PROVE Effect
    <3> DEFINE d == [doc[i] EXCEPT !.voided = TRUE]
    <3>1. /\ i \in Invoice /\ doc[i] \in Document /\ IsValid(i)
      BY <2>11, AtCommit DEF VoidInvoice, IssuedOps
    <3>2. /\ doc' = [doc EXCEPT ![i] = d] /\ UNCHANGED stock
          /\ doc[i].deliveries = 0 /\ CreditsOf(i) = {}
      BY <2>11 DEF VoidInvoice
    <3>3. d \in Document
      BY <3>1 DEF Document
    <3>4. Closes(i, d)
      BY <3>1, <3>2 DEF Closes
    <3> HIDE DEF d
    <3> QED
      BY <3>1, <3>2, <3>3, <3>4 DEF Effect
  <2>12. ASSUME RecordDelivery(s) PROVE Effect
    <3> DEFINE d == [doc[i] EXCEPT !.deliveries = doc[i].deliveries + 1]
    <3>1. /\ i \in Invoice /\ doc[i] \in Document /\ IsValid(i)
      BY <2>12, AtCommit DEF RecordDelivery
    <3>2. doc' = [doc EXCEPT ![i] = d] /\ UNCHANGED stock
      BY <2>12 DEF RecordDelivery
    <3>3. d \in Document
      <4>1. doc[i].deliveries + 1 \in Nat
        BY <3>1 DEF Document
      <4> QED
        BY <3>1, <4>1 DEF Document
    <3>4. request[s].op = "delivered" /\ request'[s].op # "delivered"
      BY <2>12 DEF RecordDelivery, End, Inv, SessionTyped, Idle
    <3>5. Closes(i, d)
      BY <3>1, <3>2, <3>4 DEF Closes
    <3> HIDE DEF d
    <3> QED
      BY <3>1, <3>2, <3>3, <3>5 DEF Effect
  <2>13. ASSUME ReceiveStock(s) \/ ArchiveStockItem(s) PROVE Effect
    <3>1. StockTyped /\ k \in Item /\ doc' = doc
      <4>1. RequestHolds(s)
        BY DEF Inv, RequestsHold
      <4> QED
        BY <2>13, <4>1 DEF ReceiveStock, ArchiveStockItem, RequestHolds
    <3>2. ASSUME ReceiveStock(s) PROVE Receives(k)
      BY <3>1, <3>2 DEF ReceiveStock, Receives, StockTyped, StockItem
    <3>3. ASSUME ArchiveStockItem(s) PROVE Archives(k)
      BY <3>1, <3>3 DEF ArchiveStockItem, Archives, StockTyped, StockItem
    <3> QED
      BY <2>13, <3>1, <3>2, <3>3 DEF Effect
  <2> QED
    BY <1>5, <2>1, <2>2, <2>3, <2>4, <2>5, <2>6, <2>7, <2>8, <2>9, <2>10, <2>11,
       <2>12, <2>13, Zenon DEF Step
<1> QED
  BY <1>3, <1>4, <1>5 DEF Next

-----------------------------------------------------------------------------
(* The stock and the credits add up. *)

Used(d, k) == [i \in Invoice |-> d[i].used[k]]
Amounts(d) == [i \in Invoice |-> Total(d[i].quantity, Item)]

ItemHolds(k) ==
    /\ stock[k].onHand + Total(Used(doc, k), Invoice) = stock[k].received
    /\ stock[k].received <= MaxStock
    /\ stock[k].archived => \A i \in Invoice : doc[i].state = "draft" => doc[i].used[k] = 0
StockHolds == StockTyped /\ \A k \in Item : ItemHolds(k)

CreditsFit ==
    \A i \in Invoice : doc[i].state = "issued" =>
        /\ Credited(i) <= Amount(i)
        /\ doc[i].voided => CreditsOf(i) = {} /\ doc[i].deliveries = 0

LEMMA SumIsTotal ==
    ASSUME NEW f, NEW S
    PROVE  SumOf(f, S) = Total(f, S)
  BY TotalIsSum DEF SumOf

LEMMA AmountIsTotal ==
    ASSUME NEW i
    PROVE  /\ Amount(i) = Total(doc[i].quantity, Item)
           /\ Amount(i)' = Total(doc'[i].quantity, Item)
<1>1. Amount(i) = Total(doc[i].quantity, Item)
  BY TotalIsSum DEF Amount, SumOf
<1>2. Amount(i)' = Total(doc'[i].quantity, Item)
  BY DEF Amount, SumOf, MapThenSumSet, MapThenFoldSet, Total, IsSumOf, Element, Rest
<1> QED
  BY <1>1, <1>2

LEMMA CreditedIsTotal ==
    ASSUME NEW i
    PROVE  /\ Credited(i) = Total(Amounts(doc), CreditsOf(i))
           /\ Credited(i)' = Total(Amounts(doc'), CreditsOf(i)')
<1>1. [c \in Invoice |-> Amount(c)] = Amounts(doc)
  BY AmountIsTotal DEF Amounts
<1>2. [c \in Invoice |-> Amount(c)]' = Amounts(doc')
  BY AmountIsTotal DEF Amounts
<1>3. Credited(i) = Total([c \in Invoice |-> Amount(c)], CreditsOf(i))
  BY TotalIsSum DEF Credited, SumOf
<1>4. Credited(i)' = Total([c \in Invoice |-> Amount(c)]', CreditsOf(i)')
  BY DEF Credited, SumOf, MapThenSumSet, MapThenFoldSet, Total, IsSumOf, Element, Rest
<1> QED
  BY <1>1, <1>2, <1>3, <1>4

LEMMA AmountsTyped ==
    ASSUME NEW d \in [Invoice -> Document], NEW i \in Invoice
    PROVE  Amounts(d)[i] = Total(d[i].quantity, Item) /\ Amounts(d)[i] \in Nat
<1>1. \A k \in Item : d[i].quantity[k] \in Nat
  BY DEF Document, Units
<1>2. Item \in SUBSET Item
  OBVIOUS
<1>3. Total(d[i].quantity, Item) \in Nat
  BY <1>1, <1>2, ItemAssumption, TotalTyped
<1> QED
  BY <1>3 DEF Amounts

LEMMA UsedChanges ==
    ASSUME DocTyped, NEW i \in Invoice, NEW d \in Document, NEW l \in Item,
           doc' = [doc EXCEPT ![i] = d]
    PROVE  /\ Total(Used(doc, l), Invoice) \in Nat
           /\ Total(Used(doc', l), Invoice) \in Nat
           /\ Total(Used(doc', l), Invoice) + doc[i].used[l]
                = Total(Used(doc, l), Invoice) + d.used[l]
<1> DEFINE rest == Invoice \ {i}
           v == Used(doc, l)
           w == Used(doc', l)
<1>1. /\ \A k \in Invoice : v[k] = doc[k].used[l] /\ w[k] = doc'[k].used[l]
      /\ \A k \in Invoice : v[k] \in Nat /\ w[k] \in Nat
      /\ v[i] = doc[i].used[l] /\ w[i] = d.used[l]
      /\ \A k \in rest : v[k] = w[k]
  BY DEF Used, DocTyped, Document, Units
<1>2. IsFiniteSet(Invoice) /\ IsFiniteSet(rest)
  BY InvoiceAssumption, FS_RemoveElement
<1> HIDE DEF v, w
<1>3. /\ Total(v, Invoice) = v[i] + Total(v, rest)
      /\ Total(w, Invoice) = w[i] + Total(w, rest)
      /\ Total(v, Invoice) \in Nat /\ Total(w, Invoice) \in Nat
      /\ Total(v, rest) \in Nat /\ Total(w, rest) \in Nat
  BY <1>1, <1>2, TotalOfOne
<1>4. Total(v, rest) = Total(w, rest)
  BY <1>1, <1>2, TotalsAgree
<1>5. doc[i].used[l] \in Nat /\ d.used[l] \in Nat
  BY DEF DocTyped, Document, Units
<1> QED
  BY <1>1, <1>3, <1>4, <1>5 DEF v, w

LEMMA IssuedStay ==
    ASSUME DocTyped, Effect, NEW k \in Invoice, doc[k].state = "issued"
    PROVE  doc'[k].state = "issued"
<1>1. CASE doc' = doc
  BY <1>1
<1>2. ASSUME NEW i \in Invoice, NEW d \in Document, doc' = [doc EXCEPT ![i] = d],
             Edits(i, d) \/ Issues(i, d) \/ Closes(i, d)
      PROVE  doc'[k].state = "issued"
  <2>1. doc[i].state = "issued" => d.state = "issued"
    BY <1>2 DEF Edits, Issues, Closes, DocTyped, Document
  <2> QED
    BY <1>2, <2>1 DEF DocTyped
<1> QED
  BY <1>1, <1>2 DEF Effect

LEMMA SoundStays ==
    ASSUME DocTyped, DocsSound, Effect
    PROVE  DocsSound'
<1>1. \A k \in Invoice : doc[k].state = "issued" => doc'[k].state = "issued"
  BY IssuedStay
<1>2. ASSUME NEW e, Sound(e) PROVE Sound(e)'
  BY <1>1, <1>2 DEF Sound, SoundLine
<1>3. ASSUME NEW k \in Invoice PROVE Sound(doc'[k])
  <2>1. CASE doc' = doc
    BY <2>1 DEF DocsSound
  <2>2. ASSUME NEW i \in Invoice, NEW d \in Document, doc' = [doc EXCEPT ![i] = d],
               Edits(i, d) \/ Issues(i, d) \/ Closes(i, d)
        PROVE  Sound(doc'[k])
    <3>1. doc'[i] = d /\ (k # i => doc'[k] = doc[k])
      BY <2>2 DEF DocTyped
    <3>2. CASE Edits(i, d)
      BY <3>1, <3>2 DEF Edits, DocsSound
    <3>3. CASE Issues(i, d)
      <4>1. Sound(doc[i])
        BY DEF DocsSound
      <4>2. Sound(d)
        BY <3>3, <4>1 DEF Issues, Sound, SoundLine
      <4> QED
        BY <3>1, <4>2 DEF DocsSound
    <3>4. CASE Closes(i, d)
      <4>1. Sound(doc[i]) /\ doc[i] \in Document
        BY DEF DocsSound, DocTyped
      <4>2. /\ d.used = doc[i].used /\ d.quantity = doc[i].quantity
            /\ d.number = doc[i].number /\ d.kind = doc[i].kind
            /\ d.source = doc[i].source /\ d.state = "issued"
        BY <3>4, <4>1 DEF Closes, IsValid, Document
      <4>3. Sound(d)
        BY <4>1, <4>2 DEF Sound, SoundLine
      <4> QED
        BY <3>1, <4>3 DEF DocsSound
    <3> QED
      BY <2>2, <3>2, <3>3, <3>4
  <2> QED
    BY <2>1, <2>2 DEF Effect
<1> QED
  <2>1. ASSUME NEW k \in Invoice PROVE Sound(doc[k])'
    <3>1. PICK e : e = doc'[k]
      OBVIOUS
    <3>2. Sound(e)
      BY <1>3, <3>1
    <3>3. Sound(e)'
      BY <1>2, <3>2
    <3> QED
      BY <3>1, <3>3 DEF Sound, SoundLine
  <2> QED
    BY <2>1 DEF DocsSound

\* Units of an item move between the shelf and a document.
Moves(k, before, after) ==
    /\ stock'[k] \in StockItem
    /\ stock'[k].onHand + after = stock[k].onHand + before
    /\ stock'[k].received = stock[k].received
    /\ stock'[k].archived = stock[k].archived
    /\ stock[k].archived => after = before

LEMMA ChangeMoves ==
    ASSUME StockTyped, NEW used \in Units, NEW after \in Units, ChangeStock(used, after)
    PROVE  StockTyped' /\ \A k \in Item : Moves(k, used[k], after[k])
<1>1. ASSUME NEW k \in Item
      PROVE  /\ (stock[k].onHand + used[k]) - after[k] \in Nat
             /\ stock[k].archived => after[k] = used[k]
  <2>1. /\ stock[k].onHand \in Nat /\ used[k] \in Nat /\ after[k] \in Nat
        /\ used[k] # after[k] => ~stock[k].archived /\ stock[k].onHand + used[k] >= after[k]
    BY DEF StockTyped, StockItem, Units, ChangeStock
  <2>2. stock[k].onHand + used[k] >= after[k]
    BY <2>1
  <2>3. (stock[k].onHand + used[k]) - after[k] \in Nat
    BY <2>1, <2>2
  <2> QED
    BY <2>1, <2>3
<1>2. stock' = [k \in Item |->
                  [stock[k] EXCEPT !.onHand = (stock[k].onHand + used[k]) - after[k]]]
  BY DEF ChangeStock, StockTyped, StockItem
<1>3. ASSUME NEW k \in Item PROVE stock'[k] \in StockItem /\ Moves(k, used[k], after[k])
  <2> DEFINE n == (stock[k].onHand + used[k]) - after[k]
  <2>1. stock'[k] = [stock[k] EXCEPT !.onHand = n] /\ n \in Nat /\ stock[k] \in StockItem
    BY <1>1, <1>2 DEF StockTyped
  <2>2. n + after[k] = stock[k].onHand + used[k]
    BY DEF StockTyped, StockItem, Units
  <2> HIDE DEF n
  <2>3. /\ stock'[k] \in StockItem /\ stock'[k].onHand = n
        /\ stock'[k].received = stock[k].received /\ stock'[k].archived = stock[k].archived
    BY <2>1 DEF StockItem
  <2> QED
    BY <1>1, <2>2, <2>3 DEF Moves
<1>4. stock' = [k \in Item |-> stock'[k]]
  BY <1>2
<1> QED
  BY <1>3, <1>4 DEF StockTyped

LEMMA SameMoves ==
    ASSUME StockTyped, UNCHANGED stock, NEW used \in Units
    PROVE  StockTyped' /\ \A k \in Item : Moves(k, used[k], used[k])
  BY DEF StockTyped, Moves

LEMMA StockStays ==
    ASSUME DocTyped, AbsentIsBlank, StockHolds, Effect
    PROVE  StockHolds'
<1>1. StockTyped /\ MaxStock \in Nat
  BY BoundAssumption DEF StockHolds
<1>2. ASSUME NEW k \in Item
      PROVE  /\ stock[k] \in StockItem /\ stock[k].onHand \in Nat /\ stock[k].received \in Nat
             /\ Total(Used(doc, k), Invoice) \in Nat /\ ItemHolds(k)
  <2>1. \A i \in Invoice : Used(doc, k)[i] \in Nat
    BY DEF Used, DocTyped, Document, Units
  <2>2. Invoice \in SUBSET Invoice
    OBVIOUS
  <2>3. Total(Used(doc, k), Invoice) \in Nat
    BY <2>1, <2>2, InvoiceAssumption, TotalTyped
  <2> QED
    BY <1>1, <2>3 DEF StockHolds, StockTyped, StockItem
<1>3. ASSUME doc' = doc, NEW k \in Item, stock'[k] = stock[k] PROVE ItemHolds(k)'
  BY <1>2, <1>3 DEF ItemHolds
<1>4. CASE doc' = doc /\ stock' = stock
  BY <1>1, <1>3, <1>4 DEF StockHolds, StockTyped
<1>5. ASSUME doc' = doc, NEW k \in Item, Receives(k) PROVE StockHolds'
  <2> DEFINE item == [stock[k] EXCEPT !.onHand = stock[k].onHand + 1,
                                      !.received = stock[k].received + 1]
  <2>1. /\ ~stock[k].archived /\ stock[k].received < MaxStock
        /\ stock' = [stock EXCEPT ![k] = item]
    BY <1>5 DEF Receives
  <2>2. stock[k].onHand + 1 \in Nat /\ stock[k].received + 1 \in Nat
    BY <1>2
  <2>3. /\ item \in StockItem /\ item.onHand = stock[k].onHand + 1
        /\ item.received = stock[k].received + 1 /\ item.archived = stock[k].archived
    BY <1>2, <2>2 DEF StockItem
  <2> HIDE DEF item
  <2>4. /\ StockTyped' /\ stock'[k] = item
        /\ \A l \in Item \ {k} : stock'[l] = stock[l]
    BY <1>1, <2>1, <2>3 DEF StockTyped
  <2>5. ItemHolds(k)'
    <3>1. Total(Used(doc, k), Invoice) = Total(Used(doc', k), Invoice)
      BY <1>5
    <3>2. stock[k].onHand + Total(Used(doc, k), Invoice) = stock[k].received
      BY <1>2 DEF ItemHolds
    <3>3. stock'[k].onHand + Total(Used(doc', k), Invoice) = stock'[k].received
      BY <1>2, <2>3, <2>4, <3>1, <3>2
    <3>4. stock'[k].received <= MaxStock
      BY <1>1, <1>2, <2>1, <2>3, <2>4
    <3> QED
      BY <2>1, <2>3, <2>4, <3>3, <3>4 DEF ItemHolds
  <2> QED
    BY <1>3, <1>5, <2>4, <2>5 DEF StockHolds
<1>6. ASSUME doc' = doc, NEW k \in Item, Archives(k) PROVE StockHolds'
  <2> DEFINE item == [stock[k] EXCEPT !.archived = TRUE]
  <2>1. /\ item \in StockItem /\ item.onHand = stock[k].onHand
        /\ item.received = stock[k].received /\ stock' = [stock EXCEPT ![k] = item]
    BY <1>2, <1>6 DEF Archives, StockItem
  <2> HIDE DEF item
  <2>2. /\ StockTyped' /\ stock'[k] = item
        /\ \A l \in Item \ {k} : stock'[l] = stock[l]
    BY <1>1, <2>1 DEF StockTyped
  <2>3. \A i \in Invoice : doc[i].state = "draft" => doc[i].used[k] = 0
    BY <1>6 DEF Archives, Drawn, DocTyped, Document, Units
  <2>4. ItemHolds(k)'
    BY <1>2, <1>6, <2>1, <2>2, <2>3 DEF ItemHolds
  <2> QED
    BY <1>3, <1>6, <2>2, <2>4 DEF StockHolds
<1>7. ASSUME NEW i \in Invoice, NEW d \in Document, doc' = [doc EXCEPT ![i] = d],
             Edits(i, d) \/ Issues(i, d) \/ Closes(i, d)
      PROVE  StockHolds'
  <2>1. /\ doc'[i] = d /\ \A j \in Invoice \ {i} : doc'[j] = doc[j]
        /\ doc[i] \in Document /\ doc[i].used \in Units /\ d.used \in Units
    BY <1>7 DEF DocTyped, Document
  <2>2. /\ \/ ChangeStock(doc[i].used, d.used)
           \/ d.used = doc[i].used /\ UNCHANGED stock
        /\ d.state = "draft" => doc[i].state # "issued"
    <3>1. CASE Edits(i, d)
      BY <3>1 DEF Edits
    <3>2. CASE Issues(i, d)
      BY <3>2 DEF Issues
    <3>3. CASE Closes(i, d)
      BY <2>1, <3>3 DEF Closes, IsValid, Document
    <3> QED
      BY <1>7, <3>1, <3>2, <3>3
  <2>3. StockTyped' /\ \A k \in Item : Moves(k, doc[i].used[k], d.used[k])
    <3>1. CASE ChangeStock(doc[i].used, d.used)
      BY <1>1, <2>1, <3>1, ChangeMoves
    <3>2. CASE d.used = doc[i].used /\ UNCHANGED stock
      BY <1>1, <2>1, <3>2, SameMoves
    <3> QED
      BY <2>2, <3>1, <3>2
  <2>4. ASSUME NEW k \in Item PROVE ItemHolds(k)'
    <3> DEFINE before == doc[i].used[k]
               after == d.used[k]
               used == Total(Used(doc, k), Invoice)
    <3>1. before \in Nat /\ after \in Nat
      BY <2>1 DEF Units
    <3>2. /\ Total(Used(doc', k), Invoice) \in Nat
          /\ Total(Used(doc', k), Invoice) + before = used + after
      BY <1>7, UsedChanges
    <3>3. /\ stock[k].onHand + used = stock[k].received /\ used \in Nat
          /\ stock[k].onHand \in Nat /\ stock[k].received \in Nat
          /\ stock[k].received <= MaxStock
          /\ stock[k].archived => \A j \in Invoice : doc[j].state = "draft" => doc[j].used[k] = 0
      BY <1>2 DEF ItemHolds
    <3>4. /\ stock'[k].onHand \in Nat /\ stock'[k].onHand + after = stock[k].onHand + before
          /\ stock'[k].received = stock[k].received
          /\ stock'[k].archived = stock[k].archived
          /\ stock[k].archived => after = before
      BY <2>3 DEF Moves, StockItem
    <3>5. ASSUME stock[k].archived, NEW j \in Invoice, doc'[j].state = "draft"
          PROVE  doc'[j].used[k] = 0
      <4>1. CASE j # i
        BY <2>1, <3>3, <3>5, <4>1
      <4>2. CASE j = i
        <5>1. doc[i].state \in {"absent", "draft"}
          BY <2>1, <2>2, <3>5, <4>2 DEF Document
        <5>2. doc[i].state = "absent" => doc[i].used[k] = 0
          BY AbsentSound DEF AbsentIsBlank, Nothing
        <5> QED
          BY <2>1, <3>3, <3>4, <3>5, <4>2, <5>1, <5>2
      <4> QED
        BY <4>1, <4>2
    <3> HIDE DEF before, after, used
    <3>6. stock'[k].onHand + Total(Used(doc', k), Invoice) = stock'[k].received
      BY <3>1, <3>2, <3>3, <3>4
    <3> QED
      BY <3>3, <3>4, <3>5, <3>6 DEF ItemHolds
  <2> QED
    BY <2>3, <2>4 DEF StockHolds
<1> QED
  BY <1>4, <1>5, <1>6, <1>7 DEF Effect

\* What is credited of an invoice changes only as a credit note is issued.
LEMMA CreditsStay ==
    ASSUME \A k \in Invoice :
             /\ doc'[k].state = "issued" <=> doc[k].state = "issued"
             /\ doc[k].state = "issued" =>
                  /\ doc'[k].kind = doc[k].kind /\ doc'[k].source = doc[k].source
                  /\ doc'[k].quantity = doc[k].quantity,
           NEW i \in Invoice
    PROVE  CreditsOf(i)' = CreditsOf(i) /\ Credited(i)' = Credited(i)
<1>1. CreditsOf(i)' = CreditsOf(i)
  BY DEF CreditsOf, Issued
<1>2. CreditsOf(i) \in SUBSET Invoice /\ IsFiniteSet(CreditsOf(i))
  <2>1. CreditsOf(i) \in SUBSET Invoice
    BY DEF CreditsOf, Issued
  <2> QED
    BY <2>1, InvoiceAssumption, FS_Subset
<1>3. \A c \in CreditsOf(i) : Amounts(doc)[c] = Amounts(doc')[c]
  BY DEF CreditsOf, Issued, Amounts
<1>4. Total(Amounts(doc), CreditsOf(i)) = Total(Amounts(doc'), CreditsOf(i))
  BY <1>2, <1>3, TotalsAgree
<1> QED
  BY <1>1, <1>4, CreditedIsTotal

LEMMA IssueKeepsCredits ==
    ASSUME DocTyped, DocsSound, CreditsFit, NEW i \in Invoice, NEW d \in Document,
           doc' = [doc EXCEPT ![i] = d], Issues(i, d)
    PROVE  CreditsFit'
<1>1. /\ doc'[i] = d /\ \A k \in Invoice \ {i} : doc'[k] = doc[k]
      /\ doc[i].state = "draft" /\ d.state = "issued" /\ ~doc[i].voided
      /\ d.quantity = doc[i].quantity /\ d.kind = doc[i].kind
      /\ d.source = doc[i].source /\ d.voided = doc[i].voided
      /\ \A k \in Invoice : Sound(doc[k])
      /\ doc' \in [Invoice -> Document]
  BY DEF Issues, DocsSound, Sound, DocTyped, Document
<1>7. ASSUME NEW k \in Invoice
      PROVE  /\ Amounts(doc)[k] = Amount(k) /\ Amounts(doc')[k] = Amount(k)'
             /\ Amount(k) \in Nat /\ Amount(k)' \in Nat
             /\ Amount(k)' = Amount(k) /\ Amounts(doc')[k] = Amounts(doc)[k]
  <2>1. doc'[k].quantity = doc[k].quantity
    BY <1>1
  <2>2. /\ Amounts(doc)[k] = Total(doc[k].quantity, Item) /\ Amounts(doc)[k] \in Nat
        /\ Amounts(doc')[k] = Total(doc'[k].quantity, Item) /\ Amounts(doc')[k] \in Nat
    BY <1>1, AmountsTyped DEF DocTyped
  <2> QED
    BY <2>1, <2>2, AmountIsTotal
<1>2. ASSUME NEW k \in Invoice
      PROVE  CreditsOf(k)' = CreditsOf(k) \cup
                (IF d.kind = "credit" /\ d.source = k THEN {i} ELSE {})
  BY <1>1 DEF CreditsOf, Issued
<1>3. ASSUME NEW k \in Invoice
      PROVE  /\ CreditsOf(k) \in SUBSET Invoice /\ IsFiniteSet(CreditsOf(k))
             /\ i \notin CreditsOf(k) /\ Credited(k) \in Nat
             /\ Credited(k) = Total(Amounts(doc), CreditsOf(k))
             /\ Credited(k)' = Total(Amounts(doc'), CreditsOf(k)')
  <2>1. CreditsOf(k) \in SUBSET Invoice /\ i \notin CreditsOf(k)
    BY <1>1 DEF CreditsOf, Issued
  <2>2. IsFiniteSet(CreditsOf(k))
    BY <2>1, InvoiceAssumption, FS_Subset
  <2>3. \A c \in Invoice : Amounts(doc)[c] \in Nat
    BY <1>7
  <2>4. Total(Amounts(doc), CreditsOf(k)) \in Nat
    BY <2>1, <2>3, InvoiceAssumption, TotalTyped
  <2> QED
    BY <2>1, <2>2, <2>4, CreditedIsTotal
<1>4. ASSUME NEW k \in Invoice, CreditsOf(k)' = CreditsOf(k)
      PROVE  Credited(k)' = Credited(k)
  <2>1. \A c \in CreditsOf(k) : Amounts(doc)[c] = Amounts(doc')[c]
    BY <1>3, <1>7
  <2>2. Total(Amounts(doc), CreditsOf(k)) = Total(Amounts(doc'), CreditsOf(k))
    BY <1>3, <2>1, TotalsAgree
  <2> QED
    BY <1>3, <1>4, <2>2
\* Nothing credits a draft.
<1>5. CreditsOf(i) = {} /\ CreditsOf(i)' = {} /\ Credited(i)' = 0
  <2>1. \A c \in Invoice : doc[c].source # i
    BY <1>1 DEF Sound
  <2>2. CreditsOf(i) = {} /\ d.source # i
    BY <1>1, <2>1 DEF CreditsOf, Issued
  <2>3. CreditsOf(i)' = {}
    BY <1>2, <2>2
  <2> QED
    BY <1>3, <2>2, <2>3, TotalOfNone
<1>6. ASSUME NEW k \in Invoice, doc'[k].state = "issued"
      PROVE  /\ (Credited(k) <= Amount(k))'
             /\ (doc[k].voided => CreditsOf(k) = {} /\ doc[k].deliveries = 0)'
  <2>1. CASE k = i
    BY <1>1, <1>5, <1>7, <2>1
  <2>2. CASE k # i /\ ~(d.kind = "credit" /\ d.source = k)
    <3>1. CreditsOf(k)' = CreditsOf(k) /\ doc'[k] = doc[k]
      BY <1>1, <1>2, <2>2
    <3>2. Credited(k)' = Credited(k)
      BY <1>4, <3>1
    <3> QED
      BY <1>6, <1>7, <3>1, <3>2 DEF CreditsFit
  <2>3. CASE k # i /\ d.kind = "credit" /\ d.source = k
    <3>1. /\ doc'[k] = doc[k] /\ ~doc[k].voided
          /\ Amount(i) + Credited(k) <= Amount(k)
      BY <1>1, <2>3 DEF Issues, Creditable
    <3> DEFINE now == CreditsOf(k) \cup {i}
    <3>2. /\ CreditsOf(k)' = now /\ now \in SUBSET Invoice /\ IsFiniteSet(now)
          /\ i \in now /\ now \ {i} = CreditsOf(k)
      <4>1. now \in SUBSET Invoice
        BY <1>3
      <4> QED
        BY <1>2, <1>3, <2>3, <4>1, InvoiceAssumption, FS_Subset
    <3>3. /\ \A c \in now : Amounts(doc')[c] \in Nat
          /\ Amounts(doc')[i] = Amount(i)
          /\ \A c \in CreditsOf(k) : Amounts(doc)[c] = Amounts(doc')[c]
      BY <1>3, <1>7, <3>2
    <3> HIDE DEF now
    <3>4. Total(Amounts(doc'), now) = Amounts(doc')[i] + Total(Amounts(doc'), now \ {i})
      BY <3>2, <3>3, TotalOfOne
    <3>5. Total(Amounts(doc), CreditsOf(k)) = Total(Amounts(doc'), CreditsOf(k))
      BY <1>3, <3>3, TotalsAgree
    <3>6. Credited(k)' = Amount(i) + Credited(k)
      BY <1>3, <3>2, <3>3, <3>4, <3>5
    <3> QED
      BY <1>7, <3>1, <3>6
  <2> QED
    BY <2>1, <2>2, <2>3
<1> QED
  BY <1>6 DEF CreditsFit

LEMMA CreditsStayFit ==
    ASSUME DocTyped, DocsSound, CreditsFit, Effect
    PROVE  CreditsFit'
<1> DEFINE Kept == \A k \in Invoice :
             /\ doc'[k].state = "issued" <=> doc[k].state = "issued"
             /\ doc[k].state = "issued" =>
                  /\ doc'[k].kind = doc[k].kind /\ doc'[k].source = doc[k].source
                  /\ doc'[k].quantity = doc[k].quantity
           Closed_ == \A k \in Invoice : doc[k].state = "issued" /\ doc'[k].voided =>
                        CreditsOf(k) = {} /\ doc'[k].deliveries = 0
<1>1. ASSUME Kept, Closed_ PROVE CreditsFit'
  <2>1. \A k \in Invoice : CreditsOf(k)' = CreditsOf(k) /\ Credited(k)' = Credited(k)
    BY <1>1, CreditsStay
  <2>3. \A k \in Invoice : doc[k].state = "issued" => Amount(k)' = Amount(k)
    BY <1>1, AmountIsTotal
  <2>2. ASSUME NEW k \in Invoice, doc'[k].state = "issued"
        PROVE  /\ (Credited(k) <= Amount(k))'
               /\ (doc[k].voided => CreditsOf(k) = {} /\ doc[k].deliveries = 0)'
    BY <1>1, <2>1, <2>2, <2>3 DEF CreditsFit
  <2> QED
    BY <2>2 DEF CreditsFit
<1>2. CASE doc' = doc
  <2>1. Kept /\ Closed_
    BY <1>2 DEF CreditsFit
  <2> QED
    BY <1>1, <2>1
<1>3. ASSUME NEW i \in Invoice, NEW d \in Document, doc' = [doc EXCEPT ![i] = d],
             Edits(i, d)
      PROVE  CreditsFit'
  <2>1. /\ doc'[i].state # "issued" /\ doc[i].state # "issued"
        /\ \A k \in Invoice \ {i} : doc'[k] = doc[k]
    BY <1>3 DEF Edits, DocTyped
  <2>2. Kept /\ Closed_
    BY <2>1 DEF CreditsFit
  <2> QED
    BY <1>1, <2>2
<1>4. ASSUME NEW i \in Invoice, NEW d \in Document, doc' = [doc EXCEPT ![i] = d],
             Closes(i, d)
      PROVE  CreditsFit'
  <2>1. /\ doc'[i] = d /\ doc[i].state = "issued" /\ ~doc[i].voided
        /\ \A k \in Invoice \ {i} : doc'[k] = doc[k]
        /\ d.state = "issued" /\ d.kind = doc[i].kind /\ d.source = doc[i].source
        /\ d.quantity = doc[i].quantity
        /\ d.voided => CreditsOf(i) = {} /\ d.deliveries = 0
    BY <1>4 DEF Closes, IsValid, DocTyped, Document
  <2>2. Kept /\ Closed_
    BY <2>1 DEF CreditsFit
  <2> QED
    BY <1>1, <2>2
<1>5. ASSUME NEW i \in Invoice, NEW d \in Document, doc' = [doc EXCEPT ![i] = d],
             Issues(i, d)
      PROVE  CreditsFit'
  BY <1>5, IssueKeepsCredits
<1> QED
  BY <1>2, <1>3, <1>4, <1>5 DEF Effect

-----------------------------------------------------------------------------
(* Mails are recorded, or known to be undone. *)

Delivering(i) == \E s \in Session : request[s].op = "delivered" /\ request[s].invoice = i

MailsCounted ==
    /\ mailed \in [Invoice -> Nat] /\ undone \subseteq Invoice
    /\ \A i \in Invoice :
          /\ mailed[i] <= MaxMails
          /\ doc[i].state # "issued" => mailed[i] = 0
          /\ doc[i].deliveries + (IF Delivering(i) THEN 1 ELSE 0) <= mailed[i]
          /\ mailed[i] > 0 /\ doc[i].deliveries = 0 => i \in undone \/ Delivering(i)

LEMMA MailsStay ==
    ASSUME DocTyped, DocsSound, MailsCounted, Effect, UNCHANGED mails,
           \A s \in Session :
              /\ request'[s].op = "delivered" <=> request[s].op = "delivered"
              /\ request[s].op = "delivered" => request'[s].invoice = request[s].invoice
    PROVE  MailsCounted'
<1>1. mailed' = mailed /\ undone' = undone
  BY DEF mails
<1>2. \A i \in Invoice : Delivering(i)' <=> Delivering(i)
  BY DEF Delivering
<1>3. \A i \in Invoice : doc[i].deliveries \in Nat /\ mailed[i] \in Nat
  BY DEF DocTyped, Document, MailsCounted
<1>4. ASSUME NEW k \in Invoice
      PROVE  /\ doc'[k].deliveries = doc[k].deliveries
             /\ doc'[k].state # "issued" => doc[k].state # "issued"
  <2>1. CASE doc' = doc
    BY <2>1
  <2>2. ASSUME NEW i \in Invoice, NEW d \in Document, doc' = [doc EXCEPT ![i] = d],
               Edits(i, d) \/ Issues(i, d) \/ Closes(i, d)
        PROVE  /\ doc'[k].deliveries = doc[k].deliveries
               /\ doc'[k].state # "issued" => doc[k].state # "issued"
    <3>1. doc'[i] = d /\ (k # i => doc'[k] = doc[k])
      BY <2>2 DEF DocTyped
    <3>2. CASE Edits(i, d)
      <4>1. doc[i].deliveries = 0 /\ d.deliveries = 0
        <5>1. mailed[i] = 0 /\ d.deliveries \in Nat /\ d.deliveries <= doc[i].deliveries
          BY <3>2 DEF Edits, MailsCounted, Document
        <5>2. doc[i].deliveries + (IF Delivering(i) THEN 1 ELSE 0) <= 0
          BY <5>1 DEF MailsCounted
        <5>3. (IF Delivering(i) THEN 1 ELSE 0) \in {0, 1}
          OBVIOUS
        <5> DEFINE one == IF Delivering(i) THEN 1 ELSE 0
        <5> HIDE DEF one
        <5>4. one \in {0, 1} /\ doc[i].deliveries + one <= 0
          BY <5>2, <5>3 DEF one
        <5> QED
          BY <1>3, <5>1, <5>4
      <4> QED
        BY <3>1, <3>2, <4>1 DEF Edits
    <3>3. CASE Issues(i, d)
      BY <3>1, <3>3 DEF Issues
    <3>4. CASE Closes(i, d)
      <4>1. d = [doc[i] EXCEPT !.voided = TRUE] /\ doc[i].state = "issued"
        BY <3>4 DEF Closes, IsValid
      <4>2. d.deliveries = doc[i].deliveries /\ d.state = "issued"
        BY <4>1 DEF DocTyped, Document
      <4> QED
        BY <3>1, <4>2
    <3> QED
      BY <2>2, <3>2, <3>3, <3>4
  <2> QED
    BY <2>1, <2>2 DEF Effect
<1> QED
  BY <1>1, <1>2, <1>4 DEF MailsCounted

LEMMA BeginKeepsMails ==
    ASSUME SessionTyped, NEW s \in Session, NEW op, NEW i, NEW k, NEW plan,
           Begin(s, op, i, k, plan), op # "delivered"
    PROVE  /\ UNCHANGED mails
           /\ \A t \in Session :
                /\ request'[t].op = "delivered" <=> request[t].op = "delivered"
                /\ request[t].op = "delivered" => request'[t].invoice = request[t].invoice
<1>1. /\ request[s] = Idle /\ request' = [request EXCEPT ![s] = [op |-> op, invoice |-> i, item |-> k]]
      /\ UNCHANGED mails
  BY DEF Begin
<1>2. /\ request'[s].op = op /\ request[s].op = "none"
      /\ \A t \in Session \ {s} : request'[t] = request[t]
  BY <1>1 DEF SessionTyped, Idle
<1> QED
  BY <1>1, <1>2

LEMMA CommitKeepsMails ==
    ASSUME SessionTyped, NEW s \in Session, NEW op, Commit(s, op), op # "delivered"
    PROVE  /\ UNCHANGED mails
           /\ \A t \in Session :
                /\ request'[t].op = "delivered" <=> request[t].op = "delivered"
                /\ request[t].op = "delivered" => request'[t].invoice = request[t].invoice
<1>1. /\ request[s].op = op /\ request' = [request EXCEPT ![s] = Idle]
      /\ UNCHANGED mails
  BY DEF Commit, End
<1>2. /\ request'[s].op = "none"
      /\ \A t \in Session \ {s} : request'[t] = request[t]
  BY <1>1 DEF SessionTyped, Idle
<1> QED
  BY <1>1, <1>2

LEMMA AbortKeepsMails ==
    ASSUME Inv, MailsCounted, NEW s \in Session, Abort(s)
    PROVE  MailsCounted'
<1>1. /\ UNCHANGED <<doc, mailed>> /\ request' = [request EXCEPT ![s] = Idle]
      /\ undone' = IF request[s].op = "delivered" THEN undone \cup {request[s].invoice}
                   ELSE undone
  BY DEF Abort, End, rows
<1>2. /\ request'[s].op = "none"
      /\ \A t \in Session \ {s} : request'[t] = request[t]
      /\ request[s].op = "delivered" => request[s].invoice \in Invoice
  BY <1>1 DEF Inv, SessionTyped, Idle, RequestsHold, RequestHolds
<1>3. ASSUME NEW i \in Invoice
      PROVE  /\ Delivering(i)' => Delivering(i)
             /\ Delivering(i) => Delivering(i)' \/ i \in undone'
             /\ undone \subseteq undone' /\ undone' \subseteq Invoice
  <2>1. Delivering(i)' => Delivering(i)
    BY <1>2 DEF Delivering
  <2>2. Delivering(i) => Delivering(i)' \/ i \in undone'
    BY <1>1, <1>2 DEF Delivering
  <2> QED
    BY <1>1, <1>2, <2>1, <2>2 DEF MailsCounted
<1>4. ASSUME NEW i \in Invoice
      PROVE  doc[i].deliveries + (IF Delivering(i)' THEN 1 ELSE 0) <= mailed[i]
  <2> DEFINE was == IF Delivering(i) THEN 1 ELSE 0
             is == IF Delivering(i)' THEN 1 ELSE 0
  <2>1. doc[i].deliveries \in Nat /\ mailed[i] \in Nat /\ doc[i].deliveries + was <= mailed[i]
    BY DEF Inv, DocTyped, Document, MailsCounted
  <2>2. was \in {0, 1} /\ is \in {0, 1} /\ is <= was
    BY <1>3
  <2> HIDE DEF was, is
  <2>3. doc[i].deliveries + is <= mailed[i]
    BY <2>1, <2>2
  <2> QED
    BY <2>3 DEF is
<1>5. undone' \subseteq Invoice
  BY <1>1, <1>2 DEF MailsCounted
<1>6. ASSUME NEW i \in Invoice
      PROVE  /\ mailed'[i] <= MaxMails
             /\ doc'[i].state # "issued" => mailed'[i] = 0
             /\ doc'[i].deliveries + (IF Delivering(i)' THEN 1 ELSE 0) <= mailed'[i]
             /\ mailed'[i] > 0 /\ doc'[i].deliveries = 0 => i \in undone' \/ Delivering(i)'
  <2>1. mailed'[i] <= MaxMails /\ (doc'[i].state # "issued" => mailed'[i] = 0)
    BY <1>1 DEF MailsCounted
  <2>2. mailed'[i] > 0 /\ doc'[i].deliveries = 0 => i \in undone' \/ Delivering(i)'
    BY <1>1, <1>3 DEF MailsCounted
  <2> QED
    BY <1>1, <1>4, <2>1, <2>2
<1> QED
  BY <1>1, <1>5, <1>6 DEF MailsCounted

\* No other request is about to record a mail of an invoice that s has locked.
LEMMA DeliversAlone ==
    ASSUME Inv, NEW s \in Session, NEW i \in Invoice, Of(i) \in held[s],
           NEW t \in Session, request[t].op = "delivered", request[t].invoice = i
    PROVE  t = s
  BY DEF Inv, RequestsHold, RequestHolds, LocksExclude

LEMMA MailKeepsMails ==
    ASSUME Inv, MailsCounted, NEW s \in Session, Mail(s)
    PROVE  MailsCounted'
<1> DEFINE j == request[s].invoice
<1>1. /\ UNCHANGED <<doc, undone>> /\ request[s].op = "deliver" /\ mailed[j] < MaxMails
      /\ request' = [request EXCEPT ![s] = [request[s] EXCEPT !.op = "delivered"]]
      /\ mailed' = [mailed EXCEPT ![j] = mailed[j] + 1]
  BY DEF Mail, rows
<1>2. /\ j \in Invoice /\ Of(j) \in held[s] /\ doc[j].state = "issued"
      /\ request'[s].op = "delivered" /\ request'[s].invoice = j
      /\ \A t \in Session \ {s} : request'[t] = request[t]
  BY <1>1 DEF Inv, SessionTyped, RequestsHold, RequestHolds, IssuedOps, IsValid
<1>3. MaxMails \in Nat /\ mailed \in [Invoice -> Nat] /\ mailed[j] \in Nat
  BY <1>2, BoundAssumption DEF MailsCounted
<1>4. /\ mailed'[j] = mailed[j] + 1 /\ \A i \in Invoice \ {j} : mailed'[i] = mailed[i]
      /\ mailed' \in [Invoice -> Nat]
  BY <1>1, <1>2, <1>3
<1>5. ~Delivering(j) /\ Delivering(j)'
  BY <1>1, <1>2, DeliversAlone DEF Delivering
<1>6. \A i \in Invoice \ {j} : Delivering(i)' <=> Delivering(i)
  BY <1>1, <1>2 DEF Delivering
<1>7. ASSUME NEW i \in Invoice
      PROVE  /\ mailed'[i] <= MaxMails
             /\ doc'[i].state # "issued" => mailed'[i] = 0
             /\ doc'[i].deliveries + (IF Delivering(i)' THEN 1 ELSE 0) <= mailed'[i]
             /\ mailed'[i] > 0 /\ doc'[i].deliveries = 0 => i \in undone' \/ Delivering(i)'
  <2>1. CASE i = j
    <3>1. doc[j].deliveries \in Nat /\ doc[j].deliveries + 0 <= mailed[j]
      BY <1>2, <1>5 DEF Inv, DocTyped, Document, MailsCounted
    <3>2. doc[j].deliveries + 1 <= mailed'[j] /\ mailed'[j] <= MaxMails
      BY <1>1, <1>3, <1>4, <3>1
    <3> QED
      BY <1>1, <1>2, <1>5, <2>1, <3>2
  <2>2. CASE i # j
    BY <1>1, <1>4, <1>6, <2>2 DEF MailsCounted
  <2> QED
    BY <2>1, <2>2
<1> QED
  BY <1>1, <1>4, <1>7 DEF MailsCounted

LEMMA RecordKeepsMails ==
    ASSUME Inv, MailsCounted, NEW s \in Session, RecordDelivery(s)
    PROVE  MailsCounted'
<1>0. PICK j \in Invoice : j = request[s].invoice
  BY DEF RecordDelivery, Commit, Inv, RequestsHold, RequestHolds
<1>1. /\ UNCHANGED <<mailed, undone>> /\ request[s].op = "delivered"
      /\ request' = [request EXCEPT ![s] = Idle]
      /\ doc' = [doc EXCEPT ![j] = [doc[j] EXCEPT !.deliveries = doc[j].deliveries + 1]]
  BY <1>0 DEF RecordDelivery, Commit, End, mails
<1>2. /\ j \in Invoice /\ Of(j) \in held[s] /\ doc[j].state = "issued"
      /\ doc[j].deliveries \in Nat
      /\ request'[s].op = "none" /\ \A t \in Session \ {s} : request'[t] = request[t]
  BY <1>0, <1>1 DEF Inv, SessionTyped, RequestsHold, RequestHolds, IsValid, Idle, DocTyped, Document
<1>3. /\ doc'[j].deliveries = doc[j].deliveries + 1 /\ doc'[j].state = doc[j].state
      /\ \A i \in Invoice \ {j} : doc'[i] = doc[i]
  BY <1>1, <1>2 DEF Inv, DocTyped, Document
<1>4. Delivering(j) /\ ~Delivering(j)'
  <2>1. \A t \in Session : request[t].op = "delivered" /\ request[t].invoice = j => t = s
    BY <1>2, DeliversAlone
  <2> QED
    BY <1>0, <1>1, <1>2, <2>1 DEF Delivering
<1>5. \A i \in Invoice \ {j} : Delivering(i)' <=> Delivering(i)
  BY <1>0, <1>1, <1>2 DEF Delivering
<1>6. ASSUME NEW i \in Invoice
      PROVE  /\ mailed'[i] <= MaxMails
             /\ doc'[i].state # "issued" => mailed'[i] = 0
             /\ doc'[i].deliveries + (IF Delivering(i)' THEN 1 ELSE 0) <= mailed'[i]
             /\ mailed'[i] > 0 /\ doc'[i].deliveries = 0 => i \in undone' \/ Delivering(i)'
  <2>1. CASE i = j
    <3>1. doc[j].deliveries + 1 <= mailed[j] /\ mailed[j] <= MaxMails /\ mailed[j] \in Nat
      BY <1>2, <1>4 DEF MailsCounted
    <3>2. doc'[j].deliveries + 0 <= mailed'[j] /\ doc'[j].deliveries # 0
      BY <1>1, <1>2, <1>3, <3>1
    <3>3. mailed'[j] <= MaxMails /\ doc'[j].state = "issued"
      BY <1>1, <1>2, <1>3, <3>1
    <3> QED
      BY <1>4, <2>1, <3>2, <3>3
  <2>2. CASE i # j
    BY <1>1, <1>3, <1>5, <2>2 DEF MailsCounted
  <2> QED
    BY <2>1, <2>2
<1> QED
  BY <1>1, <1>6 DEF MailsCounted

-----------------------------------------------------------------------------
(* The bounds of the counters and of the schedule. *)

ShortTerms == [from : Period, source : 1..MaxSource]
ScheduleBounded ==
    /\ contract \in 1..MaxSource
    /\ schedule.terms \in Seq(ShortTerms) /\ Len(schedule.terms) <= MaxTerms

LEMMA InForceBounded ==
    ASSUME ScheduleBounded, NEW p
    PROVE  InForce(p) \in 0..MaxTerms
<1>1. Len(schedule.terms) \in Nat /\ MaxTerms \in Nat /\ Len(schedule.terms) <= MaxTerms
  BY BoundAssumption DEF ScheduleBounded
<1> DEFINE T == {0} \cup {v \in DOMAIN schedule.terms : schedule.terms[v].from <= p}
<1>2. DOMAIN schedule.terms = 1..Len(schedule.terms)
  BY DEF ScheduleBounded
<1>3. T \in SUBSET (0..MaxTerms) /\ T # {}
  BY <1>1, <1>2
<1> HIDE DEF T
<1>4. Max(T) \in T
  BY <1>1, <1>3, MaxIsGreatest
<1> QED
  BY <1>3, <1>4 DEF T, InForce

LEMMA CountersStayBounded ==
    ASSUME Inv, CountersBounded, NEW s \in Session, Step(s)
    PROVE  CountersBounded'
<1> USE DEF Commit
<1>1. ASSUME numbers'.series = numbers.series PROVE CountersBounded'
  BY <1>1 DEF CountersBounded
<1>2. CASE IssueInvoice(s)
  <2> DEFINE i == request[s].invoice
             r == SeriesOf(numbers.setting, doc[i].kind)
             counter == Counter(r, doc[i].period)
  <2>1. /\ r \in Series /\ counter \in [period : 0..MaxPeriod, next : Nat]
        /\ numbers' = [numbers EXCEPT !.series =
             [numbers.series EXCEPT ![r] = [counter EXCEPT !.next = @ + 1]]]
    <3> HIDE DEF Commit
    <3> QED
      BY <1>2, IssueWrites
  <2>2. counter.next <= MaxSequence /\ MaxSequence \in Nat
    BY <1>2, BoundAssumption DEF IssueInvoice
  <2>3. counter.next \in Nat
    BY <2>1
  <2>4. numbers'.series[r].next = counter.next + 1
        /\ \A q \in Series \ {r} : numbers'.series[q] = numbers.series[q]
    BY <2>1 DEF Inv, NumbersTyped, Counters
  <2> HIDE DEF counter, r
  <2>5. counter.next + 1 \in 1..MaxSequence + 1
    BY <2>2, <2>3
  <2> QED
    BY <2>4, <2>5 DEF CountersBounded
<1>3. CASE ConfigureIssueSettings(s)
  <2>1. numbers'.series = numbers.series
    BY <1>3 DEF ConfigureIssueSettings, Inv, NumbersTyped
  <2> QED
    BY <1>1, <2>1
<1>4. CASE \/ \E q \in 1..MaxQuantity : CreateLine(s, q)
           \/ \E q \in 0..MaxQuantity : ChangeLine(s, q)
           \/ \E p \in Period : Redate(s, p)
           \/ DeleteInvoice(s) \/ WithdrawRecurringDraft(s)
           \/ \E i \in Invoice, p \in Period : CreateInvoiceFromIssued(s, i, p)
           \/ VoidInvoice(s) \/ RecordDelivery(s)
  <2>1. UNCHANGED numbers
    BY <1>4, Writes
  <2> QED
    BY <1>1, <2>1
<1>5. CASE \/ \E i \in Invoice, op \in DraftOps, k \in Item \cup {None} :
                 BeginOnDraft(s, op, i, k)
           \/ \E i \in Invoice, op \in IssuedOps : BeginOnIssued(s, op, i)
           \/ \E op \in OtherOps, k \in Item \cup {None} : BeginOther(s, op, k)
           \/ Lock(s) \/ Abort(s) \/ Mail(s)
  <2>1. UNCHANGED rows
    BY <1>5 DEF BeginOnDraft, BeginOnIssued, BeginOther, Begin, Lock, Abort, Mail
  <2> QED
    BY <1>1, <2>1 DEF rows
<1>6. CASE \/ \E p \in Period : Enroll(s, p) \/ AmendTerms(s, p)
           \/ \E i \in Invoice, p \in Period : GenerateRecurringDraft(s, i, p)
           \/ ReceiveStock(s) \/ ArchiveStockItem(s) \/ UpdateCost(s) \/ StopSchedule(s)
  <2>1. UNCHANGED numbers
    BY <1>6, Zenon DEF Enroll, AmendTerms, GenerateRecurringDraft, ReceiveStock,
       ArchiveStockItem, UpdateCost, StopSchedule
  <2> QED
    BY <1>1, <2>1
<1> QED
  BY <1>2, <1>3, <1>4, <1>5, <1>6, Zenon DEF Step

LEMMA ScheduleStaysBounded ==
    ASSUME Inv, ScheduleBounded, NEW s \in Session, Step(s)
    PROVE  ScheduleBounded'
<1> USE DEF Commit
<1>0. /\ MaxSource \in Nat /\ MaxTerms \in Nat /\ MaxTerms > 0
      /\ schedule \in [enabled : BOOLEAN, terms : Seq(Terms), claims : [Period -> Claim]]
  BY BoundAssumption DEF Inv, ScheduleTyped
<1>1. ASSUME contract' = contract, schedule'.terms = schedule.terms PROVE ScheduleBounded'
  BY <1>1 DEF ScheduleBounded
<1>2. ASSUME NEW p \in Period, Enroll(s, p) PROVE ScheduleBounded'
  <2> DEFINE terms == [from |-> p, source |-> contract]
  <2>1. contract' = contract
        /\ schedule' = [schedule EXCEPT !.enabled = TRUE, !.terms = <<terms>>]
    BY <1>2 DEF Enroll
  <2>2. schedule'.terms = <<terms>> /\ terms \in ShortTerms
    BY <1>0, <2>1 DEF ScheduleBounded, ShortTerms
  <2> HIDE DEF terms
  <2>3. <<terms>> \in Seq(ShortTerms) /\ Len(<<terms>>) = 1
    BY <2>2
  <2>4. Len(<<terms>>) <= MaxTerms
    BY <1>0, <2>3
  <2> QED
    BY <2>1, <2>2, <2>3, <2>4 DEF ScheduleBounded
<1>3. ASSUME NEW p \in Period, AmendTerms(s, p) PROVE ScheduleBounded'
  <2> DEFINE terms == [from |-> p, source |-> contract]
  <2>1. contract' = contract /\ Len(schedule.terms) < MaxTerms
        /\ schedule' = [schedule EXCEPT !.terms = Append(schedule.terms, terms)]
    BY <1>3 DEF AmendTerms
  <2>2. schedule'.terms = Append(schedule.terms, terms) /\ terms \in ShortTerms
    BY <1>0, <2>1 DEF ScheduleBounded, ShortTerms
  <2> HIDE DEF terms
  <2>3. /\ schedule.terms \in Seq(ShortTerms)
        /\ Append(schedule.terms, terms) \in Seq(ShortTerms)
        /\ Len(Append(schedule.terms, terms)) = Len(schedule.terms) + 1
    BY <2>2 DEF ScheduleBounded
  <2>4. Len(Append(schedule.terms, terms)) <= MaxTerms
    <3>1. Len(schedule.terms) \in Nat
      BY <2>3
    <3> QED
      BY <1>0, <2>1, <2>3, <3>1
  <2> QED
    BY <2>1, <2>2, <2>3, <2>4 DEF ScheduleBounded
<1>4. ASSUME NEW i \in Invoice, NEW p \in Period, GenerateRecurringDraft(s, i, p)
      PROVE  ScheduleBounded'
  <2>1. /\ contract' = contract
        /\ schedule' = [schedule EXCEPT !.claims =
             [schedule.claims EXCEPT ![p] = [invoice |-> i, version |-> InForce(p)]]]
    BY <1>4 DEF GenerateRecurringDraft
  <2>2. schedule'.terms = schedule.terms
    BY <1>0, <2>1
  <2> QED
    BY <1>1, <2>1, <2>2
<1>5. CASE StopSchedule(s)
  <2>1. contract' = contract /\ schedule'.terms = schedule.terms
    BY <1>0, <1>5 DEF StopSchedule
  <2> QED
    BY <1>1, <2>1
<1>6. CASE UpdateCost(s)
  <2>1. contract' = contract + 1 /\ contract < MaxSource /\ schedule' = schedule
    BY <1>6 DEF UpdateCost
  <2>2. contract' \in 1..MaxSource
    BY <1>0, <2>1 DEF ScheduleBounded
  <2> QED
    BY <2>1, <2>2 DEF ScheduleBounded
<1>7. CASE \/ \E q \in 1..MaxQuantity : CreateLine(s, q)
           \/ \E q \in 0..MaxQuantity : ChangeLine(s, q)
           \/ \E p \in Period : Redate(s, p)
           \/ DeleteInvoice(s) \/ WithdrawRecurringDraft(s)
           \/ \E i \in Invoice, p \in Period : CreateInvoiceFromIssued(s, i, p)
           \/ VoidInvoice(s) \/ RecordDelivery(s)
  <2>1. UNCHANGED <<contract, schedule>>
    BY <1>7, Writes
  <2> QED
    BY <1>1, <2>1
<1>8. CASE \/ \E i \in Invoice, op \in DraftOps, k \in Item \cup {None} :
                 BeginOnDraft(s, op, i, k)
           \/ \E i \in Invoice, op \in IssuedOps : BeginOnIssued(s, op, i)
           \/ \E op \in OtherOps, k \in Item \cup {None} : BeginOther(s, op, k)
           \/ Lock(s) \/ Abort(s) \/ Mail(s)
  <2>1. UNCHANGED rows
    BY <1>8 DEF BeginOnDraft, BeginOnIssued, BeginOther, Begin, Lock, Abort, Mail
  <2> QED
    BY <1>1, <2>1 DEF rows
<1>9. CASE ReceiveStock(s) \/ ArchiveStockItem(s) \/ IssueInvoice(s)
           \/ ConfigureIssueSettings(s)
  <2>1. UNCHANGED <<contract, schedule>>
    BY <1>9, Zenon DEF ReceiveStock, ArchiveStockItem, IssueInvoice, ConfigureIssueSettings
  <2> QED
    BY <1>1, <2>1
<1> QED
  BY <1>2, <1>3, <1>4, <1>5, <1>6, <1>7, <1>8, <1>9, Zenon DEF Step

-----------------------------------------------------------------------------
(* What a credit note corrects. *)

\* A request that issues a credit note has still to lock what was issued.
SourcesIssued ==
    \A s \in Session : request[s].op = "issue" =>
        \A j \in Invoice : Of(j) \in ToLock(s) => doc[j].state = "issued"

LEMMA SourcesStay ==
    ASSUME DocTyped, Effect, SourcesIssued,
           \A t \in Session : request'[t].op = "issue" =>
               request[t].op = "issue" /\ ToLock(t)' \subseteq ToLock(t)
    PROVE  SourcesIssued'
<1> SUFFICES ASSUME NEW s \in Session, request'[s].op = "issue",
                    NEW j \in Invoice, Of(j) \in ToLock(s)'
             PROVE  doc'[j].state = "issued"
  BY DEF SourcesIssued, Of
<1>1. doc[j].state = "issued"
  BY DEF SourcesIssued
<1> QED
  BY <1>1, IssuedStay

\* Until a request commits it has only the rows of its plan to lock.
LEMMA BeginKeepsSources ==
    ASSUME SessionTyped, DocTyped, Effect, SourcesIssued, NEW s \in Session,
           NEW op, NEW i, NEW k, NEW plan, Begin(s, op, i, k, plan),
           op = "issue" =>
             \A j \in Invoice : Of(j) \in Elements(Tail(plan)) => doc[j].state = "issued"
    PROVE  SourcesIssued'
<1>1. /\ request'[s].op = op /\ ToLock(s)' = Elements(Tail(plan)) /\ doc' = doc
      /\ \A t \in Session \ {s} : request'[t] = request[t] /\ todo'[t] = todo[t]
  BY DEF Begin, SessionTyped, ToLock, rows
<1>2. ASSUME NEW t \in Session, request'[t].op = "issue",
             NEW j \in Invoice, Of(j) \in ToLock(t)'
      PROVE  doc'[j].state = "issued"
  <2>1. CASE t = s
    BY <1>1, <1>2, <2>1
  <2>2. CASE t # s
    BY <1>1, <1>2, <2>2 DEF SourcesIssued, ToLock
  <2> QED
    BY <2>1, <2>2
<1> QED
  BY <1>2 DEF SourcesIssued, Of

LEMMA IssuePlan ==
    ASSUME DocTyped, DocsSound, NEW i \in Invoice, NEW k, NEW j \in Invoice,
           Of(j) \in Elements(Tail(Plan("issue", i, k)))
    PROVE  doc[j].state = "issued"
<1> DEFINE credited == IF doc[i].kind = "credit" THEN <<Of(doc[i].source)>> ELSE <<>>
           tail == <<Tenant, Client, Numbers>>
<1>1. doc[i].kind = "credit" => doc[i].source \in Invoice /\ doc[doc[i].source].state = "issued"
  BY DEF DocsSound, Sound
<1>2. Plan("issue", i, k) = <<Of(i), Tenant, Client, Numbers>> \o credited
  BY DEF Plan
<1>3. credited \in Seq(Lockable) /\ Elements(credited) \subseteq
        {Of(l) : l \in {l \in Invoice : doc[l].state = "issued"}}
  <2>1. CASE doc[i].kind = "credit"
    BY <1>1, <2>1, Rows, OneRow
  <2>2. CASE doc[i].kind # "credit"
    <3>1. credited = <<>> /\ Elements(<<>>) = {}
      BY <2>2 DEF Elements
    <3> QED
      BY <3>1
  <2> QED
    BY <2>1, <2>2
<1>4. tail \in Seq(Lockable) /\ Elements(tail) = {Tenant, Client, Numbers}
  <2>1. tail \in Seq(Lockable)
    BY Rows
  <2>2. DOMAIN tail = {1, 2, 3} /\ tail[1] = Tenant /\ tail[2] = Client /\ tail[3] = Numbers
    OBVIOUS
  <2> HIDE DEF tail
  <2> QED
    BY <2>1, <2>2 DEF Elements
<1> HIDE DEF credited
<1>5. Tail(Plan("issue", i, k)) = tail \o credited
  <2>1. Of(i) \in Lockable /\ Tenant \in Lockable /\ Client \in Lockable /\ Numbers \in Lockable
    BY Rows
  <2> QED
    BY <1>2, <1>3, <2>1
<1> HIDE DEF tail
<1>6. Of(j) \in Elements(tail) \cup Elements(credited)
  BY <1>3, <1>4, <1>5, JoinedElements
<1>7. Of(j) \notin {Tenant, Client, Numbers}
  BY RowsDiffer
<1> QED
  BY <1>3, <1>4, <1>6, <1>7, RowsDiffer

-----------------------------------------------------------------------------
(* All of it is kept. *)

Ledger == /\ LocksInOrder /\ DocsSound /\ StockHolds /\ CreditsFit /\ MailsCounted
          /\ CountersBounded /\ ScheduleBounded /\ SourcesIssued

LEMMA TotalOfZeros ==
    ASSUME NEW v, \A i \in Invoice : v[i] = 0
    PROVE  Total(v, Invoice) = 0
<1> DEFINE G == {T \in SUBSET Invoice : Total(v, T) = 0}
<1>1. ASSUME NEW T \in SUBSET Invoice, \A U \in SUBSET T : U # T => U \in G
      PROVE  T \in G
  <2>1. IsFiniteSet(T)
    BY InvoiceAssumption, FS_Subset
  <2>2. CASE T = {}
    BY <2>2, TotalOfNone
  <2>3. CASE T # {}
    <3>1. PICK x \in T : TRUE
      BY <2>3
    <3>2. T \ {x} \in SUBSET T /\ T \ {x} # T
      BY <3>1
    <3>3. Total(v, T \ {x}) = 0
      BY <1>1, <3>2
    <3>4. Total(v, T) = v[x] + Total(v, T \ {x})
      BY <2>1, <3>1, TotalOfOne
    <3> QED
      BY <3>1, <3>3, <3>4
  <2> QED
    BY <2>2, <2>3
<1> HIDE DEF G
<1>2. SUBSET Invoice \subseteq G
  BY <1>1, InvoiceAssumption, SubsetInduction
<1> QED
  BY <1>2 DEF G

LEMMA InitLedger == Init => Ledger
<1> SUFFICES ASSUME Init PROVE Ledger
  OBVIOUS
<1> USE DEF Init
<1>1. /\ MaxSequence \in Nat /\ MaxStock \in Nat /\ MaxMails \in Nat
      /\ MaxSource \in Nat /\ MaxSource > 0 /\ MaxTerms \in Nat
  BY BoundAssumption
<1>2. \A i \in Invoice : doc[i] = Absent
  OBVIOUS
<1>3. LocksInOrder /\ SourcesIssued
  <2>1. ASSUME NEW s \in Session PROVE SessionInOrder(s) /\ request[s].op # "issue"
    <3>1. held[s] = {} /\ DOMAIN todo[s] = {} /\ ToLock(s) = {} /\ request[s].op = "none"
      BY DEF ToLock, Elements, Idle
    <3>2. Client \notin Referenced("none")
      BY RowsDiffer DEF Referenced
    <3> QED
      BY <3>1, <3>2 DEF SessionInOrder, EndsInOrder
  <2> QED
    BY <2>1 DEF LocksInOrder, SourcesIssued
<1>4. DocsSound
  BY <1>2, AbsentSound DEF DocsSound
<1>5. StockHolds
  <2>1. ASSUME NEW k \in Item PROVE ItemHolds(k)
    <3> DEFINE used == Used(doc, k)
    <3>1. \A i \in Invoice : used[i] = 0 /\ doc[i].used[k] = 0
      BY <1>2, AbsentSound DEF Used, Nothing
    <3> HIDE DEF used
    <3>2. Total(used, Invoice) = 0
      BY <3>1, TotalOfZeros
    <3>3. stock[k].onHand = 0 /\ stock[k].received = 0
      OBVIOUS
    <3> QED
      BY <1>1, <3>1, <3>2, <3>3 DEF ItemHolds, used
  <2>2. StockTyped
    BY DEF StockTyped, StockItem
  <2> QED
    BY <2>1, <2>2 DEF StockHolds
<1>6. CreditsFit
  BY <1>2, AbsentSound DEF CreditsFit
<1>7. MailsCounted
  <2>1. \A i \in Invoice : ~Delivering(i)
    BY DEF Delivering, Idle
  <2>2. \A i \in Invoice : doc[i].deliveries = 0 /\ mailed[i] = 0
    BY <1>2, AbsentSound
  <2>3. \A i \in Invoice : doc[i].deliveries + (IF Delivering(i) THEN 1 ELSE 0) <= mailed[i]
    BY <2>1, <2>2
  <2> QED
    BY <1>1, <2>2, <2>3 DEF MailsCounted
<1>8. CountersBounded
  BY <1>1 DEF CountersBounded
<1>9. ScheduleBounded
  <2>1. <<>> \in Seq(ShortTerms) /\ Len(<<>>) = 0
    OBVIOUS
  <2> QED
    BY <1>1, <2>1 DEF ScheduleBounded
<1> QED
  BY <1>3, <1>4, <1>5, <1>6, <1>7, <1>8, <1>9 DEF Ledger

\* What the documents, the stock, the counters and the schedule are.
LEMMA RowsStayLedger ==
    ASSUME Inv, Ledger, [Next]_vars
    PROVE  /\ Effect
           /\ DocsSound' /\ StockHolds' /\ CreditsFit'
           /\ CountersBounded' /\ ScheduleBounded'
<1>1. Effect
  BY StepEffect DEF Ledger, StockHolds
<1>2. DocsSound' /\ StockHolds' /\ CreditsFit'
  BY <1>1, SoundStays, StockStays, CreditsStayFit DEF Ledger, Inv
<1>3. CountersBounded /\ ScheduleBounded
  BY DEF Ledger
<1>4. ASSUME NEW s \in Session, Step(s) PROVE CountersBounded' /\ ScheduleBounded'
  BY <1>3, <1>4, CountersStayBounded, ScheduleStaysBounded
<1>5. ASSUME numbers' = numbers, contract' = contract, schedule' = schedule
      PROVE  CountersBounded' /\ ScheduleBounded'
  BY <1>3, <1>5 DEF CountersBounded, ScheduleBounded
<1>6. ASSUME UNCHANGED vars PROVE CountersBounded' /\ ScheduleBounded'
  <2>1. UNCHANGED rows
    BY <1>6 DEF vars
  <2>2. numbers' = numbers /\ contract' = contract /\ schedule' = schedule
    BY <2>1 DEF rows
  <2> QED
    BY <1>5, <2>2
<1>7. ASSUME NEW i \in Invoice, NEW p \in Period, CreateDraft(i, p)
      PROVE  CountersBounded' /\ ScheduleBounded'
  BY <1>5, <1>7 DEF CreateDraft
<1>8. CountersBounded' /\ ScheduleBounded'
  BY <1>4, <1>6, <1>7, Zenon DEF Next
<1> QED
  BY <1>1, <1>2, <1>8

LEMMA SessionsStayLedger ==
    ASSUME Inv, Ledger, [Next]_vars
    PROVE  LocksInOrder' /\ MailsCounted' /\ SourcesIssued'
<1> DEFINE Kept == \A t \in Session :
             /\ request'[t].op = "delivered" <=> request[t].op = "delivered"
             /\ request[t].op = "delivered" => request'[t].invoice = request[t].invoice
           Queued == \A t \in Session : request'[t].op = "issue" =>
                        request[t].op = "issue" /\ ToLock(t)' \subseteq ToLock(t)
           G == LocksInOrder' /\ MailsCounted' /\ SourcesIssued'
<1>1. Effect /\ DocTyped /\ SessionTyped /\ DocsSound /\ MailsCounted /\ LocksInOrder
      /\ SourcesIssued /\ ClaimsHold
  BY RowsStayLedger DEF Ledger, Inv
<1>2. ASSUME UNCHANGED session, UNCHANGED mails PROVE G
  <2>1. LocksInOrder'
    BY <1>1, <1>2 DEF session, LocksInOrder, SessionInOrder, Ahead, ToLock
  <2>2. MailsCounted'
    BY <1>1, <1>2, MailsStay DEF session
  <2>3. Queued
    BY <1>2 DEF session, ToLock
  <2> QED
    BY <1>1, <2>1, <2>2, <2>3, SourcesStay
<1>3. CASE UNCHANGED vars
  BY <1>2, <1>3 DEF vars
<1>4. ASSUME NEW s \in Session, NEW op \in Op, op # "delivered",
             NEW i, NEW k, NEW plan \in Seq(Lockable), plan # <<>>,
             Begin(s, op, i, k, plan),
             PlanInOrder([op |-> op, invoice |-> i, item |-> k], plan),
             op = "issue" =>
               \A j \in Invoice : Of(j) \in Elements(Tail(plan)) => doc[j].state = "issued"
      PROVE  G
  <2>1. LocksInOrder'
    BY <1>1, <1>4, BeginKeepsOrder
  <2>2. UNCHANGED mails /\ Kept
    BY <1>1, <1>4, BeginKeepsMails
  <2>3. MailsCounted'
    BY <1>1, <2>2, MailsStay
  <2>4. SourcesIssued'
    BY <1>1, <1>4, BeginKeepsSources
  <2> QED
    BY <2>1, <2>3, <2>4
<1>5. ASSUME NEW s \in Session, NEW i \in Invoice, NEW op \in DraftOps,
              NEW k \in Item \cup {None}, BeginOnDraft(s, op, i, k)
       PROVE  G
  <2>1. PICK plan \in Seq(Lockable) :
          plan # <<>> /\ Begin(s, op, i, k, plan) /\ plan \in Plans(op, i, k)
    BY DraftPlan, <1>5
  <2>2. op \in LineOps => k \in Item
    BY <1>5 DEF BeginOnDraft
  <2>3. PlanInOrder([op |-> op, invoice |-> i, item |-> k], plan)
    <3>1. CASE op = "delete"
      <4>1. plan \in DeletePlans(i)
        BY <2>1, <3>1 DEF Plans
      <4> QED
        BY <1>1, <3>1, <4>1, DeletePlansAreInOrder
    <3>2. CASE op # "delete"
      <4>1. plan = Plan(op, i, k)
        BY <2>1, <3>2 DEF Plans
      <4>2. doc[i].kind = "credit" => doc[i].source \in Invoice
        BY <1>1 DEF DocsSound, Sound
      <4> QED
        BY <1>1, <2>2, <3>2, <4>1, <4>2, PlansAreInOrder
    <3> QED
      BY <3>1, <3>2
  <2>4. op = "issue" =>
          \A j \in Invoice : Of(j) \in Elements(Tail(plan)) => doc[j].state = "issued"
    <3>1. op = "issue" => plan = Plan("issue", i, k)
      BY <2>1 DEF Plans
    <3> QED
      BY <1>1, <3>1, IssuePlan
  <2>5. op \in Op /\ op # "delivered"
    BY DEF Op, DraftOps, LineOps
  <2> QED
    BY <1>4, <2>1, <2>3, <2>4, <2>5
<1>6. ASSUME NEW s \in Session, NEW i \in Invoice, NEW op \in IssuedOps,
              BeginOnIssued(s, op, i)
       PROVE  G
  <2> DEFINE plan == Plan(op, i, None)
  <2>1. op \in Op /\ op \notin {"delivered", "issue", "delete"} /\ op \notin LineOps
    BY DEF Op, IssuedOps, LineOps
  <2>2. plan \in Seq(Lockable) /\ plan # <<>> /\ Begin(s, op, i, None, plan)
    BY <1>1, <1>6, <2>1, PlanShape DEF BeginOnIssued
  <2>3. PlanInOrder([op |-> op, invoice |-> i, item |-> None], plan)
    BY <1>1, <2>1, PlansAreInOrder DEF DocsSound, Sound
  <2> HIDE DEF plan
  <2> QED
    BY <1>4, <2>1, <2>2, <2>3
<1>7. ASSUME NEW s \in Session, NEW op \in OtherOps, NEW k \in Item \cup {None},
             BeginOther(s, op, k)
      PROVE  G
  <2> DEFINE plan == PlanOfOther(op, k)
  <2>1. plan \in Seq(Lockable) /\ plan # <<>>
    BY <1>1, OtherPlanShape
  <2>2. /\ Begin(s, op, None, k, plan)
        /\ op \in {"receive", "archive"} => k \in Item
        /\ op \in Op /\ op \notin {"delivered", "issue"}
    BY <1>7 DEF BeginOther, Op, OtherOps
  <2>3. PlanInOrder([op |-> op, invoice |-> None, item |-> k], plan)
    BY <1>1, <2>2, OtherPlansAreInOrder
  <2> HIDE DEF plan
  <2> QED
    BY <1>4, <2>1, <2>2, <2>3
<1>8. ASSUME NEW s \in Session, Lock(s) PROVE G
  <2>1. UNCHANGED <<request, mails>>
    BY <1>8 DEF Lock
  <2>2. MailsCounted'
    BY <1>1, <2>1, MailsStay
  <2>3. Queued
    <3>1. /\ todo[s] \in Seq(Lockable) /\ todo[s] # <<>> /\ todo'[s] = Tail(todo[s])
          /\ \A u \in Session \ {s} : todo'[u] = todo[u]
      BY <1>1, <1>8 DEF Lock, SessionTyped
    <3>2. ToLock(s)' \subseteq ToLock(s)
      BY <3>1, TailElements DEF ToLock
    <3> QED
      BY <2>1, <3>1, <3>2 DEF ToLock
  <2> QED
    BY <1>1, <1>8, <2>2, <2>3, LockKeepsOrder, SourcesStay
<1>9. ASSUME NEW s \in Session, End(s) PROVE Queued
  <2>1. /\ request'[s].op = "none"
        /\ \A u \in Session \ {s} : request'[u] = request[u] /\ todo'[u] = todo[u]
    BY <1>1, <1>9 DEF End, Idle, SessionTyped
  <2> QED
    BY <2>1 DEF ToLock
<1>10. ASSUME NEW s \in Session, Abort(s) PROVE G
  <2>1. LocksInOrder'
    BY <1>1, <1>10, EndKeepsOrder DEF Abort
  <2>2. Queued
    BY <1>1, <1>10, <1>9 DEF Abort
  <2> QED
    BY <1>1, <1>10, <2>1, <2>2, AbortKeepsMails, SourcesStay
<1>11. ASSUME NEW s \in Session, Mail(s) PROVE G
  <2>1. Queued
    <3>1. /\ request'[s].op = "delivered"
          /\ \A u \in Session \ {s} : request'[u] = request[u] /\ todo'[u] = todo[u]
      BY <1>1, <1>11 DEF Mail, SessionTyped, Request
    <3> QED
      BY <3>1 DEF ToLock
  <2> QED
    BY <1>1, <1>11, <2>1, MailKeepsOrder, MailKeepsMails, SourcesStay
<1>12. ASSUME NEW s \in Session, RecordDelivery(s) PROVE G
  <2>1. LocksInOrder'
    BY <1>1, <1>12, EndKeepsOrder DEF RecordDelivery, Commit
  <2>2. Queued
    BY <1>12, <1>9 DEF RecordDelivery, Commit
  <2> QED
    BY <1>1, <1>12, <2>1, <2>2, RecordKeepsMails, SourcesStay
<1>13. ASSUME NEW s \in Session, NEW op, op # "delivered", Commit(s, op) PROVE G
  <2>1. LocksInOrder'
    BY <1>1, <1>13, EndKeepsOrder DEF Commit
  <2>2. UNCHANGED mails /\ Kept
    BY <1>1, <1>13, CommitKeepsMails
  <2>3. Queued
    BY <1>13, <1>9 DEF Commit
  <2> QED
    BY <1>1, <2>1, <2>2, <2>3, MailsStay, SourcesStay
<1>14. ASSUME NEW s \in Session, Step(s) PROVE G
  <2>1. CASE \/ \E i \in Invoice, op \in DraftOps, k \in Item \cup {None} :
                   BeginOnDraft(s, op, i, k)
             \/ \E i \in Invoice, op \in IssuedOps : BeginOnIssued(s, op, i)
    BY <1>5, <1>6, <2>1
  <2>2. CASE \/ \E op \in OtherOps, k \in Item \cup {None} : BeginOther(s, op, k)
             \/ Lock(s) \/ Abort(s) \/ Mail(s) \/ RecordDelivery(s)
    BY <1>7, <1>8, <1>10, <1>11, <1>12, <2>2
  <2>3. CASE \/ \E q \in 1..MaxQuantity : CreateLine(s, q)
             \/ \E q \in 0..MaxQuantity : ChangeLine(s, q)
    <3>1. \E op \in LineOps : Commit(s, op)
      BY <2>3 DEF CreateLine, ChangeLine, LineOps
    <3> QED
      BY <1>13, <3>1 DEF LineOps
  <2>4. CASE \/ \E p \in Period : Redate(s, p) \/ Enroll(s, p) \/ AmendTerms(s, p)
             \/ DeleteInvoice(s) \/ WithdrawRecurringDraft(s)
             \/ IssueInvoice(s) \/ ConfigureIssueSettings(s) \/ VoidInvoice(s)
    <3>1. \E op \in {"redate", "enroll", "amend", "delete", "withdraw", "issue",
                     "configure", "void"} : Commit(s, op)
      BY <2>4, Zenon DEF Redate, Enroll, AmendTerms, DeleteInvoice, WithdrawRecurringDraft,
         IssueInvoice, ConfigureIssueSettings, VoidInvoice
    <3> QED
      BY <1>13, <3>1
  <2>5. CASE \/ \E i \in Invoice, p \in Period :
                   CreateInvoiceFromIssued(s, i, p) \/ GenerateRecurringDraft(s, i, p)
             \/ ReceiveStock(s) \/ ArchiveStockItem(s) \/ UpdateCost(s) \/ StopSchedule(s)
    <3>1. \E op \in {"follow_up", "generate", "receive", "archive", "edit_source",
                     "stop"} : Commit(s, op)
      BY <2>5, Zenon DEF CreateInvoiceFromIssued, GenerateRecurringDraft, ReceiveStock,
         ArchiveStockItem, UpdateCost, StopSchedule
    <3> QED
      BY <1>13, <3>1
  <2> QED
    BY <1>14, <2>1, <2>2, <2>3, <2>4, <2>5, Zenon DEF Step
<1>15. ASSUME NEW i \in Invoice, NEW p \in Period, CreateDraft(i, p) PROVE G
  BY <1>2, <1>15 DEF CreateDraft
<1> QED
  BY <1>3, <1>14, <1>15 DEF Next

LEMMA NextKeepsLedger ==
    ASSUME Inv, Ledger, [Next]_vars
    PROVE  Ledger'
  BY RowsStayLedger, SessionsStayLedger DEF Ledger

-----------------------------------------------------------------------------
(* Who waits for whom. *)

\* Requests r and q have locked X and Y and ask for each other's rows a and b.
Facing(r, a, X, q, b, Y) ==
    /\ r \in Request /\ q \in Request /\ X \cap Y = {}
    /\ a \in Y /\ MayAsk(r, a, X) /\ a # Tenant /\ ~AsksSource(r, a, X)
    /\ b \in X /\ MayAsk(q, b, Y) /\ b # Tenant /\ ~AsksSource(q, b, Y)

LEMMA FacingBoth ==
    ASSUME NEW r, NEW a, NEW X, NEW q, NEW b, NEW Y, Facing(r, a, X, q, b, Y)
    PROVE  Facing(q, b, Y, r, a, X)
  BY DEF Facing

\* A row that is neither the tenant's nor the client's belongs to a draft, or
\* is of another kind.
LEMMA FacingRows ==
    ASSUME NEW r, NEW a, NEW X, NEW q, NEW b, NEW Y, Facing(r, a, X, q, b, Y)
    PROVE  /\ r.invoice \in Invoice \cup {None} /\ r.item \in Item \cup {None}
           /\ q.invoice \in Invoice \cup {None} /\ q.item \in Item \cup {None}
           /\ a \notin X /\ b \notin Y /\ a \in Y /\ b \in X /\ X \cap Y = {}
           /\ \/ AsksWithTenant(r, a, X) \/ AsksInvoice(r, a, X) \/ AsksClient(r, a, X)
              \/ AsksStock(r, a, X) \/ AsksToDelete(r, a, X) \/ AsksClaim(r, a, X)
              \/ AsksSchedule(r, a, X)
  BY DEF Facing, MayAsk, Request

LEMMA TenantIsNotFaced ==
    ASSUME NEW r, NEW a, NEW X, NEW q, NEW b, NEW Y, Facing(r, a, X, q, b, Y),
           AsksWithTenant(r, a, X)
    PROVE  AsksInvoice(q, b, Y)
<1>1. /\ a \in {Client, Numbers} /\ Tenant \in X /\ X \subseteq {Of(r.invoice), Tenant, Client}
      /\ b \in {Of(r.invoice), Client} /\ (b = Client => a = Numbers)
  BY FacingRows DEF AsksWithTenant, Facing
<1>2. CASE AsksWithTenant(q, b, Y)
  BY <1>1, <1>2, FacingRows DEF AsksWithTenant
<1>3. CASE AsksClient(q, b, Y)
  BY <1>1, <1>3, FacingRows, RowsDiffer DEF AsksClient, ClaimRows
<1>4. CASE AsksStock(q, b, Y)
  BY <1>1, <1>4, FacingRows, RowsDiffer DEF AsksStock
<1>5. CASE AsksToDelete(q, b, Y)
  BY <1>1, <1>5, FacingRows, RowsDiffer DEF AsksToDelete, DraftRows
<1>6. CASE AsksClaim(q, b, Y) \/ AsksSchedule(q, b, Y)
  BY <1>1, <1>6, FacingRows, RowsDiffer DEF AsksClaim, AsksSchedule, ClaimRows
<1> QED
  BY <1>2, <1>3, <1>4, <1>5, <1>6, FacingBoth, FacingRows

LEMMA ClientIsNotFaced ==
    ASSUME NEW r, NEW a, NEW X, NEW q, NEW b, NEW Y, Facing(r, a, X, q, b, Y),
           AsksClient(r, a, X)
    PROVE  AsksInvoice(q, b, Y)
<1>1. /\ a = Client /\ Client \in Y /\ b # Client
      /\ \/ X \subseteq {LineOf(r.invoice, r.item)}
         \/ X \subseteq {Of(r.invoice), ClaimOf(r.invoice)}
         \/ X \subseteq {Contract, Schedule} \cup ClaimRows
  BY FacingRows DEF AsksClient
<1>2. CASE AsksWithTenant(q, b, Y)
  BY <1>1, <1>2, FacingRows, RowsDiffer DEF AsksWithTenant, ClaimRows
<1>3. CASE AsksClient(q, b, Y)
  BY <1>1, <1>3 DEF AsksClient
<1>4. CASE AsksStock(q, b, Y)
  BY <1>1, <1>4, FacingRows, RowsDiffer DEF AsksStock, ClaimRows
<1>5. CASE AsksToDelete(q, b, Y)
  BY <1>1, <1>5, FacingRows, RowsDiffer DEF AsksToDelete, DraftRows
<1>6. CASE AsksClaim(q, b, Y) \/ AsksSchedule(q, b, Y)
  BY <1>1, <1>6, FacingRows, RowsDiffer DEF AsksClaim, AsksSchedule
<1> QED
  BY <1>2, <1>3, <1>4, <1>5, <1>6, FacingBoth, FacingRows

LEMMA StockIsFaced ==
    ASSUME NEW r, NEW a, NEW X, NEW q, NEW b, NEW Y, Facing(r, a, X, q, b, Y),
           AsksStock(r, a, X)
    PROVE  \/ AsksInvoice(q, b, Y)
           \/ r.op \in LineOps /\ (\E k \in Item : a = Stock(k)) /\ q.op = "delete" /\ b = Client
<1>1. /\ r.op \in LineOps /\ a = Stock(r.item) /\ Of(r.invoice) \in X
      /\ X \subseteq {Of(r.invoice), Client, LineOf(r.invoice, r.item)}
      /\ b \in {Of(r.invoice), Client, LineOf(r.invoice, r.item)}
  BY FacingRows DEF AsksStock
<1>2. CASE AsksWithTenant(q, b, Y)
  BY <1>2, FacingBoth, TenantIsNotFaced, <1>1, FacingRows, RowsDiffer DEF AsksInvoice
<1>3. CASE AsksClient(q, b, Y)
  BY <1>3, FacingBoth, ClientIsNotFaced, <1>1, FacingRows, RowsDiffer DEF AsksInvoice
<1>4. CASE AsksStock(q, b, Y)
  BY <1>1, <1>4, FacingRows, RowsDiffer DEF AsksStock
<1>5. CASE AsksToDelete(q, b, Y)
  <2>1. /\ q.op = "delete" /\ b \in {Client} \cup DraftRows(q.invoice)
        /\ Of(q.invoice) \in Y /\ Y \subseteq DraftRows(q.invoice)
    BY <1>5 DEF AsksToDelete
  <2>2. q.invoice # r.invoice
    BY <1>1, <2>1, FacingRows
  <2>3. b = Client
    BY <1>1, <2>1, <2>2, FacingRows, RowsDiffer DEF DraftRows
  <2>4. \E k \in Item : a = Stock(k)
    BY <1>1, <2>1, FacingRows, RowsDiffer DEF DraftRows
  <2> QED
    BY <1>1, <2>1, <2>3, <2>4
<1>6. CASE AsksClaim(q, b, Y) \/ AsksSchedule(q, b, Y)
  BY <1>1, <1>6, FacingRows, RowsDiffer DEF AsksClaim, AsksSchedule, ClaimRows
<1> QED
  BY <1>2, <1>3, <1>4, <1>5, <1>6, FacingBoth, FacingRows

\* They ask for an invoice with its line, or for stock and the client, or each
\* for stock.
LEMMA FacedRows ==
    ASSUME NEW r, NEW a, NEW X, NEW q, NEW b, NEW Y, Facing(r, a, X, q, b, Y)
    PROVE  \/ AsksInvoice(r, a, X) \/ AsksInvoice(q, b, Y)
           \/ r.op \in LineOps /\ (\E k \in Item : a = Stock(k)) /\ q.op = "delete" /\ b = Client
           \/ q.op \in LineOps /\ (\E k \in Item : b = Stock(k)) /\ r.op = "delete" /\ a = Client
           \/ /\ r.op = "delete" /\ \E k \in Item : a = Stock(k)
              /\ q.op = "delete" /\ \E k \in Item : b = Stock(k)
<1> SUFFICES ASSUME ~AsksInvoice(r, a, X), ~AsksInvoice(q, b, Y),
                    ~AsksStock(r, a, X), ~AsksStock(q, b, Y)
             PROVE  /\ r.op = "delete" /\ \E k \in Item : a = Stock(k)
                    /\ q.op = "delete" /\ \E k \in Item : b = Stock(k)
  BY StockIsFaced, FacingBoth
<1>1. /\ AsksToDelete(r, a, X) \/ AsksClaim(r, a, X) \/ AsksSchedule(r, a, X)
      /\ AsksToDelete(q, b, Y) \/ AsksClaim(q, b, Y) \/ AsksSchedule(q, b, Y)
  BY FacingRows, FacingBoth, TenantIsNotFaced, ClientIsNotFaced
<1>2. CASE AsksToDelete(r, a, X) /\ AsksToDelete(q, b, Y)
  <2>1. /\ r.op = "delete" /\ a \in {Client} \cup DraftRows(r.invoice)
        /\ Of(r.invoice) \in X /\ X \subseteq DraftRows(r.invoice)
        /\ q.op = "delete" /\ b \in {Client} \cup DraftRows(q.invoice)
        /\ Of(q.invoice) \in Y /\ Y \subseteq DraftRows(q.invoice)
    BY <1>2 DEF AsksToDelete
  <2>2. r.invoice # q.invoice
    BY <2>1, FacingRows
  <2>3. \E k \in Item : a = Stock(k)
    BY <2>1, <2>2, FacingRows, RowsDiffer DEF DraftRows
  <2>4. \E k \in Item : b = Stock(k)
    BY <2>1, <2>2, FacingRows, RowsDiffer DEF DraftRows
  <2> QED
    BY <2>1, <2>3, <2>4
<1>3. CASE AsksClaim(r, a, X)
  BY <1>1, <1>3, FacingRows, RowsDiffer
     DEF AsksToDelete, AsksClaim, AsksSchedule, ClaimRows, DraftRows
<1>4. CASE AsksClaim(q, b, Y)
  BY <1>1, <1>4, FacingRows, RowsDiffer
     DEF AsksToDelete, AsksClaim, AsksSchedule, ClaimRows, DraftRows
<1>5. CASE AsksSchedule(r, a, X) \/ AsksSchedule(q, b, Y)
  BY <1>1, <1>5, FacingRows, RowsDiffer
     DEF AsksToDelete, AsksClaim, AsksSchedule, ClaimRows, DraftRows
<1> QED
  BY <1>1, <1>2, <1>3, <1>4, <1>5

\* What s asks for and t has locked, but for the tenant's row, is one row.
LEMMA OneIsWanted ==
    ASSUME Inv, LocksInOrder, NEW s \in Session, NEW t \in Session, s # t,
           WantedOf(s, t) # {}, ~OverTenant(s, t)
    PROVE  \E a \in held[t] :
              /\ WantedOf(s, t) = {a} /\ a # Tenant /\ MayAsk(request[s], a, held[s])
              /\ a \in ToLock(s) \/ a = Client
<1>1. /\ SessionInOrder(s) /\ todo[s] \in Seq(Lockable) /\ held[s] \cap held[t] = {}
  BY DEF LocksInOrder, Inv, SessionTyped, LocksExclude
<1>2. Tenant \notin WantedOf(s, t)
  BY DEF OverTenant
<1>3. CASE todo[s] # <<>>
  <2>1. PICK a : a = Head(todo[s])
    OBVIOUS
  <2>2. 1 \in DOMAIN todo[s] /\ todo[s][1] = a
    BY <1>1, <1>3, <2>1
  <2>3. Wanted(s) = {a}
    BY <1>3, <2>1 DEF Wanted
  <2>4. WantedOf(s, t) = {a} /\ a \in held[t]
    BY <2>3 DEF WantedOf
  <2>5. MayAsk(request[s], a, Ahead(s, 1))
    BY <1>1, <2>2 DEF SessionInOrder
  <2>6. Ahead(s, 1) = held[s]
    BY Prefixes DEF Ahead
  <2>7. a \in ToLock(s)
    BY <2>2 DEF ToLock, Elements
  <2> QED
    BY <1>2, <2>4, <2>5, <2>6, <2>7
<1>4. CASE todo[s] = <<>>
  <2>1. ToLock(s) = {}
    BY <1>4 DEF ToLock, Elements
  <2>2. EndsInOrder(request[s], held[s])
    BY <1>1, <2>1 DEF SessionInOrder
  <2>3. Wanted(s) = Referenced(request[s].op)
    BY <1>4 DEF Wanted
  <2>4. Client \in Referenced(request[s].op) /\ WantedOf(s, t) = {Client} /\ Client \in held[t]
    BY <1>2, <2>3 DEF WantedOf, Referenced
  <2>5. Client # Tenant
    BY RowsDiffer
  <2> QED
    BY <1>1, <2>2, <2>4, <2>5 DEF EndsInOrder
<1> QED
  BY <1>3, <1>4

\* The invoice that s credits is no draft of another request.
LEMMA SourceIsNotFaced ==
    ASSUME Inv, SourcesIssued, NEW s \in Session, NEW t \in Session, s # t,
           NEW a \in held[t], NEW b \in held[s], held[s] \cap held[t] = {},
           MayAsk(request[s], a, held[s]), AsksSource(request[s], a, held[s]),
           a \in ToLock(s) \/ a = Client, b # Tenant,
           MayAsk(request[t], b, held[t])
    PROVE  FALSE
<1> DEFINE i == request[s].invoice
           q == request[t]
           X == held[s]
           Y == held[t]
<1>1. PICK j \in Invoice : a = Of(j)
  BY DEF AsksSource
<1>2. /\ request[s].op = "issue" /\ Tenant \in X /\ X \subseteq {Of(i), Tenant, Client, Numbers}
      /\ b \in {Of(i), Client, Numbers} /\ Of(j) \in Y /\ Tenant \notin Y /\ b \notin Y
  BY <1>1 DEF AsksSource
<1>3. /\ q.invoice \in Invoice \cup {None} /\ q.item \in Item \cup {None}
      /\ i \in Invoice \cup {None} /\ RequestHolds(t)
  BY DEF Inv, SessionTyped, Request, RequestsHold
<1>4. doc[j].state = "issued"
  <2>1. Of(j) \in ToLock(s)
    BY <1>1, RowsDiffer
  <2> QED
    BY <1>2, <2>1 DEF SourcesIssued
<1>5. ASSUME q.op \in DraftOps, j = q.invoice PROVE LineOf(j, q.item) \in Y
  <2>1. ~IsDraft(j)
    BY <1>4 DEF IsDraft
  <2>2. q.op \in {"update_line", "delete_line"}
    BY <1>3, <1>5, <2>1 DEF RequestHolds
  <2> QED
    BY <1>3, <1>5, <2>1, <2>2 DEF RequestHolds
<1> HIDE DEF i, q, X, Y
<1>6. CASE AsksClient(q, b, Y)
  <2>1. CASE q.op \in DraftOps /\ Y \subseteq {Of(q.invoice), ClaimOf(q.invoice)}
    <3>1. j = q.invoice
      BY <1>2, <1>3, <2>1, RowsDiffer
    <3> QED
      BY <1>3, <1>5, <2>1, <3>1, RowsDiffer
  <2> QED
    BY <1>2, <1>3, <1>6, <2>1, RowsDiffer DEF AsksClient, ClaimRows
<1>7. CASE AsksToDelete(q, b, Y)
  <2>1. /\ q.op = "delete" /\ Of(q.invoice) \in Y /\ Y \subseteq DraftRows(q.invoice)
    BY <1>7 DEF AsksToDelete
  <2>2. j = q.invoice
    BY <1>2, <1>3, <2>1, RowsDiffer DEF DraftRows
  <2> QED
    BY <1>3, <1>4, <2>1, <2>2 DEF q, RequestHolds, IsDraft, DraftOps, LineOps
<1>8. CASE AsksWithTenant(q, b, Y) \/ AsksSource(q, b, Y)
  BY <1>2, <1>8 DEF AsksWithTenant, AsksSource
<1>9. CASE AsksInvoice(q, b, Y)
  BY <1>2, <1>3, <1>9, RowsDiffer DEF AsksInvoice
<1>10. CASE AsksStock(q, b, Y) \/ AsksClaim(q, b, Y) \/ AsksSchedule(q, b, Y)
  BY <1>2, <1>3, <1>10, RowsDiffer DEF AsksStock, AsksClaim, AsksSchedule, ClaimRows
<1> QED
  BY <1>6, <1>7, <1>8, <1>9, <1>10 DEF MayAsk, q, Y

LEMMA CirclesKnown ==
    ASSUME Inv, LocksInOrder, SourcesIssued
    PROVE  CirclesAreKnown
<1> SUFFICES ASSUME NEW s \in Session, NEW t \in Session, Circle(s, t),
                    ~OverTenant(s, t), ~OverTenant(t, s)
             PROVE  \/ OverLine(s, t)  \/ OverLine(t, s)
                    \/ OverStock(s, t) \/ OverStock(t, s)
  BY DEF CirclesAreKnown
<1> DEFINE r == request[s]
           q == request[t]
<1>1. /\ s # t /\ held[s] \cap held[t] = {} /\ held[t] \cap held[s] = {}
      /\ r \in Request /\ q \in Request
      /\ WantedOf(s, t) # {} /\ WantedOf(t, s) # {}
  BY DEF Circle, Inv, LocksExclude, SessionTyped
<1>2. PICK a \in held[t] :
        /\ WantedOf(s, t) = {a} /\ a # Tenant /\ MayAsk(r, a, held[s])
        /\ a \in ToLock(s) \/ a = Client
  BY <1>1, OneIsWanted
<1>3. PICK b \in held[s] :
        /\ WantedOf(t, s) = {b} /\ b # Tenant /\ MayAsk(q, b, held[t])
        /\ b \in ToLock(t) \/ b = Client
  BY <1>1, OneIsWanted
<1>4. ~AsksSource(r, a, held[s]) /\ ~AsksSource(q, b, held[t])
  <2>1. ~AsksSource(r, a, held[s])
    BY <1>1, <1>2, <1>3, SourceIsNotFaced
  <2>2. ~AsksSource(q, b, held[t])
    BY <1>1, <1>2, <1>3, SourceIsNotFaced
  <2> QED
    BY <2>1, <2>2
<1>5. Facing(r, a, held[s], q, b, held[t])
  BY <1>1, <1>2, <1>3, <1>4 DEF Facing
<1>6. CASE AsksInvoice(r, a, held[s])
  BY <1>2, <1>3, <1>6 DEF AsksInvoice, OverLine
<1>7. CASE AsksInvoice(q, b, held[t])
  BY <1>2, <1>3, <1>7 DEF AsksInvoice, OverLine
<1>8. CASE r.op \in LineOps /\ (\E k \in Item : a = Stock(k)) /\ q.op = "delete" /\ b = Client
  BY <1>2, <1>3, <1>8 DEF OverStock
<1>9. CASE q.op \in LineOps /\ (\E k \in Item : b = Stock(k)) /\ r.op = "delete" /\ a = Client
  BY <1>2, <1>3, <1>9 DEF OverStock
<1>10. CASE /\ r.op = "delete" /\ \E k \in Item : a = Stock(k)
            /\ q.op = "delete" /\ \E k \in Item : b = Stock(k)
  BY <1>2, <1>3, <1>10 DEF OverStock
<1> HIDE DEF r, q
<1> QED
  BY <1>5, <1>6, <1>7, <1>8, <1>9, <1>10, FacedRows

-----------------------------------------------------------------------------
(* What the ledger tells. *)

LEMMA LedgerTyped ==
    ASSUME Inv, Ledger
    PROVE  TypeOK
<1>1. /\ DocTyped /\ NumbersTyped /\ ScheduleTyped /\ SessionTyped /\ ClaimsHold
      /\ DocsSound /\ StockHolds /\ MailsCounted /\ CountersBounded /\ ScheduleBounded
      /\ LocksInOrder
  BY DEF Inv, Ledger
<1>2. /\ MaxQuantity \in Nat /\ MaxSequence \in Nat /\ MaxStock \in Nat
      /\ MaxMails \in Nat /\ MaxTerms \in Nat /\ MaxTerms > 0
  BY BoundAssumption
<1>3. doc \in [Invoice ->
         [state : {"absent", "draft", "issued"}, kind : {"invoice", "credit"},
          period : Period,
          quantity : [Item -> 0..MaxQuantity], used : [Item -> 0..MaxQuantity],
          source : Invoice \cup {None},
          number : {<<>>} \cup [series : Series, period : Period, sequence : 1..MaxSequence],
          claimed : Item \cup {None}, withdrawn : BOOLEAN, voided : BOOLEAN,
          deliveries : 0..MaxMails]]
  <2>1. ASSUME NEW i \in Invoice
        PROVE  /\ doc[i] \in Document /\ doc[i].deliveries \in 0..MaxMails
               /\ doc[i].quantity \in [Item -> 0..MaxQuantity]
               /\ doc[i].used \in [Item -> 0..MaxQuantity]
               /\ doc[i].number \in {<<>>} \cup ShortNumber
    <3>1. /\ doc[i] \in Document /\ doc[i].deliveries \in Nat
          /\ doc[i].quantity \in [Item -> Nat] /\ doc[i].used \in [Item -> Nat]
      BY <1>1 DEF DocTyped, Document, Units
    <3>2. /\ \A k \in Item : doc[i].used[k] <= MaxQuantity /\ doc[i].quantity[k] <= MaxQuantity
          /\ doc[i].number \in {<<>>} \cup ShortNumber
      BY <1>1 DEF DocsSound, Sound, SoundLine
    <3>3. doc[i].deliveries <= MaxMails
      <4> DEFINE one == IF Delivering(i) THEN 1 ELSE 0
      <4>1. /\ doc[i].deliveries + one <= mailed[i] /\ mailed[i] <= MaxMails
            /\ mailed[i] \in Nat
        BY <1>1 DEF MailsCounted
      <4>2. one \in {0, 1}
        OBVIOUS
      <4> HIDE DEF one
      <4> QED
        BY <1>2, <3>1, <4>1, <4>2
    <3>4. /\ doc[i].quantity \in [Item -> 0..MaxQuantity]
          /\ doc[i].used \in [Item -> 0..MaxQuantity]
      BY <1>2, <3>1, <3>2
    <3>5. doc[i].deliveries \in 0..MaxMails
      BY <1>2, <3>1, <3>3
    <3> QED
      BY <3>1, <3>2, <3>4, <3>5
  <2> QED
    BY <1>1, <2>1 DEF DocTyped, Document, ShortNumber
<1>4. numbers \in [setting : Setting,
                   series : [Series -> [period : 0..MaxPeriod, next : 1..MaxSequence + 1]]]
  BY <1>1 DEF NumbersTyped, Counters, CountersBounded
<1>5. stock \in [Item -> [onHand : 0..MaxStock, received : 0..MaxStock, archived : BOOLEAN]]
  <2>1. ASSUME NEW k \in Item
        PROVE  stock[k] \in [onHand : 0..MaxStock, received : 0..MaxStock, archived : BOOLEAN]
    <3> DEFINE used == Total(Used(doc, k), Invoice)
    <3>1. used \in Nat
      <4>1. \A i \in Invoice : Used(doc, k)[i] \in Nat
        BY <1>1 DEF Used, DocTyped, Document, Units
      <4>2. Invoice \in SUBSET Invoice
        OBVIOUS
      <4> QED
        BY <4>1, <4>2, InvoiceAssumption, TotalTyped
    <3>2. /\ stock[k] \in StockItem /\ stock[k].onHand \in Nat /\ stock[k].received \in Nat
          /\ stock[k].onHand + used = stock[k].received /\ stock[k].received <= MaxStock
      BY <1>1 DEF StockHolds, ItemHolds, StockTyped, StockItem
    <3> HIDE DEF used
    <3>3. stock[k].onHand \in 0..MaxStock /\ stock[k].received \in 0..MaxStock
      BY <1>2, <3>1, <3>2
    <3> QED
      BY <3>2, <3>3 DEF StockItem
  <2> QED
    BY <1>1, <2>1 DEF StockHolds, StockTyped
<1>6. /\ contract \in 1..MaxSource /\ schedule.enabled \in BOOLEAN
      /\ schedule.terms \in Seq([from : Period, source : 1..MaxSource])
  BY <1>1 DEF ScheduleBounded, ShortTerms, ScheduleTyped
<1>7. schedule.claims \in [Period -> [invoice : Invoice \cup {None}, version : 0..MaxTerms]]
  <2>1. ASSUME NEW p \in Period
        PROVE  /\ schedule.claims[p] \in Claim
               /\ schedule.claims[p].version \in 0..MaxTerms
    <3>1. schedule.claims[p] \in Claim
      BY <1>1 DEF ScheduleTyped
    <3>2. CASE schedule.claims[p] = Unclaimed
      BY <1>2, <3>1, <3>2 DEF Unclaimed
    <3>3. CASE schedule.claims[p] # Unclaimed
      <4>1. schedule.claims[p].version = InForce(p)
        BY <1>1, <3>3 DEF ClaimsHold, ClaimHolds
      <4> QED
        BY <1>1, <3>1, <4>1, InForceBounded
    <3> QED
      BY <3>2, <3>3
  <2> QED
    BY <1>1, <2>1 DEF ScheduleTyped, Claim
<1>8. ASSUME NEW s \in Session PROVE todo[s] \in Seq(Row) /\ held[s] \subseteq Row
  <2>1. todo[s] \in Seq(Lockable) /\ SessionInOrder(s)
    BY <1>1 DEF SessionTyped, LocksInOrder
  <2>2. \A k \in 1..Len(todo[s]) : todo[s][k] \in Row
    BY <2>1 DEF SessionInOrder, MayAsk
  <2> QED
    BY <2>1, <2>2 DEF SessionInOrder
<1>9. mailed \in [Invoice -> 0..MaxMails] /\ undone \subseteq Invoice
  BY <1>1, <1>2 DEF MailsCounted
<1> QED
  BY <1>3, <1>4, <1>5, <1>6, <1>7, <1>8, <1>9 DEF TypeOK

LEMMA LedgerCorrects ==
    ASSUME Inv, Ledger
    PROVE  CorrectionsExclude
<1>1. CreditsFit /\ MailsCounted /\ RequestsHold
  BY DEF Inv, Ledger
<1>2. ASSUME NEW s \in Session, request[s].op = "delivered"
      PROVE  ~doc[request[s].invoice].voided
  BY <1>1, <1>2 DEF RequestsHold, RequestHolds, IsValid
<1>3. ASSUME NEW i \in Issued, doc[i].voided
      PROVE  CreditsOf(i) = {} /\ doc[i].deliveries = 0 /\ (mailed[i] > 0 => i \in undone)
  <2>1. i \in Invoice /\ doc[i].state = "issued"
    BY DEF Issued
  <2>2. CreditsOf(i) = {} /\ doc[i].deliveries = 0
    BY <1>1, <1>3, <2>1 DEF CreditsFit
  <2>3. ~Delivering(i)
    BY <1>2, <1>3 DEF Delivering
  <2> QED
    BY <1>1, <2>1, <2>2, <2>3 DEF MailsCounted
<1>4. \A i \in Issued : Credited(i) <= Amount(i)
  BY <1>1 DEF CreditsFit, Issued
<1> QED
  BY <1>2, <1>3, <1>4 DEF CorrectionsExclude

-----------------------------------------------------------------------------
\* The inductive invariant.
THEOREM InvIsInvariant == Spec => []Inv
<1>1. Init => Inv
  BY InitInv
<1>2. Inv /\ [Next]_vars => Inv'
  BY NextKeepsInv
<1> QED
  BY <1>1, <1>2, PTL DEF Spec

\* TD-RISK-064 for any number of requests and any settings: whatever is issued,
\* refused, aborted, dated back or reconfigured, the numbers of a series, or of
\* a period of one that restarts, run from 1 without a gap or a repetition
\* (IssueInvoice under the lock of the billing profile).
THEOREM NumbersRunOn == Spec => []NumbersAreGapless
<1>1. Inv => NumbersAreGapless
  BY DEF Inv, CountersAgree, NumberedIn, NumbersAreGapless
<1> QED
  BY <1>1, InvIsInvariant, PTL

\* A document that was issued, voided or withdrawn is out of reach of every
\* request, also of one that began while it was a draft.
THEOREM FinalDocumentsStay == Spec => FinalDocumentsAreFrozen
<1> DEFINE Frozen ==
      \A i \in Invoice : doc[i].state = "issued" \/ doc[i].withdrawn =>
         /\ doc'[i] = [doc[i] EXCEPT !.voided = doc'[i].voided,
                                     !.deliveries = doc'[i].deliveries]
         /\ doc[i].voided => doc'[i].voided
         /\ doc'[i].deliveries >= doc[i].deliveries
<1>1. Inv /\ [Next]_vars => Frozen
  BY NextKeepsInv, FinalStays
<1> QED
  BY <1>1, InvIsInvariant, PTL DEF Spec, FinalDocumentsAreFrozen

\* A claimed period keeps a document of its own under the terms that were in
\* force, however generations, amendments, stops and edits of drafts interleave.
THEOREM ClaimsStayTrue == Spec => []ClaimsKeepTheirTerms
<1>1. Inv => ClaimsKeepTheirTerms
  BY DEF Inv, ClaimsHold, ClaimHolds, Bills, Lines, ClaimsKeepTheirTerms
<1> QED
  BY <1>1, InvIsInvariant, PTL

\* What Inv leaves open: the order of the locks, the sums and the bounds.
THEOREM LedgerIsInvariant == Spec => []Ledger
<1>1. Init => Ledger
  BY InitLedger
<1>2. Inv /\ Ledger /\ [Next]_vars => Ledger'
  BY NextKeepsLedger
<1> QED
  BY <1>1, <1>2, InvIsInvariant, PTL DEF Spec

\* The documents, the counters, the stock, the schedule and the queues of rows
\* to lock hold values of their kinds, within their bounds: no unit of stock is
\* sold that is not there, no number exceeds its digits, and no mail is counted
\* that was not accepted.
THEOREM TypesAreKept == Spec => []TypeOK
<1>1. Inv /\ Ledger => TypeOK
  BY LedgerTyped
<1> QED
  BY <1>1, InvIsInvariant, LedgerIsInvariant, PTL

\* The credit notes of an invoice never exceed it, however many drafts of them
\* are open together, and a voided invoice has neither credits nor mails, but
\* for a mail whose request failed after it was accepted (IssueInvoice,
\* VoidInvoice, Mail under the lock of the credited invoice).
THEOREM CorrectionsStayApart == Spec => []CorrectionsExclude
<1>1. Inv /\ Ledger => CorrectionsExclude
  BY LedgerCorrects
<1> QED
  BY <1>1, InvIsInvariant, LedgerIsInvariant, PTL

\* Every unit received is on the shelf or on an invoice, through sales, changed
\* and deleted lines, deleted drafts and requests that fail, and an archived
\* item is on no draft (ChangeStock, ArchiveStockItem).
THEOREM StockAddsUp == Spec => []StockIsConserved
<1>1. ASSUME Inv, Ledger PROVE StockIsConserved
  <2>1. ASSUME NEW k \in Item
        PROVE  SumOf([i \in Invoice |-> doc[i].used[k]], Invoice) = Total(Used(doc, k), Invoice)
    BY SumIsTotal DEF Used
  <2>2. \A k \in Item, i \in Invoice : doc[i].used[k] = 0 => k \notin Drawn(i)
    BY DEF Drawn
  <2> QED
    BY <1>1, <2>1, <2>2 DEF Ledger, StockHolds, ItemHolds, StockIsConserved
<1> QED
  BY <1>1, InvIsInvariant, LedgerIsInvariant, PTL

\* Two requests wait for each other only over the tenant's row, over a line and
\* its invoice, or over stock that the deletion of a draft returned, where the
\* other has the client or, deleting a draft itself, another item (the order in
\* which Plan, DeletePlans, PlanOfOther and Commit ask for rows).
THEOREM CirclesStayKnown == Spec => []CirclesAreKnown
<1>1. Inv /\ Ledger => CirclesAreKnown
  BY CirclesKnown DEF Ledger
<1> QED
  BY <1>1, InvIsInvariant, LedgerIsInvariant, PTL

================================================================================
