----------------------------- MODULE InvoiceLedger -----------------------------
(***************************************************************************)
(* Invoices from draft to issued, corrected and mailed, with the stock and *)
(* the recurring schedule their lines draw on (backend/apps/core:          *)
(* invoicing.py, stock.py, recurring_invoices.py).                         *)
(*                                                                         *)
(* Every request is one transaction.  It locks rows with SELECT FOR UPDATE,*)
(* which locks the joined rows too, in the order of the model's fields; it *)
(* reads what it has locked and writes; at COMMIT the deferred foreign     *)
(* keys of what it inserted share-lock the tenant, and perhaps the client. *)
(* The orders differ, so requests can wait for each other in a circle:     *)
(* PostgreSQL then aborts one.  Mail cannot be aborted.                    *)
(*                                                                         *)
(* What a request reads is under its locks, so reading, writing and commit *)
(* are one step; locking is one step for each row.  A draft has at most    *)
(* one line for each stock item, which draws on it or not, at the price of *)
(* 1.                                                                      *)
(***************************************************************************)
EXTENDS Naturals, Sequences, FiniteSets, FiniteSetsExt

CONSTANTS
    Session,     \* requests in flight
    Invoice,     \* rows: invoices and credit notes
    Item,        \* rows: stock items
    None,        \* no invoice, no item
    Setting,     \* TenantBillingProfile: [invoice, credit, dated, reset]
    MaxPeriod,   \* bound: numbering and billing periods
    MaxQuantity, \* bound: the quantity of a line
    MaxSequence, \* 10 ** sequence_digits - 1
    MaxStock,    \* bound: units ever received
    MaxTerms,    \* bound: versions of the recurring terms
    MaxSource,   \* bound: revisions of the contract cost
    MaxMails     \* bound: mails of one invoice

Period == 1..MaxPeriod
SeriesOf(setting, kind) ==
    [prefix |-> setting[kind], dated |-> setting.dated, reset |-> setting.reset]
Series == {SeriesOf(k, kind) : k \in Setting, kind \in {"invoice", "credit"}}

\* clean(): numbers that restart show the period in which they do, and credit
\* notes have a prefix of their own.
ASSUME SettingAssumption ==
    \A k, l \in Setting : (k.reset => k.dated) /\ k.invoice # l.credit
ASSUME InvoiceAssumption == None \notin Invoice /\ IsFiniteSet(Invoice)
ASSUME ItemAssumption == None \notin Item /\ IsFiniteSet(Item)
ASSUME BoundAssumption ==
    /\ \A n \in {MaxPeriod, MaxQuantity, MaxSequence, MaxStock, MaxTerms, MaxSource,
                 MaxMails} : n \in Nat
    /\ MaxPeriod > 0 /\ MaxQuantity > 0 /\ MaxTerms > 0 /\ MaxSource > 0

VARIABLES
    doc,       \* invoices, each with its lines
    numbers,   \* the billing profile and the number series
    stock,     \* the stock items
    contract,  \* revision of the contract cost, as its digest tells
    schedule,  \* one recurring schedule, its terms and its claimed periods
    request,   \* of each session: what it does, to which invoice, line or item
    todo,      \* rows it has still to lock
    held,      \* rows it has locked
    mailed,    \* mails accepted for each invoice
    undone     \* invoices mailed by a request that did not commit

rows    == <<doc, numbers, stock, contract, schedule>>
session == <<request, todo, held>>
mails   == <<mailed, undone>>
vars    == <<rows, session, mails>>

Of(i)        == <<"invoice", i>>
LineOf(i, k) == <<"line", <<i, k>>>>
ClaimOf(i)   == <<"claim", i>>
Stock(k)     == <<"stock", k>>
Tenant       == <<"tenant", None>>
Client       == <<"client", None>>
Numbers      == <<"numbers", None>>
Contract     == <<"contract", None>>
Schedule     == <<"schedule", None>>
Row == {Of(i) : i \in Invoice} \cup {ClaimOf(i) : i \in Invoice}
         \cup {LineOf(i, k) : i \in Invoice, k \in Item} \cup {Stock(k) : k \in Item}
         \cup {Tenant, Client, Numbers, Contract, Schedule}

Nothing == [k \in Item |-> 0]
Absent == [state |-> "absent", kind |-> "invoice", period |-> 1, quantity |-> Nothing,
           used |-> Nothing, source |-> None, number |-> <<>>, claimed |-> None,
           withdrawn |-> FALSE, voided |-> FALSE, deliveries |-> 0]
Unclaimed == [invoice |-> None, version |-> 0]
Idle == [op |-> "none", invoice |-> None, item |-> None]

\* The rows hold values of their kinds.
TypeOK ==
    /\ doc \in [Invoice ->
         [state : {"absent", "draft", "issued"}, kind : {"invoice", "credit"},
          period : Period,
          quantity : [Item -> 0..MaxQuantity], used : [Item -> 0..MaxQuantity],
          source : Invoice \cup {None},
          number : {<<>>} \cup [series : Series, period : Period, sequence : 1..MaxSequence],
          claimed : Item \cup {None}, withdrawn : BOOLEAN, voided : BOOLEAN,
          deliveries : 0..MaxMails]]
    /\ numbers \in [setting : Setting,
                    series : [Series -> [period : 0..MaxPeriod, next : 1..MaxSequence + 1]]]
    /\ stock \in [Item -> [onHand : 0..MaxStock, received : 0..MaxStock, archived : BOOLEAN]]
    /\ contract \in 1..MaxSource
    /\ schedule.enabled \in BOOLEAN
    /\ schedule.terms \in Seq([from : Period, source : 1..MaxSource])
    /\ schedule.claims \in [Period -> [invoice : Invoice \cup {None}, version : 0..MaxTerms]]
    /\ \A s \in Session : todo[s] \in Seq(Row) /\ held[s] \subseteq Row
    /\ mailed \in [Invoice -> 0..MaxMails]
    /\ undone \subseteq Invoice

Init ==
    /\ doc = [i \in Invoice |-> Absent]
    /\ numbers \in [setting : Setting, series : {[r \in Series |-> [period |-> 0, next |-> 1]]}]
    /\ stock = [k \in Item |-> [onHand |-> 0, received |-> 0, archived |-> FALSE]]
    /\ contract = 1
    /\ schedule = [enabled |-> FALSE, terms |-> <<>>, claims |-> [p \in Period |-> Unclaimed]]
    /\ request = [s \in Session |-> Idle]
    /\ todo = [s \in Session |-> <<>>]
    /\ held = [s \in Session |-> {}]
    /\ mailed = [i \in Invoice |-> 0]
    /\ undone = {}

-----------------------------------------------------------------------------
(* Transactions and their locks. *)

LineOps   == {"create_line", "sell_stock", "update_line", "delete_line"}
DraftOps  == LineOps \cup {"redate", "issue", "withdraw", "delete"}
IssuedOps == {"void", "follow_up", "deliver"}
OtherOps  == {"configure", "receive", "archive", "edit_source", "enroll", "amend",
              "generate", "stop"}

Lines(i) == {k \in Item : doc[i].quantity[k] > 0}
Drawn(i) == {k \in Item : doc[i].used[k] > 0}

\* A set of lines in the order of their positions, which may be any.
Orders(lines) ==
    {o \in [1..Cardinality(lines) -> lines] : {o[n] : n \in DOMAIN o} = lines}

\* delete_invoice() locks the lines that drew on the stock, then their items in
\* the order of the lines, and deletes the other lines with the draft.
DeletePlan(i, drawn, others) ==
    <<Of(i)>> \o [n \in DOMAIN drawn |-> LineOf(i, drawn[n])]
              \o [n \in DOMAIN drawn |-> Stock(drawn[n])]
              \o [n \in DOMAIN others |-> LineOf(i, others[n])]
DeletePlans(i) ==
    {DeletePlan(i, drawn, others) :
       drawn \in Orders(Drawn(i)), others \in Orders(Lines(i) \ Drawn(i))}

\* The rows an operation locks, in the order in which it does; k is the line.
Plan(op, i, k) ==
    CASE op \in {"create_line", "redate"} -> <<Of(i), Client>>
      [] op = "sell_stock" -> <<Of(i), Client, Stock(k)>>
      [] op \in {"update_line", "delete_line"} ->
           <<LineOf(i, k), Client, Of(i)>>
             \o (IF doc[i].used[k] > 0 THEN <<Stock(k)>> ELSE <<>>)
      [] op = "withdraw" -> <<Of(i), ClaimOf(i)>>
      [] op = "issue" ->
           <<Of(i), Tenant, Client, Numbers>>
             \o (IF doc[i].kind = "credit" THEN <<Of(doc[i].source)>> ELSE <<>>)
      [] op \in {"void", "follow_up"} -> <<Of(i), Tenant, Client>>
      [] op = "deliver" -> <<Of(i), Tenant>>

Plans(op, i, k) == IF op = "delete" THEN DeletePlans(i) ELSE {Plan(op, i, k)}

\* The latest claim, which an amendment locks with the schedule.  (It locks the
\* latest terms too, which nothing locks without the schedule.)
LatestClaim ==
    LET billed == {p \in Period : schedule.claims[p] # Unclaimed} IN
    IF billed = {} THEN <<>> ELSE <<ClaimOf(schedule.claims[Max(billed)].invoice)>>

PlansOfOther(k) ==
    [configure   |-> <<Numbers>>,
     receive     |-> <<Stock(k)>>,
     archive     |-> <<Stock(k)>>,
     edit_source |-> <<Contract>>,
     enroll      |-> <<Contract>>,
     amend       |-> <<Contract, Schedule>> \o LatestClaim,
     generate    |-> <<Contract, Schedule, Client>>,
     stop        |-> <<Schedule>>]

\* Mutant: the generation locks the schedule before its source.
ScheduleFirst(op, k) ==
    [PlansOfOther(k) EXCEPT !.generate = <<Schedule, Contract, Client>>][op]

PlanOfOther(op, k) == PlansOfOther(k)[op]

\* The rows the commit share-locks: every request writes an audit event of the
\* tenant; these insert a row of the client as well.
Referenced(op) ==
    {Tenant} \cup
    (IF op \in {"sell_stock", "update_line", "delete_line", "delete", "withdraw",
                "enroll", "amend", "generate"}
     THEN {Client} ELSE {})

HeldByOthers(s) == UNION {held[t] : t \in Session \ {s}}

\* The first row is locked as the request begins.
Begin(s, op, i, k, plan) ==
    /\ request[s] = Idle
    /\ Head(plan) \notin HeldByOthers(s)
    /\ request' = [request EXCEPT ![s] = [op |-> op, invoice |-> i, item |-> k]]
    /\ todo' = [todo EXCEPT ![s] = Tail(plan)]
    /\ held' = [held EXCEPT ![s] = {Head(plan)}]
    /\ UNCHANGED <<rows, mails>>

\* Mutant: the withdrawal is not looked at.
AnyDraft(i) == doc[i].state = "draft"

IsDraft(i) == doc[i].state = "draft" /\ ~doc[i].withdrawn

\* A request the row it locks first refuses ends without a trace.
BeginOnDraft(s, op, i, k) ==
    /\ request[s] = Idle
    /\ op \in DraftOps
    /\ op \in LineOps <=> k \in Item
    /\ IsDraft(i)
    /\ op \in {"create_line", "sell_stock"} => k \notin Lines(i)
    /\ op \in {"update_line", "delete_line"} => k \in Lines(i)
    /\ op = "issue" => Lines(i) # {}
    /\ op = "delete_line" => k # doc[i].claimed
    /\ op = "delete" => doc[i].claimed = None
    /\ op = "withdraw" => doc[i].claimed # None
    /\ \E plan \in Plans(op, i, k) : Begin(s, op, i, k, plan)

\* Voiding again changes nothing, and nothing else is done to a voided invoice.
IsValid(i) == doc[i].state = "issued" /\ ~doc[i].voided

BeginOnIssued(s, op, i) ==
    /\ op \in IssuedOps
    /\ IsValid(i)
    /\ op \in {"void", "follow_up"} => doc[i].kind = "invoice"
    /\ op = "deliver" => mailed[i] < MaxMails
    /\ Begin(s, op, i, None, Plan(op, i, None))

BeginOther(s, op, k) ==
    /\ op \in OtherOps
    /\ op \in {"receive", "archive"} <=> k \in Item
    /\ Begin(s, op, None, k, PlanOfOther(op, k))

Lock(s) ==
    /\ todo[s] # <<>>
    /\ Head(todo[s]) \notin HeldByOthers(s)
    /\ held' = [held EXCEPT ![s] = @ \cup {Head(todo[s])}]
    /\ todo' = [todo EXCEPT ![s] = Tail(@)]
    /\ UNCHANGED <<rows, request, mails>>

End(s) ==
    /\ request' = [request EXCEPT ![s] = Idle]
    /\ todo' = [todo EXCEPT ![s] = <<>>]
    /\ held' = [held EXCEPT ![s] = {}]

Commit(s, op) ==
    /\ request[s].op = op
    /\ todo[s] = <<>>
    /\ Referenced(op) \cap HeldByOthers(s) = {}
    /\ End(s)
    /\ UNCHANGED mails

\* An error, a crash, or the victim of a deadlock: nothing is written.
Abort(s) ==
    /\ request[s] # Idle
    /\ End(s)
    /\ undone' = IF request[s].op = "delivered" THEN undone \cup {request[s].invoice}
                 ELSE undone
    /\ UNCHANGED <<rows, mailed>>

-----------------------------------------------------------------------------
(* Drafts. *)

\* Mutants: more is sold than is there; an archived item is sold.
Oversell(before, after) ==
    /\ \A k \in Item : before[k] # after[k] => ~stock[k].archived
    /\ stock' = [k \in Item |-> [stock[k] EXCEPT !.onHand = (@ + before[k]) - after[k]]]
SellArchived(before, after) ==
    /\ \A k \in Item : before[k] # after[k] => stock[k].onHand + before[k] >= after[k]
    /\ stock' = [k \in Item |-> [stock[k] EXCEPT !.onHand = (@ + before[k]) - after[k]]]

\* change_stock(): what is used leaves the shelf, what is returned comes back.
ChangeStock(before, after) ==
    /\ \A k \in Item : before[k] # after[k] =>
         ~stock[k].archived /\ stock[k].onHand + before[k] >= after[k]
    /\ stock' = [k \in Item |-> [stock[k] EXCEPT !.onHand = (@ + before[k]) - after[k]]]

\* create_invoice() locks nothing that another request waits for.
CreateDraft(i, p) ==
    /\ doc[i].state = "absent"
    /\ {Tenant, Client} \cap UNION {held[t] : t \in Session} = {}
    /\ doc' = [doc EXCEPT ![i] = [Absent EXCEPT !.state = "draft", !.period = p]]
    /\ UNCHANGED <<numbers, stock, contract, schedule, session, mails>>

CreateLine(s, q) ==
    LET i == request[s].invoice
        k == request[s].item
        op == request[s].op
        used == [doc[i].used EXCEPT ![k] = IF op = "sell_stock" THEN q ELSE 0]
    IN  /\ op \in {"create_line", "sell_stock"} /\ Commit(s, op)
        /\ IsDraft(i) /\ k \notin Lines(i)
        /\ doc' = [doc EXCEPT ![i].quantity[k] = q, ![i].used = used]
        /\ ChangeStock(doc[i].used, used)
        /\ UNCHANGED <<numbers, contract, schedule>>

\* q = 0 is delete_line().
ChangeLine(s, q) ==
    LET i == request[s].invoice
        k == request[s].item
        used == [doc[i].used EXCEPT ![k] = IF @ > 0 THEN q ELSE 0]
    IN  /\ Commit(s, IF q = 0 THEN "delete_line" ELSE "update_line")
        /\ IsDraft(i) /\ doc[i].quantity[k] \notin {0, q}
        /\ doc' = [doc EXCEPT ![i].quantity[k] = q, ![i].used = used]
        /\ ChangeStock(doc[i].used, used)
        /\ UNCHANGED <<numbers, contract, schedule>>

Redate(s, p) ==
    LET i == request[s].invoice IN
    /\ Commit(s, "redate")
    /\ doc' = [doc EXCEPT ![i].period = p]
    /\ UNCHANGED <<numbers, stock, contract, schedule>>

DeleteInvoice(s) ==
    LET i == request[s].invoice IN
    /\ Commit(s, "delete")
    /\ ChangeStock(doc[i].used, Nothing)
    /\ doc' = [doc EXCEPT ![i] = Absent]
    /\ UNCHANGED <<numbers, contract, schedule>>

WithdrawRecurringDraft(s) ==
    /\ Commit(s, "withdraw")
    /\ doc' = [doc EXCEPT ![request[s].invoice].withdrawn = TRUE]
    /\ UNCHANGED <<numbers, stock, contract, schedule>>

-----------------------------------------------------------------------------
(* Issuing and what follows it. *)

\* Mutant: the counter runs on in a new period.
Continue(series, p) == [numbers.series[series] EXCEPT !.period = p]

\* The counter as the issue finds it: at 1 in a period it has not seen.
Counter(series, p) ==
    LET c == numbers.series[series] IN
    IF series.reset /\ c.period # p THEN [period |-> p, next |-> 1] ELSE c

\* render_invoice_number(): a number without a date does not tell its period,
\* and no number tells whether its series restarts.
Rendered(n) ==
    <<n.series.prefix, IF n.series.dated THEN n.period ELSE 0, n.sequence>>
Issued == {i \in Invoice : doc[i].state = "issued"}
CreditsOf(i) == {c \in Issued : doc[c].kind = "credit" /\ doc[c].source = i}
SumOf(f, S) == MapThenSumSet(LAMBDA x : f[x], S)
Amount(i)   == SumOf(doc[i].quantity, Item)
Credited(i) == SumOf([c \in Invoice |-> Amount(c)], CreditsOf(i))

\* Mutant: the credit is compared with the invoice, not with what is left of it.
CreditableOnce(i) == LET from == doc[i].source IN
    ~doc[from].voided /\ Amount(i) <= Amount(from)

Creditable(i) ==
    LET from == doc[i].source IN
    /\ ~doc[from].voided
    /\ Amount(i) + Credited(from) <= Amount(from)

IssueInvoice(s) ==
    LET i == request[s].invoice
        series == SeriesOf(numbers.setting, doc[i].kind)
        counter == Counter(series, doc[i].period)
        number == [series |-> series, period |-> doc[i].period, sequence |-> counter.next]
    IN  /\ Commit(s, "issue")
        /\ IsDraft(i) /\ Lines(i) # {}
        /\ series.reset => doc[i].period >= numbers.series[series].period
        /\ counter.next <= MaxSequence
        /\ doc[i].kind = "credit" => Creditable(i)
        /\ \A j \in Issued : Rendered(doc[j].number) # Rendered(number)
        /\ doc' = [doc EXCEPT ![i].state = "issued", ![i].number = number]
        /\ numbers' = [numbers EXCEPT !.series[series] =
                         [counter EXCEPT !.next = @ + 1]]
        /\ UNCHANGED <<stock, contract, schedule>>

\* configure_issue_settings(): a series once used is found again as it was left.
ConfigureIssueSettings(s) ==
    /\ Commit(s, "configure")
    /\ \E k \in Setting : numbers' = [numbers EXCEPT !.setting = k]
    /\ UNCHANGED <<doc, stock, contract, schedule>>

\* Replacements and credit notes copy the lines, without their claim on the stock.
CreateInvoiceFromIssued(s, i, p) ==
    LET from == request[s].invoice IN
    /\ Commit(s, "follow_up")
    /\ doc[i].state = "absent"
    /\ \E kind \in {"supplement", "replacement", "credit"} :
          doc' = [doc EXCEPT ![i] =
                    [Absent EXCEPT !.state = "draft", !.source = from, !.period = p,
                       !.kind = IF kind = "credit" THEN "credit" ELSE "invoice",
                       !.quantity = IF kind = "supplement" THEN Nothing ELSE doc[from].quantity]]
    /\ UNCHANGED <<numbers, stock, contract, schedule>>

VoidInvoice(s) ==
    LET i == request[s].invoice IN
    /\ Commit(s, "void")
    /\ doc[i].deliveries = 0
    /\ CreditsOf(i) = {}
    /\ doc' = [doc EXCEPT ![i].voided = TRUE]
    /\ UNCHANGED <<numbers, stock, contract, schedule>>

\* The mail is accepted; recording it asks for the client's row.  When the
\* answer is lost the request aborts.
Mail(s) ==
    LET i == request[s].invoice IN
    /\ request[s].op = "deliver" /\ todo[s] = <<>>
    /\ mailed[i] < MaxMails
    /\ mailed' = [mailed EXCEPT ![i] = @ + 1]
    /\ request' = [request EXCEPT ![s].op = "delivered"]
    /\ todo' = [todo EXCEPT ![s] = <<Client>>]
    /\ UNCHANGED <<rows, held, undone>>

RecordDelivery(s) ==
    /\ Commit(s, "delivered")
    /\ doc' = [doc EXCEPT ![request[s].invoice].deliveries = @ + 1]
    /\ UNCHANGED <<numbers, stock, contract, schedule>>

-----------------------------------------------------------------------------
(* Stock and the recurring schedule. *)

ReceiveStock(s) ==
    LET k == request[s].item IN
    /\ Commit(s, "receive")
    /\ ~stock[k].archived /\ stock[k].received < MaxStock
    /\ stock' = [stock EXCEPT ![k].onHand = @ + 1, ![k].received = @ + 1]
    /\ UNCHANGED <<doc, numbers, contract, schedule>>

ArchiveStockItem(s) ==
    LET k == request[s].item IN
    /\ Commit(s, "archive")
    /\ \A i \in Invoice : doc[i].state = "draft" => k \notin Drawn(i)
    /\ stock' = [stock EXCEPT ![k].archived = TRUE]
    /\ UNCHANGED <<doc, numbers, contract, schedule>>

UpdateCost(s) ==
    /\ Commit(s, "edit_source")
    /\ contract < MaxSource
    /\ contract' = contract + 1
    /\ UNCHANGED <<doc, numbers, stock, schedule>>

Latest == schedule.terms[Len(schedule.terms)]

Enroll(s, p) ==
    /\ Commit(s, "enroll")
    /\ schedule.terms = <<>>
    /\ schedule' = [schedule EXCEPT !.enabled = TRUE,
                                    !.terms = <<[from |-> p, source |-> contract]>>]
    /\ UNCHANGED <<doc, numbers, stock, contract>>

\* Mutant: amending what is already billed.
AmendBilled(p) == schedule.enabled /\ p > Latest.from

Amendable(p) ==
    /\ schedule.enabled
    /\ p > Latest.from
    /\ \A q \in Period : schedule.claims[q] # Unclaimed => p > q

AmendTerms(s, p) ==
    /\ Commit(s, "amend")
    /\ Amendable(p) /\ Len(schedule.terms) < MaxTerms
    /\ schedule' = [schedule EXCEPT
                      !.terms = Append(@, [from |-> p, source |-> contract])]
    /\ UNCHANGED <<doc, numbers, stock, contract>>

\* _terms_for_start(): the latest version that has begun.
InForce(p) == Max({0} \cup {v \in DOMAIN schedule.terms : schedule.terms[v].from <= p})

\* A second generation finds the claim and writes nothing.
GenerateRecurringDraft(s, i, p) ==
    /\ Commit(s, "generate")
    /\ doc[i].state = "absent"
    /\ schedule.claims[p] = Unclaimed
    /\ schedule.enabled /\ InForce(p) > 0
    /\ schedule.terms[InForce(p)].source = contract
    /\ \E k \in Item :
          doc' = [doc EXCEPT ![i] = [Absent EXCEPT !.state = "draft", !.period = p,
                                       !.quantity[k] = 1, !.claimed = k]]
    /\ schedule' = [schedule EXCEPT
                      !.claims[p] = [invoice |-> i, version |-> InForce(p)]]
    /\ UNCHANGED <<numbers, stock, contract>>

StopSchedule(s) ==
    /\ Commit(s, "stop")
    /\ schedule' = [schedule EXCEPT !.enabled = FALSE]
    /\ UNCHANGED <<doc, numbers, stock, contract>>

-----------------------------------------------------------------------------

Step(s) ==
    \/ \E i \in Invoice, op \in DraftOps, k \in Item \cup {None} : BeginOnDraft(s, op, i, k)
    \/ \E i \in Invoice, op \in IssuedOps : BeginOnIssued(s, op, i)
    \/ \E op \in OtherOps, k \in Item \cup {None} : BeginOther(s, op, k)
    \/ Lock(s)
    \/ Abort(s)
    \/ \E q \in 1..MaxQuantity : CreateLine(s, q)
    \/ \E q \in 0..MaxQuantity : ChangeLine(s, q)
    \/ \E p \in Period : Redate(s, p) \/ Enroll(s, p) \/ AmendTerms(s, p)
    \/ DeleteInvoice(s) \/ WithdrawRecurringDraft(s)
    \/ IssueInvoice(s) \/ ConfigureIssueSettings(s) \/ VoidInvoice(s)
    \/ \E i \in Invoice, p \in Period :
          CreateInvoiceFromIssued(s, i, p) \/ GenerateRecurringDraft(s, i, p)
    \/ Mail(s) \/ RecordDelivery(s)
    \/ ReceiveStock(s) \/ ArchiveStockItem(s) \/ UpdateCost(s) \/ StopSchedule(s)

Next ==
    \/ \E i \in Invoice, p \in Period : CreateDraft(i, p)
    \/ \E s \in Session : Step(s)

Spec == Init /\ [][Next]_vars

-----------------------------------------------------------------------------
(* Properties. *)

\* TD-RISK-064: the numbers issued in a series, or in a period of it when it
\* restarts, run from 1 without a gap or a repetition, whatever was issued,
\* refused, aborted, dated back or reconfigured in between.
NumbersAreGapless ==
    LET issued == Issued IN
    \A r \in Series, p \in Period :
        LET series == {i \in issued : /\ doc[i].number.series = r
                                      /\ r.reset => doc[i].number.period = p}
        IN  {doc[i].number.sequence : i \in series} = 1..Cardinality(series)

\* What was issued, voided or withdrawn never changes but to be voided or to
\* count a delivery: a request that began on the draft does not reach it.
FinalDocumentsAreFrozen ==
    [][\A i \in Invoice : doc[i].state = "issued" \/ doc[i].withdrawn =>
         /\ doc'[i] = [doc[i] EXCEPT !.voided = doc'[i].voided,
                                     !.deliveries = doc'[i].deliveries]
         /\ doc[i].voided => doc'[i].voided
         /\ doc'[i].deliveries >= doc[i].deliveries]_vars

\* Credits never exceed the invoice, although the drafts of several credit
\* notes are open together.  A voided invoice has none; it was never mailed,
\* but by a request that failed after its mail was accepted, and no request is
\* about to record a mail of it.
CorrectionsExclude ==
    /\ \A i \in Issued : Credited(i) <= Amount(i)
    /\ \A i \in Issued : doc[i].voided =>
         CreditsOf(i) = {} /\ doc[i].deliveries = 0 /\ (mailed[i] > 0 => i \in undone)
    /\ \A s \in Session : request[s].op = "delivered" => ~doc[request[s].invoice].voided

\* What was received is on the shelf or on an invoice, and no draft holds units
\* of an archived item, which could never be returned.
StockIsConserved ==
    \A k \in Item :
        /\ stock[k].onHand + SumOf([i \in Invoice |-> doc[i].used[k]], Invoice)
             = stock[k].received
        /\ stock[k].archived =>
             \A i \in Invoice : doc[i].state = "draft" => k \notin Drawn(i)

\* A claimed period keeps one document of its own, which is never deleted and
\* never loses the line it bills, under the terms in force at the period's
\* start, also after an amendment.
ClaimsKeepTheirTerms ==
    \A p \in Period : LET claim == schedule.claims[p] IN
        claim # Unclaimed =>
            /\ claim.version = InForce(p)
            /\ doc[claim.invoice].state # "absent"
            /\ doc[claim.invoice].claimed \in Lines(claim.invoice)
            /\ \A q \in Period \ {p} : schedule.claims[q].invoice # claim.invoice

\* The rows s asks for next, and those of them that t has locked.
Wanted(s) == IF todo[s] # <<>> THEN {Head(todo[s])} ELSE Referenced(request[s].op)
WantedOf(s, t) == Wanted(s) \cap held[t]

Circle(s, t) == s # t /\ WantedOf(s, t) # {} /\ WantedOf(t, s) # {}

\* s asks for the tenant's row, which t locked to issue, correct or mail.
OverTenant(s, t) == Tenant \in WantedOf(s, t)

\* s has locked a line to change or delete it, and asks for its invoice, where
\* t waits for the line, to delete it, or for the client, locked with the line.
OverLine(s, t) ==
    LET i == request[s].invoice
        k == request[s].item
    IN  /\ request[s].op \in {"update_line", "delete_line"}
        /\ Of(i) \in WantedOf(s, t)
        /\ WantedOf(t, s) \subseteq {LineOf(i, k), Client}

\* s deletes a draft and has returned units of an item t waits for; it asks at
\* COMMIT for the client, or for a second item, which t has.
OverStock(s, t) ==
    /\ request[s].op = "delete"
    /\ \E k \in Item : Stock(k) \in WantedOf(t, s)
    /\ \/ request[t].op \in LineOps /\ Client \in WantedOf(s, t)
       \/ request[t].op = "delete" /\ \E k \in Item : Stock(k) \in WantedOf(s, t)

\* ("All source writers lock contract before cost; keep that order before
\* locking the schedule.")  Two requests wait for each other only over the
\* tenant's row, over a line and its invoice, or over stock that the deletion
\* of a draft returned.
CirclesAreKnown ==
    \A s, t \in Session : Circle(s, t) =>
        \/ OverTenant(s, t) \/ OverTenant(t, s)
        \/ OverLine(s, t)   \/ OverLine(t, s)
        \/ OverStock(s, t)  \/ OverStock(t, s)

=============================================================================
