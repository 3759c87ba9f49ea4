---------------------------- MODULE MCInvoiceLedger ----------------------------
EXTENDS InvoiceLedger, TLC

CONSTANTS p1, p2, i1, i2, i3, k1, k2

\* Numbers that restart each year, and such that do not, under one prefix.
Settings == {[invoice |-> "INV", credit |-> "CR", dated |-> TRUE, reset |-> r] : r \in BOOLEAN}

Symmetric == Permutations(Session) \cup Permutations(Invoice)

Doing(ops) == {request[s].op : s \in Session} \subseteq ops \cup {"none"}
Docs == {i \in Invoice : doc[i] # Absent}
NoStock == \A k \in Item : stock[k].received = 0 /\ ~stock[k].archived
Unscheduled == schedule.terms = <<>> /\ contract = 1

\* No more than so many lines of a draft, and units of a line.
Small(lines, units) ==
    \A i \in Docs : Cardinality(Lines(i)) <= lines /\ \A k \in Item : doc[i].quantity[k] <= units

\* The items something was done with.
Touched == {k \in Item : \/ stock[k].received > 0 \/ stock[k].archived
                         \/ \E i \in Invoice : k \in Lines(i)
                         \/ \E s \in Session : request[s].item = k}

Plain(i) == doc[i].source = None /\ ~doc[i].voided /\ mailed[i] = 0

\* The requests that meet are of one focus at a time: two invoices and their
\* mails, and a third document when it is issued beside the two; two drafts
\* that sell one item; two drafts that sell two; a recurring schedule
\* and its drafts.
Billing ==
    /\ NoStock /\ Unscheduled /\ Small(1, 1) /\ Touched \subseteq {k1}
    /\ Doing({"create_line", "redate", "delete", "issue", "configure", "delivered"} \cup IssuedOps)
    /\ Cardinality(Docs) = 3 =>
         /\ Doing({"issue", "void"}) \/ Doing({"configure"})
         /\ \A i \in Invoice : mailed[i] = 0
         /\ numbers.setting.reset \/ \A i \in Invoice : doc[i].period = 1
Selling ==
    /\ Unscheduled /\ ~numbers.setting.reset /\ Touched \subseteq {k1}
    /\ Cardinality(Docs) <= 2 /\ \A i \in Docs : Plain(i)
    /\ Doing(DraftOps \cup {"receive", "archive"})
SellingTwo ==
    /\ Unscheduled /\ ~numbers.setting.reset /\ Small(2, 1)
    /\ \A k \in Item : ~stock[k].archived
    /\ Cardinality(Docs) <= 2
    /\ \A i \in Docs : Plain(i) /\ doc[i].state = "draft" /\ doc[i].period = 1
    /\ \/ Doing(LineOps \cup {"delete"})
       \/ Docs = {} /\ Doing({"receive"})
Recurring ==
    /\ NoStock /\ ~numbers.setting.reset /\ Small(1, 2) /\ Touched \subseteq {k1}
    /\ Cardinality(Docs) <= 2 /\ \A i \in Docs : Plain(i) /\ doc[i].claimed # None
    /\ Doing({"issue", "withdraw", "delete", "update_line", "delete_line",
              "edit_source", "enroll", "amend", "generate", "stop"})
Focus == Billing \/ Selling \/ SellingTwo \/ Recurring

=============================================================================
