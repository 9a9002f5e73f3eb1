---------------------------- MODULE OrderLedger ----------------------------
(***************************************************************************)
(* What paying for a plan promises, without requests, copies, statements,  *)
(* locks or messages: a ledger of orders, each of which is opened on fixed *)
(* terms, paid at the provider, and granted; a grant and the plan it gives *)
(* its user are one step.  An order is granted a second time only when an  *)
(* administrator has asked for it.  PaymentOrders implements the ledger    *)
(* (Ledger in that module) while requests about one order, and             *)
(* transactions about one user's plan, do not overlap.                     *)
(***************************************************************************)
EXTENDS Integers

CONSTANTS Users, Orders, Plans, Month, NoTime

VARIABLES
    bills,      \* of the orders that were opened: their terms, whether they
                \* are paid for, and whether they are granted
    plans,      \* each user's plan and how long it lasts
    asked,      \* orders an administrator asked to grant again
    assigning,  \* users whose plan an administrator is replacing
    clock

ledgerVars == <<bills, plans, asked, assigning, clock>>

Free == [plan |-> "free", until |-> NoTime]

\* What is left of a plan at an instant.
Left(plan, t) == IF plan.until # NoTime /\ plan.until < t THEN Free ELSE plan

LedgerInit ==
    /\ bills = [o \in {} |-> {}]
    /\ plans = [u \in Users |-> Free]
    /\ asked = {} /\ assigning = {} /\ clock = 0

\* One order more, on any terms; it is neither paid nor granted.
Open(o) ==
    /\ o \notin DOMAIN bills
    /\ DOMAIN bills' = DOMAIN bills \cup {o}
    /\ bills' = [q \in DOMAIN bills' |-> IF q = o THEN bills'[o] ELSE bills[q]]
    /\ bills'[o].terms.user \in Users /\ ~ bills'[o].paid /\ ~ bills'[o].granted
    /\ UNCHANGED <<plans, asked, assigning, clock>>

Collect(o) ==
    /\ bills' = [bills EXCEPT ![o].paid = TRUE]
    /\ UNCHANGED <<plans, asked, assigning, clock>>

\* The ends an order may give its user's plan: an upgrade's is in its terms;
\* a renewal's is that of the plan it renews and the months bought; any other
\* is counted from the instant at which the grant began.
Ends(terms, plan, t) ==
    LET fresh(months) == {since + months * Month : since \in 0..t}
    IN CASE terms.mode = "upgrade_diff_all"      -> {terms.base}
         [] terms.mode = "upgrade_replace_month" -> fresh(1)
         [] terms.mode = "standard" ->
                IF plan.plan = terms.plan /\ plan.until > t
                THEN {plan.until + terms.months * Month} ELSE fresh(terms.months)

Grant(o) ==
    LET terms == bills[o].terms
    IN /\ bills[o].paid /\ (bills[o].granted => o \in asked)
       /\ bills' = [bills EXCEPT ![o].granted = TRUE]
       /\ asked' = asked \ {o}
       /\ \E e \in Ends(terms, plans[terms.user], clock) :
            plans' = [plans EXCEPT ![terms.user] = Left([plan |-> terms.plan, until |-> e], clock)]
       /\ UNCHANGED <<assigning, clock>>

\* An administrator asks, and the request may come to nothing.
Ask(o) ==
    /\ bills[o].paid /\ asked' = asked \cup {o}
    /\ UNCHANGED <<bills, plans, assigning, clock>>

Withdraw(o) ==
    /\ asked' = asked \ {o}
    /\ UNCHANGED <<bills, plans, assigning, clock>>

\* An administrator replaces a plan in two steps; the second may not come.
Revoke(u) ==
    /\ plans' = [plans EXCEPT ![u] = Free] /\ assigning' = assigning \cup {u}
    /\ UNCHANGED <<bills, asked, clock>>

Assign(u) ==
    /\ u \in assigning /\ plans[u] = Free
    /\ plans' = [plans EXCEPT ![u] = plans'[u]] /\ plans'[u].plan \in Plans
    /\ assigning' = assigning \ {u}
    /\ UNCHANGED <<bills, asked, clock>>

Abandon(u) ==
    /\ assigning' = assigning \ {u}
    /\ UNCHANGED <<bills, plans, asked, clock>>

\* Plans lapse by the clock and by nothing else.
Advance ==
    /\ clock' = clock + 1
    /\ plans' = [u \in Users |-> Left(plans[u], clock')]
    /\ UNCHANGED <<bills, asked, assigning>>

LedgerNext ==
    \/ \E o \in Orders : Open(o)
    \/ \E o \in DOMAIN bills : Collect(o) \/ Grant(o) \/ Ask(o) \/ Withdraw(o)
    \/ \E u \in Users : Revoke(u) \/ Assign(u) \/ Abandon(u)
    \/ Advance

LedgerSpec == LedgerInit /\ [][LedgerNext]_ledgerVars

=============================================================================
