----------------------------- MODULE Catalogue ------------------------------
(***************************************************************************)
(* The products on sale: UpsertProduct, SeedDefaults and the handlers that *)
(* edit products, and what a customer who buys one is answered with        *)
(* (internal/services/payment_service.go, internal/handlers/handlers.go).  *)
(* PaymentOrders follows an order; here only its price and plan matter.    *)
(*                                                                         *)
(* A product is its code: rows are never deleted or given another code.    *)
(* Its offer is the plan it sells, its price and its texts.                *)
(* Requests that validation refuses change nothing and are no steps.       *)
(***************************************************************************)
EXTENDS Integers

CONSTANTS
    Codes,          \* product codes
    DefaultCodes,   \* those that SeedDefaults inserts
    Offers,         \* offers that an administrator makes
    FreeOffer,      \* the offer of a default product: its price is nothing
    Keep,           \* a field that a PATCH does not mention
    Admins,         \* goroutines that serve an administrator's request
    OrderTTL,       \* the five minutes of an order, in ticks
    MaxEdits,       \* bound: requests of administrators
    MaxRestarts,    \* bound: restarts
    MaxClock        \* bound: the last instant

ASSUME CatalogueAssumption ==
    /\ DefaultCodes \subseteq Codes
    /\ Keep \notin Offers \cup {FreeOffer} /\ Keep \notin {"active", "disabled"}
    /\ {OrderTTL, MaxEdits, MaxRestarts, MaxClock} \subseteq Nat

Statuses == {"active", "disabled"}
Product == [offer : Offers \cup {FreeOffer}, status : Statuses]
Unsold == [offer |-> FreeOffer, status |-> "none"]      \* no row
Edit == [offer : Offers \cup {Keep}, status : Statuses \cup {Keep}]

VARIABLES
    products,   \* payment_products, by code
    editor,     \* what each administrator's request is doing, and its input
    wanted,     \* history: the products with each field as the last edit that
                \* mentioned it for that code gave it
    recoded,    \* history: codes whose fields came from another product, by
                \* an edit of that product that named the code
    crossed,    \* history: an edit began while another was served
    edits, restarts,
    order,      \* the customer's pending order for each code that may be shown again
    shopper,    \* what the customer's request is doing, and the row it read;
                \* once it is served, until the next tick: what it showed
    lastStale,  \* history: when each code's row last changed, or an order of
                \* its former row was inserted
    clock

adminVars == <<products, editor, wanted, recoded, crossed, edits, restarts>>
shopVars == <<order, shopper>>
catalogueVars == <<adminVars, shopVars, lastStale, clock>>

Exists(c) == products[c] # Unsold
NoEditor == [pc |-> "idle"]
NoShopper == [pc |-> "idle"]
NoOrder == [row |-> Unsold, expires |-> 0]
Never == 0 - OrderTTL - 1

\* DefaultPaymentProducts: on sale at once, and for nothing.
Seed(rows) == [c \in Codes |-> IF c \in DefaultCodes /\ rows[c] = Unsold
                THEN [offer |-> FreeOffer, status |-> "active"] ELSE rows[c]]

CatalogueInit ==
    /\ products = Seed([c \in Codes |-> Unsold]) /\ wanted = products /\ recoded = {}
    /\ editor = [a \in Admins |-> NoEditor] /\ crossed = FALSE /\ edits = 0 /\ restarts = 0
    /\ order = [c \in Codes |-> NoOrder] /\ shopper = NoShopper
    /\ lastStale = [c \in Codes |-> Never]
    /\ clock = 0

-----------------------------------------------------------------------------
(* Administrators *)

\* The fields of a row that an edit sets, and the others as they were.
Edited0(row, e) ==                                      \* mutant: puts the product on sale
    [offer |-> IF e.offer = Keep THEN row.offer ELSE e.offer,
     status |-> IF e.status = Keep THEN "active" ELSE e.status]
Edited(row, e) ==
    [offer |-> IF e.offer = Keep THEN row.offer ELSE e.offer,
     status |-> IF e.status = Keep THEN row.status ELSE e.status]

Asks(a, source, target, input, e) ==
    /\ editor[a] = NoEditor /\ edits < MaxEdits /\ edits' = edits + 1
    /\ editor' = [editor EXCEPT ![a] = [pc |-> "find", source |-> source, target |-> target,
                                        input |-> input, edit |-> e]]
    /\ crossed' = (crossed \/ \E b \in Admins : editor[b] # NoEditor)
    /\ UNCHANGED <<products, wanted, recoded, restarts, shopVars, lastStale, clock>>

\* POST: every field is given.
Post(a, c, row) == Asks(a, c, c, row, row)

\* PATCH: the product's row is read by its id, and the request's fields
\* replace the copy's.  The request may name another code: then that product
\* is created, or gets every field that is not mentioned from this one.
Patch(a, c, target, e) == Exists(c) /\ Asks(a, c, target, Edited(products[c], e), e)

\* UpsertProduct: is there a row of the code?
UpsertFind(a) ==
    /\ editor[a].pc = "find"
    /\ editor' = [editor EXCEPT ![a].pc = IF Exists(editor[a].target) THEN "save" ELSE "insert"]
    /\ UNCHANGED <<products, wanted, recoded, crossed, edits, restarts, shopVars, lastStale, clock>>

Merged(row, e) == [f \in {"offer", "status"} |-> IF e[f] = Keep THEN row[f] ELSE e[f]]
MentionsAll(e) == e.offer # Keep /\ e.status # Keep

\* It is saved with every field of the input, or inserted.  An edit was meant
\* for the product of its code, and one of a new code is a copy of the source.
Writes(a) ==
    LET c == editor[a].target source == editor[a].source e == editor[a].edit
    IN /\ products' = [products EXCEPT ![c] = editor[a].input]
       /\ wanted' = [wanted EXCEPT ![c] = Merged(wanted[IF Exists(c) THEN c ELSE source], e)]
       /\ recoded' = IF MentionsAll(e) THEN recoded \ {c}
                     ELSE IF source \in recoded \/ (source # c /\ Exists(c)) THEN recoded \cup {c}
                     ELSE recoded
       /\ lastStale' = [lastStale EXCEPT ![c] = clock]

UpsertSave(a) ==
    /\ \/ editor[a].pc = "save"
       \/ editor[a].pc = "insert" /\ ~ Exists(editor[a].target)
    /\ Writes(a)
    /\ editor' = [editor EXCEPT ![a] = NoEditor]
    /\ UNCHANGED <<crossed, edits, restarts, shopVars, clock>>

\* The unique index refuses a second row of the code; and any statement may
\* fail.
UpsertFails(a) ==
    /\ editor[a].pc # "idle"
    /\ editor' = [editor EXCEPT ![a] = NoEditor]
    /\ UNCHANGED <<products, wanted, recoded, crossed, edits, restarts, shopVars, lastStale, clock>>

\* The server starts again: its requests are gone, and missing default
\* products are inserted.
Restart ==
    /\ restarts < MaxRestarts /\ restarts' = restarts + 1
    /\ products' = Seed(products)
    /\ editor' = [a \in Admins |-> NoEditor] /\ shopper' = NoShopper
    /\ UNCHANGED <<wanted, recoded, crossed, edits, order, lastStale, clock>>

-----------------------------------------------------------------------------
(* A customer *)

\* QuoteOrder: the product is on sale.
Quote(c) ==
    /\ shopper.pc # "order" /\ products[c].status = "active"
    /\ shopper' = [pc |-> "order", code |-> c, row |-> products[c]]
    /\ UNCHANGED <<adminVars, order, lastStale, clock>>

\* findReusablePendingOrder: an order that has not expired is shown again,
\* whatever its price and plan.
Live0(c) == order[c] # NoOrder                          \* mutant: forgets the expiry
Live(c) == order[c] # NoOrder /\ order[c].expires > clock

Shows(row) == shopper' = [pc |-> "shown", code |-> shopper.code, row |-> shopper.row, sold |-> row]

Reuse ==
    /\ shopper.pc = "order" /\ Live(shopper.code)
    /\ Shows(order[shopper.code].row)
    /\ UNCHANGED <<adminVars, order, lastStale, clock>>

\* CreateOrder: the order has the price and the plan that were quoted.  One
\* for which the provider gives no QR code is not shown again, and hides the
\* former ones.
Order ==
    LET c == shopper.code
    IN /\ shopper.pc = "order" /\ ~ Live(c)
       /\ \E made \in {NoOrder, [row |-> shopper.row, expires |-> clock + OrderTTL]} :
            order' = [order EXCEPT ![c] = made]
       /\ Shows(shopper.row)
       /\ lastStale' = IF products[c] # shopper.row THEN [lastStale EXCEPT ![c] = clock] ELSE lastStale
       /\ UNCHANGED <<adminVars, clock>>

\* The order is paid, cancelled or closed, and shown no more.
Settle(c) ==
    /\ order[c] # NoOrder /\ order' = [order EXCEPT ![c] = NoOrder]
    /\ UNCHANGED <<adminVars, shopper, lastStale, clock>>

ClockTicks ==
    /\ clock < MaxClock /\ clock' = clock + 1
    /\ shopper' = IF shopper.pc = "shown" THEN NoShopper ELSE shopper
    /\ UNCHANGED <<adminVars, order, lastStale>>

CatalogueNext ==
    \/ \E a \in Admins :
        \/ \E c \in Codes, row \in [offer : Offers, status : Statuses] : Post(a, c, row)
        \/ \E c, target \in Codes, e \in Edit : Patch(a, c, target, e)
        \/ UpsertFind(a) \/ UpsertSave(a) \/ UpsertFails(a)
    \/ Restart
    \/ \E c \in Codes : Quote(c) \/ Settle(c)
    \/ Reuse \/ Order
    \/ ClockTicks

CatalogueSpec == CatalogueInit /\ [][CatalogueNext]_catalogueVars

-----------------------------------------------------------------------------
\* Every row, copy and order has its type.
CatalogueTypeOK ==
    /\ products \in [Codes -> Product \cup {Unsold}] /\ wanted \in [Codes -> Product \cup {Unsold}]
    /\ editor \in [Admins -> [pc : {"find", "save", "insert"}, source : Codes, target : Codes,
                              input : Product, edit : Edit] \cup {NoEditor}]
    /\ order \in [Codes -> [row : Product \cup {Unsold}, expires : Nat]]
    /\ shopper \in [pc : {"order"}, code : Codes, row : Product]
            \cup [pc : {"shown"}, code : Codes, row : Product, sold : Product] \cup {NoShopper}
    /\ lastStale \in [Codes -> Int] /\ crossed \in BOOLEAN /\ recoded \subseteq Codes
    /\ {edits, restarts, clock} \subseteq Nat

\* Until two edits overlap, a product has in each field what the last edit
\* that mentioned the field gave it: a PATCH of one field, a failed request
\* and a restart undo nothing, and no edit of one product shows in another.
\* The exception is a PATCH that names the code of a second product: it
\* overwrites all the fields of that one, until they are all given anew.
EditsKept == ~ crossed => \A c \in Codes : c \in recoded \/ products[c] = wanted[c]

\* A customer is shown the offer that was listed when he asked, or
\* an order of a former one, and of that only until OrderTTL after the change
\* or after the last order that was still made from it.
OldPricesFade ==
    shopper.pc = "shown" /\ shopper.sold # shopper.row =>
        clock < lastStale[shopper.code] + OrderTTL

=============================================================================
