-------------------------- MODULE Catalogue_proofs --------------------------
(***************************************************************************)
(* Products keep what their edits gave them, for any products, offers and  *)
(* administrators, and any number of edits, failures and restarts.         *)
(***************************************************************************)
EXTENDS Catalogue, TLAPS

-----------------------------------------------------------------------------
(***************************************************************************)
(* The inductive invariant.  Until two edits overlap one administrator's   *)
(* request is under way at most, and what it is going to save are the      *)
(* fields it was asked for and the others as its product has them.         *)
(***************************************************************************)
Row == Product \cup {Unsold}
Busy == [pc : {"find", "save", "insert"}, source : Codes, target : Codes,
         input : Product, edit : Edit]

RowsTyped ==
    /\ products \in [Codes -> Row] /\ wanted = [c \in Codes |-> wanted[c]]
    /\ editor \in [Admins -> Busy \cup {NoEditor}]
    /\ crossed \in BOOLEAN /\ recoded \subseteq Codes

\* Default products are never missing, so a restart inserts none.
Seeded == \A c \in DefaultCodes : products[c] # Unsold

\* The rows' fields as they are after the edit of a request.
Meant(job) == Edited(products[job.source], job.edit)

AsWanted == \A c \in Codes : c \in recoded \/ products[c] = wanted[c]
OneEditor == \A a, b \in Admins : a # b => editor[a] = NoEditor \/ editor[b] = NoEditor
InputsMeant == \A a \in Admins : editor[a] # NoEditor => editor[a].input = Meant(editor[a])

CInv ==
    /\ RowsTyped /\ Seeded
    /\ ~ crossed => AsWanted /\ OneEditor /\ InputsMeant

-----------------------------------------------------------------------------
LEMMA RowsDiffer == Unsold \notin Product
BY DEF Product, Unsold, Statuses

LEMMA EditedTyped ==
    ASSUME NEW row \in Product, NEW e \in Edit
    PROVE  Edited(row, e) \in Product
<1>1. /\ row.offer \in Offers \cup {FreeOffer} /\ row.status \in Statuses
      /\ e.offer \in Offers \cup {Keep} /\ e.status \in Statuses \cup {Keep}
    BY DEF Product, Edit
<1> QED BY <1>1 DEF Edited, Product

\* An edit that mentions both fields is its own row.
LEMMA FullEdit ==
    ASSUME NEW row, NEW e \in [offer : Offers, status : Statuses]
    PROVE  e \in Product /\ e \in Edit /\ Edited(row, e) = e
<1>1. e.offer \in Offers /\ e.status \in Statuses /\ e = [offer |-> e.offer, status |-> e.status]
    OBVIOUS
<1>2. e.offer # Keep /\ e.status # Keep
    BY <1>1, CatalogueAssumption DEF Statuses
<1>3. Edited(row, e) = e
    BY <1>1, <1>2 DEF Edited
<1> QED BY <1>1, <1>3 DEF Product, Edit

\* What a write wants of the row is the edit of the former one; an edit that
\* mentions every field has nothing of it.
LEMMA MergedIsEdited ==
    ASSUME NEW old, NEW e
    PROVE  /\ Merged(old, e) = Edited(old, e)
           /\ MentionsAll(e) => \A row : Edited(old, e) = Edited(row, e)
BY DEF Merged, Edited, MentionsAll

LEMMA SeedTyped ==
    ASSUME NEW rows \in [Codes -> Row]
    PROVE  /\ Seed(rows) \in [Codes -> Row]
           /\ \A c \in DefaultCodes : Seed(rows)[c] # Unsold
           /\ (\A c \in DefaultCodes : rows[c] # Unsold) => Seed(rows) = rows
<1>1. [offer |-> FreeOffer, status |-> "active"] \in Product
    BY DEF Product, Statuses
<1>2. [offer |-> FreeOffer, status |-> "active"] # Unsold
    BY <1>1, RowsDiffer
<1>3. DefaultCodes \subseteq Codes
    BY CatalogueAssumption
<1> QED BY <1>1, <1>2, <1>3 DEF Seed, Row

LEMMA InitCInv == CatalogueInit => CInv
<1> SUFFICES ASSUME CatalogueInit PROVE CInv
    OBVIOUS
<1> DEFINE none == [c \in Codes |-> Unsold]
<1>1. none \in [Codes -> Row]
    BY DEF Row
<1>2. products = Seed(none) /\ wanted = Seed(none)
    BY DEF CatalogueInit
<1>3. editor = [a \in Admins |-> NoEditor] /\ crossed = FALSE /\ recoded = {}
    BY DEF CatalogueInit
<1> HIDE DEF none
<1>4. RowsTyped
    BY <1>1, <1>2, <1>3, SeedTyped DEF RowsTyped
<1>5. Seeded
    BY <1>1, <1>2, SeedTyped DEF Seeded
<1>6. AsWanted /\ OneEditor /\ InputsMeant
    BY <1>2, <1>3 DEF AsWanted, OneEditor, InputsMeant
<1> QED BY <1>2, <1>4, <1>5, <1>6 DEF CInv

-----------------------------------------------------------------------------
(* The steps *)

\* A request begins: it is alone, or edits overlap from now on.
LEMMA AsksStep ==
    ASSUME CInv, NEW a \in Admins, NEW source \in Codes, NEW target \in Codes,
           NEW e \in Edit, NEW input \in Product,
           ~ crossed => input = Edited(products[source], e),
           Asks(a, source, target, input, e)
    PROVE  CInv'
<1> DEFINE new == [pc |-> "find", source |-> source, target |-> target, input |-> input, edit |-> e]
<1>1. /\ editor' = [editor EXCEPT ![a] = new]
      /\ crossed' = (crossed \/ \E b \in Admins : editor[b] # NoEditor)
      /\ products' = products /\ wanted' = wanted /\ recoded' = recoded
    BY DEF Asks
<1>2. new \in Busy /\ new.input = input /\ new.source = source /\ new.edit = e
    BY DEF Busy
<1> HIDE DEF new
<1>3. RowsTyped'
    BY <1>1, <1>2 DEF CInv, RowsTyped
<1>4. Seeded'
    BY <1>1 DEF CInv, Seeded
<1>5. ASSUME ~ crossed' PROVE AsWanted' /\ OneEditor' /\ InputsMeant'
    <2>1. ~ crossed /\ \A b \in Admins : editor[b] = NoEditor
        BY <1>1, <1>5 DEF CInv, RowsTyped
    <2>2. AsWanted'
        BY <1>1, <2>1 DEF CInv, AsWanted
    <2>3. editor'[a] = new /\ \A b \in Admins : b # a => editor'[b] = NoEditor
        BY <1>1, <2>1 DEF CInv, RowsTyped
    <2>4. OneEditor'
        BY <2>3 DEF OneEditor
    <2>5. new.input = Edited(products'[new.source], new.edit)
        BY <1>1, <1>2, <2>1
    <2>6. InputsMeant'
        BY <2>3, <2>5 DEF InputsMeant, Meant
    <2> QED BY <1>1, <2>2, <2>4, <2>6
<1> QED BY <1>3, <1>4, <1>5 DEF CInv

LEMMA FindStep ==
    ASSUME CInv, NEW a \in Admins, UpsertFind(a)
    PROVE  CInv'
<1> DEFINE pc == IF Exists(editor[a].target) THEN "save" ELSE "insert"
<1>1. /\ editor' = [editor EXCEPT ![a].pc = pc] /\ editor[a] # NoEditor
      /\ crossed' = crossed /\ products' = products /\ wanted' = wanted /\ recoded' = recoded
    BY DEF UpsertFind, NoEditor
<1>2. pc \in {"save", "insert"}
    OBVIOUS
<1> HIDE DEF pc
<1>3. editor[a] \in Busy
    BY <1>1 DEF CInv, RowsTyped
<1>4. /\ [editor[a] EXCEPT !.pc = pc] \in Busy
      /\ [editor[a] EXCEPT !.pc = pc].input = editor[a].input
      /\ [editor[a] EXCEPT !.pc = pc].source = editor[a].source
      /\ [editor[a] EXCEPT !.pc = pc].edit = editor[a].edit
    BY <1>2, <1>3 DEF Busy
<1>5. /\ editor'[a] = [editor[a] EXCEPT !.pc = pc]
      /\ \A b \in Admins : b # a => editor'[b] = editor[b]
    BY <1>1 DEF CInv, RowsTyped
<1>6. RowsTyped'
    BY <1>1, <1>4 DEF CInv, RowsTyped
<1>7. Seeded'
    BY <1>1 DEF CInv, Seeded
<1>8. ASSUME ~ crossed PROVE AsWanted' /\ OneEditor' /\ InputsMeant'
    <2>1. OneEditor /\ InputsMeant
        BY <1>8 DEF CInv
    <2>0. AsWanted'
        BY <1>1, <1>8 DEF CInv, AsWanted
    <2>2. OneEditor'
        BY <1>1, <1>5, <2>1 DEF OneEditor
    <2>3. InputsMeant'
        BY <1>1, <1>4, <1>5, <2>1 DEF InputsMeant, Meant
    <2> QED BY <2>0, <2>2, <2>3
<1> QED BY <1>1, <1>6, <1>7, <1>8 DEF CInv

\* The request's row is saved or inserted: it is the edit of the row that the
\* request began from, and that is what was wanted of the row but for a code
\* that is counted among the recoded ones.
LEMMA SaveStep ==
    ASSUME CInv, NEW a \in Admins, UpsertSave(a)
    PROVE  CInv'
<1> DEFINE job == editor[a]
<1>1. /\ job # NoEditor /\ Writes(a)
      /\ editor' = [editor EXCEPT ![a] = NoEditor] /\ crossed' = crossed
    BY DEF UpsertSave, NoEditor
<1>2. job \in Busy
    BY <1>1 DEF CInv, RowsTyped
<1>3. job.target \in Codes /\ job.source \in Codes /\ job.input \in Product /\ job.edit \in Edit
    BY <1>2 DEF Busy
<1>4. /\ products' = [products EXCEPT ![job.target] = job.input]
      /\ wanted' = [wanted EXCEPT ![job.target] =
            Edited(wanted[IF Exists(job.target) THEN job.target ELSE job.source], job.edit)]
      /\ recoded' = IF MentionsAll(job.edit) THEN recoded \ {job.target}
                    ELSE IF job.source \in recoded \/ (job.source # job.target /\ Exists(job.target))
                         THEN recoded \cup {job.target}
                    ELSE recoded
    BY <1>1, MergedIsEdited DEF Writes
<1>5. \A b \in Admins : editor'[b] = IF b = a THEN NoEditor ELSE editor[b]
    BY <1>1 DEF CInv, RowsTyped
<1> HIDE DEF job
<1>6. RowsTyped'
    <2>1. products' \in [Codes -> Row]
        BY <1>3, <1>4 DEF CInv, RowsTyped, Row
    <2>2. wanted' = [c \in Codes |-> wanted'[c]]
        BY <1>4 DEF CInv, RowsTyped
    <2>3. editor' \in [Admins -> Busy \cup {NoEditor}]
        BY <1>1 DEF CInv, RowsTyped
    <2>4. recoded' \subseteq Codes
        BY <1>3, <1>4 DEF CInv, RowsTyped
    <2> QED BY <1>1, <2>1, <2>2, <2>3, <2>4 DEF CInv, RowsTyped
<1>7. Seeded'
    <2>1. \A c \in Codes : products'[c] = job.input \/ products'[c] = products[c]
        BY <1>4 DEF CInv, RowsTyped
    <2>2. job.input # Unsold
        BY <1>3, RowsDiffer
    <2> QED BY <2>1, <2>2, CatalogueAssumption DEF CInv, Seeded
<1>8. ASSUME ~ crossed PROVE AsWanted' /\ OneEditor' /\ InputsMeant'
    <2>1. AsWanted /\ OneEditor /\ InputsMeant
        BY <1>8 DEF CInv
    <2>2. job.input = Edited(products[job.source], job.edit)
        BY <1>1, <2>1 DEF InputsMeant, Meant, job
    <2>3. AsWanted'
        <3> SUFFICES ASSUME NEW c \in Codes, c \notin recoded' PROVE products'[c] = wanted'[c]
            BY DEF AsWanted
        <3>1. CASE c # job.target
            <4>1. c \notin recoded
                BY <1>4, <3>1
            <4>2. products'[c] = products[c] /\ wanted'[c] = wanted[c]
                BY <1>4, <3>1 DEF CInv, RowsTyped
            <4> QED BY <2>1, <4>1, <4>2 DEF AsWanted
        <3>2. CASE c = job.target
            <4> DEFINE base == wanted[IF Exists(job.target) THEN job.target ELSE job.source]
            <4>1. products'[c] = Edited(products[job.source], job.edit)
                BY <1>4, <2>2, <3>2 DEF CInv, RowsTyped
            <4>2. wanted'[c] = Edited(base, job.edit)
                BY <1>4, <3>2 DEF CInv, RowsTyped
            <4>3. CASE MentionsAll(job.edit)
                BY <4>1, <4>2, <4>3, MergedIsEdited
            <4>4. CASE ~ MentionsAll(job.edit)
                <5>1. job.source \notin recoded /\ ~ (job.source # job.target /\ Exists(job.target))
                    BY <1>4, <3>2, <4>4
                <5>2. base = wanted[job.source]
                    BY <5>1
                <5>3. products[job.source] = wanted[job.source]
                    BY <1>3, <2>1, <5>1 DEF AsWanted
                <5> QED BY <4>1, <4>2, <5>2, <5>3
            <4> QED BY <4>3, <4>4
        <3> QED BY <3>1, <3>2
    <2>4. \A b \in Admins : editor'[b] = NoEditor
        BY <1>1, <1>5, <2>1 DEF OneEditor, job
    <2>5. OneEditor' /\ InputsMeant'
        BY <2>4 DEF OneEditor, InputsMeant
    <2> QED BY <2>3, <2>5
<1> QED BY <1>1, <1>6, <1>7, <1>8 DEF CInv

LEMMA FailStep ==
    ASSUME CInv, NEW a \in Admins, UpsertFails(a)
    PROVE  CInv'
<1>1. /\ editor' = [editor EXCEPT ![a] = NoEditor]
      /\ crossed' = crossed /\ products' = products /\ wanted' = wanted /\ recoded' = recoded
    BY DEF UpsertFails
<1>2. \A b \in Admins : editor'[b] = IF b = a THEN NoEditor ELSE editor[b]
    BY <1>1 DEF CInv, RowsTyped
<1>3. RowsTyped' /\ Seeded'
    BY <1>1 DEF CInv, RowsTyped, Seeded
<1>4. OneEditor => OneEditor'
    BY <1>2 DEF OneEditor
<1>5. InputsMeant => InputsMeant'
    BY <1>1, <1>2 DEF InputsMeant, Meant
<1>6. AsWanted => AsWanted'
    BY <1>1 DEF AsWanted
<1> QED BY <1>1, <1>3, <1>4, <1>5, <1>6 DEF CInv

LEMMA RestartStep ==
    ASSUME CInv, Restart
    PROVE  CInv'
<1>1. /\ products' = Seed(products) /\ wanted' = wanted /\ crossed' = crossed
      /\ recoded' = recoded /\ editor' = [a \in Admins |-> NoEditor]
    BY DEF Restart
<1>2. products' = products
    BY <1>1, SeedTyped DEF CInv, RowsTyped, Seeded
<1>3. RowsTyped' /\ Seeded'
    BY <1>1, <1>2 DEF CInv, RowsTyped, Seeded
<1>4. OneEditor' /\ InputsMeant'
    BY <1>1 DEF OneEditor, InputsMeant
<1>5. AsWanted => AsWanted'
    BY <1>1, <1>2 DEF AsWanted
<1> QED BY <1>1, <1>2, <1>3, <1>4, <1>5 DEF CInv

\* The customer and the clock touch no product.
LEMMA RestStep ==
    ASSUME CInv, UNCHANGED adminVars
    PROVE  CInv'
BY DEF CInv, adminVars, RowsTyped, Seeded, AsWanted, OneEditor, InputsMeant, Meant

LEMMA NextCInv == CInv /\ [CatalogueNext]_catalogueVars => CInv'
<1> SUFFICES ASSUME CInv, [CatalogueNext]_catalogueVars PROVE CInv'
    OBVIOUS
<1>1. ASSUME NEW a \in Admins, NEW c \in Codes, NEW row \in [offer : Offers, status : Statuses],
             Post(a, c, row)
      PROVE  CInv'
    <2>1. row \in Product /\ row \in Edit /\ Edited(products[c], row) = row
        BY FullEdit
    <2> QED BY <1>1, <2>1, AsksStep DEF Post
<1>2. ASSUME NEW a \in Admins, NEW c \in Codes, NEW target \in Codes, NEW e \in Edit,
             Patch(a, c, target, e)
      PROVE  CInv'
    <2>1. products[c] \in Product
        BY <1>2 DEF Patch, Exists, CInv, RowsTyped, Row
    <2>2. Edited(products[c], e) \in Product
        BY <2>1, EditedTyped
    <2>3. Asks(a, c, target, Edited(products[c], e), e)
        BY <1>2 DEF Patch
    <2> QED BY <2>2, <2>3, AsksStep
<1>3. ASSUME NEW a \in Admins, UpsertFind(a) \/ UpsertSave(a) \/ UpsertFails(a)
      PROVE  CInv'
    BY <1>3, FindStep, SaveStep, FailStep
<1>4. CASE Restart
    BY <1>4, RestartStep
<1>5. CASE UNCHANGED adminVars
    BY <1>5, RestStep
<1>6. ASSUME NEW c \in Codes, Quote(c) \/ Settle(c)
      PROVE  UNCHANGED adminVars
    BY <1>6 DEF Quote, Settle
<1>7. Reuse \/ Order \/ ClockTicks => UNCHANGED adminVars
    BY DEF Reuse, Order, ClockTicks
<1>8. UNCHANGED catalogueVars => UNCHANGED adminVars
    BY DEF catalogueVars
<1> QED BY <1>1, <1>2, <1>3, <1>4, <1>5, <1>6, <1>7, <1>8 DEF CatalogueNext

-----------------------------------------------------------------------------
\* Products keep in each field what the last edit that mentioned it gave
\* them, until two edits overlap: UpsertProduct and the PATCH handler merge a
\* request with the row it was read from, and neither a failure nor
\* SeedDefaults undoes it.  A PATCH that names another product's code is the
\* one exception: that product has the fields of the first from then on.
THEOREM ProductsKeepEdits == CatalogueSpec => []EditsKept
<1>1. CInv => EditsKept
    BY DEF CInv, AsWanted, EditsKept
<1> QED BY <1>1, InitCInv, NextCInv, PTL DEF CatalogueSpec

-----------------------------------------------------------------------------
(***************************************************************************)
(* Old prices.  An order lives no longer than OrderTTL from now, and one   *)
(* whose row is not the product's, or not what a request under way has     *)
(* quoted because the product has changed since, no longer than OrderTTL   *)
(* from that change.                                                       *)
(***************************************************************************)
Shopping == [pc : {"order"}, code : Codes, row : Product]
Showing == [pc : {"shown"}, code : Codes, row : Product, sold : Row]

ShopTyped ==
    /\ order \in [Codes -> [row : Row, expires : Nat]]
    /\ shopper \in Shopping \cup Showing \cup {NoShopper}
    /\ lastStale \in [Codes -> Int]
    /\ clock \in Nat

Fades(c) == order[c].expires <= lastStale[c] + OrderTTL

OrderFades(c) ==
    /\ lastStale[c] <= clock
    /\ order[c] # NoOrder => order[c].expires <= clock + OrderTTL
    /\ order[c] # NoOrder /\ order[c].row # products[c] => Fades(c)
    /\ shopper.pc = "order" /\ shopper.code = c /\ shopper.row # products[c] /\ order[c] # NoOrder => Fades(c)

PInv == ShopTyped /\ (\A c \in Codes : OrderFades(c)) /\ OldPricesFade

LEMMA InitPInv == CatalogueInit => PInv
<1> SUFFICES ASSUME CatalogueInit PROVE PInv
    OBVIOUS
<1>1. OrderTTL \in Nat
    BY CatalogueAssumption
<1>2. NoOrder \in [row : Row, expires : Nat] /\ Never \in Int /\ Never <= 0
    BY <1>1 DEF NoOrder, Row, Never
<1>3. /\ order = [c \in Codes |-> NoOrder] /\ shopper = NoShopper /\ clock = 0
      /\ lastStale = [c \in Codes |-> Never]
    BY DEF CatalogueInit
<1>4. ShopTyped
    BY <1>2, <1>3 DEF ShopTyped
<1>5. \A c \in Codes : OrderFades(c)
    BY <1>2, <1>3 DEF OrderFades, NoShopper
<1>6. OldPricesFade
    BY <1>3 DEF OldPricesFade, NoShopper
<1> QED BY <1>4, <1>5, <1>6 DEF PInv

\* What the invariant says of one code, number by number.
LEMMA Numbers ==
    ASSUME PInv, NEW c \in Codes
    PROVE  /\ order[c].expires \in Nat /\ lastStale[c] \in Int /\ clock \in Nat /\ OrderTTL \in Nat
           /\ OrderFades(c)
BY CatalogueAssumption DEF PInv, ShopTyped

\* An administrator's write, or a step that leaves the rows alone.
LEMMA RowsStep ==
    ASSUME PInv, UNCHANGED <<shopVars, clock>>,
           \/ UNCHANGED <<products, lastStale>>
           \/ \E c \in Codes : /\ \A d \in Codes : d # c => products'[d] = products[d]
                               /\ lastStale' = [lastStale EXCEPT ![c] = clock]
    PROVE  PInv'
<1>1. order' = order /\ shopper' = shopper /\ clock' = clock
    BY DEF shopVars
<1>2. \A c \in Codes : lastStale'[c] = clock \/ (lastStale'[c] = lastStale[c] /\ products'[c] = products[c])
    BY DEF PInv, ShopTyped
<1>3. ShopTyped'
    BY <1>1 DEF PInv, ShopTyped
<1>4. ASSUME NEW c \in Codes PROVE OrderFades(c)'
    <2>1. CASE lastStale'[c] = clock
        BY <1>1, <2>1, Numbers DEF OrderFades, Fades
    <2>2. CASE lastStale'[c] = lastStale[c] /\ products'[c] = products[c]
        BY <1>1, <2>2, Numbers DEF OrderFades, Fades
    <2> QED BY <1>2, <2>1, <2>2
<1>5. OldPricesFade'
    <2>1. SUFFICES ASSUME shopper.pc = "shown", shopper.sold # shopper.row
          PROVE  clock < lastStale'[shopper.code] + OrderTTL
        BY <1>1 DEF OldPricesFade
    <2>2. shopper.code \in Codes
        BY <2>1 DEF PInv, ShopTyped, Shopping, Showing, NoShopper
    <2>3. clock < lastStale[shopper.code] + OrderTTL
        BY <2>1 DEF PInv, OldPricesFade
    <2>4. lastStale[shopper.code] <= lastStale'[shopper.code] /\ lastStale'[shopper.code] \in Int
        BY <1>2, <2>2, Numbers DEF OrderFades
    <2> QED BY <2>2, <2>3, <2>4, Numbers
<1> QED BY <1>3, <1>4, <1>5 DEF PInv

LEMMA QuoteStep ==
    ASSUME PInv, NEW c \in Codes, RowsTyped, Quote(c)
    PROVE  PInv'
<1>1. /\ shopper' = [pc |-> "order", code |-> c, row |-> products[c]]
      /\ products[c].status = "active"
      /\ products' = products /\ order' = order /\ lastStale' = lastStale /\ clock' = clock
    BY DEF Quote, adminVars
<1>2. products[c] \in Product
    BY <1>1 DEF RowsTyped, Row, Unsold
<1>3. shopper' \in Shopping /\ shopper'.pc = "order" /\ shopper'.code = c /\ shopper'.row = products[c]
    BY <1>1, <1>2 DEF Shopping
<1>4. ShopTyped'
    BY <1>1, <1>3 DEF PInv, ShopTyped
<1>5. ASSUME NEW d \in Codes PROVE OrderFades(d)'
    BY <1>1, <1>3, Numbers DEF OrderFades, Fades
<1>6. OldPricesFade'
    BY <1>3 DEF OldPricesFade
<1> QED BY <1>4, <1>5, <1>6 DEF PInv

LEMMA SettleStep ==
    ASSUME PInv, NEW c \in Codes, Settle(c)
    PROVE  PInv'
<1>1. /\ order' = [order EXCEPT ![c] = NoOrder]
      /\ products' = products /\ shopper' = shopper /\ lastStale' = lastStale /\ clock' = clock
    BY DEF Settle, adminVars
<1>2. NoOrder \in [row : Row, expires : Nat]
    BY DEF NoOrder, Row
<1>3. ShopTyped'
    BY <1>1, <1>2 DEF PInv, ShopTyped
<1>4. ASSUME NEW d \in Codes PROVE OrderFades(d)'
    <2>1. order'[d] = NoOrder \/ order'[d] = order[d]
        BY <1>1 DEF PInv, ShopTyped
    <2> QED BY <1>1, <2>1, Numbers DEF OrderFades, Fades
<1>5. OldPricesFade'
    BY <1>1 DEF PInv, OldPricesFade
<1> QED BY <1>3, <1>4, <1>5 DEF PInv

\* The order that is shown again is alive, so if it is of a former row, or the
\* quoted row is, then that row has changed less than OrderTTL ago.
LEMMA ReuseStep ==
    ASSUME PInv, Reuse
    PROVE  PInv'
<1> DEFINE c == shopper.code
<1>1. /\ shopper.pc = "order" /\ order[c] # NoOrder /\ order[c].expires > clock
      /\ shopper' = [pc |-> "shown", code |-> c, row |-> shopper.row, sold |-> order[c].row]
      /\ products' = products /\ order' = order /\ lastStale' = lastStale /\ clock' = clock
    BY DEF Reuse, Live, Shows, adminVars
<1>2. shopper \in Shopping
    BY <1>1 DEF PInv, ShopTyped, Showing, NoShopper
<1>3. c \in Codes /\ shopper.row \in Product
    BY <1>2 DEF Shopping
<1>4. order[c].row \in Row
    BY <1>3 DEF PInv, ShopTyped
<1>5. /\ shopper' \in Showing /\ shopper'.pc = "shown" /\ shopper'.code = c
      /\ shopper'.row = shopper.row /\ shopper'.sold = order[c].row
    BY <1>1, <1>3, <1>4 DEF Showing
<1>6. ShopTyped'
    BY <1>1, <1>5 DEF PInv, ShopTyped
<1>7. ASSUME NEW d \in Codes PROVE OrderFades(d)'
    BY <1>1, <1>5, Numbers DEF OrderFades, Fades
<1>8. order[c].row # shopper.row => Fades(c)
    BY <1>1, <1>3, Numbers DEF OrderFades
<1>9. OldPricesFade'
    <2>1. order[c].row # shopper.row => clock < lastStale[c] + OrderTTL
        BY <1>1, <1>3, <1>8, Numbers DEF Fades
    <2> QED BY <1>1, <1>5, <2>1 DEF OldPricesFade
<1> QED BY <1>6, <1>7, <1>9 DEF PInv

LEMMA OrderStep ==
    ASSUME PInv, Order
    PROVE  PInv'
<1> DEFINE c == shopper.code
<1> DEFINE fresh == [row |-> shopper.row, expires |-> clock + OrderTTL]
<1>1. /\ shopper.pc = "order"
      /\ shopper' = [pc |-> "shown", code |-> c, row |-> shopper.row, sold |-> shopper.row]
      /\ \E made \in {NoOrder, fresh} : order' = [order EXCEPT ![c] = made]
      /\ lastStale' = IF products[c] # shopper.row THEN [lastStale EXCEPT ![c] = clock] ELSE lastStale
      /\ products' = products /\ clock' = clock
    BY DEF Order, Shows, adminVars
<1>2. shopper \in Shopping
    BY <1>1 DEF PInv, ShopTyped, Showing, NoShopper
<1>3. c \in Codes /\ shopper.row \in Product
    BY <1>2 DEF Shopping
<1>4. /\ fresh \in [row : Row, expires : Nat] /\ NoOrder \in [row : Row, expires : Nat]
      /\ fresh.row = shopper.row /\ fresh.expires = clock + OrderTTL
    BY <1>3, Numbers DEF NoOrder, Row
<1>5. /\ shopper' \in Showing /\ shopper'.pc = "shown"
      /\ shopper'.row = shopper.row /\ shopper'.sold = shopper.row
    BY <1>1, <1>3 DEF Showing, Row
<1>6. /\ order'[c] \in {NoOrder, fresh} /\ \A d \in Codes : d # c => order'[d] = order[d]
      /\ order' \in [Codes -> [row : Row, expires : Nat]]
    BY <1>1, <1>3, <1>4 DEF PInv, ShopTyped
<1>7. /\ lastStale' \in [Codes -> Int]
      /\ lastStale'[c] = IF products[c] # shopper.row THEN clock ELSE lastStale[c]
      /\ \A d \in Codes : d # c => lastStale'[d] = lastStale[d]
    BY <1>1, <1>3 DEF PInv, ShopTyped
<1>8. ShopTyped'
    BY <1>1, <1>5, <1>6, <1>7 DEF PInv, ShopTyped
<1> HIDE DEF fresh
<1>9. ASSUME NEW d \in Codes PROVE OrderFades(d)'
    <2>1. CASE d # c
        BY <1>1, <1>5, <1>6, <1>7, <2>1, Numbers DEF OrderFades, Fades
    <2>2. CASE d = c
        BY <1>1, <1>3, <1>4, <1>5, <1>6, <1>7, <2>2, Numbers DEF OrderFades, Fades
    <2> QED BY <2>1, <2>2
<1>10. OldPricesFade'
    BY <1>5 DEF OldPricesFade
<1> QED BY <1>8, <1>9, <1>10 DEF PInv

LEMMA TickStep ==
    ASSUME PInv, ClockTicks
    PROVE  PInv'
<1>1. /\ clock' = clock + 1 /\ products' = products /\ order' = order /\ lastStale' = lastStale
      /\ shopper' = IF shopper.pc = "shown" THEN NoShopper ELSE shopper
    BY DEF ClockTicks, adminVars
<1>2. shopper' = NoShopper \/ (shopper' = shopper /\ shopper.pc # "shown")
    BY <1>1
<1>3. ShopTyped'
    BY <1>1, <1>2 DEF PInv, ShopTyped
<1>4. ASSUME NEW c \in Codes PROVE OrderFades(c)'
    <2>1. CASE shopper' = NoShopper
        BY <1>1, <2>1, Numbers DEF OrderFades, Fades, NoShopper
    <2>2. CASE shopper' = shopper
        BY <1>1, <2>2, Numbers DEF OrderFades, Fades
    <2> QED BY <1>2, <2>1, <2>2
<1>5. OldPricesFade'
    BY <1>2 DEF OldPricesFade, NoShopper
<1> QED BY <1>3, <1>4, <1>5 DEF PInv

LEMMA RestartShop ==
    ASSUME PInv, CInv, Restart
    PROVE  PInv'
<1>1. products' = products
    BY SeedTyped DEF Restart, CInv, RowsTyped, Seeded
<1>2. shopper' = NoShopper /\ order' = order /\ lastStale' = lastStale /\ clock' = clock
    BY DEF Restart
<1>3. ShopTyped'
    BY <1>2 DEF PInv, ShopTyped
<1>4. ASSUME NEW c \in Codes PROVE OrderFades(c)'
    BY <1>1, <1>2, Numbers DEF OrderFades, Fades, NoShopper
<1>5. OldPricesFade'
    BY <1>2 DEF OldPricesFade, NoShopper
<1> QED BY <1>3, <1>4, <1>5 DEF PInv

\* An administrator's step keeps every row but the one it saves.
LEMMA AdminStep ==
    ASSUME CInv, NEW a \in Admins,
           \/ \E c, target \in Codes : \E input, e : Asks(a, c, target, input, e)
           \/ UpsertFind(a) \/ UpsertSave(a) \/ UpsertFails(a)
    PROVE  /\ UNCHANGED <<shopVars, clock>>
           /\ \/ UNCHANGED <<products, lastStale>>
              \/ \E c \in Codes : /\ \A d \in Codes : d # c => products'[d] = products[d]
                                  /\ lastStale' = [lastStale EXCEPT ![c] = clock]
<1>1. CASE \E c, target \in Codes : \E input, e : Asks(a, c, target, input, e)
    BY <1>1 DEF Asks
<1>2. CASE UpsertFind(a) \/ UpsertFails(a)
    BY <1>2 DEF UpsertFind, UpsertFails
<1>3. CASE UpsertSave(a)
    <2>1. editor[a] \in Busy
        BY <1>3 DEF UpsertSave, NoEditor, CInv, RowsTyped
    <2>2. editor[a].target \in Codes
        BY <2>1 DEF Busy
    <2>3. /\ products' = [products EXCEPT ![editor[a].target] = editor[a].input]
          /\ lastStale' = [lastStale EXCEPT ![editor[a].target] = clock]
        BY <1>3 DEF UpsertSave, Writes
    <2>4. \A d \in Codes : d # editor[a].target => products'[d] = products[d]
        BY <2>3 DEF CInv, RowsTyped
    <2>5. UNCHANGED <<shopVars, clock>>
        BY <1>3 DEF UpsertSave
    <2> QED BY <2>2, <2>3, <2>4, <2>5
<1> QED BY <1>1, <1>2, <1>3

LEMMA NextPInv == CInv /\ PInv /\ [CatalogueNext]_catalogueVars => PInv'
<1> SUFFICES ASSUME CInv, PInv, [CatalogueNext]_catalogueVars PROVE PInv'
    OBVIOUS
<1>1. ASSUME NEW a \in Admins, NEW c \in Codes, NEW row \in [offer : Offers, status : Statuses],
             Post(a, c, row)
      PROVE  PInv'
    BY <1>1, AdminStep, RowsStep DEF Post
<1>2. ASSUME NEW a \in Admins, NEW c \in Codes, NEW target \in Codes, NEW e \in Edit,
             Patch(a, c, target, e)
      PROVE  PInv'
    BY <1>2, AdminStep, RowsStep DEF Patch
<1>3. ASSUME NEW a \in Admins, UpsertFind(a) \/ UpsertSave(a) \/ UpsertFails(a)
      PROVE  PInv'
    BY <1>3, AdminStep, RowsStep
<1>4. CASE Restart
    BY <1>4, RestartShop
<1>5. ASSUME NEW c \in Codes, Quote(c) \/ Settle(c)
      PROVE  PInv'
    BY <1>5, QuoteStep, SettleStep DEF CInv
<1>6. CASE Reuse \/ Order \/ ClockTicks
    BY <1>6, ReuseStep, OrderStep, TickStep
<1>7. CASE UNCHANGED catalogueVars
    BY <1>7, RowsStep DEF catalogueVars, adminVars
<1> QED BY <1>1, <1>2, <1>3, <1>4, <1>5, <1>6, <1>7 DEF CatalogueNext

\* However often products are edited, a customer is shown a former offer for
\* OrderTTL after the change at most: findReusablePendingOrder looks at the
\* order's expiry and not at its price.
THEOREM FormerOffersFade == CatalogueSpec => []OldPricesFade
<1>1. PInv => OldPricesFade
    BY DEF PInv
<1> QED BY <1>1, InitCInv, NextCInv, InitPInv, NextPInv, PTL DEF CatalogueSpec

=============================================================================
