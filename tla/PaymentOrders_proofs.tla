------------------------ MODULE PaymentOrders_proofs ------------------------
(***************************************************************************)
(* Theorems about PaymentOrders and their proofs.                          *)
(***************************************************************************)
EXTENDS PaymentOrders, FiniteSetTheorems, TLAPS

-----------------------------------------------------------------------------
(***************************************************************************)
(* The subscription table                                                  *)
(***************************************************************************)
\* A write of the status column keeps the table a table of the same rows.
LEMMA StatusWritten ==
    ASSUME NEW s \in Seq(Subscription), NEW I, NEW st \in SubStatuses
    PROVE  /\ WithStatus(s, I, st) \in Seq(Subscription)
           /\ Len(WithStatus(s, I, st)) = Len(s)
           /\ \A i \in 1..Len(s) : WithStatus(s, I, st)[i] =
                [s[i] EXCEPT !.status = IF i \in I THEN st ELSE @]
<1> DEFINE f == WithStatus(s, I, st)
<1>1. DOMAIN s = 1..Len(s) /\ Len(s) \in Nat /\ \A i \in 1..Len(s) : s[i] \in Subscription
    OBVIOUS
<1>2. ASSUME NEW i \in 1..Len(s)
      PROVE  f[i] \in Subscription /\ f[i] = [s[i] EXCEPT !.status = IF i \in I THEN st ELSE @]
    BY <1>1, <1>2 DEF WithStatus, Subscription
<1>3. f = [i \in 1..Len(s) |-> f[i]]
    BY <1>1 DEF WithStatus
<1>4. f \in Seq(Subscription) /\ Len(f) = Len(s)
    BY <1>1, <1>2, <1>3
<1> QED BY <1>2, <1>4

\* CancelActive and Expire are such writes.
LEMMA TableTyped ==
    ASSUME NEW s \in Seq(Subscription), NEW u, NEW I
    PROVE  CancelActive(s, u) \in Seq(Subscription) /\ Expire(s, I) \in Seq(Subscription)
<1>1. "canceled" \in SubStatuses /\ "expired" \in SubStatuses
    BY DEF SubStatuses
<1> QED BY <1>1, StatusWritten DEF CancelActive, Expire

\* What GetActiveSubscription answers is typed.
LEMMA CurrentTyped ==
    ASSUME NEW s \in Seq(Subscription), NEW u, NEW t
    PROVE  /\ CurrentPlan(s, u, t) \in Plans
           /\ CurrentExpiry(s, u, t) \in Times
           /\ Lapsed(s, u, t) \subseteq Nat
<1>1. \A i \in DOMAIN s : s[i] \in Subscription /\ i \in Nat
    OBVIOUS
<1>2. Current(s, u, t) \subseteq DOMAIN s /\ Lapsed(s, u, t) \subseteq DOMAIN s
    BY DEF Current, Lapsed, LatestActive, ActiveRows
<1>3. CASE Current(s, u, t) = {}
    BY <1>1, <1>2, <1>3 DEF CurrentPlan, CurrentExpiry, Plans, Times
<1>4. CASE Current(s, u, t) # {}
    <2>1. (CHOOSE i \in Current(s, u, t) : TRUE) \in DOMAIN s
        BY <1>2, <1>4
    <2>2. TheRow(s, Current(s, u, t)) \in Subscription
        BY <1>1, <2>1 DEF TheRow
    <2> QED BY <1>1, <1>2, <1>4, <2>2 DEF CurrentPlan, CurrentExpiry, Subscription
<1> QED BY <1>3, <1>4

-----------------------------------------------------------------------------
(***************************************************************************)
(* Rows and quotes                                                         *)
(***************************************************************************)
LEMMA MonthsTyped ==
    ASSUME NEW t \in Int, NEW e \in Int PROVE RemainingMonths(t, e) \in Nat
<1>1. IsFiniteSet(0..(e - t))
    BY FS_Interval
<1>2. IsFiniteSet({k \in 0..(e - t) : t + k * Month < e})
    BY <1>1, FS_Subset
<1> QED BY <1>2, FS_CardinalityType DEF RemainingMonths

LEMMA NoRowTyped == NoRow \in OrderRow
BY DEF NoRow, OrderRow, Plans, Modes, Times, NoTime

LEMMA QuotedRowTyped ==
    ASSUME NEW u \in Users, NEW p \in Products, NEW mode \in Modes, NEW m \in BillingMonths,
           NEW exp \in Times, NEW t \in Nat
    PROVE  QuotedRow(u, p, mode, m, exp, t) \in OrderRow
<1>0. exp \in Int /\ t \in Int /\ m \in Nat
    BY TimeAssumption DEF Times, NoTime
<1>1. RemainingMonths(t, exp) \in Nat
    BY <1>0, MonthsTyped
<1>2. p \in Plans
    BY ProductsAssumption DEF Plans
<1> QED BY <1>0, <1>1, <1>2, NoRowTyped
        DEF QuotedRow, NoRow, OrderRow, Modes, OrderStatuses, Times, NoTime

LEMMA StatusTyped ==
    ASSUME NEW c PROVE NotifyStatus(c) \in OrderStatuses /\ QueryStatus(c) \in OrderStatuses
BY DEF NotifyStatus, QueryStatus, OrderStatuses

LEMMA SavedRowTyped ==
    ASSUME NEW j \in Job PROVE SavedRow(j) \in OrderRow /\ NewStatus(j) \in OrderStatuses
<1>1. NewStatus(j) \in OrderStatuses
    BY StatusTyped DEF NewStatus
<1>2. j.row \in OrderRow
    BY DEF Job
<1> QED BY <1>1, <1>2 DEF SavedRow, OrderRow

LEMMA GrantTyped ==
    ASSUME NEW row \in OrderRow, NEW s \in Seq(Subscription), NEW t \in Nat,
           ~GrantRefused(row, t)
    PROVE  GrantExpiry(row, s, t) \in Times
<1>1. CurrentExpiry(s, row.user, t) \in Times
    BY CurrentTyped
<1>2. GrantBase(row, s, t) \in Nat
    BY <1>1 DEF GrantBase, Times, NoTime
<1>3. Month \in Nat /\ row.months \in Nat /\ row.mode \in Modes /\ row.base \in Times
    BY TimeAssumption DEF OrderRow
<1>4. row.months * Month \in Nat
    BY <1>3
<1> QED BY <1>2, <1>3, <1>4 DEF GrantExpiry, Modes, Times, NoTime

-----------------------------------------------------------------------------
(***************************************************************************)
(* Steps, by the kind of change they make: IInv is TypeOK and CopiesAgree. *)
(***************************************************************************)
IInv == TypeOK /\ CopiesAgree

\* A step that gives one worker a new job and leaves orders and provider alone.
LEMMA JobStep ==
    ASSUME IInv, NEW w \in Workers, NEW j \in Job, j.pc # "call",
           JobOK(j, orders, prov),
           job' = [job EXCEPT ![w] = j], UNCHANGED <<orders, prov, sent>>
    PROVE  CopiesAgree' /\ job' \in [Workers -> Job]
<1>1. job' \in [Workers -> Job]
    BY DEF IInv, TypeOK
<1>2. \A v \in Workers : job'[v] = IF v = w THEN j ELSE job[v]
    BY DEF IInv, TypeOK
<1>3. \A v \in Workers : JobOK(job'[v], orders, prov)
    BY <1>2 DEF IInv, CopiesAgree
<1>4. OneCaller'
    BY <1>2 DEF IInv, CopiesAgree, OneCaller
<1>5. OrdersOK(orders', prov') /\ SentOK' /\ \A v \in Workers : JobOK(job'[v], orders', prov')
    BY <1>3 DEF IInv, CopiesAgree, SentOK
<1> QED BY <1>1, <1>4, <1>5 DEF CopiesAgree

\* A step that also rewrites one order's row, keeping the columns fixed at
\* creation and saying paid only if the provider was paid.
LEMMA RowStep ==
    ASSUME IInv, NEW w \in Workers, NEW j \in Job, j.pc # "call",
           NEW o \in Orders, NEW r \in OrderRow,
           Born(orders[o]), Born(r), SameOrder(r, orders[o]),
           r.status = "paid" => PaidAt(o),
           JobOK(j, orders, prov),
           job' = [job EXCEPT ![w] = j], orders' = [orders EXCEPT ![o] = r],
           UNCHANGED <<prov, sent>>
    PROVE  CopiesAgree' /\ job' \in [Workers -> Job] /\ orders' \in [Orders -> OrderRow]
<1>1. job' \in [Workers -> Job] /\ orders' \in [Orders -> OrderRow]
    BY DEF IInv, TypeOK
<1>2. \A v \in Workers : job'[v] = IF v = w THEN j ELSE job[v]
    BY DEF IInv, TypeOK
<1>3. \A q \in Orders : orders'[q] = IF q = o THEN r ELSE orders[q]
    BY DEF IInv, TypeOK
<1>4. \A q \in Orders : (Born(orders'[q]) <=> Born(orders[q])) /\ SameOrder(orders'[q], orders[q])
    BY <1>3 DEF SameOrder, SamePurchase
<1>5. \A v \in Workers : JobOK(job'[v], orders, prov)
    BY <1>2 DEF IInv, CopiesAgree
<1>6. \A v \in Workers : JobOK(job'[v], orders', prov)
    BY <1>4, <1>5 DEF JobOK, SameOrder, SamePurchase
<1>7. OrdersOK(orders', prov)
    <2>1. SUFFICES ASSUME NEW q \in Orders
                   PROVE  /\ Born(orders'[q]) => orders'[q].user \in Users
                          /\ ~Born(orders'[q]) => prov[q] = "none" /\ ~orders'[q].granted
                          /\ orders'[q].status = "paid" => Paid(prov[q])
        BY DEF OrdersOK
    <2>2. OrdersOK(orders, prov)
        BY DEF IInv, CopiesAgree
    <2>3. CASE q = o
        BY <1>3, <2>2, <2>3 DEF OrdersOK, SameOrder, SamePurchase, PaidAt
    <2>4. CASE q # o
        BY <1>3, <2>2, <2>4 DEF OrdersOK
    <2> QED BY <2>3, <2>4
<1>8. OneCaller'
    BY <1>2 DEF IInv, CopiesAgree, OneCaller
<1>9. SentOK'
    BY DEF IInv, CopiesAgree, SentOK
<1> QED BY <1>1, <1>6, <1>7, <1>8, <1>9 DEF CopiesAgree

\* A step of the provider on an order it knows; a paid order stays paid.
LEMMA ProviderStep ==
    ASSUME IInv, NEW o \in Orders, NEW c \in ProviderCodes,
           prov[o] # "none", PaidAt(o) => Paid(c),
           prov' = [prov EXCEPT ![o] = c],
           \A n \in sent' : n \in sent \/ (n[1] = o /\ Paid(c)),
           UNCHANGED <<orders, job>>
    PROVE  CopiesAgree' /\ prov' \in [Orders -> ProviderCodes]
<1>1. prov' \in [Orders -> ProviderCodes]
    BY DEF IInv, TypeOK
<1>2. \A q \in Orders : prov'[q] = IF q = o THEN c ELSE prov[q]
    BY DEF IInv, TypeOK
<1>3. \A q \in Orders : (prov[q] = "none" => prov'[q] = "none") /\ (Paid(prov[q]) => Paid(prov'[q]))
    BY <1>2 DEF PaidAt
<1>4. OrdersOK(orders', prov')
    BY <1>3 DEF IInv, CopiesAgree, OrdersOK
<1>5. \A v \in Workers : job[v].pc = "call" => job[v].o \in Orders
    BY DEF IInv, CopiesAgree, JobOK, OrderSteps
<1>6. ASSUME NEW v \in Workers PROVE JobOK(job[v], orders, prov')
    <2>1. JobOK(job[v], orders, prov)
        BY DEF IInv, CopiesAgree
    <2> QED BY <1>3, <1>5, <2>1 DEF JobOK
<1>7. \A n \in sent : n[1] \in Orders
    BY DEF IInv, TypeOK
<1>8. SentOK'
    BY <1>2, <1>3, <1>7 DEF IInv, CopiesAgree, SentOK
<1>9. OneCaller'
    BY DEF IInv, CopiesAgree, OneCaller
<1> QED BY <1>1, <1>4, <1>6, <1>8, <1>9 DEF CopiesAgree

\* The job of an idle worker is always in order.
LEMMA IdleOK == Idle \in Job /\ JobOK(Idle, orders, prov) /\ Idle.pc # "call" /\ Idle.op = "none"
<1>1. Idle \in Job
    BY NoRowTyped DEF Idle, Job, Ops, Steps, ProviderCodes, Times, NoTime
<1>2. JobOK(Idle, orders, prov)
    BY NoOrderAssumption DEF Idle, JobOK, NoRow, CreateSteps, OrderSteps
<1> QED BY <1>1, <1>2 DEF Idle

-----------------------------------------------------------------------------
(***************************************************************************)
(* IInv is inductive                                                       *)
(***************************************************************************)
LEMMA InitInv == Init => IInv
<1> SUFFICES ASSUME Init PROVE IInv
    OBVIOUS
<1>1. TypeOK
    BY IdleOK, NoRowTyped DEF Init, TypeOK, ProviderCodes
<1>2. OrdersOK(orders, prov) /\ SentOK
    BY DEF Init, OrdersOK, SentOK, Born, NoRow
<1>3. OneCaller /\ \A w \in Workers : JobOK(job[w], orders, prov)
    BY IdleOK DEF Init, OneCaller
<1> QED BY <1>1, <1>2, <1>3 DEF IInv, CopiesAgree

\* The provider's own steps.
LEMMA ProviderInv ==
    ASSUME IInv, NEW o \in Orders, Pay(o) \/ Refund(o) \/ RefundFails(o) \/ Close(o)
    PROVE  IInv'
<1>1. \A c \in {"OD", "RD", "UD"} : <<o, c>> \in Orders \X ProviderCodes
    BY DEF ProviderCodes
<1>2. CASE Pay(o)
    <2>1. /\ prov[o] # "none" /\ prov' = [prov EXCEPT ![o] = "OD"]
          /\ PaidAt(o) => Paid("OD")
          /\ \A m \in sent' : m \in sent \/ (m[1] = o /\ Paid("OD"))
          /\ UNCHANGED <<orders, job>>
        BY <1>2 DEF Pay, PaidAt, Paid, tables, IInv, TypeOK
    <2>2. "OD" \in ProviderCodes
        BY DEF ProviderCodes
    <2>3. CopiesAgree' /\ prov' \in [Orders -> ProviderCodes]
        BY <2>1, <2>2, ProviderStep
    <2> QED BY <1>1, <1>2, <2>3 DEF Pay, IInv, TypeOK, tables, bounds
<1>3. CASE Refund(o)
    <2>1. /\ prov[o] # "none" /\ prov' = [prov EXCEPT ![o] = "RD"]
          /\ PaidAt(o) => Paid("RD")
          /\ \A m \in sent' : m \in sent \/ (m[1] = o /\ Paid("RD"))
          /\ UNCHANGED <<orders, job>>
        BY <1>3 DEF Refund, PaidAt, Paid, tables, IInv, TypeOK
    <2>2. "RD" \in ProviderCodes
        BY DEF ProviderCodes
    <2>3. CopiesAgree' /\ prov' \in [Orders -> ProviderCodes]
        BY <2>1, <2>2, ProviderStep
    <2> QED BY <1>1, <1>3, <2>3 DEF Refund, IInv, TypeOK, tables, bounds
<1>4. CASE RefundFails(o)
    <2>1. /\ prov[o] # "none" /\ prov' = [prov EXCEPT ![o] = "OD"]
          /\ PaidAt(o) => Paid("OD")
          /\ \A m \in sent' : m \in sent \/ (m[1] = o /\ Paid("OD"))
          /\ UNCHANGED <<orders, job>>
        BY <1>4 DEF RefundFails, PaidAt, Paid, tables, IInv, TypeOK
    <2>2. "OD" \in ProviderCodes
        BY DEF ProviderCodes
    <2>3. CopiesAgree' /\ prov' \in [Orders -> ProviderCodes]
        BY <2>1, <2>2, ProviderStep
    <2> QED BY <1>1, <1>4, <2>3 DEF RefundFails, IInv, TypeOK, tables, bounds
<1>5. CASE Close(o)
    <2>1. /\ prov[o] # "none" /\ prov' = [prov EXCEPT ![o] = "CD"]
          /\ PaidAt(o) => Paid("CD")
          /\ \A m \in sent' : m \in sent \/ (m[1] = o /\ Paid("CD"))
          /\ UNCHANGED <<orders, job>>
        BY <1>5 DEF Close, PaidAt, Paid, tables, IInv, TypeOK
    <2>2. "CD" \in ProviderCodes
        BY DEF ProviderCodes
    <2>3. CopiesAgree' /\ prov' \in [Orders -> ProviderCodes]
        BY <2>1, <2>2, ProviderStep
    <2> QED BY <1>1, <1>5, <2>3 DEF Close, IInv, TypeOK, tables, bounds
<1> QED BY <1>2, <1>3, <1>4, <1>5

\* Requests about an order: each begins a job with a copy of a born row.
LEMMA OrderRequestInv ==
    ASSUME IInv, NEW w \in Workers, NEW o \in Orders,
           \/ \E c \in ProviderCodes : NotifyFind(w, o, c)
           \/ PollFind(w, o) \/ CancelFind(w, o) \/ RegrantFind(w, o)
    PROVE  IInv'
<1>1. orders[o] \in OrderRow /\ OrdersOK(orders, prov) /\ SentOK
    BY DEF IInv, TypeOK, CopiesAgree
<1>2. ASSUME NEW j \in Job, j.op \in {"notify", "poll", "cancel", "regrant"},
             j.pc \in {"save", "query", "lock", "cancel"},
             j.o = o, j.row = orders[o], j.msg = "OD" => PaidAt(o), Born(orders[o]),
             job' = [job EXCEPT ![w] = j], UNCHANGED <<orders, prov, sent>>
      PROVE  CopiesAgree' /\ job' \in [Workers -> Job]
    <2>1. JobOK(j, orders, prov)
        BY <1>1, <1>2 DEF JobOK, OrdersOK, SameOrder, SamePurchase, PaidAt, CreateSteps,
                          OrderSteps
    <2> QED BY <1>2, <2>1, JobStep
<1>3. ASSUME NEW c \in ProviderCodes, NotifyFind(w, o, c) PROVE IInv'
    <2> DEFINE j == [Idle EXCEPT !.op = "notify", !.pc = "save", !.o = o, !.row = orders[o], !.msg = c]
    <2>1. PaidAt(o) /\ Born(orders[o]) /\ UNCHANGED <<orders, prov, sent>>
        BY <1>1, <1>3 DEF NotifyFind, SentOK, OrdersOK, PaidAt, Paid, tables, provider
    <2>2. j \in Job
        BY <1>1, IdleOK DEF Job, Idle, Ops, Steps
    <2>3. /\ j.op = "notify" /\ j.pc \in {"save", "query", "lock", "cancel"}
          /\ j.o = o /\ j.row = orders[o] /\ (j.msg = "OD" => PaidAt(o))
        BY <2>1 DEF Idle
    <2>4. job' = [job EXCEPT ![w] = j]
        BY <1>3 DEF NotifyFind, Begin
    <2>5. CopiesAgree' /\ job' \in [Workers -> Job]
        <3> HIDE DEF j
        <3> QED BY <1>2, <2>1, <2>2, <2>3, <2>4
    <2> QED BY <1>3, <2>5 DEF NotifyFind, IInv, TypeOK, tables, provider, bounds
<1>4. CASE PollFind(w, o)
    <2> DEFINE j == [Idle EXCEPT !.op = "poll", !.pc = IF orders[o].status = "paid" THEN "lock" ELSE "query", !.o = o, !.row = orders[o]]
    <2>1. Born(orders[o]) /\ UNCHANGED <<orders, prov, sent>>
        BY <1>4 DEF PollFind, Born, tables, provider
    <2>2. j \in Job
        BY <1>1, IdleOK DEF Job, Idle, Ops, Steps
    <2>3. /\ j.op = "poll" /\ j.pc \in {"save", "query", "lock", "cancel"}
          /\ j.o = o /\ j.row = orders[o] /\ (j.msg = "OD" => PaidAt(o))
        BY <2>1 DEF Idle
    <2>4. job' = [job EXCEPT ![w] = j]
        BY <1>4 DEF PollFind, Begin
    <2>5. CopiesAgree' /\ job' \in [Workers -> Job]
        <3> HIDE DEF j
        <3> QED BY <1>2, <2>1, <2>2, <2>3, <2>4
    <2> QED BY <1>4, <2>5 DEF PollFind, IInv, TypeOK, tables, provider, bounds
<1>5. CASE CancelFind(w, o)
    <2> DEFINE j == [Idle EXCEPT !.op = "cancel", !.pc = "cancel", !.o = o, !.row = orders[o]]
    <2>1. Born(orders[o]) /\ UNCHANGED <<orders, prov, sent>>
        BY <1>5 DEF CancelFind, Born, tables, provider
    <2>2. j \in Job
        BY <1>1, IdleOK DEF Job, Idle, Ops, Steps
    <2>3. /\ j.op = "cancel" /\ j.pc \in {"save", "query", "lock", "cancel"}
          /\ j.o = o /\ j.row = orders[o] /\ (j.msg = "OD" => PaidAt(o))
        BY <2>1 DEF Idle
    <2>4. job' = [job EXCEPT ![w] = j]
        BY <1>5 DEF CancelFind, Begin
    <2>5. CopiesAgree' /\ job' \in [Workers -> Job]
        <3> HIDE DEF j
        <3> QED BY <1>2, <2>1, <2>2, <2>3, <2>4
    <2> QED BY <1>5, <2>5 DEF CancelFind, IInv, TypeOK, tables, provider, bounds
<1>6. CASE RegrantFind(w, o)
    <2> DEFINE j == [Idle EXCEPT !.op = "regrant", !.pc = "lock", !.o = o, !.row = orders[o]]
    <2>1. Born(orders[o]) /\ UNCHANGED <<orders, prov, sent>>
        BY <1>6 DEF RegrantFind, Born, tables, provider
    <2>2. j \in Job
        BY <1>1, IdleOK DEF Job, Idle, Ops, Steps
    <2>3. /\ j.op = "regrant" /\ j.pc \in {"save", "query", "lock", "cancel"}
          /\ j.o = o /\ j.row = orders[o] /\ (j.msg = "OD" => PaidAt(o))
        BY <2>1 DEF Idle
    <2>4. job' = [job EXCEPT ![w] = j]
        BY <1>6 DEF RegrantFind, Begin
    <2>5. CopiesAgree' /\ job' \in [Workers -> Job]
        <3> HIDE DEF j
        <3> QED BY <1>2, <2>1, <2>2, <2>3, <2>4
    <2> QED BY <1>6, <2>5 DEF RegrantFind, IInv, TypeOK, tables, provider, bounds
<1> QED BY <1>3, <1>4, <1>5, <1>6

\* Requests about a user: a quote, a plan assigned, a plan read.
LEMMA UserRequestInv ==
    ASSUME IInv, NEW w \in Workers, NEW u \in Users,
           \/ ReadPlan(w, u)
           \/ \E p \in Products, mode \in Modes, m \in BillingMonths :
                CreateQuote(w, u, p, mode, m)
           \/ \E p \in Plans, e \in AdminExpiries : AssignCancel(w, u, p, e)
    PROVE  IInv'
<1>1. subs \in Seq(Subscription) /\ now \in Nat
    BY DEF IInv, TypeOK
<1>2. CASE ReadPlan(w, u)
    <2> DEFINE j == [Idle EXCEPT !.op = "read", !.pc = "expire", !.sub = Lapsed(subs, u, now)]
    <2>1. j \in Job
        BY <1>1, CurrentTyped, IdleOK DEF Job, Idle, Ops, Steps
    <2>2. JobOK(j, orders, prov) /\ j.pc # "call"
        BY NoOrderAssumption DEF JobOK, Idle, NoRow, CreateSteps, OrderSteps
    <2>3. CopiesAgree' /\ job' \in [Workers -> Job]
        <3> HIDE DEF j
        <3> QED BY <1>2, <2>1, <2>2, JobStep DEF ReadPlan, Begin, tables, provider, j
    <2> QED BY <1>2, <2>3 DEF ReadPlan, IInv, TypeOK, tables, provider, bounds
<1>3. ASSUME NEW p \in Products, NEW mode \in Modes, NEW m \in BillingMonths,
             CreateQuote(w, u, p, mode, m)
      PROVE  IInv'
    <2> DEFINE q == QuotedRow(u, p, mode, m, CurrentExpiry(subs, u, now), now)
               I == Lapsed(subs, u, now)
               j == [Idle EXCEPT !.op = "create", !.row = q,
                                 !.pc = IF I = {} THEN "reuse" ELSE "expire", !.sub = I]
    <2>1. CurrentExpiry(subs, u, now) \in Times /\ I \subseteq Nat
        BY <1>1, CurrentTyped
    <2>2. q \in OrderRow
        BY <1>1, <2>1, QuotedRowTyped
    <2>3. q.user = u /\ q.status = "pending" /\ ~q.granted
        BY DEF QuotedRow, NoRow
    <2> HIDE DEF q, I
    <2>4. j \in Job
        BY <2>1, <2>2, IdleOK DEF Job, Idle, Ops, Steps
    <2>5. JobOK(j, orders, prov) /\ j.pc # "call"
        BY <2>3, NoOrderAssumption DEF JobOK, Idle, CreateSteps, OrderSteps
    <2>6. CopiesAgree' /\ job' \in [Workers -> Job]
        <3>1. job' = [job EXCEPT ![w] = j] /\ UNCHANGED <<orders, prov, sent>>
            BY <1>3 DEF CreateQuote, Begin, tables, provider, q, I
        <3> HIDE DEF j
        <3> QED BY <2>4, <2>5, <3>1, JobStep
    <2> QED BY <1>3, <2>6 DEF CreateQuote, IInv, TypeOK, tables, provider, bounds
<1>4. ASSUME NEW p \in Plans, NEW e \in AdminExpiries, AssignCancel(w, u, p, e) PROVE IInv'
    <2> DEFINE j == [Idle EXCEPT !.op = "assign", !.pc = "assign",
                                 !.row = [NoRow EXCEPT !.user = u, !.plan = p], !.exp = e]
    <2>1. j \in Job
        BY NoRowTyped, IdleOK, TimeAssumption DEF Job, Idle, NoRow, OrderRow, Ops, Steps
    <2>2. JobOK(j, orders, prov) /\ j.pc # "call"
        BY NoOrderAssumption DEF JobOK, Idle, NoRow, CreateSteps, OrderSteps
    <2>3. CopiesAgree' /\ job' \in [Workers -> Job]
        <3>1. job' = [job EXCEPT ![w] = j] /\ UNCHANGED <<orders, prov, sent>>
            BY <1>4 DEF AssignCancel, Begin, provider
        <3> HIDE DEF j
        <3> QED BY <2>1, <2>2, <3>1, JobStep
    <2>4. subs' \in Seq(Subscription)
        BY <1>1, <1>4, TableTyped DEF AssignCancel
    <2>5. UNCHANGED <<orders, callbacks, provider, now, failures>>
        BY <1>4 DEF AssignCancel
    <2>6. adminCalls' = adminCalls + 1
        BY <1>4 DEF AssignCancel
    <2>7. adminCalls \in Nat
        BY DEF IInv, TypeOK
    <2> HIDE DEF j
    <2> QED BY <2>3, <2>4, <2>5, <2>6, <2>7 DEF IInv, TypeOK, provider
<1> QED BY <1>2, <1>3, <1>4

-----------------------------------------------------------------------------
(***************************************************************************)
(* The steps of a job under way                                            *)
(***************************************************************************)
\* What IInv says of one worker's job.
LEMMA JobFacts ==
    ASSUME IInv, NEW w \in Workers
    PROVE  /\ job[w] \in Job /\ JobOK(job[w], orders, prov)
           /\ job[w].o \in Orders =>
                /\ orders[job[w].o] \in OrderRow /\ prov[job[w].o] \in ProviderCodes
           /\ OrdersOK(orders, prov)
           /\ subs \in Seq(Subscription) /\ now \in Nat
BY DEF IInv, TypeOK, CopiesAgree

\* A job that ends, or only moves on to another step about the same order.
LEMMA EndStep ==
    ASSUME IInv, NEW w \in Workers, job' = [job EXCEPT ![w] = Idle],
           UNCHANGED <<orders, prov, sent>>
    PROVE  CopiesAgree' /\ job' \in [Workers -> Job]
BY IdleOK, JobStep

LEMMA MovedOK ==
    ASSUME IInv, NEW w \in Workers, job[w].pc \in {"save", "log"}, NEW pc \in {"log", "lock"}
    PROVE  LET j == [job[w] EXCEPT !.pc = pc]
           IN  j \in Job /\ JobOK(j, orders, prov) /\ j.pc # "call"
<1> DEFINE j == [job[w] EXCEPT !.pc = pc]
<1>1. job[w] \in Job /\ JobOK(job[w], orders, prov)
    BY JobFacts
<1>2. j \in Job /\ j.pc = pc /\ j.o = job[w].o /\ j.row = job[w].row /\ j.msg = job[w].msg
        /\ j.op = job[w].op
    BY <1>1 DEF Job, Steps
<1>3. job[w].op # "create"
    BY <1>1 DEF JobOK, CreateSteps
<1> HIDE DEF j
<1>4. JobOK(j, orders, prov)
    BY <1>1, <1>2, <1>3 DEF JobOK, CreateSteps, OrderSteps
<1> QED BY <1>2, <1>4 DEF j

\* "success" is answered for a notification about an order that exists.
LEMMA AckTyped ==
    ASSUME IInv, NEW w \in Workers, Finish(w) \/ UNCHANGED acked
    PROVE  acked' \subseteq Orders \X ProviderCodes
<1>1. job[w].msg \in ProviderCodes /\ (job[w].op = "notify" => job[w].o \in Orders)
    BY JobFacts DEF JobOK, Job
<1> QED BY <1>1 DEF Finish, IInv, TypeOK

LEMMA PollStepInv ==
    ASSUME IInv, NEW w \in Workers, PollQuery(w) \/ PollUnknown(w)
    PROVE  IInv'
<1>1. CASE PollUnknown(w)
    BY <1>1, EndStep DEF PollUnknown, IInv, TypeOK, tables, provider, bounds
<1>2. CASE PollQuery(w)
    <2> DEFINE j == [job[w] EXCEPT !.pc = "save", !.msg = prov[job[w].o]]
    <2>1. /\ job[w] \in Job /\ JobOK(job[w], orders, prov) /\ job[w].pc = "query"
          /\ job[w].o \in Orders /\ prov[job[w].o] \in ProviderCodes
        BY <1>2, JobFacts DEF PollQuery, JobOK, OrderSteps
    <2>2. j \in Job /\ j.pc = "save" /\ j.o = job[w].o /\ j.row = job[w].row
            /\ j.op = job[w].op /\ j.msg = prov[j.o]
        BY <2>1 DEF Job, Steps
    <2>3. job' = [job EXCEPT ![w] = j] /\ UNCHANGED <<orders, prov, sent>>
        BY <1>2 DEF PollQuery, tables, provider, IInv, TypeOK
    <2> HIDE DEF j
    <2>4. JobOK(j, orders, prov)
        BY <2>1, <2>2 DEF JobOK, CreateSteps, OrderSteps, Paid
    <2>5. CopiesAgree' /\ job' \in [Workers -> Job]
        BY <2>2, <2>3, <2>4, JobStep
    <2> QED BY <1>2, <2>5 DEF PollQuery, IInv, TypeOK, tables, provider, bounds
<1> QED BY <1>1, <1>2

LEMMA SaveResultInv ==
    ASSUME IInv, NEW w \in Workers, SaveResult(w)
    PROVE  IInv'
<1> DEFINE o == job[w].o
           r == SavedRow(job[w])
<1>1. /\ job[w] \in Job /\ JobOK(job[w], orders, prov) /\ job[w].pc = "save"
      /\ o \in Orders /\ Born(orders[o]) /\ SameOrder(job[w].row, orders[o])
    BY JobFacts DEF SaveResult, JobOK, OrderSteps
<1>2. r \in OrderRow /\ NewStatus(job[w]) \in OrderStatuses
    BY <1>1, SavedRowTyped
<1>3. Born(r) /\ SameOrder(r, orders[o])
    <2>1. job[w].row \in OrderRow
        BY <1>1 DEF Job
    <2>2. r.status = NewStatus(job[w]) /\ SameOrder(r, job[w].row)
        BY <2>1 DEF SavedRow, SameOrder, SamePurchase, OrderRow
    <2> QED BY <1>1, <1>2, <2>2 DEF SameOrder, SamePurchase, Born, OrderStatuses
<1>4. r.status = "paid" => PaidAt(o)
    <2>1. r.status = NewStatus(job[w])
        BY <1>1 DEF SavedRow, Job, OrderRow
    <2>2. NewStatus(job[w]) = "paid" => job[w].msg = "OD"
        BY DEF NewStatus, NotifyStatus, QueryStatus
    <2> QED BY <1>1, <2>1, <2>2 DEF JobOK, PaidAt
<1>5. orders' = [orders EXCEPT ![o] = r] /\ UNCHANGED <<prov, sent>>
    BY DEF SaveResult
<1>6. \E j \in Job : /\ job' = [job EXCEPT ![w] = j] /\ JobOK(j, orders, prov)
                     /\ j.pc # "call"
    <2>1. CASE \E pc \in {"log", "lock"} : GoTo(w, pc)
        <3>1. PICK pc \in {"log", "lock"} : GoTo(w, pc)
            BY <2>1
        <3>2. job' = [job EXCEPT ![w] = [job[w] EXCEPT !.pc = pc]]
            BY <3>1 DEF GoTo, IInv, TypeOK
        <3> QED BY <1>1, <3>2, MovedOK
    <2>2. CASE Finish(w)
        BY <2>2, IdleOK DEF Finish
    <2> QED BY <2>1, <2>2 DEF SaveResult
<1> HIDE DEF o, r
<1>7. CopiesAgree' /\ job' \in [Workers -> Job] /\ orders' \in [Orders -> OrderRow]
    BY <1>1, <1>2, <1>3, <1>4, <1>5, <1>6, RowStep
<1>8. acked' \subseteq Orders \X ProviderCodes
    BY AckTyped DEF SaveResult, GoTo
<1> QED BY <1>7, <1>8 DEF SaveResult, IInv, TypeOK, bounds

LEMMA LogCallbackInv ==
    ASSUME IInv, NEW w \in Workers, LogCallback(w)
    PROVE  IInv'
<1>1. job[w] \in Job /\ job[w].pc = "log" /\ job[w].o \in Orders
    BY JobFacts DEF LogCallback, JobOK, OrderSteps
<1>2. callbacks' \subseteq Orders \X OrderStatuses
    BY <1>1, SavedRowTyped DEF LogCallback, IInv, TypeOK
<1>3. CopiesAgree' /\ job' \in [Workers -> Job]
    <2>1. CASE Finish(w)
        BY <2>1, EndStep DEF LogCallback, Finish
    <2>2. CASE GoTo(w, "lock")
        <3>1. job' = [job EXCEPT ![w] = [job[w] EXCEPT !.pc = "lock"]]
            BY <2>2 DEF GoTo, IInv, TypeOK
        <3>2. UNCHANGED <<orders, prov, sent>>
            BY DEF LogCallback
        <3> QED BY <1>1, <3>1, <3>2, MovedOK, JobStep
    <2> QED BY <2>1, <2>2 DEF LogCallback
<1>4. acked' \subseteq Orders \X ProviderCodes
    BY AckTyped DEF LogCallback, GoTo
<1> QED BY <1>2, <1>3, <1>4 DEF LogCallback, IInv, TypeOK, bounds

\* The grant transaction.
LEMMA GrantInv ==
    ASSUME IInv, NEW w \in Workers,
           GrantSkip(w) \/ GrantRefuse(w) \/ GrantLock(w) \/ GrantCommit(w)
    PROVE  IInv'
<1> DEFINE o == job[w].o
<1>1. /\ job[w] \in Job /\ JobOK(job[w], orders, prov)
      /\ o \in Orders /\ Born(orders[o]) /\ orders[o] \in OrderRow
      /\ job[w].pc \in {"lock", "commit"} /\ job[w].row.user \in Users
      /\ SameOrder(job[w].row, orders[o])
      /\ subs \in Seq(Subscription) /\ now \in Nat /\ OrdersOK(orders, prov)
    BY JobFacts DEF GrantSkip, GrantRefuse, GrantLock, GrantCommit, JobOK, OrderSteps
<1>2. acked' \subseteq Orders \X ProviderCodes
    BY AckTyped DEF GrantSkip, GrantRefuse, GrantLock, GrantCommit, provider
<1>3. CASE GrantSkip(w)
    <2>1. CopiesAgree' /\ job' \in [Workers -> Job]
        BY <1>3, EndStep DEF GrantSkip, Finish, tables
    <2> QED BY <1>2, <1>3, <2>1 DEF GrantSkip, IInv, TypeOK, tables, bounds
<1>4. CASE GrantRefuse(w)
    <2>1. CopiesAgree' /\ job' \in [Workers -> Job]
        BY <1>4, EndStep DEF GrantRefuse, tables, provider
    <2> QED BY <1>2, <1>4, <2>1 DEF GrantRefuse, IInv, TypeOK, tables, provider, bounds
<1>5. CASE GrantLock(w)
    <2> DEFINE L == Lapsed(subs, orders[o].user, now)
               e == GrantExpiry(orders[o], subs, now)
               j == [job[w] EXCEPT !.pc = "commit", !.row = orders[o], !.sub = L, !.exp = e]
    <2>1. L \subseteq Nat /\ e \in Times
        BY <1>1, <1>5, CurrentTyped, GrantTyped DEF GrantLock
    <2>2. orders[o].status = "paid" /\ job[w].pc = "lock"
        BY <1>5 DEF GrantLock, Grantable
    <2>3. job' = [job EXCEPT ![w] = j] /\ UNCHANGED <<orders, prov, sent>>
        BY <1>5 DEF GrantLock, tables, provider, IInv, TypeOK
    <2> HIDE DEF L, e
    <2>4. /\ j \in Job /\ j.pc = "commit" /\ j.o = o /\ j.row = orders[o]
          /\ j.op = job[w].op /\ j.msg = job[w].msg
        BY <1>1, <2>1 DEF Job, Steps
    <2> HIDE DEF j
    <2>5. job[w].op # "create"
        BY <1>1, <2>2 DEF JobOK, CreateSteps
    <2>6. JobOK(j, orders, prov)
        BY <1>1, <2>2, <2>4, <2>5
           DEF JobOK, CreateSteps, OrderSteps, OrdersOK, SameOrder, SamePurchase
    <2>7. CopiesAgree' /\ job' \in [Workers -> Job]
        BY <2>3, <2>4, <2>6, JobStep
    <2> QED BY <1>2, <1>5, <2>7 DEF GrantLock, IInv, TypeOK, tables, provider, bounds
<1>6. CASE GrantCommit(w)
    <2> DEFINE r  == [orders[o] EXCEPT !.granted = TRUE]
               by == IF job[w].op = "regrant" THEN "regrant" ELSE "grant"
               n  == NewSubscription(job[w].row.user, job[w].row.plan, job[w].exp, o, by)
               s  == CancelActive(Expire(subs, job[w].sub), job[w].row.user)
    <2>1. r \in OrderRow /\ Born(r) /\ SameOrder(r, orders[o]) /\ r.status = orders[o].status
        BY <1>1 DEF OrderRow, Born, SameOrder, SamePurchase
    <2>2. orders[o].status = "paid" => PaidAt(o)
        BY <1>1 DEF OrdersOK, PaidAt
    <2>3. n \in Subscription
        BY <1>1 DEF NewSubscription, Subscription, Job, OrderRow, SubStatuses
    <2>4. s \in Seq(Subscription)
        BY <1>1, TableTyped
    <2>5. subs' = Append(s, n) /\ orders' = [orders EXCEPT ![o] = r]
            /\ job' = [job EXCEPT ![w] = Idle] /\ UNCHANGED <<prov, sent>>
        BY <1>6 DEF GrantCommit, Finish, IInv, TypeOK
    <2> HIDE DEF r, n, s
    <2>6. subs' \in Seq(Subscription)
        BY <2>3, <2>4, <2>5
    <2> HIDE DEF o
    <2>7. CopiesAgree' /\ job' \in [Workers -> Job] /\ orders' \in [Orders -> OrderRow]
        BY <1>1, <2>1, <2>2, <2>5, IdleOK, RowStep
    <2> QED BY <1>2, <1>6, <2>6, <2>7 DEF GrantCommit, IInv, TypeOK, bounds
<1> QED BY <1>3, <1>4, <1>5, <1>6

\* A copy stays in order when the table and the provider move on under it.
LEMMA JobStable ==
    ASSUME NEW j \in Job, NEW O, NEW P, NEW O2, NEW P2, JobOK(j, O, P),
           \A q \in Orders : Born(O[q]) => Born(O2[q]) /\ SameOrder(O2[q], O[q]),
           \A q \in Orders : Paid(P[q]) => Paid(P2[q]),
           j.pc = "call" => P2[j.o] = "none"
    PROVE  JobOK(j, O2, P2)
BY DEF JobOK, SameOrder, SamePurchase

\* CreateCall and CallLost register an order the provider did not know.
LEMMA RegisterStep ==
    ASSUME IInv, NEW w \in Workers, NEW j \in Job, job[w].pc = "call",
           JobOK(j, orders, [prov EXCEPT ![job[w].o] = "open"]), j.pc # "call",
           job' = [job EXCEPT ![w] = j], prov' = [prov EXCEPT ![job[w].o] = "open"],
           UNCHANGED <<orders, sent>>
    PROVE  CopiesAgree' /\ job' \in [Workers -> Job] /\ prov' \in [Orders -> ProviderCodes]
<1> DEFINE o == job[w].o
<1>1. o \in Orders /\ prov[o] = "none" /\ Born(orders[o])
    BY JobFacts DEF JobOK, OrderSteps
<1>2. job' \in [Workers -> Job] /\ prov' \in [Orders -> ProviderCodes]
    BY DEF IInv, TypeOK, ProviderCodes
<1>3. \A v \in Workers : job'[v] = IF v = w THEN j ELSE job[v]
    BY DEF IInv, TypeOK
<1>4. \A q \in Orders : prov'[q] = IF q = o THEN "open" ELSE prov[q]
    BY DEF IInv, TypeOK
<1> HIDE DEF o
<1>5. \A q \in Orders : Paid(prov[q]) <=> Paid(prov'[q])
    BY <1>1, <1>4 DEF Paid
<1>6. \A v \in Workers : JobOK(job'[v], orders', prov')
    <2>1. SUFFICES ASSUME NEW v \in Workers, v # w PROVE JobOK(job[v], orders, prov')
        BY <1>3
    <2>2. job[v] \in Job /\ JobOK(job[v], orders, prov)
        BY JobFacts
    <2>3. job[v].pc = "call" => job[v].o \in Orders /\ job[v].o # o
        BY <2>1, <2>2 DEF IInv, CopiesAgree, OneCaller, o, JobOK, OrderSteps
    <2>4. job[v].pc = "call" => prov'[job[v].o] = "none"
        BY <1>4, <2>2, <2>3 DEF JobOK
    <2>5. \A q \in Orders : SameOrder(orders[q], orders[q])
        BY DEF SameOrder, SamePurchase
    <2> QED BY <1>5, <2>2, <2>4, <2>5, JobStable
<1>7. OneCaller'
    BY <1>3 DEF IInv, CopiesAgree, OneCaller
<1>8. OrdersOK(orders', prov')
    BY <1>1, <1>4, <1>5 DEF IInv, CopiesAgree, OrdersOK
<1>9. SentOK'
    <2>1. \A n \in sent : n[1] \in Orders
        BY DEF IInv, TypeOK
    <2> QED BY <1>5, <2>1 DEF IInv, CopiesAgree, SentOK
<1> QED BY <1>2, <1>6, <1>7, <1>8, <1>9 DEF CopiesAgree

\* CreateInsert: the order number is new to the table, to every job and to
\* the provider.
LEMMA CreateInsertInv ==
    ASSUME IInv, NEW w \in Workers, CreateInsert(w)
    PROVE  IInv'
<1> DEFINE row == [job[w].row EXCEPT !.expires = now + OrderTTL,
                                     !.id = Cardinality(Orders \ Unborn) + 1]
<1>0. Cardinality(Orders \ Unborn) \in Nat
    BY OrdersAssumption, FS_Difference, FS_CardinalityType
<1>1. PICK o \in Unborn :
        /\ orders' = [orders EXCEPT ![o] = row]
        /\ job' = [job EXCEPT ![w].pc = "call", ![w].o = o, ![w].row = row]
    BY DEF CreateInsert
<1> DEFINE j == [job[w] EXCEPT !.pc = "call", !.o = o, !.row = row]
<1>2. /\ job[w] \in Job /\ JobOK(job[w], orders, prov) /\ job[w].op = "create"
      /\ now \in Nat /\ OrdersOK(orders, prov)
      /\ job[w].row.status = "pending" /\ ~job[w].row.granted /\ job[w].row.user \in Users
      /\ job[w].msg = "none"
    BY JobFacts DEF CreateInsert, JobOK, CreateSteps
<1>3. o \in Orders /\ ~Born(orders[o]) /\ prov[o] = "none"
    BY <1>2 DEF Unborn, Born, OrdersOK
<1>4. /\ row \in OrderRow /\ Born(row) /\ row.status = "pending" /\ ~row.granted
      /\ row.user \in Users
    <2> DEFINE id == Cardinality(Orders \ Unborn) + 1
    <2> DEFINE expires == now + OrderTTL
    <2>1. id \in Nat /\ expires \in Times /\ job[w].row \in OrderRow
        BY <1>0, <1>2, TimeAssumption DEF Job, Times
    <2>2. row = [job[w].row EXCEPT !.expires = expires, !.id = id]
        OBVIOUS
    <2> HIDE DEF id, expires, row
    <2> QED BY <1>2, <2>1, <2>2 DEF OrderRow, Born
<1> HIDE DEF row
<1>5. j \in Job /\ j.pc = "call" /\ j.o = o /\ j.row = row /\ j.op = "create" /\ j.msg = "none"
    BY <1>2, <1>3, <1>4 DEF Job, Steps
<1>6. job' = [job EXCEPT ![w] = j]
    BY <1>1 DEF IInv, TypeOK
<1> HIDE DEF j
<1>7. job' \in [Workers -> Job] /\ orders' \in [Orders -> OrderRow] /\ UNCHANGED <<prov, sent>>
    <2>1. orders' \in [Orders -> OrderRow]
        BY <1>1, <1>4 DEF IInv, TypeOK
    <2>2. job' \in [Workers -> Job]
        BY <1>5, <1>6 DEF IInv, TypeOK
    <2>3. UNCHANGED <<prov, sent>>
        BY DEF CreateInsert, provider
    <2> QED BY <2>1, <2>2, <2>3
<1>8. /\ \A v \in Workers : job'[v] = IF v = w THEN j ELSE job[v]
      /\ \A q \in Orders : orders'[q] = IF q = o THEN row ELSE orders[q]
    BY <1>1, <1>3, <1>6 DEF IInv, TypeOK
<1>9. \A v \in Workers : JobOK(job'[v], orders', prov')
    <2>1. JobOK(j, orders', prov)
        BY <1>3, <1>4, <1>5, <1>8
           DEF JobOK, CreateSteps, OrderSteps, SameOrder, SamePurchase
    <2>2. ASSUME NEW v \in Workers PROVE JobOK(job[v], orders', prov)
        <3>1. job[v] \in Job /\ JobOK(job[v], orders, prov)
            BY JobFacts
        <3>2. \A q \in Orders : Born(orders[q]) =>
                Born(orders'[q]) /\ SameOrder(orders'[q], orders[q])
            BY <1>3, <1>8 DEF SameOrder, SamePurchase
        <3>3. job[v].pc = "call" => prov[job[v].o] = "none"
            BY <3>1 DEF JobOK
        <3> QED BY <3>1, <3>2, <3>3, JobStable
    <2> QED BY <1>7, <1>8, <2>1, <2>2
<1>10. OrdersOK(orders', prov')
    BY <1>2, <1>4, <1>7, <1>8 DEF OrdersOK
<1>11. OneCaller'
    <2>1. \A v \in Workers : job[v].pc = "call" => job[v].o # o
        BY <1>3, JobFacts DEF JobOK, OrderSteps
    <2> QED BY <1>5, <1>8, <2>1 DEF IInv, CopiesAgree, OneCaller
<1>12. SentOK'
    BY <1>7 DEF IInv, CopiesAgree, SentOK
<1> QED BY <1>7, <1>9, <1>10, <1>11, <1>12
        DEF CreateInsert, CopiesAgree, IInv, TypeOK, provider, bounds

\* The other steps of CreateOrder.
LEMMA CreateStepInv ==
    ASSUME IInv, NEW w \in Workers,
           CreateReuse(w) \/ CreateFresh(w) \/ CreateCall(w) \/ CallLost(w) \/ CreateSave(w)
    PROVE  IInv'
<1> DEFINE o == job[w].o
<1>1. /\ job[w] \in Job /\ JobOK(job[w], orders, prov) /\ OrdersOK(orders, prov)
      /\ job[w].pc \in CreateSteps /\ job[w].op = "create"
      /\ job[w].row.status = "pending" /\ job[w].row.user \in Users
      /\ ~job[w].row.granted /\ job[w].msg = "none"
    BY JobFacts DEF CreateReuse, CreateFresh, CreateCall, CallLost, CreateSave, JobOK, CreateSteps
<1>2. CASE CreateReuse(w)
    <2>1. CopiesAgree' /\ job' \in [Workers -> Job]
        BY <1>2, EndStep DEF CreateReuse, tables, provider
    <2> QED BY <1>2, <2>1 DEF CreateReuse, IInv, TypeOK, tables, provider, bounds
<1>3. CASE CreateFresh(w)
    <2> DEFINE j == [job[w] EXCEPT !.pc = "insert"]
    <2>1. j \in Job /\ j.pc = "insert" /\ j.o = o /\ j.row = job[w].row /\ j.op = "create"
            /\ j.msg = "none"
        BY <1>1 DEF Job, Steps
    <2>2. job' = [job EXCEPT ![w] = j] /\ UNCHANGED <<orders, prov, sent>>
        BY <1>3 DEF CreateFresh, tables, provider, IInv, TypeOK
    <2>3. job[w].pc = "reuse"
        BY <1>3 DEF CreateFresh
    <2> HIDE DEF j
    <2>4. JobOK(j, orders, prov)
        BY <1>1, <2>1, <2>3 DEF JobOK, CreateSteps, OrderSteps
    <2>5. CopiesAgree' /\ job' \in [Workers -> Job]
        BY <2>1, <2>2, <2>4, JobStep
    <2> QED BY <1>3, <2>5 DEF CreateFresh, IInv, TypeOK, tables, provider, bounds
<1>4. CASE CreateCall(w)
    <2> DEFINE j == [job[w] EXCEPT !.pc = "csave"]
    <2>1. j \in Job /\ j.pc = "csave" /\ j.o = o /\ j.row = job[w].row /\ j.op = "create"
            /\ j.msg = "none"
        BY <1>1 DEF Job, Steps
    <2>2. job' = [job EXCEPT ![w] = j]
        BY <1>4 DEF CreateCall, IInv, TypeOK
    <2>3. job[w].pc = "call" /\ o \in Orders
        BY <1>1, <1>4 DEF CreateCall, JobOK, OrderSteps
    <2> HIDE DEF j
    <2>4. JobOK(j, orders, [prov EXCEPT ![o] = "open"])
        BY <1>1, <2>1, <2>3 DEF JobOK, CreateSteps, OrderSteps
    <2>5. CopiesAgree' /\ job' \in [Workers -> Job] /\ prov' \in [Orders -> ProviderCodes]
        BY <1>4, <2>1, <2>2, <2>4, RegisterStep DEF CreateCall, tables
    <2> QED BY <1>4, <2>5 DEF CreateCall, IInv, TypeOK, tables, bounds
<1>5. CASE CallLost(w)
    <2>1. JobOK(Idle, orders, [prov EXCEPT ![o] = "open"])
        BY NoOrderAssumption DEF Idle, JobOK, NoRow, CreateSteps, OrderSteps
    <2>2. CopiesAgree' /\ job' \in [Workers -> Job] /\ prov' \in [Orders -> ProviderCodes]
        BY <1>5, <2>1, IdleOK, RegisterStep DEF CallLost, tables
    <2> QED BY <1>5, <2>2 DEF CallLost, IInv, TypeOK, tables
<1>6. CASE CreateSave(w)
    <2> DEFINE r == [job[w].row EXCEPT !.code = TRUE]
               p == [prov EXCEPT ![o] = IF @ = "open" THEN "WP" ELSE @]
    <2>1. o \in Orders /\ Born(orders[o]) /\ SameOrder(job[w].row, orders[o])
        BY <1>1, <1>6 DEF CreateSave, JobOK, OrderSteps
    <2>2. r \in OrderRow /\ Born(r) /\ SameOrder(r, orders[o]) /\ r.status = "pending"
        BY <1>1, <2>1 DEF Job, OrderRow, Born, SameOrder, SamePurchase
    <2>3. /\ job' = [job EXCEPT ![w] = Idle] /\ orders' = [orders EXCEPT ![o] = r]
          /\ UNCHANGED <<sent, acked, subs, callbacks, bounds>> /\ prov' = p
        BY <1>6 DEF CreateSave
    <2>4. /\ \A q \in Orders : prov'[q] = IF q = o /\ prov[o] = "open" THEN "WP" ELSE prov[q]
          /\ prov' \in [Orders -> ProviderCodes]
        BY <2>1, <2>3 DEF IInv, TypeOK, ProviderCodes
    <2> HIDE DEF r, p
    <2>5. /\ \A q \in Orders : orders'[q] = IF q = o THEN r ELSE orders[q]
          /\ orders' \in [Orders -> OrderRow]
        BY <2>1, <2>2, <2>3 DEF IInv, TypeOK
    <2>6. /\ \A v \in Workers : job'[v] = IF v = w THEN Idle ELSE job[v]
          /\ job' \in [Workers -> Job]
        BY <2>3, IdleOK DEF IInv, TypeOK
    <2>7. \A q \in Orders : (Born(orders'[q]) <=> Born(orders[q])) /\ SameOrder(orders'[q], orders[q])
        BY <2>1, <2>2, <2>5 DEF SameOrder, SamePurchase
    <2>8. \A q \in Orders : /\ Paid(prov[q]) <=> Paid(prov'[q])
                            /\ prov[q] = "none" <=> prov'[q] = "none"
        BY <2>4 DEF Paid
    <2> HIDE DEF o
    <2>9. ASSUME NEW v \in Workers PROVE JobOK(job'[v], orders', prov')
        <3>1. JobOK(Idle, orders', prov')
            BY NoOrderAssumption DEF Idle, JobOK, NoRow, CreateSteps, OrderSteps
        <3>2. job[v] \in Job /\ JobOK(job[v], orders, prov)
            BY JobFacts
        <3>3. job[v].pc = "call" => prov'[job[v].o] = "none"
            BY <2>8, <3>2 DEF JobOK, OrderSteps
        <3>4. JobOK(job[v], orders', prov')
            BY <2>7, <2>8, <3>2, <3>3, JobStable
        <3> QED BY <2>6, <3>1, <3>4
    <2>10. OrdersOK(orders', prov')
        <3>1. SUFFICES ASSUME NEW q \in Orders
                       PROVE  /\ Born(orders'[q]) => orders'[q].user \in Users
                              /\ ~Born(orders'[q]) => prov'[q] = "none" /\ ~orders'[q].granted
                              /\ orders'[q].status = "paid" => Paid(prov'[q])
            BY DEF OrdersOK
        <3>2. CASE q = o
            BY <1>1, <2>1, <2>2, <2>5, <3>2 DEF OrdersOK, SameOrder, SamePurchase
        <3>3. CASE q # o
            BY <1>1, <2>5, <2>8, <3>3 DEF OrdersOK
        <3> QED BY <3>2, <3>3
    <2>11. OneCaller'
        BY <2>6, IdleOK DEF IInv, CopiesAgree, OneCaller
    <2>12. SentOK'
        <3>1. \A n \in sent : n[1] \in Orders
            BY DEF IInv, TypeOK
        <3> QED BY <2>3, <2>8, <3>1 DEF IInv, CopiesAgree, SentOK
    <2> QED BY <2>3, <2>4, <2>5, <2>6, <2>9, <2>10, <2>11, <2>12
            DEF CopiesAgree, IInv, TypeOK, bounds
<1> QED BY <1>2, <1>3, <1>4, <1>5, <1>6

\* Cancels, assigned plans, lapsed rows, failures and the clock.
LEMMA OtherStepInv ==
    ASSUME IInv,
           \/ \E w \in Workers :
                CancelUpdate(w) \/ AssignInsert(w) \/ ExpireSave(w) \/ Fail(w)
           \/ Tick
    PROVE  IInv'
<1>1. ASSUME NEW w \in Workers, CancelUpdate(w) PROVE IInv'
    <2> DEFINE o == job[w].o
               r == [orders[o] EXCEPT !.status = "closed", !.expires = now]
    <2>1. o \in Orders /\ Born(orders[o]) /\ orders[o] \in OrderRow /\ now \in Nat
        BY <1>1, JobFacts DEF CancelUpdate, JobOK, OrderSteps
    <2>2. r \in OrderRow /\ Born(r) /\ SameOrder(r, orders[o]) /\ r.status = "closed"
        BY <2>1 DEF OrderRow, OrderStatuses, Times, Born, SameOrder, SamePurchase
    <2>3. job' = [job EXCEPT ![w] = Idle] /\ UNCHANGED <<prov, sent>>
        BY <1>1 DEF CancelUpdate, provider
    <2>4. orders' = [orders EXCEPT ![o] = r]
        BY <1>1, <2>1 DEF CancelUpdate, IInv, TypeOK
    <2> HIDE DEF o, r
    <2>5. CopiesAgree' /\ job' \in [Workers -> Job] /\ orders' \in [Orders -> OrderRow]
        BY <2>1, <2>2, <2>3, <2>4, IdleOK, RowStep
    <2> QED BY <1>1, <2>5 DEF CancelUpdate, IInv, TypeOK, provider, bounds
<1>2. ASSUME NEW w \in Workers, AssignInsert(w) PROVE IInv'
    <2> DEFINE n == NewSubscription(job[w].row.user, job[w].row.plan, job[w].exp, NoOrder, "admin")
    <2>1. /\ job[w] \in Job /\ job[w].row.user \in Users /\ subs \in Seq(Subscription)
        BY <1>2, JobFacts DEF AssignInsert, JobOK
    <2>2. n \in Subscription
        BY <2>1 DEF NewSubscription, Subscription, Job, OrderRow, SubStatuses
    <2>3. subs' = Append(subs, n)
        BY <1>2 DEF AssignInsert
    <2> HIDE DEF n
    <2>4. subs' \in Seq(Subscription)
        BY <2>1, <2>2, <2>3
    <2>5. CopiesAgree' /\ job' \in [Workers -> Job]
        BY <1>2, EndStep DEF AssignInsert, provider
    <2> QED BY <1>2, <2>4, <2>5 DEF AssignInsert, IInv, TypeOK, provider, bounds
<1>3. ASSUME NEW w \in Workers, ExpireSave(w) PROVE IInv'
    <2> DEFINE j == [job[w] EXCEPT !.pc = "reuse", !.sub = {}]
    <2>1. /\ job[w] \in Job /\ JobOK(job[w], orders, prov) /\ subs \in Seq(Subscription)
          /\ job[w].pc = "expire"
        BY <1>3, JobFacts DEF ExpireSave
    <2>2. subs' \in Seq(Subscription)
        BY <1>3, <2>1, TableTyped DEF ExpireSave
    <2>3. UNCHANGED <<orders, prov, sent>>
        BY <1>3 DEF ExpireSave, provider
    <2>4. CASE job[w].op = "create"
        <3>1. j \in Job /\ j.pc = "reuse" /\ j.o = job[w].o /\ j.row = job[w].row
                /\ j.op = "create" /\ j.msg = job[w].msg
            BY <2>1, <2>4 DEF Job, Steps
        <3>2. job' = [job EXCEPT ![w] = j]
            BY <1>3, <2>4 DEF ExpireSave
        <3> HIDE DEF j
        <3>3. JobOK(j, orders, prov)
            BY <2>1, <2>4, <3>1 DEF JobOK, CreateSteps, OrderSteps
        <3>4. CopiesAgree' /\ job' \in [Workers -> Job]
            BY <2>3, <3>1, <3>2, <3>3, JobStep
        <3> QED BY <1>3, <2>2, <3>4 DEF ExpireSave, IInv, TypeOK, provider, bounds
    <2>5. CASE job[w].op # "create"
        <3>1. CopiesAgree' /\ job' \in [Workers -> Job]
            BY <1>3, <2>3, <2>5, EndStep DEF ExpireSave
        <3> QED BY <1>3, <2>2, <3>1 DEF ExpireSave, IInv, TypeOK, provider, bounds
    <2> QED BY <2>4, <2>5
<1>4. ASSUME NEW w \in Workers, Fail(w) PROVE IInv'
    <2>1. CopiesAgree' /\ job' \in [Workers -> Job]
        BY <1>4, EndStep DEF Fail, tables, provider
    <2> QED BY <1>4, <2>1 DEF Fail, IInv, TypeOK, tables, provider
<1>5. CASE Tick
    <2>1. CopiesAgree'
        BY <1>5 DEF Tick, IInv, CopiesAgree, SentOK, OneCaller, tables, provider
    <2> QED BY <1>5, <2>1 DEF Tick, IInv, TypeOK, tables, provider
<1> QED BY <1>1, <1>2, <1>3, <1>4, <1>5

LEMMA NextInv == IInv /\ [Next]_vars => IInv'
<1> SUFFICES ASSUME IInv, [Next]_vars PROVE IInv'
    OBVIOUS
<1>1. CASE UNCHANGED vars
    BY <1>1 DEF vars, tables, provider, bounds, IInv, TypeOK, CopiesAgree, SentOK, OneCaller
<1>2. ASSUME NEW w \in Workers, Request(w) PROVE IInv'
    BY <1>2, OrderRequestInv, UserRequestInv DEF Request
<1>3. ASSUME NEW w \in Workers, Step(w) PROVE IInv'
    BY <1>3, PollStepInv, SaveResultInv, LogCallbackInv, GrantInv, CreateInsertInv,
       CreateStepInv, OtherStepInv DEF Step
<1>4. ASSUME NEW w \in Workers, Fail(w) \/ CallLost(w) PROVE IInv'
    BY <1>4, CreateStepInv, OtherStepInv
<1>5. ASSUME NEW o \in Orders, Pay(o) \/ Refund(o) \/ RefundFails(o) \/ Close(o) PROVE IInv'
    BY <1>5, ProviderInv
<1> QED BY <1>1, <1>2, <1>3, <1>4, <1>5, OtherStepInv DEF Next

\* Every reachable state is typed and its copies agree (payment_service.go).
THEOREM Invariance == Spec => []IInv
BY InitInv, NextInv, PTL DEF Spec

\* No handler ever stores a value outside the types of the models package.
THEOREM TypeCorrect == Spec => []TypeOK
<1>1. IInv => TypeOK
    BY DEF IInv
<1> QED BY <1>1, Invariance, PTL

\* A row, a copy or an answer says paid only if the provider took the money.
THEOREM CopiesAgreeAlways == Spec => []CopiesAgree
<1>1. IInv => CopiesAgree
    BY DEF IInv
<1> QED BY <1>1, Invariance, PTL

-----------------------------------------------------------------------------
(***************************************************************************)
(* How a step changes the two tables                                       *)
(***************************************************************************)
\* The only steps that write the subscription table.
LEMMA TableWriters ==
    ASSUME [Next]_vars
    PROVE  \/ UNCHANGED subs
           \/ \E u \in Users : subs' = CancelActive(subs, u)
           \/ \E I \in {job[w].sub : w \in Workers} : subs' = Expire(subs, I)
           \/ \E w \in Workers : GrantCommit(w)
           \/ \E w \in Workers : AssignInsert(w)
<1>1. CASE UNCHANGED vars
    BY <1>1 DEF vars, tables
<1>2. ASSUME NEW w \in Workers, Request(w) PROVE UNCHANGED subs \/ \E u \in Users : subs' = CancelActive(subs, u)
    BY <1>2 DEF Request, NotifyFind, PollFind, CancelFind, RegrantFind, ReadPlan, CreateQuote,
                AssignCancel, tables
<1>3. ASSUME NEW w \in Workers, Step(w)
      PROVE  UNCHANGED subs \/ subs' = Expire(subs, job[w].sub) \/ GrantCommit(w) \/ AssignInsert(w)
    BY <1>3 DEF Step, PollQuery, PollUnknown, SaveResult, LogCallback, GrantSkip, GrantRefuse,
                GrantLock, CreateReuse, CreateFresh, CreateInsert, CreateCall, CreateSave,
                CancelUpdate, ExpireSave, tables
<1>4. ASSUME NEW w \in Workers, Fail(w) \/ CallLost(w) PROVE UNCHANGED subs
    BY <1>4 DEF Fail, CallLost, tables
<1>5. ASSUME NEW o \in Orders, Pay(o) \/ Refund(o) \/ RefundFails(o) \/ Close(o)
      PROVE  UNCHANGED subs
    BY <1>5 DEF Pay, Refund, RefundFails, Close, tables
<1>6. CASE Tick
    BY <1>6 DEF Tick, tables
<1> QED BY <1>1, <1>2, <1>3, <1>4, <1>5, <1>6 DEF Next

\* CancelActive keeps every row, closes the user's active ones and no other.
LEMMA CancelCloses ==
    ASSUME NEW s \in Seq(Subscription), NEW u
    PROVE  /\ Len(CancelActive(s, u)) = Len(s)
           /\ \A i \in 1..Len(s) :
                /\ CancelActive(s, u)[i] = [s[i] EXCEPT !.status = CancelActive(s, u)[i].status]
                /\ CancelActive(s, u)[i].status =
                    IF s[i].user = u /\ s[i].status = "active" THEN "canceled" ELSE s[i].status
<1>1. "canceled" \in SubStatuses
    BY DEF SubStatuses
<1>2. \A i \in 1..Len(s) : s[i] \in Subscription /\ i \in DOMAIN s
    OBVIOUS
<1>3. /\ Len(CancelActive(s, u)) = Len(s)
      /\ \A i \in 1..Len(s) : CancelActive(s, u)[i] =
            [s[i] EXCEPT !.status = IF i \in ActiveRows(s, u) THEN "canceled" ELSE @]
    BY <1>1, StatusWritten DEF CancelActive
<1>4. \A i \in 1..Len(s) : CancelActive(s, u)[i].status =
        IF s[i].user = u /\ s[i].status = "active" THEN "canceled" ELSE s[i].status
    BY <1>2, <1>3 DEF Subscription, ActiveRows
<1> QED BY <1>2, <1>3, <1>4 DEF ActiveRows

\* Expire keeps every row, and writes "expired" to the given ones.
LEMMA ExpireCloses ==
    ASSUME NEW s \in Seq(Subscription), NEW I
    PROVE  /\ Len(Expire(s, I)) = Len(s)
           /\ \A i \in 1..Len(s) :
                /\ Expire(s, I)[i] = [s[i] EXCEPT !.status = Expire(s, I)[i].status]
                /\ Expire(s, I)[i].status = IF i \in I THEN "expired" ELSE s[i].status
<1>1. "expired" \in SubStatuses
    BY DEF SubStatuses
<1>2. \A i \in 1..Len(s) : s[i] \in Subscription
    OBVIOUS
<1>3. /\ Len(Expire(s, I)) = Len(s)
      /\ \A i \in 1..Len(s) : Expire(s, I)[i] =
            [s[i] EXCEPT !.status = IF i \in I THEN "expired" ELSE @]
    BY <1>1, StatusWritten DEF Expire
<1>4. \A i \in 1..Len(s) : Expire(s, I)[i].status = IF i \in I THEN "expired" ELSE s[i].status
    BY <1>2, <1>3 DEF Subscription
<1> QED BY <1>2, <1>3, <1>4

\* A step keeps every row, closing it at most, and adds at most one.
LEMMA TableStep ==
    ASSUME IInv, [Next]_vars
    PROVE  /\ Len(subs) <= Len(subs') /\ Len(subs') <= Len(subs) + 1
           /\ \A i \in 1..Len(subs) :
                /\ subs'[i] = [subs[i] EXCEPT !.status = subs'[i].status]
                /\ Closes(subs[i].status, subs'[i].status)
           /\ Len(subs') = Len(subs) + 1 =>
                \E w \in Workers :
                    \/ GrantCommit(w) /\ subs'[Len(subs')] =
                        NewSubscription(job[w].row.user, job[w].row.plan, job[w].exp, job[w].o,
                                        IF job[w].op = "regrant" THEN "regrant" ELSE "grant")
                    \/ AssignInsert(w) /\ subs'[Len(subs')] =
                        NewSubscription(job[w].row.user, job[w].row.plan, job[w].exp, NoOrder, "admin")
<1>1. subs \in Seq(Subscription) /\ Len(subs) \in Nat
        /\ \A i \in 1..Len(subs) : subs[i] \in Subscription /\ subs[i].status \in SubStatuses
    <2>1. subs \in Seq(Subscription)
        BY DEF IInv, TypeOK
    <2>2. Len(subs) \in Nat /\ \A i \in 1..Len(subs) : subs[i] \in Subscription
        BY <2>1
    <2> QED BY <2>1, <2>2 DEF Subscription
<1>2. CASE UNCHANGED subs
    BY <1>1, <1>2 DEF Closes, Subscription
<1>3. ASSUME NEW u \in Users, subs' = CancelActive(subs, u)
      PROVE  /\ Len(subs') = Len(subs)
             /\ \A i \in 1..Len(subs) :
                /\ subs'[i] = [subs[i] EXCEPT !.status = subs'[i].status]
                /\ Closes(subs[i].status, subs'[i].status)
    BY <1>1, <1>3, CancelCloses DEF Closes, SubStatuses
<1>4. ASSUME NEW I, subs' = Expire(subs, I)
      PROVE  /\ Len(subs') = Len(subs)
             /\ \A i \in 1..Len(subs) :
                /\ subs'[i] = [subs[i] EXCEPT !.status = subs'[i].status]
                /\ Closes(subs[i].status, subs'[i].status)
    BY <1>1, <1>4, ExpireCloses DEF Closes, SubStatuses
<1>5. ASSUME NEW w \in Workers, GrantCommit(w)
      PROVE  /\ Len(subs') = Len(subs) + 1
             /\ \A i \in 1..Len(subs) :
                /\ subs'[i] = [subs[i] EXCEPT !.status = subs'[i].status]
                /\ Closes(subs[i].status, subs'[i].status)
             /\ subs'[Len(subs')] =
                    NewSubscription(job[w].row.user, job[w].row.plan, job[w].exp, job[w].o,
                                    IF job[w].op = "regrant" THEN "regrant" ELSE "grant")
    <2> DEFINE s == Expire(subs, job[w].sub)
               c == CancelActive(s, job[w].row.user)
               n == NewSubscription(job[w].row.user, job[w].row.plan, job[w].exp, job[w].o,
                                    IF job[w].op = "regrant" THEN "regrant" ELSE "grant")
    <2>1. s \in Seq(Subscription) /\ c \in Seq(Subscription)
        BY <1>1, TableTyped
    <2>2. subs' = Append(c, n)
        BY <1>5 DEF GrantCommit
    <2>3. Len(s) = Len(subs) /\ \A i \in 1..Len(subs) :
            /\ s[i] = [subs[i] EXCEPT !.status = s[i].status]
            /\ s[i].status = subs[i].status \/ s[i].status = "expired"
        BY <1>1, ExpireCloses
    <2> HIDE DEF s
    <2>4. Len(c) = Len(s) /\ \A i \in 1..Len(s) :
            /\ c[i] = [s[i] EXCEPT !.status = c[i].status]
            /\ c[i].status = s[i].status \/ (s[i].status = "active" /\ c[i].status = "canceled")
        BY <2>1, CancelCloses
    <2> HIDE DEF c, n
    <2>5. /\ Len(subs') = Len(subs) + 1 /\ subs'[Len(subs')] = n
          /\ \A i \in 1..Len(subs) : subs'[i] = c[i]
        BY <1>1, <2>1, <2>2, <2>3, <2>4
    <2>6. ASSUME NEW i \in 1..Len(subs)
          PROVE  /\ c[i] = [subs[i] EXCEPT !.status = c[i].status]
                 /\ Closes(subs[i].status, c[i].status)
        <3>1. /\ s[i] = [subs[i] EXCEPT !.status = s[i].status]
              /\ c[i] = [s[i] EXCEPT !.status = c[i].status]
              /\ subs[i] \in Subscription
            BY <1>1, <2>3, <2>4
        <3>2. c[i] = [subs[i] EXCEPT !.status = c[i].status]
            BY <3>1 DEF Subscription
        <3>3. Closes(subs[i].status, c[i].status)
            <4>1. /\ s[i].status = subs[i].status \/ s[i].status = "expired"
                  /\ c[i].status = s[i].status \/ (s[i].status = "active" /\ c[i].status = "canceled")
                BY <2>3, <2>4
            <4> QED BY <1>1, <4>1 DEF Closes, SubStatuses
        <3> QED BY <3>2, <3>3
    <2> QED BY <2>5, <2>6 DEF n
<1>6. ASSUME NEW w \in Workers, AssignInsert(w)
      PROVE  /\ Len(subs') = Len(subs) + 1
             /\ \A i \in 1..Len(subs) :
                /\ subs'[i] = [subs[i] EXCEPT !.status = subs'[i].status]
                /\ Closes(subs[i].status, subs'[i].status)
             /\ subs'[Len(subs')] =
                    NewSubscription(job[w].row.user, job[w].row.plan, job[w].exp, NoOrder, "admin")
    <2> DEFINE n == NewSubscription(job[w].row.user, job[w].row.plan, job[w].exp, NoOrder, "admin")
    <2>1. subs' = Append(subs, n)
        BY <1>6 DEF AssignInsert
    <2> HIDE DEF n
    <2>2. /\ Len(subs') = Len(subs) + 1 /\ subs'[Len(subs')] = n
          /\ \A i \in 1..Len(subs) : subs'[i] = subs[i]
        BY <1>1, <2>1
    <2> QED BY <1>1, <2>2 DEF Closes, Subscription, n
<1> QED BY <1>1, <1>2, <1>3, <1>4, <1>5, <1>6, TableWriters

-----------------------------------------------------------------------------
(***************************************************************************)
(* The subscription table is a history                                     *)
(***************************************************************************)
\* No write of AssignPlan or GetActiveSubscription, however stale, revives a
\* subscription, changes what it granted or removes it (plan_service.go).
THEOREM SubscriptionHistory == Spec => SubscriptionsOnlyClose
<1>1. IInv /\ [Next]_vars => [KeepsRows(subs, subs')]_vars
    <2> SUFFICES ASSUME IInv, [Next]_vars PROVE KeepsRows(subs, subs')
        OBVIOUS
    <2>1. subs \in Seq(Subscription) /\ subs' \in Seq(Subscription)
        BY NextInv DEF IInv, TypeOK
    <2>2. /\ DOMAIN subs = 1..Len(subs) /\ DOMAIN subs' = 1..Len(subs')
          /\ Len(subs) \in Nat /\ Len(subs') \in Nat
        BY <2>1
    <2>3. /\ Len(subs) <= Len(subs')
          /\ \A i \in 1..Len(subs) :
                /\ subs'[i] = [subs[i] EXCEPT !.status = subs'[i].status]
                /\ Closes(subs[i].status, subs'[i].status)
        BY TableStep
    <2> QED BY <2>2, <2>3 DEF KeepsRows
<1> QED BY <1>1, Invariance, PTL DEF Spec, SubscriptionsOnlyClose

\* A row that says paid is what a grant commits under, because the row lock
\* is held from grantPlan's check: no save or cancel touches a locked row.
LockedPaid == \A w \in Workers : job[w].pc = "commit" => orders[job[w].o].status = "paid"

\* Writers of an order's status wait for its lock.
LEMMA LockedKept ==
    ASSUME IInv, LockedPaid, [Next]_vars, NEW w \in Workers, job[w].pc = "commit",
           job'[w].pc = "commit"
    PROVE  job'[w].o = job[w].o /\ orders'[job[w].o].status = "paid"
<1>1. orders[job[w].o].status = "paid" /\ Locked(job[w].o) /\ job[w].o \in Orders /\ Idle.pc = "idle"
    BY JobFacts DEF LockedPaid, Locked, JobOK, OrderSteps, Idle
<1>2. CASE UNCHANGED vars
    BY <1>1, <1>2 DEF vars, tables
<1>3. job \in [Workers -> Job] /\ orders \in [Orders -> OrderRow]
    BY DEF IInv, TypeOK
<1>4. ASSUME NEW v \in Workers, Request(v) PROVE job'[w] = job[w] /\ UNCHANGED orders
    BY <1>1, <1>3, <1>4 DEF Request, NotifyFind, PollFind, CancelFind, RegrantFind, ReadPlan,
        CreateQuote, AssignCancel, Begin, tables
<1>5. ASSUME NEW v \in Workers, Step(v)
      PROVE  job'[w].o = job[w].o /\ orders'[job[w].o].status = "paid"
    <2>1. v # w
        <3>1. GrantCommit(w) => FALSE
            BY <1>1, <1>3 DEF GrantCommit, Finish
        <3> QED BY <1>5, <3>1 DEF Step, PollQuery, PollUnknown, SaveResult, LogCallback, GrantSkip,
                GrantRefuse, GrantLock, CreateReuse, CreateFresh, CreateInsert, CreateCall,
                CreateSave, CancelUpdate, AssignInsert, ExpireSave
    <2>2. job'[w] = job[w]
        BY <1>3, <1>5, <2>1 DEF Step, PollQuery, PollUnknown, SaveResult, LogCallback, GrantSkip,
            GrantRefuse, GrantLock, GrantCommit, CreateReuse, CreateFresh, CreateInsert, CreateCall,
            CreateSave, CancelUpdate, AssignInsert, ExpireSave, Finish, GoTo
    <2>3. orders'[job[w].o].status = "paid"
        <3>1. CASE UNCHANGED orders
            BY <1>1, <3>1
        <3>2. CASE SaveResult(v) \/ CreateSave(v) \/ CancelUpdate(v)
            BY <1>1, <1>3, <3>2 DEF SaveResult, CreateSave, CancelUpdate
        <3>3. CASE GrantCommit(v)
            BY <1>1, <1>3, <3>3 DEF GrantCommit, OrderRow
        <3>4. CASE CreateInsert(v)
            BY <1>1, <1>3, <3>4 DEF CreateInsert, Unborn
        <3> QED BY <1>5, <3>1, <3>2, <3>3, <3>4
                DEF Step, PollQuery, PollUnknown, LogCallback, GrantSkip, GrantRefuse, GrantLock,
                    CreateReuse, CreateFresh, CreateCall, AssignInsert, ExpireSave, tables
    <2> QED BY <2>2, <2>3
<1>6. ASSUME NEW v \in Workers, Fail(v) \/ CallLost(v)
      PROVE  job'[w].o = job[w].o /\ UNCHANGED orders
    BY <1>1, <1>3, <1>6 DEF Fail, CallLost, tables
<1>7. CASE UNCHANGED <<orders, job>>
    BY <1>1, <1>7
<1> QED BY <1>1, <1>2, <1>4, <1>5, <1>6, <1>7
        DEF Next, Pay, Refund, RefundFails, Close, Tick, tables

\* Only GrantLock takes the lock, having read paid.
LEMMA LockTaken ==
    ASSUME IInv, [Next]_vars, NEW w \in Workers, job[w].pc # "commit", job'[w].pc = "commit"
    PROVE  GrantLock(w)
<1>1. job \in [Workers -> Job] /\ Idle.pc = "idle"
    BY DEF IInv, TypeOK, Idle
<1>2. CASE UNCHANGED vars
    BY <1>2 DEF vars
<1>3. ASSUME NEW v \in Workers, Request(v) PROVE FALSE
    <2>1. ASSUME NEW o \in Orders, NEW c \in ProviderCodes, NotifyFind(v, o, c) PROVE FALSE
        BY <1>1, <2>1 DEF NotifyFind, Begin, Idle
    <2>2. ASSUME NEW o \in Orders, PollFind(v, o) \/ CancelFind(v, o) \/ RegrantFind(v, o)
          PROVE  FALSE
        BY <1>1, <2>2 DEF PollFind, CancelFind, RegrantFind, Begin, Idle
    <2>3. ASSUME NEW u \in Users, ReadPlan(v, u) PROVE FALSE
        BY <1>1, <2>3 DEF ReadPlan, Begin, Idle
    <2>4. ASSUME NEW u \in Users, NEW p, NEW mode, NEW m, CreateQuote(v, u, p, mode, m)
          PROVE  FALSE
        BY <1>1, <2>4 DEF CreateQuote, Begin, Idle
    <2>5. ASSUME NEW u \in Users, NEW p, NEW e, AssignCancel(v, u, p, e) PROVE FALSE
        BY <1>1, <2>5 DEF AssignCancel, Begin, Idle
    <2> QED BY <1>3, <2>1, <2>2, <2>3, <2>4, <2>5 DEF Request
<1>4. ASSUME NEW v \in Workers, Step(v), ~GrantLock(v) PROVE FALSE
    <2>1. CASE PollQuery(v) \/ PollUnknown(v) \/ SaveResult(v) \/ LogCallback(v)
        BY <1>1, <2>1 DEF PollQuery, PollUnknown, SaveResult, LogCallback, Finish, GoTo, Job
    <2>2. CASE GrantSkip(v) \/ GrantRefuse(v) \/ GrantCommit(v)
        BY <1>1, <2>2 DEF GrantSkip, GrantRefuse, GrantCommit, Finish
    <2>3. CASE CreateReuse(v) \/ CreateFresh(v) \/ CreateCall(v) \/ CreateSave(v)
        BY <1>1, <2>3 DEF CreateReuse, CreateFresh, CreateCall, CreateSave, Job
    <2>4. CASE CreateInsert(v)
        BY <1>1, <2>4 DEF CreateInsert, Job
    <2>5. CASE CancelUpdate(v) \/ AssignInsert(v) \/ ExpireSave(v)
        BY <1>1, <2>5 DEF CancelUpdate, AssignInsert, ExpireSave, Job
    <2> QED BY <1>4, <2>1, <2>2, <2>3, <2>4, <2>5 DEF Step
<1>5. ASSUME NEW v \in Workers, GrantLock(v) PROVE v = w
    BY <1>1, <1>5 DEF GrantLock
<1>6. ASSUME NEW v \in Workers, Fail(v) \/ CallLost(v) PROVE FALSE
    BY <1>1, <1>6 DEF Fail, CallLost
<1>7. CASE UNCHANGED job
    BY <1>7
<1> QED BY <1>2, <1>3, <1>4, <1>5, <1>6, <1>7
        DEF Next, Pay, Refund, RefundFails, Close, Tick

LEMMA LockedPaidInv == IInv /\ LockedPaid /\ [Next]_vars => LockedPaid'
<1> SUFFICES ASSUME IInv, LockedPaid, [Next]_vars, NEW w \in Workers, job'[w].pc = "commit"
             PROVE  orders'[job'[w].o].status = "paid"
    BY DEF LockedPaid
<1>1. CASE job[w].pc = "commit"
    BY <1>1, LockedKept
<1>2. CASE job[w].pc # "commit"
    <2>1. GrantLock(w)
        BY <1>2, LockTaken
    <2>2. job'[w].o = job[w].o /\ UNCHANGED orders /\ orders[job[w].o].status = "paid"
        BY <2>1 DEF GrantLock, Grantable, tables, IInv, TypeOK, Job
    <2> QED BY <2>2
<1> QED BY <1>1, <1>2

\* grantPlan never inserts a subscription for an order that is not paid at
\* the commit, whatever cancels, refunds and stale saves run beside it.
THEOREM GrantsArePaid == Spec => GrantOnlyWhilePaid
<1>1. Init => LockedPaid
    BY DEF Init, LockedPaid, Idle
<1>2. IInv /\ LockedPaid /\ [Next]_vars => [Appended => ItsOrder.status = "paid"]_vars
    <2> SUFFICES ASSUME IInv, LockedPaid, [Next]_vars, Appended
                 PROVE  ItsOrder.status = "paid"
        OBVIOUS
    <2>1. Len(subs') = Len(subs) + 1
        <3>1. subs \in Seq(Subscription) /\ subs' \in Seq(Subscription)
            BY NextInv DEF IInv, TypeOK
        <3>2. Len(subs) \in Nat /\ Len(subs') \in Nat
            BY <3>1
        <3> QED BY <3>2, TableStep DEF Appended
    <2>2. PICK w \in Workers : GrantCommit(w) /\ NewSub.order = job[w].o
        <3>1. \A u, p, e, o : NewSubscription(u, p, e, o, "admin").by = "admin"
            BY DEF NewSubscription
        <3>2. \A u, p, e, o, by : NewSubscription(u, p, e, o, by).order = o
            BY DEF NewSubscription
        <3> QED BY <2>1, <3>1, <3>2, TableStep DEF Appended, NewSub
    <2> QED BY <2>2 DEF LockedPaid, ItsOrder, GrantCommit
<1> QED BY <1>1, <1>2, Invariance, LockedPaidInv, PTL DEF Spec, GrantOnlyWhilePaid

-----------------------------------------------------------------------------
(***************************************************************************)
(* Every subscription the payment code inserted is backed by a payment     *)
(***************************************************************************)
\* The columns fixed at creation never change, and money taken stays taken.
LEMMA OrdersStable ==
    ASSUME IInv, [Next]_vars, NEW q \in Orders
    PROVE  /\ Born(orders[q]) => SameOrder(orders'[q], orders[q])
           /\ Paid(prov[q]) => Paid(prov'[q])
<1>1. job \in [Workers -> Job] /\ orders \in [Orders -> OrderRow] /\ prov \in [Orders -> ProviderCodes]
    BY DEF IInv, TypeOK
<1>2. CASE UNCHANGED <<orders, prov>>
    BY <1>2 DEF SameOrder, SamePurchase
<1>3. ASSUME NEW w \in Workers, Step(w), ~UNCHANGED <<orders, prov>>
      PROVE  /\ Born(orders[q]) => SameOrder(orders'[q], orders[q])
             /\ Paid(prov[q]) => Paid(prov'[q])
    <2>1. /\ SaveResult(w) \/ GrantCommit(w) \/ CreateInsert(w) \/ CreateCall(w) \/ CreateSave(w)
                \/ CancelUpdate(w)
        BY <1>3 DEF Step, PollQuery, PollUnknown, LogCallback, GrantSkip, GrantRefuse, GrantLock,
                    CreateReuse, CreateFresh, AssignInsert, ExpireSave, tables, provider
    <2>2. job[w] \in Job /\ JobOK(job[w], orders, prov)
        BY JobFacts
    <2>3. CASE SaveResult(w)
        <3>1. /\ SameOrder(job[w].row, orders[job[w].o]) /\ job[w].row \in OrderRow
              /\ orders'[q] = IF q = job[w].o THEN SavedRow(job[w]) ELSE orders[q]
            BY <1>1, <2>2, <2>3 DEF SaveResult, JobOK, OrderSteps, Job
        <3> QED BY <2>3, <3>1 DEF SaveResult, SavedRow, SameOrder, SamePurchase, OrderRow
    <2>4. CASE CreateSave(w)
        <3>1. /\ SameOrder(job[w].row, orders[job[w].o]) /\ job[w].row \in OrderRow
              /\ orders'[q] = IF q = job[w].o THEN [job[w].row EXCEPT !.code = TRUE] ELSE orders[q]
            BY <1>1, <2>2, <2>4 DEF CreateSave, JobOK, OrderSteps, Job
        <3>2. Paid(prov[q]) => Paid(prov'[q])
            BY <1>1, <2>4 DEF CreateSave, Paid
        <3> QED BY <3>1, <3>2 DEF SameOrder, SamePurchase, OrderRow
    <2>5. CASE GrantCommit(w) \/ CancelUpdate(w)
        <3>1. /\ orders[q] \in OrderRow
              /\ \/ orders'[q] = orders[q]
                 \/ orders'[q] = [orders[q] EXCEPT !.granted = TRUE]
                 \/ orders'[q] = [orders[q] EXCEPT !.status = "closed", !.expires = now]
            BY <1>1, <2>5 DEF GrantCommit, CancelUpdate
        <3>2. UNCHANGED prov
            BY <2>5 DEF GrantCommit, CancelUpdate, provider
        <3> QED BY <3>1, <3>2 DEF SameOrder, SamePurchase, OrderRow
    <2>6. CASE CreateInsert(w)
        <3>1. orders[q].status # "none" => orders'[q] = orders[q]
            BY <1>1, <2>6 DEF CreateInsert, Unborn
        <3>2. UNCHANGED prov
            BY <2>6 DEF CreateInsert, provider
        <3> QED BY <3>1, <3>2 DEF Born, SameOrder, SamePurchase
    <2>7. CASE CreateCall(w)
        BY <1>1, <2>2, <2>7 DEF CreateCall, JobOK, Paid, SameOrder, SamePurchase, tables
    <2> QED BY <2>1, <2>3, <2>4, <2>5, <2>6, <2>7
<1>4. ASSUME NEW w \in Workers, CallLost(w)
      PROVE  UNCHANGED orders /\ (Paid(prov[q]) => Paid(prov'[q]))
    BY <1>1, <1>4, JobFacts DEF CallLost, JobOK, Paid, tables
<1>5. ASSUME NEW o \in Orders, Pay(o) \/ Refund(o) \/ RefundFails(o) \/ Close(o)
      PROVE  UNCHANGED orders /\ (Paid(prov[q]) => Paid(prov'[q]))
    BY <1>1, <1>5 DEF Pay, Refund, RefundFails, Close, Paid, tables
<1>6. ASSUME NEW w \in Workers, Request(w) \/ Fail(w) PROVE UNCHANGED <<orders, prov>>
    BY <1>6 DEF Request, NotifyFind, PollFind, CancelFind, RegrantFind, ReadPlan, CreateQuote,
                AssignCancel, Fail, tables, provider
<1> QED BY <1>2, <1>3, <1>4, <1>5, <1>6
        DEF Next, Tick, vars, tables, provider, SameOrder, SamePurchase

LEMMA GrantBackedInv == IInv /\ GrantBacked /\ [Next]_vars => GrantBacked'
<1> SUFFICES ASSUME IInv, GrantBacked, [Next]_vars,
                    NEW i \in DOMAIN subs', subs'[i].by # "admin"
             PROVE  \E o \in Orders :
                        /\ subs'[i].order = o /\ Paid(prov'[o])
                        /\ subs'[i].user = orders'[o].user /\ subs'[i].plan = orders'[o].plan
    BY DEF GrantBacked, PaidAt
<1>1. subs \in Seq(Subscription) /\ subs' \in Seq(Subscription)
    BY NextInv DEF IInv, TypeOK
<1>2. /\ Len(subs) \in Nat /\ Len(subs') \in Nat /\ i \in 1..Len(subs')
      /\ DOMAIN subs = 1..Len(subs) /\ \A k \in 1..Len(subs) : subs[k] \in Subscription
    BY <1>1
<1>3. \A o \in Orders : Paid(prov[o]) => Born(orders[o])
    BY DEF IInv, CopiesAgree, OrdersOK, Paid
<1>4. CASE i \in 1..Len(subs)
    <2>1. /\ subs[i] \in Subscription /\ subs'[i] = [subs[i] EXCEPT !.status = subs'[i].status]
        BY <1>2, <1>4, TableStep
    <2>2. /\ subs'[i].by = subs[i].by /\ subs'[i].order = subs[i].order
          /\ subs'[i].user = subs[i].user /\ subs'[i].plan = subs[i].plan
        BY <2>1 DEF Subscription
    <2>3. PICK o \in Orders :
            /\ subs[i].order = o /\ Paid(prov[o])
            /\ subs[i].user = orders[o].user /\ subs[i].plan = orders[o].plan
        BY <1>2, <1>4, <2>2 DEF GrantBacked, PaidAt
    <2>4. SameOrder(orders'[o], orders[o]) /\ Paid(prov'[o])
        BY <1>3, <2>3, OrdersStable
    <2> QED BY <2>2, <2>3, <2>4 DEF SameOrder, SamePurchase
<1>5. CASE i \notin 1..Len(subs)
    <2>1. Len(subs') = Len(subs) + 1 /\ i = Len(subs')
        BY <1>2, <1>5, TableStep
    <2>2. PICK w \in Workers : GrantCommit(w) /\
            subs'[i] = NewSubscription(job[w].row.user, job[w].row.plan, job[w].exp, job[w].o,
                                       IF job[w].op = "regrant" THEN "regrant" ELSE "grant")
        <3>1. \A u, p, e, o : NewSubscription(u, p, e, o, "admin").by = "admin"
            BY DEF NewSubscription
        <3> QED BY <2>1, <3>1, TableStep
    <2>3. /\ subs'[i].user = job[w].row.user /\ subs'[i].plan = job[w].row.plan
          /\ subs'[i].order = job[w].o
        BY <2>2 DEF NewSubscription
    <2>4. /\ job[w].o \in Orders /\ Born(orders[job[w].o]) /\ Paid(prov[job[w].o])
          /\ SameOrder(job[w].row, orders[job[w].o])
        BY <2>2, JobFacts DEF GrantCommit, JobOK, OrderSteps
    <2>5. SameOrder(orders'[job[w].o], orders[job[w].o]) /\ Paid(prov'[job[w].o])
        BY <2>4, OrdersStable
    <2> QED BY <2>3, <2>4, <2>5 DEF SameOrder, SamePurchase
<1> QED BY <1>4, <1>5

\* Nobody holds a paid plan from the payment code without a payment: every
\* subscription it inserted is of the user and the plan of an order the
\* provider took money for, under any interleaving, retry or failure.
THEOREM GrantsAreBacked == Spec => []GrantBacked
<1>1. Init => GrantBacked
    BY DEF Init, GrantBacked
<1> QED BY <1>1, Invariance, GrantBackedInv, PTL DEF Spec

-----------------------------------------------------------------------------
(***************************************************************************)
(* What a step does to the orders' rows and to the copies of them          *)
(***************************************************************************)
\* The only steps that write an order's row.
LEMMA RowWriters ==
    ASSUME [Next]_vars
    PROVE  \/ UNCHANGED orders
           \/ \E w \in Workers : SaveResult(w) \/ GrantCommit(w) \/ CreateInsert(w)
                                   \/ CreateSave(w) \/ CancelUpdate(w)
<1>1. CASE UNCHANGED vars
    BY <1>1 DEF vars, tables
<1>2. ASSUME NEW w \in Workers, Request(w) PROVE UNCHANGED orders
    BY <1>2 DEF Request, NotifyFind, PollFind, CancelFind, RegrantFind, ReadPlan, CreateQuote,
                AssignCancel, tables
<1>3. ASSUME NEW w \in Workers, Step(w)
      PROVE  \/ UNCHANGED orders
             \/ SaveResult(w) \/ GrantCommit(w) \/ CreateInsert(w) \/ CreateSave(w) \/ CancelUpdate(w)
    BY <1>3 DEF Step, PollQuery, PollUnknown, LogCallback, GrantSkip, GrantRefuse, GrantLock,
                CreateReuse, CreateFresh, CreateCall, AssignInsert, ExpireSave, tables
<1>4. ASSUME NEW w \in Workers, Fail(w) \/ CallLost(w) PROVE UNCHANGED orders
    BY <1>4 DEF Fail, CallLost, tables
<1>5. ASSUME NEW o \in Orders, Pay(o) \/ Refund(o) \/ RefundFails(o) \/ Close(o)
      PROVE  UNCHANGED orders
    BY <1>5 DEF Pay, Refund, RefundFails, Close, tables
<1>6. CASE Tick
    BY <1>6 DEF Tick, tables
<1> QED BY <1>1, <1>2, <1>3, <1>4, <1>5, <1>6 DEF Next

\* What those steps write: a copy of the row, or a column of the row itself.
LEMMA RowWritten ==
    ASSUME IInv, [Next]_vars, NEW q \in Orders
    PROVE  \/ orders'[q] = orders[q]
           \/ \E w \in Workers : /\ SaveResult(w) /\ job[w].o = q
                                 /\ orders'[q] = SavedRow(job[w])
           \/ \E w \in Workers : /\ CreateSave(w) /\ job[w].o = q
                                 /\ orders'[q] = [job[w].row EXCEPT !.code = TRUE]
           \/ \E w \in Workers : /\ GrantCommit(w) /\ job[w].o = q
                                 /\ orders'[q] = [orders[q] EXCEPT !.granted = TRUE]
           \/ \E w \in Workers : /\ CancelUpdate(w) /\ job[w].o = q
                                 /\ orders'[q] = [orders[q] EXCEPT !.status = "closed",
                                                                   !.expires = now]
           \/ \E w \in Workers : /\ CreateInsert(w) /\ ~Born(orders[q])
                                 /\ orders'[q] = [job[w].row EXCEPT !.expires = now + OrderTTL,
                                                   !.id = Cardinality(Orders \ Unborn) + 1]
<1>1. orders \in [Orders -> OrderRow] /\ orders[q] \in OrderRow
    BY DEF IInv, TypeOK
<1>2. ASSUME NEW w \in Workers, SaveResult(w)
      PROVE  orders'[q] = orders[q] \/ (job[w].o = q /\ orders'[q] = SavedRow(job[w]))
    BY <1>1, <1>2 DEF SaveResult
<1>3. ASSUME NEW w \in Workers, CreateSave(w)
      PROVE  orders'[q] = orders[q] \/ (job[w].o = q /\ orders'[q] = [job[w].row EXCEPT !.code = TRUE])
    BY <1>1, <1>3 DEF CreateSave
<1>4. ASSUME NEW w \in Workers, GrantCommit(w)
      PROVE  orders'[q] = orders[q]
              \/ (job[w].o = q /\ orders'[q] = [orders[q] EXCEPT !.granted = TRUE])
    BY <1>1, <1>4 DEF GrantCommit
<1>5. ASSUME NEW w \in Workers, CancelUpdate(w)
      PROVE  orders'[q] = orders[q]
                \/ (job[w].o = q /\
                        orders'[q] = [orders[q] EXCEPT !.status = "closed", !.expires = now])
    BY <1>1, <1>5 DEF CancelUpdate
<1>6. ASSUME NEW w \in Workers, CreateInsert(w)
      PROVE  orders'[q] = orders[q]
              \/ (~Born(orders[q]) /\
                    orders'[q] = [job[w].row EXCEPT !.expires = now + OrderTTL,
                                                    !.id = Cardinality(Orders \ Unborn) + 1])
    <2> DEFINE row == [job[w].row EXCEPT !.expires = now + OrderTTL,
                                         !.id = Cardinality(Orders \ Unborn) + 1]
    <2>1. PICK o \in Unborn : orders' = [orders EXCEPT ![o] = row]
        BY <1>6 DEF CreateInsert
    <2> HIDE DEF row
    <2>2. orders'[q] = orders[q] \/ (orders'[q] = row /\ q \in Unborn)
        BY <1>1, <2>1
    <2> QED BY <2>2 DEF Unborn, Born, row
<1> QED BY <1>2, <1>3, <1>4, <1>5, <1>6, RowWriters

\* The same, column by column.
LEMMA RowColumns ==
    ASSUME IInv, [Next]_vars, NEW q \in Orders
    PROVE  LET r == orders[q]
               n == orders'[q]
           IN  \/ n = r
               \/ \E w \in Workers :
                    /\ SaveResult(w) /\ job[w].o = q /\ n.code = FALSE
                    /\ n.granted = job[w].row.granted /\ n.id = job[w].row.id
                    /\ n.expires = job[w].row.expires
               \/ \E w \in Workers :
                    /\ CreateSave(w) /\ job[w].o = q
                    /\ n.granted = job[w].row.granted /\ n.id = job[w].row.id
                    /\ n.expires = job[w].row.expires
               \/ \E w \in Workers :
                    /\ GrantCommit(w) /\ job[w].o = q
                    /\ n.granted /\ n.id = r.id /\ n.expires = r.expires
                    /\ n.status = r.status /\ n.code = r.code
               \/ \E w \in Workers :
                    /\ CancelUpdate(w) /\ job[w].o = q
                    /\ n.granted = r.granted /\ n.id = r.id /\ n.status = "closed"
               \/ \E w \in Workers :
                    /\ CreateInsert(w) /\ ~Born(r)
                    /\ n.granted = FALSE /\ n.id = Cardinality(Orders \ Unborn) + 1
                    /\ n.code = job[w].row.code /\ SamePurchase(n, job[w].row)
<1>1. orders[q] \in OrderRow /\ \A w \in Workers : job[w].row \in OrderRow
    BY JobFacts DEF IInv, TypeOK, Job
<1>2. ASSUME NEW w \in Workers
      PROVE  LET n == SavedRow(job[w])
             IN  /\ n.code = FALSE /\ n.granted = job[w].row.granted /\ n.id = job[w].row.id
                 /\ n.expires = job[w].row.expires
    BY <1>1 DEF SavedRow, OrderRow
<1>3. ASSUME NEW w \in Workers
      PROVE  LET n == [job[w].row EXCEPT !.code = TRUE]
             IN  /\ n.granted = job[w].row.granted /\ n.id = job[w].row.id
                 /\ n.expires = job[w].row.expires
    BY <1>1 DEF OrderRow
<1>4. LET n == [orders[q] EXCEPT !.granted = TRUE]
      IN  /\ n.granted /\ n.id = orders[q].id /\ n.expires = orders[q].expires
          /\ n.status = orders[q].status /\ n.code = orders[q].code
    BY <1>1 DEF OrderRow
<1>5. LET n == [orders[q] EXCEPT !.status = "closed", !.expires = now]
      IN  n.granted = orders[q].granted /\ n.id = orders[q].id /\ n.status = "closed"
    BY <1>1 DEF OrderRow
<1>6. ASSUME NEW w \in Workers, CreateInsert(w), NEW e, NEW d
      PROVE  LET n == [job[w].row EXCEPT !.expires = e, !.id = d]
             IN  /\ n.granted = FALSE /\ n.id = d /\ n.code = job[w].row.code
                 /\ SamePurchase(n, job[w].row)
    <2>1. job[w].row.granted = FALSE
        BY <1>1, <1>6, JobFacts DEF CreateInsert, JobOK, CreateSteps, OrderRow
    <2> QED BY <1>1, <2>1 DEF OrderRow, SamePurchase
<1>7. CASE orders'[q] = orders[q]
    BY <1>7
<1>8. ASSUME NEW w \in Workers, SaveResult(w), job[w].o = q, orders'[q] = SavedRow(job[w])
      PROVE  /\ orders'[q].code = FALSE
             /\ orders'[q].granted = job[w].row.granted /\ orders'[q].id = job[w].row.id
             /\ orders'[q].expires = job[w].row.expires
    BY <1>2, <1>8
<1>9. ASSUME NEW w \in Workers, CreateSave(w), orders'[q] = [job[w].row EXCEPT !.code = TRUE]
      PROVE  /\ orders'[q].granted = job[w].row.granted /\ orders'[q].id = job[w].row.id
             /\ orders'[q].expires = job[w].row.expires
    BY <1>3, <1>9
<1>10. ASSUME orders'[q] = [orders[q] EXCEPT !.granted = TRUE]
       PROVE  /\ orders'[q].granted /\ orders'[q].id = orders[q].id
              /\ orders'[q].expires = orders[q].expires
              /\ orders'[q].status = orders[q].status /\ orders'[q].code = orders[q].code
    BY <1>4, <1>10
<1>11. ASSUME orders'[q] = [orders[q] EXCEPT !.status = "closed", !.expires = now]
       PROVE  /\ orders'[q].granted = orders[q].granted /\ orders'[q].id = orders[q].id
              /\ orders'[q].status = "closed"
    BY <1>5, <1>11
<1>12. ASSUME NEW w \in Workers, CreateInsert(w),
              orders'[q] = [job[w].row EXCEPT !.expires = now + OrderTTL,
                                              !.id = Cardinality(Orders \ Unborn) + 1]
       PROVE  /\ orders'[q].granted = FALSE /\ orders'[q].id = Cardinality(Orders \ Unborn) + 1
              /\ orders'[q].code = job[w].row.code /\ SamePurchase(orders'[q], job[w].row)
    <2> DEFINE e == now + OrderTTL
               d == Cardinality(Orders \ Unborn) + 1
    <2>1. orders'[q] = [job[w].row EXCEPT !.expires = e, !.id = d]
        BY <1>12
    <2> HIDE DEF e, d
    <2>2. /\ orders'[q].granted = FALSE /\ orders'[q].id = d
          /\ orders'[q].code = job[w].row.code /\ SamePurchase(orders'[q], job[w].row)
        <3> DEFINE n == [job[w].row EXCEPT !.expires = e, !.id = d]
        <3>1. /\ n.granted = FALSE /\ n.id = d /\ n.code = job[w].row.code
              /\ SamePurchase(n, job[w].row)
            BY <1>6, <1>12
        <3>2. orders'[q] = n
            BY <2>1
        <3> HIDE DEF n
        <3> QED BY <3>1, <3>2
    <2> QED BY <2>2 DEF d
<1> QED
    <2> DEFINE P(w) == orders'[q] = [job[w].row EXCEPT !.code = TRUE]
               I(w) == orders'[q] = [job[w].row EXCEPT !.expires = now + OrderTTL,
                                                !.id = Cardinality(Orders \ Unborn) + 1]
               G == orders'[q] = [orders[q] EXCEPT !.granted = TRUE]
               C == orders'[q] = [orders[q] EXCEPT !.status = "closed", !.expires = now]
    <2>1. \/ orders'[q] = orders[q]
          \/ \E w \in Workers : SaveResult(w) /\ job[w].o = q /\ orders'[q] = SavedRow(job[w])
          \/ \E w \in Workers : CreateSave(w) /\ job[w].o = q /\ P(w)
          \/ \E w \in Workers : GrantCommit(w) /\ job[w].o = q /\ G
          \/ \E w \in Workers : CancelUpdate(w) /\ job[w].o = q /\ C
          \/ \E w \in Workers : CreateInsert(w) /\ ~Born(orders[q]) /\ I(w)
        BY RowWritten
    <2>2. \A w \in Workers : CreateSave(w) /\ P(w) =>
            /\ orders'[q].granted = job[w].row.granted /\ orders'[q].id = job[w].row.id
            /\ orders'[q].expires = job[w].row.expires
        BY <1>9
    <2>3. \A w \in Workers : CreateInsert(w) /\ I(w) =>
            /\ orders'[q].granted = FALSE /\ orders'[q].id = Cardinality(Orders \ Unborn) + 1
            /\ orders'[q].code = job[w].row.code /\ SamePurchase(orders'[q], job[w].row)
        BY <1>12
    <2>4. G =>
            /\ orders'[q].granted /\ orders'[q].id = orders[q].id
            /\ orders'[q].expires = orders[q].expires
            /\ orders'[q].status = orders[q].status /\ orders'[q].code = orders[q].code
        BY <1>10
    <2>5. C => /\ orders'[q].granted = orders[q].granted /\ orders'[q].id = orders[q].id
               /\ orders'[q].status = "closed"
        BY <1>11
    <2> HIDE DEF P, I, G, C
    <2> QED BY <1>8, <2>1, <2>2, <2>3, <2>4, <2>5

\* A copy of a row is kept, given up, or taken from the table as it is then.
LEMMA CopyTaken ==
    ASSUME IInv, [Next]_vars, NEW w \in Workers, job'[w].o \in Orders
    PROVE  \/ job'[w].o = job[w].o /\ job'[w].row = job[w].row
           \/ job'[w].row = orders'[job'[w].o]
<1>1. job \in [Workers -> Job] /\ orders \in [Orders -> OrderRow] /\ job[w] \in Job
        /\ Idle.o = NoOrder
    BY DEF IInv, TypeOK, Idle
<1>2. CASE UNCHANGED vars
    BY <1>2 DEF vars
<1>3. ASSUME NEW v \in Workers, Request(v)
      PROVE  \/ job'[w] = job[w]
             \/ job'[w].row = orders'[job'[w].o]
    <2>1. CASE v # w
        BY <1>1, <1>3, <2>1 DEF Request, NotifyFind, PollFind, CancelFind, RegrantFind, ReadPlan,
            CreateQuote, AssignCancel, Begin
    <2>2. ASSUME NEW o \in Orders, NEW c \in ProviderCodes, NotifyFind(w, o, c)
          PROVE  job'[w].row = orders'[job'[w].o]
        BY <1>1, <2>2 DEF NotifyFind, Begin, Idle, tables
    <2>3. ASSUME NEW o \in Orders, PollFind(w, o) \/ CancelFind(w, o) \/ RegrantFind(w, o)
          PROVE  job'[w].row = orders'[job'[w].o]
        <3>1. UNCHANGED orders
            BY <2>3 DEF PollFind, CancelFind, RegrantFind, tables
        <3>2. \E op, pc : job'[w] = [Idle EXCEPT !.op = op, !.pc = pc, !.o = o, !.row = orders[o]]
            <4>1. CASE PollFind(w, o)
                <5> DEFINE pc == IF orders[o].status = "paid" THEN "lock" ELSE "query"
                <5>1. job'[w] = [Idle EXCEPT !.op = "poll", !.o = o, !.row = orders[o], !.pc = pc]
                    BY <1>1, <4>1 DEF PollFind, Begin
                <5> HIDE DEF pc
                <5>2. job'[w] = [Idle EXCEPT !.op = "poll", !.pc = pc, !.o = o, !.row = orders[o]]
                    BY <5>1 DEF Idle
                <5> QED BY <5>2
            <4>2. CASE CancelFind(w, o)
                BY <1>1, <4>2 DEF CancelFind, Begin
            <4>3. CASE RegrantFind(w, o)
                BY <1>1, <4>3 DEF RegrantFind, Begin
            <4> QED BY <2>3, <4>1, <4>2, <4>3
        <3> QED BY <3>1, <3>2 DEF Idle
    <2>4. ASSUME NEW u \in Users, ReadPlan(w, u) PROVE FALSE
        BY <1>1, <2>4, NoOrderAssumption DEF ReadPlan, Begin, Idle
    <2>5. ASSUME NEW u \in Users, NEW p, NEW mode, NEW m, CreateQuote(w, u, p, mode, m)
          PROVE  FALSE
        BY <1>1, <2>5, NoOrderAssumption DEF CreateQuote, Begin, Idle
    <2>6. ASSUME NEW u \in Users, NEW p, NEW e, AssignCancel(w, u, p, e) PROVE FALSE
        BY <1>1, <2>6, NoOrderAssumption DEF AssignCancel, Begin, Idle
    <2> QED BY <1>3, <2>1, <2>2, <2>3, <2>4, <2>5, <2>6 DEF Request
<1>4. ASSUME NEW v \in Workers, Step(v)
      PROVE  \/ job'[w].o = job[w].o /\ job'[w].row = job[w].row
             \/ job'[w].row = orders'[job'[w].o]
    <2>1. CASE v # w
        BY <1>1, <1>4, <2>1 DEF Step, PollQuery, PollUnknown, SaveResult, LogCallback, GrantSkip,
            GrantRefuse, GrantLock, GrantCommit, CreateReuse, CreateFresh, CreateInsert, CreateCall,
            CreateSave, CancelUpdate, AssignInsert, ExpireSave, Finish, GoTo
    <2>2. CASE GrantLock(w)
        BY <1>1, <2>2 DEF GrantLock, Job, tables
    <2>3. CASE CreateInsert(w)
        <3> DEFINE row == [job[w].row EXCEPT !.expires = now + OrderTTL,
                                             !.id = Cardinality(Orders \ Unborn) + 1]
        <3>1. PICK o \in Unborn :
                /\ orders' = [orders EXCEPT ![o] = row]
                /\ job' = [job EXCEPT ![w].pc = "call", ![w].o = o, ![w].row = row]
            BY <2>3 DEF CreateInsert
        <3> HIDE DEF row
        <3> QED BY <1>1, <3>1 DEF Job, Unborn
    <2>4. CASE PollQuery(w) \/ PollUnknown(w) \/ SaveResult(w) \/ LogCallback(w)
        BY <1>1, <2>4, NoOrderAssumption
           DEF PollQuery, PollUnknown, SaveResult, LogCallback, Finish, GoTo, Job
    <2>5. CASE GrantSkip(w) \/ GrantRefuse(w) \/ GrantCommit(w)
        BY <1>1, <2>5, NoOrderAssumption DEF GrantSkip, GrantRefuse, GrantCommit, Finish
    <2>6. CASE CreateReuse(w) \/ CreateFresh(w) \/ CreateCall(w) \/ CreateSave(w)
        BY <1>1, <2>6, NoOrderAssumption
           DEF CreateReuse, CreateFresh, CreateCall, CreateSave, Job
    <2>7. CASE CancelUpdate(w) \/ AssignInsert(w) \/ ExpireSave(w)
        BY <1>1, <2>7, NoOrderAssumption DEF CancelUpdate, AssignInsert, ExpireSave, Job
    <2> QED BY <1>4, <2>1, <2>2, <2>3, <2>4, <2>5, <2>6, <2>7 DEF Step
<1>5. ASSUME NEW v \in Workers, Fail(v) \/ CallLost(v) PROVE job'[w] = job[w]
    BY <1>1, <1>5, NoOrderAssumption DEF Fail, CallLost
<1>6. CASE UNCHANGED job
    BY <1>6
<1> QED BY <1>2, <1>3, <1>4, <1>5, <1>6 DEF Next, Pay, Refund, RefundFails, Close, Tick

-----------------------------------------------------------------------------
(***************************************************************************)
(* Granted orders have their subscription                                  *)
(***************************************************************************)
\* Subscriptions keep the order that bought them.
LEMMA RowsStay ==
    ASSUME IInv, [Next]_vars
    PROVE  /\ DOMAIN subs \subseteq DOMAIN subs'
           /\ \A i \in DOMAIN subs :
                /\ subs[i] \in Subscription
                /\ subs'[i].order = subs[i].order /\ subs'[i].by = subs[i].by
                /\ subs'[i].user = subs[i].user /\ subs'[i].plan = subs[i].plan
                /\ subs'[i].exp = subs[i].exp
                /\ subs'[i].status = "active" => subs[i].status = "active"
<1>1. subs \in Seq(Subscription) /\ subs' \in Seq(Subscription)
    BY NextInv DEF IInv, TypeOK
<1>2. /\ DOMAIN subs = 1..Len(subs) /\ DOMAIN subs' = 1..Len(subs')
      /\ Len(subs) \in Nat /\ Len(subs') \in Nat /\ Len(subs) <= Len(subs')
      /\ \A i \in 1..Len(subs) : subs[i] \in Subscription
    BY <1>1, TableStep
<1>3. ASSUME NEW i \in DOMAIN subs
      PROVE  /\ subs[i] \in Subscription
             /\ subs'[i] = [subs[i] EXCEPT !.status = subs'[i].status]
             /\ subs'[i].status = "active" => subs[i].status = "active"
    BY <1>2, TableStep DEF Closes
<1>4. ASSUME NEW i \in DOMAIN subs
      PROVE  /\ subs'[i].order = subs[i].order /\ subs'[i].by = subs[i].by
             /\ subs'[i].user = subs[i].user /\ subs'[i].plan = subs[i].plan
             /\ subs'[i].exp = subs[i].exp
    BY <1>3 DEF Subscription
<1>5. DOMAIN subs \subseteq DOMAIN subs'
    BY <1>2
<1> QED BY <1>3, <1>4, <1>5

\* A row that is new is the last one, granted or assigned by a worker.
LEMMA NewRow ==
    ASSUME IInv, [Next]_vars, NEW i \in DOMAIN subs', i \notin DOMAIN subs
    PROVE  /\ i = Len(subs) + 1 /\ i = Len(subs')
           /\ \E w \in Workers :
                \/ /\ GrantCommit(w)
                   /\ subs'[i].order = job[w].o /\ subs'[i].user = job[w].row.user
                   /\ subs'[i].plan = job[w].row.plan /\ subs'[i].exp = job[w].exp
                   /\ subs'[i].by = IF job[w].op = "regrant" THEN "regrant" ELSE "grant"
                \/ /\ AssignInsert(w)
                   /\ subs'[i].user = job[w].row.user /\ subs'[i].by = "admin"
<1>1. subs \in Seq(Subscription) /\ subs' \in Seq(Subscription)
    BY NextInv DEF IInv, TypeOK
<1>2. Len(subs') = Len(subs) + 1 /\ i = Len(subs')
    <2>1. /\ DOMAIN subs = 1..Len(subs) /\ DOMAIN subs' = 1..Len(subs')
          /\ Len(subs) \in Nat /\ Len(subs') \in Nat
        BY <1>1
    <2>2. Len(subs) <= Len(subs') /\ Len(subs') <= Len(subs) + 1
        BY TableStep
    <2>3. i \in 1..Len(subs') /\ i \notin 1..Len(subs)
        BY <2>1
    <2>4. \A a, b \in Nat : \A k \in 1..b :
            k \notin 1..a /\ b <= a + 1 => b = a + 1 /\ k = b
        OBVIOUS
    <2> QED BY <2>1, <2>2, <2>3, <2>4
<1>3. PICK w \in Workers :
        \/ GrantCommit(w) /\ subs'[i] =
            NewSubscription(job[w].row.user, job[w].row.plan, job[w].exp, job[w].o,
                            IF job[w].op = "regrant" THEN "regrant" ELSE "grant")
        \/ AssignInsert(w) /\ subs'[i] =
            NewSubscription(job[w].row.user, job[w].row.plan, job[w].exp, NoOrder, "admin")
    BY <1>2, TableStep
<1>4. \A u, p, e, o, by :
        LET n == NewSubscription(u, p, e, o, by)
        IN  n.user = u /\ n.plan = p /\ n.exp = e /\ n.order = o /\ n.by = by
    BY DEF NewSubscription
<1> QED BY <1>2, <1>3, <1>4

LEMMA Bought ==
    ASSUME IInv, [Next]_vars, NEW o \in Orders,
           \/ \E i \in DOMAIN subs : BoughtBy(i, o)
           \/ \E w \in Workers : GrantCommit(w) /\ job[w].o = o
    PROVE  \E i \in DOMAIN subs' : subs'[i].order = o /\ subs'[i].by \in {"grant", "regrant"}
<1>1. CASE \E i \in DOMAIN subs : BoughtBy(i, o)
    BY <1>1, RowsStay DEF BoughtBy
<1>2. ASSUME NEW w \in Workers, GrantCommit(w), job[w].o = o
      PROVE  \E i \in DOMAIN subs' : subs'[i].order = o /\ subs'[i].by \in {"grant", "regrant"}
    <2> DEFINE by == IF job[w].op = "regrant" THEN "regrant" ELSE "grant"
               n == NewSubscription(job[w].row.user, job[w].row.plan, job[w].exp, job[w].o, by)
               c == CancelActive(Expire(subs, job[w].sub), job[w].row.user)
    <2>1. c \in Seq(Subscription) /\ n.order = o /\ n.by \in {"grant", "regrant"}
        BY <1>2, TableTyped, JobFacts DEF NewSubscription
    <2>2. subs' = Append(c, n)
        BY <1>2 DEF GrantCommit
    <2> HIDE DEF c, n
    <2>3. Len(c) + 1 \in DOMAIN subs' /\ subs'[Len(c) + 1] = n
        BY <2>1, <2>2
    <2> QED BY <2>1, <2>3
<1> QED BY <1>1, <1>2

LEMMA GrantedStep == IInv /\ GrantedHasSubscription /\ [Next]_vars => GrantedHasSubscription'
<1> SUFFICES ASSUME IInv, GrantedHasSubscription, [Next]_vars PROVE GrantedHasSubscription'
    OBVIOUS
<1>1. ASSUME NEW q \in Orders, orders'[q].granted
      PROVE  \E i \in DOMAIN subs' : subs'[i].order = q /\ subs'[i].by \in {"grant", "regrant"}
    <2>1. CASE orders[q].granted \/ \E w \in Workers : job[w].o = q /\ job[w].row.granted
        <3>1. \E i \in DOMAIN subs : BoughtBy(i, q)
            BY <2>1 DEF GrantedHasSubscription
        <3> QED BY <3>1, Bought
    <2>2. CASE \E w \in Workers : GrantCommit(w) /\ job[w].o = q
        BY <2>2, Bought
    <2> QED BY <1>1, <2>1, <2>2, RowColumns
<1>2. ASSUME NEW w \in Workers, job'[w].row.granted
      PROVE  \E i \in DOMAIN subs' : /\ subs'[i].order = job'[w].o
                                    /\ subs'[i].by \in {"grant", "regrant"}
    <2>1. job'[w].o \in Orders
        BY <1>2, NextInv DEF IInv, CopiesAgree, JobOK
    <2>2. CASE job'[w].o = job[w].o /\ job'[w].row = job[w].row
        <3>1. \E i \in DOMAIN subs : BoughtBy(i, job[w].o)
            BY <1>2, <2>2 DEF GrantedHasSubscription
        <3> QED BY <2>1, <2>2, <3>1, Bought
    <2>3. CASE job'[w].row = orders'[job'[w].o]
        BY <1>1, <1>2, <2>1, <2>3
    <2> QED BY <2>1, <2>2, <2>3, CopyTaken
<1> QED BY <1>1, <1>2 DEF GrantedHasSubscription, BoughtBy

\* granted_at is written with the subscription it stands for, in the table and
\* in every copy a request may save back, whatever fails (grantPlan).
THEOREM GrantedAreSubscribed == Spec => []GrantedHasSubscription
<1>1. Init => GrantedHasSubscription
    BY DEF Init, GrantedHasSubscription, NoRow, Idle
<1> QED BY <1>1, Invariance, GrantedStep, PTL DEF Spec

-----------------------------------------------------------------------------
(***************************************************************************)
(* One grant for an order.  `double_grant` of the runs needs two requests  *)
(* about one order at a time; as long as no two are, any number of         *)
(* requests about other orders may overlap, fail and repeat.               *)
(***************************************************************************)
\* A worker's job is moved by its own steps only.
LEMMA OwnSteps ==
    ASSUME IInv, [Next]_vars, NEW w \in Workers, job'[w] # job[w]
    PROVE  Request(w) \/ Step(w) \/ Fail(w) \/ CallLost(w)
<1>1. job \in [Workers -> Job]
    BY DEF IInv, TypeOK
<1>2. ASSUME NEW v \in Workers, v # w, Request(v) PROVE FALSE
    BY <1>1, <1>2 DEF Request, NotifyFind, PollFind, CancelFind, RegrantFind, ReadPlan,
        CreateQuote, AssignCancel, Begin
<1>3. ASSUME NEW v \in Workers, v # w, Step(v) PROVE FALSE
    BY <1>1, <1>3 DEF Step, PollQuery, PollUnknown, SaveResult, LogCallback, GrantSkip,
        GrantRefuse, GrantLock, GrantCommit, CreateReuse, CreateFresh, CreateInsert, CreateCall,
        CreateSave, CancelUpdate, AssignInsert, ExpireSave, Finish, GoTo
<1>4. ASSUME NEW v \in Workers, v # w, Fail(v) \/ CallLost(v) PROVE FALSE
    BY <1>1, <1>4 DEF Fail, CallLost
<1> QED BY <1>2, <1>3, <1>4 DEF Next, Pay, Refund, RefundFails, Close, Tick, vars

\* A request that begins had no job.
LEMMA BeginsIdle ==
    ASSUME NEW w \in Workers, Request(w) PROVE job[w] = Idle
BY DEF Request, NotifyFind, PollFind, CancelFind, RegrantFind, ReadPlan, CreateQuote,
       AssignCancel, Begin

\* A transaction about to commit stays as it is until it commits or fails.
LEMMA CommitKept ==
    ASSUME IInv, [Next]_vars, NEW w \in Workers, job[w].pc = "commit"
    PROVE  job'[w] = job[w] \/ job'[w] = Idle
<1>1. job \in [Workers -> Job] /\ Idle.pc = "idle"
    BY DEF IInv, TypeOK, Idle
<1>2. ASSUME Step(w) PROVE job'[w] = Idle
    <2>1. GrantCommit(w)
        BY <1>2 DEF Step, PollQuery, PollUnknown, SaveResult, LogCallback, GrantSkip,
            GrantRefuse, GrantLock, GrantCommit, CreateReuse, CreateFresh, CreateInsert,
            CreateCall, CreateSave, CancelUpdate, AssignInsert, ExpireSave
    <2> QED BY <1>1, <2>1 DEF GrantCommit, Finish
<1>3. ASSUME Fail(w) \/ CallLost(w) PROVE job'[w] = Idle
    BY <1>1, <1>3 DEF Fail, CallLost
<1> QED BY <1>1, <1>2, <1>3, OwnSteps, BeginsIdle

\* A row that a subscription was granted for says so, in every copy.
GrantStamped ==
    /\ \A i \in DOMAIN subs : subs[i].by = "grant" =>
         subs[i].order \in Orders /\ orders[subs[i].order].granted
    /\ \A w \in Workers :
         /\ job[w].o \in Orders => job[w].row.granted = orders[job[w].o].granted
         /\ job[w].pc = "commit" /\ job[w].op # "regrant" => ~job[w].row.granted

LEMMA StampedStep ==
    ASSUME IInv, OrdersApart, GrantStamped, [Next]_vars PROVE GrantStamped'
<1>1. ASSUME NEW q \in Orders, orders[q].granted PROVE orders'[q].granted
    <2>1. Born(orders[q]) /\ \A w \in Workers : job[w].o = q => job[w].row.granted
        BY <1>1 DEF IInv, CopiesAgree, OrdersOK, GrantStamped
    <2> QED BY <1>1, <2>1, RowColumns
<1>2. ASSUME NEW i \in DOMAIN subs', subs'[i].by = "grant"
      PROVE  subs'[i].order \in Orders /\ orders'[subs'[i].order].granted
    <2>1. CASE i \in DOMAIN subs
        BY <1>1, <1>2, <2>1, RowsStay DEF GrantStamped
    <2>2. CASE i \notin DOMAIN subs
        <3>1. PICK w \in Workers : GrantCommit(w) /\ subs'[i].order = job[w].o
            BY <1>2, <2>2, NewRow
        <3>2. job[w].o \in Orders /\ orders[job[w].o] \in OrderRow
            BY <3>1, JobFacts DEF GrantCommit, JobOK, OrderSteps
        <3>3. orders'[job[w].o].granted
            BY <3>1, <3>2 DEF GrantCommit, OrderRow, IInv, TypeOK
        <3> QED BY <3>1, <3>2, <3>3
    <2> QED BY <2>1, <2>2
<1>3. ASSUME NEW w \in Workers, job'[w].o \in Orders
      PROVE  job'[w].row.granted = orders'[job'[w].o].granted
    <2>1. CASE job'[w].o = job[w].o /\ job'[w].row = job[w].row
        <3> DEFINE q == job[w].o
        <3>1. /\ q \in Orders /\ Born(orders[q]) /\ job[w].row.granted = orders[q].granted
              /\ Idle.o = NoOrder /\ NoOrder \notin Orders
            BY <1>3, <2>1, JobFacts, NoOrderAssumption DEF GrantStamped, JobOK, Idle
        <3>2. \A v \in Workers : job[v].o = q => v = w
            BY <3>1 DEF OrdersApart
        <3>3. ~ GrantCommit(w)
            BY <1>3, <2>1, <3>1 DEF GrantCommit, Finish, IInv, TypeOK
        <3> HIDE DEF q
        <3>4. orders'[q].granted = job[w].row.granted
            BY <3>1, <3>2, <3>3, RowColumns
        <3> QED BY <2>1, <3>4 DEF q
    <2>2. CASE job'[w].row = orders'[job'[w].o]
        BY <2>2
    <2> QED BY <1>3, <2>1, <2>2, CopyTaken
<1>4. ASSUME NEW w \in Workers, job'[w].pc = "commit", job'[w].op # "regrant"
      PROVE  ~job'[w].row.granted
    <2>1. CASE job[w].pc = "commit"
        <3>1. job'[w] = job[w]
            BY <1>4, <2>1, CommitKept DEF Idle
        <3> QED BY <1>4, <2>1, <3>1 DEF GrantStamped
    <2>2. CASE job[w].pc # "commit"
        <3>1. GrantLock(w)
            BY <1>4, <2>2, LockTaken
        <3>2. job'[w].op = job[w].op /\ job'[w].row = orders[job[w].o]
            BY <3>1 DEF GrantLock, IInv, TypeOK, Job
        <3> QED BY <1>4, <3>1, <3>2 DEF GrantLock, Grantable
    <2> QED BY <2>1, <2>2
<1> QED BY <1>2, <1>3, <1>4 DEF GrantStamped

LEMMA OneGrantStep ==
    ASSUME IInv, GrantStamped, AtMostOneGrant, [Next]_vars PROVE AtMostOneGrant'
<1> SUFFICES ASSUME NEW i \in DOMAIN subs', NEW k \in DOMAIN subs',
                    subs'[i].by = "grant", subs'[k].by = "grant",
                    subs'[i].order = subs'[k].order
             PROVE  i = k
    BY DEF AtMostOneGrant
<1>1. ASSUME NEW m \in DOMAIN subs', m \notin DOMAIN subs, subs'[m].by = "grant",
             NEW n \in DOMAIN subs, subs'[n].by = "grant"
      PROVE  subs'[m].order # subs'[n].order
    <2>1. PICK w \in Workers : /\ GrantCommit(w) /\ subs'[m].order = job[w].o
                               /\ job[w].op # "regrant"
        BY <1>1, NewRow
    <2>2. job[w].o \in Orders /\ ~orders[job[w].o].granted
        BY <2>1, JobFacts DEF GrantStamped, GrantCommit, JobOK, OrderSteps
    <2>3. orders[subs[n].order].granted
        BY <1>1, RowsStay DEF GrantStamped
    <2> QED BY <1>1, <2>1, <2>2, <2>3, RowsStay
<1>2. CASE i \in DOMAIN subs /\ k \in DOMAIN subs
    BY <1>2, RowsStay DEF AtMostOneGrant
<1>3. CASE i \notin DOMAIN subs /\ k \notin DOMAIN subs
    BY <1>3, NewRow
<1> QED BY <1>1, <1>2, <1>3

\* Confirmations are idempotent - by polls, repeated or reordered notifications,
\* after failures at any point - as long as no two requests handle one order at
\* a time (RefreshOrderStatus, HandleNotify, grantPlan).
THEOREM GrantedOnce == Spec /\ []OrdersApart => []AtMostOneGrant
<1>1. Init => GrantStamped /\ AtMostOneGrant
    BY NoOrderAssumption DEF Init, GrantStamped, AtMostOneGrant, Idle
<1>2. /\ IInv /\ OrdersApart /\ GrantStamped /\ AtMostOneGrant /\ [Next]_vars
      => GrantStamped' /\ AtMostOneGrant'
    BY StampedStep, OneGrantStep
<1> QED BY <1>1, <1>2, Invariance, PTL DEF Spec

-----------------------------------------------------------------------------
(***************************************************************************)
(* One active subscription.  A plan assigned by an administrator is two    *)
(* statements; a grant or another assignment for the same user between     *)
(* them is all that can give a user a second active row.  Grants may race  *)
(* grants, reads and cancels.                                              *)
(***************************************************************************)
\* Between the statements the user has no active row.
Cleared == \A w \in Workers : job[w].pc = "assign" => ActiveRows(subs, job[w].row.user) = {}

\* A grant closes the user's former rows.
LEMMA GrantCloses ==
    ASSUME IInv, NEW w \in Workers, GrantCommit(w), NEW i \in DOMAIN subs
    PROVE  subs'[i].user = job[w].row.user => subs'[i].status # "active"
<1> DEFINE s == Expire(subs, job[w].sub)
           c == CancelActive(s, job[w].row.user)
<1> DEFINE by == IF job[w].op = "regrant" THEN "regrant" ELSE "grant"
           n == NewSubscription(job[w].row.user, job[w].row.plan, job[w].exp, job[w].o, by)
<1>1. subs \in Seq(Subscription) /\ i \in 1..Len(subs) /\ subs' = Append(c, n)
    BY DEF IInv, TypeOK, GrantCommit
<1>2. s \in Seq(Subscription) /\ Len(s) = Len(subs) /\ c \in Seq(Subscription)
    BY <1>1, TableTyped, ExpireCloses
<1> HIDE DEF s, n
<1>3. /\ Len(c) = Len(s) /\ c[i] = [s[i] EXCEPT !.status = c[i].status]
      /\ c[i].status = IF s[i].user = job[w].row.user /\ s[i].status = "active" THEN "canceled"
                       ELSE s[i].status
    BY <1>1, <1>2, CancelCloses
<1> HIDE DEF c
<1>4. c[i].user = s[i].user
    <2>1. s[i] \in Subscription
        BY <1>1, <1>2
    <2> QED BY <1>3, <2>1 DEF Subscription
<1>5. subs'[i] = c[i]
    BY <1>1, <1>2, <1>3
<1> QED BY <1>3, <1>4, <1>5

\* The first statement of an assignment leaves its user no active row.
LEMMA AssignClears ==
    ASSUME IInv, [Next]_vars, NEW w \in Workers, job'[w].pc = "assign", job'[w] # job[w]
    PROVE  ActiveRows(subs', job'[w].row.user) = {}
<1>1. job \in [Workers -> Job] /\ job[w] \in Job /\ subs \in Seq(Subscription)
    BY DEF IInv, TypeOK
<1>2. ~ (Step(w) \/ Fail(w) \/ CallLost(w))
    <2>1. CASE PollQuery(w) \/ PollUnknown(w) \/ SaveResult(w) \/ LogCallback(w)
        BY <1>1, <2>1 DEF PollQuery, PollUnknown, SaveResult, LogCallback, Finish, GoTo, Job, Idle
    <2>2. CASE GrantSkip(w) \/ GrantRefuse(w) \/ GrantLock(w) \/ GrantCommit(w)
        BY <1>1, <2>2 DEF GrantSkip, GrantRefuse, GrantLock, GrantCommit, Finish, Job, Idle
    <2>3. CASE CreateReuse(w) \/ CreateFresh(w) \/ CreateCall(w) \/ CreateSave(w)
        BY <1>1, <2>3 DEF CreateReuse, CreateFresh, CreateCall, CreateSave, Job, Idle
    <2>4. CASE CreateInsert(w)
        BY <1>1, <2>4 DEF CreateInsert, Job
    <2>5. CASE CancelUpdate(w) \/ AssignInsert(w)
        BY <1>1, <2>5 DEF CancelUpdate, AssignInsert, Job, Idle
    <2>7. CASE ExpireSave(w)
        <3> DEFINE next == [job[w] EXCEPT !.pc = "reuse", !.sub = {}]
        <3>1. next.pc = "reuse" /\ Idle.pc = "idle"
            BY <1>1 DEF Job, Idle
        <3> HIDE DEF next
        <3>2. job'[w] = IF job[w].op = "create" THEN next ELSE Idle
            BY <1>1, <2>7 DEF ExpireSave, next
        <3> QED BY <3>1, <3>2
    <2>6. CASE Fail(w) \/ CallLost(w)
        BY <1>1, <2>6 DEF Fail, CallLost, Idle
    <2> QED BY <2>1, <2>2, <2>3, <2>4, <2>5, <2>6, <2>7 DEF Step
<1>3. PICK u \in Users, p \in Plans, e \in AdminExpiries : AssignCancel(w, u, p, e)
    <2>1. ASSUME NEW o \in Orders, NEW c \in ProviderCodes, NotifyFind(w, o, c) PROVE FALSE
        BY <1>1, <2>1 DEF NotifyFind, Begin, Idle
    <2>2. ASSUME NEW o \in Orders, CancelFind(w, o) \/ RegrantFind(w, o)
          PROVE  FALSE
        BY <1>1, <2>2 DEF CancelFind, RegrantFind, Begin, Idle
    <2>5. ASSUME NEW o \in Orders, PollFind(w, o) PROVE FALSE
        <3> DEFINE pc == IF orders[o].status = "paid" THEN "lock" ELSE "query"
        <3>1. job'[w] = [Idle EXCEPT !.op = "poll", !.o = o, !.row = orders[o], !.pc = pc]
            BY <1>1, <2>5 DEF PollFind, Begin
        <3>2. pc # "assign"
            OBVIOUS
        <3> HIDE DEF pc
        <3> QED BY <3>1, <3>2 DEF Idle
    <2>3. ASSUME NEW u \in Users, ReadPlan(w, u) PROVE FALSE
        BY <1>1, <2>3 DEF ReadPlan, Begin, Idle
    <2>4. ASSUME NEW u \in Users, NEW p, NEW mode, NEW m, CreateQuote(w, u, p, mode, m)
          PROVE  FALSE
        BY <1>1, <2>4 DEF CreateQuote, Begin, Idle
    <2> QED BY <1>2, <2>1, <2>2, <2>3, <2>4, <2>5, OwnSteps DEF Request
<1>4. job'[w].row.user = u /\ subs' = CancelActive(subs, u)
    BY <1>1, <1>3 DEF AssignCancel, Begin, Idle, NoRow
<1>5. ASSUME NEW i \in DOMAIN subs' PROVE ~ (subs'[i].user = u /\ subs'[i].status = "active")
    <2>1. /\ Len(subs') = Len(subs) /\ subs' \in Seq(Subscription)
        BY <1>1, <1>4, TableTyped, CancelCloses
    <2>2. i \in 1..Len(subs) /\ subs[i] \in Subscription
        BY <1>1, <2>1
    <2>3. /\ subs'[i] = [subs[i] EXCEPT !.status = subs'[i].status]
          /\ subs'[i].status =
                IF subs[i].user = u /\ subs[i].status = "active" THEN "canceled" ELSE subs[i].status
        <3> DEFINE c == CancelActive(subs, u)
        <3>1. /\ c[i] = [subs[i] EXCEPT !.status = c[i].status]
              /\ c[i].status = IF subs[i].user = u /\ subs[i].status = "active" THEN "canceled"
                               ELSE subs[i].status
            BY <1>1, <2>2, CancelCloses
        <3> HIDE DEF c
        <3>2. subs' = c
            BY <1>4 DEF c
        <3> QED BY <3>1, <3>2
    <2> QED BY <2>2, <2>3 DEF Subscription
<1> QED BY <1>4, <1>5 DEF ActiveRows

LEMMA ClearedStep ==
    ASSUME IInv, AssignsAlone, Cleared, [Next]_vars PROVE Cleared'
<1> SUFFICES ASSUME NEW w \in Workers, job'[w].pc = "assign"
             PROVE  ActiveRows(subs', job'[w].row.user) = {}
    BY DEF Cleared
<1>1. CASE job'[w] = job[w]
    <2> DEFINE u == job[w].row.user
    <2>1. ActiveRows(subs, u) = {} /\ job[w].pc = "assign"
        BY <1>1 DEF Cleared
    <2>2. ASSUME NEW i \in DOMAIN subs', i \notin DOMAIN subs PROVE subs'[i].user # u
        <3>1. PICK v \in Workers : /\ GrantCommit(v) \/ AssignInsert(v)
                                   /\ subs'[i].user = job[v].row.user
            BY <2>2, NewRow
        <3>2. v # w
            BY <1>1, <2>1, <3>1 DEF GrantCommit, AssignInsert, IInv, TypeOK, Idle
        <3>3. job[v].pc \in {"assign", "commit"}
            BY <3>1 DEF GrantCommit, AssignInsert
        <3> QED BY <2>1, <3>1, <3>2, <3>3 DEF AssignsAlone
    <2>3. ASSUME NEW i \in DOMAIN subs', subs'[i].user = u PROVE subs'[i].status # "active"
        BY <2>1, <2>2, <2>3, RowsStay DEF ActiveRows
    <2> QED BY <1>1, <2>3 DEF ActiveRows
<1>2. CASE job'[w] # job[w]
    BY <1>2, AssignClears
<1> QED BY <1>1, <1>2

LEMMA OneActiveStep ==
    ASSUME IInv, Cleared, OneActiveSubscription, [Next]_vars PROVE OneActiveSubscription'
<1> SUFFICES ASSUME NEW u \in Users, NEW i \in ActiveRows(subs', u), NEW k \in ActiveRows(subs', u)
             PROVE  i = k
    BY DEF OneActiveSubscription
<1>1. \A m \in {i, k} : m \in DOMAIN subs' /\ subs'[m].user = u /\ subs'[m].status = "active"
    BY DEF ActiveRows
<1>2. ASSUME NEW m \in {i, k}, m \notin DOMAIN subs, NEW n \in {i, k}, n \in DOMAIN subs
      PROVE  FALSE
    <2>1. PICK w \in Workers : /\ GrantCommit(w) \/ AssignInsert(w)
                               /\ job[w].row.user = u
        BY <1>1, <1>2, NewRow
    <2>2. n \in ActiveRows(subs, u)
        BY <1>1, <1>2, RowsStay DEF ActiveRows
    <2>3. CASE GrantCommit(w)
        BY <1>1, <1>2, <2>1, <2>3, GrantCloses
    <2>4. CASE AssignInsert(w)
        BY <2>1, <2>2, <2>4 DEF AssignInsert, Cleared
    <2> QED BY <2>1, <2>3, <2>4
<1>3. CASE i \in DOMAIN subs /\ k \in DOMAIN subs
    BY <1>1, <1>3, RowsStay DEF OneActiveSubscription, ActiveRows
<1>4. CASE i \notin DOMAIN subs /\ k \notin DOMAIN subs
    BY <1>1, <1>4, NewRow
<1> QED BY <1>2, <1>3, <1>4

\* A user has one active subscription at most, whatever grants, reads, cancels
\* and failures overlap, as long as nothing replaces the plan of a user whom
\* an administrator's AssignPlan is giving one (plan_service.go).
THEOREM OneActivePlan == Spec /\ []AssignsAlone => []OneActiveSubscription
<1>1. Init => Cleared /\ OneActiveSubscription
    BY DEF Init, Cleared, OneActiveSubscription, ActiveRows, Idle
<1>2. /\ IInv /\ AssignsAlone /\ Cleared /\ OneActiveSubscription /\ [Next]_vars
      => Cleared' /\ OneActiveSubscription'
    BY ClearedStep, OneActiveStep
<1> QED BY <1>1, <1>2, Invariance, PTL DEF Spec

-----------------------------------------------------------------------------
(***************************************************************************)
(* A renewal adds its time.  grantPlan reads the user's plan and commits   *)
(* later, and locks the order but not the user: another grant or           *)
(* assignment for the user in between is what it may overwrite.            *)
(***************************************************************************)
\* The expiry a transaction holds counts from the plan the user has.
RenewalBase ==
    \A w \in Workers :
        LET row == job[w].row
        IN  /\ job[w].pc = "commit" /\ row.mode = "standard"
            /\ CurrentPlan(subs, row.user, now) = row.plan
            /\ CurrentExpiry(subs, row.user, now) > now
            => job[w].exp >= CurrentExpiry(subs, row.user, now) + row.months * Month

LEMMA ApartAlone == PlansApart => AssignsAlone
BY DEF PlansApart, AssignsAlone

LEMMA ClockSteps == [Next]_vars => now' = now \/ now' = now + 1
<1>1. CASE UNCHANGED vars
    BY <1>1 DEF vars, bounds
<1>2. ASSUME NEW w \in Workers, Request(w) PROVE UNCHANGED now
    BY <1>2 DEF Request, NotifyFind, PollFind, CancelFind, RegrantFind, ReadPlan, CreateQuote,
                AssignCancel, bounds
<1>3. ASSUME NEW w \in Workers, Step(w) PROVE UNCHANGED now
    BY <1>3 DEF Step, PollQuery, PollUnknown, SaveResult, LogCallback, GrantSkip, GrantRefuse,
                GrantLock, GrantCommit, CreateReuse, CreateFresh, CreateInsert, CreateCall,
                CreateSave, CancelUpdate, AssignInsert, ExpireSave, bounds
<1>4. ASSUME NEW w \in Workers, Fail(w) \/ CallLost(w) PROVE UNCHANGED now
    BY <1>4 DEF Fail, CallLost
<1> QED BY <1>1, <1>2, <1>3, <1>4 DEF Next, Tick, Pay, Refund, RefundFails, Close, bounds

\* Unless its user's plan is replaced, the current row stays or goes.
LEMMA CurrentKept ==
    ASSUME IInv, OneActiveSubscription, [Next]_vars, NEW u \in Users,
           \A i \in DOMAIN subs' : i \notin DOMAIN subs => subs'[i].user # u,
           Current(subs', u, now') # {}
    PROVE  /\ Current(subs, u, now) = Current(subs', u, now')
           /\ CurrentPlan(subs, u, now) = CurrentPlan(subs', u, now')
           /\ CurrentExpiry(subs, u, now) = CurrentExpiry(subs', u, now')
           /\ now <= now'
<1> DEFINE C == Current(subs, u, now)
           D == Current(subs', u, now')
<1>1. now \in Nat /\ now' \in Nat /\ now <= now'
    <2>1. now \in Nat /\ now' \in Nat
        BY NextInv DEF IInv, TypeOK
    <2>2. now' = now \/ now' = now + 1
        BY ClockSteps
    <2> QED BY <2>1, <2>2
<1>2. \A i \in D : i \in DOMAIN subs' /\ subs'[i].user = u /\ subs'[i].status = "active"
                     /\ ~IsExpired(subs'[i], now')
    BY DEF Current, LatestActive, ActiveRows
<1>3. \A i \in D : i \in ActiveRows(subs, u) /\ subs'[i].exp = subs[i].exp
                     /\ subs'[i].plan = subs[i].plan /\ subs[i] \in Subscription
    BY <1>2, RowsStay DEF ActiveRows
<1>4. \A i, k \in ActiveRows(subs, u) : i = k
    BY DEF OneActiveSubscription
<1>5. \A i \in D : ~IsExpired(subs[i], now)
    BY <1>1, <1>2, <1>3 DEF IsExpired, Subscription, Times, NoTime
<1>6. \A i \in ActiveRows(subs, u) : i <= i
    <2>1. subs \in Seq(Subscription)
        BY DEF IInv, TypeOK
    <2> QED BY <2>1 DEF ActiveRows
<1>7. D \subseteq C
    BY <1>3, <1>4, <1>5, <1>6 DEF Current, LatestActive
<1>8. C \subseteq D
    BY <1>3, <1>4 DEF Current, LatestActive
<1>9. C = D
    BY <1>7, <1>8
<1>10. (CHOOSE i \in D : TRUE) \in D
    OBVIOUS
<1>11. TheRow(subs', D).exp = TheRow(subs, D).exp /\ TheRow(subs', D).plan = TheRow(subs, D).plan
    BY <1>3, <1>10 DEF TheRow
<1> QED BY <1>1, <1>9, <1>11 DEF CurrentPlan, CurrentExpiry

LEMMA RenewalStep ==
    ASSUME IInv, PlansApart, OneActiveSubscription, RenewalBase, [Next]_vars
    PROVE  RenewalBase'
<1> SUFFICES ASSUME NEW w \in Workers, job'[w].pc = "commit", job'[w].row.mode = "standard",
                    CurrentPlan(subs', job'[w].row.user, now') = job'[w].row.plan,
                    CurrentExpiry(subs', job'[w].row.user, now') > now'
             PROVE  job'[w].exp >= CurrentExpiry(subs', job'[w].row.user, now')
                                    + job'[w].row.months * Month
    BY DEF RenewalBase
<1>1. Idle.pc = "idle" /\ job \in [Workers -> Job]
    BY DEF Idle, IInv, TypeOK
<1>2. CASE job'[w] = job[w]
    <2> DEFINE u == job[w].row.user
    <2>1. u \in Users /\ job[w].pc = "commit"
        BY <1>2, JobFacts DEF JobOK, OrderSteps
    <2>2. ASSUME NEW i \in DOMAIN subs', i \notin DOMAIN subs PROVE subs'[i].user # u
        <3>1. PICK v \in Workers : /\ GrantCommit(v) \/ AssignInsert(v)
                                   /\ subs'[i].user = job[v].row.user
            BY <2>2, NewRow
        <3>2. v # w
            BY <1>1, <1>2, <2>1, <3>1 DEF GrantCommit, AssignInsert, Finish
        <3>3. job[v].pc \in {"assign", "commit"}
            BY <3>1 DEF GrantCommit, AssignInsert
        <3> QED BY <2>1, <3>1, <3>2, <3>3 DEF PlansApart
    <2>3. Current(subs', u, now') # {}
        <3>1. now' \in Nat /\ ~ (NoTime > now')
            BY NextInv DEF IInv, TypeOK, NoTime
        <3> QED BY <1>2, <3>1 DEF CurrentExpiry
    <2>4. /\ CurrentPlan(subs, u, now) = CurrentPlan(subs', u, now')
          /\ CurrentExpiry(subs, u, now) = CurrentExpiry(subs', u, now')
          /\ now <= now' /\ now \in Nat /\ now' \in Nat /\ CurrentExpiry(subs, u, now) \in Int
        <3>1. /\ now \in Nat /\ now' \in Nat /\ CurrentExpiry(subs, u, now) \in Int
            BY NextInv, CurrentTyped DEF IInv, TypeOK, Times, NoTime
        <3> QED BY <2>1, <2>2, <2>3, <3>1, CurrentKept
    <2>5. CurrentExpiry(subs, u, now) > now
        BY <1>2, <2>4
    <2> QED BY <1>2, <2>1, <2>4, <2>5 DEF RenewalBase
<1>3. CASE job'[w] # job[w]
    <2>1. GrantLock(w)
        BY <1>1, <1>3, LockTaken, CommitKept
    <2> DEFINE row == orders[job[w].o]
    <2>2. row \in OrderRow /\ now \in Nat /\ CurrentExpiry(subs, row.user, now) \in Int
        <3>1. job[w].o \in Orders
            BY <2>1, JobFacts DEF GrantLock, JobOK, OrderSteps
        <3> QED BY <3>1, JobFacts, CurrentTyped DEF Times, NoTime
    <2>3. /\ job'[w].row = row /\ job'[w].exp = GrantExpiry(row, subs, now)
          /\ subs' = subs /\ now' = now
        BY <1>1, <2>1 DEF GrantLock, Job, tables, bounds
    <2>4. GrantExpiry(row, subs, now) = CurrentExpiry(subs, row.user, now) + row.months * Month
        BY <2>2, <2>3 DEF GrantExpiry, GrantBase
    <2> QED BY <2>2, <2>3, <2>4, TimeAssumption DEF OrderRow
<1> QED BY <1>2, <1>3

LEMMA RenewalCommit ==
    ASSUME IInv, RenewalBase, [Next]_vars, Appended, ItsOrder.mode = "standard",
           CurrentPlan(subs, NewSub.user, now) = NewSub.plan,
           CurrentExpiry(subs, NewSub.user, now) > now
    PROVE  NewSub.exp >= CurrentExpiry(subs, NewSub.user, now) + ItsOrder.months * Month
<1>1. Len(subs') \in DOMAIN subs' /\ Len(subs') \notin DOMAIN subs
    <2>1. subs \in Seq(Subscription) /\ subs' \in Seq(Subscription)
        BY NextInv DEF IInv, TypeOK
    <2> QED BY <2>1 DEF Appended
<1>2. PICK w \in Workers : /\ GrantCommit(w) /\ NewSub.order = job[w].o
                           /\ NewSub.user = job[w].row.user /\ NewSub.plan = job[w].row.plan
                           /\ NewSub.exp = job[w].exp
    BY <1>1, NewRow DEF NewSub, Appended
<1>3. job[w].o \in Orders /\ SamePurchase(job[w].row, orders[job[w].o]) /\ job[w].pc = "commit"
    BY <1>2, JobFacts DEF GrantCommit, JobOK, OrderSteps, SameOrder
<1> QED BY <1>2, <1>3 DEF RenewalBase, ItsOrder, SamePurchase

\* A renewal never loses time (baseTime in grantPlan), whatever fails, is
\* repeated or overlaps, while a user's plan is replaced by one transaction
\* or assignment at a time.
THEOREM RenewalsAddTime == Spec /\ []PlansApart => RenewalAddsTime
<1>1. Init => RenewalBase
    BY DEF Init, RenewalBase, Idle
<1>2. IInv /\ PlansApart /\ OneActiveSubscription /\ RenewalBase /\ [Next]_vars => RenewalBase'
    BY RenewalStep
<1>3. IInv /\ RenewalBase /\ [Next]_vars
      => [Appended /\ ItsOrder.mode = "standard"
            /\ CurrentPlan(subs, NewSub.user, now) = NewSub.plan
            /\ CurrentExpiry(subs, NewSub.user, now) > now
          => NewSub.exp >= CurrentExpiry(subs, NewSub.user, now) + ItsOrder.months * Month]_vars
    BY RenewalCommit
<1> QED BY <1>1, <1>2, <1>3, Invariance, ApartAlone, OneActivePlan, PTL DEF Spec, RenewalAddsTime

-----------------------------------------------------------------------------
(***************************************************************************)
(* Reuse of a checkout.  Two create requests of one customer may both find *)
(* no checkout to reuse and show a QR code each; while a customer sends    *)
(* one at a time, a checkout whose row holds its code is the last of its   *)
(* purchase, whatever fails between the insert and the save and whatever   *)
(* saves over a row.  A save that erases the code ends that: see the       *)
(* property.                                                               *)
(***************************************************************************)
LateSteps == {"insert", "call", "csave"}

\* Ids count the rows and never change, in the table or in a copy.
IdsAgree ==
    /\ \A q \in Orders : Born(orders[q]) => orders[q].id <= Cardinality(Orders \ Unborn)
    /\ \A w \in Workers : job[w].o \in Orders => job[w].row.id = orders[job[w].o].id

\* A row has no QR code before it is saved as created.
NoCodeYet == \A w \in Workers : job[w].op = "create" => ~job[w].row.code

\* A live checkout is the last of its purchase, which is where
\* findReusablePendingOrder looks.
LiveIsLast ==
    \A l, p \in Orders :
        Live(l) /\ Born(orders[p]) /\ SamePurchase(orders[p], orders[l])
            => orders[p].id <= orders[l].id

\* A request that found none to reuse is about to create the only one.
NoneBeside ==
    \A w \in Workers :
        /\ job[w].pc \in LateSteps =>
            \A l \in Orders : Live(l) => ~SamePurchase(orders[l], job[w].row)
        /\ job[w].pc \in {"call", "csave"} =>
            \A p \in Orders : Born(orders[p]) /\ SamePurchase(orders[p], job[w].row)
                => orders[p].id <= job[w].row.id

OneLive == \A l, k \in Orders : Live(l) /\ Live(k) /\ SamePurchase(orders[l], orders[k]) => l = k

CheckoutInv == IdsAgree /\ NoCodeYet /\ LiveIsLast /\ NoneBeside /\ OneLive

LEMMA BornSteps ==
    ASSUME IInv, [Next]_vars, NEW q \in Orders
    PROVE  /\ Born(orders[q]) => Born(orders'[q])
           /\ Born(orders'[q]) /\ ~Born(orders[q]) =>
                \E w \in Workers :
                    /\ CreateInsert(w) /\ orders'[q].id = Cardinality(Orders \ Unborn) + 1
                    /\ SamePurchase(orders'[q], job[w].row)
<1>1. /\ orders[q] \in OrderRow
      /\ \A w \in Workers : /\ job[w].o \in Orders => Born(orders[job[w].o])
                            /\ job[w].op = "create" => job[w].row.status = "pending"
                            /\ job[w].row \in OrderRow
                            /\ SavedRow(job[w]).status # "none"
    <2>1. ASSUME NEW w \in Workers PROVE SavedRow(job[w]).status # "none"
        <3>1. job[w].row \in OrderRow /\ NewStatus(job[w]) # "none"
            BY JobFacts, SavedRowTyped DEF OrderStatuses, Job
        <3> QED BY <3>1 DEF SavedRow, OrderRow
    <2> QED BY <2>1, JobFacts DEF IInv, TypeOK, JobOK, Job
<1>2. \A w \in Workers :
        /\ SaveResult(w) \/ CreateSave(w) \/ GrantCommit(w) \/ CancelUpdate(w) => job[w].o \in Orders
        /\ CreateSave(w) \/ CreateInsert(w) => job[w].op = "create"
    BY JobFacts DEF SaveResult, CreateSave, GrantCommit, CancelUpdate, CreateInsert, JobOK,
                    OrderSteps, CreateSteps
<1>3. Born(orders[q]) => Born(orders'[q])
    <2> SUFFICES ASSUME Born(orders[q]) PROVE Born(orders'[q])
        OBVIOUS
    <2>1. ASSUME NEW w \in Workers, CreateSave(w), orders'[q] = [job[w].row EXCEPT !.code = TRUE]
          PROVE  Born(orders'[q])
        BY <1>1, <1>2, <2>1 DEF Born, OrderRow
    <2>2. ASSUME orders'[q] = [orders[q] EXCEPT !.granted = TRUE] PROVE Born(orders'[q])
        BY <1>1, <2>2 DEF Born, OrderRow
    <2>3. ASSUME orders'[q] = [orders[q] EXCEPT !.status = "closed", !.expires = now]
          PROVE  Born(orders'[q])
        BY <1>1, <2>3 DEF Born, OrderRow
    <2>4. ASSUME NEW w \in Workers, SaveResult(w), orders'[q] = SavedRow(job[w])
          PROVE  Born(orders'[q])
        BY <1>1, <2>4 DEF Born
    <2> DEFINE P(w) == orders'[q] = [job[w].row EXCEPT !.code = TRUE]
               I(w) == orders'[q] = [job[w].row EXCEPT !.expires = now + OrderTTL,
                                                !.id = Cardinality(Orders \ Unborn) + 1]
               G == orders'[q] = [orders[q] EXCEPT !.granted = TRUE]
               C == orders'[q] = [orders[q] EXCEPT !.status = "closed", !.expires = now]
    <2>5. \/ orders'[q] = orders[q]
          \/ \E w \in Workers : SaveResult(w) /\ job[w].o = q /\ orders'[q] = SavedRow(job[w])
          \/ \E w \in Workers : CreateSave(w) /\ job[w].o = q /\ P(w)
          \/ \E w \in Workers : GrantCommit(w) /\ job[w].o = q /\ G
          \/ \E w \in Workers : CancelUpdate(w) /\ job[w].o = q /\ C
          \/ \E w \in Workers : CreateInsert(w) /\ ~Born(orders[q]) /\ I(w)
        BY RowWritten
    <2>6. /\ \A w \in Workers : CreateSave(w) /\ P(w) => Born(orders'[q])
          /\ G \/ C => Born(orders'[q])
        BY <2>1, <2>2, <2>3
    <2> HIDE DEF P, I, G, C
    <2> QED BY <2>4, <2>5, <2>6
<1> QED BY <1>1, <1>2, <1>3, RowColumns

\* Only CreateSave makes a checkout live: every other save drops the QR code.
LEMMA NewlyLive ==
    ASSUME IInv, NoCodeYet, [Next]_vars, NEW l \in Orders, Live(l)', ~Live(l)
    PROVE  \E w \in Workers : CreateSave(w) /\ job[w].o = l
<1>1. now \in Nat /\ now' \in Nat /\ now <= now' /\ orders'[l].expires \in Int
    <2>1. /\ now \in Nat /\ now' \in Nat
          /\ orders' \in [Orders -> OrderRow] /\ orders'[l] \in OrderRow
        BY NextInv DEF IInv, TypeOK
    <2>2. now <= now'
        BY <2>1, ClockSteps
    <2> QED BY <2>1, <2>2 DEF OrderRow, Times, NoTime
<1>2. orders'[l].status = "pending" /\ orders'[l].code /\ orders'[l].expires > now
    BY <1>1 DEF Live
<1>3. \A w \in Workers : CreateInsert(w) => ~job[w].row.code
    BY JobFacts DEF CreateInsert, JobOK, CreateSteps, NoCodeYet
<1> QED BY <1>2, <1>3, RowColumns DEF Live

\* The steps of a request that creates an order.
LEMMA CreateMoves ==
    ASSUME IInv, [Next]_vars, NEW w \in Workers, job'[w].op = "create", job'[w] # job[w]
    PROVE  \/ job'[w].pc \notin LateSteps /\ ~job'[w].row.code /\ job'[w].o = NoOrder
           \/ /\ ExpireSave(w) \/ CreateFresh(w) \/ CreateCall(w)
              /\ job[w].op = "create" /\ job'[w].row = job[w].row /\ job'[w].o = job[w].o
              /\ job'[w].pc \in LateSteps => CreateFresh(w) \/ CreateCall(w)
              /\ CreateFresh(w) => job'[w].pc = "insert"
           \/ /\ CreateInsert(w) /\ job[w].op = "create"
              /\ SamePurchase(job'[w].row, job[w].row) /\ job'[w].row.code = job[w].row.code
              /\ job'[w].row.id = Cardinality(Orders \ Unborn) + 1
              /\ job'[w].o \in Orders /\ orders'[job'[w].o] = job'[w].row
<1>1. /\ job \in [Workers -> Job] /\ job[w] \in Job /\ Idle.op = "none"
      /\ orders \in [Orders -> OrderRow]
    BY DEF IInv, TypeOK, Idle
<1>2. ASSUME Request(w)
      PROVE  job'[w].pc \notin LateSteps /\ ~job'[w].row.code /\ job'[w].o = NoOrder
    <2>1. ASSUME NEW o \in Orders, NEW c \in ProviderCodes, NotifyFind(w, o, c) PROVE FALSE
        BY <1>1, <2>1 DEF NotifyFind, Begin, Idle
    <2>2. ASSUME NEW o \in Orders, CancelFind(w, o) \/ RegrantFind(w, o)
          PROVE  FALSE
        BY <1>1, <2>2 DEF CancelFind, RegrantFind, Begin, Idle
    <2>3. ASSUME NEW o \in Orders, PollFind(w, o) PROVE FALSE
        <3> DEFINE pc == IF orders[o].status = "paid" THEN "lock" ELSE "query"
        <3>1. job'[w] = [Idle EXCEPT !.op = "poll", !.o = o, !.row = orders[o], !.pc = pc]
            BY <1>1, <2>3 DEF PollFind, Begin
        <3> HIDE DEF pc
        <3> QED BY <3>1 DEF Idle
    <2>4. ASSUME NEW u \in Users, ReadPlan(w, u) PROVE FALSE
        BY <1>1, <2>4 DEF ReadPlan, Begin, Idle
    <2>5. ASSUME NEW u \in Users, NEW p \in Plans, NEW e \in AdminExpiries, AssignCancel(w, u, p, e)
          PROVE FALSE
        BY <1>1, <2>5 DEF AssignCancel, Begin, Idle
    <2>6. ASSUME NEW u \in Users, NEW p \in Products, NEW mode \in Modes, NEW m \in BillingMonths,
                 CreateQuote(w, u, p, mode, m)
          PROVE  job'[w].pc \notin LateSteps /\ ~job'[w].row.code /\ job'[w].o = NoOrder
        <3> DEFINE I == Lapsed(subs, u, now)
                   pc == IF I = {} THEN "reuse" ELSE "expire"
                   q == QuotedRow(u, p, mode, m, CurrentExpiry(subs, u, now), now)
        <3>1. job'[w] = [Idle EXCEPT !.op = "create", !.row = q, !.pc = pc, !.sub = I]
            BY <1>1, <2>6 DEF CreateQuote, Begin
        <3>2. q.code = FALSE
            BY DEF QuotedRow, NoRow
        <3>3. pc \notin LateSteps
            BY DEF LateSteps
        <3> HIDE DEF I, pc, q
        <3> QED BY <3>1, <3>2, <3>3 DEF Idle
    <2> QED BY <1>2, <2>1, <2>2, <2>3, <2>4, <2>5, <2>6 DEF Request
<1>3. CASE Step(w)
    <2>1. job[w].op = "create"
        <3>1. CASE PollQuery(w) \/ PollUnknown(w) \/ SaveResult(w) \/ LogCallback(w)
            BY <1>1, <3>1 DEF PollQuery, PollUnknown, SaveResult, LogCallback, Finish, GoTo, Job
        <3>2. CASE GrantSkip(w) \/ GrantRefuse(w) \/ GrantLock(w) \/ GrantCommit(w)
            BY <1>1, <3>2 DEF GrantSkip, GrantRefuse, GrantLock, GrantCommit, Finish, Job
        <3>3. CASE CreateReuse(w) \/ CreateFresh(w) \/ CreateCall(w) \/ CreateSave(w) \/ CreateInsert(w)
            BY <3>3, JobFacts
               DEF CreateReuse, CreateFresh, CreateCall, CreateSave, CreateInsert, JobOK, CreateSteps
        <3>4. CASE CancelUpdate(w) \/ AssignInsert(w)
            BY <1>1, <3>4 DEF CancelUpdate, AssignInsert
        <3>5. CASE ExpireSave(w)
            BY <1>1, <3>5 DEF ExpireSave
        <3> QED BY <1>3, <3>1, <3>2, <3>3, <3>4, <3>5 DEF Step
    <2>2. job[w].pc \in CreateSteps \cup {"expire"}
        BY <2>1, JobFacts DEF JobOK
    <2>3. ~ (PollQuery(w) \/ PollUnknown(w) \/ SaveResult(w) \/ LogCallback(w) \/ GrantSkip(w)
             \/ GrantRefuse(w) \/ GrantLock(w) \/ GrantCommit(w) \/ CancelUpdate(w)
             \/ AssignInsert(w))
        BY <2>2 DEF CreateSteps, PollQuery, PollUnknown, SaveResult, LogCallback, GrantSkip,
            GrantRefuse, GrantLock, GrantCommit, CancelUpdate, AssignInsert
    <2>4. ~ (CreateReuse(w) \/ CreateSave(w))
        BY <1>1 DEF CreateReuse, CreateSave
    <2>5. CASE ExpireSave(w)
        <3> DEFINE next == [job[w] EXCEPT !.pc = "reuse", !.sub = {}]
        <3>1. next.pc = "reuse" /\ next.row = job[w].row /\ next.o = job[w].o
            BY <1>1 DEF Job
        <3> HIDE DEF next
        <3>2. job'[w] = next
            BY <1>1, <2>1, <2>5 DEF ExpireSave, next
        <3>3. ~ CreateFresh(w)
            BY <2>5 DEF ExpireSave, CreateFresh
        <3> QED BY <2>1, <2>5, <3>1, <3>2, <3>3 DEF LateSteps
    <2>6. CASE CreateFresh(w) \/ CreateCall(w)
        BY <1>1, <2>1, <2>6 DEF CreateFresh, CreateCall, Job
    <2>7. CASE CreateInsert(w)
        <3> DEFINE row == [job[w].row EXCEPT !.expires = now + OrderTTL,
                                             !.id = Cardinality(Orders \ Unborn) + 1]
        <3>1. PICK o \in Unborn :
                /\ orders' = [orders EXCEPT ![o] = row]
                /\ job' = [job EXCEPT ![w].pc = "call", ![w].o = o, ![w].row = row]
            BY <2>7 DEF CreateInsert
        <3>2. /\ SamePurchase(row, job[w].row) /\ row.code = job[w].row.code
              /\ row.id = Cardinality(Orders \ Unborn) + 1
            BY <1>1 DEF Job, OrderRow, SamePurchase
        <3> HIDE DEF row
        <3>3. job'[w].row = row /\ job'[w].o = o /\ o \in Orders /\ orders'[o] = row
            BY <1>1, <3>1 DEF Job, Unborn
        <3> QED BY <2>1, <2>7, <3>2, <3>3
    <2> QED BY <1>3, <2>3, <2>4, <2>5, <2>6, <2>7 DEF Step
<1>4. ~ (Fail(w) \/ CallLost(w))
    BY <1>1 DEF Fail, CallLost
<1> QED BY <1>2, <1>3, <1>4, OwnSteps

LEMMA IdsStep == ASSUME IInv, IdsAgree, [Next]_vars PROVE IdsAgree'
<1> DEFINE B == Orders \ Unborn
<1>1. /\ IsFiniteSet(B) /\ IsFiniteSet(B') /\ Cardinality(B) \in Nat /\ Cardinality(B') \in Nat
      /\ B \subseteq B'
    <2>1. B \subseteq B'
        BY BornSteps DEF Unborn, Born
    <2>2. IsFiniteSet(B) /\ IsFiniteSet(B')
        BY OrdersAssumption, FS_Difference
    <2> QED BY <2>1, <2>2, FS_CardinalityType
<1>2. Cardinality(B) <= Cardinality(B')
    BY <1>1, FS_Subset
<1>3. ASSUME NEW q \in Orders, Born(orders[q]) PROVE orders'[q].id = orders[q].id
    <2>1. \A w \in Workers : job[w].o = q => job[w].row.id = orders[q].id
        BY DEF IdsAgree
    <2> QED BY <1>3, <2>1, RowColumns
<1>4. ASSUME NEW q \in Orders, Born(orders'[q]) PROVE orders'[q].id <= Cardinality(B')
    <2>1. CASE Born(orders[q])
        <3>1. orders[q].id \in Nat
            BY DEF IInv, TypeOK, OrderRow
        <3> QED BY <1>1, <1>2, <1>3, <2>1, <3>1 DEF IdsAgree
    <2>2. CASE ~Born(orders[q])
        <3>1. q \in B' /\ q \notin B
            BY <1>4, <2>2 DEF Unborn, Born
        <3>2. IsFiniteSet(B \cup {q}) /\ Cardinality(B \cup {q}) = Cardinality(B) + 1
            BY <1>1, <3>1, FS_AddElement
        <3>3. Cardinality(B \cup {q}) <= Cardinality(B')
            BY <1>1, <3>1, FS_Subset
        <3>4. orders'[q].id = Cardinality(B) + 1
            BY <1>4, <2>2, BornSteps
        <3> QED BY <1>1, <3>2, <3>3, <3>4
    <2> QED BY <2>1, <2>2
<1>5. ASSUME NEW w \in Workers, job'[w].o \in Orders PROVE job'[w].row.id = orders'[job'[w].o].id
    <2>1. CASE job'[w].o = job[w].o /\ job'[w].row = job[w].row
        <3>1. Born(orders[job[w].o])
            BY <1>5, <2>1, JobFacts DEF JobOK
        <3> QED BY <1>3, <1>5, <2>1, <3>1 DEF IdsAgree
    <2>2. CASE job'[w].row = orders'[job'[w].o]
        BY <2>2
    <2> QED BY <1>5, <2>1, <2>2, CopyTaken
<1> QED BY <1>4, <1>5 DEF IdsAgree

LEMMA CodeStep == ASSUME IInv, NoCodeYet, [Next]_vars PROVE NoCodeYet'
<1> SUFFICES ASSUME NEW w \in Workers, job'[w].op = "create" PROVE ~job'[w].row.code
    BY DEF NoCodeYet
<1> QED BY CreateMoves DEF NoCodeYet

LEMMA CheckoutStep ==
    ASSUME IInv, CreatesApart, CheckoutInv, [Next]_vars PROVE CheckoutInv'
<1>1. IdsAgree' /\ NoCodeYet'
    BY IdsStep, CodeStep DEF CheckoutInv
<1>2. ASSUME NEW q \in Orders, Born(orders[q])
      PROVE  /\ Born(orders'[q]) /\ SamePurchase(orders'[q], orders[q])
             /\ orders'[q].id = orders[q].id /\ orders[q].id \in Nat
    <2>1. orders'[q].id = orders[q].id
        <3>1. \A w \in Workers : job[w].o = q => job[w].row.id = orders[q].id
            BY DEF CheckoutInv, IdsAgree
        <3> QED BY <1>2, <3>1, RowColumns
    <2> QED BY <1>2, <2>1, BornSteps, OrdersStable DEF SameOrder, IInv, TypeOK, OrderRow
\* what becomes live is about to be shown by its own request alone
<1>3. ASSUME NEW l \in Orders, Live(l)', ~Live(l)
      PROVE  \E v \in Workers :
                /\ CreateSave(v) /\ job[v].o = l /\ job[v].pc = "csave" /\ job[v].op = "create"
                /\ Born(orders[l]) /\ SamePurchase(job[v].row, orders[l])
                /\ job[v].row.id = orders[l].id /\ job'[v] = Idle
    <2>1. PICK v \in Workers : CreateSave(v) /\ job[v].o = l
        BY <1>3, NewlyLive DEF CheckoutInv
    <2>2. job[v].pc = "csave" /\ job'[v] = Idle
        BY <2>1 DEF CreateSave, IInv, TypeOK
    <2> QED BY <2>1, <2>2, JobFacts DEF JobOK, CreateSteps, SameOrder, CheckoutInv, IdsAgree
<1>4. \A l \in Orders : Live(l) => Born(orders[l])
    BY DEF Live, Born
<1>5. ASSUME NEW w \in Workers, job'[w].pc \in LateSteps
      PROVE  /\ job[w].op = "create" /\ SamePurchase(job'[w].row, job[w].row)
             /\ job[w].pc \in LateSteps \/ CreateFresh(w)
             /\ job'[w].pc \in {"call", "csave"} =>
                    \/ job[w].pc \in {"call", "csave"} /\ job'[w].row = job[w].row
                    \/ CreateInsert(w) /\ job'[w].row.id = Cardinality(Orders \ Unborn) + 1
    <2>1. job'[w].op = "create"
        BY <1>5, NextInv DEF IInv, CopiesAgree, JobOK, LateSteps, CreateSteps
    <2>2. CASE job'[w] = job[w]
        BY <1>5, <2>1, <2>2 DEF SamePurchase
    <2>3. CASE job'[w] # job[w]
        BY <1>5, <2>1, <2>3, CreateMoves
           DEF SamePurchase, CreateInsert, CreateCall, LateSteps
    <2> QED BY <2>2, <2>3
<1>6. LiveIsLast'
    <2> SUFFICES ASSUME NEW l \in Orders, NEW p \in Orders, Live(l)', Born(orders'[p]),
                        SamePurchase(orders'[p], orders'[l])
                 PROVE  orders'[p].id <= orders'[l].id
        BY DEF LiveIsLast
    <2>1. CASE Live(l) /\ Born(orders[p])
        BY <1>2, <1>4, <2>1 DEF CheckoutInv, LiveIsLast, SamePurchase
    <2>2. CASE Live(l) /\ ~Born(orders[p])
        <3>1. PICK w \in Workers : CreateInsert(w) /\ SamePurchase(orders'[p], job[w].row)
            BY <2>2, BornSteps
        <3>2. job[w].pc \in LateSteps /\ SamePurchase(orders[l], job[w].row)
            BY <1>2, <1>4, <2>2, <3>1 DEF CreateInsert, LateSteps, SamePurchase
        <3> QED BY <2>2, <3>2 DEF CheckoutInv, NoneBeside
    <2>3. CASE ~Live(l)
        <3>1. PICK v \in Workers :
                /\ CreateSave(v) /\ job[v].o = l /\ job[v].pc = "csave" /\ job[v].op = "create"
                /\ Born(orders[l]) /\ SamePurchase(job[v].row, orders[l])
                /\ job[v].row.id = orders[l].id
            BY <1>3, <2>3
        <3>2. Born(orders[p])
            <4>2. ASSUME NEW w \in Workers, CreateInsert(w) PROVE FALSE
                BY <3>1, <4>2 DEF CreateInsert, CreateSave, IInv, TypeOK, Idle
            <4> QED BY <4>2, BornSteps
        <3>3. SamePurchase(orders[p], job[v].row)
            BY <1>2, <3>1, <3>2 DEF SamePurchase
        <3>4. orders[p].id <= job[v].row.id
            BY <3>1, <3>2, <3>3 DEF CheckoutInv, NoneBeside
        <3> QED BY <1>2, <3>1, <3>2, <3>4
    <2> QED BY <2>1, <2>2, <2>3
<1>7. NoneBeside'
    <2>1. ASSUME NEW w \in Workers, job'[w].pc \in LateSteps, NEW l \in Orders, Live(l)',
                 SamePurchase(orders'[l], job'[w].row)
          PROVE  FALSE
        <3>1. CASE Live(l)
            <4>1. SamePurchase(orders[l], job[w].row)
                BY <1>2, <1>4, <1>5, <2>1, <3>1 DEF SamePurchase
            <4>2. CASE job[w].pc \in LateSteps
                BY <3>1, <4>1, <4>2 DEF CheckoutInv, NoneBeside
            <4>3. CASE CreateFresh(w)
                <5>1. OpenCheckout(orders[l], job[w].row, now)
                    BY <3>1, <4>1 DEF OpenCheckout, Live
                <5>2. ASSUME NEW p \in Orders, OpenCheckout(orders[p], job[w].row, now)
                      PROVE  orders[p].id <= orders[l].id
                    <6>1. Born(orders[p]) /\ SamePurchase(orders[p], orders[l])
                        BY <4>1, <5>2 DEF OpenCheckout, Born, SamePurchase
                    <6> QED BY <3>1, <6>1 DEF CheckoutInv, LiveIsLast
                <5>3. l \in Reusable(job[w].row)
                    BY <3>1, <5>1, <5>2 DEF Reusable, Live
                <5> QED BY <4>3, <5>3 DEF CreateFresh
            <4> QED BY <1>5, <2>1, <4>2, <4>3
        <3>2. CASE ~Live(l)
            <4>1. PICK v \in Workers :
                    /\ job[v].op = "create" /\ Born(orders[l])
                    /\ SamePurchase(job[v].row, orders[l]) /\ job'[v] = Idle
                BY <1>3, <2>1, <3>2
            <4>2. job[v].row.user = job[w].row.user /\ job[w].op = "create"
                BY <1>2, <1>5, <2>1, <4>1 DEF SamePurchase
            <4>3. v = w
                BY <4>1, <4>2 DEF CreatesApart
            <4> QED BY <2>1, <4>1, <4>3 DEF Idle, LateSteps
        <3> QED BY <3>1, <3>2
    <2>2. ASSUME NEW w \in Workers, job'[w].pc \in {"call", "csave"}, NEW p \in Orders,
                 Born(orders'[p]), SamePurchase(orders'[p], job'[w].row)
          PROVE  orders'[p].id <= job'[w].row.id
        <3>1. /\ job[w].op = "create" /\ SamePurchase(job'[w].row, job[w].row)
              /\ \/ job[w].pc \in {"call", "csave"} /\ job'[w].row = job[w].row
                 \/ CreateInsert(w) /\ job'[w].row.id = Cardinality(Orders \ Unborn) + 1
            BY <1>5, <2>2 DEF LateSteps
        <3>2. CASE Born(orders[p])
            <4>1. SamePurchase(orders[p], job[w].row)
                BY <1>2, <2>2, <3>1, <3>2 DEF SamePurchase
            <4>2. Cardinality(Orders \ Unborn) \in Nat
                BY OrdersAssumption, FS_Difference, FS_CardinalityType
            <4>3. orders[p].id <= Cardinality(Orders \ Unborn)
                BY <3>2 DEF CheckoutInv, IdsAgree
            <4> QED BY <1>2, <3>1, <3>2, <4>1, <4>2, <4>3 DEF CheckoutInv, NoneBeside
        <3>3. CASE ~Born(orders[p])
            <4>1. PICK v \in Workers :
                    /\ CreateInsert(v) /\ orders'[p].id = Cardinality(Orders \ Unborn) + 1
                    /\ SamePurchase(orders'[p], job[v].row)
                BY <2>2, <3>3, BornSteps
            <4>2. job[v].op = "create" /\ job[v].pc = "insert"
                BY <4>1, JobFacts DEF CreateInsert, JobOK, CreateSteps
            <4>3. v = w
                BY <2>2, <3>1, <4>1, <4>2 DEF CreatesApart, SamePurchase
            <4>4. Cardinality(Orders \ Unborn) \in Nat
                BY OrdersAssumption, FS_Difference, FS_CardinalityType
            <4> QED BY <3>1, <4>1, <4>2, <4>3, <4>4
        <3> QED BY <3>2, <3>3
    <2> QED BY <2>1, <2>2 DEF NoneBeside
<1>8. OneLive'
    <2> SUFFICES ASSUME NEW l \in Orders, NEW k \in Orders, Live(l)', Live(k)',
                        SamePurchase(orders'[l], orders'[k])
                 PROVE  l = k
        BY DEF OneLive
    <2>1. CASE Live(l) /\ Live(k)
        BY <1>2, <1>4, <2>1 DEF CheckoutInv, OneLive, SamePurchase
    <2>2. ASSUME NEW a \in {l, k}, NEW b \in {l, k}, ~Live(a), Live(b) PROVE FALSE
        <3>1. PICK v \in Workers : /\ job[v].pc = "csave" /\ Born(orders[a])
                                   /\ SamePurchase(job[v].row, orders[a])
            BY <1>3, <2>2
        <3>2. SamePurchase(orders[b], job[v].row)
            BY <1>2, <1>4, <2>2, <3>1 DEF SamePurchase
        <3> QED BY <2>2, <3>1, <3>2 DEF CheckoutInv, NoneBeside, LateSteps
    <2>3. CASE ~Live(l) /\ ~Live(k)
        <3>1. PICK v \in Workers : /\ job[v].o = l /\ job[v].op = "create" /\ Born(orders[l])
                                   /\ SamePurchase(job[v].row, orders[l])
            BY <1>3, <2>3
        <3>2. PICK w \in Workers : /\ job[w].o = k /\ job[w].op = "create" /\ Born(orders[k])
                                   /\ SamePurchase(job[w].row, orders[k])
            BY <1>3, <2>3
        <3>3. job[v].row.user = job[w].row.user
            BY <1>2, <3>1, <3>2 DEF SamePurchase
        <3> QED BY <3>1, <3>2, <3>3 DEF CreatesApart
    <2> QED BY <2>1, <2>2, <2>3
<1> QED BY <1>1, <1>6, <1>7, <1>8 DEF CheckoutInv

\* A checkout whose row holds its QR code is the purchase's last order, for any
\* number of orders and customers and whatever fails, expires or overlaps,
\* while no two of a customer's requests create orders at a time: another is
\* inserted beside it only after a save without the code.
THEOREM OneCheckout == Spec /\ []CreatesApart => []OpenCheckoutReused
<1>1. Init => CheckoutInv
    <2> SUFFICES ASSUME Init PROVE CheckoutInv
        OBVIOUS
    <2>1. /\ \A o \in Orders : orders[o].status = "none"
          /\ \A w \in Workers : job[w].o = NoOrder /\ job[w].op = "none" /\ job[w].pc = "idle"
        BY DEF Init, NoRow, Idle
    <2> QED BY <2>1, NoOrderAssumption
            DEF CheckoutInv, IdsAgree, NoCodeYet, LiveIsLast, NoneBeside, OneLive, Live,
                Born, LateSteps
<1>2. IInv /\ CreatesApart /\ CheckoutInv /\ [Next]_vars => CheckoutInv'
    BY CheckoutStep
<1>3. CheckoutInv => OpenCheckoutReused
    BY DEF CheckoutInv, LiveIsLast, OneLive, OpenCheckoutReused, SamePurchase, Born, Unborn
<1> QED BY <1>1, <1>2, <1>3, Invariance, PTL DEF Spec

-----------------------------------------------------------------------------
(***************************************************************************)
(* The ledger.  A user's entitlement changes by a grant, an assignment and *)
(* its first half, and by the clock (PlanLeft); an order's bill by its     *)
(* insert, its payment and its grant (BillsKept).  Each such action is the *)
(* ledger's step of that name, and every other is none of its steps.  What *)
(* a transaction holds must still be true when it commits: rows it is to   *)
(* expire are expired (LapsedOK), and the expiry it computed is one the    *)
(* order may give (CommitOK).                                              *)
(***************************************************************************)

\* What a table says of a user who has one active row, or none.
LEMMA OneRowEntitles ==
    ASSUME NEW s \in Seq(Subscription), NEW u, NEW t \in Nat, NEW i \in ActiveRows(s, u),
           \A k \in ActiveRows(s, u) : k = i
    PROVE  Entitled(s, u, t) = Ledger!Left([plan |-> s[i].plan, until |-> s[i].exp], t)
<1>1. i \in DOMAIN s /\ i \in Nat /\ s[i] \in Subscription
    BY DEF ActiveRows
<1>2. LatestActive(s, u) = {i}
    BY <1>1 DEF LatestActive
<1>3. CASE IsExpired(s[i], t)
    <2>1. Current(s, u, t) = {}
        BY <1>2, <1>3 DEF Current
    <2> QED BY <1>3, <2>1 DEF Entitled, CurrentPlan, CurrentExpiry, IsExpired, Ledger!Left, Ledger!Free
<1>4. CASE ~IsExpired(s[i], t)
    <2>1. Current(s, u, t) = {i} /\ {i} # {}
        BY <1>2, <1>4 DEF Current
    <2>2. TheRow(s, {i}) = s[i]
        BY DEF TheRow
    <2> QED BY <1>4, <2>1, <2>2 DEF Entitled, CurrentPlan, CurrentExpiry, IsExpired, Ledger!Left
<1> QED BY <1>3, <1>4

LEMMA NoRowEntitles ==
    ASSUME NEW s \in Seq(Subscription), NEW u, NEW t, ActiveRows(s, u) = {}
    PROVE  Entitled(s, u, t) = Ledger!Free
BY DEF Entitled, CurrentPlan, CurrentExpiry, Current, LatestActive, Ledger!Free

LEMMA LeftTwice ==
    ASSUME NEW t \in Nat, NEW d \in Nat, t <= d, NEW p, NEW e \in Times
    PROVE  LET x == [plan |-> p, until |-> e]
           IN  Ledger!Left(Ledger!Left(x, t), d) = Ledger!Left(x, d)
BY DEF Ledger!Left, Ledger!Free, Times, NoTime

\* A plan that is neither replaced nor closed only lapses.
LEMMA PlanKept ==
    ASSUME IInv, OneActiveSubscription, [Next]_vars, NEW u \in Users,
           \A i \in DOMAIN subs' : i \notin DOMAIN subs => subs'[i].user # u,
           \A i \in ActiveRows(subs, u) : subs'[i].status # "active" => IsExpired(subs[i], now)
    PROVE  Entitled(subs', u, now') = Ledger!Left(Entitled(subs, u, now), now')
<1>1. /\ subs \in Seq(Subscription) /\ subs' \in Seq(Subscription)
      /\ now \in Nat /\ now' \in Nat /\ now <= now'
    <2>1. subs \in Seq(Subscription) /\ subs' \in Seq(Subscription) /\ now \in Nat /\ now' \in Nat
        BY NextInv DEF IInv, TypeOK
    <2> QED BY <2>1, ClockSteps
<1>2. ActiveRows(subs', u) \subseteq ActiveRows(subs, u)
    BY RowsStay DEF ActiveRows
<1>3. Ledger!Left(Ledger!Free, now') = Ledger!Free
    BY DEF Ledger!Left
<1>4. CASE ActiveRows(subs, u) = {}
    BY <1>1, <1>2, <1>3, <1>4, NoRowEntitles
<1>5. ASSUME NEW i \in ActiveRows(subs, u)
      PROVE  Entitled(subs', u, now') = Ledger!Left(Entitled(subs, u, now), now')
    <2> DEFINE x == [plan |-> subs[i].plan, until |-> subs[i].exp]
    <2>1. \A k \in ActiveRows(subs, u) : k = i
        BY DEF OneActiveSubscription
    <2>2. Entitled(subs, u, now) = Ledger!Left(x, now)
        BY <1>1, <2>1, OneRowEntitles
    <2>3. i \in DOMAIN subs /\ subs[i] \in Subscription /\ i \in DOMAIN subs'
            /\ subs'[i].plan = subs[i].plan /\ subs'[i].exp = subs[i].exp
            /\ subs'[i].user = subs[i].user /\ subs[i].user = u
        BY RowsStay DEF ActiveRows
    <2>4. CASE subs'[i].status = "active"
        <3>1. i \in ActiveRows(subs', u) /\ \A k \in ActiveRows(subs', u) : k = i
            BY <1>2, <2>1, <2>3, <2>4 DEF ActiveRows
        <3>2. Entitled(subs', u, now') = Ledger!Left(x, now')
            BY <1>1, <2>3, <3>1, OneRowEntitles
        <3>3. subs[i].exp \in Times
            BY <2>3 DEF Subscription
        <3> QED BY <1>1, <2>2, <3>2, <3>3, LeftTwice
    <2>5. CASE subs'[i].status # "active"
        <3>1. ActiveRows(subs', u) = {}
            BY <1>2, <2>1, <2>5 DEF ActiveRows
        <3>2. Ledger!Left(x, now) = Ledger!Free
            BY <2>5 DEF IsExpired, Ledger!Left
        <3> QED BY <1>1, <1>3, <2>2, <3>1, <3>2, NoRowEntitles
    <2> QED BY <2>4, <2>5
<1> QED BY <1>4, <1>5

\* While the clock stands still, no plan lapses.
LEMMA LeftNow ==
    ASSUME IInv, OneActiveSubscription, NEW u \in Users
    PROVE  Ledger!Left(Entitled(subs, u, now), now) = Entitled(subs, u, now)
<1>1. subs \in Seq(Subscription) /\ now \in Nat
    BY DEF IInv, TypeOK
<1>2. CASE ActiveRows(subs, u) = {}
    BY <1>1, <1>2, NoRowEntitles DEF Ledger!Left
<1>3. ASSUME NEW i \in ActiveRows(subs, u)
      PROVE  Ledger!Left(Entitled(subs, u, now), now) = Entitled(subs, u, now)
    <2>1. \A k \in ActiveRows(subs, u) : k = i
        BY DEF OneActiveSubscription
    <2>2. subs[i] \in Subscription
        BY <1>1 DEF ActiveRows
    <2>3. subs[i].exp \in Times /\ now <= now
        BY <1>1, <2>2 DEF Subscription
    <2> DEFINE x == [plan |-> subs[i].plan, until |-> subs[i].exp]
    <2>4. Entitled(subs, u, now) = Ledger!Left(x, now)
        BY <1>1, <2>1, OneRowEntitles
    <2>5. Ledger!Left(Ledger!Left(x, now), now) = Ledger!Left(x, now)
        BY <1>1, <2>3, LeftTwice
    <2> QED BY <2>4, <2>5
<1> QED BY <1>2, <1>3

\* An end that an order may give stays one as time passes.
LEMMA EndsLast ==
    ASSUME NEW t \in Nat, NEW d \in Nat, t <= d, NEW p, NEW e \in Times,
           NEW terms, terms.mode \in Modes, terms.months \in Nat,
           NEW x \in Ledger!Ends(terms, [plan |-> p, until |-> e], t)
    PROVE  x \in Ledger!Ends(terms, Ledger!Left([plan |-> p, until |-> e], d), d)
<1> DEFINE plan == [plan |-> p, until |-> e]
           later == Ledger!Left(plan, d)
<1>1. \A n \in Nat : {since + n * Month : since \in 0..t} \subseteq {since + n * Month : since \in 0..d}
    OBVIOUS
<1>2. Month \in Nat
    BY TimeAssumption
<1>3. CASE terms.mode = "upgrade_diff_all"
    BY <1>3 DEF Ledger!Ends
<1>4. CASE terms.mode = "upgrade_replace_month"
    BY <1>1, <1>4 DEF Ledger!Ends
<1>5. CASE terms.mode = "standard"
    <2> DEFINE fresh(c) == {since + terms.months * Month : since \in 0..c}
    <2>1. \A q, c : Ledger!Ends(terms, q, c) =
            IF q.plan = terms.plan /\ q.until > c THEN {q.until + terms.months * Month} ELSE fresh(c)
        BY <1>5 DEF Ledger!Ends
    <2>2. later = plan \/ (later = Ledger!Free /\ e # NoTime /\ e < d)
        BY DEF Ledger!Left
    <2>3. CASE p = terms.plan /\ e > t
        <3>1. x = e + terms.months * Month /\ e \in Nat
            BY <2>1, <2>3 DEF Times, NoTime
        <3>2. e <= d => x \in fresh(d)
            BY <3>1
        <3>3. later.plan = terms.plan /\ later.until > d => x = later.until + terms.months * Month
            BY <2>2, <3>1 DEF Ledger!Free, NoTime
        <3>4. ~(later.plan = terms.plan /\ later.until > d) => e <= d
            BY <2>2, <2>3, <3>1
        <3> QED BY <2>1, <3>2, <3>3, <3>4
    <2>4. CASE ~(p = terms.plan /\ e > t)
        <3>1. x \in fresh(t)
            BY <2>1, <2>4
        <3>2. x \in fresh(d)
            BY <1>1, <3>1
        <3>3. ~(later.plan = terms.plan /\ later.until > d)
            BY <2>2, <2>4 DEF Ledger!Free, NoTime, Times
        <3> QED BY <2>1, <3>2, <3>3
    <2> QED BY <2>3, <2>4
<1> QED BY <1>3, <1>4, <1>5 DEF Modes

\* What a job adds to the ledger's asked and assigning.
RegrantsFor(j) == {o \in Orders : j.op = "regrant" /\ j.o = o}
AssignsTo(j) == {u \in Users : j.pc = "assign" /\ j.row.user = u}

\* A step of one worker's leaves the others' jobs.
LEMMA OthersWait ==
    ASSUME IInv, NEW w \in Workers, Request(w) \/ Step(w) \/ Fail(w) \/ CallLost(w),
           NEW v \in Workers, v # w
    PROVE  job'[v] = job[v]
<1>1. job \in [Workers -> Job]
    BY DEF IInv, TypeOK
<1>2. CASE Request(w)
    BY <1>1, <1>2 DEF Request, NotifyFind, PollFind, CancelFind, RegrantFind, ReadPlan,
        CreateQuote, AssignCancel, Begin
<1>3. CASE Step(w)
    BY <1>1, <1>3 DEF Step, PollQuery, PollUnknown, SaveResult, LogCallback, GrantSkip,
        GrantRefuse, GrantLock, GrantCommit, CreateReuse, CreateFresh, CreateInsert, CreateCall,
        CreateSave, CancelUpdate, AssignInsert, ExpireSave, Finish, GoTo
<1>4. CASE Fail(w) \/ CallLost(w)
    BY <1>1, <1>4 DEF Fail, CallLost
<1> QED BY <1>2, <1>3, <1>4

\* While requests are apart, a worker's step changes its own part only.
LEMMA AskedStep ==
    ASSUME IInv, OrdersApart, PlansApart, NEW w \in Workers,
           Request(w) \/ Step(w) \/ Fail(w) \/ CallLost(w)
    PROVE  /\ Regranting' = (Regranting \ RegrantsFor(job[w])) \cup RegrantsFor(job'[w])
           /\ Assigning' = (Assigning \ AssignsTo(job[w])) \cup AssignsTo(job'[w])
           /\ RegrantsFor(job[w]) \subseteq Regranting /\ AssignsTo(job[w]) \subseteq Assigning
           /\ \A v \in Workers : v # w /\ job[w].o \in Orders => job[w].o \notin RegrantsFor(job[v])
<1>1. \A v \in Workers : v # w => job'[v] = job[v]
    BY OthersWait
<1>2. \A v \in Workers : v # w => RegrantsFor(job[v]) \cap RegrantsFor(job[w]) = {}
    BY DEF OrdersApart, RegrantsFor
<1>3. \A v \in Workers : v # w => AssignsTo(job[v]) \cap AssignsTo(job[w]) = {}
    BY DEF PlansApart, AssignsTo
<1>4. /\ Regranting = UNION {RegrantsFor(job[v]) : v \in Workers}
      /\ Assigning = UNION {AssignsTo(job[v]) : v \in Workers}
    BY DEF Regranting, Assigning, RegrantsFor, AssignsTo
<1>5. /\ Regranting' = UNION {RegrantsFor(job'[v]) : v \in Workers}
      /\ Assigning' = UNION {AssignsTo(job'[v]) : v \in Workers}
    BY DEF Regranting, Assigning, RegrantsFor, AssignsTo
<1>6. Regranting' = (Regranting \ RegrantsFor(job[w])) \cup RegrantsFor(job'[w])
    BY <1>1, <1>2, <1>4, <1>5
<1>7. Assigning' = (Assigning \ AssignsTo(job[w])) \cup AssignsTo(job'[w])
    BY <1>1, <1>3, <1>4, <1>5
<1>8. \A v \in Workers : v # w /\ job[w].o \in Orders => job[w].o \notin RegrantsFor(job[v])
    BY DEF OrdersApart, RegrantsFor
<1> QED BY <1>4, <1>6, <1>7, <1>8

\* A job goes on about its order, or ends; it begins no assignment.
LEMMA JobGoesOn ==
    ASSUME IInv, NEW w \in Workers, Step(w)
    PROVE  /\ AssignsTo(job'[w]) = {}
           /\ job[w].pc = "assign" => AssignInsert(w)
           /\ RegrantsFor(job'[w]) = RegrantsFor(job[w]) \/ job'[w] = Idle
<1>1. job \in [Workers -> Job] /\ job[w] \in Job /\ Idle.pc = "idle" /\ JobOK(job[w], orders, prov)
    BY JobFacts DEF IInv, TypeOK, Idle
<1>2. CASE PollQuery(w) \/ PollUnknown(w) \/ SaveResult(w) \/ LogCallback(w)
    BY <1>1, <1>2 DEF PollQuery, PollUnknown, SaveResult, LogCallback, Finish, GoTo, Job,
        RegrantsFor, AssignsTo
<1>3. CASE GrantSkip(w) \/ GrantRefuse(w) \/ GrantLock(w) \/ GrantCommit(w)
    BY <1>1, <1>3 DEF GrantSkip, GrantRefuse, GrantLock, GrantCommit, Finish, Job,
        RegrantsFor, AssignsTo
<1>4. CASE CreateReuse(w) \/ CreateFresh(w) \/ CreateCall(w) \/ CreateSave(w)
    BY <1>1, <1>4 DEF CreateReuse, CreateFresh, CreateCall, CreateSave, Job, RegrantsFor, AssignsTo
<1>5. CASE CreateInsert(w)
    BY <1>1, <1>5 DEF CreateInsert, Job, JobOK, CreateSteps, RegrantsFor, AssignsTo
<1>6. CASE CancelUpdate(w) \/ AssignInsert(w)
    BY <1>1, <1>6 DEF CancelUpdate, AssignInsert, AssignsTo
<1>7. CASE ExpireSave(w)
    <2> DEFINE next == [job[w] EXCEPT !.pc = "reuse", !.sub = {}]
    <2>1. next.pc = "reuse" /\ next.op = job[w].op
        BY <1>1 DEF Job
    <2>2. job'[w] = IF job[w].op = "create" THEN next ELSE Idle
        BY <1>1, <1>7 DEF ExpireSave
    <2> HIDE DEF next
    <2> QED BY <1>1, <1>7, <2>1, <2>2 DEF ExpireSave, RegrantsFor, AssignsTo
<1> QED BY <1>2, <1>3, <1>4, <1>5, <1>6, <1>7 DEF Step, PollQuery, PollUnknown, SaveResult,
        LogCallback, GrantSkip, GrantRefuse, GrantLock, GrantCommit, CreateReuse, CreateFresh,
        CreateInsert, CreateCall, CreateSave, CancelUpdate, ExpireSave

\* The idle worker asks for nothing.
LEMMA IdleAsks == RegrantsFor(Idle) = {} /\ AssignsTo(Idle) = {}
BY DEF Idle, RegrantsFor, AssignsTo

\* Requests other than an administrator's ask for nothing either.
LEMMA JobBegins ==
    ASSUME IInv, NEW w \in Workers, Request(w)
    PROVE  /\ job[w] = Idle
           /\ \/ \E o \in Orders : /\ RegrantFind(w, o) /\ RegrantsFor(job'[w]) = {o}
                                    /\ AssignsTo(job'[w]) = {}
              \/ \E u \in Users, p \in Plans, e \in AdminExpiries :
                    /\ AssignCancel(w, u, p, e) /\ RegrantsFor(job'[w]) = {}
                    /\ AssignsTo(job'[w]) = {u}
              \/ /\ RegrantsFor(job'[w]) = {} /\ AssignsTo(job'[w]) = {}
                 /\ UNCHANGED <<orders, subs, prov, now>>
<1>1. job \in [Workers -> Job] /\ job[w] = Idle
    BY BeginsIdle DEF IInv, TypeOK
<1>2. ASSUME NEW o \in Orders, RegrantFind(w, o)
      PROVE  RegrantsFor(job'[w]) = {o} /\ AssignsTo(job'[w]) = {}
    BY <1>1, <1>2 DEF RegrantFind, Begin, Idle, RegrantsFor, AssignsTo
<1>3. ASSUME NEW u \in Users, NEW p \in Plans, NEW e \in AdminExpiries, AssignCancel(w, u, p, e)
      PROVE  RegrantsFor(job'[w]) = {} /\ AssignsTo(job'[w]) = {u}
    BY <1>1, <1>3 DEF AssignCancel, Begin, Idle, NoRow, RegrantsFor, AssignsTo
<1>4. ASSUME NEW o \in Orders, CancelFind(w, o) \/ \E c \in ProviderCodes : NotifyFind(w, o, c)
      PROVE  /\ RegrantsFor(job'[w]) = {} /\ AssignsTo(job'[w]) = {}
             /\ UNCHANGED <<orders, subs, prov, now>>
    BY <1>1, <1>4 DEF CancelFind, NotifyFind, Begin, Idle, RegrantsFor, AssignsTo, tables, provider, bounds
<1>5. ASSUME NEW o \in Orders, PollFind(w, o)
      PROVE  /\ RegrantsFor(job'[w]) = {} /\ AssignsTo(job'[w]) = {}
             /\ UNCHANGED <<orders, subs, prov, now>>
    <2> DEFINE pc == IF orders[o].status = "paid" THEN "lock" ELSE "query"
    <2>1. job'[w] = [Idle EXCEPT !.op = "poll", !.o = o, !.row = orders[o], !.pc = pc]
        BY <1>1, <1>5 DEF PollFind, Begin
    <2>2. pc # "assign"
        OBVIOUS
    <2> HIDE DEF pc
    <2>3. RegrantsFor(job'[w]) = {} /\ AssignsTo(job'[w]) = {}
        BY <2>1, <2>2 DEF Idle, RegrantsFor, AssignsTo
    <2> QED BY <1>5, <2>3 DEF PollFind, tables, provider, bounds
<1>6. ASSUME NEW u \in Users, ReadPlan(w, u)
      PROVE  /\ RegrantsFor(job'[w]) = {} /\ AssignsTo(job'[w]) = {}
             /\ UNCHANGED <<orders, subs, prov, now>>
    BY <1>1, <1>6 DEF ReadPlan, Begin, Idle, RegrantsFor, AssignsTo, tables, provider, bounds
<1>7. ASSUME NEW u \in Users, NEW p \in Products, NEW mode \in Modes, NEW m \in BillingMonths,
             CreateQuote(w, u, p, mode, m)
      PROVE  /\ RegrantsFor(job'[w]) = {} /\ AssignsTo(job'[w]) = {}
             /\ UNCHANGED <<orders, subs, prov, now>>
    BY <1>1, <1>7 DEF CreateQuote, Begin, Idle, RegrantsFor, AssignsTo, tables, provider, bounds
<1> QED BY <1>1, <1>2, <1>3, <1>4, <1>5, <1>6, <1>7 DEF Request

\* The orders' side: an order is paid for by Pay alone ...
LEMMA MoneySteps ==
    ASSUME IInv, [Next]_vars, NEW q \in Orders
    PROVE  PaidAt(q)' = PaidAt(q) \/ Pay(q)
<1>1. prov \in [Orders -> ProviderCodes]
    BY DEF IInv, TypeOK
<1>2. CASE UNCHANGED prov
    BY <1>2 DEF PaidAt
<1>3. ASSUME NEW w \in Workers, Step(w), ~UNCHANGED prov PROVE PaidAt(q)' => PaidAt(q)
    <2>1. CreateCall(w) \/ CreateSave(w)
        BY <1>3 DEF Step, PollQuery, PollUnknown, SaveResult, LogCallback, GrantSkip, GrantRefuse,
            GrantLock, GrantCommit, CreateReuse, CreateFresh, CreateInsert, CancelUpdate,
            AssignInsert, ExpireSave, provider
    <2> QED BY <1>1, <2>1 DEF CreateCall, CreateSave, PaidAt, Paid
<1>4. ASSUME NEW w \in Workers, CallLost(w) PROVE PaidAt(q)' => PaidAt(q)
    BY <1>1, <1>4 DEF CallLost, PaidAt, Paid
<1>5. ASSUME NEW o \in Orders, Pay(o) PROVE o = q \/ (PaidAt(q)' => PaidAt(q))
    BY <1>1, <1>5 DEF Pay, PaidAt, Paid
<1>6. ASSUME NEW o \in Orders, Refund(o) \/ RefundFails(o) \/ Close(o) PROVE PaidAt(q)' => PaidAt(q)
    BY <1>1, <1>6 DEF Refund, RefundFails, Close, PaidAt, Paid
<1>7. ASSUME NEW w \in Workers, Request(w) \/ Fail(w) PROVE UNCHANGED prov
    BY <1>7 DEF Request, NotifyFind, PollFind, CancelFind, RegrantFind, ReadPlan, CreateQuote,
                AssignCancel, Fail, provider
<1>8. PaidAt(q) => PaidAt(q)'
    BY OrdersStable DEF PaidAt
<1>9. UNCHANGED vars \/ Tick => UNCHANGED prov
    BY DEF vars, Tick, provider
<1>10. PaidAt(q)' \in BOOLEAN /\ PaidAt(q) \in BOOLEAN
    BY DEF PaidAt, Paid
<1>11. UNCHANGED prov \/ (PaidAt(q)' => PaidAt(q)) \/ Pay(q)
    BY <1>3, <1>4, <1>5, <1>6, <1>7, <1>9 DEF Next
<1> QED BY <1>2, <1>8, <1>10, <1>11

\* ... and its bill is rewritten by its payment and by its grant alone.
LEMMA BillKept ==
    ASSUME IInv, OrdersApart, GrantStamped, [Next]_vars, NEW q \in Orders, Born(orders[q]), ~Pay(q),
           \A w \in Workers : GrantCommit(w) => job[w].o # q
    PROVE  Bill(orders'[q], PaidAt(q)') = Bill(orders[q], PaidAt(q))
<1>1. SameOrder(orders'[q], orders[q]) /\ PaidAt(q)' = PaidAt(q)
    BY OrdersStable, MoneySteps
<1>2. orders'[q].granted = orders[q].granted
    <2>1. \A w \in Workers : job[w].o = q => job[w].row.granted = orders[q].granted
        BY DEF GrantStamped
    <2> QED BY <2>1, RowColumns
<1> QED BY <1>1, <1>2 DEF Bill, SameOrder, SamePurchase

\* A step that pays, inserts and grants nothing leaves every bill.
LEMMA BillsKept ==
    ASSUME IInv, OrdersApart, GrantStamped, [Next]_vars,
           \A o \in Orders : ~Pay(o), \A w \in Workers : ~GrantCommit(w) /\ ~CreateInsert(w)
    PROVE  Bills' = Bills
<1>1. Unborn' = Unborn
    BY BornSteps DEF Unborn, Born
<1>2. \A q \in Orders \ Unborn : Bill(orders'[q], PaidAt(q)') = Bill(orders[q], PaidAt(q))
    BY BillKept DEF Unborn, Born
<1> QED BY <1>1, <1>2 DEF Bills

\* The users' side: no plan is replaced, and none lapses, by a step that
\* neither appends nor cancels a row nor moves the clock.
LapsedOK ==
    \A w \in Workers : \A i \in job[w].sub : i \in DOMAIN subs /\ IsExpired(subs[i], now)

LEMMA PlansKept ==
    ASSUME IInv, OneActiveSubscription, [Next]_vars, now' = now, NEW u \in Users,
           \A i \in DOMAIN subs' : i \notin DOMAIN subs => subs'[i].user # u,
           \A i \in ActiveRows(subs, u) : subs'[i].status # "active" => IsExpired(subs[i], now)
    PROVE  Entitled(subs', u, now') = Entitled(subs, u, now)
BY PlanKept, LeftNow

\* A row is closed by a grant or an assignment for its user, or has expired.
LEMMA RowCloses ==
    ASSUME IInv, LapsedOK, [Next]_vars, NEW i \in DOMAIN subs,
           subs[i].status = "active", subs'[i].status # "active"
    PROVE  \/ IsExpired(subs[i], now)
           \/ \E w \in Workers : GrantCommit(w) /\ job[w].row.user = subs[i].user
           \/ \E w \in Workers, p \in Plans, e \in AdminExpiries : AssignCancel(w, subs[i].user, p, e)
<1>1. subs \in Seq(Subscription) /\ i \in 1..Len(subs) /\ subs[i] \in Subscription
    BY DEF IInv, TypeOK
<1>2. ASSUME NEW v, subs' = CancelActive(subs, v) PROVE v = subs[i].user
    <2> DEFINE c == CancelActive(subs, v)
    <2>1. Len(c) = Len(subs) /\ c[i] = [subs[i] EXCEPT !.status = c[i].status]
            /\ c[i].status = IF subs[i].user = v /\ subs[i].status = "active"
                             THEN "canceled" ELSE subs[i].status
        BY <1>1, CancelCloses
    <2> QED BY <1>2, <2>1
<1>3. ASSUME NEW w \in Workers, GrantCommit(w)
      PROVE  IsExpired(subs[i], now) \/ job[w].row.user = subs[i].user
    <2> DEFINE s == Expire(subs, job[w].sub)
               c == CancelActive(s, job[w].row.user)
               by == IF job[w].op = "regrant" THEN "regrant" ELSE "grant"
               n == NewSubscription(job[w].row.user, job[w].row.plan, job[w].exp, job[w].o, by)
    <2>1. subs' = Append(c, n)
        BY <1>3 DEF GrantCommit
    <2>2. s \in Seq(Subscription) /\ c \in Seq(Subscription) /\ Len(s) = Len(subs)
        BY <1>1, TableTyped, ExpireCloses
    <2>3. s[i] = [subs[i] EXCEPT !.status = s[i].status]
            /\ s[i].status = IF i \in job[w].sub THEN "expired" ELSE subs[i].status
        BY <1>1, ExpireCloses
    <2>4. s[i].user = subs[i].user
        BY <1>1, <2>3 DEF Subscription
    <2> HIDE DEF n, s
    <2>5. Len(c) = Len(s) /\ c[i] = [s[i] EXCEPT !.status = c[i].status]
            /\ c[i].status = IF s[i].user = job[w].row.user /\ s[i].status = "active"
                             THEN "canceled" ELSE s[i].status
        BY <1>1, <2>2, CancelCloses
    <2> HIDE DEF c
    <2>6. subs'[i] = c[i]
        BY <1>1, <2>1, <2>2, <2>5
    <2>7. i \in job[w].sub => IsExpired(subs[i], now)
        BY DEF LapsedOK
    <2> QED BY <2>3, <2>4, <2>5, <2>6, <2>7
<1>4. ASSUME NEW w \in Workers, ExpireSave(w) PROVE IsExpired(subs[i], now)
    <2>1. subs' = Expire(subs, job[w].sub)
        BY <1>4 DEF ExpireSave
    <2> DEFINE s == Expire(subs, job[w].sub)
    <2>2. /\ s[i] = [subs[i] EXCEPT !.status = s[i].status]
          /\ s[i].status = IF i \in job[w].sub THEN "expired" ELSE subs[i].status
        BY <1>1, ExpireCloses
    <2>3. subs'[i].status = s[i].status
        BY <2>1
    <2> HIDE DEF s
    <2> QED BY <2>2, <2>3 DEF LapsedOK
<1>5. ASSUME NEW w \in Workers, AssignInsert(w) PROVE FALSE
    <2> DEFINE n == NewSubscription(job[w].row.user, job[w].row.plan, job[w].exp, NoOrder, "admin")
    <2>1. subs' = Append(subs, n)
        BY <1>5 DEF AssignInsert
    <2> HIDE DEF n
    <2> QED BY <1>1, <2>1
<1>6. CASE UNCHANGED vars
    BY <1>6 DEF vars, tables
<1>7. ASSUME NEW w \in Workers, Request(w)
      PROVE  UNCHANGED subs \/ \E u \in Users, p \in Plans, e \in AdminExpiries : AssignCancel(w, u, p, e)
    BY <1>7 DEF Request, NotifyFind, PollFind, CancelFind, RegrantFind, ReadPlan, CreateQuote, tables
<1>8. ASSUME NEW w \in Workers, Step(w)
      PROVE  UNCHANGED subs \/ ExpireSave(w) \/ GrantCommit(w) \/ AssignInsert(w)
    BY <1>8 DEF Step, PollQuery, PollUnknown, SaveResult, LogCallback, GrantSkip, GrantRefuse,
                GrantLock, CreateReuse, CreateFresh, CreateInsert, CreateCall, CreateSave,
                CancelUpdate, tables
<1>9. ASSUME NEW w \in Workers, Fail(w) \/ CallLost(w) PROVE UNCHANGED subs
    BY <1>9 DEF Fail, CallLost, tables
<1>10. ASSUME NEW o \in Orders, Pay(o) \/ Refund(o) \/ RefundFails(o) \/ Close(o)
      PROVE  UNCHANGED subs
    BY <1>10 DEF Pay, Refund, RefundFails, Close, tables
<1>11. Tick => UNCHANGED subs
    BY DEF Tick, tables
<1>12. ~ UNCHANGED subs
    OBVIOUS
<1>13. ASSUME NEW w \in Workers, NEW u \in Users, NEW p \in Plans, NEW e \in AdminExpiries,
              AssignCancel(w, u, p, e)
       PROVE  u = subs[i].user
    BY <1>2, <1>13 DEF AssignCancel
<1> QED BY <1>3, <1>4, <1>5, <1>6, <1>7, <1>8, <1>9, <1>10, <1>11, <1>12, <1>13 DEF Next

\* So a user's plan is left to lapse by any step but these three.
LEMMA PlanLeft ==
    ASSUME IInv, LapsedOK, OneActiveSubscription, [Next]_vars, NEW u \in Users,
           \A w \in Workers : GrantCommit(w) \/ AssignInsert(w) => job[w].row.user # u,
           \A w \in Workers, p \in Plans, e \in AdminExpiries : ~AssignCancel(w, u, p, e)
    PROVE  /\ Entitled(subs', u, now') = Ledger!Left(Entitled(subs, u, now), now')
           /\ now' = now => Entitled(subs', u, now') = Entitled(subs, u, now)
<1>1. \A i \in DOMAIN subs' : i \notin DOMAIN subs => subs'[i].user # u
    BY NewRow
<1>2. \A i \in ActiveRows(subs, u) : subs'[i].status # "active" => IsExpired(subs[i], now)
    BY RowCloses DEF ActiveRows
<1> QED BY <1>1, <1>2, PlanKept, PlansKept

\* The rows a job has found lapsed are those of a user's plan as it is now.
LEMMA LapsedTaken ==
    ASSUME IInv, [Next]_vars, NEW w \in Workers
    PROVE  job'[w].sub \subseteq job[w].sub \/ \E u : job'[w].sub = Lapsed(subs, u, now)
<1>1. job \in [Workers -> Job] /\ job[w] \in Job /\ Idle.sub = {}
    BY JobFacts DEF IInv, TypeOK, Idle
<1>2. ASSUME Request(w) PROVE job'[w].sub = {} \/ \E u : job'[w].sub = Lapsed(subs, u, now)
    <2>1. ASSUME NEW o \in Orders, CancelFind(w, o) \/ RegrantFind(w, o)
                                  \/ \E c \in ProviderCodes : NotifyFind(w, o, c)
          PROVE  job'[w].sub = {}
        BY <1>1, <2>1 DEF CancelFind, RegrantFind, NotifyFind, Begin, Idle
    <2>2. ASSUME NEW o \in Orders, PollFind(w, o) PROVE job'[w].sub = {}
        BY <1>1, <2>2 DEF PollFind, Begin, Idle
    <2>3. ASSUME NEW u \in Users, ReadPlan(w, u) PROVE job'[w].sub = Lapsed(subs, u, now)
        BY <1>1, <2>3 DEF ReadPlan, Begin, Idle
    <2>4. ASSUME NEW u \in Users, NEW p, NEW mode, NEW m, CreateQuote(w, u, p, mode, m)
          PROVE  job'[w].sub = Lapsed(subs, u, now)
        BY <1>1, <2>4 DEF CreateQuote, Begin, Idle
    <2>5. ASSUME NEW u \in Users, NEW p, NEW e, AssignCancel(w, u, p, e) PROVE job'[w].sub = {}
        BY <1>1, <2>5 DEF AssignCancel, Begin, Idle
    <2> QED BY <1>2, <2>1, <2>2, <2>3, <2>4, <2>5 DEF Request
<1>3. ASSUME Step(w) PROVE job'[w].sub \subseteq job[w].sub \/ \E u : job'[w].sub = Lapsed(subs, u, now)
    <2>1. CASE GrantLock(w)
        BY <1>1, <2>1 DEF GrantLock, Job
    <2>2. CASE ExpireSave(w)
        <3> DEFINE next == [job[w] EXCEPT !.pc = "reuse", !.sub = {}]
        <3>1. next.sub = {} /\ job'[w] = IF job[w].op = "create" THEN next ELSE Idle
            BY <1>1, <2>2 DEF ExpireSave, Job
        <3> HIDE DEF next
        <3> QED BY <1>1, <3>1
    <2>3. CASE PollQuery(w) \/ PollUnknown(w) \/ SaveResult(w) \/ LogCallback(w)
        BY <1>1, <2>3 DEF PollQuery, PollUnknown, SaveResult, LogCallback, Finish, GoTo, Job
    <2>4. CASE GrantSkip(w) \/ GrantRefuse(w) \/ GrantCommit(w) \/ CancelUpdate(w) \/ AssignInsert(w)
        BY <1>1, <2>4 DEF GrantSkip, GrantRefuse, GrantCommit, CancelUpdate, AssignInsert, Finish
    <2>5. CASE CreateReuse(w) \/ CreateFresh(w) \/ CreateCall(w) \/ CreateSave(w)
        BY <1>1, <2>5 DEF CreateReuse, CreateFresh, CreateCall, CreateSave, Job
    <2>6. CASE CreateInsert(w)
        BY <1>1, <2>6 DEF CreateInsert, Job
    <2> QED BY <1>3, <2>1, <2>2, <2>3, <2>4, <2>5, <2>6 DEF Step
<1>4. ASSUME Fail(w) \/ CallLost(w) PROVE job'[w].sub = {}
    BY <1>1, <1>4 DEF Fail, CallLost
<1> QED BY <1>2, <1>3, <1>4, OwnSteps

LEMMA LapsedStep == ASSUME IInv, LapsedOK, [Next]_vars PROVE LapsedOK'
<1> SUFFICES ASSUME NEW w \in Workers, NEW i \in job'[w].sub
             PROVE  i \in DOMAIN subs' /\ IsExpired(subs'[i], now')
    BY DEF LapsedOK
<1>1. i \in DOMAIN subs /\ IsExpired(subs[i], now)
    BY LapsedTaken DEF LapsedOK, Lapsed, LatestActive, ActiveRows
<1>2. i \in DOMAIN subs' /\ subs'[i].exp = subs[i].exp /\ subs[i] \in Subscription
    BY <1>1, RowsStay
<1>3. now \in Nat /\ now' \in Nat /\ now <= now'
    <2>1. now \in Nat /\ now' \in Nat
        BY NextInv DEF IInv, TypeOK
    <2> QED BY <2>1, ClockSteps
<1> QED BY <1>1, <1>2, <1>3 DEF IsExpired, Subscription, Times, NoTime

\* The expiry a transaction holds is one its order may give at this instant.
CommitOK ==
    \A w \in Workers : job[w].pc = "commit" =>
        job[w].exp \in Ledger!Ends(job[w].row, Entitled(subs, job[w].row.user, now), now)

LEMMA CommitStep ==
    ASSUME IInv, PlansApart, PlansApart', OneActiveSubscription, LapsedOK, CommitOK, [Next]_vars
    PROVE  CommitOK'
<1> SUFFICES ASSUME NEW w \in Workers, job'[w].pc = "commit"
             PROVE  job'[w].exp \in Ledger!Ends(job'[w].row, Entitled(subs', job'[w].row.user, now'), now')
    BY DEF CommitOK
<1>1. Idle.pc = "idle" /\ job \in [Workers -> Job]
    BY DEF Idle, IInv, TypeOK
<1>2. CASE job'[w] = job[w]
    <2> DEFINE row == job[w].row
    <2>1. row.user \in Users /\ job[w].pc = "commit" /\ row \in OrderRow
        BY <1>2, JobFacts DEF JobOK, OrderSteps, Job
    <2>2. ASSUME NEW v \in Workers, GrantCommit(v) \/ AssignInsert(v)
          PROVE  job[v].row.user # row.user
        <3>1. v # w
            BY <1>1, <1>2, <2>1, <2>2 DEF GrantCommit, AssignInsert, Finish
        <3>2. job[v].pc \in {"assign", "commit"}
            BY <2>2 DEF GrantCommit, AssignInsert
        <3> QED BY <2>1, <3>1, <3>2 DEF PlansApart
    <2>3. ASSUME NEW v \in Workers, NEW p \in Plans, NEW e \in AdminExpiries, AssignCancel(v, row.user, p, e)
          PROVE  FALSE
        <3>1. v # w
            BY <1>1, <2>1, <2>3 DEF AssignCancel, Begin
        <3>2. job'[v].pc = "assign" /\ job'[v].row.user = row.user
            BY <1>1, <2>3 DEF AssignCancel, Begin, Idle, NoRow
        <3> QED BY <1>2, <2>1, <3>1, <3>2 DEF PlansApart
    <2>4. Entitled(subs', row.user, now') = Ledger!Left(Entitled(subs, row.user, now), now')
        BY <2>1, <2>2, <2>3, PlanLeft
    <2>5. now \in Nat /\ now' \in Nat /\ now <= now' /\ CurrentExpiry(subs, row.user, now) \in Times
        <3>1. now \in Nat /\ now' \in Nat /\ CurrentExpiry(subs, row.user, now) \in Times
            BY NextInv, CurrentTyped DEF IInv, TypeOK
        <3> QED BY <3>1, ClockSteps
    <2>6. job[w].exp \in Ledger!Ends(row, Entitled(subs, row.user, now), now)
        BY <2>1 DEF CommitOK
    <2>7. row.mode \in Modes /\ row.months \in Nat
        BY <2>1 DEF OrderRow
    <2> HIDE DEF row
    <2>8. job[w].exp \in Ledger!Ends(row, Ledger!Left(Entitled(subs, row.user, now), now'), now')
        BY <2>5, <2>6, <2>7, EndsLast DEF Entitled
    <2> QED BY <1>2, <2>4, <2>8 DEF row
<1>3. CASE job'[w] # job[w]
    <2>1. GrantLock(w)
        BY <1>1, <1>3, LockTaken, CommitKept
    <2> DEFINE row == orders[job[w].o]
               e == Entitled(subs, row.user, now)
    <2>2. row \in OrderRow /\ now \in Nat
        <3>1. job[w].o \in Orders
            BY <2>1, JobFacts DEF GrantLock, JobOK, OrderSteps
        <3> QED BY <3>1, JobFacts
    <2>3. /\ job'[w].row = row /\ job'[w].exp = GrantExpiry(row, subs, now)
          /\ subs' = subs /\ now' = now
        BY <1>1, <2>1 DEF GrantLock, Job, tables, bounds
    <2>4. e.plan = CurrentPlan(subs, row.user, now) /\ e.until = CurrentExpiry(subs, row.user, now)
        BY DEF Entitled
    <2>5. row.mode \in Modes /\ row.months \in Nat /\ Month \in Nat /\ now \in 0..now
        BY <2>2, TimeAssumption DEF OrderRow
    <2> HIDE DEF row, e
    <2>6. GrantExpiry(row, subs, now) \in Ledger!Ends(row, e, now)
        BY <2>4, <2>5 DEF GrantExpiry, GrantBase, Ledger!Ends, Modes
    <2> QED BY <2>3, <2>6 DEF e
<1> QED BY <1>2, <1>3

\* What is known of every state while requests are apart.
LedgerInv ==
    /\ IInv /\ Cleared /\ OneActiveSubscription /\ GrantStamped /\ LapsedOK /\ CommitOK

\* The steps that are the ledger's, one by one: an order inserted ...
LEMMA OpenStep ==
    ASSUME LedgerInv, OrdersApart, PlansApart, [Next]_vars, NEW w \in Workers, CreateInsert(w)
    PROVE  \E o \in Orders : Ledger!Open(o)
<1> DEFINE row == [job[w].row EXCEPT !.expires = now + OrderTTL,
                                     !.id = Cardinality(Orders \ Unborn) + 1]
<1>1. IInv /\ Step(w) /\ OneActiveSubscription /\ LapsedOK /\ GrantStamped
    BY DEF LedgerInv, Step
<1>2. PICK o \in Unborn : /\ orders' = [orders EXCEPT ![o] = row]
                          /\ job' = [job EXCEPT ![w].pc = "call", ![w].o = o, ![w].row = row]
    BY DEF CreateInsert
<1>3. /\ job[w].row \in OrderRow /\ job[w].row.user \in Users /\ ~job[w].row.granted
      /\ job[w].op = "create" /\ job[w].row.status = "pending" /\ job[w] \in Job
    BY <1>1, JobFacts DEF CreateInsert, JobOK, CreateSteps, Job
<1>4. row.user \in Users /\ ~row.granted /\ row.status = "pending"
    BY <1>3 DEF OrderRow
<1> HIDE DEF row
<1>5. o \in Orders /\ orders \in [Orders -> OrderRow]
        /\ orders'[o] = row /\ \A q \in Orders : q # o => orders'[q] = orders[q]
    BY <1>1, <1>2 DEF Unborn, IInv, TypeOK
<1>6. Unborn' = Unborn \ {o}
    BY <1>4, <1>5 DEF Unborn
<1>7. UNCHANGED <<subs, now, prov>>
    BY DEF CreateInsert, provider, bounds
<1>8. DOMAIN Bills = Orders \ Unborn /\ DOMAIN Bills' = (Orders \ Unborn) \cup {o}
    BY <1>2, <1>5, <1>6 DEF Bills
<1>9. \A q \in Orders \ Unborn : Bills'[q] = Bills[q]
    BY <1>2, <1>5, <1>6, <1>7 DEF Bills, PaidAt
<1>10. Bills'[o].terms.user \in Users /\ ~Bills'[o].paid /\ ~Bills'[o].granted
    <2>1. ~PaidAt(o)'
        BY <1>1, <1>2, <1>5, <1>7 DEF IInv, CopiesAgree, OrdersOK, Unborn, Born, PaidAt, Paid
    <2>2. Bills'[o] = Bill(row, PaidAt(o)')
        BY <1>5, <1>6 DEF Bills
    <2> QED BY <1>4, <2>1, <2>2 DEF Bill
<1>11. Bills' = [q \in DOMAIN Bills' |-> IF q = o THEN Bills'[o] ELSE Bills[q]]
    <2>1. Bills' = [q \in Orders \ Unborn' |-> Bills'[q]]
        BY DEF Bills
    <2> QED BY <1>6, <1>8, <1>9, <2>1, <1>2, <1>5
<1>12. UNCHANGED <<Entitlements, now>>
    BY <1>7 DEF Entitlements
<1>13. UNCHANGED <<Regranting, Assigning>>
    <2>1. /\ RegrantsFor(job[w]) = {} /\ AssignsTo(job[w]) = {} /\ AssignsTo(job'[w]) = {}
        BY <1>1, <1>3, JobGoesOn DEF RegrantsFor, AssignsTo, CreateInsert
    <2>2. RegrantsFor(job'[w]) = {}
        BY <1>1, <2>1, JobGoesOn, IdleAsks
    <2> QED BY <1>1, <2>1, <2>2, AskedStep
<1> QED BY <1>2, <1>5, <1>8, <1>10, <1>11, <1>12, <1>13 DEF Ledger!Open, Unborn

\* ... money taken ...
LEMMA CollectStep ==
    ASSUME LedgerInv, OrdersApart, [Next]_vars, NEW o \in Orders, Pay(o)
    PROVE  o \in DOMAIN Bills /\ Ledger!Collect(o)
<1>1. IInv
    BY DEF LedgerInv
<1>2. /\ UNCHANGED <<orders, subs, job, now>>
      /\ prov \in [Orders -> ProviderCodes] /\ prov' = [prov EXCEPT ![o] = "OD"] /\ prov[o] = "WP"
    BY <1>1 DEF Pay, tables, bounds, IInv, TypeOK
<1>3. Unborn' = Unborn /\ o \notin Unborn
    BY <1>1, <1>2 DEF Unborn, IInv, CopiesAgree, OrdersOK, Born
<1>4. PaidAt(o)' = TRUE /\ \A q \in Orders : q # o => PaidAt(q)' = PaidAt(q)
    BY <1>2 DEF PaidAt, Paid
<1>5. DOMAIN Bills = Orders \ Unborn /\ DOMAIN Bills' = Orders \ Unborn
    BY <1>3 DEF Bills
<1>6. \A q \in Orders \ Unborn : Bills'[q] = IF q = o THEN [Bills[q] EXCEPT !.paid = TRUE] ELSE Bills[q]
    BY <1>2, <1>3, <1>4 DEF Bills, Bill
<1>7. Bills' = [Bills EXCEPT ![o].paid = TRUE]
    <2>1. Bills' = [q \in Orders \ Unborn |-> Bills'[q]]
        BY <1>3 DEF Bills
    <2>2. \A q \in Orders \ Unborn : Bills'[q] = [Bills EXCEPT ![o].paid = TRUE][q]
        BY <1>5, <1>6
    <2>3. [Bills EXCEPT ![o].paid = TRUE] = [q \in Orders \ Unborn |-> [Bills EXCEPT ![o].paid = TRUE][q]]
        BY <1>5
    <2> QED BY <2>1, <2>2, <2>3
<1>8. UNCHANGED <<Entitlements, Regranting, Assigning, now>>
    BY <1>2 DEF Entitlements, Regranting, Assigning
<1> QED BY <1>3, <1>5, <1>7, <1>8 DEF Ledger!Collect

\* The write of granted_at changes one column of the bill.
LEMMA BillGranted ==
    ASSUME NEW r \in OrderRow, NEW m
    PROVE  Bill([r EXCEPT !.granted = TRUE], m) = [Bill(r, m) EXCEPT !.granted = TRUE]
<1> DEFINE n == [r EXCEPT !.granted = TRUE]
           terms(q) == [user |-> q.user, plan |-> q.plan, mode |-> q.mode,
                        months |-> q.months, base |-> q.base]
<1>1. /\ n.user = r.user /\ n.plan = r.plan /\ n.mode = r.mode /\ n.months = r.months
      /\ n.base = r.base /\ n.granted = TRUE
    BY DEF OrderRow
<1> HIDE DEF n
<1>2. terms(n) = terms(r)
    BY <1>1
<1>3. \A q : Bill(q, m) = [terms |-> terms(q), paid |-> m, granted |-> q.granted]
    BY DEF Bill
<1> HIDE DEF terms
<1>4. Bill(n, m) = [terms |-> terms(r), paid |-> m, granted |-> TRUE]
    BY <1>1, <1>2, <1>3
<1>5. [[terms |-> terms(r), paid |-> m, granted |-> r.granted] EXCEPT !.granted = TRUE]
        = [terms |-> terms(r), paid |-> m, granted |-> TRUE]
    <2>1. \A a, g, h : [[terms |-> a, paid |-> m, granted |-> g] EXCEPT !.granted = h]
                        = [terms |-> a, paid |-> m, granted |-> h]
        OBVIOUS
    <2> QED BY <2>1, Zenon
<1>6. Bill(n, m) = [Bill(r, m) EXCEPT !.granted = TRUE]
    BY <1>3, <1>4, <1>5
<1> QED BY <1>6 DEF n

\* ... a plan granted with its order's granted_at ...
LEMMA GrantStep ==
    ASSUME LedgerInv, OrdersApart, PlansApart, OneActiveSubscription', [Next]_vars,
           NEW w \in Workers, GrantCommit(w)
    PROVE  job[w].o \in DOMAIN Bills /\ Ledger!Grant(job[w].o)
<1> DEFINE j == job[w]
           o == job[w].o
           u == job[w].row.user
           row == orders[job[w].o]
           x == [plan |-> job[w].row.plan, until |-> job[w].exp]
<1>1. IInv /\ IInv' /\ Step(w) /\ OneActiveSubscription /\ GrantStamped /\ CommitOK /\ LapsedOK
    BY NextInv DEF LedgerInv, Step
<1>2. /\ j \in Job /\ j.pc = "commit" /\ o \in Orders /\ Born(row) /\ SameOrder(j.row, row)
      /\ u \in Users /\ PaidAt(o) /\ j.row \in OrderRow /\ row \in OrderRow
    BY <1>1, JobFacts DEF GrantCommit, JobOK, OrderSteps, PaidAt, Job
<1>3. /\ orders' = [orders EXCEPT ![o].granted = TRUE] /\ job' = [job EXCEPT ![w] = Idle]
      /\ UNCHANGED <<prov, now>> /\ orders \in [Orders -> OrderRow] /\ job \in [Workers -> Job]
    BY <1>1 DEF GrantCommit, Finish, bounds, IInv, TypeOK
<1>4. Unborn' = Unborn /\ o \notin Unborn
    BY <1>2, <1>3 DEF Unborn, Born, OrderRow
<1>5. DOMAIN Bills = Orders \ Unborn /\ DOMAIN Bills' = Orders \ Unborn /\ Bills[o] = Bill(row, PaidAt(o))
    BY <1>2, <1>4 DEF Bills
<1>6. Bills' = [Bills EXCEPT ![o].granted = TRUE]
    <2>1. \A q \in Orders \ Unborn : q # o => Bills'[q] = Bills[q]
        BY <1>3, <1>4 DEF Bills, PaidAt
    <2>2. Bills'[o] = [Bills[o] EXCEPT !.granted = TRUE]
        <3>1. orders'[o] = [row EXCEPT !.granted = TRUE]
            BY <1>2, <1>3
        <3>3. Bills'[o] = Bill(orders'[o], PaidAt(o))
            BY <1>2, <1>3, <1>4 DEF Bills, PaidAt
        <3>2. Bill([row EXCEPT !.granted = TRUE], PaidAt(o)) = [Bill(row, PaidAt(o)) EXCEPT !.granted = TRUE]
            BY <1>2, BillGranted
        <3> HIDE DEF row, o
        <3> QED BY <1>5, <3>1, <3>2, <3>3, Zenon
    <2>3. Bills' = [q \in Orders \ Unborn |-> Bills'[q]]
        BY <1>4 DEF Bills
    <2>4. [Bills EXCEPT ![o].granted = TRUE] = [q \in Orders \ Unborn |-> [Bills EXCEPT ![o].granted = TRUE][q]]
        BY <1>5
    <2>5. \A q \in Orders \ Unborn : Bills'[q] = [Bills EXCEPT ![o].granted = TRUE][q]
        BY <1>5, <2>1, <2>2
    <2> QED BY <2>3, <2>4, <2>5
<1>7. /\ Bills[o].paid /\ Bills[o].terms.user = u /\ Bills[o].terms.plan = j.row.plan
      /\ Bills[o].granted = row.granted /\ Bills[o].terms.mode = j.row.mode
      /\ Bills[o].terms.months = j.row.months /\ Bills[o].terms.base = j.row.base
    BY <1>2, <1>5 DEF Bill, SameOrder, SamePurchase
<1>8. row.granted => o \in Regranting
    BY <1>1, <1>2 DEF GrantStamped, Regranting
<1>9. Regranting' = Regranting \ {o} /\ UNCHANGED Assigning
    <2>1. /\ Regranting' = Regranting \ RegrantsFor(j)
          /\ Assigning' = Assigning \ AssignsTo(j)
          /\ \A v \in Workers : v # w => o \notin RegrantsFor(job[v])
        BY <1>1, <1>2, <1>3, IdleAsks, AskedStep
    <2>2. AssignsTo(j) = {}
        BY <1>2 DEF AssignsTo
    <2>3. RegrantsFor(j) = {o} \/ (RegrantsFor(j) = {} /\ o \notin Regranting)
        BY <1>2, <2>1 DEF RegrantsFor, Regranting
    <2> QED BY <2>1, <2>2, <2>3
<1>10. j.exp \in Ledger!Ends(Bills[o].terms, Entitlements[u], now)
    <2>1. j.exp \in Ledger!Ends(j.row, Entitled(subs, u, now), now)
        BY <1>1, <1>2 DEF CommitOK
    <2>2. Entitlements[u] = Entitled(subs, u, now)
        BY <1>2 DEF Entitlements
    <2>3. \A p : Ledger!Ends(Bills[o].terms, p, now) = Ledger!Ends(j.row, p, now)
        <3> HIDE DEF o, j
        <3> QED BY <1>7 DEF Ledger!Ends
    <2> QED BY <2>1, <2>2, <2>3
<1>11. Entitled(subs', u, now) = Ledger!Left(x, now)
    <2>1. PICK i \in DOMAIN subs' :
            /\ subs'[i].user = u /\ subs'[i].status = "active"
            /\ subs'[i].plan = job[w].row.plan /\ subs'[i].exp = job[w].exp
        <3> DEFINE by == IF job[w].op = "regrant" THEN "regrant" ELSE "grant"
                   n == NewSubscription(u, job[w].row.plan, job[w].exp, o, by)
                   s == Expire(subs, job[w].sub)
                   c == CancelActive(s, u)
        <3>1. subs' = Append(c, n)
            BY DEF GrantCommit
        <3>2. n.user = u /\ n.status = "active" /\ n.plan = job[w].row.plan /\ n.exp = job[w].exp
            BY DEF NewSubscription
        <3>3. c \in Seq(Subscription)
            BY <1>1, TableTyped DEF IInv, TypeOK
        <3> HIDE DEF c, n
        <3>4. Len(c) + 1 \in DOMAIN subs' /\ subs'[Len(c) + 1] = n
            BY <3>1, <3>3
        <3> QED BY <3>2, <3>4
    <2>4. i \in ActiveRows(subs', u) /\ \A k \in ActiveRows(subs', u) : k = i
        BY <1>2, <2>1 DEF ActiveRows, OneActiveSubscription
    <2>5. subs' \in Seq(Subscription) /\ now \in Nat
        BY <1>1 DEF IInv, TypeOK
    <2> QED BY <2>1, <2>4, <2>5, OneRowEntitles
<1>12. \A v \in Users : v # u => Entitled(subs', v, now') = Entitled(subs, v, now)
    <2> SUFFICES ASSUME NEW v \in Users, v # u PROVE Entitled(subs', v, now') = Entitled(subs, v, now)
        OBVIOUS
    <2>1. ASSUME NEW z \in Workers, GrantCommit(z) \/ AssignInsert(z) PROVE z = w
        <3>1. job'[z] = Idle /\ job[z].pc \in {"commit", "assign"}
            BY <1>3, <2>1 DEF GrantCommit, AssignInsert, Finish
        <3> QED BY <1>3, <3>1 DEF Idle
    <2>2. ASSUME NEW z \in Workers, NEW p \in Plans, NEW e \in AdminExpiries, AssignCancel(z, v, p, e)
          PROVE  FALSE
        <3>1. job'[z].pc = "assign" /\ job[z] = Idle
            BY <1>3, <2>2 DEF AssignCancel, Begin, Idle
        <3> QED BY <1>3, <3>1 DEF Idle
    <2> QED BY <1>1, <1>3, <2>1, <2>2, PlanLeft
<1>13. Entitlements' = [Entitlements EXCEPT ![u] = Ledger!Left(x, now)]
    BY <1>2, <1>3, <1>11, <1>12 DEF Entitlements
<1> HIDE DEF j, o, u, row, x
<1>14. Ledger!Left([plan |-> Bills[o].terms.plan, until |-> j.exp], now) = Ledger!Left(x, now)
    BY <1>7 DEF x, j
<1>15. UNCHANGED now
    BY <1>3
<1> QED BY <1>4, <1>5, <1>6, <1>7, <1>8, <1>9, <1>10, <1>13, <1>14, <1>15, <1>2 DEF Ledger!Grant, o

\* ... a plan an administrator assigned ...
LEMMA AssignStep ==
    ASSUME LedgerInv, OrdersApart, PlansApart, [Next]_vars, NEW w \in Workers, AssignInsert(w)
    PROVE  \E u \in Users : Ledger!Assign(u)
<1> DEFINE u == job[w].row.user
<1>1. /\ IInv /\ IInv' /\ Step(w) /\ OneActiveSubscription /\ GrantStamped /\ LapsedOK /\ Cleared
    BY NextInv DEF LedgerInv, Step
<1>2. /\ job[w] \in Job /\ job[w].pc = "assign" /\ u \in Users /\ job \in [Workers -> Job]
      /\ job' = [job EXCEPT ![w] = Idle] /\ UNCHANGED <<orders, prov, now>>
    BY <1>1, JobFacts DEF AssignInsert, JobOK, IInv, TypeOK, provider, bounds
<1>3. u \in Assigning /\ Assigning' = Assigning \ {u} /\ UNCHANGED Regranting
    <2>1. RegrantsFor(job[w]) = {} /\ AssignsTo(job[w]) = {u}
        BY <1>1, <1>2, JobFacts, NoOrderAssumption DEF RegrantsFor, AssignsTo, JobOK
    <2> QED BY <1>1, <1>2, <2>1, IdleAsks, AskedStep
<1>4. Entitlements[u] = Ledger!Free
    BY <1>1, <1>2, NoRowEntitles DEF Cleared, Entitlements, IInv, TypeOK
<1>5. \A v \in Users : v # u => Entitled(subs', v, now') = Entitled(subs, v, now)
    <2> SUFFICES ASSUME NEW v \in Users, v # u PROVE Entitled(subs', v, now') = Entitled(subs, v, now)
        OBVIOUS
    <2>1. ASSUME NEW z \in Workers, GrantCommit(z) \/ AssignInsert(z) PROVE z = w
        <3>1. job'[z] = Idle /\ job[z].pc \in {"commit", "assign"}
            BY <1>2, <2>1 DEF GrantCommit, AssignInsert, Finish
        <3> QED BY <1>2, <3>1 DEF Idle
    <2>2. ASSUME NEW z \in Workers, NEW p \in Plans, NEW e \in AdminExpiries, AssignCancel(z, v, p, e)
          PROVE  FALSE
        <3>1. job'[z].pc = "assign" /\ job[z] = Idle
            BY <1>2, <2>2 DEF AssignCancel, Begin, Idle
        <3> QED BY <1>2, <3>1 DEF Idle
    <2> QED BY <1>1, <1>2, <2>1, <2>2, PlanLeft
<1>6. Entitlements' = [Entitlements EXCEPT ![u] = Entitlements'[u]]
    BY <1>2, <1>5 DEF Entitlements
<1>7. Entitlements'[u].plan \in Plans
    <2>1. subs' \in Seq(Subscription)
        BY <1>1 DEF IInv, TypeOK
    <2>2. Entitlements'[u] = Entitled(subs', u, now')
        BY <1>2 DEF Entitlements
    <2>3. CurrentPlan(subs', u, now') \in Plans
        BY <2>1, CurrentTyped
    <2> QED BY <2>2, <2>3 DEF Entitled
<1>8. UNCHANGED <<Bills, now>>
    BY <1>2 DEF Bills, Unborn, PaidAt
<1> HIDE DEF u
<1> QED BY <1>2, <1>3, <1>4, <1>6, <1>7, <1>8 DEF Ledger!Assign, u

\* ... and the first half of that, which takes the former plan away.
LEMMA RevokeStep ==
    ASSUME LedgerInv, OrdersApart, PlansApart, [Next]_vars, NEW w \in Workers,
           NEW u \in Users, NEW p \in Plans, NEW e \in AdminExpiries, AssignCancel(w, u, p, e)
    PROVE  Ledger!Revoke(u)
<1>1. /\ IInv /\ IInv' /\ Request(w) /\ OneActiveSubscription /\ GrantStamped /\ LapsedOK
    BY NextInv DEF LedgerInv, Request
<1>2. /\ job[w] = Idle /\ job \in [Workers -> Job] /\ UNCHANGED <<orders, prov, now>>
      /\ job' = [job EXCEPT ![w] = job'[w]]
      /\ job'[w].pc = "assign" /\ job'[w].op = "assign" /\ job'[w].row.user = u
    BY <1>1 DEF AssignCancel, Begin, Idle, NoRow, IInv, TypeOK, provider
<1>3. Assigning' = Assigning \cup {u} /\ UNCHANGED Regranting
    <2>1. RegrantsFor(job'[w]) = {} /\ AssignsTo(job'[w]) = {u}
        BY <1>2 DEF RegrantsFor, AssignsTo
    <2> QED BY <1>1, <1>2, <2>1, IdleAsks, AskedStep
<1>4. Entitled(subs', u, now') = Ledger!Free
    <2>1. ActiveRows(subs', job'[w].row.user) = {}
        BY <1>1, <1>2, AssignClears DEF Idle
    <2> QED BY <1>1, <1>2, <2>1, NoRowEntitles DEF IInv, TypeOK
<1>5. \A v \in Users : v # u => Entitled(subs', v, now') = Entitled(subs, v, now)
    <2> SUFFICES ASSUME NEW v \in Users, v # u PROVE Entitled(subs', v, now') = Entitled(subs, v, now)
        OBVIOUS
    <2>1. ASSUME NEW z \in Workers, GrantCommit(z) \/ AssignInsert(z) PROVE FALSE
        <3>1. job'[z] = Idle /\ job[z].pc \in {"commit", "assign"}
            BY <1>1, <1>2, <2>1 DEF GrantCommit, AssignInsert, Finish, IInv, TypeOK
        <3>2. z # w
            BY <1>2, <3>1 DEF Idle
        <3>3. job'[z] = job[z]
            BY <1>2, <3>2
        <3> QED BY <3>1, <3>3 DEF Idle
    <2>2. ASSUME NEW z \in Workers, NEW q \in Plans, NEW d \in AdminExpiries, AssignCancel(z, v, q, d)
          PROVE  FALSE
        <3>1. job[z] = Idle /\ job'[z].pc = "assign" /\ job'[z].row.user = v
            <4>1. job \in [Workers -> Job]
                BY <1>2
            <4> DEFINE row == [NoRow EXCEPT !.user = v, !.plan = q]
            <4>2. job[z] = Idle /\ job'[z] = [Idle EXCEPT !.op = "assign", !.pc = "assign",
                                                        !.row = row, !.exp = d]
                BY <2>2, <4>1 DEF AssignCancel, Begin
            <4>3. row.user = v
                BY DEF NoRow
            <4> HIDE DEF row
            <4> QED BY <4>2, <4>3 DEF Idle
        <3>2. z # w
            BY <1>2, <3>1
        <3>3. job'[z] = job[z]
            BY <1>2, <3>2
        <3> QED BY <3>1, <3>3 DEF Idle
    <2> QED BY <1>1, <1>2, <2>1, <2>2, PlanLeft
<1>6. Entitlements' = [Entitlements EXCEPT ![u] = Ledger!Free]
    BY <1>2, <1>4, <1>5 DEF Entitlements
<1>7. UNCHANGED <<Bills, now>>
    BY <1>2 DEF Bills, Unborn, PaidAt
<1> QED BY <1>3, <1>6, <1>7 DEF Ledger!Revoke

\* An administrator's regrant is asked for ...
LEMMA AskStep ==
    ASSUME LedgerInv, OrdersApart, PlansApart, NEW w \in Workers, NEW o \in Orders,
           RegrantFind(w, o), RegrantsFor(job'[w]) = {o}, AssignsTo(job'[w]) = {}
    PROVE  o \in DOMAIN Bills /\ Ledger!Ask(o)
<1>1. IInv /\ Request(w) /\ job[w] = Idle /\ OrdersOK(orders, prov)
    BY DEF LedgerInv, Request, RegrantFind, Begin, IInv, CopiesAgree
<1>2. Regranting' = Regranting \cup {o} /\ UNCHANGED Assigning
    BY <1>1, IdleAsks, AskedStep
<1>3. UNCHANGED <<orders, subs, prov, now>> /\ orders[o].status = "paid"
    BY DEF RegrantFind, tables, provider
<1>4. o \in DOMAIN Bills /\ Bills[o].paid
    BY <1>1, <1>3 DEF Bills, Bill, Unborn, PaidAt, OrdersOK
<1>5. UNCHANGED <<Bills, Entitlements, now>>
    BY <1>3 DEF Bills, Entitlements, Unborn, PaidAt
<1> QED BY <1>2, <1>4, <1>5 DEF Ledger!Ask

\* ... and a job that ends, having neither granted nor assigned, gives up what
\* it was asked for.
LEMMA EndsStep ==
    ASSUME LedgerInv, OrdersApart, PlansApart, NEW w \in Workers,
           Step(w) \/ Fail(w) \/ CallLost(w),
           RegrantsFor(job'[w]) = RegrantsFor(job[w]) \/ job'[w] = Idle,
           AssignsTo(job'[w]) = {}, UNCHANGED <<Bills, Entitlements, now>>
    PROVE  [Ledger!LedgerNext]_(Ledger!ledgerVars)
<1>1. IInv /\ job[w] \in Job /\ JobOK(job[w], orders, prov) /\ OrdersOK(orders, prov)
    BY JobFacts DEF LedgerInv
<1>2. /\ Regranting' = (Regranting \ RegrantsFor(job[w])) \cup RegrantsFor(job'[w])
      /\ Assigning' = Assigning \ AssignsTo(job[w])
      /\ RegrantsFor(job[w]) \subseteq Regranting
    BY <1>1, AskedStep
<1>3. CASE AssignsTo(job[w]) # {}
    <2>1. PICK u \in Users : AssignsTo(job[w]) = {u} /\ job[w].pc = "assign"
        BY <1>3 DEF AssignsTo
    <2>2. RegrantsFor(job[w]) = {}
        BY <1>1, <2>1, NoOrderAssumption DEF RegrantsFor, JobOK
    <2>3. Ledger!Abandon(u)
        BY <1>2, <2>1, <2>2, IdleAsks DEF Ledger!Abandon
    <2> QED BY <2>3 DEF Ledger!LedgerNext
<1>4. CASE AssignsTo(job[w]) = {} /\ Regranting' = Regranting
    BY <1>2, <1>4 DEF Ledger!ledgerVars
<1>5. CASE AssignsTo(job[w]) = {} /\ Regranting' # Regranting
    <2>1. job'[w] = Idle /\ RegrantsFor(job[w]) # {}
        BY <1>2, <1>5, IdleAsks
    <2>2. PICK o \in Orders : RegrantsFor(job[w]) = {o} /\ job[w].o = o
        BY <2>1 DEF RegrantsFor
    <2>3. o \in DOMAIN Bills
        BY <1>1, <2>2 DEF JobOK, Born, Bills, Unborn
    <2>4. Ledger!Withdraw(o)
        BY <1>2, <1>5, <2>1, <2>2, IdleAsks DEF Ledger!Withdraw
    <2> QED BY <2>3, <2>4 DEF Ledger!LedgerNext
<1> QED BY <1>3, <1>4, <1>5

\* The clock lets plans lapse.
LEMMA AdvanceStep ==
    ASSUME LedgerInv, OrdersApart, [Next]_vars, Tick
    PROVE  Ledger!Advance
<1>1. /\ IInv /\ OneActiveSubscription /\ LapsedOK
      /\ UNCHANGED <<orders, subs, job, prov>> /\ now' = now + 1
      /\ job \in [Workers -> Job]
    BY DEF LedgerInv, Tick, tables, provider, IInv, TypeOK
<1>2. \A u \in Users : Entitled(subs', u, now') = Ledger!Left(Entitled(subs, u, now), now')
    <2>1. ASSUME NEW w \in Workers, GrantCommit(w) \/ AssignInsert(w) PROVE FALSE
        <3>1. job'[w] = Idle /\ job[w].pc \in {"commit", "assign"}
            BY <1>1, <2>1 DEF GrantCommit, AssignInsert, Finish
        <3> QED BY <1>1, <3>1 DEF Idle
    <2>2. ASSUME NEW w \in Workers, NEW u \in Users, NEW p \in Plans, NEW e \in AdminExpiries,
                 AssignCancel(w, u, p, e)
          PROVE  FALSE
        <3>1. now \in Nat /\ UNCHANGED now
            BY <1>1, <2>2 DEF AssignCancel, IInv, TypeOK
        <3> QED BY <1>1, <3>1
    <2> QED BY <1>1, <2>1, <2>2, PlanLeft
<1>3. Entitlements' = [u \in Users |-> Ledger!Left(Entitlements[u], now')]
    BY <1>2 DEF Entitlements
<1>4. UNCHANGED <<Bills, Regranting, Assigning>>
    BY <1>1 DEF Bills, Unborn, PaidAt, Regranting, Assigning
<1> QED BY <1>1, <1>3, <1>4 DEF Ledger!Advance

\* Steps without a part in the ledger: plans stay what they are.
LEMMA EntitlementsKept ==
    ASSUME LedgerInv, [Next]_vars, now' = now,
           \A w \in Workers : ~GrantCommit(w) /\ ~AssignInsert(w),
           \A w \in Workers, u \in Users, p \in Plans, e \in AdminExpiries : ~AssignCancel(w, u, p, e)
    PROVE  Entitlements' = Entitlements
<1>1. \A u \in Users : Entitled(subs', u, now') = Entitled(subs, u, now)
    BY PlanLeft DEF LedgerInv
<1> QED BY <1>1 DEF Entitlements

\* Every step is a step of the ledger, or none of it.
LEMMA LedgerStep ==
    ASSUME LedgerInv, OrdersApart, PlansApart, OneActiveSubscription', [Next]_vars
    PROVE  [Ledger!LedgerNext]_(Ledger!ledgerVars)
<1>1. /\ IInv /\ job \in [Workers -> Job] /\ OrdersApart /\ GrantStamped
    BY DEF LedgerInv, IInv, TypeOK
<1>2. CASE UNCHANGED vars
    <2>1. UNCHANGED <<Bills, Entitlements, Regranting, Assigning, now>>
        BY <1>2 DEF vars, tables, provider, bounds, Bills, Unborn, PaidAt, Entitlements,
                    Regranting, Assigning
    <2> QED BY <2>1 DEF Ledger!ledgerVars
<1>3. CASE Tick
    BY <1>3, AdvanceStep DEF Ledger!LedgerNext
<1>4. ASSUME NEW o \in Orders, Pay(o) PROVE Ledger!LedgerNext
    <2>1. o \in DOMAIN Bills /\ Ledger!Collect(o)
        BY <1>4, CollectStep
    <2> QED BY <2>1 DEF Ledger!LedgerNext
<1>5. ASSUME NEW o \in Orders, Refund(o) \/ RefundFails(o) \/ Close(o)
      PROVE  UNCHANGED Ledger!ledgerVars
    <2>1. /\ UNCHANGED <<orders, subs, job, now>> /\ prov \in [Orders -> ProviderCodes]
        BY <1>1, <1>5 DEF Refund, RefundFails, Close, tables, bounds, IInv, TypeOK
    <2>2. \A q \in Orders : PaidAt(q)' = PaidAt(q)
        BY <1>5, <2>1 DEF Refund, RefundFails, Close, PaidAt, Paid
    <2>3. UNCHANGED <<Bills, Entitlements, Regranting, Assigning, now>>
        BY <2>1, <2>2 DEF Bills, Unborn, Entitlements, Regranting, Assigning
    <2> QED BY <2>3 DEF Ledger!ledgerVars
<1>6. ASSUME NEW w \in Workers, Request(w) PROVE [Ledger!LedgerNext]_(Ledger!ledgerVars)
    <2>1. ASSUME NEW o \in Orders, RegrantFind(w, o), RegrantsFor(job'[w]) = {o},
                 AssignsTo(job'[w]) = {}
          PROVE  Ledger!LedgerNext
        <3>1. o \in DOMAIN Bills /\ Ledger!Ask(o)
            BY <2>1, AskStep
        <3> QED BY <3>1 DEF Ledger!LedgerNext
    <2>2. ASSUME NEW u \in Users, NEW p \in Plans, NEW e \in AdminExpiries, AssignCancel(w, u, p, e)
          PROVE  Ledger!LedgerNext
        <3>1. Ledger!Revoke(u)
            BY <2>2, RevokeStep
        <3> QED BY <3>1 DEF Ledger!LedgerNext
    <2>3. CASE /\ RegrantsFor(job'[w]) = {} /\ AssignsTo(job'[w]) = {}
               /\ UNCHANGED <<orders, subs, prov, now>>
        <3>1. UNCHANGED <<Regranting, Assigning>>
            BY <1>1, <1>6, <2>3, JobBegins, IdleAsks, AskedStep
        <3>2. UNCHANGED <<Bills, Entitlements, now>>
            BY <2>3 DEF Bills, Unborn, PaidAt, Entitlements
        <3> QED BY <3>1, <3>2 DEF Ledger!ledgerVars
    <2> QED BY <1>1, <1>6, <2>1, <2>2, <2>3, JobBegins
<1>7. ASSUME NEW w \in Workers, Step(w) \/ Fail(w) \/ CallLost(w),
             ~GrantCommit(w), ~CreateInsert(w), ~AssignInsert(w)
      PROVE  [Ledger!LedgerNext]_(Ledger!ledgerVars)
    <2>1. /\ AssignsTo(job'[w]) = {}
          /\ RegrantsFor(job'[w]) = RegrantsFor(job[w]) \/ job'[w] = Idle
        <3>1. Fail(w) \/ CallLost(w) => job'[w] = Idle
            BY <1>1 DEF Fail, CallLost
        <3> QED BY <1>1, <1>7, <3>1, JobGoesOn, IdleAsks
    <2>2. UNCHANGED now /\ job[w] # Idle
        BY <1>7 DEF Step, PollQuery, PollUnknown, SaveResult, LogCallback, GrantSkip, GrantRefuse,
            GrantLock, CreateReuse, CreateFresh, CreateCall, CreateSave, CancelUpdate, ExpireSave,
            Fail, CallLost, bounds, Idle
    <2>3. \A v \in Workers : ~GrantCommit(v) /\ ~CreateInsert(v) /\ ~AssignInsert(v)
        <3> SUFFICES ASSUME NEW v \in Workers, GrantCommit(v) \/ CreateInsert(v) \/ AssignInsert(v)
                     PROVE  FALSE
            OBVIOUS
        <3>1. job'[v] = job[v]
            BY <1>1, <1>7, OthersWait
        <3>2. job[v].pc \in {"commit", "insert", "assign"}
            BY DEF GrantCommit, CreateInsert, AssignInsert
        <3>3. CreateInsert(v) => job'[v].pc = "call" /\ job[v].pc = "insert"
            BY <1>1, JobFacts DEF CreateInsert, Job
        <3>4. GrantCommit(v) \/ AssignInsert(v) => job'[v] = Idle
            BY <1>1 DEF GrantCommit, AssignInsert, Finish
        <3> QED BY <3>1, <3>2, <3>3, <3>4 DEF Idle
    <2>4. /\ \A v \in Workers, u \in Users, p \in Plans, e \in AdminExpiries : ~AssignCancel(v, u, p, e)
          /\ \A o \in Orders : ~Pay(o)
        <3>1. ASSUME NEW v \in Workers, NEW u \in Users, NEW p \in Plans, NEW e \in AdminExpiries,
                     AssignCancel(v, u, p, e)
              PROVE  FALSE
            <4>1. job[v] = Idle /\ job'[v].pc = "assign"
                BY <1>1, <3>1 DEF AssignCancel, Begin, Idle
            <4>2. job'[v] = job[v]
                BY <1>1, <1>7, <2>2, <4>1, OthersWait
            <4> QED BY <4>1, <4>2 DEF Idle
        <3>2. ASSUME NEW o \in Orders, Pay(o) PROVE FALSE
            <4>1. prov \in [Orders -> ProviderCodes] /\ prov[o] = "WP" /\ prov'[o] = "OD"
                BY <1>1, <3>2 DEF Pay, IInv, TypeOK
            <4>2. UNCHANGED prov \/ CreateCall(w) \/ CreateSave(w) \/ CallLost(w)
                BY <1>7 DEF Step, PollQuery, PollUnknown, SaveResult, LogCallback, GrantSkip,
                    GrantRefuse, GrantLock, CreateReuse, CreateFresh, CancelUpdate, ExpireSave,
                    Fail, provider
            <4> QED BY <4>1, <4>2 DEF CreateCall, CreateSave, CallLost
        <3> QED BY <3>1, <3>2
    <2>5. UNCHANGED <<Bills, Entitlements, now>>
        BY <1>1, <2>2, <2>3, <2>4, BillsKept, EntitlementsKept
    <2> QED BY <1>7, <2>1, <2>5, EndsStep
<1>8. ASSUME NEW w \in Workers, GrantCommit(w) \/ CreateInsert(w) \/ AssignInsert(w)
      PROVE  Ledger!LedgerNext
    <2>1. CASE GrantCommit(w)
        <3>1. job[w].o \in DOMAIN Bills /\ Ledger!Grant(job[w].o)
            BY <2>1, GrantStep
        <3> QED BY <3>1 DEF Ledger!LedgerNext
    <2>2. CASE CreateInsert(w)
        <3>1. \E o \in Orders : Ledger!Open(o)
            BY <2>2, OpenStep
        <3> QED BY <3>1 DEF Ledger!LedgerNext
    <2>3. CASE AssignInsert(w)
        <3>1. \E u \in Users : Ledger!Assign(u)
            BY <2>3, AssignStep
        <3> QED BY <3>1 DEF Ledger!LedgerNext
    <2> QED BY <1>8, <2>1, <2>2, <2>3
<1> QED BY <1>2, <1>3, <1>4, <1>5, <1>6, <1>7, <1>8 DEF Next

LEMMA LedgerInits == Init => Ledger!LedgerInit
<1> SUFFICES ASSUME Init PROVE Ledger!LedgerInit
    OBVIOUS
<1>1. /\ \A o \in Orders : orders[o].status = "none"
      /\ subs = <<>> /\ now = 0 /\ \A w \in Workers : job[w].op = "none" /\ job[w].pc = "idle"
    BY DEF Init, NoRow, Idle
<1>2. Unborn = Orders
    BY <1>1 DEF Unborn
<1>3. Bills = [o \in {} |-> {}]
    BY <1>2 DEF Bills
<1>4. \A u \in Users : Entitled(subs, u, now) = Ledger!Free
    <2>1. subs \in Seq(Subscription) /\ \A u \in Users : ActiveRows(subs, u) = {}
        BY <1>1 DEF ActiveRows
    <2> QED BY <2>1, NoRowEntitles
<1>5. Entitlements = [u \in Users |-> Ledger!Free] /\ Regranting = {} /\ Assigning = {}
    BY <1>1, <1>4 DEF Entitlements, Regranting, Assigning
<1> QED BY <1>1, <1>3, <1>5 DEF Ledger!LedgerInit

\* The tables keep a ledger: whatever polls, notifications, creates, cancels and
\* an administrator's calls are repeated, reordered, lost or fail half-way, an
\* order is opened, paid for and granted as OrderLedger says and a user's plan
\* is what the last grant or assignment gave, while no two requests are about
\* one order and no two transactions replace one user's plan at a time.
THEOREM KeepsLedger == Spec /\ [](OrdersApart /\ PlansApart) => ImplementsLedger
<1>1. Init => LapsedOK /\ CommitOK /\ GrantStamped /\ Cleared /\ OneActiveSubscription
    BY NoOrderAssumption DEF Init, LapsedOK, CommitOK, GrantStamped, Cleared, OneActiveSubscription,
        ActiveRows, Idle
<1>2. /\ LedgerInv /\ (OrdersApart /\ PlansApart) /\ (OrdersApart /\ PlansApart)' /\ [Next]_vars
      => LedgerInv'
    BY NextInv, ApartAlone, ClearedStep, OneActiveStep, StampedStep, LapsedStep, CommitStep DEF LedgerInv
<1>3. Init => LedgerInv
    BY <1>1, InitInv DEF LedgerInv
<1>4. /\ LedgerInv /\ LedgerInv' /\ (OrdersApart /\ PlansApart) /\ [Next]_vars
      => [Ledger!LedgerNext]_(Ledger!ledgerVars)
    BY LedgerStep DEF LedgerInv
<1> QED BY <1>2, <1>3, <1>4, LedgerInits, PTL DEF Spec, ImplementsLedger, Ledger!LedgerSpec

=============================================================================
