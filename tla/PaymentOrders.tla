--------------------------- MODULE PaymentOrders ---------------------------
(***************************************************************************)
(* Payment orders and the plans they buy: internal/services/               *)
(* payment_service.go with plan_service.go, the handlers that call them    *)
(* and the XunhuPay client.                                                *)
(*                                                                         *)
(* Every HTTP request is a goroutine (a worker).  Between two database     *)
(* statements or provider calls it holds what it has read in memory, so    *)
(* each such statement or call is one action, and job[w] holds the copy.   *)
(* A worker's job may fail at any such point (a database error, a lost     *)
(* connection, a crash of the process).                                    *)
(***************************************************************************)
EXTENDS PlanService

CONSTANTS
    Workers,        \* goroutines that serve requests at the same time
    NoUser,         \* the user of a row that does not exist
    Products,       \* plans with an active payment product
    BillingMonths,  \* billing_months a customer may ask for
    Month,          \* 30 days, in ticks
    OrderTTL,       \* the five minutes a checkout may be reused, in ticks
    AdminExpiries,  \* expires_at values administrators assign
    MaxTime,        \* bound: the last instant of the clock
    MaxSubs,        \* bound: subscription rows
    MaxAdmin,       \* bound: administrator calls (assign, regrant)
    MaxFailures     \* bound: failed jobs

ASSUME NoUserAssumption == NoUser \notin Users
ASSUME OrdersAssumption == IsFiniteSet(Orders)
ASSUME ProductsAssumption == Products \subseteq {"vip1", "vip2"}
ASSUME TimeAssumption ==
    /\ Month \in Nat \ {0} /\ OrderTTL \in Nat \ {0}
    /\ BillingMonths \subseteq Nat \ {0} /\ AdminExpiries \subseteq Times
ASSUME BoundAssumption ==
    MaxTime \in Nat /\ MaxSubs \in Nat /\ MaxAdmin \in Nat /\ MaxFailures \in Nat

VARIABLES
    orders,     \* payment_orders
    subs,       \* user_subscriptions
    callbacks,  \* payment_callbacks: what was logged
    job,        \* what each worker is doing, and its copy of what it read
    prov,       \* the provider: state of each order
    sent,       \* the provider: notifications it has sent
    acked,      \* the provider: notifications answered "success"
    now,        \* the clock
    adminCalls, failures

tables   == <<orders, subs, callbacks>>
provider == <<prov, sent, acked>>
bounds   == <<now, adminCalls, failures>>
vars     == <<tables, job, provider, bounds>>

-----------------------------------------------------------------------------
(***************************************************************************)
(* Rows and quotes                                                         *)
(***************************************************************************)
Modes == {"standard", "upgrade_diff_all", "upgrade_replace_month"}
OrderStatuses == {"pending", "paid", "closed", "failed", "refunded"}

\* A payment_orders row; the duration of a standard order is months * Month.
\* "granted" is granted_at # nil, "code" that the payload holds a QR code.
OrderRow == [id : Nat, user : Users \cup {NoUser}, plan : Plans, mode : Modes, months : Nat,
             base : Times, expires : Times, status : OrderStatuses \cup {"none"},
             granted : BOOLEAN, code : BOOLEAN]

NoRow == [id |-> 0, user |-> NoUser, plan |-> "free", mode |-> "standard", months |-> 0,
          base |-> NoTime, expires |-> NoTime, status |-> "none",
          granted |-> FALSE, code |-> FALSE]

\* remainingBillingMonths: the months that start at t or later and before e.
RemainingMonths(t, e) == Cardinality({k \in 0..(e - t) : t + k * Month < e})

\* The mode switch of QuoteOrder, for a user on plan cur until exp at time t.
Quotable(cur, exp, p, mode, t) ==
    \/ mode = "upgrade_diff_all" /\ cur = "vip1" /\ p = "vip2" /\ exp > t
    \/ mode = "upgrade_replace_month" /\ cur = "vip1" /\ p = "vip2"
    \/ mode = "standard" /\ ~(cur = "vip2" /\ p = "vip1")

QuotedRow(u, p, mode, m, exp, t) ==
    [NoRow EXCEPT
        !.user = u, !.plan = p, !.mode = mode, !.status = "pending",
        !.months = CASE mode = "upgrade_diff_all"      -> RemainingMonths(t, exp)
                     [] mode = "upgrade_replace_month" -> 1
                     [] mode = "standard"              -> m,
        !.base = IF mode = "upgrade_diff_all" THEN exp ELSE NoTime]

\* The query of findReusablePendingOrder: is row r an open checkout of the
\* purchase that was quoted as row q?
SamePurchase(r, q) ==
    r.user = q.user /\ r.plan = q.plan /\ r.mode = q.mode /\ r.months = q.months

OpenCheckoutLapsed(r, q, t) ==      \* mutant: the expiry test inverted
    SamePurchase(r, q) /\ r.status = "pending" /\ r.expires <= t

OpenCheckout(r, q, t) ==
    SamePurchase(r, q) /\ r.status = "pending" /\ r.expires > t

\* mapXunhuNotifyStatus and mapXunhuQueryStatus
NotifyStatus(c) == CASE c = "OD" -> "paid"
                     [] c \in {"CD", "RD"} -> "refunded"
                     [] c = "UD" -> "failed"
                     [] OTHER -> "pending"

QueryStatusRaw(c) == IF c = "OD" THEN "paid" ELSE c             \* mutant
QueryStatusLax(c) == IF c = "CD" THEN "closed" ELSE "paid"      \* mutant
QueryStatus(c) == CASE c = "OD" -> "paid"
                    [] c = "CD" -> "closed"
                    [] OTHER -> "pending"

\* The expiry grantPlan computes for a locked row at time t, given the user's
\* subscriptions; GrantRefused: the upgrade snapshot has run out.
GrantBaseNow(row, table, t) == t                                \* mutant
GrantBaseAny(row, table, t) ==      \* mutant: the time left of another plan is added
    IF CurrentExpiry(table, row.user, t) > t THEN CurrentExpiry(table, row.user, t) ELSE t
GrantBase(row, table, t) ==
    IF /\ CurrentPlan(table, row.user, t) = row.plan
       /\ CurrentExpiry(table, row.user, t) > t
      THEN CurrentExpiry(table, row.user, t) ELSE t

GrantRefused(row, t) == row.mode = "upgrade_diff_all" /\ ~(row.base > t)

GrantExpiry(row, table, t) ==
    CASE row.mode = "upgrade_diff_all"      -> row.base
      [] row.mode = "upgrade_replace_month" -> t + Month
      [] row.mode = "standard"              -> GrantBase(row, table, t) + row.months * Month

-----------------------------------------------------------------------------
(***************************************************************************)
(* Jobs                                                                    *)
(*   op   the handler                    pc   its next step                *)
(*   o    the order it is about          row  its copy of the order        *)
(*   msg  what the provider told it      sub  the lapsed row it must save*)
(*   exp  the expiry it will grant                                         *)
(***************************************************************************)
Ops == {"none", "notify", "poll", "cancel", "create", "regrant", "assign", "read"}
Steps == {"idle", "query", "save", "log", "lock", "commit", "cancel", "expire",
          "reuse", "insert", "call", "csave", "assign"}
ProviderCodes == {"none", "open", "WP", "OD", "CD", "RD", "UD"}

Job == [op : Ops, pc : Steps, o : Orders \cup {NoOrder}, row : OrderRow,
        msg : ProviderCodes, sub : SUBSET Nat, exp : Times]

Idle == [op |-> "none", pc |-> "idle", o |-> NoOrder, row |-> NoRow,
         msg |-> "none", sub |-> {}, exp |-> NoTime]

\* The row lock of SELECT ... FOR UPDATE: held from the read to the commit.
NeverLocked(o) == FALSE                                         \* mutant
Locked(o) == \E w \in Workers : job[w].pc = "commit" /\ job[w].o = o

\* Room for one more subscription per busy worker.
Room == Len(subs) + Cardinality({w \in Workers : job[w] # Idle}) < MaxSubs

Begin(w, j) == job[w] = Idle /\ job' = [job EXCEPT ![w] = j]

\* A notification handler that ends well answers "success".
Finish(w) ==
    /\ job' = [job EXCEPT ![w] = Idle]
    /\ acked' = IF job[w].op = "notify" THEN acked \cup {<<job[w].o, job[w].msg>>} ELSE acked

GoTo(w, pc) == job' = [job EXCEPT ![w].pc = pc] /\ UNCHANGED acked

Init ==
    /\ orders = [o \in Orders |-> NoRow]
    /\ subs = <<>>
    /\ callbacks = {}
    /\ job = [w \in Workers |-> Idle]
    /\ prov = [o \in Orders |-> "none"]
    /\ sent = {} /\ acked = {}
    /\ now = 0 /\ adminCalls = 0 /\ failures = 0

-----------------------------------------------------------------------------
(***************************************************************************)
(* XunhuPay, the external provider.  An order is "open" once registered    *)
(* and "WP" (waiting for payment) once the customer was shown its QR code; *)
(* OD paid, CD closed unpaid, RD refunded.  Notifications are never        *)
(* removed: they may be delivered late, out of order, repeatedly or never. *)
(***************************************************************************)
Pay(o) ==
    /\ prov[o] = "WP"
    /\ prov' = [prov EXCEPT ![o] = "OD"] /\ sent' = sent \cup {<<o, "OD">>}
    /\ UNCHANGED <<tables, job, acked, bounds>>

Refund(o) ==
    /\ prov[o] = "OD"
    /\ prov' = [prov EXCEPT ![o] = "RD"] /\ sent' = sent \cup {<<o, "RD">>}
    /\ UNCHANGED <<tables, job, acked, bounds>>

RefundFails(o) ==
    /\ prov[o] = "OD"
    /\ sent' = sent \cup {<<o, "UD">>}
    /\ UNCHANGED <<tables, job, prov, acked, bounds>>

Close(o) ==
    /\ prov[o] \in {"open", "WP"}
    /\ prov' = [prov EXCEPT ![o] = "CD"]
    /\ UNCHANGED <<tables, job, sent, acked, bounds>>

-----------------------------------------------------------------------------
(***************************************************************************)
(* POST /pay/notify/xunhu and GET /pay/orders/:orderNo: read the order,    *)
(* take the provider's answer, save the whole row, grant when it became    *)
(* paid.                                                                   *)
(***************************************************************************)
NotifyFind(w, o, c) ==
    /\ <<o, c>> \in sent /\ Room
    /\ Begin(w, [Idle EXCEPT !.op = "notify", !.pc = "save",
                             !.o = o, !.row = orders[o], !.msg = c])
    /\ UNCHANGED <<tables, provider, bounds>>

\* RefreshOrderStatus: a paid order without its grant is granted now, other
\* settled orders are returned as they are, and the rest ask the provider.
PollFindNoRegrant(w, o) ==                                      \* mutant
    /\ orders[o].status \in {"pending", "failed"} /\ Room
    /\ Begin(w, [Idle EXCEPT !.op = "poll", !.pc = "query", !.o = o, !.row = orders[o]])
    /\ UNCHANGED <<tables, provider, bounds>>

PollFind(w, o) ==
    /\ \/ orders[o].status \in {"pending", "failed"}
       \/ orders[o].status = "paid" /\ ~orders[o].granted
    /\ Room
    /\ Begin(w, [Idle EXCEPT !.op = "poll", !.o = o, !.row = orders[o],
                             !.pc = IF orders[o].status = "paid" THEN "lock" ELSE "query"])
    /\ UNCHANGED <<tables, provider, bounds>>

\* QueryOrder; the provider answers an error for an order it does not know.
PollQuery(w) ==
    /\ job[w].pc = "query" /\ prov[job[w].o] # "none"
    /\ job' = [job EXCEPT ![w].pc = "save", ![w].msg = prov[job[w].o]]
    /\ UNCHANGED <<tables, provider, bounds>>

PollUnknown(w) ==
    /\ job[w].pc = "query" /\ prov[job[w].o] = "none"
    /\ job' = [job EXCEPT ![w] = Idle]
    /\ UNCHANGED <<tables, provider, bounds>>

\* applyNotifyResult and applyQueryResult assign the status whatever it was;
\* the new payload holds no QR code.
NewStatus(j) == IF j.op = "notify" THEN NotifyStatus(j.msg) ELSE QueryStatus(j.msg)

SavedRowStamped(j) ==               \* mutant: granted_at set with the status
    [j.row EXCEPT !.status = NewStatus(j), !.code = FALSE, !.granted = (NewStatus(j) = "paid")]
SavedRow(j) == [j.row EXCEPT !.status = NewStatus(j), !.code = FALSE]

BecamePaid(j) == j.row.status # "paid" /\ NewStatus(j) = "paid"

SaveResult(w) ==
    /\ job[w].pc = "save" /\ ~Locked(job[w].o)
    /\ orders' = [orders EXCEPT ![job[w].o] = SavedRow(job[w])]
    /\ IF job[w].op = "notify" THEN GoTo(w, "log")
       ELSE IF BecamePaid(job[w]) THEN GoTo(w, "lock") ELSE Finish(w)
    /\ UNCHANGED <<subs, callbacks, prov, sent, bounds>>

LogCallback(w) ==
    /\ job[w].pc = "log"
    /\ callbacks' = callbacks \cup {<<job[w].o, NewStatus(job[w])>>}
    /\ IF BecamePaid(job[w]) THEN GoTo(w, "lock") ELSE Finish(w)
    /\ UNCHANGED <<orders, subs, prov, sent, bounds>>

-----------------------------------------------------------------------------
(***************************************************************************)
(* grantPlan: one transaction.  GrantLock reads the order FOR UPDATE and   *)
(* the user's subscription; the transaction returns early, is refused, or  *)
(* goes on to commit.  GrantCommit is all it writes.                       *)
(***************************************************************************)
AlwaysGrantable(row, op) == row.status = "paid"                 \* mutant
Grantable(row, op) == row.status = "paid" /\ (row.granted => op = "regrant")

GrantSkip(w) ==
    /\ job[w].pc = "lock" /\ ~Locked(job[w].o)
    /\ ~Grantable(orders[job[w].o], job[w].op)
    /\ Finish(w)
    /\ UNCHANGED <<tables, prov, sent, bounds>>

GrantRefuse(w) ==
    /\ job[w].pc = "lock" /\ ~Locked(job[w].o)
    /\ Grantable(orders[job[w].o], job[w].op) /\ GrantRefused(orders[job[w].o], now)
    /\ job' = [job EXCEPT ![w] = Idle]
    /\ UNCHANGED <<tables, provider, bounds>>

GrantLock(w) ==
    LET row == orders[job[w].o]
    IN /\ job[w].pc = "lock" /\ ~Locked(job[w].o)
       /\ Grantable(row, job[w].op) /\ ~GrantRefused(row, now)
       /\ job' = [job EXCEPT ![w].pc = "commit", ![w].row = row,
                             ![w].sub = Lapsed(subs, row.user, now),
                             ![w].exp = GrantExpiry(row, subs, now)]
       /\ UNCHANGED <<tables, provider, bounds>>

GrantCommit(w) ==
    LET j  == job[w]
        by == IF j.op = "regrant" THEN "regrant" ELSE "grant"
    IN /\ j.pc = "commit"
       /\ subs' = Append(CancelActive(Expire(subs, j.sub), j.row.user),
                         NewSubscription(j.row.user, j.row.plan, j.exp, j.o, by))
       /\ orders' = [orders EXCEPT ![j.o].granted = TRUE]
       /\ Finish(w)
       /\ UNCHANGED <<callbacks, prov, sent, bounds>>

\* POST /admin/pay/orders/:orderNo/regrant
RegrantFind(w, o) ==
    /\ orders[o].status = "paid" /\ adminCalls < MaxAdmin /\ Room
    /\ Begin(w, [Idle EXCEPT !.op = "regrant", !.pc = "lock", !.o = o, !.row = orders[o]])
    /\ adminCalls' = adminCalls + 1
    /\ UNCHANGED <<tables, provider, now, failures>>

-----------------------------------------------------------------------------
(***************************************************************************)
(* POST /pay/orders (CreateOrder) and POST /pay/orders/:orderNo/cancel     *)
(***************************************************************************)
Unborn == {o \in Orders : orders[o].status = "none"}
Creating == {w \in Workers : job[w].op = "create" /\ job[w].o = NoOrder}

\* findReusablePendingOrder looks at the latest open checkout only, and takes
\* it if it has a QR code.
Reusable(q) ==
    LET open == {o \in Orders : OpenCheckout(orders[o], q, now)}
    IN {o \in open : orders[o].code /\ \A p \in open : orders[p].id <= orders[o].id}

\* QuoteOrder, from the plan GetActiveSubscription reports.
CreateQuote(w, u, p, mode, m) ==
    LET cur == CurrentPlan(subs, u, now)
        exp == CurrentExpiry(subs, u, now)
        I   == Lapsed(subs, u, now)
    IN /\ Cardinality(Creating) < Cardinality(Unborn)
       /\ Quotable(cur, exp, p, mode, now)
       /\ Begin(w, [Idle EXCEPT !.op = "create", !.row = QuotedRow(u, p, mode, m, exp, now),
                                !.pc = IF I = {} THEN "reuse" ELSE "expire", !.sub = I])
       /\ UNCHANGED <<tables, provider, bounds>>

\* Either the request ends with the order found ...
CreateReuse(w) ==
    /\ job[w].pc = "reuse"
    /\ Reusable(job[w].row) # {}
    /\ job' = [job EXCEPT ![w] = Idle]
    /\ UNCHANGED <<tables, provider, bounds>>

\* ... or it goes on to insert a new one.
CreateFresh(w) ==
    /\ job[w].pc = "reuse"
    /\ Reusable(job[w].row) = {}
    /\ job' = [job EXCEPT ![w].pc = "insert"]
    /\ UNCHANGED <<tables, provider, bounds>>

CreateInsert(w) ==
    LET row == [job[w].row EXCEPT !.expires = now + OrderTTL,
                                  !.id = Cardinality(Orders \ Unborn) + 1]
    IN /\ job[w].pc = "insert"
       /\ \E o \in Unborn :
            /\ orders' = [orders EXCEPT ![o] = row]
            /\ job' = [job EXCEPT ![w].pc = "call", ![w].o = o, ![w].row = row]
       /\ UNCHANGED <<subs, callbacks, provider, bounds>>

\* The provider's CreateOrder, then applyCreateResult saves the whole row.
CreateCall(w) ==
    /\ job[w].pc = "call"
    /\ prov' = [prov EXCEPT ![job[w].o] = "open"]
    /\ job' = [job EXCEPT ![w].pc = "csave"]
    /\ UNCHANGED <<tables, sent, acked, bounds>>

CreateSave(w) ==
    LET o == job[w].o
    IN /\ job[w].pc = "csave" /\ ~Locked(o)
       /\ orders' = [orders EXCEPT ![o] = [job[w].row EXCEPT !.code = TRUE]]
       /\ prov' = [prov EXCEPT ![o] = IF @ = "open" THEN "WP" ELSE @]
       /\ job' = [job EXCEPT ![w] = Idle]
       /\ UNCHANGED <<subs, callbacks, sent, acked, bounds>>

\* CancelPendingOrder tests the copy and then updates two columns.
CancelFind(w, o) ==
    /\ orders[o].status = "pending"
    /\ Begin(w, [Idle EXCEPT !.op = "cancel", !.pc = "cancel", !.o = o, !.row = orders[o]])
    /\ UNCHANGED <<tables, provider, bounds>>

CancelUpdate(w) ==
    LET o == job[w].o
    IN /\ job[w].pc = "cancel" /\ ~Locked(o)
       /\ orders' = [orders EXCEPT ![o].status = "closed", ![o].expires = now]
       /\ job' = [job EXCEPT ![w] = Idle]
       /\ UNCHANGED <<subs, callbacks, provider, bounds>>

-----------------------------------------------------------------------------
(***************************************************************************)
(* PATCH /admin/users/:id/plan calls AssignPlan outside any transaction,   *)
(* and every request that resolves a user's plan may find it lapsed.       *)
(***************************************************************************)
AssignCancel(w, u, p, e) ==
    /\ adminCalls < MaxAdmin /\ Room
    /\ Begin(w, [Idle EXCEPT !.op = "assign", !.pc = "assign",
                             !.row = [NoRow EXCEPT !.user = u, !.plan = p], !.exp = e])
    /\ subs' = CancelActive(subs, u)
    /\ adminCalls' = adminCalls + 1
    /\ UNCHANGED <<orders, callbacks, provider, now, failures>>

AssignInsert(w) ==
    LET j == job[w]
    IN /\ j.pc = "assign"
       /\ subs' = Append(subs, NewSubscription(j.row.user, j.row.plan, j.exp, NoOrder, "admin"))
       /\ job' = [job EXCEPT ![w] = Idle]
       /\ UNCHANGED <<orders, callbacks, provider, bounds>>

ReadPlan(w, u) ==
    /\ Lapsed(subs, u, now) # {}
    /\ Begin(w, [Idle EXCEPT !.op = "read", !.pc = "expire", !.sub = Lapsed(subs, u, now)])
    /\ UNCHANGED <<tables, provider, bounds>>

ExpireSave(w) ==
    /\ job[w].pc = "expire"
    /\ subs' = Expire(subs, job[w].sub)
    /\ job' = [job EXCEPT ![w] = IF job[w].op = "create"
                                   THEN [job[w] EXCEPT !.pc = "reuse", !.sub = {}] ELSE Idle]
    /\ UNCHANGED <<orders, callbacks, provider, bounds>>

-----------------------------------------------------------------------------
\* A job ends where it stands: an error reply, or a crash.  Its transaction
\* rolls back and its row lock is released.
Fail(w) ==
    /\ job[w] # Idle /\ failures < MaxFailures
    /\ job' = [job EXCEPT ![w] = Idle] /\ failures' = failures + 1
    /\ UNCHANGED <<tables, provider, now, adminCalls>>

\* The provider registered the order but its answer was lost.
CallLost(w) ==
    /\ job[w].pc = "call" /\ failures < MaxFailures
    /\ prov' = [prov EXCEPT ![job[w].o] = "open"]
    /\ job' = [job EXCEPT ![w] = Idle] /\ failures' = failures + 1
    /\ UNCHANGED <<tables, sent, acked, now, adminCalls>>

Tick ==
    /\ now < MaxTime /\ now' = now + 1
    /\ UNCHANGED <<tables, job, provider, adminCalls, failures>>

\* The next step of a job that is under way.
Step(w) ==
    \/ PollQuery(w) \/ PollUnknown(w) \/ SaveResult(w) \/ LogCallback(w)
    \/ GrantSkip(w) \/ GrantRefuse(w) \/ GrantLock(w) \/ GrantCommit(w)
    \/ CreateReuse(w) \/ CreateFresh(w) \/ CreateInsert(w) \/ CreateCall(w) \/ CreateSave(w)
    \/ CancelUpdate(w) \/ AssignInsert(w) \/ ExpireSave(w)

\* The arrival of a request.
Request(w) ==
    \/ \E o \in Orders :
        \/ \E c \in ProviderCodes : NotifyFind(w, o, c)
        \/ PollFind(w, o) \/ CancelFind(w, o) \/ RegrantFind(w, o)
    \/ \E u \in Users :
        \/ ReadPlan(w, u)
        \/ \E p \in Products, mode \in Modes, m \in BillingMonths : CreateQuote(w, u, p, mode, m)
        \/ \E p \in Plans, e \in AdminExpiries : AssignCancel(w, u, p, e)

Next ==
    \/ \E w \in Workers : Request(w) \/ Step(w) \/ Fail(w) \/ CallLost(w)
    \/ \E o \in Orders : Pay(o) \/ Refund(o) \/ RefundFails(o) \/ Close(o)
    \/ Tick

Spec == Init /\ [][Next]_vars

\* A handler runs to its end, a customer keeps polling an order, the provider
\* keeps sending a notification until it is acknowledged.
Progress == \A w \in Workers : WF_vars(Step(w))
Polling == \A o \in Orders : SF_vars(\E w \in Workers : PollFind(w, o))
Redelivery == \A o \in Orders : \A c \in {"OD", "RD", "UD"} :
    SF_vars(<<o, c>> \notin acked /\ \E w \in Workers : NotifyFind(w, o, c))

\* A notification that was answered is sent again finitely often.
SentAgain(o, c) == <<o, c>> \in acked /\ \E w \in Workers : NotifyFind(w, o, c)
Subsiding == \A o \in Orders : \A c \in {"OD", "RD", "UD"} : <>[][~SentAgain(o, c)]_vars

FairSpec == Spec /\ Progress /\ Polling /\ Redelivery /\ Subsiding
NotifySpec == Spec /\ Progress /\ Redelivery

-----------------------------------------------------------------------------
(***************************************************************************)
(* Properties                                                              *)
(***************************************************************************)
\* Every variable has its type: no handler stores a status, a copy or a
\* subscription the models package does not declare.
TypeOK ==
    /\ orders \in [Orders -> OrderRow]
    /\ subs \in Seq(Subscription)
    /\ callbacks \subseteq Orders \X OrderStatuses
    /\ job \in [Workers -> Job]
    /\ prov \in [Orders -> ProviderCodes]
    /\ sent \subseteq Orders \X ProviderCodes
    /\ acked \subseteq Orders \X ProviderCodes
    /\ now \in Nat /\ adminCalls \in Nat /\ failures \in Nat

BoughtBy(i, o) == subs[i].order = o /\ subs[i].by \in {"grant", "regrant"}
Paid(p) == p \in {"OD", "RD"}      \* the provider took the money
PaidAt(o) == Paid(prov[o])

\* Whatever the interleaving of polls, notifications, cancels and failures, a
\* subscription the payment code inserted (grantPlan) belongs to the user of
\* an order the provider took money for, and is of the plan that order bought.
GrantBacked ==
    \A i \in DOMAIN subs : subs[i].by # "admin" =>
        \E o \in Orders :
            /\ subs[i].order = o /\ PaidAt(o)
            /\ subs[i].user = orders[o].user /\ subs[i].plan = orders[o].plan

\* granted_at is never set, in the table or in a copy a handler may save back,
\* without the subscription it stands for: grantPlan's two writes are one
\* transaction, so no failure leaves an order that looks granted but is not.
GrantedHasSubscription ==
    /\ \A o \in Orders : orders[o].granted => \E i \in DOMAIN subs : BoughtBy(i, o)
    /\ \A w \in Workers :
        job[w].row.granted => \E i \in DOMAIN subs : BoughtBy(i, job[w].o)

\* Payment confirmation is idempotent: polls and repeated or reordered
\* notifications grant an order's plan at most once between them.
AtMostOneGrant ==
    \A i, k \in DOMAIN subs :
        subs[i].by = "grant" /\ subs[k].by = "grant" /\ subs[i].order = subs[k].order => i = k

\* A user has at most one active subscription row, as GetActiveSubscription
\* (latest active row) and AssignPlan assume: across grants, the two statements
\* of an administrator's assignment, failures between them and lapsed rows
\* saved late.  It holds while nothing else replaces the user's plan between
\* those two statements, which run outside a transaction.
OneActiveSubscription == \A u \in Users : \A i, k \in ActiveRows(subs, u) : i = k

\* CreateOrder inserts a second checkout of a purchase beside an open one only
\* when the open one's row holds no QR code: because its create failed before
\* it was stored, or because a poll of the pending order saved the provider's
\* answer over it (applyQueryResult).  A checkout whose row holds its
\* code is the purchase's latest order, and the only one whose row does.
Live(o) == orders[o].status = "pending" /\ orders[o].code /\ orders[o].expires > now
OpenCheckoutReused ==
    \A o \in Orders, p \in Orders \ Unborn :
        Live(o) /\ SamePurchase(orders[p], orders[o]) /\ p # o
            => orders[p].id <= orders[o].id /\ ~Live(p)

\* The subscription table is a history: rows are appended, and the writes of
\* AssignPlan and of stale GetActiveSubscription saves never revive a row,
\* return an expired one to canceled, or touch what it granted.
KeepsRows(s, t) ==
    /\ DOMAIN s \subseteq DOMAIN t
    /\ \A i \in DOMAIN s : t[i] = [s[i] EXCEPT !.status = t[i].status] /\ Closes(s[i].status, t[i].status)

SubscriptionsOnlyClose == [][KeepsRows(subs, subs')]_vars

\* The row a step appends to the table, and the order that bought it.
Appended == Len(subs') > Len(subs) /\ subs'[Len(subs')].by # "admin"
NewSub == subs'[Len(subs')]
ItsOrder == orders[NewSub.order]

\* grantPlan inserts a subscription only while the order's row says paid: the
\* row lock keeps a cancel, a refund or a stale save out from check to commit.
GrantOnlyWhilePaid == [][Appended => ItsOrder.status = "paid"]_vars

\* A standard order bought while the same plan is running adds its whole
\* duration to the time that is left (baseTime in grantPlan).
RenewalAddsTime ==
    [][Appended /\ ItsOrder.mode = "standard"
         /\ CurrentPlan(subs, NewSub.user, now) = NewSub.plan
         /\ CurrentExpiry(subs, NewSub.user, now) > now
       => NewSub.exp >= CurrentExpiry(subs, NewSub.user, now) + ItsOrder.months * Month]_vars

\* A payment never downgrades: QuoteOrder rejects Pro for a customer whose
\* current plan is Pro Max ("Pro Max cannot be downgraded to Pro").
NoDowngrade ==
    [][Appended /\ NewSub.plan = "vip1"
       => CurrentPlan(subs, NewSub.user, now) # "vip2"]_vars

\* What the provider was paid for, and does not refund, is granted in the
\* end, whatever overlaps: unless a cancel that had read the order as pending
\* closes it under the handler of the payment's notification, which answers
\* success; and no poll looks at a closed order again.  An upgrade_diff_all
\* order is left out: its snapshot may run out.
Granted(o) == \E i \in DOMAIN subs : BoughtBy(i, o)
ClosedOverPayment(o) == orders[o].status = "closed" /\ <<o, "OD">> \in acked
PaidIsGranted ==
    \A o \in Orders :
        (prov[o] = "OD" /\ orders[o].mode # "upgrade_diff_all")
            ~> (Granted(o) \/ prov[o] # "OD" \/ ClosedOverPayment(o))

\* The same without that exception, as docs/cpcloud-payment-plan.md has it: a
\* verified payment upgrades the plan.  CancelPendingOrder violates it.
PaymentUpgrades ==
    \A o \in Orders :
        (prov[o] = "OD" /\ orders[o].mode # "upgrade_diff_all")
            ~> (Granted(o) \/ prov[o] # "OD")

-----------------------------------------------------------------------------
(***************************************************************************)
(* How far requests are apart.  The properties that some overlap breaks    *)
(* are claimed of behaviours that keep one of these apart.                 *)
(***************************************************************************)
\* No two requests are about one order at a time.
OrdersApart ==
    \A v, w \in Workers : v # w /\ job[v].o \in Orders => job[v].o # job[w].o

\* No two transactions or assignments replace one user's plan at a time.
PlansApart ==
    \A v, w \in Workers :
        v # w /\ {job[v].pc, job[w].pc} \subseteq {"commit", "assign"}
            => job[v].row.user # job[w].row.user

\* None replaces the plan of a user whom an administrator is assigning one.
AssignsAlone ==
    \A v, w \in Workers :
        v # w /\ job[v].pc = "assign" /\ job[w].pc \in {"assign", "commit"}
            => job[v].row.user # job[w].row.user

\* A customer sends one create request at a time.
CreatesApart ==
    \A v, w \in Workers :
        v # w /\ job[v].op = "create" /\ job[w].op = "create" => job[v].row.user # job[w].row.user

-----------------------------------------------------------------------------
(***************************************************************************)
(* The ledger that the tables keep: of an order its terms, whether the     *)
(* provider took the money and granted_at; of a user the plan that         *)
(* GetActiveSubscription reports at this instant.                          *)
(***************************************************************************)
Bill(row, money) ==
    [terms |-> [user |-> row.user, plan |-> row.plan, mode |-> row.mode,
                months |-> row.months, base |-> row.base],
     paid |-> money, granted |-> row.granted]

Entitled(table, u, t) == [plan |-> CurrentPlan(table, u, t), until |-> CurrentExpiry(table, u, t)]

Bills        == [o \in Orders \ Unborn |-> Bill(orders[o], PaidAt(o))]
Entitlements == [u \in Users |-> Entitled(subs, u, now)]
Regranting   == {o \in Orders : \E w \in Workers : job[w].op = "regrant" /\ job[w].o = o}
Assigning    == {u \in Users : \E w \in Workers : job[w].pc = "assign" /\ job[w].row.user = u}

Ledger == INSTANCE OrderLedger WITH
    bills <- Bills, plans <- Entitlements, asked <- Regranting, assigning <- Assigning, clock <- now

\* Polls, notifications, creates and cancels, their failures and retries, and
\* an administrator's calls do to orders and plans what the ledger's steps do:
\* no order is granted that was not paid, none twice unasked, none without its
\* plan, and a plan is what the last grant or assignment gave (payment_service
\* with plan_service).  It is claimed while OrdersApart and PlansApart hold.
ImplementsLedger == Ledger!LedgerSpec

-----------------------------------------------------------------------------
(***************************************************************************)
(* The inductive invariant behind GrantBacked.  It ties the rows, the      *)
(* copies jobs hold of them and the provider together: columns fixed at    *)
(* creation agree in every copy, and nothing says paid, neither a row nor  *)
(* a copy nor an answer under way, unless the provider took the money.     *)
(***************************************************************************)
Born(row) == row.status # "none"
SameOrder(r, q) == SamePurchase(r, q) /\ r.base = q.base

OrdersOK(O, P) ==
    \A o \in Orders :
        /\ Born(O[o]) => O[o].user \in Users
        /\ ~Born(O[o]) => P[o] = "none" /\ ~O[o].granted
        /\ O[o].status = "paid" => Paid(P[o])

SentOK == \A n \in sent : Paid(prov[n[1]])

CreateSteps == {"reuse", "insert", "call", "csave"}
OrderSteps == {"query", "save", "log", "lock", "commit", "cancel", "call", "csave"}

\* A job that holds a copy of an order, given the table O and the provider P.
JobOK(j, O, P) ==
    /\ j.o \in Orders => Born(O[j.o]) /\ SameOrder(j.row, O[j.o]) /\ j.row.user \in Users
    /\ j.row.status = "paid" \/ j.msg = "OD" => j.o \in Orders /\ Paid(P[j.o])
    /\ j.pc \in OrderSteps \/ j.op = "notify" => j.o \in Orders
    /\ j.pc \in CreateSteps => j.op = "create"
    /\ j.pc \in {"reuse", "insert", "expire", "assign"} => j.o = NoOrder
    /\ j.op = "create" => /\ j.pc \in CreateSteps \cup {"expire"}
                          /\ j.row.status = "pending" /\ ~j.row.granted
                          /\ j.row.user \in Users /\ j.msg = "none"
    /\ j.pc = "assign" => j.row.user \in Users
    /\ j.pc = "commit" => j.row.status = "paid"
    /\ j.pc = "call" => P[j.o] = "none"
    /\ j.row.granted => j.o \in Orders

OneCaller == \A v, w \in Workers :
    job[v].pc = "call" /\ job[w].pc = "call" /\ job[v].o = job[w].o => v = w

CopiesAgree ==
    /\ OrdersOK(orders, prov) /\ SentOK /\ OneCaller
    /\ \A w \in Workers : JobOK(job[w], orders, prov)

=============================================================================
