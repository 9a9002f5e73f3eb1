---------------------------- MODULE PlanService ----------------------------
(***************************************************************************)
(* The subscription table of internal/services/plan_service.go and the     *)
(* operations of PlanService on it, as operators on a table value.  A      *)
(* table is a sequence of rows: a row's index is its auto-increment id, so *)
(* "order by id desc" is "the largest index".  Rows are never deleted.     *)
(***************************************************************************)
EXTENDS Integers, Sequences, FiniteSets

CONSTANTS
    Users,      \* user ids
    Orders,     \* payment order numbers that may be created
    NoOrder     \* the origin of a subscription an administrator assigned

ASSUME NoOrderAssumption == NoOrder \notin Orders

\* A nil *time.Time: it is "after" no instant, and never before one.
NoTime == -1
Times == Nat \cup {NoTime}

Plans == {"free", "vip1", "vip2"}
SubStatuses == {"active", "expired", "canceled"}

\* A user_subscriptions row.  "order" and "by" are history: the table does
\* not say which order or which administrator call inserted a row.
Subscription == [user : Users, plan : Plans, status : SubStatuses, exp : Times,
                 order : Orders \cup {NoOrder}, by : {"grant", "regrant", "admin"}]

IsExpired(sub, t) == sub.exp # NoTime /\ sub.exp < t

ActiveRows(subs, u) == {i \in DOMAIN subs : subs[i].user = u /\ subs[i].status = "active"}

\* GetActiveSubscription looks only at the latest active row (the set holds
\* that row's index, or nothing) ...
LatestActive(subs, u) ==
    {i \in ActiveRows(subs, u) : \A k \in ActiveRows(subs, u) : k <= i}

\* ... returns it when it has not expired, and otherwise saves it as expired
\* and answers that there is none.
Current(subs, u, t) == {i \in LatestActive(subs, u) : ~IsExpired(subs[i], t)}
Lapsed(subs, u, t)  == {i \in LatestActive(subs, u) : IsExpired(subs[i], t)}

TheRow(subs, I) == subs[CHOOSE i \in I : TRUE]

CurrentPlan(subs, u, t) ==
    IF Current(subs, u, t) = {} THEN "free" ELSE TheRow(subs, Current(subs, u, t)).plan

CurrentExpiry(subs, u, t) ==
    IF Current(subs, u, t) = {} THEN NoTime ELSE TheRow(subs, Current(subs, u, t)).exp

\* What may become of a row's status: the last case is a save of a row that
\* was read before it was canceled.
Closes(a, b) == a = b \/ <<a, b>> \in {<<"active", "canceled">>, <<"active", "expired">>,
                                       <<"canceled", "expired">>}

\* A write of the status column of the rows I.
WithStatus(subs, I, status) ==
    [i \in DOMAIN subs |-> IF i \in I THEN [subs[i] EXCEPT !.status = status] ELSE subs[i]]

\* The save of a lapsed row.
ExpireRevives(subs, I) == WithStatus(subs, I, "active")  \* mutant: the copy's status saved
Expire(subs, I) == WithStatus(subs, I, "expired")

\* Mutant of CancelActive, without its filter on the status column.
CancelAll(subs, u) == WithStatus(subs, {i \in DOMAIN subs : subs[i].user = u}, "canceled")

\* The two statements of AssignPlan: cancel every active row of the user ...
CancelActive(subs, u) == WithStatus(subs, ActiveRows(subs, u), "canceled")

\* ... and insert the new active one.
NewSubscription(u, p, e, o, by) ==
    [user |-> u, plan |-> p, status |-> "active", exp |-> e, order |-> o, by |-> by]

=============================================================================
