--------------------------- MODULE Billing_proofs ---------------------------
(***************************************************************************)
(* The calendar of Billing, for every date and any number of purchases,    *)
(* and its prices, for any two.                                            *)
(***************************************************************************)
EXTENDS Billing, WellFoundedInduction, TLAPS

-----------------------------------------------------------------------------
(* Lemmas about dates *)

LEMMA DaysBounds == \A m \in Nat : DaysIn(m) \in 28..31
BY DEF DaysIn

Valid(t) == t \in Date /\ t.day <= DaysIn(t.month)

LEMMA NextDayValid == ASSUME NEW t \in Date, Valid(t) PROVE Valid(NextDay(t))
<1>1. t.month \in Nat /\ t.day \in 1..31 /\ t.month + 1 \in Nat
    BY DEF Date
<1>2. DaysIn(t.month) \in 28..31 /\ DaysIn(t.month + 1) \in 28..31
    BY <1>1, DaysBounds
<1>3. CASE t.day < DaysIn(t.month)
    <2>1. NextDay(t) = [month |-> t.month, day |-> t.day + 1]
        BY <1>3 DEF NextDay, Date
    <2> QED BY <1>1, <1>2, <1>3, <2>1 DEF Valid, Date
<1>4. CASE ~ (t.day < DaysIn(t.month))
    <2>1. NextDay(t) = [month |-> t.month + 1, day |-> 1]
        BY <1>4 DEF NextDay
    <2> QED BY <1>1, <1>2, <2>1 DEF Valid, Date
<1> QED BY <1>3, <1>4

LEMMA NotBeforeItself == \A t \in Date : ~ Before(t, t)
BY DEF Before, Date

\* A day more does not bring a date before one it was not before.
LEMMA NextDayLater ==
    ASSUME NEW t \in Date, NEW s \in Date, ~ Before(t, s)
    PROVE  ~ Before(NextDay(t), s)
<1>1. /\ t.month \in Nat /\ t.day \in 1..31 /\ s.month \in Nat /\ s.day \in 1..31
      /\ t.month > s.month \/ (t.month = s.month /\ t.day >= s.day)
    BY DEF Date, Before
<1>2. \/ NextDay(t).month = t.month /\ NextDay(t).day = t.day + 1
      \/ NextDay(t).month = t.month + 1 /\ NextDay(t).day = 1
    BY <1>1 DEF NextDay, Date
<1> QED BY <1>1, <1>2 DEF Before

\* AddDate gives a date of the calendar: n months on when that month has the
\* day, and else the first, second or third of the month after it.
LEMMA AddMonthsValid ==
    ASSUME NEW t \in Date, NEW n \in Nat
    PROVE  /\ Valid(AddMonths(t, n))
           /\ t.day <= DaysIn(t.month + n) =>
                AddMonths(t, n).month = t.month + n /\ AddMonths(t, n).day = t.day
           /\ t.day > DaysIn(t.month + n) =>
                /\ AddMonths(t, n).month = t.month + n + 1
                /\ AddMonths(t, n).day = t.day - DaysIn(t.month + n)
                /\ t.day - AddMonths(t, n).day \in 28..30
<1>1. t.month \in Nat /\ t.day \in 1..31 /\ t.month + n \in Nat /\ t.month + n + 1 \in Nat
    BY DEF Date
<1>2. DaysIn(t.month + n) \in 28..31 /\ DaysIn(t.month + n + 1) \in 28..31
    BY <1>1, DaysBounds
<1>3. CASE t.day <= DaysIn(t.month + n)
    <2>1. AddMonths(t, n) = [month |-> t.month + n, day |-> t.day]
        BY <1>1, <1>2, <1>3 DEF AddMonths
    <2> QED BY <1>1, <1>2, <1>3, <2>1 DEF Valid, Date
<1>4. CASE t.day > DaysIn(t.month + n)
    <2>1. AddMonths(t, n) = [month |-> t.month + n + 1, day |-> t.day - DaysIn(t.month + n)]
        BY <1>1, <1>2, <1>4 DEF AddMonths
    <2>2. t.day - DaysIn(t.month + n) \in 1..3
        BY <1>1, <1>2, <1>4
    <2> HIDE DEF AddMonths
    <2> QED BY <1>1, <1>2, <1>4, <2>1, <2>2 DEF Valid, Date
<1> QED BY <1>1, <1>2, <1>3, <1>4

-----------------------------------------------------------------------------
(***************************************************************************)
(* The inductive invariant: a plan's end still has the day it began with,  *)
(* or it has run on once, and stays on that early day of the month after;   *)
(* and today is not before its beginning.                                  *)
(***************************************************************************)
Slipped(p) ==
    \/ p.expiry.month = p.start.month + p.months /\ p.expiry.day = p.start.day
    \/ /\ p.expiry.month = p.start.month + p.months + 1
       /\ p.start.day - p.expiry.day \in 28..30

BilInv ==
    /\ plan \in Plan /\ Valid(plan.start) /\ Valid(plan.expiry) /\ Valid(today)
    /\ Slipped(plan) /\ ~ Before(today, plan.start)

\* A term of n more months, from any plan.
LEMMA Extended ==
    ASSUME NEW p \in Plan, Slipped(p), Valid(p.start), Valid(p.expiry), NEW n \in Nat, NEW q \in Plan,
           q.start = p.start, q.months = p.months + n, q.expiry = AddMonths(p.expiry, n)
    PROVE  Slipped(q)
<1>1. p.expiry \in Date /\ p.start \in Date /\ p.months \in Nat
    BY DEF Plan
<1>2. p.expiry.month \in Nat /\ p.expiry.day \in 1..31 /\ p.start.month \in Nat /\ p.start.day \in 1..31
    BY <1>1 DEF Date
<1>3. p.expiry.month + n \in Nat /\ DaysIn(p.expiry.month + n) \in 28..31
    BY <1>2, DaysBounds
<1>4. CASE p.expiry.day <= DaysIn(p.expiry.month + n)
    <2>1. q.expiry.month = p.expiry.month + n /\ q.expiry.day = p.expiry.day
        BY <1>1, <1>4, AddMonthsValid
    <2> QED BY <1>1, <1>2, <2>1 DEF Slipped
<1>5. CASE p.expiry.day > DaysIn(p.expiry.month + n)
    <2>1. /\ q.expiry.month = p.expiry.month + n + 1
          /\ p.expiry.day - q.expiry.day \in 28..30
        BY <1>1, <1>5, AddMonthsValid
    <2>2. p.expiry.day > 3
        BY <1>3, <1>5, <1>2
    <2>3. p.expiry.month = p.start.month + p.months /\ p.expiry.day = p.start.day
        BY <1>2, <2>2 DEF Slipped
    <2> QED BY <1>1, <1>2, <2>1, <2>3 DEF Slipped
<1> QED BY <1>2, <1>3, <1>4, <1>5

\* A first term, or one that starts again.
LEMMA Started ==
    ASSUME NEW t \in Date, Valid(t), NEW n \in Nat, NEW q \in Plan,
           q.start = t, q.months = n, q.expiry = AddMonths(t, n)
    PROVE  Slipped(q)
<1>1. t.month \in Nat /\ t.day \in 1..31 /\ t.month + n \in Nat
    BY DEF Date
<1>2. DaysIn(t.month + n) \in 28..31
    BY <1>1, DaysBounds
<1>3. t.day <= DaysIn(t.month + n) \/ t.day > DaysIn(t.month + n)
    BY <1>1, <1>2
<1> QED BY <1>3, AddMonthsValid DEF Slipped

LEMMA DaysOfMonths == \A n \in BillingMonths : n \in Nat /\ DurationDays(n) \div 30 = n
BY DEF BillingMonths, DurationDays

LEMMA InitBil == BillingInit => BilInv
<1>1. Valid(NoDate) /\ NoDate.month = 0 /\ NoDate.day = 1
    BY DaysBounds DEF Valid, NoDate, Date
<1> SUFFICES ASSUME BillingInit PROVE BilInv
    OBVIOUS
<1>2. plan = [start |-> NoDate, months |-> 0, expiry |-> NoDate] /\ today = NoDate
    BY DEF BillingInit
<1>3. NoDate \in Date
    BY <1>1 DEF Valid
<1>4. plan \in Plan /\ plan.start = NoDate /\ plan.months = 0 /\ plan.expiry = NoDate
    BY <1>2, <1>3 DEF Plan
<1>5. Slipped(plan)
    BY <1>1, <1>4 DEF Slipped
<1>6. ~ Before(today, plan.start)
    BY <1>1, <1>2, <1>4 DEF Before
<1> QED BY <1>1, <1>2, <1>4, <1>5, <1>6 DEF BilInv

LEMMA FirstPurchaseBil ==
    ASSUME BilInv, NEW t \in FirstDates, NEW n \in BillingMonths, FirstPurchase(t, n)
    PROVE  BilInv'
<1>1. t \in Date /\ Valid(t)
    BY DatesAssumption DEF Valid
<1>2. plan' = [start |-> t, months |-> n, expiry |-> AddMonths(t, n)] /\ today' = t /\ n \in Nat
    BY DaysOfMonths DEF FirstPurchase, PlanEnd
<1>3. Valid(AddMonths(t, n)) /\ AddMonths(t, n) \in Date
    BY <1>1, <1>2, AddMonthsValid DEF Valid
<1> HIDE DEF Valid
<1>4. plan' \in Plan /\ plan'.start = t /\ plan'.months = n /\ plan'.expiry = AddMonths(t, n)
    BY <1>1, <1>2, <1>3 DEF Plan
<1>5. Slipped(plan')
    BY <1>1, <1>2, <1>4, Started
<1>6. ~ Before(today', plan'.start)
    BY <1>1, <1>2, <1>4, NotBeforeItself
<1> QED BY <1>1, <1>2, <1>3, <1>4, <1>5, <1>6 DEF BilInv, Valid, Slipped, Before

LEMMA PurchaseBil ==
    ASSUME BilInv, NEW n \in BillingMonths, Purchase(n)
    PROVE  BilInv'
<1>1. /\ plan \in Plan /\ plan.start \in Date /\ plan.expiry \in Date /\ plan.months \in Nat
      /\ Valid(plan.start) /\ Valid(plan.expiry) /\ Valid(today) /\ today \in Date /\ today' = today
    BY DEF BilInv, Plan, Valid, Purchase
<1>2. n \in Nat /\ \A t : PlanEnd(t, DurationDays(n)) = AddMonths(t, n)
    BY DaysOfMonths DEF PlanEnd
<1>3. CASE Before(today, plan.expiry)
    <2>1. plan' = [start |-> plan.start, months |-> plan.months + n,
                   expiry |-> AddMonths(plan.expiry, n)]
        BY <1>2, <1>3 DEF Purchase, GrantFrom
    <2>2. Valid(AddMonths(plan.expiry, n)) /\ AddMonths(plan.expiry, n) \in Date
        BY <1>1, <1>2, AddMonthsValid DEF Valid
    <2>3. plan' \in Plan /\ plan'.start = plan.start /\ plan'.months = plan.months + n
          /\ plan'.expiry = AddMonths(plan.expiry, n)
        BY <1>1, <1>2, <2>1, <2>2 DEF Plan
    <2>4. Slipped(plan')
        BY <1>1, <1>2, <2>3, Extended DEF BilInv
    <2>5. ~ Before(today', plan'.start)
        BY <1>1, <2>3 DEF BilInv
    <2> QED BY <1>1, <2>2, <2>3, <2>4, <2>5 DEF BilInv, Valid, Slipped, Before
<1>4. CASE ~ Before(today, plan.expiry)
    <2>1. plan' = [start |-> today, months |-> n, expiry |-> AddMonths(today, n)]
        BY <1>2, <1>4 DEF Purchase, GrantFrom
    <2>2. Valid(AddMonths(today, n)) /\ AddMonths(today, n) \in Date
        BY <1>1, <1>2, AddMonthsValid DEF Valid
    <2>3. plan' \in Plan /\ plan'.start = today /\ plan'.months = n
          /\ plan'.expiry = AddMonths(today, n)
        BY <1>1, <1>2, <2>1, <2>2 DEF Plan
    <2>4. Slipped(plan')
        BY <1>1, <1>2, <2>3, Started
    <2>5. ~ Before(today', plan'.start)
        BY <1>1, <2>3, NotBeforeItself
    <2> QED BY <1>1, <2>2, <2>3, <2>4, <2>5 DEF BilInv, Valid, Slipped, Before
<1> QED BY <1>3, <1>4

LEMMA NextBil == BilInv /\ [BillingNext]_billingVars => BilInv'
<1> SUFFICES ASSUME BilInv, [BillingNext]_billingVars PROVE BilInv'
    OBVIOUS
<1>1. CASE UNCHANGED <<plan, today>>
    BY <1>1 DEF BilInv, Valid, Slipped, Before
<1>2. CASE DayPasses
    <2>1. today \in Date /\ Valid(today)
        BY DEF BilInv, Valid
    <2>2. today' = NextDay(today) /\ plan' = plan /\ Valid(NextDay(today))
        BY <1>2, <2>1, NextDayValid DEF DayPasses
    <2>3. ~ Before(NextDay(today), plan.start)
        BY <2>1, NextDayLater DEF BilInv, Plan
    <2> QED BY <2>2, <2>3 DEF BilInv, Valid, Slipped, Before
<1> QED BY <1>1, <1>2, FirstPurchaseBil, PurchaseBil
        DEF BillingNext, PriceNext, TermNext, SetPrices, billingVars

-----------------------------------------------------------------------------
\* However a term is split into purchases and whatever the date it began, it
\* ends at most two days before and three days after the end of all its
\* months bought at once: extending a plan from its end loses no time.
THEOREM TermsAddUp == BillingSpec => []RenewalsAddUp
<1>1. BilInv => RenewalsAddUp
    <2> SUFFICES ASSUME BilInv PROVE RenewalsAddUp
        OBVIOUS
    <2> DEFINE s == plan.start
               e == plan.expiry
               last == plan.start.month + plan.months
               once == AddMonths(s, plan.months)
    <2>1. /\ s \in Date /\ e \in Date /\ plan.months \in Nat /\ e.day \in 1..31 /\ s.day \in 1..31
          /\ s.month \in Nat /\ e.month \in Nat /\ last \in Nat
        BY DEF BilInv, Plan, Date
    <2>2. DaysIn(last) \in 28..31
        BY <2>1, DaysBounds
    <2>3. \/ e.month = last /\ e.day = s.day
          \/ e.month = last + 1 /\ s.day - e.day \in 28..30
        BY DEF BilInv, Slipped
    <2>4. /\ s.day <= DaysIn(last) => once.month = last /\ once.day = s.day
          /\ s.day > DaysIn(last) => once.month = last + 1 /\ once.day = s.day - DaysIn(last)
        BY <2>1, AddMonthsValid
    <2>5. \/ s.day <= DaysIn(last)
          \/ s.day > DaysIn(last)
        BY <2>1, <2>2
    <2>6. Offset(once, last) = s.day
        BY <2>1, <2>2, <2>4, <2>5 DEF Offset
    <2>7. Offset(e, last) = IF e.month = last THEN e.day ELSE e.day + DaysIn(last)
        BY <2>1, <2>2 DEF Offset
    <2> HIDE DEF once, s, e
    <2>8. Offset(e, last) - Offset(once, last) \in -2..3
        BY <2>1, <2>2, <2>3, <2>6, <2>7
    <2>9. {e.month, once.month} \subseteq {last, last + 1}
        BY <2>3, <2>4, <2>5
    <2> QED BY <2>8, <2>9 DEF RenewalsAddUp, once, s, e
<1> QED BY <1>1, InitBil, NextBil, PTL DEF BillingSpec

-----------------------------------------------------------------------------
(* The months an upgrade charges *)

LEMMA LeastNumber ==
    ASSUME NEW B \in SUBSET Nat, B # {}
    PROVE  \E n \in B : \A m \in B : n <= m
<1> DEFINE R == OpToRel(<, Nat)
<1>1. PICK n \in B : \A m \in B : ~ (<<m, n>> \in R)
    <2>1. IsWellFoundedOn(R, Nat)
        BY NatLessThanWellFounded
    <2> HIDE DEF R
    <2> QED BY <2>1, WFMin
<1>2. \A m \in B : ~ (m < n)
    BY <1>1 DEF OpToRel
<1> QED BY <1>2

(* A cursor that goes month by month *)
Count(e, f) == [t \in Date |-> IF Before(t, e) THEN 1 + f[AddMonths(t, 1)] ELSE 0]

\* One month on is a later month.
LEMMA MonthOn ==
    ASSUME NEW t \in Date
    PROVE  /\ AddMonths(t, 1) \in Date
           /\ t.day <= DaysIn(t.month + 1) =>
                AddMonths(t, 1).month = t.month + 1 /\ AddMonths(t, 1).day = t.day
           /\ t.day > DaysIn(t.month + 1) =>
                AddMonths(t, 1).month = t.month + 2 /\ AddMonths(t, 1).day \in 1..3
           /\ \/ t.day <= DaysIn(t.month + 1)
              \/ t.day > DaysIn(t.month + 1) /\ t.day > 28
           /\ t.month \in Nat /\ t.day \in 1..31
<1>1. t.month \in Nat /\ t.day \in 1..31 /\ t.month + 1 \in Nat
    BY DEF Date
<1>2. DaysIn(t.month + 1) \in 28..31
    BY <1>1, DaysBounds
<1>3. AddMonths(t, 1) \in Date /\ AddMonths(t, 1).day \in 1..31
    BY AddMonthsValid DEF Valid, Date
<1>4. CASE t.day <= DaysIn(t.month + 1)
    <2>1. AddMonths(t, 1).month = t.month + 1 /\ AddMonths(t, 1).day = t.day
        BY <1>4, AddMonthsValid
    <2> QED BY <1>1, <1>2, <1>3, <1>4, <2>1
<1>5. CASE t.day > DaysIn(t.month + 1)
    <2>1. /\ AddMonths(t, 1).month = t.month + 1 + 1
          /\ AddMonths(t, 1).day = t.day - DaysIn(t.month + 1)
        BY <1>5, AddMonthsValid
    <2> QED BY <1>1, <1>2, <1>3, <1>5, <2>1
<1> QED BY <1>1, <1>2, <1>4, <1>5

\* The recursion of remainingBillingMonths ends: there is a count that
\* satisfies its equation from the last month back, and so at every date.
LEMMA CountExists ==
    ASSUME NEW e \in Date
    PROVE  \E f : f = Count(e, f)
<1> DEFINE Good(n) == \E f : \A t \in Date : t.month + n >= e.month =>
                          f[t] = IF Before(t, e) THEN 1 + f[AddMonths(t, 1)] ELSE 0
           B == {n \in Nat : ~ Good(n)}
<1>1. Good(0)
    <2> DEFINE f == [t \in Date |-> IF Before(t, e) THEN 1 ELSE 0]
    <2>1. ASSUME NEW t \in Date, t.month >= e.month
          PROVE  f[t] = IF Before(t, e) THEN 1 + f[AddMonths(t, 1)] ELSE 0
        <3>1. AddMonths(t, 1) \in Date /\ AddMonths(t, 1).month > t.month /\ t.month \in Nat /\ e.month \in Nat
            <4>1. e.month \in Nat
                BY DEF Date
            <4> QED BY <4>1, MonthOn
        <3>2. AddMonths(t, 1).month \in Nat
            BY <3>1 DEF Date
        <3>3. ~ Before(AddMonths(t, 1), e)
            BY <2>1, <3>1, <3>2 DEF Before
        <3> HIDE DEF Before, AddMonths
        <3> QED BY <3>1, <3>3
    <2>2. \A t \in Date : t.month + 0 >= e.month <=> t.month >= e.month
        BY DEF Date
    <2> HIDE DEF f
    <2> QED BY <2>1, <2>2
<1>2. ASSUME NEW n \in Nat, Good(n) PROVE Good(n + 1)
    <2>1. PICK f : \A t \in Date : t.month + n >= e.month =>
                      f[t] = IF Before(t, e) THEN 1 + f[AddMonths(t, 1)] ELSE 0
        BY <1>2
    <2> DEFINE g == Count(e, f)
    <2>2. ASSUME NEW t \in Date, t.month + (n + 1) >= e.month
          PROVE  g[t] = IF Before(t, e) THEN 1 + g[AddMonths(t, 1)] ELSE 0
        <3> DEFINE s == AddMonths(t, 1)
        <3>1. s \in Date /\ s.month >= t.month + 1 /\ t.month \in Nat /\ s.month \in Nat /\ e.month \in Nat
            <4>1. s \in Date /\ s.month \in {t.month + 1, t.month + 2} /\ t.month \in Nat
                BY MonthOn
            <4>2. s.month \in Nat /\ e.month \in Nat
                BY <4>1 DEF Date
            <4> HIDE DEF s
            <4> QED BY <4>1, <4>2
        <3>2. s.month + n >= e.month
            BY <2>2, <3>1
        <3>3. f[s] = IF Before(s, e) THEN 1 + f[AddMonths(s, 1)] ELSE 0
            BY <2>1, <3>1, <3>2
        <3>4. g[s] = IF Before(s, e) THEN 1 + f[AddMonths(s, 1)] ELSE 0
            BY <3>1 DEF Count
        <3>5. g[t] = IF Before(t, e) THEN 1 + f[s] ELSE 0
            BY DEF Count
        <3> HIDE DEF g, s
        <3> QED BY <3>3, <3>4, <3>5 DEF s
    <2> HIDE DEF g
    <2> QED BY <2>2
<1>3. B = {}
    <2> SUFFICES ASSUME B # {} PROVE FALSE
        OBVIOUS
    <2>1. PICK n \in B : \A m \in B : n <= m
        <3>1. B \in SUBSET Nat
            OBVIOUS
        <3> HIDE DEF B
        <3> QED BY <3>1, LeastNumber
    <2>2. n \in Nat /\ n # 0 /\ ~ Good(n)
        <3> HIDE DEF Good
        <3> QED BY <1>1
    <2>3. n - 1 \in Nat /\ n - 1 \notin B
        <3> HIDE DEF B
        <3> QED BY <2>1, <2>2
    <2> HIDE DEF Good
    <2>4. Good(n - 1)
        BY <2>3
    <2>5. Good((n - 1) + 1)
        BY <1>2, <2>3, <2>4
    <2>6. (n - 1) + 1 = n
        BY <2>2
    <2> QED BY <2>2, <2>5, <2>6
<1>4. e.month \in Nat
    BY DEF Date
<1>5. Good(e.month)
    <2> HIDE DEF Good
    <2> QED BY <1>3, <1>4
<1>6. PICK f : \A t \in Date : t.month + e.month >= e.month =>
                  f[t] = IF Before(t, e) THEN 1 + f[AddMonths(t, 1)] ELSE 0
    BY <1>5
<1>7. \A t \in Date : t.month + e.month >= e.month
    BY <1>4 DEF Date
<1> DEFINE h == [t \in Date |-> f[t]]
<1>8. \A t \in Date : h[t] = IF Before(t, e) THEN 1 + h[AddMonths(t, 1)] ELSE 0
    <2>1. \A t \in Date : AddMonths(t, 1) \in Date
        BY MonthOn
    <2> HIDE DEF Before, AddMonths
    <2> QED BY <1>6, <1>7, <2>1
<1>9. h = Count(e, h)
    <2>1. h = [t \in Date |-> h[t]]
        OBVIOUS
    <2> HIDE DEF h
    <2> QED BY <1>8, <2>1 DEF Count
<1> HIDE DEF h
<1> QED BY <1>9

\* The months from now to an expiry after it, the last one begun: from a day
\* that every month has they are known; from the 29th, 30th or 31st on, a
\* count may be one short when the expiry is on a day to which dates run on.
Begun(t, e) == IF t.day < e.day THEN 1 ELSE 0
Fewest(t, e) == IF t.day <= 28 THEN Begun(t, e) ELSE IF e.day <= 3 THEN -1 ELSE 0
Span(t, e) == LET m == e.month - t.month
              IN (m + Fewest(t, e))..(m + Begun(t, e))

LEMMA SpanStep ==
    ASSUME NEW e \in Date, NEW t \in Date, Before(t, e), NEW n,
           IF Before(AddMonths(t, 1), e) THEN n \in Span(AddMonths(t, 1), e) ELSE n = 0
    PROVE  1 + n \in Span(t, e)
<1> DEFINE s == AddMonths(t, 1)
<1>1. /\ s \in Date /\ t.month \in Nat /\ t.day \in 1..31
      /\ \/ s.month = t.month + 1 /\ s.day = t.day
         \/ s.month = t.month + 2 /\ s.day \in 1..3 /\ t.day > 28
    BY MonthOn
<1> HIDE DEF s
<1>2. e.month \in Nat /\ e.day \in 1..31 /\ s.month \in Nat /\ s.day \in 1..31
    BY <1>1 DEF Date
<1>3. CASE Before(s, e)
    <2>1. n \in Span(s, e)
        BY <1>3 DEF s
    <2> QED BY <1>1, <1>2, <1>3, <2>1 DEF Span, Begun, Fewest, Before
<1>4. CASE ~ Before(s, e)
    <2>1. n = 0
        BY <1>4 DEF s
    <2> QED BY <1>1, <1>2, <1>4, <2>1 DEF Span, Begun, Fewest, Before
<1> QED BY <1>3, <1>4

LEMMA CountInSpan ==
    ASSUME NEW e \in Date, NEW f, f = Count(e, f)
    PROVE  \A t \in Date : IF Before(t, e) THEN f[t] \in Span(t, e) ELSE f[t] = 0
<1> DEFINE Right(t) == IF Before(t, e) THEN f[t] \in Span(t, e) ELSE f[t] = 0
           B == {n \in Nat : \E t \in Date : t.month + n >= e.month /\ ~ Right(t)}
<1>1. \A t \in Date : f[t] = IF Before(t, e) THEN 1 + f[AddMonths(t, 1)] ELSE 0
    BY DEF Count
<1>2. e.month \in Nat
    BY DEF Date
<1>3. ASSUME NEW t \in Date, ~ Right(t)
      PROVE  /\ AddMonths(t, 1) \in Date /\ ~ Right(AddMonths(t, 1))
             /\ t.month < e.month
    <2> DEFINE s == AddMonths(t, 1)
    <2>1. s \in Date /\ s.month > t.month /\ t.month \in Nat
        BY MonthOn
    <2>2. s.month \in Nat /\ s.day \in Int /\ t.day \in Int /\ e.day \in Int
        BY <2>1 DEF Date
    <2>3. Before(t, e) /\ f[t] = 1 + f[s] /\ ~ (f[t] \in Span(t, e))
        BY <1>1, <1>3
    <2>4. ~ Right(s)
        BY <2>3, SpanStep
    <2>5. CASE t.month >= e.month
        <3>1. ~ Before(s, e)
            BY <1>2, <2>1, <2>2, <2>5 DEF Before
        <3>2. f[s] = 0
            BY <1>1, <2>1, <3>1
        <3> QED BY <2>4, <3>1, <3>2
    <2> QED BY <1>2, <2>1, <2>4, <2>5
<1> HIDE DEF Right
<1>4. B = {}
    <2> SUFFICES ASSUME B # {} PROVE FALSE
        OBVIOUS
    <2>1. PICK n \in B : \A m \in B : n <= m
        <3>1. B \in SUBSET Nat
            OBVIOUS
        <3> HIDE DEF B
        <3> QED BY <3>1, LeastNumber
    <2>2. PICK t \in Date : t.month + n >= e.month /\ ~ Right(t)
        OBVIOUS
    <2> DEFINE s == AddMonths(t, 1)
    <2>3. s \in Date /\ ~ Right(s) /\ t.month < e.month
        BY <1>3, <2>2
    <2>4. s.month > t.month /\ t.month \in Nat /\ s.month \in Nat /\ n \in Nat
        <3>1. s.month > t.month /\ t.month \in Nat
            BY MonthOn
        <3>2. s.month \in Nat
            BY <2>3 DEF Date
        <3> QED BY <3>1, <3>2
    <2> HIDE DEF s
    <2>5. n - 1 \in Nat /\ s.month + (n - 1) >= e.month
        BY <1>2, <2>2, <2>3, <2>4
    <2>6. n - 1 \in B
        BY <2>3, <2>5
    <2> QED BY <2>1, <2>4, <2>6
<1>5. ASSUME NEW t \in Date PROVE Right(t)
    <2>1. t.month + e.month >= e.month
        BY <1>2 DEF Date
    <2> QED BY <1>2, <1>4, <2>1
<1> QED BY <1>5 DEF Right

\* What remainingBillingMonths returns.
LEMMA RemainingInSpan ==
    ASSUME NEW t \in Date, NEW e \in Date
    PROVE  IF Before(t, e) THEN RemainingMonths(t, e) \in Span(t, e)
                           ELSE RemainingMonths(t, e) = 0
<1> DEFINE c == CHOOSE f : f = Count(e, f)
<1>1. c = Count(e, c)
    BY CountExists
<1>2. RemainingMonths(t, e) = c[t]
    BY DEF RemainingMonths, Count
<1> HIDE DEF c
<1> QED BY <1>1, <1>2, CountInSpan

\* The months of the calendar are as many, or differ by as little.
LEMMA CalendarInSpan ==
    ASSUME NEW t \in Date, Valid(t), NEW e \in Date
    PROVE  IF Before(t, e) THEN CalendarMonths(t, e) \in Span(t, e)
                           ELSE CalendarMonths(t, e) = 0
<1> DEFINE m == e.month - t.month
           S == (IF m > 0 THEN m - 1 ELSE 0)..(m + 1)
           P(n) == ~ Before(AddMonths(t, n), e) /\ (n > 0 => Before(AddMonths(t, n - 1), e))
<1>1. /\ t.month \in Nat /\ t.day \in 1..31 /\ e.month \in Nat /\ e.day \in 1..31
      /\ m \in Int
    BY DEF Date
<1>2. CASE ~ Before(t, e)
    BY <1>2 DEF CalendarMonths
<1>3. CASE Before(t, e)
    <2>1. m \in Nat /\ (m = 0 => t.day < e.day)
        BY <1>1, <1>3 DEF Before
    <2>2. ASSUME NEW n \in Nat
          PROVE  \/ AddMonths(t, n).month = t.month + n /\ AddMonths(t, n).day = t.day
                 \/ /\ AddMonths(t, n).month = t.month + n + 1
                    /\ AddMonths(t, n).day \in 1..3 /\ t.day > 28
        <3>1. DaysIn(t.month + n) \in 28..31
            BY <1>1, DaysBounds
        <3>2. AddMonths(t, n) \in Date
            BY AddMonthsValid DEF Valid
        <3>3. AddMonths(t, n).day \in 1..31
            BY <3>2 DEF Date
        <3>4. t.day <= DaysIn(t.month + n) \/ t.day > DaysIn(t.month + n)
            BY <1>1, <3>1
        <3> HIDE DEF m
        <3> QED BY <1>1, <3>1, <3>3, <3>4, AddMonthsValid
    <2>3. AddMonths(t, 0).month = t.month /\ AddMonths(t, 0).day = t.day
        <3>1. t.month + 0 = t.month /\ t.day <= DaysIn(t.month)
            BY <1>1 DEF Valid
        <3> QED BY <3>1, AddMonthsValid
    <2>4. Before(AddMonths(t, 0), e)
        BY <1>3, <2>3 DEF Before
    <2>5. ~ Before(AddMonths(t, m + 1), e)
        <3>1. m + 1 \in Nat /\ t.month + (m + 1) = e.month + 1
            BY <1>1, <2>1
        <3>2. AddMonths(t, m + 1).month \in {e.month + 1, e.month + 2}
            BY <1>1, <2>2, <3>1
        <3> HIDE DEF m
        <3> QED BY <1>1, <3>2 DEF Before
    <2>6. m >= 2 => Before(AddMonths(t, m - 2), e)
        <3> SUFFICES ASSUME m >= 2 PROVE Before(AddMonths(t, m - 2), e)
            OBVIOUS
        <3>1. m - 2 \in Nat /\ t.month + (m - 2) = e.month - 2
            BY <1>1, <2>1
        <3>2. AddMonths(t, m - 2).month \in {e.month - 2, e.month - 1}
            BY <1>1, <2>2, <3>1
        <3> HIDE DEF m
        <3> QED BY <1>1, <3>2 DEF Before
    <2>7. \E n \in S : P(n)
        <3>1. CASE Before(AddMonths(t, m), e)
            <4>1. (m + 1) - 1 = m /\ m + 1 \in S
                BY <2>1
            <4>2. P(m + 1)
                <5> HIDE DEF m
                <5> QED BY <2>5, <3>1, <4>1
            <4> QED BY <4>1, <4>2
        <3>2. CASE ~ Before(AddMonths(t, m), e) /\ Before(AddMonths(t, m - 1), e)
            <4>1. m \in S
                BY <2>1
            <4>2. P(m)
                BY <3>2
            <4> QED BY <4>1, <4>2
        <3>3. CASE ~ Before(AddMonths(t, m), e) /\ ~ Before(AddMonths(t, m - 1), e)
            <4>1. m # 0 /\ m - 1 # 0
                <5> HIDE DEF m
                <5> QED BY <2>4, <3>3
            <4>2. m >= 2 /\ m - 1 \in S /\ (m - 1) - 1 = m - 2
                BY <2>1, <4>1
            <4>3. P(m - 1)
                <5> HIDE DEF m
                <5> QED BY <2>6, <3>3, <4>2
            <4> QED BY <4>2, <4>3
        <3> QED BY <3>1, <3>2, <3>3
    <2> DEFINE n == CHOOSE k \in S : P(k)
    <2>8. CalendarMonths(t, e) = n
        BY <1>3 DEF CalendarMonths
    <2>9. n \in S /\ P(n)
        <3> HIDE DEF S, P
        <3> QED BY <2>7
    <2> HIDE DEF n
    <2>10. n \in Nat /\ n # 0 /\ n - 1 \in Nat
        <3>1. n \in Nat
            BY <2>1, <2>9
        <3>2. n # 0
            BY <2>4, <2>9
        <3> QED BY <3>1, <3>2
    <2>11. ~ Before(AddMonths(t, n), e) /\ Before(AddMonths(t, n - 1), e)
        BY <2>9, <2>10
    <2>12. n \in Span(t, e)
        <3> DEFINE a == AddMonths(t, n)
                   b == AddMonths(t, n - 1)
        <3>1. /\ \/ a.month = t.month + n /\ a.day = t.day
                 \/ a.month = t.month + n + 1 /\ a.day \in 1..3 /\ t.day > 28
              /\ \/ b.month = t.month + (n - 1) /\ b.day = t.day
                 \/ b.month = t.month + (n - 1) + 1 /\ b.day \in 1..3 /\ t.day > 28
            BY <2>2, <2>10
        <3>2. ~ Before(a, e) /\ Before(b, e)
            BY <2>11
        <3> HIDE DEF a, b
        <3> QED BY <1>1, <2>10, <3>1, <3>2 DEF Before, Span, Begun, Fewest
    <2> QED BY <1>3, <2>8, <2>12
<1> QED BY <1>2, <1>3

\* Two counts of one span differ by one at most, and not at all from a day
\* that every month has.
LEMMA SpanNarrow ==
    ASSUME NEW t \in Date, NEW e \in Date, NEW i \in Span(t, e), NEW j \in Span(t, e)
    PROVE  i - j \in (IF t.day <= 28 THEN {0} ELSE -1..1)
<1>1. t.month \in Nat /\ t.day \in 1..31 /\ e.month \in Nat /\ e.day \in 1..31
    BY DEF Date
<1>2. CASE t.day <= 28
    <2>1. Fewest(t, e) = Begun(t, e)
        BY <1>1, <1>2 DEF Fewest
    <2> QED BY <1>1, <1>2, <2>1 DEF Span, Begun
<1>3. CASE ~ (t.day <= 28)
    BY <1>1, <1>3 DEF Span, Begun, Fewest
<1> QED BY <1>2, <1>3

\* While a plan runs, the months left are those bought at most, and one: the
\* term is as long as its months, and today is not before its start.
LEMMA SpanOfTerm ==
    ASSUME BilInv, Before(today, plan.expiry), NEW n \in Span(today, plan.expiry)
    PROVE  n <= plan.months + 1
<1> DEFINE s == plan.start
           e == plan.expiry
<1>1. /\ s \in Date /\ e \in Date /\ today \in Date /\ plan.months \in Nat
      /\ Slipped(plan) /\ ~ Before(today, s)
    BY DEF BilInv, Plan, Valid
<1>2. /\ s.month \in Nat /\ s.day \in 1..31 /\ e.month \in Nat /\ e.day \in 1..31
      /\ today.month \in Nat /\ today.day \in 1..31
    BY <1>1 DEF Date
<1>3. n \in Int /\ n <= e.month - today.month + Begun(today, e)
    <2>1. Begun(today, e) \in Int /\ Fewest(today, e) \in Int
        BY DEF Begun, Fewest
    <2> QED BY <1>2, <2>1 DEF Span
<1>4. \/ e.month = s.month + plan.months /\ e.day = s.day
      \/ e.month = s.month + plan.months + 1 /\ s.day - e.day \in 28..30
    BY <1>1 DEF Slipped
<1>5. today.month > s.month \/ (today.month = s.month /\ today.day >= s.day)
    BY <1>1, <1>2 DEF Before
<1> HIDE DEF s, e
<1>6. n <= plan.months + 1
    BY <1>1, <1>2, <1>3, <1>4, <1>5 DEF Begun
<1> QED BY <1>6

\* An upgrade charges the months of the calendar that are left, the last one
\* begun, or one more or less from a day that not every month has; and never
\* more than one month above those that were bought.  For every date, every
\* length of a term and every way it was split into purchases.
THEOREM UpgradeCharges == BillingSpec => []UpgradeMonthsFair
<1>1. BilInv => UpgradeMonthsFair
    <2> SUFFICES ASSUME BilInv PROVE UpgradeMonthsFair
        OBVIOUS
    <2> DEFINE e == plan.expiry
               charged == RemainingMonths(today, e)
               left == CalendarMonths(today, e)
    <2>1. /\ today \in Date /\ Valid(today) /\ e \in Date /\ plan.months \in Nat
        BY DEF BilInv, Plan, Valid
    <2>2. /\ IF Before(today, e) THEN charged \in Span(today, e) ELSE charged = 0
          /\ IF Before(today, e) THEN left \in Span(today, e) ELSE left = 0
        BY <2>1, RemainingInSpan, CalendarInSpan
    <2> HIDE DEF charged, left, e
    <2>3. charged - left \in (IF today.day <= 28 THEN {0} ELSE -1..1)
        <3>1. CASE Before(today, e)
            BY <2>1, <2>2, <3>1, SpanNarrow
        <3>2. CASE ~ Before(today, e)
            BY <2>2, <3>2
        <3> QED BY <3>1, <3>2
    <2>4. charged <= plan.months + 1
        <3>1. CASE Before(today, e)
            BY <2>2, <3>1, SpanOfTerm DEF e
        <3>2. CASE ~ Before(today, e)
            BY <2>1, <2>2, <3>2
        <3> QED BY <3>1, <3>2
    <2> QED BY <2>3, <2>4 DEF UpgradeMonthsFair, charged, left, e
<1> QED BY <1>1, InitBil, NextBil, PTL DEF BillingSpec

-----------------------------------------------------------------------------
(* Prices *)

\* Twelve months at 30% off are 8.4 monthly prices in whole cents, or one cent
\* less when the product has no fraction.
LEMMA YearlyBounds ==
    ASSUME NEW p \in Nat
    PROVE  /\ Yearly(p) \in Int
           /\ 10 * Yearly(p) <= 84 * p /\ 10 * (Yearly(p) + 2) > 84 * p
<1> DEFINE k == (12 * p * 7) \div 10
           r == (12 * p * 7) % 10
<1>1. k \in Int /\ r \in 0..9 /\ 84 * p = 10 * k + r
    OBVIOUS
<1>2. Yearly(p) = k \/ (Yearly(p) = k - 1 /\ r = 0)
    BY DEF Yearly
<1> HIDE DEF k, r
<1> QED BY <1>1, <1>2

\* Six months at 15% off are 5.1 monthly prices in whole cents.
LEMMA HalfYearBounds ==
    ASSUME NEW p \in Nat
    PROVE  /\ Amount(p, 6) \in Int
           /\ 100 * Amount(p, 6) <= 510 * p /\ 100 * (Amount(p, 6) + 1) > 510 * p
<1> DEFINE k == (6 * p * 85) \div 100
           r == (6 * p * 85) % 100
<1>1. k \in Int /\ r \in 0..99 /\ 510 * p = 100 * k + r
    OBVIOUS
<1>2. Amount(p, 6) = k
    BY DEF Amount
<1> HIDE DEF k, r
<1> QED BY <1>1, <1>2

LEMMA Amounts == \A p : Amount(p, 1) = p /\ Amount(p, 12) = Yearly(p)
BY DEF Amount

\* The administrator's prices are natural numbers.
PricesOK == prices \in [pro : Nat, max : Nat]

\* Whatever the two prices, a longer purchase costs no more per month, half a
\* year and a year have their discounts to the cent, and Pro with an upgrade at
\* once costs at least what Pro Max does, rounding of doubles included.
THEOREM LongerCostsLess == BillingSpec => []PricesFair
<1>1. BillingInit => PricesOK
    BY DEF BillingInit, PricesOK
<1>2. PricesOK /\ [BillingNext]_billingVars => PricesOK'
    BY PricesAssumption
    DEF PricesOK, BillingNext, PriceNext, SetPrices, TermNext, Purchase, FirstPurchase,
        DayPasses, billingVars
<1>3. PricesOK => PricesFair
    <2> SUFFICES ASSUME PricesOK PROVE PricesFair
        OBVIOUS
    <2> DEFINE a == prices.pro
               b == prices.max
    <2>1. a \in Nat /\ b \in Nat
        BY DEF PricesOK
    <2>2. ASSUME NEW p \in {a, b}
          PROVE  /\ 2 * Amount(p, 6) >= Amount(p, 12) /\ 6 * Amount(p, 1) >= Amount(p, 6)
                 /\ 10 * (Amount(p, 12) + 2) > 84 * p /\ 10 * Amount(p, 12) <= 84 * p
        <3>1. p \in Nat
            BY <2>1
        <3>2. /\ Amount(p, 6) \in Int
              /\ 100 * Amount(p, 6) <= 510 * p /\ 100 * (Amount(p, 6) + 1) > 510 * p
            BY <3>1, HalfYearBounds
        <3>3. /\ Amount(p, 12) \in Int
              /\ 10 * Amount(p, 12) <= 84 * p /\ 10 * (Amount(p, 12) + 2) > 84 * p
            BY <3>1, YearlyBounds, Amounts
        <3>4. Amount(p, 1) = p
            BY Amounts
        <3>5. 2 * Amount(p, 6) >= Amount(p, 12) /\ 6 * Amount(p, 1) >= Amount(p, 6)
            BY <3>1, <3>2, <3>3, <3>4
        <3> QED BY <3>3, <3>5
    <2>3. ASSUME a < b, NEW n \in BillingMonths
          PROVE  Amount(a, n) + UpgradeAmount(n) >= Amount(b, n)
        <3> HIDE DEF a, b
        <3>1. UpgradeAmount(n) = (b - a) * n
            BY DEF UpgradeAmount, a, b
        <3>2. CASE n = 1
            BY <2>1, <2>3, <3>1, <3>2, Amounts
        <3>3. CASE n = 6
            BY <2>1, <2>3, <3>1, <3>3, HalfYearBounds
        <3>4. CASE n = 12
            BY <2>1, <2>3, <3>1, <3>4, YearlyBounds, Amounts
        <3> QED BY <3>2, <3>3, <3>4 DEF BillingMonths
    <2> QED BY <2>2, <2>3 DEF PricesFair
<1> QED BY <1>1, <1>2, <1>3, PTL DEF BillingSpec

=============================================================================
