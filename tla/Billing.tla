------------------------------ MODULE Billing -------------------------------
(***************************************************************************)
(* What a plan costs and how long it lasts: the calendar and the prices of *)
(* internal/services/payment_service.go (addPlanDuration,                  *)
(* remainingBillingMonths, discountedAmount and the amounts of QuoteOrder).*)
(* One user buys a plan, lets days go by, and renews it or asks for an     *)
(* upgrade.                                                                *)
(*                                                                         *)
(* An instant is a date; the time of day goes through every computation    *)
(* unchanged.  A month counts from January of the year 0.                  *)
(***************************************************************************)
EXTENDS Integers, Sequences

CONSTANTS
    FirstDates,     \* the dates of a first purchase
    Prices,         \* monthly prices, in cents
    MaxPurchases,   \* bound: purchases of the plan
    MaxWait         \* bound: days between two of them

Date == [month : Nat, day : 1..31]
BillingMonths == {1, 6, 12}

IsLeap(year) == year % 4 = 0 /\ (year % 100 # 0 \/ year % 400 = 0)
DaysIn(month) ==
    LET m == month % 12
    IN IF m = 1 THEN IF IsLeap(month \div 12) THEN 29 ELSE 28
       ELSE IF m \in {3, 5, 8, 10} THEN 30 ELSE 31

ValidDates == {t \in Date : t.day <= DaysIn(t.month)}
ASSUME DatesAssumption == \A t \in FirstDates : t \in Date /\ t.day <= DaysIn(t.month)
ASSUME PricesAssumption == Prices \subseteq Nat /\ MaxPurchases \in Nat /\ MaxWait \in Nat

Before(t, s) == t.month < s.month \/ (t.month = s.month /\ t.day < s.day)
NextDay(t) == IF t.day < DaysIn(t.month) THEN [t EXCEPT !.day = @ + 1]
              ELSE [month |-> t.month + 1, day |-> 1]

\* time.AddDate: a day its month does not have runs on into the next one.
\* (mutant: it stays)
AddMonths0(t, n) == [t EXCEPT !.month = @ + n]
AddMonths(t, n) ==
    LET over == t.day - DaysIn(t.month + n)
    IN IF over > 0 THEN [month |-> t.month + n + 1, day |-> over]
                   ELSE [month |-> t.month + n, day |-> t.day]

-----------------------------------------------------------------------------
VARIABLES
    plan,       \* the plan's expiry, and history: how the purchases that make
                \* it up began and how many months they were of
    today,
    purchases, waited,
    prices      \* the monthly prices of Pro and of Pro Max

billingVars == <<plan, today, purchases, waited, prices>>

NoDate == [month |-> 0, day |-> 1]
Plan == [start : Date, months : Nat, expiry : Date]

BillingInit ==
    /\ plan = [start |-> NoDate, months |-> 0, expiry |-> NoDate] /\ today = NoDate
    /\ purchases = 0 /\ waited = 0
    /\ prices = [pro |-> 0, max |-> 0]

\* The administrator prices the plans: any two prices.
SetPrices(p, q) ==
    /\ purchases = 0 /\ prices' = [pro |-> p, max |-> q]
    /\ UNCHANGED <<plan, today, purchases, waited>>

\* A grant at once after the quote: a plan that still runs is extended from
\* its end, one that is over starts again.  The duration is durationDays / 30
\* months.  (mutant: always from now)
GrantFrom0 == today
GrantFrom == IF Before(today, plan.expiry) THEN plan.expiry ELSE today
DurationDays(n) == n * 30
PlanEnd(start, days) == AddMonths(start, days \div 30)

Purchase(n) ==
    /\ 0 < purchases /\ purchases < MaxPurchases
    /\ plan' = [start |-> IF Before(today, plan.expiry) THEN plan.start ELSE today,
                months |-> IF Before(today, plan.expiry) THEN plan.months + n ELSE n,
                expiry |-> PlanEnd(GrantFrom, DurationDays(n))]
    /\ purchases' = purchases + 1
    /\ UNCHANGED <<today, waited, prices>>

FirstPurchase(t, n) ==
    /\ purchases = 0 /\ purchases' = 1
    /\ today' = t
    /\ plan' = [start |-> t, months |-> n, expiry |-> PlanEnd(t, DurationDays(n))]
    /\ UNCHANGED <<waited, prices>>

DayPasses ==
    /\ 0 < purchases /\ waited < MaxWait
    /\ today' = NextDay(today) /\ waited' = waited + 1
    /\ UNCHANGED <<plan, purchases, prices>>

PriceNext == \E p, q \in Prices : SetPrices(p, q)

TermNext ==
    \/ \E n \in BillingMonths :
        \/ Purchase(n)
        \/ \E t \in FirstDates : FirstPurchase(t, n)
    \/ DayPasses

BillingNext == PriceNext \/ TermNext

BillingSpec == BillingInit /\ [][BillingNext]_billingVars

-----------------------------------------------------------------------------
\* remainingBillingMonths: a cursor goes month by month from now until it
\* reaches the expiry.  Each step starts at the date the last one ended at.
\* (mutant: counts the month it reaches as well)
RemainingMonths0(now, expiry) ==
    LET count[t \in Date] == IF Before(expiry, t) THEN 0 ELSE 1 + count[AddMonths(t, 1)]
    IN count[now]
RemainingMonths(now, expiry) ==
    LET count[t \in Date] == IF Before(t, expiry) THEN 1 + count[AddMonths(t, 1)] ELSE 0
    IN count[now]

\* The months of the calendar from now to the expiry, the last one begun.
CalendarMonths(now, expiry) ==
    LET m == expiry.month - now.month
    IN IF ~ Before(now, expiry) THEN 0
       ELSE CHOOSE n \in (IF m > 0 THEN m - 1 ELSE 0)..(m + 1) :
                /\ ~ Before(AddMonths(now, n), expiry)
                /\ n > 0 => Before(AddMonths(now, n - 1), expiry)

\* discountedAmount: 15% off in whole cents for six months; 30% off for
\* twelve, where 0.7 is a double a little below 0.7.  The product of a whole
\* number of cents k falls short of it by one rounding when k is more than
\* 1.75 times the power of two below it, and the conversion then drops a cent.
\* (mutant: rounds up)
PowerBelow(k) == CHOOSE e \in {2^i : i \in 0..29} : e <= k /\ k < 2 * e
Yearly0(p) == (12 * p * 7 + 9) \div 10
Yearly(p) ==
    LET k == (12 * p * 7) \div 10
    IN IF k > 0 /\ (12 * p * 7) % 10 = 0 /\ 4 * k > 7 * PowerBelow(k) THEN k - 1 ELSE k
Amount(p, n) == CASE n = 6 -> (6 * p * 85) \div 100
                  [] n = 12 -> Yearly(p)
                  [] OTHER -> p

\* QuoteOrder: the difference of the monthly prices for each remaining month,
\* without a discount.
UpgradeAmount(n) == (prices.max - prices.pro) * n

-----------------------------------------------------------------------------
\* Dates are dates of the calendar and prices are of the list.
BillingTypeOK ==
    /\ plan \in Plan /\ today \in Date
    /\ \A t \in {plan.start, plan.expiry, today} : t.day <= DaysIn(t.month)
    /\ prices \in [pro : Nat, max : Nat] /\ purchases \in Nat /\ waited \in Nat

\* Days from the first day of a month, for a date in it or in the next.
Offset(t, month) == t.day + (IF t.month = month THEN 0 ELSE DaysIn(month))

\* However a term is split into purchases, and however days run on at the
\* ends of months, the plan ends when all its months bought at once would
\* end, two days before to three days after.
RenewalsAddUp ==
    LET last == plan.start.month + plan.months
        once == AddMonths(plan.start, plan.months)
        gain == Offset(plan.expiry, last) - Offset(once, last)
    IN {plan.expiry.month, once.month} \subseteq {last, last + 1} /\ gain \in -2..3

\* The months an upgrade charges are the months of the calendar that are
\* left, the last one begun, or one more or less from the days at which the
\* cursor can slip; never more than were bought, and one.
UpgradeMonthsFair ==
    LET charged == RemainingMonths(today, plan.expiry)
        left == CalendarMonths(today, plan.expiry)
    IN /\ charged - left \in (IF today.day <= 28 THEN {0} ELSE -1..1)
       /\ charged <= plan.months + 1

\* A longer purchase never costs more per month, and buying Pro first and
\* upgrading at once never costs less than buying Pro Max.
PricesFair ==
    /\ \A p \in {prices.pro, prices.max} :
        /\ 2 * Amount(p, 6) >= Amount(p, 12) /\ 6 * Amount(p, 1) >= Amount(p, 6)
        /\ 10 * (Amount(p, 12) + 2) > 84 * p /\ 10 * Amount(p, 12) <= 84 * p
    /\ prices.pro < prices.max =>
        \A n \in BillingMonths :
            Amount(prices.pro, n) + UpgradeAmount(n) >= Amount(prices.max, n)

=============================================================================
