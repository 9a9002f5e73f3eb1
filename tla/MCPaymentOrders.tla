-------------------------- MODULE MCPaymentOrders --------------------------
(***************************************************************************)
(* Small instances of PaymentOrders for TLC.                               *)
(***************************************************************************)
EXTENDS PaymentOrders, TLC

\* The expiry an administrator assigns.
UntilZero == {0}
UntilOne == {1}

\* Orders and workers are interchangeable: no action compares them.
OrderSymmetry == Permutations(Orders)
WorkerSymmetry == Permutations(Workers)
OrderAndWorkerSymmetry == Permutations(Orders) \cup Permutations(Workers)

\* No safety action reads the callback log or the provider's acknowledgements.
SafetyView == <<orders, subs, job, prov, sent, bounds>>

\* Requests that keep apart, in two kinds of state: those in which one order,
\* Solo, is all there is, and those in which another came first, both of them
\* of one product, without an administrator and with one request at a time.
Solo == CHOOSE o \in Orders : TRUE
OneRequest == \A v, w \in Workers : v # w => "idle" \in {job[v].pc, job[w].pc}
Apart ==
    /\ OrdersApart /\ PlansApart /\ CreatesApart
    /\ \/ Orders \ Unborn \subseteq {Solo}
       \/ /\ orders[Solo].id # 1 /\ "vip2" \notin {orders[o].plan : o \in Orders}
          /\ OneRequest /\ now <= 1 /\ adminCalls = 0
=============================================================================
