----------------------------- MODULE MCSessions -----------------------------
(***************************************************************************)
(* A small instance of Sessions for TLC.  Neither devices nor workers are  *)
(* compared by order.                                                      *)
(***************************************************************************)
EXTENDS Sessions, TLC

Symmetric == Permutations(Workers) \cup Permutations(Devices)

\* One request at a time, through many sessions of a registered user: with a
\* failure and a change of role while one device is registered, and with one
\* of them while up to three are.
OneByOne ==
    /\ overlaps = 0 /\ Len(regs) <= 1
    /\ roleChanges + failures <= 1 \/ Len(devices) <= 1

\* Requests that overlap, while an address is registered and its first
\* sessions begin.
Registering ==
    /\ Len(challenges) <= 1 /\ Len(devices) <= 1
    /\ \A u \in Users : users[u].version <= 1
    /\ roleChanges = 0
    /\ Cardinality({job[w].device : w \in Workers} \ {NoDevice}) <= 1

\* One of the two users has an account, or is about to: the one with an
\* address, or the one without, who registers in the same way and is followed
\* with fewer devices.
OnlyUser(u) ==
    \A x \in Users \ {u} :
        /\ ~ Exists(x) /\ \A w \in Workers : job[w].user # x
        /\ \A r \in DOMAIN regs : regs[r].user # x

\* A constraint: TLC goes on from states of these kinds.
Scope ==
    \/ (\E u \in Addresses : OnlyUser(u)) /\ (OneByOne \/ Registering)
    \/ (\E u \in Users \ Addresses : OnlyUser(u)) /\ OneByOne
            /\ Len(devices) <= 2 /\ roleChanges + failures <= 1

=============================================================================
