----------------------------- MODULE AccessBook -----------------------------
(***************************************************************************)
(* What accounts promise, without requests, copies, versions or rows: who  *)
(* has an account and in which role, which codes may be used, who is let   *)
(* in, which sessions are in force, and which devices are whose and need   *)
(* no code.  Sessions implements it (Book in that module) until two        *)
(* requests overlap.                                                       *)
(*                                                                         *)
(* A pair of a user and a device stands for the code of a login, for the   *)
(* login, and for the device's registration; a pair with no device for the *)
(* code that registers an account.                                         *)
(***************************************************************************)
EXTENDS Integers, FiniteSets

CONSTANTS Users, Addresses, Devices, NoDevice, MaxDevices

VARIABLES
    role,       \* of each user: "none" without an account
    codes,      \* the codes that may be used
    shown,      \* the codes whose use has begun
    admitted,   \* logins that were let in, each to open one session
    handed,     \* the session tokens that were handed out
    open,       \* those of them that are a user's one session
    owned,      \* devices and their users
    trusted     \* the devices that need no code

bookVars == <<role, codes, shown, admitted, handed, open, owned, trusted>>
entry == <<shown, admitted>>
sessions == <<handed, open>>
registry == <<owned, trusted>>

Pair(u, d) == [user |-> u, device |-> d]
Pairs == [user : Users, device : Devices \cup {NoDevice}]

DevicesOf(u) == {p \in owned : p.user = u}
Free(p) == \A q \in owned : q.device = p.device => q = p

\* An administrator is let in by any token, a user by the open session.
Valid(t) == role[t.user] = "admin" \/ (role[t.user] = "user" /\ t \in open)

BookInit ==
    /\ role \in [Users -> {"none", "admin"}]
    /\ codes = {} /\ shown = {} /\ admitted = {} /\ handed = {} /\ open = {}
    /\ owned = {} /\ trusted = {}

\* A code is sent to whoever has no account, or to a user's address.
Send(p) ==
    /\ IF p.device = NoDevice THEN role[p.user] = "none"
       ELSE role[p.user] = "user" /\ p.user \in Addresses
    /\ p \notin codes /\ codes' = codes \cup {p}
    /\ UNCHANGED <<role, entry, sessions, registry>>

\* A code runs out, or a later one replaces it.
Void(p) ==
    /\ codes' = codes \ {p}
    /\ UNCHANGED <<role, entry, sessions, registry>>

Show(p) ==
    /\ p \in codes /\ shown' = shown \cup {p}
    /\ UNCHANGED <<role, codes, admitted, sessions, registry>>

Register(p) ==
    /\ p \in shown /\ p.device = NoDevice /\ role[p.user] = "none"
    /\ role' = [role EXCEPT ![p.user] = "user"]
    /\ codes' = codes \ {p} /\ shown' = shown \ {p}
    /\ UNCHANGED <<admitted, sessions, registry>>

\* A code lets one login in, and is gone before there is a session.
AdmitByCode(p) ==
    /\ p \in shown /\ p.device # NoDevice
    /\ codes' = codes \ {p} /\ shown' = shown \ {p} /\ admitted' = admitted \cup {p}
    /\ UNCHANGED <<role, sessions, registry>>

\* The password alone lets in an administrator, an account that is not called
\* by an address, and a trusted device.
AdmitKnown(p) ==
    /\ \/ role[p.user] = "admin" \/ p \in trusted
       \/ role[p.user] = "user" /\ p.user \notin Addresses
    /\ admitted' = admitted \cup {p}
    /\ UNCHANGED <<role, codes, shown, sessions, registry>>

Leave(p) ==
    /\ shown' = shown \ {p} /\ admitted' = admitted \ {p}
    /\ UNCHANGED <<role, codes, sessions, registry>>

\* The devices that make room for p: none but for one that is new to a user
\* with a limit, and no more of them than need be.
Displaced(p) ==
    LET mine == DevicesOf(p.user)
    IN IF p \in owned \/ role[p.user] = "admin" \/ MaxDevices = 0 \/ Cardinality(mine) < MaxDevices
       THEN {{}}
       ELSE {gone \in SUBSET mine : Cardinality(mine \ gone) = MaxDevices - 1}

\* An administrator's sessions are not counted; a user's replaces the one
\* before, by a token that nobody was handed.
Open(p, t, trust, gone) ==
    /\ p \in admitted /\ Free(p) /\ t.user = p.user
    /\ \/ role[p.user] = "admin" /\ open' = open
       \/ /\ role[p.user] = "user" /\ t.device = p.device /\ t \notin handed
          /\ open' = {s \in open : s.user # p.user} \cup {t}
    /\ handed' = handed \cup {t}
    /\ owned' = (owned \ gone) \cup {p}
    /\ trusted' = (trusted \ (gone \cup {p})) \cup (IF trust THEN {p} ELSE {})
    /\ admitted' = admitted \ {p}
    /\ UNCHANGED <<role, codes, shown>>

\* What a valid token may do: end the user's session and the trust in all the
\* devices, or in the token's own; or name a device that no other user has.
ChangePassword(t) ==
    /\ Valid(t)
    /\ open' = {s \in open : s.user # t.user}
    /\ trusted' = {p \in trusted : p.user # t.user}
    /\ UNCHANGED <<role, codes, entry, handed, owned>>

Logout(t) ==
    /\ Valid(t)
    /\ open' = {s \in open : s.user # t.user}
    /\ trusted' = trusted \ {Pair(t.user, t.device)}
    /\ UNCHANGED <<role, codes, entry, handed, owned>>

AddDevice(t, d) ==
    /\ Valid(t) /\ Free(Pair(t.user, d))
    /\ owned' = owned \cup {Pair(t.user, d)}
    /\ UNCHANGED <<role, codes, entry, sessions, trusted>>

SetRole(u, r) ==
    /\ role[u] # "none" /\ role' = [role EXCEPT ![u] = r]
    /\ UNCHANGED <<codes, entry, sessions, registry>>

Lapse(p) ==
    /\ trusted' = trusted \ {p}
    /\ UNCHANGED <<role, codes, entry, sessions, owned>>

BookNext ==
    \/ \E p \in Pairs : \/ Send(p) \/ Void(p) \/ Show(p) \/ Leave(p)
                        \/ Register(p) \/ AdmitByCode(p) \/ AdmitKnown(p) \/ Lapse(p)
    \/ \E p \in admitted, t \in handed', trust \in BOOLEAN :
         \E gone \in Displaced(p) : Open(p, t, trust, gone)
    \/ \E t \in handed : \/ ChangePassword(t) \/ Logout(t)
                         \/ \E d \in Devices : AddDevice(t, d)
    \/ \E u \in Users, r \in {"user", "admin"} : SetRole(u, r)

=============================================================================
