------------------------------ MODULE Sessions ------------------------------
(***************************************************************************)
(* Accounts, sessions and trusted devices:                                 *)
(* internal/services/auth_service.go and device_service.go, and the check  *)
(* of every protected request in internal/middleware/auth.go.              *)
(*                                                                         *)
(* A request reads the user, answers or goes on with its copy, and writes  *)
(* later; only registration's and login's last writes, a password change   *)
(* and a logout are transactions.  A transaction that reads is two         *)
(* actions: its snapshot, and the commit of all its writes.                *)
(*                                                                         *)
(* A row's id is its index in regs, challenges or devices.  Passwords,     *)
(* codes and the identifier are right: a wrong one changes nothing.  A     *)
(* token of seven days is one that never expires.                          *)
(***************************************************************************)
EXTENDS Integers, Sequences, FiniteSets

CONSTANTS
    Users,          \* what an account may be called
    Addresses,      \* those of them that are email addresses (looksLikeEmail)
    Devices,
    NoDevice,       \* nil, or the empty id
    NoUser,
    Workers,        \* goroutines that serve requests at the same time
    MaxDevices,     \* max_devices of a user's plan, 0 for no limit; administrators'
                    \* 999 is taken for none
    MaxRegs, MaxChallenges, MaxRows, MaxGrants,     \* bounds: rows ever inserted
    MaxVersion,     \* bound: session_version
    MaxRoles,       \* bound: role changes
    MaxOverlaps,    \* bound: requests that start while another is served
    MaxFailures     \* bound: failed requests

ASSUME AddressAssumption == Addresses \subseteq Users
ASSUME DeviceAssumption == NoDevice \notin Devices
ASSUME LimitAssumption == MaxDevices \in Nat
ASSUME BoundsAssumption ==
    {MaxRegs, MaxChallenges, MaxRows, MaxGrants, MaxVersion, MaxRoles, MaxOverlaps,
     MaxFailures} \subseteq Nat

VARIABLES
    users,      \* users, by the column email; role "none" while there is no row
    regs,       \* registration_verifications
    challenges, \* login_verifications, each with how often it logged in
    devices,    \* devices; live is FALSE once a row is deleted
    grants,     \* the trusted tokens handed out; history: revoked
    tokens,     \* the session tokens handed out
    job,        \* what each worker is doing, and its copy of what it read
    overlaps,   \* history: how many requests began while another was served
    roleChanges, failures

rows == <<regs, challenges, devices, grants>>
bounds == <<roleChanges, failures>>
vars == <<users, rows, tokens, job, overlaps, bounds>>

AnyDevice == Devices \cup {NoDevice}
CodeStatuses == {"pending", "expired", "consumed", "deleted"}
User == [role : {"none", "user", "admin"}, active : AnyDevice, version : Nat]
Reg == [user : Users, status : CodeStatuses]
Challenge == [user : Users, device : Devices, status : CodeStatuses, logins : Nat]

\* trust is the index in grants of the token whose hash the row has, or 0.
Device == [user : Users, device : Devices, trust : Nat, live : BOOLEAN]
Grant == [user : Users, device : Devices, expired : BOOLEAN, revoked : BOOLEAN]
Token == [user : Users, device : AnyDevice, version : Nat]

\* code: the registration or challenge; role, version, active: copies of the
\* user; row, held: the device row that was found and its token; gone: the
\* device rows that trimDevices will delete.
Job == [pc : {"idle", "regDelete", "regCreate", "regFind", "regCommit", "device", "chDelete",
              "chCreate", "verifyUser", "consume", "trustDevice", "txRead", "txCommit",
              "change", "logoutRead", "logout", "touchRead", "touch"},
        user : Users \cup {NoUser}, device : AnyDevice, trust : BOOLEAN, code : Nat,
        role : {"none", "user", "admin"}, version : Nat, active : AnyDevice,
        row : Nat, held : Nat, gone : SUBSET Nat]

Idle == [pc |-> "idle", user |-> NoUser, device |-> NoDevice,
         trust |-> FALSE, code |-> 0, role |-> "none", version |-> 0, active |-> NoDevice,
         row |-> 0, held |-> 0, gone |-> {}]

Busy == \E v \in Workers : job[v] # Idle
CountOverlap ==
    IF Busy THEN overlaps < MaxOverlaps /\ overlaps' = overlaps + 1 ELSE overlaps' = overlaps
Begin(w, j) ==
    /\ job[w] = Idle /\ job' = [job EXCEPT ![w] = j]
    /\ CountOverlap
Goto(w, pc) == job' = [job EXCEPT ![w].pc = pc]
End(w) == job' = [job EXCEPT ![w] = Idle]

Exists(u) == users[u].role # "none"

\* RequireAuth: the session is the user's one session; administrators have many.
Accepted(t) ==
    \/ users[t.user].role = "admin"
    \/ /\ users[t.user].role = "user"
       /\ t.device # NoDevice /\ users[t.user].active = t.device
       /\ users[t.user].version = t.version

RowsOf(u) == {r \in DOMAIN devices : devices[r].live /\ devices[r].user = u}
RowFor(u, d) == {r \in RowsOf(u) : devices[r].device = d}
Taken(d) == {r \in DOMAIN devices : devices[r].live /\ devices[r].device = d}
Trusts(r) == devices[r].trust # 0 /\ ~ grants[devices[r].trust].expired

NewUser(role) == [role |-> role, active |-> NoDevice, version |-> 0]

\* EnsureAdmin: an account may be the configured administrator's, by default "admin".
Init ==
    /\ users \in [Users -> {NewUser("none"), NewUser("admin")}]
    /\ regs = <<>> /\ challenges = <<>> /\ devices = <<>> /\ grants = <<>> /\ tokens = {}
    /\ job = [w \in Workers |-> Idle]
    /\ overlaps = 0 /\ roleChanges = 0 /\ failures = 0

-----------------------------------------------------------------------------
(* Registration *)

BeginRegister(w, u) ==
    /\ ~ Exists(u)
    /\ Begin(w, [Idle EXCEPT !.pc = "regDelete", !.user = u])
    /\ UNCHANGED <<users, rows, tokens, bounds>>

\* The codes of the user that nobody has used are deleted.
RegDelete(w) ==
    /\ job[w].pc = "regDelete"
    /\ regs' = [r \in DOMAIN regs |->
                  IF regs[r].user = job[w].user /\ regs[r].status # "consumed"
                  THEN [regs[r] EXCEPT !.status = "deleted"] ELSE regs[r]]
    /\ Goto(w, "regCreate")
    /\ UNCHANGED <<users, challenges, devices, grants, tokens, overlaps, bounds>>

RegCreate(w) ==
    /\ job[w].pc = "regCreate" /\ Len(regs) < MaxRegs
    /\ regs' = Append(regs, [user |-> job[w].user, status |-> "pending"])
    /\ End(w)
    /\ UNCHANGED <<users, challenges, devices, grants, tokens, overlaps, bounds>>

VerifyRegister(w, r) ==
    /\ ~ Exists(regs[r].user)
    /\ Begin(w, [Idle EXCEPT !.pc = "regFind", !.user = regs[r].user, !.code = r])
    /\ UNCHANGED <<users, rows, tokens, bounds>>

RegFind(w) ==
    /\ job[w].pc = "regFind"
    /\ IF regs[job[w].code].status = "pending" THEN Goto(w, "regCommit") ELSE End(w)
    /\ UNCHANGED <<users, rows, tokens, overlaps, bounds>>

\* An update of consumed_at finds no row when the code has been deleted.
Consumed(status) == IF status = "deleted" THEN "deleted" ELSE "consumed"

\* The unique index on email refuses a second account: all is rolled back.
RollsBack0(u) == FALSE                                  \* mutant: consumed, created if it can be
RollsBack(u) == Exists(u)

RegCommit(w) ==
    LET j == job[w]
    IN /\ j.pc = "regCommit" /\ ~ RollsBack(j.user)
       /\ regs' = [regs EXCEPT ![j.code].status = Consumed(@)]
       /\ users' = IF Exists(j.user) THEN users
                   ELSE [users EXCEPT ![j.user] = NewUser("user")]
       /\ End(w)
       /\ UNCHANGED <<challenges, devices, grants, tokens, overlaps, bounds>>

RegRollback(w) ==
    /\ job[w].pc = "regCommit" /\ RollsBack(job[w].user)
    /\ End(w)
    /\ UNCHANGED <<users, rows, tokens, overlaps, bounds>>

-----------------------------------------------------------------------------
(* Login *)

\* BeginPasswordLogin: the user's row is read once, for the whole login.
Login(w, u, d, trust) ==
    /\ Exists(u)
    /\ Begin(w, [Idle EXCEPT !.pc = "device", !.user = u, !.device = d, !.trust = trust,
                             !.role = users[u].role, !.version = users[u].version])
    /\ UNCHANGED <<users, rows, tokens, bounds>>

TrustedNow(u, d) == \E r \in RowFor(u, d) : Trusts(r)

\* No code is needed by an administrator, by a user who is not called by an
\* address, and on a device that is still trusted.
NeedsNoCode(j) == j.role = "admin" \/ j.user \notin Addresses
Recognised0(j) == NeedsNoCode(j) \/ RowFor(j.user, j.device) # {}    \* mutant: trust is not looked at
Recognised(j) == NeedsNoCode(j) \/ TrustedNow(j.user, j.device)

LoginDevice(w) ==
    LET j == job[w]
    IN /\ j.pc = "device"
       /\ IF Recognised(j)
          THEN Goto(w, "txRead") ELSE Goto(w, "chDelete")
       /\ UNCHANGED <<users, rows, tokens, overlaps, bounds>>

\* createLoginChallenge: the unused codes of the device are deleted.
ChallengeDelete(w) ==
    LET j == job[w]
    IN /\ j.pc = "chDelete"
       /\ challenges' = [c \in DOMAIN challenges |->
                           IF /\ challenges[c].user = j.user /\ challenges[c].device = j.device
                              /\ challenges[c].status # "consumed"
                           THEN [challenges[c] EXCEPT !.status = "deleted"]
                           ELSE challenges[c]]
       /\ Goto(w, "chCreate")
       /\ UNCHANGED <<users, regs, devices, grants, tokens, overlaps, bounds>>

ChallengeCreate(w) ==
    LET j == job[w]
    IN /\ j.pc = "chCreate" /\ Len(challenges) < MaxChallenges
       /\ challenges' = Append(challenges, [user |-> j.user, device |-> j.device,
                                            status |-> "pending", logins |-> 0])
       /\ End(w)
       /\ UNCHANGED <<users, regs, devices, grants, tokens, overlaps, bounds>>

VerifyLogin(w, c, trust) ==
    /\ challenges[c].status = "pending"
    /\ Begin(w, [Idle EXCEPT !.pc = "verifyUser", !.user = challenges[c].user,
                             !.device = challenges[c].device, !.trust = trust, !.code = c])
    /\ UNCHANGED <<users, rows, tokens, bounds>>

\* The user is active on another device: answered with a conflict, the code unused.
Conflict(u, d) ==
    users[u].role # "admin" /\ users[u].active \notin {NoDevice, d}

VerifyUser(w, force) ==
    LET j == job[w]
    IN /\ j.pc = "verifyUser"
       /\ IF Conflict(j.user, j.device) /\ ~ force
          THEN End(w)
          ELSE job' = [job EXCEPT ![w].pc = "consume", ![w].role = users[j.user].role,
                                  ![w].version = users[j.user].version]
       /\ UNCHANGED <<users, rows, tokens, overlaps, bounds>>

LoginConsumed0(status) == status                        \* mutant: consumed_at is not saved
LoginConsumed(status) == Consumed(status)

\* Committed on its own, before the login.
Consume(w) ==
    /\ job[w].pc = "consume"
    /\ challenges' = [challenges EXCEPT ![job[w].code].status = LoginConsumed(@)]
    /\ Goto(w, "txRead")
    /\ UNCHANGED <<users, regs, devices, grants, tokens, overlaps, bounds>>

TrustedLogin(w, u, d) ==
    /\ Exists(u)
    /\ Begin(w, [Idle EXCEPT !.pc = "trustDevice", !.user = u, !.device = d, !.trust = TRUE,
                             !.role = users[u].role, !.version = users[u].version])
    /\ UNCHANGED <<users, rows, tokens, bounds>>

TrustedDevice(w) ==
    /\ job[w].pc = "trustDevice"
    /\ IF TrustedNow(job[w].user, job[w].device) THEN Goto(w, "txRead") ELSE End(w)
    /\ UNCHANGED <<users, rows, tokens, overlaps, bounds>>

-----------------------------------------------------------------------------
(* finalizeLogin: one transaction *)

\* trimDevices makes room for one more; which rows are the least recently
\* seen is left open.
Unlimited0(j) == MaxDevices = 0                         \* mutant: administrators too
Unlimited(j) == j.role = "admin" \/ MaxDevices = 0
Excess0(u) == Cardinality(RowsOf(u)) - MaxDevices    \* mutant: no room for the new row
Excess(u) == Cardinality(RowsOf(u)) - MaxDevices + 1
Trimmed(j) ==
    IF Unlimited(j) \/ Excess(j.user) <= 0 THEN {{}}
    ELSE {R \in SUBSET RowsOf(j.user) : Cardinality(R) = Excess(j.user)}

TxRead(w) ==
    LET j == job[w]
    IN /\ j.pc = "txRead"
       /\ \/ \E r \in RowFor(j.user, j.device) :
               job' = [job EXCEPT ![w].pc = "txCommit", ![w].row = r]
          \/ /\ RowFor(j.user, j.device) = {}
             /\ \E R \in Trimmed(j) :
                  job' = [job EXCEPT ![w].pc = "txCommit", ![w].gone = R]
       /\ UNCHANGED <<users, rows, tokens, overlaps, bounds>>

\* The rows after the deletions.  device_id alone is unique: a row of the
\* device, be it another user's, refuses an insert.
Kept(gone) ==
    [r \in DOMAIN devices |->
        IF r \in gone THEN [devices[r] EXCEPT !.live = FALSE] ELSE devices[r]]
Refused(j) == j.row = 0 /\ Taken(j.device) \ j.gone # {}

\* Save updates the row that was read or, if that has been deleted, inserts
\* it again - over a row that has its device id by now.
Saved(devs, u, d, trust) ==
    LET row == [user |-> u, device |-> d, trust |-> trust, live |-> TRUE]
        same == {r \in DOMAIN devs : devs[r].live /\ devs[r].device = d}
    IN IF same = {} THEN Append(devs, row)
       ELSE [r \in DOMAIN devs |-> IF r \in same THEN row ELSE devs[r]]

\* History: the trusted tokens of a user's devices D are to be of no use from now on.
Revoked(u, D) ==
    [g \in DOMAIN grants |->
        IF grants[g].user = u /\ grants[g].device \in D
        THEN [grants[g] EXCEPT !.revoked = TRUE] ELSE grants[g]]

NextVersion0(j) == j.version                            \* mutant: the version stays
NextVersion(j) == j.version + 1

TxCommit(w) ==
    LET j == job[w]
    IN /\ j.pc = "txCommit" /\ ~ Refused(j)
       /\ j.version < MaxVersion
       /\ devices' = Saved(Kept(j.gone), j.user, j.device,
                           IF j.trust THEN Len(grants) + 1 ELSE 0)
       /\ grants' = IF j.trust
                    THEN Append(Revoked(j.user, {j.device}),
                                [user |-> j.user, device |-> j.device,
                                 expired |-> FALSE, revoked |-> FALSE])
                    ELSE Revoked(j.user, {j.device})
       /\ Len(devices') <= MaxRows /\ Len(grants') <= MaxGrants
       /\ IF j.role = "admin"
          THEN /\ users' = users
               /\ tokens' = tokens \cup {[user |-> j.user, device |-> NoDevice, version |-> 0]}
          ELSE /\ users' = [users EXCEPT ![j.user].active = j.device,
                                         ![j.user].version = NextVersion(j)]
               /\ tokens' = tokens \cup {[user |-> j.user, device |-> j.device,
                                          version |-> NextVersion(j)]}
       /\ challenges' = IF j.code = 0 THEN challenges
                        ELSE [challenges EXCEPT ![j.code].logins = @ + 1]
       /\ End(w)
       /\ UNCHANGED <<regs, overlaps, bounds>>

TxRollback(w) ==
    /\ job[w].pc = "txCommit" /\ Refused(job[w])
    /\ End(w)
    /\ UNCHANGED <<users, rows, tokens, overlaps, bounds>>

-----------------------------------------------------------------------------
(* Requests of a session: RequireAuth has accepted the token *)

Untrusted0(R) == devices                                \* mutant: the devices stay trusted
Untrusted(R) ==
    [r \in DOMAIN devices |->
        IF r \in R THEN [devices[r] EXCEPT !.trust = 0] ELSE devices[r]]

ChangePassword(w, t) ==
    /\ Accepted(t)
    /\ Begin(w, [Idle EXCEPT !.pc = "change", !.user = t.user])
    /\ UNCHANGED <<users, rows, tokens, bounds>>

ChangeCommit(w) ==
    LET u == job[w].user
    IN /\ job[w].pc = "change" /\ users[u].version < MaxVersion
       /\ users' = [users EXCEPT ![u].active = NoDevice, ![u].version = @ + 1]
       /\ devices' = Untrusted(RowsOf(u))
       /\ grants' = Revoked(u, Devices)
       /\ End(w)
       /\ UNCHANGED <<regs, challenges, tokens, overlaps, bounds>>

Logout(w, t) ==
    /\ Accepted(t)
    /\ Begin(w, [Idle EXCEPT !.pc = "logoutRead", !.user = t.user, !.device = t.device])
    /\ UNCHANGED <<users, rows, tokens, bounds>>

LogoutRead(w) ==
    /\ job[w].pc = "logoutRead"
    /\ job' = [job EXCEPT ![w].pc = "logout", ![w].active = users[job[w].user].active]
    /\ UNCHANGED <<users, rows, tokens, overlaps, bounds>>

LogoutCommit(w) ==
    LET j == job[w]
    IN /\ j.pc = "logout" /\ users[j.user].version < MaxVersion
       /\ users' = [users EXCEPT ![j.user].version = @ + 1,
                                 ![j.user].active = IF j.device # NoDevice /\ j.active = j.device
                                                    THEN NoDevice ELSE @]
       /\ devices' = Untrusted(RowFor(j.user, j.device))
       /\ grants' = Revoked(j.user, {j.device})
       /\ End(w)
       /\ UNCHANGED <<regs, challenges, tokens, overlaps, bounds>>

\* RegisterOrTouch, of any device id: the plan's limit is not looked at.
RegisterDevice(w, t, d) ==
    /\ Accepted(t)
    /\ Begin(w, [Idle EXCEPT !.pc = "touchRead", !.user = t.user, !.device = d])
    /\ UNCHANGED <<users, rows, tokens, bounds>>

TouchRead(w) ==
    LET j == job[w]
    IN /\ j.pc = "touchRead"
       /\ \/ \E r \in RowFor(j.user, j.device) :
               job' = [job EXCEPT ![w].pc = "touch", ![w].row = r, ![w].held = devices[r].trust]
          \/ /\ RowFor(j.user, j.device) = {}
             /\ Goto(w, "touch")
       /\ UNCHANGED <<users, rows, tokens, overlaps, bounds>>

\* The whole row is saved, the trusted token that was read with it.
Touch(w) ==
    LET j == job[w]
    IN /\ j.pc = "touch"
       /\ devices' = IF Refused(j) THEN devices ELSE Saved(devices, j.user, j.device, j.held)
       /\ Len(devices') <= MaxRows
       /\ End(w)
       /\ UNCHANGED <<users, regs, challenges, grants, tokens, overlaps, bounds>>

-----------------------------------------------------------------------------
(* The administrator, the clock, and failures *)

AssignableRoles0 == {"user", "admin", "other"}          \* mutant: any role is taken
AssignableRoles == {"user", "admin"}

UpdateRole(u, role) ==
    /\ Exists(u) /\ role # users[u].role /\ roleChanges < MaxRoles
    /\ users' = [users EXCEPT ![u].role = role]
    /\ roleChanges' = roleChanges + 1
    /\ CountOverlap
    /\ UNCHANGED <<rows, tokens, job, failures>>

RegExpires(r) ==
    /\ regs[r].status = "pending"
    /\ regs' = [regs EXCEPT ![r].status = "expired"]
    /\ UNCHANGED <<users, challenges, devices, grants, tokens, job, overlaps, bounds>>

ChallengeExpires(c) ==
    /\ challenges[c].status = "pending"
    /\ challenges' = [challenges EXCEPT ![c].status = "expired"]
    /\ UNCHANGED <<users, regs, devices, grants, tokens, job, overlaps, bounds>>

TrustExpires(g) ==
    /\ ~ grants[g].expired
    /\ grants' = [grants EXCEPT ![g].expired = TRUE]
    /\ UNCHANGED <<users, regs, challenges, devices, tokens, job, overlaps, bounds>>

\* A request ends where it stands: an error, or a crash.
Fail(w) ==
    /\ job[w] # Idle /\ failures < MaxFailures
    /\ End(w) /\ failures' = failures + 1
    /\ UNCHANGED <<users, rows, tokens, overlaps, roleChanges>>

Register(w) ==
    \/ \E u \in Users : BeginRegister(w, u)
    \/ \E r \in DOMAIN regs : VerifyRegister(w, r)
    \/ RegDelete(w) \/ RegCreate(w) \/ RegFind(w) \/ RegCommit(w) \/ RegRollback(w)

LogIn(w) ==
    \/ \E u \in Users, d \in Devices : TrustedLogin(w, u, d) \/ \E b \in BOOLEAN : Login(w, u, d, b)
    \/ \E c \in DOMAIN challenges, b \in BOOLEAN : VerifyLogin(w, c, b)
    \/ LoginDevice(w) \/ ChallengeDelete(w) \/ ChallengeCreate(w)
    \/ \E force \in BOOLEAN : VerifyUser(w, force)
    \/ Consume(w) \/ TrustedDevice(w) \/ TxRead(w) \/ TxCommit(w) \/ TxRollback(w)

InSession(w) ==
    \/ \E t \in tokens : \/ ChangePassword(w, t) \/ Logout(w, t)
                         \/ \E d \in Devices : RegisterDevice(w, t, d)
    \/ ChangeCommit(w) \/ LogoutRead(w) \/ LogoutCommit(w) \/ TouchRead(w) \/ Touch(w)

Time ==
    \/ \E r \in DOMAIN regs : RegExpires(r)
    \/ \E c \in DOMAIN challenges : ChallengeExpires(c)
    \/ \E g \in DOMAIN grants : TrustExpires(g)

Next ==
    \/ \E w \in Workers : Register(w) \/ LogIn(w) \/ InSession(w) \/ Fail(w)
    \/ \E u \in Users, role \in AssignableRoles : UpdateRole(u, role)
    \/ Time

Spec == Init /\ [][Next]_vars

-----------------------------------------------------------------------------
\* Every variable has its type.
TypeOK ==
    /\ users \in [Users -> User]
    /\ regs \in Seq(Reg) /\ challenges \in Seq(Challenge)
    /\ devices \in Seq(Device) /\ grants \in Seq(Grant)
    /\ \A r \in DOMAIN devices : devices[r].trust <= Len(grants)
    /\ tokens \subseteq Token
    /\ job \in [Workers -> Job]
    /\ overlaps \in Nat /\ roleChanges \in Nat /\ failures \in Nat

\* A code that was used made an account, and a user is registered by one
\* code: the transaction of VerifyRegister undoes the use of a code, or of the
\* same code twice, when another request has created the account.
RegisteredOnce ==
    \A r \in DOMAIN regs : regs[r].status = "consumed" =>
        /\ Exists(regs[r].user)
        /\ \A q \in DOMAIN regs :
             regs[q].status = "consumed" /\ regs[q].user = regs[r].user => q = r

\* Until two requests overlap, a login code logs in once, whatever fails after
\* it was used (VerifyLoginChallenge tests consumed_at before it sets it).
ChallengeLogsInOnce ==
    overlaps = 0 => \A c \in DOMAIN challenges : challenges[c].logins <= 1

\* Until two requests overlap, a session that has been replaced, logged out or
\* ended by a password change is never accepted again: session_version never
\* returns to the token's.  A user made administrator is accepted by any token.
RevokedStaysRevoked ==
    [][overlaps' = 0 =>
         \A t \in tokens :
            users'[t.user].role = users[t.user].role /\ ~ Accepted(t) => ~ Accepted(t)']_vars

\* Until two requests overlap, a trusted token that was replaced, or revoked by
\* a logout or a password change, is on no device row.
TrustStaysRevoked ==
    overlaps = 0 =>
        \A r \in DOMAIN devices :
            devices[r].live /\ devices[r].trust # 0 => ~ grants[devices[r].trust].revoked

\* Until two requests overlap, the device a user is active on has a row: no
\* trimming, logout, touch or change of role takes it away.
ActiveHasDevice ==
    overlaps = 0 =>
        \A u \in Users : users[u].active # NoDevice => RowFor(u, users[u].active) # {}

\* Until two requests overlap, a login from a new device leaves its user no
\* more devices than the plan allows, though RegisterOrTouch may have added
\* any number (trimDevices).
Adds(w, u) ==
    /\ job[w].pc = "txCommit" /\ job[w].role = "user" /\ job[w].user = u /\ job[w].row = 0
    /\ Len(devices') > Len(devices)
DevicesWithinPlan ==
    [][\A w \in Workers, u \in Users :
         Adds(w, u) /\ overlaps = 0 /\ MaxDevices > 0 => Cardinality(RowsOf(u)') <= MaxDevices]_vars

\* The access book that the tables and the requests stand for.
Of(x) == [user |-> x.user, device |-> x.device]
Pending(codes) == {c \in DOMAIN codes : codes[c].status = "pending"}
LiveRows == {r \in DOMAIN devices : devices[r].live}
IsSession(t) ==
    t.device # NoDevice /\ users[t.user].active = t.device /\ users[t.user].version = t.version
At(places) == {Of(job[w]) : w \in {v \in Workers : job[v].pc \in places}}

Roles == [u \in Users |-> users[u].role]
Codes == {Of(challenges[c]) : c \in Pending(challenges)}
            \cup {[user |-> regs[r].user, device |-> NoDevice] : r \in Pending(regs)}
Shown == At({"verifyUser", "consume", "regCommit"})
Admitted == At({"txRead", "txCommit"})
OpenSessions == {t \in tokens : IsSession(t)}
Owned == {Of(devices[r]) : r \in LiveRows}
TrustedDevices == {Of(devices[r]) : r \in {q \in LiveRows : Trusts(q)}}

Book == INSTANCE AccessBook WITH
    role <- Roles, codes <- Codes, shown <- Shown, admitted <- Admitted,
    handed <- tokens, open <- OpenSessions, owned <- Owned, trusted <- TrustedDevices

\* Until two requests overlap, whatever they do, and wherever they fail, is
\* what the book allows: nobody with an address gets in without an account and
\* a code, a trusted device or an administrator's role; a code is gone before the
\* session it opens; a session ends the one before; only a session in force,
\* a login or the clock takes anything away, and no more than it has to.
ImplementsAccessBook ==
    Book!BookInit /\ [][overlaps' = 0 => Book!BookNext]_(Book!bookVars)

=============================================================================
