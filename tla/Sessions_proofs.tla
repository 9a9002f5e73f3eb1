-------------------------- MODULE Sessions_proofs --------------------------
(***************************************************************************)
(* What holds of Sessions for any number of users, devices and requests.   *)
(***************************************************************************)
EXTENDS Sessions, FiniteSetTheorems, TLAPS

-----------------------------------------------------------------------------
(***************************************************************************)
(* Types.  What a request holds refers to rows there are (JobOk, of the    *)
(* registrations rg, the number of challenges nc and of trusted tokens ng).*)
(***************************************************************************)
Logging  == {"device", "chDelete", "chCreate", "verifyUser", "consume", "trustDevice",
             "txRead", "txCommit"}
Touching == {"touchRead", "touch"}

JobOk(j, rg, nc, ng) ==
    /\ j \in Job /\ j.held <= ng
    /\ j.pc # "idle" => j.user \in Users
    /\ j.pc \in {"regFind", "regCommit"} => j.code \in DOMAIN rg /\ rg[j.code].user = j.user
    /\ j.pc \in {"verifyUser", "consume"} => j.code # 0
    /\ j.pc \in Logging => j.code \in 0..nc
    /\ j.pc \in Logging \cup Touching => j.device \in Devices

TypeInv ==
    /\ TypeOK
    /\ \A w \in Workers : JobOk(job[w], regs, Len(challenges), Len(grants))

LEMMA IdleOk ==
    ASSUME NEW rg, NEW nc \in Nat, NEW ng \in Nat
    PROVE  JobOk(Idle, rg, nc, ng) /\ Idle.pc = "idle"
BY DEF Idle, Job, AnyDevice, JobOk, Logging, Touching

LEMMA InitTyped == Init => TypeInv
<1> SUFFICES ASSUME Init PROVE TypeInv
    OBVIOUS
<1>1. users \in [Users -> User]
    <2>1. NewUser("none") \in User /\ NewUser("admin") \in User
        BY DEF NewUser, User, AnyDevice
    <2> QED BY <2>1 DEF Init
<1>2. /\ regs \in Seq(Reg) /\ challenges \in Seq(Challenge)
      /\ devices \in Seq(Device) /\ grants \in Seq(Grant)
      /\ Len(challenges) = 0 /\ Len(grants) = 0
      /\ \A r \in DOMAIN devices : devices[r].trust <= Len(grants)
    BY DEF Init
<1>3. \A w \in Workers : job[w] = Idle
    BY DEF Init
<1>4. \A w \in Workers : JobOk(job[w], regs, Len(challenges), Len(grants))
    BY <1>2, <1>3, IdleOk
<1>5. job \in [Workers -> Job]
    BY <1>4, <1>3 DEF Init, JobOk
<1> QED BY <1>1, <1>2, <1>4, <1>5 DEF Init, TypeInv, TypeOK

LEMMA Facts ==
    ASSUME TypeInv
    PROVE  /\ users \in [Users -> User]
           /\ regs \in Seq(Reg) /\ challenges \in Seq(Challenge)
           /\ devices \in Seq(Device) /\ grants \in Seq(Grant)
           /\ Len(regs) \in Nat /\ DOMAIN regs = 1..Len(regs)
           /\ Len(challenges) \in Nat /\ DOMAIN challenges = 1..Len(challenges)
           /\ Len(devices) \in Nat /\ DOMAIN devices = 1..Len(devices)
           /\ Len(grants) \in Nat /\ DOMAIN grants = 1..Len(grants)
           /\ \A r \in DOMAIN regs : regs[r] \in Reg
           /\ \A c \in DOMAIN challenges : challenges[c] \in Challenge
           /\ \A r \in DOMAIN devices : devices[r] \in Device /\ devices[r].trust <= Len(grants)
           /\ \A g \in DOMAIN grants : grants[g] \in Grant
           /\ tokens \subseteq Token
           /\ job \in [Workers -> Job]
           /\ overlaps \in Nat /\ roleChanges \in Nat /\ failures \in Nat
           /\ \A w \in Workers : job[w] \in Job
                              /\ JobOk(job[w], regs, Len(challenges), Len(grants))
<1>1. /\ regs \in Seq(Reg) /\ challenges \in Seq(Challenge)
      /\ devices \in Seq(Device) /\ grants \in Seq(Grant)
    BY DEF TypeInv, TypeOK
<1>2. /\ Len(regs) \in Nat /\ DOMAIN regs = 1..Len(regs)
      /\ Len(challenges) \in Nat /\ DOMAIN challenges = 1..Len(challenges)
      /\ Len(devices) \in Nat /\ DOMAIN devices = 1..Len(devices)
      /\ Len(grants) \in Nat /\ DOMAIN grants = 1..Len(grants)
    BY <1>1
<1>3. \A r \in DOMAIN regs : regs[r] \in Reg
    BY <1>1
<1>4. \A c \in DOMAIN challenges : challenges[c] \in Challenge
    BY <1>1
<1>5. \A r \in DOMAIN devices : devices[r] \in Device
    BY <1>1
<1>6. \A g \in DOMAIN grants : grants[g] \in Grant
    BY <1>1
<1> QED BY <1>1, <1>2, <1>3, <1>4, <1>5, <1>6 DEF TypeInv, TypeOK

\* A sequence that is changed row by row, as the updates of this module are.
LEMMA RowByRow ==
    ASSUME NEW T, NEW s \in Seq(T), NEW t, DOMAIN t = DOMAIN s,
           t = [i \in DOMAIN s |-> t[i]], \A i \in DOMAIN s : t[i] \in T
    PROVE  t \in Seq(T) /\ Len(t) = Len(s)
<1>1. Len(s) \in Nat /\ DOMAIN s = 1..Len(s)
    OBVIOUS
<1>2. t \in [1..Len(s) -> T]
    BY <1>1
<1> QED BY <1>1, <1>2

\* One worker's step: the registrations keep their users, and no table shrinks.
LEMMA Step ==
    ASSUME TypeInv, NEW w \in Workers, NEW j,
           job' = [job EXCEPT ![w] = j],
           JobOk(j, regs', Len(challenges'), Len(grants')),
           users' \in [Users -> User],
           regs' \in Seq(Reg), challenges' \in Seq(Challenge),
           devices' \in Seq(Device), grants' \in Seq(Grant),
           \A r \in DOMAIN regs : r \in DOMAIN regs' /\ regs'[r].user = regs[r].user,
           Len(challenges) <= Len(challenges'), Len(grants) <= Len(grants'),
           \A r \in DOMAIN devices' : devices'[r].trust <= Len(grants'),
           tokens' \subseteq Token,
           overlaps' \in Nat, roleChanges' \in Nat, failures' \in Nat
    PROVE  TypeInv'
<1>1. j \in Job
    BY DEF JobOk
<1>2. job' \in [Workers -> Job] /\ \A v \in Workers : job'[v] = IF v = w THEN j ELSE job[v]
    BY <1>1, Facts
<1>3. Len(challenges') \in Nat /\ Len(grants') \in Nat
    OBVIOUS
<1>4. ASSUME NEW v \in Workers PROVE JobOk(job'[v], regs', Len(challenges'), Len(grants'))
    <2>1. CASE v = w
        BY <1>2, <2>1
    <2>2. CASE v # w
        <3>1. job'[v] = job[v] /\ job[v] \in Job /\ JobOk(job[v], regs, Len(challenges), Len(grants))
            BY <1>2, <2>2, Facts
        <3>2. job[v].held \in Nat /\ job[v].code \in Nat
            BY <3>1 DEF Job
        <3>3. job[v].held <= Len(grants')
            BY <1>3, <3>1, <3>2, Facts DEF JobOk
        <3>4. job[v].pc \in Logging => job[v].code \in 0..Len(challenges')
            BY <1>3, <3>1, <3>2, Facts DEF JobOk
        <3> QED BY <3>1, <3>3, <3>4 DEF JobOk
    <2> QED BY <2>1, <2>2
<1>5. TypeOK'
    BY <1>2 DEF TypeOK
<1> QED BY <1>4, <1>5 DEF TypeInv

\* A step that changes nothing but the request and the counters.
LEMMA JobStep ==
    ASSUME TypeInv, NEW w \in Workers, NEW j,
           job' = [job EXCEPT ![w] = j],
           JobOk(j, regs, Len(challenges), Len(grants)),
           UNCHANGED <<users, rows, tokens>>,
           overlaps' \in Nat, roleChanges' \in Nat, failures' \in Nat
    PROVE  TypeInv'
<1>1. /\ users' = users /\ regs' = regs /\ challenges' = challenges /\ devices' = devices
      /\ grants' = grants /\ tokens' = tokens
    BY DEF rows
<1>2. JobOk(j, regs', Len(challenges'), Len(grants'))
    BY <1>1
<1>3. Len(challenges) <= Len(challenges') /\ Len(grants) <= Len(grants')
    BY <1>1, Facts
<1> QED BY <1>1, <1>2, <1>3, Facts, Step


-----------------------------------------------------------------------------
\* A request begins, with a copy that is right whatever the tables hold.
LEMMA BeginTyped ==
    ASSUME TypeInv, NEW w \in Workers, NEW j, Begin(w, j),
           JobOk(j, regs, Len(challenges), Len(grants)), UNCHANGED <<users, rows, tokens, bounds>>
    PROVE  TypeInv'
<1>1. overlaps' \in Nat
    BY Facts DEF Begin, CountOverlap
<1>2. roleChanges' \in Nat /\ failures' \in Nat
    BY Facts DEF bounds
<1> QED BY <1>1, <1>2, JobStep DEF Begin

LEMMA BeginsTyped ==
    ASSUME TypeInv, NEW w \in Workers,
           \/ \E u \in Users : BeginRegister(w, u)
           \/ \E r \in DOMAIN regs : VerifyRegister(w, r)
           \/ \E u \in Users, d \in Devices : TrustedLogin(w, u, d)
           \/ \E u \in Users, d \in Devices, b \in BOOLEAN : Login(w, u, d, b)
           \/ \E c \in DOMAIN challenges, b \in BOOLEAN : VerifyLogin(w, c, b)
           \/ \E t \in tokens : ChangePassword(w, t) \/ Logout(w, t)
           \/ \E t \in tokens, d \in Devices : RegisterDevice(w, t, d)
    PROVE  TypeInv'
<1>1. ASSUME NEW u \in Users, BeginRegister(w, u) PROVE TypeInv'
    <2> DEFINE j == [Idle EXCEPT !.pc = "regDelete", !.user = u]
    <2>1. j \in Job /\ j.pc = "regDelete" /\ j.held = 0
        BY IdleOk DEF Idle, Job, AnyDevice
    <2>2. j.user = u
        BY DEF Idle
    <2>3. Begin(w, j) /\ UNCHANGED <<users, rows, tokens, bounds>>
        BY <1>1 DEF BeginRegister
    <2> HIDE DEF j
    <2>4. JobOk(j, regs, Len(challenges), Len(grants))
        BY <2>1, <2>2, Facts DEF JobOk, Logging, Touching
    <2> QED BY <2>3, <2>4, BeginTyped
<1>2. ASSUME NEW r \in DOMAIN regs, VerifyRegister(w, r) PROVE TypeInv'
    <2> DEFINE j == [Idle EXCEPT !.pc = "regFind", !.user = regs[r].user, !.code = r]
    <2>1. regs[r].user \in Users /\ r \in Nat
        BY Facts DEF Reg
    <2>2. j \in Job /\ j.pc = "regFind" /\ j.held = 0
        BY <2>1, IdleOk DEF Idle, Job, AnyDevice
    <2>3. j.user = regs[r].user /\ j.code = r
        BY DEF Idle
    <2>4. Begin(w, j) /\ UNCHANGED <<users, rows, tokens, bounds>>
        BY <1>2 DEF VerifyRegister
    <2> HIDE DEF j
    <2>5. JobOk(j, regs, Len(challenges), Len(grants))
        BY <2>1, <2>2, <2>3, Facts DEF JobOk, Logging, Touching
    <2> QED BY <2>4, <2>5, BeginTyped
<1>3. ASSUME NEW u \in Users, NEW d \in Devices, TrustedLogin(w, u, d) PROVE TypeInv'
    <2> DEFINE j == [Idle EXCEPT !.pc = "trustDevice", !.user = u, !.device = d, !.trust = TRUE,
                                 !.role = users[u].role, !.version = users[u].version]
    <2>1. users[u].role \in {"none", "user", "admin"} /\ users[u].version \in Nat
        BY Facts DEF User
    <2>2. j \in Job /\ j.pc = "trustDevice" /\ j.held = 0
        BY <2>1, IdleOk DEF Idle, Job, AnyDevice
    <2>3. j.user = u /\ j.device = d /\ j.code = 0
        BY DEF Idle
    <2>4. Begin(w, j) /\ UNCHANGED <<users, rows, tokens, bounds>>
        BY <1>3 DEF TrustedLogin
    <2> HIDE DEF j
    <2>5. JobOk(j, regs, Len(challenges), Len(grants))
        BY <2>1, <2>2, <2>3, Facts DEF JobOk, Logging, Touching
    <2> QED BY <2>4, <2>5, BeginTyped
<1>4. ASSUME NEW u \in Users, NEW d \in Devices, NEW b \in BOOLEAN, Login(w, u, d, b)
      PROVE  TypeInv'
    <2> DEFINE j == [Idle EXCEPT !.pc = "device", !.user = u, !.device = d, !.trust = b,
                                 !.role = users[u].role, !.version = users[u].version]
    <2>1. users[u].role \in {"none", "user", "admin"} /\ users[u].version \in Nat
        BY Facts DEF User
    <2>2. j \in Job /\ j.pc = "device" /\ j.held = 0
        BY <2>1, IdleOk DEF Idle, Job, AnyDevice
    <2>3. j.user = u /\ j.device = d /\ j.code = 0
        BY DEF Idle
    <2>4. Begin(w, j) /\ UNCHANGED <<users, rows, tokens, bounds>>
        BY <1>4 DEF Login
    <2> HIDE DEF j
    <2>5. JobOk(j, regs, Len(challenges), Len(grants))
        BY <2>1, <2>2, <2>3, Facts DEF JobOk, Logging, Touching
    <2> QED BY <2>4, <2>5, BeginTyped
<1>5. ASSUME NEW c \in DOMAIN challenges, NEW b \in BOOLEAN, VerifyLogin(w, c, b)
      PROVE  TypeInv'
    <2> DEFINE j == [Idle EXCEPT !.pc = "verifyUser", !.user = challenges[c].user,
                                 !.device = challenges[c].device, !.trust = b, !.code = c]
    <2>1. /\ challenges[c].user \in Users /\ challenges[c].device \in Devices
          /\ c \in Nat /\ c # 0 /\ c \in 0..Len(challenges)
        BY Facts DEF Challenge
    <2>2. j \in Job /\ j.pc = "verifyUser" /\ j.held = 0
        BY <2>1, IdleOk DEF Idle, Job, AnyDevice
    <2>3. j.user = challenges[c].user /\ j.device = challenges[c].device /\ j.code = c
        BY DEF Idle
    <2>4. Begin(w, j) /\ UNCHANGED <<users, rows, tokens, bounds>>
        BY <1>5 DEF VerifyLogin
    <2> HIDE DEF j
    <2>5. JobOk(j, regs, Len(challenges), Len(grants))
        BY <2>1, <2>2, <2>3, Facts DEF JobOk, Logging, Touching
    <2> QED BY <2>4, <2>5, BeginTyped
<1>6. ASSUME NEW t \in tokens, ChangePassword(w, t) PROVE TypeInv'
    <2> DEFINE j == [Idle EXCEPT !.pc = "change", !.user = t.user]
    <2>1. t.user \in Users
        BY Facts DEF Token
    <2>2. j \in Job /\ j.pc = "change" /\ j.held = 0
        BY <2>1, IdleOk DEF Idle, Job, AnyDevice
    <2>3. j.user = t.user
        BY DEF Idle
    <2>4. Begin(w, j) /\ UNCHANGED <<users, rows, tokens, bounds>>
        BY <1>6 DEF ChangePassword
    <2> HIDE DEF j
    <2>5. JobOk(j, regs, Len(challenges), Len(grants))
        BY <2>1, <2>2, <2>3, Facts DEF JobOk, Logging, Touching
    <2> QED BY <2>4, <2>5, BeginTyped
<1>7. ASSUME NEW t \in tokens, Logout(w, t) PROVE TypeInv'
    <2> DEFINE j == [Idle EXCEPT !.pc = "logoutRead", !.user = t.user, !.device = t.device]
    <2>1. t.user \in Users /\ t.device \in AnyDevice
        BY Facts DEF Token
    <2>2. j \in Job /\ j.pc = "logoutRead" /\ j.held = 0
        BY <2>1, IdleOk DEF Idle, Job, AnyDevice
    <2>3. j.user = t.user
        BY DEF Idle
    <2>4. Begin(w, j) /\ UNCHANGED <<users, rows, tokens, bounds>>
        BY <1>7 DEF Logout
    <2> HIDE DEF j
    <2>5. JobOk(j, regs, Len(challenges), Len(grants))
        BY <2>1, <2>2, <2>3, Facts DEF JobOk, Logging, Touching
    <2> QED BY <2>4, <2>5, BeginTyped
<1>8. ASSUME NEW t \in tokens, NEW d \in Devices, RegisterDevice(w, t, d) PROVE TypeInv'
    <2> DEFINE j == [Idle EXCEPT !.pc = "touchRead", !.user = t.user, !.device = d]
    <2>1. t.user \in Users
        BY Facts DEF Token
    <2>2. j \in Job /\ j.pc = "touchRead" /\ j.held = 0
        BY <2>1, IdleOk DEF Idle, Job, AnyDevice
    <2>3. j.user = t.user /\ j.device = d
        BY DEF Idle
    <2>4. Begin(w, j) /\ UNCHANGED <<users, rows, tokens, bounds>>
        BY <1>8 DEF RegisterDevice
    <2> HIDE DEF j
    <2>5. JobOk(j, regs, Len(challenges), Len(grants))
        BY <2>1, <2>2, <2>3, Facts DEF JobOk, Logging, Touching
    <2> QED BY <2>4, <2>5, BeginTyped
<1> QED BY <1>1, <1>2, <1>3, <1>4, <1>5, <1>6, <1>7, <1>8

LEMMA EndTyped ==
    ASSUME TypeInv, NEW w \in Workers, End(w), UNCHANGED <<users, rows, tokens>>,
           overlaps' \in Nat, roleChanges' \in Nat, failures' \in Nat
    PROVE  TypeInv'
<1>1. JobOk(Idle, regs, Len(challenges), Len(grants))
    BY Facts, IdleOk
<1> QED BY <1>1, JobStep DEF End

\* A login goes on to a place that asks no more of what the request holds.
LEMMA GotoTyped ==
    ASSUME TypeInv, NEW w \in Workers, NEW pc, Goto(w, pc),
           \/ job[w].pc \in Logging
              /\ pc \in {"chDelete", "chCreate", "txRead", "txCommit"}
           \/ job[w].pc \in Touching /\ pc \in Touching
           \/ job[w].pc = "regFind" /\ pc = "regCommit"
           \/ job[w].pc = "regDelete" /\ pc = "regCreate",
           UNCHANGED <<users, rows, tokens, overlaps, bounds>>
    PROVE  TypeInv'
<1> DEFINE j == [job[w] EXCEPT !.pc = pc]
<1>1. job[w] \in Job /\ JobOk(job[w], regs, Len(challenges), Len(grants))
    BY Facts
<1>2. JobOk(j, regs, Len(challenges), Len(grants))
    BY <1>1 DEF Job, JobOk, Logging, Touching
<1>3. job' = [job EXCEPT ![w] = j]
    BY Facts DEF Goto
<1>4. overlaps' \in Nat /\ roleChanges' \in Nat /\ failures' \in Nat
    BY Facts DEF bounds
<1> HIDE DEF j
<1> QED BY <1>2, <1>3, <1>4, JobStep

\* The steps that only read.
LEMMA ReadsTyped ==
    ASSUME TypeInv, NEW w \in Workers,
           \/ RegFind(w) \/ RegRollback(w) \/ LoginDevice(w) \/ TrustedDevice(w)
           \/ (\E force \in BOOLEAN : VerifyUser(w, force))
           \/ TxRead(w) \/ TxRollback(w) \/ LogoutRead(w) \/ TouchRead(w) \/ Fail(w)
    PROVE  TypeInv'
<1>1. job[w] \in Job /\ JobOk(job[w], regs, Len(challenges), Len(grants))
    BY Facts
<1>2. /\ overlaps \in Nat /\ roleChanges \in Nat /\ failures \in Nat
      /\ UNCHANGED bounds => roleChanges' \in Nat /\ failures' \in Nat
    BY Facts DEF bounds
<1>3. CASE RegFind(w)
    BY <1>2, <1>3, EndTyped, GotoTyped DEF RegFind
<1>4. CASE RegRollback(w)
    BY <1>2, <1>4, EndTyped DEF RegRollback
<1>5. CASE LoginDevice(w)
    BY <1>5, GotoTyped DEF LoginDevice, Logging
<1>6. CASE TrustedDevice(w)
    BY <1>2, <1>6, EndTyped, GotoTyped DEF TrustedDevice, Logging
<1>7. ASSUME NEW force \in BOOLEAN, VerifyUser(w, force) PROVE TypeInv'
    <2>1. CASE Conflict(job[w].user, job[w].device) /\ ~ force
        BY <1>2, <1>7, <2>1, EndTyped DEF VerifyUser
    <2>2. CASE ~ (Conflict(job[w].user, job[w].device) /\ ~ force)
        <3> DEFINE role == users[job[w].user].role
                   version == users[job[w].user].version
        <3>1. role \in {"none", "user", "admin"} /\ version \in Nat
            BY <1>1, <1>7, Facts DEF VerifyUser, JobOk, User
        <3>2. job' = [job EXCEPT ![w].pc = "consume", ![w].role = role, ![w].version = version]
            BY <1>7, <2>2 DEF VerifyUser
        <3> HIDE DEF role, version
        <3> DEFINE j == [job[w] EXCEPT !.pc = "consume", !.role = role, !.version = version]
        <3>3. job' = [job EXCEPT ![w] = j]
            BY <3>2, Facts
        <3>4. JobOk(j, regs, Len(challenges), Len(grants))
            BY <1>1, <1>7, <3>1 DEF VerifyUser, Job, JobOk, Logging, Touching
        <3> HIDE DEF j
        <3> QED BY <1>2, <1>7, <3>3, <3>4, JobStep DEF VerifyUser
    <2> QED BY <2>1, <2>2
<1>8. CASE TxRead(w)
    <2>1. ASSUME NEW r \in RowFor(job[w].user, job[w].device),
                 job' = [job EXCEPT ![w].pc = "txCommit", ![w].row = r]
          PROVE  TypeInv'
        <3> DEFINE j == [job[w] EXCEPT !.pc = "txCommit", !.row = r]
        <3>1. r \in Nat
            BY Facts DEF RowFor, RowsOf
        <3>2. JobOk(j, regs, Len(challenges), Len(grants))
            BY <1>1, <1>8, <3>1 DEF TxRead, Job, JobOk, Logging, Touching
        <3>3. job' = [job EXCEPT ![w] = j]
            BY <2>1, Facts
        <3> HIDE DEF j
        <3> QED BY <1>2, <1>8, <3>2, <3>3, JobStep DEF TxRead
    <2>2. ASSUME NEW R \in Trimmed(job[w]),
                 job' = [job EXCEPT ![w].pc = "txCommit", ![w].gone = R]
          PROVE  TypeInv'
        <3> DEFINE j == [job[w] EXCEPT !.pc = "txCommit", !.gone = R]
        <3>1. R \subseteq Nat
            BY Facts DEF Trimmed, RowsOf
        <3>2. JobOk(j, regs, Len(challenges), Len(grants))
            BY <1>1, <1>8, <3>1 DEF TxRead, Job, JobOk, Logging, Touching
        <3>3. job' = [job EXCEPT ![w] = j]
            BY <2>2, Facts
        <3> HIDE DEF j
        <3> QED BY <1>2, <1>8, <3>2, <3>3, JobStep DEF TxRead
    <2> QED BY <1>8, <2>1, <2>2 DEF TxRead
<1>9. CASE TxRollback(w)
    BY <1>2, <1>9, EndTyped DEF TxRollback
<1>10. CASE LogoutRead(w)
    <2> DEFINE active == users[job[w].user].active
    <2>1. active \in AnyDevice
        BY <1>1, <1>10, Facts DEF LogoutRead, JobOk, User
    <2>2. job' = [job EXCEPT ![w].pc = "logout", ![w].active = active]
        BY <1>10 DEF LogoutRead
    <2> HIDE DEF active
    <2> DEFINE j == [job[w] EXCEPT !.pc = "logout", !.active = active]
    <2>3. JobOk(j, regs, Len(challenges), Len(grants))
        BY <1>1, <1>10, <2>1 DEF LogoutRead, Job, JobOk, Logging, Touching
    <2>4. job' = [job EXCEPT ![w] = j]
        BY <2>2, Facts
    <2> HIDE DEF j
    <2> QED BY <1>2, <1>10, <2>3, <2>4, JobStep DEF LogoutRead
<1>11. CASE TouchRead(w)
    <2>1. ASSUME NEW r \in RowFor(job[w].user, job[w].device),
                 job' = [job EXCEPT ![w].pc = "touch", ![w].row = r, ![w].held = devices[r].trust]
          PROVE  TypeInv'
        <3> DEFINE held == devices[r].trust
        <3>1. r \in Nat /\ held \in Nat /\ held <= Len(grants)
            BY Facts DEF RowFor, RowsOf, Device
        <3> HIDE DEF held
        <3> DEFINE j == [job[w] EXCEPT !.pc = "touch", !.row = r, !.held = held]
        <3>2. JobOk(j, regs, Len(challenges), Len(grants))
            BY <1>1, <1>11, <3>1 DEF TouchRead, Job, JobOk, Logging, Touching
        <3>3. job' = [job EXCEPT ![w] = j]
            BY <2>1, Facts DEF held
        <3> HIDE DEF j
        <3> QED BY <1>2, <1>11, <3>2, <3>3, JobStep DEF TouchRead
    <2>2. CASE Goto(w, "touch")
        BY <1>11, <2>2, GotoTyped DEF TouchRead, Touching
    <2> QED BY <1>11, <2>1, <2>2 DEF TouchRead
<1>12. CASE Fail(w)
    BY <1>2, <1>12, EndTyped DEF Fail
<1> QED BY <1>3, <1>4, <1>5, <1>6, <1>7, <1>8, <1>9, <1>10, <1>11, <1>12

-----------------------------------------------------------------------------
(* The tables after a write *)

LEMMA KeptTyped ==
    ASSUME TypeInv, NEW gone
    PROVE  /\ Kept(gone) \in Seq(Device)
           /\ \A r \in DOMAIN Kept(gone) : Kept(gone)[r].trust <= Len(grants)
<1> DEFINE t == Kept(gone)
<1>1. DOMAIN t = DOMAIN devices /\ t = [r \in DOMAIN devices |-> t[r]]
    BY DEF Kept
<1>2. ASSUME NEW r \in DOMAIN devices
      PROVE  t[r] \in Device /\ t[r].trust = devices[r].trust
    BY Facts DEF Kept, Device
<1>3. devices \in Seq(Device) /\ \A r \in DOMAIN devices : devices[r].trust <= Len(grants)
    BY Facts
<1> HIDE DEF t
<1>4. t \in Seq(Device)
    BY <1>1, <1>2, <1>3, RowByRow
<1>5. \A r \in DOMAIN t : t[r].trust <= Len(grants)
    BY <1>1, <1>2, <1>3
<1> QED BY <1>4, <1>5 DEF t

LEMMA UntrustedTyped ==
    ASSUME TypeInv, NEW R
    PROVE  /\ Untrusted(R) \in Seq(Device)
           /\ \A r \in DOMAIN Untrusted(R) : Untrusted(R)[r].trust <= Len(grants)
<1> DEFINE t == Untrusted(R)
<1>1. DOMAIN t = DOMAIN devices /\ t = [r \in DOMAIN devices |-> t[r]]
    BY DEF Untrusted
<1>2. ASSUME NEW r \in DOMAIN devices
      PROVE  t[r] \in Device /\ t[r].trust \in {0, devices[r].trust}
    BY Facts DEF Untrusted, Device
<1>3. /\ devices \in Seq(Device) /\ \A r \in DOMAIN devices : devices[r].trust <= Len(grants)
      /\ Len(grants) \in Nat
    BY Facts
<1> HIDE DEF t
<1>4. t \in Seq(Device)
    BY <1>1, <1>2, <1>3, RowByRow
<1>5. \A r \in DOMAIN t : t[r].trust <= Len(grants)
    BY <1>1, <1>2, <1>3
<1> QED BY <1>4, <1>5 DEF t

LEMMA RevokedTyped ==
    ASSUME TypeInv, NEW u, NEW D
    PROVE  Revoked(u, D) \in Seq(Grant) /\ Len(Revoked(u, D)) = Len(grants)
<1> DEFINE t == Revoked(u, D)
<1>1. DOMAIN t = DOMAIN grants /\ t = [g \in DOMAIN grants |-> t[g]]
    BY DEF Revoked
<1>2. \A g \in DOMAIN grants : t[g] \in Grant
    BY Facts DEF Revoked, Grant
<1>3. grants \in Seq(Grant)
    BY Facts
<1> HIDE DEF t
<1>4. t \in Seq(Grant) /\ Len(t) = Len(grants)
    BY <1>1, <1>2, <1>3, RowByRow
<1> QED BY <1>4 DEF t

LEMMA SavedTyped ==
    ASSUME NEW devs \in Seq(Device), NEW n \in Nat, \A r \in DOMAIN devs : devs[r].trust <= n,
           NEW u \in Users, NEW d \in Devices, NEW trust \in Nat, trust <= n
    PROVE  /\ Saved(devs, u, d, trust) \in Seq(Device)
           /\ \A r \in DOMAIN Saved(devs, u, d, trust) : Saved(devs, u, d, trust)[r].trust <= n
<1> DEFINE row == [user |-> u, device |-> d, trust |-> trust, live |-> TRUE]
           same == {r \in DOMAIN devs : devs[r].live /\ devs[r].device = d}
           t == Saved(devs, u, d, trust)
<1>1. row \in Device /\ row.trust <= n
    BY DEF Device
<1>2. /\ same = {} => t = Append(devs, row)
      /\ same # {} => t = [r \in DOMAIN devs |-> IF r \in same THEN row ELSE devs[r]]
    BY DEF Saved
<1> HIDE DEF row, same, t
<1>3. CASE same = {}
    <2>1. t = Append(devs, row)
        BY <1>2, <1>3
    <2>2. /\ t \in Seq(Device) /\ DOMAIN t = DOMAIN devs \cup {Len(devs) + 1}
          /\ t[Len(devs) + 1] = row /\ \A r \in DOMAIN devs : t[r] = devs[r]
        BY <1>1, <2>1
    <2>3. \A r \in DOMAIN t : t[r].trust <= n
        BY <1>1, <2>2
    <2> QED BY <2>2, <2>3 DEF t
<1>4. CASE same # {}
    <2>1. t = [r \in DOMAIN devs |-> IF r \in same THEN row ELSE devs[r]]
        BY <1>2, <1>4
    <2>2. \A r \in DOMAIN devs : devs[r] \in Device
        OBVIOUS
    <2>3. \A r \in DOMAIN devs : t[r] \in Device /\ t[r].trust <= n
        BY <1>1, <2>1, <2>2
    <2>4. DOMAIN t = DOMAIN devs /\ t = [r \in DOMAIN devs |-> t[r]]
        BY <2>1
    <2>5. t \in Seq(Device)
        BY <2>3, <2>4, RowByRow
    <2> QED BY <2>3, <2>4, <2>5 DEF t
<1> QED BY <1>3, <1>4

\* A worker's step that writes at most users and registrations or challenges.
LEMMA CodeStep ==
    ASSUME TypeInv, NEW w \in Workers, NEW j, job' = [job EXCEPT ![w] = j],
           JobOk(j, regs', Len(challenges'), Len(grants)),
           users' \in [Users -> User], regs' \in Seq(Reg), challenges' \in Seq(Challenge),
           \A r \in DOMAIN regs : r \in DOMAIN regs' /\ regs'[r].user = regs[r].user,
           Len(challenges) <= Len(challenges'),
           UNCHANGED <<devices, grants, tokens, overlaps, bounds>>
    PROVE  TypeInv'
<1>1. /\ devices' = devices /\ grants' = grants /\ tokens' = tokens
      /\ overlaps' \in Nat /\ roleChanges' \in Nat /\ failures' \in Nat
      /\ Len(grants) <= Len(grants')
    BY Facts DEF bounds
<1> QED BY <1>1, Facts, Step

LEMMA RegsTyped ==
    ASSUME TypeInv, NEW w \in Workers, RegDelete(w) \/ RegCreate(w) \/ RegCommit(w)
    PROVE  TypeInv'
<1>1. job[w] \in Job /\ JobOk(job[w], regs, Len(challenges), Len(grants))
    BY Facts
<1>2. CASE RegDelete(w)
    <2>1. /\ DOMAIN regs' = DOMAIN regs /\ regs' = [r \in DOMAIN regs |-> regs'[r]]
        BY <1>2 DEF RegDelete
    <2>2. ASSUME NEW r \in DOMAIN regs
          PROVE  regs'[r] \in Reg /\ regs'[r].user = regs[r].user
        <3>1. regs[r] \in Reg
            BY Facts
        <3> QED BY <1>2, <3>1 DEF RegDelete, Reg, CodeStatuses
    <2>3. regs' \in Seq(Reg)
        BY <2>1, <2>2, Facts, RowByRow
    <2> DEFINE j == [job[w] EXCEPT !.pc = "regCreate"]
    <2>4. JobOk(j, regs', Len(challenges'), Len(grants))
        BY <1>1, <1>2 DEF RegDelete, Job, JobOk, Logging, Touching
    <2>5. job' = [job EXCEPT ![w] = j]
        BY <1>2, Facts DEF RegDelete, Goto
    <2> HIDE DEF j
    <2>6. /\ users' = users /\ challenges' = challenges
          /\ UNCHANGED <<devices, grants, tokens, overlaps, bounds>>
        BY <1>2 DEF RegDelete
    <2>7. Len(challenges) <= Len(challenges') /\ users' \in [Users -> User]
          /\ challenges' \in Seq(Challenge)
        BY <2>6, Facts
    <2>8. \A r \in DOMAIN regs : r \in DOMAIN regs' /\ regs'[r].user = regs[r].user
        BY <2>1, <2>2
    <2> QED BY <2>3, <2>4, <2>5, <2>6, <2>7, <2>8, CodeStep
<1>3. CASE RegCreate(w)
    <2>1. job[w].user \in Users
        BY <1>1, <1>3 DEF RegCreate, JobOk
    <2> DEFINE row == [user |-> job[w].user, status |-> "pending"]
    <2>2. row \in Reg
        BY <2>1 DEF Reg, CodeStatuses
    <2>3. regs' = Append(regs, row)
        BY <1>3 DEF RegCreate
    <2> HIDE DEF row
    <2>4. /\ regs' \in Seq(Reg)
          /\ \A r \in DOMAIN regs : r \in DOMAIN regs' /\ regs'[r] = regs[r]
        BY <2>2, <2>3, Facts
    <2>5. /\ users' = users /\ challenges' = challenges
          /\ UNCHANGED <<devices, grants, tokens, overlaps, bounds>>
          /\ job' = [job EXCEPT ![w] = Idle]
        BY <1>3 DEF RegCreate, End
    <2>6. JobOk(Idle, regs', Len(challenges'), Len(grants))
        BY <2>5, IdleOk, Facts
    <2>7. Len(challenges) <= Len(challenges') /\ users' \in [Users -> User]
          /\ challenges' \in Seq(Challenge)
        BY <2>5, Facts
    <2> QED BY <2>4, <2>5, <2>6, <2>7, CodeStep
<1>4. CASE RegCommit(w)
    <2> DEFINE c == job[w].code
    <2>1. c \in DOMAIN regs /\ regs[c] \in Reg
        BY <1>1, <1>4, Facts DEF RegCommit, JobOk
    <2>2. /\ DOMAIN regs' = DOMAIN regs /\ regs' = [r \in DOMAIN regs |-> regs'[r]]
        BY <1>4 DEF RegCommit
    <2>3. ASSUME NEW r \in DOMAIN regs
          PROVE  regs'[r] \in Reg /\ regs'[r].user = regs[r].user
        <3>1. regs[r] \in Reg
            BY Facts
        <3>2. Consumed(regs[c].status) \in CodeStatuses
            BY DEF Consumed, CodeStatuses
        <3>3. regs'[r] = IF r = c THEN [regs[c] EXCEPT !.status = Consumed(regs[c].status)]
                         ELSE regs[r]
            BY <1>4 DEF RegCommit
        <3> QED BY <2>1, <3>1, <3>2, <3>3 DEF Reg
    <2>4. regs' \in Seq(Reg)
        BY <2>2, <2>3, Facts, RowByRow
    <2>5. users' \in [Users -> User]
        <3>1. NewUser("user") \in User
            BY DEF NewUser, User, AnyDevice
        <3> QED BY <1>4, <3>1, Facts DEF RegCommit
    <2>6. /\ challenges' = challenges /\ UNCHANGED <<devices, grants, tokens, overlaps, bounds>>
          /\ job' = [job EXCEPT ![w] = Idle]
        BY <1>4 DEF RegCommit, End
    <2>7. JobOk(Idle, regs', Len(challenges'), Len(grants))
        BY <2>6, IdleOk, Facts
    <2> HIDE DEF c
    <2>8. Len(challenges) <= Len(challenges') /\ challenges' \in Seq(Challenge)
        BY <2>6, Facts
    <2>9. \A r \in DOMAIN regs : r \in DOMAIN regs' /\ regs'[r].user = regs[r].user
        BY <2>2, <2>3
    <2> QED BY <2>4, <2>5, <2>6, <2>7, <2>8, <2>9, CodeStep
<1> QED BY <1>2, <1>3, <1>4

LEMMA ChallengesTyped ==
    ASSUME TypeInv, NEW w \in Workers,
           ChallengeDelete(w) \/ ChallengeCreate(w) \/ Consume(w)
    PROVE  TypeInv'
<1>1. job[w] \in Job /\ JobOk(job[w], regs, Len(challenges), Len(grants))
    BY Facts
<1>2. CASE ChallengeDelete(w)
    <2>1. DOMAIN challenges' = DOMAIN challenges
          /\ challenges' = [c \in DOMAIN challenges |-> challenges'[c]]
        BY <1>2 DEF ChallengeDelete
    <2>2. ASSUME NEW c \in DOMAIN challenges PROVE challenges'[c] \in Challenge
        <3>1. challenges[c] \in Challenge
            BY Facts
        <3> QED BY <1>2, <3>1 DEF ChallengeDelete, Challenge, CodeStatuses
    <2>3. challenges' \in Seq(Challenge) /\ Len(challenges') = Len(challenges)
        BY <2>1, <2>2, Facts, RowByRow
    <2> DEFINE j == [job[w] EXCEPT !.pc = "chCreate"]
    <2>4. JobOk(j, regs', Len(challenges'), Len(grants))
        BY <1>1, <1>2, <2>3 DEF ChallengeDelete, Job, JobOk, Logging, Touching
    <2>5. job' = [job EXCEPT ![w] = j]
        BY <1>2, Facts DEF ChallengeDelete, Goto
    <2> HIDE DEF j
    <2>6. /\ users' = users /\ regs' = regs
          /\ UNCHANGED <<devices, grants, tokens, overlaps, bounds>>
        BY <1>2 DEF ChallengeDelete
    <2>7. /\ Len(challenges) <= Len(challenges') /\ users' \in [Users -> User]
          /\ regs' \in Seq(Reg)
          /\ \A r \in DOMAIN regs : r \in DOMAIN regs' /\ regs'[r].user = regs[r].user
        BY <2>3, <2>6, Facts
    <2> QED BY <2>3, <2>4, <2>5, <2>6, <2>7, CodeStep
<1>3. CASE ChallengeCreate(w)
    <2> DEFINE row == [user |-> job[w].user, device |-> job[w].device,
                       status |-> "pending", logins |-> 0]
    <2>1. row \in Challenge
        BY <1>1, <1>3 DEF ChallengeCreate, JobOk, Logging, Challenge, CodeStatuses
    <2>2. challenges' = Append(challenges, row)
        BY <1>3 DEF ChallengeCreate
    <2> HIDE DEF row
    <2>3. challenges' \in Seq(Challenge) /\ Len(challenges) <= Len(challenges')
        BY <2>1, <2>2, Facts
    <2>4. /\ users' = users /\ regs' = regs
          /\ UNCHANGED <<devices, grants, tokens, overlaps, bounds>>
          /\ job' = [job EXCEPT ![w] = Idle]
        BY <1>3 DEF ChallengeCreate, End
    <2>5. JobOk(Idle, regs', Len(challenges'), Len(grants))
        BY <2>3, IdleOk, Facts
    <2>6. /\ users' \in [Users -> User] /\ regs' \in Seq(Reg)
          /\ \A r \in DOMAIN regs : r \in DOMAIN regs' /\ regs'[r].user = regs[r].user
        BY <2>4, Facts
    <2> QED BY <2>3, <2>4, <2>5, <2>6, CodeStep
<1>4. CASE Consume(w)
    <2> DEFINE i == job[w].code
    <2>1. i \in DOMAIN challenges /\ challenges[i] \in Challenge
        BY <1>1, <1>4, Facts DEF Consume, JobOk, Logging
    <2>2. DOMAIN challenges' = DOMAIN challenges
          /\ challenges' = [c \in DOMAIN challenges |-> challenges'[c]]
        BY <1>4 DEF Consume
    <2>3. ASSUME NEW c \in DOMAIN challenges PROVE challenges'[c] \in Challenge
        <3>1. challenges[c] \in Challenge
            BY Facts
        <3>2. LoginConsumed(challenges[i].status) \in CodeStatuses
            BY DEF LoginConsumed, Consumed, CodeStatuses
        <3>3. challenges'[c] =
                IF c = i THEN [challenges[i] EXCEPT !.status = LoginConsumed(challenges[i].status)]
                ELSE challenges[c]
            BY <1>4 DEF Consume
        <3> QED BY <2>1, <3>1, <3>2, <3>3 DEF Challenge
    <2>4. challenges' \in Seq(Challenge) /\ Len(challenges') = Len(challenges)
        BY <2>2, <2>3, Facts, RowByRow
    <2> HIDE DEF i
    <2> DEFINE j == [job[w] EXCEPT !.pc = "txRead"]
    <2>5. JobOk(j, regs', Len(challenges'), Len(grants))
        BY <1>1, <1>4, <2>4 DEF Consume, Job, JobOk, Logging, Touching
    <2>6. job' = [job EXCEPT ![w] = j]
        BY <1>4, Facts DEF Consume, Goto
    <2> HIDE DEF j
    <2>7. /\ users' = users /\ regs' = regs
          /\ UNCHANGED <<devices, grants, tokens, overlaps, bounds>>
        BY <1>4 DEF Consume
    <2>8. /\ Len(challenges) <= Len(challenges') /\ users' \in [Users -> User]
          /\ regs' \in Seq(Reg)
          /\ \A r \in DOMAIN regs : r \in DOMAIN regs' /\ regs'[r].user = regs[r].user
        BY <2>4, <2>7, Facts
    <2> QED BY <2>4, <2>5, <2>6, <2>7, <2>8, CodeStep
<1> QED BY <1>2, <1>3, <1>4

\* A worker's step that ends a request and leaves the registrations.
LEMMA DeviceStep ==
    ASSUME TypeInv, NEW w \in Workers, End(w),
           users' \in [Users -> User],
           challenges' \in Seq(Challenge), Len(challenges') = Len(challenges),
           devices' \in Seq(Device), grants' \in Seq(Grant), Len(grants) <= Len(grants'),
           \A r \in DOMAIN devices' : devices'[r].trust <= Len(grants'),
           tokens' \subseteq Token,
           UNCHANGED <<regs, overlaps, bounds>>
    PROVE  TypeInv'
<1>1. /\ regs' = regs /\ overlaps' \in Nat /\ roleChanges' \in Nat /\ failures' \in Nat
      /\ job' = [job EXCEPT ![w] = Idle]
    BY Facts DEF bounds, End
<1>2. JobOk(Idle, regs', Len(challenges'), Len(grants'))
    BY IdleOk
<1>3. Len(challenges) <= Len(challenges')
    BY Facts
<1> QED BY <1>1, <1>2, <1>3, Facts, Step

LEMMA TxCommitTyped ==
    ASSUME TypeInv, NEW w \in Workers, TxCommit(w)
    PROVE  TypeInv'
<1> DEFINE u == job[w].user
           d == job[w].device
           c == job[w].code
           n == Len(grants)
           trust == IF job[w].trust THEN n + 1 ELSE 0
           v == NextVersion(job[w])
<1>1. job[w] \in Job /\ JobOk(job[w], regs, Len(challenges), n)
    BY Facts
<1>2. /\ u \in Users /\ d \in Devices /\ c \in 0..Len(challenges)
      /\ v \in Nat /\ job[w].trust \in BOOLEAN /\ n \in Nat /\ trust \in Nat
    BY <1>1, Facts DEF TxCommit, JobOk, Logging, Job, NextVersion
<1>3. /\ devices' = Saved(Kept(job[w].gone), u, d, trust)
      /\ grants' = IF job[w].trust
                   THEN Append(Revoked(u, {d}), [user |-> u, device |-> d,
                                                 expired |-> FALSE, revoked |-> FALSE])
                   ELSE Revoked(u, {d})
      /\ End(w) /\ UNCHANGED <<regs, overlaps, bounds>>
    BY DEF TxCommit
<1>4. /\ grants' \in Seq(Grant) /\ n <= Len(grants') /\ trust <= Len(grants')
      /\ Len(grants') \in Nat
    <2> DEFINE g == [user |-> u, device |-> d, expired |-> FALSE, revoked |-> FALSE]
               old == Revoked(u, {d})
    <2>1. g \in Grant
        BY <1>2 DEF Grant
    <2>2. old \in Seq(Grant) /\ Len(old) = n
        BY RevokedTyped
    <2>3. grants' = IF job[w].trust THEN Append(old, g) ELSE old
        BY <1>3
    <2> HIDE DEF g, old
    <2>4. CASE job[w].trust
        BY <1>2, <2>1, <2>2, <2>3, <2>4
    <2>5. CASE ~ job[w].trust
        BY <1>2, <2>2, <2>3, <2>5
    <2> QED BY <2>4, <2>5
<1>5. /\ devices' \in Seq(Device)
      /\ \A r \in DOMAIN devices' : devices'[r].trust <= Len(grants')
    <2> DEFINE devs == Kept(job[w].gone)
    <2>1. devs \in Seq(Device) /\ \A r \in DOMAIN devs : devs[r].trust <= n
        BY KeptTyped
    <2> HIDE DEF devs
    <2>2. \A r \in DOMAIN devs : devs[r].trust \in Nat
        <3>1. \A r \in DOMAIN devs : devs[r] \in Device
            BY <2>1
        <3> QED BY <3>1 DEF Device
    <2>3. \A r \in DOMAIN devs : devs[r].trust <= Len(grants')
        BY <1>2, <1>4, <2>1, <2>2
    <2> HIDE DEF u, d, trust, n
    <2> QED BY <1>2, <1>3, <1>4, <2>1, <2>3, SavedTyped DEF devs
<1> HIDE DEF n, trust
<1>6. users' \in [Users -> User] /\ tokens' \subseteq Token
    <2>1. CASE job[w].role = "admin"
        <3>1. users' = users
              /\ tokens' = tokens \cup {[user |-> u, device |-> NoDevice, version |-> 0]}
            BY <2>1 DEF TxCommit
        <3> QED BY <1>2, <3>1, Facts DEF Token, AnyDevice
    <2>2. CASE job[w].role # "admin"
        <3>1. /\ users' = [users EXCEPT ![u].active = d, ![u].version = v]
              /\ tokens' = tokens \cup {[user |-> u, device |-> d, version |-> v]}
            BY <2>2 DEF TxCommit
        <3> HIDE DEF u, d, v
        <3>2. [users[u] EXCEPT !.active = d, !.version = v] \in User
            BY <1>2, Facts DEF User, AnyDevice
        <3>3. users' = [users EXCEPT ![u] = [users[u] EXCEPT !.active = d, !.version = v]]
            BY <1>2, <3>1, Facts
        <3> QED BY <1>2, <3>1, <3>2, <3>3, Facts DEF Token, AnyDevice
    <2> QED BY <2>1, <2>2
<1>7. challenges' \in Seq(Challenge) /\ Len(challenges') = Len(challenges)
    <2>1. CASE c = 0
        BY <2>1, Facts DEF TxCommit
    <2>2. CASE c # 0
        <3>1. c \in DOMAIN challenges /\ challenges[c] \in Challenge
            BY <1>2, <2>2, Facts
        <3> DEFINE row == [challenges[c] EXCEPT !.logins = @ + 1]
        <3>2. row \in Challenge
            BY <3>1 DEF Challenge
        <3>3. challenges' = [challenges EXCEPT ![c] = row]
            BY <2>2, <3>1 DEF TxCommit
        <3> HIDE DEF row
        <3> QED BY <3>1, <3>2, <3>3, Facts
    <2> QED BY <2>1, <2>2
<1> QED BY <1>3, <1>4, <1>5, <1>6, <1>7, DeviceStep DEF n

LEMMA UserRow ==
    ASSUME NEW row \in User, NEW active \in AnyDevice
    PROVE  [row EXCEPT !.active = active, !.version = @ + 1] \in User
<1>1. row.version \in Nat
    BY DEF User
<1>2. row.version + 1 \in Nat
    BY <1>1
<1> QED BY <1>2 DEF User

LEMMA InSessionTyped ==
    ASSUME TypeInv, NEW w \in Workers, ChangeCommit(w) \/ LogoutCommit(w) \/ Touch(w)
    PROVE  TypeInv'
<1>1. job[w] \in Job /\ JobOk(job[w], regs, Len(challenges), Len(grants))
    BY Facts
<1>2. CASE ChangeCommit(w)
    <2> DEFINE u == job[w].user
               row == [users[u] EXCEPT !.active = NoDevice, !.version = @ + 1]
    <2>1. u \in Users
        BY <1>1, <1>2 DEF ChangeCommit, JobOk
    <2>0. users[u] \in User
        BY <2>1, Facts
    <2>2. row \in User
        <3>1. NoDevice \in AnyDevice
            BY DEF AnyDevice
        <3> QED BY <2>0, <3>1, UserRow
    <2>3. users' = [users EXCEPT ![u] = row]
        BY <1>2, <2>1, Facts DEF ChangeCommit
    <2> HIDE DEF row
    <2>4. users' \in [Users -> User]
        BY <2>1, <2>2, <2>3, Facts
    <2>5. /\ devices' = Untrusted(RowsOf(u)) /\ grants' = Revoked(u, Devices) /\ End(w)
          /\ challenges' = challenges /\ tokens' = tokens /\ UNCHANGED <<regs, overlaps, bounds>>
        BY <1>2 DEF ChangeCommit
    <2>6. grants' \in Seq(Grant) /\ Len(grants') = Len(grants)
        BY <2>5, RevokedTyped
    <2>7. devices' \in Seq(Device) /\ \A r \in DOMAIN devices' : devices'[r].trust <= Len(grants')
        BY <2>5, <2>6, UntrustedTyped
    <2> QED BY <2>4, <2>5, <2>6, <2>7, Facts, DeviceStep
<1>3. CASE LogoutCommit(w)
    <2> DEFINE u == job[w].user
               d == job[w].device
               active == IF d # NoDevice /\ job[w].active = d THEN NoDevice ELSE users[u].active
               row == [users[u] EXCEPT !.active = active, !.version = @ + 1]
    <2>1. u \in Users
        BY <1>1, <1>3 DEF LogoutCommit, JobOk
    <2>2. users[u] \in User /\ active \in AnyDevice
        BY <2>1, Facts DEF User, AnyDevice
    <2>3. users' = [users EXCEPT ![u] = row]
        BY <1>3, <2>1, <2>2, Facts DEF LogoutCommit, User
    <2> HIDE DEF active, u, d
    <2>4. row \in User
        BY <2>2, UserRow
    <2> HIDE DEF row
    <2>5. users' \in [Users -> User]
        BY <2>1, <2>3, <2>4, Facts
    <2>6. /\ devices' = Untrusted(RowFor(u, d)) /\ grants' = Revoked(u, {d}) /\ End(w)
          /\ challenges' = challenges /\ tokens' = tokens /\ UNCHANGED <<regs, overlaps, bounds>>
        BY <1>3 DEF LogoutCommit, u, d
    <2>7. grants' \in Seq(Grant) /\ Len(grants') = Len(grants)
        BY <2>6, RevokedTyped
    <2>8. devices' \in Seq(Device) /\ \A r \in DOMAIN devices' : devices'[r].trust <= Len(grants')
        BY <2>6, <2>7, UntrustedTyped
    <2>9. /\ Len(grants) <= Len(grants') /\ tokens' \subseteq Token
          /\ challenges' \in Seq(Challenge) /\ Len(challenges') = Len(challenges)
        BY <2>6, <2>7, Facts
    <2>10. End(w) /\ UNCHANGED <<regs, overlaps, bounds>>
        BY <2>6
    <2> QED BY <2>5, <2>7, <2>8, <2>9, <2>10, DeviceStep
<1>4. CASE Touch(w)
    <2>1. /\ job[w].user \in Users /\ job[w].device \in Devices /\ job[w].held \in Nat
          /\ job[w].held <= Len(grants)
        BY <1>1, <1>4 DEF Touch, JobOk, Touching, Job
    <2>2. /\ devices' = IF Refused(job[w]) THEN devices
                        ELSE Saved(devices, job[w].user, job[w].device, job[w].held)
          /\ users' = users /\ grants' = grants /\ End(w)
          /\ challenges' = challenges /\ tokens' = tokens /\ UNCHANGED <<regs, overlaps, bounds>>
        BY <1>4 DEF Touch
    <2>3. devices' \in Seq(Device) /\ \A r \in DOMAIN devices' : devices'[r].trust <= Len(grants')
        BY <2>1, <2>2, Facts, SavedTyped
    <2> QED BY <2>2, <2>3, Facts, DeviceStep
<1> QED BY <1>2, <1>3, <1>4

LEMMA RestTyped ==
    ASSUME TypeInv, Time \/ \E u \in Users, role \in AssignableRoles : UpdateRole(u, role)
    PROVE  TypeInv'
<1>1. ASSUME NEW u \in Users, NEW role \in AssignableRoles, UpdateRole(u, role) PROVE TypeInv'
    <2> DEFINE row == [users[u] EXCEPT !.role = role]
    <2>1. row \in User
        BY Facts DEF User, AssignableRoles
    <2>2. users' = [users EXCEPT ![u] = row]
        BY <1>1, Facts DEF UpdateRole
    <2> HIDE DEF row
    <2>3. users' \in [Users -> User]
        BY <2>1, <2>2, Facts
    <2>4. overlaps' \in Nat /\ roleChanges' \in Nat
        BY <1>1, Facts DEF UpdateRole, CountOverlap
    <2> QED BY <1>1, <2>3, <2>4 DEF UpdateRole, rows, TypeInv, TypeOK
<1>2. ASSUME NEW i \in DOMAIN regs, RegExpires(i) PROVE TypeInv'
    <2>1. /\ DOMAIN regs' = DOMAIN regs /\ regs' = [r \in DOMAIN regs |-> regs'[r]]
        BY <1>2 DEF RegExpires
    <2>2. ASSUME NEW r \in DOMAIN regs
          PROVE  regs'[r] \in Reg /\ regs'[r].user = regs[r].user
        BY <1>2, Facts DEF RegExpires, Reg, CodeStatuses
    <2>3. regs' \in Seq(Reg)
        BY <2>1, <2>2, Facts, RowByRow
    <2>4. /\ users' = users /\ challenges' = challenges /\ devices' = devices
          /\ grants' = grants /\ tokens' = tokens /\ job' = job /\ overlaps' = overlaps
          /\ roleChanges' = roleChanges /\ failures' = failures
        BY <1>2 DEF RegExpires, bounds
    <2>5. \A w \in Workers : JobOk(job[w], regs', Len(challenges), Len(grants))
        BY <2>1, <2>2, Facts DEF JobOk
    <2> QED BY <2>3, <2>4, <2>5 DEF TypeInv, TypeOK
<1>3. ASSUME NEW i \in DOMAIN challenges, ChallengeExpires(i) PROVE TypeInv'
    <2>1. DOMAIN challenges' = DOMAIN challenges
          /\ challenges' = [c \in DOMAIN challenges |-> challenges'[c]]
        BY <1>3 DEF ChallengeExpires
    <2>2. ASSUME NEW c \in DOMAIN challenges PROVE challenges'[c] \in Challenge
        BY <1>3, Facts DEF ChallengeExpires, Challenge, CodeStatuses
    <2>3. challenges' \in Seq(Challenge) /\ Len(challenges') = Len(challenges)
        BY <2>1, <2>2, Facts, RowByRow
    <2>4. /\ users' = users /\ regs' = regs /\ devices' = devices
          /\ grants' = grants /\ tokens' = tokens /\ job' = job /\ overlaps' = overlaps
          /\ roleChanges' = roleChanges /\ failures' = failures
        BY <1>3 DEF ChallengeExpires, bounds
    <2> QED BY <2>3, <2>4 DEF TypeInv, TypeOK
<1>4. ASSUME NEW i \in DOMAIN grants, TrustExpires(i) PROVE TypeInv'
    <2>1. DOMAIN grants' = DOMAIN grants /\ grants' = [g \in DOMAIN grants |-> grants'[g]]
        BY <1>4 DEF TrustExpires
    <2>2. ASSUME NEW g \in DOMAIN grants PROVE grants'[g] \in Grant
        BY <1>4, Facts DEF TrustExpires, Grant
    <2>3. grants' \in Seq(Grant) /\ Len(grants') = Len(grants)
        BY <2>1, <2>2, Facts, RowByRow
    <2>4. /\ users' = users /\ regs' = regs /\ devices' = devices
          /\ challenges' = challenges /\ tokens' = tokens /\ job' = job /\ overlaps' = overlaps
          /\ roleChanges' = roleChanges /\ failures' = failures
        BY <1>4 DEF TrustExpires, bounds
    <2> QED BY <2>3, <2>4 DEF TypeInv, TypeOK
<1> QED BY <1>1, <1>2, <1>3, <1>4 DEF Time

LEMMA NextTyped == TypeInv /\ [Next]_vars => TypeInv'
<1> SUFFICES ASSUME TypeInv, [Next]_vars PROVE TypeInv'
    OBVIOUS
<1>1. CASE UNCHANGED vars
    BY <1>1 DEF vars, rows, bounds, TypeInv, TypeOK
<1>2. ASSUME NEW w \in Workers, Register(w) PROVE TypeInv'
    BY <1>2, BeginsTyped, ReadsTyped, RegsTyped DEF Register
<1>3. ASSUME NEW w \in Workers, LogIn(w) PROVE TypeInv'
    BY <1>3, BeginsTyped, ReadsTyped, ChallengesTyped, TxCommitTyped DEF LogIn
<1>4. ASSUME NEW w \in Workers, InSession(w) PROVE TypeInv'
    BY <1>4, BeginsTyped, ReadsTyped, InSessionTyped DEF InSession
<1>5. ASSUME NEW w \in Workers, Fail(w) PROVE TypeInv'
    BY <1>5, ReadsTyped
<1> QED BY <1>1, <1>2, <1>3, <1>4, <1>5, RestTyped DEF Next

\* Every table, token and copy keeps its type, and what a request holds of a
\* row refers to a row there is.
THEOREM SessionsTyped == Spec => []TypeOK
<1>1. TypeInv => TypeOK
    BY DEF TypeInv
<1> QED BY <1>1, InitTyped, NextTyped, PTL DEF Spec

-----------------------------------------------------------------------------
(***************************************************************************)
(* Accounts.  A user's row stays, and changes by one version or one role   *)
(* at a time - by a login's copy of the version.                           *)
(***************************************************************************)
LEMMA UserSteps ==
    ASSUME TypeInv, [Next]_vars
    PROVE  \/ users' = users
           \/ \E u \in Users, role \in AssignableRoles :
                /\ users' = [users EXCEPT ![u].role = role] /\ role # users[u].role /\ Exists(u)
                /\ UNCHANGED <<regs, tokens, job>>
           \/ \E w \in Workers :
                /\ job[w].pc = "regCommit" /\ job[w].user \in Users
                /\ ~ Exists(job[w].user)
                /\ users' = [users EXCEPT ![job[w].user] = NewUser("user")]
                /\ job' = [job EXCEPT ![w] = Idle] /\ UNCHANGED <<tokens, overlaps>>
           \/ \E w \in Workers, active \in AnyDevice :
                /\ job[w].pc \in {"txCommit", "change", "logout"} /\ job[w].user \in Users
                /\ users' = [users EXCEPT ![job[w].user].active = active,
                                          ![job[w].user].version =
                                              IF job[w].pc = "txCommit" THEN job[w].version + 1
                                              ELSE users[job[w].user].version + 1]
                /\ job' = [job EXCEPT ![w] = Idle] /\ UNCHANGED <<regs, overlaps>>
<1>1. CASE UNCHANGED vars
    BY <1>1 DEF vars
<1>2. ASSUME NEW w \in Workers, Register(w), ~ RegCommit(w) PROVE users' = users
    BY <1>2 DEF Register, BeginRegister, VerifyRegister, RegDelete, RegCreate, RegFind,
                RegRollback
<1>3. ASSUME NEW w \in Workers, RegCommit(w)
      PROVE  /\ job[w].pc = "regCommit" /\ job[w].user \in Users
             /\ ~ Exists(job[w].user)
             /\ users' = [users EXCEPT ![job[w].user] = NewUser("user")]
             /\ job' = [job EXCEPT ![w] = Idle] /\ UNCHANGED <<tokens, overlaps>>
    <2>1. job[w].user \in Users
        BY <1>3, Facts DEF RegCommit, JobOk
    <2> QED BY <1>3, <2>1 DEF RegCommit, RollsBack, End
<1>4. ASSUME NEW w \in Workers, LogIn(w), ~ TxCommit(w) PROVE users' = users
    BY <1>4 DEF LogIn, TrustedLogin, Login, VerifyLogin, LoginDevice, ChallengeDelete,
                ChallengeCreate, VerifyUser, Consume, TrustedDevice, TxRead, TxRollback
<1>5. ASSUME NEW w \in Workers, InSession(w),
             ~ ChangeCommit(w), ~ LogoutCommit(w) PROVE users' = users
    BY <1>5 DEF InSession, ChangePassword, Logout, RegisterDevice, LogoutRead, TouchRead, Touch
<1>6. ASSUME NEW w \in Workers, Fail(w) PROVE users' = users
    BY <1>6 DEF Fail
<1>7. ASSUME Time PROVE users' = users
    BY <1>7 DEF Time, RegExpires, ChallengeExpires, TrustExpires
<1>8. ASSUME NEW w \in Workers, TxCommit(w), users' # users
      PROVE  /\ job[w].pc = "txCommit" /\ job[w].user \in Users
             /\ job[w].device \in AnyDevice
             /\ users' = [users EXCEPT ![job[w].user].active = job[w].device,
                                       ![job[w].user].version = job[w].version + 1]
             /\ job' = [job EXCEPT ![w] = Idle] /\ UNCHANGED <<regs, overlaps>>
    <2>1. job[w].user \in Users /\ job[w].device \in Devices
        BY <1>8, Facts DEF TxCommit, JobOk, Logging
    <2> QED BY <1>8, <2>1 DEF TxCommit, NextVersion, End, AnyDevice
<1>9. ASSUME NEW w \in Workers, ChangeCommit(w)
      PROVE  /\ job[w].pc = "change" /\ job[w].user \in Users /\ NoDevice \in AnyDevice
             /\ users' = [users EXCEPT ![job[w].user].active = NoDevice,
                                       ![job[w].user].version = users[job[w].user].version + 1]
             /\ job' = [job EXCEPT ![w] = Idle] /\ UNCHANGED <<regs, overlaps>>
    <2>1. job[w].user \in Users
        BY <1>9, Facts DEF ChangeCommit, JobOk
    <2> QED BY <1>9, <2>1, Facts DEF ChangeCommit, End, AnyDevice
<1>10. ASSUME NEW w \in Workers, LogoutCommit(w)
       PROVE  \E active \in AnyDevice :
                /\ job[w].pc = "logout" /\ job[w].user \in Users
                /\ users' = [users EXCEPT ![job[w].user].active = active,
                                          ![job[w].user].version = users[job[w].user].version + 1]
                /\ job' = [job EXCEPT ![w] = Idle] /\ UNCHANGED <<regs, overlaps>>
    <2> DEFINE u == job[w].user
               active == IF job[w].device # NoDevice /\ job[w].active = job[w].device
                         THEN NoDevice ELSE users[u].active
    <2>1. u \in Users
        BY <1>10, Facts DEF LogoutCommit, JobOk
    <2>2. active \in AnyDevice
        BY <2>1, Facts DEF User, AnyDevice
    <2>3. users' = [users EXCEPT ![u].active = active, ![u].version = users[u].version + 1]
        BY <1>10, <2>1, Facts DEF LogoutCommit
    <2> HIDE DEF active
    <2> QED BY <1>10, <2>1, <2>2, <2>3 DEF LogoutCommit, End
<1>11. ASSUME NEW u \in Users, NEW role \in AssignableRoles, UpdateRole(u, role)
       PROVE  /\ users' = [users EXCEPT ![u].role = role] /\ role # users[u].role /\ Exists(u)
              /\ UNCHANGED <<regs, tokens, job>>
    BY <1>11 DEF UpdateRole, rows
<1>12. CASE \E w \in Workers : TxCommit(w)
    BY <1>8, <1>12
<1>13. CASE \E w \in Workers : ChangeCommit(w)
    BY <1>9, <1>13
<1>14. CASE \E w \in Workers : LogoutCommit(w)
    BY <1>10, <1>14
<1> QED BY <1>1, <1>2, <1>3, <1>4, <1>5, <1>6, <1>7, <1>11, <1>12, <1>13, <1>14 DEF Next

\* No account is lost.
LEMMA ExistsStays ==
    ASSUME TypeInv, [Next]_vars, NEW u \in Users, Exists(u)
    PROVE  Exists(u)'
<1>1. users \in [Users -> User] /\ users[u] \in User /\ users[u].role # "none"
    BY Facts DEF Exists
<1>2. CASE users' = users
    BY <1>1, <1>2 DEF Exists
<1>3. ASSUME NEW v \in Users, NEW role \in AssignableRoles,
             users' = [users EXCEPT ![v].role = role]
      PROVE  Exists(u)'
    BY <1>1, <1>3 DEF Exists, User, AssignableRoles
<1>4. ASSUME NEW v \in Users, ~ Exists(v), users' = [users EXCEPT ![v] = NewUser("user")]
      PROVE  Exists(u)'
    BY <1>1, <1>4 DEF Exists
<1>5. ASSUME NEW v \in Users, NEW active, NEW version,
             users' = [users EXCEPT ![v].active = active, ![v].version = version]
      PROVE  Exists(u)'
    BY <1>1, <1>5 DEF Exists, User
<1>6. ASSUME NEW w \in Workers, NEW active \in AnyDevice, job[w].user \in Users,
             users' = [users EXCEPT ![job[w].user].active = active,
                                    ![job[w].user].version =
                                        IF job[w].pc = "txCommit" THEN job[w].version + 1
                                        ELSE users[job[w].user].version + 1]
      PROVE  Exists(u)'
    BY <1>5, <1>6
<1>7. ASSUME NEW w \in Workers, job[w].user \in Users, ~ Exists(job[w].user),
             users' = [users EXCEPT ![job[w].user] = NewUser("user")]
      PROVE  Exists(u)'
    BY <1>4, <1>7
<1> QED BY <1>2, <1>3, <1>6, <1>7, UserSteps

\* Codes are used by RegCommit only.
LEMMA RegSteps ==
    ASSUME TypeInv, [Next]_vars
    PROVE  \/ \A r \in DOMAIN regs' :
                regs'[r].status = "consumed" =>
                  /\ r \in DOMAIN regs /\ regs[r].status = "consumed"
                  /\ regs'[r].user = regs[r].user
           \/ \E w \in Workers : RegCommit(w)
<1>1. CASE regs' = regs
    BY <1>1
<1>2. ASSUME NEW w \in Workers, RegDelete(w)
      PROVE  \A r \in DOMAIN regs' : regs'[r].status = "consumed" =>
                  /\ r \in DOMAIN regs /\ regs[r].status = "consumed"
                  /\ regs'[r].user = regs[r].user
    BY <1>2, Facts DEF RegDelete, Reg
<1>3. ASSUME NEW w \in Workers, RegCreate(w)
      PROVE  \A r \in DOMAIN regs' : regs'[r].status = "consumed" =>
                  /\ r \in DOMAIN regs /\ regs[r].status = "consumed"
                  /\ regs'[r].user = regs[r].user
    <2> DEFINE row == [user |-> job[w].user, status |-> "pending"]
    <2>1. regs' = Append(regs, row) /\ row.status = "pending"
        BY <1>3 DEF RegCreate
    <2> HIDE DEF row
    <2>2. /\ DOMAIN regs' = DOMAIN regs \cup {Len(regs) + 1} /\ regs'[Len(regs) + 1] = row
          /\ \A r \in DOMAIN regs : regs'[r] = regs[r]
        BY <2>1, Facts
    <2> QED BY <2>1, <2>2
<1>4. ASSUME NEW i \in DOMAIN regs, RegExpires(i)
      PROVE  \A r \in DOMAIN regs' : regs'[r].status = "consumed" =>
                  /\ r \in DOMAIN regs /\ regs[r].status = "consumed"
                  /\ regs'[r].user = regs[r].user
    BY <1>4, Facts DEF RegExpires, Reg
<1>5. ASSUME NEW w \in Workers, Register(w), ~ RegDelete(w), ~ RegCreate(w), ~ RegCommit(w)
      PROVE  regs' = regs
    BY <1>5 DEF Register, BeginRegister, VerifyRegister, RegFind, RegRollback, rows
<1>6. ASSUME NEW w \in Workers, LogIn(w) PROVE regs' = regs
    BY <1>6 DEF LogIn, TrustedLogin, Login, VerifyLogin, LoginDevice, ChallengeDelete,
                ChallengeCreate, VerifyUser, Consume, TrustedDevice, TxRead, TxRollback,
                TxCommit, rows
<1>7. ASSUME NEW w \in Workers, InSession(w) PROVE regs' = regs
    BY <1>7 DEF InSession, ChangePassword, Logout, RegisterDevice, LogoutRead, TouchRead,
                Touch, ChangeCommit, LogoutCommit, rows
<1>8. ASSUME NEW w \in Workers, Fail(w) PROVE regs' = regs
    BY <1>8 DEF Fail, rows
<1>9. ASSUME NEW u \in Users, NEW role \in AssignableRoles, UpdateRole(u, role)
      PROVE  regs' = regs
    BY <1>9 DEF UpdateRole, rows
<1>10. ASSUME Time PROVE regs' = regs \/ \E r \in DOMAIN regs : RegExpires(r)
    BY <1>10 DEF Time, ChallengeExpires, TrustExpires
<1>11. CASE UNCHANGED vars
    BY <1>11 DEF vars, rows
<1> QED BY <1>1, <1>2, <1>3, <1>4, <1>5, <1>6, <1>7, <1>8, <1>9, <1>10, <1>11 DEF Next

LEMMA OnceStep ==
    ASSUME TypeInv, RegisteredOnce, [Next]_vars
    PROVE  RegisteredOnce'
<1>1. TypeInv'
    BY NextTyped
<1>2. CASE \A r \in DOMAIN regs' :
             regs'[r].status = "consumed" =>
               /\ r \in DOMAIN regs /\ regs[r].status = "consumed"
               /\ regs'[r].user = regs[r].user
    <2>1. ASSUME NEW r \in DOMAIN regs', regs'[r].status = "consumed"
          PROVE  /\ Exists(regs[r].user)'
                 /\ \A q \in DOMAIN regs' :
                      regs'[q].status = "consumed" /\ regs'[q].user = regs'[r].user => q = r
        <3>1. /\ r \in DOMAIN regs /\ regs[r].status = "consumed"
              /\ regs'[r].user = regs[r].user /\ regs[r].user \in Users
            BY <1>2, <2>1, Facts DEF Reg
        <3>2. Exists(regs[r].user)
            BY <3>1 DEF RegisteredOnce
        <3>3. ASSUME NEW u \in Users, Exists(u) PROVE Exists(u)'
            BY <3>3, ExistsStays
        <3>4. Exists(regs[r].user)'
            BY <3>1, <3>2, <3>3 DEF Exists
        <3>5. \A q \in DOMAIN regs' :
                regs'[q].status = "consumed" /\ regs'[q].user = regs'[r].user => q = r
            BY <1>2, <3>1 DEF RegisteredOnce
        <3> QED BY <3>4, <3>5
    <2> QED BY <2>1 DEF RegisteredOnce
<1>3. ASSUME NEW w \in Workers, RegCommit(w) PROVE RegisteredOnce'
    <2> DEFINE c == job[w].code
               u == job[w].user
    <2>1. c \in DOMAIN regs /\ regs[c].user = u /\ u \in Users /\ ~ Exists(u)
        BY <1>3, Facts DEF RegCommit, RollsBack, JobOk
    <2>2. /\ regs' = [regs EXCEPT ![c].status = Consumed(regs[c].status)]
          /\ users' = [users EXCEPT ![u] = NewUser("user")]
        BY <1>3, <2>1 DEF RegCommit
    <2> HIDE DEF c, u
    <2>3. DOMAIN regs' = DOMAIN regs /\ \A r \in DOMAIN regs :
            /\ regs'[r].user = regs[r].user
            /\ r # c => regs'[r].status = regs[r].status
        BY <2>1, <2>2, Facts DEF Reg
    <2>4. users'[u].role # "none" /\ \A v \in Users : v # u => users'[v] = users[v]
        BY <2>1, <2>2, Facts DEF NewUser
    <2>5. \A r \in DOMAIN regs : regs[r].status = "consumed" => regs[r].user # u
        BY <2>1 DEF RegisteredOnce
    <2>6. \A r \in DOMAIN regs : regs[r].user \in Users
        BY Facts DEF Reg
    <2>7. ASSUME NEW r \in DOMAIN regs', regs'[r].status = "consumed"
          PROVE  /\ users'[regs'[r].user].role # "none"
                 /\ \A q \in DOMAIN regs' :
                      regs'[q].status = "consumed" /\ regs'[q].user = regs'[r].user => q = r
        <3>1. CASE r = c
            BY <2>1, <2>3, <2>4, <2>5, <3>1
        <3>2. CASE r # c
            BY <2>1, <2>3, <2>4, <2>5, <2>6, <2>7, <3>2 DEF RegisteredOnce, Exists
        <3> QED BY <3>1, <3>2
    <2> QED BY <2>7 DEF RegisteredOnce, Exists
<1> QED BY <1>2, <1>3, RegSteps

\* A user is registered by one code and every used code has its account,
\* however many registrations and verifications of it overlap.
THEOREM RegisteredByOneCode == Spec => []RegisteredOnce
<1>1. Init => RegisteredOnce
    <2>1. Init => DOMAIN regs = {}
        BY DEF Init
    <2> QED BY <2>1 DEF RegisteredOnce
<1>2. TypeInv /\ RegisteredOnce /\ [Next]_vars => RegisteredOnce'
    BY OnceStep
<1> QED BY <1>1, <1>2, InitTyped, NextTyped, PTL DEF Spec

-----------------------------------------------------------------------------
(***************************************************************************)
(* One request at a time.  Until two requests overlap at most one is under *)
(* way, and what it holds is what the tables say; the tables, here values  *)
(* U, C, D, G and T, agree with each other.                                *)
(***************************************************************************)
Alone == \A v, w \in Workers : job[v] # Idle /\ job[w] # Idle => v = w

RowsIn(D, u) == {r \in DOMAIN D : D[r].live /\ D[r].user = u}
RowIn(D, u, d) == {r \in RowsIn(D, u) : D[r].device = d}
Is(U, u) == U[u].role # "none"

\* A code that logged in is used, and its account is there.
LoginsOk(C, U) ==
    \A c \in DOMAIN C :
        /\ Is(U, C[c].user) /\ C[c].logins <= 1
        /\ C[c].logins = 1 => C[c].status = "consumed"

\* No token is ahead of its account's version.
TokensOk(T, U) == \A t \in T : Is(U, t.user) /\ t.version <= U[t.user].version

\* device_id is unique.
RowsApart(D) ==
    \A r, s \in DOMAIN D : D[r].live /\ D[s].live /\ D[r].device = D[s].device => r = s

\* Trusted token g is user u's for device d, and of use.
Owns(G, g, u, d) ==
    g \in DOMAIN G /\ G[g].user = u /\ G[g].device = d /\ ~ G[g].revoked

TrustOk(D, G) ==
    \A r \in DOMAIN D : D[r].live /\ D[r].trust # 0 => Owns(G, D[r].trust, D[r].user, D[r].device)

ActiveOk(D, U) ==
    \A u \in Users : U[u].active # NoDevice => RowIn(D, u, U[u].active) # {}

TablesOk(U, C, D, G, T) ==
    LoginsOk(C, U) /\ TokensOk(T, U) /\ RowsApart(D) /\ TrustOk(D, G) /\ ActiveOk(D, U)

\* Room for one more once the rows `gone` are deleted.
RoomFor(D, u, gone) == Cardinality(RowsIn(D, u)) - Cardinality(gone) + 1 <= MaxDevices

CopyOk(j, U, C, D, G) ==
    /\ j.pc \in Logging => Is(U, j.user)
    /\ j.pc \in Logging \ {"verifyUser"} => j.version = U[j.user].version
    /\ j.pc \in {"device", "chDelete", "chCreate", "trustDevice"} => j.code = 0
    /\ j.pc \in Logging /\ j.code # 0 =>
         /\ C[j.code].logins = 0 /\ C[j.code].status # "deleted"
         /\ j.pc \in {"txRead", "txCommit"} => C[j.code].status = "consumed"
    /\ j.pc # "txCommit" => j.gone = {}
    /\ j.pc \notin {"txCommit", "touch"} => j.row = 0
    /\ j.pc # "touch" => j.held = 0
    /\ j.row # 0 => j.row \in RowIn(D, j.user, j.device) /\ j.gone = {}
    /\ j.gone \subseteq RowsIn(D, j.user)
    /\ j.role = "admin" => j.gone = {}
    /\ j.pc = "txCommit" /\ j.role # "admin" /\ j.row = 0 /\ MaxDevices > 0 =>
         RoomFor(D, j.user, j.gone)
    /\ j.held # 0 => Owns(G, j.held, j.user, j.device)

Lone ==
    /\ Alone /\ TablesOk(users, challenges, devices, grants, tokens)
    /\ \A w \in Workers : CopyOk(job[w], users, challenges, devices, grants)

\* The request that moves is the only one.
Only(w) == \A v \in Workers : job[v] # Idle => v = w

LEMMA IdleCopy ==
    ASSUME NEW U, NEW C, NEW D, NEW G PROVE CopyOk(Idle, U, C, D, G)
BY DEF CopyOk, Idle, Logging

LEMMA Write ==
    ASSUME TypeInv, Lone, NEW w \in Workers, NEW j, job' = [job EXCEPT ![w] = j], Only(w),
           TablesOk(users', challenges', devices', grants', tokens'),
           CopyOk(j, users', challenges', devices', grants')
    PROVE  Lone'
<1>1. job' \in [Workers -> {job'[v] : v \in Workers}] /\ \A v \in Workers : job'[v] = IF v = w THEN j ELSE Idle
    BY Facts DEF Only
<1>2. Alone'
    BY <1>1 DEF Alone
<1>3. \A v \in Workers : CopyOk(job'[v], users', challenges', devices', grants')
    BY <1>1, IdleCopy
<1> QED BY <1>2, <1>3 DEF Lone

\* A step that writes no table.
LEMMA Move ==
    ASSUME TypeInv, Lone, NEW w \in Workers, NEW j, job' = [job EXCEPT ![w] = j], Only(w),
           UNCHANGED <<users, challenges, devices, grants, tokens>>,
           CopyOk(j, users, challenges, devices, grants)
    PROVE  Lone'
BY Write DEF Lone

LEMMA Finished ==
    ASSUME TypeInv, Lone, NEW w \in Workers, End(w), Only(w),
           TablesOk(users', challenges', devices', grants', tokens')
    PROVE  Lone'
BY Write, IdleCopy DEF End

LEMMA Ended ==
    ASSUME TypeInv, Lone, NEW w \in Workers, End(w), Only(w),
           UNCHANGED <<users, challenges, devices, grants, tokens>>
    PROVE  Lone'
BY Move, IdleCopy DEF End

LEMMA OnlyOne ==
    ASSUME Alone, NEW w \in Workers, job[w].pc # "idle" PROVE Only(w)
BY DEF Alone, Only, Idle

-----------------------------------------------------------------------------
\* A request begins when no other is under way, with a copy of what is there.
LEMMA Begins ==
    ASSUME TypeInv, Lone, overlaps = 0, overlaps' = 0, NEW w \in Workers,
           \/ \E u \in Users : BeginRegister(w, u)
           \/ \E r \in DOMAIN regs : VerifyRegister(w, r)
           \/ \E u \in Users, d \in Devices : TrustedLogin(w, u, d)
           \/ \E u \in Users, d \in Devices, b \in BOOLEAN : Login(w, u, d, b)
           \/ \E c \in DOMAIN challenges, b \in BOOLEAN : VerifyLogin(w, c, b)
           \/ \E t \in tokens : ChangePassword(w, t) \/ Logout(w, t)
           \/ \E t \in tokens, d \in Devices : RegisterDevice(w, t, d)
    PROVE  Lone'
<1>1. ASSUME NEW j, Begin(w, j), CopyOk(j, users, challenges, devices, grants),
             UNCHANGED <<users, rows, tokens, bounds>>
      PROVE  Lone'
    <2>1. ~ Busy
        BY <1>1 DEF Begin, CountOverlap
    <2>2. Only(w)
        BY <2>1 DEF Busy, Only
    <2> QED BY <1>1, <2>2, Move DEF Begin, rows
<1>2. ASSUME NEW u \in Users, BeginRegister(w, u) PROVE Lone'
    <2> DEFINE j == [Idle EXCEPT !.pc = "regDelete", !.user = u]
    <2>1. CopyOk(j, users, challenges, devices, grants)
        BY DEF CopyOk, Idle, Logging
    <2> HIDE DEF j
    <2> QED BY <1>1, <1>2, <2>1 DEF BeginRegister, j
<1>3. ASSUME NEW r \in DOMAIN regs, VerifyRegister(w, r) PROVE Lone'
    <2> DEFINE j == [Idle EXCEPT !.pc = "regFind", !.user = regs[r].user, !.code = r]
    <2>1. CopyOk(j, users, challenges, devices, grants)
        BY DEF CopyOk, Idle, Logging
    <2> HIDE DEF j
    <2> QED BY <1>1, <1>3, <2>1 DEF VerifyRegister, j
<1>4. ASSUME NEW u \in Users, NEW d \in Devices, TrustedLogin(w, u, d) PROVE Lone'
    <2> DEFINE j == [Idle EXCEPT !.pc = "trustDevice", !.user = u, !.device = d, !.trust = TRUE,
                                 !.role = users[u].role, !.version = users[u].version]
    <2>1. CopyOk(j, users, challenges, devices, grants)
        BY <1>4 DEF CopyOk, Idle, Logging, TrustedLogin, Exists, Is
    <2> HIDE DEF j
    <2> QED BY <1>1, <1>4, <2>1 DEF TrustedLogin, j
<1>5. ASSUME NEW u \in Users, NEW d \in Devices, NEW b \in BOOLEAN, Login(w, u, d, b)
      PROVE  Lone'
    <2> DEFINE j == [Idle EXCEPT !.pc = "device", !.user = u, !.device = d, !.trust = b,
                                 !.role = users[u].role, !.version = users[u].version]
    <2>1. CopyOk(j, users, challenges, devices, grants)
        BY <1>5 DEF CopyOk, Idle, Logging, Login, Exists, Is
    <2> HIDE DEF j
    <2> QED BY <1>1, <1>5, <2>1 DEF Login, j
<1>6. ASSUME NEW c \in DOMAIN challenges, NEW b \in BOOLEAN, VerifyLogin(w, c, b)
      PROVE  Lone'
    <2> DEFINE j == [Idle EXCEPT !.pc = "verifyUser", !.user = challenges[c].user,
                                 !.device = challenges[c].device, !.trust = b, !.code = c]
    <2>1. /\ Is(users, challenges[c].user) /\ challenges[c].logins = 0
          /\ challenges[c].status # "deleted"
        <3>1. challenges[c].logins \in Nat /\ challenges[c].status = "pending"
            BY <1>6, Facts DEF VerifyLogin, Challenge
        <3>2. LoginsOk(challenges, users)
            BY DEF Lone, TablesOk
        <3> QED BY <3>1, <3>2 DEF LoginsOk
    <2>2. CopyOk(j, users, challenges, devices, grants)
        BY <2>1 DEF CopyOk, Idle, Logging
    <2> HIDE DEF j
    <2> QED BY <1>1, <1>6, <2>2 DEF VerifyLogin, j
<1>7. ASSUME NEW t \in tokens, ChangePassword(w, t) PROVE Lone'
    <2> DEFINE j == [Idle EXCEPT !.pc = "change", !.user = t.user]
    <2>1. CopyOk(j, users, challenges, devices, grants)
        BY DEF CopyOk, Idle, Logging
    <2> HIDE DEF j
    <2> QED BY <1>1, <1>7, <2>1 DEF ChangePassword, j
<1>8. ASSUME NEW t \in tokens, Logout(w, t) PROVE Lone'
    <2> DEFINE j == [Idle EXCEPT !.pc = "logoutRead", !.user = t.user, !.device = t.device]
    <2>1. CopyOk(j, users, challenges, devices, grants)
        BY DEF CopyOk, Idle, Logging
    <2> HIDE DEF j
    <2> QED BY <1>1, <1>8, <2>1 DEF Logout, j
<1>9. ASSUME NEW t \in tokens, NEW d \in Devices, RegisterDevice(w, t, d) PROVE Lone'
    <2> DEFINE j == [Idle EXCEPT !.pc = "touchRead", !.user = t.user, !.device = d]
    <2>1. CopyOk(j, users, challenges, devices, grants)
        BY DEF CopyOk, Idle, Logging
    <2> HIDE DEF j
    <2> QED BY <1>1, <1>9, <2>1 DEF RegisterDevice, j
<1> QED BY <1>2, <1>3, <1>4, <1>5, <1>6, <1>7, <1>8, <1>9

LEMMA RowsFinite ==
    ASSUME TypeInv, NEW u
    PROVE  /\ RowsIn(devices, u) = RowsOf(u) /\ IsFiniteSet(RowsIn(devices, u))
           /\ Cardinality(RowsIn(devices, u)) \in Nat
           /\ \A d : RowIn(devices, u, d) = RowFor(u, d)
<1>1. RowsIn(devices, u) \subseteq 1..Len(devices) /\ Len(devices) \in Nat
    BY Facts DEF RowsIn
<1>2. IsFiniteSet(RowsIn(devices, u))
    <2>1. IsFiniteSet(1..Len(devices))
        BY <1>1, FS_Interval
    <2> QED BY <1>1, <2>1, FS_Subset
<1> QED BY <1>2, FS_CardinalityType DEF RowsIn, RowIn, RowsOf, RowFor

\* The steps that read: the request goes on with what it found, or ends.
LEMMA Reads ==
    ASSUME TypeInv, Lone, NEW w \in Workers,
           \/ RegDelete(w) \/ RegCreate(w) \/ RegFind(w) \/ RegRollback(w)
           \/ LoginDevice(w) \/ TrustedDevice(w)
           \/ (\E force \in BOOLEAN : VerifyUser(w, force))
           \/ TxRead(w) \/ TxRollback(w) \/ LogoutRead(w) \/ TouchRead(w) \/ Fail(w)
    PROVE  Lone'
<1>1. /\ job[w] \in Job /\ JobOk(job[w], regs, Len(challenges), Len(grants))
      /\ CopyOk(job[w], users, challenges, devices, grants)
    BY Facts DEF Lone
<1>2. Only(w)
    BY OnlyOne DEF Lone, RegDelete, RegCreate, RegFind, RegRollback, LoginDevice, TrustedDevice,
        VerifyUser, TxRead, TxRollback, LogoutRead, TouchRead, Fail, Alone, Only
<1>3. ASSUME NEW pc, Goto(w, pc), UNCHANGED <<users, challenges, devices, grants, tokens>>,
             \/ job[w].pc \in {"regDelete", "regFind"} /\ pc \in {"regCreate", "regCommit"}
             \/ job[w].pc = "device" /\ pc \in {"txRead", "chDelete"}
             \/ job[w].pc = "trustDevice" /\ pc = "txRead"
             \/ job[w].pc = "touchRead" /\ pc = "touch"
      PROVE  Lone'
    <2> DEFINE j == [job[w] EXCEPT !.pc = pc]
    <2>1. CopyOk(j, users, challenges, devices, grants)
        BY <1>1, <1>3 DEF Job, CopyOk, Logging
    <2>2. job' = [job EXCEPT ![w] = j]
        BY <1>3, Facts DEF Goto
    <2> HIDE DEF j
    <2> QED BY <1>2, <1>3, <2>1, <2>2, Move
<1>4. CASE RegDelete(w)
    BY <1>3, <1>4 DEF RegDelete
<1>5. CASE RegCreate(w)
    BY <1>2, <1>5, Ended DEF RegCreate
<1>6. CASE RegFind(w)
    BY <1>2, <1>3, <1>6, Ended DEF RegFind, rows
<1>7. CASE RegRollback(w)
    BY <1>2, <1>7, Ended DEF RegRollback, rows
<1>8. CASE LoginDevice(w)
    BY <1>3, <1>8 DEF LoginDevice, rows
<1>9. CASE TrustedDevice(w)
    BY <1>2, <1>3, <1>9, Ended DEF TrustedDevice, rows
<1>10. ASSUME NEW force \in BOOLEAN, VerifyUser(w, force) PROVE Lone'
    <2>1. CASE Conflict(job[w].user, job[w].device) /\ ~ force
        BY <1>2, <1>10, <2>1, Ended DEF VerifyUser, rows
    <2>2. CASE ~ (Conflict(job[w].user, job[w].device) /\ ~ force)
        <3> DEFINE u == job[w].user
                   j == [job[w] EXCEPT !.pc = "consume", !.role = users[u].role,
                                       !.version = users[u].version]
        <3>1. CopyOk(j, users, challenges, devices, grants)
            BY <1>1, <1>10 DEF VerifyUser, Job, CopyOk, Logging
        <3>2. job' = [job EXCEPT ![w] = j]
            BY <1>10, <2>2, Facts DEF VerifyUser
        <3> HIDE DEF j
        <3> QED BY <1>2, <1>10, <3>1, <3>2, Move DEF VerifyUser, rows
    <2> QED BY <2>1, <2>2
<1>11. CASE TxRead(w)
    <2> DEFINE u == job[w].user
    <2>1. ASSUME NEW r \in RowFor(u, job[w].device),
                 job' = [job EXCEPT ![w].pc = "txCommit", ![w].row = r]
          PROVE  Lone'
        <3> DEFINE j == [job[w] EXCEPT !.pc = "txCommit", !.row = r]
        <3>1. r \in RowIn(devices, u, job[w].device) /\ r # 0
            BY Facts DEF RowFor, RowsOf, RowIn, RowsIn
        <3>2. CopyOk(j, users, challenges, devices, grants)
            BY <1>1, <1>11, <3>1 DEF TxRead, Job, CopyOk, Logging
        <3>3. job' = [job EXCEPT ![w] = j]
            BY <2>1, Facts
        <3> HIDE DEF j
        <3> QED BY <1>2, <1>11, <3>2, <3>3, Move DEF TxRead, rows
    <2>2. ASSUME NEW R \in Trimmed(job[w]),
                 job' = [job EXCEPT ![w].pc = "txCommit", ![w].gone = R]
          PROVE  Lone'
        <3> DEFINE j == [job[w] EXCEPT !.pc = "txCommit", !.gone = R]
        <3>1. R \subseteq RowsIn(devices, u) /\ (job[w].role = "admin" => R = {})
            BY <2>2, RowsFinite DEF Trimmed, Unlimited
        <3>2. ASSUME job[w].role # "admin", MaxDevices > 0 PROVE RoomFor(devices, u, R)
            <4>1. ~ Unlimited(job[w]) /\ MaxDevices \in Nat
                BY <3>2, LimitAssumption DEF Unlimited
            <4>2. CASE Excess(u) <= 0
                <5>1. R = {} /\ Cardinality(R) = 0
                    BY <4>2, FS_EmptySet DEF Trimmed
                <5> QED BY <4>1, <4>2, <5>1, RowsFinite DEF Excess, RoomFor
            <4>3. CASE ~ (Excess(u) <= 0)
                <5>1. Cardinality(R) = Excess(u)
                    BY <4>1, <4>3 DEF Trimmed
                <5> QED BY <4>1, <5>1, RowsFinite DEF Excess, RoomFor
            <4> QED BY <4>2, <4>3
        <3>3. CopyOk(j, users, challenges, devices, grants)
            BY <1>1, <1>11, <3>1, <3>2 DEF TxRead, Job, CopyOk, Logging
        <3>4. job' = [job EXCEPT ![w] = j]
            BY <2>2, Facts
        <3> HIDE DEF j
        <3> QED BY <1>2, <1>11, <3>3, <3>4, Move DEF TxRead, rows
    <2> QED BY <1>11, <2>1, <2>2 DEF TxRead
<1>12. CASE TxRollback(w)
    BY <1>2, <1>12, Ended DEF TxRollback, rows
<1>13. CASE LogoutRead(w)
    <2> DEFINE a == users[job[w].user].active
               j == [job[w] EXCEPT !.pc = "logout", !.active = a]
    <2>1. CopyOk(j, users, challenges, devices, grants)
        BY <1>1, <1>13 DEF LogoutRead, Job, CopyOk, Logging
    <2>2. job' = [job EXCEPT ![w] = j]
        BY <1>13, Facts DEF LogoutRead
    <2> HIDE DEF j
    <2> QED BY <1>2, <1>13, <2>1, <2>2, Move DEF LogoutRead, rows
<1>14. CASE TouchRead(w)
    <2> DEFINE u == job[w].user
               d == job[w].device
    <2>1. ASSUME NEW r \in RowFor(u, d),
                 job' = [job EXCEPT ![w].pc = "touch", ![w].row = r, ![w].held = devices[r].trust]
          PROVE  Lone'
        <3> DEFINE h == devices[r].trust
                   j == [job[w] EXCEPT !.pc = "touch", !.row = r, !.held = h]
        <3>1. r \in RowIn(devices, u, d) /\ r # 0 /\ (h # 0 => Owns(grants, h, u, d))
            <4>1. /\ r \in DOMAIN devices /\ r # 0 /\ devices[r].live
                  /\ devices[r].user = u /\ devices[r].device = d
                BY Facts DEF RowFor, RowsOf
            <4>2. TrustOk(devices, grants)
                BY DEF Lone, TablesOk
            <4> QED BY <4>1, <4>2 DEF RowIn, RowsIn, TrustOk
        <3> HIDE DEF h
        <3>2. CopyOk(j, users, challenges, devices, grants)
            BY <1>1, <1>14, <3>1 DEF TouchRead, Job, CopyOk, Logging
        <3>3. job' = [job EXCEPT ![w] = j]
            BY <2>1, Facts DEF h
        <3> HIDE DEF j
        <3> QED BY <1>2, <1>14, <3>2, <3>3, Move DEF TouchRead, rows
    <2>2. CASE Goto(w, "touch")
        BY <1>3, <1>14, <2>2 DEF TouchRead, rows
    <2> QED BY <1>14, <2>1, <2>2 DEF TouchRead
<1>15. CASE Fail(w)
    BY <1>2, <1>15, Ended DEF Fail, rows
<1> QED BY <1>4, <1>5, <1>6, <1>7, <1>8, <1>9, <1>10, <1>11, <1>12, <1>13, <1>14, <1>15

-----------------------------------------------------------------------------
(* The steps that write a table *)

\* Accounts only come: what Is and the versions say of the others stays.
LEMMA RegCommitLone ==
    ASSUME TypeInv, Lone, NEW w \in Workers, RegCommit(w) PROVE Lone'
<1> DEFINE u == job[w].user
<1>1. Only(w) /\ u \in Users /\ ~ Is(users, u) /\ End(w)
    BY OnlyOne, Facts DEF Lone, RegCommit, RollsBack, Exists, Is, JobOk
<1>2. /\ users' = [users EXCEPT ![u] = NewUser("user")]
      /\ UNCHANGED <<challenges, devices, grants, tokens>>
    BY <1>1 DEF RegCommit, Exists, Is
<1>3. /\ users'[u].role # "none" /\ users'[u].active = NoDevice
      /\ \A v \in Users : v # u => users'[v] = users[v]
    BY <1>1, <1>2, Facts DEF NewUser
<1> HIDE DEF u
<1>4. \A v \in Users : Is(users, v) => users'[v] = users[v] /\ Is(users', v)
    BY <1>1, <1>3 DEF Is
<1>5. \A c \in DOMAIN challenges : challenges[c].user \in Users
    BY Facts DEF Challenge
<1>6. \A t \in tokens : t.user \in Users
    BY Facts DEF Token
<1>7. LoginsOk(challenges, users') /\ TokensOk(tokens, users')
    BY <1>4, <1>5, <1>6 DEF Lone, TablesOk, LoginsOk, TokensOk
<1>8. ActiveOk(devices, users')
    BY <1>3 DEF Lone, TablesOk, ActiveOk
<1> QED BY <1>1, <1>2, <1>7, <1>8, Finished DEF Lone, TablesOk

LEMMA RoleLone ==
    ASSUME TypeInv, Lone, overlaps = 0, overlaps' = 0, NEW u \in Users,
           NEW role \in AssignableRoles, UpdateRole(u, role)
    PROVE  Lone'
<1>1. \A w \in Workers : job[w] = Idle
    BY DEF UpdateRole, CountOverlap, Busy
<1>2. /\ users' = [users EXCEPT ![u].role = role] /\ role # "none"
      /\ UNCHANGED <<job, challenges, devices, grants, tokens>> /\ Is(users, u)
    BY DEF UpdateRole, rows, AssignableRoles, Exists, Is
<1>3. \A v \in Users : /\ users'[v].active = users[v].active /\ users'[v].version = users[v].version
                       /\ Is(users, v) => Is(users', v)
    BY <1>2, Facts DEF User, Is
<1>4. \A c \in DOMAIN challenges : challenges[c].user \in Users
    BY Facts DEF Challenge
<1>5. \A t \in tokens : t.user \in Users
    BY Facts DEF Token
<1>6. LoginsOk(challenges, users') /\ TokensOk(tokens, users') /\ ActiveOk(devices, users')
    BY <1>3, <1>4, <1>5 DEF Lone, TablesOk, LoginsOk, TokensOk, ActiveOk
<1>7. \A w \in Workers : CopyOk(job'[w], users', challenges', devices', grants')
    BY <1>1, <1>2, IdleCopy
<1> QED BY <1>2, <1>6, <1>7 DEF Lone, TablesOk, Alone

LEMMA TimeLone == ASSUME TypeInv, Lone, Time PROVE Lone'
<1>1. ASSUME NEW r \in DOMAIN regs, RegExpires(r) PROVE Lone'
    BY <1>1 DEF RegExpires, Lone, Alone
<1>2. ASSUME NEW g \in DOMAIN grants, TrustExpires(g) PROVE Lone'
    <2>1. /\ UNCHANGED <<users, challenges, devices, tokens, job>>
          /\ DOMAIN grants' = DOMAIN grants
          /\ \A h \in DOMAIN grants : /\ grants'[h].user = grants[h].user
                                      /\ grants'[h].device = grants[h].device
                                      /\ grants'[h].revoked = grants[h].revoked
        BY <1>2, Facts DEF TrustExpires, Grant
    <2>2. \A h, u, d : Owns(grants, h, u, d) => Owns(grants', h, u, d)
        BY <2>1 DEF Owns
    <2>3. TrustOk(devices, grants')
        BY <2>2 DEF Lone, TablesOk, TrustOk
    <2>4. ASSUME NEW w \in Workers PROVE CopyOk(job[w], users, challenges, devices, grants')
        <3>1. CopyOk(job[w], users, challenges, devices, grants)
            BY DEF Lone
        <3> QED BY <2>2, <3>1 DEF CopyOk
    <2> QED BY <2>1, <2>3, <2>4 DEF Lone, TablesOk, Alone
<1>3. ASSUME NEW c \in DOMAIN challenges, ChallengeExpires(c) PROVE Lone'
    <2>1. /\ UNCHANGED <<users, grants, devices, tokens, job>>
          /\ DOMAIN challenges' = DOMAIN challenges
          /\ \A i \in DOMAIN challenges :
                /\ challenges'[i].user = challenges[i].user
                /\ challenges'[i].logins = challenges[i].logins
                /\ \/ challenges'[i].status = challenges[i].status
                   \/ challenges[i].status = "pending" /\ challenges'[i].status = "expired"
        BY <1>3, Facts DEF ChallengeExpires, Challenge
    <2>2. LoginsOk(challenges', users)
        BY <2>1 DEF Lone, TablesOk, LoginsOk
    <2>3. ASSUME NEW w \in Workers PROVE CopyOk(job[w], users, challenges', devices, grants)
        <3>1. CopyOk(job[w], users, challenges, devices, grants)
            BY DEF Lone
        <3>2. job[w].pc \in Logging /\ job[w].code # 0 => job[w].code \in DOMAIN challenges
            BY Facts DEF JobOk
        <3> QED BY <2>1, <3>1, <3>2 DEF CopyOk
    <2> QED BY <2>1, <2>2, <2>3 DEF Lone, TablesOk, Alone
<1> QED BY <1>1, <1>2, <1>3 DEF Time

LEMMA ChallengeLone ==
    ASSUME TypeInv, Lone, NEW w \in Workers,
           ChallengeDelete(w) \/ ChallengeCreate(w) \/ Consume(w)
    PROVE  Lone'
<1>1. /\ job[w] \in Job /\ JobOk(job[w], regs, Len(challenges), Len(grants))
      /\ CopyOk(job[w], users, challenges, devices, grants)
      /\ LoginsOk(challenges, users)
    BY Facts DEF Lone, TablesOk
<1>2. Only(w) /\ UNCHANGED <<users, devices, grants, tokens>>
    BY OnlyOne DEF Lone, ChallengeDelete, ChallengeCreate, Consume
<1>3. CASE ChallengeDelete(w)
    <2>1. /\ DOMAIN challenges' = DOMAIN challenges
          /\ \A c \in DOMAIN challenges :
                /\ challenges'[c].user = challenges[c].user
                /\ challenges'[c].logins = challenges[c].logins
                /\ challenges[c].status = "consumed" => challenges'[c].status = "consumed"
        BY <1>3, Facts DEF ChallengeDelete, Challenge
    <2>2. LoginsOk(challenges', users)
        BY <1>1, <2>1 DEF LoginsOk
    <2> DEFINE j == [job[w] EXCEPT !.pc = "chCreate"]
    <2>3. CopyOk(j, users, challenges', devices, grants)
        BY <1>1, <1>3 DEF ChallengeDelete, Job, CopyOk, Logging
    <2>4. job' = [job EXCEPT ![w] = j]
        BY <1>3, Facts DEF ChallengeDelete, Goto
    <2> HIDE DEF j
    <2> QED BY <1>2, <2>2, <2>3, <2>4, Write DEF Lone, TablesOk
<1>4. CASE ChallengeCreate(w)
    <2> DEFINE row == [user |-> job[w].user, device |-> job[w].device,
                       status |-> "pending", logins |-> 0]
    <2>1. challenges' = Append(challenges, row) /\ End(w)
        BY <1>4 DEF ChallengeCreate
    <2>2. row.user = job[w].user /\ row.logins = 0 /\ Is(users, job[w].user)
        BY <1>1, <1>4 DEF ChallengeCreate, CopyOk, Logging
    <2> HIDE DEF row
    <2>3. /\ DOMAIN challenges' = DOMAIN challenges \cup {Len(challenges) + 1}
          /\ challenges'[Len(challenges) + 1] = row
          /\ \A c \in DOMAIN challenges : challenges'[c] = challenges[c]
        BY <2>1, Facts
    <2>4. LoginsOk(challenges', users)
        BY <1>1, <2>2, <2>3 DEF LoginsOk
    <2> QED BY <1>2, <2>1, <2>4, Finished DEF Lone, TablesOk
<1>5. CASE Consume(w)
    <2> DEFINE i == job[w].code
    <2>1. /\ i \in DOMAIN challenges /\ challenges[i] \in Challenge /\ i # 0
          /\ challenges[i].status # "deleted" /\ challenges[i].logins = 0
        BY <1>1, <1>5, Facts DEF Consume, JobOk, Logging, CopyOk
    <2>2. /\ DOMAIN challenges' = DOMAIN challenges
          /\ challenges'[i].status = "consumed" /\ challenges'[i].logins = 0
          /\ challenges'[i].user = challenges[i].user
          /\ \A c \in DOMAIN challenges : c # i => challenges'[c] = challenges[c]
        BY <1>5, <2>1 DEF Consume, LoginConsumed, Consumed, Challenge
    <2>3. LoginsOk(challenges', users)
        BY <1>1, <2>1, <2>2 DEF LoginsOk
    <2> DEFINE j == [job[w] EXCEPT !.pc = "txRead"]
    <2>4. CopyOk(j, users, challenges', devices, grants)
        BY <1>1, <1>5, <2>2 DEF Consume, Job, CopyOk, Logging
    <2>5. job' = [job EXCEPT ![w] = j]
        BY <1>5, Facts DEF Consume, Goto
    <2> HIDE DEF i, j
    <2> QED BY <1>2, <2>3, <2>4, <2>5, Write DEF Lone, TablesOk
<1> QED BY <1>3, <1>4, <1>5

-----------------------------------------------------------------------------
\* The tables of devices and tokens row by row, after each of their updates.
LEMMA KeptRows ==
    ASSUME TypeInv, NEW gone
    PROVE  /\ DOMAIN Kept(gone) = DOMAIN devices
           /\ \A r \in DOMAIN devices :
                /\ Kept(gone)[r].user = devices[r].user /\ Kept(gone)[r].device = devices[r].device
                /\ Kept(gone)[r].trust = devices[r].trust
                /\ Kept(gone)[r].live = (devices[r].live /\ r \notin gone)
BY Facts DEF Kept, Device

LEMMA UntrustedRows ==
    ASSUME TypeInv, NEW R
    PROVE  /\ DOMAIN Untrusted(R) = DOMAIN devices
           /\ \A r \in DOMAIN devices :
                /\ Untrusted(R)[r].user = devices[r].user
                /\ Untrusted(R)[r].device = devices[r].device
                /\ Untrusted(R)[r].live = devices[r].live
                /\ Untrusted(R)[r].trust = IF r \in R THEN 0 ELSE devices[r].trust
BY Facts DEF Untrusted, Device

LEMMA RevokedRows ==
    ASSUME TypeInv, NEW u, NEW D, NEW g, NEW v, NEW d, Owns(grants, g, v, d), v # u \/ d \notin D
    PROVE  Owns(Revoked(u, D), g, v, d)
BY Facts DEF Revoked, Owns, Grant

\* Save writes one row, and no other row has its device then.
LEMMA SavedRows ==
    ASSUME NEW D \in Seq(Device), RowsApart(D), NEW u, NEW d, NEW trust
    PROVE  LET S == Saved(D, u, d, trust)
           IN  \E n \in DOMAIN S :
                 /\ S[n] = [user |-> u, device |-> d, trust |-> trust, live |-> TRUE]
                 /\ DOMAIN D \subseteq DOMAIN S
                 /\ \A r \in DOMAIN S : r # n =>
                      r \in DOMAIN D /\ S[r] = D[r] /\ ~ (D[r].live /\ D[r].device = d)
                 /\ \/ n \in DOMAIN D /\ D[n].live /\ D[n].device = d /\ Len(S) = Len(D)
                    \/ n = Len(D) + 1
<1> DEFINE row == [user |-> u, device |-> d, trust |-> trust, live |-> TRUE]
           same == {r \in DOMAIN D : D[r].live /\ D[r].device = d}
           S == Saved(D, u, d, trust)
<1>1. /\ same = {} => S = Append(D, row)
      /\ same # {} => S = [r \in DOMAIN D |-> IF r \in same THEN row ELSE D[r]]
    BY DEF Saved
<1>2. \A r \in DOMAIN D : r \in same <=> D[r].live /\ D[r].device = d
    OBVIOUS
<1>3. same \subseteq DOMAIN D /\ \A r, s \in same : r = s
    BY DEF RowsApart
<1>4. DOMAIN D = 1..Len(D) /\ Len(D) \in Nat
    OBVIOUS
<1> HIDE DEF row, same, S
<1>5. CASE same = {}
    <2>1. /\ DOMAIN S = DOMAIN D \cup {Len(D) + 1} /\ S[Len(D) + 1] = row
          /\ \A r \in DOMAIN D : S[r] = D[r]
        BY <1>1, <1>5
    <2>2. \A r \in DOMAIN D : ~ (D[r].live /\ D[r].device = d)
        BY <1>2, <1>5
    <2> QED BY <2>1, <2>2 DEF S, row
<1>6. CASE same # {}
    <2>1. PICK n \in same : TRUE
        BY <1>6
    <2>2. /\ DOMAIN S = DOMAIN D /\ S[n] = row /\ n \in DOMAIN D
          /\ \A r \in DOMAIN D : r # n => S[r] = D[r] /\ r \notin same
        BY <1>1, <1>3, <1>6, <2>1
    <2>3. Len(S) = Len(D)
        BY <1>1, <1>4, <1>6
    <2>4. D[n].live /\ D[n].device = d
        BY <1>2, <2>1, <2>2
    <2> QED BY <1>2, <2>2, <2>3, <2>4 DEF S, row
<1> QED BY <1>5, <1>6

\* The live rows of a device whose row may be saved are the request's user's.
LEMMA OwnRow ==
    ASSUME TypeInv, Lone, NEW w \in Workers, job[w].pc \in {"txCommit", "touch"},
           ~ Refused(job[w])
    PROVE  LET j == job[w]
               K == Kept(j.gone)
           IN  /\ K \in Seq(Device) /\ RowsApart(K) /\ j.gone \subseteq RowsIn(devices, j.user)
               /\ j.user \in Users /\ j.device \in Devices
               /\ \A r \in DOMAIN K : K[r].live /\ K[r].device = j.device => K[r].user = j.user
<1> DEFINE j == job[w]
           K == Kept(j.gone)
<1>1. /\ j \in Job /\ JobOk(j, regs, Len(challenges), Len(grants))
      /\ CopyOk(j, users, challenges, devices, grants) /\ RowsApart(devices)
    BY Facts DEF Lone, TablesOk
<1>2. j.user \in Users /\ j.device \in Devices /\ j.gone \subseteq RowsIn(devices, j.user)
    BY <1>1 DEF JobOk, CopyOk, Logging, Touching
<1>3. RowsApart(K)
    <2> SUFFICES ASSUME NEW r \in DOMAIN K, NEW s \in DOMAIN K, K[r].live, K[s].live,
                        K[r].device = K[s].device
                 PROVE  r = s
        BY DEF RowsApart
    <2>1. /\ r \in DOMAIN devices /\ s \in DOMAIN devices
          /\ devices[r].live /\ devices[s].live /\ devices[r].device = devices[s].device
        BY KeptRows
    <2> QED BY <1>1, <2>1 DEF RowsApart
<1>4. ASSUME NEW r \in DOMAIN K, K[r].live, K[r].device = j.device PROVE K[r].user = j.user
    <2>1. /\ r \in DOMAIN devices /\ devices[r].live /\ r \notin j.gone
          /\ devices[r].device = j.device /\ K[r].user = devices[r].user
        BY <1>4, KeptRows
    <2>2. CASE j.row = 0
        BY <2>1, <2>2 DEF Refused, Taken
    <2>3. CASE j.row # 0
        <3>1. j.row \in RowIn(devices, j.user, j.device)
            BY <1>1, <2>3 DEF CopyOk
        <3>2. /\ j.row \in DOMAIN devices /\ devices[j.row].live /\ devices[j.row].user = j.user
              /\ devices[j.row].device = j.device
            BY <3>1 DEF RowIn, RowsIn
        <3>3. r = j.row
            BY <1>1, <2>1, <3>2 DEF RowsApart
        <3> QED BY <2>1, <3>2, <3>3
    <2> QED BY <2>2, <2>3
<1> QED BY <1>2, <1>3, <1>4, KeptTyped

\* The tables after a request's row is saved, if its own trusted token is good
\* and the other devices' stay as they are.
LEMMA SavedOk ==
    ASSUME TypeInv, Lone, NEW w \in Workers, job[w].pc \in {"txCommit", "touch"},
           ~ Refused(job[w]), NEW trust, NEW G,
           trust # 0 => Owns(G, trust, job[w].user, job[w].device),
           \A g, v, d : Owns(grants, g, v, d) /\ d # job[w].device => Owns(G, g, v, d)
    PROVE  LET S == Saved(Kept(job[w].gone), job[w].user, job[w].device, trust)
           IN  /\ RowsApart(S) /\ TrustOk(S, G)
               /\ \A v \in Users : \A d : RowIn(devices, v, d) # {} /\ (v # job[w].user \/ job[w].gone = {})
                     => RowIn(S, v, d) # {}
               /\ RowIn(S, job[w].user, job[w].device) # {}
<1> DEFINE u == job[w].user
           d == job[w].device
           gone == job[w].gone
           K == Kept(gone)
           S == Saved(K, u, d, trust)
           row == [user |-> u, device |-> d, trust |-> trust, live |-> TRUE]
<1>1. /\ K \in Seq(Device) /\ RowsApart(K) /\ gone \subseteq RowsIn(devices, u)
      /\ \A r \in DOMAIN K : K[r].live /\ K[r].device = d => K[r].user = u
      /\ DOMAIN K = DOMAIN devices
      /\ \A r \in DOMAIN devices :
            /\ K[r].user = devices[r].user /\ K[r].device = devices[r].device
            /\ K[r].trust = devices[r].trust
            /\ K[r].live = (devices[r].live /\ r \notin gone)
    BY OwnRow, KeptRows
<1>2. row.user = u /\ row.device = d /\ row.trust = trust /\ row.live
    OBVIOUS
<1>3. PICK n \in DOMAIN S :
        /\ S[n] = row /\ DOMAIN K \subseteq DOMAIN S
        /\ \A r \in DOMAIN S : r # n =>
             r \in DOMAIN K /\ S[r] = K[r] /\ ~ (K[r].live /\ K[r].device = d)
        /\ n \in DOMAIN K => K[n].live /\ K[n].device = d
    <2>1. K \in Seq(Device) /\ RowsApart(K)
        BY <1>1
    <2>2. Len(K) + 1 \notin DOMAIN K
        BY <2>1
    <2> HIDE DEF K, u, d
    <2>3. \E n \in DOMAIN S :
             /\ S[n] = row
             /\ DOMAIN K \subseteq DOMAIN S
             /\ \A r \in DOMAIN S : r # n =>
                  r \in DOMAIN K /\ S[r] = K[r] /\ ~ (K[r].live /\ K[r].device = d)
             /\ \/ n \in DOMAIN K /\ K[n].live /\ K[n].device = d /\ Len(S) = Len(K)
                \/ n = Len(K) + 1
        BY <2>1, SavedRows
    <2> HIDE DEF S, row
    <2> QED BY <2>2, <2>3
<1>4. \A g, v, e : Owns(grants, g, v, e) /\ e # d => Owns(G, g, v, e)
    OBVIOUS
<1>5. trust # 0 => Owns(G, trust, u, d)
    OBVIOUS
<1>6. TrustOk(devices, grants)
    BY DEF Lone, TablesOk
<1> HIDE DEF u, d, gone, K, S, row
<1>7. RowsApart(S)
    BY <1>1, <1>2, <1>3 DEF RowsApart
<1>8. TrustOk(S, G)
    <2> SUFFICES ASSUME NEW r \in DOMAIN S, S[r].live, S[r].trust # 0
                 PROVE  Owns(G, S[r].trust, S[r].user, S[r].device)
        BY DEF TrustOk
    <2>1. CASE r = n
        BY <1>2, <1>3, <1>5, <2>1
    <2>2. CASE r # n
        <3>1. /\ r \in DOMAIN devices /\ devices[r].live /\ devices[r].trust # 0
              /\ S[r].trust = devices[r].trust /\ S[r].user = devices[r].user
              /\ S[r].device = devices[r].device /\ devices[r].device # d
            BY <1>1, <1>3, <2>2
        <3> QED BY <1>4, <1>6, <3>1 DEF TrustOk
    <2> QED BY <2>1, <2>2
<1>9. ASSUME NEW v \in Users, NEW e, NEW r \in RowIn(devices, v, e), v # u \/ gone = {}
      PROVE  RowIn(S, v, e) # {}
    <2>1. /\ r \in DOMAIN devices /\ devices[r].live /\ devices[r].user = v
          /\ devices[r].device = e
        BY <1>9 DEF RowIn, RowsIn
    <2>2. r \notin gone
        BY <1>1, <1>9, <2>1 DEF RowsIn
    <2>3. r \in DOMAIN S /\ K[r].live /\ K[r].user = v /\ K[r].device = e
        BY <1>1, <1>3, <2>1, <2>2
    <2>4. S[r].live /\ S[r].user = v /\ S[r].device = e
        BY <1>1, <1>2, <1>3, <2>1, <2>3
    <2> QED BY <2>3, <2>4 DEF RowIn, RowsIn
<1>10. RowIn(S, u, d) # {}
    BY <1>2, <1>3 DEF RowIn, RowsIn
<1> QED BY <1>7, <1>8, <1>9, <1>10 DEF u, d, gone, K, S

-----------------------------------------------------------------------------
\* Accounts and versions only grow: what was true of codes and tokens stays.
LEMMA UsersGrow ==
    ASSUME TypeInv, NEW U \in [Users -> User],
           \A x \in Users : Is(users, x) => Is(U, x) /\ users[x].version <= U[x].version,
           LoginsOk(challenges, users), TokensOk(tokens, users)
    PROVE  LoginsOk(challenges, U) /\ TokensOk(tokens, U)
<1>1. \A c \in DOMAIN challenges : challenges[c].user \in Users
    BY Facts DEF Challenge
<1>2. \A t \in tokens : t.user \in Users /\ t.version \in Nat
    BY Facts DEF Token
<1>3. \A x \in Users : users[x].version \in Nat /\ U[x].version \in Nat
    BY Facts DEF User
<1>4. LoginsOk(challenges, U)
    BY <1>1 DEF LoginsOk
<1>5. TokensOk(tokens, U)
    BY <1>2, <1>3 DEF TokensOk
<1> QED BY <1>4, <1>5

LEMMA TxCommitLone ==
    ASSUME TypeInv, Lone, NEW w \in Workers, TxCommit(w) PROVE Lone'
<1> DEFINE j == job[w]
           u == job[w].user
           d == job[w].device
           c == job[w].code
           n == Len(grants)
           trust == IF job[w].trust THEN n + 1 ELSE 0
           v == job[w].version + 1
<1>1. /\ j \in Job /\ JobOk(j, regs, Len(challenges), n)
      /\ CopyOk(j, users, challenges, devices, grants)
      /\ LoginsOk(challenges, users) /\ TokensOk(tokens, users) /\ ActiveOk(devices, users)
    BY Facts DEF Lone, TablesOk
<1>2. /\ j.pc = "txCommit" /\ ~ Refused(j) /\ End(w) /\ Only(w)
      /\ devices' = Saved(Kept(j.gone), u, d, trust)
    BY OnlyOne DEF TxCommit, Lone
<1>3. /\ u \in Users /\ d \in Devices /\ c \in 0..Len(challenges) /\ v \in Nat
      /\ Is(users, u) /\ v = users[u].version + 1 /\ users[u].version \in Nat
      /\ j.trust \in BOOLEAN /\ n \in Nat /\ trust \in Nat /\ users[u] \in User
      /\ j.role = "admin" => j.gone = {}
      /\ c # 0 => challenges[c].logins = 0 /\ challenges[c].status = "consumed"
    BY <1>1, <1>2, Facts DEF JobOk, CopyOk, Logging, Job, User
<1>4. /\ trust # 0 => Owns(grants', trust, u, d)
      /\ \A g, x, e : Owns(grants, g, x, e) /\ e # d => Owns(grants', g, x, e)
    <2> DEFINE new == [user |-> u, device |-> d, expired |-> FALSE, revoked |-> FALSE]
               old == Revoked(u, {d})
    <2>1. grants' = IF j.trust THEN Append(old, new) ELSE old
        BY DEF TxCommit
    <2>2. old \in Seq(Grant) /\ Len(old) = n /\ new \in Grant
        BY <1>3, RevokedTyped DEF Grant
    <2>3. new.user = u /\ new.device = d /\ ~ new.revoked
        OBVIOUS
    <2>4. \A g, x, e : Owns(grants, g, x, e) /\ e # d => Owns(old, g, x, e)
        BY Facts DEF Revoked, Owns, Grant
    <2> HIDE DEF new, old, u, d
    <2>5. CASE j.trust
        <3>1. /\ DOMAIN grants' = DOMAIN old \cup {n + 1} /\ grants'[n + 1] = new
              /\ \A g \in DOMAIN old : grants'[g] = old[g]
            BY <1>3, <2>1, <2>2, <2>5
        <3>2. trust = n + 1
            BY <2>5
        <3> QED BY <2>3, <2>4, <3>1, <3>2 DEF Owns
    <2>6. CASE ~ j.trust
        BY <2>1, <2>4, <2>6
    <2> QED BY <1>3, <2>5, <2>6
<1>5. /\ RowsApart(devices') /\ TrustOk(devices', grants')
      /\ \A x \in Users : \A e : RowIn(devices, x, e) # {} /\ (x # u \/ j.gone = {})
             => RowIn(devices', x, e) # {}
      /\ RowIn(devices', u, d) # {}
    <2> HIDE DEF trust
    <2> QED BY <1>2, <1>4, SavedOk
<1>6. /\ users' \in [Users -> User]
      /\ \A x \in Users : x # u => users'[x] = users[x]
      /\ j.role = "admin" => users'[u] = users[u]
      /\ j.role # "admin" => users'[u].active = d /\ users'[u].version = v
                             /\ users'[u].role = users[u].role
      /\ tokens' = tokens \cup {IF j.role = "admin"
                                THEN [user |-> u, device |-> NoDevice, version |-> 0]
                                ELSE [user |-> u, device |-> d, version |-> v]}
    <2>1. CASE j.role = "admin"
        BY <2>1, Facts DEF TxCommit
    <2>2. CASE j.role # "admin"
        <3> DEFINE row == [users[u] EXCEPT !.active = d, !.version = v]
        <3>1. row \in User /\ row.active = d /\ row.version = v /\ row.role = users[u].role
            BY <1>3 DEF User, AnyDevice
        <3>2. users' = [users EXCEPT ![u] = row]
            BY <1>3, <2>2, Facts DEF TxCommit, NextVersion
        <3>3. tokens' = tokens \cup {[user |-> u, device |-> d, version |-> v]}
            BY <2>2 DEF TxCommit, NextVersion
        <3> HIDE DEF row
        <3> QED BY <1>3, <2>2, <3>1, <3>2, <3>3, Facts
    <2> QED BY <2>1, <2>2
<1> HIDE DEF u, d, c, n, v, trust
<1>7. \A x \in Users : Is(users, x) => Is(users', x) /\ users[x].version <= users'[x].version
    <2>1. \A x \in Users : users[x].version \in Nat
        BY Facts DEF User
    <2> QED BY <1>3, <1>6, <2>1 DEF Is
<1>8. LoginsOk(challenges, users') /\ TokensOk(tokens, users')
    BY <1>1, <1>6, <1>7, UsersGrow
<1>9. LoginsOk(challenges', users')
    <2>1. CASE c = 0
        BY <1>8, <2>1 DEF TxCommit, c
    <2>2. CASE c # 0
        <3>1. c \in DOMAIN challenges /\ challenges[c] \in Challenge
            BY <1>3, <2>2, Facts
        <3>2. challenges' = [challenges EXCEPT ![c].logins = @ + 1]
            BY <2>2 DEF TxCommit, c
        <3>3. /\ DOMAIN challenges' = DOMAIN challenges
              /\ challenges'[c].user = challenges[c].user
              /\ challenges'[c].status = challenges[c].status
              /\ challenges'[c].logins = 1
              /\ \A i \in DOMAIN challenges : i # c => challenges'[i] = challenges[i]
            BY <1>3, <2>2, <3>1, <3>2 DEF Challenge
        <3> QED BY <1>3, <1>8, <2>2, <3>1, <3>3 DEF LoginsOk
    <2> QED BY <2>1, <2>2
<1>10. TokensOk(tokens', users')
    <2>1. users'[u].version \in Nat /\ Is(users', u)
        BY <1>3, <1>6, <1>7 DEF User
    <2>2. ASSUME NEW t \in tokens' PROVE Is(users', t.user) /\ t.version <= users'[t.user].version
        <3>1. CASE t \in tokens
            BY <1>8, <3>1 DEF TokensOk
        <3>2. CASE j.role = "admin" /\ t = [user |-> u, device |-> NoDevice, version |-> 0]
            BY <2>1, <3>2
        <3>3. CASE j.role # "admin" /\ t = [user |-> u, device |-> d, version |-> v]
            BY <1>3, <1>6, <2>1, <3>3
        <3> QED BY <1>6, <2>2, <3>1, <3>2, <3>3
    <2> QED BY <2>2 DEF TokensOk
<1>11. ActiveOk(devices', users')
    <2> SUFFICES ASSUME NEW x \in Users, users'[x].active # NoDevice
                 PROVE  RowIn(devices', x, users'[x].active) # {}
        BY DEF ActiveOk
    <2>1. CASE x = u /\ j.role # "admin"
        BY <1>5, <1>6, <2>1
    <2>2. CASE ~ (x = u /\ j.role # "admin")
        <3>1. users'[x] = users[x] /\ (x # u \/ j.gone = {})
            BY <1>3, <1>6, <2>2
        <3>2. RowIn(devices, x, users[x].active) # {}
            BY <1>1, <3>1 DEF ActiveOk
        <3> QED BY <1>5, <3>1, <3>2
    <2> QED BY <2>1, <2>2
<1> QED BY <1>2, <1>5, <1>9, <1>10, <1>11, Finished DEF TablesOk

-----------------------------------------------------------------------------
\* The devices of R lose their token, and the tokens that are revoked were theirs.
LEMMA UntrustedOk ==
    ASSUME TypeInv, Lone, NEW R, NEW u, NEW D,
           \A r \in DOMAIN devices :
               devices[r].live /\ devices[r].user = u /\ devices[r].device \in D => r \in R
    PROVE  /\ RowsApart(Untrusted(R)) /\ TrustOk(Untrusted(R), Revoked(u, D))
           /\ \A x, e : RowIn(Untrusted(R), x, e) = RowIn(devices, x, e)
<1> DEFINE S == Untrusted(R)
<1>1. /\ DOMAIN S = DOMAIN devices
      /\ \A r \in DOMAIN devices :
           /\ S[r].user = devices[r].user /\ S[r].device = devices[r].device
           /\ S[r].live = devices[r].live
           /\ S[r].trust = IF r \in R THEN 0 ELSE devices[r].trust
    BY UntrustedRows
<1>2. RowsApart(devices) /\ TrustOk(devices, grants)
    BY DEF Lone, TablesOk
<1> HIDE DEF S
<1>3. RowsApart(S)
    BY <1>1, <1>2 DEF RowsApart
<1>4. ASSUME NEW r \in DOMAIN S, S[r].live, S[r].trust # 0
      PROVE  Owns(Revoked(u, D), S[r].trust, S[r].user, S[r].device)
    <2>1. /\ r \in DOMAIN devices /\ devices[r].live /\ devices[r].trust # 0 /\ r \notin R
          /\ S[r].trust = devices[r].trust /\ S[r].user = devices[r].user
          /\ S[r].device = devices[r].device
        BY <1>1, <1>4
    <2>2. devices[r].user # u \/ devices[r].device \notin D
        BY <2>1
    <2>3. Owns(grants, devices[r].trust, devices[r].user, devices[r].device)
        BY <1>2, <2>1 DEF TrustOk
    <2> QED BY <2>1, <2>2, <2>3, RevokedRows
<1>5. \A x, e : RowIn(S, x, e) = RowIn(devices, x, e)
    BY <1>1 DEF RowIn, RowsIn
<1> QED BY <1>3, <1>4, <1>5 DEF TrustOk, S

\* A password change or a logout: the account keeps its role, its version grows.
LEMMA EndSessionLone ==
    ASSUME TypeInv, Lone, NEW w \in Workers, End(w), Only(w), UNCHANGED <<challenges, tokens>>,
           NEW u \in Users, NEW active \in AnyDevice, active \in {NoDevice, users[u].active},
           users' = [users EXCEPT ![u].active = active, ![u].version = users[u].version + 1],
           NEW R, NEW D, devices' = Untrusted(R), grants' = Revoked(u, D),
           \A r \in DOMAIN devices :
               devices[r].live /\ devices[r].user = u /\ devices[r].device \in D => r \in R
    PROVE  Lone'
<1>1. LoginsOk(challenges, users) /\ TokensOk(tokens, users) /\ ActiveOk(devices, users)
    BY DEF Lone, TablesOk
<1>2. /\ RowsApart(devices') /\ TrustOk(devices', grants')
      /\ \A x, e : RowIn(devices', x, e) = RowIn(devices, x, e)
    BY UntrustedOk
<1> DEFINE v == users[u].version + 1
           row == [users[u] EXCEPT !.active = active, !.version = v]
<1>3. users[u] \in User /\ users[u].version \in Nat /\ v \in Nat
    BY Facts DEF User
<1> HIDE DEF v
<1>4. /\ row \in User /\ row.active = active /\ row.version = v
      /\ row.role = users[u].role
    BY <1>3 DEF User
<1>5. users' = [users EXCEPT ![u] = row]
    BY Facts DEF v
<1> HIDE DEF row
<1>6. /\ users' \in [Users -> User] /\ users'[u] = row
      /\ \A x \in Users : x # u => users'[x] = users[x]
    BY <1>4, <1>5, Facts
<1>7. \A x \in Users : Is(users, x) => Is(users', x) /\ users[x].version <= users'[x].version
    <2>1. \A x \in Users : users[x].version \in Nat
        BY Facts DEF User
    <2> QED BY <1>3, <1>4, <1>6, <2>1 DEF Is, v
<1>8. LoginsOk(challenges', users') /\ TokensOk(tokens', users')
    BY <1>1, <1>6, <1>7, UsersGrow
<1>9. ActiveOk(devices', users')
    BY <1>1, <1>2, <1>4, <1>6 DEF ActiveOk
<1> QED BY <1>2, <1>8, <1>9, Finished DEF TablesOk

LEMMA ChangeLone ==
    ASSUME TypeInv, Lone, NEW w \in Workers, ChangeCommit(w) PROVE Lone'
<1> DEFINE u == job[w].user
<1>1. /\ u \in Users /\ NoDevice \in AnyDevice /\ End(w) /\ Only(w)
      /\ UNCHANGED <<challenges, tokens>>
    BY OnlyOne, Facts DEF Lone, ChangeCommit, JobOk, AnyDevice
<1>2. /\ users' = [users EXCEPT ![u].active = NoDevice, ![u].version = users[u].version + 1]
      /\ devices' = Untrusted(RowsOf(u)) /\ grants' = Revoked(u, Devices)
    BY <1>1, Facts DEF ChangeCommit
<1>3. \A r \in DOMAIN devices :
          devices[r].live /\ devices[r].user = u /\ devices[r].device \in Devices => r \in RowsOf(u)
    BY DEF RowsOf
<1> HIDE DEF u
<1> QED BY <1>1, <1>2, <1>3, EndSessionLone

LEMMA LogoutLone ==
    ASSUME TypeInv, Lone, NEW w \in Workers, LogoutCommit(w) PROVE Lone'
<1> DEFINE u == job[w].user
           d == job[w].device
           active == IF d # NoDevice /\ job[w].active = d THEN NoDevice ELSE users[u].active
<1>1. /\ u \in Users /\ users[u] \in User /\ End(w) /\ Only(w) /\ UNCHANGED <<challenges, tokens>>
    BY OnlyOne, Facts DEF Lone, LogoutCommit, JobOk
<1>2. active \in AnyDevice /\ active \in {NoDevice, users[u].active}
    BY <1>1 DEF User, AnyDevice
<1>3. /\ users' = [users EXCEPT ![u].active = active, ![u].version = users[u].version + 1]
      /\ devices' = Untrusted(RowFor(u, d)) /\ grants' = Revoked(u, {d})
    BY <1>1, Facts DEF LogoutCommit
<1>4. \A r \in DOMAIN devices :
          devices[r].live /\ devices[r].user = u /\ devices[r].device \in {d} => r \in RowFor(u, d)
    BY DEF RowsOf, RowFor
<1> HIDE DEF u, d, active
<1> QED BY <1>1, <1>2, <1>3, <1>4, EndSessionLone

\* The token that was read with the row is still the row's.
LEMMA TouchLone ==
    ASSUME TypeInv, Lone, NEW w \in Workers, Touch(w) PROVE Lone'
<1> DEFINE j == job[w]
<1>1. /\ j.pc = "touch" /\ End(w) /\ Only(w) /\ UNCHANGED <<users, challenges, grants, tokens>>
      /\ devices' = IF Refused(j) THEN devices ELSE Saved(devices, j.user, j.device, j.held)
    BY OnlyOne DEF Touch, Lone
<1>2. CopyOk(j, users, challenges, devices, grants) /\ ActiveOk(devices, users)
    BY DEF Lone, TablesOk
<1>3. j.gone = {} /\ (j.held # 0 => Owns(grants, j.held, j.user, j.device))
    BY <1>1, <1>2 DEF CopyOk
<1>4. CASE Refused(j)
    BY <1>1, <1>4, Ended
<1>5. CASE ~ Refused(j)
    <2>1. Kept({}) = devices
        BY Facts DEF Kept
    <2>2. devices' = Saved(Kept(j.gone), j.user, j.device, j.held)
        BY <1>1, <1>3, <1>5, <2>1
    <2>3. \A g, v, d : Owns(grants, g, v, d) /\ d # j.device => Owns(grants', g, v, d)
        BY <1>1
    <2>4. j.held # 0 => Owns(grants', j.held, j.user, j.device)
        BY <1>1, <1>3
    <2>5. /\ RowsApart(devices') /\ TrustOk(devices', grants')
          /\ \A v \in Users : \A d : RowIn(devices, v, d) # {} => RowIn(devices', v, d) # {}
        BY <1>1, <1>3, <1>5, <2>2, <2>3, <2>4, SavedOk
    <2>6. ActiveOk(devices', users')
        BY <1>1, <1>2, <2>5 DEF ActiveOk
    <2> QED BY <1>1, <2>5, <2>6, Finished DEF Lone, TablesOk
<1> QED BY <1>4, <1>5

-----------------------------------------------------------------------------
\* Overlaps are counted, never taken back.
LEMMA OverlapsGrow ==
    ASSUME TypeInv, [Next]_vars PROVE overlaps' \in Nat /\ (overlaps' = 0 => overlaps = 0)
<1>1. ASSUME CountOverlap PROVE overlaps' \in Nat /\ (overlaps' = 0 => overlaps = 0)
    BY <1>1, Facts DEF CountOverlap
<1>2. CASE overlaps' = overlaps
    BY <1>2, Facts
<1>3. ASSUME NEW w \in Workers, Register(w) PROVE overlaps' = overlaps \/ CountOverlap
    BY <1>3 DEF Register, BeginRegister, VerifyRegister, Begin, RegDelete, RegCreate, RegFind,
                RegCommit, RegRollback
<1>4. ASSUME NEW w \in Workers, LogIn(w) PROVE overlaps' = overlaps \/ CountOverlap
    BY <1>4 DEF LogIn, TrustedLogin, Login, VerifyLogin, Begin, LoginDevice, ChallengeDelete,
                ChallengeCreate, VerifyUser, Consume, TrustedDevice, TxRead, TxRollback, TxCommit
<1>5. ASSUME NEW w \in Workers, InSession(w) PROVE overlaps' = overlaps \/ CountOverlap
    BY <1>5 DEF InSession, ChangePassword, Logout, RegisterDevice, Begin, LogoutRead, TouchRead,
                Touch, ChangeCommit, LogoutCommit
<1>6. ASSUME NEW w \in Workers, Fail(w) PROVE overlaps' = overlaps
    BY <1>6 DEF Fail
<1>7. ASSUME NEW u \in Users, NEW role \in AssignableRoles, UpdateRole(u, role)
      PROVE  CountOverlap
    BY <1>7 DEF UpdateRole
<1>8. ASSUME Time PROVE overlaps' = overlaps
    BY <1>8 DEF Time, RegExpires, ChallengeExpires, TrustExpires
<1>9. CASE UNCHANGED vars
    BY <1>2, <1>9 DEF vars
<1> QED BY <1>1, <1>2, <1>3, <1>4, <1>5, <1>6, <1>7, <1>8, <1>9 DEF Next

\* The inductive invariant of what holds until two requests overlap.
LoneInv == TypeInv /\ (overlaps = 0 => Lone)

LEMMA LoneInit == Init => LoneInv
<1> SUFFICES ASSUME Init PROVE Lone
    BY InitTyped DEF LoneInv
<1>1. \A w \in Workers : job[w] = Idle
    BY DEF Init
<1>2. /\ DOMAIN challenges = {} /\ DOMAIN devices = {} /\ tokens = {}
      /\ \A u \in Users : users[u].active = NoDevice
    BY DEF Init, NewUser
<1>3. TablesOk(users, challenges, devices, grants, tokens)
    BY <1>2 DEF TablesOk, LoginsOk, TokensOk, RowsApart, TrustOk, ActiveOk
<1>4. Alone
    BY <1>1 DEF Alone
<1> QED BY <1>1, <1>3, <1>4, IdleCopy DEF Lone

LEMMA LoneStep == LoneInv /\ [Next]_vars => LoneInv'
<1> SUFFICES ASSUME LoneInv, [Next]_vars, overlaps' = 0 PROVE Lone'
    BY NextTyped DEF LoneInv
<1>1. TypeInv /\ Lone /\ overlaps = 0
    BY OverlapsGrow DEF LoneInv
<1>2. CASE UNCHANGED vars
    <2>1. UNCHANGED <<users, challenges, devices, grants, tokens, job>>
        BY <1>2 DEF vars, rows
    <2> QED BY <1>1, <2>1 DEF Lone, Alone
<1>3. ASSUME NEW w \in Workers, Register(w) PROVE Lone'
    BY <1>1, <1>3, Begins, Reads, RegCommitLone DEF Register
<1>4. ASSUME NEW w \in Workers, LogIn(w) PROVE Lone'
    BY <1>1, <1>4, Begins, Reads, ChallengeLone, TxCommitLone DEF LogIn
<1>5. ASSUME NEW w \in Workers, InSession(w) PROVE Lone'
    BY <1>1, <1>5, Begins, Reads, ChangeLone, LogoutLone, TouchLone DEF InSession
<1>6. ASSUME NEW w \in Workers, Fail(w) PROVE Lone'
    BY <1>1, <1>6, Reads
<1> QED BY <1>1, <1>2, <1>3, <1>4, <1>5, <1>6, RoleLone, TimeLone DEF Next

\* A login code logs in once unless two requests overlap, even if the request
\* that used it fails before its transaction.
THEOREM CodeLogsInOnce == Spec => []ChallengeLogsInOnce
<1>1. LoneInv => ChallengeLogsInOnce
    BY DEF LoneInv, Lone, TablesOk, LoginsOk, ChallengeLogsInOnce
<1> QED BY <1>1, LoneInit, LoneStep, PTL DEF Spec

\* Unless two requests overlap no device keeps a trusted token that was
\* replaced, logged out or ended by a password change: a touch writes back the
\* token of a row that nobody has written since.
THEOREM RevokedTrustIsGone == Spec => []TrustStaysRevoked
<1>1. LoneInv => TrustStaysRevoked
    BY DEF LoneInv, Lone, TablesOk, TrustOk, Owns, TrustStaysRevoked
<1> QED BY <1>1, LoneInit, LoneStep, PTL DEF Spec

\* Unless two requests overlap the device a user is active on has its row.
THEOREM ActiveDeviceHasRow == Spec => []ActiveHasDevice
<1>1. LoneInv => ActiveHasDevice
    BY RowsFinite DEF LoneInv, Lone, TablesOk, ActiveOk, ActiveHasDevice
<1> QED BY <1>1, LoneInit, LoneStep, PTL DEF Spec

-----------------------------------------------------------------------------
\* A session that is not accepted stays so, if the account keeps its role.
LEMMA RevokedStep ==
    ASSUME LoneInv, [Next]_vars, overlaps' = 0, NEW t \in tokens,
           users'[t.user].role = users[t.user].role, ~ Accepted(t)
    PROVE  ~ Accepted(t)'
<1> DEFINE u == t.user
<1>1. TypeInv /\ Lone /\ TokensOk(tokens, users)
    BY OverlapsGrow DEF LoneInv, Lone, TablesOk
<1>2. /\ u \in Users /\ t.version \in Nat /\ users[u] \in User /\ users[u].version \in Nat
      /\ t.version <= users[u].version /\ Is(users, u)
    BY <1>1, Facts DEF Token, User, TokensOk
<1>3. CASE users'[u].active = users[u].active /\ users'[u].version = users[u].version
    BY <1>3 DEF Accepted
<1>4. CASE users'[u].version = users[u].version + 1
    BY <1>2, <1>4 DEF Accepted
<1>5. CASE users' = users
    BY <1>3, <1>5
<1>6. ASSUME NEW v \in Users, NEW role, users' = [users EXCEPT ![v].role = role]
      PROVE  users'[u].active = users[u].active /\ users'[u].version = users[u].version
    BY <1>1, <1>2, <1>6, Facts DEF User
<1>7. ASSUME NEW v \in Users, ~ Exists(v), users' = [users EXCEPT ![v] = NewUser("user")]
      PROVE  users'[u] = users[u]
    BY <1>1, <1>2, <1>7, Facts DEF Is, Exists
<1>8. ASSUME NEW w \in Workers, NEW active \in AnyDevice,
             job[w].pc \in {"txCommit", "change", "logout"}, job[w].user \in Users,
             users' = [users EXCEPT ![job[w].user].active = active,
                                    ![job[w].user].version =
                                        IF job[w].pc = "txCommit" THEN job[w].version + 1
                                        ELSE users[job[w].user].version + 1]
      PROVE  users'[u] = users[u] \/ users'[u].version = users[u].version + 1
    <2> DEFINE v == job[w].user
               n == users[v].version + 1
    <2>1. CopyOk(job[w], users, challenges, devices, grants)
        BY <1>1 DEF Lone
    <2>2. job[w].pc = "txCommit" => job[w].version = users[v].version
        BY <2>1 DEF CopyOk, Logging
    <2>3. users' = [users EXCEPT ![v].active = active, ![v].version = n]
        BY <1>8, <2>2
    <2> HIDE DEF n
    <2>4. CASE u = v
        <3>1. users'[u].version = n
            BY <1>1, <1>2, <2>3, <2>4, Facts DEF User
        <3> QED BY <2>4, <3>1 DEF n
    <2>5. CASE u # v
        BY <1>1, <1>2, <1>8, <2>3, <2>5, Facts
    <2> QED BY <2>4, <2>5
<1> HIDE DEF u
<1>9. \/ users' = users
      \/ users'[u].active = users[u].active /\ users'[u].version = users[u].version
      \/ users'[u] = users[u] \/ users'[u].version = users[u].version + 1
    BY <1>1, <1>6, <1>7, <1>8, UserSteps
<1> QED BY <1>3, <1>4, <1>5, <1>9

\* Unless two requests overlap a session that was replaced, logged out or ended
\* by a password change is never accepted again: every login, logout and
\* password change takes a version no token has.
THEOREM SessionsEnd == Spec => RevokedStaysRevoked
<1>1. LoneInv /\ [Next]_vars =>
        (overlaps' = 0 =>
           \A t \in tokens :
              users'[t.user].role = users[t.user].role /\ ~ Accepted(t) => ~ Accepted(t)')
    BY RevokedStep
<1>2. LoneInv /\ [Next]_vars =>
        [overlaps' = 0 =>
           \A t \in tokens :
              users'[t.user].role = users[t.user].role /\ ~ Accepted(t) => ~ Accepted(t)']_vars
    BY <1>1
<1> QED BY <1>2, LoneInit, LoneStep, PTL DEF Spec, RevokedStaysRevoked

-----------------------------------------------------------------------------
\* Rows of devices are added by a login and by a touch only.
LEMMA DeviceSteps ==
    ASSUME TypeInv, [Next]_vars
    PROVE  \/ Len(devices') = Len(devices)
           \/ \E w \in Workers : TxCommit(w) \/ Touch(w)
<1>1. ASSUME devices' = devices PROVE Len(devices') = Len(devices)
    BY <1>1
<1>2. ASSUME NEW w \in Workers, Register(w) PROVE devices' = devices
    BY <1>2 DEF Register, BeginRegister, VerifyRegister, RegDelete, RegCreate, RegFind,
                RegCommit, RegRollback, rows
<1>3. ASSUME NEW w \in Workers, LogIn(w), ~ TxCommit(w) PROVE devices' = devices
    BY <1>3 DEF LogIn, TrustedLogin, Login, VerifyLogin, LoginDevice, ChallengeDelete,
                ChallengeCreate, VerifyUser, Consume, TrustedDevice, TxRead, TxRollback, rows
<1>4. ASSUME NEW R, devices' = Untrusted(R) PROVE Len(devices') = Len(devices)
    <2>1. /\ devices' \in Seq(Device) /\ DOMAIN devices' = DOMAIN devices
        BY <1>4, UntrustedTyped, UntrustedRows
    <2> QED BY <2>1, Facts
<1>5. ASSUME NEW w \in Workers, InSession(w), ~ Touch(w)
      PROVE  devices' = devices \/ \E R : devices' = Untrusted(R)
    BY <1>5 DEF InSession, ChangePassword, Logout, RegisterDevice, LogoutRead, TouchRead,
                ChangeCommit, LogoutCommit, rows
<1>6. ASSUME NEW w \in Workers, Fail(w) PROVE devices' = devices
    BY <1>6 DEF Fail, rows
<1>7. ASSUME NEW u \in Users, NEW role \in AssignableRoles, UpdateRole(u, role)
      PROVE  devices' = devices
    BY <1>7 DEF UpdateRole, rows
<1>8. ASSUME Time PROVE devices' = devices
    BY <1>8 DEF Time, RegExpires, ChallengeExpires, TrustExpires
<1>9. CASE UNCHANGED vars
    BY <1>1, <1>9 DEF vars, rows
<1> QED BY <1>1, <1>2, <1>3, <1>4, <1>5, <1>6, <1>7, <1>8, <1>9 DEF Next

\* A new row takes the place of those the transaction deletes.
LEMMA RoomTaken ==
    ASSUME TypeInv, Lone, NEW w \in Workers, TxCommit(w), Len(devices') > Len(devices),
           RoomFor(devices, job[w].user, job[w].gone)
    PROVE  Cardinality(RowsIn(devices', job[w].user)) <= MaxDevices
<1> DEFINE u == job[w].user
           d == job[w].device
           gone == job[w].gone
           K == Kept(gone)
           trust == IF job[w].trust THEN Len(grants) + 1 ELSE 0
           row == [user |-> u, device |-> d, trust |-> trust, live |-> TRUE]
           left == RowsIn(devices, u) \ gone
           n == Len(devices) + 1
<1>1. devices' = Saved(K, u, d, trust) /\ job[w].pc = "txCommit" /\ ~ Refused(job[w])
    BY DEF TxCommit
<1>2. K \in Seq(Device) /\ RowsApart(K) /\ gone \subseteq RowsIn(devices, u)
    BY <1>1, OwnRow
<1>3. /\ DOMAIN K = DOMAIN devices
      /\ \A r \in DOMAIN devices : /\ K[r].user = devices[r].user
                                   /\ K[r].live = (devices[r].live /\ r \notin gone)
    BY KeptRows
<1> HIDE DEF K, u, d, gone, trust
<1>4. Len(K) = Len(devices)
    BY <1>2, <1>3, Facts
<1>5. \E m \in DOMAIN devices' :
        /\ \A r \in DOMAIN devices' : r # m => r \in DOMAIN K /\ devices'[r] = K[r]
        /\ Len(devices') = Len(K) \/ m = Len(K) + 1
    BY <1>1, <1>2, SavedRows
<1>6. RowsIn(devices', u) \subseteq left \cup {n}
    <2>1. Len(devices') # Len(K)
        BY <1>4, Facts
    <2>2. \A r \in DOMAIN devices' : r # n => r \in DOMAIN K /\ devices'[r] = K[r]
        BY <1>4, <1>5, <2>1
    <2>3. ASSUME NEW r \in RowsIn(devices', u), r # n PROVE r \in left
        <3>1. r \in DOMAIN devices' /\ devices'[r].live /\ devices'[r].user = u
            BY <2>3 DEF RowsIn
        <3>2. r \in DOMAIN devices /\ K[r].live /\ K[r].user = u
            BY <1>3, <2>2, <2>3, <3>1
        <3> QED BY <1>3, <3>2 DEF RowsIn
    <2> QED BY <2>3
<1>7. /\ IsFiniteSet(RowsIn(devices, u)) /\ IsFiniteSet(left)
      /\ Cardinality(left) = Cardinality(RowsIn(devices, u)) - Cardinality(gone)
    <2>1. IsFiniteSet(RowsIn(devices, u)) /\ RowsIn(devices, u) \cap gone = gone
        BY <1>2, RowsFinite
    <2> QED BY <2>1, FS_Difference
<1> HIDE DEF left, n
<1>8. /\ IsFiniteSet(left \cup {n})
      /\ Cardinality(left \cup {n}) \in {Cardinality(left), Cardinality(left) + 1}
      /\ Cardinality(left) \in Nat
    BY <1>7, FS_AddElement, FS_CardinalityType
<1>9. /\ Cardinality(RowsIn(devices', u)) <= Cardinality(left \cup {n})
      /\ Cardinality(RowsIn(devices', u)) \in Nat
    BY <1>6, <1>8, FS_Subset, FS_CardinalityType
<1>10. Cardinality(left) + 1 <= MaxDevices
    BY <1>7 DEF RoomFor, u, gone
<1> QED BY <1>8, <1>9, <1>10, LimitAssumption DEF u

LEMMA WithinPlanStep ==
    ASSUME LoneInv, [Next]_vars, NEW w \in Workers, NEW u \in Users,
           Adds(w, u), overlaps = 0, MaxDevices > 0
    PROVE  Cardinality(RowsOf(u)') <= MaxDevices
<1>1. TypeInv /\ Lone
    BY DEF LoneInv
<1>2. PICK v \in Workers : TxCommit(v) \/ Touch(v)
    <2>1. Len(devices') # Len(devices)
        BY <1>1, Facts DEF Adds
    <2> QED BY <1>1, <2>1, DeviceSteps
<1>3. v = w
    BY <1>1, <1>2, OnlyOne DEF Lone, Alone, Adds, TxCommit, Touch, Idle
<1>4. TxCommit(w)
    BY <1>2, <1>3 DEF Touch, Adds
<1>5. RoomFor(devices, job[w].user, job[w].gone)
    BY <1>1 DEF Lone, CopyOk, Adds
<1>6. Cardinality(RowsIn(devices', job[w].user)) <= MaxDevices
    BY <1>1, <1>4, <1>5, RoomTaken DEF Adds
<1> QED BY <1>6 DEF RowsOf, RowsIn, Adds

\* Unless two requests overlap a login from a new device leaves a user no more
\* devices than the plan allows, for any limit and however many rows touches
\* have added.
THEOREM LoginsWithinPlan == Spec => DevicesWithinPlan
<1>1. LoneInv /\ [Next]_vars =>
        \A w \in Workers, u \in Users :
           Adds(w, u) /\ overlaps = 0 /\ MaxDevices > 0 => Cardinality(RowsOf(u)') <= MaxDevices
    BY WithinPlanStep
<1>2. LoneInv /\ [Next]_vars =>
        [\A w \in Workers, u \in Users :
           Adds(w, u) /\ overlaps = 0 /\ MaxDevices > 0 => Cardinality(RowsOf(u)') <= MaxDevices]_vars
    BY <1>1
<1> QED BY <1>2, LoneInit, LoneStep, PTL DEF Spec, DevicesWithinPlan

-----------------------------------------------------------------------------
(***************************************************************************)
(* The access book.  A step of Sessions is one of the book, or none.  For  *)
(* this the invariant says more of what the one request holds (HoldsOk),   *)
(* and that no two codes of an address, or of a device, may be used.       *)
(***************************************************************************)
OneCode(C) == \A c, e \in Pending(C) : Of(C[c]) = Of(C[e]) => c = e
OneReg(R) == \A r, q \in Pending(R) : R[r].user = R[q].user => r = q

Lets(t, U) ==
    \/ U[t.user].role = "admin"
    \/ /\ U[t.user].role = "user"
       /\ t.device # NoDevice /\ U[t.user].active = t.device
       /\ U[t.user].version = t.version

Registering == {"regDelete", "regCreate", "regFind", "regCommit"}
Serving == {"change", "logoutRead", "logout", "touchRead", "touch"}

\* The rows that a login of user u from a new device deletes.
TrimOk(j, D) ==
    LET mine == RowsIn(D, j.user)
    IN IF Unlimited(j) \/ Cardinality(mine) < MaxDevices THEN j.gone = {}
       ELSE j.gone \subseteq mine /\ Cardinality(mine \ j.gone) = MaxDevices - 1

HoldsOk(j, U, R, C, D, T) ==
    /\ j.pc \in Registering =>
         /\ U[j.user].role = "none"
         /\ \A r \in Pending(R) : R[r].user = j.user =>
                j.pc # "regCreate" /\ (j.pc = "regCommit" => r = j.code)
    /\ j.pc \in Registering => j.device = NoDevice
    /\ j.pc \in Logging \ {"verifyUser"} => j.role = U[j.user].role
    /\ j.pc \in {"chDelete", "chCreate"} => j.role = "user" /\ j.user \in Addresses
    /\ j.pc = "chCreate" => \A c \in Pending(C) : Of(C[c]) # Of(j)
    /\ j.pc \in {"verifyUser", "consume"} =>
         /\ Of(C[j.code]) = Of(j)
         /\ \A c \in Pending(C) : Of(C[c]) = Of(j) => c = j.code
    /\ j.pc = "txCommit" /\ j.row = 0 => RowIn(D, j.user, j.device) = {} /\ TrimOk(j, D)
    /\ j.pc \in Serving =>
         \E t \in T : /\ t.user = j.user /\ Lets(t, U)
                      /\ j.pc \in {"logoutRead", "logout"} => t.device = j.device
    /\ j.pc = "touch" =>
         IF j.row = 0 THEN RowIn(D, j.user, j.device) = {} /\ j.held = 0
         ELSE j.held = D[j.row].trust

Ready ==
    /\ OneCode(challenges) /\ OneReg(regs)
    /\ \A w \in Workers : HoldsOk(job[w], users, regs, challenges, devices, tokens)

LEMMA IdleHolds ==
    ASSUME NEW U, NEW R, NEW C, NEW D, NEW T PROVE HoldsOk(Idle, U, R, C, D, T)
BY DEF HoldsOk, Idle, Logging, Registering, Serving

\* The other requests are idle, before and after.
LEMMA OthersIdle ==
    ASSUME TypeInv, NEW w \in Workers, NEW j, job' = [job EXCEPT ![w] = j], Only(w)
    PROVE  /\ \A v \in Workers : job'[v] = IF v = w THEN j ELSE Idle
           /\ \A v \in Workers : v # w => job[v] = Idle
BY Facts DEF Only

LEMMA ReadyWrite ==
    ASSUME TypeInv, NEW w \in Workers, NEW j, job' = [job EXCEPT ![w] = j], Only(w),
           OneCode(challenges'), OneReg(regs'),
           HoldsOk(j, users', regs', challenges', devices', tokens')
    PROVE  Ready'
<1>1. \A v \in Workers : HoldsOk(job'[v], users', regs', challenges', devices', tokens')
    <2>1. \A v \in Workers : job'[v] = j \/ job'[v] = Idle
        BY Facts DEF Only
    <2>2. HoldsOk(Idle, users', regs', challenges', devices', tokens')
        BY IdleHolds
    <2> QED BY <2>1, <2>2
<1> QED BY <1>1 DEF Ready

LEMMA ReadyMove ==
    ASSUME TypeInv, Ready, NEW w \in Workers, NEW j, job' = [job EXCEPT ![w] = j], Only(w),
           UNCHANGED <<users, regs, challenges, devices, tokens>>,
           HoldsOk(j, users, regs, challenges, devices, tokens)
    PROVE  Ready'
BY ReadyWrite DEF Ready

LEMMA ReadyEnd ==
    ASSUME TypeInv, NEW w \in Workers, End(w), Only(w), OneCode(challenges'), OneReg(regs')
    PROVE  Ready'
BY ReadyWrite, IdleHolds DEF End

-----------------------------------------------------------------------------
\* What the book sees of the requests.
LEMMA Places ==
    ASSUME TypeInv, NEW w \in Workers, NEW j, job' = [job EXCEPT ![w] = j], Only(w),
           NEW S, "idle" \notin S
    PROVE  /\ At(S) = IF job[w].pc \in S THEN {Of(job[w])} ELSE {}
           /\ At(S)' = IF j.pc \in S THEN {Of(j)} ELSE {}
<1>1. /\ \A v \in Workers : job'[v] = IF v = w THEN j ELSE Idle
      /\ \A v \in Workers : v # w => job[v] = Idle
      /\ Idle.pc \notin S
    BY OthersIdle DEF Idle
<1>2. {v \in Workers : job[v].pc \in S} = IF job[w].pc \in S THEN {w} ELSE {}
    BY <1>1
<1>3. {v \in Workers : job'[v].pc \in S} = IF j.pc \in S THEN {w} ELSE {}
    BY <1>1
<1>4. At(S) = {Of(job[v]) : v \in {v \in Workers : job[v].pc \in S}}
    BY DEF At
<1>5. At(S)' = {Of(job'[v]) : v \in {v \in Workers : job'[v].pc \in S}}
    BY DEF At, Of
<1>6. job'[w] = j
    BY <1>1
<1> HIDE DEF At
<1>7. At(S) = IF job[w].pc \in S THEN {Of(job[w])} ELSE {}
    BY <1>2, <1>4
<1>8. At(S)' = IF j.pc \in S THEN {Of(j)} ELSE {}
    BY <1>3, <1>5, <1>6
<1> QED BY <1>7, <1>8

Showing == {"verifyUser", "consume", "regCommit"}
Entering == {"txRead", "txCommit"}

LEMMA Entry ==
    ASSUME TypeInv, NEW w \in Workers, NEW j, job' = [job EXCEPT ![w] = j], Only(w)
    PROVE  /\ Shown = IF job[w].pc \in Showing THEN {Of(job[w])} ELSE {}
           /\ Shown' = IF j.pc \in Showing THEN {Of(j)} ELSE {}
           /\ Admitted = IF job[w].pc \in Entering THEN {Of(job[w])} ELSE {}
           /\ Admitted' = IF j.pc \in Entering THEN {Of(j)} ELSE {}
<1>1. "idle" \notin Showing /\ "idle" \notin Entering
    BY DEF Showing, Entering
<1>2. /\ Shown = At(Showing) /\ Shown' = At(Showing)'
      /\ Admitted = At(Entering) /\ Admitted' = At(Entering)'
    BY DEF Shown, Admitted, Showing, Entering
<1> QED BY <1>1, <1>2, Places

LEMMA EndEntry ==
    ASSUME TypeInv, NEW w \in Workers, End(w), Only(w)
    PROVE  /\ Shown = IF job[w].pc \in Showing THEN {Of(job[w])} ELSE {}
           /\ Admitted = IF job[w].pc \in Entering THEN {Of(job[w])} ELSE {}
           /\ Shown' = {} /\ Admitted' = {} /\ job' = [job EXCEPT ![w] = Idle]
<1>1. job' = [job EXCEPT ![w] = Idle]
    BY DEF End
<1>2. Idle.pc \notin Showing /\ Idle.pc \notin Entering
    BY DEF Idle, Showing, Entering
<1> QED BY <1>1, <1>2, Entry

Moves == Book!BookNext \/ UNCHANGED Book!bookVars

LEMMA Frames ==
    /\ UNCHANGED users => Roles' = Roles
    /\ UNCHANGED <<regs, challenges>> => Codes' = Codes
    /\ UNCHANGED <<users, tokens>> => OpenSessions' = OpenSessions
    /\ UNCHANGED devices => Owned' = Owned
    /\ UNCHANGED <<devices, grants>> => TrustedDevices' = TrustedDevices
<1>1. UNCHANGED users => Roles' = Roles
    BY DEF Roles
<1>2. UNCHANGED <<regs, challenges>> => Codes' = Codes
    BY DEF Codes, Pending, Of
<1>3. UNCHANGED <<users, tokens>> => OpenSessions' = OpenSessions
    BY DEF OpenSessions, IsSession
<1>4. UNCHANGED devices => Owned' = Owned
    BY DEF Owned, LiveRows, Of
<1>5. UNCHANGED <<devices, grants>> => TrustedDevices' = TrustedDevices
    BY DEF TrustedDevices, LiveRows, Of, Trusts
<1> QED BY <1>1, <1>2, <1>3, <1>4, <1>5

\* A step that writes no table, and is neither the end nor the beginning of a
\* stay among the requests the book sees.
LEMMA Quiet ==
    ASSUME TypeInv, NEW w \in Workers, NEW j, job' = [job EXCEPT ![w] = j], Only(w),
           UNCHANGED <<users, rows, tokens>>
    PROVE  /\ UNCHANGED <<Roles, Codes, tokens, OpenSessions, Owned, TrustedDevices>>
           /\ \/ j.pc \notin Showing \cup Entering /\ job[w].pc \notin Showing \cup Entering
              \/ j.pc \in Showing /\ job[w].pc \in Showing /\ Of(j) = Of(job[w])
              \/ j.pc \in Entering /\ job[w].pc \in Entering /\ Of(j) = Of(job[w])
              => Moves
<1>1. UNCHANGED <<Roles, Codes, tokens, OpenSessions, Owned, TrustedDevices>>
    BY Frames DEF rows
<1>2. ASSUME \/ j.pc \notin Showing \cup Entering /\ job[w].pc \notin Showing \cup Entering
             \/ j.pc \in Showing /\ job[w].pc \in Showing /\ Of(j) = Of(job[w])
             \/ j.pc \in Entering /\ job[w].pc \in Entering /\ Of(j) = Of(job[w])
      PROVE  Moves
    <2>1. Showing \cap Entering = {}
        BY DEF Showing, Entering
    <2>2. UNCHANGED <<Shown, Admitted>>
        BY <1>2, <2>1, Entry
    <2> QED BY <1>1, <2>2 DEF Moves, Book!bookVars
<1> QED BY <1>1, <1>2

LEMMA PairOf ==
    ASSUME NEW u \in Users, NEW d \in AnyDevice
    PROVE  [user |-> u, device |-> d] \in Book!Pairs
BY DEF Book!Pairs, AnyDevice

\* A request ends: it leaves, if it was let in or has shown a code.
LEMMA Leaves ==
    ASSUME TypeInv, Ready, NEW w \in Workers, End(w), Only(w), job[w] # Idle,
           UNCHANGED <<users, rows, tokens>>
    PROVE  Ready' /\ Moves
<1> DEFINE p == Of(job[w])
<1>1. Ready'
    BY ReadyEnd DEF Ready, rows
<1>2. job' = [job EXCEPT ![w] = Idle] /\ Idle.pc \notin Showing \cup Entering
    BY DEF End, Idle, Showing, Entering
<1>3. CASE job[w].pc \notin Showing \cup Entering
    BY <1>1, <1>2, <1>3, Quiet
<1>4. CASE job[w].pc \in Showing \cup Entering
    <2>1. p \in Book!Pairs
        <3>1. job[w].user \in Users /\ job[w].device \in AnyDevice
            BY <1>4, Facts DEF Showing, Entering, JobOk, Job
        <3> QED BY <3>1, PairOf DEF Of
    <2>2. Shown \subseteq {p} /\ Admitted \subseteq {p} /\ Shown' = {} /\ Admitted' = {}
        BY <1>2, Entry
    <2> HIDE DEF p
    <2>3. Book!Leave(p)
        BY <1>2, <2>2, Quiet DEF Book!Leave, Book!sessions, Book!registry
    <2> QED BY <1>1, <2>1, <2>3 DEF Moves, Book!BookNext
<1> QED BY <1>3, <1>4

LEMMA BeginsBook ==
    ASSUME TypeInv, Lone, Ready, overlaps = 0, overlaps' = 0, NEW w \in Workers,
           \/ \E u \in Users : BeginRegister(w, u)
           \/ \E r \in DOMAIN regs : VerifyRegister(w, r)
           \/ \E u \in Users, d \in Devices : TrustedLogin(w, u, d)
           \/ \E u \in Users, d \in Devices, b \in BOOLEAN : Login(w, u, d, b)
           \/ \E c \in DOMAIN challenges, b \in BOOLEAN : VerifyLogin(w, c, b)
           \/ \E t \in tokens : ChangePassword(w, t) \/ Logout(w, t)
           \/ \E t \in tokens, d \in Devices : RegisterDevice(w, t, d)
    PROVE  Ready' /\ Moves
<1>1. ASSUME NEW j, Begin(w, j), HoldsOk(j, users, regs, challenges, devices, tokens),
             UNCHANGED <<users, rows, tokens, bounds>>
      PROVE  /\ Ready' /\ Only(w) /\ job' = [job EXCEPT ![w] = j]
             /\ job[w].pc \notin Showing \cup Entering
             /\ j.pc \notin Showing \cup Entering => Moves
    <2>1. Only(w) /\ job' = [job EXCEPT ![w] = j] /\ job[w] = Idle
        BY <1>1 DEF Begin, CountOverlap, Busy, Only
    <2>2. Ready'
        BY <1>1, <2>1, ReadyMove DEF rows
    <2>3. job[w].pc \notin Showing \cup Entering
        BY <2>1 DEF Idle, Showing, Entering
    <2> QED BY <1>1, <2>1, <2>2, <2>3, Quiet
<1>2. ASSUME NEW u \in Users, BeginRegister(w, u) PROVE Ready' /\ Moves
    <2> DEFINE j == [Idle EXCEPT !.pc = "regDelete", !.user = u]
    <2>1. HoldsOk(j, users, regs, challenges, devices, tokens) /\ j.pc = "regDelete"
        BY <1>2 DEF HoldsOk, Idle, Logging, Serving, Registering, BeginRegister, Exists
    <2> HIDE DEF j
    <2> QED BY <1>1, <1>2, <2>1 DEF BeginRegister, j, Showing, Entering
<1>3. ASSUME NEW r \in DOMAIN regs, VerifyRegister(w, r) PROVE Ready' /\ Moves
    <2> DEFINE j == [Idle EXCEPT !.pc = "regFind", !.user = regs[r].user, !.code = r]
    <2>1. HoldsOk(j, users, regs, challenges, devices, tokens) /\ j.pc = "regFind"
        BY <1>3 DEF HoldsOk, Idle, Logging, Serving, Registering, VerifyRegister, Exists
    <2> HIDE DEF j
    <2> QED BY <1>1, <1>3, <2>1 DEF VerifyRegister, j, Showing, Entering
<1>4. ASSUME NEW u \in Users, NEW d \in Devices, TrustedLogin(w, u, d) PROVE Ready' /\ Moves
    <2> DEFINE j == [Idle EXCEPT !.pc = "trustDevice", !.user = u, !.device = d, !.trust = TRUE,
                                 !.role = users[u].role, !.version = users[u].version]
    <2>1. HoldsOk(j, users, regs, challenges, devices, tokens) /\ j.pc = "trustDevice"
        BY DEF HoldsOk, Idle, Logging, Serving, Registering
    <2> HIDE DEF j
    <2> QED BY <1>1, <1>4, <2>1 DEF TrustedLogin, j, Showing, Entering
<1>5. ASSUME NEW u \in Users, NEW d \in Devices, NEW b \in BOOLEAN, Login(w, u, d, b)
      PROVE  Ready' /\ Moves
    <2> DEFINE j == [Idle EXCEPT !.pc = "device", !.user = u, !.device = d, !.trust = b,
                                 !.role = users[u].role, !.version = users[u].version]
    <2>1. HoldsOk(j, users, regs, challenges, devices, tokens) /\ j.pc = "device"
        BY DEF HoldsOk, Idle, Logging, Serving, Registering
    <2> HIDE DEF j
    <2> QED BY <1>1, <1>5, <2>1 DEF Login, j, Showing, Entering
<1>6. ASSUME NEW c \in DOMAIN challenges, NEW b \in BOOLEAN, VerifyLogin(w, c, b)
      PROVE  Ready' /\ Moves
    <2> DEFINE u == challenges[c].user
               d == challenges[c].device
               j == [Idle EXCEPT !.pc = "verifyUser", !.user = u, !.device = d,
                                 !.trust = b, !.code = c]
               p == Of(challenges[c])
    <2>1. c \in Pending(challenges) /\ Begin(w, j) /\ UNCHANGED <<users, rows, tokens, bounds>>
        BY <1>6 DEF VerifyLogin, Pending
    <2>2. j.pc = "verifyUser" /\ j.code = c /\ Of(j) = p
        BY DEF Idle, Of
    <2>3. p \in Book!Pairs
        BY Facts, PairOf DEF Challenge, AnyDevice, Of
    <2>4. p \in Codes
        BY <2>1 DEF Codes
    <2> HIDE DEF j, p
    <2>5. \A e \in Pending(challenges) : Of(challenges[e]) = p => e = c
        BY <2>1 DEF Ready, OneCode, p
    <2>6. HoldsOk(j, users, regs, challenges, devices, tokens)
        BY <2>2, <2>5 DEF HoldsOk, Logging, Serving, Registering, p
    <2>7. Ready' /\ Only(w) /\ job' = [job EXCEPT ![w] = j] /\ job[w].pc \notin Showing \cup Entering
        BY <1>1, <2>1, <2>6
    <2>8. Shown = {} /\ Shown' = {p} /\ UNCHANGED Admitted
        BY <2>2, <2>7, Entry DEF Showing, Entering
    <2>9. Book!Show(p)
        BY <2>1, <2>4, <2>7, <2>8, Quiet DEF Book!Show, Book!sessions, Book!registry
    <2> QED BY <2>3, <2>7, <2>9 DEF Moves, Book!BookNext
<1>7. ASSUME NEW t \in tokens, ChangePassword(w, t) PROVE Ready' /\ Moves
    <2> DEFINE j == [Idle EXCEPT !.pc = "change", !.user = t.user]
    <2>1. HoldsOk(j, users, regs, challenges, devices, tokens) /\ j.pc = "change"
        BY <1>7 DEF HoldsOk, Idle, Logging, Serving, Registering, ChangePassword, Accepted, Lets
    <2> HIDE DEF j
    <2> QED BY <1>1, <1>7, <2>1 DEF ChangePassword, j, Showing, Entering
<1>8. ASSUME NEW t \in tokens, Logout(w, t) PROVE Ready' /\ Moves
    <2> DEFINE j == [Idle EXCEPT !.pc = "logoutRead", !.user = t.user, !.device = t.device]
    <2>1. HoldsOk(j, users, regs, challenges, devices, tokens) /\ j.pc = "logoutRead"
        BY <1>8 DEF HoldsOk, Idle, Logging, Serving, Registering, Logout, Accepted, Lets
    <2> HIDE DEF j
    <2> QED BY <1>1, <1>8, <2>1 DEF Logout, j, Showing, Entering
<1>9. ASSUME NEW t \in tokens, NEW d \in Devices, RegisterDevice(w, t, d)
      PROVE  Ready' /\ Moves
    <2> DEFINE j == [Idle EXCEPT !.pc = "touchRead", !.user = t.user, !.device = d]
    <2>1. HoldsOk(j, users, regs, challenges, devices, tokens) /\ j.pc = "touchRead"
        BY <1>9 DEF HoldsOk, Idle, Logging, Serving, Registering, RegisterDevice, Accepted, Lets
    <2> HIDE DEF j
    <2> QED BY <1>1, <1>9, <2>1 DEF RegisterDevice, j, Showing, Entering
<1> QED BY <1>2, <1>3, <1>4, <1>5, <1>6, <1>7, <1>8, <1>9

-----------------------------------------------------------------------------
\* A login is let in by what its device or its role is now.
LEMMA Known ==
    ASSUME TypeInv, Lone, Ready, NEW w \in Workers, Only(w), Goto(w, "txRead"),
           job[w].pc \in {"device", "trustDevice"}, UNCHANGED <<users, rows, tokens>>,
           \/ job[w].role = "admin" \/ TrustedNow(job[w].user, job[w].device)
           \/ job[w].role = "user" /\ job[w].user \notin Addresses
    PROVE  Ready' /\ Moves
<1> DEFINE j == [job[w] EXCEPT !.pc = "txRead"]
           p == Of(job[w])
<1>1. /\ job[w] \in Job /\ job[w].user \in Users /\ job[w].device \in Devices
      /\ HoldsOk(job[w], users, regs, challenges, devices, tokens)
    BY Facts DEF JobOk, Logging, Ready
<1>2. job' = [job EXCEPT ![w] = j]
    BY Facts DEF Goto
<1>3. j.pc = "txRead" /\ Of(j) = p /\ HoldsOk(j, users, regs, challenges, devices, tokens)
    BY <1>1 DEF HoldsOk, Job, Logging, Registering, Serving, Of
<1>4. p.user = job[w].user /\ p \in Book!Pairs
    BY <1>1, PairOf DEF Of, AnyDevice
<1>5. \/ Roles[p.user] = "admin" \/ p \in TrustedDevices
      \/ Roles[p.user] = "user" /\ p.user \notin Addresses
    <2>1. CASE job[w].role = "admin"
        BY <1>1, <1>4, <2>1 DEF HoldsOk, Logging, Roles
    <2>2. CASE TrustedNow(job[w].user, job[w].device)
        <3>1. PICK r \in RowFor(job[w].user, job[w].device) : Trusts(r)
            BY <2>2 DEF TrustedNow
        <3>2. r \in {q \in LiveRows : Trusts(q)} /\ Of(devices[r]) = p
            BY <3>1 DEF RowFor, RowsOf, LiveRows, Of
        <3> QED BY <3>2 DEF TrustedDevices
    <2>3. CASE job[w].role = "user" /\ job[w].user \notin Addresses
        BY <1>1, <1>4, <2>3 DEF HoldsOk, Logging, Roles
    <2> QED BY <2>1, <2>2, <2>3
<1> HIDE DEF j, p
<1>6. Ready'
    BY <1>2, <1>3, ReadyMove DEF rows
<1>7. Admitted = {} /\ Admitted' = {p} /\ UNCHANGED Shown
    BY <1>2, <1>3, Entry DEF Showing, Entering
<1>8. Book!AdmitKnown(p)
    BY <1>2, <1>5, <1>7, Quiet DEF Book!AdmitKnown, Book!sessions, Book!registry
<1> QED BY <1>4, <1>6, <1>8 DEF Moves, Book!BookNext

\* A request that goes on with the code it was sent with, or ends.
LEMMA FindBook ==
    ASSUME TypeInv, Lone, Ready, NEW w \in Workers, RegFind(w)
    PROVE  Ready' /\ Moves
<1> DEFINE j == [job[w] EXCEPT !.pc = "regCommit"]
           i == job[w].code
           p == Of(job[w])
<1>1. Only(w) /\ job[w] # Idle /\ UNCHANGED <<users, rows, tokens>>
    BY OnlyOne DEF Lone, RegFind, Idle
<1>2. /\ job[w] \in Job /\ job[w].user \in Users /\ i \in DOMAIN regs
      /\ regs[i].user = job[w].user /\ job[w].device = NoDevice
      /\ HoldsOk(job[w], users, regs, challenges, devices, tokens)
    BY Facts DEF JobOk, Ready, RegFind, HoldsOk, Registering
<1>3. CASE regs[i].status # "pending"
    BY <1>1, <1>3, Leaves DEF RegFind
<1>4. CASE regs[i].status = "pending"
    <2>1. job' = [job EXCEPT ![w] = j]
        BY <1>4, Facts DEF RegFind, Goto
    <2>2. i \in Pending(regs)
        BY <1>2, <1>4 DEF Pending
    <2>3. \A r \in Pending(regs) : regs[r].user = job[w].user => r = i
        BY <1>2, <2>2 DEF Ready, OneReg
    <2>4. j.pc = "regCommit" /\ Of(j) = p /\ HoldsOk(j, users, regs, challenges, devices, tokens)
        BY <1>2, <2>3 DEF RegFind, HoldsOk, Job, Logging, Registering, Serving, Of
    <2>5. p = [user |-> regs[i].user, device |-> NoDevice] /\ p \in Book!Pairs
        BY <1>2, PairOf DEF Of, AnyDevice
    <2>6. p \in Codes
        BY <2>2, <2>5 DEF Codes
    <2> HIDE DEF j, p
    <2>7. Ready'
        BY <1>1, <2>1, <2>4, ReadyMove DEF rows
    <2>8. Shown = {} /\ Shown' = {p} /\ UNCHANGED Admitted
        BY <1>1, <2>1, <2>4, Entry DEF RegFind, Showing, Entering
    <2>9. Book!Show(p)
        BY <1>1, <2>1, <2>6, <2>8, Quiet DEF Book!Show, Book!sessions, Book!registry
    <2> QED BY <2>5, <2>7, <2>9 DEF Moves, Book!BookNext
<1> QED BY <1>3, <1>4

\* The rows that trimDevices chose leave room for one more, and no more.
LEMMA TrimmedOk ==
    ASSUME TypeInv, NEW j, NEW R \in Trimmed(j), NEW k, k.role = j.role, k.user = j.user, k.gone = R
    PROVE  TrimOk(k, devices)
<1> DEFINE mine == RowsIn(devices, j.user)
<1>1. mine = RowsOf(j.user) /\ IsFiniteSet(mine) /\ Cardinality(mine) \in Nat /\ MaxDevices \in Nat
    BY RowsFinite, LimitAssumption
<1>2. Unlimited(k) = Unlimited(j)
    BY DEF Unlimited
<1>3. Excess(j.user) <= 0 <=> Cardinality(mine) < MaxDevices
    BY <1>1 DEF Excess
<1> HIDE DEF mine
<1>4. CASE Unlimited(j) \/ Cardinality(mine) < MaxDevices
    <2>1. R = {}
        BY <1>3, <1>4 DEF Trimmed
    <2> QED BY <1>2, <1>4, <2>1 DEF TrimOk, mine
<1>5. CASE ~ (Unlimited(j) \/ Cardinality(mine) < MaxDevices)
    <2>1. R \subseteq mine /\ Cardinality(R) = Cardinality(mine) - MaxDevices + 1
        BY <1>1, <1>3, <1>5 DEF Trimmed, Excess
    <2>2. mine \cap R = R
        BY <2>1
    <2>3. Cardinality(mine \ R) = Cardinality(mine) - Cardinality(R)
        <3>1. IsFiniteSet(mine)
            BY <1>1
        <3>2. Cardinality(mine \ R) = Cardinality(mine) - Cardinality(mine \cap R)
            BY <3>1, FS_Difference
        <3> QED BY <2>2, <3>2
    <2>4. Cardinality(mine \ R) = MaxDevices - 1
        BY <1>1, <2>1, <2>3
    <2> QED BY <1>2, <1>5, <2>1, <2>4 DEF TrimOk, mine
<1> QED BY <1>4, <1>5

LEMMA ReadsBook ==
    ASSUME TypeInv, Lone, Ready, NEW w \in Workers,
           \/ RegFind(w) \/ RegRollback(w) \/ LoginDevice(w) \/ TrustedDevice(w)
           \/ (\E force \in BOOLEAN : VerifyUser(w, force))
           \/ TxRead(w) \/ TxRollback(w) \/ LogoutRead(w) \/ TouchRead(w) \/ Fail(w)
    PROVE  Ready' /\ Moves
<1> DEFINE u == job[w].user
           d == job[w].device
<1>1. /\ job[w] \in Job /\ HoldsOk(job[w], users, regs, challenges, devices, tokens)
      /\ CopyOk(job[w], users, challenges, devices, grants)
      /\ JobOk(job[w], regs, Len(challenges), Len(grants))
    BY Facts DEF Ready, Lone
<1>2. Only(w)
    BY OnlyOne DEF Lone, RegFind, RegRollback, LoginDevice, TrustedDevice,
        VerifyUser, TxRead, TxRollback, LogoutRead, TouchRead, Fail, Alone, Only
<1>3. ASSUME NEW j, job' = [job EXCEPT ![w] = j], UNCHANGED <<users, rows, tokens>>,
             HoldsOk(j, users, regs, challenges, devices, tokens),
             \/ j.pc \notin Showing \cup Entering /\ job[w].pc \notin Showing \cup Entering
             \/ j.pc \in Showing /\ job[w].pc \in Showing /\ Of(j) = Of(job[w])
             \/ j.pc \in Entering /\ job[w].pc \in Entering /\ Of(j) = Of(job[w])
      PROVE  Ready' /\ Moves
    <2>1. Ready'
        BY <1>2, <1>3, ReadyMove DEF rows
    <2> QED BY <1>2, <1>3, <2>1, Quiet
<1>4. CASE RegFind(w)
    BY <1>4, FindBook
<1>5. CASE RegRollback(w) \/ TxRollback(w) \/ Fail(w)
    <2>1. job[w] # Idle /\ End(w) /\ UNCHANGED <<users, rows, tokens>>
        BY <1>5 DEF RegRollback, TxRollback, Fail, Idle
    <2> QED BY <1>2, <2>1, Leaves
<1>6. CASE LoginDevice(w)
    <2>1. CASE Recognised(job[w])
        <3>1. job[w].role \in {"user", "admin"}
            BY <1>1, <1>6 DEF CopyOk, HoldsOk, Logging, Is, LoginDevice, Job
        <3> QED BY <1>2, <1>6, <2>1, <3>1, Known DEF LoginDevice, Recognised, NeedsNoCode
    <2>2. CASE ~ Recognised(job[w])
        <3> DEFINE j == [job[w] EXCEPT !.pc = "chDelete"]
        <3>1. job' = [job EXCEPT ![w] = j]
            BY <1>6, <2>2, Facts DEF LoginDevice, Goto
        <3>2. job[w].pc = "device" /\ j.pc = "chDelete" /\ UNCHANGED <<users, rows, tokens>>
            BY <1>1, <1>6 DEF LoginDevice, Job
        <3>3. job[w].role = "user" /\ job[w].user \in Addresses
            <4>1. job[w].role # "none" /\ job[w].role # "admin" /\ job[w].user \in Addresses
                BY <1>1, <2>2, <3>2, Facts DEF CopyOk, HoldsOk, Logging, Is, Recognised, NeedsNoCode,
                    JobOk
            <4> QED BY <1>1, <4>1 DEF Job
        <3>4. HoldsOk(j, users, regs, challenges, devices, tokens)
            BY <1>1, <3>2, <3>3 DEF HoldsOk, Job, Logging, Registering, Serving
        <3> HIDE DEF j
        <3> QED BY <1>3, <3>1, <3>2, <3>4 DEF Showing, Entering
    <2> QED BY <2>1, <2>2
<1>7. CASE TrustedDevice(w)
    <2>1. CASE TrustedNow(u, d)
        BY <1>2, <1>7, <2>1, Known DEF TrustedDevice
    <2>2. CASE ~ TrustedNow(u, d)
        BY <1>2, <1>7, <2>2, Leaves DEF TrustedDevice, Idle
    <2> QED BY <2>1, <2>2
<1>8. ASSUME NEW force \in BOOLEAN, VerifyUser(w, force) PROVE Ready' /\ Moves
    <2>1. CASE Conflict(u, d) /\ ~ force
        BY <1>2, <1>8, <2>1, Leaves DEF VerifyUser, Idle
    <2>2. CASE ~ (Conflict(u, d) /\ ~ force)
        <3> DEFINE j == [job[w] EXCEPT !.pc = "consume", !.role = users[u].role,
                                       !.version = users[u].version]
        <3>1. job' = [job EXCEPT ![w] = j] /\ UNCHANGED <<users, rows, tokens>>
            BY <1>8, <2>2, Facts DEF VerifyUser
        <3>2. /\ job[w].pc = "verifyUser" /\ j.pc = "consume" /\ j.role = users[u].role
              /\ j.user = u /\ j.code = job[w].code /\ Of(j) = Of(job[w])
            BY <1>1, <1>8 DEF VerifyUser, Job, Of
        <3> HIDE DEF j
        <3>3. HoldsOk(j, users, regs, challenges, devices, tokens)
            BY <1>1, <3>2 DEF HoldsOk, Logging, Registering, Serving
        <3> QED BY <1>3, <3>1, <3>2, <3>3 DEF Showing
    <2> QED BY <2>1, <2>2
<1>9. CASE TxRead(w)
    <2>1. job[w].pc = "txRead" /\ UNCHANGED <<users, rows, tokens>> /\ job[w].row = 0 /\ job[w].gone = {}
        BY <1>1, <1>9 DEF TxRead, CopyOk
    <2>2. ASSUME NEW r \in RowFor(u, d),
                 job' = [job EXCEPT ![w].pc = "txCommit", ![w].row = r]
          PROVE  Ready' /\ Moves
        <3> DEFINE j == [job[w] EXCEPT !.pc = "txCommit", !.row = r]
        <3>0. r # 0
            BY Facts DEF RowFor, RowsOf
        <3>1. job' = [job EXCEPT ![w] = j] /\ r # 0
            BY <2>2, <3>0, Facts
        <3>2. /\ j.pc = "txCommit" /\ j.row # 0 /\ Of(j) = Of(job[w])
              /\ HoldsOk(j, users, regs, challenges, devices, tokens)
            BY <1>1, <2>1, <3>1 DEF HoldsOk, Job, Logging, Registering, Serving, Of
        <3> HIDE DEF j
        <3> QED BY <1>3, <2>1, <3>1, <3>2 DEF Entering
    <2>3. ASSUME NEW R \in Trimmed(job[w]), RowFor(u, d) = {},
                 job' = [job EXCEPT ![w].pc = "txCommit", ![w].gone = R]
          PROVE  Ready' /\ Moves
        <3> DEFINE j == [job[w] EXCEPT !.pc = "txCommit", !.gone = R]
        <3>1. job' = [job EXCEPT ![w] = j] /\ RowIn(devices, u, d) = {}
            BY <2>3, Facts, RowsFinite
        <3>2. /\ j.pc = "txCommit" /\ j.role = job[w].role /\ j.user = u /\ j.device = d
              /\ j.gone = R /\ Of(j) = Of(job[w])
            BY <1>1 DEF Job, Of
        <3> HIDE DEF j
        <3>3. TrimOk(j, devices)
            BY <2>3, <3>2, TrimmedOk
        <3>4. HoldsOk(j, users, regs, challenges, devices, tokens)
            BY <1>1, <2>1, <3>1, <3>2, <3>3 DEF HoldsOk, Logging, Registering, Serving
        <3> QED BY <1>3, <2>1, <3>1, <3>2, <3>4 DEF Entering
    <2> QED BY <1>9, <2>2, <2>3 DEF TxRead
<1>10. CASE LogoutRead(w)
    <2> DEFINE j == [job[w] EXCEPT !.pc = "logout", !.active = users[u].active]
    <2>1. job' = [job EXCEPT ![w] = j] /\ UNCHANGED <<users, rows, tokens>>
        BY <1>10, Facts DEF LogoutRead
    <2>2. /\ job[w].pc = "logoutRead" /\ j.pc = "logout"
          /\ HoldsOk(j, users, regs, challenges, devices, tokens)
        BY <1>1, <1>10 DEF LogoutRead, HoldsOk, Job, Logging, Registering, Serving
    <2> HIDE DEF j
    <2> QED BY <1>3, <2>1, <2>2 DEF Showing, Entering
<1>11. CASE TouchRead(w)
    <2>1. job[w].pc = "touchRead" /\ UNCHANGED <<users, rows, tokens>> /\ job[w].row = 0
        BY <1>1, <1>11 DEF TouchRead, CopyOk
    <2>2. ASSUME NEW r \in RowFor(u, d),
                 job' = [job EXCEPT ![w].pc = "touch", ![w].row = r, ![w].held = devices[r].trust]
          PROVE  Ready' /\ Moves
        <3> DEFINE h == devices[r].trust
                   j == [job[w] EXCEPT !.pc = "touch", !.row = r, !.held = h]
        <3>0. r # 0
            BY Facts DEF RowFor, RowsOf
        <3>1. job' = [job EXCEPT ![w] = j] /\ r # 0
            BY <2>2, <3>0, Facts
        <3> HIDE DEF h
        <3>2. j.pc = "touch" /\ j.user = u /\ j.row = r /\ j.held = h
            BY <1>1 DEF Job
        <3> HIDE DEF j
        <3>3. HoldsOk(j, users, regs, challenges, devices, tokens)
            BY <1>1, <2>1, <3>1, <3>2 DEF HoldsOk, Logging, Registering, Serving, h
        <3> QED BY <1>3, <2>1, <3>1, <3>2, <3>3 DEF Showing, Entering
    <2>3. ASSUME RowFor(u, d) = {}, Goto(w, "touch") PROVE Ready' /\ Moves
        <3> DEFINE j == [job[w] EXCEPT !.pc = "touch"]
        <3>1. job' = [job EXCEPT ![w] = j] /\ RowIn(devices, u, d) = {}
            BY <2>3, Facts, RowsFinite DEF Goto
        <3>2. j.pc = "touch" /\ j.user = u /\ j.device = d /\ j.row = 0 /\ j.held = 0
            BY <1>1, <2>1 DEF Job, CopyOk
        <3> HIDE DEF j
        <3>3. HoldsOk(j, users, regs, challenges, devices, tokens)
            BY <1>1, <2>1, <3>1, <3>2 DEF HoldsOk, Logging, Registering, Serving
        <3> QED BY <1>3, <2>1, <3>1, <3>2, <3>3 DEF Showing, Entering
    <2> QED BY <1>11, <2>2, <2>3 DEF TouchRead
<1> QED BY <1>4, <1>5, <1>6, <1>7, <1>8, <1>9, <1>10, <1>11

-----------------------------------------------------------------------------
\* The codes of a pair are void, and every other is as good as before.
LEMMA RegsVoid ==
    ASSUME TypeInv, NEW u, UNCHANGED challenges, DOMAIN regs' = DOMAIN regs,
           \A r \in DOMAIN regs :
              /\ regs'[r].user = regs[r].user
              /\ regs'[r].status = "pending" <=> regs[r].status = "pending" /\ regs[r].user # u
    PROVE  /\ Codes' = Codes \ {[user |-> u, device |-> NoDevice]}
           /\ OneReg(regs) => OneReg(regs')
<1>1. \A r : r \in Pending(regs') <=> r \in Pending(regs) /\ regs[r].user # u
    BY DEF Pending
<1>2. \A r \in Pending(regs) : r \in DOMAIN regs /\ regs'[r].user = regs[r].user
    BY DEF Pending
<1>3. \A c \in Pending(challenges) : challenges[c].device # NoDevice
    BY Facts, DeviceAssumption DEF Challenge, Pending
<1>4. \A p : p \in Codes' <=> p \in Codes /\ p # [user |-> u, device |-> NoDevice]
    <2>1. \A p : p \in Codes <=>
              \/ \E c \in Pending(challenges) : p = Of(challenges[c])
              \/ \E r \in Pending(regs) : p = [user |-> regs[r].user, device |-> NoDevice]
        BY DEF Codes
    <2>2. \A p : p \in Codes' <=>
              \/ \E c \in Pending(challenges) : p = Of(challenges[c])
              \/ \E r \in Pending(regs') : p = [user |-> regs'[r].user, device |-> NoDevice]
        BY DEF Codes, Of, Pending
    <2>3. \A c \in Pending(challenges) : Of(challenges[c]) # [user |-> u, device |-> NoDevice]
        BY <1>3 DEF Of
    <2>4. \A x, y : [user |-> x, device |-> NoDevice] = [user |-> y, device |-> NoDevice] => x = y
        OBVIOUS
    <2> QED BY <1>1, <1>2, <2>1, <2>2, <2>3, <2>4
<1> QED BY <1>1, <1>2, <1>4 DEF OneReg

LEMMA ChallengesVoid ==
    ASSUME TypeInv, NEW u, NEW d, d # NoDevice, UNCHANGED regs,
           DOMAIN challenges' = DOMAIN challenges,
           \A c \in DOMAIN challenges :
              /\ Of(challenges'[c]) = Of(challenges[c])
              /\ challenges'[c].status = "pending" <=>
                   challenges[c].status = "pending" /\ Of(challenges[c]) # [user |-> u, device |-> d]
    PROVE  /\ Codes' = Codes \ {[user |-> u, device |-> d]}
           /\ OneCode(challenges) => OneCode(challenges')
<1> DEFINE p == [user |-> u, device |-> d]
<1>1. \A c : c \in Pending(challenges') <=> c \in Pending(challenges) /\ Of(challenges[c]) # p
    BY DEF Pending
<1>2. \A c \in Pending(challenges) : c \in DOMAIN challenges /\ Of(challenges'[c]) = Of(challenges[c])
    BY DEF Pending
<1>3. \A x : [user |-> x, device |-> NoDevice] # p
    OBVIOUS
<1> HIDE DEF p
<1>4. \A q : q \in Codes' <=> q \in Codes /\ q # p
    <2>1. \A q : q \in Codes <=>
              \/ \E c \in Pending(challenges) : q = Of(challenges[c])
              \/ \E r \in Pending(regs) : q = [user |-> regs[r].user, device |-> NoDevice]
        BY DEF Codes
    <2>2. \A q : q \in Codes' <=>
              \/ \E c \in Pending(challenges') : q = Of(challenges'[c])
              \/ \E r \in Pending(regs) : q = [user |-> regs[r].user, device |-> NoDevice]
        BY DEF Codes, Of, Pending
    <2> QED BY <1>1, <1>2, <1>3, <2>1, <2>2
<1> QED BY <1>1, <1>2, <1>4 DEF OneCode, p

\* What a request holds stays true when codes are voided.
LEMMA HoldsLess ==
    ASSUME NEW j, NEW U, NEW R, NEW C, NEW D, NEW T, HoldsOk(j, U, R, C, D, T), NEW S, NEW E,
           \A r \in Pending(S) : r \in Pending(R) /\ S[r].user = R[r].user,
           \A c \in Pending(E) : c \in Pending(C) /\ Of(E[c]) = Of(C[c]),
           j.pc \in {"verifyUser", "consume"} => Of(E[j.code]) = Of(C[j.code])
    PROVE  HoldsOk(j, U, S, E, D, T)
BY DEF HoldsOk

\* A step that writes the codes only.
LEMMA CodeFrame ==
    ASSUME TypeInv, NEW w \in Workers, NEW j, job' = [job EXCEPT ![w] = j], Only(w),
           UNCHANGED <<users, devices, grants, tokens>>
    PROVE  UNCHANGED <<Roles, tokens, OpenSessions, Owned, TrustedDevices>>
BY Frames

LEMMA RegCodesBook ==
    ASSUME TypeInv, Lone, Ready, NEW w \in Workers, RegDelete(w) \/ RegCreate(w)
    PROVE  Ready' /\ Moves
<1> DEFINE u == job[w].user
           p == [user |-> u, device |-> NoDevice]
<1>1. /\ Only(w) /\ UNCHANGED <<users, challenges, devices, grants, tokens>>
      /\ OneReg(regs) /\ OneCode(challenges) /\ OneCode(challenges')
    BY OnlyOne DEF Lone, RegDelete, RegCreate, Ready
<1>2. /\ job[w] \in Job /\ u \in Users /\ p \in Book!Pairs
      /\ HoldsOk(job[w], users, regs, challenges, devices, tokens)
    <2>1. u \in Users
        BY Facts DEF JobOk, RegDelete, RegCreate
    <2> QED BY <2>1, Facts, PairOf DEF Ready, AnyDevice
<1>3. CASE RegDelete(w)
    <2> DEFINE j == [job[w] EXCEPT !.pc = "regCreate"]
    <2>1. job' = [job EXCEPT ![w] = j]
        BY <1>3, Facts DEF RegDelete, Goto
    <2>2. /\ DOMAIN regs' = DOMAIN regs
          /\ \A r \in DOMAIN regs :
               /\ regs'[r].user = regs[r].user
               /\ regs'[r].status = "pending" <=> regs[r].status = "pending" /\ regs[r].user # u
        BY <1>3, Facts DEF RegDelete, Reg
    <2>3. j.pc = "regCreate" /\ j.user = u /\ j.device = job[w].device /\ job[w].pc = "regDelete"
        BY <1>2, <1>3 DEF Job, RegDelete
    <2> HIDE DEF j, u
    <2>4. Codes' = Codes \ {p} /\ OneReg(regs')
        BY <1>1, <2>2, RegsVoid
    <2>5. \A r \in Pending(regs') : regs'[r].user # u
        BY <2>2 DEF Pending
    <2>6. HoldsOk(j, users, regs', challenges, devices, tokens)
        BY <1>2, <2>3, <2>5 DEF HoldsOk, Registering, Logging, Serving, u
    <2>7. Ready'
        BY <1>1, <2>1, <2>4, <2>6, ReadyWrite
    <2>8. UNCHANGED <<Shown, Admitted>>
        BY <1>1, <2>1, <2>3, Entry DEF Showing, Entering
    <2> HIDE DEF p
    <2>9. Book!Void(p)
        BY <1>1, <2>1, <2>4, <2>8, CodeFrame DEF Book!Void, Book!entry, Book!sessions, Book!registry
    <2> QED BY <1>2, <2>7, <2>9 DEF Moves, Book!BookNext
<1>4. CASE RegCreate(w)
    <2> DEFINE row == [user |-> u, status |-> "pending"]
               n == Len(regs) + 1
    <2>1. regs' = Append(regs, row) /\ End(w) /\ job[w].pc = "regCreate"
        BY <1>4 DEF RegCreate
    <2>2. row.user = u /\ row.status = "pending"
        OBVIOUS
    <2> HIDE DEF row
    <2>3. /\ DOMAIN regs' = DOMAIN regs \cup {n} /\ regs'[n] = row /\ n \notin DOMAIN regs
          /\ \A r \in DOMAIN regs : regs'[r] = regs[r]
        BY <2>1, Facts
    <2>4. \A r \in Pending(regs) : regs[r].user # u
        BY <1>2, <2>1 DEF HoldsOk, Registering
    <2> HIDE DEF n
    <2>5. \A r : r \in Pending(regs') <=> r \in Pending(regs) \/ r = n
        BY <2>2, <2>3 DEF Pending
    <2>6. \A r \in Pending(regs) : regs'[r] = regs[r]
        BY <2>3 DEF Pending
    <2>7. OneReg(regs')
        BY <1>1, <2>2, <2>3, <2>4, <2>5, <2>6 DEF OneReg
    <2>8. Codes' = Codes \cup {p} /\ p \notin Codes
        <3>1. \A q : q \in Codes <=>
                  \/ \E c \in Pending(challenges) : q = Of(challenges[c])
                  \/ \E r \in Pending(regs) : q = [user |-> regs[r].user, device |-> NoDevice]
            BY DEF Codes
        <3>2. \A q : q \in Codes' <=>
                  \/ \E c \in Pending(challenges) : q = Of(challenges[c])
                  \/ \E r \in Pending(regs') : q = [user |-> regs'[r].user, device |-> NoDevice]
            BY <1>1 DEF Codes, Of, Pending
        <3>3. \A q : q \in Codes' <=> q \in Codes \/ q = p
            BY <2>2, <2>3, <2>5, <2>6, <3>1, <3>2
        <3>4. \A c \in Pending(challenges) : Of(challenges[c]) # p
            <4>1. \A c \in Pending(challenges) : challenges[c].device # NoDevice
                BY Facts, DeviceAssumption DEF Challenge, Pending
            <4> QED BY <4>1 DEF Of
        <3>5. p \notin Codes
            BY <2>4, <3>1, <3>4
        <3> QED BY <3>3, <3>5
    <2>9. Ready'
        BY <1>1, <2>1, <2>7, ReadyEnd
    <2>10. UNCHANGED <<Shown, Admitted>>
        BY <1>1, <2>1, EndEntry DEF Showing, Entering
    <2>11. Roles[p.user] = "none" /\ p.device = NoDevice
        BY <1>2, <2>1 DEF HoldsOk, Registering, Roles
    <2> HIDE DEF p
    <2>12. Book!Send(p)
        BY <1>1, <2>1, <2>8, <2>10, <2>11, EndEntry, CodeFrame
           DEF Book!Send, Book!entry, Book!sessions, Book!registry
    <2> QED BY <1>2, <2>9, <2>12 DEF Moves, Book!BookNext
<1> QED BY <1>3, <1>4

LEMMA RegCommitBook ==
    ASSUME TypeInv, Lone, Ready, NEW w \in Workers, RegCommit(w)
    PROVE  Ready' /\ Moves
<1> DEFINE u == job[w].user
           i == job[w].code
           p == [user |-> u, device |-> NoDevice]
<1>1. /\ Only(w) /\ UNCHANGED <<challenges, devices, grants, tokens>> /\ End(w)
      /\ OneReg(regs) /\ OneCode(challenges) /\ OneCode(challenges') /\ job[w].pc = "regCommit"
    BY OnlyOne DEF Lone, RegCommit, Ready
<1>2. /\ job[w] \in Job /\ u \in Users /\ i \in DOMAIN regs /\ regs[i].user = u
      /\ job[w].device = NoDevice /\ users[u].role = "none"
      /\ \A r \in Pending(regs) : regs[r].user = u => r = i
    BY <1>1, Facts DEF JobOk, Ready, HoldsOk, Registering
<1>3. p = Of(job[w]) /\ p \in Book!Pairs /\ p.user = u /\ p.device = NoDevice
    BY <1>2, PairOf DEF Of, AnyDevice
<1>4. users' = [users EXCEPT ![u] = NewUser("user")]
    BY <1>2 DEF RegCommit, Exists
<1>5. /\ DOMAIN regs' = DOMAIN regs
      /\ \A r \in DOMAIN regs :
           /\ regs'[r].user = regs[r].user
           /\ regs'[r].status = "pending" <=> regs[r].status = "pending" /\ regs[r].user # u
    <2>1. regs' = [regs EXCEPT ![i].status = Consumed(@)]
        BY DEF RegCommit
    <2>2. /\ DOMAIN regs' = DOMAIN regs
          /\ \A r \in DOMAIN regs :
               /\ regs'[r].user = regs[r].user
               /\ r # i => regs'[r].status = regs[r].status
               /\ r = i => regs'[r].status # "pending"
        BY <1>2, <2>1, Facts DEF Consumed, Reg
    <2> HIDE DEF i, u
    <2> QED BY <1>2, <2>2 DEF Pending
<1>6. NewUser("user").role = "user"
    BY DEF NewUser
<1> HIDE DEF u, i, p
<1>7. /\ \A x \in Users : x # u => users'[x] = users[x]
      /\ users'[u].role = "user"
    BY <1>2, <1>4, <1>6, Facts
<1>8. Roles' = [Roles EXCEPT ![u] = "user"]
    BY <1>2, <1>7 DEF Roles
<1>9. OpenSessions' = OpenSessions
    <2>1. TokensOk(tokens, users)
        BY DEF Lone, TablesOk
    <2>2. \A t \in tokens : t.user \in Users /\ t.user # u
        BY <1>2, <2>1, Facts DEF TokensOk, Is, Token
    <2>3. \A t \in tokens : IsSession(t)' <=> IsSession(t)
        BY <1>7, <2>2 DEF IsSession
    <2> QED BY <1>1, <2>3 DEF OpenSessions
<1>10. Codes' = Codes \ {p} /\ OneReg(regs')
    BY <1>1, <1>5, RegsVoid DEF p
<1>11. Ready'
    BY <1>1, <1>10, ReadyEnd
<1>12. Shown = {p} /\ Shown' = {} /\ Admitted = {} /\ Admitted' = {}
    BY <1>1, <1>3, EndEntry DEF Showing, Entering
<1>13. Roles[p.user] = "none"
    BY <1>2, <1>3 DEF Roles
<1>14. Book!Register(p)
    BY <1>1, <1>3, <1>8, <1>9, <1>10, <1>12, <1>13, Frames
       DEF Book!Register, Book!sessions, Book!registry
<1> QED BY <1>3, <1>11, <1>14 DEF Moves, Book!BookNext

LEMMA ChallengeBook ==
    ASSUME TypeInv, Lone, Ready, NEW w \in Workers,
           ChallengeDelete(w) \/ ChallengeCreate(w) \/ Consume(w)
    PROVE  Ready' /\ Moves
<1> DEFINE u == job[w].user
           d == job[w].device
           p == [user |-> u, device |-> d]
<1>1. /\ Only(w) /\ UNCHANGED <<users, regs, devices, grants, tokens>>
      /\ OneReg(regs) /\ OneCode(challenges) /\ OneReg(regs')
    BY OnlyOne DEF Lone, ChallengeDelete, ChallengeCreate, Consume, Ready
<1>2. /\ job[w] \in Job /\ u \in Users /\ d \in Devices /\ d # NoDevice /\ p = Of(job[w])
      /\ HoldsOk(job[w], users, regs, challenges, devices, tokens)
      /\ JobOk(job[w], regs, Len(challenges), Len(grants))
    BY Facts, DeviceAssumption DEF JobOk, Logging, Ready, Of, ChallengeDelete, ChallengeCreate, Consume
<1>3. p \in Book!Pairs /\ p.user = u /\ p.device = d
    BY <1>2, PairOf DEF AnyDevice
<1>4. CASE ChallengeDelete(w)
    <2> DEFINE j == [job[w] EXCEPT !.pc = "chCreate"]
    <2>1. job' = [job EXCEPT ![w] = j]
        BY <1>4, Facts DEF ChallengeDelete, Goto
    <2>2. /\ DOMAIN challenges' = DOMAIN challenges
          /\ \A c \in DOMAIN challenges :
               /\ Of(challenges'[c]) = Of(challenges[c])
               /\ challenges'[c].status = "pending" <=>
                    challenges[c].status = "pending" /\ Of(challenges[c]) # p
        BY <1>4, Facts DEF ChallengeDelete, Challenge, Of
    <2>3. /\ j.pc = "chCreate" /\ j.user = u /\ j.role = job[w].role /\ Of(j) = p
          /\ job[w].pc = "chDelete"
        BY <1>2, <1>4 DEF Job, ChallengeDelete, Of
    <2> HIDE DEF j, u, d
    <2>4. Codes' = Codes \ {p} /\ OneCode(challenges')
        BY <1>1, <1>2, <2>2, ChallengesVoid
    <2>5. \A c \in Pending(challenges') : Of(challenges'[c]) # p
        BY <2>2 DEF Pending
    <2>6. HoldsOk(j, users, regs, challenges', devices, tokens)
        BY <1>2, <2>3, <2>5 DEF HoldsOk, Registering, Logging, Serving, u
    <2>7. Ready'
        BY <1>1, <2>1, <2>4, <2>6, ReadyWrite
    <2>8. UNCHANGED <<Shown, Admitted>>
        BY <1>1, <2>1, <2>3, Entry DEF Showing, Entering
    <2> HIDE DEF p
    <2>9. Book!Void(p)
        BY <1>1, <2>1, <2>4, <2>8, CodeFrame DEF Book!Void, Book!entry, Book!sessions, Book!registry
    <2> QED BY <1>3, <2>7, <2>9 DEF Moves, Book!BookNext
<1>5. CASE ChallengeCreate(w)
    <2> DEFINE row == [user |-> u, device |-> d, status |-> "pending", logins |-> 0]
               n == Len(challenges) + 1
    <2>1. challenges' = Append(challenges, row) /\ End(w) /\ job[w].pc = "chCreate"
        BY <1>5 DEF ChallengeCreate
    <2>2. Of(row) = p /\ row.status = "pending"
        BY DEF Of
    <2> HIDE DEF row
    <2>3. /\ DOMAIN challenges' = DOMAIN challenges \cup {n} /\ challenges'[n] = row
          /\ n \notin DOMAIN challenges
          /\ \A c \in DOMAIN challenges : challenges'[c] = challenges[c]
        BY <2>1, Facts
    <2>4. \A c \in Pending(challenges) : Of(challenges[c]) # p
        BY <1>2, <2>1 DEF HoldsOk
    <2> HIDE DEF n
    <2>5. \A c : c \in Pending(challenges') <=> c \in Pending(challenges) \/ c = n
        BY <2>2, <2>3 DEF Pending
    <2>6. \A c \in Pending(challenges) : challenges'[c] = challenges[c]
        BY <2>3 DEF Pending
    <2>7. OneCode(challenges')
        BY <1>1, <2>2, <2>3, <2>4, <2>5, <2>6 DEF OneCode
    <2>8. Codes' = Codes \cup {p} /\ p \notin Codes
        <3>1. \A q : q \in Codes <=>
                  \/ \E c \in Pending(challenges) : q = Of(challenges[c])
                  \/ \E r \in Pending(regs) : q = [user |-> regs[r].user, device |-> NoDevice]
            BY DEF Codes
        <3>2. \A q : q \in Codes' <=>
                  \/ \E c \in Pending(challenges') : q = Of(challenges'[c])
                  \/ \E r \in Pending(regs) : q = [user |-> regs[r].user, device |-> NoDevice]
            BY <1>1 DEF Codes, Of, Pending
        <3>3. \A q : q \in Codes' <=> q \in Codes \/ q = p
            BY <2>2, <2>3, <2>5, <2>6, <3>1, <3>2
        <3>4. \A x : [user |-> x, device |-> NoDevice] # p
            BY <1>2
        <3>5. p \notin Codes
            BY <2>4, <3>1, <3>4
        <3> QED BY <3>3, <3>5
    <2>9. Ready'
        BY <1>1, <2>1, <2>7, ReadyEnd
    <2>10. UNCHANGED <<Shown, Admitted>>
        BY <1>1, <2>1, EndEntry DEF Showing, Entering
    <2>11. Roles[p.user] = "user" /\ p.user \in Addresses /\ p.device # NoDevice
        BY <1>2, <2>1 DEF HoldsOk, Logging, Roles
    <2> HIDE DEF p
    <2>12. Book!Send(p)
        BY <1>1, <2>1, <2>8, <2>10, <2>11, EndEntry, CodeFrame
           DEF Book!Send, Book!entry, Book!sessions, Book!registry
    <2> QED BY <1>3, <2>9, <2>12 DEF Moves, Book!BookNext
<1>6. CASE Consume(w)
    <2> DEFINE j == [job[w] EXCEPT !.pc = "txRead"]
               i == job[w].code
    <2>1. job' = [job EXCEPT ![w] = j]
        BY <1>6, Facts DEF Consume, Goto
    <2>2. /\ job[w].pc = "consume" /\ i \in DOMAIN challenges
          /\ Of(challenges[i]) = p
          /\ \A c \in Pending(challenges) : Of(challenges[c]) = p => c = i
        BY <1>2, <1>6, Facts DEF Consume, HoldsOk, JobOk, Logging
    <2>3. /\ DOMAIN challenges' = DOMAIN challenges
          /\ \A c \in DOMAIN challenges :
               /\ Of(challenges'[c]) = Of(challenges[c])
               /\ challenges'[c].status = "pending" <=>
                    challenges[c].status = "pending" /\ Of(challenges[c]) # p
        <3>1. /\ DOMAIN challenges' = DOMAIN challenges
              /\ \A c \in DOMAIN challenges :
                   /\ Of(challenges'[c]) = Of(challenges[c])
                   /\ c # i => challenges'[c].status = challenges[c].status
                   /\ c = i => challenges'[c].status # "pending"
            BY <1>6, <2>2, Facts DEF Consume, LoginConsumed, Consumed, Challenge, Of
        <3> HIDE DEF i, p
        <3> QED BY <2>2, <3>1 DEF Pending
    <2>4. j.pc = "txRead" /\ j.user = u /\ j.role = job[w].role /\ Of(j) = p
        BY <1>2 DEF Job, Of
    <2> HIDE DEF j, u, d
    <2>5. Codes' = Codes \ {p} /\ OneCode(challenges')
        BY <1>1, <1>2, <2>3, ChallengesVoid
    <2>6. HoldsOk(j, users, regs, challenges', devices, tokens)
        BY <1>2, <2>2, <2>4 DEF HoldsOk, Registering, Logging, Serving, u
    <2>7. Ready'
        BY <1>1, <2>1, <2>5, <2>6, ReadyWrite
    <2>8. Shown = {p} /\ Shown' = {} /\ Admitted = {} /\ Admitted' = {p}
        BY <1>1, <1>2, <2>1, <2>2, <2>4, Entry DEF Showing, Entering
    <2> HIDE DEF p
    <2>9. Book!AdmitByCode(p)
        BY <1>1, <1>2, <1>3, <2>1, <2>5, <2>8, CodeFrame
           DEF Book!AdmitByCode, Book!sessions, Book!registry
    <2> QED BY <1>3, <2>7, <2>9 DEF Moves, Book!BookNext
<1> QED BY <1>4, <1>5, <1>6

\* A step of the clock, or of the administrator, moves no request.
LEMMA StillEntry ==
    ASSUME job' = job PROVE UNCHANGED <<Shown, Admitted>>
BY DEF Shown, Admitted, At, Of

LEMMA RoleBook ==
    ASSUME TypeInv, Lone, Ready, overlaps = 0, overlaps' = 0, NEW u \in Users,
           NEW role \in AssignableRoles, UpdateRole(u, role)
    PROVE  Ready' /\ Moves
<1>1. \A w \in Workers : job[w] = Idle
    BY DEF UpdateRole, CountOverlap, Busy
<1>2. /\ users' = [users EXCEPT ![u].role = role] /\ role \in {"user", "admin"}
      /\ UNCHANGED <<job, regs, challenges, devices, grants, tokens>> /\ users[u].role # "none"
    BY DEF UpdateRole, rows, AssignableRoles, Exists
<1>3. \A v \in Users : /\ users'[v].active = users[v].active /\ users'[v].version = users[v].version
                       /\ users'[v].role = IF v = u THEN role ELSE users[v].role
    BY <1>2, Facts DEF User
<1>4. Ready'
    <2>1. \A w \in Workers : HoldsOk(job'[w], users', regs', challenges', devices', tokens')
        BY <1>1, <1>2, IdleHolds
    <2> QED BY <1>2, <2>1 DEF Ready
<1>5. Roles' = [Roles EXCEPT ![u] = role]
    BY <1>3 DEF Roles
<1>6. OpenSessions' = OpenSessions
    <2>1. \A t \in tokens : t.user \in Users
        BY Facts DEF Token
    <2>2. \A t \in tokens : IsSession(t)' <=> IsSession(t)
        BY <1>3, <2>1 DEF IsSession
    <2> QED BY <1>2, <2>2 DEF OpenSessions
<1>7. Roles[u] # "none"
    BY <1>2 DEF Roles
<1>8. Book!SetRole(u, role)
    BY <1>2, <1>5, <1>6, <1>7, Frames, StillEntry
       DEF Book!SetRole, Book!entry, Book!sessions, Book!registry
<1> QED BY <1>2, <1>4, <1>8 DEF Moves, Book!BookNext

LEMMA TimeBook == ASSUME TypeInv, Lone, Ready, Time PROVE Ready' /\ Moves
<1>1. OneReg(regs) /\ OneCode(challenges)
    BY DEF Ready
<1>2. ASSUME NEW R, NEW C, regs' = R, challenges' = C, OneReg(R), OneCode(C),
             UNCHANGED <<job, users, devices, tokens>>,
             \A r \in Pending(R) : r \in Pending(regs) /\ R[r].user = regs[r].user,
             \A c \in Pending(C) : c \in Pending(challenges) /\ Of(C[c]) = Of(challenges[c]),
             \A c \in DOMAIN challenges : Of(C[c]) = Of(challenges[c])
      PROVE  Ready'
    <2>1. ASSUME NEW w \in Workers PROVE HoldsOk(job[w], users, R, C, devices, tokens)
        <3>1. HoldsOk(job[w], users, regs, challenges, devices, tokens)
            BY DEF Ready
        <3>2. job[w].pc \in {"verifyUser", "consume"} => job[w].code \in DOMAIN challenges
            BY Facts DEF JobOk, Logging
        <3> QED BY <1>2, <3>1, <3>2, HoldsLess
    <2> QED BY <1>2, <2>1 DEF Ready
<1>3. ASSUME NEW r \in DOMAIN regs, RegExpires(r) PROVE Ready' /\ Moves
    <2> DEFINE u == regs[r].user
               p == [user |-> u, device |-> NoDevice]
    <2>1. UNCHANGED <<users, challenges, devices, grants, tokens, job>> /\ r \in Pending(regs)
        BY <1>3 DEF RegExpires, Pending
    <2>2. /\ DOMAIN regs' = DOMAIN regs
          /\ \A q \in DOMAIN regs :
               /\ regs'[q].user = regs[q].user
               /\ regs'[q].status = "pending" <=> regs[q].status = "pending" /\ regs[q].user # u
        <3>1. /\ DOMAIN regs' = DOMAIN regs
              /\ \A q \in DOMAIN regs :
                   /\ regs'[q].user = regs[q].user
                   /\ q # r => regs'[q].status = regs[q].status
                   /\ q = r => regs'[q].status # "pending"
            BY <1>3, Facts DEF RegExpires, Reg
        <3>2. \A q \in DOMAIN regs : regs[q].status = "pending" /\ regs[q].user = u => q = r
            BY <1>1, <2>1 DEF OneReg, Pending
        <3> HIDE DEF u
        <3> QED BY <3>1, <3>2 DEF u
    <2>3. u \in Users /\ p \in Book!Pairs
        <3>1. u \in Users
            BY Facts DEF Reg
        <3> QED BY <3>1, PairOf DEF AnyDevice
    <2> HIDE DEF u
    <2>4. Codes' = Codes \ {p} /\ OneReg(regs')
        BY <1>1, <2>1, <2>2, RegsVoid
    <2>5. Ready'
        <3>1. \A q \in Pending(regs') : q \in Pending(regs) /\ regs'[q].user = regs[q].user
            BY <2>2 DEF Pending
        <3> QED BY <1>1, <1>2, <2>1, <2>4, <3>1
    <2> HIDE DEF p
    <2>6. Book!Void(p)
        BY <2>1, <2>4, Frames, StillEntry DEF Book!Void, Book!entry, Book!sessions, Book!registry
    <2> QED BY <2>3, <2>5, <2>6 DEF Moves, Book!BookNext
<1>4. ASSUME NEW c \in DOMAIN challenges, ChallengeExpires(c) PROVE Ready' /\ Moves
    <2> DEFINE u == challenges[c].user
               d == challenges[c].device
               p == [user |-> u, device |-> d]
    <2>1. UNCHANGED <<users, regs, devices, grants, tokens, job>> /\ c \in Pending(challenges)
        BY <1>4 DEF ChallengeExpires, Pending
    <2>2. u \in Users /\ d \in Devices /\ d # NoDevice /\ p \in Book!Pairs /\ Of(challenges[c]) = p
        <3>1. u \in Users /\ d \in Devices /\ d # NoDevice
            BY Facts, DeviceAssumption DEF Challenge
        <3> QED BY <3>1, PairOf DEF AnyDevice, Of
    <2>3. /\ DOMAIN challenges' = DOMAIN challenges
          /\ \A e \in DOMAIN challenges :
               /\ Of(challenges'[e]) = Of(challenges[e])
               /\ challenges'[e].status = "pending" <=>
                    challenges[e].status = "pending" /\ Of(challenges[e]) # p
        <3>1. /\ DOMAIN challenges' = DOMAIN challenges
              /\ \A e \in DOMAIN challenges :
                   /\ Of(challenges'[e]) = Of(challenges[e])
                   /\ e # c => challenges'[e].status = challenges[e].status
                   /\ e = c => challenges'[e].status # "pending"
            BY <1>4, Facts DEF ChallengeExpires, Challenge, Of
        <3>2. \A e \in DOMAIN challenges :
                 challenges[e].status = "pending" /\ Of(challenges[e]) = p => e = c
            BY <1>1, <2>1, <2>2 DEF OneCode, Pending
        <3> HIDE DEF p
        <3> QED BY <2>2, <3>1, <3>2
    <2> HIDE DEF u, d
    <2>4. Codes' = Codes \ {p} /\ OneCode(challenges')
        BY <1>1, <2>1, <2>2, <2>3, ChallengesVoid
    <2>5. Ready'
        <3>1. \A e \in Pending(challenges') :
                 e \in Pending(challenges) /\ Of(challenges'[e]) = Of(challenges[e])
            BY <2>3 DEF Pending
        <3> QED BY <1>1, <1>2, <2>1, <2>3, <2>4, <3>1
    <2> HIDE DEF p
    <2>6. Book!Void(p)
        BY <2>1, <2>4, Frames, StillEntry DEF Book!Void, Book!entry, Book!sessions, Book!registry
    <2> QED BY <2>2, <2>5, <2>6 DEF Moves, Book!BookNext
<1>5. ASSUME NEW g \in DOMAIN grants, TrustExpires(g) PROVE Ready' /\ Moves
    <2> DEFINE p == Of(grants[g])
    <2>1. UNCHANGED <<users, regs, challenges, devices, tokens, job>>
        BY <1>5 DEF TrustExpires
    <2>2. p \in Book!Pairs
        <3>1. grants[g].user \in Users /\ grants[g].device \in AnyDevice
            BY Facts DEF Grant, AnyDevice
        <3> QED BY <3>1, PairOf DEF Of
    <2>3. Ready'
        BY <1>1, <1>2, <2>1 DEF Pending
    <2>4. /\ DOMAIN grants' = DOMAIN grants
          /\ \A h \in DOMAIN grants : grants'[h].expired = (grants[h].expired \/ h = g)
        BY <1>5, Facts DEF TrustExpires, Grant
    <2>5. \A r \in LiveRows : devices[r].trust # 0 =>
             /\ devices[r].trust \in DOMAIN grants
             /\ Of(grants[devices[r].trust]) = Of(devices[r])
        BY DEF Lone, TablesOk, TrustOk, Owns, LiveRows, Of
    <2>6. \A r, s \in LiveRows : Of(devices[r]) = Of(devices[s]) => r = s
        BY DEF Lone, TablesOk, RowsApart, LiveRows, Of
    <2>7. \A r \in LiveRows : Trusts(r)' <=> Trusts(r) /\ devices[r].trust # g
        BY <2>1, <2>4, <2>5 DEF Trusts
    <2>8. UNCHANGED LiveRows
        BY <2>1 DEF LiveRows
    <2>9. \A q : q \in TrustedDevices <=> \E r \in LiveRows : Trusts(r) /\ q = Of(devices[r])
        BY DEF TrustedDevices
    <2>10. \A q : q \in TrustedDevices' <=> \E r \in LiveRows : Trusts(r)' /\ q = Of(devices[r])
        BY <2>1, <2>8 DEF TrustedDevices, Of
    <2>11. TrustedDevices' \in {TrustedDevices, TrustedDevices \ {p}}
        <3>1. CASE \E s \in LiveRows : devices[s].trust = g
            <4>1. PICK s \in LiveRows : devices[s].trust = g
                BY <3>1
            <4>2. Of(devices[s]) = p
                BY <2>5, <4>1, Facts
            <4> HIDE DEF p
            <4>3. \A r \in LiveRows : Of(devices[r]) = p <=> devices[r].trust = g
                BY <2>5, <2>6, <4>1, <4>2, Facts DEF p
            <4>4. \A q : q \in TrustedDevices' <=> q \in TrustedDevices /\ q # p
                BY <2>7, <2>9, <2>10, <4>3
            <4> QED BY <4>4
        <3>2. CASE ~ \E s \in LiveRows : devices[s].trust = g
            <4>1. \A q : q \in TrustedDevices' <=> q \in TrustedDevices
                BY <2>7, <2>9, <2>10, <3>2
            <4> QED BY <4>1
        <3> QED BY <3>1, <3>2
    <2> HIDE DEF p
    <2>12. UNCHANGED <<Roles, Codes, Shown, Admitted, tokens, OpenSessions, Owned>>
        BY <2>1, Frames, StillEntry
    <2>13. CASE TrustedDevices' = TrustedDevices
        BY <2>3, <2>12, <2>13 DEF Moves, Book!bookVars
    <2>14. CASE TrustedDevices' = TrustedDevices \ {p}
        <3>1. Book!Lapse(p)
            BY <2>12, <2>14 DEF Book!Lapse, Book!entry, Book!sessions
        <3> QED BY <2>2, <2>3, <3>1 DEF Moves, Book!BookNext
    <2> QED BY <2>11, <2>13, <2>14
<1> QED BY <1>3, <1>4, <1>5 DEF Time

-----------------------------------------------------------------------------
\* What a request in a session may rely on.
LEMMA Serves ==
    ASSUME TypeInv, Ready, NEW w \in Workers, job[w].pc \in Serving
    PROVE  \E t \in tokens : /\ t.user = job[w].user /\ Book!Valid(t)
                             /\ job[w].pc \in {"logoutRead", "logout"} => t.device = job[w].device
<1>1. PICK t \in tokens : /\ t.user = job[w].user /\ Lets(t, users)
                          /\ job[w].pc \in {"logoutRead", "logout"} => t.device = job[w].device
    BY DEF Ready, HoldsOk
<1>2. t.user \in Users
    BY Facts DEF Token
<1>3. Book!Valid(t)
    BY <1>1, <1>2 DEF Lets, Book!Valid, Roles, OpenSessions, IsSession
<1> QED BY <1>1, <1>3

\* A password change or a logout: no session of the user is left, nor trust in
\* the devices of D.
LEMMA EndsBook ==
    ASSUME TypeInv, Lone, Ready, NEW w \in Workers, End(w), Only(w), job[w].pc \in Serving,
           UNCHANGED <<regs, challenges, tokens>>,
           NEW u \in Users, users'[u].role = users[u].role,
           users'[u].version = users[u].version + 1,
           \A x \in Users : x # u => users'[x] = users[x],
           NEW R, NEW D, devices' = Untrusted(R), grants' = Revoked(u, D),
           \A r \in LiveRows : r \in R <=> devices[r].user = u /\ devices[r].device \in D
    PROVE  /\ Ready' /\ UNCHANGED <<Roles, Codes, Shown, Admitted, tokens, Owned>>
           /\ OpenSessions' = {s \in OpenSessions : s.user # u}
           /\ TrustedDevices' = {p \in TrustedDevices : ~ (p.user = u /\ p.device \in D)}
<1>1. Ready'
    BY ReadyEnd DEF Ready
<1>2. UNCHANGED <<Codes, Shown, Admitted>>
    BY Frames, EndEntry DEF Serving, Showing, Entering
<1>3. users[u].version \in Nat
    BY Facts DEF User
<1>4. Roles' = Roles
    <2>1. \A x \in Users : users'[x].role = users[x].role
        OBVIOUS
    <2> QED BY <2>1 DEF Roles
<1>5. OpenSessions' = {s \in OpenSessions : s.user # u}
    <2>1. \A t \in tokens : /\ t.user \in Users /\ t.version \in Nat
                            /\ t.user = u => t.version <= users[u].version
        BY Facts DEF Token, Lone, TablesOk, TokensOk
    <2>2. \A t \in tokens : IsSession(t)' <=> IsSession(t) /\ t.user # u
        <3>1. ASSUME NEW t \in tokens, t.user = u PROVE ~ IsSession(t)'
            <4>1. t.version # users[u].version + 1
                BY <1>3, <2>1, <3>1
            <4> QED BY <3>1, <4>1 DEF IsSession
        <3>2. ASSUME NEW t \in tokens, t.user # u PROVE IsSession(t)' <=> IsSession(t)
            BY <2>1, <3>2 DEF IsSession
        <3> QED BY <3>1, <3>2
    <2> QED BY <2>2 DEF OpenSessions
<1>6. /\ DOMAIN devices' = DOMAIN devices
      /\ \A r \in DOMAIN devices :
           /\ devices'[r].live = devices[r].live /\ Of(devices'[r]) = Of(devices[r])
           /\ devices'[r].trust = IF r \in R THEN 0 ELSE devices[r].trust
    BY UntrustedRows DEF Of
<1>7. LiveRows' = LiveRows
    BY <1>6 DEF LiveRows
<1>8. Owned' = Owned
    BY <1>6, <1>7 DEF Owned, LiveRows
<1>9. /\ DOMAIN grants' = DOMAIN grants
       /\ \A g \in DOMAIN grants : grants'[g].expired = grants[g].expired
    BY Facts DEF Revoked, Grant
<1>10. \A r \in LiveRows : Trusts(r)' <=> Trusts(r) /\ r \notin R
    <2>1. \A r \in LiveRows : r \in DOMAIN devices /\
              (devices[r].trust # 0 => devices[r].trust \in DOMAIN grants)
        BY DEF Lone, TablesOk, TrustOk, Owns, LiveRows
    <2> QED BY <1>6, <1>9, <2>1 DEF Trusts
<1>11. TrustedDevices' = {p \in TrustedDevices : ~ (p.user = u /\ p.device \in D)}
    <2>1. \A q : q \in TrustedDevices <=> \E r \in LiveRows : Trusts(r) /\ q = Of(devices[r])
        BY DEF TrustedDevices
    <2>2. \A q : q \in TrustedDevices' <=> \E r \in LiveRows : Trusts(r)' /\ q = Of(devices[r])
        BY <1>6, <1>7 DEF TrustedDevices, LiveRows
    <2>3. \A r \in LiveRows : /\ Of(devices[r]).user = devices[r].user
                              /\ Of(devices[r]).device = devices[r].device
        BY DEF Of
    <2>4. \A q : q \in TrustedDevices' <=> q \in TrustedDevices /\ ~ (q.user = u /\ q.device \in D)
        BY <1>10, <2>1, <2>2, <2>3
    <2> QED BY <2>4
<1> QED BY <1>1, <1>2, <1>4, <1>5, <1>8, <1>11

LEMMA ChangeBook ==
    ASSUME TypeInv, Lone, Ready, NEW w \in Workers, ChangeCommit(w) PROVE Ready' /\ Moves
<1> DEFINE u == job[w].user
<1>1. /\ u \in Users /\ End(w) /\ Only(w)
      /\ UNCHANGED <<regs, challenges, tokens>> /\ job[w].pc \in Serving
    BY OnlyOne, Facts DEF Lone, ChangeCommit, JobOk, Serving
<1>2. /\ users'[u].role = users[u].role /\ users'[u].version = users[u].version + 1
      /\ \A x \in Users : x # u => users'[x] = users[x]
      /\ devices' = Untrusted(RowsOf(u)) /\ grants' = Revoked(u, Devices)
    BY <1>1, Facts DEF ChangeCommit, User
<1>3. \A r \in LiveRows : r \in RowsOf(u) <=> devices[r].user = u /\ devices[r].device \in Devices
    BY Facts DEF RowsOf, LiveRows, Device
<1>4. PICK t \in tokens : t.user = u /\ Book!Valid(t)
    BY <1>1, Serves
<1> HIDE DEF u
<1>5. /\ Ready' /\ UNCHANGED <<Roles, Codes, Shown, Admitted, tokens, Owned>>
      /\ OpenSessions' = {s \in OpenSessions : s.user # u}
      /\ TrustedDevices' = {p \in TrustedDevices : ~ (p.user = u /\ p.device \in Devices)}
    BY <1>1, <1>2, <1>3, EndsBook
<1>6. \A p \in TrustedDevices : p.device \in Devices
    BY Facts DEF TrustedDevices, LiveRows, Of, Device
<1>7. Book!ChangePassword(t)
    BY <1>4, <1>5, <1>6 DEF Book!ChangePassword, Book!entry
<1> QED BY <1>5, <1>7 DEF Moves, Book!BookNext

LEMMA LogoutBook ==
    ASSUME TypeInv, Lone, Ready, NEW w \in Workers, LogoutCommit(w) PROVE Ready' /\ Moves
<1> DEFINE u == job[w].user
           d == job[w].device
           p == [user |-> u, device |-> d]
           D == {d}
           R == RowFor(u, d)
<1>1. /\ u \in Users /\ End(w) /\ Only(w)
      /\ UNCHANGED <<regs, challenges, tokens>> /\ job[w].pc \in Serving /\ job[w].pc = "logout"
    BY OnlyOne, Facts DEF Lone, LogoutCommit, JobOk, Serving
<1>2. /\ users'[u].role = users[u].role /\ users'[u].version = users[u].version + 1
      /\ \A x \in Users : x # u => users'[x] = users[x]
    BY <1>1, Facts DEF LogoutCommit, User
<1>3. /\ devices' = Untrusted(R) /\ grants' = Revoked(u, D)
    BY <1>1, Facts DEF LogoutCommit
<1>4. \A r \in LiveRows : r \in R <=> devices[r].user = u /\ devices[r].device \in D
    BY DEF RowsOf, RowFor, LiveRows
<1>5. PICK t \in tokens : t.user = u /\ t.device = d /\ Book!Valid(t)
    BY <1>1, Serves
<1> HIDE DEF u, d, D, R, p
<1>6. /\ Ready' /\ UNCHANGED <<Roles, Codes, Shown, Admitted, tokens, Owned>>
      /\ OpenSessions' = {s \in OpenSessions : s.user # u}
      /\ TrustedDevices' = {q \in TrustedDevices : ~ (q.user = u /\ q.device \in D)}
    BY <1>1, <1>2, <1>3, <1>4, EndsBook
<1>7. \A q \in TrustedDevices : q.user = u /\ q.device = d <=> q = p
    BY DEF TrustedDevices, Of, p
<1>8. TrustedDevices' = TrustedDevices \ {p}
    BY <1>6, <1>7 DEF D
<1>9. p = Book!Pair(t.user, t.device)
    BY <1>5 DEF Book!Pair, p
<1>10. Book!Logout(t)
    BY <1>5, <1>6, <1>8, <1>9 DEF Book!Logout, Book!entry
<1> QED BY <1>6, <1>10 DEF Moves, Book!BookNext

-----------------------------------------------------------------------------
\* One row is saved, after the rows `gone` are deleted: what becomes of the
\* devices, and of those that are trusted.
LEMMA SavedBook ==
    ASSUME TypeInv, Lone, NEW w \in Workers, job[w].pc \in {"txCommit", "touch"},
           ~ Refused(job[w]), NEW trust,
           devices' = Saved(Kept(job[w].gone), job[w].user, job[w].device, trust),
           \A g \in DOMAIN grants : g \in DOMAIN grants' /\ grants'[g].expired = grants[g].expired
    PROVE  LET p == Of(job[w])
               gone == {Of(devices[r]) : r \in job[w].gone}
           IN  /\ Book!Free(p) /\ Owned' = (Owned \ gone) \cup {p}
               /\ TrustedDevices' = (TrustedDevices \ (gone \cup {p}))
                      \cup (IF trust # 0 /\ ~ grants'[trust].expired THEN {p} ELSE {})
<1> DEFINE u == job[w].user
           d == job[w].device
           R == job[w].gone
           K == Kept(R)
           row == [user |-> u, device |-> d, trust |-> trust, live |-> TRUE]
           p == Of(job[w])
           gone == {Of(devices[r]) : r \in R}
           good == trust # 0 /\ ~ grants'[trust].expired
<1>1. /\ K \in Seq(Device) /\ RowsApart(K) /\ R \subseteq LiveRows
      /\ \A r \in R : devices[r].user = u
      /\ \A r \in DOMAIN K : K[r].live /\ K[r].device = d => K[r].user = u
      /\ DOMAIN K = DOMAIN devices
      /\ \A r \in DOMAIN devices :
            /\ K[r].user = devices[r].user /\ K[r].device = devices[r].device
            /\ K[r].trust = devices[r].trust
            /\ K[r].live = (devices[r].live /\ r \notin R)
    <2>1. R \subseteq RowsIn(devices, u)
        BY OwnRow
    <2> QED BY <2>1, OwnRow, KeptRows DEF RowsIn, LiveRows
<1>2. Of(row) = p /\ row.trust = trust /\ row.live
    BY DEF Of
<1>3. PICK n \in DOMAIN devices' :
        /\ devices'[n] = row /\ DOMAIN K \subseteq DOMAIN devices'
        /\ \A r \in DOMAIN devices' : r # n =>
             r \in DOMAIN K /\ devices'[r] = K[r] /\ ~ (K[r].live /\ K[r].device = d)
        /\ n \in DOMAIN K => K[n].live /\ K[n].device = d
    <2>1. K \in Seq(Device) /\ RowsApart(K)
        BY <1>1
    <2>2. Len(K) + 1 \notin DOMAIN K
        BY <2>1
    <2>3. devices' = Saved(K, u, d, trust)
        OBVIOUS
    <2> HIDE DEF K, u, d
    <2>4. \E n \in DOMAIN devices' :
             /\ devices'[n] = row
             /\ DOMAIN K \subseteq DOMAIN devices'
             /\ \A r \in DOMAIN devices' : r # n =>
                  r \in DOMAIN K /\ devices'[r] = K[r] /\ ~ (K[r].live /\ K[r].device = d)
             /\ \/ n \in DOMAIN K /\ K[n].live /\ K[n].device = d /\ Len(devices') = Len(K)
                \/ n = Len(K) + 1
        BY <2>1, <2>3, SavedRows
    <2> QED BY <2>2, <2>4
<1>4. \A q : q = p <=> q = [user |-> u, device |-> d]
    BY DEF Of
<1>5. p.user = u /\ p.device = d
    BY DEF Of
<1> HIDE DEF K, row, p, u, d, R, gone
<1>6. \A r \in LiveRows : /\ r \in DOMAIN devices /\ devices[r].live
                          /\ Of(devices[r]).device = devices[r].device
                          /\ Of(devices[r]).user = devices[r].user
                          /\ Of(devices[r]) = p <=> devices[r].device = d /\ devices[r].user = u
    BY <1>4, <1>5 DEF LiveRows, Of
\* The row of device d that is not deleted, if there is one, is the row that is saved.
<1>7. \A r \in LiveRows : r \notin R /\ devices[r].device = d => r = n /\ devices[r].user = u
    BY <1>1, <1>3, <1>6
\* The live rows afterwards.
<1>8. \A r : r \in LiveRows' <=> r = n \/ (r \in LiveRows /\ r \notin R /\ devices[r].device # d)
    <2>1. n \in LiveRows'
        BY <1>2, <1>3 DEF LiveRows
    <2>2. \A r : r # n => (r \in LiveRows' <=> r \in DOMAIN K /\ K[r].live /\ K[r].device # d)
        BY <1>1, <1>3 DEF LiveRows
    <2>3. \A r : r \in DOMAIN K /\ K[r].live /\ K[r].device # d
                    <=> r \in LiveRows /\ r \notin R /\ devices[r].device # d
        BY <1>1 DEF LiveRows
    <2>4. n \in DOMAIN K => K[n].device = d /\ devices[n].device = d
        BY <1>1, <1>3
    <2>5. n \in LiveRows => n \in DOMAIN K
        BY <1>1 DEF LiveRows
    <2> QED BY <2>1, <2>2, <2>3, <2>4, <2>5
<1>9. \A r \in LiveRows' : r # n => Of(devices'[r]) = Of(devices[r]) /\ devices'[r].trust = devices[r].trust
    BY <1>1, <1>3, <1>8 DEF Of, LiveRows
<1>10. Of(devices'[n]) = p /\ devices'[n].trust = trust
    BY <1>2, <1>3
<1>11. \A r, s \in LiveRows : Of(devices[r]) = Of(devices[s]) => r = s
    BY DEF Lone, TablesOk, RowsApart, LiveRows, Of
<1>12. \A q : q \in gone <=> \E r \in R : q = Of(devices[r])
    BY DEF gone
<1>13. \A q : q \in Owned <=> \E r \in LiveRows : q = Of(devices[r])
    BY DEF Owned
<1>14. \A q : q \in Owned' <=> \E r \in LiveRows' : q = Of(devices'[r])
    BY DEF Owned, Of
<1>15. \A r \in LiveRows : r \notin R => Of(devices[r]) \notin gone
    BY <1>1, <1>11, <1>12
<1>16. Owned' = (Owned \ gone) \cup {p}
    <2>1. ASSUME NEW q PROVE q \in Owned' <=> (q \in Owned /\ q \notin gone) \/ q = p
        <3>1. ASSUME q \in Owned' PROVE (q \in Owned /\ q \notin gone) \/ q = p
            <4>1. PICK r \in LiveRows' : q = Of(devices'[r])
                BY <1>14, <3>1
            <4>2. CASE r = n
                BY <1>10, <4>1, <4>2
            <4>3. CASE r # n
                BY <1>8, <1>9, <1>13, <1>15, <4>1, <4>3
            <4> QED BY <4>2, <4>3
        <3>2. ASSUME q \in Owned, q \notin gone, q # p PROVE q \in Owned'
            <4>1. PICK r \in LiveRows : q = Of(devices[r])
                BY <1>13, <3>2
            <4>2. r \notin R
                BY <1>12, <3>2, <4>1
            <4>3. devices[r].device # d
                BY <1>6, <1>7, <3>2, <4>1, <4>2
            <4>4. r # n
                BY <1>1, <1>3, <1>6, <4>1, <4>3
            <4> QED BY <1>8, <1>9, <1>14, <4>1, <4>2, <4>3, <4>4
        <3>3. p \in Owned'
            BY <1>8, <1>10, <1>14
        <3> QED BY <3>1, <3>2, <3>3
    <2> QED BY <2>1
<1>17. Book!Free(p)
    <2>1. ASSUME NEW r \in LiveRows, devices[r].device = d PROVE Of(devices[r]) = p
        BY <1>1, <1>6, <1>7, <2>1
    <2> QED BY <1>5, <1>6, <1>13, <2>1 DEF Book!Free
<1>18. \A r \in LiveRows : Trusts(r) => devices[r].trust \in DOMAIN grants
    BY DEF Lone, TablesOk, TrustOk, Owns, LiveRows, Trusts
<1>19. \A r \in LiveRows' : Trusts(r)' <=> IF r = n THEN good ELSE Trusts(r)
    <2>1. Trusts(n)' <=> good
        BY <1>10 DEF Trusts
    <2>2. ASSUME NEW r \in LiveRows', r # n PROVE Trusts(r)' <=> Trusts(r)
        <3>1. devices'[r].trust = devices[r].trust /\ r \in LiveRows
            BY <1>8, <1>9, <2>2
        <3>2. devices[r].trust # 0 => devices[r].trust \in DOMAIN grants
            BY <3>1 DEF Lone, TablesOk, TrustOk, Owns, LiveRows
        <3> QED BY <3>1, <3>2 DEF Trusts
    <2> HIDE DEF good
    <2> QED BY <2>1, <2>2
<1>20. \A q : q \in TrustedDevices <=> \E r \in LiveRows : Trusts(r) /\ q = Of(devices[r])
    BY DEF TrustedDevices
<1>21. \A q : q \in TrustedDevices' <=> \E r \in LiveRows' : Trusts(r)' /\ q = Of(devices'[r])
    BY DEF TrustedDevices, Of
<1> HIDE DEF good
<1>22. TrustedDevices' = (TrustedDevices \ (gone \cup {p})) \cup (IF good THEN {p} ELSE {})
    <2>1. ASSUME NEW q
          PROVE  q \in TrustedDevices' <=>
                    (q \in TrustedDevices /\ q \notin gone /\ q # p) \/ (q = p /\ good)
        <3>1. ASSUME q \in TrustedDevices'
              PROVE  (q \in TrustedDevices /\ q \notin gone /\ q # p) \/ (q = p /\ good)
            <4>1. PICK r \in LiveRows' : Trusts(r)' /\ q = Of(devices'[r])
                BY <1>21, <3>1
            <4>2. CASE r = n
                BY <1>10, <1>19, <4>1, <4>2
            <4>3. CASE r # n
                <5>1. /\ r \in LiveRows /\ r \notin R /\ devices[r].device # d
                      /\ q = Of(devices[r]) /\ Trusts(r)
                    BY <1>8, <1>9, <1>19, <4>1, <4>3
                <5> QED BY <1>6, <1>15, <1>20, <5>1
            <4> QED BY <4>2, <4>3
        <3>2. ASSUME q \in TrustedDevices, q \notin gone, q # p PROVE q \in TrustedDevices'
            <4>1. PICK r \in LiveRows : Trusts(r) /\ q = Of(devices[r])
                BY <1>20, <3>2
            <4>2. r \notin R
                BY <1>12, <3>2, <4>1
            <4>3. devices[r].device # d
                BY <1>6, <1>7, <3>2, <4>1, <4>2
            <4>4. r # n
                BY <1>1, <1>3, <1>6, <4>1, <4>3
            <4> QED BY <1>8, <1>9, <1>19, <1>21, <4>1, <4>2, <4>3, <4>4
        <3>3. good => p \in TrustedDevices'
            BY <1>8, <1>10, <1>19, <1>21
        <3> QED BY <3>1, <3>2, <3>3
    <2> QED BY <2>1
<1> QED BY <1>16, <1>17, <1>22 DEF good, gone, p, R

LEMMA TouchBook ==
    ASSUME TypeInv, Lone, Ready, NEW w \in Workers, Touch(w) PROVE Ready' /\ Moves
<1> DEFINE j == job[w]
           u == j.user
           d == j.device
           p == Of(j)
<1>1. /\ j.pc = "touch" /\ End(w) /\ Only(w)
      /\ UNCHANGED <<users, regs, challenges, grants, tokens>>
      /\ devices' = IF Refused(j) THEN devices ELSE Saved(devices, u, d, j.held)
    BY OnlyOne DEF Touch, Lone
<1>2. /\ j.gone = {} /\ u \in Users /\ d \in Devices /\ j.pc \in Serving
      /\ j.row # 0 => j.row \in RowIn(devices, u, d)
      /\ IF j.row = 0 THEN RowIn(devices, u, d) = {} /\ j.held = 0
         ELSE j.held = devices[j.row].trust
    BY <1>1, Facts DEF Lone, CopyOk, JobOk, Touching, Ready, HoldsOk, Serving
<1>3. Ready'
    BY <1>1, ReadyEnd DEF Ready
<1>4. UNCHANGED <<Roles, Codes, Shown, Admitted, tokens, OpenSessions>>
    BY <1>1, Frames, EndEntry DEF Showing, Entering
<1>5. CASE Refused(j)
    BY <1>1, <1>3, <1>4, <1>5, Frames DEF Moves, Book!bookVars
<1>6. CASE ~ Refused(j)
    <2> DEFINE good == j.held # 0 /\ ~ grants'[j.held].expired
               gone == {Of(devices[r]) : r \in j.gone}
    <2>1. Kept({}) = devices
        BY Facts DEF Kept
    <2>2. devices' = Saved(Kept(j.gone), u, d, j.held)
        BY <1>1, <1>2, <1>6, <2>1
    <2>3. /\ Book!Free(p) /\ Owned' = (Owned \ gone) \cup {p}
          /\ TrustedDevices' = (TrustedDevices \ (gone \cup {p})) \cup (IF good THEN {p} ELSE {})
        BY <1>1, <1>6, <2>2, SavedBook
    <2>4. gone = {}
        BY <1>2
    <2>5. p \in TrustedDevices <=> good
        <3>1. \A r \in LiveRows : Of(devices[r]) = p <=> r \in RowIn(devices, u, d)
            BY DEF LiveRows, Of, RowIn, RowsIn
        <3>2. RowIn(devices, u, d) \subseteq LiveRows
            BY DEF RowIn, RowsIn, LiveRows
        <3>3. p \in TrustedDevices <=> \E r \in RowIn(devices, u, d) : Trusts(r)
            BY <3>1, <3>2 DEF TrustedDevices
        <3>4. CASE j.row = 0
            BY <1>2, <3>3, <3>4
        <3>5. CASE j.row # 0
            <4>1. RowIn(devices, u, d) = {j.row}
                BY <1>2, <3>5 DEF Lone, TablesOk, RowsApart, RowIn, RowsIn
            <4>2. Trusts(j.row) <=> good
                BY <1>1, <1>2, <3>5 DEF Trusts
            <4> QED BY <3>3, <4>1, <4>2
        <3> QED BY <3>4, <3>5
    <2> HIDE DEF good, gone
    <2>6. Owned' = Owned \cup {p} /\ TrustedDevices' = TrustedDevices
        BY <2>3, <2>4, <2>5
    <2>7. PICK t \in tokens : t.user = u /\ Book!Valid(t)
        BY <1>2, Serves
    <2>8. p = Book!Pair(t.user, d)
        BY <2>7 DEF Book!Pair, Of
    <2> HIDE DEF p
    <2>9. Book!AddDevice(t, d)
        BY <1>4, <2>3, <2>6, <2>7, <2>8 DEF Book!AddDevice, Book!entry, Book!sessions
    <2> QED BY <1>2, <1>3, <2>9 DEF Moves, Book!BookNext
<1> QED BY <1>5, <1>6

\* There are as many devices as rows.
LEMMA CountRows ==
    ASSUME TypeInv, Lone, NEW R \in SUBSET LiveRows
    PROVE  LET Q == {Of(devices[r]) : r \in R}
           IN  IsFiniteSet(R) /\ Cardinality(Q) = Cardinality(R) /\ Cardinality(R) \in Nat
<1> DEFINE Q == {Of(devices[r]) : r \in R}
           f == [r \in R |-> Of(devices[r])]
<1>1. IsFiniteSet(R)
    <2>1. R \subseteq 1..Len(devices) /\ Len(devices) \in Nat
        BY Facts DEF LiveRows
    <2>2. IsFiniteSet(1..Len(devices))
        BY <2>1, FS_Interval
    <2> QED BY <2>1, <2>2, FS_Subset
<1>2. \A r, s \in R : Of(devices[r]) = Of(devices[s]) => r = s
    BY DEF Lone, TablesOk, RowsApart, LiveRows, Of
<1>3. f \in [R -> Q] /\ (\A r, s \in R : f[r] = f[s] => r = s) /\ \A q \in Q : \E r \in R : f[r] = q
    BY <1>2
<1>4. ExistsBijection(R, Q)
    <2> HIDE DEF f, Q
    <2> QED BY <1>3 DEF ExistsBijection, Bijection, Injection, IsInjective, Surjection
<1> HIDE DEF Q
<1>5. Cardinality(Q) = Cardinality(R)
    BY <1>1, <1>4, FS_Bijection
<1> QED BY <1>1, <1>5, FS_CardinalityType DEF Q

\* The book counts as Sessions does.
LEMMA SameCount == ASSUME NEW S PROVE Book!Cardinality(S) = Cardinality(S)
BY DEF Book!Cardinality, Cardinality

\* The devices of the rows that a login deletes are what the book allows.
LEMMA DisplacedRows ==
    ASSUME TypeInv, Lone, Ready, NEW w \in Workers, job[w].pc = "txCommit"
    PROVE  {Of(devices[r]) : r \in job[w].gone} \in Book!Displaced(Of(job[w]))
<1> DEFINE j == job[w]
           u == j.user
           p == Of(j)
           gone == {Of(devices[r]) : r \in j.gone}
           rowsOfU == RowsIn(devices, u)
           mine == {Of(devices[r]) : r \in rowsOfU}
<1> SUFFICES gone \in Book!Displaced(p)
    OBVIOUS
<1>1. /\ u \in Users /\ Roles[u] = j.role /\ p.user = u
      /\ j.row # 0 => j.row \in RowIn(devices, u, j.device) /\ j.gone = {}
      /\ j.row = 0 => RowIn(devices, u, j.device) = {} /\ TrimOk(j, devices)
    BY Facts DEF Lone, CopyOk, JobOk, Ready, HoldsOk, Logging, Roles, Of
<1>2. p \in Owned <=> RowIn(devices, u, j.device) # {}
    BY DEF Owned, LiveRows, RowIn, RowsIn, Of
<1>3. Book!DevicesOf(p.user) = mine
    <2>1. \A q : q \in Book!DevicesOf(p.user) <=> \E r \in LiveRows : q = Of(devices[r]) /\ q.user = u
        BY <1>1 DEF Book!DevicesOf, Owned
    <2>2. \A q : q \in mine <=> \E r \in LiveRows : q = Of(devices[r]) /\ q.user = u
        BY DEF LiveRows, RowsIn, Of
    <2> HIDE DEF mine
    <2> QED BY <2>1, <2>2
<1>4. rowsOfU \in SUBSET LiveRows /\ MaxDevices \in Nat
    BY LimitAssumption DEF RowsIn, LiveRows
<1>5. Cardinality(mine) = Cardinality(rowsOfU)
    BY <1>4, CountRows
<1>6. \A G : G \in Book!Displaced(p) <=>
        IF p \in Owned \/ Roles[p.user] = "admin" \/ MaxDevices = 0 \/ Cardinality(mine) < MaxDevices
        THEN G = {} ELSE G \subseteq mine /\ Cardinality(mine \ G) = MaxDevices - 1
    <2> DEFINE its == Book!DevicesOf(p.user)
    <2>1. Book!Displaced(p) =
            IF p \in Owned \/ Roles[p.user] = "admin" \/ MaxDevices = 0 \/ Cardinality(its) < MaxDevices
            THEN {{}} ELSE {G \in SUBSET its : Cardinality(its \ G) = MaxDevices - 1}
        <3> HIDE DEF p
        <3> QED BY SameCount DEF Book!Displaced
    <2>2. its = mine
        BY <1>3
    <2> HIDE DEF mine, p, its
    <2> QED BY <2>1, <2>2
<1>7. CASE j.gone = {}
    <2>1. gone = {}
        BY <1>7
    <2>2. CASE p \in Owned \/ Roles[p.user] = "admin" \/ MaxDevices = 0 \/ Cardinality(mine) < MaxDevices
        BY <1>6, <2>1, <2>2
    <2>3. CASE ~ (p \in Owned \/ Roles[p.user] = "admin" \/ MaxDevices = 0 \/ Cardinality(mine) < MaxDevices)
        <3>1. j.row = 0 /\ ~ Unlimited(j) /\ ~ (Cardinality(rowsOfU) < MaxDevices)
            BY <1>1, <1>2, <1>5, <2>3 DEF Unlimited
        <3>2. Cardinality(rowsOfU \ j.gone) = MaxDevices - 1
            BY <1>1, <3>1 DEF TrimOk
        <3>3. mine \ gone = mine /\ rowsOfU \ j.gone = rowsOfU
            BY <1>7, <2>1
        <3> HIDE DEF mine, rowsOfU, gone
        <3>4. Cardinality(mine \ gone) = MaxDevices - 1
            BY <1>5, <3>2, <3>3
        <3> QED BY <1>6, <2>1, <2>3, <3>4
    <2> QED BY <2>2, <2>3
<1>8. CASE j.gone # {}
    <2>1. j.row = 0 /\ p \notin Owned /\ TrimOk(j, devices)
        BY <1>1, <1>2, <1>8
    <2>2. /\ ~ Unlimited(j) /\ ~ (Cardinality(rowsOfU) < MaxDevices)
          /\ j.gone \subseteq rowsOfU /\ Cardinality(rowsOfU \ j.gone) = MaxDevices - 1
        BY <1>8, <2>1 DEF TrimOk
    <2>3. mine \ gone = {Of(devices[r]) : r \in rowsOfU \ j.gone} /\ gone \subseteq mine
        <3>1. \A r, s \in rowsOfU : Of(devices[r]) = Of(devices[s]) => r = s
            BY DEF Lone, TablesOk, RowsApart, RowsIn, Of
        <3> HIDE DEF rowsOfU
        <3>2. gone \subseteq mine
            BY <2>2
        <3>3. \A q : q \in mine \ gone <=> \E r \in rowsOfU \ j.gone : q = Of(devices[r])
            BY <2>2, <3>1
        <3>4. \A q : q \in {Of(devices[r]) : r \in rowsOfU \ j.gone}
                        <=> \E r \in rowsOfU \ j.gone : q = Of(devices[r])
            OBVIOUS
        <3> HIDE DEF mine, gone
        <3> QED BY <3>2, <3>3, <3>4
    <2>4. Cardinality(mine \ gone) = MaxDevices - 1
        <3>1. rowsOfU \ j.gone \in SUBSET LiveRows
            BY <1>4
        <3>2. Cardinality({Of(devices[r]) : r \in rowsOfU \ j.gone}) = Cardinality(rowsOfU \ j.gone)
            BY <3>1, CountRows
        <3> QED BY <2>2, <2>3, <3>2
    <2>5. ~ (p \in Owned \/ Roles[p.user] = "admin" \/ MaxDevices = 0 \/ Cardinality(mine) < MaxDevices)
        BY <1>1, <1>5, <2>1, <2>2 DEF Unlimited
    <2> HIDE DEF mine, gone
    <2> QED BY <1>6, <2>3, <2>4, <2>5
<1> QED BY <1>7, <1>8

LEMMA TxCommitBook ==
    ASSUME TypeInv, Lone, Ready, NEW w \in Workers, TxCommit(w) PROVE Ready' /\ Moves
<1> DEFINE j == job[w]
           u == j.user
           d == j.device
           v == users[u].version + 1
           c == j.code
           n == Len(grants)
           p == Of(j)
           trust == IF j.trust THEN n + 1 ELSE 0
           gone == {Of(devices[r]) : r \in j.gone}
           token == IF j.role = "admin" THEN [user |-> u, device |-> NoDevice, version |-> 0]
                    ELSE [user |-> u, device |-> d, version |-> v]
<1>1. /\ j.pc = "txCommit" /\ End(w) /\ Only(w) /\ UNCHANGED regs /\ ~ Refused(j)
      /\ devices' = Saved(Kept(j.gone), u, d, trust)
    BY OnlyOne DEF TxCommit, Lone
<1>2. /\ j \in Job /\ u \in Users /\ d \in Devices /\ d # NoDevice /\ j.trust \in BOOLEAN
      /\ users[u] \in User /\ users[u].version \in Nat
      /\ j.version = users[u].version /\ j.role = users[u].role
      /\ j.role \in {"user", "admin"}
    <2>1. j.role # "none"
        BY <1>1, Facts DEF Lone, CopyOk, JobOk, Ready, HoldsOk, Logging, Is
    <2> QED BY <1>1, <2>1, Facts, DeviceAssumption DEF Lone, CopyOk, JobOk, Ready, HoldsOk, Logging, Job, User
<1>3. /\ \A g \in DOMAIN grants : g \in DOMAIN grants' /\ grants'[g].expired = grants[g].expired
      /\ (trust # 0 /\ ~ grants'[trust].expired) <=> j.trust
    <2> DEFINE new == [user |-> u, device |-> d, expired |-> FALSE, revoked |-> FALSE]
               old == Revoked(u, {d})
    <2>1. grants' = IF j.trust THEN Append(old, new) ELSE old
        BY DEF TxCommit
    <2>2. old \in Seq(Grant) /\ Len(old) = n /\ new \in Grant /\ n \in Nat
        BY <1>2, Facts, RevokedTyped DEF Grant
    <2>3. ~ new.expired
        OBVIOUS
    <2>4. \A g \in DOMAIN grants : g \in DOMAIN old /\ old[g].expired = grants[g].expired
        BY Facts DEF Revoked, Grant
    <2> HIDE DEF new, old, u, d
    <2>5. CASE j.trust
        <3>1. /\ DOMAIN grants' = DOMAIN old \cup {n + 1} /\ grants'[n + 1] = new
              /\ \A g \in DOMAIN old : grants'[g] = old[g]
            BY <2>1, <2>2, <2>5
        <3>2. trust = n + 1 /\ trust # 0
            BY <2>2, <2>5
        <3> QED BY <2>3, <2>4, <2>5, <3>1, <3>2
    <2>6. CASE ~ j.trust
        BY <2>1, <2>4, <2>6
    <2> QED BY <1>2, <2>5, <2>6
<1>4. /\ Book!Free(p) /\ Owned' = (Owned \ gone) \cup {p}
      /\ TrustedDevices' = (TrustedDevices \ (gone \cup {p})) \cup (IF j.trust THEN {p} ELSE {})
    <2> HIDE DEF trust
    <2> QED BY <1>1, <1>3, SavedBook
<1>5. gone \in Book!Displaced(p)
    BY <1>1, DisplacedRows
<1>6. /\ \A x \in Users : x # u => users'[x] = users[x]
      /\ j.role = "admin" => users' = users
      /\ users'[u].role = users[u].role
      /\ j.role # "admin" => users'[u].active = d /\ users'[u].version = v
      /\ tokens' = tokens \cup {token}
    <2>1. CASE j.role = "admin"
        BY <2>1, Facts DEF TxCommit
    <2>2. CASE j.role # "admin"
        <3> DEFINE row == [users[u] EXCEPT !.active = d, !.version = v]
        <3>1. row.active = d /\ row.version = v /\ row.role = users[u].role
            BY <1>2 DEF User
        <3>2. users' = [users EXCEPT ![u] = row]
            BY <1>2, <2>2, Facts DEF TxCommit, NextVersion
        <3>3. tokens' = tokens \cup {token}
            BY <1>2, <2>2 DEF TxCommit, NextVersion
        <3> HIDE DEF row
        <3> QED BY <1>2, <2>2, <3>1, <3>2, <3>3, Facts
    <2> QED BY <2>1, <2>2
<1>7. Roles' = Roles /\ Roles[u] = j.role
    <2>1. \A x \in Users : users'[x].role = users[x].role
        BY <1>6
    <2> QED BY <1>2, <2>1 DEF Roles
<1>8. PICK t : /\ tokens' = tokens \cup {t} /\ t.user = u
               /\ j.role = "admin" => t.device = NoDevice
               /\ j.role # "admin" => t.device = d /\ t.version = v
    <2>1. /\ token.user = u
          /\ j.role = "admin" => token.device = NoDevice
          /\ j.role # "admin" => token.device = d /\ token.version = v
        OBVIOUS
    <2> HIDE DEF token, u, d, v
    <2> QED BY <1>6, <2>1
<1> HIDE DEF token
<1>9. \A s \in tokens : s.user \in Users /\ (s.user = u => s.version <= users[u].version)
    BY Facts DEF Token, Lone, TablesOk, TokensOk
<1>10. \/ j.role = "admin" /\ OpenSessions' = OpenSessions
       \/ /\ j.role = "user" /\ t.device = d /\ t \notin tokens
          /\ OpenSessions' = {s \in OpenSessions : s.user # u} \cup {t}
    <2>1. CASE j.role = "admin"
        <3>1. \A s : IsSession(s)' <=> IsSession(s)
            BY <1>6, <2>1 DEF IsSession
        <3>2. ~ IsSession(t)
            BY <1>8, <2>1 DEF IsSession
        <3>3. OpenSessions' = OpenSessions
            BY <1>8, <3>1, <3>2 DEF OpenSessions
        <3> QED BY <2>1, <3>3
    <2>2. CASE j.role # "admin"
        <3>1. t.version # users[u].version /\ users'[u].version = t.version
            BY <1>2, <1>6, <1>8, <2>2
        <3>2. t \notin tokens
            BY <1>2, <1>8, <1>9, <2>2
        <3>3. IsSession(t)'
            BY <1>2, <1>6, <1>8, <2>2 DEF IsSession
        <3>4. \A s \in tokens : IsSession(s)' <=> IsSession(s) /\ s.user # u
            <4>1. ASSUME NEW s \in tokens, s.user = u PROVE ~ IsSession(s)'
                <5>1. s.version # v
                    BY <1>2, <1>9, <4>1
                <5> QED BY <1>6, <2>2, <4>1, <5>1 DEF IsSession
            <4>2. ASSUME NEW s \in tokens, s.user # u PROVE IsSession(s)' <=> IsSession(s)
                BY <1>6, <1>9, <4>2 DEF IsSession
            <4> QED BY <4>1, <4>2
        <3>5. OpenSessions' = {s \in OpenSessions : s.user # u} \cup {t}
            BY <1>8, <3>3, <3>4 DEF OpenSessions
        <3> QED BY <1>2, <1>8, <2>2, <3>2, <3>5
    <2> QED BY <2>1, <2>2
<1>11. UNCHANGED Codes /\ OneCode(challenges') /\ OneReg(regs')
    <2>1. /\ DOMAIN challenges' = DOMAIN challenges
          /\ \A e \in DOMAIN challenges : /\ Of(challenges'[e]) = Of(challenges[e])
                                          /\ challenges'[e].status = challenges[e].status
        <3>1. CASE c = 0
            BY <3>1 DEF TxCommit
        <3>2. CASE c # 0
            <4>1. challenges' = [challenges EXCEPT ![c].logins = @ + 1]
                BY <3>2 DEF TxCommit
            <4> HIDE DEF c
            <4> QED BY <4>1, Facts DEF Challenge, Of
        <3> QED BY <3>1, <3>2
    <2>2. \A e : e \in Pending(challenges') <=> e \in Pending(challenges)
        BY <2>1 DEF Pending
    <2>3. \A e \in Pending(challenges) : Of(challenges'[e]) = Of(challenges[e])
        BY <2>1 DEF Pending
    <2>4. OneCode(challenges) /\ OneReg(regs)
        BY DEF Ready
    <2>5. OneCode(challenges')
        BY <2>2, <2>3, <2>4 DEF OneCode
    <2>6. \A q : q \in Codes <=>
              \/ \E e \in Pending(challenges) : q = Of(challenges[e])
              \/ \E r \in Pending(regs) : q = [user |-> regs[r].user, device |-> NoDevice]
        BY DEF Codes
    <2>7. \A q : q \in Codes' <=>
              \/ \E e \in Pending(challenges') : q = Of(challenges'[e])
              \/ \E r \in Pending(regs) : q = [user |-> regs[r].user, device |-> NoDevice]
        BY <1>1 DEF Codes, Of, Pending
    <2>8. \A q : q \in Codes' <=> q \in Codes
        BY <2>2, <2>3, <2>6, <2>7
    <2> QED BY <1>1, <2>4, <2>5, <2>8
<1>12. Ready'
    BY <1>1, <1>11, ReadyEnd
<1>13. Admitted = {p} /\ Admitted' = {} /\ Shown = {} /\ Shown' = {}
    BY <1>1, EndEntry DEF Showing, Entering
<1>14. p.user = u /\ p.device = d
    BY DEF Of
<1> HIDE DEF p, gone, u, d, v
<1>15. Book!Open(p, t, j.trust, gone)
    BY <1>4, <1>6, <1>7, <1>8, <1>10, <1>11, <1>13, <1>14 DEF Book!Open
<1>16. p \in Admitted /\ t \in tokens' /\ j.trust \in BOOLEAN
    BY <1>2, <1>8, <1>13
<1> QED BY <1>5, <1>12, <1>15, <1>16 DEF Moves, Book!BookNext

-----------------------------------------------------------------------------
BookInv == LoneInv /\ (overlaps = 0 => Ready)

LEMMA BookStarts == Init => BookInv /\ Book!BookInit
<1> SUFFICES ASSUME Init PROVE Ready /\ Book!BookInit
    BY LoneInit DEF BookInv
<1>1. /\ \A w \in Workers : job[w] = Idle
      /\ DOMAIN regs = {} /\ DOMAIN challenges = {} /\ DOMAIN devices = {} /\ tokens = {}
    BY DEF Init
<1>2. Ready
    BY <1>1, IdleHolds DEF Ready, OneCode, OneReg, Pending
<1>3. \A S : "idle" \notin S => At(S) = {}
    BY <1>1 DEF At, Idle
<1>4. Shown = {} /\ Admitted = {}
    BY <1>3 DEF Shown, Admitted
<1>5. Roles \in [Users -> {"none", "admin"}]
    BY DEF Init, Roles, NewUser
<1>6. Codes = {} /\ OpenSessions = {} /\ Owned = {} /\ TrustedDevices = {}
    BY <1>1 DEF Codes, Pending, OpenSessions, Owned, TrustedDevices, LiveRows
<1> QED BY <1>1, <1>2, <1>4, <1>5, <1>6 DEF Book!BookInit

LEMMA BookStep ==
    ASSUME BookInv, [Next]_vars PROVE BookInv' /\ (overlaps' = 0 => Moves)
<1> SUFFICES ASSUME overlaps' = 0 PROVE Ready' /\ Moves
    BY LoneStep DEF BookInv
<1>1. TypeInv /\ Lone /\ Ready /\ overlaps = 0
    BY OverlapsGrow DEF BookInv, LoneInv
<1>2. CASE UNCHANGED vars
    <2>1. UNCHANGED <<users, regs, challenges, devices, grants, tokens, job>>
        BY <1>2 DEF vars, rows
    <2>2. Ready'
        BY <1>1, <2>1 DEF Ready
    <2>3. Moves
        BY <2>1, Frames, StillEntry DEF Moves, Book!bookVars
    <2> QED BY <2>2, <2>3
<1>3. ASSUME NEW w \in Workers, Register(w) PROVE Ready' /\ Moves
    BY <1>1, <1>3, BeginsBook, RegCodesBook, ReadsBook, RegCommitBook DEF Register
<1>4. ASSUME NEW w \in Workers, LogIn(w) PROVE Ready' /\ Moves
    BY <1>1, <1>4, BeginsBook, ReadsBook, ChallengeBook, TxCommitBook DEF LogIn
<1>5. ASSUME NEW w \in Workers, InSession(w) PROVE Ready' /\ Moves
    BY <1>1, <1>5, BeginsBook, ReadsBook, ChangeBook, LogoutBook, TouchBook DEF InSession
<1>6. ASSUME NEW w \in Workers, Fail(w) PROVE Ready' /\ Moves
    BY <1>1, <1>6, ReadsBook
<1> QED BY <1>1, <1>2, <1>3, <1>4, <1>5, <1>6, RoleBook, TimeBook DEF Next

\* Sessions implements the access book, for any number of users, devices and
\* requests: until two of them overlap, every step is one the book allows.
THEOREM KeepsAccessBook == Spec => ImplementsAccessBook
<1>1. BookInv /\ [Next]_vars => [overlaps' = 0 => Book!BookNext]_(Book!bookVars)
    BY BookStep DEF Moves
<1>2. BookInv /\ [Next]_vars => BookInv'
    BY BookStep
<1> QED BY <1>1, <1>2, BookStarts, PTL DEF Spec, ImplementsAccessBook

=============================================================================
