-------------------------- MODULE AuthFiles_proofs --------------------------
(***************************************************************************)
(* What holds of AuthFiles for any number of files, blobs and requests.    *)
(***************************************************************************)
EXTENDS AuthFiles, FiniteSetTheorems, TLAPS

-----------------------------------------------------------------------------
(***************************************************************************)
(* The inductive invariant.  A blob belongs to one request until it is in  *)
(* a row (Fresh), and to one row until its file is replaced or deleted     *)
(* (Owned): so the blob a request will remove (Copy) is in no live row.    *)
(***************************************************************************)
Before == {"find", "create", "save"}
After  == {"last", "version", "clean"}
Knows  == {"save", "dropVersions", "dropRow", "dropBlob"} \cup After

Fresh(w) ==
    job[w].pc \in Before =>
        /\ job[w].name \in Names
        /\ job[w].path \in DOMAIN blobs /\ blobs[job[w].path] = "stored"
        /\ \A f \in DOMAIN files : files[f].path # job[w].path
        /\ \A v \in Workers : job[v].old # job[w].path
        /\ \A v \in Workers : v # w /\ job[v].pc \in Before => job[v].path # job[w].path

Owned(f) ==
    /\ files[f].path \in DOMAIN blobs
    /\ files[f].live => blobs[files[f].path] = "stored"
    /\ \A g \in DOMAIN files : files[g].path = files[f].path => g = f

Copy(j) ==
    /\ j.old \in 0..Len(blobs)
    /\ j.pc \in Knows =>
        /\ j.id \in DOMAIN files /\ j.old \in DOMAIN blobs
        /\ \A f \in DOMAIN files : files[f].path = j.old =>
             /\ f = j.id /\ j.pc \notin After
             /\ j.pc = "dropBlob" => ~ files[f].live

IInv ==
    /\ TypeOK
    /\ \A w \in Workers : Fresh(w) /\ Copy(job[w])
    /\ \A f \in DOMAIN files : Owned(f)

LEMMA IdleTyped == Idle \in Job /\ Idle.pc \notin Before \cup Knows /\ Idle.old = 0
BY DEF Idle, Job, None, Before, Knows, After

LEMMA NoChargeTyped == NoCharge \in Entry /\ NoCharge.charged = 0 /\ NoCharge.since = 0
BY DEF NoCharge, Entry

LEMMA InitInv == Init => IInv
<1> SUFFICES ASSUME Init PROVE IInv
    OBVIOUS
<1>1. TypeOK
    <2>1. job \in [Workers -> Job] /\ overlapped \in BOOLEAN /\ failures \in Nat
        BY IdleTyped DEF Init
    <2>2. /\ blobs \in Seq({"stored", "deleted"}) /\ files \in Seq(File)
          /\ ledger \in Seq(Entry) /\ Len(ledger) = Len(files)
        BY DEF Init
    <2>3. \A v \in versions : v.file \in Nat /\ v.version \in Nat /\ v.path \in Nat
        BY DEF Init
    <2> QED BY <2>1, <2>2, <2>3 DEF TypeOK
<1>2. \A w \in Workers : Fresh(w) /\ Copy(job[w])
    BY IdleTyped DEF Init, Fresh, Copy
<1>3. DOMAIN files = {}
    BY DEF Init
<1> QED BY <1>1, <1>2, <1>3 DEF IInv

LEMMA Facts ==
    ASSUME IInv
    PROVE  /\ blobs \in Seq({"stored", "deleted"}) /\ Len(blobs) \in Nat
           /\ DOMAIN blobs = 1..Len(blobs)
           /\ files \in Seq(File) /\ Len(files) \in Nat /\ DOMAIN files = 1..Len(files)
           /\ \A f \in DOMAIN files : files[f] \in File /\ Owned(f)
           /\ ledger \in Seq(Entry) /\ DOMAIN ledger = DOMAIN files
           /\ Len(ledger) = Len(files)
           /\ \A f \in DOMAIN files : ledger[f] \in Entry
           /\ \A v \in versions : v.file \in Nat /\ v.version \in Nat /\ v.path \in Nat
           /\ job \in [Workers -> Job] /\ failures \in Nat /\ overlapped \in BOOLEAN
           /\ \A w \in Workers : job[w] \in Job /\ Fresh(w) /\ Copy(job[w])
<1>1. /\ blobs \in Seq({"stored", "deleted"}) /\ files \in Seq(File)
      /\ ledger \in Seq(Entry) /\ Len(ledger) = Len(files)
      /\ job \in [Workers -> Job] /\ failures \in Nat /\ overlapped \in BOOLEAN
      /\ \A v \in versions : v.file \in Nat /\ v.version \in Nat /\ v.path \in Nat
    BY DEF IInv, TypeOK
<1>2. /\ DOMAIN blobs = 1..Len(blobs) /\ Len(blobs) \in Nat
      /\ DOMAIN files = 1..Len(files) /\ Len(files) \in Nat
      /\ DOMAIN ledger = DOMAIN files
    BY <1>1
<1>3. \A f \in DOMAIN files : files[f] \in File
    BY <1>1, <1>2
<1>4. \A f \in DOMAIN ledger : ledger[f] \in Entry
    BY <1>1
<1> QED BY <1>1, <1>2, <1>3, <1>4 DEF IInv

\* A step that writes neither a blob nor a row: an upload that goes on keeps
\* its blob, and what the request reads is a row's own path.
LEMMA JobStep ==
    ASSUME IInv, NEW w \in Workers, NEW j \in Job, job' = [job EXCEPT ![w] = j],
           UNCHANGED <<blobs, files, ledger>>, failures' \in Nat,
           overlapped' \in BOOLEAN,
           \A v \in versions' : v.file \in Nat /\ v.version \in Nat /\ v.path \in Nat,
           j.pc \in Before => /\ job[w].pc \in Before
                              /\ j.path = job[w].path /\ j.name = job[w].name,
           \/ j.old \in {0, job[w].old}
           \/ \E f \in DOMAIN files : j.old = files[f].path,
           Copy(j)
    PROVE  IInv'
<1>1. job' \in [Workers -> Job] /\ \A v \in Workers : job'[v] = IF v = w THEN j ELSE job[v]
    BY Facts
<1>2. TypeOK'
    BY <1>1, Facts DEF TypeOK
<1>3. ASSUME NEW v \in Workers PROVE Copy(job[v])'
    BY <1>1, Facts DEF Copy
<1>4. ASSUME NEW v \in Workers, job'[v].pc \in Before PROVE Fresh(v)'
    <2>1. /\ job[v].pc \in Before
          /\ job'[v].path = job[v].path /\ job'[v].name = job[v].name
        BY <1>1, <1>4
    <2>2. job[v].path \in DOMAIN blobs /\ job[v].path # 0
        BY <2>1, Facts DEF Fresh
    <2>3. ASSUME NEW u \in Workers PROVE job'[u].old # job[v].path
        BY <1>1, <2>1, <2>2, Facts DEF Fresh
    <2>4. ASSUME NEW u \in Workers, u # v, job'[u].pc \in Before
          PROVE  job'[u].path # job[v].path
        BY <1>1, <2>1, <2>4, Facts DEF Fresh
    <2> QED BY <2>1, <2>3, <2>4, Facts DEF Fresh
<1>5. \A v \in Workers : Fresh(v)'
    BY <1>4 DEF Fresh
<1>6. \A f \in DOMAIN files' : Owned(f)'
    BY Facts DEF Owned
<1> QED BY <1>2, <1>3, <1>5, <1>6 DEF IInv

\* A request that ends, or only starts to charge, needs nothing.
LEMMA RestStep ==
    ASSUME IInv, NEW w \in Workers, NEW j \in Job, job' = [job EXCEPT ![w] = j],
           UNCHANGED <<blobs, files, ledger>>, failures' \in Nat,
           overlapped' \in BOOLEAN,
           \A v \in versions' : v.file \in Nat /\ v.version \in Nat /\ v.path \in Nat,
           j.pc \notin Before \cup Knows, j.old = 0
    PROVE  IInv'
<1>1. Copy(j)
    BY Facts DEF Copy
<1> QED BY <1>1, JobStep

-----------------------------------------------------------------------------
LEMMA UploadFoundInv ==
    ASSUME IInv, NEW w \in Workers, UploadFound(w)
    PROVE  IInv'
<1>1. PICK f \in DOMAIN files :
        job' = [job EXCEPT ![w].pc = "save", ![w].id = f, ![w].old = files[f].path,
                           ![w].used = files[f].used]
    BY DEF UploadFound
<1> DEFINE j == [job[w] EXCEPT !.pc = "save", !.id = f, !.old = files[f].path,
                               !.used = files[f].used]
<1>2. /\ files[f].path \in DOMAIN blobs /\ files[f].path \in Nat /\ files[f].used \in Nat
      /\ f \in Nat
      /\ \A g \in DOMAIN files : files[g].path = files[f].path => g = f
    BY Facts DEF Owned, File
<1>3. /\ j \in Job /\ j.pc = "save" /\ j.id = f /\ j.old = files[f].path
      /\ j.path = job[w].path /\ j.name = job[w].name
    BY <1>2, Facts DEF Job
<1>4. job' = [job EXCEPT ![w] = j]
    BY <1>1, Facts
<1> HIDE DEF j
<1>5. Copy(j)
    BY <1>2, <1>3, Facts DEF Copy, Knows, After
<1> QED BY <1>3, <1>4, <1>5, JobStep, Facts DEF UploadFound, Before

\* A step that only moves the request on, to a place that knows no more.
LEMMA MoveStep ==
    ASSUME IInv, NEW w \in Workers, NEW j \in Job, job' = [job EXCEPT ![w] = j],
           UNCHANGED <<blobs, files, ledger, failures, overlapped>>,
           \A v \in versions' : v.file \in Nat /\ v.version \in Nat /\ v.path \in Nat,
           j.id = job[w].id /\ j.old = job[w].old /\ j.path = job[w].path
             /\ j.name = job[w].name,
           \/ job[w].pc = "find" /\ j.pc = "create"
           \/ job[w].pc \in {"last", "version"} /\ j.pc \in {"version", "clean"}
           \/ job[w].pc = "dropVersions" /\ j.pc = "dropRow"
    PROVE  IInv'
<1>1. Copy(j)
    BY Facts DEF Copy, Knows, After
<1>2. j.pc \in Before => job[w].pc \in Before
    BY DEF Before
<1>3. failures' \in Nat /\ overlapped' \in BOOLEAN
    BY Facts
<1> QED BY <1>1, <1>2, <1>3, JobStep

LEMMA GoOnInv ==
    ASSUME IInv, NEW w \in Workers,
           UploadNotFound(w) \/ UploadLast(w) \/ UploadVersion(w) \/ DropVersions(w)
    PROVE  IInv'
<1>1. CASE UploadNotFound(w)
    <2> DEFINE j == [job[w] EXCEPT !.pc = "create"]
    <2>1. /\ j \in Job /\ j.pc = "create" /\ j.id = job[w].id /\ j.old = job[w].old
          /\ j.path = job[w].path /\ j.name = job[w].name
        BY Facts DEF Job
    <2>2. job' = [job EXCEPT ![w] = j]
        BY <1>1, Facts DEF UploadNotFound, Goto
    <2> HIDE DEF j
    <2> QED BY <1>1, <2>1, <2>2, MoveStep, Facts DEF UploadNotFound
<1>2. CASE UploadLast(w)
    <2>1. PICK last \in Numbers(job[w].id) \cup {0} :
            job' = [job EXCEPT ![w].pc = "version", ![w].version = last + 1]
        BY <1>2 DEF UploadLast
    <2>2. last + 1 \in Nat
        BY Facts DEF Numbers
    <2> DEFINE j == [job[w] EXCEPT !.pc = "version", !.version = last + 1]
    <2>3. /\ j \in Job /\ j.pc = "version" /\ j.id = job[w].id /\ j.old = job[w].old
          /\ j.path = job[w].path /\ j.name = job[w].name
        BY <2>2, Facts DEF Job
    <2>4. job' = [job EXCEPT ![w] = j]
        BY <2>1, Facts
    <2> HIDE DEF j
    <2> QED BY <1>2, <2>3, <2>4, MoveStep, Facts DEF UploadLast
<1>3. CASE UploadVersion(w)
    <2> DEFINE j == [job[w] EXCEPT !.pc = "clean"]
    <2>1. /\ j \in Job /\ j.pc = "clean" /\ j.id = job[w].id /\ j.old = job[w].old
          /\ j.path = job[w].path /\ j.name = job[w].name
        BY Facts DEF Job
    <2>2. job' = [job EXCEPT ![w] = j]
        BY <1>3, Facts DEF UploadVersion, Goto
    <2> HIDE DEF j
    <2>3. \A v \in versions' : v.file \in Nat /\ v.version \in Nat /\ v.path \in Nat
        BY <1>3, Facts DEF UploadVersion, Job
    <2> QED BY <1>3, <2>1, <2>2, <2>3, MoveStep DEF UploadVersion
<1>4. CASE DropVersions(w)
    <2> DEFINE j == [job[w] EXCEPT !.pc = "dropRow"]
    <2>1. /\ j \in Job /\ j.pc = "dropRow" /\ j.id = job[w].id /\ j.old = job[w].old
          /\ j.path = job[w].path /\ j.name = job[w].name
        BY Facts DEF Job
    <2>2. job' = [job EXCEPT ![w] = j]
        BY <1>4, Facts DEF DropVersions, Goto
    <2> HIDE DEF j
    <2>3. \A v \in versions' : v.file \in Nat /\ v.version \in Nat /\ v.path \in Nat
        BY <1>4, Facts DEF DropVersions
    <2> QED BY <1>4, <2>1, <2>2, <2>3, MoveStep DEF DropVersions
<1> QED BY <1>1, <1>2, <1>3, <1>4

LEMMA LastFailsInv ==
    ASSUME IInv, NEW w \in Workers, UploadLastFails(w)
    PROVE  IInv'
<1> DEFINE j == [job[w] EXCEPT !.pc = "version", !.version = 1]
<1>1. /\ j \in Job /\ j.pc = "version" /\ j.id = job[w].id /\ j.old = job[w].old
      /\ j.pc \notin Before
    BY Facts DEF Job, Before
<1>2. failures' \in Nat /\ job[w].pc = "last"
    BY Facts DEF UploadLastFails
<1>3. job' = [job EXCEPT ![w] = j]
    BY Facts DEF UploadLastFails
<1> HIDE DEF j
<1>4. Copy(j)
    BY <1>1, <1>2, Facts DEF Copy, Knows, After
<1> QED BY <1>1, <1>2, <1>3, <1>4, JobStep, Facts DEF UploadLastFails

LEMMA DeleteFindInv ==
    ASSUME IInv, NEW w \in Workers, NEW f \in DOMAIN files, DeleteFind(w, f)
    PROVE  IInv'
<1> DEFINE path == files[f].path
<1>1. /\ path \in DOMAIN blobs /\ path \in Nat /\ f \in Nat
      /\ \A g \in DOMAIN files : files[g].path = path => g = f
    BY Facts DEF Owned, File
<1> DEFINE j == [Idle EXCEPT !.pc = "dropVersions", !.id = f, !.old = path]
<1>2. job' = [job EXCEPT ![w] = j] /\ UNCHANGED <<blobs, files, ledger, versions, failures>>
      /\ overlapped' \in BOOLEAN
    BY Facts DEF DeleteFind, Begin
<1> HIDE DEF path
<1>3. j \in Job /\ j.pc = "dropVersions" /\ j.id = f /\ j.old = path
    BY <1>1 DEF Idle, Job
<1> HIDE DEF j
<1>4. Copy(j)
    BY <1>1, <1>3, Facts DEF Copy, Knows, After
<1>5. j.pc \notin Before
    BY <1>3 DEF Before
<1>6. j.old = files[f].path
    BY <1>3 DEF path
<1> QED BY <1>2, <1>3, <1>4, <1>5, <1>6, JobStep, Facts

LEMMA RestInv ==
    ASSUME IInv, NEW w \in Workers,
           \/ \E f \in DOMAIN files : ProxyFind(w, f) \/ ReportFind(w, f)
           \/ UploadFirst(w) \/ (\E u \in Units : Refuse(w, u)) \/ Fail(w)
    PROVE  IInv'
<1>1. ASSUME NEW f \in DOMAIN files, ProxyFind(w, f) \/ ReportFind(w, f) PROVE IInv'
    <2> DEFINE used == files[f].used
    <2> DEFINE j == [Idle EXCEPT !.pc = "consume", !.id = f, !.used = used]
    <2>1. job' = [job EXCEPT ![w] = j] /\ UNCHANGED <<blobs, files, ledger, versions, failures>>
          /\ overlapped' \in BOOLEAN
        BY <1>1, Facts DEF ProxyFind, ReportFind, Begin
    <2>4. files[f] \in File /\ f \in Nat
        BY Facts
    <2>2. used \in Nat
        BY <2>4 DEF File
    <2> HIDE DEF used
    <2>3. j \in Job /\ j.pc \notin Before \cup Knows /\ j.old = 0
        BY <2>2, <2>4 DEF Idle, Job, Before, Knows, After
    <2> HIDE DEF j
    <2> QED BY <2>1, <2>3, RestStep, Facts
<1>2. CASE UploadFirst(w)
    <2>1. \A v \in versions' : v.file \in Nat /\ v.version \in Nat /\ v.path \in Nat
        BY <1>2, Facts DEF UploadFirst, Job
    <2> QED BY <1>2, <2>1, IdleTyped, RestStep, Facts DEF UploadFirst, End
<1>3. ASSUME NEW u \in Units, Refuse(w, u) PROVE IInv'
    BY <1>3, IdleTyped, RestStep, Facts DEF Refuse, End
<1>4. CASE Fail(w)
    <2>1. failures' \in Nat
        BY <1>4, Facts DEF Fail
    <2> QED BY <1>4, <2>1, IdleTyped, RestStep, Facts DEF Fail, End
<1> QED BY <1>1, <1>2, <1>3, <1>4

-----------------------------------------------------------------------------
LEMMA UploadBlobInv ==
    ASSUME IInv, NEW w \in Workers, NEW n \in Names, UploadBlob(w, n)
    PROVE  IInv'
<1> DEFINE p == Len(blobs) + 1
<1> DEFINE j == [Idle EXCEPT !.pc = "find", !.name = n, !.path = p]
<1>1. /\ job' = [job EXCEPT ![w] = j] /\ blobs' = Append(blobs, "stored")
      /\ UNCHANGED <<files, versions, ledger, failures>> /\ overlapped' \in BOOLEAN
    BY Facts DEF UploadBlob, Begin
<1>2. /\ blobs' \in Seq({"stored", "deleted"}) /\ Len(blobs') = p
      /\ DOMAIN blobs' = 1..p /\ blobs'[p] = "stored"
      /\ \A q \in DOMAIN blobs : q \in DOMAIN blobs' /\ blobs'[q] = blobs[q] /\ q # p
    BY <1>1, Facts
<1>3. p \in Nat \ {0} /\ p \in DOMAIN blobs' /\ p \notin 0..Len(blobs)
    BY <1>2, Facts
<1> HIDE DEF p
<1>4. j \in Job /\ j.pc = "find" /\ j.name = n /\ j.path = p /\ j.old = 0
    BY <1>3 DEF Idle, Job
<1> HIDE DEF j
<1>5. job' \in [Workers -> Job] /\ \A v \in Workers : job'[v] = IF v = w THEN j ELSE job[v]
    BY <1>1, <1>4, Facts
<1>6. TypeOK'
    BY <1>1, <1>2, <1>5, Facts DEF TypeOK
<1>7. ASSUME NEW v \in Workers PROVE Copy(job[v])'
    <2>1. CASE v = w
        BY <1>2, <1>3, <1>4, <1>5, <2>1, Facts DEF Copy, Knows, After
    <2>2. CASE v # w
        <3>1. job'[v] = job[v] /\ Copy(job[v])
            BY <1>5, <2>2, Facts
        <3>2. job[v].old \in 0..Len(blobs')
            BY <1>2, <3>1, Facts DEF Copy, p
        <3> QED BY <1>1, <1>2, <3>1, <3>2 DEF Copy
    <2> QED BY <2>1, <2>2
<1>8. ASSUME NEW f \in DOMAIN files' PROVE Owned(f)' /\ files[f].path \in DOMAIN blobs
    BY <1>1, <1>2, Facts DEF Owned
<1>9. \A v \in Workers : job'[v].old # p
    BY <1>3, <1>4, <1>5, Facts DEF Copy
<1>10. ASSUME NEW v \in Workers, job'[v].pc \in Before PROVE Fresh(v)'
    <2>1. CASE v = w
        <3>1. \A u \in Workers : u # w /\ job'[u].pc \in Before => job'[u].path # p
            BY <1>2, <1>5, Facts DEF Fresh
        <3>2. \A f \in DOMAIN files' : files'[f].path # p
            BY <1>1, <1>2, <1>8
        <3> QED BY <1>2, <1>3, <1>4, <1>5, <1>9, <2>1, <3>1, <3>2 DEF Fresh
    <2>2. CASE v # w
        <3>1. job'[v] = job[v] /\ Fresh(v) /\ job[v].pc \in Before
            BY <1>5, <1>10, <2>2, Facts
        <3>2. job[v].path \in DOMAIN blobs /\ job[v].path # 0 /\ job[v].path # p
            BY <1>2, <3>1, Facts DEF Fresh
        <3>3. \A u \in Workers : job'[u].old # job[v].path
            BY <1>4, <1>5, <3>1, <3>2 DEF Fresh
        <3>4. \A u \in Workers : u # v /\ job'[u].pc \in Before => job'[u].path # job[v].path
            BY <1>4, <1>5, <3>1, <3>2 DEF Fresh
        <3> QED BY <1>1, <1>2, <3>1, <3>2, <3>3, <3>4 DEF Fresh
    <2> QED BY <2>1, <2>2
<1>11. \A v \in Workers : Fresh(v)'
    BY <1>10 DEF Fresh
<1> QED BY <1>6, <1>7, <1>8, <1>11 DEF IInv

\* Removing the blob of the row that was read: no live row and no upload has it.
LEMMA RemoveInv ==
    ASSUME IInv, NEW w \in Workers, UploadClean(w) \/ DropBlob(w)
    PROVE  IInv'
<1> DEFINE p == job[w].old
<1>1. /\ blobs' = [blobs EXCEPT ![p] = "deleted"] /\ job' = [job EXCEPT ![w] = Idle]
      /\ UNCHANGED <<files, versions, ledger, failures, overlapped>>
      /\ job[w].pc \in {"clean", "dropBlob"}
    BY DEF UploadClean, DropBlob, Removed, OldPath, End
<1>2. /\ p \in DOMAIN blobs
      /\ \A f \in DOMAIN files : files[f].live => files[f].path # p
      /\ \A v \in Workers : job[v].pc \in Before => job[v].path # p
    BY <1>1, Facts DEF Copy, Fresh, Knows, After
<1> HIDE DEF p
<1>3. /\ blobs' \in Seq({"stored", "deleted"}) /\ Len(blobs') = Len(blobs)
      /\ DOMAIN blobs' = DOMAIN blobs
      /\ \A q \in DOMAIN blobs : q # p => blobs'[q] = blobs[q]
    BY <1>1, <1>2, Facts
<1>4. job' \in [Workers -> Job] /\ \A v \in Workers : job'[v] = IF v = w THEN Idle ELSE job[v]
    BY <1>1, IdleTyped, Facts
<1>5. TypeOK'
    BY <1>1, <1>3, <1>4, Facts DEF TypeOK
<1>6. \A v \in Workers : Copy(job[v])'
    BY <1>1, <1>3, <1>4, IdleTyped, Facts DEF Copy
<1>7. \A f \in DOMAIN files' : Owned(f)'
    BY <1>1, <1>2, <1>3, Facts DEF Owned
<1>8. ASSUME NEW v \in Workers, job'[v].pc \in Before PROVE Fresh(v)'
    <2>1. job'[v] = job[v] /\ v # w /\ Fresh(v) /\ job[v].pc \in Before
        BY <1>4, <1>8, IdleTyped, Facts
    <2>2. job[v].path \in DOMAIN blobs /\ job[v].path # 0 /\ job[v].path # p
        BY <1>2, <2>1, Facts DEF Fresh
    <2>3. \A u \in Workers : job'[u].old # job[v].path
        BY <1>4, <2>1, <2>2, IdleTyped DEF Fresh
    <2>4. \A u \in Workers : u # v /\ job'[u].pc \in Before => job'[u].path # job[v].path
        BY <1>4, <2>1, IdleTyped DEF Fresh
    <2> QED BY <1>1, <1>3, <2>1, <2>2, <2>3, <2>4 DEF Fresh
<1>9. \A v \in Workers : Fresh(v)'
    BY <1>8 DEF Fresh
<1> QED BY <1>5, <1>6, <1>7, <1>9 DEF IInv

\* A step that writes rows but no path.
LEMMA KeepPaths ==
    ASSUME IInv, NEW w \in Workers, NEW j \in Job, job' = [job EXCEPT ![w] = j],
           TypeOK', blobs' = blobs, DOMAIN files' = DOMAIN files,
           \A f \in DOMAIN files : /\ files'[f].path = files[f].path
                                   /\ files'[f].live => files[f].live,
           j.pc \notin Before, j.old \in {0, job[w].old},
           Copy(j)'
    PROVE  IInv'
<1>1. \A v \in Workers : job'[v] = IF v = w THEN j ELSE job[v]
    BY Facts
<1>2. ASSUME NEW v \in Workers PROVE Copy(job[v])'
    <2>1. CASE v = w
        BY <1>1, <2>1
    <2>2. CASE v # w
        <3>1. job'[v] = job[v] /\ Copy(job[v])
            BY <1>1, <2>2, Facts
        <3> QED BY <3>1 DEF Copy
    <2> QED BY <2>1, <2>2
<1>3. \A f \in DOMAIN files' : Owned(f)'
    BY Facts DEF Owned
<1>4. ASSUME NEW v \in Workers, job'[v].pc \in Before PROVE Fresh(v)'
    <2>1. job'[v] = job[v] /\ v # w /\ Fresh(v) /\ job[v].pc \in Before
        BY <1>1, <1>4, Facts
    <2>2. job[v].path \in DOMAIN blobs /\ job[v].path # 0
        BY <2>1, Facts DEF Fresh
    <2>3. \A u \in Workers : job'[u].old # job[v].path
        BY <1>1, <2>1, <2>2 DEF Fresh
    <2>4. \A u \in Workers : u # v /\ job'[u].pc \in Before => job'[u].path # job[v].path
        BY <1>1, <2>1 DEF Fresh
    <2> QED BY <2>1, <2>2, <2>3, <2>4 DEF Fresh
<1>5. \A v \in Workers : Fresh(v)'
    BY <1>4 DEF Fresh
<1> QED BY <1>2, <1>3, <1>5 DEF IInv

\* A step that writes the path of an upload into one row.
LEMMA NewPath ==
    ASSUME IInv, NEW w \in Workers, NEW j \in Job, job' = [job EXCEPT ![w] = j],
           TypeOK', blobs' = blobs, job[w].pc \in Before,
           NEW i \in DOMAIN files', files'[i].path = job[w].path,
           \A f \in DOMAIN files' : f # i => f \in DOMAIN files /\ files'[f] = files[f],
           DOMAIN files \subseteq DOMAIN files',
           j.pc \notin Before, j.old = job[w].old,
           Copy(j)'
    PROVE  IInv'
<1> DEFINE p == job[w].path
<1>1. \A v \in Workers : job'[v] = IF v = w THEN j ELSE job[v]
    BY Facts
<1>2. /\ p \in DOMAIN blobs /\ blobs[p] = "stored" /\ files'[i].path = p
      /\ \A f \in DOMAIN files : files[f].path # p
      /\ \A v \in Workers : job[v].old # p
    BY Facts DEF Fresh
<1>3. ASSUME NEW v \in Workers, v # w, job[v].pc \in Before
      PROVE  job[v].path # p
    BY <1>3, Facts DEF Fresh
<1> HIDE DEF p
<1>4. ASSUME NEW v \in Workers PROVE Copy(job[v])'
    <2>1. CASE v = w
        BY <1>1, <2>1
    <2>2. CASE v # w
        <3>1. job'[v] = job[v] /\ Copy(job[v])
            BY <1>1, <2>2, Facts
        <3>2. ASSUME NEW f \in DOMAIN files', files'[f].path = job[v].old
              PROVE  f \in DOMAIN files /\ files'[f] = files[f]
            BY <1>2, <3>2
        <3> QED BY <3>1, <3>2 DEF Copy
    <2> QED BY <2>1, <2>2
<1>5. ASSUME NEW f \in DOMAIN files' PROVE Owned(f)'
    <2>1. CASE f = i
        BY <1>2, <2>1 DEF Owned
    <2>2. CASE f # i
        <3>1. f \in DOMAIN files /\ files'[f] = files[f] /\ files[f].path # p
            BY <1>2, <2>2
        <3>2. Owned(f)
            BY <3>1, Facts
        <3>3. ASSUME NEW g \in DOMAIN files', files'[g].path = files[f].path PROVE g = f
            BY <1>2, <3>1, <3>2, <3>3 DEF Owned
        <3> QED BY <3>1, <3>2, <3>3 DEF Owned
    <2> QED BY <2>1, <2>2
<1>6. ASSUME NEW v \in Workers, job'[v].pc \in Before PROVE Fresh(v)'
    <2>1. job'[v] = job[v] /\ v # w /\ Fresh(v) /\ job[v].pc \in Before
        BY <1>1, <1>6, Facts
    <2>2. job[v].path \in DOMAIN blobs /\ job[v].path # p
        BY <1>3, <2>1, Facts DEF Fresh
    <2>3. \A u \in Workers : job'[u].old # job[v].path
        BY <1>1, <2>1 DEF Fresh
    <2>4. \A u \in Workers : u # v /\ job'[u].pc \in Before => job'[u].path # job[v].path
        BY <1>1, <2>1 DEF Fresh
    <2>5. \A f \in DOMAIN files' : files'[f].path # job[v].path
        BY <1>2, <2>1, <2>2 DEF Fresh
    <2> QED BY <2>1, <2>2, <2>3, <2>4, <2>5 DEF Fresh
<1>7. \A v \in Workers : Fresh(v)'
    BY <1>6 DEF Fresh
<1> QED BY <1>4, <1>5, <1>7 DEF IInv

LEMMA ModesTyped == \A n \in Names : Modes(n) \subseteq {"plain", "quota_card"}
BY DEF Modes

LEMMA UploadSaveInv ==
    ASSUME IInv, NEW w \in Workers, UploadSave(w)
    PROVE  IInv'
<1> DEFINE i == job[w].id
<1>1. PICK mode \in Modes(job[w].name), limit \in Limits :
        /\ files' = [files EXCEPT ![i] =
                       [name |-> job[w].name, path |-> job[w].path, mode |-> mode,
                        limit |-> limit, used |-> KeptQuota(mode, job[w].used), live |-> TRUE]]
        /\ ledger' = [ledger EXCEPT ![i] =
             IF mode = "quota_card" THEN [ledger[i] EXCEPT !.since = 0]
             ELSE [NoCharge EXCEPT !.exact = (Replacing(i) = {w})]]
    BY DEF UploadSave
<1> DEFINE used == KeptQuota(mode, job[w].used)
<1> DEFINE row == [name |-> job[w].name, path |-> job[w].path, mode |-> mode,
                   limit |-> limit, used |-> used, live |-> TRUE]
<1> DEFINE entry == IF mode = "quota_card" THEN [ledger[i] EXCEPT !.since = 0]
                    ELSE [NoCharge EXCEPT !.exact = (Replacing(i) = {w})]
<1>2. /\ job[w].pc = "save" /\ job[w].pc \in Before
      /\ job' = [job EXCEPT ![w].pc = "last"] /\ UNCHANGED <<blobs, versions, failures, overlapped>>
    BY DEF UploadSave, Goto, Before
<1>3. /\ i \in DOMAIN files /\ job[w].name \in Names /\ job[w].path \in Nat
      /\ \A f \in DOMAIN files : files[f].path = job[w].old => f = i
      /\ job[w].old \in DOMAIN blobs /\ job[w].old # job[w].path
    BY <1>2, Facts DEF Copy, Fresh, Knows, Job
<1>4. used \in Nat
    BY Facts DEF KeptQuota, Job
<1>5. row \in File /\ row.path = job[w].path /\ entry \in Entry
    <2>1. row \in File /\ row.path = job[w].path
        BY <1>1, <1>3, <1>4, ModesTyped, QuotaAssumption DEF File
    <2>2. ledger[i] \in Entry
        BY <1>3, Facts
    <2>3. entry \in Entry
        BY <2>2 DEF Entry, NoCharge
    <2> QED BY <2>1, <2>3
<1>6. PICK j \in Job : /\ job' = [job EXCEPT ![w] = j]
                       /\ j.pc = "last" /\ j.old = job[w].old /\ j.id = i
    <2> DEFINE k == [job[w] EXCEPT !.pc = "last"]
    <2>1. k \in Job /\ k.pc = "last" /\ k.old = job[w].old /\ k.id = i
        BY Facts DEF Job
    <2>2. job' = [job EXCEPT ![w] = k]
        BY <1>2, Facts
    <2> HIDE DEF k, i
    <2> QED BY <2>1, <2>2
<1>7. files' = [files EXCEPT ![i] = row] /\ ledger' = [ledger EXCEPT ![i] = entry]
    BY <1>1
<1> HIDE DEF row, entry, i
<1>8. /\ files' \in Seq(File) /\ Len(files') = Len(files) /\ DOMAIN files' = DOMAIN files
      /\ \A f \in DOMAIN files : files'[f] = IF f = i THEN row ELSE files[f]
    BY <1>3, <1>5, <1>7, Facts
<1>9. ledger' \in Seq(Entry) /\ Len(ledger') = Len(ledger)
    <2>1. i \in 1..Len(ledger)
        BY <1>3, Facts
    <2> QED BY <1>5, <1>7, <2>1, Facts
<1>10. job' \in [Workers -> Job]
    BY <1>2, <1>6, Facts
<1>11. TypeOK'
    BY <1>2, <1>8, <1>9, <1>10, Facts DEF TypeOK
<1>12. Copy(j)'
    <2>1. \A f \in DOMAIN files' : files'[f].path # j.old
        BY <1>3, <1>5, <1>6, <1>8
    <2>2. j.old \in 0..Len(blobs) /\ j.old \in DOMAIN blobs
        BY <1>3, <1>6, Facts
    <2> QED BY <1>2, <1>3, <1>6, <1>8, <2>1, <2>2 DEF Copy
<1>13. j.pc \notin Before
    BY <1>6 DEF Before
<1>14. i \in DOMAIN files' /\ files'[i].path = job[w].path
    BY <1>3, <1>5, <1>8
<1> QED BY <1>2, <1>6, <1>8, <1>11, <1>12, <1>13, <1>14, NewPath

LEMMA UploadCreateInv ==
    ASSUME IInv, NEW w \in Workers, UploadCreate(w)
    PROVE  IInv'
<1> DEFINE i == Len(files) + 1
<1>1. PICK mode \in Modes(job[w].name), limit \in Limits :
        files' = Append(files, [name |-> job[w].name, path |-> job[w].path, mode |-> mode,
                                limit |-> limit, used |-> 0, live |-> TRUE])
    BY DEF UploadCreate
<1> DEFINE row == [name |-> job[w].name, path |-> job[w].path, mode |-> mode,
                   limit |-> limit, used |-> 0, live |-> TRUE]
<1>2. /\ job[w].pc = "create" /\ job[w].pc \in Before
      /\ job' = [job EXCEPT ![w].pc = "first", ![w].id = i]
      /\ UNCHANGED <<blobs, versions, failures, overlapped>>
      /\ files' = Append(files, row) /\ ledger' = Append(ledger, NoCharge)
    BY <1>1 DEF UploadCreate, Before
<1>3. job[w].name \in Names /\ job[w].path \in Nat
    BY <1>2, Facts DEF Fresh, Job
<1>4. row \in File /\ row.path = job[w].path
    BY <1>1, <1>3, ModesTyped, QuotaAssumption DEF File
<1>5. PICK j \in Job : /\ job' = [job EXCEPT ![w] = j]
                       /\ j.pc = "first" /\ j.old = job[w].old
    <2> DEFINE k == [job[w] EXCEPT !.pc = "first", !.id = i]
    <2>1. i \in Nat
        BY Facts
    <2> HIDE DEF i
    <2>2. k \in Job /\ k.pc = "first" /\ k.old = job[w].old
        BY <2>1, Facts DEF Job
    <2>3. job' = [job EXCEPT ![w] = k]
        BY <1>2, Facts
    <2> HIDE DEF k
    <2> QED BY <2>2, <2>3
<1> HIDE DEF row
<1>6. /\ files' \in Seq(File) /\ Len(files') = i /\ DOMAIN files' = 1..i
      /\ \A f \in DOMAIN files : files'[f] = files[f]
      /\ files'[i] = row
    BY <1>2, <1>4, Facts
<1>7. ledger' \in Seq(Entry) /\ Len(ledger') = i
    BY <1>2, NoChargeTyped, Facts
<1>8. job' \in [Workers -> Job]
    BY <1>2, <1>5, Facts
<1>9. TypeOK'
    BY <1>2, <1>6, <1>7, <1>8, Facts DEF TypeOK
<1>10. Copy(j)'
    BY <1>2, <1>5, Facts DEF Copy, Knows, After
<1>11. /\ i \in DOMAIN files' /\ files'[i].path = job[w].path /\ j.pc \notin Before
       /\ DOMAIN files \subseteq DOMAIN files'
       /\ \A f \in DOMAIN files' : f # i => f \in DOMAIN files /\ files'[f] = files[f]
    BY <1>4, <1>5, <1>6, Facts DEF Before
<1> HIDE DEF i
<1> QED BY <1>2, <1>5, <1>9, <1>10, <1>11, NewPath

LEMMA DropRowInv ==
    ASSUME IInv, NEW w \in Workers, DropRow(w)
    PROVE  IInv'
<1> DEFINE i == job[w].id
<1> DEFINE row == [files[i] EXCEPT !.live = FALSE]
<1>1. /\ job[w].pc = "dropRow" /\ job' = [job EXCEPT ![w].pc = "dropBlob"]
      /\ UNCHANGED <<blobs, versions, ledger, failures, overlapped>>
      /\ files' = [files EXCEPT ![i] = row]
    BY Facts DEF DropRow, Goto
<1>2. /\ i \in DOMAIN files /\ job[w].old \in DOMAIN blobs /\ job[w].old \in 0..Len(blobs)
      /\ \A f \in DOMAIN files : files[f].path = job[w].old => f = i
    BY <1>1, Facts DEF Copy, Knows
<1>3. row \in File /\ row.path = files[i].path /\ ~ row.live
    BY <1>2, Facts DEF File
<1>4. PICK j \in Job : /\ job' = [job EXCEPT ![w] = j]
                       /\ j.pc = "dropBlob" /\ j.old = job[w].old /\ j.id = i
    <2> DEFINE k == [job[w] EXCEPT !.pc = "dropBlob"]
    <2>1. k \in Job /\ k.pc = "dropBlob" /\ k.old = job[w].old /\ k.id = i
        BY Facts DEF Job
    <2>2. job' = [job EXCEPT ![w] = k]
        BY <1>1, Facts
    <2> HIDE DEF k, i
    <2> QED BY <2>1, <2>2
<1> HIDE DEF row, i
<1>5. /\ files' \in Seq(File) /\ Len(files') = Len(files) /\ DOMAIN files' = DOMAIN files
      /\ \A f \in DOMAIN files : files'[f] = IF f = i THEN row ELSE files[f]
    BY <1>1, <1>2, <1>3, Facts
<1>6. job' \in [Workers -> Job]
    BY <1>1, <1>4, Facts
<1>7. TypeOK'
    BY <1>1, <1>5, <1>6, Facts DEF TypeOK
<1>8. \A f \in DOMAIN files : /\ files'[f].path = files[f].path
                              /\ files'[f].live => files[f].live
    BY <1>3, <1>5
<1>9. Copy(j)'
    BY <1>1, <1>2, <1>3, <1>4, <1>5, <1>8 DEF Copy, After
<1>10. j.pc \notin Before
    BY <1>4 DEF Before
<1> QED BY <1>1, <1>4, <1>5, <1>7, <1>8, <1>9, <1>10, KeepPaths

LEMMA ChargeInv ==
    ASSUME IInv, NEW w \in Workers, NEW u \in Units, Charge(w, u)
    PROVE  IInv'
<1> DEFINE i == job[w].id
<1> DEFINE row == [files[i] EXCEPT !.used = files[i].used + u]
<1> DEFINE entry == [charged |-> ledger[i].charged + u, since |-> ledger[i].since + u,
                    exact |-> ledger[i].exact /\ Replacing(i) = {}]
<1>1. i \in DOMAIN files
    BY DEF Charge, Fits, Card, Live
<1>2. /\ job' = [job EXCEPT ![w] = Idle] /\ UNCHANGED <<blobs, versions, failures, overlapped>>
      /\ files' = [files EXCEPT ![i] = row]
    BY <1>1, Facts DEF Charge, UsedNow, End
<1>3. ledger' = [ledger EXCEPT ![i] = entry]
    BY <1>1, Facts DEF Charge
<1>4. row \in File /\ row.path = files[i].path /\ row.live = files[i].live
    <2>1. files[i] \in File /\ u \in Nat
        BY <1>1, Facts, QuotaAssumption
    <2> QED BY <2>1 DEF File
<1>5. entry \in Entry
    <2>1. ledger[i] \in Entry /\ u \in Nat
        BY <1>1, Facts, QuotaAssumption
    <2> QED BY <2>1 DEF Entry
<1> HIDE DEF row, entry, i
<1>6. /\ files' \in Seq(File) /\ Len(files') = Len(files) /\ DOMAIN files' = DOMAIN files
      /\ \A f \in DOMAIN files : files'[f] = IF f = i THEN row ELSE files[f]
    BY <1>1, <1>2, <1>4, Facts
<1>7. ledger' \in Seq(Entry) /\ Len(ledger') = Len(ledger)
    <2>1. i \in 1..Len(ledger)
        BY <1>1, Facts
    <2> QED BY <1>3, <1>5, <2>1, Facts
<1>8. job' \in [Workers -> Job]
    BY <1>2, IdleTyped, Facts
<1>9. TypeOK'
    BY <1>2, <1>6, <1>7, <1>8, Facts DEF TypeOK
<1>10. \A f \in DOMAIN files : /\ files'[f].path = files[f].path
                               /\ files'[f].live => files[f].live
    BY <1>4, <1>6
<1>11. Copy(Idle)'
    BY <1>2, IdleTyped, Facts DEF Copy
<1> QED BY <1>2, <1>6, <1>9, <1>10, <1>11, IdleTyped, KeepPaths

LEMMA NextInv == IInv /\ [Next]_vars => IInv'
<1> SUFFICES ASSUME IInv, [Next]_vars PROVE IInv'
    OBVIOUS
<1>1. CASE UNCHANGED vars
    BY <1>1 DEF vars, IInv, TypeOK, Fresh, Copy, Owned
<1> QED BY <1>1, UploadBlobInv, UploadFoundInv, GoOnInv, LastFailsInv, DeleteFindInv, RestInv, RemoveInv,
           UploadSaveInv, UploadCreateInv, DropRowInv, ChargeInv DEF Next

\* Every reachable state satisfies the invariant.
THEOREM Invariance == Spec => []IInv
BY InitInv, NextInv, PTL DEF Spec

\* A row that can be read has its blob, for any number of uploads and deletes
\* that overlap and fail between their writes: nothing removes a blob before
\* the last row that points to it is gone.
THEOREM RowsHaveBlobs == Spec => []NoDanglingRow
<1>1. IInv => NoDanglingRow
    BY DEF IInv, Owned, NoDanglingRow
<1> QED BY <1>1, Invariance, PTL

\* Every table and copy keeps its type.
THEOREM FilesTyped == Spec => []TypeOK
<1>1. IInv => TypeOK
    BY DEF IInv
<1> QED BY <1>1, Invariance, PTL

-----------------------------------------------------------------------------
(***************************************************************************)
(* Quotas.  Only UploadSave, UploadCreate, DropRow and Charge write a row  *)
(* or its ledger entry.                                                    *)
(***************************************************************************)
Account(f) ==
    /\ ledger[f].exact => files[f].used = ledger[f].charged
    /\ ledger[f].since > 0 /\ files[f].limit > 0 => files[f].used <= files[f].limit

\* An upload about to save the row of an exact quota has read it as it is.
Current(w) ==
    job[w].pc = "save" /\ ledger[job[w].id].exact => job[w].used = files[job[w].id].used

QuotaInv ==
    /\ \A f \in DOMAIN files : Account(f)
    /\ \A w \in Workers : Current(w)

LEMMA SaveFacts ==
    ASSUME IInv, NEW w \in Workers, job[w].pc = "save"
    PROVE  /\ job[w].id \in DOMAIN files /\ files[job[w].id] \in File
           /\ ledger[job[w].id] \in Entry /\ job[w].used \in Nat
BY Facts DEF Copy, Knows, Job

\* A step that writes no quota: what a request newly takes up is current.
LEMMA QuotaKeeps ==
    ASSUME IInv, QuotaInv, UNCHANGED ledger, DOMAIN files \subseteq DOMAIN files',
           DOMAIN files' = DOMAIN ledger,
           \A f \in DOMAIN files : files'[f].used = files[f].used /\ files'[f].limit = files[f].limit,
           \A w \in Workers :
             \/ job'[w] = job[w] \/ job'[w].pc # "save"
             \/ job'[w].id \in DOMAIN files /\ job'[w].used = files[job'[w].id].used
    PROVE  QuotaInv'
<1>1. ASSUME NEW f \in DOMAIN files' PROVE Account(f)'
    BY Facts DEF QuotaInv, Account
<1>2. ASSUME NEW w \in Workers PROVE Current(w)'
    BY SaveFacts DEF QuotaInv, Current
<1> QED BY <1>1, <1>2 DEF QuotaInv

LEMMA SaveQuota ==
    ASSUME IInv, QuotaInv, NEW w \in Workers, UploadSave(w)
    PROVE  QuotaInv'
<1> DEFINE i == job[w].id
<1>1. PICK mode \in Modes(job[w].name), limit \in Limits :
        /\ files' = [files EXCEPT ![i] =
                       [name |-> job[w].name, path |-> job[w].path, mode |-> mode,
                        limit |-> limit, used |-> KeptQuota(mode, job[w].used), live |-> TRUE]]
        /\ ledger' = [ledger EXCEPT ![i] =
             IF mode = "quota_card" THEN [ledger[i] EXCEPT !.since = 0]
             ELSE [NoCharge EXCEPT !.exact = (Replacing(i) = {w})]]
    BY DEF UploadSave
<1>2. /\ i \in DOMAIN files /\ ledger[i] \in Entry /\ job[w].pc = "save"
      /\ Account(i) /\ Current(w)
    BY SaveFacts DEF UploadSave, QuotaInv
<1>3. job' = [job EXCEPT ![w].pc = "last"]
    BY DEF UploadSave, Goto
<1>4. \A v \in Workers : /\ v # w => job'[v] = job[v]
                         /\ job'[w].pc = "last"
    BY <1>3, Facts DEF Job
<1>5. /\ DOMAIN files' = DOMAIN files /\ files'[i].used = KeptQuota(mode, job[w].used)
      /\ \A f \in DOMAIN files : f # i => files'[f] = files[f] /\ ledger'[f] = ledger[f]
    BY <1>1, <1>2, Facts
<1>6. /\ ledger'[i].since = 0
      /\ ledger'[i].exact =>
           /\ files'[i].used = ledger'[i].charged
           /\ \A v \in Workers : v # w /\ job[v].pc = "save" /\ job[v].id = i =>
                job[v].used = files'[i].used
    <2>1. CASE mode = "quota_card"
        <3>1. ledger'[i] = [ledger[i] EXCEPT !.since = 0]
            BY <1>1, <1>2, <2>1, Facts
        <3>2. /\ ledger'[i].since = 0 /\ ledger'[i].exact = ledger[i].exact
              /\ ledger'[i].charged = ledger[i].charged
            BY <1>2, <3>1 DEF Entry
        <3>3. files'[i].used = job[w].used
            BY <1>5, <2>1 DEF KeptQuota
        <3>4. ledger[i].exact => job[w].used = files[i].used /\ files[i].used = ledger[i].charged
            BY <1>2 DEF Current, Account
        <3>5. ledger[i].exact =>
                \A v \in Workers : job[v].pc = "save" /\ job[v].id = i => job[v].used = files[i].used
            BY DEF QuotaInv, Current
        <3> QED BY <3>2, <3>3, <3>4, <3>5
    <2>2. CASE mode # "quota_card"
        <3>1. ledger'[i] = [NoCharge EXCEPT !.exact = (Replacing(i) = {w})]
            BY <1>1, <1>2, <2>2, Facts
        <3>2. /\ ledger'[i].since = 0 /\ ledger'[i].charged = 0
              /\ ledger'[i].exact = (Replacing(i) = {w})
            BY <3>1 DEF NoCharge
        <3>3. files'[i].used = 0
            BY <1>5, <2>2 DEF KeptQuota
        <3>4. \A v \in Workers : job[v].pc = "save" /\ job[v].id = i => v \in Replacing(i)
            BY DEF Replacing
        <3> QED BY <3>2, <3>3, <3>4
    <2> QED BY <2>1, <2>2
<1> HIDE DEF i
<1>7. ASSUME NEW f \in DOMAIN files' PROVE Account(f)'
    BY <1>5, <1>6 DEF QuotaInv, Account
<1>8. ASSUME NEW v \in Workers PROVE Current(v)'
    <2> SUFFICES ASSUME job'[v].pc = "save", v # w PROVE Current(v)'
        BY <1>4 DEF Current
    <2>1. job'[v] = job[v] /\ job[v].id \in DOMAIN files
        BY <1>4, SaveFacts
    <2>2. CASE job[v].id = i
        BY <1>6, <2>1, <2>2 DEF Current
    <2>3. CASE job[v].id # i
        BY <1>5, <2>1, <2>3 DEF QuotaInv, Current
    <2> QED BY <2>2, <2>3
<1> QED BY <1>7, <1>8 DEF QuotaInv

LEMMA CreateQuota ==
    ASSUME IInv, QuotaInv, NEW w \in Workers, UploadCreate(w)
    PROVE  QuotaInv'
<1>1. PICK row : files' = Append(files, row) /\ row.used = 0
    BY DEF UploadCreate
<1>2. ledger' = Append(ledger, NoCharge)
    BY DEF UploadCreate
<1>3. /\ \A f \in DOMAIN files : files'[f] = files[f] /\ ledger'[f] = ledger[f]
      /\ files'[Len(files) + 1] = row /\ ledger'[Len(files) + 1] = NoCharge
      /\ DOMAIN files' = DOMAIN files \cup {Len(files) + 1}
    BY <1>1, <1>2, Facts
<1>4. ASSUME NEW f \in DOMAIN files' PROVE Account(f)'
    BY <1>1, <1>3, NoChargeTyped DEF QuotaInv, Account
<1>5. ASSUME NEW v \in Workers PROVE Current(v)'
    <2>1. job'[v].pc = "save" => job'[v] = job[v]
        BY Facts DEF UploadCreate, Job
    <2> QED BY <1>3, <2>1, SaveFacts DEF QuotaInv, Current
<1> QED BY <1>4, <1>5 DEF QuotaInv

LEMMA ChargeQuota ==
    ASSUME IInv, QuotaInv, NEW w \in Workers, NEW u \in Units, Charge(w, u)
    PROVE  QuotaInv'
<1> DEFINE i == job[w].id
<1>1. i \in DOMAIN files /\ (files[i].limit > 0 => files[i].used + u <= files[i].limit)
    BY DEF Charge, Fits, Card, Live, UsedNow
<1>2. files[i] \in File /\ ledger[i] \in Entry /\ u \in Nat
    BY <1>1, Facts, QuotaAssumption
<1>3. /\ DOMAIN files' = DOMAIN files
      /\ \A f \in DOMAIN files : f # i => files'[f] = files[f] /\ ledger'[f] = ledger[f]
    BY <1>1, Facts DEF Charge
<1>4. files'[i].used = files[i].used + u /\ files'[i].limit = files[i].limit
    BY <1>1, <1>2, Facts DEF Charge, UsedNow, File
<1>5. /\ ledger'[i].charged = ledger[i].charged + u
      /\ ledger'[i].exact => ledger[i].exact /\ Replacing(i) = {}
    BY <1>1, Facts DEF Charge
<1>6. /\ files[i].used \in Nat /\ ledger[i].charged \in Nat
    BY <1>2 DEF File, Entry
<1>7. Account(i)
    BY <1>1 DEF QuotaInv
<1> HIDE DEF i
<1>8. ASSUME NEW f \in DOMAIN files' PROVE Account(f)'
    <2>1. CASE f = i
        BY <1>1, <1>2, <1>4, <1>5, <1>6, <1>7, <2>1 DEF Account
    <2>2. CASE f # i
        BY <1>3, <2>2 DEF QuotaInv, Account
    <2> QED BY <2>1, <2>2
<1>9. ASSUME NEW v \in Workers PROVE Current(v)'
    <2>1. job'[v].pc = "save" => job'[v] = job[v]
        BY Facts, IdleTyped DEF Charge, End, Before
    <2>2. CASE job[v].pc = "save" /\ job[v].id = i
        BY <1>5, <2>1, <2>2 DEF Replacing, Current
    <2>3. CASE job[v].pc = "save" /\ job[v].id # i
        BY <1>3, <2>1, <2>3, SaveFacts DEF QuotaInv, Current
    <2> QED BY <2>1, <2>2, <2>3 DEF Current
<1> QED BY <1>8, <1>9 DEF QuotaInv

LEMMA QuotaStep == IInv /\ QuotaInv /\ [Next]_vars => QuotaInv'
<1> SUFFICES ASSUME IInv, QuotaInv, [Next]_vars PROVE QuotaInv'
    OBVIOUS
<1>1. CASE UNCHANGED vars
    BY <1>1, Facts, QuotaKeeps DEF vars
<1>2. ASSUME NEW w \in Workers, UploadFound(w) PROVE QuotaInv'
    <2>1. PICK f \in DOMAIN files :
            job' = [job EXCEPT ![w].pc = "save", ![w].id = f, ![w].old = files[f].path,
                               ![w].used = files[f].used]
        BY <1>2 DEF UploadFound
    <2>2. job'[w].id = f /\ job'[w].used = files[f].used
        BY <2>1, Facts DEF Job
    <2>3. \A v \in Workers : v # w => job'[v] = job[v]
        BY <2>1, Facts
    <2> QED BY <1>2, <2>2, <2>3, Facts, QuotaKeeps DEF UploadFound
<1>3. ASSUME NEW w \in Workers, DropRow(w) PROVE QuotaInv'
    <2>1. DOMAIN files' = DOMAIN files /\ ledger' = ledger
        BY <1>3 DEF DropRow
    <2>2. \A f \in DOMAIN files : files'[f].used = files[f].used /\ files'[f].limit = files[f].limit
        BY <1>3, <2>1, Facts DEF DropRow, File
    <2>3. \A v \in Workers : job'[v] = job[v] \/ job'[v].pc # "save"
        BY <1>3, Facts DEF DropRow, Goto, Job
    <2> QED BY <2>1, <2>2, <2>3, Facts, QuotaKeeps
<1>4. ASSUME NEW w \in Workers, UNCHANGED <<files, ledger>>, NEW j, j.pc # "save",
             job' = [job EXCEPT ![w] = j]
      PROVE  QuotaInv'
    <2>1. \A v \in Workers : job'[v] = job[v] \/ job'[v].pc # "save"
        BY <1>4, Facts
    <2> QED BY <1>4, <2>1, Facts, QuotaKeeps
<1>5. ASSUME NEW w \in Workers,
             \/ \E n \in Names : UploadBlob(w, n)
             \/ \E f \in DOMAIN files : DeleteFind(w, f) \/ ProxyFind(w, f) \/ ReportFind(w, f)
      PROVE  QuotaInv'
    BY <1>4, <1>5 DEF UploadBlob, DeleteFind, ProxyFind, ReportFind, Begin, Idle
<1>6. ASSUME NEW w \in Workers,
             \/ UploadClean(w) \/ UploadFirst(w) \/ DropBlob(w) \/ Fail(w)
             \/ \E u \in Units : Refuse(w, u)
      PROVE  QuotaInv'
    BY <1>4, <1>6 DEF UploadClean, UploadFirst, DropBlob, Fail, Refuse, End, Idle
<1>7. ASSUME NEW w \in Workers,
             \/ UploadNotFound(w) \/ UploadLast(w) \/ UploadLastFails(w) \/ UploadVersion(w)
             \/ DropVersions(w)
      PROVE  QuotaInv'
    <2>1. \A v \in Workers : job'[v] = job[v] \/ job'[v].pc # "save"
        BY <1>7, Facts DEF UploadNotFound, UploadLast, UploadLastFails, UploadVersion,
                           DropVersions, Goto, Job
    <2> QED BY <1>7, <2>1, Facts, QuotaKeeps DEF UploadNotFound, UploadLast, UploadLastFails,
                                                  UploadVersion, DropVersions
<1> QED BY <1>1, <1>2, <1>3, <1>5, <1>6, <1>7, SaveQuota, CreateQuota, ChargeQuota DEF Next

\* Charges to a card add up, for any number of proxies and reports at once and
\* whatever failed, as long as none is committed between an upload's read of
\* the card and its save; and none takes the card over the limit of its last
\* upload, whatever uploads and deletes it races.
THEOREM QuotasAreKept == Spec => []QuotaKept
<1>1. Init => QuotaInv
    <2>1. Init => DOMAIN files = {} /\ \A w \in Workers : job[w].pc = "idle"
        BY DEF Init, Idle
    <2> QED BY <2>1 DEF QuotaInv, Current
<1>2. QuotaInv => QuotaKept
    BY DEF QuotaInv, Account, QuotaKept
<1> QED BY <1>1, <1>2, QuotaStep, Invariance, PTL DEF Spec

-----------------------------------------------------------------------------
(***************************************************************************)
(* One request at a time.  Until two requests overlap the tables, here     *)
(* values F and V of files and versions, agree with each other and with    *)
(* the one request under way (Held); so a request that fails lets go of    *)
(* one blob at most.                                                       *)
(***************************************************************************)
Alone == \A v, w \in Workers : job[v] # Idle /\ job[w] # Idle => v = w
Only(w) == \A v \in Workers : job[v] # Idle => v = w

OneRow(F) ==
    \A f, g \in DOMAIN F : F[f].live /\ F[g].live /\ F[f].name = F[g].name => f = g

Of(V, f) == {v \in V : v.file = f}
Nums(V, f) == {v.version : v \in Of(V, f)}
Dense(V, f) ==
    /\ IsFiniteSet(Of(V, f)) /\ IsFiniteSet(Nums(V, f))
    /\ Nums(V, f) = 1..Cardinality(Nums(V, f))
    /\ \A v, x \in Of(V, f) : v.version = x.version /\ v # x => v.version = 1

TablesOk(F, V) ==
    /\ OneRow(F)
    /\ \A v \in V : v.file \in DOMAIN F
    /\ \A f \in DOMAIN F : Dense(V, f)

Held(j, F, V) ==
    /\ j.pc \in {"idle", "find", "create", "first", "consume"} => j.old = 0
    /\ j.pc \in {"idle", "dropVersions", "dropRow", "dropBlob", "consume"} => j.path = 0
    /\ j.pc \in {"save", "dropVersions", "dropRow"} =>
         j.id \in DOMAIN F /\ F[j.id].live /\ F[j.id].path = j.old
    /\ j.pc \in {"first"} \cup After =>
         j.id \in DOMAIN F /\ F[j.id].live /\ F[j.id].path = j.path
    /\ j.pc = "save" => F[j.id].name = j.name
    /\ j.pc = "create" => \A f \in DOMAIN F : F[f].live => F[f].name # j.name
    /\ j.pc = "first" => Of(V, j.id) = {}
    /\ j.pc = "version" => j.version \in {1, Cardinality(Nums(V, j.id)) + 1}

Lone ==
    /\ Alone /\ TablesOk(files, versions)
    /\ \A w \in Workers : Held(job[w], files, versions)
    /\ Cardinality(Orphans) <= failures

LoneInv == IInv /\ (~ overlapped => Lone)

-----------------------------------------------------------------------------
\* The blobs no live row and no request has, when job j is the only one.
Free(B, F, j) ==
    {p \in DOMAIN B : /\ B[p] = "stored" /\ p # j.path /\ p # j.old
                      /\ \A f \in DOMAIN F : F[f].live => F[f].path # p}

LEMMA IdleHeld ==
    ASSUME NEW F, NEW V PROVE Held(Idle, F, V) /\ Idle.path = 0 /\ Idle.old = 0
BY DEF Held, Idle, After

LEMMA FreeNow ==
    ASSUME IInv, NEW w \in Workers, Only(w)
    PROVE  /\ Orphans = Free(blobs, files, job[w]) /\ IsFiniteSet(Orphans)
           /\ Cardinality(Orphans) \in Nat
<1>1. /\ \A v \in Workers : v # w => job[v].path = 0 /\ job[v].old = 0
      /\ DOMAIN blobs = 1..Len(blobs) /\ Len(blobs) \in Nat
    BY Facts, IdleHeld DEF Only
<1>2. Orphans = Free(blobs, files, job[w])
    BY <1>1 DEF Orphans, Free
<1>3. IsFiniteSet(DOMAIN blobs)
    BY <1>1, FS_Interval
<1>4. Orphans \subseteq DOMAIN blobs
    BY DEF Orphans
<1> QED BY <1>2, <1>3, <1>4, FS_Subset, FS_CardinalityType

LEMMA FreeNext ==
    ASSUME IInv', NEW w \in Workers, NEW j, \A v \in Workers : job'[v] = IF v = w THEN j ELSE Idle
    PROVE  Orphans' = Free(blobs', files', j)
<1>1. /\ \A v \in Workers : v # w => job'[v].path = 0 /\ job'[v].old = 0
      /\ 0 \notin DOMAIN blobs' /\ job'[w] = j
    <2>1. blobs' \in Seq({"stored", "deleted"})
        BY DEF IInv, TypeOK
    <2> QED BY <2>1, IdleHeld
<1> QED BY <1>1 DEF Orphans, Free

\* What a step of the only request must show: only a failure frees a blob.
LEMMA Write ==
    ASSUME IInv, IInv', Lone, NEW w \in Workers, Only(w), NEW j, job' = [job EXCEPT ![w] = j],
           Held(j, files', versions'), TablesOk(files', versions'), failures' \in Nat,
           NEW Q, Free(blobs', files', j) \subseteq Free(blobs, files, job[w]) \cup Q,
           \/ Q = {} /\ failures <= failures'
           \/ (\E q : Q = {q}) /\ failures' = failures + 1
    PROVE  Lone'
<1>1. \A v \in Workers : job'[v] = IF v = w THEN j ELSE Idle
    BY Facts DEF Only
<1>2. Alone'
    BY <1>1 DEF Alone
<1>3. \A v \in Workers : Held(job'[v], files', versions')
    BY <1>1, IdleHeld
<1>4. /\ IsFiniteSet(Orphans) /\ Cardinality(Orphans) \in Nat /\ Cardinality(Orphans) <= failures
      /\ Orphans' \subseteq Orphans \cup Q /\ failures \in Nat
    BY <1>1, FreeNow, FreeNext, Facts DEF Lone
<1>5. CASE Q = {} /\ failures <= failures'
    <2>1. Cardinality(Orphans') <= Cardinality(Orphans) /\ Cardinality(Orphans') \in Nat
        BY <1>4, <1>5, FS_Subset, FS_CardinalityType
    <2>2. Cardinality(Orphans') <= failures'
        BY <1>4, <1>5, <2>1
    <2> QED BY <1>2, <1>3, <2>2 DEF Lone
<1>6. ASSUME NEW q, Q = {q}, failures' = failures + 1 PROVE Lone'
    <2>1. /\ IsFiniteSet(Orphans \cup {q})
          /\ Cardinality(Orphans \cup {q}) \in {Cardinality(Orphans), Cardinality(Orphans) + 1}
        BY <1>4, FS_AddElement
    <2>2. /\ Cardinality(Orphans') <= Cardinality(Orphans \cup {q})
          /\ Cardinality(Orphans') \in Nat
        BY <1>4, <1>6, <2>1, FS_Subset, FS_CardinalityType
    <2>3. Cardinality(Orphans') <= failures'
        BY <1>4, <1>6, <2>1, <2>2
    <2> QED BY <1>2, <1>3, <2>3 DEF Lone
<1> QED BY <1>5, <1>6

\* A step that frees nothing.
LEMMA Keeps ==
    ASSUME IInv, IInv', Lone, NEW w \in Workers, Only(w), NEW j, job' = [job EXCEPT ![w] = j],
           Held(j, files', versions'), TablesOk(files', versions'), failures' = failures,
           Free(blobs', files', j) \subseteq Free(blobs, files, job[w])
    PROVE  Lone'
<1>1. failures' \in Nat /\ failures <= failures'
    BY Facts
<1>2. Free(blobs', files', j) \subseteq Free(blobs, files, job[w]) \cup {}
    OBVIOUS
<1> QED BY <1>1, <1>2, Write

LEMMA OnlyOne ==
    ASSUME Alone, NEW w \in Workers, job[w].pc # "idle" PROVE Only(w)
BY DEF Alone, Only, Idle

LEMMA Starts ==
    ASSUME IInv, NEW w \in Workers, NEW j, Begin(w, j), ~ overlapped'
    PROVE  Only(w) /\ job[w] = Idle /\ job' = [job EXCEPT ![w] = j]
BY DEF Begin, Only

\* A request begins when no other is under way.
LEMMA BeginsLone ==
    ASSUME IInv, IInv', Lone, ~ overlapped', NEW w \in Workers,
           \/ \E n \in Names : UploadBlob(w, n)
           \/ \E f \in DOMAIN files : DeleteFind(w, f) \/ ProxyFind(w, f) \/ ReportFind(w, f)
    PROVE  Lone'
<1>1. ASSUME NEW n \in Names, UploadBlob(w, n) PROVE Lone'
    <2> DEFINE p == Len(blobs) + 1
               j == [Idle EXCEPT !.pc = "find", !.name = n, !.path = p]
    <2>1. /\ Begin(w, j) /\ blobs' = Append(blobs, "stored")
          /\ UNCHANGED <<files, versions, failures>>
        BY <1>1 DEF UploadBlob
    <2>2. j.path = p /\ j.old = 0 /\ Held(j, files, versions)
        BY DEF Held, Idle, After
    <2>3. Only(w) /\ job[w] = Idle /\ job' = [job EXCEPT ![w] = j]
        BY <2>1, Starts
    <2> HIDE DEF j
    <2>4. /\ \A q \in DOMAIN blobs' : q # p => q \in DOMAIN blobs /\ blobs'[q] = blobs[q]
          /\ 0 \notin DOMAIN blobs
        BY <2>1, Facts
    <2>5. Free(blobs', files', j) \subseteq Free(blobs, files, job[w])
        BY <2>1, <2>2, <2>3, <2>4, IdleHeld DEF Free
    <2> QED BY <2>1, <2>2, <2>3, <2>5, Keeps DEF Lone
<1>2. ASSUME NEW f \in DOMAIN files, DeleteFind(w, f) PROVE Lone'
    <2> DEFINE p == files[f].path
               j == [Idle EXCEPT !.pc = "dropVersions", !.id = f, !.old = p]
    <2>1. /\ Begin(w, j) /\ UNCHANGED <<blobs, files, versions, failures>>
        BY <1>2 DEF DeleteFind
    <2>2. j.path = 0 /\ Held(j, files, versions)
        BY <1>2 DEF Held, Idle, After, DeleteFind, Live
    <2>3. Only(w) /\ job[w] = Idle /\ job' = [job EXCEPT ![w] = j]
        BY <2>1, Starts
    <2> HIDE DEF j
    <2>4. Free(blobs', files', j) \subseteq Free(blobs, files, job[w])
        <3>1. 0 \notin DOMAIN blobs
            BY Facts
        <3> QED BY <2>1, <2>2, <2>3, <3>1, IdleHeld DEF Free
    <2> QED BY <2>1, <2>2, <2>3, <2>4, Keeps DEF Lone
<1>3. ASSUME NEW f \in DOMAIN files, ProxyFind(w, f) \/ ReportFind(w, f) PROVE Lone'
    <2> DEFINE used == files[f].used
               j == [Idle EXCEPT !.pc = "consume", !.id = f, !.used = used]
    <2>1. /\ Begin(w, j) /\ UNCHANGED <<blobs, files, versions, failures>>
        BY <1>3 DEF ProxyFind, ReportFind
    <2>2. j.path = 0 /\ Held(j, files, versions)
        BY DEF Held, Idle, After
    <2>3. Only(w) /\ job[w] = Idle /\ job' = [job EXCEPT ![w] = j]
        BY <2>1, Starts
    <2> HIDE DEF j
    <2>4. Free(blobs', files', j) \subseteq Free(blobs, files, job[w])
        <3>1. 0 \notin DOMAIN blobs
            BY Facts
        <3> QED BY <2>1, <2>2, <2>3, <3>1, IdleHeld DEF Free
    <2> QED BY <2>1, <2>2, <2>3, <2>4, Keeps DEF Lone
<1> QED BY <1>1, <1>2, <1>3

\* The facts every step of a request starts from.
LEMMA AtWork ==
    ASSUME IInv, Lone, NEW w \in Workers, job[w].pc # "idle"
    PROVE  /\ Only(w) /\ job[w] \in Job /\ Held(job[w], files, versions)
           /\ TablesOk(files, versions) /\ 0 \notin DOMAIN blobs
           /\ job[w].pc \in Before => job[w].name \in Names
<1>1. Only(w)
    BY OnlyOne DEF Lone
<1> QED BY <1>1, Facts DEF Lone, Fresh

LEMMA NumsCount ==
    ASSUME NEW V, NEW f, Dense(V, f)
    PROVE  IsFiniteSet(Nums(V, f)) /\ Cardinality(Nums(V, f)) \in Nat
BY FS_CardinalityType DEF Dense

\* The steps that write no blob and no row.
LEMMA ReadsLone ==
    ASSUME IInv, IInv', Lone, NEW w \in Workers,
           UploadFound(w) \/ UploadNotFound(w) \/ UploadLast(w) \/ UploadLastFails(w)
    PROVE  Lone'
<1>1. /\ Only(w) /\ job[w] \in Job /\ Held(job[w], files, versions)
      /\ TablesOk(files, versions) /\ 0 \notin DOMAIN blobs
      /\ UNCHANGED <<blobs, files, versions>> /\ failures' \in Nat /\ failures <= failures'
    <2>1. failures' = failures \/ failures' = failures + 1
        BY DEF UploadFound, UploadNotFound, UploadLast, UploadLastFails
    <2>2. failures' \in Nat /\ failures <= failures'
        BY <2>1, Facts
    <2> QED BY <2>2, AtWork DEF UploadFound, UploadNotFound, UploadLast, UploadLastFails
<1>2. ASSUME NEW j, job' = [job EXCEPT ![w] = j], Held(j, files, versions),
             j.path = job[w].path, j.old = job[w].old \/ job[w].old = 0
      PROVE  Lone'
    <2>1. Free(blobs, files, j) \subseteq Free(blobs, files, job[w]) \cup {}
        BY <1>1, <1>2 DEF Free
    <2> QED BY <1>1, <1>2, <2>1, Write
<1>3. CASE UploadFound(w)
    <2>1. PICK f \in DOMAIN files :
            /\ Found(job[w].name, f)
            /\ job' = [job EXCEPT ![w].pc = "save", ![w].id = f, ![w].old = files[f].path,
                                  ![w].used = files[f].used]
        BY <1>3 DEF UploadFound
    <2> DEFINE p == files[f].path
               used == files[f].used
               j == [job[w] EXCEPT !.pc = "save", !.id = f, !.old = p, !.used = used]
    <2>2. job' = [job EXCEPT ![w] = j]
        BY <2>1, Facts
    <2>3. files[f].live /\ files[f].name = job[w].name /\ files[f].path = p
        BY <2>1 DEF Found, Matches
    <2> HIDE DEF p, used
    <2>4. Held(j, files, versions) /\ j.path = job[w].path /\ job[w].old = 0
        BY <1>1, <1>3, <2>3 DEF UploadFound, Held, Job, After
    <2> HIDE DEF j
    <2> QED BY <1>2, <2>2, <2>4
<1>4. CASE UploadNotFound(w)
    <2> DEFINE j == [job[w] EXCEPT !.pc = "create"]
    <2>1. job' = [job EXCEPT ![w] = j]
        BY <1>4, Facts DEF UploadNotFound, Goto
    <2>2. \A f \in DOMAIN files : files[f].live => files[f].name # job[w].name
        <3>1. OneRow(files) /\ \A f \in DOMAIN files : ~ Found(job[w].name, f)
            BY <1>1, <1>4 DEF TablesOk, UploadNotFound
        <3>2. ASSUME NEW f \in DOMAIN files, files[f].live, files[f].name = job[w].name
              PROVE  Found(job[w].name, f)
            <4>1. \A g \in Matches(job[w].name) : g = f
                BY <3>1, <3>2 DEF Matches, OneRow
            <4> QED BY <3>2, <4>1, Facts DEF Found, Matches
        <3> QED BY <3>1, <3>2
    <2>3. Held(j, files, versions) /\ j.path = job[w].path /\ j.old = job[w].old
        BY <1>1, <1>4, <2>2 DEF UploadNotFound, Held, Job, After
    <2> HIDE DEF j
    <2> QED BY <1>2, <2>1, <2>3
<1>5. CASE UploadLast(w)
    <2>1. PICK last \in Numbers(job[w].id) \cup {0} :
            /\ IsLast(job[w].id, last)
            /\ job' = [job EXCEPT ![w].pc = "version", ![w].version = last + 1]
        BY <1>5 DEF UploadLast
    <2> DEFINE n == last + 1
               j == [job[w] EXCEPT !.pc = "version", !.version = n]
    <2>2. job' = [job EXCEPT ![w] = j]
        BY <2>1, Facts
    <2>3. n = Cardinality(Nums(versions, job[w].id)) + 1
        <3>1. Dense(versions, job[w].id)
            BY <1>1, <1>5 DEF UploadLast, Held, After, TablesOk
        <3>2. Numbers(job[w].id) = Nums(versions, job[w].id)
            BY DEF Numbers, Nums, Of
        <3> DEFINE c == Cardinality(Nums(versions, job[w].id))
        <3>3. c \in Nat /\ Numbers(job[w].id) = 1..c
            BY <3>1, <3>2, NumsCount DEF Dense
        <3> HIDE DEF c
        <3>4. last \in (1..c) \cup {0} /\ \A k \in 1..c : k <= last
            BY <2>1, <3>3 DEF IsLast
        <3>5. last = c
            BY <3>3, <3>4
        <3> QED BY <3>5 DEF c
    <2> HIDE DEF n
    <2>4. Held(j, files, versions) /\ j.path = job[w].path /\ j.old = job[w].old
        BY <1>1, <1>5, <2>3 DEF UploadLast, Held, Job, After
    <2> HIDE DEF j
    <2> QED BY <1>2, <2>2, <2>4
<1>6. CASE UploadLastFails(w)
    <2> DEFINE j == [job[w] EXCEPT !.pc = "version", !.version = 1]
    <2>1. job' = [job EXCEPT ![w] = j]
        BY <1>6, Facts DEF UploadLastFails
    <2>2. Held(j, files, versions) /\ j.path = job[w].path /\ j.old = job[w].old
        BY <1>1, <1>6 DEF UploadLastFails, Held, Job, After
    <2> HIDE DEF j
    <2> QED BY <1>2, <2>1, <2>2
<1> QED BY <1>3, <1>4, <1>5, <1>6

-----------------------------------------------------------------------------
\* A version numbered after the last, or first again, keeps its file's numbers
\* without a gap and repeats none but the first; and every other file's.
LEMMA NextNumber ==
    ASSUME NEW V, NEW f, NEW g, NEW x, x.file = f,
           x.version \in {1, Cardinality(Nums(V, f)) + 1}, Dense(V, f), Dense(V, g)
    PROVE  Dense(V \cup {x}, g)
<1>1. CASE g # f
    <2>1. Of(V \cup {x}, g) = Of(V, g)
        BY <1>1 DEF Of
    <2> QED BY <2>1 DEF Dense, Nums
<1>2. CASE g = f
    <2> DEFINE c == Cardinality(Nums(V, f))
    <2>1. c \in Nat /\ IsFiniteSet(Of(V, f)) /\ Nums(V, f) = 1..c
        BY NumsCount DEF Dense
    <2>2. Of(V \cup {x}, f) = Of(V, f) \cup {x}
        BY DEF Of
    <2>3. IsFiniteSet(Of(V \cup {x}, f))
        <3>1. IsFiniteSet(Of(V, f) \cup {x})
            BY <2>1, FS_AddElement
        <3> QED BY <2>2, <3>1
    <2> HIDE DEF c
    <2>4. x.version \in {1, c + 1}
        BY DEF c
    <2>5. Nums(V \cup {x}, f) = Nums(V, f) \cup {x.version}
        BY <2>2 DEF Nums
    <2>6. \E d \in Nat : Nums(V \cup {x}, f) = 1..d
        <3>1. CASE x.version = c + 1
            <4>1. 1..(c + 1) = (1..c) \cup {c + 1}
                BY <2>1
            <4>2. Nums(V \cup {x}, f) = (1..c) \cup {c + 1}
                BY <2>1, <2>5, <3>1
            <4>3. c + 1 \in Nat
                BY <2>1
            <4> QED BY <4>1, <4>2, <4>3
        <3>2. CASE x.version = 1 /\ c # 0
            <4>1. Nums(V \cup {x}, f) = (1..c) \cup {1}
                BY <2>1, <2>5, <3>2
            <4>2. (1..c) \cup {1} = 1..c
                BY <2>1, <3>2
            <4> QED BY <2>1, <4>1, <4>2
        <3>3. x.version = c + 1 \/ (x.version = 1 /\ c # 0)
            BY <2>1, <2>4
        <3> QED BY <3>1, <3>2, <3>3
    <2>7. PICK d \in Nat : Nums(V \cup {x}, f) = 1..d
        BY <2>6
    <2>8. IsFiniteSet(Nums(V \cup {x}, f)) /\ Cardinality(Nums(V \cup {x}, f)) = d
        BY <2>7, FS_Interval
    <2>9. \A v \in Of(V, f) : v.version = x.version => v.version = 1
        <3>1. \A v \in Of(V, f) : v.version \in 1..c
            BY <2>1 DEF Nums
        <3> QED BY <2>1, <2>4, <3>1
    <2>10. \A v, y \in Of(V \cup {x}, f) : v.version = y.version /\ v # y => v.version = 1
        BY <2>2, <2>9 DEF Dense
    <2> QED BY <1>2, <2>3, <2>7, <2>8, <2>10 DEF Dense
<1> QED BY <1>1, <1>2

LEMMA NoneDense ==
    ASSUME NEW V, NEW f, Of(V, f) = {}
    PROVE  /\ Dense(V, f) /\ Cardinality(Nums(V, f)) = 0
           /\ Cardinality(Of(V, f)) = 0 /\ Nums(V, f) = {}
<1>1. Nums(V, f) = {} /\ IsFiniteSet(Of(V, f)) /\ Cardinality({}) = 0
    BY FS_EmptySet DEF Nums
<1> QED BY <1>1 DEF Dense

LEMMA VersionsLone ==
    ASSUME IInv, IInv', Lone, NEW w \in Workers,
           UploadVersion(w) \/ UploadFirst(w) \/ DropVersions(w)
    PROVE  Lone'
<1> DEFINE i == job[w].id
<1>1. /\ Only(w) /\ job[w] \in Job /\ Held(job[w], files, versions)
      /\ TablesOk(files, versions) /\ 0 \notin DOMAIN blobs
      /\ UNCHANGED <<blobs, files, failures>>
    BY AtWork DEF UploadVersion, UploadFirst, DropVersions
<1>2. i \in DOMAIN files /\ Dense(versions, i)
    BY <1>1 DEF UploadVersion, UploadFirst, DropVersions, Held, After, TablesOk
<1>3. ASSUME NEW x, versions' = versions \cup {x}, x.file = i,
             x.version \in {1, Cardinality(Nums(versions, i)) + 1}
      PROVE  TablesOk(files', versions')
    <2>1. \A g \in DOMAIN files : Dense(versions', g)
        BY <1>1, <1>2, <1>3, NextNumber DEF TablesOk
    <2> QED BY <1>1, <1>2, <1>3, <2>1 DEF TablesOk
<1>4. CASE UploadVersion(w)
    <2> DEFINE x == [file |-> i, version |-> job[w].version, path |-> job[w].path]
               j == [job[w] EXCEPT !.pc = "clean"]
    <2>1. versions' = versions \cup {x} /\ job' = [job EXCEPT ![w] = j]
        BY <1>4, Facts DEF UploadVersion, Goto
    <2>2. x.file = i /\ x.version \in {1, Cardinality(Nums(versions, i)) + 1}
        BY <1>1, <1>4 DEF UploadVersion, Held
    <2>3. /\ \A V : Held(j, files, V) /\ j.path = job[w].path /\ j.old = job[w].old
        BY <1>1, <1>4 DEF UploadVersion, Held, Job, After
    <2> HIDE DEF x, j
    <2>4. Free(blobs, files, j) \subseteq Free(blobs, files, job[w])
        BY <2>3 DEF Free
    <2> QED BY <1>1, <1>3, <2>1, <2>2, <2>3, <2>4, Keeps
<1>5. CASE UploadFirst(w)
    <2> DEFINE x == [file |-> i, version |-> 1, path |-> job[w].path]
    <2>1. versions' = versions \cup {x} /\ job' = [job EXCEPT ![w] = Idle]
        BY <1>5 DEF UploadFirst, End
    <2>2. Of(versions, i) = {} /\ files[i].live /\ files[i].path = job[w].path /\ job[w].old = 0
        BY <1>1, <1>5 DEF UploadFirst, Held
    <2>3. x.file = i /\ x.version = 1
        OBVIOUS
    <2> HIDE DEF x, i
    <2>4. Free(blobs, files, Idle) \subseteq Free(blobs, files, job[w])
        BY <1>1, <1>2, <2>2 DEF Free
    <2> QED BY <1>1, <1>3, <2>1, <2>3, <2>4, IdleHeld, Keeps
<1>6. CASE DropVersions(w)
    <2> DEFINE j == [job[w] EXCEPT !.pc = "dropRow"]
    <2>1. versions' = {v \in versions : v.file # i} /\ job' = [job EXCEPT ![w] = j]
        BY <1>6, Facts DEF DropVersions, Goto
    <2>2. /\ \A V : Held(j, files, V) /\ j.path = job[w].path /\ j.old = job[w].old
        BY <1>1, <1>6 DEF DropVersions, Held, Job, After
    <2> HIDE DEF j
    <2>3. Free(blobs, files, j) \subseteq Free(blobs, files, job[w])
        BY <2>2 DEF Free
    <2>4. ASSUME NEW g \in DOMAIN files PROVE Dense(versions', g)
        <3>1. CASE g = i
            <4>1. Of(versions', g) = {}
                BY <2>1, <3>1 DEF Of
            <4> QED BY <4>1, NoneDense
        <3>2. CASE g # i
            <4>1. Of(versions', g) = Of(versions, g) /\ Dense(versions, g)
                BY <1>1, <2>1, <3>2 DEF Of, TablesOk
            <4> QED BY <4>1 DEF Dense, Nums
        <3> QED BY <3>1, <3>2
    <2>5. TablesOk(files', versions')
        BY <1>1, <2>1, <2>4 DEF TablesOk
    <2> QED BY <1>1, <2>1, <2>2, <2>3, <2>5, Keeps
<1> QED BY <1>4, <1>5, <1>6

-----------------------------------------------------------------------------
LEMMA SaveLone ==
    ASSUME IInv, IInv', Lone, NEW w \in Workers, UploadSave(w)
    PROVE  Lone'
<1> DEFINE i == job[w].id
           p == job[w].path
           n == job[w].name
           j == [job[w] EXCEPT !.pc = "last"]
<1>1. /\ Only(w) /\ job[w] \in Job /\ Held(job[w], files, versions)
      /\ TablesOk(files, versions) /\ 0 \notin DOMAIN blobs
      /\ UNCHANGED <<blobs, versions, failures>> /\ job[w].pc = "save"
    BY AtWork DEF UploadSave
<1>2. PICK row : /\ files' = [files EXCEPT ![i] = row]
                 /\ row.name = n /\ row.path = p /\ row.live
    <2>1. PICK mode \in Modes(n), limit \in Limits :
            files' = [files EXCEPT ![i] =
                        [name |-> n, path |-> p, mode |-> mode, limit |-> limit,
                         used |-> KeptQuota(mode, job[w].used), live |-> TRUE]]
        BY DEF UploadSave
    <2> DEFINE row == [name |-> n, path |-> p, mode |-> mode, limit |-> limit,
                       used |-> KeptQuota(mode, job[w].used), live |-> TRUE]
    <2>2. files' = [files EXCEPT ![i] = row]
        BY <2>1
    <2>3. row.name = n /\ row.path = p /\ row.live
        OBVIOUS
    <2> HIDE DEF row
    <2> QED BY <2>2, <2>3
<1>3. job' = [job EXCEPT ![w] = j]
    BY Facts DEF UploadSave, Goto
<1>4. /\ i \in DOMAIN files /\ files[i].live /\ files[i].path = job[w].old
      /\ files[i].name = n
    BY <1>1 DEF Held
<1>5. /\ DOMAIN files' = DOMAIN files /\ files'[i] = row
      /\ \A f \in DOMAIN files : f # i => files'[f] = files[f]
    BY <1>2, <1>4, Facts
<1>6. Held(j, files', versions') /\ j.path = p /\ j.old = job[w].old
    BY <1>1, <1>2, <1>4, <1>5 DEF Held, Job, After
<1> HIDE DEF j, i, n, p
<1>7. TablesOk(files', versions')
    <2>1. OneRow(files')
        BY <1>1, <1>2, <1>4, <1>5 DEF TablesOk, OneRow
    <2> QED BY <1>1, <1>5, <2>1 DEF TablesOk
<1>8. Free(blobs', files', j) \subseteq Free(blobs, files, job[w])
    BY <1>1, <1>2, <1>4, <1>5, <1>6 DEF Free, p
<1> QED BY <1>1, <1>3, <1>6, <1>7, <1>8, Keeps

LEMMA CreateLone ==
    ASSUME IInv, IInv', Lone, NEW w \in Workers, UploadCreate(w)
    PROVE  Lone'
<1> DEFINE i == Len(files) + 1
           p == job[w].path
           n == job[w].name
           j == [job[w] EXCEPT !.pc = "first", !.id = i]
<1>1. /\ Only(w) /\ job[w] \in Job /\ Held(job[w], files, versions)
      /\ TablesOk(files, versions) /\ 0 \notin DOMAIN blobs
      /\ UNCHANGED <<blobs, versions, failures>> /\ job[w].pc = "create"
    BY AtWork DEF UploadCreate
<1>2. PICK row : /\ files' = Append(files, row)
                 /\ row.name = n /\ row.path = p /\ row.live
    BY DEF UploadCreate
<1>3. job' = [job EXCEPT ![w] = j]
    BY Facts DEF UploadCreate
<1>4. /\ DOMAIN files' = DOMAIN files \cup {i} /\ files'[i] = row /\ i \notin DOMAIN files
      /\ \A f \in DOMAIN files : files'[f] = files[f]
    BY <1>2, Facts
<1> HIDE DEF i
<1>5. Of(versions, i) = {}
    BY <1>1, <1>4 DEF TablesOk, Of
<1>6. Held(j, files', versions') /\ j.path = p /\ j.old = job[w].old
    BY <1>1, <1>2, <1>4, <1>5 DEF Held, Job, After
<1>7. \A f \in DOMAIN files : files[f].live => files[f].name # n
    BY <1>1 DEF Held
<1> HIDE DEF j, n, p
<1>8. TablesOk(files', versions')
    <2>1. OneRow(files')
        BY <1>1, <1>2, <1>4, <1>7 DEF TablesOk, OneRow
    <2>2. \A f \in DOMAIN files' : Dense(versions', f)
        BY <1>1, <1>4, <1>5, NoneDense DEF TablesOk
    <2> QED BY <1>1, <1>4, <2>1, <2>2 DEF TablesOk
<1>9. Free(blobs', files', j) \subseteq Free(blobs, files, job[w])
    BY <1>1, <1>4, <1>6 DEF Free, p
<1> QED BY <1>1, <1>3, <1>6, <1>8, <1>9, Keeps

LEMMA DropRowLone ==
    ASSUME IInv, IInv', Lone, NEW w \in Workers, DropRow(w)
    PROVE  Lone'
<1> DEFINE i == job[w].id
           row == [files[i] EXCEPT !.live = FALSE]
           j == [job[w] EXCEPT !.pc = "dropBlob"]
<1>1. /\ Only(w) /\ job[w] \in Job /\ Held(job[w], files, versions)
      /\ TablesOk(files, versions) /\ 0 \notin DOMAIN blobs
      /\ UNCHANGED <<blobs, versions, failures>> /\ job[w].pc = "dropRow"
    BY AtWork DEF DropRow
<1>2. i \in DOMAIN files /\ files[i] \in File /\ files[i].path = job[w].old
    BY <1>1, Facts DEF Held
<1>3. files' = [files EXCEPT ![i] = row] /\ job' = [job EXCEPT ![w] = j]
    BY Facts DEF DropRow, Goto
<1>4. ~ row.live /\ row.name = files[i].name /\ row.path = job[w].old
    BY <1>2 DEF File
<1> HIDE DEF row
<1>5. /\ DOMAIN files' = DOMAIN files /\ files'[i] = row
      /\ \A f \in DOMAIN files : f # i => files'[f] = files[f]
    BY <1>2, <1>3, Facts
<1>6. Held(j, files', versions') /\ j.path = job[w].path /\ j.old = job[w].old
    BY <1>1, <1>4, <1>5 DEF Held, Job, After
<1> HIDE DEF j, i
<1>7. TablesOk(files', versions')
    <2>1. OneRow(files')
        BY <1>1, <1>4, <1>5 DEF TablesOk, OneRow
    <2> QED BY <1>1, <1>5, <2>1 DEF TablesOk
<1>8. Free(blobs', files', j) \subseteq Free(blobs, files, job[w])
    BY <1>1, <1>2, <1>5, <1>6 DEF Free
<1> QED BY <1>1, <1>3, <1>6, <1>7, <1>8, Keeps

LEMMA ChargeLone ==
    ASSUME IInv, IInv', Lone, NEW w \in Workers, NEW u \in Units, Charge(w, u) \/ Refuse(w, u)
    PROVE  Lone'
<1> DEFINE i == job[w].id
<1>1. /\ Only(w) /\ job[w] \in Job /\ Held(job[w], files, versions)
      /\ TablesOk(files, versions) /\ 0 \notin DOMAIN blobs
      /\ UNCHANGED <<blobs, versions, failures>> /\ job[w].pc = "consume"
      /\ job' = [job EXCEPT ![w] = Idle]
    BY AtWork DEF Charge, Refuse, End
<1>2. job[w].path = 0 /\ job[w].old = 0
    BY <1>1 DEF Held
<1>3. /\ DOMAIN files' = DOMAIN files
      /\ \A f \in DOMAIN files : /\ files'[f].live = files[f].live /\ files'[f].path = files[f].path
                                 /\ files'[f].name = files[f].name
    <2>1. CASE Charge(w, u)
        <3>1. i \in DOMAIN files
            BY <2>1 DEF Charge, Fits, Card, Live
        <3> QED BY <2>1, <3>1, Facts DEF Charge, File
    <2>2. CASE Refuse(w, u)
        BY <2>2 DEF Refuse
    <2> QED BY <2>1, <2>2
<1>4. TablesOk(files', versions')
    BY <1>1, <1>3 DEF TablesOk, OneRow
<1>5. Free(blobs', files', Idle) \subseteq Free(blobs, files, job[w])
    BY <1>1, <1>2, <1>3 DEF Free
<1> QED BY <1>1, <1>4, <1>5, IdleHeld, Keeps

-----------------------------------------------------------------------------
\* The request's own blob is in its row, and the one it removes is in none.
LEMMA RemoveLone ==
    ASSUME IInv, IInv', Lone, NEW w \in Workers, UploadClean(w) \/ DropBlob(w)
    PROVE  Lone'
<1>1. /\ Only(w) /\ job[w] \in Job /\ Held(job[w], files, versions)
      /\ TablesOk(files, versions) /\ 0 \notin DOMAIN blobs
      /\ UNCHANGED <<files, versions, failures>> /\ job[w].pc \in {"clean", "dropBlob"}
      /\ job' = [job EXCEPT ![w] = Idle] /\ blobs' = [blobs EXCEPT ![job[w].old] = "deleted"]
    BY AtWork DEF UploadClean, DropBlob, End, Removed, OldPath
<1>2. \/ job[w].path = 0
      \/ \E f \in DOMAIN files : files[f].live /\ files[f].path = job[w].path
    BY <1>1 DEF Held, After
<1>3. Free(blobs', files', Idle) \subseteq Free(blobs, files, job[w])
    <2>1. /\ DOMAIN blobs' = DOMAIN blobs
          /\ \A p \in DOMAIN blobs' : blobs'[p] = "stored" => p # job[w].old /\ blobs[p] = "stored"
        BY <1>1, Facts
    <2> QED BY <1>1, <1>2, <2>1 DEF Free
<1> QED BY <1>1, <1>3, IdleHeld, Keeps

\* A request that fails lets go of its upload's blob or of the one it was to
\* remove: the other is still in the row.
LEMMA FailLone ==
    ASSUME IInv, IInv', Lone, NEW w \in Workers, Fail(w)
    PROVE  Lone'
<1>1. Only(w)
    BY DEF Lone, Alone, Only, Fail
<1>2. /\ Held(job[w], files, versions) /\ TablesOk(files, versions) /\ 0 \notin DOMAIN blobs
      /\ UNCHANGED <<blobs, files, versions>> /\ failures' = failures + 1
      /\ job' = [job EXCEPT ![w] = Idle] /\ job[w] \in Job
    BY Facts DEF Lone, Fail, End
<1> DEFINE q == IF job[w].old = 0 \/ job[w].pc = "save" THEN job[w].path ELSE job[w].old
<1>3. \A p \in DOMAIN blobs :
        p \in {job[w].path, job[w].old} /\ p # q =>
          \E f \in DOMAIN files : files[f].live /\ files[f].path = p
    BY <1>2 DEF Held, After, Job
<1> HIDE DEF q
<1>4. Free(blobs', files', Idle) \subseteq Free(blobs, files, job[w]) \cup {q}
    BY <1>2, <1>3 DEF Free
<1>5. failures' \in Nat
    BY <1>2, Facts
<1> QED BY <1>1, <1>2, <1>4, <1>5, IdleHeld, Write

LEMMA LoneInit == Init => LoneInv
<1> SUFFICES ASSUME Init PROVE Lone
    BY InitInv DEF LoneInv
<1>1. \A w \in Workers : job[w] = Idle
    BY DEF Init
<1>2. DOMAIN files = {} /\ versions = {} /\ DOMAIN blobs = {} /\ failures = 0
    BY DEF Init
<1>3. Orphans = {}
    BY <1>2 DEF Orphans
<1>4. Cardinality(Orphans) <= failures
    BY <1>2, <1>3, FS_EmptySet
<1> QED BY <1>1, <1>2, <1>4, IdleHeld DEF Lone, Alone, TablesOk, OneRow

LEMMA LoneStep == LoneInv /\ [Next]_vars => LoneInv'
<1> SUFFICES ASSUME LoneInv, [Next]_vars, ~ overlapped' PROVE Lone'
    BY NextInv DEF LoneInv
<1>1. ~ overlapped
    BY DEF Next, vars, UploadBlob, DeleteFind, ProxyFind, ReportFind, Begin, UploadFound,
           UploadNotFound, UploadSave, UploadLast, UploadLastFails, UploadVersion,
           UploadClean, UploadCreate, UploadFirst, DropVersions, DropRow, DropBlob, Charge, Refuse, Fail
<1>2. IInv /\ IInv' /\ Lone
    BY <1>1, NextInv DEF LoneInv
<1>3. CASE UNCHANGED vars
    BY <1>2, <1>3 DEF vars, Lone, Alone, Orphans
<1> QED BY <1>2, <1>3, BeginsLone, ReadsLone, VersionsLone, SaveLone, CreateLone, DropRowLone,
           ChargeLone, RemoveLone, FailLone DEF Next

-----------------------------------------------------------------------------
(***************************************************************************)
(* Repeated numbers.  While requests come one by one each repeats at most  *)
(* one number, after a failed query for the last: the one that is about to *)
(* (Spare) has had its failure counted and not yet its row.                *)
(***************************************************************************)
Spare(j, V, f) == j.pc = "version" /\ j.id = f /\ j.version # Cardinality(Nums(V, f)) + 1

Few(f) ==
    /\ Cardinality(Of(versions, f)) <= Cardinality(Nums(versions, f)) + failures
    /\ \A w \in Workers : Spare(job[w], versions, f) =>
         Cardinality(Of(versions, f)) < Cardinality(Nums(versions, f)) + failures

RepeatInv == LoneInv /\ (~ overlapped => \A f \in DOMAIN files : Few(f))

LEMMA Counts ==
    ASSUME LoneInv, ~ overlapped, NEW f \in DOMAIN files
    PROVE  /\ IsFiniteSet(Of(versions, f)) /\ Cardinality(Of(versions, f)) \in Nat
           /\ IsFiniteSet(Nums(versions, f)) /\ Cardinality(Nums(versions, f)) \in Nat
           /\ failures \in Nat
<1>1. Dense(versions, f) /\ IsFiniteSet(Of(versions, f))
    BY DEF LoneInv, Lone, TablesOk, Dense
<1> QED BY <1>1, NumsCount, FS_CardinalityType, Facts DEF LoneInv

\* A step that writes no version: only a failed query takes up a number again.
LEMMA FewKept ==
    ASSUME LoneInv, ~ overlapped, NEW f \in DOMAIN files, Few(f), versions' = versions,
           failures' \in Nat,
           \/ /\ failures <= failures'
              /\ \A w \in Workers : Spare(job'[w], versions, f) => Spare(job[w], versions, f)
           \/ failures < failures'
    PROVE  Few(f)'
<1> DEFINE a == Cardinality(Of(versions, f))
           b == Cardinality(Nums(versions, f))
<1>1. a \in Nat /\ b \in Nat /\ failures \in Nat
    BY Counts
<1>2. Of(versions', f) = Of(versions, f) /\ Nums(versions', f) = Nums(versions, f)
    BY DEF Of, Nums
<1>3. a <= b + failures /\ \A w \in Workers : Spare(job[w], versions, f) => a < b + failures
    BY DEF Few
<1>4. \A w \in Workers : Spare(job'[w], versions', f) = Spare(job'[w], versions, f)
    BY <1>2 DEF Spare
<1> HIDE DEF a, b
<1>5. a <= b + failures' /\ \A w \in Workers : Spare(job'[w], versions', f) => a < b + failures'
    BY <1>1, <1>3, <1>4
<1> QED BY <1>2, <1>5 DEF Few, a, b

\* With no version and a job that inserts none a file repeats nothing.
LEMMA FewOfNone ==
    ASSUME NEW f, Of(versions', f) = {}, failures' \in Nat,
           \A w \in Workers : ~ Spare(job'[w], versions', f)
    PROVE  Few(f)'
BY NoneDense DEF Few

LEMMA FewAfterVersion ==
    ASSUME LoneInv, LoneInv', ~ overlapped, ~ overlapped', NEW w \in Workers,
           UploadVersion(w), NEW f \in DOMAIN files, Few(f)
    PROVE  Few(f)'
<1> DEFINE x == [file |-> job[w].id, version |-> job[w].version, path |-> job[w].path]
<1>1. /\ versions' = versions \cup {x} /\ job' = [job EXCEPT ![w].pc = "clean"]
      /\ UNCHANGED <<files, failures>> /\ job[w].pc = "version"
    BY DEF UploadVersion, Goto
<1>2. \A v \in Workers : job'[v].pc # "version"
    <2>1. Only(w)
        BY <1>1, OnlyOne DEF LoneInv, Lone
    <2> QED BY <1>1, <2>1, Facts, IdleTyped DEF Only, Idle, Job, LoneInv
<1>3. x.file = job[w].id /\ x.version = job[w].version
    OBVIOUS
<1> HIDE DEF x
<1> DEFINE a == Cardinality(Of(versions, f))
           b == Cardinality(Nums(versions, f))
           c == Cardinality(Of(versions', f))
           d == Cardinality(Nums(versions', f))
<1>4. /\ a \in Nat /\ b \in Nat /\ c \in Nat /\ d \in Nat /\ failures \in Nat
      /\ IsFiniteSet(Nums(versions, f)) /\ IsFiniteSet(Of(versions, f))
      /\ IsFiniteSet(Nums(versions', f))
    <2>1. Dense(versions', f)
        BY <1>1 DEF LoneInv, Lone, TablesOk
    <2>2. c \in Nat /\ d \in Nat /\ IsFiniteSet(Nums(versions', f))
        BY <2>1, NumsCount, FS_CardinalityType DEF Dense
    <2> QED BY <2>2, Counts
<1>5. c <= d + failures
    <2>1. CASE job[w].id # f
        <3>1. Of(versions', f) = Of(versions, f) /\ Nums(versions', f) = Nums(versions, f)
            BY <1>1, <1>3, <2>1 DEF Of, Nums
        <3> QED BY <1>4, <3>1 DEF Few
    <2>2. CASE job[w].id = f
        <3>1. Of(versions', f) = Of(versions, f) \cup {x}
            BY <1>1, <1>3, <2>2 DEF Of
        <3>2. Nums(versions', f) = Nums(versions, f) \cup {x.version}
            BY <3>1 DEF Nums
        <3>3. c <= a + 1
            <4>1. Cardinality(Of(versions, f) \cup {x}) \in {a, a + 1}
                BY <1>4, FS_AddElement
            <4> QED BY <1>4, <3>1, <4>1
        <3>4. b <= d
            <4>1. Nums(versions, f) \subseteq Nums(versions', f)
                BY <3>2
            <4> QED BY <1>4, <4>1, FS_Subset
        <3>5. CASE x.version = b + 1
            <4>1. x.version \notin Nums(versions, f)
                <5>1. Nums(versions, f) = 1..b
                    BY DEF LoneInv, Lone, TablesOk, Dense
                <5> QED BY <1>4, <3>5, <5>1
            <4>2. d = b + 1
                <5>1. Cardinality(Nums(versions, f) \cup {x.version}) = b + 1
                    BY <1>4, <4>1, FS_AddElement
                <5> QED BY <3>2, <5>1
            <4> QED BY <1>4, <3>3, <4>2 DEF Few
        <3>6. CASE x.version # b + 1
            <4>1. Spare(job[w], versions, f)
                BY <1>1, <1>3, <2>2, <3>6 DEF Spare
            <4> QED BY <1>4, <3>3, <3>4, <4>1 DEF Few
        <3> QED BY <3>5, <3>6
    <2> QED BY <2>1, <2>2
<1> QED BY <1>1, <1>2, <1>5 DEF Few, Spare

LEMMA RepeatStep == RepeatInv /\ [Next]_vars => RepeatInv'
<1> SUFFICES ASSUME RepeatInv, [Next]_vars, ~ overlapped', NEW f \in DOMAIN files' PROVE Few(f)'
    BY LoneStep DEF RepeatInv
<1>1. ~ overlapped
    BY DEF Next, vars, UploadBlob, DeleteFind, ProxyFind, ReportFind, Begin, UploadFound,
           UploadNotFound, UploadSave, UploadLast, UploadLastFails, UploadVersion,
           UploadClean, UploadCreate, UploadFirst, DropVersions, DropRow, DropBlob,
           Charge, Refuse, Fail
<1>2. /\ LoneInv /\ LoneInv' /\ IInv /\ IInv' /\ Lone /\ Lone'
      /\ \A g \in DOMAIN files : Few(g)
    BY <1>1, LoneStep DEF RepeatInv, LoneInv
<1>3. CASE UNCHANGED vars
    BY <1>2, <1>3 DEF vars, Few, Spare
<1>4. ASSUME UNCHANGED versions, DOMAIN files' = DOMAIN files,
             failures' = failures \/ failures' = failures + 1,
             \A v \in Workers : job'[v] = job[v] \/ job'[v].pc # "version"
      PROVE  Few(f)'
    <2>1. \A v \in Workers : Spare(job'[v], versions, f) => Spare(job[v], versions, f)
        BY <1>4 DEF Spare
    <2>2. failures' \in Nat /\ failures <= failures'
        BY <1>2, <1>4, Facts
    <2> QED BY <1>1, <1>2, <1>4, <2>1, <2>2, FewKept
<1>5. ASSUME NEW w \in Workers,
             \/ \E n \in Names : UploadBlob(w, n)
             \/ \E g \in DOMAIN files : DeleteFind(w, g) \/ ProxyFind(w, g) \/ ReportFind(w, g)
      PROVE  Few(f)'
    <2>1. \A v \in Workers : job'[v] = job[v] \/ job'[v].pc # "version"
        BY <1>2, <1>5, Facts DEF UploadBlob, DeleteFind, ProxyFind, ReportFind, Begin, Idle
    <2> QED BY <1>4, <1>5, <2>1 DEF UploadBlob, DeleteFind, ProxyFind, ReportFind
<1>6. ASSUME NEW w \in Workers,
             \/ UploadClean(w) \/ DropBlob(w) \/ Fail(w)
             \/ \E u \in Units : Charge(w, u) \/ Refuse(w, u)
      PROVE  Few(f)'
    <2>1. DOMAIN files' = DOMAIN files
        BY <1>6 DEF UploadClean, DropBlob, Fail, Charge, Refuse
    <2>2. \A v \in Workers : job'[v] = job[v] \/ job'[v].pc # "version"
        <3>1. job' = [job EXCEPT ![w] = Idle]
            BY <1>6 DEF UploadClean, DropBlob, Fail, Charge, Refuse, End
        <3> QED BY <1>2, <3>1, Facts DEF Idle
    <2> QED BY <1>4, <1>6, <2>1, <2>2 DEF UploadClean, DropBlob, Fail, Charge, Refuse
<1>7. ASSUME NEW w \in Workers, UploadFound(w) \/ UploadNotFound(w) \/ UploadSave(w) \/ DropRow(w)
      PROVE  Few(f)'
    <2>1. UNCHANGED <<versions, failures>> /\ DOMAIN files' = DOMAIN files
        BY <1>7 DEF UploadFound, UploadNotFound, UploadSave, DropRow
    <2>2. \A v \in Workers : v # w => job'[v] = job[v]
        BY <1>2, <1>7, Facts DEF UploadFound, UploadNotFound, UploadSave, DropRow, Goto
    <2>3. CASE UploadFound(w)
        <3>1. job'[w].pc = "save"
            BY <1>2, <2>3, Facts DEF UploadFound, Job
        <3> QED BY <1>4, <2>1, <2>2, <3>1
    <2>4. CASE UploadNotFound(w) \/ UploadSave(w) \/ DropRow(w)
        <3>1. job'[w].pc \in {"create", "last", "dropBlob"}
            BY <1>2, <2>4, Facts DEF UploadNotFound, UploadSave, DropRow, Goto, Job
        <3> QED BY <1>4, <2>1, <2>2, <3>1
    <2> QED BY <1>7, <2>3, <2>4
<1>8. ASSUME NEW w \in Workers, UploadLast(w) PROVE Few(f)'
    <2>1. PICK last \in Numbers(job[w].id) \cup {0} :
            /\ IsLast(job[w].id, last)
            /\ job' = [job EXCEPT ![w].pc = "version", ![w].version = last + 1]
        BY <1>8 DEF UploadLast
    <2>2. /\ UNCHANGED <<files, versions, failures>> /\ job[w].pc = "last"
          /\ job'[w].id = job[w].id /\ job'[w].version = last + 1
          /\ \A v \in Workers : v # w => job'[v] = job[v]
        BY <1>2, <1>8, <2>1, Facts DEF UploadLast, Job
    <2>3. ~ Spare(job'[w], versions, f)
        <3> SUFFICES ASSUME job[w].id = f PROVE last = Cardinality(Nums(versions, f))
            BY <2>2 DEF Spare
        <3> DEFINE c == Cardinality(Nums(versions, f))
        <3>1. c \in Nat /\ Nums(versions, f) = 1..c
            BY <1>1, <1>2, <2>2, Counts DEF Lone, TablesOk, Dense
        <3>2. Numbers(f) = Nums(versions, f)
            BY DEF Numbers, Nums, Of
        <3> HIDE DEF c
        <3>3. last \in (1..c) \cup {0} /\ \A k \in 1..c : k <= last
            BY <2>1, <3>1, <3>2 DEF IsLast
        <3>4. last = c
            BY <3>1, <3>3
        <3> QED BY <3>4 DEF c
    <2>4. \A v \in Workers : Spare(job'[v], versions, f) => Spare(job[v], versions, f)
        BY <2>2, <2>3
    <2>5. failures' \in Nat /\ failures <= failures'
        BY <1>2, <2>2, Facts
    <2> QED BY <1>1, <1>2, <2>2, <2>4, <2>5, FewKept
<1>9. ASSUME NEW w \in Workers, UploadLastFails(w) PROVE Few(f)'
    <2>1. /\ UNCHANGED <<files, versions>> /\ failures' \in Nat /\ failures < failures'
        BY <1>2, <1>9, Facts DEF UploadLastFails
    <2> QED BY <1>1, <1>2, <2>1, FewKept
<1>10. ASSUME NEW w \in Workers, UploadVersion(w) PROVE Few(f)'
    BY <1>1, <1>2, <1>10, FewAfterVersion DEF UploadVersion
<1>11. ASSUME NEW w \in Workers, DropVersions(w) PROVE Few(f)'
    <2>1. /\ versions' = {v \in versions : v.file # job[w].id} /\ files' = files
          /\ failures' = failures /\ job' = [job EXCEPT ![w].pc = "dropRow"]
          /\ job[w].pc = "dropVersions"
        BY <1>11 DEF DropVersions, Goto
    <2>2. Only(w)
        BY <1>2, <2>1, OnlyOne DEF Lone
    <2>3. \A v \in Workers : job'[v].pc # "version"
        BY <1>2, <2>1, <2>2, Facts DEF Only, Idle, Job
    <2>4. CASE job[w].id = f
        <3>1. Of(versions', f) = {}
            BY <2>1, <2>4 DEF Of
        <3> QED BY <1>2, <2>1, <2>3, <3>1, FewOfNone, Facts DEF Spare
    <2>5. CASE job[w].id # f
        <3>1. Of(versions', f) = Of(versions, f) /\ Nums(versions', f) = Nums(versions, f)
            BY <2>1, <2>5 DEF Of, Nums
        <3> QED BY <1>2, <2>1, <2>3, <3>1 DEF Few, Spare
    <2> QED BY <2>4, <2>5
<1>12. ASSUME NEW w \in Workers, UploadFirst(w) PROVE Few(f)'
    <2> DEFINE x == [file |-> job[w].id, version |-> 1, path |-> job[w].path]
    <2>1. /\ versions' = versions \cup {x} /\ files' = files /\ failures' = failures
          /\ job' = [job EXCEPT ![w] = Idle] /\ job[w].pc = "first"
        BY <1>12 DEF UploadFirst, End
    <2>2. x.file = job[w].id /\ x.version = 1
        OBVIOUS
    <2> HIDE DEF x
    <2>3. Only(w) /\ Of(versions, job[w].id) = {}
        BY <1>2, <2>1, OnlyOne DEF Lone, Held
    <2>4. \A v \in Workers : job'[v].pc # "version"
        BY <1>2, <2>1, <2>3, Facts DEF Only, Idle
    <2>5. CASE job[w].id = f
        <3>1. Of(versions', f) = {x} /\ Nums(versions', f) = {1}
            <4>1. Of(versions', f) = {x}
                BY <2>1, <2>2, <2>3, <2>5 DEF Of
            <4> QED BY <2>2, <4>1 DEF Nums
        <3>2. Cardinality({x}) = 1 /\ Cardinality({1}) = 1
            BY FS_Singleton
        <3>3. failures' \in Nat
            BY <1>2, <2>1, Facts
        <3> QED BY <2>4, <3>1, <3>2, <3>3 DEF Few, Spare
    <2>6. CASE job[w].id # f
        <3>1. Of(versions', f) = Of(versions, f) /\ Nums(versions', f) = Nums(versions, f)
            BY <2>1, <2>2, <2>6 DEF Of, Nums
        <3> QED BY <1>2, <2>1, <2>4, <3>1 DEF Few, Spare
    <2> QED BY <2>5, <2>6
<1>13. ASSUME NEW w \in Workers, UploadCreate(w) PROVE Few(f)'
    <2>1. /\ UNCHANGED <<versions, failures>> /\ DOMAIN files' = DOMAIN files \cup {Len(files) + 1}
          /\ \A v \in Workers : job'[v] = job[v] \/ job'[v].pc # "version"
        BY <1>2, <1>13, Facts DEF UploadCreate, Job
    <2>2. \A v \in Workers : Spare(job'[v], versions, f) => Spare(job[v], versions, f)
        BY <2>1 DEF Spare
    <2>3. failures' \in Nat /\ failures <= failures'
        BY <1>2, <2>1, Facts
    <2>4. CASE f \in DOMAIN files
        BY <1>1, <1>2, <2>1, <2>2, <2>3, <2>4, FewKept
    <2>5. CASE f \notin DOMAIN files
        <3>1. Of(versions', f) = {}
            BY <1>2, <2>1, <2>5 DEF Lone, TablesOk, Of
        <3>2. \A v \in Workers : ~ Spare(job'[v], versions', f)
            <4>1. \A v \in Workers : job[v].pc = "version" => job[v].id \in DOMAIN files
                BY <1>2 DEF Lone, Held, After
            <4> QED BY <2>1, <2>5, <4>1 DEF Spare
        <3> QED BY <2>3, <3>1, <3>2, FewOfNone
    <2> QED BY <2>4, <2>5
<1> QED BY <1>3, <1>5, <1>6, <1>7, <1>8, <1>9, <1>10, <1>11, <1>12, <1>13 DEF Next

\* Until two requests overlap a name has one row, and a file's versions are
\* numbered 1, 2, ... without a gap, for any number of uploads and deletes and
\* wherever they failed; a number is given again only where a query for the
\* last one failed, and then it is 1.
THEOREM HistoryIsKept == Spec => []HistoryKept
<1>1. RepeatInv => HistoryKept
    <2> SUFFICES ASSUME Lone, \A f \in DOMAIN files : Few(f), RepeatInv, ~ overlapped
                 PROVE  HistoryKept
        BY DEF RepeatInv, LoneInv, HistoryKept
    <2>1. \A f : Numbers(f) = Nums(versions, f) /\ VersionsOf(f) = Of(versions, f)
        BY DEF Numbers, Nums, Of, VersionsOf
    <2> QED BY <2>1 DEF Lone, TablesOk, OneRow, Dense, Few, HistoryKept
<1>2. Init => RepeatInv
    BY LoneInit DEF RepeatInv, Init
<1> QED BY <1>1, <1>2, RepeatStep, PTL DEF Spec

\* Unless two requests overlap there are no more orphaned blobs than failed
\* requests: each step of an upload or a delete leaves one blob at most that
\* only the request knows of.
THEOREM OrphansCounted == Spec => []OrphansAreFailures
<1>1. LoneInv => OrphansAreFailures
    BY DEF LoneInv, Lone, OrphansAreFailures
<1> QED BY <1>1, LoneInit, LoneStep, PTL DEF Spec

=============================================================================
