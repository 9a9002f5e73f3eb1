----------------------------- MODULE AuthFiles -----------------------------
(***************************************************************************)
(* Credential files, their versions and encrypted blobs, and the quota of  *)
(* the shared ones: internal/services/auth_file_service.go,                *)
(* internal/storage/storage.go and the quota card handlers.                *)
(*                                                                         *)
(* An upload or a delete writes a blob, a row and a version row one after  *)
(* the other, with no transaction around them: each is one action.  Only   *)
(* the consumption of a quota locks the row it changes.                    *)
(*                                                                         *)
(* A storage path is its index in blobs, a file's id its index in files.   *)
(***************************************************************************)
EXTENDS Integers, Sequences, FiniteSets

CONSTANTS
    Names,          \* a file's owner and name: what an upload looks a row up by
    Shared,         \* those owned by the shared pool
    Workers,        \* goroutines that serve requests at the same time
    Limits,         \* quota limits an upload may set; 0 is no limit
    Units,          \* what a call may consume
    MaxBlobs,       \* bound: blobs ever written
    MaxUsed,        \* bound: units consumed from one card
    MaxFailures     \* bound: failed requests and queries

ASSUME SharedAssumption == Shared \subseteq Names
ASSUME QuotaAssumption == Limits \subseteq Nat /\ Units \subseteq Nat \ {0}
ASSUME FilesAssumption == {MaxBlobs, MaxUsed, MaxFailures} \subseteq Nat

VARIABLES
    blobs,      \* the files below the storage root: stored or deleted
    files,      \* auth_files; live is FALSE once a row is deleted
    versions,   \* auth_file_versions
    ledger,     \* history: for each file, the units charged since it was last
                \* made a plain file, and since its last upload; and whether
                \* its quota is exact: no charge raced an upload
    job,        \* what each worker is doing, and its copy of what it read
    overlapped, \* history: two requests have been served at the same time
    failures

vars == <<blobs, files, versions, ledger, job, overlapped, failures>>

None == "none"
ModesRaw(n) == {"plain", "quota_card", "other"}         \* mutant: the form's value as it is
Modes(n) == IF n \in Shared THEN {"plain", "quota_card"} ELSE {"plain"}

File == [name : Names, path : Nat, mode : {"plain", "quota_card"}, limit : Nat,
         used : Nat, live : BOOLEAN]

Entry == [charged : Nat, since : Nat, exact : BOOLEAN]
NoCharge == [charged |-> 0, since |-> 0, exact |-> TRUE]

\* name, path: of an upload; id, old, used: the row that was read, its path
\* and its quota; version: the number the upload will insert.
Job == [pc : {"idle", "find", "create", "first", "save", "last", "version", "clean",
              "dropVersions", "dropRow", "dropBlob", "consume"},
        name : Names \cup {None}, path : Nat, id : Nat, old : Nat, used : Nat, version : Nat]

Idle == [pc |-> "idle", name |-> None, path |-> 0, id |-> 0, old |-> 0, used |-> 0,
         version |-> 0]

Begin(w, j) ==
    /\ job[w] = Idle /\ job' = [job EXCEPT ![w] = j]
    /\ overlapped' = IF \E v \in Workers : job[v] # Idle THEN TRUE ELSE overlapped
Goto(w, pc) == job' = [job EXCEPT ![w].pc = pc]
End(w) == job' = [job EXCEPT ![w] = Idle]

Live(f) == f \in DOMAIN files /\ files[f].live

\* The live row an upload finds: First orders by id.
Matches(n) == {f \in DOMAIN files : files[f].live /\ files[f].name = n}
Found(n, f) == f \in Matches(n) /\ \A g \in Matches(n) : f <= g

Numbers(f) == {v.version : v \in {x \in versions : x.file = f}}
IsLast0(f, n) ==                                        \* mutant: the order is ascending
    n \in Numbers(f) \cup {0} /\ \A k \in Numbers(f) : 0 < n /\ n <= k
IsLast(f, n) ==                                         \* 0: there is none
    n \in Numbers(f) \cup {0} /\ \A k \in Numbers(f) : k <= n

\* A quota card forgets nothing when its file is replaced; a plain file has none.
KeptQuota(mode, used) == IF mode = "quota_card" THEN used ELSE 0

Init ==
    /\ blobs = <<>> /\ files = <<>> /\ ledger = <<>> /\ versions = {}
    /\ job = [w \in Workers |-> Idle]
    /\ overlapped = FALSE /\ failures = 0

-----------------------------------------------------------------------------
(* uploadBytes *)

\* The content goes to a path of its own before the database is asked.
UploadBlob(w, n) ==
    /\ Len(blobs) < MaxBlobs
    /\ Begin(w, [Idle EXCEPT !.pc = "find", !.name = n, !.path = Len(blobs) + 1])
    /\ blobs' = Append(blobs, "stored")
    /\ UNCHANGED <<files, versions, ledger, failures>>

UploadFound(w) ==
    /\ job[w].pc = "find"
    /\ \E f \in DOMAIN files :
        /\ Found(job[w].name, f)
        /\ job' = [job EXCEPT ![w].pc = "save", ![w].id = f, ![w].old = files[f].path,
                              ![w].used = files[f].used]
    /\ UNCHANGED <<blobs, files, versions, ledger, failures, overlapped>>

UploadNotFound(w) ==
    /\ job[w].pc = "find"
    /\ ~ \E f \in DOMAIN files : Found(job[w].name, f)
    /\ Goto(w, "create")
    /\ UNCHANGED <<blobs, files, versions, ledger, failures, overlapped>>

\* An upload that has read the row and is to save it, its quota included.
Replacing(f) == {w \in Workers : job[w].pc = "save" /\ job[w].id = f}

\* Save writes the whole row, and inserts it again if it has been deleted.
UploadSave(w) ==
    LET j == job[w]
    IN /\ j.pc = "save"
       /\ \E mode \in Modes(j.name), limit \in Limits :
            LET used == KeptQuota(mode, j.used) entry == ledger[j.id]
            IN /\ files' = [files EXCEPT ![j.id] =
                              [name |-> j.name, path |-> j.path, mode |-> mode,
                               limit |-> limit, used |-> used, live |-> TRUE]]
               /\ ledger' = [ledger EXCEPT ![j.id] =
                    IF mode = "quota_card" THEN [entry EXCEPT !.since = 0]
                    ELSE [NoCharge EXCEPT !.exact = (Replacing(j.id) = {w})]]
       /\ Goto(w, "last")
       /\ UNCHANGED <<blobs, versions, failures, overlapped>>

UploadLast(w) ==
    /\ job[w].pc = "last"
    /\ \E last \in Numbers(job[w].id) \cup {0} :
        /\ IsLast(job[w].id, last)
        /\ job' = [job EXCEPT ![w].pc = "version", ![w].version = last + 1]
    /\ UNCHANGED <<blobs, files, versions, ledger, failures, overlapped>>

\* Any error of that query counts as no version, and the upload goes on.
UploadLastFails(w) ==
    /\ job[w].pc = "last" /\ failures < MaxFailures
    /\ job' = [job EXCEPT ![w].pc = "version", ![w].version = 1]
    /\ failures' = failures + 1
    /\ UNCHANGED <<blobs, files, versions, ledger, overlapped>>

UploadVersion(w) ==
    /\ job[w].pc = "version"
    /\ versions' = versions \cup
         {[file |-> job[w].id, version |-> job[w].version, path |-> job[w].path]}
    /\ Goto(w, "clean")
    /\ UNCHANGED <<blobs, files, ledger, failures, overlapped>>

\* The blob of the row that was read is removed.
Removed0(path) == blobs                                 \* mutant: nothing is removed
Removed(path) == [blobs EXCEPT ![path] = "deleted"]

OldPath0(w) == job[w].path                              \* mutant: read after the assignment
OldPath(w) == job[w].old

UploadClean(w) ==
    /\ job[w].pc = "clean"
    /\ blobs' = Removed(OldPath(w))
    /\ End(w)
    /\ UNCHANGED <<files, versions, ledger, failures, overlapped>>

UploadCreate(w) ==
    LET j == job[w]
    IN /\ j.pc = "create"
       /\ \E mode \in Modes(j.name), limit \in Limits :
            files' = Append(files, [name |-> j.name, path |-> j.path, mode |-> mode,
                                    limit |-> limit, used |-> 0, live |-> TRUE])
       /\ ledger' = Append(ledger, NoCharge)
       /\ job' = [job EXCEPT ![w].pc = "first", ![w].id = Len(files) + 1]
       /\ UNCHANGED <<blobs, versions, failures, overlapped>>

UploadFirst(w) ==
    /\ job[w].pc = "first"
    /\ versions' = versions \cup {[file |-> job[w].id, version |-> 1, path |-> job[w].path]}
    /\ End(w)
    /\ UNCHANGED <<blobs, files, ledger, failures, overlapped>>

-----------------------------------------------------------------------------
(* deleteAuthFile; a request that deletes every file does this for each *)

DeleteFind(w, f) ==
    /\ Live(f)
    /\ Begin(w, [Idle EXCEPT !.pc = "dropVersions", !.id = f, !.old = files[f].path])
    /\ UNCHANGED <<blobs, files, versions, ledger, failures>>

DropVersions(w) ==
    /\ job[w].pc = "dropVersions"
    /\ versions' = {v \in versions : v.file # job[w].id}
    /\ Goto(w, "dropRow")
    /\ UNCHANGED <<blobs, files, ledger, failures, overlapped>>

DropRow(w) ==
    /\ job[w].pc = "dropRow"
    /\ files' = [files EXCEPT ![job[w].id].live = FALSE]
    /\ Goto(w, "dropBlob")
    /\ UNCHANGED <<blobs, versions, ledger, failures, overlapped>>

DropBlob(w) ==
    /\ job[w].pc = "dropBlob"
    /\ blobs' = Removed(job[w].old)
    /\ End(w)
    /\ UNCHANGED <<files, versions, ledger, failures, overlapped>>

-----------------------------------------------------------------------------
(* Quota cards *)

Card(f) == Live(f) /\ files[f].mode = "quota_card"

\* The proxy refuses a card that is used up, reads its blob and calls the
\* provider; a report only presents the token of the card.  Both charge the
\* row as it is after that, by its id.
ProxyFind(w, f) ==
    /\ Card(f) /\ (files[f].limit > 0 => files[f].used < files[f].limit)
    /\ blobs[files[f].path] = "stored"
    /\ Begin(w, [Idle EXCEPT !.pc = "consume", !.id = f, !.used = files[f].used])
    /\ UNCHANGED <<blobs, files, versions, ledger, failures>>

ReportFind(w, f) ==
    /\ Card(f)
    /\ Begin(w, [Idle EXCEPT !.pc = "consume", !.id = f, !.used = files[f].used])
    /\ UNCHANGED <<blobs, files, versions, ledger, failures>>

\* ConsumeQuotaCard reads the row again, under its lock.
UsedStale(w) == job[w].used                             \* mutant: charges the copy
UsedNow(w) == files[job[w].id].used
Fits(w, u) ==
    /\ Card(job[w].id)
    /\ files[job[w].id].limit > 0 => UsedNow(w) + u <= files[job[w].id].limit

Charge(w, u) ==
    /\ job[w].pc = "consume" /\ Fits(w, u)
    /\ UsedNow(w) + u <= MaxUsed
    /\ files' = [files EXCEPT ![job[w].id].used = UsedNow(w) + u]
    /\ ledger' = [ledger EXCEPT ![job[w].id] =
         [charged |-> @.charged + u, since |-> @.since + u,
          exact |-> @.exact /\ Replacing(job[w].id) = {}]]
    /\ End(w)
    /\ UNCHANGED <<blobs, versions, failures, overlapped>>

Refuse(w, u) ==
    /\ job[w].pc = "consume" /\ ~ Fits(w, u)
    /\ End(w)
    /\ UNCHANGED <<blobs, files, versions, ledger, failures, overlapped>>

-----------------------------------------------------------------------------
\* A request ends where it stands: an error, or a crash.
Fail(w) ==
    /\ job[w] # Idle /\ failures < MaxFailures
    /\ End(w) /\ failures' = failures + 1
    /\ UNCHANGED <<blobs, files, versions, ledger, overlapped>>

Next ==
    \E w \in Workers :
        \/ \E n \in Names : UploadBlob(w, n)
        \/ \E f \in DOMAIN files : DeleteFind(w, f) \/ ProxyFind(w, f) \/ ReportFind(w, f)
        \/ UploadFound(w) \/ UploadNotFound(w) \/ UploadSave(w) \/ UploadLast(w)
        \/ UploadLastFails(w) \/ UploadVersion(w) \/ UploadClean(w) \/ UploadCreate(w) \/ UploadFirst(w)
        \/ DropVersions(w) \/ DropRow(w) \/ DropBlob(w)
        \/ \E u \in Units : Charge(w, u) \/ Refuse(w, u)
        \/ Fail(w)

Spec == Init /\ [][Next]_vars

-----------------------------------------------------------------------------
\* Every variable has its type.
TypeOK ==
    /\ blobs \in Seq({"stored", "deleted"})
    /\ files \in Seq(File)
    /\ \A v \in versions : v.file \in Nat /\ v.version \in Nat /\ v.path \in Nat
    /\ ledger \in Seq(Entry) /\ Len(ledger) = Len(files)
    /\ job \in [Workers -> Job]
    /\ overlapped \in BOOLEAN /\ failures \in Nat

\* A row that can be read has its blob, though uploads and deletes of one
\* file overlap, remove each other's blobs and fail between their writes.
NoDanglingRow ==
    \A f \in DOMAIN files : files[f].live =>
        files[f].path \in DOMAIN blobs /\ blobs[files[f].path] = "stored"

\* However many proxies and reports charge a card at once (the locked read of
\* ConsumeQuotaCard), its quota is the sum of all they charged: an upload of
\* the card forgets none of it, unless the charge was committed after that
\* upload had read the row and before it saved it.  And no charge takes the
\* card over the limit that its last upload set.
QuotaKept ==
    \A f \in DOMAIN files :
        /\ ledger[f].exact => files[f].used = ledger[f].charged
        /\ ledger[f].since > 0 /\ files[f].limit > 0 => files[f].used <= files[f].limit

\* Until two requests overlap, an upload replaces the row of its name and
\* numbers its version after the last, whichever requests failed before it:
\* the numbers have no gap, and a number is given twice only by an upload
\* whose query for the last one failed, which starts at 1 again.
VersionsOf(f) == {v \in versions : v.file = f}
HistoryKept ==
    ~ overlapped =>
        /\ \A f, g \in DOMAIN files :
             files[f].live /\ files[g].live /\ files[f].name = files[g].name => f = g
        /\ \A f \in DOMAIN files :
             /\ Numbers(f) = 1..Cardinality(Numbers(f))
             /\ \A v, x \in VersionsOf(f) : v.version = x.version /\ v # x => v.version = 1
             /\ Cardinality(VersionsOf(f)) <= Cardinality(Numbers(f)) + failures

\* Until two requests overlap, each failed request leaves at most one blob
\* that no row points to, and nothing else leaves any.
Orphans ==
    {p \in DOMAIN blobs :
        /\ blobs[p] = "stored"
        /\ \A f \in DOMAIN files : files[f].live => files[f].path # p
        /\ \A w \in Workers : p # job[w].path /\ p # job[w].old}
OrphansAreFailures == ~ overlapped => Cardinality(Orphans) <= failures

\* What docs/cpcloud-database-design.md says of auth_file_versions: the
\* history is there to roll back to.  It is violated: an upload removes the
\* blob of the version before it.
VersionsRestorable ==
    \A v \in versions : Live(v.file) => blobs[v.path] = "stored"

=============================================================================
