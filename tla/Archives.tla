------------------------------ MODULE Archives ------------------------------
(***************************************************************************)
(* A zip archive of credentials (internal/services/auth_file_service.go:   *)
(* UploadMany, extractAuthJSONFilesFromZip): its entries are read in order *)
(* and numbered apart when they have the same name, and then uploaded one  *)
(* by one, each in place of a file of its name.  AuthFiles models one such *)
(* upload.                                                                 *)
(*                                                                         *)
(* A name is a stem, in one of two spellings, and the numbers that follow  *)
(* it: "a-2.json" is the stem a with the number 2, be it that the entry    *)
(* was named so or that the loop numbered it.  The loop tells spellings    *)
(* apart; the database, created with utf8mb4_unicode_ci (README.md), finds *)
(* a row by its name in any letter case, and with or without accents.      *)
(***************************************************************************)
EXTENDS Integers, Sequences, FiniteSets

CONSTANTS
    Stems,
    MaxEntries      \* bound: entries of an archive

ASSUME ArchiveAssumption == MaxEntries \in Nat

\* Names that entries have, directory and other extensions dropped.
EntryNames == [stem : Stems, capital : BOOLEAN, numbers : {<<>>, <<2>>}]

\* A name as the database compares it.
Collate(name) == [name EXCEPT !.capital = FALSE]

VARIABLES
    reading,    \* the loop that reads still runs
    entries,    \* names of the valid entries read so far
    names,      \* the name each is to be uploaded as
    uploads,    \* how many were tried, and which ones succeeded
    stored,     \* the pool: names as the database compares them, and the
                \* entry whose content each has
    refused     \* entries that are not JSON, too large or unreadable, and
                \* uploads that failed

archiveVars == <<reading, entries, names, uploads, stored, refused>>

ArchiveInit ==
    /\ reading = TRUE /\ entries = <<>> /\ names = <<>>
    /\ uploads = [tried |-> 0, done |-> {}] /\ stored = {} /\ refused = 0

\* seenNames counts the entries of each name as it was read.
\* (mutant: as it is uploaded)
Seen0(name) == Cardinality({i \in DOMAIN names : names[i] = name})
Seen(name) == Cardinality({i \in DOMAIN entries : entries[i] = name})

\* The second entry of a name is number 2.
UploadName(name) ==
    IF Seen(name) = 0 THEN name
    ELSE [name EXCEPT !.numbers = Append(@, Seen(name) + 1)]

ReadEntry(name) ==
    /\ reading /\ Len(entries) + refused < MaxEntries
    /\ names' = Append(names, UploadName(name))
    /\ entries' = Append(entries, name)
    /\ UNCHANGED <<reading, uploads, stored, refused>>

SkipEntry ==
    /\ reading /\ Len(entries) + refused < MaxEntries
    /\ refused' = refused + 1
    /\ UNCHANGED <<reading, entries, names, uploads, stored>>

ArchiveRead ==
    /\ reading /\ reading' = FALSE
    /\ UNCHANGED <<entries, names, uploads, stored, refused>>

\* uploadBytes creates the file of that name or replaces its content.
UploadEntry ==
    LET i == uploads.tried + 1 name == Collate(names[i])
    IN /\ ~ reading /\ i <= Len(entries)
       /\ uploads' = [tried |-> i, done |-> uploads.done \cup {i}]
       /\ stored' = {f \in stored : f.name # name} \cup {[name |-> name, entry |-> i]}
       /\ UNCHANGED <<reading, entries, names, refused>>

\* An upload that fails is reported, and the next entry is tried.
EntryFails ==
    /\ ~ reading /\ uploads.tried < Len(entries)
    /\ uploads' = [uploads EXCEPT !.tried = @ + 1]
    /\ refused' = refused + 1
    /\ UNCHANGED <<reading, entries, names, stored>>

ArchiveNext ==
    \/ \E name \in EntryNames : ReadEntry(name)
    \/ SkipEntry \/ ArchiveRead \/ UploadEntry \/ EntryFails

ArchiveSpec == ArchiveInit /\ [][ArchiveNext]_archiveVars

-----------------------------------------------------------------------------
\* A credential that is reported as uploaded is in the pool, whichever
\* uploads fail, but in two cases: the archive has an entry of the same name
\* in another spelling, which the loop does not number and the database does
\* not tell apart; or one that is named like a number the loop gives.
EntriesKeptApart ==
    \A i \in uploads.done :
        \/ [name |-> Collate(names[i]), entry |-> i] \in stored
        \/ \E k \in DOMAIN entries :
            \/ entries[k] # entries[i] /\ Collate(entries[k]) = Collate(entries[i])
            \/ entries[k].numbers # <<>> /\ Collate(entries[k]) = Collate(names[i])

=============================================================================
