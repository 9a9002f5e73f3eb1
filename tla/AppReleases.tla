---------------------------- MODULE AppReleases -----------------------------
(***************************************************************************)
(* Uploads of desktop packages: internal/services/app_release_service.go   *)
(* and its handler.  An upload saves the package, reads latest.json,       *)
(* changes its copy and writes it back.  A write truncates the file and    *)
(* then fills it, in place, while the router serves both files to anybody. *)
(*                                                                         *)
(* A package is its platform (what detectReleasePlatform finds in the      *)
(* file's name) and a build (the rest of the name).  Nothing is deleted.   *)
(***************************************************************************)
EXTENDS Integers

CONSTANTS
    Builds, Versions, Texts,    \* package names, versions, release notes
    None,                       \* no build, no version, the empty note
    Uploaders,                  \* goroutines that serve an upload at the same time
    MaxUploads,                 \* bound: uploads of each package
    MaxCuts                     \* bound: uploads that fail or die half-way

ASSUME NoneAssumption == None \notin Builds \cup Versions \cup Texts
ASSUME ReleaseBounds == MaxUploads \in Nat /\ MaxCuts \in Nat

Platforms == {"windows", "macos"}
Package == [platform : Platforms, build : Builds]
Manifest == [version : Versions \cup {None}, notes : Texts \cup {None},
             downloads : [Platforms -> Builds \cup {None}]]
NoManifest == [version |-> None, notes |-> None, downloads |-> [p \in Platforms |-> None]]

\* A file after its truncation is empty; what two writes leave, or one that
\* is cut short, may be torn.
Files == {"absent", "empty", "torn", "whole"}

VARIABLES
    packages,       \* the state of each package's file
    latest,         \* the state of latest.json
    manifest,       \* what latest.json held when it was whole for the last time
    upload,         \* what each uploader is doing, and its copy of the manifest
    begun,          \* history: uploads of each package
    published,      \* history: the manifest that uploads one by one would give
    overlapped,     \* history: an upload began while another was served
    spoiled,        \* history: packages whose last upload was cut short, or
                    \* began while another wrote the same file
    cuts

releaseVars == <<packages, latest, manifest, upload, begun, published, overlapped, spoiled, cuts>>

Upload == [pc : {"idle", "package", "load", "manifest", "write"}, package : Package,
           version : Versions, notes : Texts \cup {None}, copy : Manifest]
Resting == [pc |-> "idle"]

ReleaseInit ==
    /\ packages = [k \in Package |-> "absent"]
    /\ latest = "absent" /\ manifest = NoManifest /\ published = NoManifest
    /\ upload = [w \in Uploaders |-> Resting]
    /\ begun = [k \in Package |-> 0]
    /\ overlapped = FALSE /\ spoiled = {} /\ cuts = 0

Goes(w, pc) == upload' = [upload EXCEPT ![w].pc = pc]
Rests(w) == upload' = [upload EXCEPT ![w] = Resting]

\* os.WriteFile's two effects: the truncation, and the content at offset 0,
\* which replaces the whole file unless somebody has written it meanwhile.
Filled(state) == IF state = "empty" THEN {"whole"} ELSE {"whole", "torn"}

\* What a write that is cut short leaves: nothing of it, or a part.
Part(state) == {state, "torn"}

\* The manifest that an upload makes of the one it read: one version and one
\* note for all platforms, and its own platform's entry.
WithUpload(m, u) ==
    [version |-> u.version, notes |-> IF u.notes = None THEN m.notes ELSE u.notes,
     downloads |-> [m.downloads EXCEPT ![u.package.platform] = u.package.build]]

\* What the upload is to add to what was published before it.
Published(u) ==
    [version |-> u.version, notes |-> IF u.notes = None THEN published.notes ELSE u.notes,
     downloads |-> [p \in Platforms |-> IF p = u.package.platform THEN u.package.build
                                        ELSE published.downloads[p]]]

-----------------------------------------------------------------------------
IsWritten(k) == \E w \in Uploaders : upload[w].pc = "package" /\ upload[w].package = k

\* Upload: the package's file is opened and truncated ...
Begins(w, k, version, notes) ==
    /\ upload[w] = Resting /\ begun[k] < MaxUploads
    /\ upload' = [upload EXCEPT ![w] = [pc |-> "package", package |-> k, version |-> version,
                                        notes |-> notes, copy |-> NoManifest]]
    /\ packages' = [packages EXCEPT ![k] = "empty"]
    /\ begun' = [begun EXCEPT ![k] = @ + 1]
    /\ overlapped' = (overlapped \/ \E v \in Uploaders : upload[v] # Resting)
    /\ spoiled' = IF IsWritten(k) THEN spoiled \cup {k} ELSE spoiled \ {k}
    /\ UNCHANGED <<latest, manifest, published, cuts>>

\* ... and filled.
SavePackage(w) ==
    /\ upload[w].pc = "package"
    /\ \E state \in Filled(packages[upload[w].package]) :
        packages' = [packages EXCEPT ![upload[w].package] = state]
    /\ Goes(w, "load")
    /\ UNCHANGED <<latest, manifest, begun, published, overlapped, spoiled, cuts>>

\* loadManifest: no file is an empty manifest; one that does not parse is an
\* error, and the upload ends there.
Readable0 == TRUE                                   \* mutant: starts anew on an error
Readable == latest \in {"absent", "whole"}
ReadManifest == IF latest = "whole" THEN manifest ELSE NoManifest

LoadManifest(w) ==
    /\ upload[w].pc = "load" /\ Readable
    /\ upload' = [upload EXCEPT ![w].pc = "manifest", ![w].copy = ReadManifest]
    /\ UNCHANGED <<packages, latest, manifest, begun, published, overlapped, spoiled, cuts>>

LoadFails(w) ==
    /\ upload[w].pc = "load" /\ ~ Readable
    /\ Rests(w)
    /\ UNCHANGED <<packages, latest, manifest, begun, published, overlapped, spoiled, cuts>>

\* writeManifest, in place as well: latest.json is truncated ...
OpenManifest(w) ==
    /\ upload[w].pc = "manifest"
    /\ latest' = "empty"
    /\ Goes(w, "write")
    /\ UNCHANGED <<packages, manifest, begun, published, overlapped, spoiled, cuts>>

\* ... and filled.
WriteManifest(w) ==
    /\ upload[w].pc = "write"
    /\ latest' \in Filled(latest)
    /\ manifest' = IF latest' = "whole" THEN WithUpload(upload[w].copy, upload[w]) ELSE manifest
    /\ published' = Published(upload[w])
    /\ Rests(w)
    /\ UNCHANGED <<packages, begun, overlapped, spoiled, cuts>>

\* A write fails half-way, or the process dies in it: the file stays as the
\* write left it, and the upload ends.  (mutant: the error is ignored)
Ends0(w) == IF upload[w].pc = "package" THEN Goes(w, "load") ELSE Rests(w)
Ends(w) == Rests(w)

CutPackage(w) ==
    /\ upload[w].pc = "package" /\ cuts < MaxCuts
    /\ \E state \in Part(packages[upload[w].package]) :
        packages' = [packages EXCEPT ![upload[w].package] = state]
    /\ Ends(w) /\ cuts' = cuts + 1 /\ spoiled' = spoiled \cup {upload[w].package}
    /\ UNCHANGED <<latest, manifest, begun, published, overlapped>>

CutManifest(w) ==
    /\ upload[w].pc = "write" /\ cuts < MaxCuts
    /\ latest' \in Part(latest)
    /\ Rests(w) /\ cuts' = cuts + 1
    /\ UNCHANGED <<packages, manifest, begun, published, overlapped, spoiled>>

\* It fails or dies between two writes.
CutBetween(w) ==
    /\ upload[w].pc \in {"load", "manifest"} /\ cuts < MaxCuts
    /\ Rests(w) /\ cuts' = cuts + 1
    /\ UNCHANGED <<packages, latest, manifest, begun, published, overlapped, spoiled>>

ReleaseNext ==
    \E w \in Uploaders :
        \/ \E k \in Package, version \in Versions, notes \in Texts \cup {None} :
            Begins(w, k, version, notes)
        \/ SavePackage(w) \/ LoadManifest(w) \/ LoadFails(w)
        \/ OpenManifest(w) \/ WriteManifest(w)
        \/ CutPackage(w) \/ CutManifest(w) \/ CutBetween(w)

ReleaseSpec == ReleaseInit /\ [][ReleaseNext]_releaseVars

-----------------------------------------------------------------------------
\* Every file is in one of its states and holds what its type allows.
ReleaseTypeOK ==
    /\ packages \in [Package -> Files] /\ latest \in Files
    /\ manifest \in Manifest /\ published \in Manifest
    /\ upload \in [Uploaders -> Upload \cup {Resting}]
    /\ begun \in [Package -> Nat] /\ overlapped \in BOOLEAN /\ spoiled \subseteq Package
    /\ cuts \in Nat

\* What latest.json offers for download is there: Upload writes the manifest
\* last, and gives up when the package was not written.  It is the whole
\* package but while a later upload of the same name is writing it, and after
\* one that was cut short or ran beside another: the file is overwritten in
\* place and offered all the while.  The next upload of it alone mends it.
OfferedIsWhole ==
    \A p \in Platforms :
        LET k == [platform |-> p, build |-> manifest.downloads[p]]
        IN manifest.downloads[p] # None =>
            /\ packages[k] # "absent"
            /\ packages[k] # "whole" => begun[k] > 1 /\ (IsWritten(k) \/ k \in spoiled)

\* The README's "preserve the other platform download entry": until two
\* uploads overlap, latest.json is what the uploads that went through make of
\* it, one after the other, or it is unreadable; a failed or interrupted
\* upload never makes a later one start from nothing.
EntriesPreserved ==
    ~ overlapped /\ latest = "whole" => manifest = published

=============================================================================
