------------------------- MODULE AppReleases_proofs -------------------------
(***************************************************************************)
(* What holds of AppReleases for any number of uploads, packages and       *)
(* goroutines.                                                             *)
(***************************************************************************)
EXTENDS AppReleases, TLAPS

-----------------------------------------------------------------------------
(***************************************************************************)
(* The inductive invariant.  A package is settled once it may be offered;  *)
(* an upload that still writes its package is the only one of it, unless   *)
(* the package was begun twice.  Until uploads overlap only one of them is *)
(* under way, and the copy it has read is what was published.              *)
(***************************************************************************)
Settled(pk, bg, k) == pk[k] # "absent" /\ (pk[k] = "whole" \/ bg[k] > 1)

EntriesSettled(pk, bg, m) ==
    \A p \in Platforms :
        m.downloads[p] # None => Settled(pk, bg, [platform |-> p, build |-> m.downloads[p]])

Writing(pk, bg, k) == pk[k] # "absent" /\ (pk[k] = "empty" \/ bg[k] > 1)

UploadOK(pk, bg, u) ==
    /\ u.pc = "package" => Writing(pk, bg, u.package)
    /\ u.pc \in {"load", "manifest", "write"} => Settled(pk, bg, u.package)
    /\ u.pc \in {"manifest", "write"} => EntriesSettled(pk, bg, u.copy)

Apart(bg, u, v) ==
    u.pc = "package" /\ v.pc = "package" /\ u.package = v.package => bg[u.package] > 1

PackagesInv ==
    /\ \A k \in Package : packages[k] # "absent" => begun[k] >= 1
    /\ \A w \in Uploaders : UploadOK(packages, begun, upload[w])
    /\ \A w, v \in Uploaders : w # v => Apart(begun, upload[w], upload[v])
    /\ EntriesSettled(packages, begun, manifest)

AloneInv ==
    ~ overlapped =>
        /\ \A w, v \in Uploaders : w # v => upload[w] = Resting \/ upload[v] = Resting
        /\ \A w \in Uploaders : upload[w].pc \in {"manifest", "write"} => upload[w].copy = published
        /\ latest = "whole" => manifest = published
        /\ latest = "absent" => published = NoManifest

\* A file is whole unless it is written or spoiled; one that is not spoiled
\* has one writer, which finds it empty.
SpoilInv ==
    /\ \A k \in Package \ spoiled : packages[k] \in {"absent", "whole"} \/ IsWritten(k)
    /\ \A w \in Uploaders : upload[w].pc = "package" /\ upload[w].package \notin spoiled =>
        packages[upload[w].package] = "empty"
    /\ \A w, v \in Uploaders :
        w # v /\ upload[w].pc = "package" /\ upload[v].pc = "package"
            /\ upload[w].package = upload[v].package => upload[w].package \in spoiled

RInv == ReleaseTypeOK /\ PackagesInv /\ AloneInv /\ SpoilInv

LEMMA Typed ==
    ASSUME ReleaseTypeOK
    PROVE  /\ \A w \in Uploaders : upload[w] \in Upload \cup {Resting}
           /\ \A w \in Uploaders : upload[w].pc # "idle" => upload[w] \in Upload
           /\ \A k \in Package : packages[k] \in Files /\ begun[k] \in Nat
           /\ upload \in [Uploaders -> Upload \cup {Resting}]
BY DEF ReleaseTypeOK, Resting

LEMMA NoManifestTyped == NoManifest \in Manifest
BY DEF NoManifest, Manifest

LEMMA InitRInv == ReleaseInit => RInv
<1> SUFFICES ASSUME ReleaseInit PROVE RInv
    OBVIOUS
<1>1. ReleaseTypeOK
    BY NoManifestTyped DEF ReleaseInit, ReleaseTypeOK, Files
<1>2. PackagesInv
    BY DEF ReleaseInit, PackagesInv, UploadOK, Apart, EntriesSettled, Resting, NoManifest
<1>3. AloneInv
    BY DEF ReleaseInit, AloneInv, Resting
<1>4. SpoilInv
    BY DEF ReleaseInit, SpoilInv, Resting
<1> QED BY <1>1, <1>2, <1>3, <1>4 DEF RInv

-----------------------------------------------------------------------------
\* Each state of an upload that an action writes is one of its type.
LEMMA UploadTyped ==
    ASSUME NEW u \in Upload
    PROVE  /\ \A pc \in {"package", "load", "manifest", "write"} : [u EXCEPT !.pc = pc] \in Upload
           /\ \A m \in Manifest : [u EXCEPT !.pc = "manifest", !.copy = m] \in Upload
BY DEF Upload

LEMMA WithUploadTyped ==
    ASSUME NEW u \in Upload, NEW m \in Manifest
    PROVE  WithUpload(m, u) \in Manifest
<1>1. u.package.platform \in Platforms /\ u.package.build \in Builds /\ u.version \in Versions
      /\ u.notes \in Texts \cup {None}
    BY DEF Upload, Package
<1>2. m.downloads \in [Platforms -> Builds \cup {None}] /\ m.notes \in Texts \cup {None}
    BY DEF Manifest
<1>3. [m.downloads EXCEPT ![u.package.platform] = u.package.build] \in [Platforms -> Builds \cup {None}]
    BY <1>1, <1>2
<1> QED BY <1>1, <1>2, <1>3 DEF WithUpload, Manifest

LEMMA PublishedTyped ==
    ASSUME ReleaseTypeOK, NEW u \in Upload
    PROVE  Published(u) \in Manifest /\ Published(u) = WithUpload(published, u)
<1>1. published \in Manifest
    BY DEF ReleaseTypeOK
<1>2. [p \in Platforms |-> IF p = u.package.platform THEN u.package.build
                          ELSE published.downloads[p]]
      = [published.downloads EXCEPT ![u.package.platform] = u.package.build]
    BY <1>1 DEF Manifest
<1>3. Published(u) = WithUpload(published, u)
    BY <1>2 DEF Published, WithUpload
<1> QED BY <1>1, <1>3, WithUploadTyped

LEMMA NextTyped == ReleaseTypeOK /\ [ReleaseNext]_releaseVars => ReleaseTypeOK'
<1> SUFFICES ASSUME ReleaseTypeOK, [ReleaseNext]_releaseVars PROVE ReleaseTypeOK'
    OBVIOUS
<1> USE Typed
<1>1. CASE UNCHANGED releaseVars
    BY <1>1 DEF releaseVars, ReleaseTypeOK
<1>2. ASSUME NEW w \in Uploaders, NEW k \in Package, NEW version \in Versions,
             NEW notes \in Texts \cup {None}, Begins(w, k, version, notes)
      PROVE  ReleaseTypeOK'
    <2> DEFINE u == [pc |-> "package", package |-> k, version |-> version, notes |-> notes,
                     copy |-> NoManifest]
    <2>1. u \in Upload
        BY NoManifestTyped DEF Upload
    <2>2. upload' \in [Uploaders -> Upload \cup {Resting}]
        BY <1>2, <2>1 DEF Begins
    <2>3. /\ packages' \in [Package -> Files] /\ begun' \in [Package -> Nat] /\ overlapped' \in BOOLEAN
          /\ spoiled' \subseteq Package
        BY <1>2 DEF Begins, ReleaseTypeOK, Files
    <2> QED BY <1>2, <2>2, <2>3 DEF Begins, ReleaseTypeOK
<1>3. ASSUME NEW w \in Uploaders, SavePackage(w) PROVE ReleaseTypeOK'
    <2>1. upload' \in [Uploaders -> Upload \cup {Resting}]
        BY <1>3, UploadTyped DEF SavePackage, Goes
    <2>2. packages' \in [Package -> Files]
        BY <1>3 DEF SavePackage, ReleaseTypeOK, Files, Filled
    <2> QED BY <1>3, <2>1, <2>2 DEF SavePackage, ReleaseTypeOK
<1>4. ASSUME NEW w \in Uploaders, LoadManifest(w) PROVE ReleaseTypeOK'
    <2>1. ReadManifest \in Manifest /\ upload[w] \in Upload
        BY <1>4, NoManifestTyped DEF ReleaseTypeOK, ReadManifest, LoadManifest
    <2>2. upload' = [upload EXCEPT ![w] = [upload[w] EXCEPT !.pc = "manifest", !.copy = ReadManifest]]
        BY <1>4 DEF LoadManifest
    <2>3. upload' \in [Uploaders -> Upload \cup {Resting}]
        BY <2>1, <2>2, UploadTyped
    <2> QED BY <1>4, <2>3 DEF LoadManifest, ReleaseTypeOK
<1>5. ASSUME NEW w \in Uploaders, OpenManifest(w) PROVE ReleaseTypeOK'
    <2>1. upload' \in [Uploaders -> Upload \cup {Resting}]
        BY <1>5, UploadTyped DEF OpenManifest, Goes
    <2> QED BY <1>5, <2>1 DEF OpenManifest, ReleaseTypeOK, Files
<1>6. ASSUME NEW w \in Uploaders, WriteManifest(w) PROVE ReleaseTypeOK'
    <2>1. upload[w] \in Upload /\ upload[w].copy \in Manifest
        BY <1>6 DEF WriteManifest, Upload
    <2>2. WithUpload(upload[w].copy, upload[w]) \in Manifest
        BY <2>1, WithUploadTyped
    <2>3. Published(upload[w]) \in Manifest
        BY <2>1, PublishedTyped
    <2>4. upload' \in [Uploaders -> Upload \cup {Resting}]
        BY <1>6 DEF WriteManifest, Rests
    <2>5. latest' \in Files
        BY <1>6 DEF WriteManifest, Filled, Files
    <2> QED BY <1>6, <2>2, <2>3, <2>4, <2>5 DEF WriteManifest, ReleaseTypeOK
<1>7. ASSUME NEW w \in Uploaders, LoadFails(w) \/ CutPackage(w) \/ CutManifest(w) \/ CutBetween(w)
      PROVE  ReleaseTypeOK'
    <2>1. upload' \in [Uploaders -> Upload \cup {Resting}]
        BY <1>7 DEF LoadFails, CutPackage, CutManifest, CutBetween, Rests, Ends
    <2>2. packages' \in [Package -> Files] /\ latest' \in Files
        BY <1>7 DEF LoadFails, CutPackage, CutManifest, CutBetween, Part, Files, ReleaseTypeOK
    <2>3. spoiled' \subseteq Package
        BY <1>7 DEF LoadFails, CutPackage, CutManifest, CutBetween, ReleaseTypeOK, Upload
    <2> QED BY <1>7, <2>1, <2>2, <2>3 DEF LoadFails, CutPackage, CutManifest, CutBetween, ReleaseTypeOK
<1> QED BY <1>1, <1>2, <1>3, <1>4, <1>5, <1>6, <1>7 DEF ReleaseNext

-----------------------------------------------------------------------------
\* What a step does to a package's file and its count.
LEMMA PackageStep ==
    ASSUME RInv, [ReleaseNext]_releaseVars, NEW k \in Package
    PROVE  \/ packages'[k] = packages[k] /\ begun'[k] = begun[k]
           \/ packages'[k] = "empty" /\ begun'[k] = begun[k] + 1
           \/ /\ \E w \in Uploaders : /\ upload[w].pc = "package" /\ upload[w].package = k
                                      /\ upload'[w].pc # "package"
              /\ packages'[k] \in {"whole", "torn", packages[k]} /\ begun'[k] = begun[k]
<1> USE Typed DEF RInv
<1>1. CASE UNCHANGED <<packages, begun>>
    BY <1>1
<1>2. ASSUME NEW w \in Uploaders, NEW x \in Package, NEW version \in Versions,
             NEW notes \in Texts \cup {None}, Begins(w, x, version, notes)
      PROVE  \/ packages'[k] = packages[k] /\ begun'[k] = begun[k]
             \/ packages'[k] = "empty" /\ begun'[k] = begun[k] + 1
    BY <1>2 DEF Begins, ReleaseTypeOK
<1>3. ASSUME NEW w \in Uploaders, SavePackage(w) \/ CutPackage(w)
      PROVE  \/ packages'[k] = packages[k] /\ begun'[k] = begun[k]
             \/ /\ upload[w].pc = "package" /\ upload[w].package = k /\ upload'[w].pc # "package"
                /\ packages'[k] \in {"whole", "torn", packages[k]} /\ begun'[k] = begun[k]
    <2>1. upload'[w].pc # "package"
        BY <1>3 DEF SavePackage, CutPackage, Goes, Ends, Rests, Resting, Upload
    <2>2. upload[w].pc = "package" /\ begun' = begun
        BY <1>3 DEF SavePackage, CutPackage
    <2>3. PICK state \in {"whole", "torn", packages[upload[w].package]} :
            packages' = [packages EXCEPT ![upload[w].package] = state]
        BY <1>3 DEF SavePackage, CutPackage, Filled, Part
    <2> QED BY <2>1, <2>2, <2>3 DEF ReleaseTypeOK
<1>4. \/ UNCHANGED <<packages, begun>>
      \/ \E w \in Uploaders : \/ SavePackage(w) \/ CutPackage(w)
                              \/ \E x \in Package, version \in Versions, notes \in Texts \cup {None} :
                                    Begins(w, x, version, notes)
    BY DEF ReleaseNext, releaseVars, LoadManifest, LoadFails, OpenManifest, WriteManifest,
           CutManifest, CutBetween
<1> QED BY <1>1, <1>2, <1>3, <1>4

\* A settled package stays settled, and a package that an upload still
\* writes stays so for every other upload.
LEMMA PackageStays ==
    ASSUME RInv, [ReleaseNext]_releaseVars, NEW k \in Package
    PROVE  /\ Settled(packages, begun, k) => Settled(packages', begun', k)
           /\ packages'[k] # "absent" => begun'[k] >= 1
           /\ begun'[k] >= begun[k]
           /\ \A v \in Uploaders :
                upload[v].pc = "package" /\ upload[v].package = k /\ upload'[v] = upload[v] =>
                    Writing(packages', begun', k)
<1>1. /\ begun[k] \in Nat /\ (packages[k] # "absent" => begun[k] >= 1)
      /\ \A w \in Uploaders : upload[w].pc = "package" /\ upload[w].package = k =>
            Writing(packages, begun, k)
    BY Typed DEF RInv, PackagesInv, UploadOK
<1>2. CASE packages'[k] = packages[k] /\ begun'[k] = begun[k]
    BY <1>1, <1>2 DEF Settled, Writing
<1>3. CASE packages'[k] = "empty" /\ begun'[k] = begun[k] + 1
    BY <1>1, <1>3 DEF Settled, Writing
<1>4. ASSUME NEW w \in Uploaders, upload[w].pc = "package", upload[w].package = k,
             upload'[w].pc # "package",
             packages'[k] \in {"whole", "torn", packages[k]}, begun'[k] = begun[k]
      PROVE  /\ Settled(packages, begun, k) => Settled(packages', begun', k)
             /\ packages'[k] # "absent" => begun'[k] >= 1
             /\ begun'[k] >= begun[k]
             /\ \A v \in Uploaders :
                  upload[v].pc = "package" /\ upload[v].package = k /\ upload'[v] = upload[v] =>
                    Writing(packages', begun', k)
    <2>1. Writing(packages, begun, k)
        BY <1>1, <1>4
    <2>2. packages'[k] # "absent" /\ begun'[k] >= 1 /\ begun'[k] >= begun[k]
        BY <1>1, <1>4, <2>1 DEF Writing
    <2>3. Settled(packages, begun, k) => Settled(packages', begun', k)
        BY <1>1, <1>4, <2>1, <2>2 DEF Writing, Settled
    <2>4. ASSUME NEW v \in Uploaders, upload[v].pc = "package", upload[v].package = k,
                 upload'[v] = upload[v]
          PROVE  Writing(packages', begun', k)
        <3>1. v # w
            BY <1>4, <2>4
        <3>2. begun[k] > 1
            BY <1>4, <2>4, <3>1 DEF RInv, PackagesInv, Apart
        <3> QED BY <1>4, <2>2, <3>2 DEF Writing
    <2> QED BY <2>2, <2>3, <2>4
<1> QED BY <1>2, <1>3, <1>4, PackageStep

LEMMA EntriesStay ==
    ASSUME RInv, [ReleaseNext]_releaseVars, NEW m \in Manifest,
           EntriesSettled(packages, begun, m)
    PROVE  EntriesSettled(packages', begun', m)
<1> SUFFICES ASSUME NEW p \in Platforms, m.downloads[p] # None
             PROVE  Settled(packages', begun', [platform |-> p, build |-> m.downloads[p]])
    BY DEF EntriesSettled
<1>1. [platform |-> p, build |-> m.downloads[p]] \in Package
    BY DEF Manifest, Package
<1>2. Settled(packages, begun, [platform |-> p, build |-> m.downloads[p]])
    BY DEF EntriesSettled
<1> QED BY <1>1, <1>2, PackageStays

\* The uploads that a step leaves alone stay in order.
LEMMA OtherStays ==
    ASSUME RInv, [ReleaseNext]_releaseVars, NEW v \in Uploaders, upload'[v] = upload[v]
    PROVE  UploadOK(packages', begun', upload'[v])
<1>1. UploadOK(packages, begun, upload[v])
    BY DEF RInv, PackagesInv
<1>2. CASE upload[v] = Resting
    BY <1>2 DEF Resting, UploadOK
<1>3. CASE upload[v] \in Upload
    <2>1. upload[v].package \in Package /\ upload[v].copy \in Manifest
        BY <1>3 DEF Upload
    <2> QED BY <1>1, <2>1, PackageStays, EntriesStay DEF UploadOK
<1> QED BY <1>2, <1>3, Typed DEF RInv

-----------------------------------------------------------------------------
\* What a step must show of the one upload it changes.
LEMMA PackagesStep ==
    ASSUME RInv, [ReleaseNext]_releaseVars, NEW w \in Uploaders,
           \A v \in Uploaders : v # w => upload'[v] = upload[v],
           UploadOK(packages', begun', upload'[w]),
           \A v \in Uploaders : v # w => Apart(begun', upload'[w], upload[v]),
           EntriesSettled(packages', begun', manifest')
    PROVE  PackagesInv'
<1>1. \A k \in Package : packages'[k] # "absent" => begun'[k] >= 1
    BY PackageStays
<1>2. \A v \in Uploaders : UploadOK(packages', begun', upload'[v])
    BY OtherStays
<1>3. ASSUME NEW v \in Uploaders, NEW x \in Uploaders, v # x
      PROVE  Apart(begun', upload'[v], upload'[x])
    <2>1. CASE v = w
        BY <1>3, <2>1
    <2>2. CASE x = w
        BY <1>3, <2>2 DEF Apart
    <2>3. CASE v # w /\ x # w
        <3>1. Apart(begun, upload[v], upload[x])
            BY <1>3 DEF RInv, PackagesInv
        <3> SUFFICES ASSUME upload[v].pc = "package", upload[x].pc = "package",
                            upload[v].package = upload[x].package
                     PROVE  begun'[upload[v].package] > 1
            BY <2>3 DEF Apart
        <3>2. upload[v].package \in Package
            BY Typed DEF RInv, Upload
        <3>3. begun[upload[v].package] > 1 /\ begun[upload[v].package] \in Nat
            BY <3>1, <3>2, Typed DEF Apart, RInv
        <3>4. begun'[upload[v].package] >= begun[upload[v].package]
            BY <3>2, PackageStays
        <3>5. begun'[upload[v].package] \in Nat
            BY <3>2, NextTyped, Typed DEF RInv, ReleaseTypeOK
        <3> QED BY <3>3, <3>4, <3>5
    <2> QED BY <2>1, <2>2, <2>3
<1> QED BY <1>1, <1>2, <1>3 DEF PackagesInv

LEMMA BeginsPackages ==
    ASSUME RInv, [ReleaseNext]_releaseVars, NEW w \in Uploaders, NEW k \in Package,
           NEW version \in Versions, NEW notes \in Texts \cup {None}, Begins(w, k, version, notes)
    PROVE  PackagesInv'
<1>1. /\ upload'[w].pc = "package" /\ upload'[w].package = k
      /\ \A v \in Uploaders : v # w => upload'[v] = upload[v]
    BY Typed DEF Begins, RInv
<1>2. /\ packages'[k] = "empty" /\ begun'[k] = begun[k] + 1 /\ begun[k] \in Nat /\ manifest' = manifest
      /\ packages'[k] # "absent"
    BY Typed DEF Begins, RInv, ReleaseTypeOK
<1>3. UploadOK(packages', begun', upload'[w])
    BY <1>1, <1>2 DEF UploadOK, Writing
<1>4. ASSUME NEW v \in Uploaders, v # w PROVE Apart(begun', upload'[w], upload[v])
    <2> SUFFICES ASSUME upload[v].pc = "package", upload[v].package = k PROVE begun'[k] > 1
        BY <1>1 DEF Apart
    <2>1. begun[k] >= 1
        BY DEF RInv, PackagesInv, UploadOK, Writing
    <2> QED BY <1>2, <2>1
<1>5. EntriesSettled(packages', begun', manifest')
    BY <1>2, EntriesStay DEF RInv, PackagesInv, ReleaseTypeOK
<1> QED BY <1>1, <1>3, <1>4, <1>5, PackagesStep

LEMMA NextPackages == RInv /\ [ReleaseNext]_releaseVars => PackagesInv'
<1> SUFFICES ASSUME RInv, [ReleaseNext]_releaseVars PROVE PackagesInv'
    OBVIOUS
<1> USE Typed DEF RInv
<1>0. EntriesSettled(packages', begun', manifest)
    BY EntriesStay DEF PackagesInv, ReleaseTypeOK
<1>1. CASE UNCHANGED releaseVars
    BY <1>1 DEF releaseVars, PackagesInv
<1>2. ASSUME NEW w \in Uploaders, Rests(w), manifest' = manifest PROVE PackagesInv'
    <2>1. upload'[w] = Resting /\ \A v \in Uploaders : v # w => upload'[v] = upload[v]
        BY <1>2 DEF Rests
    <2>2. UploadOK(packages', begun', upload'[w])
          /\ \A v \in Uploaders : Apart(begun', upload'[w], upload[v])
        BY <2>1 DEF UploadOK, Apart, Resting
    <2> QED BY <1>0, <1>2, <2>1, <2>2, PackagesStep
<1>3. ASSUME NEW w \in Uploaders, SavePackage(w) PROVE PackagesInv'
    <2> DEFINE k == upload[w].package
    <2>1. k \in Package /\ upload[w].pc = "package" /\ upload[w] \in Upload
        BY <1>3 DEF SavePackage, Upload
    <2>2. /\ upload'[w].pc = "load" /\ upload'[w].package = k
          /\ \A v \in Uploaders : v # w => upload'[v] = upload[v]
        BY <1>3, <2>1 DEF SavePackage, Goes, Upload
    <2>3. Writing(packages, begun, k)
        BY <2>1 DEF PackagesInv, UploadOK
    <2>4. PICK state \in Filled(packages[k]) : packages' = [packages EXCEPT ![k] = state]
        BY <1>3 DEF SavePackage
    <2>5. packages'[k] = state /\ begun' = begun /\ manifest' = manifest
        BY <1>3, <2>1, <2>4 DEF SavePackage, ReleaseTypeOK
    <2> HIDE DEF k
    <2>6. Settled(packages', begun', k)
        BY <2>3, <2>4, <2>5 DEF Filled, Settled, Writing
    <2>7. UploadOK(packages', begun', upload'[w])
        BY <2>2, <2>6 DEF UploadOK
    <2>8. \A v \in Uploaders : Apart(begun', upload'[w], upload[v])
        BY <2>2 DEF Apart
    <2> QED BY <1>0, <2>2, <2>5, <2>7, <2>8, PackagesStep
<1>4. ASSUME NEW w \in Uploaders, LoadManifest(w) PROVE PackagesInv'
    <2>1. upload[w] \in Upload /\ upload[w].pc = "load" /\ upload[w].package \in Package
        BY <1>4 DEF LoadManifest, Upload
    <2>2. /\ upload'[w].pc = "manifest" /\ upload'[w].package = upload[w].package
          /\ upload'[w].copy = ReadManifest
          /\ \A v \in Uploaders : v # w => upload'[v] = upload[v]
        BY <1>4, <2>1 DEF LoadManifest, Upload
    <2>3. EntriesSettled(packages', begun', ReadManifest) /\ manifest' = manifest
        BY <1>0, <1>4 DEF LoadManifest, ReadManifest, EntriesSettled, NoManifest
    <2>4. Settled(packages', begun', upload[w].package)
        BY <2>1, PackageStays DEF PackagesInv, UploadOK
    <2>5. UploadOK(packages', begun', upload'[w])
        BY <2>2, <2>3, <2>4 DEF UploadOK
    <2>6. \A v \in Uploaders : Apart(begun', upload'[w], upload[v])
        BY <2>2 DEF Apart
    <2> QED BY <1>0, <2>2, <2>3, <2>5, <2>6, PackagesStep
<1>5. ASSUME NEW w \in Uploaders, OpenManifest(w) PROVE PackagesInv'
    <2>1. /\ upload[w] \in Upload /\ upload[w].pc = "manifest" /\ upload[w].package \in Package
          /\ upload[w].copy \in Manifest
        BY <1>5 DEF OpenManifest, Upload
    <2>2. /\ upload'[w].pc = "write" /\ upload'[w].package = upload[w].package
          /\ upload'[w].copy = upload[w].copy /\ manifest' = manifest
          /\ \A v \in Uploaders : v # w => upload'[v] = upload[v]
        BY <1>5, <2>1 DEF OpenManifest, Goes, Upload
    <2>3. Settled(packages', begun', upload[w].package)
          /\ EntriesSettled(packages', begun', upload[w].copy)
        BY <2>1, PackageStays, EntriesStay DEF PackagesInv, UploadOK
    <2>4. UploadOK(packages', begun', upload'[w])
        BY <2>2, <2>3 DEF UploadOK
    <2>5. \A v \in Uploaders : Apart(begun', upload'[w], upload[v])
        BY <2>2 DEF Apart
    <2> QED BY <1>0, <2>2, <2>4, <2>5, PackagesStep
<1>6. ASSUME NEW w \in Uploaders, WriteManifest(w) PROVE PackagesInv'
    <2> DEFINE u == upload[w]
    <2>1. /\ u \in Upload /\ u.pc = "write" /\ u.package \in Package /\ u.copy \in Manifest
          /\ u.package = [platform |-> u.package.platform, build |-> u.package.build]
          /\ u.package.platform \in Platforms
        BY <1>6 DEF WriteManifest, Upload, Package
    <2>2. Settled(packages', begun', u.package) /\ EntriesSettled(packages', begun', u.copy)
        BY <2>1, PackageStays, EntriesStay DEF PackagesInv, UploadOK
    <2>3. manifest' \in {manifest, WithUpload(u.copy, u)} /\ Rests(w)
        BY <1>6 DEF WriteManifest
    <2> HIDE DEF u
    <2>4. ASSUME NEW p \in Platforms
          PROVE  WithUpload(u.copy, u).downloads[p] =
                    IF p = u.package.platform THEN u.package.build ELSE u.copy.downloads[p]
        BY <2>1 DEF WithUpload, Manifest
    <2>5. EntriesSettled(packages', begun', WithUpload(u.copy, u))
        BY <2>1, <2>2, <2>4 DEF EntriesSettled
    <2>6. EntriesSettled(packages', begun', manifest')
        BY <1>0, <2>3, <2>5
    <2>7. upload'[w] = Resting /\ \A v \in Uploaders : v # w => upload'[v] = upload[v]
        BY <2>3 DEF Rests
    <2>8. UploadOK(packages', begun', upload'[w])
          /\ \A v \in Uploaders : Apart(begun', upload'[w], upload[v])
        BY <2>7 DEF UploadOK, Apart, Resting
    <2> QED BY <2>6, <2>7, <2>8, PackagesStep
<1> QED BY <1>1, <1>2, <1>3, <1>4, <1>5, <1>6, BeginsPackages
        DEF ReleaseNext, LoadFails, CutPackage, CutManifest, CutBetween, Ends

-----------------------------------------------------------------------------
LEMMA NextAlone == RInv /\ [ReleaseNext]_releaseVars => AloneInv'
<1> SUFFICES ASSUME RInv, [ReleaseNext]_releaseVars, ~ overlapped' PROVE AloneInv'
    BY DEF AloneInv
<1> USE Typed DEF RInv
<1>0. ~ overlapped
    BY DEF ReleaseNext, releaseVars, Begins, SavePackage, LoadManifest, LoadFails, OpenManifest,
           WriteManifest, CutPackage, CutManifest, CutBetween
<1>a. /\ \A w, v \in Uploaders : w # v => upload[w] = Resting \/ upload[v] = Resting
      /\ \A w \in Uploaders : upload[w].pc \in {"manifest", "write"} => upload[w].copy = published
      /\ latest = "whole" => manifest = published
      /\ latest = "absent" => published = NoManifest
    BY <1>0 DEF AloneInv
<1>1. CASE UNCHANGED releaseVars
    BY <1>1 DEF releaseVars, AloneInv
<1>2. ASSUME NEW w \in Uploaders, NEW k \in Package, NEW version \in Versions,
             NEW notes \in Texts \cup {None}, Begins(w, k, version, notes)
      PROVE  AloneInv'
    <2>1. \A v \in Uploaders : upload[v] = Resting
        BY <1>2 DEF Begins
    <2>2. upload'[w].pc = "package" /\ \A v \in Uploaders : v # w => upload'[v] = Resting
        BY <1>2, <2>1 DEF Begins
    <2> QED BY <1>2, <1>a, <2>2 DEF Begins, AloneInv, Resting
\* The rest: w is the one upload under way.
<1>3. ASSUME NEW w \in Uploaders, upload[w] # Resting, UNCHANGED <<manifest, published>>,
             \A v \in Uploaders : v # w => upload'[v] = upload[v],
             upload'[w].pc \in {"manifest", "write"} => upload'[w].copy = published,
             latest' \in {latest, "empty", "torn"}
      PROVE  AloneInv'
    <2>1. \A v \in Uploaders : v # w => upload'[v] = Resting
        BY <1>3, <1>a
    <2> QED BY <1>3, <1>a, <2>1 DEF AloneInv, Resting
<1>4. ASSUME NEW w \in Uploaders, Rests(w), upload[w] # Resting, UNCHANGED <<manifest, published>>,
             latest' \in {latest, "empty", "torn"}
      PROVE  AloneInv'
    <2>1. upload'[w] = Resting /\ \A v \in Uploaders : v # w => upload'[v] = upload[v]
        BY <1>4 DEF Rests
    <2> QED BY <1>3, <1>4, <2>1 DEF Resting
<1>5. ASSUME NEW w \in Uploaders, LoadFails(w) \/ CutPackage(w) \/ CutManifest(w) \/ CutBetween(w)
      PROVE  AloneInv'
    <2>1. upload[w] # Resting /\ Rests(w) /\ UNCHANGED <<manifest, published>>
          /\ latest' \in {latest, "empty", "torn"}
        BY <1>5 DEF LoadFails, CutPackage, CutManifest, CutBetween, Part, Ends, Resting
    <2> QED BY <1>4, <2>1
<1>6. ASSUME NEW w \in Uploaders, SavePackage(w) PROVE AloneInv'
    <2>1. /\ upload'[w].pc = "load" /\ upload[w] # Resting
          /\ \A v \in Uploaders : v # w => upload'[v] = upload[v]
        BY <1>6 DEF SavePackage, Goes, Upload, Resting
    <2> QED BY <1>3, <1>6, <2>1 DEF SavePackage
<1>7. ASSUME NEW w \in Uploaders, LoadManifest(w) PROVE AloneInv'
    <2>1. upload[w] \in Upload /\ upload[w] # Resting
        BY <1>7 DEF LoadManifest, Resting
    <2>2. /\ upload'[w].copy = ReadManifest
          /\ \A v \in Uploaders : v # w => upload'[v] = upload[v]
        BY <1>7, <2>1 DEF LoadManifest, Upload
    <2>3. ReadManifest = published
        BY <1>7, <1>a DEF LoadManifest, Readable, ReadManifest
    <2> QED BY <1>3, <1>7, <2>1, <2>2, <2>3 DEF LoadManifest
<1>8. ASSUME NEW w \in Uploaders, OpenManifest(w) PROVE AloneInv'
    <2>1. upload[w] \in Upload /\ upload[w] # Resting /\ upload[w].pc = "manifest"
        BY <1>8 DEF OpenManifest, Resting
    <2>2. /\ upload'[w].copy = upload[w].copy
          /\ \A v \in Uploaders : v # w => upload'[v] = upload[v]
        BY <1>8, <2>1 DEF OpenManifest, Goes, Upload
    <2> QED BY <1>3, <1>8, <1>a, <2>1, <2>2 DEF OpenManifest
<1>9. ASSUME NEW w \in Uploaders, WriteManifest(w) PROVE AloneInv'
    <2>1. upload[w] \in Upload /\ upload[w] # Resting /\ upload[w].copy = published
        BY <1>9, <1>a DEF WriteManifest, Resting
    <2>2. published' = WithUpload(upload[w].copy, upload[w])
        BY <1>9, <2>1, PublishedTyped DEF WriteManifest
    <2>3. latest' # "absent" /\ (latest' = "whole" => manifest' = published')
        BY <1>9, <2>2 DEF WriteManifest, Filled
    <2>4. \A v \in Uploaders : upload'[v] = Resting
        BY <1>9, <1>a, <2>1 DEF WriteManifest, Rests
    <2> QED BY <2>3, <2>4 DEF AloneInv, Resting
<1> QED BY <1>1, <1>2, <1>5, <1>6, <1>7, <1>8, <1>9 DEF ReleaseNext

\* Steps that neither write a package's file nor begin an upload.
LEMMA SpoilStays ==
    ASSUME RInv, UNCHANGED <<packages, spoiled>>, NEW w \in Uploaders,
           upload[w].pc # "package", upload'[w].pc # "package",
           \A v \in Uploaders : v # w => upload'[v] = upload[v]
    PROVE  SpoilInv'
<1>1. \A v \in Uploaders : upload'[v].pc = "package" =>
        v # w /\ upload'[v] = upload[v]
    OBVIOUS
<1>2. \A v \in Uploaders : upload[v].pc = "package" => upload'[v] = upload[v]
    OBVIOUS
<1>3. \A k \in Package : IsWritten(k) => IsWritten(k)'
    BY <1>2 DEF IsWritten
<1> QED BY <1>1, <1>3 DEF RInv, SpoilInv

LEMMA NextSpoil == RInv /\ [ReleaseNext]_releaseVars => SpoilInv'
<1> SUFFICES ASSUME RInv, [ReleaseNext]_releaseVars PROVE SpoilInv'
    OBVIOUS
<1> USE Typed DEF RInv
<1>1. CASE UNCHANGED releaseVars
    BY <1>1 DEF releaseVars, SpoilInv, IsWritten
<1>2. ASSUME NEW w \in Uploaders, NEW k \in Package, NEW version \in Versions,
             NEW notes \in Texts \cup {None}, Begins(w, k, version, notes)
      PROVE  SpoilInv'
    <2>1. /\ upload'[w].pc = "package" /\ upload'[w].package = k /\ upload[w].pc # "package"
          /\ \A v \in Uploaders : v # w => upload'[v] = upload[v]
        BY <1>2 DEF Begins, Resting
    <2>2. /\ packages'[k] = "empty"
          /\ \A x \in Package : x # k => packages'[x] = packages[x]
        BY <1>2 DEF Begins, ReleaseTypeOK
    <2>3. spoiled' = IF IsWritten(k) THEN spoiled \cup {k} ELSE spoiled \ {k}
        BY <1>2 DEF Begins
    <2>4. \A x \in Package : IsWritten(x) => IsWritten(x)'
        BY <2>1 DEF IsWritten
    <2>5. IsWritten(k)'
        BY <2>1 DEF IsWritten
    <2>6. \A x \in Package \ spoiled' :
            packages'[x] \in {"absent", "whole"} \/ IsWritten(x)'
        BY <2>2, <2>3, <2>4, <2>5 DEF SpoilInv
    <2>7. ASSUME NEW v \in Uploaders, upload'[v].pc = "package",
                 upload'[v].package \notin spoiled'
          PROVE  packages'[upload'[v].package] = "empty"
        <3>1. CASE v = w
            BY <2>1, <2>2, <3>1
        <3>2. CASE v # w /\ upload[v].package = k
            BY <2>1, <2>2, <3>2
        <3>3. CASE v # w /\ upload[v].package # k
            <4>1. upload[v].pc = "package" /\ upload[v].package \notin spoiled
                  /\ upload[v].package \in Package
                BY <2>1, <2>3, <2>7, <3>3 DEF Upload
            <4> QED BY <2>1, <2>2, <3>3, <4>1 DEF SpoilInv
        <3> QED BY <3>1, <3>2, <3>3
    <2>8. ASSUME NEW x \in Uploaders, NEW v \in Uploaders, x # v,
                 upload'[x].pc = "package", upload'[v].pc = "package",
                 upload'[x].package = upload'[v].package
          PROVE  upload'[x].package \in spoiled'
        <3>1. CASE x = w \/ v = w
            <4>1. IsWritten(k) /\ upload'[x].package = k
                BY <2>1, <2>8, <3>1 DEF IsWritten
            <4> QED BY <2>3, <4>1
        <3>2. CASE x # w /\ v # w
            <4>1. upload[x].package \in spoiled
                BY <2>1, <2>8, <3>2 DEF SpoilInv
            <4>2. CASE upload[x].package = k
                BY <2>1, <2>3, <2>8, <3>2, <4>2 DEF IsWritten
            <4>3. CASE upload[x].package # k
                BY <2>1, <2>3, <3>2, <4>1, <4>3
            <4> QED BY <4>2, <4>3
        <3> QED BY <3>1, <3>2
    <2> QED BY <2>6, <2>7, <2>8 DEF SpoilInv
\* A writer leaves: it was alone and fills the file, or the file is spoiled.
<1>3. ASSUME NEW w \in Uploaders, SavePackage(w) \/ CutPackage(w) PROVE SpoilInv'
    <2> DEFINE k == upload[w].package
    <2>1. /\ upload[w].pc = "package" /\ k \in Package
          /\ upload'[w].pc # "package"
          /\ \A v \in Uploaders : v # w => upload'[v] = upload[v]
        BY <1>3 DEF SavePackage, CutPackage, Goes, Ends, Rests, Resting, Upload
    <2>2. \A x \in Package : x # k => packages'[x] = packages[x]
        <3>1. PICK state \in {"whole", "torn", packages[k]} : packages' = [packages EXCEPT ![k] = state]
            BY <1>3 DEF SavePackage, CutPackage, Filled, Part
        <3> QED BY <3>1 DEF ReleaseTypeOK
    <2>3. k \notin spoiled' => packages'[k] = "whole" /\ SavePackage(w)
        <3> SUFFICES ASSUME k \notin spoiled' PROVE packages'[k] = "whole" /\ SavePackage(w)
            OBVIOUS
        <3>1. SavePackage(w) /\ k \notin spoiled
            BY <1>3 DEF SavePackage, CutPackage
        <3>2. packages[k] = "empty"
            BY <2>1, <3>1 DEF SpoilInv
        <3>3. PICK state \in Filled(packages[k]) : packages' = [packages EXCEPT ![k] = state]
            BY <3>1 DEF SavePackage
        <3> QED BY <2>1, <3>1, <3>2, <3>3 DEF Filled, ReleaseTypeOK
    <2>4. spoiled' \in {spoiled, spoiled \cup {k}}
        BY <1>3 DEF SavePackage, CutPackage
    <2>5. \A v \in Uploaders : upload'[v].pc = "package" => v # w /\ upload'[v] = upload[v]
        BY <2>1
    <2>6. \A x \in Package : x # k /\ IsWritten(x) => IsWritten(x)'
        BY <2>1 DEF IsWritten
    <2>7. \A x \in Package \ spoiled' :
            packages'[x] \in {"absent", "whole"} \/ IsWritten(x)'
        <3> TAKE x \in Package \ spoiled'
        <3>1. CASE x = k
            BY <2>3, <3>1
        <3>2. CASE x # k
            BY <2>2, <2>4, <2>6, <3>2 DEF SpoilInv
        <3> QED BY <3>1, <3>2
    <2>8. ASSUME NEW v \in Uploaders, upload'[v].pc = "package",
                 upload'[v].package \notin spoiled'
          PROVE  packages'[upload'[v].package] = "empty"
        <3>1. v # w /\ upload'[v] = upload[v] /\ upload[v].pc = "package"
              /\ upload[v].package \in Package /\ upload[v].package \notin spoiled
            BY <2>4, <2>5, <2>8 DEF Upload
        <3>2. upload[v].package # k
            BY <2>1, <3>1 DEF SpoilInv
        <3> QED BY <2>2, <3>1, <3>2 DEF SpoilInv
    <2>9. ASSUME NEW x \in Uploaders, NEW v \in Uploaders, x # v,
                 upload'[x].pc = "package", upload'[v].pc = "package",
                 upload'[x].package = upload'[v].package
          PROVE  upload'[x].package \in spoiled'
        BY <2>4, <2>5, <2>9 DEF SpoilInv
    <2> QED BY <2>7, <2>8, <2>9 DEF SpoilInv
<1>4. ASSUME NEW w \in Uploaders,
             \/ LoadManifest(w) \/ LoadFails(w) \/ OpenManifest(w) \/ WriteManifest(w)
             \/ CutManifest(w) \/ CutBetween(w)
      PROVE  SpoilInv'
    <2>1. UNCHANGED <<packages, spoiled>> /\ upload[w].pc # "package" /\ upload[w].pc # "idle"
        BY <1>4 DEF LoadManifest, LoadFails, OpenManifest, WriteManifest, CutManifest, CutBetween
    <2>2. upload'[w].pc # "package" /\ \A v \in Uploaders : v # w => upload'[v] = upload[v]
        BY <1>4, <2>1 DEF LoadManifest, LoadFails, OpenManifest, WriteManifest, CutManifest,
            CutBetween, Goes, Rests, Resting, Upload
    <2> QED BY <2>1, <2>2, SpoilStays DEF RInv
<1> QED BY <1>1, <1>2, <1>3, <1>4 DEF ReleaseNext

LEMMA ReleaseInvariance == ReleaseSpec => []RInv
<1>1. RInv /\ [ReleaseNext]_releaseVars => RInv'
    BY NextTyped, NextPackages, NextAlone, NextSpoil DEF RInv
<1> QED BY <1>1, InitRInv, PTL DEF ReleaseSpec

-----------------------------------------------------------------------------
\* A package that latest.json offers is there, and whole but while a later
\* upload of it writes it or after one that was cut short or ran beside
\* another, for any number of uploads.
THEOREM PackagesWhole == ReleaseSpec => []OfferedIsWhole
<1>1. RInv => OfferedIsWhole
    <2> SUFFICES ASSUME RInv, NEW p \in Platforms, manifest.downloads[p] # None
                 PROVE  LET k == [platform |-> p, build |-> manifest.downloads[p]]
                        IN /\ packages[k] # "absent"
                           /\ packages[k] # "whole" =>
                                begun[k] > 1 /\ (IsWritten(k) \/ k \in spoiled)
        BY DEF OfferedIsWhole
    <2> DEFINE k == [platform |-> p, build |-> manifest.downloads[p]]
    <2>1. k \in Package
        BY DEF RInv, ReleaseTypeOK, Manifest, Package
    <2>2. Settled(packages, begun, k)
        BY DEF RInv, PackagesInv, EntriesSettled
    <2>3. packages[k] \in {"absent", "whole"} \/ IsWritten(k) \/ k \in spoiled
        BY <2>1 DEF RInv, SpoilInv
    <2> QED BY <2>2, <2>3 DEF Settled
<1> QED BY <1>1, ReleaseInvariance, PTL

\* Until two uploads overlap, each changes its own platform's entry of what
\* was published before it, whatever fails in between.
THEOREM PlatformsPreserved == ReleaseSpec => []EntriesPreserved
<1>1. RInv => EntriesPreserved
    BY DEF RInv, AloneInv, EntriesPreserved
<1> QED BY <1>1, ReleaseInvariance, PTL

=============================================================================
