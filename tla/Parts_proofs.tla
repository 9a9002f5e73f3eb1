---------------------------- MODULE Parts_proofs ----------------------------
(***************************************************************************)
(* The components that TLC runs together in MCParts: archives of any       *)
(* length, with entries of any names, in any order, and any uploads that   *)
(* fail; the charge for any answer, however deep; and the types of the     *)
(* state of releases, products and plans, whose other theorems are in      *)
(* AppReleases_proofs, Catalogue_proofs and Billing_proofs.                *)
(***************************************************************************)
EXTENDS MCParts, AppReleases_proofs, Catalogue_proofs, Billing_proofs, FiniteSetTheorems

-----------------------------------------------------------------------------
(***************************************************************************)
(*                                Archives                                 *)
(***************************************************************************)

-----------------------------------------------------------------------------
(***************************************************************************)
(* The inductive invariant.  The first entry of a name keeps it, and a     *)
(* later one is numbered by the entries of its name before it; what was    *)
(* uploaded is in the pool or was replaced by a later entry that the       *)
(* database finds by the same name.                                        *)
(***************************************************************************)

Names == [stem : Stems, capital : BOOLEAN, numbers : Seq(Nat)]

WithNumber(name, n) == [name EXCEPT !.numbers = Append(@, n)]

Earlier(i) == {k \in 1..(i - 1) : entries[k] = entries[i]}

ArchiveTyped ==
    /\ reading \in BOOLEAN
    /\ entries \in Seq(EntryNames)
    /\ names \in Seq(Names) /\ Len(names) = Len(entries)
    /\ uploads = [tried |-> uploads.tried, done |-> uploads.done]
    /\ uploads.tried \in 0..Len(entries) /\ uploads.done \subseteq 1..uploads.tried
    /\ reading => uploads.done = {} /\ uploads.tried = 0

Numbered ==
    \A i \in 1..Len(entries) :
        names[i] = IF Earlier(i) = {} THEN entries[i]
                   ELSE WithNumber(entries[i], Cardinality(Earlier(i)) + 1)

Kept ==
    \A i \in uploads.done :
        \/ [name |-> Collate(names[i]), entry |-> i] \in stored
        \/ \E j \in uploads.done : i < j /\ Collate(names[j]) = Collate(names[i])

ArchiveInv == ArchiveTyped /\ Numbered /\ Kept

-----------------------------------------------------------------------------
(* Lemmas about names *)

LEMMA AppendNotEmpty == \A s \in Seq(Nat), x \in Nat : Append(s, x) # <<>>
<1> SUFFICES ASSUME NEW s \in Seq(Nat), NEW x \in Nat PROVE Append(s, x) # <<>>
    OBVIOUS
<1>1. Len(Append(s, x)) = Len(s) + 1 /\ Len(s) \in Nat /\ Len(<<>>) = 0
    OBVIOUS
<1> QED BY <1>1

LEMMA AppendsDiffer ==
    \A s, t \in Seq(Nat), x, y \in Nat : Append(s, x) = Append(t, y) => s = t /\ x = y
<1> SUFFICES ASSUME NEW s \in Seq(Nat), NEW t \in Seq(Nat), NEW x \in Nat, NEW y \in Nat,
                    Append(s, x) = Append(t, y)
             PROVE  s = t /\ x = y
    OBVIOUS
<1>1. Len(s) = Len(t)
    <2>1. Len(Append(s, x)) = Len(s) + 1 /\ Len(Append(t, y)) = Len(t) + 1
        OBVIOUS
    <2>2. Len(s) \in Nat /\ Len(t) \in Nat
        OBVIOUS
    <2> QED BY <2>1, <2>2
<1>2. Append(s, x)[Len(s) + 1] = x /\ Append(t, y)[Len(t) + 1] = y
    OBVIOUS
<1>3. ASSUME NEW u \in Seq(Nat), NEW z \in Nat, NEW k \in 1..Len(u)
      PROVE  Append(u, z)[k] = u[k]
    OBVIOUS
<1>4. \A k \in 1..Len(s) : s[k] = t[k]
    BY <1>1, <1>3
<1> QED BY <1>1, <1>2, <1>4

\* The database compares stems and numbers.
LEMMA CollateIs ==
    \A a, b \in Names : Collate(a) = Collate(b) <=> a.stem = b.stem /\ a.numbers = b.numbers
BY DEF Collate, Names

\* A number is added to a name, and neither the name nor the number is lost.
LEMMA WithNumberIs ==
    ASSUME NEW a \in EntryNames, NEW n \in Nat
    PROVE  /\ a \in Names
           /\ WithNumber(a, n) \in Names
           /\ WithNumber(a, n).numbers # <<>>
           /\ \A b \in EntryNames, m \in Nat :
                Collate(WithNumber(a, n)) = Collate(WithNumber(b, m)) =>
                    Collate(a) = Collate(b) /\ n = m
<1>1. <<>> \in Seq(Nat) /\ <<2>> \in Seq(Nat)
    OBVIOUS
<1>2. \A c \in EntryNames : c \in Names
    BY <1>1 DEF EntryNames, Names
<1>3. ASSUME NEW c \in Names, NEW m \in Nat
      PROVE  /\ WithNumber(c, m).stem = c.stem
             /\ WithNumber(c, m).numbers = Append(c.numbers, m)
             /\ WithNumber(c, m) \in Names
    <2>1. c.numbers \in Seq(Nat) /\ Append(c.numbers, m) \in Seq(Nat)
        BY DEF Names
    <2> QED BY <2>1 DEF WithNumber, Names
<1>4. Append(a.numbers, n) # <<>>
    <2>1. a.numbers \in Seq(Nat)
        BY <1>2 DEF Names
    <2> QED BY <2>1, AppendNotEmpty, Zenon
<1>5. ASSUME NEW b \in EntryNames, NEW m \in Nat,
             Collate(WithNumber(a, n)) = Collate(WithNumber(b, m))
      PROVE  Collate(a) = Collate(b) /\ n = m
    <2>1. /\ WithNumber(a, n).stem = a.stem /\ WithNumber(a, n).numbers = Append(a.numbers, n)
          /\ WithNumber(b, m).stem = b.stem /\ WithNumber(b, m).numbers = Append(b.numbers, m)
        BY <1>2, <1>3, Zenon
    <2>2. a.numbers \in Seq(Nat) /\ b.numbers \in Seq(Nat)
        BY <1>2 DEF Names
    <2>3. a.stem = b.stem /\ Append(a.numbers, n) = Append(b.numbers, m)
        BY <1>2, <1>3, <1>5, <2>1, CollateIs
    <2>4. a.numbers = b.numbers /\ n = m
        <3>1. PICK s \in Seq(Nat), t \in Seq(Nat) : s = a.numbers /\ t = b.numbers
            BY <2>2
        <3>2. Append(s, n) = Append(t, m)
            BY <2>3, <3>1
        <3>3. s = t /\ n = m
            BY <3>2, AppendsDiffer
        <3> QED BY <3>1, <3>3
    <2> QED BY <1>2, <2>3, <2>4, CollateIs
<1> QED BY <1>2, <1>3, <1>4, <1>5

LEMMA UpTo == \A n \in Int : IsFiniteSet(1..n)
BY FS_Interval

\* What the loop names an entry, in terms of the entries of its name so far.
LEMMA UploadNameIs ==
    ASSUME NEW name \in EntryNames, entries \in Seq(EntryNames)
    PROVE  LET same == {k \in 1..Len(entries) : entries[k] = name}
           IN /\ UploadName(name) = IF same = {} THEN name ELSE WithNumber(name, Cardinality(same) + 1)
              /\ UploadName(name) \in Names
<1> DEFINE same == {k \in 1..Len(entries) : entries[k] = name}
<1>1. Len(entries) \in Int /\ DOMAIN entries = 1..Len(entries)
    OBVIOUS
<1>2. Seen(name) = Cardinality(same)
    BY <1>1, Zenon DEF Seen
<1>3. IsFiniteSet(same)
    BY <1>1, UpTo, FS_Subset
<1>4. Cardinality(same) \in Nat /\ (Cardinality(same) = 0 <=> same = {})
    BY <1>3, FS_CardinalityType, FS_EmptySet
<1> HIDE DEF same
<1>5. UploadName(name) = IF same = {} THEN name ELSE WithNumber(name, Cardinality(same) + 1)
    BY <1>2, <1>4 DEF UploadName, WithNumber
<1>6. Cardinality(same) + 1 \in Nat
    BY <1>4
<1>7. UploadName(name) \in Names
    BY <1>5, <1>6, WithNumberIs
<1> QED BY <1>5, <1>7 DEF same

-----------------------------------------------------------------------------
(* The invariant is kept *)

LEMMA InitArchive == ArchiveInit => ArchiveInv
BY DEF ArchiveInit, ArchiveInv, ArchiveTyped, Numbered, Kept

LEMMA ReadStep ==
    ASSUME ArchiveInv, NEW name \in EntryNames, ReadEntry(name)
    PROVE  ArchiveInv'
<1> USE DEF ArchiveInv, ArchiveTyped
<1>n. PICK n \in Nat : n = Len(entries)
    OBVIOUS
<1> DEFINE same == {k \in 1..n : entries[k] = name}
<1>0. reading' = reading /\ reading \in BOOLEAN /\ uploads.done = {} /\ uploads.tried = 0
    BY Zenon DEF ReadEntry
<1>1. /\ n = Len(entries) /\ entries \in Seq(EntryNames) /\ entries' = Append(entries, name)
      /\ names' = Append(names, UploadName(name)) /\ Len(names) = n
      /\ names \in Seq(Names)
      /\ uploads' = uploads
    BY <1>n DEF ReadEntry
<1>2. UploadName(name) \in Names
    BY <1>1, UploadNameIs
<1>3. /\ entries' \in Seq(EntryNames) /\ Len(entries') = n + 1 /\ Len(names') = n + 1
      /\ names' \in Seq(Names)
      /\ \A i \in 1..n : entries'[i] = entries[i] /\ names'[i] = names[i]
      /\ entries'[n + 1] = name /\ names'[n + 1] = UploadName(name)
    BY <1>1, <1>2
<1>4. ArchiveTyped'
    <2>1. reading' \in BOOLEAN
        BY <1>0
    <2>2. uploads'.done = {} /\ uploads'.tried = 0 /\ 0 \in 0..(n + 1)
        BY <1>0, <1>1
    <2>3. uploads' = [tried |-> uploads'.tried, done |-> uploads'.done]
        BY <1>1
    <2>4. uploads'.tried \in 0..Len(entries') /\ uploads'.done \subseteq 1..uploads'.tried
        BY <1>3, <2>2
    <2> QED BY <1>3, <2>1, <2>2, <2>3, <2>4
<1>5. \A i \in 1..n : Earlier(i)' = Earlier(i)
    BY <1>1, <1>3 DEF Earlier
<1>6. Earlier(n + 1)' = same
    <2>1. (n + 1) - 1 = n
        BY <1>1
    <2>2. Earlier(n + 1)' = {k \in 1..n : entries'[k] = name}
        BY <1>3, <2>1 DEF Earlier
    <2>3. {k \in 1..n : entries'[k] = name} = same
        BY <1>3
    <2> QED BY <2>2, <2>3
<1>7. UploadName(name) = IF same = {} THEN name ELSE WithNumber(name, Cardinality(same) + 1)
    BY <1>1, UploadNameIs
<1>8. Numbered'
    <2> SUFFICES ASSUME NEW i \in 1..(n + 1)
                 PROVE  names'[i] = IF Earlier(i)' = {} THEN entries'[i]
                                    ELSE WithNumber(entries'[i], Cardinality(Earlier(i)') + 1)
        BY <1>3 DEF Numbered
    <2>1. CASE i \in 1..n
        BY <1>1, <1>3, <1>5, <2>1 DEF Numbered
    <2>2. CASE i = n + 1
        <3> HIDE DEF same
        <3>1. Earlier(i)' = same /\ entries'[i] = name /\ names'[i] = UploadName(name)
            BY <1>3, <1>6, <2>2
        <3> QED BY <1>7, <3>1, Zenon
    <2> QED BY <1>1, <2>1, <2>2
<1>9. Kept'
    BY <1>0, <1>1 DEF Kept
<1> QED BY <1>4, <1>8, <1>9

LEMMA UploadStep == ASSUME ArchiveInv, UploadEntry PROVE ArchiveInv'
<1> USE DEF ArchiveInv, ArchiveTyped
<1> DEFINE i == uploads.tried + 1
<1>1. /\ i \in 1..Len(entries) /\ uploads' = [tried |-> i, done |-> uploads.done \cup {i}]
      /\ stored' = {f \in stored : f.name # Collate(names[i])}
            \cup {[name |-> Collate(names[i]), entry |-> i]}
      /\ ~ reading /\ reading' = reading /\ entries' = entries /\ names' = names
      /\ uploads.done \subseteq 1..(i - 1)
    BY DEF UploadEntry
<1>2. uploads'.tried = i /\ uploads'.done = uploads.done \cup {i}
    BY <1>1
<1> HIDE DEF i
<1>3. ArchiveTyped'
    BY <1>1, <1>2
<1>4. Numbered'
    BY <1>1 DEF Numbered, Earlier
<1>5. Kept'
    <2> SUFFICES ASSUME NEW k \in uploads.done \cup {i}
                 PROVE  \/ [name |-> Collate(names[k]), entry |-> k] \in stored'
                        \/ \E j \in uploads.done \cup {i} : k < j /\ Collate(names[j]) = Collate(names[k])
        BY <1>1, <1>2 DEF Kept
    <2>1. CASE k = i
        BY <1>1, <2>1
    <2>2. CASE k \in uploads.done /\ Collate(names[k]) = Collate(names[i])
        BY <1>1, <2>2
    <2>3. CASE k \in uploads.done /\ Collate(names[k]) # Collate(names[i])
        <3>1. [name |-> Collate(names[k]), entry |-> k] \in stored => [name |-> Collate(names[k]), entry |-> k] \in stored'
            BY <1>1, <2>3
        <3> QED BY <2>3, <3>1 DEF Kept
    <2> QED BY <2>1, <2>2, <2>3
<1> QED BY <1>3, <1>4, <1>5

LEMMA NextArchive == ArchiveInv /\ [ArchiveNext]_archiveVars => ArchiveInv'
<1> SUFFICES ASSUME ArchiveInv, [ArchiveNext]_archiveVars PROVE ArchiveInv'
    OBVIOUS
<1> USE DEF ArchiveInv
<1>1. CASE SkipEntry \/ UNCHANGED archiveVars
    <2>1. UNCHANGED <<reading, entries, names, uploads, stored>>
        BY <1>1 DEF SkipEntry, archiveVars
    <2> QED BY <2>1 DEF ArchiveTyped, Numbered, Earlier, Kept
<1>2. CASE ArchiveRead
    <2>1. reading' = FALSE /\ UNCHANGED <<entries, names, uploads, stored>>
        BY <1>2 DEF ArchiveRead
    <2> QED BY <2>1 DEF ArchiveTyped, Numbered, Earlier, Kept
<1>3. CASE EntryFails
    <2>1. /\ ~ reading /\ reading' = reading /\ UNCHANGED <<entries, names, stored>>
          /\ uploads' = [uploads EXCEPT !.tried = @ + 1] /\ uploads.tried < Len(entries)
        BY <1>3 DEF EntryFails
    <2>2. uploads'.tried = uploads.tried + 1 /\ uploads'.done = uploads.done
        BY <2>1 DEF ArchiveTyped
    <2>3. uploads.tried + 1 \in 0..Len(entries) /\ uploads.done \subseteq 1..(uploads.tried + 1)
        BY <2>1 DEF ArchiveTyped
    <2>4. ArchiveTyped'
        BY <2>1, <2>2, <2>3 DEF ArchiveTyped
    <2> QED BY <2>1, <2>2, <2>4 DEF Numbered, Earlier, Kept
<1> QED BY <1>1, <1>2, <1>3, ReadStep, UploadStep DEF ArchiveNext

-----------------------------------------------------------------------------
\* What spoils the numbers: an entry of the same name in another letter case,
\* or one that was named with a number, which the loop may give as well.
Spoilt(i) ==
    \E k \in DOMAIN entries :
        \/ entries[k] # entries[i] /\ Collate(entries[k]) = Collate(entries[i])
        \/ entries[k].numbers # <<>> /\ Collate(entries[k]) = Collate(names[i])

\* Two entries replace each other for one of these reasons only.
LEMMA SameName ==
    ASSUME ArchiveInv, NEW i \in 1..Len(entries), NEW j \in 1..Len(entries),
           i < j, Collate(names[i]) = Collate(names[j])
    PROVE  Spoilt(i)
<1>1. /\ Len(entries) \in Nat /\ entries \in Seq(EntryNames)
      /\ entries[i] \in EntryNames /\ entries[j] \in EntryNames /\ DOMAIN entries = 1..Len(entries)
    BY DEF ArchiveInv, ArchiveTyped
<1>3. \A k \in {i, j} :
        names[k] = IF Earlier(k) = {} THEN entries[k]
                   ELSE WithNumber(entries[k], Cardinality(Earlier(k)) + 1)
    BY DEF ArchiveInv, Numbered
<1>4. \A k \in {i, j} : IsFiniteSet(Earlier(k)) /\ Cardinality(Earlier(k)) \in Nat
    <2> TAKE k \in {i, j}
    <2>1. Earlier(k) \subseteq 1..(k - 1) /\ k - 1 \in Int
        BY <1>1 DEF Earlier
    <2>2. IsFiniteSet(1..(k - 1))
        BY <2>1, UpTo
    <2>3. IsFiniteSet(Earlier(k))
        BY <2>1, <2>2, FS_Subset
    <2> QED BY <2>3, FS_CardinalityType
<1>5. \A k \in {i, j} : Cardinality(Earlier(k)) + 1 \in Nat
    BY <1>4
<1>c. /\ \A k \in {i, j} : entries[k] \in Names /\ names[k] \in Names
      /\ i \in DOMAIN entries /\ j \in DOMAIN entries
    BY <1>1, <1>3, <1>5, WithNumberIs
<1>a. entries[i] = entries[j] => i \in Earlier(j)
    BY <1>1 DEF Earlier
<1>b. Collate(entries[i]) = Collate(entries[j]) /\ entries[i] # entries[j] => Spoilt(i)
    BY <1>c DEF Spoilt
<1>6. CASE Earlier(i) = {} /\ Earlier(j) = {}
    BY <1>3, <1>6, <1>a, <1>b
<1>7. CASE Earlier(i) = {} /\ Earlier(j) # {}
    <2>1. names[i] = entries[i] /\ names[j] = WithNumber(entries[j], Cardinality(Earlier(j)) + 1)
        BY <1>3, <1>7
    <2>2. names[j].numbers # <<>>
        BY <1>1, <1>5, <2>1, WithNumberIs
    <2>3. entries[i].numbers # <<>>
        BY <1>c, <2>1, <2>2, CollateIs
    <2> QED BY <1>c, <2>1, <2>3 DEF Spoilt
<1>8. CASE Earlier(i) # {} /\ Earlier(j) = {}
    <2>1. names[j] = entries[j] /\ names[i] = WithNumber(entries[i], Cardinality(Earlier(i)) + 1)
        BY <1>3, <1>8
    <2>2. names[i].numbers # <<>>
        BY <1>1, <1>5, <2>1, WithNumberIs
    <2>3. entries[j].numbers # <<>> /\ Collate(entries[j]) = Collate(names[i])
        BY <1>c, <2>1, <2>2, CollateIs
    <2> QED BY <1>c, <2>3 DEF Spoilt
<1>9. CASE Earlier(i) # {} /\ Earlier(j) # {}
    <2>1. Collate(WithNumber(entries[i], Cardinality(Earlier(i)) + 1))
            = Collate(WithNumber(entries[j], Cardinality(Earlier(j)) + 1))
        BY <1>3, <1>9
    <2>2. /\ Collate(entries[i]) = Collate(entries[j])
          /\ Cardinality(Earlier(i)) + 1 = Cardinality(Earlier(j)) + 1
        BY <1>1, <1>5, <2>1, WithNumberIs
    <2>3. CASE entries[i] # entries[j]
        BY <1>b, <2>2, <2>3
    <2>4. CASE entries[i] = entries[j]
        <3>1. i \notin Earlier(i) /\ Earlier(i) \cup {i} \subseteq Earlier(j)
            BY <1>1, <2>4 DEF Earlier
        <3>2. Cardinality(Earlier(i) \cup {i}) = Cardinality(Earlier(i)) + 1
            BY <1>4, <3>1, FS_AddElement
        <3>3. Cardinality(Earlier(i) \cup {i}) <= Cardinality(Earlier(j))
            BY <1>4, <3>1, FS_Subset
        <3> QED BY <1>4, <2>2, <3>2, <3>3
    <2> QED BY <2>3, <2>4
<1> QED BY <1>6, <1>7, <1>8, <1>9

\* A credential reported as uploaded is in the pool: for archives of any
\* length and whichever entries fail, one replaces another only through a
\* name in two letter cases or one that is numbered like those of the loop.
THEOREM ArchiveKeepsApart == ArchiveSpec => []EntriesKeptApart
<1>1. ArchiveInv => EntriesKeptApart
    <2> SUFFICES ASSUME ArchiveInv, NEW i \in uploads.done,
                        [name |-> Collate(names[i]), entry |-> i] \notin stored
                 PROVE  Spoilt(i)
        BY DEF EntriesKeptApart, Spoilt
    <2>1. PICK j \in uploads.done : i < j /\ Collate(names[j]) = Collate(names[i])
        BY DEF ArchiveInv, Kept
    <2>2. i \in 1..Len(entries) /\ j \in 1..Len(entries)
        BY DEF ArchiveInv, ArchiveTyped
    <2> QED BY <2>1, <2>2, SameName
<1> QED BY <1>1, InitArchive, NextArchive, PTL DEF ArchiveSpec

-----------------------------------------------------------------------------
(***************************************************************************)
(*                            Charges for calls                            *)
(***************************************************************************)

(* What an answer is made of *)

Value == {Object(t, kids) : t \in Tallies, kids \in UNION {[K -> Nat] : K \in SUBSET Keys}}
            \cup {List(items) : items \in UNION {[1..m -> Nat] : m \in Nat}}

\* A value holds values before it.
AnswerOK(b) == b \in Seq(Value) /\ \A i \in DOMAIN b : Held(b[i]) \subseteq 1..(i - 1)

LEMMA Values ==
    ASSUME NEW v \in Value
    PROVE  \/ /\ IsObject(v) /\ v.tokens \in Tally
              /\ Held(v) = {v.kids[k] : k \in DOMAIN v.kids}
           \/ /\ ~ IsObject(v) /\ \E m \in Nat : v.items \in [1..m -> Nat]
              /\ Held(v) = {v.items[i] : i \in DOMAIN v.items}
<1>1. CASE \E t \in Tallies, kids \in UNION {[K -> Nat] : K \in SUBSET Keys} : v = Object(t, kids)
    <2>1. PICK t \in Tallies, kids \in UNION {[K -> Nat] : K \in SUBSET Keys} : v = Object(t, kids)
        BY <1>1
    <2>2. IsObject(v) /\ v.tokens = t
        BY <2>1 DEF Object, IsObject
    <2>3. t \in Tally
        BY UsageAssumption
    <2> QED BY <2>2, <2>3 DEF Held
<1>2. CASE \E items \in UNION {[1..m -> Nat] : m \in Nat} : v = List(items)
    <2>1. PICK items \in UNION {[1..m -> Nat] : m \in Nat} : v = List(items)
        BY <1>2
    <2>2. ~ IsObject(v) /\ v.items = items
        BY <2>1 DEF List, IsObject
    <2> QED BY <2>2 DEF Held
<1> QED BY <1>1, <1>2 DEF Value

LEMMA Answers ==
    ASSUME NEW b, AnswerOK(b)
    PROVE  /\ Len(b) \in Nat /\ DOMAIN b = 1..Len(b)
           /\ \A i \in 1..Len(b) : b[i] \in Value /\ Held(b[i]) \subseteq 1..(i - 1)
BY DEF AnswerOK

LEMMA AnswerGrows ==
    ASSUME NEW b, AnswerOK(b), NEW v \in Value, Held(v) \subseteq 1..Len(b)
    PROVE  AnswerOK(Append(b, v))
<1>1. b \in Seq(Value) /\ Append(b, v) \in Seq(Value) /\ Len(b) \in Nat
    BY DEF AnswerOK
<1>2. ASSUME NEW i \in DOMAIN Append(b, v)
      PROVE  Held(Append(b, v)[i]) \subseteq 1..(i - 1)
    <2>1. i \in 1..(Len(b) + 1)
        BY <1>1
    <2>2. CASE i <= Len(b)
        <3>1. Append(b, v)[i] = b[i] /\ i \in DOMAIN b
            BY <1>1, <2>1, <2>2
        <3> QED BY <3>1 DEF AnswerOK
    <2>3. CASE i = Len(b) + 1
        <3>1. Append(b, v)[i] = v /\ i - 1 = Len(b)
            BY <1>1, <2>3
        <3> QED BY <3>1
    <2> QED BY <1>1, <2>1, <2>2, <2>3
<1> QED BY <1>1, <1>2 DEF AnswerOK

LEMMA InitAnswer == UsageInit => AnswerOK(body)
BY DEF UsageInit, AnswerOK

LEMMA NextAnswer == AnswerOK(body) /\ [UsageNext]_usageVars => AnswerOK(body)'
<1> SUFFICES ASSUME AnswerOK(body), [UsageNext]_usageVars PROVE AnswerOK(body)'
    OBVIOUS
<1>1. DOMAIN body = 1..Len(body) /\ Len(body) \in Nat
    BY Answers
<1>2. ASSUME NEW tokens \in Tallies, NEW K \in SUBSET Keys, AddObject(tokens, K)
      PROVE  AnswerOK(body')
    <2>1. PICK kids \in [K -> DOMAIN body] : body' = Append(body, Object(tokens, kids))
        BY <1>2 DEF AddObject
    <2> DEFINE v == Object(tokens, kids)
    <2>2. kids \in [K -> Nat] /\ \A k \in K : kids[k] \in 1..Len(body)
        BY <1>1
    <2>3. kids \in UNION {[L -> Nat] : L \in SUBSET Keys}
        BY <2>2
    <2>4. v \in Value
        BY <2>3 DEF Value
    <2>5. Held(v) \subseteq 1..Len(body)
        <3>1. IsObject(v) /\ v.kids = kids /\ DOMAIN kids = K
            BY DEF Object, IsObject
        <3> HIDE DEF v
        <3> QED BY <2>2, <3>1 DEF Held
    <2> HIDE DEF v
    <2>6. AnswerOK(Append(body, v))
        BY <2>4, <2>5, AnswerGrows
    <2> QED BY <2>1, <2>6 DEF v
<1>3. ASSUME NEW n \in 0..MaxItems, AddList(n)
      PROVE  AnswerOK(body')
    <2>1. PICK items \in [1..n -> DOMAIN body] : body' = Append(body, List(items))
        BY <1>3 DEF AddList
    <2> DEFINE v == List(items)
    <2>2. items \in [1..n -> Nat] /\ n \in Nat /\ \A i \in 1..n : items[i] \in 1..Len(body)
        BY <1>1, UsageAssumption
    <2>3. items \in UNION {[1..m -> Nat] : m \in Nat}
        BY <2>2
    <2>4. v \in Value
        BY <2>3 DEF Value
    <2>5. Held(v) \subseteq 1..Len(body)
        <3>1. ~ IsObject(v) /\ v.items = items /\ DOMAIN items = 1..n
            BY DEF List, IsObject
        <3> HIDE DEF v
        <3> QED BY <2>2, <3>1 DEF Held
    <2> HIDE DEF v
    <2>6. AnswerOK(Append(body, v))
        BY <2>4, <2>5, AnswerGrows
    <2> QED BY <2>1, <2>6 DEF v
<1>4. CASE body' = body
    BY <1>4 DEF AnswerOK
<1> QED BY <1>2, <1>3, <1>4 DEF UsageNext, usageVars, AnswerOK

-----------------------------------------------------------------------------
(* The search *)

\* An object counts a number.
LEMMA MapUsageNat == \A v \in Value : MapUsage(v) \in Nat
<1> SUFFICES ASSUME NEW v \in Value PROVE MapUsage(v) \in Nat
    OBVIOUS
<1>1. CASE ~ IsObject(v)
    BY <1>1 DEF MapUsage
<1>2. CASE IsObject(v)
    <2> DEFINE present == {i \in DOMAIN TokenKeys : v.tokens[TokenKeys[i]] > 0}
               first == CHOOSE i \in present : \A k \in present : i <= k
    <2>1. v.tokens \in Tally
        BY <1>2, Values
    <2>2. DOMAIN TokenKeys = 1..6 /\ \A i \in 1..6 : v.tokens[TokenKeys[i]] \in Nat
        BY <2>1 DEF Tally, TokenKeys
    <2>3. v.tokens["output_tokens"] \in Nat /\ v.tokens["outputTokens"] \in Nat
        <3>1. TokenKeys[5] = "output_tokens" /\ TokenKeys[6] = "outputTokens"
            BY DEF TokenKeys
        <3> QED BY <2>2, <3>1
    <2>4. CASE present # {}
        <3>1. \E i \in present : \A k \in present : i <= k
            <4>1. present \in SUBSET Nat
                BY <2>2
            <4> HIDE DEF present
            <4> QED BY <2>4, <4>1, LeastNumber
        <3>2. first \in present
            <4> HIDE DEF present
            <4> QED BY <3>1
        <3>3. first \in 1..6
            BY <2>2, <3>2
        <3>4. MapUsage(v) = IF first \in {3, 4}
                            THEN v.tokens[TokenKeys[first]] + v.tokens["output_tokens"] + v.tokens["outputTokens"]
                            ELSE v.tokens[TokenKeys[first]]
            BY <1>2, <2>4 DEF MapUsage
        <3> HIDE DEF first
        <3> QED BY <2>2, <2>3, <3>3, <3>4
    <2>5. CASE present = {}
        BY <1>2, <2>5 DEF MapUsage
    <2> QED BY <2>4, <2>5
<1> QED BY <1>1, <1>2

SearchOf(b, i, found) ==
    IF ~ IsObject(b[i]) THEN FirstOf(b[i].items, found)
    ELSE IF HasUsage(b, i) THEN {MapUsage(b[b[i].kids["usage"]])}
    ELSE IF MapUsage(b[i]) > 0 THEN {MapUsage(b[i])}
    ELSE SomeOf({b[i].kids[k] : k \in DOMAIN b[i].kids}, found)

\* A search looks at the values held, and at nothing else.
LEMMA SearchLooksBelow ==
    ASSUME NEW b, AnswerOK(b), NEW i \in DOMAIN b, NEW f, NEW g,
           \A k \in Held(b[i]) : f[k] = g[k]
    PROVE  SearchOf(b, i, f) = SearchOf(b, i, g)
<1>1. b[i] \in Value
    BY DEF AnswerOK
<1>2. CASE IsObject(b[i])
    <2> DEFINE K == {b[i].kids[k] : k \in DOMAIN b[i].kids}
    <2>1. \A k \in K : f[k] = g[k]
        BY <1>1, <1>2, Values
    <2> HIDE DEF K
    <2>2. {f[k] : k \in K} = {g[k] : k \in K}
        BY <2>1
    <2>3. SomeOf(K, f) = SomeOf(K, g)
        BY <2>2 DEF SomeOf, Counted
    <2> QED BY <1>2, <2>3 DEF SearchOf, K
<1>3. CASE ~ IsObject(b[i])
    <2> DEFINE items == b[i].items
    <2>1. \A j \in DOMAIN items : f[items[j]] = g[items[j]]
        BY <1>1, <1>3, Values
    <2> DEFINE hits == {j \in DOMAIN items : f[items[j]] # {0}}
    <2>2. hits = {j \in DOMAIN items : g[items[j]] # {0}}
        BY <2>1
    <2>3. hits # {} => (CHOOSE j \in hits : \A k \in hits : j <= k) \in DOMAIN items
        <3>1. hits \in SUBSET Nat
            <4>1. \E m \in Nat : items \in [1..m -> Nat]
                BY <1>1, <1>3, Values
            <4> QED BY <4>1
        <3>2. hits # {} => \E j \in hits : \A k \in hits : j <= k
            <4> HIDE DEF hits
            <4> QED BY <3>1, LeastNumber
        <3>3. hits \subseteq DOMAIN items
            OBVIOUS
        <3> HIDE DEF hits
        <3> QED BY <3>2, <3>3
    <2>4. FirstOf(items, f) = FirstOf(items, g)
        <3>1. FirstOf(items, f) = IF hits = {} THEN {0} ELSE f[items[CHOOSE j \in hits : \A k \in hits : j <= k]]
            BY DEF FirstOf
        <3> DEFINE other == {j \in DOMAIN items : g[items[j]] # {0}}
        <3>2. FirstOf(items, g) = IF other = {} THEN {0} ELSE g[items[CHOOSE j \in other : \A k \in other : j <= k]]
            BY DEF FirstOf
        <3>3. hits = other
            BY <2>2
        <3> HIDE DEF hits, other, items
        <3> QED BY <2>1, <2>3, <3>1, <3>2, <3>3
    <2> QED BY <1>3, <2>4 DEF SearchOf
<1> QED BY <1>2, <1>3

\* The recursion of findTokenUsage ends: a value holds values before it.
LEMMA SearchEnds ==
    ASSUME NEW b, AnswerOK(b)
    PROVE  \E f : f = [i \in DOMAIN b |-> SearchOf(b, i, f)]
<1> DEFINE Good(n) == \E f : \A i \in DOMAIN b : i <= n => f[i] = SearchOf(b, i, f)
           B == {n \in Nat : ~ Good(n)}
<1>1. Len(b) \in Nat /\ DOMAIN b = 1..Len(b) /\ \A i \in 1..Len(b) : Held(b[i]) \subseteq 1..(i - 1)
    BY Answers
<1>2. Good(0)
    BY <1>1
<1>3. ASSUME NEW n \in Nat, Good(n) PROVE Good(n + 1)
    <2>1. PICK f : \A i \in DOMAIN b : i <= n => f[i] = SearchOf(b, i, f)
        BY <1>3
    <2> DEFINE g == [i \in DOMAIN b |-> SearchOf(b, i, f)]
    <2>2. ASSUME NEW i \in DOMAIN b, i <= n + 1
          PROVE  g[i] = SearchOf(b, i, g)
        <3>1. ASSUME NEW k \in Held(b[i]) PROVE f[k] = g[k]
            <4>1. k \in DOMAIN b /\ k <= n
                BY <1>1, <2>2
            <4>2. f[k] = SearchOf(b, k, f)
                BY <2>1, <4>1
            <4>3. g[k] = SearchOf(b, k, f)
                BY <4>1
            <4> QED BY <4>2, <4>3
        <3>2. g[i] = SearchOf(b, i, f)
            OBVIOUS
        <3> HIDE DEF g
        <3>3. SearchOf(b, i, f) = SearchOf(b, i, g)
            BY <3>1, SearchLooksBelow
        <3> QED BY <3>2, <3>3
    <2> HIDE DEF g
    <2> QED BY <2>2
<1>4. B = {}
    <2> SUFFICES ASSUME B # {} PROVE FALSE
        OBVIOUS
    <2>1. PICK n \in B : \A m \in B : n <= m
        <3>1. B \in SUBSET Nat
            OBVIOUS
        <3> HIDE DEF B
        <3> QED BY <3>1, LeastNumber
    <2>2. n \in Nat /\ ~ Good(n) /\ n # 0
        <3> HIDE DEF Good
        <3> QED BY <1>2
    <2>3. n - 1 \in Nat /\ (n - 1) + 1 = n /\ n - 1 \notin B
        <3> HIDE DEF B
        <3> QED BY <2>1, <2>2
    <2> HIDE DEF Good
    <2>4. Good(n - 1)
        BY <2>3
    <2>5. Good((n - 1) + 1)
        BY <1>3, <2>3, <2>4
    <2> QED BY <2>2, <2>3, <2>5
<1>5. Good(Len(b))
    <2> HIDE DEF Good
    <2> QED BY <1>1, <1>4
<1>6. PICK f : \A i \in DOMAIN b : i <= Len(b) => f[i] = SearchOf(b, i, f)
    BY <1>5
<1> DEFINE h == [i \in DOMAIN b |-> f[i]]
<1>7. ASSUME NEW i \in DOMAIN b PROVE h[i] = SearchOf(b, i, h)
    <2>1. \A k \in Held(b[i]) : f[k] = h[k]
        BY <1>1
    <2>2. h[i] = SearchOf(b, i, f)
        BY <1>1, <1>6
    <2> HIDE DEF h
    <2> QED BY <2>1, <2>2, SearchLooksBelow
<1>8. h = [i \in DOMAIN b |-> h[i]]
    OBVIOUS
<1> HIDE DEF h
<1>9. h = [i \in DOMAIN b |-> SearchOf(b, i, h)]
    BY <1>7, <1>8
<1> QED BY <1>9

LEMMA FoundIs ==
    ASSUME NEW b, AnswerOK(b)
    PROVE  \A i \in DOMAIN b : Found(b)[i] = SearchOf(b, i, Found(b))
<1> DEFINE c == CHOOSE f : f = [i \in DOMAIN b |-> SearchOf(b, i, f)]
<1>1. c = [i \in DOMAIN b |-> SearchOf(b, i, c)]
    BY SearchEnds
<1>2. Found(b) = c
    BY DEF Found, SearchOf
<1> HIDE DEF c
<1> QED BY <1>1, <1>2

-----------------------------------------------------------------------------
(* What the search finds *)

LEMMA CountedIs ==
    ASSUME NEW K, NEW f
    PROVE  \A x : x \in Counted(K, f) <=> x # 0 /\ \E k \in K : x \in f[k]
<1> DEFINE sets == {f[k] : k \in K}
<1>1. \A S : S \in sets <=> \E k \in K : S = f[k]
    OBVIOUS
<1>2. Counted(K, f) = (UNION sets) \ {0}
    BY Zenon DEF Counted
<1> HIDE DEF sets
<1>3. \A x : x \in UNION sets <=> \E S \in sets : x \in S
    OBVIOUS
<1>4. \A x : x \in UNION sets <=> \E k \in K : x \in f[k]
    BY <1>1, <1>3
<1> QED BY <1>2, <1>4

\* In any part of an answer that has, with a value, what the value holds, a
\* search finds the count of an object of that part, or nothing.
LEMMA FindsOneCount ==
    ASSUME NEW b, AnswerOK(b), NEW W \in SUBSET DOMAIN b, Closed(b, W)
    PROVE  \A i \in W : /\ Found(b)[i] # {}
                        /\ \/ Found(b)[i] = {0}
                           \/ Found(b)[i] \subseteq {MapUsage(b[j]) : j \in W} \ {0}
<1> DEFINE f == Found(b)
           counts == {MapUsage(b[j]) : j \in W} \ {0}
           Right(i) == f[i] # {} /\ (f[i] = {0} \/ f[i] \subseteq counts)
           B == {i \in W : ~ Right(i)}
<1>1. Len(b) \in Nat /\ DOMAIN b = 1..Len(b) /\ \A i \in 1..Len(b) : b[i] \in Value /\ Held(b[i]) \subseteq 1..(i - 1)
    BY Answers
<1>2. ASSUME NEW i \in W, \A k \in Held(b[i]) : Right(k)
      PROVE  Right(i)
    <2>1. /\ i \in DOMAIN b /\ b[i] \in Value /\ Held(b[i]) \subseteq W /\ MapUsage(b[i]) \in Nat
          /\ \A k \in Held(b[i]) : MapUsage(b[k]) \in Nat
        BY <1>1, MapUsageNat DEF Closed
    <2>2. f[i] = SearchOf(b, i, f)
        BY <2>1, FoundIs
    <2>3. CASE IsObject(b[i])
        <3> DEFINE K == {b[i].kids[k] : k \in DOMAIN b[i].kids}
        <3>1. Held(b[i]) = K
            BY <2>1, <2>3, Values
        <3>2. CASE HasUsage(b, i)
            <4>1. b[i].kids["usage"] \in K /\ MapUsage(b[b[i].kids["usage"]]) > 0
                BY <3>2 DEF HasUsage
            <4>2. f[i] = {MapUsage(b[b[i].kids["usage"]])}
                BY <2>2, <2>3, <3>2 DEF SearchOf
            <4> HIDE DEF f, K
            <4> QED BY <2>1, <3>1, <4>1, <4>2
        <3>3. CASE ~ HasUsage(b, i) /\ MapUsage(b[i]) > 0
            <4>1. f[i] = {MapUsage(b[i])}
                BY <2>2, <2>3, <3>3 DEF SearchOf
            <4> HIDE DEF f
            <4> QED BY <2>1, <3>3, <4>1
        <3>4. CASE ~ HasUsage(b, i) /\ ~ (MapUsage(b[i]) > 0)
            <4>1. f[i] = SomeOf(K, f)
                BY <2>2, <2>3, <3>4 DEF SearchOf
            <4>2. Counted(K, f) \subseteq counts
                <5> SUFFICES ASSUME NEW x \in Counted(K, f) PROVE x \in counts
                    OBVIOUS
                <5>1. PICK k \in K : x \in f[k] /\ x # 0
                    <6> HIDE DEF f, K
                    <6> QED BY CountedIs
                <5> HIDE DEF f, K, counts
                <5> QED BY <1>2, <3>1, <5>1
            <4> HIDE DEF f, counts, K
            <4> QED BY <4>1, <4>2 DEF SomeOf
        <3> QED BY <3>2, <3>3, <3>4
    <2>4. CASE ~ IsObject(b[i])
        <3> DEFINE items == b[i].items
                   hits == {j \in DOMAIN items : f[items[j]] # {0}}
                   first == CHOOSE j \in hits : \A k \in hits : j <= k
        <3>1. Held(b[i]) = {items[j] : j \in DOMAIN items} /\ hits \in SUBSET Nat
            <4>1. \E m \in Nat : items \in [1..m -> Nat]
                BY <2>1, <2>4, Values
            <4>2. Held(b[i]) = {items[j] : j \in DOMAIN items}
                BY <2>1, <2>4, Values
            <4> QED BY <4>1, <4>2
        <3>2. f[i] = IF hits = {} THEN {0} ELSE f[items[first]]
            BY <2>2, <2>4 DEF SearchOf, FirstOf
        <3>3. hits # {} => items[first] \in Held(b[i])
            <4>1. hits # {} => \E j \in hits : \A k \in hits : j <= k
                <5> HIDE DEF hits
                <5> QED BY <3>1, LeastNumber
            <4>2. hits # {} => first \in hits
                <5> HIDE DEF hits
                <5> QED BY <4>1
            <4> HIDE DEF first, items
            <4> QED BY <3>1, <4>2
        <3> HIDE DEF f, hits, first, items, counts
        <3> QED BY <1>2, <3>2, <3>3
    <2> QED BY <2>3, <2>4
<1> HIDE DEF Right
<1>3. B = {}
    <2> SUFFICES ASSUME B # {} PROVE FALSE
        OBVIOUS
    <2>1. B \in SUBSET Nat
        BY <1>1
    <2>2. PICK i \in B : \A m \in B : i <= m
        <3> HIDE DEF B
        <3> QED BY <2>1, LeastNumber
    <2>3. i \in W /\ i \in 1..Len(b) /\ ~ Right(i)
        BY <1>1
    <2>4. ASSUME NEW k \in Held(b[i]) PROVE Right(k)
        <3>1. k \in W /\ k \in 1..(i - 1)
            BY <1>1, <2>3 DEF Closed
        <3>2. k \notin B
            <4> HIDE DEF B
            <4> QED BY <2>2, <2>3, <3>1
        <3> QED BY <3>1, <3>2
    <2> QED BY <1>2, <2>3, <2>4
<1> QED BY <1>3 DEF Right

\* What finds nothing has no count and holds only such values.
LEMMA NothingFound ==
    ASSUME NEW b, AnswerOK(b)
    PROVE  LET Z == {i \in DOMAIN b : Found(b)[i] = {0}}
           IN Closed(b, Z) /\ \A i \in Z : MapUsage(b[i]) = 0
<1> DEFINE f == Found(b)
           Z == {i \in DOMAIN b : f[i] = {0}}
<1>1. Len(b) \in Nat /\ DOMAIN b = 1..Len(b) /\ \A i \in 1..Len(b) : b[i] \in Value /\ Held(b[i]) \subseteq 1..(i - 1)
    BY Answers
<1>2. \A i \in DOMAIN b : f[i] # {}
    <2>1. \A i \in DOMAIN b : Held(b[i]) \subseteq DOMAIN b
        BY <1>1
    <2>2. Closed(b, DOMAIN b) /\ DOMAIN b \in SUBSET DOMAIN b
        BY <2>1 DEF Closed
    <2> QED BY <2>2, FindsOneCount
<1>3. ASSUME NEW i \in Z PROVE Held(b[i]) \subseteq Z /\ MapUsage(b[i]) = 0
    <2>1. i \in DOMAIN b /\ f[i] = {0} /\ b[i] \in Value /\ Held(b[i]) \subseteq DOMAIN b /\ MapUsage(b[i]) \in Nat
        BY <1>1, MapUsageNat
    <2>2. SearchOf(b, i, f) = {0}
        BY <2>1, FoundIs
    <2>3. CASE IsObject(b[i])
        <3> DEFINE K == {b[i].kids[k] : k \in DOMAIN b[i].kids}
        <3>1. Held(b[i]) = K
            BY <2>1, <2>3, Values
        <3>2. ~ HasUsage(b, i)
            <4> SUFFICES ASSUME HasUsage(b, i) PROVE FALSE
                OBVIOUS
            <4>1. b[i].kids["usage"] \in K /\ MapUsage(b[b[i].kids["usage"]]) > 0
                BY DEF HasUsage
            <4>2. {MapUsage(b[b[i].kids["usage"]])} = {0}
                BY <2>2, <2>3 DEF SearchOf
            <4> QED BY <4>1, <4>2
        <3>3. MapUsage(b[i]) = 0
            <4> SUFFICES ASSUME MapUsage(b[i]) > 0 PROVE FALSE
                BY <2>1
            <4>1. {MapUsage(b[i])} = {0}
                BY <2>2, <2>3, <3>2 DEF SearchOf
            <4> QED BY <4>1
        <3>4. SomeOf(K, f) = {0}
            BY <2>2, <2>3, <3>2, <3>3 DEF SearchOf
        <3>5. Counted(K, f) = {}
            <4> HIDE DEF f, K
            <4>1. 0 \notin Counted(K, f)
                BY CountedIs
            <4> QED BY <3>4, <4>1 DEF SomeOf
        <3>6. ASSUME NEW k \in K PROVE f[k] = {0}
            <4>1. f[k] # {}
                BY <1>2, <2>1, <3>1
            <4> HIDE DEF f, K
            <4>2. \A x \in f[k] : x = 0
                BY <3>5, CountedIs
            <4> QED BY <4>1, <4>2
        <3> HIDE DEF f, K
        <3> QED BY <2>1, <3>1, <3>3, <3>6
    <2>4. CASE ~ IsObject(b[i])
        <3> DEFINE items == b[i].items
                   hits == {j \in DOMAIN items : f[items[j]] # {0}}
                   first == CHOOSE j \in hits : \A k \in hits : j <= k
        <3>1. Held(b[i]) = {items[j] : j \in DOMAIN items} /\ hits \in SUBSET Nat
            <4>1. \E m \in Nat : items \in [1..m -> Nat]
                BY <2>1, <2>4, Values
            <4>2. Held(b[i]) = {items[j] : j \in DOMAIN items}
                BY <2>1, <2>4, Values
            <4> QED BY <4>1, <4>2
        <3>2. (IF hits = {} THEN {0} ELSE f[items[first]]) = {0}
            BY <2>2, <2>4 DEF SearchOf, FirstOf
        <3>3. hits = {}
            <4> SUFFICES ASSUME hits # {} PROVE FALSE
                OBVIOUS
            <4>1. \E j \in hits : \A k \in hits : j <= k
                <5> HIDE DEF hits
                <5> QED BY <3>1, LeastNumber
            <4>2. first \in hits
                <5> HIDE DEF hits
                <5> QED BY <4>1
            <4>3. f[items[first]] # {0}
                <5> HIDE DEF first
                <5> QED BY <4>2
            <4> HIDE DEF hits, first, f, items
            <4> QED BY <3>2, <4>3
        <3>4. MapUsage(b[i]) = 0
            BY <2>4 DEF MapUsage
        <3> QED BY <2>1, <3>1, <3>3, <3>4
    <2> QED BY <2>3, <2>4
<1> QED BY <1>3 DEF Closed

LEMMA WithinIs ==
    ASSUME NEW b, AnswerOK(b), b # <<>>
    PROVE  /\ Within(b) \in SUBSET DOMAIN b /\ Len(b) \in Within(b) /\ Closed(b, Within(b))
           /\ \A S \in SUBSET DOMAIN b : Len(b) \in S /\ Closed(b, S) => Within(b) \subseteq S
<1>1. Len(b) \in DOMAIN b
    BY DEF AnswerOK
<1>2. \A i \in DOMAIN b : Held(b[i]) \subseteq DOMAIN b
    <2>1. Len(b) \in Nat /\ DOMAIN b = 1..Len(b) /\ \A i \in 1..Len(b) : Held(b[i]) \subseteq 1..(i - 1)
        BY Answers
    <2> QED BY <2>1
<1>3. Closed(b, Within(b))
    BY <1>2 DEF Closed, Within
<1> QED BY <1>1, <1>3 DEF Within

-----------------------------------------------------------------------------
\* For every answer, however deep, and every way its objects count: the charge
\* of a call is one object's count, whatever the order in which the search
\* visits the children, or the caller's units when no object counts.
THEOREM OneCountCharged == UsageSpec => []ChargeIsOneCount
<1>1. AnswerOK(body) => ChargeIsOneCount
    <2> SUFFICES ASSUME AnswerOK(body), body # <<>> PROVE ChargeIsOneCount
        BY DEF ChargeIsOneCount
    <2> DEFINE N == Len(body)
               W == Within(body)
               counts == {MapUsage(body[i]) : i \in W} \ {0}
               found == Found(body)[N]
               answer == body[N]
    <2>1. /\ W \in SUBSET DOMAIN body /\ N \in W /\ Closed(body, W) /\ DOMAIN body = 1..N /\ N \in Nat
          /\ \A S \in SUBSET DOMAIN body : N \in S /\ Closed(body, S) => W \subseteq S
        BY WithinIs, Answers
    <2>2. \A i \in W : body[i] \in Value /\ MapUsage(body[i]) \in Nat
        BY <2>1, Answers, MapUsageNat
    <2>3. counts \subseteq Nat \ {0}
        BY <2>2
    <2>4. found # {} /\ (found = {0} \/ found \subseteq counts)
        BY <2>1, FindsOneCount
    <2>5. found = {0} => counts = {}
        <3> SUFFICES ASSUME found = {0} PROVE counts = {}
            OBVIOUS
        <3> DEFINE Z == {i \in DOMAIN body : Found(body)[i] = {0}}
        <3>1. Closed(body, Z) /\ \A i \in Z : MapUsage(body[i]) = 0
            BY NothingFound
        <3>2. N \in Z /\ Z \in SUBSET DOMAIN body
            BY <2>1
        <3>3. W \subseteq Z
            <4> HIDE DEF Z, W
            <4> QED BY <2>1, <3>1, <3>2
        <3> QED BY <3>1, <3>3
    <2>6. IsObject(answer) /\ "usage" \in DOMAIN answer.kids
             /\ MapUsage(body[answer.kids["usage"]]) > 0 =>
                found = {MapUsage(body[answer.kids["usage"]])}
        <3>1. found = SearchOf(body, N, Found(body))
            BY <2>1, FoundIs
        <3> QED BY <3>1 DEF SearchOf, HasUsage
    <2>7. Cardinality(counts) = 1 => \E n : counts = {n}
        <3>1. IsFiniteSet(counts)
            <4> DEFINE g == [i \in W |-> MapUsage(body[i])]
                       all == {MapUsage(body[i]) : i \in W}
            <4>1. IsFiniteSet(W)
                <5>1. IsFiniteSet(1..N)
                    BY <2>1, FS_Interval
                <5>2. W \in SUBSET (1..N)
                    BY <2>1
                <5> HIDE DEF W, N
                <5> QED BY <5>1, <5>2, FS_Subset
            <4>2. g \in Surjection(W, all)
                BY DEF Surjection
            <4>3. IsFiniteSet(all)
                <5> HIDE DEF g, all
                <5> QED BY <4>1, <4>2, FS_Surjection
            <4> QED BY <4>3, FS_Subset
        <3> HIDE DEF counts
        <3> QED BY <3>1, FS_Singleton
    <2>8. \A units \in Units : Charges(units) = {IF n > 0 THEN n ELSE IF units > 0 THEN units ELSE 1 : n \in found}
        BY DEF Charges
    <2>9. found = {0} => \A units \in Units : Charges(units) = {IF units > 0 THEN units ELSE 1}
        <3> HIDE DEF found
        <3> QED BY <2>8
    <2>10. found \subseteq counts => \A units \in Units : Charges(units) = found
        <3> SUFFICES ASSUME found \subseteq counts, NEW units \in Units
                     PROVE  Charges(units) = found
            OBVIOUS
        <3> HIDE DEF found, counts
        <3>1. \A n \in found : n \in Nat /\ n > 0
            BY <2>3
        <3> QED BY <2>8, <3>1
    <2> HIDE DEF found, counts, answer, W, N
    <2>11. ASSUME NEW units \in Units
           PROVE  /\ Charges(units) # {}
                  /\ IF counts = {} THEN Charges(units) = {IF units > 0 THEN units ELSE 1}
                                    ELSE Charges(units) \subseteq counts
                  /\ Cardinality(counts) = 1 => Charges(units) = counts
        <3>1. CASE found = {0}
            <4>1. counts = {} /\ Charges(units) = {IF units > 0 THEN units ELSE 1}
                BY <2>5, <2>9, <3>1
            <4>2. Cardinality({}) = 0
                BY FS_EmptySet
            <4> QED BY <4>1, <4>2
        <3>2. CASE found \subseteq counts
            <4>1. Charges(units) = found /\ counts # {}
                BY <2>4, <2>10, <3>2
            <4>2. Cardinality(counts) = 1 => found = counts
                BY <2>4, <2>7, <3>2
            <4> QED BY <2>4, <3>2, <4>1, <4>2
        <3> QED BY <2>4, <3>1, <3>2
    <2>12. ASSUME NEW units \in Units, IsObject(answer), "usage" \in DOMAIN answer.kids,
                  MapUsage(body[answer.kids["usage"]]) > 0
           PROVE  Charges(units) = {MapUsage(body[answer.kids["usage"]])}
        <3>1. found = {MapUsage(body[answer.kids["usage"]])}
            BY <2>6, <2>12
        <3>2. found # {0}
            BY <2>12, <3>1
        <3> QED BY <2>4, <2>10, <3>1, <3>2
    <2> QED BY <2>11, <2>12 DEF ChargeIsOneCount, counts, answer, W, N
<1> QED BY <1>1, InitAnswer, NextAnswer, PTL DEF UsageSpec

-----------------------------------------------------------------------------
(***************************************************************************)
(*                                 Types                                   *)
(*                                                                         *)
(* The invariants of the components, and what the types need beside them:  *)
(* a product that is sold is wanted so, and a request that leaves a field  *)
(* out is about a product that is sold; an order that may be shown again   *)
(* was made for a product.                                                 *)
(***************************************************************************)
FullRow == [offer : Offers, status : Statuses]

WantedTyped ==
    /\ wanted \in [Codes -> Row]
    /\ \A c \in Codes : products[c] # Unsold => wanted[c] \in Product
    /\ \A a \in Admins : editor[a] # NoEditor =>
            editor[a].edit \in FullRow \/ products[editor[a].source] # Unsold

ShownTyped ==
    /\ \A c \in Codes : order[c] # NoOrder => order[c].row \in Product
    /\ shopper.pc = "shown" => shopper.sold \in Product

EditsTyped == edits \in Nat /\ restarts \in Nat

CatalogueInv == CInv /\ PInv /\ WantedTyped /\ ShownTyped /\ EditsTyped
BillingInv == BilInv /\ PricesOK /\ purchases \in Nat /\ waited \in Nat
PartsInv == ReleaseTypeOK /\ CatalogueInv /\ BillingInv

\* No step takes a product off its code.
LEMMA SoldStaysSold ==
    ASSUME CInv, [CatalogueNext]_catalogueVars, NEW c \in Codes, products[c] # Unsold
    PROVE  products'[c] # Unsold
<1>1. CASE products' = products
    BY <1>1
<1>2. ASSUME NEW a \in Admins, UpsertSave(a) PROVE products'[c] # Unsold
    <2>1. editor[a] \in Busy
        BY <1>2 DEF UpsertSave, NoEditor, CInv, RowsTyped
    <2>2. editor[a].input \in Product
        BY <2>1 DEF Busy
    <2>3. products' = [products EXCEPT ![editor[a].target] = editor[a].input]
        BY <1>2 DEF UpsertSave, Writes
    <2>4. products'[c] = products[c] \/ products'[c] = editor[a].input
        BY <2>3 DEF CInv, RowsTyped
    <2> QED BY <2>2, <2>4, RowsDiffer
<1>3. CASE Restart
    BY <1>3, SeedTyped DEF Restart, CInv, RowsTyped, Seeded
<1> QED BY <1>1, <1>2, <1>3
        DEF CatalogueNext, Post, Patch, Asks, UpsertFind, UpsertFails, Quote, Settle, Reuse, Order,
            ClockTicks, catalogueVars, adminVars

LEMMA SameWanted ==
    ASSUME CInv, WantedTyped, wanted' = wanted, products' = products,
           \A a \in Admins : editor'[a] # NoEditor =>
               editor[a] # NoEditor /\ editor'[a].edit = editor[a].edit /\ editor'[a].source = editor[a].source
    PROVE  WantedTyped'
BY DEF WantedTyped

LEMMA AsksWanted ==
    ASSUME CInv, WantedTyped, NEW a \in Admins, NEW source \in Codes, NEW target, NEW input, NEW e,
           Asks(a, source, target, input, e), e \in FullRow \/ products[source] # Unsold
    PROVE  WantedTyped'
<1> DEFINE new == [pc |-> "find", source |-> source, target |-> target, input |-> input, edit |-> e]
<1>1. editor' = [editor EXCEPT ![a] = new] /\ products' = products /\ wanted' = wanted
    BY DEF Asks
<1>2. new.source = source /\ new.edit = e
    OBVIOUS
<1> HIDE DEF new
<1>3. \A b \in Admins : editor'[b] = IF b = a THEN new ELSE editor[b]
    BY <1>1 DEF CInv, RowsTyped
<1> QED BY <1>1, <1>2, <1>3 DEF WantedTyped

LEMMA SaveWanted ==
    ASSUME CInv, WantedTyped, NEW a \in Admins, UpsertSave(a)
    PROVE  WantedTyped'
<1> DEFINE job == editor[a]
<1>1. /\ job # NoEditor /\ Writes(a) /\ editor' = [editor EXCEPT ![a] = NoEditor]
    BY DEF UpsertSave, NoEditor
<1>2. job \in Busy
    BY <1>1 DEF CInv, RowsTyped
<1>3. job.target \in Codes /\ job.source \in Codes /\ job.input \in Product /\ job.edit \in Edit
    BY <1>2 DEF Busy
<1> DEFINE base == wanted[IF Exists(job.target) THEN job.target ELSE job.source]
<1>4. /\ products' = [products EXCEPT ![job.target] = job.input]
      /\ wanted' = [wanted EXCEPT ![job.target] = Edited(base, job.edit)]
    BY <1>1, MergedIsEdited DEF Writes
<1>5. \A b \in Admins : editor'[b] = IF b = a THEN NoEditor ELSE editor[b]
    BY <1>1 DEF CInv, RowsTyped
<1>6. Edited(base, job.edit) \in Product
    <2>1. CASE job.edit \in FullRow
        BY <2>1, FullEdit DEF FullRow
    <2>2. CASE products[job.source] # Unsold
        <3>1. base \in Product
            BY <1>3, <2>2 DEF WantedTyped, Exists
        <3> QED BY <1>3, <3>1, EditedTyped
    <2> QED BY <1>1, <2>1, <2>2 DEF WantedTyped
<1> HIDE DEF job, base
<1>7. wanted' \in [Codes -> Row]
    BY <1>3, <1>4, <1>6 DEF WantedTyped, Row
<1>8. ASSUME NEW c \in Codes, products'[c] # Unsold PROVE wanted'[c] \in Product
    BY <1>3, <1>4, <1>6, <1>8 DEF WantedTyped, CInv, RowsTyped
<1>9. ASSUME NEW b \in Admins, editor'[b] # NoEditor
      PROVE  editor'[b].edit \in FullRow \/ products'[editor'[b].source] # Unsold
    <2>1. editor'[b] = editor[b] /\ editor[b] # NoEditor
        BY <1>5, <1>9
    <2>2. editor[b] \in Busy
        BY <2>1 DEF CInv, RowsTyped
    <2>3. editor[b].source \in Codes
        BY <2>2 DEF Busy
    <2>4. products[editor[b].source] # Unsold => products'[editor[b].source] # Unsold
        <3>1. products'[editor[b].source] \in {products[editor[b].source], job.input}
            BY <1>4, <2>3 DEF CInv, RowsTyped
        <3> QED BY <1>3, <3>1, RowsDiffer
    <2> QED BY <2>1, <2>4 DEF WantedTyped
<1> QED BY <1>7, <1>8, <1>9 DEF WantedTyped

LEMMA NextWanted == CInv /\ WantedTyped /\ [CatalogueNext]_catalogueVars => WantedTyped'
<1> SUFFICES ASSUME CInv, WantedTyped, [CatalogueNext]_catalogueVars PROVE WantedTyped'
    OBVIOUS
<1>1. ASSUME NEW a \in Admins, NEW c \in Codes, NEW row \in [offer : Offers, status : Statuses],
             Post(a, c, row)
      PROVE  WantedTyped'
    BY <1>1, AsksWanted DEF Post, FullRow
<1>2. ASSUME NEW a \in Admins, NEW c \in Codes, NEW target \in Codes, NEW e \in Edit,
             Patch(a, c, target, e)
      PROVE  WantedTyped'
    <2>1. products[c] # Unsold /\ Asks(a, c, target, Edited(products[c], e), e)
        BY <1>2 DEF Patch, Exists
    <2> QED BY <2>1, AsksWanted
<1>3. ASSUME NEW a \in Admins, UpsertFind(a) PROVE WantedTyped'
    <2> DEFINE pc == IF Exists(editor[a].target) THEN "save" ELSE "insert"
    <2>1. /\ editor' = [editor EXCEPT ![a].pc = pc] /\ editor[a] # NoEditor
          /\ products' = products /\ wanted' = wanted
        BY <1>3 DEF UpsertFind, NoEditor
    <2> HIDE DEF pc
    <2>2. editor[a] \in Busy
        BY <2>1 DEF CInv, RowsTyped
    <2>3. /\ [editor[a] EXCEPT !.pc = pc].source = editor[a].source
          /\ [editor[a] EXCEPT !.pc = pc].edit = editor[a].edit
        BY <2>2 DEF Busy
    <2>4. \A b \in Admins : editor'[b] = IF b = a THEN [editor[a] EXCEPT !.pc = pc] ELSE editor[b]
        BY <2>1 DEF CInv, RowsTyped
    <2> QED BY <2>1, <2>3, <2>4, SameWanted
<1>4. ASSUME NEW a \in Admins, UpsertFails(a) PROVE WantedTyped'
    <2>1. /\ editor' = [editor EXCEPT ![a] = NoEditor] /\ products' = products /\ wanted' = wanted
        BY <1>4 DEF UpsertFails
    <2>2. \A b \in Admins : editor'[b] = IF b = a THEN NoEditor ELSE editor[b]
        BY <2>1 DEF CInv, RowsTyped
    <2> QED BY <2>1, <2>2, SameWanted
<1>5. CASE Restart
    <2>1. products' = products
        BY <1>5, SeedTyped DEF Restart, CInv, RowsTyped, Seeded
    <2>2. wanted' = wanted /\ editor' = [a \in Admins |-> NoEditor]
        BY <1>5 DEF Restart
    <2> QED BY <2>1, <2>2, SameWanted
<1>6. CASE UNCHANGED adminVars
    BY <1>6, SameWanted DEF adminVars
<1>7. ASSUME NEW a \in Admins, UpsertSave(a) PROVE WantedTyped'
    BY <1>7, SaveWanted
<1>8. ASSUME NEW c \in Codes, Quote(c) \/ Settle(c)
      PROVE  UNCHANGED adminVars
    BY <1>8 DEF Quote, Settle
<1>9. Reuse \/ Order \/ ClockTicks => UNCHANGED adminVars
    BY DEF Reuse, Order, ClockTicks
<1>10. UNCHANGED catalogueVars => UNCHANGED adminVars
    BY DEF catalogueVars
<1> QED BY <1>1, <1>2, <1>3, <1>4, <1>5, <1>6, <1>7, <1>8, <1>9, <1>10 DEF CatalogueNext

LEMMA NextShown == CInv /\ PInv /\ ShownTyped /\ [CatalogueNext]_catalogueVars => ShownTyped'
<1> SUFFICES ASSUME CInv, PInv, ShownTyped, [CatalogueNext]_catalogueVars PROVE ShownTyped'
    OBVIOUS
<1>1. order \in [Codes -> [row : Row, expires : Nat]]
    BY DEF PInv, ShopTyped
<1>2. shopper.pc = "order" => shopper.code \in Codes /\ shopper.row \in Product
    BY DEF PInv, ShopTyped, Shopping, Showing, NoShopper
<1>3. CASE UNCHANGED shopVars
    BY <1>3 DEF ShownTyped, shopVars
<1>4. ASSUME NEW c \in Codes, Quote(c) PROVE ShownTyped'
    BY <1>4 DEF Quote, ShownTyped
<1>5. ASSUME NEW c \in Codes, Settle(c) PROVE ShownTyped'
    BY <1>1, <1>5 DEF Settle, ShownTyped
<1>6. CASE Reuse
    <2>1. /\ shopper'.pc = "shown" /\ shopper'.sold = order[shopper.code].row /\ order' = order
          /\ order[shopper.code] # NoOrder /\ shopper.pc = "order"
        BY <1>6 DEF Reuse, Shows, Live
    <2> QED BY <1>2, <2>1 DEF ShownTyped
<1>7. CASE Order
    <2> DEFINE fresh == [row |-> shopper.row, expires |-> clock + OrderTTL]
    <2>1. PICK made \in {NoOrder, fresh} : order' = [order EXCEPT ![shopper.code] = made]
        BY <1>7 DEF Order
    <2>2. shopper'.pc = "shown" /\ shopper'.sold = shopper.row /\ shopper.row \in Product /\ shopper.code \in Codes
        BY <1>2, <1>7 DEF Order, Shows
    <2>3. fresh.row = shopper.row
        OBVIOUS
    <2> HIDE DEF fresh
    <2>4. \A c \in Codes : order'[c] \in {order[c], NoOrder, fresh}
        BY <1>1, <2>1
    <2> QED BY <2>2, <2>3, <2>4 DEF ShownTyped
<1>8. CASE ClockTicks \/ Restart
    <2>1. order' = order /\ (shopper' = NoShopper \/ shopper' = shopper)
        BY <1>8 DEF ClockTicks, Restart
    <2> QED BY <2>1 DEF ShownTyped, NoShopper
<1>9. ASSUME NEW a \in Admins,
             \/ \E c \in Codes, row \in [offer : Offers, status : Statuses] : Post(a, c, row)
             \/ \E c, target \in Codes, e \in Edit : Patch(a, c, target, e)
             \/ UpsertFind(a) \/ UpsertSave(a) \/ UpsertFails(a)
      PROVE  UNCHANGED shopVars
    BY <1>9 DEF Post, Patch, Asks, UpsertFind, UpsertSave, UpsertFails
<1>10. UNCHANGED catalogueVars => UNCHANGED shopVars
    BY DEF catalogueVars
<1> QED BY <1>3, <1>4, <1>5, <1>6, <1>7, <1>8, <1>9, <1>10 DEF CatalogueNext

LEMMA NextCatalogue == CatalogueInv /\ [CatalogueNext]_catalogueVars => CatalogueInv'
<1> SUFFICES ASSUME CatalogueInv, [CatalogueNext]_catalogueVars PROVE CatalogueInv'
    OBVIOUS
<1>1. CInv' /\ PInv' /\ WantedTyped' /\ ShownTyped'
    BY NextCInv, NextPInv, NextWanted, NextShown DEF CatalogueInv
<1>2. edits \in Nat /\ restarts \in Nat
    BY DEF CatalogueInv, EditsTyped
<1>3. edits' \in {edits, edits + 1} /\ restarts' \in {restarts, restarts + 1}
    BY DEF CatalogueNext, Post, Patch, Asks, UpsertFind, UpsertSave, UpsertFails, Restart,
           Quote, Settle, Reuse, Order, ClockTicks, catalogueVars, adminVars
<1>4. EditsTyped'
    BY <1>2, <1>3 DEF EditsTyped
<1> QED BY <1>1, <1>4 DEF CatalogueInv

LEMMA InitCatalogue == CatalogueInit => CatalogueInv
<1> SUFFICES ASSUME CatalogueInit PROVE CatalogueInv
    OBVIOUS
<1>1. CInv /\ PInv
    BY InitCInv, InitPInv
<1>2. wanted = products /\ products \in [Codes -> Row]
    BY <1>1 DEF CatalogueInit, CInv, RowsTyped
<1>3. WantedTyped
    BY <1>2 DEF WantedTyped, CatalogueInit, Row
<1>4. ShownTyped /\ EditsTyped
    BY DEF ShownTyped, EditsTyped, CatalogueInit, NoShopper
<1> QED BY <1>1, <1>3, <1>4 DEF CatalogueInv

LEMMA NextBilling == BillingInv /\ [BillingNext]_billingVars => BillingInv'
<1> SUFFICES ASSUME BillingInv, [BillingNext]_billingVars PROVE BillingInv'
    OBVIOUS
<1>1. BilInv'
    BY NextBil DEF BillingInv
<1>2. purchases \in Nat /\ waited \in Nat /\ PricesOK
    BY DEF BillingInv
<1>3. purchases' \in {purchases, purchases + 1, 1} /\ waited' \in {waited, waited + 1}
    BY DEF BillingNext, PriceNext, SetPrices, TermNext, Purchase, FirstPurchase, DayPasses, billingVars
<1>4. PricesOK'
    BY <1>2, PricesAssumption
    DEF PricesOK, BillingNext, PriceNext, SetPrices, TermNext, Purchase, FirstPurchase,
        DayPasses, billingVars
<1> QED BY <1>1, <1>2, <1>3, <1>4 DEF BillingInv

\* The state of releases, of products, edits and orders, and of plans and
\* prices has its type: no edit, in any order and however many overlap, gives
\* a product a field no administrator gave it.
THEOREM PartsTyped == PartsSpec => []PartsTypeOK
<1>1. PartsInit => PartsInv
    <2> SUFFICES ASSUME PartsInit PROVE PartsInv
        OBVIOUS
    <2>1. ReleaseTypeOK
        BY InitRInv DEF PartsInit, RInv
    <2>2. BillingInv
        BY InitBil DEF PartsInit, BillingInit, BillingInv, PricesOK
    <2> QED BY <2>1, <2>2, InitCatalogue DEF PartsInit, PartsInv
<1>2. PartsInv /\ [PartsNext]_partVars => PartsInv'
    <2> SUFFICES ASSUME PartsInv, [PartsNext]_partVars PROVE PartsInv'
        OBVIOUS
    <2>1. [ReleaseNext]_releaseVars
        BY DEF PartsNext, partVars
    <2>2. [CatalogueNext]_catalogueVars
        BY DEF PartsNext, partVars
    <2>3. [BillingNext]_billingVars
        BY DEF PartsNext, partVars, BillingNext
    <2> QED BY <2>1, <2>2, <2>3, NextTyped, NextCatalogue, NextBilling DEF PartsInv
<1>3. PartsInv => PartsTypeOK
    <2> SUFFICES ASSUME PartsInv PROVE PartsTypeOK
        OBVIOUS
    <2>1. BillingTypeOK
        <3>1. /\ plan \in Plan /\ Valid(plan.start) /\ Valid(plan.expiry) /\ Valid(today)
              /\ PricesOK /\ purchases \in Nat /\ waited \in Nat
            BY DEF PartsInv, BillingInv, BilInv
        <3>2. \A t \in {plan.start, plan.expiry, today} : t \in Date /\ t.day <= DaysIn(t.month)
            BY <3>1 DEF Valid
        <3>3. prices \in [pro : Nat, max : Nat]
            BY <3>1 DEF PricesOK
        <3> HIDE DEF Valid
        <3> QED BY <3>1, <3>2, <3>3 DEF BillingTypeOK
    <2>2. CatalogueTypeOK
        <3>1. RowsTyped /\ WantedTyped /\ EditsTyped /\ clock \in Nat
              /\ order \in [Codes -> [row : Row, expires : Nat]] /\ lastStale \in [Codes -> Int]
            BY DEF PartsInv, CatalogueInv, CInv, PInv, ShopTyped
        <3>2. shopper \in [pc : {"order"}, code : Codes, row : Product]
                \cup [pc : {"shown"}, code : Codes, row : Product, sold : Product] \cup {NoShopper}
            <4>1. shopper \in Shopping \cup Showing \cup {NoShopper}
                BY DEF PartsInv, CatalogueInv, PInv, ShopTyped
            <4>2. shopper \in Showing => shopper.sold \in Product
                BY DEF PartsInv, CatalogueInv, ShownTyped, Showing
            <4> QED BY <4>1, <4>2 DEF Shopping, Showing
        <3> QED BY <3>1, <3>2 DEF CatalogueTypeOK, RowsTyped, WantedTyped, EditsTyped, Row, Busy
    <2> QED BY <2>1, <2>2 DEF PartsInv, PartsTypeOK
<1> QED BY <1>1, <1>2, <1>3, PTL DEF PartsSpec

=============================================================================
