----------------------------- MODULE TokenUsage -----------------------------
(***************************************************************************)
(* What a proxied call is charged (internal/handlers/quota_card_proxy.go:  *)
(* quotaUnitsFromResponseBody): the token count found in the answer's      *)
(* JSON, or the units the caller named.  The children of an object are     *)
(* visited in an order that Go chooses anew each time.                     *)
(*                                                                         *)
(* An answer is a sequence of values, each naming the ones it holds among  *)
(* those before it: an object has token counts and children by their keys, *)
(* a list has items.  The last value is the answer itself.  A token count  *)
(* that is absent is 0, as int64FromAny makes it; other fields and values  *)
(* are left out.                                                           *)
(***************************************************************************)
EXTENDS Integers, Sequences, FiniteSets

TokenKeys == <<"total_tokens", "totalTokens", "input_tokens", "inputTokens",
               "output_tokens", "outputTokens">>
Tally == [{TokenKeys[i] : i \in DOMAIN TokenKeys} -> Nat]

CONSTANTS
    Tallies,        \* the counts that objects have, none of them included
    Keys,           \* the names of an object's children; one is "usage"
    Units,          \* the units that a caller names
    MaxValues,      \* bound: objects and lists in an answer
    MaxItems        \* bound: items of a list

ASSUME UsageAssumption ==
    Tallies \subseteq Tally /\ Units \subseteq Int /\ MaxValues \in Nat /\ MaxItems \in Nat

Object(tokens, kids) == [kind |-> "object", tokens |-> tokens, kids |-> kids]
List(items) == [kind |-> "list", items |-> items]
IsObject(v) == v.kind = "object"

VARIABLE body       \* the answer

usageVars == <<body>>

UsageInit == body = <<>>

\* Any upstream answer, from the inside out.
AddObject(tokens, K) ==
    /\ Len(body) < MaxValues
    /\ \E kids \in [K -> DOMAIN body] : body' = Append(body, Object(tokens, kids))

AddList(n) ==
    /\ Len(body) < MaxValues
    /\ \E items \in [1..n -> DOMAIN body] : body' = Append(body, List(items))

UsageNext ==
    \/ \E tokens \in Tallies, K \in SUBSET Keys : AddObject(tokens, K)
    \/ \E n \in 0..MaxItems : AddList(n)

UsageSpec == UsageInit /\ [][UsageNext]_usageVars

-----------------------------------------------------------------------------
\* tokenUsageFromMap: the first count in the order of the keys; an input count
\* takes the output counts with it.
MapUsage(v) ==
    IF ~ IsObject(v) THEN 0
    ELSE LET present == {i \in DOMAIN TokenKeys : v.tokens[TokenKeys[i]] > 0}
             first == CHOOSE i \in present : \A k \in present : i <= k
         IN IF present = {} THEN 0
            ELSE IF first \in {3, 4}
                 THEN v.tokens[TokenKeys[first]] + v.tokens["output_tokens"] + v.tokens["outputTokens"]
                 ELSE v.tokens[TokenKeys[first]]

HasUsage0(b, i) == FALSE                    \* mutant: "usage" is a child like the others
HasUsage(b, i) == "usage" \in DOMAIN b[i].kids /\ MapUsage(b[b[i].kids["usage"]]) > 0

\* A search through the values of K, in any order.
Counted(K, found) == (UNION {found[k] : k \in K}) \ {0}
SomeOf(K, found) == IF Counted(K, found) = {} THEN {0} ELSE Counted(K, found)

\* A search in the order of a list.
FirstOf(items, found) ==
    LET hits == {i \in DOMAIN items : found[items[i]] # {0}}
    IN IF hits = {} THEN {0} ELSE found[items[CHOOSE i \in hits : \A k \in hits : i <= k]]

\* findTokenUsage: what it may return for each value, over all the orders of
\* the children.
Found(b) ==
    LET found[i \in DOMAIN b] ==
            IF ~ IsObject(b[i]) THEN FirstOf(b[i].items, found)
            ELSE IF HasUsage(b, i) THEN {MapUsage(b[b[i].kids["usage"]])}
            ELSE IF MapUsage(b[i]) > 0 THEN {MapUsage(b[i])}
            ELSE SomeOf({b[i].kids[k] : k \in DOMAIN b[i].kids}, found)
    IN found

\* quotaUnitsFromResponseBody
Charges(units) == {IF n > 0 THEN n ELSE IF units > 0 THEN units ELSE 1 : n \in Found(body)[Len(body)]}

-----------------------------------------------------------------------------
\* The values that an answer is made of: itself, and what they hold.
Held(v) == IF IsObject(v) THEN {v.kids[k] : k \in DOMAIN v.kids}
                          ELSE {v.items[i] : i \in DOMAIN v.items}
Closed(b, S) == \A i \in S : Held(b[i]) \subseteq S
Within(b) == {i \in DOMAIN b : \A S \in SUBSET DOMAIN b : Len(b) \in S /\ Closed(b, S) => i \in S}

\* A call is charged one of the counts in its answer, never nothing and never
\* a sum of several objects' counts; the caller's units matter only when there
\* is no count at all; and the charge does not depend on the order in which
\* Go visits the children when one object counts, or the answer's own "usage"
\* does.
ChargeIsOneCount ==
    LET counts == {MapUsage(body[i]) : i \in Within(body)} \ {0}
        answer == body[Len(body)]
    IN body # <<>> =>
        \A units \in Units :
            /\ Charges(units) # {}
            /\ IF counts = {} THEN Charges(units) = {IF units > 0 THEN units ELSE 1}
                              ELSE Charges(units) \subseteq counts
            /\ IsObject(answer) /\ "usage" \in DOMAIN answer.kids =>
                LET n == MapUsage(body[answer.kids["usage"]])
                IN n > 0 => Charges(units) = {n}
            /\ Cardinality(counts) = 1 => Charges(units) = counts

=============================================================================
