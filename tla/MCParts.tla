------------------------------ MODULE MCParts -------------------------------
(***************************************************************************)
(* Small instances for TLC of the components that share no state with the  *)
(* others or with each other: one of them runs.  Of Billing the prices and *)
(* the terms are two of them, for nothing relates a price to a date.       *)
(***************************************************************************)
EXTENDS AppReleases, Catalogue, Billing, Archives, TokenUsage

VARIABLE part

partVars == <<part, releaseVars, catalogueVars, billingVars, archiveVars, usageVars>>

PartsInit ==
    /\ part \in {"releases", "catalogue", "prices", "terms", "archive", "usage"}
    /\ ReleaseInit /\ CatalogueInit /\ BillingInit /\ ArchiveInit /\ UsageInit

PartsNext ==
    /\ UNCHANGED part
    /\ \/ part = "releases" /\ ReleaseNext
            /\ UNCHANGED <<catalogueVars, billingVars, archiveVars, usageVars>>
       \/ part = "catalogue" /\ CatalogueNext
            /\ UNCHANGED <<releaseVars, billingVars, archiveVars, usageVars>>
       \/ part = "prices" /\ PriceNext
            /\ UNCHANGED <<releaseVars, catalogueVars, archiveVars, usageVars>>
       \/ part = "terms" /\ TermNext
            /\ UNCHANGED <<releaseVars, catalogueVars, archiveVars, usageVars>>
       \/ part = "archive" /\ ArchiveNext
            /\ UNCHANGED <<releaseVars, catalogueVars, billingVars, usageVars>>
       \/ part = "usage" /\ UsageNext
            /\ UNCHANGED <<releaseVars, catalogueVars, billingVars, archiveVars>>

PartsSpec == PartsInit /\ [][PartsNext]_partVars

\* Every component's state has its type.
PartsTypeOK == ReleaseTypeOK /\ CatalogueTypeOK /\ BillingTypeOK

\* From December 2022 to March 2024, a leap year: days that every month has,
\* and those that some have not.
FirstDays == {t \in [month : 24275..24290, day : {1, 15, 28, 29, 30, 31}] : t.day <= DaysIn(t.month)}

\* No count, a total beside a part, both parts, and one of them; in either
\* spelling.
NoTokens == [k \in {TokenKeys[i] : i \in DOMAIN TokenKeys} |-> 0]
Counts == {NoTokens, [NoTokens EXCEPT !["total_tokens"] = 3, !["inputTokens"] = 5],
           [NoTokens EXCEPT !["input_tokens"] = 3, !["output_tokens"] = 5],
           [NoTokens EXCEPT !["outputTokens"] = 5]}

\* Every last digit, on both sides of several powers of two, and prices in the
\* range that plans have.
PriceList == 0..30 \cup {990, 1990, 3490, 4990, 9900}

=============================================================================
