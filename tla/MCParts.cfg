SPECIFICATION PartsSpec
CONSTANTS
    Builds = {b1}
    Versions = {v1}
    Texts = {t1}
    None = None
    Uploaders = {w1, w2}
    MaxUploads = 3
    MaxCuts = 1
    Codes = {pro, extra}
    DefaultCodes = {pro}
    Offers = {o1}
    FreeOffer = o0
    Keep = Keep
    Admins = {a1, a2}
    OrderTTL = 1
    MaxEdits = 2
    MaxRestarts = 1
    MaxClock = 2
    FirstDates <- FirstDays
    Prices <- PriceList
    MaxPurchases = 3
    MaxWait = 33
    Stems = {a}
    MaxEntries = 5
    Tallies <- Counts
    Keys = {"usage", "data"}
    Units = {0, 4}
    MaxValues = 4
    MaxItems = 2
INVARIANTS
    PartsTypeOK
    OfferedIsWhole
    EntriesPreserved
    EditsKept
    OldPricesFade
    RenewalsAddUp
    UpgradeMonthsFair
    PricesFair
    EntriesKeptApart
    ChargeIsOneCount
\* With every bound used up nothing is left to do.
CHECK_DEADLOCK FALSE
