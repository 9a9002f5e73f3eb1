# CLIProxyCloud in TLA+

CLIProxyCloud is a Go service (Gin, GORM, MySQL) that sells plans, keeps
credential files and quota cards, and runs tasks on its administrators'
desktop agents.  This directory models the parts of it whose correctness
depends on the order in which things happen, checks the models with TLC and
proves their main invariants with TLAPS.

1. Inventory - 2. Modules and how they correspond to the code - 3. Hard
behaviours and the properties aimed at them - 4. Runs, bounds and fairness -
5. Proofs - 6. Where code and documents disagree - 7. What is not modelled -
8. Plan

## 1. Inventory

Every HTTP request runs in its own goroutine; nothing in memory is shared
between requests, so the components interact through database rows, files and
the payment provider.

| component | state it keeps | operations | hard part |
|---|---|---|---|
| payments (`payment_service.go`) | `payment_orders`, `payment_callbacks` | quote, create or reuse, poll, provider notification, cancel, grant, regrant | whole-row saves of stale copies; grant after the save; redelivered and reordered notifications |
| plans (`plan_service.go`) | `user_subscriptions`, `plans` | `GetActiveSubscription` (which also expires), `AssignPlan`, `ResolveUserPlan` | two statements, transactional only when `grantPlan` calls it |
| XunhuPay (`xunhu.go`, external) | its own orders | register, pay, refund, close, notify, query | lost answers, notifications late, twice or out of order |
| auth files (`auth_file_service.go`, `storage.go`) | `auth_files`, `auth_file_versions`, encrypted blobs on disk | upload, download, delete, zip import | database row, version row and blob are three writes without a transaction |
| quota cards (`auth_file_service.go`, `quota_card_proxy.go`, `quota_card_usage.go`) | `quota_used` of a file row | check, upstream call, consume, report | consumption races an upload's whole-row save |
| agent tasks (`agent_task_service.go`) | `agent_tasks`, `agent_heartbeats` | create, poll (heartbeat, expire, claim), submit | check-then-insert, claim under a row lock, late results |
| sessions (`auth_service.go`, `middleware/auth.go`, `device_service.go`) | `users.session_version`, `devices`, challenges | register, verify, login, trusted login, logout, password change | session version and device rows written from stale copies, codes tested and consumed apart, trimming before the insert |
| products (`payment_service.go`, `handlers.go`) | `payment_products` | seed, create, edit, quote | edits save whole rows over one another; prices and months are computed in doubles and calendar dates |
| quota card charge (`quota_card_proxy.go`) | none | find the token count of an answer | objects are visited in random order |
| app releases (`app_release_service.go`) | package files and `latest.json`, both served to anybody | upload | read-modify-write of a file without a lock; writes in place |
| users and roles (`user_service.go`) | `users` | list, set role, ensure admin | single statements, but a role decides what logins and trimming do |
| handlers, router, middleware | none | decode, authorise, call a service, encode | none of their own |
| email, crypto, config, database, storage set-up | none | one call each | none: I/O |
| WeChat and Alipay clients | none | not reachable: `CreateOrder` accepts only Xunhu | none |

What makes each component correct:

- **payments**: nothing is granted that was not paid; a payment is granted once
  and is granted in the end; a subscription has a paid order or an
  administrator behind it; a renewal loses no time; a checkout that can be shown
  again is not doubled.
- **plans**: one active subscription per user; history rows are only closed.
- **auth files**: a row has its blob; one row per name; versions are numbered
  without a gap; blobs do not leak; earlier versions can be restored (they cannot).
- **quota cards**: charges add up and respect the limit.
- **agent tasks**: handed out once; a decided task stays decided; every task is
  decided in the end; one live task per administrator.
- **sessions**: what a login, logout or password change revokes stays revoked; a
  code is used once; an account is registered once; no more devices than the
  plan allows, and the active one among them.
- **app releases**: the manifest names every platform that was uploaded, and
  what it offers is on the disk and whole.
- **products**: an edit changes what it mentions and nothing else; a customer
  pays a former price for a few minutes at most; a longer purchase is never
  dearer per month, and renewals and upgrades count the months that were bought.
- **archives, token counts**: no entry of an archive displaces another; a call
  is charged one of the counts its answer has.

## 2. Modules and how they correspond to the code

### PaymentOrders (with PlanService)

`PlanService` is a module of operators on the rows of `user_subscriptions`:
`ActiveRows`, `LatestActive`, `Current`, `Lapsed` are what
`GetActiveSubscription` selects and expires, `CancelActive` and
`NewSubscription` the two statements of `AssignPlan`.  `PaymentOrders` extends
it and owns the state:

| variable | code |
|---|---|
| `orders` | `payment_orders`: status, purchase mode, quoted expiry, QR code, `granted_at` |
| `subs` | `user_subscriptions`, in order of id |
| `callbacks` | `payment_callbacks` |
| `prov`, `sent`, `acked` | the provider: its order states and its notifications (external) |
| `job` | what each worker (a goroutine serving a request) is doing and the row copy it holds |
| `bounds` | clock and counters, only there to bound the model |

Every request is a chain of actions, one for each database statement,
transaction or provider call: `PollFind`, `PollQuery` or `PollUnknown`,
`SaveResult`, `LogCallback`, `GrantLock` (or `GrantSkip`, `GrantRefuse`) and
`GrantCommit`.  Between two actions any other worker may move; that is where
the copies in `job` become stale.  A handler may `Fail` at any point, which
stands for an error return as well as for a crash: no state but the database
survives either.  The clock may advance between any two actions.

`GrantLock` and `GrantCommit` are two actions although `grantPlan` is one
transaction: the order row is locked from the first to the second, so no other
action writes that row in between, but the subscriptions are not locked, so
reads and writes of those may fall in between.  This is what InnoDB's row locks
give at its default isolation level; the repository sets no other.

`OrderLedger` is what all this promises, without requests, copies, statements,
locks or messages: orders are opened on fixed terms, paid, and granted in one
step with the plan they give; a second grant needs an administrator who asks
for it (`Ask`, `Withdraw`); an administrator replaces a plan in two steps, of
which the second may not come (`Revoke`, `Assign`, `Abandon`, because
`AssignPlan` is not a transaction there); and plans lapse by the clock and by
nothing else.  `PaymentOrders` implements it while requests are apart (section
5): `Bills` maps an order's row, together with whether the provider took its
money, to the ledger's entry, and `Entitlements` is what
`GetActiveSubscription` reports of each user at this instant, so that the row
it has yet to mark expired has lapsed in the ledger already.

### AgentTasks

`tasks` and `heartbeat` are the two tables, `job` the requests in progress,
`handed` a history variable that counts the poll answers a task was in.  A poll
is `PollBeat` (the upsert of the heartbeat), `PollExpire` (one `UPDATE` with a
`WHERE`), and `PollClaim` or `PollNothing` (one transaction that locks the row
it claims); the clock it read for the expiry is the one it claims by, as in the
code.  A submit reads any task of its user and saves the whole row later; a
create looks for a live task and inserts later.

`TaskBoard` is what this promises, without requests, statements and copies: a
board of entries that are queued, handed out oldest first and once, dropped when
their time is over, and closed by a report.  `AgentTasks` implements it:
`Board` maps each row of `tasks` to an entry, by `EntryState`, and
`ImplementsTaskBoard` is checked and proved.

### AuthFiles

`blobs` are the files below the storage root, identified by their path: a path
carries the time in nanoseconds and part of the content's hash, and is taken to
be new.  `files` and `versions` are the tables, `ledger` a history variable that
remembers, for each row, what was charged in all and since its last upload, and
whether a charge raced an upload.
`uploadBytes` is `UploadBlob`, `UploadFound` or `UploadNotFound`, then
`UploadSave`, `UploadLast` (or `UploadLastFails`: an error of that query counts
as no version), `UploadVersion`, `UploadClean`, or `UploadCreate`,
`UploadFirst`.  Two details of GORM matter and are modelled: `First` orders by
primary key, and `Save` of a row that has been deleted inserts it again.
`deleteAuthFile` is `DeleteFind`, `DropVersions`, `DropRow`, `DropBlob`; a
request that deletes all files does this for each, and a zip upload does
`uploadBytes` for each entry, so both are sequences of modelled requests.  The
proxy reads the card and its blob, calls the provider (anything may happen in
between, and the call may fail) and charges; a report does the same without
the call, after its token was compared with the row's.  `Charge` and `Refuse`
are the transaction of `ConsumeQuotaCard`, atomic because it locks the only row
it touches.

### Sessions

| variable | code |
|---|---|
| `users` | role, active device and `session_version`, by the column `email`, which `Addresses` says is an email address or not; role "none" while there is no row |
| `regs`, `challenges` | `registration_verifications`, `login_verifications` |
| `devices` | `devices`, each row with the trusted token it has the hash of |
| `grants` | history: the trusted tokens handed out, and which of them were revoked |
| `tokens` | the session tokens handed out; the model never forgets one |
| `job` | the requests in progress, with their copies of users and device rows |
| `overlaps` | history: how many requests began while another was served |

Registration is `BeginRegister`, `RegDelete`, `RegCreate` and later
`VerifyRegister`, `RegFind`, `RegCommit` or `RegRollback`.  The three logins -
`Login` (password), `VerifyLogin` (code), `TrustedLogin` - meet in
`finalizeLogin`, whose transaction is `TxRead`, its snapshot, and `TxCommit` or
`TxRollback`, all its writes; a logout is two actions for the same reason.  The
copy of the user that `TxCommit` counts the session version on was read before
the transaction.  `Accepted` is what `RequireAuth` tests of a token.  Which
devices are the least recently seen is left open in `Trimmed`, so trimming may
remove any that do not belong to the login itself.

`AccessBook` is what all this promises, without requests, copies, versions and
rows: who has an account and in which role, which codes may be used, who is let
in, which tokens are a user's one session, and which devices are whose and need
no code.  Nobody with an email address is let in but by a code, a trusted device
or an administrator's role; an account that is not called by an address, as the
default administrator's `admin`, needs its password alone, in whatever role
(`Recognised`); the code is gone before there is a session, and the session ends the one
before; but for a login and the clock, only a session in force ends sessions,
takes trust away or names a device; a device has one user, and a login
displaces as many as the plan requires and no more.  `Sessions` maps its rows
to it (`Roles`, `Codes`, `OpenSessions`, `Owned`, `TrustedDevices`) and the
places of the requests (`Shown`, `Admitted`); `ImplementsAccessBook` is checked and proved until two
requests overlap.

### AppReleases

`packages` and `latest` are the states of the files - absent, empty after a
truncation, torn, or whole - and `manifest` what `latest.json` held when it was
whole for the last time.  `os.WriteFile` is two steps, truncation and fill, of
which other uploads or a crash may come between; two writers of one file may
leave it torn.  `spoiled` is a history variable: the packages whose last upload
was cut short or ran beside another.  An upload is `Begins`, `SavePackage`, `LoadManifest` (or
`LoadFails`), `OpenManifest`, `WriteManifest`; `CutPackage`, `CutManifest` and
`CutBetween` end it anywhere.  `published` is a history variable: the manifest
that the uploads which went through give when one follows the other.

### Catalogue and Billing

`Catalogue` has `payment_products`, the requests of administrators who create or
edit a product (`Post`, `Patch`, then `UpsertFind` and `UpsertSave`), restarts
that seed the defaults, and a customer whose request quotes a product and then
shows a pending order again or makes one.  An offer (plan, price and texts) is
one value, and an edit keeps it or replaces it; validation refuses before any
write.  The history variable `wanted` has in each field of a product what the
last edit that mentioned it for that product gave; `recoded` are the products
that an edit of another one overwrote by naming their code.  `PaymentOrders`
does not read any of this: there the products are two constants.

`Billing` has the arithmetic that `PlanService` counts in ticks: `AddMonths` is
`time.AddDate`, `RemainingMonths` the loop of `remainingBillingMonths`,
`Amount` what `discountedAmount` computes in doubles - `Yearly` says when the
product of a price and 0.7 falls below a whole cent and the conversion drops it.
Reference definitions are `CalendarMonths`, and all months bought at once.

### Archives and TokenUsage

`Archives` is the loop over a zip archive's entries, which numbers those of one
name, followed by the uploads, each of which `AuthFiles` has in full.  A name has
two spellings, which the loop tells apart and the database (`Collate`) does not.
`TokenUsage` builds answers of the upstream provider and evaluates
`quotaUnitsFromResponseBody` on them.  An answer is a sequence of objects and
lists, each naming what it holds among those before it, so that any JSON value
is one; `Found` is, for each of them, the set of results over all the orders in
which Go may visit an object's children.

`MCParts` runs `AppReleases`, `Catalogue`, `Billing`, `Archives` and
`TokenUsage`, which share no state, in one run: `part` says which of them moves.

The other `MC*` modules only add symmetry sets, views and constants; the
`*_proofs` modules hold the theorems.

## 3. Hard behaviours and the properties aimed at them

| hazard | property |
|---|---|
| stale whole-row save over a grant, cancel or newer status | `AtMostOneGrant`, `GrantedHasSubscription`, `GrantOnlyWhilePaid` |
| failure between saving the paid order and granting it | `PaidIsGranted` |
| notifications late, twice or out of order; answers lost | `CopiesAgree`, `GrantBacked`, `AtMostOneGrant` |
| two writes of a grant | `GrantedHasSubscription` |
| cancel and insert outside a transaction, and failures between them | `OneActiveSubscription` |
| lapsed rows expired from a copy | `SubscriptionsOnlyClose` |
| check-then-insert of a checkout; a poll that saves over its QR code | `OpenCheckoutReused` |
| a cancel that closes an order just paid | `PaymentUpgrades` (violated), `PaidIsGranted` |
| arithmetic of a renewal | `RenewalAddsTime` |
| any order of polls, notifications, grants, assignments and lapses | `ImplementsLedger` |
| what was decided when an order was quoted | `NoDowngrade` (violated) |
| several devices polling; retried polls | `HandedOnce` |
| a late or repeated result | `ImplementsTaskBoard` |
| an agent that dies with a task | `TasksAreDecided` |
| check-then-insert of a task | `OneLiveTask` |
| overlapping uploads and deletes removing blobs | `NoDanglingRow` |
| failures between blob, row and version, and of the query for the last one | `HistoryKept`, `OrphansAreFailures` |
| many charges to one card | `QuotaKept` |
| any order of polls, reports, expiries and creates | `ImplementsTaskBoard` |
| uploads that fail or die half-way, torn files | `OfferedIsWhole`, `EntriesPreserved` |
| edits of a product from a row read earlier, or under another's code; restarts | `EditsKept` |
| a pending order of a former price | `OldPricesFade` |
| the ends of months, in renewals and in upgrades | `RenewalsAddUp`, `UpgradeMonthsFair` |
| doubles and truncation in prices | `PricesFair` |
| names given to an archive's entries | `EntriesKeptApart` |
| random order of an object's children | `ChargeIsOneCount` |
| session version counted on a copy | `RevokedStaysRevoked` |
| a failure between the use of a code and the login | `ChallengeLogsInOnce` |
| two registrations at once | `RegisteredOnce` |
| any order of logins, codes, logouts, touches, failures and changes of role | `ImplementsAccessBook` |
| a device row saved or trimmed by another request's rules | `TrustStaysRevoked`, `ActiveHasDevice`, `DevicesWithinPlan` |

`PROJECT.json` gives each hazard its line.  The properties themselves are
stated and explained at the end of each module.

## 4. Runs, bounds and fairness

| run | workers | asks |
|---|---|---|
| concurrent | 2 | what no interleaving of polls, notifications, cancels, refunds, grants and an administrator can break, with a failure and the clock |
| apart | 2 | of requests that keep apart: retries and reordered notifications never grant twice, an open checkout with its QR code is shown again, a user has one active subscription, a renewal loses no time, and the abstract ledger is implemented |
| liveness | 2 | a payment is granted in the end, unless a cancel closes it under its notification |
| agent_tasks | 2, one of which creates | handed out once; one live task; the abstract board is implemented, so that results stay; every task is decided |
| files | 2 | blobs and quotas under overlap; history and orphans until requests overlap |
| sessions | 2 | one request at a time: revoked sessions and trusted tokens stay revoked, a code logs in once, devices stay within the plan, and the abstract access book is implemented; two while an account is registered: one code registers it |
| parts | 2 uploaders, 2 administrators and a customer | packages, products, months and prices, archives, token counts |

and five runs that are expected to find a violation (section 6).

**Bounds.**  Two workers are enough for a stale copy: one holds it, the other
changes the row; a third only repeats one of the two roles.  One order shows
every race on an order row, two every race on a user's subscriptions.  Two
units of time let a subscription be current, lapse, and be granted again;
`concurrent`, the largest run, has one unit, and there the plan an administrator
assigns ends at instant 0, so that it lapses within the bound.  One
failure or administrator's call is enough for one that falls inside a request.

`apart` goes on only from states in which its constraint, `Apart`, holds:
`OrdersApart`, `PlansApart` and `CreatesApart` of section 5, which are what its
five properties need.  These states are of two kinds: those with one order, any
two requests that keep apart, an administrator and both units of time, in which
plans lapse, are upgraded and granted again; and those with two orders of one
product, one request at a time and one unit of time, in which a purchase may
have two orders and one may renew the other.  What overlapping requests about
two orders do, when each order's keep apart, is covered by the theorems only.

In `sessions`
three devices let `RegisterOrTouch` leave more rows than the plan's one, so that
a login must trim two; two codes and three versions let a session be replaced
and its device log in again.  Its constraint `Scope` has TLC go on from states of
two kinds: those where requests have come one by one after one registration -
with a failure and a change of role while there is one device row, and with
one of them while there are up to three - and those where up to three requests have
overlapped, with up to three codes and one device - three overlaps let a code be
deleted, or used by the other request, at any point of its use.  Of two users
one has an email address and the other has none, and one of them has an account
at a time, the latter with two device rows at most: users share nothing but the
unique device id, which refuses the
second user of a device, a step the second worker takes there as well.  One
trusted token is ever handed out; that a second one takes the place of the first
is covered by the theorem (`RevokedTrustIsGone`) only.
Three blobs let two uploads of a name overlap after a first one, which is when
one may remove the other's.  Cards have no limit or one unit, charges are of one
unit, and a row may count up to two, so that a second charge fits the bound and
not the limit; a card may be uploaded again with another limit, or as a plain
file and back.  Every bound is a
constant or a guard named `Max...`.  A month in `PlanService` is a tick;
`Billing` has the calendar.

In `parts`, three uploads of the two platforms' packages, of one version, by two
uploaders and with one that is cut short, let an upload meet a file in each of its states; two
products, one of which is seeded, with two edits, a restart and an order's life
of one tick let an order outlive the change of its product; purchases begin
on sixteen months' first, fifteenth, 28th and later days, from a December before
a common February to a leap year's March, and up to 33 days go by before the
second and third, so that a plan of a month may lapse or be renewed on each of
its last days; the prices have every last digit and lie on both sides of several
powers of two, where the rounding of a double changes; five entries of one stem,
in two spellings, let a name be numbered up to a name that an entry already has; an answer has up to
four objects and lists, so that two counted children can stand side by side or
one below the other, with four tallies for the ways in which
`tokenUsageFromMap` tells counts apart.

**Deadlock** is not checked where a cfg says so: when every request has ended
and the bounds are used up there is nothing left to do, and a server without
requests rests.

**Symmetry and views.**  Workers and orders are interchangeable wherever a cfg
uses `SYMMETRY`: no action compares them, and no run that checks a liveness
property uses it.  `SafetyView` leaves out the callback log and the provider's
acknowledgements, which no action of a safety run and no property but their
type reads; their type is what the theorem `TypeCorrect` proves.

**Fairness** is stated in `FairSpec` and only there.  A handler that is running
takes its next step (weak fairness: goroutines are scheduled and statements
return); the customer's page polls again and again (strong fairness, because
the worker may be busy whenever a poll could start); the provider redelivers a
notification until it is answered "success", which is what its protocol says;
and it sends one that was answered again finitely often (`Subsiding`), because a
retry that is already under way when the answer arrives is the only reason for
another.  Without this the same notification, over and over, could keep every
worker from serving a poll: the model serves as many requests at a time as it
has workers, the server has no such limit.  The number of failures is bounded,
so that retries may succeed.  Nobody is assumed to pay.  For the agent tasks the clock runs and each agent keeps
polling, with no assumption that an agent finishes what it was handed.

The properties of `apart` (its constraint), `OneLiveTask` (one creating worker),
`HistoryKept` and `OrphansAreFailures` (until `overlapped`), and those of
`sessions` (while `overlaps` is 0) speak of requests that do not overlap,
because with overlap the code does not keep them; for grants,
`double_grant` shows that; two logins that overlap get the same session version
and both use one code.  They are still about what failures, retries and
reordering do.  `OneActiveSubscription` is among them because `AdminAssignPlan`
runs the two statements of `AssignPlan` outside a transaction and a grant may
fall between them, which leaves two active rows.

Some properties name an exception where the code has one without any overlap,
or where the overlap is the case they are about: `PaidIsGranted` (an order closed
under its notification), `OpenCheckoutReused` (a row that lost its QR code),
`QuotaKept` (a charge that races an upload), `HistoryKept` (a failed query for
the last version), `EditsKept` (a product overwritten under its code),
`EntriesKeptApart` (an entry in another spelling, or called like a number) and
`OfferedIsWhole` (a package uploaded again whose upload died).  Section 6 says
what the code does there; the properties say that nothing else does it.

## 5. Proofs

All are for any number of users, orders, files, tasks, workers, failures and
any clock; the assumptions are the named `ASSUME`s of each module (constants
are finite sets or naturals, products are the two plans on sale), which TLC
evaluates in every run.

`PaymentOrders_proofs`.  The property `GrantBacked` - no subscription without
money - is not inductive: a worker about to grant must have seen a paid order,
and its copy must still say of the same order what the row said.  The
invariant adds what the copies of a worker at each place of a request imply
(`CopiesAgree` is its readable part): a copy that says paid belongs to an
order whose provider took the money, a row says paid only in that case, and
the order row a grant holds the lock of has not changed since.
`GrantsArePaid` follows from the lock alone.  `SubscriptionHistory` is an
action property: the list of subscriptions grows at its end, and its rows
change only from active to a closed status.

`AgentTasks_proofs`.  `HandedOnce` needs that a pending task has been handed to
nobody and that no submit brings a task back to pending; the invariant says
this of the rows and of the copies submits hold.  `ResultsAreKept` then follows
from how each action changes a row that exists (`RowStep`); no run checks
`ResultsStay`, because the board has no step that breaks it.  `Refinement` shows
that `AgentTasks` implements `TaskBoard`: each action either leaves the mapped
rows alone or is a step of the board.  What it needs of the invariant is that a
copy held by a submit has the row's owner and deadline, and that a claim takes
the oldest pending task whose time is not over.

`AppReleases_proofs`.  The invariant `RInv` says what each upload in progress
has already done (its package was begun, and filled before it loads the
manifest), that the manifest, and each copy of it, names only packages that are
whole, or begun a second time and being written or spoiled (`PackagesWhole`),
and that, until uploads
overlap, a copy that was read is the manifest, which is what was published
unless `latest.json` is unreadable (`PlatformsPreserved`).  For any number of
uploaders, packages, uploads and failures.

`Billing_proofs`.  However often a term is extended, its end slips once at
most: it has the day of the first purchase, in the month that all months
bought lead to, or an early day, the first to the third, of the month after,
which every month has and no extension moves again (`Slipped`, the invariant).
`TermsAddUp` compares that with all months bought at once.  The proof knows of
a month only that it has 28 to 31 days.

`Catalogue_proofs`.  Until two edits overlap, one administrator's request is
under way at most, and the fields it is going to save are those it was asked
for and the others as the last edits left them, but for products that an edit of
another one overwrote (`CInv`); no default product is
ever missing, so a restart inserts none over an edit.  `ProductsKeepEdits`
follows.  For `FormerOffersFade` the invariant adds (`PInv`) that an order
whose offer is not the product's, or not the one a request under way has
quoted, expires within an order's life of the product's last change.

The bounds on what an upgrade charges (`UpgradeCharges`) are about a loop, that
is, about a function that is recursive over dates.  The prover has no induction
rule for it to use, but a least counterexample does the same: `LeastNumber`
takes it from the library's well-founded order on the naturals, `CountExists`
shows with it that the recursive count is a function at all, `SpanStep` what one
more month adds, and `CountInSpan` that the count of a span of months is what
the calendar says, one more or less where the cursor has slipped.  `SpanOfTerm`
bounds the span by the months bought, from `BilInv`, which for this says that
today is not before the term's start.

`Parts_proofs`, about the components of `MCParts` that are small.  Of
`Archives`: the first entry of a name keeps it and a later one is numbered by
the entries of its name before it (`Numbered`), and an upload is in the pool or
was replaced by a later one of its name (`Kept`).  `SameName` then shows that
two equal names need an entry that came with a number or in another spelling:
numbers given to entries
of one name differ because the sets of earlier entries grow.  Of `TokenUsage`:
the invariant says that a value names only values before it, from which the
search ends (`SearchEnds`), returns a count that a value within the answer has
(`FindsOneCount`), and nothing only when there is none (`NothingFound`); all
three by least counterexample along the sequence.  `Within` is the least set
with the answer that has what its members hold.  `PartsTyped` puts the types of
three components together.

**Theorems about requests that do not overlap.**  Some properties do not
survive an overlap (section 6).  Their theorems say for how little separation
they do hold, in one of two ways.  Where the property itself says "until
requests overlap" (`Sessions`, `AuthFiles`, `Catalogue`, `AppReleases`), the
theorem is of the whole specification, and the invariant has an overlap-free
part that says what the one request under way may rely on.  Where the property
has no such clause (`PaymentOrders`, `AgentTasks`), the separation is a
hypothesis on the behaviour, `Spec /\ []H => []P`, as weak as the proof found
it: everything else may still overlap, and a single worker satisfies it.  None
of these hypotheses is used by any other theorem.

| theorem | hypothesis | still allowed |
|---|---|---|
| `GrantedAreSubscribed` | none | everything |
| `GrantedOnce` | `OrdersApart`: no two requests about one order at a time | any overlap of requests about different orders, of one user or not |
| `OneActivePlan` | `AssignsAlone`: no grant or assignment of a user's plan is between its statements while an administrator's assignment for that user is between its two | grants racing grants, and reads, lapses and cancels |
| `RenewalsAddTime` | `PlansApart`: no two grants or assignments of one user's plan between read and commit | requests of other users, polls, cancels, reads |
| `OneCheckout` | `CreatesApart`: a customer has one create request at a time | polls, notifications, cancels and grants of the order being created |
| `KeepsLedger` | `OrdersApart` and `PlansApart` | requests about different orders, of one user too, as long as their transactions and an administrator's assignments for that user do not overlap; the provider, the clock and failures |
| `LiveTaskIsOne` | `CreatesApart`: no two creates of one administrator between search and insert | every poll, submit and deadline |

`GrantedAreSubscribed` follows from the invariant, from who writes an order's
row and what (`RowWritten`), and from the fact that subscription rows are never
removed or given to another order.  For `GrantedOnce`, an order that was
granted says so in its row and in every copy of it (`GrantStamped`): no request
saves back a copy from before the grant, and a grant about to commit holds one
that does not say so.
`OneActivePlan` needs that a user whose plan is being assigned has no active
row (`Cleared`).  `RenewalsAddTime` needs that the expiry a commit holds was
counted from the plan the user still has (`RenewalBase`).  `OneCheckout` is the
longest, because the search for a pending order looks at the last order of a
purchase only: a live checkout that holds its code is that last order
(`LiveIsLast`), which is what
makes the search sufficient, and from the search to the save of the QR code
there is none beside the one being created (`NoneBeside`).

`KeepsLedger` is the refinement of `OrderLedger`.  Most of it is the two sides of
the mapping: an order's bill changes by its insert, its payment and its grant
alone (`BillsKept`), and a user's plan by a grant or an assignment for that user,
and otherwise lapses by the clock and no sooner (`PlanLeft`).  The invariant
(`LedgerInv`) has `OneActiveSubscription`, without which the latest active row
would say little about a user, `GrantStamped` and `Cleared`, and two facts about
what a job holds between read and write: the rows it is to mark expired have
expired (`LapsedOK`), and the expiry a transaction computed is still one its
order may give (`CommitOK`).  The second needs that such an end stays one as
time passes (`EndsLast`): a renewal whose former plan lapses between the read
and the commit gets the end it was promised, because a plan counted from an
instant that was now is one counted from an instant that has been.  Then each
action is one step of the ledger or none (`LedgerStep`).  Without `OrdersApart`
a stale save takes `granted_at` back (`double_grant`), which no step of the
ledger does; without `PlansApart` one of two renewals is lost.

`Sessions_proofs` also shows what one request at a time can rely on, `LoneInv`:
while `overlaps` is 0, at most one worker is busy (`Alone`), the tables agree
with each other (`TablesOk`: no token is ahead of its user's version, a trusted
token belongs to a device row, the active device has its row, a code that is
used up has logged in once), and the copy that worker holds is what the tables
say (`CopyOk`, by the place of the request).  The five theorems about logins,
devices and revocation follow from it without further assumptions, for any
number of users, devices, codes, failures and changes of role.

`KeepsAccessBook` is the refinement of `AccessBook`.  `LoneInv` says too little of
what the one request holds: the book lets somebody in who had a reason to come
in, and the reason was looked at one step before.  The invariant (`BookInv`) adds
that no two codes of one device, or of one registration, may be used at a time,
and, by the place of the request (`HoldsOk`), that a registration is of a user
without an account, that a login code is made for a user with an address, that a
login has its user's role and its code stands for its
device, that the rows it is to delete are as many as make room (`TrimOk`), and
that a request made in a session still has a token the book accepts.  Then each
action is a step of the book or none (`BookStep`).  The long cases are the two
that save a device row (`SavedBook`: what becomes of the devices and of those
trusted), and the login's commit, where rows are counted and the book counts
devices: `DisplacedRows` shows that the mapping is one to one on a user's rows.
The run has one user with an account at a time, for whom the unique device id is
nothing; the theorem is for any number.

`AuthFiles_proofs` does the same until `overlapped`: a file name has one row,
its versions are numbered without a gap and a number is given twice by a failed
query only, the job under way holds the row there is, and blobs without a row are no more than
the failures so far (`Lone`); `HistoryIsKept` and `OrphansCounted` follow.  The
count of blobs, of devices and of the entries of an archive rests on the
library's theorems about finite sets.

`LongerCostsLess` in `Billing_proofs` needs no invariant but that prices are
natural numbers: `YearlyBounds` and `HalfYearBounds` bound the two discounts
below and above, whichever way the double rounds.

**Left to TLC**, because the prover cannot reach them: the liveness properties
`PaidIsGranted` and `TasksAreDecided` (fairness and `ENABLED`).  Every other
property of a passing run is a theorem.

## 6. Where code and documents disagree

- `double_grant`: a poll that read the order before it was paid saves its copy
  over `granted_at`; the next confirmation grants again.
  `docs/cpcloud-payment-plan.md` asks for idempotent confirmations.
- `downgrade`: a Pro order left open while Pro Max is bought replaces Pro Max
  when it is paid, which `QuoteOrder` refuses.
- `notify_only`: a paid order whose grant failed is not repaired by
  notifications, only by a poll.
- `cancel_race`: a cancel that read the order as pending closes it after a
  notification has saved it as paid.  The grant finds it closed, the
  notification is answered with success, and polls return a closed order as it
  is: the customer has paid and gets nothing.  `docs/cpcloud-payment-plan.md`
  has the plan updated when the payment is notified.
- `files_rollback`: an upload removes the blob of the version before it, while
  `docs/cpcloud-database-design.md` keeps the history "for future sync
  rollback".

More behaviours are visible in the models and have no run of their own.  Every
poll of a pending order saves the provider's answer over the stored one, and
with it over the QR code by which `findReusablePendingOrder` finds the order:
the next create inserts a second order that can be paid as well
(`OpenCheckoutReused`), and if both are paid both are granted.  A PATCH of one
product that names the code of another saves the fields it does not mention
from the first over the second, so that a disabled product may be on sale again
(`EditsKept`).  A user who is not called by an email address logs in by password
alone, whatever the device; so does the default administrator `admin` after
being made a user, and whoever registers such a name (`Recognised`).  When the
query for a file's last version fails, the upload goes on and gives number 1
again (`UploadLastFails`).  A package that is uploaded again is written in place
while `latest.json` offers it, and one whose upload dies stays torn and on offer
until the next (`OfferedIsWhole`).  The
repository's `README.md:176` has an upload "preserve the other platform download
entry": two uploads that overlap both write the manifest they read, and one
entry is lost, which is why `EntriesPreserved` speaks of uploads that do not;
`latest.json` has one version for both platforms, so an upload of one platform
gives the other its version; and once a crash has left `latest.json` torn, every
later upload fails (`LoadFails`) until somebody removes the file.  A product's
`duration_days`, which `docs/cpcloud-payment-plan.md` lists, is stored and
validated but no quote reads it: a purchase lasts its months, 30 days each, made
months again by `addPlanDuration`.  The default products are on sale at price 0
from the first start on (`Seed`).  Of two administrators who edit a product at
once, the second restores what the first changed (`EditsKept` speaks of edits
that do not overlap).  An upgrade can charge one month more than was bought,
at the end of a month (`UpgradeMonthsFair`).  The proxy charges tokens while
quotas are micro-dollars, and `BillingMultiplier` is stored and never applied.
An archive whose entry is called like a number the loop gives ("a-2.json" next
to two "a.json"), or whose entries differ in letter case alone ("Key.json" next
to "key.json": the loop counts them apart, the collation of the database
`README.md:54` creates does not), stores one of them over the other
(`EntriesKeptApart`).  `PricesFair` bounds what a price may lose to the rounding
of a double; that some lose a cent is what the code does.  An
upgrade gets the expiry of the time it was quoted, not the one the subscription
has when it is paid (`GrantExpiry`), by the same cause as `downgrade`.  An upload of a quota
card saves the `quota_used` it read, so a charge committed in between is lost
(`QuotaKept` holds of a card to which that has not happened).  A call
through the proxy that costs more than what remains of the card is made and
not charged, every time, because the quota is taken after the answer.

## 7. What is not modelled

The configuration in which payments are disabled; the administrator's own plan,
which does not depend on a subscription; collisions of order numbers;
signatures, encodings, encryption and the audit log; time zones and the time of
day; the packaging of a quota card and header placeholders, which are text;
`int64` overflow of a quota; and, of an answer's token counts, negative ones and
sums that overflow.  Of sessions: the comparison of passwords and
codes, the content of a JWT and its expiry after seven days (a token that never
expires is the harder case), sending mail, and how a user's plan gives the
device limit, which is the constant `MaxDevices` (an administrator's 999 is
taken for none).  Listings and the storage of agents' status displays
(`GetHeartbeat`) only read.  No code constructs the WeChat and Alipay clients.
Email, crypto, configuration and database set-up keep no state that a step of
another component could find changed.  The HTTP handlers are modelled where
they do more than decode, authorise, call one service and encode.

## 8. Plan

Done: `PaymentOrders` with `PlanService` and the abstract `OrderLedger` it
implements, `AgentTasks` with the abstract `TaskBoard` it implements,
`AuthFiles`, `Sessions` with the abstract `AccessBook` it implements,
`AppReleases`, `Catalogue`, `Billing`, `Archives` and `TokenUsage`, with their
runs and theorems.

Every safety property of a passing run is a theorem (section 5), and the three
abstract specifications, `TaskBoard`, `OrderLedger` and `AccessBook`, are shown
to be implemented.  What could still be stated is an abstract specification of
the files, for requests that do not overlap, in the way `AccessBook` is one of
the sessions.
