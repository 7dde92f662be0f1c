# A TLA+ development of the Jaqyn services

Jaqyn is a loyalty and campaigns platform for local businesses.  The backend
(`src/backend`) is a Django REST application with Celery tasks over one
PostgreSQL database; the client (`src/frontend`) is one Next.js application for
customers, owners and staff, on top of TanStack Query.

Two kinds of questions are hard to test in it, and the modules are about them:

* *On the server: what may two request handlers and a task do to the same rows?*
  The database runs at READ COMMITTED, views are not atomic as a whole, services
  take row locks where they think it matters, and many saves write every column of an object
  loaded earlier.  The modules make each unlocked read and each
  save a step of its own, and leave what happens under one lock as one step.
* *In the browser: what does a page make of answers that are late, lost, out of
  order, or about something it no longer shows?*  A mutation is sent, served and
  answered in separate steps; its hook's callbacks always run, its component's only
  while that is mounted; a cached answer may be old.

## 1. The system

| Part | State it keeps | Operations | What makes it hard | What makes it correct |
|---|---|---|---|---|
| **Loyalty cards** `apps/loyalty` | program row, one card per customer, append-only ledger | award, redeem points, pause/activate/archive, PATCH | concurrent awards; the program object is older than the lock; vouchers leave the bank while it is counted | the card equals its ledger; a voucher per cycle; the bank cap |
| **Loyalty vouchers** | voucher rows, catalog items | mint, choose item, redeem, expire | choosing is an unlocked check and a later save | honoured at most once; never names a removed item |
| **Campaign vouchers** `rewards.py` | voucher rows, warning stamps | issue, choose, redeem, present, cancel; two tasks | "present" saves over what it read; a claim commits before its tasks are queued | honoured at most once; overdue ones leave; warned at most once |
| **Visits and joining** `progress.py`, `eligibility.py` | participants, counted actions | join, record action, complete | last reward, two tills, a clock read before a wait | visits add up; caps |
| **Group sessions** `group.py` | groups, members | start, join, leave, confirm; expiry task | last seat; two lock orders; a full group that loses a member | one voucher per group; seats; settled stays settled |
| **Campaign lifecycle** `campaign.py` | the campaign row | edit, publish, pause, resume, end, cancel; two tasks | decisions on a row loaded earlier | only what was published runs; what is over ends |
| **Till** `staff/scan/page.tsx` | open sheet, busy latch, kept bill, seven mutations | scan, choose, confirm, redeem, dismiss | answers after a dismissal; a chooser resolved again under an open sheet | what is shown is what was scanned; the camera never stays dead |
| **Browser session** `client.ts`, `tokens.ts`, `auth.ts` | stored tokens and account id, cached `/me` | sign-in (six ways), refresh, sign-out, guards | a refresh that outlives its session; a second tab; guards on a cached account | one account; every request ends; no circle of redirects |
| **Pages** `apps/web/app` over `packages/api` | form state, cached queries, mutations under way | 26 pages, section 2 | stale caches, autosave, retries, unmounted components | a form sends and keeps what was typed; nothing is made twice; a page at rest is right |
| Staff scanner, tiers, patches, accounts, businesses, staff, notifications (server) | rows | as the pages use them | - | modelled as far as a page's answers depend on them |
| Reporting, QR tokens, leads, system, interface kit, dashboards, deployment | - | - | - | not modelled, section 6 |

How they interact: the scanner resolves a QR token to a customer, a voucher or a
group and calls the award, visit, confirm and redeem services; completing a visit or a
group issues a campaign voucher *inside* the same transaction; redeeming it
updates the participant row that visits read; Celery beat runs
the tasks every 15 or 60 minutes (`config/celery.py`), once or never: without `acks_late`
and retry.  The pages see all this through polling and invalidation.

Every part is in `PROJECT.json` under `components`; each thing that is hard to
test is listed with its line under `hazards`.

## 2. The modules

```
VoucherPromise               what any reward voucher promises (abstract)
  ^ implemented by             ^ implemented by
LoyaltyVoucher               CampaignVoucher <--- extended by CampaignVisit
LoyaltyCard   CampaignLifecycle   GroupSession   StaffScan   WebSession

WebPage                      a mounted page, its queries, its mutations
  ^ LoyaltyPages  CampaignPages  OwnerPages       CustomerPages
                                 ^ SetupPages      ^ RewardPages  QrPages
                                    ^ PlacePages (both)
                                       ^ HomePages
  ^ WebPages                 all pages over one cache; the only one with Spec
*_proofs                     theorems about the module they extend
MC*                          constants and symmetry for TLC
```

### The server
**LoyaltyCard.** One program and its members.  A handler runs in three steps:
`AwardBegin`/`RedeemBegin` is the view, which loads the program;
`LockMembership` is `select_for_update` and the count of active vouchers;
`AwardCommit`/`RedeemCommit`/`RedeemRefuse` writes what was computed from those
reads.  `Rollback` is every other refusal and a worker that dies.  `LoopEnds` describes the stamp loop by where it ends; what a bill is worth is
`PointsEarned`.  Owner edits are a read and a save of every column.  `spent` is a
history variable.

**VoucherPromise, LoyaltyVoucher, CampaignVoucher.**
`VoucherPromise` has three steps - issue, honour, lapse.  The concrete
modules implement it under *live = ACTIVE rows, spent = the other
issued rows, honoured = how often the reward was handed over*.  An overdue loyalty
voucher is refused and its EXPIRED rolled back with the refusal; an overdue campaign
voucher is refused after its EXPIRED committed.  The status of a loyalty voucher is not looked at when an item is
chosen.

**CampaignVisit.** One campaign, its visits, joins and vouchers: it extends
`CampaignVoucher` and takes over its steps (`CampaignInit`, `CampaignNext`, `CampaignSpec`).
A visit is `VisitBegin` (the clock is read), `VisitLock`, `VisitCheck`,
`VisitCommit`.  `SetStatus` may move between any two statuses, because stale handlers may.

**GroupSession.** `select_for_update` on a query with `select_related` locks the
joined rows too, so join and leave lock the group and *then* the campaign, while
confirm locks the campaign and then the group (`LockOrder`).  `DeadlockVictim` is
the database's detector.  `StartBegin`/`StartCommit` lock nothing.  `CancelVoucher` is
a manager cancelling the voucher a group earned, which `check_reward_limit` then no longer
counts (`IssuedSoFar`); `PresentVoucher` is the stale save that makes it EXPIRED, and counted,
after all.  `revoked` remembers the cancellation either way.

**CampaignLifecycle.** The owner's requests as load and save, the tasks as the single UPDATEs they
are.  `slips` remembers whether a request was saved over a row that had changed
("stale"), and whether a SCHEDULED campaign was edited ("late").

### The browser
**StaffScan.** The page of the till: one action per sheet (`LoyaltyChooserSheet`,
`AmountSheet`, ...), the disjunction of what its controls call; `handleScan`,
`dismiss` and `continueToChooser` as the page has them.  `requests` are on their way in any
order; `observed` is the one request each hook still listens to, which `reset` and
a newer `mutate` change.  `Serve` is what the backend may answer.  A refused confirmation is answered with 200 and shown as counted,
as the code does.

**WebSession.** A token is the account it was issued to; whether it has expired is the server's
choice at each request.  `Unauthorized`, `refreshAccess` and `Answer` are `request()` in
`client.ts`; `Redirect` is the guards; each form is an action (`CodeStep`,
`ActivateInner`, `ClaimCodeStep`, ...).  An answer may find another page mounted or another
session stored: nothing in the code checks the second.

**WebPage.** What all pages share.  `calls` are mutations under way: sent, served
(`ServedWith`; in two steps for handlers that save a row loaded
earlier), answered or lost.  `seen` are queries: cached answer, fetch under way,
known to be old (`stale`), failed (`bad`), or having missed a change for want of an answer (`missed`).

| Module | Pages (`page`) |
|---|---|
| LoyaltyPages | wizard with its ladder of levels (`loyaltyNew`; texts become numbers by `Number` and `Integer`, and the server reads them twice, `serializerAccepts` and `validateTiers`), detail with lifecycle and settings (`loyaltyDetail`) |
| CampaignPages | form with photo (`campaignNew`), detail (`campaignDetail`), social-post studio (`campaignPost`) |
| OwnerPages | onboarding with autosave (`onboarding`), settings sections (`settings`), `menu`, `gallery`, `team` |
| SetupPages | onboarding steps 3 and 4 (`setup`, `staffing`), submission from the settings (`overview`) |
| PlacePages | the picker of a place (`contact`), map and list (`nearby`), one business (`business`) |
| HomePages | which cards are in front, and the carousel (`heroes`) |
| CustomerPages | notices (`home`), campaigns tab (`tab`), one campaign (`offer`), group route and row (`group`) |
| RewardPages | campaign voucher (`voucher`), wallet (`wallet`), patches (`board`), `profile` |
| QrPages | the QR sheet and page with their wake lock (`qr`) |

`WebPages` puts them together: `Pages` is the user, `Handle` the server,
`Answer` an answer or its loss, `Fetch`, `FetchFails` and `Refetch` the cache.

## 3. What TLC checks

| Run | Question | Bounds, and why they are enough |
|---|---|---|
| `LoyaltyCard` | Do racing awards of 1 and 3 items, visits, bills and redemptions keep the card, the vouchers and the cap right, is every voucher earned, and is each request answered? | two handlers, three requests, one card (cards are independent rows); types stamp with a bank of two, points with a minimum, visit, and the owner moves between them: one award completes 0 to 3 cycles, hits the cap in the middle, carries stamps over |
| `LoyaltyVoucher` | Do loyalty vouchers keep the promise, and name only items that exist? | two vouchers, two items, two screens |
| `CampaignVoucher` | Do campaign vouchers keep the promise, do overdue ones leave, is the owner warned once, what may the wallet show? | two vouchers, so that the bulk UPDATEs meet mixed rows |
| `CampaignVisit` | Do visits add up; do the caps on rewards and days hold? | two tills, two customers, two days, three visits; once and repeatable, one or two rewards |
| `GroupSession` | One voucher per group, the reward cap, seats, size, settled groups | two groups of two, three customers, one reward, six requests; a manager may cancel any group's voucher |
| `GroupLiveness` | Is every request answered in spite of the two lock orders? | one group: the deadlock needs one |
| `CampaignLifecycle` | Does only what was published run, what is due start, what is over end? | two overlapping requests out of four; a clock of 0..3 around starts and ends |
| `StaffScan` | Is what the till shows about the code scanned last, and does every scan end in a sheet or a live camera? | two customers, vouchers of one, a group, one row per mechanic; two requests under way, so that one of an earlier scan meets one of the next |
| `WebSession` | Do the stored tokens belong to one account, does every request end, do redirects end? | two accounts of different areas and another tab; one request of this tab, which a sign-out and a sign-in may overtake |
| `WebPages` | The eight page properties below | 26 pages, one open at a time; two mutations under way and every query's fetch |

The page properties, each over every order and loss of answers:
`LadderKeepsRules` (a ladder the form sends keeps the backend's rules of the ladder as a whole),
`LadderCountsMembers` (each member at or above the first threshold is counted in one rung),
`CreatedOnce` (a failed photo, a retry or a double click never makes a second campaign),
`AutosaveSendsForm` (the last autosave carries the form, and the server ends up with it),
`TypedStays` (once the form is filled, no refetch replaces what was typed),
`LeaderSeesGroup` (a started group that is still open is what its leader sees),
`EarnMomentOnce` (a patch is celebrated at most once in a visit to the board), and
`SettledIsCurrent` (with nothing under way, a cached answer not known to be old is the server's).

Properties name the exception where the code has one:

* `WalletReflectsReality`: `present_voucher` may turn REDEEMED or CANCELLED into EXPIRED once it
  is overdue; a revoked voucher then counts against `max_rewards` again, so
  `RewardCap` counts vouchers no manager revoked.
* `GroupRewardCap` leaves out cancelled vouchers for the same reason.
* `CreatedOnce`: unless a create was served and its answer lost (`untold`); that reads as a refusal,
  the form opens again, and sending it makes another campaign.
* `AutosaveSendsForm`: unless the last save failed, or an earlier one, still under way, was
  served after it (`late`); saves are not held back for each other.
* `TypedStays`: what is typed before the first load is overwritten by it.
* `EarnMomentOnce` is about one visit: a lost mark, or a cache filled before it, celebrates again on the next.
* `ConfirmedAtFullSize`: unless a member had left; their row is counted by confirm.
* `RunsComplete`: unless edited while SCHEDULED; `update_campaign` does not run the gate again.
* `DueStarts`: an edit may remove a `start_at`; such a campaign is never due.
* `OneAccount`: unless an answer outlived its session or an invitation was taken
  since the last sign-in (`mixed`).  A late refresh does write into, or clear, a newer session;
  activation and claim store tokens but no account id.  What is left is that nothing else mixes them.
* `SettledIsCurrent` leaves out a campaign's vouchers and the queries mutations write into.

### Bounds of the pages
Pages do not navigate into each other.  A campaign is either managed or posted
about, and a draft has no vouchers.  A settings form is changed to one other
value; the owner works on two sections, or one and its images.  Onboarding's
steps 3 and 4 are one step there and have pages of their own; a submission is sent
back, never approved.  Two items in the menu, a gallery of two, a team of two,
two notices.  The campaigns tab has targets of two visits, and one completion.
Groups of two, and two groups; neither poll of a group starts during a fetch; the
server opens a group in one step.  The wallet is opened for its business, one voucher in it is
redeemed.  Two patches.  A level's name is one of four, its numbers three texts.  One word to search
beside the first, two businesses nearby.  Three home cards, two queries; the carousel
is dragged while nothing is fetched.  Two late wake-lock requests.

### Disagreements TLC finds
Runs that expect a violation (`findings` quotes sentence and line):

| Run | What happens |
|---|---|
| `GroupSlot` | the seat of a member who left a full group cannot be filled: the rows of members who left are counted |
| `WinMoment` | the overlay for a filled cup does not open: it waits for `completed` in a list the feed drops completed campaigns from (a list read while the visit is being counted could still show it) |

The following definitions are in the modules too, marked "Refuted" in their
comment; TLC violates each when it is put into the cfg (on the page named), and
none is in a run:

| Definition | What happens |
|---|---|
| `CampaignVisit!ParticipantCap` | two joins take the last place |
| `GroupSession!NoRewardWhilePaused` | a group is confirmed while its campaign is paused or ended |
| `CampaignLifecycle!EndedStaysEnded` | a stale pause or resume revives a campaign the task ended |
| `StaffScan!SpinnerShowsInFlight` | a second row confirmed takes the spinner, and the first can be confirmed again |
| `WebSession!RedirectFollowsOwnArea` | after a sign-in the guard still redirects by the account before |
| `CampaignPages!StudioKeepsEdits`, `VoucherTableIsCurrent` | a refetch replaces an edited post; a cancelled voucher stays active in the table (`campaignPost`, `campaignDetail`) |
| `LoyaltyPages!LadderAccepted` | `TierEditor.tsx:28` says it mirrors the backend's rules; a name of 70 letters or a percentage of 3.333 is sent, and the serializer refuses it (`loyaltyNew`) |
| `OwnerPages!NeverBlockedLater`, `GalleryCap` | a logo passes the step and then fails to upload; two uploads exceed the limit (`onboarding`, `gallery`) |
| `SetupPages!PasswordKept`, `TeamCap`, `SubmissionKept` | the next account's one-time password replaces the first; nobody counts the team; a section saved at once undoes a submission (`staffing`, `overview`) |
| `PlacePages!ResultsMatchQuery`, `MarkerShowsPlace`, `PinsShown` | an older search is shown; the marker stays in the city centre; a ready map has no pins (`contact`, `nearby`) |
| `HomePages!NewHomeForNew`, `HeroNotRepeated` | whoever is offline gets the new customer's home; the wrong card is left out of the list (`heroes`) |
| `QrPages!AwakeWhileShown` | a wake lock granted late is never released (`qr`) |

### How the properties are tested
Each property of a passing run has a mutant: a definition `X_Something` beside
`X`, the code with a plausible slip, under which TLC finds it violated.
Symmetry is used in safety runs only.  Deadlock is checked except where the
bounded system really stops (each such cfg says so).

### Fairness
* `LoyaltyCard`, `GroupSession`: a waiter for a row lock is granted it
  eventually (strong fairness: PostgreSQL queues waiters, the row is
  free again and again); a handler that has what it needs commits or refuses
  (weak fairness); the deadlock detector runs after `deadlock_timeout`.
* `CampaignVoucher`, `CampaignLifecycle`: the beat schedule runs its tasks
  for ever (`config/celery.py:16-23`), and time passes.
* `StaffScan`: a request is served or lost, and its answer delivered: the browser's
  `fetch` settles.
* `WebSession`: requests are answered, and effects that redirect do run.

No fairness is assumed of customers, owners or staff; `WebPages` assumes none.

## 4. What is proved

TLAPS proves the following for every number of customers, handlers, vouchers,
groups, accounts, requests and mutations under way, and every configuration the assumptions
allow.  For the pages that is any names, number texts, ladders, members and
limits; the small data written into a page's module ("Bounds of the pages") bounds the theorems too.

| Module | Theorem | States |
|---|---|---|
| `LoyaltyCard_proofs` | `TypeCorrect` | `TypeOK`: in particular no balance, stamp or visit count goes below zero |
| | `CardsBalance`, `VouchersBacked` | `CardMatchesLedger`, `VoucherPerCycle` |
| | `BankCap`, `EveryVoucherEarned` | `BankCapRespected`, `VouchersEarned` |
| `LoyaltyVoucher_proofs` | `LoyaltyKeepsPromise` | `Promise`: the refinement of VoucherPromise |
| | `HonouredAtMostOnce`, `SpentStaysSpent` | what the promise amounts to for these rows |
| | `ItemsExist` | `ItemExists` |
| `CampaignVisit_proofs` | `KeepsPromise`, `HonouredAtMostOnce`, `SpentStaysSpent` | the same of campaign vouchers |
| | `WalletTrue`, `WarnedOnce` | `WalletReflectsReality`, `WarnedAtMostOnce` |
| | `NoVisitLost` | `VisitsAddUp`, type correctness included |
| | `RewardsCapped`, `DaysCapped`, `CyclesRewardedOnce` | `RewardCap`, `DailyCap`, `VoucherPerCycle` |
| | `CampaignKeepsPromise` | the composition implements VoucherPromise too |
| `GroupSession_proofs` | `GroupsEarnOnce`, `GroupRewardsCapped` | `OneVoucherPerGroup`, `GroupRewardCap` |
| | `SeatsLimited`, `ConfirmedGroupsFull`, `SettledGroupsStay` | `SeatsNotOversold`, `ConfirmedAtFullSize`, `SettledForGood` |
| `CampaignLifecycle_proofs` | `TypeCorrect` | `TypeOK` |
| | `PublishedRuns`, `CompleteRuns` | `OnlyPublishedRuns`, `RunsComplete` |
| `StaffScan_proofs` | `AwardsGoToWhomIsShown`, `CameraNeverLeftDead` | `ShownIsScanned`, `StoppedCameraHasScan` |
| `WebSession_proofs` | `StorageIsOneAccounts` | `OneAccount` |
| `WebPages_proofs` | `CacheIsCurrent` | `SettledIsCurrent`, type correctness of calls and cache included |
| | `FormCreatesOne`, `SavesWhatIsSeen` | `CreatedOnce`, `AutosaveSendsForm` |
| | `FormKeepsTyped`, `CelebratedOnce` | `TypedStays`, `EarnMomentOnce` |
| | `WizardSendsLadders`, `LevelsAddUp` | `LadderKeepsRules`, `LadderCountsMembers` |
| | `LeaderKeepsGroup` | `LeaderSeesGroup` |

With these every invariant the passing runs check is a theorem, and so is every
action property and the refinement; what is left to TLC is liveness.

*Assumptions.* `ConfigAssumption`, `TermsAssumption` (`required` is the code's
`required_count or 1`; caps and minima are positive-integer columns),
`CapAssumption` and `SizeAssumption` (the columns `max_rewards` and the size the publish gate
asks for), `CalendarAssumption` (a last day, any number), `AmountAssumption`
(quantities 1 to 30 by the award serializer, amounts not negative),
`SelectionAssumption` (the two ways to choose a reward), `StaffScanAssumption` and
`WebSessionAssumption` (each voucher has an owner, each campaign row a mechanic, each
account an area), `LoyaltyPagesAssumption` (only the empty name has an empty lower
case, a program's members are finitely many, "0" and "5" are the numbers they look like, whole
numbers are whole in thousandths too), `OwnerPagesAssumption`,
`SetupPagesAssumption` and `HomePagesAssumption` (limits are positive), `WebPageAssumption` (finitely many calls), and that `None`/`Null` is no row, handler, code, account or
number.  None bounds a size from above.  TLC evaluates all of them in the runs.

None of the properties is inductive, because a handler writes what it *saw* and
a page shows what it was *told*.  Each proof therefore says what is still true of
that, and TLC checked each such invariant on a small instance first.

*Cards.* `IInv == TypeOK /\ FiniteBanks /\ LockInv /\ BooksInv`, where `LockInv`
says that a locked handler holds the row and that the row still is what it saw - true
because every writer of the row holds the lock - and `BooksInv` is the books in
terms of the rows.  The cap needs one thing more,
`BankInv`: vouchers only *leave* the bank behind the handler's back, so the bank
it counted is at least as large as the bank there is.  That is the reason the
unlocked count is sound.  `VouchersEarned` needs `PriceInv`: the cycles on a card were paid for in stamps and
visits at some price the owner asked, none below the cheapest; each commit pays for its cycles at the price of the
program it had loaded, however old that is.

*Vouchers.* `RowInv` gives each row its type; then each action
maps to a step of `VoucherPromise` or to a stutter.  The stale save of
"present" is the interesting case: it lapses a live voucher or
turns one spent status into another, which the promise cannot tell apart.
`WalletInv` can: what the row shows is what happened, unless it shows EXPIRED and is overdue.
For the warning, `WarnInv` says that the stamp is there before the task is, so a
voucher on the queue was never warned about.  `PromiseInv` is inductive for the
abstract steps; `HonouredAtMostOnce` and `SpentStaysSpent` follow from it and the refinement.

*Visits.* `Shape` is what the lock on the campaign row gives: one visit at a time is
past it, and the progress it saw is the progress there is.  Its status may be
older in one way only, a join created meanwhile, because joins take no lock.  On top of it stand four
invariants: a checked visit has room under the reward cap (`CapInv`: meanwhile
others only redeem, expire and revoke) and on its day (`DayInv`: what it counts runs to the
end of the calendar, so a late clock only counts more); a customer rewarded once
reads COMPLETED or REDEEMED (`CycleInv`: the mark is made in the step that issues); a
repeatable cycle is reset when it fills (`CountInv`).  Visits are sums over days; `DayInduction` gets
induction over the finite calendar from the library's theorem that a non-empty set of
naturals has a least member.

*Groups.* Join and confirm take the same two locks in opposite orders; `LockInv`
is silent about the order: whoever commits holds *both*, and the group and the
count of rewards are what it saw.  From that a group is rewarded in the step that completes
it, at most once.  For the cap: vouchers are cancelled and presented without that
lock, but the count a confirm saw is never below those nobody ever cancelled, because these are
only issued under it.  `SeatInv` counts rows, those of members who left included, as the
code does.

*Lifecycle.* A stale edit saves an old status and a stale
transition decides on one, so `OnlyPublishedRuns` needs the same of every row a
request has loaded: `PublishedInv`.  `GateInv` does not, because a save over a changed row
leaves a slip.

*Till.* `PageInv` is about what the page holds, `NetInv` about the requests. The bridge
between them is one sentence: a request some hook still listens to was sent for the code
scanned last.  It survives because `dismiss` stops listening to every hook before the next code can be
scanned; requests nobody observes may say anything.

*Session.* Unless `mixed`: the three stored values agree, and (`Fits`) a request that belongs
to the stored session carries its token, or reads it while it refreshes.  Every
sign-in, sign-out and change by another tab disowns the requests under way, which is why
only an answer that outlived its session can mix accounts.

*Pages.* 26 pages share one cache, so the proof first says what any step is to
the cache and to the calls, and only then looks at a page.  `Orderly`: a page's calls
are among those it sends (`OpsOf`), its queries among those it has (`KeysOf`), and both are
well-formed.  Every step is one of six kinds: the page goes on (`Proceeds`), someone
else changes the server (`Changes`), the user leaves (`Leaves`), a handler does one
thing (`HandleStep`), an answer arrives or is lost (`AnswerStep`), a query is fetched
(`FetchStep`).  `Fresh`, the invariant behind `SettledIsCurrent`, gives each cached answer one of three
excuses: a call that touches it has been served but not answered (`Covered`), it is
known to have missed something (`missed`), or it is `Current`, which includes what a fetch
under way has already read.  A served call turns "current" into "covered", its answer
invalidates what it covered, and a fetch reads what the server holds; that the hooks'
invalidation lists name every query their handler touches is the content of the theorem.

The other seven follow from an invariant of one page each.  `CreateInv`: unless the form is
submitting, failed or leaving, every campaign the server has is one the form was not told of (`untold`), and
otherwise at most one is not; at most one call creates
one, only while the form is submitting.  `SaveInv` ties the form to the timer, to the save the
wizard follows, or, with neither and no excuse, to the server's row; it needs that the business the form was seeded from is not fetched
while the wizard is open (`MeCached`).  `TypedInv`: what was typed is in the form, and nothing counts as typed before the form is filled.
`BoardInv`: the moments shown and the queue are one sequence without repetition,
filled by one answer.  `LadderInv`: the editor keeps a first level and never exceeds
the cap, and what is under way or saved keeps the rules of a ladder (or is none).
Its levels then partition the members (`RungsPartition`, from thresholds that ascend),
and `SumCountsParts` shows that the library's fold adds the parts up, by the least counterexample
in place of induction.  `GroupInv`: while the group started here is open,
the cached list and any list already read have it.

Three things were corrected on the way.  Two guards of the `CASE` in `WebPages!View` overlapped
on the onboarding page: TLC takes the first, the definition leaves the choice open.
The editor's new level started at five visits whatever the level before
(`TierEditor.tsx:130` adds five to it), which a cap of two levels could not show.
And `LeaderSeesGroup` made an exception for answers that were lost, which
the proof did not need; the property no longer has it.

*Only model-checked.*

* Liveness under fairness (`RequestsEnd`, `GroupRequestsEnd`, `OverdueLeaves`,
  `OverdueEnds`, `DueStarts`, `ScanSettles`, `WebRequestsEnd`, `RedirectsEnd`): outside
  this prover's reach, as is ENABLED.
* The library's induction theorems take an operator as a parameter, which the provers cannot
  instantiate.  Where a proof needs induction it takes a least counterexample (`DayInduction`, `LeastNatural`);
  that `LoopEnds` describes the code's `while` is argued in its comment, not proved.

## 5. Running it

`tlc -config X.cfg M` with the pairs of `PROJECT.json`; `WebPages` has about six
million states and takes some minutes, StaffScan and WebSession one or two, the others less.  To look at one page, leave
only its name in `OpenPages`.  `tlapm M_proofs.tla` checks a module's proofs.

## 6. Not modelled

* `award_batch` (several memberships in one transaction) and the scanner's choice
  among several campaigns: StaffScan takes the answers of a scan as they may be.
* How patches are earned (`evaluate_patches`), the life cycle of one-time codes, pitch
  claims on the server, trials, demos, and the cache of the discovery feed, which may
  be filled again with an old payload after it was cleared (`businesses/discovery.py`).
* Administrators' overrides (`reporting/services.py`): unlocked status writes and
  progress adjustments.  The properties speak of the product's own flows.
* Of the browser: image uploads past a 401, retries and garbage collection of the query
  cache, texts and layout, pages that only list (dashboards, reports, activity,
  rankings), the landing site, drawing of maps.
* Leads, the system row, message delivery, the fraud sweep (it flags rows for
  review), deployment.

## 7. What could come next

Every safety property the runs check is proved.  To model: how patches are
earned, `award_batch` with its several locks, administrators' overrides, and the
cache of the discovery feed (section 6), and each hazard of `PROJECT.json` that has
a note in place of a property.  To prove: the properties marked "Refuted" once the
code is changed to satisfy them, and the pages' theorems for data of any size
(patches, menus, galleries), which needs those sets as constants.
