# Agrocylo-PIP: formal models

TLA+ models of the Agrocylo Production Investment Protocol: farmers open campaigns, investors fund
them through an escrow contract on Soroban, a registry contract mirrors and logs what happens, a
server indexes the escrow's events, and a web client shows all of it. The modules are translated
from the code; TLC checks them on small instances, and TLAPS proves most of the safety properties,
and that the escrow implements its abstract ledger, for every value of the constants.

## 1. Inventory

| Part | State | Operations | What is hard about it |
| --- | --- | --- | --- |
| `contracts/production_escrow` (`lib.rs`, `storage.rs`, `events.rs`), `contracts/escrow_types` | admin, registry address; per campaign: the `Campaign` entry, contributions, dispute, tranches, harvest record; the token balance of the contract | `initialize`, `set_registry`, `create_campaign`, `fund_campaign`, `receive_contribution`, `complete_funding`, `configure_tranches`, `release_tranche`, `report_harvest`, `open_dispute`, `resolve_dispute`, `claim_refund`, `settle_campaign`, `mark_failed`, `expire_campaign`, `claim_return` | long sequences of legal calls over four money counters; two funding paths; solvency looks at one campaign at a time; rounding; deadlines |
| `contracts/registry` | admin, approved contracts, farmers, campaign info, campaign records, three enumerations, paged farmer lists and activity log | `initialize`, `update_admin`, `approve_contract`, `revoke_contract`, `register_farmer`, `register_campaign`, `link_campaign_escrow`, `update_campaign_status`, `record_activity`, `reconcile_campaign_status` | two ways to enumerate a campaign; pages that roll over; ids claimed separately from the escrow |
| Escrow and registry together | the mirror `CampaignRecord.status` | registry calls inside escrow transactions (`notify_registry`), reconciliation | roll-back of the whole transaction; transitions that tell the registry nothing |
| `server/src/indexer/soroban-event-listener.service.ts` | `lastProcessedLedger`, `processedEventIds` in memory, `IndexerCursor` rows | `startListening`, `pollEvents`, `persistCursor`, `loadCursor` | every `await` is an interleaving point; the timer may start a second poll; page cap; restart; lost calls |
| `server/src/indexer/parsers/event-parser.service.ts`, `server/prisma/schema.prisma` | tables Campaign, Investment, Tranche, Dispute, Transaction, User | `processEvent`, `persistEvent`, one handler per event | several writes per event without a transaction; errors are swallowed; order of two events of one invocation |
| `server/src/websocket` | sockets, their rooms and tokens | connect, join, leave, private subscriptions, `broadcast` after persistence | events missed while disconnected; tokens that expire while the socket stays open |
| `server/src/modules/investors` | none | the portfolio, computed from the index | rounds row by row, and divides by the index's own total |
| `server/src/modules/{health,campaigns}` | none | reads of the index and of the listener's status | health of an indexer that never polled |
| `client/src/lib/websocket`, `hooks/useCampaignLiveUpdates.ts`, `lib/queryClient.ts` | reference counts of rooms, packets buffered offline, query cache | join, leave, reconnect, invalidate, fetch | packets lost or flushed late; an answer older than the event it is shown after |
| `client/src/context/WalletContext.tsx` | account in the state and in `localStorage` | connect, disconnect, validation on mount | late answers of the wallet extension; a storage that refuses |
| `client/src/pages/CreateCampaignPage.tsx`, `FarmerProfilePage.tsx`, `lib/soroban/contractClient.ts` | wizard, known campaign id, write in progress | edit, next, confirm, retry; build, sign, send | creation and registration are separate transactions; the account may change, an answer may be lost |
| `client/src/lib/{analytics,soroban,dispute}`, `campaignStatus.ts`, `hooks/use{InvestorPortfolio,AdminCampaigns}.ts` | none | load events, replay, metrics, stepper, cards | a window and a page cap cut the history; rules written twice, once in Rust and once in TypeScript |
| `client/src/components`, `hooks/contract` | forms | which forms are shown, validation, invalidation | preconditions repeated per status, role and amount |
| `client/src/lib/api` | none | the backend client with time-out and fallback | an abort looks like a time-out |

The escrow is the source of truth. It calls the registry synchronously inside its own transaction.
The listener subscribes to the escrow's events only (`getContractIds` names no registry); the parser's handlers of
registry events are therefore modelled as what they would make of the registry's stream. The client reads the contracts
and is pushed the server's events; the server's API shows the index. `PROJECT.json` lists the hazards with their lines.

What makes each part correct: the escrow never divides a campaign's money twice, never pays more
than it holds and accepts nothing late; the registry enumerates completely and its log only grows;
the mirror is wrong only where the code is silent, and heals; the indexer skips nothing, counts
nothing twice, and a quiet index agrees with the chain; a page is told of nothing the database lacks, and shows what
it was told; a form offers what the contract would accept and an estimate never promises more than is paid; one visit of
the creation page makes one campaign.

## 2. Modules

| Module | Models |
| --- | --- |
| `CampaignLedger` | abstract specification: what the escrow promises about a campaign's money |
| `ProductionEscrow` | the escrow contract, one action per entry point; extends nothing of the project |
| `Registry` | the registry contract; its handlers are operators on the storage so that calls of one transaction compose |
| `Platform` | `ProductionEscrow` and an instance of `Registry`, in one transaction |
| `Indexer` | `ProductionEscrow` as the producer of events, the listener, the parser's writes, the database |
| `Wire` | the payloads of all events, slot by slot, on the contracts' side and on the parser's |
| `RegistryIndex` | `Registry` with its events, and the index's rows that the parser makes of them; uses `Wire` |
| `Views` | `Indexer`'s chain as seen by the client's metrics, stepper and cards, and by the server's portfolio |
| `Console` | the client's forms and mutation hooks, compared with the escrow's entry points; extends `Views` |
| `Gateway` | the server's sockets, rooms and tokens |
| `LiveUpdates` | `Gateway` and the browser's socket, reference counts and query cache |
| `Session` | the farmer's browser on top of `Registry`: wallet, wizard, profile form, the path of a write |
| `MC...` | definitions used by the `.cfg` files |
| `SumLemmas` | lemmas about the community modules' sums and folds |
| `ProductionEscrowProofs` | proofs about `ProductionEscrow`, the refinement of `CampaignLedger` included |
| `PlatformProofs` | proofs about `Platform`; extends the former |
| `RegistryProofs`, `RegistryIndexProofs` | proofs about `Registry`'s operators and about `RegistryIndex` |
| `ReaderProofs` | proofs about `Indexer`, `Views` and `Console` |
| `SessionProofs`, `LiveProofs` | proofs about `Session`, and about `Gateway` and `LiveUpdates` |

### ProductionEscrow

The Soroban host runs invocations one at a time and undoes an invocation that panics, so one action
is one invocation and a panic is a stuttering step: every guard of an action is one of the code's
panics, its checks included that sit in the middle of a function. The storage entries are the variables
of the same names; `vault` is the contract's balance in each token, `tx` holds the registry calls and the
events of the last invocation, and `audit` is a history variable (contributions redeemed, tokens
claimed, amounts reconciled) that no guard reads.

Authorisation is reduced to its effect: an entry point that needs the administrator needs one to be set,
`open_dispute` and `report_harvest` keep their identity checks. `receive_contribution` and
`resolve_dispute` need more than one signature; that is an assumption about keys and not modelled.
`Tick` and `Deposit` are the environment: ledger time, and transfers made straight to the contract's address, which is what
`receive_contribution` reconciles. `configure_tranches` stores the `released` flags of the entries as they come, unchecked, and so does the model; that the client submits only
unreleased ones is said in `Console` (`FreshSchedules`).
TTL extensions and `touch_campaign` change no value; archived entries are not modelled.

Mutated forms of some definitions are marked `\* mutant`: each is a plausible mistake in that
definition, and the property named beside it in `PROJECT.json` is violated when it replaces the original.

### Registry

The storage is one record `store`. `Accepts` and `Served` give the guard and the effect of a call by a contract;
`Serve` applies the calls of a transaction in order. No call changes what a later one of the same
transaction checks, so all guards are evaluated on the storage the transaction starts from. `PageSize`
stands for `MAX_ACTIVITIES_PER_PAGE` and `MAX_FARMER_CAMPAIGNS_PER_PAGE`; the arithmetic of a roll-over does not
depend on its value.

### Platform

`EscrowTransaction` is an escrow action together with `Serve` of its calls: where the registry would refuse
one, the action is not enabled, which is the roll-back. `RegistryTransaction` are invocations by people,
`ForeignTransaction` a status update by another contract a campaign may be linked to, `ReconcileStatus` the
permissionless reconciliation. `mirrored` is a history variable: the campaigns linked by their own creation and
never overridden by the registry's administrator, for which the mirror properties are stated.

### Indexer

`Invoke` is an escrow action whose events, as parsed, are appended to `chain` in a new ledger; ledgers without events are not
counted. The local variables of a poll are a record; `at` says which `await` it is in. `StartPoll` may begin
while another poll is under way because the interval timer has no re-entrancy guard. Each database write of a handler
is a step (`Write`), followed by the audit row. `Fail` is a call that throws, which gives up the event (the
parser swallows the error) or the poll; `Crash` loses the memory and restarts with `loadCursor`. User rows are left
out: their upsert comes first and replaying it changes nothing. Both contract ids share one cursor value, as in `persistCursor`.

### Wire and RegistryIndex

`Wire` gives each event's payload as a sequence of named and typed slots, from the `emit_*` functions, and the parser's rules as a sequence of field and
reader, from the `parse*` methods; `Agrees` compares the two under each shape in which an SDK may decode a fieldless enum
(`decodeTag` accepts three). `RegistryIndex` gives each registry invocation its events, in order, the activity log's mirrored
ones included, and applies the parser's handlers to each (`Handled`). The three event names with two origins are told apart by `TextIn` and
`StatusIn`, on the decoded value, as in the code. A row's status has a second writer, the escrow's own events (`HandledOwn`), so the escrow is there too, reduced to its status (`onEscrow`): its handlers that pass the
registry a status (`Notified`), the two that tell it nothing (`Silent`) and a contribution short of the target, each with the registry calls it makes and the events of both contracts in the order they are emitted. `strayed` is a history
variable: rows whose farmer a mirror has overwritten, rows whose record was reconciled (`CampaignStatusReconciled` has no parser), and rows the escrow has moved without telling the registry.

### Views and Console

Both have no state of their own but `feed`, the events as `getEvents` would return them. `RecentEvents` is what a page loads: from the look-back window's first
event (`FirstLoaded`) on, oldest first, up to a page cap. `Replayed`, `Outcome`, `LifecycleStepIndex`, `ClaimButton` and `Position` are the functions of the
TypeScript code; `Indexed` applies `Indexer`'s own writes to the whole chain in order, which is the index nothing disturbed. The stepper takes a schedule when its caller has one; the only caller, `CampaignAdminPanel`, passes
the amount released alone (`StepShown`).
`Console` gives the forms' conditions and validations, the native bounds of the funding input included, `Number()` of an amount (`ToNumber`), what a panel sends, the queries each mutation invalidates and the ones a page shows (`ShownBySender`).
The dispute form of the campaign page works on `campaign.id`, which no record has (`FormHasId`). The properties use `ENABLED` of the escrow's actions as the contract's answer.

### Gateway and LiveUpdates

A handshake carries nothing or a token; a token is genuine or not, names a principal and a scope, and expires. `LiveUpdates` is
one shared socket: `up` are the packets of the browser, also those buffered offline, `down` the server's. A query is its data (the number of the newest
event the contract's state included), whether it is marked, old, and when the fetch under way began. `Refetch` is React
Query's rule that the installed version applies on invalidation: a fetch under way is cancelled and begun anew, unless it
is the first one, which is shared. `told` is a history variable: the newest event a page with data was told of.

### Session

`awaiting` says what `connect` and the check on mount wait for; every answer of the extension is a step of its own, and takes
effect whatever happened since it was asked for. A write is a record that goes through build (the simulation, which refuses what the
contract would), sign (by whichever account the extension has active by then) and send (which executes, with or without the answer arriving). The registry is `Registry`
itself; of the escrow only what `create_campaign` asks. `localStorage` may refuse any read or write, which the context swallows after it has set its state (`AfterWrite`): the two can differ. `seen` is a history variable.
A reload keeps `localStorage` and nothing else.

## 3. What is checked

| Run | Instance | Shows |
| --- | --- | --- |
| `MCEscrow` | 1 campaign, 2 investors, arguments -1..4, targets up to 3, 2 tranches, time 0..2 | accounting invariants, no late funding, refinement of `CampaignLedger` |
| `MCEscrowPair` | 2 campaigns, 2 tokens, 1 investor | solvency of a campaign alone on its token, bound on the shortfall of a shared token |
| `MCPlatform` | 1 campaign, 2 farmers, another linked contract, time 0..2, three statuses that others may report, fair reconciliation | how far the mirror lags, agreement of the two contracts, the log tells the lifecycle, reconciliation heals every drift |
| `MCRegistryIndex` | 2 campaigns, 1 farmer, 1 officer, another linked contract, statuses `Funded` and `Failed` beside `Active` and `Funding`, pages of 2, 3 log entries, the three shapes of an enum | lists and log of the registry, texts and farmers of the index's rows, whose word a row's status is, agreement of all payloads |
| `MCIndexer` | 2 overlapping polls, 1 crash, 3 events, pages of 1 | no skip, no double count of investments, no audit row for half an event, a quiet index agrees with the contract |
| `MCIndexerLive` | 1 poll, 1 failing call, 1 crash, backlog past the page cap | every event reached |
| `MCViews` | 1 campaign, 2 investors, targets up to 3, time 0..2, 8 events, window of 5 ledgers, cap of 6 | what readers and forms make of every state of the escrow |
| `MCLive` | 1 campaign, 2 pages, 2 events, 2 drops, another client with 2 principals, clock 0..1 | rooms, pushes, the cache, private rooms |
| `MCSession` | 2 accounts, 2 ids, 1 switch, 1 lost answer, a storage that may refuse, registry set or not | wallet, creation and registration |
| `NeverClaimsMoreThanHeld` | 2 campaigns on one token | violated: see findings |
| `ProcessedBelowCursor` | 1 poll, 1 failing call | violated: see findings |
| `TotalMatchesEscrow` | 1 poll, nothing disturbed | violated: see findings |

### The properties

* `PoolsMatchStatus`, `RecordsMatchStatus`: the four counters, the dispute and the harvest record agree with
  the status after every sequence of calls.
* `ContributionsBackTotal`, `ClaimsWithinPool`: the denominator of a claim is what the
  contributions, redeemed or not, add up to; claims never overdraw the pool and lose no more than one unit per investor.
* `SolventWhenTokenExclusive`: a campaign alone on its token can pay everybody. `ShortfallBoundedByReconciliation`: campaigns
  that share a token are short by at most what was reconciled without a transfer.
* `TrancheScheduleCovered`: no release goes without an entry of the schedule marked for it, though an entry may have been submitted as released already, and the funds held cover what is still to come.
* `ImplementsLedger`: every invocation is a step of `CampaignLedger` or leaves the money alone: one division per
  campaign, one pro-rata payment per stake. A dispute is not a phase of the abstract ledger: a disputed campaign is
  *committed* when its target was met and *raising* otherwise.
* `MirrorLagsOnlyInFunding`, `DriftHeals`: the mirror differs only while funding ends, and is corrected.
* `LogTellsLifecycle`: the activity log is an account of the campaign, in order, with nothing after the verdict.
* `ListsMatchRecords`, `LogOnlyGrows`: pages bounded and dense, each campaign enumerated once, farmer lists that agree with the
  records, an append-only log.
* `RowsMatchRegistration`, `IndexFollowsRecord`, `WireAgrees`: no mirrored activity puts an action or an actor where a title, a name or a farmer belongs;
  of the two writers of a row's status the index shows what the last one wrote, but for a reconciliation and for an SDK that decodes enums to bare strings; every slot of every payload but `CampaignStatusReconciled`'s carries what its reader takes it for.
* `NothingSkipped`, `CountedOnce`, `AuditedMeansApplied`, `FaithfulWhenUndisturbed`, `EveryEventReached`: the
  indexer, as its comments describe it.
* `AnalyticsFollowContract`: the replayed status is the contract's at the last event loaded, however the history is cut; the volume is the money paid in; a slice is wrong only for the
  two reasons the comment names. `StepperMovesForward`: the panel's stepper goes back only from production.
* `PortfolioNeverOverstates`, `ClaimButtonsTruthful`: no estimate above what a claim pays; the buttons are those the contract would accept.
* `FormsMatchContract`: what the funding form lets through is accepted unless the deadline has passed, and no dispute form is shown to anybody the contract would refuse. `AdminPanelMatchesContract`: the dashboard lists a campaign exactly when the contract would accept
  one of the five actions, the panel has a form for each that it would accept, and every submission its validation lets through is accepted, with two exceptions (see "Also met"). `MutationsRefresh`: a write refreshes what it changes of its one campaign, and,
  unless it is a claim, what the page that sent it shows.
* `RoomsMatchPages`, `PagesJoinRooms`: after any disconnections the socket is in exactly the rooms its pages need, and gets there.
  `ToldWhatIsCommitted`, `TellingShows`: nothing is pushed before it is stored, and no older answer hides what was pushed.
  `PrivateRoomsNeedLiveToken`: nobody enters a private room on an expired or foreign token.
* `DisconnectLasts`: who has disconnected, with no connect under way and nothing refused by the storage, stays so through reloads, late answers and switched accounts. `OneCampaignPerVisit`, `RegistrationFollowsCreation`,
  `IntegratedCreatesNothing`: what retries, lost answers and switched accounts make of a creation, and that with a registry set it never succeeds.

### Bounds, and why they are enough

`Amounts`, `I64Max`, `MaxTime`, `MaxVault`, `MaxTranches`: a target of 3 with two investors gives partial, exact and
over-funding, shares that truncate to zero and shares that lose a unit; -1, 0 and 4 are the illegal arguments. The smaller instances keep 0, the payout that
goes with a full refund or a full payout, beside 1 and 2. Two tranches of equal or
different amounts show the first-match rule; `I64Max` and `I128Max` keep the relation of the real widths, (2^63-1)^2 < 2^127,
as the assumption `WidthsFit`. Two campaigns are the smallest number that can share a token. `PageSize` 2 with three log entries crosses a page; two campaigns fill one page of a farmer. `MaxEvents`, `MaxFaults`, `MaxCrashes`, `Polls`: three events are enough for two
polls to disagree about page, tip and cursor; four, with a cap of three pages of one event, go past the page cap. `IndexerConstants` assumes that a poll's pages hold more than
the events of one ledger, in the code 5000: below that the poll that steps back one ledger would repeat it for ever.
`StartLedger` is 1, as with `SOROBAN_INDEXER_START_LEDGER` set: without it the first start is at the tip by design.
The chain stops growing at its bound and every campaign ends, so the runs of the escrow, the indexer and the views do not check for deadlock; `MCPlatform`, `MCRegistryIndex`, `MCLive` and `MCSession` do.

`MCPlatform` and `MCViews` let the clock reach 2, past the deadline of a campaign created at 0: it may expire, and a form may be submitted late. `MaxSafe` stands for 2^53, above which `Number()` keeps even integers only; it is 2 of targets up to 3, so that amounts
beyond it occur, and `FormsMatchContract` is stated for targets that do not exceed it. `Reportable` bounds the statuses that the registry's
administrator, or a contract other than the escrow, reports: three of nine give drift in both directions, and what they are makes no difference to the code. `MCRegistryIndex` keeps the two statuses that the escrow reaches both with and without telling the registry, so that
the row's two writers take turns, and a failure comes with a mirrored `CampaignStatusChanged`; people record `FarmerRegistered`, and `CampaignCreated` is recorded by the escrow. The theorems hold for any sets of statuses and actions.

`MCViews`: eight events against a window of five ledgers and a cap of six let both cut the history of a whole lifecycle with two investors. `MaxPages` 2, `MaxWire` 2 and two events: the second page
shares the room of the first, an event may be pushed while the other is under way, and packets may be lost twice. `MaxSwitches` and `MaxLost` 1: one of each is
what tells a retry from a clean run. The title chosen is an ordinary one, the name one that is also an action's, so both branches of `TextIn` are met.

### Fairness

No safety property needs any. `ReconcilingSpec` (`MCPlatform`) assumes weak fairness of `ReconcileStatus`, the scheduled reconciliation
that `INTEGRATION.md` asks operators for, and of nothing else. `FollowingSpec` assumes weak fairness of a poll's next step:
the interval timer keeps firing, the event loop runs, and every call is answered, if only by an error; failures and
crashes are bounded, since an indexer that fails for ever reaches nothing. `LiveSpec` assumes weak fairness of the server's emit and receive, of the browser's receive
and of the reconnect (`reconnectionAttempts: Infinity`), of commits and of fetches that succeed; drops are bounded, and nobody has to open or close a page.

### Findings

1. `assert_solvent` compares one campaign with the whole balance of its token, so campaigns that share a token can together claim more than
   the escrow holds (`production_escrow/README.md:103`). `SolventWhenTokenExclusive` and `ShortfallBoundedByReconciliation` say what does hold.
2. An event whose handler fails is dropped, and the cursor moves past it, although the listener's comment says everything below is processed.
3. The contribution that reaches the target is counted twice in the index's `totalFunded`, with no fault involved: `CampaignFunded` sets the total
   before `ContribReceived` of the same invocation adds to it. `FaithfulWhenUndisturbed` says what does agree.

### Also met while modelling, without a run of their own

Contracts:

* `release_tranche` transfers nothing, although `INTEGRATION.md:219` says the balance decreases; the verdict of a dispute transfers nothing either.
* Three transitions change a status without telling the registry, although `INTEGRATION.md:10` says every one does; `MirrorLagsOnlyInFunding` says what does hold.
* `INTEGRATION.md:18` says an escrow that was never approved makes `update_campaign_status` fail, but that call looks at the linked escrow only; the comment at
  `registry/src/campaign.rs:95` says a campaign can be linked without `register_campaign`, which the guard above it refuses.
* A registry set after campaigns were created blocks their later transitions until they are registered and linked, by hand.

Server:

* A mirrored `CampaignRegistered` overwrites the row's farmer with the actor, and creates a row for an unknown campaign; `CampaignStatusReconciled` is no event the parser knows;
  a title or a name equal to an action's is dropped.
* The parser reads a status only from an array or an object, so where the SDK decodes an enum to a bare string the registry's word on a status is ignored, although the comment of `decodeTag` (`event-parser.service.ts:50`) speaks of a
  bare string, an array and an object and says "normalize all three shapes". `IndexFollowsRecord` states this exception.
* The portfolio ignores claims already made, and so goes on showing an estimate to who has claimed.
* A crash between commit and broadcast loses the broadcast; membership of a private room outlives the token.

Client:

* The campaign page passes `campaign.id`, which neither the type (`types.ts:55`) nor the contract's record has, to its dispute form: an investor with a stake is not shown it, and the farmer's and the administrator's submissions throw on `BigInt(undefined)`
  before they reach the contract, although `OpenDisputeForm.tsx:31` says it "Lets a campaign's farmer, a contributing investor, or the escrow admin open a dispute". `FormsMatchContract` says only that nobody is shown it whom the contract would refuse.
* The stepper anchors disputed, resolved and failed campaigns at Funded, by its comment (`campaignStatus.ts:182`) "the latest point a dispute/failure could realistically occur from"; the contract accepts both in production, and the panel's stepper goes back then.
  `StepperMovesForward` says that it does so in no other case.
* The hooks of the two claims do not invalidate `investorPortfolio`, all that the page sending them shows (`useInvestorPortfolio.ts:26`), although `useEscrowMutations.ts:12` says "Each hook invalidates the read-hook queries it affects". `MutationsRefresh` states this exception.
* The panel offers to mark a harvested campaign as failed, which the contract refuses; `DISPUTABLE_STATUSES` lacks `InProduction`; the dispute form on the page asks for no status; nothing offers `complete_funding`;
  the funding form ignores the deadline, rounds what is typed to a whole number, and works on doubles.
* Cards and "Total Claimed" show the pool of the whole campaign; the page cap drops the newest events; analytics counts a campaign disputed while raising as having reached its target.
* An event delivered during the first load is absorbed by that load; a failed refetch leaves the page stale, though `useCampaignLiveUpdates.ts:14` speaks of polling; an event invalidates `campaign` alone, and no mutation `allCampaigns` or `farmerCampaigns`.
  The browser's socket sends no token, so the private rooms are out of this client's reach.
* `getAddress` may answer with an empty address, which leaves the page connected and unable to write; a disconnect while connecting is undone by the late answer, and one whose `removeItem` fails by the next reload.
* The creation page cannot succeed once the escrow has a registry; a lost answer makes the retry create a second campaign; a retry after a switch of account registers it in the other account's name; leaving the page forgets the id.

## 4. What is proved

Each theorem holds for every value of the constants that satisfies the named assumptions; TLC evaluates these in every run. They are
`EscrowConstants` and `WidthsFit` (types and the two integer widths), `FiniteScope` (finitely many ids and addresses, which the sums need),
`PlatformConstants`, `RegistryConstants`, `TextConstants`, `IndexerConstants`, `ConsoleConstants`, `SessionConstants`, `GatewayConstants` and `LiveConstants`.
`PlatformConstants` has one registry, as in a deployment, and the escrow's address is no person's; the rest say that "nobody" is no address, that pages hold something and that bounds are numbers.

| Specification | Theorem | Property |
| --- | --- | --- |
| `ProductionEscrow` | `TypeCorrect`, `PoolsAlwaysMatch`, `RecordsAlwaysMatch` | `TypeOK`, `PoolsMatchStatus`, `RecordsMatchStatus` |
| | `FundingEndsAtDeadline` | `NoLateFunding`, an action property |
| | `ClaimsNeverOverflow` | `ProRataFits`, in no run: it follows from `WidthsFit`, and a small instance shows nothing of it |
| | `SolventForEver`, `ShortfallStaysBounded` | `SolventWhenTokenExclusive`, `ShortfallBoundedByReconciliation` |
| | `StakesBackTotals`, `ClaimsStayWithinPool` | `ContributionsBackTotal`, `ClaimsWithinPool` |
| | `SchedulesStayCovered` | `TrancheScheduleCovered` |
| | `Implements` | `ImplementsLedger`, the refinement |
| `Platform` | `FarmersAgree`, `MirrorsLagInFunding` | `LinkedFarmersAgree`, `MirrorLagsOnlyInFunding` |
| | `LogsTellLifecycles` | `LogTellsLifecycle` |
| `RegistryIndex` | `ListsMatch`, `LogsOnlyGrow` | `ListsMatchRecords`, `LogOnlyGrows` |
| | `FollowsRecord`, `MatchesRegistration` | `IndexFollowsRecord`, `RowsMatchRegistration` |
| `Indexer` | `CursorSkipsNothing`, `AuditRowsComplete`, `NothingCountedTwice` | `NothingSkipped`, `AuditedMeansApplied`, `CountedOnce` |
| | `IndexFaithful` | `FaithfulWhenUndisturbed` |
| `Views` | `EstimatesCovered`, `AnalyticsTrue` | `PortfolioNeverOverstates`, `AnalyticsFollowContract` |
| | `CardsSayTruth` | `CardsTruthful`, the half of `ClaimButtonsTruthful` that is free of `ENABLED` |
| `Views`, `Console` | `StepperForward`, `WritesRefresh` | `StepperMovesForward`, `MutationsRefresh` |
| `Session` | `DisconnectStays`, `OnePerVisit` | `DisconnectLasts`, `OneCampaignPerVisit` |
| | `RegistersWhatItCreated`, `IntegratedRefuses` | `RegistrationFollowsCreation`, `IntegratedCreatesNothing` |
| `LiveUpdates` | `RoomsMatch`, `TellsWhatIsCommitted`, `SettledPagesShow` | `RoomsMatchPages`, `ToldWhatIsCommitted`, `TellingShows` |
| `Gateway` in `LiveUpdates` | `PrivateRoomsGuarded` | `PrivateRoomsNeedLiveToken` |

### ProductionEscrow

Everything rests on `Invariant`, `Spec => []IInv`, where `IInv` is `TypeOK`; `GoodCampaign` of every record; `RecordsMatchStatus`;
and `StakesWithinTotal`. `TypeOK` is not inductive alone: a vault stays a natural number, and a payment fits the pool it is
taken from, only because the pools of a record agree with its status. `GoodCampaign` says that (`PoolsAgree`), bounds the target by `I64Max`
(the check of `create_campaign`), and ties the farmer and token to the record existing. `StakesWithinTotal` is what keeps
`contribution * pool` within an `i128`.

The code rewrites a campaign record in six ways, and there is one lemma per way: `GoodContribution`, `GoodStatus`, `GoodRelease`,
`GoodSettlement`, `GoodFailure` and `GoodCreation`, each about one record. `CampaignStep` shows that each action is one of these. Then `TypeStep`,
`RecordsStep` and `StakesStep` treat one conjunct of `IInv` each, action by action, and `StepIInv` puts them together. `LifecycleStep` lists the moves between statuses.

Solvency is not a conjunct of `IInv`: `SolventStep` shows it inductive relative to `IInv`. `MoneyStep` classifies every step as one that lets no money out
and leaves nobody owed more (`Holds`), adds funds and passes `assert_solvent` on the record just written (`Funds`), drains a vault by exactly what
it releases or pays (`Pays`), or creates a campaign (`Creates`). What a campaign still owes is its total less what it has released
and paid (`OwedIsOut`), and a campaign that has its token to itself can lose that but never gain it, which closes the induction.

*Refinement.* `InitMaps` and `StepMaps` say that an initial state maps to one of `CampaignLedger` and a step to a step or a stutter, `Implements` that the specification follows.
The mapping is written out (`PhaseBar` to `PaidBar`), and lemmas say what rewriting one record does to it; each action of the contract is then one of the ledger's or leaves all of it alone.

*Sums.* `SumFunction` and `SumFunctionOnSet` are folds, defined by `CHOOSE` of a recursive function. `SumLemmas` shows, by the well-founded order of finite subsets and a least counterexample, that such a
function exists and is unique, and from it what the sums need: adding an element, changing one value, equal values, monotonicity, splitting a set. The induction is not over the library's
theorems with an operator parameter, but on sets of counterexamples.
With these, the books follow from what a step does to one stake (`BooksStep`). `ClaimsWithinPool` needs the strengthening that every redeemed stake lost less than one unit
to truncation, counted by the investors who have no stake left, and that nothing is claimed before the division (`ExactStep`); `TrancheScheduleCovered` that no schedule exists before the campaign is funded, and that the entries submitted as released are a part of it like any other (`SchedulesStep`, `SumSubset`); the shortfall
that each step changes a token's debts by no more than its balance and what was reconciled (`CoveredStep`).

### Platform

`PInv` adds to `IInv` the types of the registry's storage and, for each campaign in `mirrored`, `Linkage`: it exists in both contracts, for one farmer and the same escrow, and its mirror is exact or within the funding phase.
The latter alone is not inductive: that a call of the escrow finds the record it updates needs the linkage, and the linkage needs that the escrow never loses its registry.

`LogInv` adds the story of each log (`Story`): what its latest entry of the escrow's must be for the status the campaign has, and that a campaign which does not exist has none. `Reported` lists which activity the
registry is told of for which move; `StoryGoesOn` and `StoryUnreported` show, without any contract in sight, that a reported and an unreported move go on with the story. `FlattenAppended` says that appending to a paged list
appends to what the pages hold, by a smallest counterexample to the recursion of `FlattenSeq`. The run has no entries by people (`MaxLog` is 0); the theorem has.

### Registry and RegistryIndex

`StoreInv` says that the pages of a list are full but the last (`InPages`), that the enumeration lists each registered campaign once (`Enumerated`), that a farmer's pages list what the records say (`Listed`)
and that a linked record is the registrant's (`OfRegistrant`). `RegistryProofs` shows that each operator on the storage keeps it; `Serve`, a fold over the calls of a transaction, is not needed there.
`IndexInv` adds what a row shows (`RowFits`) and a user (`UserFits`), in terms of both contracts' records, the shape of an enum and the history variable `strayed`. A campaign the escrow has is linked to it (a conjunct of `RowFits`): without that a call of the escrow
could find no record, and the row would follow neither writer.

### Indexer

Four invariants, each inductive relative to those before it. `ChainInv`: no event is in an earlier ledger than one before it, so the tip bounds them all.
`CursorInv`: of every event from the start ledger on that is at or below `cursor` or `last`, a poll has met the id; each poll knows what it has left behind (`PollKnows`), which is what its own `persistCursor` relies on;
and no cursor runs ahead of the tip, or a later event would appear below it. `WorkInv`: no two polls work on one event (`NobodyShares`, because the id is in `processedEventIds` before the first `await`), each has made the writes it has passed,
and an event whose id is not held has been counted at most once for each crash. Without the last part `CountedOnce` is not inductive: a restart forgets the ids.
`FaithInv` is for an index nobody disturbs. What the contract's storage says of a campaign is what its events tell, one after the other: some account of the chain starts with nothing, goes on at each event by `StepTold` (`Recounts`) and
has come to the records (`ToldBy`), and what was really paid in is the sum of the payments among them (`PaidIn`). An index started at the first ledger, which one poll at a time reads, takes the events in that order, and its tables hold exactly those
taken and the writes made of the one under way (`InStep`); that a write moves the tables as the event moves the account is `WriteMovesOn`. An index started later never has the first ledger's events (`Late`), so it is never caught up with a chain that holds any.
`NothingSkipped` speaks of events from the start ledger on; the runs set it to 1, where these are all.

### Views and Console

`StepperForward` follows from `LifecycleStep` and from `PoolsAgree`, by which `isDerivedInProduction` never holds. `WritesRefresh` first shows what a transaction with an event of a given name leaves alone (`EventsTell`), then that each hook covers the rest: the queries of the one campaign, and those of the page that sent it (`NothingStale`, `PageStale`).

The invariants of `Views` compare something folded over the whole history with the state it led to. Each proof gives the fold a history of its own, one value for each event, and carries an invariant that says such a history exists;
`FoldsExist` and `SumScaled` of `SumLemmas` turn the community modules' folds into those.
* `EstimatesCovered`: `FeedInv` says the feed holds the chain's events, `GivenInv` that what an investor's events say was paid is within the stake until it is redeemed, and all of it within `total_funded`. `IndexedHolds` shows what the rows of an
  undisturbed index are, so that the server's estimate, a floor for each row, is a share of no more than the contract's own (`EstimateWithin`), and all of them together no more than the pool (`EstimatesWithin`).
* `AnalyticsTrue`: `ReplayInv` says that some account of the feed, one event after the other, tells every campaign's status, whether its events so far hold a contribution, and the volume, and has come to the records. `Moves` lists the statuses between which an event
  of a given name may lead, `ShowStep` that the client's switch follows them, and `StoryFrom` that it does so from wherever loading begins, as long as the creation was loaded. A campaign shown as still raising lacks money or had funds reconciled (`OutcomesTold`).
* `CardsSayTruth`: `CardInv` says that who was paid out has no stake left and the campaign is divided, and that who contributed has a stake or was paid out.

Two faults of the model came to light this way. `ReplayStep` was a `CASE` whose guards overlapped, so that nothing was determined for an event of a campaign not yet seen; it now asks first, as the code does with `campaigns.get`. And the window of the run was so long that
it never cut anything; with five ledgers it does.

### Session

`SInv`: whatever the page takes for created the escrow knows, and so for whatever is registered (`Chained`); until the extension's account changes there is one account everywhere (`OneAccount`); while the page knows of no campaign, every
one it made is one whose answer was lost (`Counted`); on an integrated escrow it never gets past the creation (`Refused`); who has left has no account stored either, and no connect under way (`Gone`), without which
a reload or a late answer would bring the account back. `OneCampaignPerVisit` alone says nothing of a page whose creation is under way.

### LiveUpdates

`LInv`: the rooms of the socket will be those of the mounted pages once the packets under way have arrived, and what is buffered offline can only unsubscribe (`RoomsFollow`); a fetch under way began no earlier than what its page was told of, and data older than that is marked
(`Heard`); what is broadcast is committed (`Committed`). `RoomsFollow` folds the packets in their order, which is why `LeavePackets` may be buffered while joins may not.

### Only model-checked

* Liveness under fairness: `DriftHeals`, `EveryEventReached`, `PagesJoinRooms`; and what speaks of `ENABLED`: `FormsMatchContract`, `AdminPanelMatchesContract` and the button of `ClaimButtonsTruthful`. Both are out of the prover's reach.
* `WireAgrees` compares finite tables that no step changes and no constant sizes; TLC tries every shape there is, and that evaluation is its proof.

## 5. Not modelled, and what is left

* The campaigns API is a read-only query with a page and an order; the health endpoint judges wall-clock times, of which `Indexer` has none; the backend client keeps no state between calls.
  Configuration and bootstrap read settings once.
* Tokens' signatures, XDR and the RPC's own paging are external; of pages and components the layout, wording and formatting are left out, and so are toasts and the design pages.
* `PROJECT.json` says of each hazard without a property why it has none.

Left: what the forms and buttons promise, with `ENABLED` replaced by each entry point's guard written out and shown equal to it by TLC; and the pages of getEvents, which the model of the client takes as one read of a chain that stands still.
