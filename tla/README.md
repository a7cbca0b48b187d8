# Whauto AI: specification, model checking and proofs

Whauto AI lets merchants answer their customers on WhatsApp with an AI that
proposes or sends replies, builds carts and hands conversations to humans; the
merchant's organization pays for it from a prepaid wallet. The repository is a
TypeScript monorepo: a NestJS API (`apps/api`), a background worker
(`apps/whatsapp-worker`), a Next.js front end (`apps/web`) and shared packages
(`wallet`, `commerce`, `payments`, `ai`, `whatsapp`, `crypto`, `config`,
`database`, `shared`). Its state lives in PostgreSQL; BullMQ/Redis queues carry
jobs between the API and the worker; a Socket.IO gateway tells open pages what
has changed.

This directory holds TLA+ modules of that program, TLC configurations, and
TLAPS proofs. Paths below are relative to the repository.

1. Inventory
2. Modules, and how they were ordered
3. What is modelled
4. What the runs check
5. What is proved
6. What is only model-checked, and what is not modelled
7. Where the code and its documentation disagree
8. Reproducing

## 1. Inventory

### How the parts interact

- The API and the worker are separate processes that share nothing but the
  database and the queues. PostgreSQL runs at READ COMMITTED; atomicity comes
  from explicit `FOR UPDATE` locks, conditional `updateMany` calls whose row
  count is the gate, and unique indexes.
- Jobs are delivered at least once, by BullMQ retries and by sweeps that publish
  again what looks forgotten. Every consumer must be idempotent.
- Calls to Meta, to the AI provider and to the payment provider are made outside
  any transaction; what they return is applied later, by a conditional update.
- A handler of the API reads, decides, and writes later. What stands between two
  handlers is the condition of the write, not what was read.
- The tabs of one browser share a cookie, a Web Lock and a broadcast channel, and
  nothing else; each keeps its access token in memory.

### Components

| Component | State | Operations | Hard behaviour | What makes it correct |
|---|---|---|---|---|
| AI trigger (worker) | `ai_runs`, `ai_usage_events` | create, supersede or skip a run for a customer message | triggers in any order and more than once; unlocked reads before the lock; wallet shared by conversations | one active run per conversation; each active run funded |
| AI orchestrator (worker) | run status, suggestion, handoff, outgoing message | claim, tool rounds, decision, commit, retry, failure | everything may change during generation; crash; a late executor | replies only for the last unanswered message; final outcomes; one executor per run |
| AI tools (worker) | tool calls, handoffs, carts | execute with a timeout | a timed out tool goes on | runs end in spite of it |
| AI sweeps (worker) | runs, usage events | abandon or relaunch QUEUED runs, reconcile reservations | bulk updates without locks, racing with executors | every run ends; every reservation returns |
| AI suggestions, pause, configuration (API) | `ai_suggestions`, the mode | accept, reject, regenerate, pause | locks the suggestion, not the conversation | a stale reply is only sent knowingly |
| Wallet (package, API, worker) | `wallets`, `wallet_transactions` | credit, debit, reserve, release | idempotency keys, order of movements, CLOSED | reserved = what is held, covered by the balance; conserved funds |
| Top-ups and payments (API) | `topups`, payment events | create a session, webhook, reconcile, credit, expire | crash between provider and database, duplicate and late webhooks | a paid top-up is credited once |
| Carts, checkout, reservations, inventory (API, commerce, worker) | carts, reservations, counters | edit, reserve, renew, confirm, count, expire | expiry against checkout, last items, stale sweeps | stock is never oversold nor lost |
| Orders (API) | orders, stock | convert, transition, cancel | double conversion, restock | stock taken once, given back once |
| WhatsApp outbound (worker, API) | outbox, messages, jobs | publish, dispatch, send, retry | crash after send, lost answers, statuses out of order | nothing sent twice but by a fault; no lost message |
| WhatsApp inbound (API, worker) | inbox, messages, conversations | ingest, claim, process, recover | redelivery, duplicates, crash | each text stored and counted once; every event settles |
| Sessions (API) and refresh coordinator (web) | sessions, families; cookie, lock, channel | login, rotate, revoke, refresh | reuse detection, tabs in a race | one live session per family; dead families stay dead |
| Organizations, members, invitations (API) | memberships, invitations | change roles, remove, invite, accept, archive | decisions on stale roles, concurrent acceptance | one owner; roles change by rank; an invitation admits once |
| Shops, WhatsApp channels, Meta connections (API, worker) | shops, channels, connections, tokens | create, promote, archive, connect, onboard, disconnect | stale reads of the primary shop, two onboardings at once | one primary; one usable token; messages go by their own number |
| Catalogue (API) | products, variants, option values, categories | create, activate, promote, archive, delete values | last variant on sale, stale default | an active product can be sold |
| Realtime gateway (API, web) | rooms, sockets | connect, subscribe, evict, expire | removal between look-up and join | the room follows the membership in the end |
| Thread of messages (web) | query cache, socket, requests | send, resend, merge events, refetch | answers, events and fetches in any order | the page shows what the server has; one copy of a text at a time |
| AI scheduling, AI context, contacts, opening hours, AI providers, encryption, other pages | rows or none | debounce, text, CRUD, I/O | little concurrency of their own | not modelled (section 6) |

`PROJECT.json` lists every component with its files and status, and, under
`hazards`, each place where the code is hard to test.

## 2. Modules, and how they were ordered

The modules were written from the money outwards: what costs an organization
something when it goes wrong came first, and each module was closed (properties,
mutants, runs) before the next.

| Module | Models | Composed with |
|---|---|---|
| `WalletRules` | `packages/wallet` (`invariants.ts`, `transitions.ts`, `pricing.ts`), `applyMovementInTx` | pure operators on a wallet record |
| `AiRuns` | trigger, orchestrator, tools, sweeps, wallet reservations; suggestions, pause, replies of the API | extends `WalletRules`; implements `CreditAccount` |
| `CreditAccount` | what the wallet promises to runs | abstract |
| `TopUps` | top-ups, payment webhooks and their inbox, the reconciliation sweep; the provider's side of a payment | extends `WalletRules`; implements `IdealTopUps` |
| `IdealTopUps` | what topping up promises to an organization | abstract |
| `CommerceRules` | the tables of `packages/shared` for carts and orders | pure |
| `Carts` | carts, checkout, reservations, inventory, cart expiration | extends `CommerceRules` |
| `Orders` | conversion, transitions, cancellation | extends `Carts`; implements `IdealStock` |
| `IdealStock` | what keeping stock promises to a merchant | abstract |
| `Outbound` | messages of agents, outbox, jobs, sends, provider statuses | - |
| `Messaging` | inbox, its jobs and sweep, conversations of a contact | extends `Outbound`, whose messages its status events move |
| `Sessions` | login, rotation, logout, changes of password (API) | - |
| `Browser` | tabs, cookie, lock, channel | extends `Sessions` |
| `Gateway` | the room of an organization and the sockets of a user | - |
| `Thread` | one message in the thread of an open page | - |
| `Tenancy` | members, roles, invitations of an organization | - |
| `Shops` | shops, one of which is primary | - |
| `Channels` | WhatsApp channels, Meta connections, Meta's callbacks, the choice of a connection | extends `Shops` |
| `Catalogue` | a product with its variants, option values, categories | - |
| `MC...` | model values, symmetry and state constraints for TLC | `MCWeb`: `Browser` and `Gateway`; `MCShop`: `Channels` and `Thread` |
| `...Proofs` | theorems and proofs of one module (`ShopProofs`: of `Channels` and `Thread`) | - |

`MCWeb` and `MCShop` each put two parts that do not act on each other into one
run: a behaviour exercises one of them (`part`) while the other rests.

What remains of the plan: the slot of the AI scheduler (one delayed job per
conversation) composed with the triggers of `AiRuns`, and the liveness of the
last message; prices and snapshots of orders; the pages of the merchant that do
more than show one query.

## 3. What is modelled

### Atomicity

A transaction that holds the lock it depends on, or that is one conditional
statement, is one action. What the code reads before the lock is an action of its
own, which remembers what it read, and the action that writes tests only what the
code tests again. Between any two actions the rest of the system moves, and where
the code may die a crash may occur. In most modules this takes the form of
*requests*: `request[r]` (`call`, `act`, `opening`, `job`, `sweep`) holds what a
handler has read and where it stands.

### AiRuns: runs, replies, reservations

| Variable | In the code |
|---|---|
| `inbound`, `outbound` | customer messages of a conversation, and how many of them had arrived when the last reply left (the code compares `createdAt`) |
| `handoff`, `paused` | open row of `conversation_handoffs`, `aiAutoReplyPaused` |
| `mode` | effective AI mode; `DISABLED` also stands for a disconnected channel |
| `run`, `sug`, `sent` | `AiRun.status`, `AiSuggestion.status`, the outgoing AI message |
| `wallet`, `usage`, `charged`, `tools` | `Wallet` with its ledger, `AiUsageEvent.status` and `creditsCharged`, successful rows of `ai_tool_calls` |
| `checked` | triggers whose unlocked reads in `processTrigger` have passed |
| `exec`, `rounds`, `late` | local state of the worker executing a run; a tool that was given up and still works |
| `accepting`, `regen` | what `accept` and `generate` of the API have read and not yet used |

A run is named by its trigger message (`triggerMessageId` is unique): the pair of
a conversation and the index of the message.

- A trigger may be processed at any time after its message, any number of times
  and in any order: this covers BullMQ redelivery, the recovery sweep and the
  API's `generate`, and is more than all of them do.
- `ai_runs_one_active_per_conversation`, the partial unique index, is deliberately
  not a guard: `OneActiveRunPerConversation` shows that it never fires.
- The auto-reply gate has many reasons (window, hours, category, confidence, daily
  cap). The model reads the pause and leaves the others to chance, so a
  suggestion may come out in both modes. The anti-monologue test always holds
  after `checkObsolete`.
- A run's cost depends on successful tool calls only up to two (`ToolCallBound`).
- `EDITED_AND_ACCEPTED` is folded into `ACCEPTED`. `CANCELLED` is never written
  by any code path. No code closes a handoff, so no action does. No code path
  changes a wallet's status either: `SetWalletStatus` follows the legal
  transitions and is marked external, as is `Crash`.
- The API and the worker draw `createdAt` from one database; clock skew is not
  modelled.

### TopUps

| Variable | In the code |
|---|---|
| `topup`, `linked` | `TopUp.status`; whether `providerPaymentId` is recorded |
| `inbox` | `PaymentWebhookEvent.status`; one event per top-up and status |
| `wallet` | `Wallet` with the `CREDIT` entries of its ledger, keyed by top-up |
| `payment`, `emitted` | the payment at Genius Pay, and the webhooks it has sent |
| `opening` | how far `createTopUp` is, between its three database and provider calls |
| `job` | per request or sweep: the step of `applyPaymentOutcome` it is at, and the status `transitionTopUp` has read |
| `sweep`, `todo`, `current` | phase of the sweep, rest of its batch, event it applies |
| `aged` | top-ups created before `giveUpCutoff` |

`CreditTopUp` is one transaction under the lock of the top-up, whereas `ReadTopUp`
and `SwapTopUp`, the marking of the event and the three phases of the sweep are
steps of their own. A webhook may be received at any time after the payment moved,
or never; that it is received again changes nothing (unique `externalEventId`).
`metadata.reference` names the top-up, so an event finds it even unlinked; only
polls need the link. A misreported amount is a choice of the provider. `PENDING`
reports, which the code ignores, the sweep's minimum age and the mock provider are
left out; age is one bit, and a top-up may grow old at any step.

### Carts and Orders

`cart`, `checkout`, `line`, `resv`, `onHand`, `reserved`, `tracked` and `order` are
the rows and columns of those names; `frozen` is the confirmation snapshot as far
as stock goes, `filled` whether the session has what confirming asks for, `idle`
whether `expiresAt` has passed. `sweep` is the worker's batch, with the quantities
it read. `supplied` and `drift` are not stored by the code: they say what was
counted by hand, and what ended reservations have left in `quantityReserved`.

Each handler of the API is one transaction that locks the cart, and one action;
the sweep reads, then writes one reservation or cart after the other. `RELEASED`,
`EXPIRED` and `CANCELLED` reservations are `ENDED`; the batch of 100 is the whole
batch. Left out: prices and catalogue statuses, versions and idempotency keys (a
repeated request is a stutter), `purgeMutations`. The AI's cart tools go through
the same functions and are the same line actions.

### Outbound and Messaging

`message`, `outbox`, `inbox` and `conversation` are rows; `job` and `task` are what
Redis holds of the two queues; `accepted` is what the provider took, and under
which identifier. A *dispatch* `<<m, n>>` is one `dispatchId` of message `m`.
`faults` counts lost answers and dead workers on the way out, `breaks` those on the
way in; a crash or a stall counts as a try. The sweep handles one event at a time,
and may overtake a live job, which is counted as a break. A completed inbound job
is forgotten at once, as its `removeOnComplete` allows. The provider never reports
both a failure and a delivery. The status `PENDING` of a conversation is `OPEN`.
Left out: payloads that cannot be processed, media, the statuses queue of the mock
provider, timestamps, traces.

### Sessions and Browser

A refresh token is the session it belongs to; `call` is the `POST /auth/refresh` of
a tab, `act` its other request, each as far as the API has got. The row lock of a
rotation shows as the claim being visible or not. `tab` is what the page holds,
`cookie`, `lock` and `channel` what the browser does. `Set-Cookie` and the callback
of the answer are one step. `faults` counts broken connections, whose answers are
never heard. A tab does not refresh again while its abandoned request is still at
the API. Left out: the 30-day expiry, e-mail verification, registration, the links
of forgotten passwords (whether one is valid is a choice), the fallback without
Web Locks. `JwtAuthGuard` is stateless; `Suspend` is external.

### Gateway and Thread

A socket is `CONNECTED`, `CHECKED` (the membership was found), `JOINED`, or `DEAF`
(refused or never answered: `subscribe` is not sent again). A removal evicts after
its commit; an archived organization evicts nobody. `Expire` also stands for
network breaks and for the provider that reconnects with a fresh token.

`Thread` follows one text: `row` on the server, `entry` in the query cache, the
requests to send and to retry, the events not heard yet, the fetch under way. Requests
are numbered and overlap: the button of a `FAILED` entry stays active whatever is under
way, a colleague has it too, and a request that the page has given up on (`GiveUp`)
goes on at the API without anybody to hear its answer (`awaited`), until it commits or
the API dies (`Dies`). `send` looks at the conversation before it meets a taken
`clientMessageId` (`Refuse`, `AnswerExisting`); `retry` reads the status (`ReadRetry`)
before its conditional update (`StillFailed` in `Commit`). `blind` and its causes are
the model's own: why an entry may be behind its row. A resend takes the first
`clientMessageId` again (`SameId`), one that the server has or not. `PENDING`
stands for `QUEUED` and `DELIVERED` for `READ`. Events are unordered, and are
emitted after the commit. What invalidation does is TanStack Query's (external): it
cancels a fetch under way and starts another, unless nothing is cached yet.

### Tenancy, Shops, Channels, Catalogue

- `Tenancy`: a request passes the guard with the role of its author (`rank`), reads,
  and writes by a conditional update. A link finds the invitation it was made for.
  `SUSPENDED`, which no code writes, is left out, as are e-mails, names, audit.
- `Shops`: shops are numbered by age; a request may die between its steps
  (`Fails`), which also stands for deadlocks and for the three tries of `setPrimary`.
- `Channels`: `META_MULTI_TENANT_ENABLED` holds. A connection and its credential
  are one record. No code writes `CONNECTING`, `SUSPENDED` and `ERROR`. Graph calls
  only take time, or fail. The provider cache by credential is left out.
- `Catalogue`: one product with one option. `createFull` is one step. An `ACTIVE`
  category stands for an `INACTIVE` one too. `sortOrder` makes the successor of a
  default variant any `ACTIVE`, else any `INACTIVE` variant. Names, prices, codes,
  images, stock and search are left out.

## 4. What the runs check

`MAX_CREDITS_PER_AI_RUN` is 3, as in the code, and the prices are those of the
grid. `WALLET_MAX_CREDITS` is 9 instead of 10^9, so that a top-up can meet the cap.

| Run | Instance | Properties |
|---|---|---|
| `Money` | two conversations with one message each, one attended, balance 4, one top-up, all wallet statuses | `LedgerMatchesUsage`: ledger and usage events agree. `ReservedIsHeldAndCovered`: `reserved` is what the runs hold, and is covered. `FundsConserved`: the balance is what came in less what was charged. `ImplementsCreditAccount`: refinement |
| `Replies` | one attended conversation, two messages, modes on and off, crashes, both sweeps, a wallet that may be closed | `OneActiveRunPerConversation`. `ClaimableMeansIdle`: a run that may be claimed has no executor. `RepliesAreFresh`: replies are for the last unanswered message only, with the AI on and no human in charge |
| `Liveness` | two messages, tools that outlive their timeout, no crash | `ActiveRunsEnd`, `ReservationsReturn` |
| `Payments` | one top-up with everything that may happen to its payment; errors, crashes, a wallet that may be closed | `TopUpFollowsPayment`: no status ahead of the payment, only exact amounts are credited. `ProcessedIsApplied`. `ImplementsIdealTopUps`. `OpenTopUpsEnd` |
| `Stock` | two carts, one variant, up to two pieces each, two in stock, a sweep that may die | `ReservedIsHeld`, `StockIsAccounted`: counters are what carts hold and orders keep. `OnlyCountingOversells`: only the merchant's count reserves more than there is |
| `Lines` | one cart, two variants, one sold without stock, one whose tracking changes, two cycles of reservations | `HeldStockBelongsToACheckout`. `ImplementsIdealStock`. `HeldStockReturns` |
| `Delivery` | one message, two dispatches, two tries each, one fault, reports in any order | `SendsNeedFaults`: a second send needs a fault. `SomebodyCarries`: nothing on its way is forgotten. `ProcessedStatusesAreShown` |
| `Inbox` | two texts, two conversations, one break, redeliveries, the sweep | `UnreadIsUnseen`: stored once, counted once. `EventsSettle` |
| `Sessions` | two tabs and a client elsewhere, three sessions, two acts of users, one broken connection; or one socket, two lapses | `OneLivePerFamily`. `DeadFamiliesStayDead`. `ReuseNeedsALostAnswer`: tabs never take each other for a thief. `RefreshesEnd`. `RoomFollowsMembership` |
| `Team` | the founder and two more users, two invitations, two requests in flight | `TeamIsSound`: one owner, one open invitation of an address. `RoleChangesAreRanked`. `InvitationsAreUsedOnce` |
| `Storefront` | three shops, two connections, two channels, two requests in flight; or one thread, two sends, one mishap | `StorefrontIsSound`: one primary shop, one usable token. `PrimaryIsHandedOver`: only stale reads orphan an organization. `SendsUseTheirConnection`. `ThreadKeepsUp`: a thread at rest shows what the server has. `OneCopyAtATime`: a copy of a text is handed over only when there is none, or one that failed |
| `Shelf` | three variants, two values, one category, two requests in flight | `ProductsCanBeSold`. `DefaultIsHandedOver`. `UsedValuesStay` |

Each module's type invariant is checked with one of its safety properties:
`StockIsAccounted`, `SomebodyCarries`, `OneLivePerFamily`, `TeamIsSound`,
`StorefrontIsSound`, `ThreadKeepsUp` and `ProductsCanBeSold` have it as their first
conjunct; those of `AiRuns`, `TopUps` and `Gateway` are proved (`TypeCorrect`,
`GatewayTypes`). For every property `PROJECT.json` names a mutant of the code, written
next to the definition it would replace, with which the run finds the property
violated.

**Bounds.** Two messages let a run be superseded, a trigger arrive late and a reply
go stale; two conversations meet in the wallet only, and the balance of 4 funds one
run and part of another. One tool round distinguishes every price. One top-up shows
every order of its own events; several only meet in the wallet. Two carts and the
last two pieces are what a race for stock needs, one cart and two variants what
editing, tracking and renewals need. Two dispatches are a retry; two tries are one
failure and its repetition. Two requests in flight are a race, with three rows
where an archive must choose a successor. Two tabs race for the lock, and a third
session is what a successor and a fresh login need. `MaxInbound`, `MaxCycles`,
`MaxSupply`, `MaxSessions`, `MaxActs`, `MaxFaults`, `MaxClaims` and the like are not
in the code: each is named at its declaration, and the theorems of section 5 hold
for all their values. Two runs have state constraints: `FewReports` (`Delivery`:
two reports of the provider only if it accepted one message or nothing broke), `Small`
(`Storefront`: the more shops, the fewer channels) and `FewEvents` (`Storefront`: at
most two events told and not heard; the theorems have any number). Carts and requests are
interchangeable, and declared symmetric in the runs without liveness.

**Deadlock.** `Money` and `Payments` check it. Elsewhere a finished instance has
nothing left to do, and the configuration says so.

**Fairness**, each from a loop or a timer in the code:

- AiRuns: weak on the worker that executes a run (BullMQ and the sweep keep
  claiming QUEUED runs) and on the reservation sweep's timer; strong on
  `AbandonStaleRuns`: transient errors may requeue a run for ever, and the sweep
  finds it there again and again. Nothing is assumed of triggers, tools, customers,
  agents or the provider. `Liveness` needs the absence of crashes (section 7).
- TopUps: weak on the sweep's steps, the event it applies, and age. Enough even with
  crashes: each returns the sweep to its start, which expires what is too old.
- Orders: weak on the sweep (its interval) and on time that passes.
- Messaging: weak on the worker of an event's job and on giving up an old status;
  strong on the two halves of the sweep, whose timer always comes round.
  `EventsSettle` excepts the bound `MaxClaims`.
- Browser: weak on the API's handler of a refresh and on the end of its request;
  strong on taking the lock, since Web Locks are granted in order. `RefreshesEnd`
  excepts the bound on sessions (`Room`).
- Gateway: weak on reconnection, expiry and eviction; strong on the look-up and the
  join, since a token outlives a subscription.

## 5. What is proved

Every invariant and action property of the runs, and every refinement, is also a
theorem: TLC shows it on the instance of section 4, TLAPS for every value of the
constants that the modules' assumptions allow (`PricingAssumption`,
`RunsAssumption`, `TopUpsAssumption`, `CartsAssumption`, ...: sets are finite, prices
and bounds are naturals, a name that stands for "none" is none of the others). All
proofs are for the specification without fairness, which the specification with
fairness implies. `FiniteSetTheorems`, `SequenceTheorems` and `WellFoundedInduction` of
the library are cited, nothing else is assumed.

| Module | Theorem | States |
|---|---|---|
| `AiRunsProofs` | `TypeCorrect` | `[]TypeOK` |
| | `OneActiveRun` | `[]OneActiveRunPerConversation` |
| | `ActiveRunsAreFunded` | `[]ActiveRunIsFunded` |
| | `LedgerIsConsistent` | `[]LedgerMatchesUsage` |
| | `ReservationsAreCovered` | `[]ReservedIsHeldAndCovered` |
| | `FundsStayConserved` | `[]FundsConserved` |
| | `ChargesAreEarned` | `[]ChargedRunsSucceeded` |
| | `OutcomesNeverChange` | `OutcomesAreFinal` |
| | `OneExecutor` | `[]ClaimableMeansIdle` |
| | `RepliesStayFresh` | `RepliesAreFresh` |
| | `WalletImplementsAccount` | `ImplementsCreditAccount` |
| `TopUpProofs` | `TypeCorrect` | `[]TypeOK` |
| | `CreditsMatchStatuses` | `[]CreditedMeansPaid` |
| | `StatusesFollowPayments` | `[]TopUpFollowsPayment` |
| | `ProcessedPaymentsAreCredited` | `[]ProcessedIsApplied` |
| | `StatusesChangeLegally` | `TransitionsAreLegal` |
| | `TopUpsKeepThePromise` | `ImplementsIdealTopUps` |
| `OrdersProofs` | `OrdersInvariant` | the inductive invariant |
| | `ReservedIsHeldHolds` | `[]ReservedIsHeld` |
| | `StockIsAccountedHolds` | `[]StockIsAccounted` |
| | `HeldStockBelongsToACheckoutHolds` | `[]HeldStockBelongsToACheckout` |
| | `OnlyCountingOversellsHolds` | `OnlyCountingOversells` |
| | `OrdersKeepThePromise` | `ImplementsIdealStock` |
| `MessagingProofs` | `MessagingInvariant` | the inductive invariant |
| | `SendsNeedFaultsHolds` | `[]SendsNeedFaults` |
| | `SomebodyCarriesHolds` | `[]SomebodyCarries` |
| | `ProcessedStatusesAreShownHolds` | `[]ProcessedStatusesAreShown` |
| | `UnreadIsUnseenHolds` | `[]UnreadIsUnseen` |
| `BrowserProofs` | `SessionsInvariant` | the inductive invariant |
| | `OneLivePerFamilyHolds` | `[]OneLivePerFamily` |
| | `DeadFamiliesStayDeadHolds` | `DeadFamiliesStayDead` |
| | `ReuseNeedsALostAnswerHolds` | `[]ReuseNeedsALostAnswer` |
| `TenancyProofs` | `TeamStaysSound` | `[]TeamIsSound` |
| | `RolesChangeByRank` | `RoleChangesAreRanked` |
| | `AdmissionsUseInvitations` | `InvitationsAreUsedOnce` |
| `ShopProofs` | `StorefrontInvariant` | the inductive invariant of `Channels` |
| | `OneShopOneToken` | `[]StorefrontIsSound` |
| | `SendsGoByTheirConnection` | `[]SendsUseTheirConnection` |
| | `PrimaryIsInherited` | `PrimaryIsHandedOver` |
| | `ThreadKeepsUpHolds` | `[]ThreadKeepsUp` |
| | `OneCopyAtATimeHolds` | `OneCopyAtATime` |
| `CatalogueProofs` | `CatalogueInvariant` | the inductive invariant |
| | `ProductsStaySellable` | `[]ProductsCanBeSold` |
| | `DefaultsAreInherited` | `DefaultIsHandedOver` |
| | `ValuesInUseStay` | `UsedValuesStay` |

Every proof has the same plan: an inductive invariant that adds to the property
what requests in flight still know to be true, one lemma per action (or group of
actions of one kind) that it is kept, and the temporal step at the end.

### AiRuns

1. `TypeInv` adds to the types that a run inside a tool round has rounds left
   (`RoundsLeft`); without it `EndToolRound` could exceed its bound.
2. `EveryStepHasAKind`: as far as runs and money are concerned, each of the
   thirty-odd actions is one of six kinds: runs move, a run is created, a run
   gives its credits back, a run is settled, the wallet changes status, the wallet
   is credited. The proofs about money look at kinds only.
3. `AiInv`: types, `RunInv` (one active run, funded, no usage event before its run),
   `LedgerMatchesUsage` and `ReservedIsHeldAndCovered`. They need each other:
   superseding a run releases its credits only because an active run is `RESERVED`;
   the ledger has no earlier RELEASE of it only because it agrees with the usage
   event; the release keeps `reserved >= 0` only because `reserved` counts the holds.
4. `FundsInv` counts units instead of adding up: the credits charged are a finite set of
   pairs of a run and a unit (`ChargedCredits`), the top-ups a set of credited
   ones. Settling adds as many pairs as it debits (`ChargeAdds`), since a `RESERVED`
   event has charged nothing yet, by `ChargedRunsSucceeded`.
5. `ReplyInv`: a run that exists, or whose reads passed, has a message that arrived;
   a suggestion under acceptance exists; only a `SUCCEEDED` run has sent. With it
   `ReplyStep` shows that only `CommitSuggestion` and `CommitAutoReply` propose or send by
   themselves, and that `checkObsolete` under the lock is what makes them fresh.
6. The refinement maps the balance to the account's, `HeldRuns` (reserved and not
   released in the ledger) to its holds and `ReleasedRuns` to what was settled.
   Creating a run is `Hold`, with the superseded run in `over`, or `Settle` of that
   run if the wallet cannot fund the new one; giving back and settling are `Settle`,
   or nothing when the event was resolved or the wallet closed.

### TopUps

1. `StatusSteps` and `PaymentSteps` say what any step may do to one status and one
   payment: a status only changes by creation, by expiry, or because an event that
   has arrived brings it (`Brings`), and the ledger changes with it.
2. `TopUpInv` needs three parts that are no properties: events, wherever they are
   (sent, stored, in a batch, being applied), are about payments that went that far
   (`EventsAreReal`, with `Reached` for what later statuses imply); a worker that has
   read a status only writes a legal successor, and one that is about to mark a
   credit has made it (`JobsAreSound`); a payment is opened once, after its top-up
   (`OpeningsAreNew`).
3. `Ideal` maps exact payments that arrived to `paid`, and the ledger to `credited`.
   `CreditTopUp` is `Credit` because the event has arrived, and for the first time
   because an open top-up is not in the ledger.

### Orders

`ReservedIsHeld` and `StockIsAccounted` equate a counter with a sum over carts. The
sum is the cardinality of a set of pieces (`HeldUnits`, `SoldUnits`), which
`UnitsChange` moves when one cart's quantity changes. The invariant is strengthened by
`HeldPieces` (an ACTIVE reservation holds something) and `OrderRows` (an order gives
back all or nothing). Each step of a cart is shown to move that cart's reservations
together with the counters (`Stocked`), and `OnlyCountingOversells` is proved
alongside: what raises `reserved` is conditioned on what is on hand. In the refinement
`AdjustInventory` is `Count`, `Convert` is `Sell`, `CancelOrder` is `Return`, and the rest
stutters.

### Messaging

`OutboundIsSound` says of each dispatch that nothing happens before its time, that
somebody carries it while it is called for, that sends beyond the first are faults,
and that the identifier an `ANSWERED` job is about to record is its own and borne by no
message; of each message, that it bears an accepted identifier of its own.
`InboxIsSound` says that jobs are of events received. `BearersAreSent` and
`AppliedAreShown` tie the two halves: a processed status is shown, and no job is
still to record its identifier, so that nothing undoes it. `Counted` equates the unread
counter with the texts of the conversation that were not seen. Steps without effect
share `OutStepKeeps`, `JobStepKeeps` and `InboxStepKeeps`; the two with effect,
`StoreText` and `ApplyEvent`, have lemmas of their own.

### Browser

`OneLivePerFamily` holds because of `Claims`: a rotation that claimed its session has
left the family none that may be used, and is the only one to do so, until it creates the
successor. `Lines` names a family after its first session, `HasRoom` is the bound.
`DeadFamiliesStayDead` follows from `Effects`, what any step does to rows.
`ReuseNeedsALostAnswer` needs `Quiet`: while no connection has broken, every token that
may be presented (the cookie's, a request's, the one an answer brings) is live, or of a
family without a live session (`Sound`); the lock lets one refresh through at a
time, and the session a login has just created is nobody else's yet.

### Tenancy, Shops and Channels, Catalogue

- `TeamIsSound` is not inductive: the invariant speaks of the role a request had at the
  guard and of what it read (`RequestsAreEntitled`), so that no request can
  reach the owner (`OwnerStays`) or invite one.
- One live connection of a shop needs that every open channel made by an onboarding
  stands on a live connection of that shop (`ChannelsAreBacked`), and that what
  requests have read of rows that never change shop still holds (`ReadsHold`).
  `PrimaryIsHandedOver` is by cases: only a creation that read a primary shop, and an
  archive whose view of the primary or of its successor is stale, can orphan.
- `InFlight` of the catalogue: a request knows that its variant was live or had another
  status, a deletion knows the variants it counted. Rows never go back (`RowsStay`), so
  these reads stay true. `DefaultIsHandedOver` is by cases: creation and promotion
  keep a default, and only a change of status can lose it (`StatusOrphans`).

### Thread

`ThreadInv` adds to the types that only the first identifier of a text is used
(`OneId`), that delivery is final, that an entry without a row is the agent's own, and
what each request knows (`RequestsAreSound`): the row of a retry, of a commit and of an
answer exists. `Excused` makes `ThreadKeepsUp` inductive: an entry
behind its row for no known cause has a fetch coming, or an event to hear that
brings the row's status and will be taken, or a request that will tell what it wrote.
Each action keeps it. `OneCopyAtATime` follows by cases: only `Commit` hands over, and
its guards look at the row of the one identifier in use.

## 6. What is only model-checked, and what is not modelled

- **Liveness** (`OpenTopUpsEnd`, `ActiveRunsEnd`, `ReservationsReturn`,
  `HeldStockReturns`, `EventsSettle`, `RefreshesEnd`, `RoomFollowsMembership`)
  is checked by TLC and not proved: it rests on fairness and on ENABLED, which
  the provers here do not reason about.
- **AI scheduling**: the debounce keeps one delayed job per conversation under a fixed
  identifier. Removing and adding it while the previous job runs drops the trigger
  (`ai-scheduling.service.ts:47`). `AiRuns` takes triggers in any order and number, so its
  safety covers that; that the last message is answered in the end is not stated.
- **AI providers, context and summaries, encryption**: text, HTTP and pure functions; the
  provider's answers are choices of `AiRuns`. **Contacts** and **opening hours** are
  updates of one row, or of one week in one transaction.
- **The other web pages** (cart panel, orders, suggestions, members, products, ...) are
  forms and lists over one query each, invalidated after a mutation. DTOs, controllers
  without decisions, configuration, mail and seeds are left out as well.
- Parts of modelled components that are left out are named in section 3 and in
  the notes of `PROJECT.json`.

## 7. Where the code and its documentation disagree

Met while modelling. The models do what the code does, and no run refutes these
sentences; the properties above are what remains true.

Runs and wallet:

- Settling debits before it releases, and each movement is validated on its own, so a
  price that the balance covers may raise, and the reply is lost
  (`wallet-reservation.service.ts:342`; its comment at 280-283 says otherwise).
- A handoff opened by the run's own tool blocks the reply, and the run is billed
  (`ai-orchestrator.service.ts:439`; `pricing.ts:12-13`).
- A tool given up by its timeout goes on (`tool-executor.ts:144`) and may open a
  handoff next to the pending suggestion (`ai-orchestrator.service.ts:377-378`).
- A run whose worker died stays RUNNING: recovery looks at QUEUED runs only
  (`ai-recovery.service.ts:124`, comment at 103-105).
- The stale check of an acceptance locks the suggestion, not the conversation
  (`ai-suggestions.service.ts:224`): a message may come before the reply leaves.
- A wallet closed during a run keeps its credits reserved: the event is marked
  RELEASED, and the sweep selects RESERVED ones (`wallet-reservation.service.ts:255`).
- Resuming the AI leaves open the handoff that blocks every later run
  (`ai-auto-reply.service.ts:58`).
- Reconciliation expires old top-ups before it looks at the events received for them
  (`payment-reconciliation.service.ts:60`), and EXPIRED is final: the event of a late
  payment raises at every sweep and is neither credited nor reviewed
  (`payment-webhook.service.ts:101-102`, `docs/PROCEDURE-TEST-GENIUS-PAY-REEL.md:83`).

Carts and orders:

- The sweep gives back the quantity it read before its transaction
  (`cart-expiration.service.ts:159`): the difference stays in, or is missing from,
  `quantityReserved` (`drift`), and the CHECK on it may then block another cart's release
  for ever. It does not look at `expiresAt` again, so a renewed reservation expires.
- A confirmed cart can get stuck: with an empty checkout, or once its reservations have
  expired (`cart-expiration.service.ts:22,27`, `order-snapshot.ts:8-9`); one confirmed
  between the sweep's read and its transaction expires.
- `confirm` counts live reservations (`checkout.service.ts:387`) and compares
  `checkout.version` only; `paymentStatus` never changes after creation, so an order that
  must be paid before delivery is never DELIVERED; `findExistingOrder` may return the order
  of another cart of the conversation.

Messages:

- The sweep writes QUEUED after adding the job (`recovery.service.ts:121`), which races
  with that job; a dead job named by an unchanged `attemptCount` blocks recovery (119).
- `markFailed` and the write of SENT are not conditioned on the dispatch
  (`outbound.processor.ts:173,205`), and FAILED applied again after a crash reaches the
  new dispatch of a retried message (`message-status.service.ts:75`).
- An answer lost on the last try is FAILED; a retry sends it to the customer again.
- A unique violation is caught inside the transaction it has aborted
  (`inbound-processing.service.ts:180`, comment at 58-61): the try after it succeeds.
- A text may be stored in a conversation closed between the read and the write (109).
- A job that dies after its tries leaves its message QUEUED (`outbox-publisher.service.ts:11-12`).

Sessions:

- A logout overtaken by a refresh ends only the old session (`session.service.ts:189`);
  one whose request is lost signs the tabs out and keeps the session
  (`auth-provider.tsx:167-174`).
- `revokeAll` misses the successor of a rotation in flight (203-213), and a login
  verified with the old password creates its session after the change
  (`auth.service.ts:117-134`).
- An answer lost after the claim makes the next refresh a reuse, which revokes the family.

Organizations, shops, channels, catalogue:

- A removal is not conditioned on the role that was read (`memberships.service.ts:145`;
  comment at 50); an acceptance uses the role it read before a renewal and does not
  compare the token (`invitations.service.ts:66`); `lazilyMarkExpired` may expire an
  invitation just renewed (442).
- An archive, a creation or a promotion that relies on stale reads leaves live shops
  without a primary one, or an archived shop that is primary.
- A deauthorization closes the Meta channel of the shop even if it belongs to another
  connection (`meta-app-callbacks.service.ts:134-143`), whose token then has no channel to
  disconnect. Archiving a shop does not close its channel. A message of an old channel
  may go by the new number (`outbound.processor.ts:119-135`).
- A variant may be created on a product archived meanwhile (`variants.service.ts:118`);
  activation relies on a category read before its transaction
  (`products.service.ts:657`); users of an option are counted before the transaction that
  deletes it (`variants.service.ts:579`), and a variant created in between loses its link.

Pages:

- After a retry of a FAILED entry the cache keeps FAILED until a fetch
  (`message-cache.ts`, `isStatusUpgrade`); a lost answer shows FAILED although the
  message was sent; a status that overtakes the event of its message is dropped; one told
  after a retry of the dispatch before it, or an answer that late, shows the old status.
- `use-conversation-messages.ts:154-155` says that sending again takes a new
  `clientMessageId`; `conversation-thread.tsx:207-216` keeps the first one. With a new one
  `OneCopyAtATime` would fail: a request given up on commits, and so does the resend.
- `subscribe` is not sent again after a refusal: the page is deaf until it reconnects.

## 8. Reproducing

    tlasany AiRuns.tla
    tlc -workers 2 -config MCAiRunsMoney.cfg MCAiRuns.tla
    tlc -workers 2 -config MCShopStorefront.cfg MCShop.tla
    tlapm AiRunsProofs.tla
    tlapm ShopProofs.tla

A configuration is named after its module and its run. Each run takes between some
seconds and four minutes with two workers; each proof module some minutes.
