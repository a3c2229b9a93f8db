# CrossingKey MCP: TLA+ models, checks and proofs

This directory holds TLA+ specifications of the parts of CrossingKey MCP that
take money, remember that they took it, and answer for it. Each module is
translated from the source under `src/`; `PROJECT.json` maps every definition
to its lines, lists the TLC runs, the faulty variants that show that each
property can fail, the hazards and the theorems.

## The system

CrossingKey MCP is a Node.js server that sells capabilities over HTTP and MCP.
A buyer pays with x402: a signed USDC transfer authorization (ERC-3009, with a
nonce) in a request header, which a facilitator verifies and settles on Base.
State is kept in JSON files that are replaced atomically, and several
processes of one host open them: the server, the operator's command line,
startup recovery, test harnesses.

| Part (source) | State | Operations | Interacts with | Hard because of |
|---|---|---|---|---|
| File lock (`lib/gate1b-store.mjs`) | flock guardian child per call, `owned`/`closed` flags, `activeLocks` | `withProcessLock`, `assertOwned`, `durableWrite` | every writer of the two files below | death of guardian or owner, events that arrive late, waits that expire |
| Gate1B engine (`lib/gate1b-production-adapter.mjs`, `lib/machine-commerce.mjs`) | `machine_commerce.json`: purchases by idempotency key, replay keys, receipts, entitlements, revenue events | `invoke`, `finalizeRecoveredOperation`, `recoverExecutionOutcome` | lock, facilitator, chain RPC, executor | a crash at any await, a settlement that answers late or never, retries, two payloads with one nonce, one nonce in two spellings |
| Startup recovery (`lib/recovery/*`) | none of its own | unlocked scan, then finalization | Gate1B | acts on a stale scan |
| Marketplace (`lib/marketplace*.mjs`) | `marketplace.json`: providers, capabilities, approvals, purchases, jobs, receipts, entitlements, allocations | `purchase`, `download`, `approvePurchase`, catalog updates, `markSettled` | both locks, core file (replay keys, projections), facilitator, provider | two files and two locks, no ownership check, catalog edits between approval and sale |
| Server (`server-runtime.mjs`, `server.mjs`) | Stripe state file, SQLite funnel, MCP session maps, payment attempts | webhook, claim, download, `/api/x402`, `/mcp` | all of the above | awaits between read and write, replays of events, session ownership |
| Buyer client (`clients/x402-buyer`) | none | challenge, approve, sign, one paid request | server | lost answers, repricing, repeated calls, a key in the header and another in the body |
| On-chain verifier (`lib/onchain-verifier.mjs`, `reconcileProduction`) | none | search for the authorization's use, verification of a transfer in that transaction at each RPC endpoint | Gate1B reconciliation | lagging endpoints, a chain that moves between two calls, transactions with several transfers |
| TryBounty (`scripts/trybounty-*`, `lib/trybounty/*`) | worker state file, documents of the operator | scan, poll, admit, job spec, manifest, approval, submission gate | TryBounty API, a person | crash between cursor and events, two unlocked processes, documents made again after approval |
| Promotion and audit (`lib/promotion.mjs`, `lib/audit.mjs`) | inventory file, hash-chained log | `promote`, `suspend`, `append` | nothing: no code constructs them | not modelled |
| Deployment (`scripts/promote-*.sh`, `scripts/deploy-*.sh`) | release files, services | copy, switch, verify | systemd, nginx | run by hand, one step after the other; not modelled |

What makes each part correct:

* lock: nobody writes over what another has written; every call ends;
* Gate1B: an authorization, as its nonce is spelled, is settled at most once and
  belongs to at most one purchase; the journal precedes the money; receipt,
  entitlement, revenue and response appear together; answers never change;
  nothing is executed unpaid unless by recovery; an effect of unknown outcome is
  not repeated; money taken leads to an answer;
* marketplace: the same for its own purchases and across both paths; sold only
  on the terms a human approved; job, payment, entitlement and allocation tell
  one story; downloads stay within the entitlement; no write is lost;
* server: a paid Stripe session is fulfilled once; revenue is counted once; the
  table of payment attempts says nothing untrue; an MCP session that is bound to
  a credential admits only who presents it and acts for nobody else;
* buyer: what is paid was approved in that call on those terms, and calls that
  the server sees under one key are charged once;
* on-chain verifier: "settled" is about a transaction that used the authorization
  and carries one transfer as agreed, and is final;
* TryBounty: no event skipped or lost for good; the gate passes only what a
  person approved.

## Plan

1. `ProcessLock`, `PurchaseLedger`, `Gate1B`, `Gate1BProofs`, `Gate1BFulfilment`,
   `Gate1BAnswers`: done.
2. `Marketplace`, `MarketplaceProofs`: done.
3. `Storefront`, `StorefrontProofs`: done.
4. `RevenueFunnel` (the paid routes over `PurchaseLedger`) and `McpSessions`,
   checked together by `MCServer`: done.
5. `BountyWorker`, `SubmissionGate`, `BuyerClient` (over `PurchaseLedger`) and
   `SettlementAuthority`, checked together by `MCOperator`: done.
6. `LedgerProofs` (the ledger's own invariant), `ServerProofs` and
   `OperatorProofs` over it: done. Every safety and action property of a passing
   run but `ExecutedOnlyWhenPaid` is a theorem (`UnpaidOnlyByRecovery`, which is,
   says what holds without a condition on recovery); liveness is left to TLC.

`PurchaseLedger` is where the modules meet: `Gate1B` is shown to implement it,
and the routes and the buyer's client are modelled against it instead of
against the engine's detail.

No module that is to be proved about uses a RECURSIVE operator; every bound is
a constant with an assumption.

## How the models are built

A step of a process is the code between two awaits, or between two durable
writes, because a crash may fall between them. A process keeps the copy of the
file it works on in memory (`mem`), so a write based on an old copy loses
updates in the model exactly when it does in the code. A crash throws the
memory away and frees the lock. Request hashes are the request itself, UUIDs
come from a counter, the result of an execution is its ordinal.

### ProcessLock (`withProcessLock`)

`guardian[p]` is the state of p's flock child, `owned[p]` the flag `owned &&
!closed`. `Enqueue` spawns, `Grant` is the kernel's grant together with the
LOCKED frame, `GiveUp` any failure before it, `GuardianDies` and `NoticeClose`
are the death of a granted guardian and the later 'close' event, `Release` is
the `finally` block or the death of the owner. A second call of one process is
refused with STORE_BUSY and changes nothing; it is not modelled.

`LateClose` says whether `assertOwned` may still succeed between a guardian's
death and the event. It can in the code; the window is the delivery of one
event. With `LateClose = TRUE` a parent in that window writes its copy of the
file over the next owner's, and `JournalBeforeSettlement` fails. The theorems
about the file as a whole assume `ExactOwnership` (a guardian does not die, or
its death is noticed in time). That nobody is granted a lock that another holds
is the kernel's part and no property here; what follows from it is `PastIsKept`.
The run LateClose and the theorems `WholeFulfilment` and `UnpaidRecovery` do
without it: even then a fulfilment is in the file with all its parts or not at
all, and no buyer's call executes before its payment is on chain. `CommitRefused`, the code's check for an existing revenue event, is
reached only there.

### Gate1B

| Code | Actions |
|---|---|
| `invoke`: record checks, replay | `RejectInvoke`, `ReturnDuplicate`, `StartVerify` |
| verify, intent and reserved nonce | `VerifyFails`, `RecordIntent` |
| settle | `CallSettle`, `SettleSucceeds`, `SettleUnknown` |
| retry with unknown settlement | `StartReconcile`, `ReconcileSettled`, `ReconcileUnknown` |
| retry after execution began | `ReportExecutionUnknown` |
| claim, executing, execute | `ResumePaid`, `Claim`, `StartExecution`, `Effect`, `ExecuteReturns`, `ExecuteThrows` |
| re-read, owner check, commit | `Reread`, `CommitFulfilment`, `CommitRefused` |
| `finalizeRecoveredOperation` | `FinalizeSkips`, `FinalizeRecovered` |
| `recoverExecutionOutcome`, `revalidateRecovery` | `RecoverSkips`, `AskWitness`, `Witness*`, `Revalidate*`, `Resume*` |
| world | `AuthorizationUsed`, `GuardianEvent`, `Crash` |

A payment has a replay key (`ReplayKeyOf`), which is its nonce as the buyer
spelled it, and a replay key spells an authorization (`NonceOf`). The code
accepts the hexadecimal digits of a nonce in either case, reserves and compares
the text (`machine-commerce.mjs:71-72`, `:190`, `marketplace.mjs:144`), and the
chain reads the number, so one authorization may have several replay keys, and
`Reserved`, `settles` and the ledger go by the replay key, `used` by the nonce.
In the run TwoPurchases the third payment is the authorization of the others
spelled otherwise, and both purchases may be paid by its one use.

`used` is the chain: an authorization may be used at any time, by the
facilitator at once, after the settle call timed out, or by somebody else.
`SettleSucceeds` assumes the facilitator does not report success for a transfer
that did not happen. `AnchorCovers` models the block number taken before
verification: it covers every use that is not yet on chain. A witness is
assumed to be truthful: it confirms effects that happened and reports "not
observed" only when none did. `RecoverFrom` is the set of durable states for
which an operator calls `recoverExecutionOutcome`; the code does not restrict
it, and nothing under `src/` but the proof harness calls it. LateClose has the
states before payment there and Recovery those of an execution that may have
happened, so `ExecutedOnlyWhenPaid` in Recovery is about the buyer's path and
`UnpaidOnlyByRecovery` in LateClose about the whole. `NoBlindRepeat`
cannot be expected if a guardian dies while an executor runs and an operator
then resumes by witness: the first executor is still in flight. The run
`Recovery` therefore has no dying guardians.

`PurchaseLedger` is the abstract promise: reserve a replay key nobody else has,
pay by the authorization it spells being used, answer once. It does not promise
that an authorization pays once; the code does not keep such a promise. `Gate1B` implements it
under the mapping `Phase`: checked as the property `LedgerSpec` and proved as
the theorem `Implements`.

### Marketplace

A purchase takes the core lock, then the market lock, and keeps both to its
end. Its actions follow the code: `Conflict`, `Duplicate`, `Stranded`, `Refuse`,
`Journal`, `Reserve`, `VerifyFails`/`VerifySucceeds`, `CallSettle`,
`SettleFails`/`SettleSucceeds`, `StartExecution`, `ExecuteFails`/
`ExecuteSucceeds`, `Complete`, `Caught` (the catch block with the response) and
`Project` (the copy into the core file). `Write` is `writeJson`: atomic, but it
may throw with the new content visible or not, after which the code goes on in
its catch block or gives up. Synchronous updates (`Edit`) are one action each,
possible when the market lock is free. `setCapabilityStatus` is two steps,
because it reads without the lock and awaits a preflight. `CoreInvoke` stands
for a purchase through `/api/x402`, which Gate1B models in full. Replay keys are
spelled nonces, as there; the chain is not modelled, so nothing here says more
than what happens to one spelling.

The code here never calls `assertOwned`, so the lock is just its kernel holder,
and `GuardianDies` frees it under a purchase that goes on.

One capability of one provider is modelled. `terms` counts the edits of the
capability and stands for everything the quote hash covers (`updatedAt` is in
it, so each edit voids earlier approvals). Expiry of an approval and every
other refusal before the journal is `Refuse`, which may always happen.

### Storefront

The server is one process, so what is between two awaits is one action, and the
state file is read, changed and replaced there. `jobs[r]` is a request at an
await: `/stripe/webhook` goes `check`, `lookup`, `commit`, `reply`; `/claim`
begins with `retrieve` and passes `link` before its reply; `/download` counts the
use (`Download`) and then sends the file (`Send`). `Check`, `Lookup` and
`Commit`/`ProcessedMeanwhile` are `processPaidSession` around its one await;
`Save` is the one replacement of the file with outcome and entitlement or order
together. `Fail` is the catch block of either route.

`events` is what Stripe still delivers: an event stays there until it is
acknowledged, and may stay after that, so it can come again. An event carries
the session as it was when it was made; `/claim` sees the session as it is. The
catalog, the fulfillment map and the delivery files are edited by the operator at
any time, so every look at them (`Lookup`, `ready` of `Commit`, `Link`) is a free
choice. Invalid signatures, unconfigured Stripe and refused downloads change
nothing and are left out.

Two consequences of the code are visible in the model and are not errors against
anything it documents: `unmapped_payment`, `credit_sales_disabled` and
`paid_needs_file_binding` are final outcomes, which no later event revisits, and
`/claim` derives the token from the offer it finds now, so after a catalog edit
it may show a link without an entitlement (`links` need not be in `granted`).
That the file is replaced on disk between its hash check and its sending is not
modelled.

### RevenueFunnel

The engine is `PurchaseLedger`, entered by `Enter` and left by `End`. A handler
is at `entering`, at one of the engine's awaits (`verify`, `settle`,
`reconcile`, `execute`), then at `ended`, where the route consumes the durable
revenue events, closes the payment attempt and answers (`AnswerWith`,
`FailWith`). `Consume` is `ckConsumeDurableRevenueEvents`: counters and cursor
live in one object, saved as one snapshot row, at once when something was new
(`SaveIfChanged`), by a timer of 250 ms (`TimedSave`) and at SIGTERM
(`Terminate`). `Start` loads the module (restore, then consume), `Recover` is
startup recovery and `Listen` opens the port. Each of these may fail by
itself: the set `S` of a step names the parts that break.

`attempt[r]` and `open` are the map of payment attempts. Lifecycle events go by
the telemetry id that is durable in the purchase (`origin`), so a retry's
finalization event reaches the first request's attempt or none. `ClassOf` and
`ClientFault` model how the route reads the text of an error; where the texts
of one class of errors differ, the status is a free choice.

Only revenue is modelled of the funnel: its other counters are statistics, lost
since the last save when the process dies, and nothing reads them.

### McpSessions

`Initialize` resolves the credit principal and builds the session's tools;
`SessionInitialized` registers transport and principals, or throws after the
transport; `CallTool` is the check of a request and `RunTool` what its tool does
after the dispatch, for whom (`marketActor`, `creditActor`); `Delete` and
`Restart` forget. The operator edits both credential files between any two
steps.

Every marketplace tool, public or not, is handed the credential of the
initialize request, resolved again at the call (`marketActor`); which tools a
session has, by the role of that credential, is left out. A credential may be
granted and revoked at any time. A session whose opener presented one that was
not valid when its principal was recorded is bound to nobody; a caller without a
valid credential matches it, and if the opener's credential becomes valid later
the tools act for it. `SessionsKeepPrincipals` therefore speaks of a caller
admitted to a session that was bound to a credential (`bound`), and of any
session for the credit account.

### BuyerClient

One call of `request()` is asked, approved, signed and sent, in that order, or
ends earlier; nothing is tried again. The server is `PurchaseLedger`, to which
a request arrives, once, or not at all (`Receive`), and which may change its
terms at any time (`Reprice`). A wallet may return the authorization it signed
before for the same key and terms; it does not reuse one otherwise (`MaySign`).

There are up to three keys in a call. The caller's is found where `request()`
looks for it (`idempotencyKey`); one in a `Headers` object, which `requestJson`
makes of any headers, or in another case, is not, and a fresh one goes into the
header and to the wallet (`key`). The body may carry one of its own (`body`),
which the server prefers (`serverKey`). `PaidAsApproved` is about the key the
server sees, and for several calls about those whose header key always comes with
the same body key (`OneKey`).

### SettlementAuthority

`reconcileProduction` asks the primary endpoint for its chain, the log of the
authorization's use since the anchor, and the receipt; then `verifyOnchain`
asks every endpoint for chain id, receipt and head. The chain grows and its
newest block may be replaced between any two calls; an endpoint shows what it
had at its last `Sync`, which may be older than what it showed before. The code
demands two confirmations, so the assumption is that only the newest block is
ever replaced.

The receipt is searched for the use of the authorization and, separately, for
exactly one transfer with the agreed payer, receiver and amount
(`decodeTransfers`, `OneCandidate`); nothing ties the one to the other. A
transaction is thus "ours" (its use is the agreed transfer), "other" (another
transfer), "twice" or "batched" (the same with a second, alike, transfer).
"twice" is refused, "batched" is accepted, and `SettledIsFinal` says no more than
that. It says nothing of finality if `moved`.

Production passes no fallback endpoint, so one endpoint decides; the run has
two, which covers that case when one of them fails. Proofs are compared with their
confirmations, so endpoints at different heads disagree; the answer is then
unknown and the question may be asked again. `moved` marks the one race the code
cannot see: the transaction leaves its block between the receipt and the head.

### BountyWorker and SubmissionGate

A cycle of the worker loads the file into `state[w]`, scans, saves, polls page
after page and saves each (`LoadState` to `SavePage`). The service goes on after
a failure and is started again after a crash; a run with `--once` stops.
Marking a version as seen and evaluating it are one action because no await
lies between them. In `SubmissionGate` a document is its ordinal, which its hash
stands for; a person may approve any pair and the operator may give the gate any
documents.

`MCServer` and `MCOperator` put modules that share no state into one run: the
variable `part` selects, for the whole behaviour, the module that moves.

## Runs

Bounds are constants of the modules: `MaxCrash`, `MaxUuid`, `MaxExec`, `MaxGen`
(Gate1B), `MaxFault`, `MaxTerms` (Marketplace), `MaxFault` and the code's own
`MaxDownloads` (Storefront), `MaxFault` (RevenueFunnel), `MaxRestart`
(McpSessions), `MaxEvent`, `MaxVersion`, `MaxBreak` (BountyWorker), `MaxDocument`
(SubmissionGate), `MaxHeight`, `MaxReorg` (SettlementAuthority). `MaxRows` and
`PruneEvery` are limits of the code, set small.

| Run | Instance | What it shows |
|---|---|---|
| TwoPurchases | 2 processes, 2 keys, 1 authorization in 2 spellings, 2 payments with the one and 1 with the other, any key may hold a legacy record, waits may expire, 1 crash | typing, one purchase and one settle call per replay key, journal first, refinement of the ledger, no write from an older copy |
| LateClose | 2 processes, 1 key, 2 payloads that share a replay key, no expired waits, 1 death of a process or of a guardian, whose parent may notice late, witness recovery of unsettled purchases | fulfilment all or nothing, even while two processes overwrite each other's file; a first execution is a recovery's or paid on chain |
| Recovery | fair, 1 key, new or legacy, witness and startup recovery against retries, 2 crashes | all-or-nothing fulfilment, answers are real and stable, no blind repetition, every operation ends, money taken on mainnet is fulfilled or durably `execution_unknown` |
| RepeatedEffect (violation) | 1 crash | retry at `finalization_pending` executes again |
| MarketPurchases | 2 processes, 2 keys, 2 approvals, 1 replay key, 3 edits, 1 fault | one settle call per replay key over both paths, visible charges, agreeing outcomes, approvals bind terms, downloads, stable answers, no lost write |
| MarketLiveness | 1 key, 2 edits, 1 fault (also a dead guardian) | nested locks never block for ever; the buyer is answered |
| MarketStranded (violation) | 1 crash | a stranded paid purchase keeps an active entitlement |
| MarketLostUpdate (violation) | guardians die | a purchase erases an operator's update |
| Storefront | 1 session, 2 requests at a time, an offer of each kind, limit 2, 2 faults, fair | fulfilled once after payment and for good; downloads counted before they are sent; a paid session is processed in the end |
| Server | funnel: 2 keys, 2 authorizations (one mainnet), 2 requests (one native), 1 row, 2 faults; sessions: 2 tokens, 2 sessions, 1 call, 1 restart | revenue counted exactly once, a true attempts table; a bound session admits and acts for its own credential only |
| Misreported (violation) | 1 purchase, no fault | a charged buyer is told the payment is invalid |
| Operator | 2 workers (one `--once`), 1 bounty, 2 versions, 2 events, 2 breaks, fair; gate: 2 bounties, 3 documents; buyer: 2 calls, 2 terms, 3 keys, 2 authorizations; authority: 2 endpoints, 4 blocks, 1 replacement | no event or version skipped, every event kept in the end; only reviewed pairs submitted; paid as approved and once per key the server sees; settled is final |

Deadlock is not checked in Operator only: a gate at `MaxDocument`, a worker
whose single run is over or a chain at `MaxHeight` has nothing left to do.

Why the bounds are enough. Conflicts between purchases are about two of a kind
(two keys on one authorization, two payloads on one key or with one replay key,
two spellings, two processes on one file); two of each cover them. One death
reaches every state in which a crash can leave a purchase, and the retries after
it are not bounded; Recovery allows two, of a retry and of the recovery after it.
LateClose needs the one death that opens its window, and its waits do not expire
because a call that gave up waiting has changed nothing. It has one key because two processes overwriting each other need only one record; that the
invariants of TwoPurchases survive a guardian's death that is noticed in time is
proved for every instance rather than run. `MaxUuid` leaves room for every
purchase and its claims, `MaxExec` for two executions, so that a repeated effect
is visible. `MaxTerms = 3` is registration, listing and one edit between
approval and sale. One replay key is the case in which marketplace purchases compete
with each other and with `/api/x402`; purchases on different replay keys
share nothing but the locks. Stripe sessions share nothing but the file, which every
write takes over whole in one action: one session with two requests is the case
in which a webhook, its repetition and a claim page meet. Two faults allow a
failed call followed by a crash. In the funnel a purchase can be counted twice
or never only through a restart between its fulfilment and its consumption, or a
failed save and a restart: two faults; a second key is the purchase whose
counting saves, or fails to save, both. Two requests are the first and its
retry, the ones whose attempts could be mixed up. For a session one other token
and one other session are whom it could be confused with. Two events are one
that is covered and one that is not; two workers are the service and the run
that overwrites it. Three buyer keys are one in two bodies and a fresh one in each
header. Four blocks hold an anchor, a use, its confirmation and one more; one
replacement can take the transaction out of its block between two calls. The
theorems do not depend on these bounds.

Symmetry of processes, keys, payments (with one replay key) and approvals is used
in the runs without liveness properties only.

## Fairness

`Progress` and `Fairness` are weak fairness of each process's own steps: every
await under a lock has a time limit (15 s for the facilitator, 8 s for RPC and
providers), so a process either goes on or is taken as crashed. Strong fairness
of lock acquisition says that a waiter is not overtaken for ever; flock queues
waiters, and waits of 180 s exceed the operations waited for. `BuyerPersists`
and `Retry` say that the buyer sends the request again now and then and, for
Gate1B, that a chain RPC answers now and then. Crashes and faults are bounded,
so eventually there are none. In Storefront every await ends (weak fairness of
`Step`), and Stripe goes on repeating an unacknowledged event when the server has
room for it (strong fairness of `Deliver`), which is its documented behaviour for
webhooks that did not answer 2xx.

`WorkerFairness`: the TryBounty worker starts a cycle every 30 s, catches what
a cycle throws, and every await of it ends; after a crash whatever supervises
the service starts it again (`trybounty-runner.sh` only executes node). There is
one service besides runs that end: two services that both go on for ever could
set each other back for ever, and `EventsSettle` would not hold.

## Disagreements found

* `RepeatedEffect`: a crash between the durable result and finalization, then a
  buyer's retry before the startup pass has run, executes the capability twice
  (`invoke` treats `finalization_pending` like a fresh claim).
* `MarketStranded`: a retry after a crash disputes the job but neither suspends
  the entitlement nor disputes the allocation.
* `MarketLostUpdate`: marketplace writes do not check ownership of the lock.
* `Misreported`: the route tells errors apart by their wording, so an unknown
  settlement outcome ("reconciliation required") is answered
  `400 invalid_payment_or_request` although the money may be taken, and a plain
  refusal by the facilitator is answered 502.

Each entry under "findings" in `PROJECT.json` quotes the document it contradicts.

The code also does less than its documents or its readers may expect in five
places. No run is spent on them: the models contain each of them, and the
properties are stated so that they say what holds in spite of it.

* Spelled nonces. An authorization whose settle call was lost or timed out, and
  whose transfer is not on chain yet, can be presented again with letters of its
  nonce in the other case, under another key or to the other route. It passes the
  replay check, is verified and settled anew, and its one use on chain pays both
  purchases through `/api/x402` at the next reconciliation
  (`docs/COMMERCE_FLOW.md:71` says "Replayed payment | Rejected";
  `docs/MARKETPLACE-SECURITY.md:7` that the marketplace "reserves the shared nonce
  before contacting the facilitator").
* The caller's key. `docs/BUYER_ADAPTER_V5.md:20` says "Preserves a
  caller-supplied `Idempotency-Key`"; the client does so for the option
  `idempotencyKey` and a plain property of that very name only, and a repeated
  call with any other form of it is a new purchase.
* Late provisioning. `docs/MCP_ARCHITECTURE.md:41-43` says that sessions are bound
  to the identity resolved at initialization; the tools resolve the credential
  again at each call, so a session bound to nobody acts for a credential that has
  become valid since.
* Batched transactions. Reconciliation accepts a transaction that uses the
  authorization for one transfer and carries another one as agreed.
* `recoverExecutionOutcome` has no guard on the state, so "effect not observed"
  resumes a purchase that was never settled. Nothing under `src/` but the proof
  harness calls it.

## Proofs

`Gate1BProofs` proves, for any processes, keys, payments and bounds:

* `TypeCorrect`: `Spec => []TypeOK`, with no further assumption;
* under `ExactOwnership`: `NoSharedPayment` (`OnePurchasePerReplayKey`),
  `JournalledFirst` (`JournalBeforeSettlement`), `OneSettlement`
  (`SettledOncePerReplayKey`) and `PastKept` (`PastIsKept`).

`Gate1BFulfilment` proves `WholeFulfilment` (`FulfilmentAllOrNothing`) without
`ExactOwnership`. Its invariant is about files: the durable one and every copy
in memory is `Whole`, so whoever writes last writes a whole file. It needs the
ids of purchases to be distinct and already drawn, and at each label what the
operation knows of its record (`Stage`). `UnpaidRecovery`
(`UnpaidOnlyByRecovery`) needs no assumption either: `BackedInv` says that every
file and copy that calls a purchase settled, and every operation past payment,
has the authorization on chain, unless the purchase was executed before, which
recovery may have caused.

The invariant of `Gate1BProofs` has three layers. `TypeInv` adds to typing that a record in use
is journalled and has an owner once claimed. `LockInv` relates labels to
guardians, so that at most one process is between the grant and its return.
`JournalInv` is the point: the process under the lock has in memory what is on
disk, a replay key is in `replayKeys` if a journalled purchase has it and only one
has, and a settle call was made only for a reserved one, at most once, and
not before the label `settling` of the purchase that reserved it. None of the
checked invariants is inductive alone: `SettledOncePerReplayKey` needs to know that
the one process at label `intent` has never settled, which follows from the
replay check it made under the lock, which needs `mem = disk`.

`Gate1BAnswers` proves, under `ExactOwnership`, what a buyer gets for a payment:

* `RealFulfilment` (`FulfilledIsReal`) and `AnswersAgree` (`RepliesAgree`);
* `Implements`: `Spec => LedgerSpec`, the refinement of `PurchaseLedger`;
* `NoRepeat` (`NoBlindRepeat`), assuming that no guardian dies and
  `RecoverKnown`.

`Wrote` states once what a durable write of the lock's owner does to its record
(`Reserves`, `Pays`, `Marks`, `Stages`, `Answers`, or nothing), and
`RunningCases` shows that every step of a running operation is such a write or
one of six kinds of steps that leave the file alone; the invariants are then
proved kind by kind. `TruthInv` ties the record to the world (a settled record's
authorization was used, a result or response is the ordinal of an execution,
given answers are the stored one), the copies to the file, however old they are
(`CopyTrue`: a process that lost its lock still knows nothing that has become
false), and the result an operation carries to the executions. The refinement
needs all of it: a write may pay only what was used and answer only what is
paid, and a stale copy must not be able to do either. `RepeatInv` adds that an effect without a durable
result is possible only in a record that says `executing` or
`execution_unknown`; a retry stops at both, and the executor that a witness
resumes starts only if there was no effect.

The hypothesis about recovery restricts the operator, not the code, which has no
guard there (see "Disagreements found"): `RecoverKnown` says that a witness is
asked only about executions that may have happened or whose result is durable.
The run Recovery has `RecoverFrom = {"executing", "execution_unknown"}`, which
meets it. That no
guardian may die is needed for `NoRepeat` alone: a process that lost the lock may
have an executor in flight when a witness answers.

`LedgerProofs` proves of the ledger itself `LedgerSafe` (no replay key pays for
two purchases, what is paid was used, exactly what is fulfilled has an answer) and `LedgerFinal` (nothing is given up again). The routes and the buyer's
client, whose models contain the ledger, use these facts step by step.

`MarketplaceProofs` proves `MarketTypeCorrect` (`Spec => []TypeOK`) without
further assumption and, under `ExactLocks` (no guardian dies under a purchase),
every safety property the run MarketPurchases checks: `MarketOneSettlement`
(`SettledOncePerReplayKey`), `MarketChargeVisible` (`ChargeIsVisible`),
`MarketOutcomesAgree` (`OutcomesAgree`), `MarketSoldAsApproved`
(`SoldAsApproved`), `MarketDownloadsBounded` (`DownloadsWithinRights`),
`MarketRepliesAgree` (`RepliesAgree`) and `MarketNothingTakenBack`
(`NothingTakenBack`). `ExactLocks` cannot be dropped: a purchase never asks
whether it still holds its locks, and MarketLostUpdate shows what happens when
it does not.

The invariant has the same three layers. `TypeInv` adds which call a label
belongs to. `LockInv` says which labels hold which lock, so at most one process
is under the market lock and none under the core lock when `CoreInvoke` runs.
`MarketInv` has a part for the files and a part for the process under the lock.
`KeyFacts` relates the record of a key to the world: what was asked, served,
replied and projected; its core is `Story`, the combinations of job, payment,
receipt, entitlement and allocation a record may have. `OwnerInv` says that the
process under the lock has in memory what is on disk, except for its own record
after a write that threw (`Current`), and what its label has established
(`StageInv`): before `settle` the replay key is reserved and was never settled;
before the answer nobody was told anything. `OutcomesAgree` and `RepliesAgree`
are not inductive alone: that a failed write leaves no false record behind
rests on `Current`, that an answer is the only one rests on `Untold`. The step
part of `MarketNothingTakenBack` is `Kept`, proved for each action with the
invariant.

`StorefrontProofs` proves `StoreTypeCorrect`, `StoreFulfilledOnce`,
`StoreSalesAreFinal` and, if the server works on finitely many requests
(`FiniteRequests`), `StoreDownloadsBounded`: all the safety properties of the run
Storefront. `FulfilledOnce` needs `SaleInv`: an event or a request that says
"paid" is right, and only requests that say so pass the check. `SalesAreFinal`
follows because a session without an outcome has no entitlement, so the counter
that a commit sets to 0 was never used. `DownloadsBounded` needs the requests
that are sending a file to be counted with the files sent (`SendInv`).

`ServerProofs` proves `FunnelSafe` (`RevenueIsExact` and `RowsTellTruth`, with the
types), `SessionsSafe` (`SessionsKeepPrincipals`), and of the composition the run
checks `ServerSafe`, all three and `TypeOK`. `RequestsSound` says what a
request knows at its label (past `verify` it has reserved its authorization; an
attempt that says settled has used it), `Exact` that a counter is 1 for what was
consumed and 0 otherwise, in memory and in the snapshot; a restart falls back to
an older exact pair, and consuming makes it complete again. `RowsTellTruth` needs
that the ledger never goes back, because a row outlives its request.
`SessionsBound` says that the principals of a session are its opener's or nobody,
and `CallsBound` that a call still in progress presented what its session was
bound to when it was admitted, whatever was revoked, granted or closed since.

`OperatorProofs` proves `WorkerSafe` (`CursorCovers`), `GateSafe`
(`SubmissionsApproved`), `BuyerSafe` (`PaidAsApproved`) and `AuthoritySafe`
(`SettledIsFinal`), each with its types, and of the composition the run checks
`OperatorTypes` and `OperatorSafe`, for any workers, events, documents, calls,
endpoints and heights. The worker's invariant is about copies: the file and
every copy of it cover the events up to their own cursor, so whichever of two
unlocked workers writes last leaves no gap. The gate's needs that hashes of new
documents are above all earlier ones (by the cardinality of finite sets). The
buyer's ties signatures to approvals, requests to signatures and payments to the
keys the server sees, over the ledger's invariant. The verifier's says what an endpoint's older view still says
of the chain: what it shows below its head has not moved (`ViewsSound`), so a
proof with two confirmations is about a block that cannot be replaced
(`ProofsSound`).

Assumptions on constants that the proofs use: a missing authorization, answer or
hash is not a value of its type (`LedgerAssumption`, `NoRequest` in
`Gate1BAssumption`), and the endpoints of `AuthorityAssumption` are a sequence
with natural bounds. TLC evaluates all of them in the runs.

Only model-checked: the liveness properties (`OperationsEnd`,
`MoneyTakenIsAnswered`, `CallsEnd`, `BuyerIsAnswered`, `PaidIsProcessed`,
`EventsSettle`), which are out of the prover's reach. The runs that expect a
violation have nothing to prove.

## Not modelled

Canonicalization of x402 payloads, schema validation, SSRF checks of fetches,
signatures, rendering of discovery documents and manifests, scores and audits
of pages, telemetry other than revenue: data and pure functions, without state
or order. Rate limits of the routes: counters nothing depends on. The monitors:
they probe over HTTP and write a report. The XKEY bridge: a service outside this
repository. Creator intakes and balances of the marketplace: written or
summed, never read by a decision. `bindOnchainVerification` in
`machine-commerce.mjs` is an unlocked read-modify-write of the core file that
nothing calls; nor does anything verify by receipt id in `verifyOnchain`.
`PromotionEngine` and `AuditLog` would be written without a lock if two
processes used them, but no code constructs either. The deployment scripts are
straight-line shell, run by hand; they stop at the first failing step and
`promote-v4-stable.sh` undoes nothing after the switch, so there is no rollback
protocol to check.
