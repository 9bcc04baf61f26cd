# NUTbits in TLA+

NUTbits (`nutbits.js`, about 1800 lines, with `api/`, `store/`, `cli/` and `gui/`
beside it) is a bridge: apps speak Nostr Wallet Connect (NWC) to it, it speaks
Cashu to one or more mints, and the ecash it holds pays and receives Lightning
invoices. It is one Node process: the code between two `await`s runs alone, and
every `await` lets every other handler run. Almost all that can go wrong lies in
what another handler, a mint, a relay, the store, an operator's client or a crash
does at an `await`; the modules here model NUTbits at that grain.

To check one configuration: `tlc -config MCNwcRelay.cfg MCNwcRelay`; to check the
proofs of a module: `tlapm StateStoreProofs.tla`.

## Inventory

| Component | State | Operations | Hard part | What makes it correct |
|---|---|---|---|---|
| Payment path (`payInvoice`, `withPaymentLock`, nutbits.js 339-347, 630-713) | the lock's queue, local `activeProofs`, `keep`, `send` | quote, read, send (swap at the mint), `swapProofs`, melt, store change or restore | four awaits in a row, each of which can fail; unknown melt outcome; lock | no proof spent twice, none lost, the answer agrees with the mint, every caller is answered |
| Minting and restore (503-626, 1576-1585) | the mint's quotes, the seed | `checkAndMintTokens`, `restoreFromSeed`, boot restore | lost answers, concurrent payment, spent signatures | issued tokens reach the store |
| Invoice lifecycle (503-601, 850-975) | pending quotes, credit of a connection | waiter, subscription, lookup, `receive/check` | four callers of one check of one quote | credited once, in the end |
| `pay_invoice` (980-1178) | `tx_history`, `dedicated_balance_msat`, daily spend | duplicate check, limits, balance checks, payment, booking | checks before and bookings after a long payment; a store that throws once the mint has paid | a balance overdrawn, a limit passed for known causes only; one payment per invoice |
| `POST /api/v1/pay` (api/handlers/index.js 1097-1220) | the `__api__` history and daily spend | the same for the operator | another view of the same pool | the ecash covers the balances but for known causes |
| Fund, withdraw, revoke (117-127, 419-452, 494-570) | `dedicated_balance_msat`, `balanceLocks` | transfer between pool and connection | a lock per connection, a check over all of them | the same |
| Mint manager (165-256, 418-474, 1752-1772; API 708-751) | `activeMintUrl`, `mintHealth`, `wallets`, `mintCaps` | initWallet, failover, health loop, operator's switch | three unsynchronised writers of one variable across awaits | quotes stay with their mint, recovery, no false alarm, no premature giving up |
| NWC events and relays (99-121, 786-850, 1198-1247) | processed events, relay pools | dedup, reconnect, revoke | cap and expiry, restart, revoke during a dial | handled again only for a reason, silent once revoked |
| Connection creation (1250-1350; API 300-415) | connection records, `connectLock`, `deeplinkLock` | create, mark dedicated, hand out | two locks, a crash between two writes | everyone gets his own connection, and a dedicated one |
| State stores (`store/*.js`) | connections, counters, daily spend, proofs, key and version | open, migrate, change the key, update, reserve, spend | statements without a transaction, crash between any two, objects shared with the handlers | what is written stays until somebody writes it; no counter twice |
| Transaction history (api/handlers 580-705, 760-850; nutbits.js `list_transactions`) | `tx_history` of every connection | record, settle, fail, list, export | read connection by connection, a limit for each | no list leaves a transaction out for an older one |
| Settings and `.env` (api/handlers 900-1060, 1380-1411; nutbits.js 1490-1530; setup.cjs) | the file, `config`, the logger's level | POST `/config`, POST `/config/env`, seed saved at the start, wizard | two requests that save in different ways; several writers of one file | a seed is lost by a second setup only, what runs is what is saved |
| Service log (api/handlers 1300-1350) | a ring for each level | log, `GET /logs`, `logs -f`, Logs page | rings, limits, timestamps | errors are not evicted, pages catch up |
| API server, router, limiter (`api/*.js`) | token of a run, the limiter's windows | authenticate, route, limit | boundaries of the window, the sweep | at most so many per window |
| Command line (`cli/commands/*.js`) | what the operator saw, prompts, a request | the clients of the API | a client's timeout; positions that move | acts on what it showed |
| Terminal UI (`cli/tui/*.js`) | frame, panel cache, session samples | keys, timer, fetch, commands | rendering awaits the API | no stale panel, no invented chart |
| Browser console (`gui/src`) | stores of connections, history, fees, logs; dialogs | pages, polls, dialogs | answers in any order, restart | a dialog's row is the one acted on, lists converge |
| Setup wizard (`scripts/nutbits-setup.cjs`) | the new `.env` | keep or replace | replaces a file another process writes | a first run keeps the seed |
| Deeplink pages, scripts, packaging | - | - | - | not modelled, see the end |

How they interact. The parts of the service meet in three shared variables: the
proofs of a mint, the active mint, and the connection records. `payInvoice` is
called by `pay_invoice` and by `POST /pay`; it takes the mint's lock, moves
proofs through the store, and may start a failover. Minting and restoring add
proofs without the lock. The health loop and the operator move the active mint
under everybody. The relay loop hands events to the handlers and carries their
answers. The clients see all of it through requests of which each reads a moment,
and which they give up on after fifteen seconds while the service goes on.

## Modules

| Module | Models | Theorems in |
|---|---|---|
| `ProofVault` | the proofs of one mint: store, payments, mintings, restore, crash | `ProofVaultProofs` |
| `Payment` | abstract: what callers of `payInvoice` rely on; `ProofVault` implements it, `Spending` uses it | `ProofVaultProofs`, `SpendingProofs` |
| `Spending` | who may spend how much: both pay handlers, fund, withdraw, revoke, in amounts | `SpendingProofs` |
| `MintFailover` | the active mint: startup, failover, health loop, operator | `MintFailoverProofs` |
| `InvoiceLifecycle` | an incoming invoice from the request to the credit | `InvoiceLifecycleProofs` |
| `NwcRelay` | a connection's relays and events | `NwcRelayProofs` |
| `ConnStore` | abstract: what callers of `updateConnection` rely on | |
| `StateStore` | the three backends; implements `ConnStore` | `StateStoreProofs` |
| `ApiServer` | creation, positions, limiter, revocation, token | `ApiServerProofs` |
| `Console` | extends `ApiServer` by the browser's page of connections | `ApiServerProofs` |
| `TxHistory` | the history and everybody who reads it | |
| `MoneyPages` | receiving and paying by hand, in the browser and the shell | |
| `LogTail` | the log and its readers | |
| `Settings` | the `.env` file and its writers | `SettingsProofs` |
| `Terminal` | extends `Settings` by the terminal UI, whose `config` command is one of its shells | `SettingsProofs` |
| `Service` | the wallet as `GET` requests show it, each change one step | |
| `Panels` | extends `Service` by the panels and charts of the terminal UI | |
| `CommandLine` | extends `Service` by the commands that change something | `SettingsProofs` |
| `MCPages` | `Console`, `MoneyPages` and `LogTail` as scenes of one run | |
| `MCClients` | `Panels` and `CommandLine` as scenes of one run | |
| other `MC*` | sets, amounts, symmetry and step bounds for TLC | |

Definitions commented as *Mutant* are deliberately wrong variants of the
definition that follows; no specification uses them. Each property of a run is
tested against one: with the wrong variant in place, TLC finds it violated.

In every module an action is a handler's code from one await to the next, a
guard is a condition or an early return of the code, a variable commented *ghost*
or *history* is read by properties only, and a constant commented *bound* limits
the instance and stands for nothing in the code.

### ProofVault

`vault` is what `store.getProofs` reads, `disk` what a
restart would read (they differ only on the file store, after a write that
threw), `recovery` the files of nutbits.js 678. `queue` is the chain of promises
of `withPaymentLock`; its head holds the lock. `active`, `keep`, `hold` and
`change` are payInvoice's `activeProofs`, `keep`, `send` and `meltResult.change`;
`pc` is the await a payment stands at. `mint` is the mint's own view of each
proof and `melt[p]` its state of the invoice's melt quote: `UNPAID`, `PENDING`, `PAID`; a
pending quote settles or fails by itself and touches no other. `stranded` is a ghost: proofs a
*named fault* took from the process, of which only the seed still knows.

`LiveArray` is the one difference between the backends that matters: with the file
store `activeProofs` *is* the store's array (`ActiveProofs(p)`), and a write that
throws has already changed memory. `Faults` selects which of four faults can
happen: the mint's answer is lost after it acted, a melt is left `PENDING`, a
store write throws, the recovery file cannot be written either.

`ImplementsPayment` says that all of this is a `Payment`: `Status(p)` forgets where
inside `payInvoice` a payment stands and in which order the lock serves them, and the
mint's `melt` is the abstract one. What a failure means depends on the mint and the
store, so `Payment` has it under its constant `Definite`, here "none of the faults but a
recovery file that cannot be written".

Abstractions: a proof is worth one unit; selection by `wallet.send` is any subset
of the right size, exact or through a swap with at most one more input than
needed. The store is a set: duplicates the file store may hold after a restore
are not distinguished.

### Spending

`req[r].at` is where a pay request stands, `admin[a].at` where an operator's
request stands. `tx[c][i]` abstracts the record of an outgoing payment to known,
paid, failed. `funds` is `dedicated_balance_msat`, `pool` the sum of the store's
proofs in sats. `Receive` to `TrackSpend` are the pay_invoice handler cut at its
awaits; `Take`, `Paid` and `NotPaid` are `ProofVault`'s payment as one amount;
`payer`, `overdraft` and `had` (what a request's balance check saw) are ghosts.
`StoreFails` lets every read and write of the store throw: before the payment the
request ends in the handler's catch, after it some of the three writes of the booking
are missing. `LiveConns` says whether `getAllConnections` shares the connection objects
(file store, where a funding's sum is over what is true at its check) or copies
rows. `MaxRunning` bounds the handlers that run at once.

The documentation promises `Isolation` (docs/CLI.md 141, docs/NWC-DEEPLINK-INTEGRATION.md
58), and a daily limit. The handlers check before and book after a payment of seconds,
so two at once break both. What is checked of the code is what it does keep, with no
restriction on interleavings: `OverdraftBounded` (a balance is overdrawn by no more than
it fell since the check, and by the routing fee beyond what was set aside),
`ShortfallHasCause` (the ecash comes to cover less than the balances by an API payment,
a check that saw more than there is, or such a fee), and `DailyOverrunBounded` (a limit is
passed by at most one invoice for each handler that ran beside).

`UsesPayment` is the other side of `ImplementsPayment`: `PayStatus(r)` and `PayMelt(r)`
read off a request whether its handler has called `payInvoice` and what it got, and say
that both handlers call it once, after their checks, and answer what it returned.
`Spending` takes failures as the mint's last word (`Definite` is `TRUE`); what a melt that
is left pending does to its caller is `ProofVault`'s `FailureMeansUnpaid`.

### MintFailover

A mint is its place in `orderedMints`. `pc`, `target`, `blamed`, `cand` are the
locals of `withFailover` and `failoverToNextMint` for each call; `stage`, `probe`,
`limit` those of a run of the health loop; `wanted` an operator's request. A
mint's `reach` flips at any time. `health` abstracts an entry of `mintHealth` to
healthy, down within the cooldown, down for longer, and no entry. A failover writes its
switch to the store inside the `try` of its `loadMint`: when that throws (`StoreFails`,
`SwitchUnstored`), the mint that has just answered, and is active, is marked down, and the
loop goes on. `caps` is the
domain of `mintCaps`, `loaded` the wallets with keysets. The persisted active
mint is not modelled, because startup overrides it.

### InvoiceLifecycle

`at` is where a task stands. An invoice names its own creation and waiter (the
handler and the waiter it starts are one thread of code); a lookup or
`receive/check` picks any invoice. `checkAndMintTokens` is `checking`, `minting`,
`storing`, `settling`, `crediting`: one await each. `tx`/`balance` are the
connection in memory, `row`/`balanceRow` in the store; `quote` is the mint's
record, which issues tokens once. `InOrder` says whether writes of one process
reach the store in the order they were made (file, SQLite) or may overtake each
other (MySQL's pool). `lost` and `forfeit` are ghosts that name what a lost answer,
a failing write or a crash took.

### NwcRelay

`loop`, `dial` and `slot` are the program counter of `startRelayLoop`; `sock`,
`since` and `sent` the newest socket of each relay with its subscription; `seen`
is `processedEvents` in insertion order, with its cap, its halving and its expiry.
A relay may deliver an event late, out of order, once per subscription, or never;
`foreign` events share the connection's tag and fill the map. `revoked` is the
flag in memory, `revokedRow` in the store, `told` that the operator has his
answer. `arrivals` is a ghost: what `isDuplicate` has entered since the start.

### StateStore and ConnStore

`ConnStore` is what handlers can rely on with `updateConnection`: while a call runs its
fields are written, some of them before it is made on the file store, whose connection
objects its callers hold; when it returns without an error all are durable; a crash
leaves what is durable; a restart reads exactly that. A field stays as written until
another call writes it, or, in a store whose calls overlap (`overlap`), until a call that
was under way writes back what it had read. `ConnStore` does not promise that the fields
of one call are written together.

`StateStore` has `phase` for the steps of `init` (schema, salt, key, version,
re-encryption, migration of a `.enc` file, its renaming), `at`, `fetched` and `number` for
each call's await, `mem` for the file store's `#state` and `db` for the tables. The
refinement mapping of `ImplementsConnStore` takes `seen` from `mem` or `db`, `durable`
from the file or `db`, and translates `at` to a call's status and open fields. In the
file and SQLite stores a call is a chain of microtasks, so no second call starts within
it; `MysqlOverlaps` says whether MySQL's calls do. `Begin`, `FileTouch` and `GiveUp` are a
handler that changes the object, waits (`PATCH /connections` resolves an address), and
then calls the store or fails: any save in between takes the change along. `raced` and
`swept` are ghosts that name what overlapping MySQL calls, and a clean-up over midnight,
do to a counter and to the day's sum.

### ApiServer and Console

`queue` is `connectLock` and `deeplinkLock`, `before` and `found` are
`keysBefore` and `newPk`; `mem`/`info` are `nwc_info`, `rows`/`row` the store;
`window` is the limiter's entry for one address, `accepted` the times it let a
creation in. `Console` adds the list as it was last answered (`view`), requests
under way (`fetch`), the revoke dialog's row (`target`) and the dialog with a
connection's string (`shown`). `page` is the token in `localStorage`.

### TxHistory, MoneyPages, LogTail

`TxHistory`: `hist[c]` is `tx_history` in the order records were made; `read[f]` a
request that reads connection after connection, an await each; `stamp` is
`created_at`, which `POST /pay` sets anew when it is asked for the same invoice again; the client's part
is the shared history store of the three pages, `watch`'s last timestamp, or the
output of a command. `MoneyPages`: `making`, `checks`, `resolving` and `reply` are
requests under way, the rest the reactive state of Receive.vue and Pay.vue and of
the two commands; what the service does inside is one step each, as
`InvoiceLifecycle` and `Spending` say it ends. `LogTail`: a ring for each level,
the page's `entries` and refresh timer, the tail's `lastTs` and output.

### Settings and Terminal

`file` is the sequence of lines of `.env`; a line has a key, a text, whether it is
commented out, and whether it is quoted or escaped, since the writers differ in
exactly that. `edit` is where an editor stands between its two requests, `live`
what runs, `seed` the seed in memory and `used` those that proofs were derived
from. `apart` is a ghost: the settings that the wizard, or the level that the boot screen
puts back, set apart from the file. A conversion is what it does: `Persist` and `PutLine` are the
regular expressions of the two writers, `Read`, `Garbled` and `AtStart` what dotenv
and the start make of the lines. `Terminal` adds `drawing`,
`queued`, `collecting` and `inCommand`, the flags of `cli/tui/app.js`, `again` for the second
fetch of the panel the UI starts with, and the last `frame`. Two panels stand for all: one
that shows what runs, refreshes itself and is the first on the screen, one that runs a
command.

### Service, Panels, CommandLine

`Service` is the state the `GET` endpoints read, and one operator for each answer;
what payments, failovers and the operator do to it is one step each. A panel
is a sequence of groups of requests: a group goes out together (`Promise.all`),
its answers are read at different moments, some may fail; `shown` is the facts the
panel makes of them. `ring` is the session's samples, with two collectors because
nothing waits for the first. `CommandLine` is each command as prompts that come
back with a choice or `Cancelled`, then one request, which `posts` keeps when the
shell no longer waits.

## Runs

Each run is one configuration; `MaxX` constants and the sets bound it.

| Run | Configuration | Instance | Shows |
|---|---|---|---|
| `vault_faults` | `MCProofVault_faults` | 2 payments of one proof with a fee reserve of one, 1 minting, 1 seed restore, 1 crash, all four faults, a store that copies rows | no proof in two hands; nothing is lost but to a named fault |
| `spending_limits` | `MCSpending_limits` | 2 requests of a dedicated connection, a shared one or the API, 2 operator calls (fund, withdraw, revoke) on 2 dedicated connections, three of the four at once, rows copied, routing fees of up to 2 sats against 1 % set aside, daily limits 4 and 1, a store that may throw | `OverdraftBounded`, `ShortfallHasCause`, `DailyOverrunBounded` |
| `spending_concurrent` | `MCSpending_concurrent` | 3 requests of a dedicated and a shared connection and the API for one invoice, a revoke, a store that may throw; fairness; requests are interchangeable, so their callers are chosen in one order (`InOrder`) | a payment made is recorded and never forgotten, success means paid, every request is answered |
| `failover_return` | `MCMintFailover_return` | 3 mints that come and go, and the health loop beside either a caller of createInvoice, or a payment, an operator and a restart (the cast is chosen at the start); the switch of a failover may not be stored; fairness | loaded active wallet, a mint that answers is marked down for two reasons only, a failover gives up only when every mint was found down, the primary returns, calls end |
| `relay` | `MCNwcRelay` | 2 relays, 1 request, 2 foreign events, a deduplication map of two that expires at once, a broken socket, a crash; fairness | an event is handled again only for a reason, a revoked connection is silent, relays that are back are used |
| `invoices` | `MCInvoiceLifecycle` | an invoice of an app and one of the API, 2 lookups, WebSocket then polls, lost answers, failing writes, 1 crash; fairness | credited once, settled means stored, issued tokens accounted for, paid is minted |
| `store` | `MCStateStore` | the three backends, MySQL with calls that overlap, a file with a used counter; two updates that share a record (one writes the blob and the column), 2 reserves, 2 additions on 2 days, of which two kinds of calls meet; failing writes and migrations, 2 crashes | the refinement of `ConnStore`; keys fit rows; old state, counters and spend are lost for named reasons only |
| `api` | `MCApiServer` | a creation by the operator and two by link, limit and window of 1, time to 3, a failing write, a restart; fairness | own key, dedicated, rate bound, every creation ends |
| `history` | `MCTxHistory` | a connection and the API, 3 transactions (one recorded early), limits 2, 1 and 3, two requests of one of four readers, and two of a retry, a revocation, a restart; fairness | no list leaves out a transaction for an older one; the History page catches up |
| `pages` | `MCPages` | one of three scenes: connections (3 rows, 2 polls, 2 dialogs, a restart), money (2 mints, 2 receipts, an invoice, 2 addresses, 2 payments, faults), log (rings of 2); fairness | a revocation hits the row chosen, lists converge, paid is shown |
| `clients` | `MCClients` | one of three scenes: all 27 panels and read-only commands, the charts, or three commands by two shells, over 2 mints and 3 connections | charts invent nothing; commands act on what they showed |
| `settings` | `MCTerminal` | a console, a shell and the terminal UI's shell, an `.env` copied from the example; 2 edits of a fee (one text of it refused) or of the log level, 2 stops, 2 wizards, 3 keys, three or four of these together; fairness | live is saved but for named exceptions, a seed is lost by a second setup only, live panels catch up |

A behaviour of `pages` or `clients` has one scene, chosen at the start. The scenes
of `pages` share no variable, and those of `clients` only the service under them,
which does not depend on who watches it: no interaction of the code is lost by
exploring their sum and not their product.

### Bounds, and why they suffice

- Two payments are enough for a race between payments, which meet only through the
  lock and the store; a third would wait behind the second. One minting suffices for
  the array the payment shares with it. `MCProofVault_db` has a proof more than a
  payment takes, so that `keep` is not empty and a swap may add an input.
- A crash and a restore can fall at each await of each task, which is what
  `MaxCrashes = 1` gives; the store has two, because what a crash leaves half done
  is finished, or not, by a start that may crash too.
- In `spending_limits` a second request, and operators, are there between any two awaits
  of a first; 1 % is set aside for the fee and the mint may keep 2 sats, so both causes of
  an overdraft occur. With `MaxRunning = 2` two requests reach the bound of
  `DailyOverrunBounded`; with 3 operators join in.
- Three requests let a duplicate meet a payment that succeeded and one that failed.
  Sats of 1 and 2 with a fee of half a sat per sat and a reserve of 25 % make
  rounding, the service fee and the reserve each decide some request.
- Three mints are the fewest for which a failover passes over one candidate and
  reaches another; two suffice for races between those who switch.
- Two relays are the fewest that deliver one event twice and that the loop can
  be between; three events against a map of two reach its cap and its halving.
- Two updates of one connection, of which one writes a column and the blob, are the
  fewest that can lose one another's field and be cut in half by a crash. Updates,
  reserves and spends write different things: two kinds of them meet, whichever two
  (`Together`).
- Two edits by two of three editors put the two requests of each between those of the
  other; two wizards are the fewest that lose a seed. A key reaches the terminal UI while
  it renders with an edit and a stop, or without; `Together` of `MCTerminal` has which
  events meet. In `TxHistory` any two of a restart, a retry and a revocation meet.
- A limit of one and a window of one unit put every accepted creation at a boundary;
  time to 3 has one window expire and the sweep run in every phase.
- A limit of the history's page below the number of transactions makes every list
  leave something out, which is when the order in which it does so matters.

Where every request of an instance is spent the system really stops:
the configurations of `Spending`, `NwcRelay`, `InvoiceLifecycle` and others that
bound their inputs do not check deadlock.

### Fairness

Every fair action is one the code's scheduler performs: an await of a `fetch`
with a timeout or of the store settles, a timer that was set fires, a stopped
process is restarted by its supervisor where the property needs it.

| Module | Fair | Because | Not assumed |
|---|---|---|---|
| `ProofVault`, `Spending` | steps of a payment or request, tokens issued reach the store (WF) | `NUTBITS_FETCH_TIMEOUT_MS`, the store | requests, crashes, the outcome of a melt |
| `MintFailover` | calls, the loop's checks, the operator's pending request, boot (WF) | fetch timeouts, `setInterval` | mints, cooldown, who calls |
| `NwcRelay` | the loop's steps, boot (WF); per relay, a dial that opens (SF) | sleeps and timeouts; a relay that is up for good accepts, though it may drop first | deliveries, clients |
| `InvoiceLifecycle` | the waiter's steps and its check (WF) | sleeps, timeouts | lookups, an answer of the mint |
| `ApiServer`, `Console` | handlers, polls, answers, reload (WF) | timers of the page; a page that shows it lost the service is loaded again | operators |
| `TxHistory` | steps of a reader, its poll (WF) | timers, timeouts | changes of the history |
| `MoneyPages` | checks and their answers (WF), that a check reaches the service (SF) | a timer of five seconds asks again after each failure | payers |
| `LogTail` | refresh and its answers (WF) | timer | entries |
| `Terminal` | reach and draw, for both fetches at the start, collect, refresh (WF) | timer, local requests | keys, edits |

`StateStore`, `Panels` and `CommandLine` state no liveness.

## What is proved

TLAPS checks these for every value of the constants that satisfies the named
assumptions. Each theorem has the same shape: an inductive invariant, one lemma
for the initial states, one for a step with a case per action, and a last step
by temporal logic. Where a theorem has a hypothesis beyond the assumptions of its
module, the hypothesis is a way in which the code does lose the property, and
*Further configurations* has the run that shows it.

Payments:

- `TypeCorrect` (`ProofVault`), `SpendingTypeCorrect` (`Spending`): types.
- `NoDoubleSelectionTheorem`: for both kinds of store and all faults. A payment
  holds proofs only while it is at the head of the queue. `NoDoubleSelection` says
  nothing of the queue, so it is not inductive; `LockInv` adds that whoever is inside
  `payInvoice` is its head and that whoever waits is in it.
- `NoSilentLossTheorem`: on a store that copies rows (`~LiveArray`). `LossInv` adds
  that every proof in a variable has been signed (a proof in hand is never mistaken
  for a fresh one), and, for a payment about to swap the store, that what it removes
  beyond what it keeps or sends is spent. It follows from `NoSilentLossUndisturbed`.
- `NoSilentLossUndisturbed`: on either kind of store and under all faults. Its
  hypothesis names the one way a proof is lost with the file store, that one arrives
  in the array a payment has read and not yet swapped (`ArrivesUnderPayment`), which is
  what `MCProofVault_alias` shows. `SharedInv` adds that the shared array holds nothing
  then that the payment has not read.
- `ImplementsPaymentTheorem`: `ProofVault` implements `Payment`, for all constants and
  all faults. `PaymentInv` adds where in a payment the mint's quote can stand in which
  state; each step is then a step of `Payment` or leaves its two variables alone.
- `FailureMeansUnpaidTheorem`: from the same invariant; success means paid under any
  faults, failure means unpaid if the mint's answers arrive and are final and the store
  can be written (`Definite`).
- `FailedPaymentGivesBackTheorem`: where the store can be written, whatever else fails
  or crashes. `BackInv` adds what of the proofs in hand is in the store at each await.
- `NoPhantomBalanceTheorem`: with no fault but the recovery file's, no crash and no
  restore (`Undisturbed`): each of these does leave spent proofs in the store. `HonestInv`
  adds that what a payment or a minting will store is not spent, that what a payment
  will spend is no longer in the store, and that a minting's tokens are nobody else's.
- `UsesPaymentTheorem`: both pay handlers keep to `Payment`, from `HistoryInv` and the
  type of requests.
- `OnePaymentUndisturbed`: with any number of handlers. `OnePaymentPerInvoice` is lost
  in one way only, a request that arrives while another for its invoice is under way
  (`ArrivesAlone` excludes it): the duplicate check reads the history, and the record of
  the first is not yet paid. `OnceInv` says that no two requests of a connection for one
  invoice are past the check. The API is left out: `POST /pay` looks at no history.
- `SuccessMeansPaidTheorem`: a success may be answered from the history, which the
  property does not mention; `HistoryInv` adds that a record marked paid, and a
  request past the payment, is of an invoice the mint has paid.
- `PaidIsForeverTheorem`: `Receive` replaces a record only when it is not paid; the
  places that mark a failure keep the mark of payment; the API writes records of its
  own caller only.
- `PaidIsRecordedTheorem`: `RecordInv` adds to `HistoryInv` who the payer of an
  invoice is, and that a settled request is its payer's.
- `IsolationUndisturbed`: with any number of handlers at once. Its hypothesis names
  the one step that breaks `Isolation`, lowering a balance between a payment's check
  and its booking (`Undisturbed`); every other interleaving is proved harmless.
  `BalanceInv` adds that balances are whole sats, that the mint keeps at most its
  reserve, and that a balance in hand covers what it was checked for. That last part
  needs `ReserveCovers`: the percentage set aside covers the reserve the mint asks
  for. `PercentageCovers` puts it in terms of the configuration; with a smaller
  `NUTBITS_FEE_RESERVE_PCT` the fee of one payment overdraws a balance.
- `OverdraftBoundedTheorem`: every constant, any number of handlers, a store that may
  throw. `HadEnough` adds that what a request's check saw covers what it asks for.
- `DailyLimitCountedAlone`: the argument of `IsolationUndisturbed` for the daily limit,
  `DailyLimitHolds`. The disturbing step is counting another payment of the caller
  between the check and the count; `RoomLeft` is what the check leaves.
- `DailyOverrunBoundedTheorem`: what that can come to. `OverrunInv` adds that whoever is
  past the check is within the limit by itself. When a check passes, everything
  counted by then is within the limit; at most `MaxRunning - 1` other requests are past their
  check and uncounted. Both are sums over sets of requests, folds in no fixed order; the
  lemmas from `SumPick` on give what they do when one summand moves, each by a
  smallest set for which it fails.

Mints:

- `FailoverTypeCorrect`: types, and that every target, candidate and probe is a mint
  there is.
- `ActiveWalletLoadedTheorem`: any number of mints, callers, loops and operators.
- `NoFalseBlameTheorem`: every constant, `SwitchUnstored` included. It needs the types of `health` and `blamed`,
  and, of the caller that blames, where in `withFailover` it stands.
- `FailoverExhaustiveTheorem`: every constant. `Unblamed` adds that a call that has not
  failed yet has no mint it blames.

State:

- `StoreTyped` (`StateStore`): types.
- `ImplementsConnStoreTheorem`: every constant, overlapping MySQL calls and touched
  objects included. `StoreInv` is five named parts: `TypeOK`; `Phases`, what each step of
  `init` has and has not done; `Calls`, that where calls do not overlap one at most is
  between two statements; `Records`, what the row and the file hold in which phase;
  `Halves`, that what an update has read is a record and, where calls do not overlap, is
  what is there. Each step of `StateStore` is then a step of `ConnStore` or leaves all
  seven of its variables alone.
- `KeyFitsRowsTheorem`: no assumption; whatever interrupts a change of key, the
  next start derives one that fits.
- `OldStateReachableTheorem`: every constant, a migration that throws included. `Wallets`
  follows the old proofs and the old connection's record, with all updates since, from
  the file to the database.
- `CountersNeverRepeatTheorem`: every constant. The two ways a counter is handed out
  again are in the property: a migrated file's counters (`Forgotten`), and reservations
  of MySQL that overlap (`raced`). `Counters` adds that otherwise no stored counter lags
  behind what was handed out.
- `SpendIsCountedTheorem`: every constant; `swept` is the clean-up of MySQL over
  midnight. `DaySpend` says the same of what is durable.
- `CreditedOnceTheorem`, `SettledMeansStoredTheorem`, `IssuedIsAccountedTheorem`: any
  number of invoices, waiters and lookups. That issued tokens are in one hand only is
  `Held`; that a task which settles or credits found them stored is `Settling`.

Connections:

- `RevokedStaysQuietTheorem`: any number of relays, reconnections and restarts.
- `RelayTypeCorrect`, `ReplayIsExcusedTheorem`: any cap and age of the map of processed
  events. `SeenInv` is the invariant that makes it so: the map is the end of all that
  has arrived since the start, in order, so an event that is not in it was dropped
  by its age or pushed out by enough others. `SinceInv` adds that no subscription
  asks for what is older than the start.
- `OneInsideTheorem`: `connectLock` and `deeplinkLock` each admit one creation.
- `ReplyIsOwnKeyTheorem`: although the two locks do not exclude each other, the first
  new key a creation finds is its own. `Own`, a part of `KeyInv`, is the reason: while
  a creation waits for the store and the relays, its own key is in memory, and every
  key before it in the order of the loop was there when the creation looked.
- `HandedOutIsDedicatedTheorem`: follows with it, since the flag is then written to the
  row that is handed out, before the answer.
- `SrvTypeCorrect`: types. `ConsoleUsesService`: the specification of `Console` implies
  that of `ApiServer`, so the theorems about the service hold under the browser.
- `RevokeHitsChosenTheorem`: whatever is created, revoked, refreshed or restarted while
  the dialog is open. `RevokedFirst` adds that what the store, or a write on its way,
  knows to be revoked is so in memory: a restart revokes nothing nobody chose.
- `RateBoundTheorem`: for every limit, window and phase of the sweep. `RateInv` adds
  that accepted times are ordered, and how they relate to the entry: those since its
  start are as many as it counts, those before it are at most the limit in a window.

Commands (`SettingsProofs`):

- `ActsOnShownTheorem`: any number of operators, connections, labels and requests, given
  up or not. `ShownInv` adds that a list on offer names the connections as they are
  called, and that what was chosen from it, or asked about by name, stays labelled as
  the one that was meant, from the choice to the request at the service.

Settings, under the terminal UI:

- `SeedKeptWhileBackupServes`: any number of editors, starts and runs of the wizard.
  Its hypothesis names the step after which `SeedKept` no longer holds: a backup overwritten
  by one that lacks a seed in use. `SeedInv` adds that while the wizard asks the file and
  its backup have the same seed.
- `SeedLostBySecondSetupTheorem`: with no hypothesis on the wizards. `SetupInv` adds that the
  first wizard finds a file with a seed, and that while one asks, its backup has the
  file's seed or is older than it.
- `LiveIsSavedTheorem`: `LiveInv` and `EditInv` follow an edit through its two requests.
- `SeedAlone` and `HotAlone`, conditions inside the two properties, are what they take of an
  installation: `.env` can be written and has one line for the key, as `.env.example`
  has; and nobody types another seed.
  `PutIsRead` is the lemma about the file both rest on: replacing the first line of
  a key is read back when it is the only one.

Only model-checked: all liveness and `ENABLED`, which the prover does not do; and
`HistoryComplete`, `ViewCatchesUp`, `ChartsInventNothing` and the properties of
`MoneyPages` and `LogTail`. Their lists are made with `SelectSeq` and sorts, of which the
prover has no facts: `SelectSeq` is recursive where it is defined, and its result by
induction over a sequence is out of reach. Their systems are small and
their question is one of interleavings, which TLC decides.

## Further configurations

These are not runs: each shows that a property of the project, or one stated in a
module for this purpose, fails or holds with one constant changed. Some are kept
as files; the rest are the run's configuration with the constants named here.
*Violated* means that TLC finds a behaviour the code allows.

| Base | Changed | Result |
|---|---|---|
| `MCProofVault_db` (file) | 6 proofs, payments of 2, no faults | `NoPhantomBalance`, `FailureMeansUnpaid`, `FailedPaymentGivesBack`, `ImplementsPayment` hold |
| `vault_faults` | | `ImplementsPayment` holds: all faults, a crash, a restore |
| `vault_faults` | `LiveArray = TRUE`, steps of `ArrivesUnderPayment` excluded | `NoSilentLoss` holds |
| `MCProofVault_file` (file) | file store, all faults, nothing minted; fairness | `NoSilentLoss`, `EveryPaymentAnswered` hold |
| `MCProofVault_alias` (file) | file store, a minting, no faults | `NoSilentLoss` violated |
| `vault_faults` | only `pendingMelt`, no crash, no restore | `FailureMeansUnpaid` violated: a pending melt is reported as failed, then paid |
| `MCSpending_isolation` (file) | two requests at once | `Isolation` violated |
| `spending_concurrent` | two invoices, two requests, no operator, `MaxRunning = 2` | `OnePaymentPerInvoice` violated |
| `spending_concurrent`, `spending_limits` | | `UsesPayment` holds |
| `failover_return` | two callers of createInvoice, nobody else (`SPECIFICATION Spec`, 2 mints) | `QuoteTaggedWithIssuer` violated; with one caller it holds |
| `failover_return` | a caller and the health loop | `ActiveCapsKnown` violated |
| `failover_return` | three mints, no restart | `RecoveryGoesUp` violated: the health loop moves down after a stale index |
| `invoices` | two invoices of the app, one lookup, lost answers | `RowCatchesUp` holds; with `InOrder = FALSE` (MySQL) violated |
| `MCConsole` (file) | the connections scene alone | `RevokeHitsChosen`, `ListConverges` hold; `ShownIsChosen` violated: the string of one connection under the name of another |
| `api` | an operator lists again | `SeenAgain` violated: the reply numbers unrevoked connections, the export all of them |
| `history` | a query with `until` | `HistoryComplete` violated: the range is applied after the limit |
| `history` | only outgoing payments, `watch` | `WatchAnnouncesNew` violated: `total` is capped per connection |
| `history` | two connections, one revoked | `ExportIsOfShown` violated: two endpoints number connections differently |
| `pages`, money | | `ReceivedIsPaid`, `ReplyNamesIssuer`, `SentMeansPaid`, `FailedIsUnpaid`, `MetaMatchesPayee` violated |
| `pages`, log | | `ShowsPickedLevel`, `TailSkipsNothing` violated; `LogsCatchUp`, `NoiseEvictsNothing` hold |
| `clients`, panels | `Opened = {"status"}` or `{"export"}` | `EveryMintOnStatus`, `ExportCountsAll` violated |
| `clients`, charts | | `BarsAddUp` violated; with a failover `ChangeIsMoney` too |
| `clients`, shell | | `ActsOnNamed`, `FailedIsUndone` violated |
| `MCTerminal_wizard` (file) | a fee, the wizard twice, nothing else | `SeedKept` violated: the only backup is overwritten |
| `MCTerminal_wizard` | no wizard, an edit | `AddKeepsMints` violated; with two edits `StartsAgain` |
| `settings` | `ReadOnly = TRUE`, or a second line for the seed | `SeedKept` violated by the first state: the seed is generated and not saved, or not read; `SeedAlone` excludes both |
| `settings` | `ReadOnly = TRUE`, or a second line for the fee | `LiveIsSaved` without `HotAlone` violated |
| `settings` | `StaticToken = FALSE` | `LivePanelCatchesUp` violated: the terminal UI keeps the token of a service that is gone |
| `settings` | | `NoFrameDuringCommand` violated: a fetch under way draws over the command |

## Where code and documentation or clients disagree

Found while modelling; the configurations above reproduce most of them. Paths are
those of the repository.

Money:

1. On the file store a payment removes tokens minted while its swap was at the
   mint (`store/file-store.js` 81 with `nutbits.js` 663).
2. A dedicated connection can spend more than its balance with two payments at
   once (`nutbits.js` 1059-1124), with a withdraw in between, or with a routing fee beyond
   the percentage set aside: against docs/CLI.md 141 ("The connected app can only spend
   what you put in") and docs/NWC-DEEPLINK-INTEGRATION.md 58 ("your app cannot overdraw").
   `POST /pay` looks at the whole pool (api/handlers/index.js 1174), promised or not.
3. Two requests for one invoice both reach the payment (`nutbits.js` 1000).
4. A quote can be tagged with a mint that did not issue it (`nutbits.js` 496,
   against README.md 310).
5. A mint that was down at startup and is activated by the health loop has no known
   capabilities: no DLEQ check, no restore (`nutbits.js` 1761, 288, 607). A failover whose
   switch cannot be stored marks the mint that has just answered as down (234-238).
6. `POST /pay` answers a payment that failed with `ok` and `success: false`
   (api/handlers/index.js 1184-1219); `Pay.vue` 135-137 and `pay.js` 76-78 show it as
   sent.
7. `pay.js` 86-92 says "Your balance was not affected." after any error, its own
   timeout included; to a Lightning Address, paying again then pays twice. `fund`
   repeated after a timeout funds twice. `restore.js` says "Recovery failed" while the
   restore goes on, and asking again is refused.
8. `receive.js` 75, 110 promises that NUTbits mints automatically; `POST /receive`
   starts no waiter.
9. After a check whose answer was lost, later checks of an issued quote answer
   `paid: false` for good; a late answer of an old check marks a new invoice received.
10. `Receive.vue` sends the selected mint, `POST /receive` ignores it, and the reply
    names the mint active at its end (1224-1249).

State:

11. The migration of an `.enc` file carries neither counters nor daily spend, and one
    that fails is logged and never tried again once the database exists.
12. The setup wizard overwrites its only backup; the seed saved at the first start is
    gone after a second run (scripts/nutbits-setup.cjs 757: "Run npm run setup again at any
    time").
13. `savedLogLevel` (`nutbits.js` 1526, 1808) undoes a level set while the boot
    screen waits.

Views:

14. The reply of `POST /connections` numbers unrevoked connections, the export all of
    them (`connect.js` 258: "To see it again: nutbits connections <id>"); so do
    `/history` and `/history/export`.
15. `/history` caps `total` per connection: `watch` stops announcing, and a total asked
    for with limit 1 counts connections; `from` and `until` are applied after the
    limit; Load more beyond 100 does nothing.
16. API payments record `fees_paid` from a field the payment does not return, are not
    counted by `/fees`, and the total earned shrinks when a connection is revoked.
17. `/status` counts the relay sockets of the last connection, `/relays` those of the
    first; the backup's count of connections includes `__api__`; a failover shows as a
    change of the balance.
18. `nutbits logs -f` drops entries of the same millisecond and those beyond fifty; the
    Logs page without refresh can keep another level's answer.

What is not a defect although it looks like one: after a restart the deduplication
map is empty (docs/BACKLOG-hardening.md 12-13), but `ReplayIsExcused` shows that an
event handled again then was created no earlier than the start, because
subscriptions begin there; and sockets the reconnection loop opens after a revoke
stay open, but `RevokedStaysQuiet` shows that what comes over them is refused.

## Not modelled, and why

- Cryptography (blind signatures, NIP-04/44, scrypt, AES): keys and ciphertexts are
  names; which key a row is under is in `StateStore`.
- HTTP itself: body parsing, CORS, socket and token files, and that a stopping
  instance removes the files of the one that replaced it: two processes on one host.
- `PATCH /connections`, `get_info`, `verify`: they write fields no modelled step reads,
  answer from constants, or read a file. How the first leaves the store's object changed
  before its call is in `StateStore`.
- Queries of the databases beyond the rows they return; transactions of the proofs'
  tables are single steps of `ProofVault`.
- Network I/O of Lightning Addresses before an invoice exists, but for its delay
  (`MoneyPages`).
- Wording, layout and drawing of the terminal and the browser; login, router, the
  wizard's steps, the NUT page, components without state of their own; the setup
  wizard's questions.
- Deeplink pages, scripts, packaging and documentation: static content, no state of
  the wallet.
- Writes of `.env` that fail (api/handlers/index.js 1394 swallows them): the reply is
  wrong by its text, whatever the order of steps.
