# A TLA+ model of SwarmFi

SwarmFi is a swarm of three agents that trade on a chain: a researcher, a risk
agent that asks a language model for a verdict, and an executor that commits a
transfer through KeeperHub. They talk over AXL, a peer-to-peer network with one
node per agent, and keep their state on 0G, a content-addressed store. This
directory models that system, model-checks it with TLC on small instances and
proves its safety properties, but one, with TLAPS for all instances. `PROJECT.json` maps every
definition to the lines it translates.

## Inventory

| Component | State | Operations | Talks to |
|---|---|---|---|
| KeeperHub swap executor, `core/keeperhub/` | locals of one `execute_swap` call: attempt, execution id, last status | quote, POST transfer (retried), poll status, read log, audit, return | Uniswap API, KeeperHub service, 0G log |
| 0G memory, `core/storage/{kv,log,agent_memory}.py` | key → hash map, last manifest root, log index, aggregate of agent states | `set`, `append`, `update_status`, reads | storage client |
| 0G storage client, `core/storage/client.py` | in-memory objects, snapshot root | `upload`, `download`, `flush` | `zg-sidecar/sidecar.mjs`, which returns a root before the object is on a storage node |
| Agents, `agents/` | `_running`, dispatch task, locals of the handler, status on 0G | `start`, dispatch, one handler per message type, `stop` | AXL client, memory, scorer, swap executor |
| AXL client, `core/axl_client.py` | open or closed HTTP client | `send` (retried), `recv`, `recv_stream`, `close` | AXL node (external) |
| Message schema and registry | none once bootstrapped | validate, look up | agents |
| Risk scorer, `core/compute/` | none | `score` | language model (external) |
| Uniswap client and executor, `core/uniswap/` | nonce and allowance on chain | approve, quote, sign, broadcast, wait | Uniswap API, chain |
| Dashboard trade cycle, `dashboard/server.py` | `logs/swarmfi-state.json`, configuration | `_run_trade_cycle`, `_publish_partial`, `_publish_state_view` | all of the above |
| Scanner and price cache, `core/scanner.py` | prices, time of the last refresh, lock | `_fetch_prices`, `scan_pairs` | CoinGecko |
| AXL bus, `core/axl_bus.py` | cached registry, last 50 events | `_send` | AXL client |
| PnL, `core/pnl.py` | none | `compute_pnl` | state file |
| ENS resolver, `core/ens/resolver.py` | address and text caches | resolve, get and set text | Ethereum RPC |
| Demo, compute sidecar, scripts, page | none of their own | – | – |

**What is hard.** Every component runs on asyncio, so state read before an
`await` may be stale after it: the log index and the aggregate are read,
uploaded around and written back without a lock. Every network call can fail or
time out after it took effect, and two of them (the POST of a transfer, the POST
of a message) are retried. `stop()` cancels a task anywhere. Results are
validated after the action they report was taken. Restarts begin without the
manifest. `PROJECT.json` lists each hazard at its line, with the properties
about it, or a note why no property is. The trade cycles of the dashboard share
a file with each other and with the demo, another process; the cycles and the
polls of one process share a price cache, an ENS identity, an AXL registry and a
list of events, two of them behind locks that are held across network requests.

**What makes each component correct.** The swap executor: one transfer per call,
a result that agrees with the chain and the audit log, and it returns. The
memory: no hash leads nowhere but where the sidecar was early, what was logged
stays in the log, the aggregate follows the agents. The agents: no swap without an approval, no success reported
that is not real, a stopped agent stays quiet, a signal ends as a swap or a
reported hold. The trade cycle: no result lost when cycles overlap, an agent
shown busy only if it is, the latest snapshot shown with its own transaction,
and every cycle ends. The price cache: one request for many
callers, nothing old served as fresh, no price that goes back or gets lost, and
every call returns. The pick and the P&L: scores decide as they are meant to,
totals agree with the direction of each position, and a position is marked with
the price of its own pair. The bus: one registry per process, events in the order
of the sends, no sender blocked. The identity: readers see the last update.

## Modules

| Module | Models | |
|---|---|---|
| `SwapContract` | `SwapStatus` and what a `SwapResult` may look like | shared by the modules that swap |
| `SwapPromise` | what `execute_swap` promises its callers: each call returns once, for good, with an outcome of `SwapContract` | abstract |
| `KeeperHubExecutor` | `execute_swap` and the service behind it | implements `SwapPromise`; `KeeperHubExecutorProofs` |
| `SessionLog` | what the log promises while a process runs: an entry whose append returned without meeting another stays, with all before it | abstract |
| `SwarmStorage` | the memory of the agents on 0G | implements `SessionLog`; `SwarmStorageProofs` |
| `SwarmAgents` | agents, AXL client and mailboxes, risk gate | uses `SwapContract` for `execute_swap`; `SwarmAgentsProofs` |
| `SwapExecutor` | direct swaps of `core/uniswap/executor.py` on one account | implements `SwapPromise`; `SwapExecutorProofs` |
| `TradeCycle` | the dashboard's cycles and the state file | uses `SwapContract` for `execute_swap`; `TradeCycleProofs` |
| `PriceCache` | `_fetch_prices` of `core/scanner.py` and its concurrent callers | `PriceCacheProofs` |
| `EdgeScore` | the scores of `core/scanner.py` and the pick, as operators | used by `Portfolio` |
| `Portfolio` | from a scan to a recorded result to the P&L: demo, dashboard, `core/pnl.py` | `PortfolioProofs` |
| `EnsIdentity` | caches of the shared identity, readers of profiles | component of `CycleAnnouncements` |
| `AxlBus` | `core/axl_bus.py`: registry, sends, events | component of `CycleAnnouncements` |
| `CycleAnnouncements` | what trade cycles write to ENS and send over AXL while they run | composes the two; `CycleAnnouncementsProofs` |

### KeeperHubExecutor

A call `s` of `Swaps` is a coroutine. `pc[s]` is the await at which it is
suspended: `quote` (the Uniswap quote), `submit` (the POST, attempt
`attempt[s]`), `poll` (the status loop), `logs` (the log fallback), `audit` (the
audit entry), `returned`. `exec` holds the executions of the service, one per
POST that was accepted; `id[s]` is the one the call tracks. The service may
accept a POST whose answer times out, broadcast and finish at any moment, and
spell a final status in a way `status_map` does not have; `StatusMap` is the map
of the source, with everything it lacks becoming PENDING. A status answer is any
answer that is consistent with the execution at the moment it is given.

`execute_swap` returns through `FinalResult`, or through the outer `except`
(`QuoteFails`), where a text on the `kh_quirks` list gives SUBMITTED.
`KeepsPromise` says that the module implements `SwapPromise`, with a call that
has not returned mapped to `Pending`: a call returns once, with an outcome of
`SwapOutcomes`, which is its outcome from then on. That is what `SwarmAgents`
and `TradeCycle` take an awaited `execute_swap` to give: the modules meet there.
`SwapExecutor` implements the same specification: the two executors have the
same interface, and a caller of one can be given the other.

### SwarmStorage and SessionLog

Objects on 0G are immutable, and a hash is modelled by the content it addresses.
`manifest` is the map in memory and `root` the last manifest whose upload
returned. The operations are appends to the log and updates of an agent's
status. Each goes through the awaits of the source: the entry, the index, the
manifest for an append; the agent's key, the manifest, the aggregate, the
manifest for an update. At each of them it may fail or be cancelled. `live` is
chosen at the beginning, as `ZeroGClient.from_env` does: false for the in-memory
and the buffered backend, whose `upload` never suspends nor fails, so that one
operation runs to its end before the next begins; true for the live backend
(`SWARMFI_BUFFERED=0`), which awaits a thread, so that operations interleave.

An upload of the live backend that returns has not necessarily stored anything.
The sidecar does not wait for storage nodes, and when its time budget runs out it
computes the root itself and returns it as a success
(`zg-sidecar/sidecar.mjs:92-109`). `store` has the objects that can be
downloaded, `late` those whose upload returned before that; `Propagated` moves
one over, and nothing says that it ever happens. A download of an object that is
not in `store` fails after its retries (`OperationFails`; `IndexLoaded` and
`SwarmLoaded` need the object).

`Restart` begins with a new `SwarmKV`, as `BaseAgent.start` does: nothing calls
`load_manifest`, so the log does not outlive the process, and the objects of the
backends in memory are gone as well. `apart` is history: the operations of the
process that overlapped no other one of their kind. It is what the promises of
the memory depend on: `ImplementsSessionLog` maps the acknowledged entries of
`SessionLog` to the appends of `apart` that returned, and `SwarmStateFollows`
speaks of the updates of `apart`. With the backends that do not suspend those are
all operations.

### SwarmAgents

`at[r]` is where agent `r` stands: not started, starting, in `recv`, in one of
the steps of a handler (the memory calls, the model, the swap, a send), crashed
or ended; `stop[r]` is where its `stop()` stands, which runs beside it. `mail`
is the mailbox of each AXL node, a bag: a mailbox outlives its agent, messages
may overtake each other, and a send that timed out may have been delivered.
`faults`, one of `FaultSets`, is what may go wrong in a behaviour: a failing
start, a stop, sends, receives, memory calls, the model. A message carries the signal it goes back to
so that properties can speak of it; the code puts no such id on the wire and no
action reads it.

Assumptions: the registry has been bootstrapped (an agent without it does not
start); signals come from outside, since no agent in the repository originates
one; an agent without memory takes the same steps, its memory calls doing
nothing; agents are started once per process, as `run()` does. `stop()` may be
called before `start()` has heard from the node: it finds no task to cancel and
closes the client under the request, and `start()` fails with it or goes on to
set `_running` again, with a closed client.

### SwapExecutor

The direct way to swap, with a key of its own: `execute_swap` of
`core/uniswap/executor.py`. `pc[s]` is the request a call awaits (`approval`,
`quote`, `order`, `swap`) or `receipt`, the loop that looks for the receipt.
Calls with one wallet share its account: `pool` is its pending transaction and
`mined` those in blocks. There is one pending transaction at most, since
`_broadcast` takes as nonce the number of mined ones; the node refuses a second
or replaces the first, be it the approval of the same call. web3 is called
synchronously, so that no other call runs between the nonce and the send.
`orders` are the orders UniswapX accepted, `lost` the calls that did not learn
that a request of theirs took effect, and `nonce[s]` is the nonce under which
the swap of a call went out: `SubmittedWasSent` says that it is not free
afterwards. `dry` is chosen at the beginning: without
a private key no transaction is signed or sent, but an order is still posted. Each request of the Uniswap client, with
its retries, answers or raises.

### TradeCycle

A cycle `c` is one task of `_run_trade_cycle`, started by a POST to
`/api/signal`. `pc[c]` is the stage after whose write of the file it is
suspended: `scanning`, `deciding`, `decided` (the second write of `deciding`),
`executing`, `settling` (the swap returned), `committing` (the flush), `closing`
(the flush is over). `file` is the part of `logs/swarmfi-state.json` that
matters: the count, the list of results, `in_progress` and the last snapshot;
an absent or unreadable file is `NoFile`. `_publish_partial` and
`_publish_state_view` read, change and write the file without an `await`, so an
action holds one such access and what leads up to it; entering the clients
(`async with`) does not suspend either, so a number is taken and the first stage
shown in one step. Between two processes an access of the file is taken to be
atomic. `DemoPublishes` is the demo writing its own view over the file, `Crash`
kills the dashboard, between two writes or in the middle of one (`torn`). A write
that fails is swallowed (`Lost`, server.py:705 and 722): the cycle goes on, or
ends without its result in the file, which stays as it was or is left truncated;
after a failing read (`Unreadable`) the next write starts from nothing. `log`,
`began` and `missed` are history: the results written since the file was last
replaced, how many there were when a cycle began, and the cycles whose last write
was lost; no action depends on them.

A cycle ends early only where something raises (`Raises`): its memory calls, or
the scorer. A failing flush, ENS updates and AXL announcements are caught where
they happen; `CycleAnnouncements` has them.

### PriceCache

A caller is a request that runs `scan_pairs`: a poll, the chat, the demo. `pc[c]`
is `waiting` for `_price_lock`, `fetching` (the request is out) or `answered`
(CoinGecko made its answer, which is still on its way, and may yet be lost to the
timeout). A quote is the time at which it was produced, so that age can be spoken
of; an answer has the quotes of some of the coins. A quote is the entry of a coin
in the answer, with a price in it or not: an entry `{}` replaces a known price in
the code too, and is then shown as $0.00; the module speaks of the age of entries. `asyncio.Lock` is fair, so
`lock` is the queue of its holder and its waiters; a free lock is taken without
an `await`. The stamp of the cache is the time taken under the lock, before the
request: with the time of the answer instead, `FreshIsRecent` fails. `answered`
is history: the coins of the answer that set the stamp. The clock is bounded by
`MaxNow` and starts at `TTL`, since the real one is far from 0.

### EdgeScore and Portfolio

`EdgeScore` has the table of pairs, the clamped momentum, the fit of the size and
the composite, in integers: thousandths, weights in hundredths, amounts in
1/100000 ETH. `BestOf` is the first of the stable descending sort. `Portfolio`
follows a price from there: the demo scans (each coin may be missing from the
answer), makes its signal, lets the risk agent decide, executes and records;
`/api/signal` starts a cycle of the dashboard with the price of ether, or 0; the
results meet in the file; `ComputePnL` is the loop of `compute_pnl`, applied to
the file and to the dashboard's own cache, with its own age. `coin`, in a signal,
is history: the coin whose price the signal has. A result keeps whether its swap
failed (`failed`), which `compute_pnl` does not look at: `PnLAddsUp` says that
`cycles_approved` exceeds the cycles that committed by the failed ones exactly,
where `core/pnl.py:33` and `:81` say that errors are left out.

### EnsIdentity, AxlBus and CycleAnnouncements

One identity and one bus per process. `text` is `_text_cache`; a reader goes
through the keys of a profile, and `fetch[x]` is the record or address a thread
fetches for it. `update_text` never awaits. An answer of the chain is stored
whatever the cache has by then, unless the reader was cancelled by the time limit
of `/api/dashboard`. `latest` and `raced` are history: the last update of a
record, and whether a fetch of it was under way.

`bus[c]` is where a cycle stands in `_send`: `waiting` for `_registry_lock`,
`bootstrapping` under it, `posting` (with up to `MaxAttempts` attempts), or
`idle`. A failing bootstrap releases the lock and the next sender in line tries,
unless the researcher's key was empty: then the registry is set before the log
line raises, and is kept (`BootstrapFails`). What is sent through a registry with
an empty key fails (`SendFails`); the model does not keep which keys are empty, so
that a later send of that registry may also succeed.
`events` is `_axl_events`; `n`, `made` and `sent` are history.

`CycleAnnouncements` runs cycles through their announcements. `pc[c]` is the step
of the cycle whose announcement comes next: `scanned`, `score`, `hold` or
`trade`, `commit`, `done`. An action writes the records of the step and calls the
bus, since nothing is awaited between the two; the next step of the cycle waits
for the send to return. `float()` of a price, a score or a confidence may raise
when the role and status of the step are written already (`Raises`).

## Runs

| Run | Instance | Shows |
|---|---|---|
| `kh_retries` | 1 call, 3 attempts, 3 polls | CONFIRMED is backed by a transfer of the call on the chain; the audit entry agrees with the result; the executor implements `SwapPromise`; the hash reported is that of the tracked execution; no submission once an id is held; the call returns |
| `storage_ops` | 3 operations out of 3 appends and 3 updates of 2 agents, 1 object late at a time, 1 restart, either kind of client | a hash misses its object only if the sidecar was early; no entry is listed twice; the log implements `SessionLog`; the aggregate follows updates that met no other |
| `agents_faults` | 1 signal, 2 attempts per send; failing sends, model and memory, or failing start, memory, receive, and stops | types; every swap goes back to an approval, at most `MaxSends` per approval; every success heard of is real; handlers end; `stop()` returns, and then the agent is quiet |
| `agents_live` | 2 signals, 1 ping, no faults | every signal ends as a swap or a reported hold; the status on 0G follows the work |
| `swap_calls` | 2 calls on one wallet, 2 looks for a receipt, with and without a key | CONFIRMED and FAILED agree with the chain; SUBMITTED stands for something that was sent and keeps its nonce from the call's own approval; a call swaps once; the executor implements `SwapPromise`; calls return |
| `cycle_file` | 2 cycles, a list cut at 2, a demo of up to 4 cycles, 1 crash, write of the demo, lost write or failing read | no result that was written is lost or reordered; a cycle that began after another was published has a higher number, until the list is full; busy agents are busy; the latest snapshot root is shown; cycles end |
| `prices` | 3 callers, 2 coins, lifetime 2, clock to 6 | callers share one request, sent only when needed; what counts as fresh is recent, coin by coin; no price returned goes back or gets lost; every call returns |
| `portfolio` | a demo of up to 2 cycles with either kind of pair, 1 cycle of the dashboard, 2 points of the market | totals, wins, best and worst of `compute_pnl` against the gains of the positions, its count of cycles against their errors; what the pick depends on |
| `announce` | 2 cycles, 1 poll of the researcher's profile, 2 attempts per send, 2 events | an update is lost only to a fetch it raced; one registry, one bootstrap at a time; events are the last sends in order; sends and reads return |

Runs that are expected to fail show where the code departs from what a comment
or a docstring says of it; each has a finding in `PROJECT.json`.

| Run | The code does |
|---|---|
| `kh_one_transfer` | retries the POST of a transfer after a timeout without an idempotency key |
| `storage_lost_entry` | loses one of two overlapping appends of the live client |
| `portfolio_symbols` | records the price of the scanner's pick under the symbols of the demo's own pair, and marks it with the price of another coin |

The models show more departures that no run is spent on. A quote whose
error text is on the `kh_quirks` list is reported SUBMITTED although nothing was
sent (`QuoteFails`; the comment at `core/keeperhub/executor.py:254` says that the
submission succeeded). A failure that KeeperHub reported becomes CONFIRMED when
the log shows a hash (`LogsFindHash`; `tests/test_keeperhub_executor.py:171`
says FAILED). With the live client two overlapping updates can leave the
aggregate behind an agent's own key: `SwarmStateFollows` without its premise
that the update met no other fails. An upload that timed out is reported as a
success, because "storage nodes will pick it up async"
(`zg-sidecar/sidecar.mjs:95`); if they do not, every later append fails. Cycles that overlap share a number, `cycles` stops at one more
than the limit of the list, a cycle that ends clears the stage of one that still
runs, and a cycle that raises stays on display until another ends: these are why
`NumbersFollow` and `BusyIsReal` say no more than they do. A direct swap is
CONFIRMED when it has a receipt, whether or not it reverted; the approval it
needs is sent and not waited for, so that the swap, with the same nonce, may
replace it; and a dry run still posts an order when the quote asks for one
(`core/uniswap/executor.py:159` and `:263`; the docstring, at 15, says that
without a wallet key the executor simulates the broadcast and returns a mock
result).
An agent that restarts begins with an empty manifest, though
`core/storage/kv.py:9` says that agents call `load_manifest()`: after a restart
the log starts over (`Restart`). One connection error of `recv` ends the dispatch
loop while `_running` stays True (`ReceiveRaises`; `core/axl_client.py:10`: node
hiccups don't crash agents). An outcome that `ExecutionResultPayload` rejects is
never reported (`LogSettle`; `agents/executor.py:34`). A snapshot root whose
transaction is not known is shown with the transaction of an earlier one
(`Published`; `core/storage/client.py:372`).

Of the parts that scan, count and announce: a refresh that leaves out a coin
stamps its old price as fresh, which is why `FreshIsRecent` speaks of `answered`;
after a 429 there is no pause, the next caller asks again. A pair without a quote
can be picked at a price of 0, and `compute_pnl` then skips the trade although it
counts "all approved cycles" (`core/pnl.py:11`); a failed swap is counted
(`core/pnl.py:33`: "excludes HOLD / errors"); its branch for cbBTC is never
reached, since no recorded signal has that symbol; and two of the four pairs can
never be picked (theorem `TwoPairs`). An update of an ENS record is overwritten
by the chain's older value if that record was being fetched
(`core/ens/resolver.py:278`: "so reads see fresh data"); `CacheIsCurrent` says
exactly when. The researcher's record stays at "scanning" for ever.

**Bounds.** Three attempts is the number in the source, and gives one call up to
three executions to confuse; the 60 polls of the source become 3, enough for a
status to change between two polls and for the loop to end before the execution
does. Calls share no state, so that more of them only interleave; the proofs
cover any number. Three operations (`MaxOps`), of any mix of the two kinds, give
every race of a read-modify-write with another and one operation after it, which
is what the promises are about; one object may be late at a time (`MaxLate`), be
it an entry, an index or a manifest; one restart
suffices, since a restart forgets everything. Appends are interchangeable, and so
are the updates of one agent: the run uses that symmetry, as it checks no
liveness. Two attempts per
send have a first, retried and a last, raising attempt. One signal with
duplicated messages reaches every state of a handler; two signals are used where
handlers could mix them up. Two calls on one wallet, with up to four
transactions, replace each other's in every order. Two cycles give every race of one cycle's writes with
another's; a list cut at 2 is full after two results, and a demo of up to 4
cycles leaves a count below, at and above what the list can hold. Three callers
give a holder of the price lock with two in line, and a clock of three lifetimes
lets an answer arrive after its own lifetime; with two coins an answer can be
partial. The two points of the market are at the edge of the pick: bitcoin leads
by 0.67 points, then by 0.66 with both changes below the clamp of ether; the
commitment is a multiple of all prices, so that divisions are exact. Two demo
cycles and one of the dashboard give every mix of two longs, shorts and holds in
either order of the file. In `announce` the six keys of a profile are two, the
one every step writes and the snapshot, and one of them is set on the chain; the
profile read is the researcher's, the others are alike; one poll, since readers
interact through the cache alone; two cycles send up to six messages through a
list of two. The proofs below are for all values.

**Deadlock** is checked for everything but the agents, all of which may have been
stopped or be waiting for a message that nobody will send. Where operations come
to an end for good, the specifications let them rest explicitly.

**Fairness.** `KeeperHubExecutor!FairSpec`: a call in progress keeps taking
steps, because the event loop resumes it and every request has a timeout
(httpx, 30 s). Nothing is assumed of the service. `SwarmAgents!FairSpec`: a
handler and a `stop()` in progress keep taking steps, for the same reason, and
`execute_swap` returns by the run above. `LiveSpec` adds that agents are started
and that the dispatch loop keeps polling; it is used without faults only.
Nothing is assumed about who sends, fails or stops. `TradeCycle!FairSpec`: a
cycle that has begun keeps taking steps; `wait_for` bounds its flush at 240
seconds. Nothing need ever raise, crash or be started. `SwapExecutor!FairSpec`: a call in
progress keeps taking steps; nothing is assumed of the chain. `PriceCache!FairSpec`:
the loop resumes the caller that got the lock, and a request ends with an answer
or the client's timeout of 8 s; nothing is assumed of CoinGecko, nor that anyone
calls. `CycleAnnouncements!FairSpec`: a sender's request, attempt or bootstrap
ends (httpx has timeouts, attempts are counted), the loop resumes who gets the
lock, and a thread's request to the chain ends (web3's HTTP provider times out).
No cycle need ever start or go on, and no node answer.

## Proofs

`KeeperHubExecutorProofs` proves, for any set of calls and any positive bounds,
the type invariant, `ConfirmedIsOnChain`, `ReportedHashIsTracked`,
`AuditAgrees`, the action property `NoSubmitOnceTracked` and the refinement
`KeepsPromise`. None of the invariants is inductive: what a call returns
depends on the status it read some steps before. `IInv` adds that an execution
marked successful or with a hash was sent (`ServiceOK`), that a call tracks
nothing before its POST is answered and an execution of its own afterwards
(`TrackingOK`), that the status it holds claims no more than the execution it
tracks (`StatusesOK`), and that result and audit entry were made from that
status (`OutcomeOK`). It is preserved since executions never lose what they
have: `sent` and `tx` are never taken back. `OneTransferUnlessRetried` bounds
what the run `kh_one_transfer` finds: a call that sent its POST once has one
transfer at most, and a second transfer of a call that tracks one is always that
of an earlier POST whose answer was lost (`PostedOK`: the service accepts no POST
that was not sent, and a call tracks its last one). `PromiseKept` is the
refinement: `IInv` bounds what a call can return, and a step writes one result
at most, of a call that has none.

`SwarmStorageProofs` proves the type invariant and `OnlyLateDangles`, for any
agents, appends, updates, late objects and restarts, interleaved or not. `IInv`
adds which labels an operation of either kind passes (`LabelsOK`), that an append
past its first upload has its entry uploaded (`AppendsOK`), and that what the
manifest an operation is uploading names was uploaded (`PersistsOK`): with them,
whichever upload of a manifest returns last, the root it leaves resolves. It is
preserved because what was uploaded stays so, stored or late; a restart of a
client in memory loses the objects together with the manifest.

`EntriesOnce` is proved for interleaved appends too. Appends do overwrite each
other's indexes, so the invariant (`Once`) is about all indexes there are, in
memory, persisted, captured for an upload or held by an append: each is without
duplicates, and none has an append that has not extended one yet.

The rest is about operations that met no other of their kind. Such an append
finds its entry in the index when it returns (`OwnIndex`); and since every copy of
the index that an append under way has read or is about to write back was taken
after that, all of them agree with the log up to that entry (`AckedKept`). From
it follows the refinement `ImplementsSessionLog`: no step changes the log up to
its last acknowledged entry, a step that acknowledges one has it in the log, and
a restart starts over. `OwnState` and `Shown` are the same for the aggregate, and
give `SwarmStateFollows`. No premise about the client is needed: with one that
does not suspend, all operations are of this kind (`Solo`). `HistoryFullApart`
bounds what `storage_lost_entry` finds: entries are lost to overlapping appends
and to a restart, and to nothing else.

`SwarmAgentsProofs` proves, for any signals, threshold, bound on attempts and
pings and any sets of faults, the type invariant, `SwapsWereApproved`,
`SuccessIsReal`, the action property `StoppedIsQuiet`, and `StatusFollowsWork`
for the behaviours in which memory and model answer and nobody calls `stop()`
(all other faults allowed; the run `agents_live` checks it without any). `InStep`
says in which handler each agent can be, for which signal, and what it can be
sending; `Quiet` that a closed client belongs to no running handler, which is
what a cancelled task leaves behind. The gate is a budget: for each signal, the
swaps begun, the swap about to begin, the decisions to trade in the executor's
mailbox and the attempts the risk agent has left to send one are together at
most `MaxSends` per approval (`Budgeted`). An approval adds `MaxSends` to both
sides; each later step moves a unit from one term to the next or drops it, be
the message lost, duplicated by a retry or overtaken. `SuccessIsReal` is followed
back from the mailbox through the report under way to the outcome the handler
holds (`Genuine`).

`SwapExecutorProofs` proves, for any number of calls on the wallet and of looks
for a receipt, the type invariant, `ConfirmedIsMined`, `OneSwapPerCall`,
`FailedMeansNotSent`, `SubmittedWasSent` and the refinement `KeepsPromise`. `IInv` adds
that a call which has not sent its swap has none on the chain, nor an order, and
no result before it returned (`SentOK`), and that its loop has a look left
(`PollsOK`): without the first, a call about to send might already have a swap
in a block. `NonceOK` says that a call waits for a receipt only with a nonce, and
that a nonce once taken is never free again: what is mined stays, and what is
pending gives way to another call's transaction only, since a call that waits
sends nothing more.

`TradeCycleProofs` proves the type invariant, `RecentResults`, `BusyIsReal`,
`SnapshotIsLatest` and `NumbersFollow` for any set of cycles and any limit. `IInv` is inductive with
little added, the shape of the file; a lost write leaves the file alone or empty,
and its cycle in `missed` (`LostWrite`). What carries the proof of `RecentResults`
is a lemma about the cut, `RecentAppend`: cutting, appending and cutting again
gives what appending to the full list and cutting once gives. `NumbersFollow`
needs to know what a number means (`NumbersOK`): the file counts all results
written to it, or one more than the limit once the list was full, and a cycle
that began when there were `b` of them has the number `b + 1`, or the shared one
if `b` is above the limit. A result whose cycle began after another was written
has a larger `b`.

`PriceCacheProofs` proves, for any callers, coins, lifetime and clock, the type
invariant, `SharedFetch`, `FreshIsRecent` and the action property
`PricesNeverGoBack`. `IInv` adds that the callers in the queue are those that are
not idle, each once, and that only the first of them has a request out; that this
one took its stamp after the last refresh and found the cache unfit to serve, and
that its answer was produced between its stamp and now; and that what was shown
last is nowhere newer than the cache. The first part is why there is one request;
the order stamp, answer, now is why a late answer does not look fresh; and as an
answer of a single holder is newer than everything cached before, no price goes
back.

`PortfolioProofs` proves `PickIsDecided` for any market, from lemmas about the
clamp and the composites of the four pairs; `TwoPairs`, that for all quotes and
sizes only two pairs can be picked; and `GainIsDirected`, that the value
`compute_pnl` gives to a long or a short differs from its cost by the size times
the move in its direction. `OnlyDemoMismarked` bounds what `portfolio_symbols`
finds: a position that is not marked with the known price of its own coin is a
result of the demo, run for USDC or with a pick of bitcoin. `PnLAddsUp` is an
induction over the results in the file, which the prover is not given as a
theorem with an operator parameter: it is done on sets of numbers, by taking the
least one for which the claim fails (the library's `WFMin`). The recursive
function behind the fold is shown to exist by its finite approximations; that
the fold may take the results in any order (`TakeAny`) gives the sum, and the
counts, that of the failed swaps among them, and extremes go along with it.

`CycleAnnouncementsProofs` proves the type invariant, `CacheIsCurrent`,
`OneRegistry` and `EventsFollowSends` for any cycles, readers, keys on the chain,
attempts and limit of the list. `IInv` adds that a record being fetched had no
update, or its update knows of the fetch (`FetchesRace`); that the senders that
wait or bootstrap are in the queue, each once, and only its head bootstraps
(`Queued`), while one registry was made if and only if there is one (`Made`); and
that the events of a cycle are of steps before the one it is in (`EventsAreOld`).
The last is what makes the order of the list inductive: a send that returns is
later than all events of its cycle. A lemma about the cut, `RecentShape`, says
that an append moves the list on by one when it is full.

**Termination without fairness.** The prover cannot reason about fairness, but
what a liveness property needs apart from it is proved, as an action property
over a number that each module gives to an operation:

| Theorem | The number | Behind |
|---|---|---|
| `KeeperHubExecutorProofs!WorkSafe` | attempts, polls and awaits a call has left, at most `MaxAttempts + MaxPolls + 3` | `SwapReturns` |
| `SwapExecutorProofs!WorkSafe` | requests and looks for a receipt a call has left, at most `MaxPolls + 4` | `CallsReturn` |
| `TradeCycleProofs!ForwardSafe` | stages a cycle has left, at most 8; one that stopped never moves again | `CyclesEnd` |
| `SwarmAgentsProofs!HandlersSafe` | awaits and attempts a handler has left, at most `MaxSends + 4` | `HandlersEnd` |
| `SwarmAgentsProofs!StopsSafe` | awaits `stop()` has left, at most 3 | `StopReturns` |
| `PriceCacheProofs!CallsSafe` | steps of the callers up to and including oneself in the queue for the lock | `ScansReturn` |
| `CycleAnnouncementsProofs!SendsSafe` | the same for senders in the queue for the bootstrap, then the attempts | `AnnouncementsReturn` |
| `CycleAnnouncementsProofs!ReadsSafe` | records a profile still has to read | `ProfilesReturn` |

Each says that the operation's own steps (or, in a queue, those of its head)
make the number smaller and that no step of anything else makes it larger. That
such a step is always possible, and is taken, is what remains of each liveness
property, and what the runs check.

`SignalsKept` is the same for `SignalsSettle`: where nothing fails but a start,
every signal handed to the risk agent's node is over, in the mailbox of an agent
that reads it, or in the hands of a handler that has not put the next message
into one (`NoSignalLost`). It needs to know that an agent past its start runs,
and that the decision about to be sent is about the signal decided on
(`Carried`).

**Only model-checked:** the eight liveness properties of the table and
`SignalsSettle`, for which the prover lacks fairness and ENABLED. Every other
property of a passing run is a theorem.

## Plan

1. `KeeperHubExecutor`, `SwarmStorage`, `SwarmAgents`, `TradeCycle`,
   `SwapExecutor`: done.
2. `PriceCache`, `EdgeScore` and `Portfolio`, `EnsIdentity`, `AxlBus` and
   `CycleAnnouncements`, with their proofs: done.
3. `SwarmAgentsProofs`: types, the budget of swaps per approval, `SuccessIsReal`,
   `StoppedIsQuiet`, `StatusFollowsWork`: done.
4. Proofs: `EntriesOnce`, `SwarmStateFollows`, the refinement of `SessionLog`,
   `NumbersFollow`, what bounds each of the three
   findings, `PnLAddsUp`, the refinements of `SwapPromise`, and what the liveness
   properties need apart from fairness: done.
5. `flush` of the buffered store beside uploads, with a timeout that leaves the
   upload running, and the framing of payloads.

## Not modelled

The compute sidecar and the scripts are input and output around third-party programs. The
chat endpoint and the chat endpoint and the page present what other parts computed. `load_manifest` is
never called; `SwarmKV.delete` and the filtered reads of the log are reached by
tests only.and the filtered reads of the log are reached by tests only. Workflow and
contract-call endpoints of the KeeperHub client are not on the path of a swap.
`set_text_record`, `register_pubkey` and `get_axl_pubkey` of the ENS resolver have
no callers. A node that comes back with a new AXL key is not modelled: keys are
files that survive restarts. Floating point is replaced by integers, rounding and
percentages are left out; the prompt and the parsing of the risk verdict are text.
The content of a snapshot (plan, 5) is not modelled yet.

## Running

    tlc -workers 2 -config KHRetries.cfg MCKeeperHubExecutor
    tlapm KeeperHubExecutorProofs.tla
