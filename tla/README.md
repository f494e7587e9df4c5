# A TLA+ model of coreminer

coreminer keeps CPU miners busy with jobs of a mining pool. The hard part is not the hashing but the
coordination: asynchronous handlers on one io thread, miner threads that are handed work and told to stop,
and a main thread that shuts everything down. The modules here model that coordination.

## The parts and how they interact

| Part | Source | State | Operations | Module |
|---|---|---|---|---|
| Worker | `libdevcore/Worker.*` | `m_state`, the thread, `x_work` | start, trigger stop, stop, destroy; the thread's loop | `Worker`, `MinerProofs` |
| Miner thread | `libethcore/Miner.cpp`, `Farm::collectData` | the worker's state, `m_hashRate`, `m_hashRateUpdate` | the worker's, `updateHashRate`, `TriggerHashRateUpdate` | `MinerThread`, `MinerProofs` |
| Pool manager | `libpoolprotocols/PoolManager.*` | list of pools, active index, attempts, flags, timers, client | client events, `rotateConnect`, timers, API list operations, `stop` | `PoolManager`, `PoolManagerProofs` |
| Farm, miners | `libethcore/{Farm,Miner}.*`, `libethash-cpu/CPUMiner.cpp` | work, epoch, pause flags, kick flag, DAG index | `setWork`, `pause`, `resume`, `start`, `stop`; `workLoop`, `search`, `initEpoch` | `Farm`, `WorkProofs` |
| Stratum client | `libpoolprotocols/stratum/*` | socket, flags, session, answers awaited, flavour | one handler per asynchronous completion | `StratumClient`, `StratumInvariant`, `StratumLink`, `StratumProofs` |
| Client interface | `libpoolprotocols/PoolClient.h` | phase of the connection | connect, session, end | `PoolClient` |
| Getwork client | `libpoolprotocols/getwork/*` | request queue, pending flag, timer | handlers, polling timer, submissions | `GetworkClient`, `WorkProofs` |
| Simulation client | `libpoolprotocols/testing/*` | - | delivers jobs on its own thread, judges solutions | in `PoolManager`, `Farm`, `Solutions` |
| Solutions | `Farm.cpp`, `PoolManager.cpp`, the three clients | posted solutions, awaited answers, counts | `submitProof`, `submitProofAsync`, `submitSolution`, `processResponse`, `accountSolution` | `Solutions`, `Pleas`, `MinerProofs` |
| API server | `libapicore/ApiServer.*` | acceptor, sessions, pending reads and writes | start, accept, receive, send, disconnect, `stop` | `ApiServer`, `ApiProofs` |
| API requests, nonces | `ApiServer.cpp`, `Farm.cpp`, `CPUMiner.cpp` | authentication, scrambler, segment width, nonces tried | `processRequest`, `setWork`, `shuffle`, `search` | `ApiRequests`, `Nonces`, `Rig`, `ApiProofs` |
| Dataset | `CPUMiner::getRandomYDataset` | - | division among threads | `Dataset`, `MinerProofs` |
| Program | `coreminer/main.cpp` | `g_running`, the main thread, who holds the io thread | `doMiner`, `signalHandler`, `~MinerCLI` | `Program`, `ApiProofs`; `stop` in `PoolManager` |

Three kinds of threads meet. The *io thread* runs every posted handler, in the order of posting; the clients,
the manager's timers and the API run there. The *main thread* calls `PoolManager::stop`, and through it
`disconnect` of a client. The *miner threads* run `workLoop`. The simulation client has a thread of its own
that calls `Farm::setWork`. The manager creates a client, which calls `onConnected`, `onWorkReceived` and
`onDisconnected`; these start, feed and pause the farm.

What makes this hard: a completion or an expired timer that is already queued is not recalled by `cancel()`;
a flag tested on one thread is changed on another; every handler has to leave something that will run next;
timeouts race with late answers.

## How the code is represented

- Handlers of a client are functions from a record (`c` in `StratumClient`, `g` in `GetworkClient`) to a record.
  `queue` is the io service's queue, `ops` the operations under way, `told` says `onDisconnected` was called
  (the connection is null from then on) and `crashed` that a null pointer was used or an exception left a handler.
- In `Farm` each method is a program of small steps (`op`, `at`, `idx` per calling thread), split where the code
  releases a lock or touches unlocked state. `Torn` is a job read while it is being written.
- In `Worker` every atomic access of `m_state` is a step; `MinerThread` extends it by every access of the two atomics
  of the hash rate. A rate is the number of the collection in which it was measured.
- `Solutions` has atomic io handlers and interleaves them with the miner threads. A job is the number of the connection
  it came from; `found`, `sent` and `lost` are history. `Pleas` is the stratum client's queue of awaited answers as
  functions of a record; the clock is a variable.
- `ApiServer` defines the steps of the server and its sessions; `Program` lets the main thread, the signal handler, the
  server's own thread, the io thread and the network take them. There the pool manager is no more than what it does to the
  other threads: its handlers hold the io thread (`inManager`) and its `stop` the main thread, for any time. `fate` says that a
  completion met a destroyed object ("freed") or an exception left a handler ("terminated").
- `ApiRequests` answers a request: a pure function of the connection and of how the code treats each member
  (absent, mistyped, refused, good). `Nonces` is the arithmetic of segments; its widths are constants. `Rig` lets
  requests, jobs and miners change one farm.
- Messages are kinds, jobs are numbers, a mode of 999 is `Unset`.
- `PoolManager` contains its own reduced view of a client (`client.st`) and of the farm (`farm`). The simulation client's
  job comes from its own thread (`SimulatedWork`), with a random seed, at any time after `connect` (`client.thread`).

## Runs that pass

| Run | Checks |
|---|---|
| `MinerThread` | Stopped implies the thread is outside `workLoop`; the destructor's request and a start are not lost; calls return; a miner that hashes no more is reported with 0 by the third collection |
| `PoolApi` | list, index, client, farm and timers stay consistent under API calls, failures and `stop`; the manager always has a next step; the epoch in force is that of the job; when flavours are fixed `stop` returns unless a TLS shutdown never ends |
| `PoolReach` | with autodetection, retries and rotation lead from an unreachable primary to a session |
| `FarmWork` | a suspended miner holds no work; a miner on a replaced job has been, or is being, kicked |
| `FarmLive` | with parallel loading `stop` ends and the newest job is picked up |
| `StratumDetect` | autodetection over TLS: implements `PoolClient`; no handler forgets to go on; a linked socket is read; no null pointer is used; a pool that has authorised the session is not marked unusable; with a pool that answers every attempt ends |
| `GetworkSerial` | one socket operation at a time, under way or completed and not yet handled |
| `Solutions` | each answer is credited to its miner, across pools of three families and restarts; the farm's counts are the sums of the miners'; awaited answers are those the pool owes; a late one is noticed |
| `Program` | a running server goes on accepting; reads do not overlap; a session is stranded only by a piece of fewer than four bytes; a program that has seen the signal ends unless the pool manager holds a thread for ever |
| `Rig` | only permitted requests change anything; miners within their segments try no nonce twice, and none outside the pool's prefix |

A passing run holds for the configuration in its `.cfg` and no other. Several of these properties fail in other
configurations; the next section lists them.

## Disagreements between code and comments

Two standing runs violate a property a comment states: `FarmSequentialStop` (a miner waiting for its turn to load its
DAG does not see `stop`) and `StratumScheme` (outside CORESTRATUM2 the first job of a transmission is dispatched, where the
comment says the last, `LastIsDispatched`).

The following are also violated, and have no standing run. Each was found by TLC from the constants given; to repeat
one, change the named configuration accordingly and check the one property. None was reproduced on a running program.

| Property | Start from | Change | What happens |
|---|---|---|---|
| `StopReturns` | `PoolReach` | - | `stop` during autodetection waits for a report that is not made |
| `StopAlwaysReturns` | `PoolApi` | - | a TLS shutdown that the pool does not answer is never given up, and `stop` waits for it |
| `NoWorkWithoutSession` | `PoolApi` | - | the simulation's thread delivers its job after the disconnection |
| `NeverDialsUnrecoverable` | `PoolApi` | `Pools = {a, b}`, both reachable, all stratum, `Spec` | a marked pool is dialled after the API selected another during its TLS shutdown |
| `TimersAreStopped` | `PoolApi` | `Pools = {a, b}`, both reachable, all stratum, no TLS, `Spec` | an expired fail-over timer runs after it was cancelled |
| `OnlyPoolIsTried` | `PoolApi` | the list `<<a>>` (to be defined in `MCPoolManager`), `MaxRetries = 0`, `Spec` | the only pool is never tried |
| `PausedIsVoid` | `FarmWork` | `SetWorkThread = "sim"`, one epoch, no stops | a job is written to a miner paused after the test |
| `OneLoads`, `JobIsPickedUp` | `FarmLive` | sequential, an epoch per job, no stops | loads overlap, or a miner waits for ever for its turn |
| `NoNullDereference` | `StratumScheme` | - | a posted disconnect runs after the manager's own |
| `LateDataIsDropped` | `StratumScheme` | - | data read before a disconnection is handled after it |
| `LoginIsBounded` | `StratumScheme` | `MaxEndpoints = 2`, `LiveSpec` | a tick during the dial leaves no timer for the login |
| `ShutdownIsBounded` | `StratumDetect` | `Version = 0`, `LiveSpec` | a late TLS shutdown is never given up |
| `NoNullDereference` | `StratumDetect` | `Version = 3`, `Flavours = {3}`, `EarlyNotify = TRUE` | a notification before the login uses a null session |
| `AcceptedIsKept` | `StratumDetect` | - | the fake error of a timeout follows the real answer |
| `AuthorizedIsKept` | `StratumDetect` | `TLS = FALSE`, `Flavours = {3}`, `Spec` | what is left of one connection meets the next |
| `AllModesTried` | `StratumDetect` | - | a refused redial uses up flavours that were never tried |
| `ImplementsPoolClient` | `StratumDetect` | `TLS = FALSE`, `Flavours = {3}`, `Spec` | data read on one connection is taken for the answer to the login of the next |
| `PollingGoesOn` | `GetworkSerial` | `Breaks = FALSE` | an answer without a result starts no timer, and polling stops; with both `Breaks` and `Malformed` FALSE it holds |
| `PollingGoesOn` | `GetworkSerial` | `Malformed = FALSE` | the poll is lost in a write error |
| `OnlyLateIsGivenUp` | `Solutions` | - | the age is measured from a request that has been answered |
| `OwnPool` | `Solutions` | - | a solution of the last pool's job goes to the next pool |
| `OneEntryPerMiner` | `Solutions` | - | a restart appends entries to the telemetry |
| `AnsweredIsAlive` | `MinerThread` | - | the rate a miner has just stored is overwritten by 0 |
| `MinersAreThere` | `MinerThread` | - | a miner is destroyed while `collectData` reads it |
| `StoppedHasNone` | `Program` | - | an accept completes after `stop` has cleared the sessions |
| `SessionOutlivesHandlers` | `Program` | - | a cancelled completion runs after its session was destroyed |
| `SignalIsHeard` | `Program` | - | the notification falls between the test of `g_running` and the wait |
| `PoolsNoncesOnly` | `Rig` | - | a miner searches on past the end of its segment |
| `ReportIsTrue` | `Rig` | - | with an extranonce the reported segment is not the one searched |
| `WidthIsNotBelow` | `Rig` | - | a job without extranonce inherits the narrow width of one with |
| `AnswerIsComplete` | `Rig` | - | `api_authorize` succeeds without a result; errors without a code |
| `BlockIsFull` | `Rig` | - | the block in which nonces wrap is skipped and counted |

## Bounds and fairness

Two miners, two jobs and two epochs suffice for a job to be replaced while
another is searched, loaded or written. Two or three pools and one or two retries make rotation, erasure and fail-over
happen; `MaxQueue` bounds the posted handlers. Two addresses, two awaited answers and transmissions of up to two
messages let a redial, an overtaken answer and a replaced job happen. Two API sessions with two writes let completions
of one outlive the other's end, and `stop` meet an accept. In `Solutions`, two miners, three solutions, a clock up to 3 and two
starts let an answer be late behind another and a restart fall between a submission and its answer. `Rig` scales nonces
of 64 bits to 6, digits of 4 to 2, the widths 32, 10, 50 and 40 to 3, 2, 4 and 3 and blocks of 30 to 2; three miners do not divide a
power of two, the highest prefix ends where nonces wrap, and two blocks reach the end of the narrowest segments. An `exit` entry in the list is modelled but in no run. Deadlock checking is off where the program may stop for good.

Fairness: the io thread runs queued handlers, timers expire and each thread is scheduled (weak fairness). `PoolReach`
also assumes that a reachable pool is reached and starts sessions when tried for ever (strong fairness) and that its
TLS shutdowns end, and `StratumDetect` that reads and shutdowns complete: these are assumptions about the pool, not about the
code. `PoolApi` makes none of them (`ScheduledSpec`): the code does not give up a late shutdown (`ShutdownIsBounded`), so
`StopReturns` names a shutdown without end as the one thing that keeps `stop` waiting, and `StopAlwaysReturns`, without that, fails.
`Program` assumes no second signal: `ProgramEnds` begins where `doMiner` has seen one, and one signal can be lost
(`SignalIsHeard`). No fairness is assumed of `PoolManager::stop` or of the manager's handlers; `ProgramEnds` says that the program ends
unless one of them never does, so that neither `ApiServer::stop` nor the destructor of `MinerCLI` adds a wait of its own.
Several liveness properties allow a crash as an outcome, since `NoNullDereference` and the runs above treat crashes.

## Theorems

The proofs hold for every value of the constants that the `ASSUME`s allow. They are in eight modules: `MinerProofs`
(worker, miner thread, solutions, dataset), `WorkProofs` (getwork client, farm), `PoolManagerProofs`, `StratumInvariant`,
`StratumLink` and `StratumProofs` (one development), `ApiProofs` (API server, requests, nonces) and `Recursion` (induction
and recursion over the natural numbers, stated with sets instead of predicates, which the provers can instantiate). Where
modules share one proof module their specifications have names of their own: `WorkerSpec`, `MinerSpec`, `GetworkSpec`,
`ProgramSpec`, `RigSpec`; the others are called `Spec`.

Every invariant, action property and refinement that a passing run checks is also proved. Each rests on an inductive
invariant:

- **Worker** (`WorkerSafety`, `StopWaitsForThread`, `StartIsHeard`, `DestructorIsHeard`). `IndInv` adds which values `m_state` can
  have at each place of the thread, and that the holder of `x_work` is the one caller inside a call; without these the
  stores of the thread could overwrite a request.
- **Miner thread**. A miner implements `Worker` (`MinerIsWorker`), so it inherits `StoppedIsOutside` (`StoppedMinerIsOutside`).
  `IdleMinersAreReported` needs `RateInv`: what one, two and three collections without a block leave in the two atomics.
- **Farm** (`FarmTypes`, `WorkHandover`, `PausedMinersRest`), for any number of miners and jobs, whichever thread delivers
  them. `PausedIsVoid` is proved when the io thread delivers the jobs, as it does for the clients of pools, from there being one writer; the
  violation of `PausedIsVoid` listed above (the simulation client's thread) shows that the condition is needed.
- **Getwork client** (`GetworkTypes`, `OperationsAreSerial`). `OpInv` ties the pending flag to the one operation or completion
  there is, and keeps a resolution apart from them.
- **Pool manager** (`ManagerTypes`, `ManagerGoesOn`, `MinersRun`, `WorkEnds`, `FailoverReturns`, `EpochFollowsJob`,
  `ActiveIsThePoolInUse`), for any list of pools, families, flavours and settings. `Inv` adds that `m_stopping` follows the main
  thread (`StopInv`); that miners are held by a pause only (`HeldInv`), or `start` could leave them held; that a stratum
  session has confirmed its flavour (`SessionInv`, `WorkInv`), or its end could return to the search for a flavour and keep
  the work; and that a seed is kept with its own epoch (`EpochInv`). The jobs of the simulation, whose seed is random, are
  exempt from `WorkInv` (`Pledged`) and from `WorkIsForSession`; `NoWorkWithoutSession` above shows why. `ActiveIsConnected` depends on the order of the queue:
  `ListInv` adds that a failover that waits to run is followed by a `rotateConnect` (`Followed`), and that a posted rotation meets
  a client that is closed or was made by an earlier one (`Rotating`).
- **Stratum client** (`StratumTypes`, `ClientIsNeverStranded`, `LinksAreWatched`, `NoHandlerCrashes`,
  `AuthorizedPoolsAreKept`, `ClientKeepsPromise`). The invariant `Good` of a client that has not crashed says which operations and which
  queued handlers each phase admits (`Skeleton`), that a link is read or about to end (`Watched`) and what the client knows of the pool
  (`Knowledge`). It needs the order of the queue (`After`): with TLS the report to the manager comes last (`LastReport`), and a
  client that dials has nothing of an earlier connection left (`OneLife`). `StratumInvariant` proves it for the steps that keep the
  link, `StratumLink` for those that gain or give one up, `StratumProofs` for received data, and derives the theorems. Three of them
  have a condition on the configuration, and the table above shows a violation outside of each:
  `Harmless` (TLS, and no notification of modes 2 or 3 before the login is answered) for `NoNullDereference`, and `Clean` (TLS, or the scheme names the
  flavour) for `AuthorizedIsKept`, which needs that no authorisation is pending once one was granted, and for the refinement of `PoolClient`, whose proof shows that every step of the client is one of `PoolClient` or leaves its variables alone.
- **Solutions**. `LateAnswersAreNoticed`: the queue of times is sorted and the separate time is never later than its head
  (`PleasInv`). `AnswersReachTheirMiner`: an answer still awaited has an identifier within the highest submitted on its
  connection, and a miner with answers to come has an entry (`CreditInv`). `FarmCountsItsMiners`: a step leaves the counts, appends
  entries that count nothing, or raises one count of the farm and the same of one miner; the last needs that whoever has
  found a solution has an entry (`FoundByMiners`), because `accountSolution` raises the farm's count before it looks for the entry.
  `PleasAreOwed`: `PleaPhases`, one plea while the login or the authorisation is unanswered, then the sum of the awaited answers. The two use
  laws of `SumFunction` (`SumTakes`, `SumsAgree`, `SumChanges`, `SumGrows`), proved from its definition by induction over the
  subsets of a finite set.
- **Dataset** (`PartsAreDisjoint`, `PartsCover`), for any number of items and threads.
- **API server** (`OneReadAtATime`, `SessionsAreServed`, `ServerIsReachable`), for any number of sessions and writes. `ApiInv` tells which
  completions the io thread has yet to run: one accept in all (`AcceptInv`), one read per session (`ReadInv`), and for every
  session something that reads on or ends it (`ServeInv`).
- **API requests** (`OnlyAllowedChanges`), by `m_is_authenticated` implying that the last `api_authorize` showed the password.
- **Nonces** (`NoncesAreTriedOnce`, `ExtranonceIsKept`). `NonceInv` gives every nonce its distance from the start of its segment
  before it wraps; that two distances do not wrap onto one nonce needs the segments of all miners to fit into the nonces,
  `WidthsFit`. With the 64 bits and the widths of the code (32 by default, at most 50 by the API) it holds for up to 2^14 miners. The second
  theorem needs no such condition: `Farm::setWork` narrows the segments to what the extranonce leaves.

Model-checked only: liveness (`CallsReturn`, `StopReturns`, `ReachesAPool`, `StopEnds`, `JobIsPickedUp`, `Settles`, `ProgramEnds`), which
rests on fairness and `ENABLED` and is out of the reach of the provers. The inductive invariants are not standing properties of
the runs, but TLC finds them invariant in their configurations (`IndInv`, `RateInv`, `Inv` and `ListInv`, `Good`, `OpInv`, `ApiInv`,
`PleasInv`, `CreditInv`, `FoundByMiners`, `PleaPhases`); `NonceInv` quantifies over all numbers and is beyond TLC.

## Not modelled

- Hashing, byte and floating-point arithmetic, formatting: pure functions, right if they agree with a published definition.
- Parsing of URIs and options: character by character, without state.
- Contents of messages other than those that decide control; statistics, the HTML page, logging, scripts.
- What a stratum client that dials does during its own TLS shutdown (the aborted dial goes on to the next address and ends
  the client a second time). In `PoolManager` the block number and the seed of a job name the same epoch.
- Devices that fail to initialise; the lifetime of the client object (`p_client` is tested on the main thread while the
  io thread may replace it); the order of bytes in overlapping writes of one API session.
- Elapsed time, except in `Solutions`: elsewhere a timeout is an event that may happen.
- Without TLS, a stratum client that detects the flavour of its pool does not implement `PoolClient`: what is left of one
  connection can meet the next. The refinement is checked with TLS and proved for `Clean`.

## Plan

1. The getwork client as an implementation of `PoolClient`; the manager composed with `PoolClient`.
2. Liveness of the stratum client and the manager over more pools than TLC reaches, by variant functions.
