# A verification development for funsip

funsip is a scriptable SIP proxy in Go: a transaction layer (RFC 3261, section 17), a stateful
proxy on top of it that runs a JavaScript routing script per request, optional dialog tracking,
media anchoring, local playback, a registrar, and a management API. These modules model its
signalling core, and the tables around it that goroutines share, in TLA+, check it with TLC, and
prove with TLAPS: both transactions, an INVITE's way through the transaction layer, the order of
the layer's locks, the dialogs, the queues, the rate limiter, the deployment of scripts, the
reachability of relays and senders, the registrar and the TCP alias table. Every
invariant and every action property that a run checks is also a theorem; the liveness properties are
left to TLC.

* `tlasany M.tla` parses a module;
* `tlc -config X.cfg MC….tla` checks a run;
* `tlapm M.tla`, with `M` one of `ServerTransactionProofs`, `ClientTransactionProofs`,
  `TransactionLayerProofs`, `DialogProofs`, `ScriptEngineProofs`, `CallMediaProofs`,
  `RegistrarProofs` and `TCPAliasProofs`, checks the proofs.

## 1. Inventory

### 1.1 The parts, their state and what makes them correct

| part | state | operations | correct when |
|---|---|---|---|
| server transaction, `pkg/transaction/server.go` | `state`, `lastResponse`, `timers`, `done`, under `tx.mu` | `Respond`, `ReceiveRequest`, `ReceiveACK`, callbacks of timers G H I J | one final response, repeated exactly while it may be asked for; it ends; late callbacks do no harm |
| client transaction, `client.go` | `state`, `timers`, `done`, under `tx.mu` | `ReceiveResponse`, callbacks of A B D E F K | at most one final response reported; failures of an INVITE ACKed; it ends unless the callee rings for ever |
| transaction layer, `layer.go` | `serverTxs`, `clientTxs`, `serverToClients`, `inviteTimers`, under one `RWMutex` | `ReceiveMessage`, `NewClientTx(For)`, `RespondToRequest`, CANCEL matching and fan-out, invite timeout, gc every 10 s | every INVITE is answered and collected; whoever refuses an INVITE leaves no ringing branch; no deadlock |
| proxy, `pkg/proxy` | none of its own | `Forward…`, `forwardResponse`, `SendResponse`, in-dialog routing | the caller hears what happened; events say the same |
| request handler, `pkg/server` | none | dispatch of requests to dialogs, play, script | in-dialog traffic is gated and routed |
| dialogs, `pkg/dialog` | map Call-ID to dialog, its timer, capture file, metrics | `Setup`, `ConfirmFromResponse`, `FindFor`, `Terminate`, `fireTimeout`, `CloseAll` | a dialog ends once, is cleaned up and counted; its timeout hangs up |
| queues: `pcap.Writer`, `media.wavWriter`, `events.Sink` | bounded channel, atomic `closed`, worker, batch | `Capture`/`Push`/`Send`, `Close`, worker | never blocks the caller; nothing accepted is lost or reordered; `Close` drains; calls after it are no-ops |
| script engine, `pkg/script/engine.go` | script file, compiled program and its source, rollback copy | `Execute`, `Load`, `Deploy`, `Rollback` | disk and memory agree after a deployment, a failure or a restart |
| rate limiter, `pkg/script/limiter.go` | per key the hits in the window, deny-until times for keys and addresses | `check` behind `limit()` | each call is judged by the hits in its own window and its own `maxCount`; nobody is denied without a cause |
| media relay, `pkg/media/media.go` | map Call-ID to session, per stream four sockets, hold flags, a clock | offer, answer, relay, idle sweep, release | an open socket can be found by those who release it, and is released once idle |
| play sessions, `pkg/play/session.go` | map Call-ID to session, its sender goroutine | `Open`, `run`, `Stop`, `CleanupForCallID` | no sender outlives its place in the map; `Stop` returns |
| TCP transport, `pkg/transport/tcp.go` | alias table, per-destination dial locks, a reader per connection | accept, send, re-dial, remove, read and handle, `Stop` | one socket per destination, no live one evicted, every dead one closed and pruned |
| registrar, `pkg/registrar`; location table, `pkg/store` | rows per contact with their expiry, a sweeper | REGISTER, lookup, sweep, events; `funsipctl location` on the same file | a REGISTER is answered with what it stored; an expired binding is reported |
| auth, SIP/SDP/RTP parsing, codecs, analyzers, config, commands | none, or data only | | not modelled (section 7) |

### 1.2 How they interact

The script calls `anchorMedia`, `playAudio`, `register` and `limit` from the reader's goroutine, so
two requests of one call that arrive on different connections are inside those subsystems at the
same time; each has a mutex of its own, held per call and not per request. Between two such calls
a request holds on to what it got (a `*Session`, a compiled program, a connection, a row).

A UDP socket has one reader goroutine, which calls `Layer.ReceiveMessage` and runs the request
handler, the routing script included, before it reads the next datagram. Each TCP connection has
a reader of its own. Timers (`time.AfterFunc`) run on goroutines of their own and take the mutex
of what they belong to; a `Stop` that comes too late does not recall them. A client transaction
calls its answer function **under its own mutex**; for a proxied request that is
`Proxy.forwardResponse`, which anchors media, confirms the dialog, emits an event, looks the
server transaction up under the layer's lock and calls its `Respond` under *its* mutex. The
management API reads the layer's tables from HTTP goroutines.

### 1.3 What is hard here

Late timer callbacks; several goroutines answering one request; CANCEL, invite timeout and watchdog
against a script that is still creating branches; state read under one lock and used under another;
a goroutine of `playAudio` that answers when its script is long over; three ways a dialog can end;
closing a channel that others send to; writer preference of `RWMutex`. In the tables: a session or a
connection that is removed while somebody has it in hand; an entry that is re-made by one goroutine
and deleted by another that means the old one; a mutex held while waiting for a goroutine that
another goroutine is to start; a file and the memory it mirrors changed in several steps, each of
which fails; a count that every caller prunes by a window of its own; events sent after the lock
that orders them is gone; a read that fails half-way and looks complete; a reader that handles what
it reads, and waits for another peer meanwhile. `PROJECT.json` lists each hazard at its line with
the properties that watch it.

## 2. Modules

```
ResponseStream                    abstract: provisional responses, one final one, an end
   ^                ^
ServerTx            ClientTx      the methods of the two transaction types, as operators
   ^    ^           ^    ^
   |   InviteProxy -+    |        one INVITE through layer, proxy, script and gc
   |       ^             |
   |       +-------------|--- TransactionLayerProofs ---> LayerLocks     who holds which lock
   |                     |
ServerTransaction     ClientTransaction    each transaction alone, with late timers
   ^                         ^
ServerTransactionProofs   ClientTransactionProofs

Dialogs <- DialogProofs -> AsyncWriter    the dialogs, and the queue of their capture files

RateLimiter <- ScriptEngine               the limiter inside the engine that calls it
                     ^
              ScriptEngineProofs

TCPAlias <- TCPAliasProofs   Registrar <- RegistrarProofs

MediaRelay   PlaySessions                 one Call-ID's sessions of either kind
     ^            ^
     +- CallMedia + <- CallMediaSignals   the requests, timers and sweeper that use them
           ^
     CallMediaProofs
```

* **ServerTx / ServerTransaction.** Every method of `ServerTx` runs under `tx.mu` from its first
  to its last statement, so it is an operator from record to record. `armed` are the running
  timers; `Expire` moves a timer to `fired`, the goroutine waiting for `tx.mu`; `RunTimer` is its
  callback. `CancelTimers` empties only `armed`, as `Timer.Stop` does. `sent` is the last response
  given to `sendFunc`. The environment calls `Respond` with any code at any time.
* **ClientTx / ClientTransaction.** The same for the client side. `delivered` is what `onResp` was
  called with last and `finals` counts its final ones.
* **ResponseStream** is what both promise. `latest` is the response last sent (server) or last
  delivered (client), `over` is `done`.
* **InviteProxy** composes both, instantiated as `S` and `C`, around the layer's maps:
  `registered` is `clientTxs`, `linked` is `serverToClients`, `tracked` is the entry of
  `serverTxs`. A step is what happens between two acquisitions of a lock. `handler` is the
  caller's reader, `fan` the two goroutines that may fan CANCEL out, `forwarding[b]` the response
  `forwardResponse` is passing on while branch `b` is locked, `player` the goroutine of `playAudio`,
  which answers 200 once the ringing time is over and then sends its event.
* **LayerLocks** keeps only the lock operations of each path, with the writer preference of
  `sync.RWMutex`, which is external code modelled from its documented behaviour. `Path` says which
  path each thread is on; any number may share one.
* **AsyncWriter** is the queue that `pcap.Writer`, `wavWriter` and `events.Sink` share; `Batch = 1`
  is the latter two. Items are numbered by call. The worker takes an item, starts a flush, and
  writes a batch item by item, each in a step of its own, which may fail.
* **Dialogs** has every dialog made for one Call-ID, the map's entry for it (`current`), and the
  handlers, timers and shutdown that are between the map and the clean-up that follows.
* **TCPAlias** has the connections with both their ends, the table `alias` from address string to
  connection, and a `pc` for each sender inside `Send`, each reader inside `handleConn`, the accept
  loop and `Stop`. A step is a critical section of the table's mutex or one system call. A reader
  runs the handler of a message on its own goroutine (`handling`) and reads on when that returns;
  what the handler sends, a sender among `Handlers` sends for it (`by`).
* **RateLimiter** is `check`, one step per call, with a log of what was asked and answered.
  `hits[key]` is the set of log entries whose timestamps it holds; each call prunes it with its own
  window.
* **ScriptEngine** EXTENDS it: requests execute the program they found, with its limits, while
  administrators load, deploy and roll back step by step (`open`, `write`, `swap`), any step may
  fail, the file may be edited and the process may die and start again.
* **MediaRelay** is one Call-ID in `media.Manager` and its sessions; a session is named by the
  INVITE that made it, a stream is bound or closed, held or not, quiet or not. **PlaySessions** is
  the same for `play.Manager`: map entry, mutex, senders and those waiting in `Stop`.
* **CallMedia** composes both with their callers: the script's `anchorMedia` and `playAudio`, the
  answers, BYE, the dialog's timer and the sweeper, each with a place of its own in `at`. The
  history variable `overtaken` has the sessions that were taken away between `GetOrCreate` and
  `AnchorOffer`. **CallMediaSignals** adds the two requests that by the code do *not* reach the
  managers.
* **Registrar** has the rows of one address-of-record, each REGISTER between two of its store calls,
  the sweeper, and `funsipctl location delete` and `purge`, which another process runs on the same
  file. A read may fail part-way and return what it had (`QueryIsCut`, `Sweeps`), since nobody asks
  `rows.Err()`; an expiry beyond a `time.Duration` wraps (`Durations`). `kept`, `told` and `lost`
  are history variables: which rows a REGISTER stored that nobody has touched since, what the events
  said last, and which rows the last step deleted that nobody will report.

Operators commented `slip` are plausible mistakes; the mutants of `PROJECT.json` put them in place
of the operator they follow to show that each property can fail. They are not used otherwise.

## 3. Runs

| run | instance | shows |
|---|---|---|
| `server_tx` | both types and transports, one code of each class and each class's ends, below 100 too | types; repeats what was sent; ends once answered; never goes back; implements `ResponseStream` |
| `client_tx` | the same | one final response; ACKs; some timer ends it; ends or rings; implements `ResponseStream` |
| `invite_proxy` | caller on UDP, two callees on TCP (concurrent readers), symmetric; callees send 180, 200, 486, the script 404, or it plays | `AnswerIsGenuine`, `AnsweredCallIsReported`, CANCEL and watchdog leave no branch |
| `invite_live` | one branch, UDP on both sides (one reader), the script may answer 200 or 404 | every INVITE is answered and collected; a 2xx gets its event |
| `async_writer` | two producers, five calls, queue of two, batches of two, any write may fail | `CloseDrains`, `KeepsOrder`, `CloseEnds` |
| `layer_locks` | a response, the invite timeout (which contains the path of CANCEL), a retransmission, a timer of each side and gc, concurrently, repeating | no circle of waiters; every path gets through |
| `dialogs` | two `setupDialog` calls, one callee, concurrent readers, shutdown at any time | ends once, cleaned up, counted, hung up, removed |
| `tcp_alias` | a sender and one that readers call from a handler, one destination that also connects to us, two connections at a time, resets, peers that stop reading, `Stop` at any time | one socket per destination; no usable connection is evicted; every dead one is closed and pruned, or its reader is held up for good |
| `script_engine` | one administrator, one request at a time, two scripts with their own limits, two keys, two addresses (symmetric), three calls, times 0 to 2, option sets with windows of their own | `CountDecides`, `WindowBound`, `DeniedExactlyForCause`, `DiskFollowsMemory` |
| `call_media` | two INVITEs of one Call-ID, BYEs, the sweeper, one stream, on hold or not | no sender is out of reach, and no open socket but those bound too late; idle relays go; `Stop` returns |
| `registrar` | two REGISTERs for two contacts (one registers both; one moves from one to the other and comes back for longer than a duration holds), store calls that fail or are cut short, `funsipctl`, two seconds, durations of up to two | `OwnContactsAnswered`, `ExpiryIsReported` |
| `list_deadlock` | a forwarded response, gc and the list request of `LayerLocks` | a disagreement with the documentation, section 6 |

A type invariant is a run's only where it earns its time (`server_tx`, where the proofs use it); the
others are kept with their modules, TLC finds nothing against them, and the proofs that need types
prove what they need.

**Why the bounds are enough.** A transaction has no unbounded state but the number of responses, so
its runs are exhaustive for the classes of codes. Two branches are what CANCEL needs to hit one
branch while another moves. Five items pass through a queue of two and batches of two with overflow
and a partial batch. Two dialogs let a left-over goroutine of the first meet the second. Each lock
path appears once: two threads on one path compete only for what other paths hold already, and
`SipPathsNeverDeadlock` holds for any number. `MaxDialogs` and `MaxItems` are the only counters of
the signalling core bounded by a guard. `acks` is 0 or 1, and a caller CANCELs once: a repeated
CANCEL is absorbed by the CANCEL's own server transaction.

`MaxConns` bounds the connections at a time and not in all: a connection nobody refers to any more
is made again, so a re-dial, and the replacement of a replacement, happen with two. Three calls with
windows of one and two seconds and `maxCount` 2 and 1 reach every verdict, a blacklisting, a penalty
that ends before the window does, and a call that prunes with a shorter window than the next one's;
the theorems of section 4 hold for any number. In `CallMedia` an INVITE is handled once and the
BYE's and the timer's handlers repeat; two INVITEs are what it takes for one to release what the
other holds. The run has no dialog timer, whose release is that of a BYE (`Releases`), so that
liveness can be checked; `MCCallMediaTimer.cfg` adds one and checks the two invariants. Sessions
have one stream, to stay short; the theorems are about any number. Two contacts and two REGISTERs
let one request delete, and the sweeper take, what another has just stored; the theorem is about any
number. `MaxDuration` stands for the 9223372036 seconds a `time.Duration` holds.

**Fairness.** Goroutines that can run do, timers that are armed expire, gc ticks, the sweepers'
timers fire, the clock moves. Strong fairness is assumed in five places: the watchdog (its interrupt
stays pending until the script is back in bytecode, `engine.go:191-198`), the CANCEL fan-out, the
lock acquisitions of `LayerLocks` and the per-destination lock of `TCPAlias` (Go mutexes hand
themselves to a starving waiter), and the return of a message's handler in `TCPAlias`, which does
not send for ever; a single send may be stuck for good. The registrar's sweep is assumed to run
again until one succeeds. What the model of the locks and that of the play sessions assume is that a
send made under `tx.mu`, and that of `playAudio`'s 200, returns: over TCP a silent peer can prevent
it, which is the subject of `TCPAlias` (`SendReturns`). Nothing is assumed of callers, callees,
peers, scripts, or whoever calls `Close` or `Stop`.

**Assumptions of the models.** `invite_timeout_ms` is positive, as by default. In `InviteProxy` the
INVITE's own timers run in the step in which they expire; late callbacks are the subject of the two
transaction modules. The caller of an INVITE over UDP repeats it for at most 64·T1, so only a
transaction that ended with a 2xx can be gone when it does. In `Dialogs` a Call-ID is not used again
while a timer of its earlier dialog is left over (`FreshCallIds`; dropping it gives the
counterexample of section 6), the script sets a dialog up before it forwards the INVITE (`Offered`),
one call of `Setup` is under way at a time, with concurrent readers too, and one in-dialog request
is handled at a time.

Some assumptions are the borders of what holds, and the configurations of section 6 show what lies
beyond them: `tcp_alias` dials addresses and not host names; `script_engine` has one management
operation at a time.

Other borders are in the properties, which name what the code does not prevent. `RelaysAreReachable`
and `IdleRelaysGo` leave out a session that BYE, timer or sweeper took away between `GetOrCreate`
and `AnchorOffer`, and nothing else: the schedule is in the model. `WindowBound` leaves out windows
in which a call of the key overflowed or had a shorter window; `CountDecides` has no exception.
`DeadConnectionsGo` leaves out a reader whose handler sends to a silent peer. `OwnContactsAnswered`
and `ExpiryIsReported` leave out what `funsipctl` deleted, reads cut short, and times that wrapped.
Each has a companion without the exception that section 6 shows to be violated.

## 4. What is proved

**`ServerTransactionProofs`**, for every set of status codes that contains 100:

| theorem | statement |
|---|---|
| `Invariance` | `SafeSpec => []IInv` |
| `TypeCorrectness` | `SafeSpec => []TypeOK` |
| `RetransmissionsRepeat` | `SafeSpec => []RepeatsWhatWasSent` |
| `AnsweredTransactionsEnd` | `SafeSpec => []AnsweredTxEnds` |
| `FinishedTransactionsAreQuiet` | `SafeSpec => []DoneHoldsNoTimer` |
| `StateOnlyAdvances` | `SafeSpec => NeverGoesBack` |
| `ImplementsResponseStream` | `SafeSpec => Promise!SafeSpec` |

The only assumption is `CodesAssumption`. None of the properties is inductive. The callbacks of I
and J do not test the state (`server.go:237-253`), so that they do not move a transaction back
depends on where they can be left over; and a callback of G or H may outlive the state it belongs
to. `IInv` therefore says, per state, which timers may run, which callbacks may be left over, that
`done` is closed exactly when the last timer's callback is gone (`InviteTimers`,
`NonInviteTimers`), what is kept for retransmission (`Kept`), and that an unanswered transaction
has neither timer nor callback (`Waiting`). There is one lemma per operation. Each proves at the
same time that the step preserves `IInv` and that it is one of the steps that the action property
and `ResponseStream` allow (`Shows`), so the refinement needs no second case analysis.

**`ClientTransactionProofs`**, for every set of status codes that contains 408:

| theorem | statement |
|---|---|
| `Invariance` | `SafeSpec => []IInv` |
| `TypeCorrectness` | `SafeSpec => []TypeOK` |
| `OneFinalResponse` | `SafeSpec => []OneFinalDelivered` |
| `FailuresAreACKed` | `SafeSpec => []ACKsExactlyFailures` |
| `TimersEndIt` | `SafeSpec => []SomeTimerEndsIt` |
| `ImplementsResponseStream` | `SafeSpec => Promise!SafeSpec` |

The argument has the same shape. That no second final response is delivered depends on no state
after the first one accepting another (`Unanswered`, `AnsweredOnce`), late callbacks of B and F
included. The callbacks of D and K test no state, so `IInv` says that they are left over only in
`Completed` (`OverWhenTerminated`, `InviteTimers`, `NonInvite`). What may be missing an ACK when an
INVITE is over is a 2xx, which is the caller's, or the transaction's own 408 (`InviteACKs`).

**`TransactionLayerProofs`**, first part, about `InviteProxy`, for every set of branches and of
codes, over UDP and TCP:

| theorem | statement |
|---|---|
| `InviteInvariance` | `SafeSpec => []IInv` |
| `TypeCorrectness` | `SafeSpec => []TypeOK` |
| `AnswersAreGenuine` | `SafeSpec => []AnswerIsGenuine` |
| `AnsweredCallsAreReported` | `SafeSpec => []AnsweredCallIsReported` |
| `CancelMissesNoBranch` | `SafeSpec => CancelLeavesNoBranch` |
| `WatchdogMissesNoBranch` | `SafeSpec => WatchdogLeavesNoBranch` |

The two invariants look at the last response sent. It got there through a branch (`forwarding`) or
the handler's hand, with locks given back in between, so the invariant speaks of every code on its
way (`Told`): a 2xx was given by a callee, the script or `playAudio` and has its event, or
`playAudio` is about to send it, and a 487 has a CANCEL (`AllJustified`). What a transaction does
with a code it is given is shown once per method (`Served`, `Offered`). The two action properties
need that the fan-out, which works on a snapshot, forgets nobody. Before the snapshot, every ringing
branch is in both maps, or its creator is the very reader that would take the snapshot
(`LiveIsFindable`); after it, every one is still to be visited, at hand, or cancelled
(`LiveIsFanned`), which nothing changes, since a script that could create another branch is busy
refusing (`ReaderFans`). The invite timeout has a goroutine of its own and therefore no such
argument: that is the finding `TimeoutLeavesNoBranch` of section 6.

Second part, about `LayerLocks`, for any number of threads on each path:

| theorem | statement | assumes |
|---|---|---|
| `LocksInvariance` | `LocksSafeSpec => []LockInv` | `SipOnly` |
| `SipPathsNeverDeadlock` | `LocksSafeSpec => []NoWaitCycle` | `SipOnly` |

`SipOnly` says that no thread lists transactions, the path whose deadlock section 6 shows. All other
paths are `Orderly`: the layer's lock and the INVITE's mutex are given back by the operation that
follows the one that takes them, and a branch's mutex is not taken twice. Orderly paths may be put
one after the other, so this is shown of their parts. `LockInv` carries it to the state: whoever
holds the layer's lock or the INVITE's is about to give it back, whoever holds the branch's is
inside its section. Then `Level` orders the waiting: a thread that waits for a branch may wait for
one that waits for the layer's lock as a reader, which may wait for a writer, and nobody waits
upwards. A thread of the lowest level in any set waits for nobody in it.

**`DialogProofs`**, first part, about `Dialogs`, for any number of dialogs of one Call-ID and any
callees:

| theorem | statement | assumes |
|---|---|---|
| `TypeCorrectness` | `SafeSpec => []TypeOK` | |
| `DialogInvariance` | `SafeSpec => []IInv` | `FreshCallIds` |
| `DialogsEndOnce` | `SafeSpec => []EndsOnce` | `FreshCallIds` |
| `RemovedDialogsAreCleaned` | `SafeSpec => []RemovedIsCleaned` | `FreshCallIds` |
| `TheMetricAddsUp` | `SafeSpec => []CountsAddUp` | `FreshCallIds` |
| `TimeoutsAreNotEarly` | `SafeSpec => NoEarlyTimeout` | `FreshCallIds` |
| `OneReaderSettlesTheCallee` | `SafeSpec => CalleeIsSettled` | `OneReader` |

A dialog is answered for by the map, by the BYE that took it out, by its timeout, or by the shutdown
that swapped the map; the properties say nothing of who, so the invariant does. It says that there
is at most one of the four (`OneHolder`), that the dialog has not ended while there is one and has
ended, once and with its file closed, when there is none (`Accounted`). `SettingUp` and `Timed` tie
the goroutines of `Setup` and of the timer to their dialog, and `Counted` equates the metric with
the number of dialogs that are published and have not ended, bar the one between the map and the
counter. `fireTimeout` looks for a Call-ID and not for itself, so `OneHolder` is true only if a left
over timer finds the map empty (`Fresh`), which is where `FreshCallIds` is needed. The last two
theorems are the counterpart of two findings of section 6: what is violated there without a
hypothesis is proved with it. `FreshCallIds` is what RFC 3261, 8.1.1.4 asks of callers and the code
relies on; `OneReader` is a proxy on one UDP socket.

Second part, about `AsyncWriter`, for any producers, capacity, batch size and number of calls:

| theorem | statement |
|---|---|
| `WriterInvariance` | `WriterSafeSpec => []WriterInv` |
| `WriterTypeCorrectness` | `WriterSafeSpec => []WriterTypeOK` |
| `CloseLeavesNothing` | `WriterSafeSpec => []CloseDrains` |
| `ItemsHaveOnePlace` | `WriterSafeSpec => []OnePlacePerItem` |
| `OrderIsKept` | `WriterSafeSpec => KeepsOrder` |

The file, the batch and the channel are one sequence, `Line`, through which items only move: a call
appends to it, taking and writing move a border inside it, and a failed write takes one element out
(`Without`). So order and the absence of doubles are facts about appending to a sequence and taking
an element out of it. `Numbered` says that the next call's number is not in it yet. For
`CloseDrains`, a send that is past the test of the flag finds the channel closed, and the worker
ends only at a channel that is closed and empty with its batch written (`Drained`).

**`ScriptEngineProofs`**, for any keys, addresses, options (the window among them) that change from
call to call, scripts, workers and any number of calls:

| theorem | statement | assumes |
|---|---|---|
| `LimiterTypes` | `LimiterSpec => []LimiterTypeOK` | |
| `CountsDecide` | `LimiterSpec => []CountDecides` | |
| `WindowIsBounded` | `LimiterSpec => []WindowBound` | |
| `DenialsHaveCauses` | `LimiterSpec => []DeniedExactlyForCause` | |
| `EngineCountsDecide` | `Spec => []CountDecides` | |
| `EngineKeepsWindow` | `Spec => []WindowBound` | |
| `EngineDeniesForCause` | `Spec => []DeniedExactlyForCause` | |
| `DeploymentsReachTheDisk` | `Spec => []DiskFollowsMemory` | `OneAtATime` |

`CountDecides` is about the log, `check` looks at `hits`; the gap between them is the argument.
Which calls are in `hits` depends on every call of the key since, for each prunes with its own
window and a penalty that ends drops them all. `CountInv` says that `hits` has exactly the allowed
calls that nothing later made the limiter forget (`Remembered`), that nothing is left to remember of
a key with a penalty on record (`Cleared`), and that calls are logged in the order of the clock
(`Chronological`). `WindowBound` follows without a step of its own: a window in which nobody
overflowed and nobody had a shorter window is one of which nothing was forgotten
(`WindowIsCounted`). `PenaltyInv` says that each deny table has an entry exactly where some logged
overflow accounts for it and lasts as long (`KeyCause`, `KeyKept`, and the same for addresses). The
engine's theorems show that every step of it is a step of the limiter, a stutter, or a restart that
empties it, and reuse the limiter's lemmas. The last one needs to know what an administrator has in
hand at each place (`InProgress`).

**`CallMediaProofs`**, for any numbers of INVITEs, BYEs, timers and streams:

| theorem | statement |
|---|---|
| `RelaysStayReachable` | `Spec => []RelaysAreReachable` |
| `SendersStayListed` | `Spec => []SendersAreListed` |

Neither has a hypothesis: BYE, timer and sweeper come between any two steps of an INVITE. A relay
stays reachable because an INVITE binds sockets only in the session it has in hand
(`AnchoringHasSession`), which is the one in the map unless it anchors too late, and because what
the sweeper is about to take out has no open stream, unless one was bound there too late
(`SweptIsDead`). For the senders it is enough that whoever holds the manager's mutex across steps
waits for the listed session, which it has told to stop (`MutexWaits`).

**`RegistrarProofs`**: `RegistrationsAnswered`, `Spec => OwnContactsAnswered`, for any REGISTERs,
contacts and expiries, with store calls that fail or are cut short, the sweeper and `funsipctl`. The
property speaks of the step in which the query is read; `RowsKept` says of a REGISTER at any point
of its loop that what it stored and nobody touched is in its row, unless its time is over, and needs
that a handler at a contact is at one of its own (`Types`).

**`TCPAliasProofs`**: `OneSocket`, `Spec => []OneSocketPerDestination`, and `UsableIsNotEvicted`,
`Spec => UsableStaysListed`, for any senders, destinations, peers and number of connections. Two
usable connections dialled to one destination would each be listed under it or about to be
registered (`DialedAreKnown`). Only one can be listed; whoever is about to register holds
`dialLocks[dst]` (`HoldsLock`), so only one can be that; and one of each is excluded because a
sender dials only after it has looked again under the lock and found nothing usable
(`FoundNothing`), which nobody else can change, since an accepted connection counts as dialled to
nobody (`AcceptedIsNotDialed`). What a failed write leads a sender to remove is broken for good
(`DropsBroken`). Nearly every step only lets connections get worse (`Settles`), which one lemma
shows to be harmless; dialling and registering are the two exceptions.

**Only model-checked:** what needs fairness, which is beyond these provers: the liveness half of
`ImplementsPromise` (its safety half is `ImplementsResponseStream`), `EndsOrRings`,
`AnsweredCallGetsReported`, `EveryInviteAnswered`, `EveryInviteCollected`, `EveryPathFinishes`,
`CloseEnds`, `TimeoutHangsUp`, `EveryDialogEnds`, `IdleRelaysGo`, `StopsReturn`, `DeadConnectionsGo`
and `ExpiryIsReported`. What section 6 shows are counterexamples, which need no proof.

**Trust.** The theorems rest on the named assumptions on constants in the modules, which every run
evaluates for its instance, on the hypotheses in the tables, and on the library's theorems about
sequences, functions and finite sets.

## 5. Plan

1. *Prove.* Done for every invariant and action property of the runs that TLAPS can reach; what is
left are the modules the following items would add. 2. *Compose.* Dialogs with CallMedia on BYE and
timeout; an abstract dialog life cycle that    `Dialogs` implements; an abstract lossless-until-full
queue that `AsyncWriter` implements. 3. *Model more.* `TransactionTable` (equal keys in
`receiveRequest`, repeated CANCELs of one branch);    the latching of relay addresses; several
dialogs sharing a TCP connection.

## 6. Where the code and its documentation disagree

Found while modelling; each has a configuration that shows it and an entry under "findings".

| property | shows | configuration |
|---|---|---|
| `ListIsReturned` | `GET /transactions` can deadlock the transaction layer | `MCLayerLocksList.cfg` |
| `CallsAreSafe` | a send can meet the channel `Close` has just closed | `MCAsyncWriterPanic.cfg` |
| `TimeoutLeavesNoBranch` | the invite timeout misses branches the script is still creating | `MCInviteProxyFindings.cfg` |
| `FailedCallIsReported` | 408, 487 and 483 made by the stack emit no `call-attempt` | `MCInviteProxyFindings.cfg` |
| `NoFileWithoutDialog` | a second `setupDialog` leaves a capture file open | `MCDialogsFindings.cfg` |
| `CallStartMeansAnswered` | `call-start` for a 2xx that lost against CANCEL | `MCInviteProxyFindings.cfg` |
| `RetransmissionsAbsorbed` | an INVITE repeated after its 2xx was collected starts over | `MCInviteProxyFindings.cfg` |
| `GateHolds` | BYE passes the dialog gate | `MCDialogsFindings.cfg` |
| `ACKIsRouted` | the ACK of a 2xx is dropped | `MCDialogsFindings.cfg` |
| `TimeoutBoundsTheCall` | a dialog that times out before its 2xx sends no BYE, ever | `MCDialogsFindings.cfg` |
| `NoEarlyTimeout` | a late timeout ends a newer dialog with its Call-ID | `MCDialogsFindings.cfg` |
| `CalleeIsSettled` | two concurrent 2xx: the second overwrites the callee | `MCDialogsFindings.cfg` |
| `DeadConnectionsGo` | a connection dialled by host name is not pruned when it closes | `MCTCPAliasFindings.cfg` |
| `DeadConnectionsAlwaysGo` | a reader whose handler sends to a silent peer does not prune its own connection | `MCTCPAliasFindings.cfg` |
| `DiskFollowsMemory` | two deployments at once: one on disk, the other in memory | `MCScriptEngineFindings.cfg` |
| `FailureRestores` | a write that fails half-way leaves its half in the file | `MCScriptEngineFindings.cfg` |
| `WindowNeverExceeded` | a short penalty, or a call with a shorter window, lets more than `maxCount` pass | `MCScriptEngineFindings.cfg` |
| `BoundSocketsAreReachable` | a session released while it is being anchored binds sockets nobody finds | `MCCallMediaFindings.cfg` |
| `ByeReleasesRelay` | BYE of a call that was anchored and played releases no relay | `MCCallMediaFindings.cfg` |
| `AnswersNameLiveStreams` | an answer is rewritten to relay sockets that were never bound, or are closed | `MCCallMediaFindings.cfg` |
| `HoldKeepsTheRelay` | hold asked for in a re-INVITE does not stop the idle sweep | `MCCallMediaSignals.cfg` |
| `CancelledNeverPlays` | a call cancelled while it rings plays after its 487 | `MCCallMediaSignals.cfg` |
| `CurrentBindingsAnswered` | a read that fails part-way is answered 200 with bindings missing | `MCRegistrarFindings.cfg` |
| `SweepsAreReported` | a sweep whose read fails part-way deletes rows it does not report | `MCRegistrarFindings.cfg` |
| `EventsTellTheTable` | the last registration event contradicts the location table | `MCRegistrarFindings.cfg` |
| `StarRemovesAll` | `Contact: *` removes nothing | `MCRegistrarFindings.cfg` |

The first is a run of the project; TLC reports the others as violated in the same way. A
configuration that lists several has one of them active, since TLC stops at the first violation; the
others are there to be uncommented in turn. `SendReturns` in `MCTCPAliasFindings.cfg` shows
something no document denies: a peer that stays connected and does not read holds up every sender to
it, because `conn.Write` has no deadline.

## 7. What is not modelled, and why

Parsing and formatting of SIP, SDP, RTP and WAV, codecs, digest computation and the analyzers'
statistics are functions of data without interleavings; ordinary tests reach them. The bytes of
capture files, recordings and the HTTP of events are I/O. Of the relay, the latching of remote
addresses and the forwarding of packets are left out: a packet is only a sign of life. Of the store,
only the location table is modelled (calls on subscribers are single statements under `DB.mu`);
`play.Manager.CloseAll` is called by nobody. `funsipctl` opens the database file itself for its
`location` commands, which `Registrar` has, and its `subscriber` commands, which nothing has; its
other commands and `funsiptop` are clients of the management API. Retransmission intervals are
abstracted (a timer that is armed may expire at any time), so nothing here is about rates. goja,
SQLite and the Go runtime are third-party; of them the models assume what section 3 names.
