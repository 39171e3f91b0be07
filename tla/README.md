# gortcd: specifications, model checking and proofs

gortcd is a STUN and TURN server. A client sends requests to a UDP listener; an
Allocate request makes the server open a *relayed* UDP socket for the client's
5-tuple, permissions say which peer IPs the client may send to through it, and
channel bindings abbreviate a peer's address to a number. This directory holds
TLA+ models of the server's own logic, TLC configurations, and proofs for TLAPS.
File names below are relative to `src/internal/` unless they start with `src/`.

## 1. Inventory

| Component | State | Operations | Shared with |
|---|---|---|---|
| Allocation table, `allocator/allocator.go`, `allocation.go` | `allocs`: per 5-tuple the connection, deadline, permissions and their channel bindings; guarded by `allocsMux` | `New`, `Remove`, `Prune`, `CreatePermission`, `ChannelBind`, `Refresh`, `Send`, `SendBound`, `Bound` | request handlers (many workers), the collector, one reader goroutine per relayed socket |
| Relayed sockets, `allocator/port.go`, `port_sys.go` | `NetAllocator.allocs`: the bound sockets | `New`, `Remove` | called by the table outside its lock |
| Peer data path, `Allocation.ReadUntilClosed`, `Server.HandlePeerData` | the tuple and connection captured when the reader starts | read, look up the channel, write to the client | table |
| Request handlers, `server/server_handlers.go`, `context.go`, `config.go`, `server_send.go` | the request context with its copy of the configuration | one handler per message type | table, nonces, credentials, filters |
| Nonces, `auth/nonce.go` | a nonce per 5-tuple with its expiry | `Check` (verify, create, rotate) | all workers, under a mutex |
| Static credentials, `auth/auth.go` | read-only map from user and realm to key | `Auth` | all workers |
| Filters, `filter/filter.go` | rule list and default | `Action` | part of the configuration |
| Serving, `server/server.go`, `worker_pool.go` | ready list, worker count, context pool, close channel, wait group, sockets | `Serve`, `worker` loop, `getCh`, `release`, `workerFunc`, `clean`, `Stop`, `Close` | sockets, collector |
| Reload, `reload/`, `server/reload.go`, `manage/`, `cli/run.go` | notification channel, `Updater` with options and listeners | signal, management request, read file, `Set`, `Get`, `Subscribe` | all servers |
| Pooled ports, `allocator/port_sys_pool.go` | list of ports | `AllocatePort` | not wired into the server |
| Metrics, command line, parsing, logging, e2e tests | none that the behaviour depends on | | |

**What is hard here.** `New`, `Remove`, `Prune`, `Send` and `SendBound` act on
state they read before they released the lock. Worker channels and contexts are
protected by nothing but the order in which they are handed over. `Stop` sends
while it holds the lock. `Close` may meet a `Serve` that is still opening
sockets and adding readers to the group `Close` waits for. Configuration is
copied per request and may be reloaded before the request is served. Signals and
notifications coalesce. Listeners start while reloads are applied. Deadlines of
allocations, permissions, bindings and nonces expire independently of all this.
`PROJECT.json` lists these hazards, each at its line and with the properties
that cover it.

**What makes each part correct.** Table: one allocation per 5-tuple, one
permission per IP, bindings one to one, nothing unexpired lost, everything
expired collected, no client harmed by another. Sockets: one owner each, reclaimed with the allocation. Data:
leaves only through the sender's own socket. Serving: each channel and context
has one holder, the pool is bounded, accepted requests are served, `Close` ends
everything and does not panic once the server is up. Authentication: nothing is
gained without a current nonce; rotated nonces stay dead. Reload: no request
lost, no server moved back, new rules take effect and what they deny is not
prolonged.

## 2. Modules and how they correspond to the code

| Module | Models | Composition |
|---|---|---|
| `Allocator` | table, relayed sockets, peer data path | |
| `RelayService` | nothing: the abstract specification of what the relay promises a client | |
| `AllocatorRelay` | the refinement mapping from `Allocator` to `RelayService` | EXTENDS `Allocator`, INSTANCE `RelayService` |
| `Turn` | one server: configuration copy, client filter, nonces, credentials, handlers with the peer filter, reload of the configuration, restart | EXTENDS `Allocator` and calls its actions |
| `WorkerPool` | `Serve`, reader goroutines, worker pool, cleaner, `Close` | |
| `Reload` | notifier, management endpoint, reload goroutine, updater, starting listeners | |
| `MCAllocator`, `MCTurn` | instances for TLC (symmetry set; the configurations the operator switches between) | |
| `AllocatorProofs`, `AllocatorTableProofs`, `AllocatorRelayProofs`, `TurnProofs`, `WorkerPoolProofs`, `ReloadProofs` | theorems | |

`PROJECT.json` maps every definition to the lines it models.

**Allocator.** An action is a critical section of `allocsMux`. `New` is
`NewReserve` (check and reserve the tuple), `NewListen` or `NewListenFail` (open a
socket without the lock) and `NewCommit` or `NewCommitLost` (store the connection and
start the reader; lost if the entry has gone, which dereferences a nil
connection and ends the process: `panicked`, then `Restart`, as
`src/provision/gortcd.service` says `Restart=on-failure`). `Remove` and `Prune`
update the table; `Dealloc` then passes `Tuple.Server` to `NetAllocator.Remove`.
`Send`/`SendBound` are a lookup and, after the unlock, `SendWrite`. The
remaining methods are one critical section and one action. Which requests arrive
is free here, so every result holds whatever the front of the server admits.

- *Time is relative*: a deadline is the number of ticks left; `Tick` lowers all
  of them. A request is applied some time after `ctx.time` was read, so its
  deadline is any value up to the longest lifetime. `Prune` is given the
  ticker's time, at most slightly older than now, which is a `Prune` before the tick.
- Slices whose order no lookup depends on are sets. `conflicts` and the lookups
  take the first or the last match; `PermissionUnique` and `BindingInjective`
  show that within a permission there is only one, and across permissions
  (`ChannelUnique` fails) the lookup takes any.
- `HandlePeerData` looks the channel up and writes in one step: nothing it uses
  after the lookup can change. The loop in `Prune` that removes several sockets
  passes the same address each time and is one `Dealloc`.

**RelayService and AllocatorRelay.** `RelayService` says what a client can rely
on, without lock, table, deadlines or calls in progress. A client has at most one
lease of a relayed address; under the lease it permits peer IPs and binds channels;
data is accepted for a permitted peer only and leaves, if it leaves, through the
address it was accepted for; what a peer sends goes to the client the address was
opened for, labelled with a channel that client bound to that peer; a granted lease
begins with no permits and no channels; leases end in an order that never leaves a
channel without a permit or a permit without a lease. A crash forgets everything.
The mapping reads lease, permits and channels off the client's table entries, the
holder of an address off the socket's owner, and the pending datagram off the
locals of a call between the lookup and the write of `Send`. Two weaknesses of the
code are deliberately allowed by the service, because they are what the code does
and are stated as findings of their own: peer data needs no permit, and one channel
number may lead to peers on different hosts.

**Turn.** A context has a stage: `read` (with the configuration copied by
`Server.worker`), `serve` (`serveConn` read the clock and passed the client
filter), `handle` or `data` (past `processMessage`). `processAuth` is
`NonceAuth.Check` and `Static.Auth`: admitted, or challenged with a nonce that is
created or rotated if need be. Nonces are numbered instead of random. Whether
`Static.Auth` knows the user and realm of a message and the HMAC fits is one free
verdict (`good`), so realms are no state of the model. The clock is read in
`serveConn`, before the nonce is checked under the lock: a context's `age` is the
number of ticks since then, a nonce's `left` the ticks until it expires, below zero
if it is past, and `Current` compares the two as `nonce.valid` does, also for a
nonce that another worker has made in between. What a datagram contains is chosen
where the code looks at it. Responses change no state and are left out. `Ends` is
every early return. A context's `admitted` and `lastNonce` are history variables for
the properties. The models cover servers that rotate nonces and servers that do not
(`NonceDuration` 0). The shipped binary does not: nothing outside
`server/server.go` sets `Options.NonceDuration`, so the setting
`auth.nonce.timeout: 600s` of `src/gortcd.yml:51` is never read and has no effect.

**WorkerPool.** Workers are identified by their channel. Critical sections of
`wp.lock` are steps, except the one in `Stop`, which sends under the lock and is
split (`locked`). With `ChanCap = 1` sends are buffered; the rendezvous of
capacity 0 allows a subset of those behaviours and is a constant of the module.
The model starts where `New` returns, with the collector running. `Serve` starts
the pool (`ServeStart`) and then the readers one by one (`ServeReader`), those in
`Reusing` with a socket of their own, and waits (`ServeReturn`). `Close` comes at
most once, at any time: before `Serve` it panics in `Stop` ("wasn't started"), and
while `Serve` still starts readers it may close the sockets it finds and miss later
ones, which is harmless because the late reader sees the closed channel first.
`Outstanding` is the wait group's counter, shared by collector and readers.
`CloseWait`, `CloseWake` and `CloseReturn` are `sync.WaitGroup.Wait`, whose reuse
check panics if a reader is added between wake-up and return. A panic ends the
process, so every action but stuttering requires `Alive`. A context dropped after
the last try is left to Go's garbage collector; in `GetNone` it is free again, which
stands for the new one the pool will make.

**Reload.** The file is the number of its edit and whether it can be read and
parsed. `Updater.Set` is `SetStore`, before the lock is taken, and `SetApply`
under it, which keeps `Subscribe` out while the servers are told; a listener's
start is `ListenerCreate` (`Get` and `New`), then `ListenerSubscribe`, or
`ListenerFail`. `asked` is a history variable.

## 3. Runs

Passing runs, each under four minutes with two workers (`race`, `table` and `pool`
take two to three and a half, the others about one or less).

| Run | Bounds | Shows |
|---|---|---|
| `race` | 2 clients, 2 relayed addresses, 2 workers, 1 peer, lifetime 1, symmetry; about 474,000 states | every interleaving of two requests with the collector and the readers: `TupleUnique`, `RelayExclusive`, `CallHoldsOwnSocket`, `RelayedFromOwnSocket`, that a step takes something from one client at most (`ClientsIsolated`), and that all of it refines `RelayService` (`ImplementsRelay`) |
| `table` | 1 client, 2 IPs × 2 ports, 2 channels; 265,000 states | the contents of one allocation: `PermissionUnique`, `BindingInjective`, `UnexpiredKept`, `ExpiredCollected`, and `ImplementsRelay` with colliding ports and channels |
| `pool` | 2 readers, one with a socket of its own, 2 channels, 2 contexts, 2 tries; 210,000 states | `ChannelExclusive`, `WorkersCounted`, `CtxExclusive`, `StopNeverWaits`, `NoneForgotten`, `NoReadAfterClose`, `UpNeverPanics`, `AcceptedKept`, `AcceptedServed`, `CloseEndsAll` |
| `reload` | 2 listeners, 2 edits, 1 blocked management request; 195,000 states | `NoReloadLost`, `ConfigForward`, `ReloadReaches` |
| `turn` | 1 client, 1 peer, 2 workers, 3 filter configurations, 2 nonces, a delay of 1 tick between clock and nonce check, `OverlapBound`; about 110,000 states | `UsesAllocator` (refinement), `AuthenticatedOnly`, `OwnRequestsOnly`, `NonceForward`, `DeniedPeerFades`, `DeniedClientFades`, `DeniedPeerGone`, `DeniedClientGone` |

Two of everything is what the races need: a second client or worker to come
between two steps, a second address to be confused with the first, a second
binding to collide with. Lifetime 1 separates unexpired from expired, which is
all the code tests (that `ClientsIsolated` also keeps deadlines from being moved
close says something only for longer lifetimes, and is proved for them). In `turn` two workers serve requests of one client, so
that one request's nonce may be rotated by another's, or a nonce made by a worker be
judged by the older clock of the other, which is what `NonceForward` is about.
`OverlapBound` lets them overlap only while the client has no allocation: there they
compete for its nonce, while for the table they compete in `race`. Without that
bound the instance has about 900,000 states, too many for the liveness properties;
the safety properties are proved without it and for any number of workers. Two
clients in `turn` would differ only through the table, where again `race` has them.
Two nonces are one rotation. The bound `MaxNonces` makes the last nonce
permanent, so that clients may go on for ever; otherwise `DeniedPeerGone` would hold
because nonces run out.

Violated runs, each a disagreement between the code and its comments
(`findings` in `PROJECT.json` quotes them):

| Run | Property | What happens |
|---|---|---|
| `sockets` | `SocketsReclaimed` | `Remove` and `Prune` ask for the listener's address to be closed, so no relayed socket is ever closed |
| `reader` | `ReaderHasSocket` | an allocation removed half way through `New` starts a reader on a nil connection |
| `channel` | `ChannelUnique` | a channel number can be bound to peers with different IPs |
| `peer` | `PeerDataNeedsPermission` | peer data without a permission is passed on as a Data indication |
| `reload_stale` | `ListenersNotified` | options set between a listener's `Get` and `Subscribe` never reach it |
| `reload_auth` | `AuthKept` | a listener created after a reload has no authenticator |
| `mismatch` | `MismatchMeansAllocated` | an Allocate that finds no port leaves the 5-tuple reserved: the client is told it has an allocation until the reservation expires |

One more disagreement has no run of its own. `src/gortcd.yml:83-84` says that
"Attempts to relay data to address that is not in those networks will result in 403
error". The peer filter is asked only when a permission or a binding is made
(`server/server_handlers.go:152` and `196`), so after a reload what was made before
goes on relaying to an address that is now filtered, without an error, until it
expires. `DeniedPeerFades` and `DeniedPeerGone` say what does hold: nothing is granted or
prolonged once the requests read before the reload have ended, and it expires.

A property named in a passing run has a faulty variant of the code
(`Faulty...`, listed under `mutants`) that TLC finds violating it.

### Fairness

Go's scheduler lets every runnable goroutine run, so each goroutine's next step
is weakly fair: a `Serve` that was called, the workers, the cleaner, the
collector's exit, a `Close` that was called, the reload goroutine, starting
listeners. The collector's ticker makes `Prune` fair and the clock makes
`Tick` fair. systemd restarts a dead server, so `Restart` is fair. Sends on
`Notifier.C` are strongly fair: Go queues blocked senders in order, and the
channel is emptied again and again. A reader blocked in `ReadFrom` is only
fair once the socket is closed. Clients, peers, the operator, signals, edits and
the calls of `Serve` and `Close` are never assumed to come.

## 4. Proofs

All theorems hold for every value of the constants that satisfies the
assumptions: `MaxLifetime` is positive, the listener's address is no
relayed one, the collector is no worker, the null values are outside their
sets, the numbers in `Turn` (`NonceDuration`, `MaxNonces`, `MaxDelay`) and `Reload` are naturals, a server has at least one
reader, and the pool's maximum and the number of tries are positive.

**`AllocatorProofs`: `TypeCorrect`, `TupleUniqueness`, `CallsHoldOwnSockets`,
`RelayExclusivity`, `OwnSocketOnly`, `SocketsStay`.** `RelayExclusive` is not inductive: a `New`
may commit into an entry that another `New` of the same client reserved, so one
needs to know what a call holds between its critical sections. The inductive
invariant is `IndInv`: types, `TupleUnique`, `RelayOwned` (a relayed address in
the table is bound and owned by that tuple), `ReaderOwned`, and
`CallHoldsOwnSocket` (the socket in a call's locals is bound and belongs to the
call's client). Exclusivity follows: two entries with one socket have
the socket's owner as their tuple, and tuples are unique. `SocketsStay` is the
finding of run `sockets` for every instance: while the process lives no relayed socket
is closed or gets another owner.

**`AllocatorTableProofs`: `PermissionUniqueness`, `BindingsOneToOne`,
`NothingLostEarly`, `ClientIsolation`.** `TableOK` says every entry is unambiguous; each rewriting
operator (`Aged`, `Pruned`, `Bound`, ...) is shown to keep it. That no unexpired
permission is lost needs `CommitFresh` as well: a commit overwrites the entry's permissions,
which is harmless only because its socket is new to the table, hence
the entry is not one that keeps its relayed address. `ClientIsolation` goes over
the actions once more with any number of clients: one that works on an entry leaves
every other client's as it is (`OthersUntouched`), and `Tick` and `Prune`, which rewrite
all of them, leave every client's (`StaysUntouched`).

**`AllocatorRelayProofs`: `AllocatorImplementsRelay`.** The refinement of
`RelayService`: `Init` maps to `Forgotten`, and each action of `Allocator` to one
step of the service or to `Silence`; there is one lemma per kind of step. Most rest on
`ViewOfEntry` and `ViewPut`: under `TupleUnique` what the mapping reads for a client
is what its one entry says, and replacing that entry changes that client's view
alone. `GrantStep`, `AcceptStep` and `ReceiveStep` need `IndInv` (whose socket a call
holds, whose reader a socket has) and `BindStep` needs `TableOK` (what `Bound`
finds is the only binding). `OpenStep` is where it matters that a socket which
is still bound is not bound again: a call may hold it.

**`TurnProofs`: `TurnTypeCorrect`, `TurnUsesAllocator`, `TurnImplementsRelay`,
`AllocationsAuthenticated`, `NoncesForward`, `OwnRequestsOnlyTake`,
`DeniedPeersFade`, `DeniedClientsFade`.** `TurnUsesAllocator` is the
refinement: every step of the server is a step of `Allocator` or leaves its
variables alone, so all theorems above hold for the server. Two are stated:
`TurnRelayExclusivity`, and `TurnImplementsRelay`, which composes the two
refinements: the whole server implements `RelayService`. `AuthenticatedOnly`
speaks of steps: what a client gains (`Gains`: an allocation, an address, a permission, a
binding, or time) it gains by a request of its own that was itself admitted. Lemma
`GainStep` goes over the actions and finds who can give a client something: a handler
at stage `handle`, or the commit of its own `New`. That the request was admitted is
`HandlesAuthenticated`, the part of the inductive invariant `AuthInv` that carries it
from authentication to the handler. The other part, `NoncesOrdered`, is what
`NonceForward` needs: no nonce is from the future, and a client's current nonce is at
least the last one it was admitted with.

`DeniedPeerFades` and `DeniedClientFades` are what filters can promise although
each request has its own copy of the configuration: once the requests that were
read before the reload have ended, nothing is granted or prolonged, and the
door stays shut. The peer filter is asked by each handler that grants
something, so the first needs the types only. The client filter is asked
once, in `serveConn`, and not again by the handlers: the second needs
the invariant `ServedAllowed`, that the configuration of every request past
`serveConn` allows its client. `OwnRequestsOnly` follows from the lemmas of
`ClientIsolation`, with the client named: who takes something is an admitted
request of that client, or a `New` of its own that commits.

**`WorkerPoolProofs`: `PoolTypeCorrect`, `PoolCounted`, `ChannelsExclusive`,
`ContextsExclusive`, `StopNeverBlocks`, `NoWorkerForgotten`, `AcceptedContextsKept`,
`ClosedIsSilent`, `UpServersClose`.** Types
and count need each other (an exiting worker lowers a count that must be positive)
and `Hands`: who has a context or a channel at which point of its loop, and that
the lock is held across steps exactly while `Stop` notifies. `ChannelExclusive` is
proved from `ChanInv`: the lists have no repetitions (`Listed`); whoever may send on
a channel is the only one and its worker waits with an empty buffer (`Handed`);
a waiting worker is known to somebody (`Reached`). `StopNeverWaits` is then a
corollary, because what `Stop` has yet to notify is idle. `NoneForgotten` needs in
addition that the ready list stays empty once `Stop` has emptied it (`StoppedEmpty`):
then `Reached` leaves only the buffer, the cleaner and the readers. `AcceptedKept`
follows from `Handed`: the channel a reader sends on belongs to a waiting worker with
an empty buffer, so neither an overwritten context nor an exiting worker is met. Contexts move by the
same kind of argument (`CtxPlaced`), one move per action. `ClosedIsSilent` rests on
`close(s.close)` being the first thing `Close` does: a reader started later sees it.
`UpServersClose` has the shape []( P => []Q ): from a server that is up, `Up` is
kept by every step, because no reader is left to start and so the wait group is not
used again; the assumption that there is a reader makes "all started" mean that `Serve` was
called.

**`ReloadProofs`: `ReloadTypeCorrect`, `ReloadsKept`, `ConfigsForward`.**
`EditsOrdered` is the strengthening: running <= stored <= read <= file, with equality
of stored and read options while `Set` applies them, and every server a request counts
on is among the listeners `Set` will tell. A reload request disappears
only into another that has still to read the file.

**Only model-checked.** Liveness (`ExpiredCollected`, `AcceptedServed`,
`CloseEndsAll`, `ReloadReaches`, `DeniedPeerGone`, `DeniedClientGone`) is out of
the prover's reach. Most of these have a safety core that is proved: what must happen is
never made impossible on the way (`AcceptedKept` for `AcceptedServed`,
`NoneForgotten` and `NoReadAfterClose` for `CloseEndsAll`, `NoReloadLost` for
`ReloadReaches`, `DeniedPeerFades` and `DeniedClientFades` for the two `Gone`s); what TLC adds
is that fairness drives the system there. Everything else that the passing runs
check is proved: the invariants, the action properties, `UpNeverPanics` and both
refinements.

## 5. Not modelled

- The pooled port allocator: only its own test uses it. It never marks a port
  allocated, so it has no allocation state to follow.
- `src/docs/_build`: the HTML documentation as Sphinx built it, with the scripts
  Sphinx ships (jQuery, underscore, search): generated or third-party, and no part of
  the server, which is written in Go. The other script of the repository,
  `src/e2e/webrtc-chrome/static/script.js`, drives an end-to-end test.
- Metrics, logging, flag and YAML parsing, the key command, HTTP and pprof
  servers: input and output without influence on the state above.
- Message encoding and the HMAC are libraries; which verdicts they give is free.
- Responses. So "success without an allocation" of `Refresh`, the answer to a
  retransmitted Allocate and the realm of a challenge are recorded as hazards only.
- The growth of the nonce list, which the source itself notes as a TODO.
- `Close` called twice: it panics on its first line.

## 6. Plan

Done, in this order: `Allocator` with its runs and proofs, `WorkerPool`,
`Reload`, `Turn` with its refinement proof, `RelayService` with the proof that
`Allocator` implements it, `Serve` and its races with `Close`, the proofs for
`WorkerPool` and `Reload`, isolation of clients, the fading of what filters deny and
the safety cores of the liveness properties, with their proofs. Left:

1. Responses in `Turn`: what a client may conclude from an answer, with lost
   and retransmitted requests.
2. A composition of `WorkerPool` and `Turn`, so that a context's life and its
   contents are followed together.

## 7. Running

    tlc -workers 2 -config MCAllocator_race.cfg MCAllocator
    tlapm AllocatorProofs.tla

The module and configuration of every run are in `PROJECT.json`.
