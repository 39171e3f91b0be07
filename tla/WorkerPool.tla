----------------------------- MODULE WorkerPool -----------------------------
(***************************************************************************)
(* The serving side of the server: Server.Serve, the reader goroutines it  *)
(* starts (Server.worker), which take datagrams off the sockets, the pool  *)
(* of workers that serve them (workerPool), the goroutine that stops idle  *)
(* workers (clean), the one that collects expired allocations, and         *)
(* Server.Close, which may come at any time, before Serve too.             *)
(*                                                                         *)
(* A worker goroutine lives as long as it owns its workerChan, so workers  *)
(* are identified by their channels.  A channel passes between the ready   *)
(* list, the party about to send on it and the worker; nothing but that    *)
(* hand-over protects it.  Critical sections of wp.lock are single steps,  *)
(* except the one in Stop, which sends while it holds the lock.            *)
(*                                                                         *)
(* A panic in any goroutine ends the process: every goroutine stops where  *)
(* it is.                                                                  *)
(***************************************************************************)
EXTENDS Naturals, Sequences, FiniteSets

CONSTANTS
    Readers,            \* goroutines running Server.worker, numbered as they start
    Reusing,            \* the readers that get a socket of their own: none without
                        \* ReusePort, and with it those whose ListenPacket succeeds
    Chans,              \* workerChans
    Ctxs,               \* request contexts
    MaxWorkersCount,    \* Options.Workers
    MaxTries,           \* attempts to Serve a context before it is dropped
    ChanCap,            \* workerChanCap: 0 if GOMAXPROCS is 1, else 1
    NoChan, NoCtx, Stopping

ASSUME PoolAssumption ==
    /\ MaxWorkersCount \in Nat \ {0}
    /\ MaxTries \in Nat \ {0}
    /\ ChanCap \in {0, 1}
    /\ Readers \subseteq Nat /\ Readers # {} /\ Reusing \subseteq Readers
    /\ NoChan \notin Chans
    /\ NoCtx \notin Ctxs /\ Stopping \notin Ctxs /\ NoCtx # Stopping

VARIABLES
    ready,          \* wp.ready: idle channels, the most recently used last
    workersCount,   \* wp.workersCount
    mustStop,       \* wp.mustStop
    locked,         \* wp.lock is held across steps (by Stop)
    slot,           \* per channel: what its buffer holds, NoCtx if nothing
    worker,         \* per channel: state of its worker, "none" if it has none
    serving,        \* per channel: the context its worker has in hand
    serve,          \* Server.Serve: not called yet, starting readers, returned
    collector,      \* the goroutine of startCollect: "run" or "done"
    reader,         \* per reader: where it is in its loop, "none" before it starts
    sock,           \* per reader: "shared" if it reads s.conn, else its own socket
    ctx, target,    \* per reader: its context, the channel it sends on
    tries,          \* per reader: failed attempts to Serve its context
    free,           \* contexts that acquireContext may return
    cleaner, scratch,   \* the cleaning goroutine and the channels it must stop
    closer, stopping,   \* Server.Close and the channels Stop has not notified
    closed,         \* s.close is closed
    connOpen        \* s.conn is open

poolVars == <<ready, workersCount, mustStop, locked>>
workerVars == <<slot, worker, serving>>
readerVars == <<serve, collector, reader, sock, ctx, target, tries>>
cleanVars == <<cleaner, scratch>>
closeVars == <<closer, stopping, closed, connOpen>>
vars == <<poolVars, workerVars, readerVars, free, cleanVars, closeVars>>

-----------------------------------------------------------------------------
\* New has started the collector; nobody has called Serve.
Init ==
    /\ ready = <<>> /\ workersCount = 0 /\ mustStop = FALSE /\ locked = FALSE
    /\ slot = [c \in Chans |-> NoCtx]
    /\ worker = [c \in Chans |-> "none"]
    /\ serving = [c \in Chans |-> NoCtx]
    /\ serve = "new" /\ collector = "run"
    /\ reader = [r \in Readers |-> "none"]
    /\ sock = [r \in Readers |-> "shared"]
    /\ ctx = [r \in Readers |-> NoCtx]
    /\ target = [r \in Readers |-> NoChan]
    /\ tries = [r \in Readers |-> 0]
    /\ free = Ctxs
    /\ cleaner = "none" /\ scratch = <<>>
    /\ closer = "open" /\ stopping = <<>> /\ closed = FALSE /\ connOpen = TRUE

Alive == closer # "panicked"

-----------------------------------------------------------------------------
(* Server.Serve and Server.startCollect *)

\* Faulty variant: the pool is not started.
FaultyServeStart ==
    /\ Alive
    /\ serve = "new"
    /\ serve' = "starting"
    /\ UNCHANGED <<poolVars, workerVars, collector, reader, sock, ctx, target, tries, free,
                   cleanVars, closeVars>>

\* workerPool.Start: stopCh is made and the cleaning goroutine started.
ServeStart ==
    /\ Alive
    /\ serve = "new"
    /\ serve' = "starting"
    /\ cleaner' = "clean"
    /\ UNCHANGED <<poolVars, workerVars, collector, reader, sock, ctx, target, tries, free,
                   scratch, closeVars>>

\* One turn of the loop: wg.Add, and a reader of s.conn, or of a socket of its
\* own that is added to s.conns.
ServeReader(r) ==
    /\ Alive
    /\ serve = "starting"
    /\ reader[r] = "none" /\ \A q \in Readers : q < r => reader[q] # "none"
    /\ reader' = [reader EXCEPT ![r] = "top"]
    /\ sock' = [sock EXCEPT ![r] = IF r \in Reusing THEN "open" ELSE "shared"]
    /\ UNCHANGED <<poolVars, workerVars, serve, collector, ctx, target, tries, free,
                   cleanVars, closeVars>>

Started == \A r \in Readers : reader[r] # "none"

\* Faulty variant: the readers are not counted.
FaultyOutstanding == collector = "run"

\* The counter of s.wg: the goroutines added to it that are not done.
Outstanding ==
    collector = "run" \/ \E r \in Readers : reader[r] \notin {"none", "done"}

\* Serve's own s.wg.Wait().
ServeReturn ==
    /\ Alive
    /\ serve = "starting" /\ Started
    /\ ~Outstanding
    /\ serve' = "returned"
    /\ UNCHANGED <<poolVars, workerVars, collector, reader, sock, ctx, target, tries, free,
                   cleanVars, closeVars>>

\* The select in the collector's loop; what it collects is module Allocator's.
CollectorStop ==
    /\ Alive
    /\ collector = "run"
    /\ closed
    /\ collector' = "done"
    /\ UNCHANGED <<poolVars, workerVars, serve, reader, sock, ctx, target, tries, free,
                   cleanVars, closeVars>>

-----------------------------------------------------------------------------
(* Channel operations *)

\* Faulty variant: nil is not told from a context.
FaultyReceived(c, m) ==
    /\ worker' = [worker EXCEPT ![c] = "serve"]
    /\ serving' = [serving EXCEPT ![c] = m]

\* The worker of channel c has received m: a context, or nil to stop.
Received(c, m) ==
    /\ worker' = [worker EXCEPT ![c] = IF m = Stopping THEN "exit" ELSE "serve"]
    /\ serving' = [serving EXCEPT ![c] = IF m = Stopping THEN NoCtx ELSE m]

\* ch.ch <- m completes by filling the buffer or by meeting the receiver.
Send(c, m) ==
    \/ /\ ChanCap = 1 /\ slot[c] = NoCtx
       /\ slot' = [slot EXCEPT ![c] = m]
       /\ UNCHANGED <<worker, serving>>
    \/ /\ worker[c] = "recv" /\ slot[c] = NoCtx
       /\ Received(c, m)
       /\ UNCHANGED slot

-----------------------------------------------------------------------------
(* Server.worker, workerPool.Serve and workerPool.getCh *)

\* The socket reader r reads is open.
SocketOpen(r) == IF sock[r] = "shared" THEN connOpen ELSE sock[r] = "open"

\* Process r at `from` goes to `to`; ctx, target and tries are left to the action.
ReaderAt(r, from, to) ==
    /\ Alive
    /\ reader[r] = from
    /\ reader' = [reader EXCEPT ![r] = to]
    /\ UNCHANGED <<serve, collector, sock>>

\* The select at the top of the loop.
ReaderCheckClose(r) ==
    /\ ReaderAt(r, "top", IF closed THEN "done" ELSE "read")
    /\ UNCHANGED <<poolVars, workerVars, ctx, target, tries, free, cleanVars, closeVars>>

\* A datagram arrives; a context is acquired for it.
ReaderRead(r) ==
    /\ ReaderAt(r, "read", "try")
    /\ SocketOpen(r)
    /\ \E c \in free :
          /\ ctx' = [ctx EXCEPT ![r] = c]
          /\ free' = free \ {c}
    /\ tries' = [tries EXCEPT ![r] = 0]
    /\ UNCHANGED <<poolVars, workerVars, target, cleanVars, closeVars>>

\* ReadFrom fails, because the socket was closed or otherwise: the loop ends.
ReaderFail(r) ==
    /\ ReaderAt(r, "read", "done")
    /\ UNCHANGED <<poolVars, workerVars, ctx, target, tries, free, cleanVars, closeVars>>

\* Faulty variant: the ready list is used without the lock.
FaultyGetReady(r) ==
    /\ ready # <<>>
    /\ ReaderAt(r, "try", "send")
    /\ target' = [target EXCEPT ![r] = ready[Len(ready)]]
    /\ ready' = SubSeq(ready, 1, Len(ready) - 1)
    /\ UNCHANGED <<workersCount, mustStop, locked, workerVars, ctx, tries, free,
                   cleanVars, closeVars>>

\* getCh finds an idle worker.
GetReady(r) ==
    /\ ~locked
    /\ ready # <<>>
    /\ ReaderAt(r, "try", "send")
    /\ target' = [target EXCEPT ![r] = ready[Len(ready)]]
    /\ ready' = SubSeq(ready, 1, Len(ready) - 1)
    /\ UNCHANGED <<workersCount, mustStop, locked, workerVars, ctx, tries, free,
                   cleanVars, closeVars>>

\* Faulty variant: off by one in the comparison with the maximum.
FaultyGetCreate(r) ==
    /\ ~locked
    /\ ready = <<>>
    /\ workersCount <= MaxWorkersCount
    /\ ReaderAt(r, "try", "spawn")
    /\ workersCount' = workersCount + 1
    /\ UNCHANGED <<ready, mustStop, locked, workerVars, ctx, target, tries, free,
                   cleanVars, closeVars>>

\* getCh decides to create a worker: the count is raised under the lock ...
GetCreate(r) ==
    /\ ~locked
    /\ ready = <<>>
    /\ workersCount < MaxWorkersCount
    /\ ReaderAt(r, "try", "spawn")
    /\ workersCount' = workersCount + 1
    /\ UNCHANGED <<ready, mustStop, locked, workerVars, ctx, target, tries, free,
                   cleanVars, closeVars>>

\* ... and the worker is started after it, on a recycled or a new channel.
Spawn(r) ==
    /\ ReaderAt(r, "spawn", "send")
    /\ \E c \in Chans :
          /\ worker[c] = "none"
          /\ worker' = [worker EXCEPT ![c] = "recv"]
          /\ target' = [target EXCEPT ![r] = c]
    /\ UNCHANGED <<poolVars, slot, serving, ctx, tries, free, cleanVars, closeVars>>

\* getCh returns nil: the reader sleeps and tries again, MaxTries times in all,
\* and then forgets the context.
GetNone(r) ==
    /\ ~locked
    /\ ready = <<>>
    /\ workersCount >= MaxWorkersCount
    /\ IF tries[r] + 1 < MaxTries
       THEN /\ ReaderAt(r, "try", "try")
            /\ tries' = [tries EXCEPT ![r] = @ + 1]
            /\ UNCHANGED <<ctx, free>>
       ELSE /\ ReaderAt(r, "try", "top")
            /\ tries' = [tries EXCEPT ![r] = 0]
            /\ ctx' = [ctx EXCEPT ![r] = NoCtx]
            /\ free' = free \union {ctx[r]}
    /\ UNCHANGED <<poolVars, workerVars, target, cleanVars, closeVars>>

\* Faulty variant: the reader recycles the context it has handed over.
FaultyServeSend(r) ==
    /\ ReaderAt(r, "send", "top")
    /\ Send(target[r], ctx[r])
    /\ free' = free \union {ctx[r]}
    /\ ctx' = [ctx EXCEPT ![r] = NoCtx]
    /\ target' = [target EXCEPT ![r] = NoChan]
    /\ tries' = [tries EXCEPT ![r] = 0]
    /\ UNCHANGED <<poolVars, cleanVars, closeVars>>

\* ch.ch <- c in Serve.
ServeSend(r) ==
    /\ ReaderAt(r, "send", "top")
    /\ Send(target[r], ctx[r])
    /\ ctx' = [ctx EXCEPT ![r] = NoCtx]
    /\ target' = [target EXCEPT ![r] = NoChan]
    /\ tries' = [tries EXCEPT ![r] = 0]
    /\ UNCHANGED <<poolVars, free, cleanVars, closeVars>>

-----------------------------------------------------------------------------
(* workerPool.workerFunc and workerPool.release *)

WorkerReceive(c) ==
    /\ worker[c] = "recv"
    /\ slot[c] # NoCtx
    /\ Received(c, slot[c])
    /\ slot' = [slot EXCEPT ![c] = NoCtx]
    /\ UNCHANGED <<poolVars, readerVars, free, cleanVars, closeVars>>

\* WorkerFunc returns and putContext recycles the context.
WorkerServed(c) ==
    /\ worker[c] = "serve"
    /\ worker' = [worker EXCEPT ![c] = "release"]
    /\ free' = free \union {serving[c]}
    /\ serving' = [serving EXCEPT ![c] = NoCtx]
    /\ UNCHANGED <<poolVars, slot, readerVars, cleanVars, closeVars>>

\* Faulty variant: mustStop is not looked at.
FaultyWorkerRelease(c) ==
    /\ ~locked
    /\ worker[c] = "release"
    /\ worker' = [worker EXCEPT ![c] = "recv"]
    /\ ready' = Append(ready, c)
    /\ UNCHANGED <<workersCount, mustStop, locked, slot, serving, readerVars, free,
                   cleanVars, closeVars>>

\* release: back to the ready list, unless the pool was stopped.
WorkerRelease(c) ==
    /\ ~locked
    /\ worker[c] = "release"
    /\ worker' = [worker EXCEPT ![c] = IF mustStop THEN "exit" ELSE "recv"]
    /\ ready' = IF mustStop THEN ready ELSE Append(ready, c)
    /\ UNCHANGED <<workersCount, mustStop, locked, slot, serving, readerVars, free,
                   cleanVars, closeVars>>

WorkerExit(c) ==
    /\ ~locked
    /\ worker[c] = "exit"
    /\ worker' = [worker EXCEPT ![c] = "put"]
    /\ workersCount' = workersCount - 1
    /\ UNCHANGED <<ready, mustStop, locked, slot, serving, readerVars, free,
                   cleanVars, closeVars>>

\* workerChanPool.Put: the channel can be taken by a new worker.
WorkerPut(c) ==
    /\ worker[c] = "put"
    /\ worker' = [worker EXCEPT ![c] = "none"]
    /\ UNCHANGED <<poolVars, slot, serving, readerVars, free, cleanVars, closeVars>>

-----------------------------------------------------------------------------
(* The goroutine of workerPool.Start, and workerPool.clean *)

\* Faulty variant: the idle workers are not taken off the ready list.
FaultyCleanTake ==
    /\ ~locked
    /\ cleaner = "clean"
    /\ \E i \in 1..Len(ready) : scratch' = SubSeq(ready, 1, i)
    /\ cleaner' = "notify"
    /\ UNCHANGED <<poolVars, workerVars, readerVars, free, closeVars>>

\* Under the lock the workers idle for too long, at least one, are taken off the
\* front; a round that finds none changes nothing.
CleanTake ==
    /\ ~locked
    /\ cleaner = "clean"
    /\ \E i \in 1..Len(ready) :
          /\ scratch' = SubSeq(ready, 1, i)
          /\ ready' = SubSeq(ready, i + 1, Len(ready))
    /\ cleaner' = "notify"
    /\ UNCHANGED <<workersCount, mustStop, locked, workerVars, readerVars, free, closeVars>>

CleanNotify ==
    /\ cleaner = "notify"
    /\ scratch # <<>>
    /\ Send(Head(scratch), Stopping)
    /\ scratch' = Tail(scratch)
    /\ UNCHANGED <<poolVars, readerVars, free, cleaner, closeVars>>

\* stopCh is closed as Stop begins.
StopClosed == closer \notin {"open", "closing"}

\* The select on stopCh, and the sleep, after a round that stopped workers ...
CleanLoop ==
    /\ cleaner = "notify"
    /\ scratch = <<>>
    /\ cleaner' = IF StopClosed THEN "done" ELSE "clean"
    /\ UNCHANGED <<poolVars, workerVars, readerVars, free, scratch, closeVars>>

\* ... and after one that found none.
CleanEnd ==
    /\ ~locked
    /\ cleaner = "clean"
    /\ StopClosed
    /\ cleaner' = "done"
    /\ UNCHANGED <<poolVars, workerVars, readerVars, free, scratch, closeVars>>

-----------------------------------------------------------------------------
(* Server.Close and workerPool.Stop *)

CloserAt(from, to) == closer = from /\ closer' = to

Close ==
    /\ CloserAt("open", "closing")
    /\ closed' = TRUE
    /\ UNCHANGED <<poolVars, workerVars, readerVars, free, cleanVars, stopping, connOpen>>

\* pool.Stop begins: stopCh is closed, or the pool was not started, a panic.
StopBegin ==
    /\ CloserAt("closing", IF cleaner = "none" THEN "panicked" ELSE "lock")
    /\ UNCHANGED <<poolVars, workerVars, readerVars, free, cleanVars, stopping, closed, connOpen>>

StopLock ==
    /\ ~locked
    /\ CloserAt("lock", "notify")
    /\ locked' = TRUE
    /\ stopping' = ready
    /\ UNCHANGED <<ready, workersCount, mustStop, workerVars, readerVars, free, cleanVars,
                   closed, connOpen>>

\* The idle workers are notified with the lock held.
StopNotify ==
    /\ CloserAt("notify", "notify")
    /\ stopping # <<>>
    /\ Send(Head(stopping), Stopping)
    /\ stopping' = Tail(stopping)
    /\ UNCHANGED <<poolVars, readerVars, free, cleanVars, closed, connOpen>>

StopUnlock ==
    /\ CloserAt("notify", "conns")
    /\ stopping = <<>>
    /\ ready' = <<>>
    /\ mustStop' = TRUE
    /\ locked' = FALSE
    /\ UNCHANGED <<workersCount, workerVars, readerVars, free, cleanVars, stopping, closed,
                   connOpen>>

\* Faulty variant: the readers' own sockets are forgotten.
FaultyClosedSock(r) == sock[r]

\* The sockets in s.conns by now are closed; Serve may still add others.
ClosedSock(r) == IF sock[r] = "open" THEN "closed" ELSE sock[r]

\* Faulty variant: s.conn stays open.
FaultyCloseConns ==
    /\ CloserAt("conns", "wait")
    /\ sock' = [r \in Readers |-> ClosedSock(r)]
    /\ UNCHANGED <<poolVars, workerVars, serve, collector, reader, ctx, target, tries, free,
                   cleanVars, stopping, closed, connOpen>>

CloseConns ==
    /\ CloserAt("conns", "wait")
    /\ connOpen' = FALSE
    /\ sock' = [r \in Readers |-> ClosedSock(r)]
    /\ UNCHANGED <<poolVars, workerVars, serve, collector, reader, ctx, target, tries, free,
                   cleanVars, stopping, closed>>

\* s.wg.Wait() returns at once if the counter is 0 and blocks otherwise.
CloseWait ==
    /\ CloserAt("wait", IF Outstanding THEN "blocked" ELSE "closed")
    /\ UNCHANGED <<poolVars, workerVars, readerVars, free, cleanVars, stopping, closed, connOpen>>

\* The counter reaches 0 ...
CloseWake ==
    /\ CloserAt("blocked", "woken")
    /\ ~Outstanding
    /\ UNCHANGED <<poolVars, workerVars, readerVars, free, cleanVars, stopping, closed, connOpen>>

\* ... and Wait panics if the counter was raised again before it returns.
CloseReturn ==
    /\ CloserAt("woken", IF Outstanding THEN "panicked" ELSE "closed")
    /\ UNCHANGED <<poolVars, workerVars, readerVars, free, cleanVars, stopping, closed, connOpen>>

-----------------------------------------------------------------------------
ServeStep == (\E r \in Readers : ServeReader(r)) \/ ServeReturn

ReaderStep(r) ==
    \/ ReaderCheckClose(r) \/ GetReady(r) \/ GetCreate(r) \/ Spawn(r) \/ GetNone(r)
    \/ ServeSend(r)

WorkerStep(c) ==
    /\ Alive
    /\ \/ WorkerReceive(c) \/ WorkerServed(c) \/ WorkerRelease(c) \/ WorkerExit(c)
       \/ WorkerPut(c)

CleanerStep == Alive /\ (CleanTake \/ CleanNotify \/ CleanLoop \/ CleanEnd)

CloserStep ==
    \/ StopBegin \/ StopLock \/ StopNotify \/ StopUnlock \/ CloseConns
    \/ CloseWait \/ CloseWake \/ CloseReturn

\* Everything has stopped.
Terminated ==
    /\ \/ ~Alive
       \/ /\ closer = "closed" /\ cleaner = "done" /\ serve = "returned"
          /\ \A c \in Chans : worker[c] = "none"
    /\ UNCHANGED vars

Next ==
    \/ ServeStart \/ ServeStep \/ CollectorStop
    \/ \E r \in Readers : ReaderStep(r) \/ ReaderRead(r) \/ ReaderFail(r)
    \/ \E c \in Chans : WorkerStep(c)
    \/ CleanerStep
    \/ Close \/ CloserStep
    \/ Terminated

\* Goroutines run, handlers return, and ReadFrom returns once the socket is
\* closed; no datagram need ever arrive and neither Serve nor Close be called.
Fairness ==
    /\ WF_vars(ServeStep) /\ WF_vars(CollectorStop)
    /\ \A r \in Readers : WF_vars(ReaderStep(r) \/ (~SocketOpen(r) /\ ReaderFail(r)))
    /\ \A c \in Chans : WF_vars(WorkerStep(c))
    /\ WF_vars(CleanerStep)
    /\ WF_vars(CloserStep)

Spec == Init /\ [][Next]_vars

FairSpec == Spec /\ Fairness

-----------------------------------------------------------------------------
(* Properties *)

InSeq(s) == {s[i] : i \in 1..Len(s)}

TypeOK ==
    /\ ready \in Seq(Chans) /\ workersCount \in Nat
    /\ mustStop \in BOOLEAN /\ locked \in BOOLEAN
    /\ slot \in [Chans -> Ctxs \union {NoCtx, Stopping}]
    /\ worker \in [Chans -> {"none", "recv", "serve", "release", "exit", "put"}]
    /\ serving \in [Chans -> Ctxs \union {NoCtx}]
    /\ serve \in {"new", "starting", "returned"} /\ collector \in {"run", "done"}
    /\ sock \in [Readers -> {"shared", "open", "closed"}]
    /\ reader \in [Readers -> {"none", "top", "read", "try", "spawn", "send", "done"}]
    /\ ctx \in [Readers -> Ctxs \union {NoCtx}]
    /\ target \in [Readers -> Chans \union {NoChan}]
    /\ tries \in [Readers -> 0..MaxTries]
    /\ free \subseteq Ctxs
    /\ cleaner \in {"none", "clean", "notify", "done"} /\ scratch \in Seq(Chans)
    /\ closer \in {"open", "closing", "lock", "notify", "conns", "wait", "blocked",
                    "woken", "closed", "panicked"}
    /\ stopping \in Seq(Chans)
    /\ closed \in BOOLEAN /\ connOpen \in BOOLEAN

\* The parties that may send on channel c next, or have sent without an answer.
Holders(c) ==
    {<<"ready", i>> : i \in {j \in 1..Len(ready) :
                               ready[j] = c /\ (~locked \/ c \in InSeq(stopping))}}
    \union {<<"scratch", i>> : i \in {j \in 1..Len(scratch) : scratch[j] = c}}
    \union {<<"reader", r>> : r \in {q \in Readers : target[q] = c}}
    \union (IF slot[c] # NoCtx THEN {<<"slot", 0>>} ELSE {})
    \union (IF worker[c] \notin {"none", "recv"} THEN {<<"worker", 0>>} ELSE {})

\* The hand-over protocol that stands in for a lock on the channels: a channel
\* with a waiting worker is in exactly one place (the ready list, an idle list
\* of clean, a reader about to send, the buffer), a busy worker's channel is
\* nowhere else, and a recycled channel is empty and unknown to everybody.  So
\* no send ever meets a channel that another party also uses.
ChannelExclusive ==
    \A c \in Chans : Cardinality(Holders(c)) = (IF worker[c] = "none" THEN 0 ELSE 1)

\* The count that bounds the pool is exact at every instant: it counts the
\* workers that run and those a reader is about to start, through idle cleaning
\* and stopping, and never passes the configured maximum.
WorkersCounted ==
    /\ workersCount = Cardinality({c \in Chans : worker[c] \notin {"none", "put"}})
                      + Cardinality({r \in Readers : reader[r] = "spawn"})
    /\ workersCount <= MaxWorkersCount

\* A context is with one party at a time: never recycled by putContext while a
\* reader, a buffer or a second worker still has it.
CtxExclusive ==
    \A x \in Ctxs :
        Cardinality({r \in Readers : ctx[r] = x}) + Cardinality({c \in Chans : slot[c] = x})
        + Cardinality({c \in Chans : serving[c] = x}) + (IF x \in free THEN 1 ELSE 0) = 1

\* Stop holds the lock while it sends, so its sends must not need the lock: each
\* worker it notifies is waiting for a message with an empty buffer.
StopNeverWaits ==
    \A c \in InSeq(stopping) : worker[c] = "recv" /\ slot[c] = NoCtx

\* Once Stop has notified the idle workers none is left behind: a worker that
\* still waits has its message in the buffer, or clean or a reader is about to
\* send it.  Nobody would ever wake another one, because what becomes idle after
\* Stop is on no list.
NoneForgotten ==
    mustStop => \A c \in Chans : worker[c] = "recv" =>
        \/ slot[c] # NoCtx
        \/ c \in InSeq(scratch)
        \/ \E r \in Readers : reader[r] = "send" /\ target[r] = c

\* A reader that Serve starts while Close is under way, or after it returned,
\* finds s.close closed, and every other one is waited for: once Close has
\* returned no datagram is read, retried or handed over.
NoReadAfterClose ==
    closer = "closed" => \A r \in Readers : reader[r] \in {"none", "top", "done"}

\* Close of a server that is up never panics, also when its readers have failed
\* by then: only a Close that meets a Serve still starting readers may.
UpNeverPanics == [](closer = "open" /\ Started => []Alive)

\* getCh has found a worker for context x, or x waits in the channel of a worker
\* that has not been told to stop.
Accepted(x) ==
    \/ \E r \in Readers : reader[r] \in {"spawn", "send"} /\ ctx[r] = x
    \/ \E c \in Chans : slot[c] = x /\ worker[c] = "recv"

\* Whatever readers, clean and Stop do, a context for which the pool had a worker
\* is never dropped nor left in the channel of a worker that ends: each step keeps
\* it accepted or brings it to a worker.
AcceptedKept ==
    [][\A x \in Ctxs :
          Accepted(x) => (Accepted(x)' \/ \E c \in Chans : serving'[c] = x)]_vars

\* What the pool's Serve accepted is served, although clean and Stop stop
\* workers at any time: a context handed over reaches a worker's WorkerFunc.
AcceptedServed ==
    \A x \in Ctxs :
        (\E r \in Readers : reader[r] = "send" /\ ctx[r] = x)
            ~> (~Alive \/ \E c \in Chans : serving[c] = x)

\* After Close is called everything ends for good: Close and Serve return, with
\* readers about to be started, blocked in ReadFrom, retrying or handing over,
\* and every worker and the cleaning goroutine return, also a worker started
\* after Stop had notified the idle ones.
ShutDown ==
    closer = "closed" /\ serve = "returned" /\ workersCount = 0 /\ cleaner = "done"

CloseEndsAll == closed ~> [](ShutDown \/ ~Alive)

=============================================================================
