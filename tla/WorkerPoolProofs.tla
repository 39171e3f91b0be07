-------------------------- MODULE WorkerPoolProofs --------------------------
(***************************************************************************)
(* Proofs about WorkerPool: types; the hand-over of channels and contexts; *)
(* the count of workers; what Close and Serve may do to each other.        *)
(***************************************************************************)
EXTENDS WorkerPool, SequenceTheorems, FiniteSetTheorems, TLAPS

\* Who has a context or a channel in hand: a reader from ReadFrom to the end of
\* Serve, and at the send a channel too; a worker while it serves.  Stop holds
\* the lock exactly while it notifies, and the cleaning goroutine runs from the
\* moment Serve is called.
Hands ==
    /\ \A r \in Readers : reader[r] \in {"try", "spawn", "send"} <=> ctx[r] \in Ctxs
    /\ \A r \in Readers : reader[r] = "send" <=> target[r] \in Chans
    /\ \A c \in Chans : worker[c] = "serve" <=> serving[c] \in Ctxs
    /\ locked <=> closer = "notify"
    /\ stopping # <<>> => locked
    /\ scratch # <<>> => cleaner = "notify"
    /\ serve = "new" <=> cleaner = "none"

\* The workers that run and the readers about to start one.
Active == {c \in Chans : worker[c] \notin {"none", "put"}}
Spawning == {r \in Readers : reader[r] = "spawn"}

Counted == IsFiniteSet(Active) /\ IsFiniteSet(Spawning) /\ WorkersCounted

-----------------------------------------------------------------------------
(* Types and hands *)

\* What a worker received is well typed, and it serves it if it is a context.
LEMMA ReceivedType ==
    ASSUME TypeOK, Hands, NEW c \in Chans, NEW m \in Ctxs \union {Stopping}, Received(c, m)
    PROVE  /\ worker' \in [Chans -> {"none", "recv", "serve", "release", "exit", "put"}]
           /\ serving' \in [Chans -> Ctxs \union {NoCtx}]
           /\ \A d \in Chans : worker'[d] = "serve" <=> serving'[d] \in Ctxs
<1>1. CASE m = Stopping
  BY <1>1, PoolAssumption DEF TypeOK, Hands, Received
<1>2. CASE m # Stopping
  BY <1>2, PoolAssumption DEF TypeOK, Hands, Received
<1> QED
  BY <1>1, <1>2

\* So does a send, which fills the buffer or meets the worker.
LEMMA SendType ==
    ASSUME TypeOK, Hands, NEW c \in Chans, NEW m \in Ctxs \union {Stopping}, Send(c, m)
    PROVE  /\ slot' \in [Chans -> Ctxs \union {NoCtx, Stopping}]
           /\ worker' \in [Chans -> {"none", "recv", "serve", "release", "exit", "put"}]
           /\ serving' \in [Chans -> Ctxs \union {NoCtx}]
           /\ \A d \in Chans : worker'[d] = "serve" <=> serving'[d] \in Ctxs
<1>1. CASE slot' = [slot EXCEPT ![c] = m] /\ UNCHANGED <<worker, serving>>
  BY <1>1 DEF TypeOK, Hands
<1>2. CASE Received(c, m) /\ UNCHANGED slot
  BY <1>2, ReceivedType DEF TypeOK
<1> QED
  BY <1>1, <1>2 DEF Send

\* New leaves the server well typed and everybody's hands empty.
LEMMA TypeInit == Init => TypeOK /\ Hands
<1> SUFFICES ASSUME Init PROVE TypeOK /\ Hands
  OBVIOUS
<1>1. <<>> \in Seq(Chans)
  OBVIOUS
<1>2. TypeOK
  <2>1. tries \in [Readers -> 0..MaxTries] /\ workersCount \in Nat
    BY PoolAssumption DEF Init
  <2>2. /\ slot \in [Chans -> Ctxs \union {NoCtx, Stopping}]
        /\ serving \in [Chans -> Ctxs \union {NoCtx}]
        /\ worker \in [Chans -> {"none", "recv", "serve", "release", "exit", "put"}]
    BY DEF Init
  <2>3. /\ sock \in [Readers -> {"shared", "open", "closed"}]
        /\ reader \in [Readers -> {"none", "top", "read", "try", "spawn", "send", "done"}]
        /\ ctx \in [Readers -> Ctxs \union {NoCtx}]
        /\ target \in [Readers -> Chans \union {NoChan}]
    BY DEF Init
  <2> QED
    BY <1>1, <2>1, <2>2, <2>3 DEF Init, TypeOK
<1>3. Hands
  BY PoolAssumption DEF Init, Hands
<1> QED
  BY <1>2, <1>3

\* Serve and the collector keep types and hands.
LEMMA ServeType ==
    TypeOK /\ Hands /\ (ServeStart \/ ServeStep \/ CollectorStop) => TypeOK' /\ Hands'
<1> SUFFICES ASSUME TypeOK, Hands, ServeStart \/ ServeStep \/ CollectorStop
             PROVE  TypeOK' /\ Hands'
  OBVIOUS
<1> USE DEF poolVars, workerVars, readerVars, cleanVars, closeVars
<1>1. CASE ServeStart
  <2>1. TypeOK'
    BY <1>1 DEF ServeStart, TypeOK
  <2>2. Hands'
    BY <1>1 DEF ServeStart, Hands
  <2> QED
    BY <2>1, <2>2
<1>2. ASSUME NEW r \in Readers, ServeReader(r)
      PROVE  TypeOK' /\ Hands'
  <2>1. TypeOK'
    BY <1>2 DEF ServeReader, TypeOK
  <2>2. Hands'
    BY <1>2 DEF ServeReader, Hands, TypeOK
  <2> QED
    BY <2>1, <2>2
<1>3. CASE ServeReturn \/ CollectorStop
  BY <1>3 DEF ServeReturn, CollectorStop, TypeOK, Hands
<1> QED
  BY <1>1, <1>2, <1>3 DEF ServeStep

\* A reader keeps types and hands.
LEMMA ReaderType ==
    ASSUME TypeOK, Hands, NEW r \in Readers, ReaderStep(r) \/ ReaderRead(r) \/ ReaderFail(r)
    PROVE  TypeOK' /\ Hands'
<1> USE PoolAssumption DEF poolVars, workerVars, readerVars, cleanVars, closeVars, ReaderAt
<1>1. CASE ReaderCheckClose(r) \/ ReaderFail(r)
  <2>1. TypeOK'
    BY <1>1 DEF ReaderCheckClose, ReaderFail, TypeOK
  <2>2. Hands'
    BY <1>1 DEF ReaderCheckClose, ReaderFail, TypeOK, Hands
  <2> QED
    BY <2>1, <2>2
<1>2. CASE ReaderRead(r)
  <2>1. PICK c \in free : ctx' = [ctx EXCEPT ![r] = c] /\ free' = free \ {c}
    BY <1>2 DEF ReaderRead
  <2>2. TypeOK'
    <3>1. ctx' \in [Readers -> Ctxs \union {NoCtx}] /\ free' \subseteq Ctxs
      BY <2>1 DEF TypeOK
    <3>2. tries' \in [Readers -> 0..MaxTries]
      BY <1>2 DEF ReaderRead, TypeOK
    <3> QED
      BY <1>2, <3>1, <3>2 DEF ReaderRead, TypeOK
  <2>3. Hands'
    BY <1>2, <2>1 DEF ReaderRead, TypeOK, Hands
  <2> QED
    BY <2>2, <2>3
<1>3. CASE GetReady(r)
  <2>1. ready[Len(ready)] \in Chans /\ SubSeq(ready, 1, Len(ready) - 1) \in Seq(Chans)
    BY <1>3 DEF GetReady, TypeOK
  <2>2. TypeOK'
    <3>1. target' \in [Readers -> Chans \union {NoChan}] /\ ready' \in Seq(Chans)
      BY <1>3, <2>1 DEF GetReady, TypeOK
    <3> QED
      BY <1>3, <3>1 DEF GetReady, TypeOK
  <2>3. Hands'
    BY <1>3, <2>1 DEF GetReady, TypeOK, Hands
  <2> QED
    BY <2>2, <2>3
<1>4. CASE GetCreate(r)
  <2>1. TypeOK'
    BY <1>4 DEF GetCreate, TypeOK
  <2>2. Hands'
    BY <1>4 DEF GetCreate, TypeOK, Hands
  <2> QED
    BY <2>1, <2>2
<1>5. CASE Spawn(r)
  <2>1. PICK c \in Chans : /\ worker[c] = "none"
                           /\ worker' = [worker EXCEPT ![c] = "recv"]
                           /\ target' = [target EXCEPT ![r] = c]
    BY <1>5 DEF Spawn
  <2>2. TypeOK'
    BY <1>5, <2>1 DEF Spawn, TypeOK
  <2>3. Hands'
    BY <1>5, <2>1 DEF Spawn, TypeOK, Hands
  <2> QED
    BY <2>2, <2>3
<1>6. CASE GetNone(r)
  <2>1. CASE tries[r] + 1 < MaxTries
    <3>1. TypeOK'
      BY <1>6, <2>1 DEF GetNone, TypeOK
    <3>2. Hands'
      BY <1>6, <2>1 DEF GetNone, TypeOK, Hands
    <3> QED
      BY <3>1, <3>2
  <2>2. CASE ~(tries[r] + 1 < MaxTries)
    <3>0. ctx[r] \in Ctxs
      BY <1>6, <2>2 DEF GetNone, Hands
    <3>1. TypeOK'
      <4>1. ctx' \in [Readers -> Ctxs \union {NoCtx}] /\ free' \subseteq Ctxs
        BY <1>6, <2>2, <3>0 DEF GetNone, TypeOK
      <4>2. tries' \in [Readers -> 0..MaxTries]
        BY <1>6, <2>2 DEF GetNone, TypeOK
      <4> QED
        BY <1>6, <2>2, <4>1, <4>2 DEF GetNone, TypeOK
    <3>2. Hands'
      BY <1>6, <2>2 DEF GetNone, TypeOK, Hands
    <3> QED
      BY <3>1, <3>2
  <2> QED
    BY <2>1, <2>2
<1>7. CASE ServeSend(r)
  <2>1. target[r] \in Chans /\ ctx[r] \in Ctxs /\ Send(target[r], ctx[r])
    BY <1>7 DEF ServeSend, Hands
  <2>2. /\ slot' \in [Chans -> Ctxs \union {NoCtx, Stopping}]
        /\ worker' \in [Chans -> {"none", "recv", "serve", "release", "exit", "put"}]
        /\ serving' \in [Chans -> Ctxs \union {NoCtx}]
        /\ \A d \in Chans : worker'[d] = "serve" <=> serving'[d] \in Ctxs
    BY <2>1, SendType
  <2>3. TypeOK'
    BY <1>7, <2>2 DEF ServeSend, TypeOK
  <2>4. Hands'
    BY <1>7, <2>2 DEF ServeSend, TypeOK, Hands
  <2> QED
    BY <2>3, <2>4
<1> QED
  BY <1>1, <1>2, <1>3, <1>4, <1>5, <1>6, <1>7 DEF ReaderStep

\* A worker keeps types and hands; the count it lowers on exit is positive.
LEMMA WorkerType ==
    ASSUME TypeOK, Hands, Counted, NEW c \in Chans, WorkerStep(c)
    PROVE  TypeOK' /\ Hands'
<1> USE PoolAssumption DEF poolVars, workerVars, readerVars, cleanVars, closeVars
<1>1. CASE WorkerReceive(c)
  <2>1. slot[c] \in Ctxs \union {Stopping} /\ Received(c, slot[c])
    BY <1>1 DEF WorkerReceive, TypeOK
  <2>2. /\ worker' \in [Chans -> {"none", "recv", "serve", "release", "exit", "put"}]
        /\ serving' \in [Chans -> Ctxs \union {NoCtx}]
        /\ \A d \in Chans : worker'[d] = "serve" <=> serving'[d] \in Ctxs
    BY <2>1, ReceivedType
  <2>3. TypeOK'
    <3>1. slot' \in [Chans -> Ctxs \union {NoCtx, Stopping}]
      BY <1>1 DEF WorkerReceive, TypeOK
    <3> QED
      BY <1>1, <2>2, <3>1 DEF WorkerReceive, TypeOK
  <2>4. Hands'
    BY <1>1, <2>2 DEF WorkerReceive, Hands
  <2> QED
    BY <2>3, <2>4
<1>2. CASE WorkerServed(c)
  <2>1. TypeOK'
    <3>1. serving[c] \in Ctxs
      BY <1>2 DEF WorkerServed, Hands
    <3>2. serving' \in [Chans -> Ctxs \union {NoCtx}] /\ free' \subseteq Ctxs
      BY <1>2, <3>1 DEF WorkerServed, TypeOK
    <3> QED
      BY <1>2, <3>2 DEF WorkerServed, TypeOK
  <2>2. Hands'
    BY <1>2 DEF WorkerServed, TypeOK, Hands
  <2> QED
    BY <2>1, <2>2
<1>3. CASE WorkerRelease(c)
  <2>1. /\ ready' \in Seq(Chans)
        /\ worker' \in [Chans -> {"none", "recv", "serve", "release", "exit", "put"}]
    BY <1>3 DEF WorkerRelease, TypeOK
  <2>2. TypeOK'
    BY <1>3, <2>1 DEF WorkerRelease, TypeOK
  <2>3. Hands'
    BY <1>3 DEF WorkerRelease, TypeOK, Hands
  <2> QED
    BY <2>2, <2>3
<1>4. CASE WorkerExit(c)
  <2>1. workersCount > 0
    <3>1. c \in Active
      BY <1>4 DEF WorkerExit, Active
    <3>2. Cardinality(Active) \in Nat /\ Cardinality(Spawning) \in Nat /\ Cardinality(Active) # 0
      BY <3>1, FS_CardinalityType, FS_EmptySet DEF Counted
    <3> QED
      BY <3>2 DEF Counted, WorkersCounted, Active, Spawning
  <2>2. workersCount' \in Nat
    BY <1>4, <2>1 DEF WorkerExit, TypeOK
  <2>3. TypeOK'
    BY <1>4, <2>2 DEF WorkerExit, TypeOK
  <2>4. Hands'
    BY <1>4 DEF WorkerExit, TypeOK, Hands
  <2> QED
    BY <2>3, <2>4
<1>5. CASE WorkerPut(c)
  <2>1. TypeOK'
    BY <1>5 DEF WorkerPut, TypeOK
  <2>2. Hands'
    BY <1>5 DEF WorkerPut, TypeOK, Hands
  <2> QED
    BY <2>1, <2>2
<1> QED
  BY <1>1, <1>2, <1>3, <1>4, <1>5 DEF WorkerStep

\* The cleaning goroutine keeps types and hands.
LEMMA CleanerType == TypeOK /\ Hands /\ CleanerStep => TypeOK' /\ Hands'
<1> SUFFICES ASSUME TypeOK, Hands, CleanerStep PROVE TypeOK' /\ Hands'
  OBVIOUS
<1> USE PoolAssumption DEF poolVars, workerVars, readerVars, cleanVars, closeVars
<1>1. CASE CleanTake
  <2>1. PICK i \in 1..Len(ready) : /\ scratch' = SubSeq(ready, 1, i)
                                   /\ ready' = SubSeq(ready, i + 1, Len(ready))
    BY <1>1 DEF CleanTake
  <2>2. scratch' \in Seq(Chans) /\ ready' \in Seq(Chans)
    BY <2>1 DEF TypeOK
  <2>3. TypeOK'
    BY <1>1, <2>2 DEF CleanTake, TypeOK
  <2>4. Hands'
    BY <1>1 DEF CleanTake, Hands
  <2> QED
    BY <2>3, <2>4
<1>2. CASE CleanNotify
  <2>1. Head(scratch) \in Chans /\ Tail(scratch) \in Seq(Chans)
    BY <1>2 DEF CleanNotify, TypeOK
  <2>2. Send(Head(scratch), Stopping)
    BY <1>2 DEF CleanNotify
  <2>3. /\ slot' \in [Chans -> Ctxs \union {NoCtx, Stopping}]
        /\ worker' \in [Chans -> {"none", "recv", "serve", "release", "exit", "put"}]
        /\ serving' \in [Chans -> Ctxs \union {NoCtx}]
        /\ \A d \in Chans : worker'[d] = "serve" <=> serving'[d] \in Ctxs
    BY <2>1, <2>2, SendType
  <2>4. TypeOK'
    BY <1>2, <2>1, <2>3 DEF CleanNotify, TypeOK
  <2>5. Hands'
    BY <1>2, <2>3 DEF CleanNotify, Hands
  <2> QED
    BY <2>4, <2>5
<1>3. CASE CleanLoop \/ CleanEnd
  <2>1. TypeOK'
    BY <1>3 DEF CleanLoop, CleanEnd, TypeOK
  <2>2. Hands'
    BY <1>3 DEF CleanLoop, CleanEnd, Hands
  <2> QED
    BY <2>1, <2>2
<1> QED
  BY <1>1, <1>2, <1>3 DEF CleanerStep

\* Close keeps types and hands.
LEMMA CloserType == TypeOK /\ Hands /\ (Close \/ CloserStep) => TypeOK' /\ Hands'
<1> SUFFICES ASSUME TypeOK, Hands, Close \/ CloserStep PROVE TypeOK' /\ Hands'
  OBVIOUS
<1> USE PoolAssumption DEF poolVars, workerVars, readerVars, cleanVars, closeVars, CloserAt
<1>1. CASE Close \/ StopBegin
  <2>1. TypeOK'
    BY <1>1 DEF Close, StopBegin, TypeOK
  <2>2. Hands'
    BY <1>1 DEF Close, StopBegin, Hands
  <2> QED
    BY <2>1, <2>2
<1>2. CASE StopLock
  <2>1. TypeOK'
    BY <1>2 DEF StopLock, TypeOK
  <2>2. Hands'
    BY <1>2 DEF StopLock, Hands
  <2> QED
    BY <2>1, <2>2
<1>3. CASE StopNotify
  <2>1. Head(stopping) \in Chans /\ Tail(stopping) \in Seq(Chans)
    BY <1>3 DEF StopNotify, TypeOK
  <2>2. Send(Head(stopping), Stopping)
    BY <1>3 DEF StopNotify
  <2>3. /\ slot' \in [Chans -> Ctxs \union {NoCtx, Stopping}]
        /\ worker' \in [Chans -> {"none", "recv", "serve", "release", "exit", "put"}]
        /\ serving' \in [Chans -> Ctxs \union {NoCtx}]
        /\ \A d \in Chans : worker'[d] = "serve" <=> serving'[d] \in Ctxs
    BY <2>1, <2>2, SendType
  <2>4. TypeOK'
    BY <1>3, <2>1, <2>3 DEF StopNotify, TypeOK
  <2>5. Hands'
    BY <1>3, <2>3 DEF StopNotify, Hands
  <2> QED
    BY <2>4, <2>5
<1>4. CASE StopUnlock
  <2>1. TypeOK'
    BY <1>4 DEF StopUnlock, TypeOK
  <2>2. Hands'
    BY <1>4 DEF StopUnlock, Hands
  <2> QED
    BY <2>1, <2>2
<1>5. CASE CloseConns
  <2>1. TypeOK'
    BY <1>5 DEF CloseConns, ClosedSock, TypeOK
  <2>2. Hands'
    BY <1>5 DEF CloseConns, Hands
  <2> QED
    BY <2>1, <2>2
<1>6. CASE CloseWait \/ CloseWake \/ CloseReturn
  <2>1. TypeOK'
    BY <1>6 DEF CloseWait, CloseWake, CloseReturn, TypeOK
  <2>2. Hands'
    BY <1>6 DEF CloseWait, CloseWake, CloseReturn, Hands
  <2> QED
    BY <2>1, <2>2
<1> QED
  BY <1>1, <1>2, <1>3, <1>4, <1>5, <1>6 DEF CloserStep

\* Every step keeps types and hands.
LEMMA TypeStep == TypeOK /\ Hands /\ Counted /\ [Next]_vars => TypeOK' /\ Hands'
<1> SUFFICES ASSUME TypeOK, Hands, Counted, [Next]_vars PROVE TypeOK' /\ Hands'
  OBVIOUS
<1>1. CASE Terminated \/ UNCHANGED vars
  <2>1. UNCHANGED vars
    BY <1>1 DEF Terminated
  <2> QED
    BY <2>1 DEF vars, poolVars, workerVars, readerVars, cleanVars, closeVars, TypeOK, Hands
<1> QED
  BY <1>1, ServeType, ReaderType, WorkerType, CleanerType, CloserType DEF Next

-----------------------------------------------------------------------------
(* The count of workers *)

\* The count in terms of the two sets.
LEMMA CountedSets ==
    Counted <=> /\ IsFiniteSet(Active) /\ IsFiniteSet(Spawning)
                /\ workersCount = Cardinality(Active) + Cardinality(Spawning)
                /\ workersCount <= MaxWorkersCount
BY DEF Counted, WorkersCounted, Active, Spawning

\* A channel operation starts and ends no worker.
LEMMA SendActive ==
    ASSUME TypeOK, NEW c \in Chans, NEW m, Send(c, m)
    PROVE  Active' = Active
<1>1. CASE worker[c] = "recv" /\ Received(c, m)
  BY <1>1 DEF Active, Received, TypeOK
<1>2. CASE UNCHANGED worker
  BY <1>2 DEF Active
<1> QED
  BY <1>1, <1>2 DEF Send

\* A step that moves no worker and no reader in or out is not counted.
LEMMA CountSame ==
    ASSUME Counted, Active' = Active, Spawning' = Spawning, UNCHANGED workersCount
    PROVE  Counted'
BY DEF Counted, WorkersCounted, Active, Spawning

\* A reader that is about to create a worker is counted before the worker is
\* there, and its place passes to the worker it starts.
LEMMA ReaderCounted ==
    ASSUME TypeOK, Hands, Counted, NEW r \in Readers,
           ReaderStep(r) \/ ReaderRead(r) \/ ReaderFail(r)
    PROVE  Counted'
<1> USE DEF poolVars, workerVars, readerVars, cleanVars, closeVars, ReaderAt
<1>0. /\ IsFiniteSet(Active) /\ IsFiniteSet(Spawning)
      /\ workersCount = Cardinality(Active) + Cardinality(Spawning)
      /\ workersCount <= MaxWorkersCount
      /\ Cardinality(Active) \in Nat /\ Cardinality(Spawning) \in Nat
  BY CountedSets, FS_CardinalityType
<1>1. CASE ReaderCheckClose(r) \/ ReaderFail(r)
  <2>1. Spawning' = Spawning
    BY <1>1 DEF ReaderCheckClose, ReaderFail, Spawning, TypeOK
  <2> QED
    BY <1>1, <2>1, CountSame DEF ReaderCheckClose, ReaderFail, Active
<1>2. CASE ReaderRead(r) \/ GetReady(r)
  <2>1. Spawning' = Spawning
    BY <1>2 DEF ReaderRead, GetReady, Spawning, TypeOK
  <2> QED
    BY <1>2, <2>1, CountSame DEF ReaderRead, GetReady, Active
<1>3. CASE GetCreate(r)
  <2>1. r \notin Spawning /\ Spawning' = Spawning \union {r} /\ Active' = Active
    BY <1>3 DEF GetCreate, Spawning, Active, TypeOK
  <2>2. IsFiniteSet(Spawning') /\ Cardinality(Spawning') = Cardinality(Spawning) + 1
    BY <1>0, <2>1, FS_AddElement
  <2>3. workersCount' = workersCount + 1 /\ workersCount' <= MaxWorkersCount
    BY <1>3, PoolAssumption DEF GetCreate, TypeOK
  <2>4. workersCount' = Cardinality(Active') + Cardinality(Spawning')
    BY <1>0, <2>1, <2>2, <2>3
  <2> QED
    BY <1>0, <2>1, <2>2, <2>3, <2>4 DEF Counted, WorkersCounted, Active, Spawning
<1>4. CASE Spawn(r)
  <2>1. PICK c \in Chans : worker[c] = "none" /\ worker' = [worker EXCEPT ![c] = "recv"]
    BY <1>4 DEF Spawn
  <2>2. c \notin Active /\ Active' = Active \union {c}
    BY <2>1 DEF Active, TypeOK
  <2>3. r \in Spawning /\ Spawning' = Spawning \ {r}
    BY <1>4 DEF Spawn, Spawning, TypeOK
  <2>4. IsFiniteSet(Active') /\ Cardinality(Active') = Cardinality(Active) + 1
    BY <1>0, <2>2, FS_AddElement
  <2>5. IsFiniteSet(Spawning') /\ Cardinality(Spawning') = Cardinality(Spawning) - 1
    BY <1>0, <2>3, FS_RemoveElement
  <2>6. workersCount' = workersCount
    BY <1>4 DEF Spawn
  <2>7. workersCount' = Cardinality(Active') + Cardinality(Spawning')
    BY <1>0, <2>4, <2>5, <2>6
  <2> QED
    BY <1>0, <2>4, <2>5, <2>6, <2>7 DEF Counted, WorkersCounted, Active, Spawning
<1>5. CASE GetNone(r)
  <2>1. Spawning' = Spawning
    BY <1>5 DEF GetNone, Spawning, TypeOK
  <2> QED
    BY <1>5, <2>1, CountSame DEF GetNone, Active
<1>6. CASE ServeSend(r)
  <2>1. Spawning' = Spawning
    BY <1>6 DEF ServeSend, Spawning, TypeOK
  <2>2. target[r] \in Chans /\ Send(target[r], ctx[r])
    BY <1>6 DEF ServeSend, Hands
  <2>3. Active' = Active
    BY <2>2, SendActive
  <2> QED
    BY <1>6, <2>1, <2>3, CountSame DEF ServeSend
<1> QED
  BY <1>1, <1>2, <1>3, <1>4, <1>5, <1>6 DEF ReaderStep

\* A worker is counted until it returns.
LEMMA WorkerCounted ==
    ASSUME TypeOK, Counted, NEW c \in Chans, WorkerStep(c)
    PROVE  Counted'
<1> USE DEF poolVars, workerVars, readerVars, cleanVars, closeVars
<1>0. /\ IsFiniteSet(Active) /\ IsFiniteSet(Spawning)
      /\ workersCount = Cardinality(Active) + Cardinality(Spawning)
      /\ workersCount <= MaxWorkersCount
      /\ Cardinality(Active) \in Nat /\ Cardinality(Spawning) \in Nat
  BY CountedSets, FS_CardinalityType
<1>1. CASE WorkerReceive(c) \/ WorkerServed(c) \/ WorkerRelease(c) \/ WorkerPut(c)
  <2>1. Active' = Active
    BY <1>1 DEF WorkerReceive, Received, WorkerServed, WorkerRelease, WorkerPut, Active, TypeOK
  <2> QED
    BY <1>1, <2>1, CountSame DEF WorkerReceive, WorkerServed, WorkerRelease, WorkerPut, Spawning
<1>2. CASE WorkerExit(c)
  <2>1. c \in Active /\ Active' = Active \ {c} /\ Spawning' = Spawning
    BY <1>2 DEF WorkerExit, Active, Spawning, TypeOK
  <2>2. IsFiniteSet(Active') /\ Cardinality(Active') = Cardinality(Active) - 1
    BY <1>0, <2>1, FS_RemoveElement
  <2>3. workersCount' = workersCount - 1
    BY <1>2 DEF WorkerExit
  <2>4. /\ workersCount' = Cardinality(Active') + Cardinality(Spawning')
        /\ workersCount' <= MaxWorkersCount
    BY <1>0, <2>1, <2>2, <2>3, PoolAssumption
  <2> QED
    BY <1>0, <2>1, <2>2, <2>4 DEF Counted, WorkersCounted, Active, Spawning
<1> QED
  BY <1>1, <1>2 DEF WorkerStep

\* Every step keeps the count exact.
LEMMA CountStep == TypeOK /\ Hands /\ Counted /\ [Next]_vars => Counted'
<1> SUFFICES ASSUME TypeOK, Hands, Counted, [Next]_vars PROVE Counted'
  OBVIOUS
<1> USE DEF poolVars, workerVars, readerVars, cleanVars, closeVars
<1>1. CASE ServeStart \/ ServeReturn \/ CollectorStop
  BY <1>1, CountSame DEF ServeStart, ServeReturn, CollectorStop, Active, Spawning
<1>2. ASSUME NEW r \in Readers, ServeReader(r)
      PROVE  Counted'
  <2>1. Spawning' = Spawning
    BY <1>2 DEF ServeReader, Spawning, TypeOK
  <2> QED
    BY <1>2, <2>1, CountSame DEF ServeReader, Active
<1>3. CASE CleanNotify
  <2>1. Head(scratch) \in Chans /\ Send(Head(scratch), Stopping)
    BY <1>3 DEF CleanNotify, TypeOK
  <2>2. Active' = Active
    BY <2>1, SendActive
  <2> QED
    BY <1>3, <2>2, CountSame DEF CleanNotify, Spawning
<1>4. CASE StopNotify
  <2>1. Head(stopping) \in Chans /\ Send(Head(stopping), Stopping)
    BY <1>4 DEF StopNotify, TypeOK
  <2>2. Active' = Active
    BY <2>1, SendActive
  <2> QED
    BY <1>4, <2>2, CountSame DEF StopNotify, Spawning
<1>5. CASE CleanTake \/ CleanLoop \/ CleanEnd
  BY <1>5, CountSame DEF CleanTake, CleanLoop, CleanEnd, Active, Spawning
<1>6. CASE Close \/ StopBegin \/ StopLock \/ StopUnlock
  BY <1>6, CountSame DEF Close, StopBegin, StopLock, StopUnlock, Active, Spawning
<1>7. CASE CloseConns \/ CloseWait \/ CloseWake \/ CloseReturn
  BY <1>7, CountSame DEF CloseConns, CloseWait, CloseWake, CloseReturn, Active, Spawning
<1>8. CASE Terminated \/ UNCHANGED vars
  BY <1>8, CountSame DEF Terminated, vars, Active, Spawning
<1> QED
  BY <1>1, <1>2, <1>3, <1>4, <1>5, <1>6, <1>7, <1>8, ReaderCounted, WorkerCounted
     DEF Next, ServeStep, CleanerStep, CloserStep

\* Types, hands and count hold in every reachable state.
LEMMA PoolInvariant == Spec => [](TypeOK /\ Hands /\ Counted)
<1>1. Init => TypeOK /\ Hands /\ Counted
  <2> SUFFICES ASSUME Init PROVE Counted
    BY TypeInit
  <2>1. Active = {} /\ Spawning = {} /\ workersCount = 0
    BY DEF Init, Active, Spawning
  <2>2. Cardinality(Active) = 0 /\ Cardinality(Spawning) = 0
    BY <2>1, FS_EmptySet
  <2> QED
    BY <2>1, <2>2, CountedSets, FS_EmptySet, PoolAssumption
<1>2. TypeOK /\ Hands /\ Counted /\ [Next]_vars => (TypeOK /\ Hands /\ Counted)'
  BY TypeStep, CountStep
<1> QED
  BY <1>1, <1>2, PTL DEF Spec

\* Buffers, workers, readers, lists and counters stay well typed; in particular
\* the count of workers never goes below zero.
THEOREM PoolTypeCorrect == Spec => []TypeOK
BY PoolInvariant, PTL

\* The count that bounds the pool is exact and within the maximum, for any
\* number of readers, workers and channels.
THEOREM PoolCounted == Spec => []WorkersCounted
<1>1. Counted => WorkersCounted
  BY DEF Counted
<1> QED
  BY <1>1, PoolInvariant, PTL

-----------------------------------------------------------------------------
(* Close and Serve *)

\* Close closes s.close first, and readers exist only once Serve was called.
CloseInv ==
    /\ closer # "open" => closed
    /\ NoReadAfterClose
    /\ serve = "new" => \A r \in Readers : reader[r] = "none"

\* The states of a server that was up when Close came: no reader is still to be
\* started, so the group Close waits for is not used again once it is empty.
Up ==
    /\ Alive /\ Started
    /\ serve # "new"
    /\ closer = "woken" => ~Outstanding

\* Only these steps move Close, or a reader after the check of s.close.
LEMMA CloseStep == TypeOK /\ CloseInv /\ [Next]_vars => CloseInv'
<1> SUFFICES ASSUME TypeOK, CloseInv, [Next]_vars PROVE CloseInv'
  OBVIOUS
<1> USE DEF poolVars, workerVars, readerVars, cleanVars, closeVars, ReaderAt, CloserAt
<1>1. CASE ServeStart \/ ServeReturn \/ CollectorStop
  BY <1>1 DEF ServeStart, ServeReturn, CollectorStop, CloseInv, NoReadAfterClose, TypeOK
<1>2. ASSUME NEW r \in Readers, ServeReader(r)
      PROVE  CloseInv'
  BY <1>2 DEF ServeReader, CloseInv, NoReadAfterClose, TypeOK
<1>3. ASSUME NEW r \in Readers, ReaderCheckClose(r)
      PROVE  CloseInv'
  BY <1>3 DEF ReaderCheckClose, CloseInv, NoReadAfterClose, TypeOK
<1>4. ASSUME NEW r \in Readers, ReaderRead(r) \/ ReaderFail(r) \/ GetReady(r) \/ GetCreate(r)
                                \/ Spawn(r) \/ GetNone(r) \/ ServeSend(r)
      PROVE  CloseInv'
  <2>1. /\ reader[r] \in {"read", "try", "spawn", "send"}
        /\ \E to \in {"top", "try", "spawn", "send", "done"} : reader' = [reader EXCEPT ![r] = to]
        /\ UNCHANGED <<serve, closer, closed>>
    BY <1>4 DEF ReaderRead, ReaderFail, GetReady, GetCreate, Spawn, GetNone, ServeSend
  <2> QED
    BY <2>1 DEF CloseInv, NoReadAfterClose, TypeOK
<1>5. ASSUME NEW c \in Chans, WorkerStep(c)
      PROVE  CloseInv'
  BY <1>5 DEF WorkerStep, WorkerReceive, WorkerServed, WorkerRelease, WorkerExit, WorkerPut,
              CloseInv, NoReadAfterClose
<1>6. CASE CleanerStep
  BY <1>6 DEF CleanerStep, CleanTake, CleanNotify, CleanLoop, CleanEnd, CloseInv,
              NoReadAfterClose
<1>7. CASE Close \/ StopBegin \/ StopLock \/ StopNotify \/ StopUnlock \/ CloseConns \/ CloseWake
  BY <1>7 DEF Close, StopBegin, StopLock, StopNotify, StopUnlock, CloseConns, CloseWake,
              CloseInv, NoReadAfterClose
<1>8. CASE CloseWait \/ CloseReturn
  BY <1>8 DEF CloseWait, CloseReturn, Outstanding, CloseInv, NoReadAfterClose
<1>9. CASE Terminated \/ UNCHANGED vars
  BY <1>9 DEF Terminated, vars, CloseInv, NoReadAfterClose
<1> QED
  BY <1>1, <1>2, <1>3, <1>4, <1>5, <1>6, <1>7, <1>8, <1>9
     DEF Next, ServeStep, ReaderStep, CloserStep

\* CloseInv holds in every reachable state.
LEMMA CloseInvariant == Spec => []CloseInv
<1>1. Init => CloseInv
  BY DEF Init, CloseInv, NoReadAfterClose
<1> QED
  BY <1>1, CloseStep, PoolInvariant, PTL DEF Spec

\* Once Close has returned no reader reads, retries or hands over a datagram,
\* whatever Serve was doing meanwhile.
THEOREM ClosedIsSilent == Spec => []NoReadAfterClose
<1>1. CloseInv => NoReadAfterClose
  BY DEF CloseInv
<1> QED
  BY <1>1, CloseInvariant, PTL

\* A server that was up when Close came stays in that condition at every step,
\* to the end of Close.
LEMMA UpStep == TypeOK /\ Hands /\ Up /\ [Next]_vars => Up'
<1> SUFFICES ASSUME TypeOK, Hands, Up, [Next]_vars PROVE Up'
  OBVIOUS
<1> USE DEF poolVars, workerVars, readerVars, cleanVars, closeVars, ReaderAt, CloserAt, Up,
            Alive, Started, Outstanding
<1>1. CASE ServeStart \/ ServeReturn \/ CollectorStop
  BY <1>1 DEF ServeStart, ServeReturn, CollectorStop, TypeOK
<1>2. ASSUME NEW r \in Readers, ServeReader(r)
      PROVE  Up'
  BY <1>2 DEF ServeReader
<1>3. ASSUME NEW r \in Readers, ReaderStep(r) \/ ReaderRead(r) \/ ReaderFail(r)
      PROVE  Up'
  <2>1. /\ reader[r] \in {"top", "read", "try", "spawn", "send"}
        /\ \E to \in {"top", "read", "try", "spawn", "send", "done"} :
              reader' = [reader EXCEPT ![r] = to]
        /\ UNCHANGED <<serve, closer, collector>>
    BY <1>3 DEF ReaderStep, ReaderCheckClose, ReaderRead, ReaderFail, GetReady, GetCreate,
                Spawn, GetNone, ServeSend
  <2> QED
    BY <2>1 DEF TypeOK
<1>4. ASSUME NEW c \in Chans, WorkerStep(c)
      PROVE  Up'
  BY <1>4 DEF WorkerStep, WorkerReceive, WorkerServed, WorkerRelease, WorkerExit, WorkerPut
<1>5. CASE CleanerStep
  BY <1>5 DEF CleanerStep, CleanTake, CleanNotify, CleanLoop, CleanEnd
<1>6. CASE Close \/ StopBegin \/ StopLock \/ StopNotify \/ StopUnlock \/ CloseConns
  BY <1>6 DEF Close, StopBegin, StopLock, StopNotify, StopUnlock, CloseConns, Hands
<1>7. CASE CloseWait \/ CloseWake \/ CloseReturn
  BY <1>7 DEF CloseWait, CloseWake, CloseReturn
<1>8. CASE Terminated \/ UNCHANGED vars
  BY <1>8 DEF Terminated, vars
<1> QED
  BY <1>1, <1>2, <1>3, <1>4, <1>5, <1>6, <1>7, <1>8 DEF Next, ServeStep, CloserStep

\* Close of a server whose readers were all started never panics: neither in
\* Stop, for want of a pool, nor in Wait, for a group in use again.
THEOREM UpServersClose == Spec => UpNeverPanics
<1>1. CloseInv /\ closer = "open" /\ Started => Up
  BY PoolAssumption DEF CloseInv, Up, Alive, Started
<1>2. Up => Alive
  BY DEF Up
<1> QED
  BY <1>1, <1>2, UpStep, CloseInvariant, PoolInvariant, PTL DEF Spec, UpNeverPanics

-----------------------------------------------------------------------------
(* Contexts *)

\* Every context is somewhere ...
CtxSomewhere ==
    \A x \in Ctxs : \/ x \in free
                    \/ \E r \in Readers : ctx[r] = x
                    \/ \E c \in Chans : slot[c] = x \/ serving[c] = x

\* ... and nowhere else.
CtxNowhereElse ==
    \A x \in Ctxs :
        /\ x \in free => /\ \A r \in Readers : ctx[r] # x
                         /\ \A c \in Chans : slot[c] # x /\ serving[c] # x
        /\ \A r, q \in Readers : ctx[r] = x /\ ctx[q] = x => r = q
        /\ \A r \in Readers, c \in Chans : ctx[r] = x => slot[c] # x /\ serving[c] # x
        /\ \A c, d \in Chans : /\ slot[c] = x /\ slot[d] = x => c = d
                               /\ serving[c] = x /\ serving[d] = x => c = d
                               /\ slot[c] = x => serving[d] # x

CtxPlaced == CtxSomewhere /\ CtxNowhereElse

\* Telling a worker to stop moves no context.
LEMMA StopMoves ==
    ASSUME TypeOK, Hands, CtxPlaced, NEW c \in Chans, Send(c, Stopping), UNCHANGED <<ctx, free>>
    PROVE  CtxPlaced'
<1> USE PoolAssumption DEF TypeOK, Hands, CtxPlaced, CtxSomewhere, CtxNowhereElse
<1>1. slot[c] = NoCtx
  BY DEF Send
<1>2. CASE slot' = [slot EXCEPT ![c] = Stopping] /\ UNCHANGED <<worker, serving>>
  BY <1>1, <1>2
<1>3. CASE worker[c] = "recv" /\ Received(c, Stopping) /\ UNCHANGED slot
  BY <1>3 DEF Received
<1> QED
  BY <1>2, <1>3 DEF Send

\* A reader takes a context from the pool, gives it to a channel or forgets it.
LEMMA ReaderMoves ==
    ASSUME TypeOK, Hands, CtxPlaced, NEW r \in Readers,
           ReaderStep(r) \/ ReaderRead(r) \/ ReaderFail(r)
    PROVE  CtxPlaced'
<1> USE PoolAssumption DEF poolVars, workerVars, readerVars, cleanVars, closeVars, ReaderAt
<1>1. CASE ReaderCheckClose(r) \/ ReaderFail(r) \/ GetReady(r) \/ GetCreate(r) \/ Spawn(r)
  BY <1>1 DEF ReaderCheckClose, ReaderFail, GetReady, GetCreate, Spawn, CtxPlaced,
              CtxSomewhere, CtxNowhereElse
<1>2. CASE ReaderRead(r)
  <2>1. PICK y \in free : ctx' = [ctx EXCEPT ![r] = y] /\ free' = free \ {y}
    BY <1>2 DEF ReaderRead
  <2>2. ctx[r] \notin Ctxs /\ UNCHANGED <<slot, serving>>
    BY <1>2 DEF ReaderRead, Hands
  <2>3. CtxSomewhere'
    BY <2>1, <2>2 DEF TypeOK, CtxPlaced, CtxSomewhere
  <2>4. CtxNowhereElse'
    BY <2>1, <2>2 DEF TypeOK, CtxPlaced, CtxNowhereElse
  <2> QED
    BY <2>3, <2>4 DEF CtxPlaced
<1>3. CASE GetNone(r)
  <2>1. CASE UNCHANGED <<ctx, free>>
    BY <1>3, <2>1 DEF GetNone, CtxPlaced, CtxSomewhere, CtxNowhereElse
  <2>2. CASE ctx' = [ctx EXCEPT ![r] = NoCtx] /\ free' = free \union {ctx[r]}
    <3>1. CtxSomewhere'
      BY <1>3, <2>2 DEF GetNone, TypeOK, CtxPlaced, CtxSomewhere
    <3>2. CtxNowhereElse'
      BY <1>3, <2>2 DEF GetNone, TypeOK, CtxPlaced, CtxNowhereElse
    <3> QED
      BY <3>1, <3>2 DEF CtxPlaced
  <2> QED
    BY <1>3, <2>1, <2>2 DEF GetNone
<1>4. CASE ServeSend(r)
  <2> DEFINE c == target[r]
             y == ctx[r]
  <2>1. c \in Chans /\ y \in Ctxs /\ Send(c, y)
    BY <1>4 DEF ServeSend, Hands
  <2>2. ctx' = [ctx EXCEPT ![r] = NoCtx] /\ UNCHANGED free /\ slot[c] = NoCtx
    BY <1>4, <2>1 DEF ServeSend, Send
  <2>3. CASE slot' = [slot EXCEPT ![c] = y] /\ UNCHANGED <<worker, serving>>
    <3>1. CtxSomewhere'
      BY <2>1, <2>2, <2>3 DEF TypeOK, CtxPlaced, CtxSomewhere
    <3>2. CtxNowhereElse'
      BY <2>1, <2>2, <2>3 DEF TypeOK, CtxPlaced, CtxNowhereElse
    <3> QED
      BY <3>1, <3>2 DEF CtxPlaced
  <2>4. CASE worker[c] = "recv" /\ Received(c, y) /\ UNCHANGED slot
    <3>0. serving[c] \notin Ctxs /\ serving' = [serving EXCEPT ![c] = y]
      BY <2>1, <2>4 DEF Hands, Received
    <3>1. CtxSomewhere'
      <4> SUFFICES ASSUME NEW x \in Ctxs
                   PROVE  \/ x \in free' \/ \E q \in Readers : ctx'[q] = x
                          \/ \E d \in Chans : slot'[d] = x \/ serving'[d] = x
        BY DEF CtxSomewhere
      <4>1. CASE x = y
        <5>1. serving'[c] = x
          BY <2>1, <3>0, <4>1 DEF TypeOK
        <5> QED
          BY <2>1, <5>1
      <4>2. CASE x # y
        BY <2>1, <2>2, <2>4, <3>0, <4>2 DEF TypeOK, CtxPlaced, CtxSomewhere
      <4> QED
        BY <4>1, <4>2
    <3>2. CtxNowhereElse'
      BY <2>1, <2>2, <2>4, <3>0 DEF TypeOK, CtxPlaced, CtxNowhereElse
    <3> QED
      BY <3>1, <3>2 DEF CtxPlaced
  <2> QED
    BY <2>1, <2>3, <2>4 DEF Send
<1> QED
  BY <1>1, <1>2, <1>3, <1>4 DEF ReaderStep

\* A worker takes a context from its channel and puts it back into the pool.
LEMMA WorkerMoves ==
    ASSUME TypeOK, Hands, CtxPlaced, NEW c \in Chans, WorkerStep(c)
    PROVE  CtxPlaced'
<1> USE PoolAssumption DEF poolVars, workerVars, readerVars, cleanVars, closeVars
<1>1. CASE WorkerReceive(c)
  <2>1. /\ UNCHANGED <<ctx, free>> /\ slot' = [slot EXCEPT ![c] = NoCtx]
        /\ serving[c] \notin Ctxs /\ slot[c] \in Ctxs \union {Stopping}
        /\ serving' = [serving EXCEPT ![c] = IF slot[c] = Stopping THEN NoCtx ELSE slot[c]]
    BY <1>1 DEF WorkerReceive, Received, Hands, TypeOK
  <2>2. CtxSomewhere'
    BY <2>1 DEF TypeOK, CtxPlaced, CtxSomewhere
  <2>3. CtxNowhereElse'
    BY <2>1 DEF TypeOK, CtxPlaced, CtxNowhereElse
  <2> QED
    BY <2>2, <2>3 DEF CtxPlaced
<1>2. CASE WorkerServed(c)
  <2>1. CtxSomewhere'
    BY <1>2 DEF WorkerServed, TypeOK, CtxPlaced, CtxSomewhere
  <2>2. CtxNowhereElse'
    BY <1>2 DEF WorkerServed, TypeOK, CtxPlaced, CtxNowhereElse
  <2> QED
    BY <2>1, <2>2 DEF CtxPlaced
<1>3. CASE WorkerRelease(c) \/ WorkerExit(c) \/ WorkerPut(c)
  BY <1>3 DEF WorkerRelease, WorkerExit, WorkerPut, CtxPlaced, CtxSomewhere, CtxNowhereElse
<1> QED
  BY <1>1, <1>2, <1>3 DEF WorkerStep

\* Every step keeps each context in one place.
LEMMA CtxStep == TypeOK /\ Hands /\ CtxPlaced /\ [Next]_vars => CtxPlaced'
<1> SUFFICES ASSUME TypeOK, Hands, CtxPlaced, [Next]_vars PROVE CtxPlaced'
  OBVIOUS
<1> USE DEF poolVars, workerVars, readerVars, cleanVars, closeVars
<1>1. CASE CleanNotify
  <2>1. Head(scratch) \in Chans /\ Send(Head(scratch), Stopping) /\ UNCHANGED <<ctx, free>>
    BY <1>1 DEF CleanNotify, TypeOK
  <2> QED
    BY <2>1, StopMoves
<1>2. CASE StopNotify
  <2>1. Head(stopping) \in Chans /\ Send(Head(stopping), Stopping) /\ UNCHANGED <<ctx, free>>
    BY <1>2 DEF StopNotify, TypeOK
  <2> QED
    BY <2>1, StopMoves
<1>3. CASE UNCHANGED <<ctx, free, slot, serving>>
  BY <1>3 DEF CtxPlaced, CtxSomewhere, CtxNowhereElse
<1>4. \/ CleanNotify \/ StopNotify \/ UNCHANGED <<ctx, free, slot, serving>>
      \/ \E r \in Readers : ReaderStep(r) \/ ReaderRead(r) \/ ReaderFail(r)
      \/ \E c \in Chans : WorkerStep(c)
  BY DEF Next, ServeStart, ServeStep, ServeReader, ServeReturn, CollectorStop, CleanerStep,
         CleanTake, CleanLoop, CleanEnd, Close, CloserStep, StopBegin, StopLock, StopUnlock,
         CloseConns, CloseWait, CloseWake, CloseReturn, Terminated, vars
<1> QED
  BY <1>1, <1>2, <1>3, <1>4, ReaderMoves, WorkerMoves

\* CtxPlaced holds in every reachable state.
LEMMA CtxInvariant == Spec => []CtxPlaced
<1>1. Init => CtxPlaced
  BY PoolAssumption DEF Init, CtxPlaced, CtxSomewhere, CtxNowhereElse
<1> QED
  BY <1>1, CtxStep, PoolInvariant, PTL DEF Spec

\* A set with at most one member has no or one element.
LEMMA AtMostOne ==
    ASSUME NEW S, \A a, b \in S : a = b
    PROVE  Cardinality(S) = IF S = {} THEN 0 ELSE 1
<1>1. CASE S = {}
  BY <1>1, FS_EmptySet
<1>2. CASE S # {}
  <2>1. PICK a \in S : TRUE
    BY <1>2
  <2>2. S = {a}
    BY <2>1
  <2> QED
    BY <1>2, <2>2, FS_Singleton
<1> QED
  BY <1>1, <1>2

\* A request context is with one party at a time: putContext never recycles one
\* that a reader, a buffer or another worker still has.
THEOREM ContextsExclusive == Spec => []CtxExclusive
<1>1. CtxPlaced => CtxExclusive
  <2> SUFFICES ASSUME CtxPlaced, NEW x \in Ctxs
               PROVE  Cardinality({r \in Readers : ctx[r] = x})
                      + Cardinality({c \in Chans : slot[c] = x})
                      + Cardinality({c \in Chans : serving[c] = x})
                      + (IF x \in free THEN 1 ELSE 0) = 1
    BY DEF CtxExclusive
  <2> DEFINE R == {r \in Readers : ctx[r] = x}
             B == {c \in Chans : slot[c] = x}
             W == {c \in Chans : serving[c] = x}
  <2>1. /\ \A a, b \in R : a = b
        /\ \A a, b \in B : a = b
        /\ \A a, b \in W : a = b
    BY DEF CtxPlaced, CtxNowhereElse
  <2>2. /\ Cardinality(R) = IF R = {} THEN 0 ELSE 1
        /\ Cardinality(B) = IF B = {} THEN 0 ELSE 1
        /\ Cardinality(W) = IF W = {} THEN 0 ELSE 1
    <3> HIDE DEF R, B, W
    <3> QED
      BY <2>1, AtMostOne
  <2>3. x \in free \/ R # {} \/ B # {} \/ W # {}
    BY DEF CtxPlaced, CtxSomewhere
  <2>4. /\ x \in free => R = {} /\ B = {} /\ W = {}
        /\ R # {} => B = {} /\ W = {}
        /\ B # {} => W = {}
    BY DEF CtxPlaced, CtxNowhereElse
  <2> HIDE DEF R, B, W
  <2>5. Cardinality(R) + Cardinality(B) + Cardinality(W) + (IF x \in free THEN 1 ELSE 0) = 1
    BY <2>2, <2>3, <2>4
  <2> QED
    BY <2>5 DEF R, B, W
<1> QED
  BY <1>1, CtxInvariant, PTL

-----------------------------------------------------------------------------
(* Lists of channels *)

Distinct(s) == \A i, j \in 1..Len(s) : s[i] = s[j] => i = j

\* The empty list has no members, and only it.
LEMMA EmptyList ==
    /\ InSeq(<<>>) = {} /\ Distinct(<<>>)
    /\ \A S : \A s \in Seq(S) : s # <<>> => Len(s) \in Nat \ {0}
BY DEF InSeq, Distinct

\* What getCh leaves of the ready list when it takes the last channel.
LEMMA LastOff ==
    ASSUME NEW S, NEW s \in Seq(S), s # <<>>, Distinct(s)
    PROVE  /\ Distinct(SubSeq(s, 1, Len(s) - 1))
           /\ InSeq(SubSeq(s, 1, Len(s) - 1)) = InSeq(s) \ {s[Len(s)]}
           /\ s[Len(s)] \in InSeq(s)
<1> DEFINE t == SubSeq(s, 1, Len(s) - 1)
<1>1. Len(s) \in Nat \ {0}
  BY EmptyList
<1>2. Len(t) = Len(s) - 1 /\ \A i \in 1..Len(s) - 1 : t[i] = s[i]
  <2>1. PICK n \in Nat : n = Len(s) - 1
    BY <1>1
  <2>2. \A i \in 1..n : s[i] \in S
    BY <1>1, <2>1
  <2>3. /\ Len(SubSeq(s, 1, n)) = IF 1 <= n THEN n - 1 + 1 ELSE 0
        /\ \A i \in 1..n - 1 + 1 : SubSeq(s, 1, n)[i] = s[1 + i - 1]
    BY <2>2, SubSeqProperties
  <2>4. Len(SubSeq(s, 1, n)) = n /\ \A i \in 1..n : SubSeq(s, 1, n)[i] = s[i]
    <3>1. n - 1 + 1 = n /\ \A i \in 1..n : 1 + i - 1 = i
      OBVIOUS
    <3> QED
      BY <2>3, <3>1
  <2> QED
    BY <2>1, <2>4
<1> HIDE DEF t
<1>3. Distinct(t)
  BY <1>1, <1>2 DEF Distinct
<1>4. InSeq(t) = {s[i] : i \in 1..Len(s) - 1}
  BY <1>1, <1>2 DEF InSeq
<1>5. InSeq(s) \ {s[Len(s)]} = {s[i] : i \in 1..Len(s) - 1}
  BY <1>1 DEF InSeq, Distinct
<1> QED
  <2>1. s[Len(s)] \in InSeq(s)
    BY <1>1 DEF InSeq
  <2> QED
    BY <1>3, <1>4, <1>5, <2>1 DEF t

\* What release makes of the ready list.
LEMMA AppendOn ==
    ASSUME NEW S, NEW s \in Seq(S), NEW e \in S, Distinct(s), e \notin InSeq(s)
    PROVE  Distinct(Append(s, e)) /\ InSeq(Append(s, e)) = InSeq(s) \union {e}
<1> DEFINE t == Append(s, e)
<1>1. Len(s) \in Nat /\ Len(t) = Len(s) + 1 /\ (\A i \in 1..Len(s) : t[i] = s[i])
      /\ t[Len(s) + 1] = e
  BY AppendProperties
<1> HIDE DEF t
<1>2. Distinct(t)
  BY <1>1 DEF Distinct, InSeq
<1>3. InSeq(t) = InSeq(s) \union {e}
  BY <1>1 DEF InSeq
<1> QED
  BY <1>2, <1>3 DEF t

\* What clean makes of the ready list.
LEMMA SplitAt ==
    ASSUME NEW S, NEW s \in Seq(S), Distinct(s), NEW n \in 1..Len(s)
    PROVE  /\ Distinct(SubSeq(s, 1, n)) /\ Distinct(SubSeq(s, n + 1, Len(s)))
           /\ InSeq(SubSeq(s, 1, n)) \union InSeq(SubSeq(s, n + 1, Len(s))) = InSeq(s)
           /\ InSeq(SubSeq(s, 1, n)) \intersect InSeq(SubSeq(s, n + 1, Len(s))) = {}
<1> DEFINE a == SubSeq(s, 1, n)
           b == SubSeq(s, n + 1, Len(s))
<1>1. Len(s) \in Nat /\ n \in Nat /\ n <= Len(s) /\ n >= 1
  OBVIOUS
<1>2. Len(a) = n /\ \A i \in 1..n : a[i] = s[i]
  BY <1>1, SubSeqProperties
<1>3. Len(b) = Len(s) - n /\ \A i \in 1..Len(s) - n : b[i] = s[n + i]
  BY <1>1, SubSeqProperties
<1> HIDE DEF a, b
<1>4. Distinct(a) /\ Distinct(b)
  <2>1. Distinct(a)
    BY <1>1, <1>2 DEF Distinct
  <2>2. ASSUME NEW i \in 1..Len(b), NEW j \in 1..Len(b), b[i] = b[j]
        PROVE  i = j
    <3>1. n + i \in 1..Len(s) /\ n + j \in 1..Len(s) /\ s[n + i] = s[n + j]
      BY <1>1, <1>3, <2>2
    <3> QED
      BY <1>1, <3>1 DEF Distinct
  <2> QED
    BY <2>1, <2>2 DEF Distinct
<1>5. InSeq(a) = {s[i] : i \in 1..n}
  BY <1>2 DEF InSeq
<1>6. InSeq(b) = {s[i] : i \in n + 1..Len(s)}
  <2>1. ASSUME NEW i \in n + 1..Len(s) PROVE s[i] \in InSeq(b)
    <3>1. i - n \in 1..Len(b) /\ b[i - n] = s[i]
      BY <1>1, <1>3
    <3> QED
      BY <3>1 DEF InSeq
  <2>2. ASSUME NEW i \in 1..Len(b) PROVE \E j \in n + 1..Len(s) : b[i] = s[j]
    <3>1. n + i \in n + 1..Len(s) /\ b[i] = s[n + i]
      BY <1>1, <1>3
    <3> QED
      BY <3>1
  <2>3. {s[i] : i \in n + 1..Len(s)} \subseteq InSeq(b)
    BY <2>1
  <2>4. InSeq(b) \subseteq {s[i] : i \in n + 1..Len(s)}
    BY <2>2 DEF InSeq
  <2> QED
    BY <2>3, <2>4
<1>7. InSeq(a) \union InSeq(b) = InSeq(s)
  <2>1. 1..Len(s) = (1..n) \union (n + 1..Len(s))
    BY <1>1
  <2> QED
    BY <1>5, <1>6, <2>1, Zenon DEF InSeq
<1>8. InSeq(a) \intersect InSeq(b) = {}
  BY <1>1, <1>5, <1>6 DEF Distinct
<1> QED
  BY <1>4, <1>7, <1>8 DEF a, b

\* What a notification leaves of a list of channels.
LEMMA HeadOff ==
    ASSUME NEW S, NEW s \in Seq(S), s # <<>>, Distinct(s)
    PROVE  /\ Distinct(Tail(s)) /\ InSeq(Tail(s)) = InSeq(s) \ {Head(s)}
           /\ Head(s) \in InSeq(s)
<1> DEFINE t == Tail(s)
<1>1. Len(s) \in Nat \ {0}
  BY EmptyList
<1>2. Len(t) = Len(s) - 1 /\ (\A i \in 1..Len(s) - 1 : t[i] = s[i + 1]) /\ Head(s) = s[1]
  BY <1>1, HeadTailProperties
<1> HIDE DEF t
<1>3. Distinct(t)
  BY <1>1, <1>2 DEF Distinct
<1>4. InSeq(t) = InSeq(s) \ {Head(s)}
  <2>1. ASSUME NEW i \in 1..Len(s), s[i] # s[1] PROVE s[i] \in InSeq(t)
    <3>1. i - 1 \in 1..Len(t) /\ t[i - 1] = s[i]
      BY <1>1, <1>2, <2>1
    <3> QED
      BY <3>1 DEF InSeq
  <2>2. ASSUME NEW i \in 1..Len(t) PROVE t[i] \in InSeq(s) /\ t[i] # s[1]
    BY <1>1, <1>2 DEF InSeq, Distinct
  <2>3. InSeq(s) \ {Head(s)} \subseteq InSeq(t)
    BY <1>2, <2>1 DEF InSeq
  <2>4. InSeq(t) \subseteq InSeq(s) \ {Head(s)}
    <3>1. \A e \in InSeq(t) : \E i \in 1..Len(t) : e = t[i]
      BY DEF InSeq
    <3> QED
      BY <1>2, <2>2, <3>1
  <2> QED
    BY <2>3, <2>4
<1>5. Head(s) \in InSeq(s)
  BY <1>1, <1>2 DEF InSeq
<1> QED
  BY <1>3, <1>4, <1>5 DEF t

-----------------------------------------------------------------------------
(* Channels *)

\* The channels that getCh, clean or Stop may still take off the ready list;
\* while Stop notifies, those it has not come to.
Idlers == IF locked THEN InSeq(stopping) ELSE InSeq(ready)
Cleaned == InSeq(scratch)

Listed ==
    /\ Distinct(ready) /\ Distinct(scratch) /\ Distinct(stopping)
    /\ InSeq(stopping) \subseteq InSeq(ready)

\* A party that may send on a channel is the only one, and its worker waits with
\* an empty buffer; a full buffer has a waiting worker too.
Handed ==
    /\ \A c \in Idlers : /\ worker[c] = "recv" /\ slot[c] = NoCtx
                         /\ c \notin Cleaned /\ \A r \in Readers : target[r] # c
    /\ \A c \in Cleaned : /\ worker[c] = "recv" /\ slot[c] = NoCtx
                          /\ \A r \in Readers : target[r] # c
    /\ \A r \in Readers : target[r] \in Chans =>
           /\ worker[target[r]] = "recv" /\ slot[target[r]] = NoCtx
           /\ \A q \in Readers : target[q] = target[r] => q = r
    /\ \A c \in Chans : slot[c] # NoCtx => worker[c] = "recv"

\* A worker that waits will hear from somebody.
Reached ==
    \A c \in Chans : worker[c] = "recv" =>
        c \in Idlers \/ c \in Cleaned \/ slot[c] # NoCtx \/ \E r \in Readers : target[r] = c

ChanInv == Listed /\ Handed /\ Reached

\* Steps that leave channels, workers and lists alone.
LEMMA ChanSame ==
    ASSUME ChanInv, UNCHANGED <<ready, scratch, stopping, locked, worker, slot, target>>
    PROVE  ChanInv'
<1>1. Idlers' = Idlers /\ Cleaned' = Cleaned /\ Listed'
  BY DEF ChanInv, Listed, Idlers, Cleaned
<1>2. Handed'
  BY <1>1 DEF ChanInv, Handed
<1>3. Reached'
  BY <1>1 DEF ChanInv, Reached
<1> QED
  BY <1>1, <1>2, <1>3 DEF ChanInv

\* The lists hold channels.
LEMMA ListsOfChans ==
    TypeOK => InSeq(ready) \subseteq Chans /\ Idlers \subseteq Chans /\ Cleaned \subseteq Chans
BY DEF TypeOK, InSeq, Idlers, Cleaned

\* Sending on channel c, by the one party that had it.
LEMMA SendHanded ==
    ASSUME TypeOK, ChanInv, NEW c \in Chans, NEW m \in Ctxs \union {Stopping}, Send(c, m),
           worker[c] = "recv", slot[c] = NoCtx,
           c \notin Idlers', c \notin Cleaned', \A r \in Readers : target'[r] # c,
           Idlers' \subseteq Idlers, Idlers \subseteq Idlers' \union {c},
           Cleaned' \subseteq Cleaned, Cleaned \subseteq Cleaned' \union {c},
           \A r \in Readers : target'[r] = target[r] \/ (target'[r] = NoChan /\ target[r] = c)
    PROVE  Handed' /\ Reached'
<1>0. NoChan \notin Chans /\ m # NoCtx
  BY PoolAssumption
<1>a. Idlers \subseteq Chans /\ Cleaned \subseteq Chans
  BY ListsOfChans
<1>b. \A d \in Idlers' \union Cleaned' : d # c /\ d \in Idlers \union Cleaned
  OBVIOUS
<1>c. \A q \in Readers : target'[q] \in Chans => target'[q] = target[q] /\ target'[q] # c
  BY <1>0
<1>1. CASE slot' = [slot EXCEPT ![c] = m] /\ UNCHANGED <<worker, serving>>
  <2>1. slot'[c] = m /\ (\A d \in Chans : d # c => slot'[d] = slot[d]) /\ worker' = worker
    BY <1>1 DEF TypeOK
  <2>2. Handed'
    <3>1. \A d \in Idlers' : /\ worker'[d] = "recv" /\ slot'[d] = NoCtx
                             /\ d \notin Cleaned' /\ \A r \in Readers : target'[r] # d
      BY <1>a, <1>b, <1>c, <2>1 DEF ChanInv, Handed
    <3>2. \A d \in Cleaned' : /\ worker'[d] = "recv" /\ slot'[d] = NoCtx
                              /\ \A r \in Readers : target'[r] # d
      BY <1>a, <1>b, <1>c, <2>1 DEF ChanInv, Handed
    <3>3. \A r \in Readers : target'[r] \in Chans =>
             /\ worker'[target'[r]] = "recv" /\ slot'[target'[r]] = NoCtx
             /\ \A q \in Readers : target'[q] = target'[r] => q = r
      BY <1>c, <2>1 DEF ChanInv, Handed
    <3>4. \A d \in Chans : slot'[d] # NoCtx => worker'[d] = "recv"
      BY <2>1 DEF ChanInv, Handed
    <3> QED
      BY <3>1, <3>2, <3>3, <3>4 DEF Handed
  <2>3. Reached'
    BY <1>0, <2>1 DEF ChanInv, Reached
  <2> QED
    BY <2>2, <2>3
<1>2. CASE Received(c, m) /\ UNCHANGED slot
  <2>1. /\ worker'[c] \in {"exit", "serve"} /\ (\A d \in Chans : d # c => worker'[d] = worker[d])
        /\ slot' = slot
    BY <1>2 DEF Received, TypeOK
  <2>2. Handed'
    <3>1. \A d \in Idlers' : /\ worker'[d] = "recv" /\ slot'[d] = NoCtx
                             /\ d \notin Cleaned' /\ \A r \in Readers : target'[r] # d
      BY <1>a, <1>b, <1>c, <2>1 DEF ChanInv, Handed
    <3>2. \A d \in Cleaned' : /\ worker'[d] = "recv" /\ slot'[d] = NoCtx
                              /\ \A r \in Readers : target'[r] # d
      BY <1>a, <1>b, <1>c, <2>1 DEF ChanInv, Handed
    <3>3. \A r \in Readers : target'[r] \in Chans =>
             /\ worker'[target'[r]] = "recv" /\ slot'[target'[r]] = NoCtx
             /\ \A q \in Readers : target'[q] = target'[r] => q = r
      BY <1>c, <2>1 DEF ChanInv, Handed
    <3>4. \A d \in Chans : slot'[d] # NoCtx => worker'[d] = "recv"
      BY <2>1 DEF ChanInv, Handed
    <3> QED
      BY <3>1, <3>2, <3>3, <3>4 DEF Handed
  <2>3. Reached'
    BY <2>1 DEF ChanInv, Reached
  <2> QED
    BY <2>2, <2>3
<1> QED
  BY <1>1, <1>2 DEF Send

\* A reader takes a channel from the ready list or with a new worker, and gives
\* it up with the message it sends.
LEMMA ReaderHands ==
    ASSUME TypeOK, Hands, ChanInv, NEW r \in Readers,
           ReaderStep(r) \/ ReaderRead(r) \/ ReaderFail(r)
    PROVE  ChanInv'
<1> USE PoolAssumption DEF poolVars, workerVars, readerVars, cleanVars, closeVars, ReaderAt
<1>1. CASE ReaderCheckClose(r) \/ ReaderRead(r) \/ ReaderFail(r) \/ GetCreate(r) \/ GetNone(r)
  BY <1>1, ChanSame DEF ReaderCheckClose, ReaderRead, ReaderFail, GetCreate, GetNone
<1>2. CASE GetReady(r)
  <2> DEFINE c == ready[Len(ready)]
  <2>1. /\ ~locked /\ ready # <<>> /\ ready \in Seq(Chans) /\ target[r] \notin Chans
        /\ target' = [target EXCEPT ![r] = c] /\ ready' = SubSeq(ready, 1, Len(ready) - 1)
        /\ UNCHANGED <<scratch, stopping, locked, worker, slot>>
    BY <1>2 DEF GetReady, TypeOK, Hands
  <2>2. Distinct(ready') /\ InSeq(ready') = InSeq(ready) \ {c} /\ c \in InSeq(ready)
    BY <2>1, LastOff DEF ChanInv, Listed
  <2>3. stopping = <<>>
    BY <2>1 DEF Hands
  <2>4. Listed'
    BY <2>1, <2>2, <2>3, EmptyList DEF ChanInv, Listed
  <2>5. /\ Idlers = InSeq(ready) /\ Idlers' = Idlers \ {c} /\ Cleaned' = Cleaned
        /\ c \in Idlers /\ c \in Chans
    BY <2>1, <2>2, ListsOfChans DEF Idlers, Cleaned
  <2> HIDE DEF c
  <2>6. target'[r] = c /\ \A q \in Readers : q # r => target'[q] = target[q]
    BY <2>1 DEF TypeOK
  <2>7. Handed'
    BY <2>1, <2>5, <2>6 DEF ChanInv, Handed
  <2>8. Reached'
    BY <2>1, <2>5, <2>6 DEF ChanInv, Reached
  <2> QED
    BY <2>4, <2>7, <2>8 DEF ChanInv
<1>3. CASE Spawn(r)
  <2>1. PICK c \in Chans : /\ worker[c] = "none"
                           /\ worker' = [worker EXCEPT ![c] = "recv"]
                           /\ target' = [target EXCEPT ![r] = c]
    BY <1>3 DEF Spawn
  <2>2. target[r] \notin Chans /\ UNCHANGED <<ready, scratch, stopping, locked, slot>>
    BY <1>3 DEF Spawn, Hands
  <2>3. Idlers' = Idlers /\ Cleaned' = Cleaned /\ Listed'
    BY <2>2 DEF Idlers, Cleaned, ChanInv, Listed
  <2>4. c \notin Idlers /\ c \notin Cleaned /\ slot[c] = NoCtx /\ \A q \in Readers : target[q] # c
    BY <2>1 DEF ChanInv, Handed, TypeOK
  <2>5. /\ target'[r] = c /\ \A q \in Readers : q # r => target'[q] = target[q]
        /\ worker'[c] = "recv" /\ \A d \in Chans : d # c => worker'[d] = worker[d]
    BY <2>1 DEF TypeOK
  <2>6. Idlers \subseteq Chans /\ Cleaned \subseteq Chans
    BY ListsOfChans
  <2>7. Handed'
    BY <2>2, <2>3, <2>4, <2>5, <2>6 DEF ChanInv, Handed
  <2>8. Reached'
    BY <2>2, <2>3, <2>4, <2>5 DEF ChanInv, Reached
  <2> QED
    BY <2>3, <2>7, <2>8 DEF ChanInv
<1>4. CASE ServeSend(r)
  <2> DEFINE c == target[r]
  <2>1. /\ c \in Chans /\ ctx[r] \in Ctxs /\ Send(c, ctx[r])
        /\ target' = [target EXCEPT ![r] = NoChan]
        /\ UNCHANGED <<ready, scratch, stopping, locked>>
    BY <1>4 DEF ServeSend, Hands
  <2>2. Idlers' = Idlers /\ Cleaned' = Cleaned /\ Listed'
    BY <2>1 DEF Idlers, Cleaned, ChanInv, Listed
  <2>3. target'[r] = NoChan /\ \A q \in Readers : q # r => target'[q] = target[q]
    BY <2>1 DEF TypeOK
  <2>4. /\ worker[c] = "recv" /\ slot[c] = NoCtx /\ c \notin Idlers /\ c \notin Cleaned
        /\ \A q \in Readers : q # r => target[q] # c
    BY <2>1 DEF ChanInv, Handed
  <2>5. \A q \in Readers : target'[q] # c
    BY <2>1, <2>3, <2>4
  <2>6. Handed' /\ Reached'
    <3> HIDE DEF c
    <3>1. \A q \in Readers : target'[q] = target[q] \/ (target'[q] = NoChan /\ target[q] = c)
      BY <2>3 DEF c
    <3> QED
      BY <2>1, <2>2, <2>4, <2>5, <3>1, SendHanded
  <2> QED
    BY <2>2, <2>6 DEF ChanInv
<1> QED
  BY <1>1, <1>2, <1>3, <1>4 DEF ReaderStep

\* A worker takes the message off its own channel, and offers the channel again
\* when it has served it.
LEMMA WorkerHands ==
    ASSUME TypeOK, Hands, ChanInv, NEW c \in Chans, WorkerStep(c)
    PROVE  ChanInv'
<1> USE PoolAssumption DEF poolVars, workerVars, readerVars, cleanVars, closeVars
<1>a. Idlers \subseteq Chans /\ Cleaned \subseteq Chans
  BY ListsOfChans
<1>1. CASE WorkerReceive(c)
  <2>1. /\ worker[c] = "recv" /\ slot[c] # NoCtx
        /\ UNCHANGED <<ready, scratch, stopping, locked, target>>
    BY <1>1 DEF WorkerReceive
  <2>2. /\ worker'[c] \in {"exit", "serve"} /\ \A d \in Chans : d # c => worker'[d] = worker[d]
        /\ slot'[c] = NoCtx /\ \A d \in Chans : d # c => slot'[d] = slot[d]
    BY <1>1 DEF WorkerReceive, Received, TypeOK
  <2>3. Idlers' = Idlers /\ Cleaned' = Cleaned /\ Listed'
    BY <2>1 DEF Idlers, Cleaned, ChanInv, Listed
  <2>4. c \notin Idlers /\ c \notin Cleaned /\ \A q \in Readers : target[q] # c
    BY <2>1 DEF ChanInv, Handed
  <2>5. Handed'
    BY <1>a, <2>1, <2>2, <2>3, <2>4 DEF ChanInv, Handed
  <2>6. Reached'
    BY <2>1, <2>2, <2>3 DEF ChanInv, Reached
  <2> QED
    BY <2>3, <2>5, <2>6 DEF ChanInv
<1>2. ASSUME worker[c] \notin {"none", "recv"}, NEW to \in {"release", "exit", "put", "none"},
             worker' = [worker EXCEPT ![c] = to],
             UNCHANGED <<ready, scratch, stopping, locked, target, slot>>
      PROVE  ChanInv'
  <2>1. worker'[c] # "recv" /\ \A d \in Chans : d # c => worker'[d] = worker[d]
    BY <1>2 DEF TypeOK
  <2>2. Idlers' = Idlers /\ Cleaned' = Cleaned /\ Listed'
    BY <1>2 DEF Idlers, Cleaned, ChanInv, Listed
  <2>3. /\ c \notin Idlers /\ c \notin Cleaned /\ slot[c] = NoCtx
        /\ \A q \in Readers : target[q] # c
    BY <1>2 DEF ChanInv, Handed
  <2>4. Handed'
    BY <1>2, <1>a, <2>1, <2>2, <2>3 DEF ChanInv, Handed
  <2>5. Reached'
    BY <1>2, <2>1, <2>2 DEF ChanInv, Reached
  <2> QED
    BY <2>2, <2>4, <2>5 DEF ChanInv
<1>3. CASE WorkerServed(c) \/ WorkerExit(c) \/ WorkerPut(c)
  BY <1>2, <1>3 DEF WorkerServed, WorkerExit, WorkerPut
<1>4. CASE WorkerRelease(c)
  <2>1. CASE mustStop
    BY <1>2, <1>4, <2>1 DEF WorkerRelease
  <2>2. CASE ~mustStop
    <3>1. /\ ~locked /\ worker[c] = "release" /\ ready' = Append(ready, c)
          /\ UNCHANGED <<scratch, stopping, locked, target, slot>>
      BY <1>4, <2>2 DEF WorkerRelease
    <3>2. worker'[c] = "recv" /\ \A d \in Chans : d # c => worker'[d] = worker[d]
      BY <1>4, <2>2 DEF WorkerRelease, TypeOK
    <3>3. /\ c \notin Idlers /\ c \notin Cleaned /\ slot[c] = NoCtx
          /\ \A q \in Readers : target[q] # c
      BY <3>1 DEF ChanInv, Handed
    <3>4. stopping = <<>> /\ ready \in Seq(Chans) /\ Idlers = InSeq(ready)
      BY <3>1 DEF Hands, TypeOK, Idlers
    <3>5. Distinct(ready') /\ InSeq(ready') = InSeq(ready) \union {c}
      BY <3>1, <3>3, <3>4, AppendOn DEF ChanInv, Listed
    <3>6. Listed'
      BY <3>1, <3>4, <3>5, EmptyList DEF ChanInv, Listed
    <3>7. Idlers' = Idlers \union {c} /\ Cleaned' = Cleaned
      BY <3>1, <3>4, <3>5 DEF Idlers, Cleaned
    <3>8. Handed'
      BY <1>a, <3>1, <3>2, <3>3, <3>7 DEF ChanInv, Handed
    <3>9. Reached'
      BY <3>1, <3>2, <3>7 DEF ChanInv, Reached
    <3> QED
      BY <3>6, <3>8, <3>9 DEF ChanInv
  <2> QED
    BY <2>1, <2>2
<1> QED
  BY <1>1, <1>3, <1>4 DEF WorkerStep

\* clean moves idle channels to its own list and stops their workers one by one.
LEMMA CleanerHands == TypeOK /\ Hands /\ ChanInv /\ CleanerStep => ChanInv'
<1> SUFFICES ASSUME TypeOK, Hands, ChanInv, CleanerStep PROVE ChanInv'
  OBVIOUS
<1> USE PoolAssumption DEF poolVars, workerVars, readerVars, cleanVars, closeVars
<1>1. CASE CleanTake
  <2>1. PICK i \in 1..Len(ready) : /\ scratch' = SubSeq(ready, 1, i)
                                   /\ ready' = SubSeq(ready, i + 1, Len(ready))
    BY <1>1 DEF CleanTake
  <2>2. /\ ~locked /\ stopping = <<>> /\ scratch = <<>> /\ ready \in Seq(Chans)
        /\ UNCHANGED <<stopping, locked, worker, slot, target>>
    BY <1>1 DEF CleanTake, Hands, TypeOK
  <2>3. /\ Distinct(scratch') /\ Distinct(ready')
        /\ InSeq(scratch') \union InSeq(ready') = InSeq(ready)
        /\ InSeq(scratch') \intersect InSeq(ready') = {}
    BY <2>1, <2>2, SplitAt DEF ChanInv, Listed
  <2>4. Listed'
    BY <2>2, <2>3, EmptyList DEF ChanInv, Listed
  <2>5. /\ Idlers = Idlers' \union Cleaned' /\ Idlers' \intersect Cleaned' = {}
        /\ Cleaned = {}
    BY <2>2, <2>3, EmptyList DEF Idlers, Cleaned
  <2>6. Handed'
    BY <2>2, <2>5 DEF ChanInv, Handed
  <2>7. Reached'
    BY <2>2, <2>5 DEF ChanInv, Reached
  <2> QED
    BY <2>4, <2>6, <2>7 DEF ChanInv
<1>2. CASE CleanNotify
  <2> DEFINE c == Head(scratch)
  <2>1. /\ scratch # <<>> /\ Send(c, Stopping) /\ scratch' = Tail(scratch)
        /\ scratch \in Seq(Chans) /\ UNCHANGED <<ready, stopping, locked, target>>
    BY <1>2 DEF CleanNotify, TypeOK
  <2>2. Distinct(scratch') /\ Cleaned' = Cleaned \ {c} /\ c \in Cleaned
    BY <2>1, HeadOff DEF ChanInv, Listed, Cleaned
  <2>3. Idlers' = Idlers /\ Listed'
    BY <2>1, <2>2 DEF Idlers, ChanInv, Listed
  <2>4. c \in Chans
    BY <2>2, ListsOfChans
  <2> HIDE DEF c
  <2>5. /\ worker[c] = "recv" /\ slot[c] = NoCtx /\ c \notin Idlers
        /\ \A q \in Readers : target[q] # c
    BY <2>2 DEF ChanInv, Handed
  <2>6. Handed' /\ Reached'
    BY <2>1, <2>2, <2>3, <2>4, <2>5, SendHanded
  <2> QED
    BY <2>3, <2>6 DEF ChanInv
<1>3. CASE CleanLoop \/ CleanEnd
  BY <1>3, ChanSame DEF CleanLoop, CleanEnd
<1> QED
  BY <1>1, <1>2, <1>3 DEF CleanerStep

\* Stop does the same with the channels that are idle when it takes the lock.
LEMMA CloserHands == TypeOK /\ Hands /\ ChanInv /\ (Close \/ CloserStep) => ChanInv'
<1> SUFFICES ASSUME TypeOK, Hands, ChanInv, Close \/ CloserStep PROVE ChanInv'
  OBVIOUS
<1> USE PoolAssumption DEF poolVars, workerVars, readerVars, cleanVars, closeVars, CloserAt
<1>1. CASE StopLock
  <2>1. /\ ~locked /\ locked' /\ stopping' = ready
        /\ UNCHANGED <<ready, scratch, worker, slot, target>>
    BY <1>1 DEF StopLock
  <2>2. Idlers' = Idlers /\ Cleaned' = Cleaned
    BY <2>1 DEF Idlers, Cleaned
  <2>3. Listed'
    BY <2>1 DEF ChanInv, Listed
  <2>4. Handed' /\ Reached'
    BY <2>1, <2>2 DEF ChanInv, Handed, Reached
  <2> QED
    BY <2>3, <2>4 DEF ChanInv
<1>2. CASE StopNotify
  <2> DEFINE c == Head(stopping)
  <2>1. /\ stopping # <<>> /\ Send(c, Stopping) /\ stopping' = Tail(stopping) /\ locked
        /\ stopping \in Seq(Chans) /\ UNCHANGED <<ready, scratch, locked, target>>
    BY <1>2 DEF StopNotify, TypeOK, Hands
  <2>2. /\ Distinct(stopping') /\ InSeq(stopping') = InSeq(stopping) \ {c}
        /\ c \in InSeq(stopping)
    BY <2>1, HeadOff DEF ChanInv, Listed
  <2>3. Idlers' = Idlers \ {c} /\ c \in Idlers /\ Cleaned' = Cleaned
    BY <2>1, <2>2 DEF Idlers, Cleaned
  <2>4. Listed'
    BY <2>1, <2>2 DEF ChanInv, Listed
  <2>5. c \in Chans
    BY <2>3, ListsOfChans
  <2> HIDE DEF c
  <2>6. /\ worker[c] = "recv" /\ slot[c] = NoCtx /\ c \notin Cleaned
        /\ \A q \in Readers : target[q] # c
    BY <2>3 DEF ChanInv, Handed
  <2>7. Handed' /\ Reached'
    BY <2>1, <2>3, <2>5, <2>6, SendHanded
  <2> QED
    BY <2>4, <2>7 DEF ChanInv
<1>3. CASE StopUnlock
  <2>1. /\ locked /\ ~locked' /\ stopping = <<>> /\ ready' = <<>>
        /\ UNCHANGED <<stopping, scratch, worker, slot, target>>
    BY <1>3 DEF StopUnlock, Hands
  <2>2. Idlers' = Idlers /\ Cleaned' = Cleaned
    BY <2>1 DEF Idlers, Cleaned
  <2>3. Listed'
    BY <2>1, EmptyList DEF ChanInv, Listed
  <2>4. Handed' /\ Reached'
    BY <2>1, <2>2 DEF ChanInv, Handed, Reached
  <2> QED
    BY <2>3, <2>4 DEF ChanInv
<1>4. CASE Close \/ StopBegin \/ CloseConns \/ CloseWait \/ CloseWake \/ CloseReturn
  BY <1>4, ChanSame DEF Close, StopBegin, CloseConns, CloseWait, CloseWake, CloseReturn
<1> QED
  BY <1>1, <1>2, <1>3, <1>4 DEF CloserStep

\* The hand-over invariant holds in every reachable state.
LEMMA ChanInvariant == Spec => []ChanInv
<1>1. Init => ChanInv
  <2> SUFFICES ASSUME Init PROVE ChanInv
    OBVIOUS
  <2>1. Listed /\ Idlers = {} /\ Cleaned = {}
    BY EmptyList DEF Init, Listed, Idlers, Cleaned
  <2>2. Handed /\ Reached
    BY <2>1, PoolAssumption DEF Init, Handed, Reached
  <2> QED
    BY <2>1, <2>2 DEF ChanInv
<1>2. TypeOK /\ Hands /\ ChanInv /\ [Next]_vars => ChanInv'
  <2> SUFFICES ASSUME TypeOK, Hands, ChanInv, [Next]_vars PROVE ChanInv'
    OBVIOUS
  <2> USE DEF poolVars, workerVars, readerVars, cleanVars, closeVars
  <2>1. CASE ServeStart \/ ServeStep \/ CollectorStop
    BY <2>1, ChanSame DEF ServeStart, ServeStep, ServeReader, ServeReturn, CollectorStop
  <2>2. CASE Terminated \/ UNCHANGED vars
    BY <2>2, ChanSame DEF Terminated, vars
  <2> QED
    BY <2>1, <2>2, ReaderHands, WorkerHands, CleanerHands, CloserHands DEF Next
<1> QED
  BY <1>1, <1>2, PoolInvariant, PTL DEF Spec

\* A channel is with one party at a time, for any number of readers and workers:
\* nobody sends on a channel that another party holds, and a recycled channel is
\* empty and forgotten by all.
THEOREM ChannelsExclusive == Spec => []ChannelExclusive
<1>1. TypeOK /\ ChanInv => ChannelExclusive
  <2> SUFFICES ASSUME TypeOK, ChanInv, NEW c \in Chans
               PROVE  Cardinality(Holders(c)) = IF worker[c] = "none" THEN 0 ELSE 1
    BY DEF ChannelExclusive
  <2> DEFINE A == {<<"ready", i>> : i \in {j \in 1..Len(ready) :
                       ready[j] = c /\ (~locked \/ c \in InSeq(stopping))}}
             B == {<<"scratch", i>> : i \in {j \in 1..Len(scratch) : scratch[j] = c}}
             C == {<<"reader", r>> : r \in {q \in Readers : target[q] = c}}
             D == IF slot[c] # NoCtx THEN {<<"slot", 0>>} ELSE {}
             E == IF worker[c] \notin {"none", "recv"} THEN {<<"worker", 0>>} ELSE {}
  <2>0. Holders(c) = A \union B \union C \union D \union E
    BY DEF Holders
  <2>1. (A # {} <=> c \in Idlers) /\ \A x, y \in A : x = y
    <3>1. c \in Idlers <=> c \in InSeq(ready) /\ (~locked \/ c \in InSeq(stopping))
      BY DEF Idlers, ChanInv, Listed
    <3>2. c \in InSeq(ready) <=> \E j \in 1..Len(ready) : ready[j] = c
      BY DEF InSeq
    <3>3. \A i, j \in 1..Len(ready) : ready[i] = c /\ ready[j] = c => i = j
      BY DEF ChanInv, Listed, Distinct
    <3>4. A # {} <=> c \in Idlers
      BY <3>1, <3>2
    <3>5. \A x, y \in A : x = y
      BY <3>3
    <3> QED
      BY <3>4, <3>5
  <2>2. (B # {} <=> c \in Cleaned) /\ \A x, y \in B : x = y
    <3>1. c \in Cleaned <=> \E j \in 1..Len(scratch) : scratch[j] = c
      BY DEF InSeq, Cleaned
    <3>2. \A i, j \in 1..Len(scratch) : scratch[i] = c /\ scratch[j] = c => i = j
      BY DEF ChanInv, Listed, Distinct
    <3>3. B # {} <=> c \in Cleaned
      BY <3>1
    <3>4. \A x, y \in B : x = y
      BY <3>2
    <3> QED
      BY <3>3, <3>4
  <2>3. (C # {} <=> \E r \in Readers : target[r] = c) /\ \A x, y \in C : x = y
    <3>1. \A q, r \in Readers : target[q] = c /\ target[r] = c => q = r
      BY DEF ChanInv, Handed
    <3>2. C # {} <=> \E r \in Readers : target[r] = c
      OBVIOUS
    <3>3. \A x, y \in C : x = y
      BY <3>1
    <3> QED
      BY <3>2, <3>3
  <2>4. (D # {} <=> slot[c] # NoCtx) /\ \A x, y \in D : x = y
    OBVIOUS
  <2>5. (E # {} <=> worker[c] \notin {"none", "recv"}) /\ \A x, y \in E : x = y
    OBVIOUS
  <2> HIDE DEF A, B, C, D, E
  <2>6. /\ A # {} => B = {} /\ C = {} /\ D = {} /\ E = {}
        /\ B # {} => C = {} /\ D = {} /\ E = {}
        /\ C # {} => D = {} /\ E = {}
        /\ D # {} => E = {}
    BY <2>1, <2>2, <2>3, <2>4, <2>5 DEF ChanInv, Handed
  <2>7. \A x, y \in Holders(c) : x = y
    BY <2>0, <2>1, <2>2, <2>3, <2>4, <2>5, <2>6
  <2>8. Holders(c) = {} <=> worker[c] = "none"
    <3>1. Holders(c) = {} <=> A = {} /\ B = {} /\ C = {} /\ D = {} /\ E = {}
      BY <2>0
    <3>2. worker[c] = "none" => A = {} /\ B = {} /\ C = {} /\ D = {} /\ E = {}
      BY <2>1, <2>2, <2>3, <2>4, <2>5 DEF ChanInv, Handed
    <3>3. worker[c] # "none" => ~(A = {} /\ B = {} /\ C = {} /\ D = {} /\ E = {})
      BY <2>1, <2>2, <2>3, <2>4, <2>5 DEF ChanInv, Reached
    <3> QED
      BY <3>1, <3>2, <3>3
  <2> QED
    BY <2>7, <2>8, AtMostOne
<1> QED
  BY <1>1, ChanInvariant, PoolInvariant, PTL

\* Stop, which sends with the lock held, never waits for a worker that may need
\* the lock: the workers it notifies are waiting with empty buffers.
THEOREM StopNeverBlocks == Spec => []StopNeverWaits
<1>1. TypeOK /\ Hands /\ ChanInv => StopNeverWaits
  <2> SUFFICES ASSUME Hands, ChanInv, NEW c \in InSeq(stopping)
               PROVE  worker[c] = "recv" /\ slot[c] = NoCtx
    BY DEF StopNeverWaits
  <2>1. locked
    BY EmptyList DEF Hands
  <2>2. c \in Idlers
    BY <2>1 DEF Idlers
  <2> QED
    BY <2>2 DEF ChanInv, Handed
<1> QED
  BY <1>1, ChanInvariant, PoolInvariant, PTL

-----------------------------------------------------------------------------
(* What is accepted is served, what waits is woken *)

\* After Stop the ready list stays empty, because release no longer adds to it.
StoppedEmpty ==
    mustStop => /\ ready = <<>>
                /\ closer \in {"conns", "wait", "blocked", "woken", "closed", "panicked"}

\* Every step keeps it so.
LEMMA StoppedStep == TypeOK /\ StoppedEmpty /\ [Next]_vars => StoppedEmpty'
<1> SUFFICES ASSUME TypeOK, StoppedEmpty, [Next]_vars PROVE StoppedEmpty'
  OBVIOUS
<1> USE DEF poolVars, workerVars, readerVars, cleanVars, closeVars, ReaderAt, CloserAt
<1>1. CASE UNCHANGED <<ready, mustStop, closer>>
  BY <1>1 DEF StoppedEmpty
<1>2. ASSUME NEW r \in Readers, GetReady(r) PROVE StoppedEmpty'
  BY <1>2 DEF GetReady, StoppedEmpty
<1>3. ASSUME NEW c \in Chans, WorkerRelease(c) PROVE StoppedEmpty'
  BY <1>3 DEF WorkerRelease, StoppedEmpty
<1>4. CASE CleanTake
  <2>1. ready # <<>>
    BY <1>4 DEF CleanTake
  <2> QED BY <1>4, <2>1 DEF CleanTake, StoppedEmpty
<1>5. CASE Close \/ CloserStep
  <2>1. CASE StopUnlock
    BY <2>1 DEF StopUnlock, StoppedEmpty
  <2>2. CASE Close \/ StopBegin \/ StopLock \/ StopNotify \/ CloseConns \/ CloseWait \/ CloseWake
             \/ CloseReturn
    BY <2>2 DEF Close, StopBegin, StopLock, StopNotify, CloseConns, CloseWait, CloseWake,
       CloseReturn, StoppedEmpty
  <2> QED BY <1>5, <2>1, <2>2 DEF CloserStep
<1>6. CASE ServeStart \/ ServeStep \/ CollectorStop \/ Terminated \/ UNCHANGED vars
  BY <1>1, <1>6 DEF ServeStart, ServeStep, ServeReader, ServeReturn, CollectorStop, Terminated, vars
<1>7. ASSUME NEW r \in Readers, ReaderStep(r) \/ ReaderRead(r) \/ ReaderFail(r)
      PROVE  StoppedEmpty'
  BY <1>1, <1>2, <1>7 DEF ReaderStep, ReaderCheckClose, GetCreate, Spawn, GetNone, ServeSend,
     ReaderRead, ReaderFail
<1>8. ASSUME NEW c \in Chans, WorkerStep(c) PROVE StoppedEmpty'
  BY <1>1, <1>3, <1>8 DEF WorkerStep, WorkerReceive, WorkerServed, WorkerExit, WorkerPut
<1>9. CASE CleanerStep
  BY <1>1, <1>4, <1>9 DEF CleanerStep, CleanNotify, CleanLoop, CleanEnd
<1> QED BY <1>5, <1>6, <1>7, <1>8, <1>9 DEF Next

\* Stop leaves no worker behind, with any number of them idle, busy or about to
\* be started: whoever waits after it is sent a message by clean or by a reader.
THEOREM NoWorkerForgotten == Spec => []NoneForgotten
<1>1. Init => StoppedEmpty
  BY DEF Init, StoppedEmpty
<1>2. TypeOK /\ Hands /\ ChanInv /\ StoppedEmpty => NoneForgotten
  <2> SUFFICES ASSUME TypeOK, Hands, ChanInv, StoppedEmpty, mustStop,
                      NEW c \in Chans, worker[c] = "recv"
               PROVE  \/ slot[c] # NoCtx \/ c \in InSeq(scratch)
                      \/ \E r \in Readers : reader[r] = "send" /\ target[r] = c
    BY DEF NoneForgotten
  <2>1. Idlers = {}
    BY EmptyList DEF StoppedEmpty, Hands, Idlers
  <2> QED BY <2>1 DEF ChanInv, Reached, Cleaned, Hands
<1> QED BY <1>1, <1>2, StoppedStep, PoolInvariant, ChanInvariant, PTL DEF Spec

\* A message to a waiting worker is buffered or received; the buffers and the
\* waiting workers of other channels are as before.
LEMMA SendDelivers ==
    ASSUME TypeOK, NEW c \in Chans, NEW m, Send(c, m), worker[c] = "recv"
    PROVE  /\ \/ slot'[c] = m /\ worker'[c] = "recv"
              \/ m # Stopping /\ serving'[c] = m
              \/ m = Stopping
           /\ slot[c] = NoCtx
           /\ \A d \in Chans : d # c => slot'[d] = slot[d] /\ worker'[d] = worker[d]
BY DEF Send, Received, TypeOK

\* No step drops an accepted context or strands it with a worker that ends.
THEOREM AcceptedContextsKept == Spec => AcceptedKept
<1>1. TypeOK /\ Hands /\ ChanInv /\ [Next]_vars =>
        [\A x \in Ctxs : Accepted(x) => (Accepted(x)' \/ \E c \in Chans : serving'[c] = x)]_vars
  <2> SUFFICES ASSUME TypeOK, Hands, ChanInv, Next, NEW x \in Ctxs, Accepted(x)
               PROVE  Accepted(x)' \/ \E c \in Chans : serving'[c] = x
    OBVIOUS
  <2> DEFINE Goal == Accepted(x)' \/ \E c \in Chans : serving'[c] = x
  <2> USE DEF poolVars, workerVars, readerVars, cleanVars, closeVars
  <2>a. x # NoCtx /\ x # Stopping
    BY PoolAssumption
  \* Steps that leave the accepted context where it is.
  <2>1. ASSUME \A r \in Readers : reader[r] \in {"spawn", "send"} =>
                   reader'[r] \in {"spawn", "send"} /\ ctx'[r] = ctx[r],
               \A c \in Chans : slot[c] \in Ctxs /\ worker[c] = "recv" =>
                   slot'[c] = slot[c] /\ worker'[c] = "recv"
        PROVE  Goal
    BY <2>1 DEF Accepted
  <2>2. CASE \/ ServeStart \/ ServeReturn \/ CollectorStop \/ Terminated
             \/ CleanTake \/ CleanLoop \/ CleanEnd
             \/ Close \/ StopBegin \/ StopLock \/ StopUnlock \/ CloseConns \/ CloseWait
             \/ CloseWake \/ CloseReturn
    BY <2>1, <2>2 DEF ServeStart, ServeReturn, CollectorStop, Terminated, vars, CleanTake, CleanLoop,
       CleanEnd, Close, StopBegin, StopLock, StopUnlock, CloseConns, CloseWait, CloseWake, CloseReturn
  <2>3. ASSUME NEW r \in Readers, ServeReader(r) PROVE Goal
    BY <2>1, <2>3 DEF ServeReader, TypeOK
  <2>4. ASSUME NEW r \in Readers,
               ReaderCheckClose(r) \/ ReaderFail(r) \/ GetReady(r) \/ GetCreate(r)
        PROVE  Goal
    BY <2>1, <2>4 DEF ReaderCheckClose, ReaderFail, GetReady, GetCreate, ReaderAt, TypeOK
  <2>5. ASSUME NEW r \in Readers, ReaderRead(r) \/ GetNone(r) PROVE Goal
    BY <2>1, <2>5 DEF ReaderRead, GetNone, ReaderAt, TypeOK
  <2>6. ASSUME NEW r \in Readers, Spawn(r) PROVE Goal
    BY <2>1, <2>6 DEF Spawn, ReaderAt, TypeOK
  <2>7. ASSUME NEW r \in Readers, ServeSend(r) PROVE Goal
    <3>1. /\ target[r] \in Chans /\ worker[target[r]] = "recv" /\ ctx[r] \in Ctxs
          /\ Send(target[r], ctx[r])
      BY <2>7 DEF ServeSend, ReaderAt, Hands, ChanInv, Handed
    <3>2. /\ \/ slot'[target[r]] = ctx[r] /\ worker'[target[r]] = "recv"
             \/ serving'[target[r]] = ctx[r]
          /\ slot[target[r]] = NoCtx
          /\ \A d \in Chans : d # target[r] => slot'[d] = slot[d] /\ worker'[d] = worker[d]
      BY <3>1, SendDelivers, PoolAssumption
    <3>3. \A q \in Readers : q # r => reader'[q] = reader[q] /\ ctx'[q] = ctx[q]
      BY <2>7 DEF ServeSend, ReaderAt, TypeOK
    <3>4. CASE ctx[r] = x
      BY <3>1, <3>2, <3>4 DEF Accepted
    <3>5. CASE ctx[r] # x
      BY <2>a, <3>1, <3>2, <3>3, <3>5 DEF Accepted
    <3> QED BY <3>4, <3>5
  <2>8. ASSUME NEW c \in Chans, WorkerReceive(c) PROVE Goal
    <3>1. CASE slot[c] = x
      BY <2>8, <2>a, <3>1 DEF WorkerReceive, Received, TypeOK
    <3>2. CASE slot[c] # x
      <4>1. /\ \A d \in Chans : d # c => slot'[d] = slot[d] /\ worker'[d] = worker[d]
            /\ UNCHANGED <<reader, ctx>>
        BY <2>8 DEF WorkerReceive, Received, TypeOK
      <4> QED BY <3>2, <4>1 DEF Accepted
    <3> QED BY <3>1, <3>2
  <2>9. ASSUME NEW c \in Chans,
               WorkerServed(c) \/ WorkerRelease(c) \/ WorkerExit(c) \/ WorkerPut(c)
        PROVE  Goal
    BY <2>1, <2>9 DEF WorkerServed, WorkerRelease, WorkerExit, WorkerPut, TypeOK
  <2>10. ASSUME NEW c \in Chans, worker[c] = "recv", Send(c, Stopping), UNCHANGED <<reader, ctx>>
         PROVE  Goal
    <3>1. slot[c] = NoCtx /\ \A d \in Chans : d # c => slot'[d] = slot[d] /\ worker'[d] = worker[d]
      BY <2>10, SendDelivers
    <3> QED BY <2>1, <2>10, <3>1, PoolAssumption
  <2>11. CASE CleanNotify
    <3>1. Head(scratch) \in Cleaned /\ Head(scratch) \in Chans
      BY <2>11, HeadOff, ListsOfChans DEF CleanNotify, TypeOK, Cleaned, ChanInv, Listed
    <3> QED BY <2>10, <2>11, <3>1 DEF CleanNotify, ChanInv, Handed
  <2>12. CASE StopNotify
    <3>1. Head(stopping) \in InSeq(stopping) /\ locked
      BY <2>12, HeadOff DEF StopNotify, TypeOK, Hands, ChanInv, Listed
    <3>2. Head(stopping) \in Idlers /\ Head(stopping) \in Chans
      BY <3>1, ListsOfChans DEF Idlers
    <3> QED BY <2>10, <2>12, <3>2 DEF StopNotify, ChanInv, Handed
  <2> QED
    BY <2>2, <2>3, <2>4, <2>5, <2>6, <2>7, <2>8, <2>9, <2>11, <2>12
    DEF Next, ServeStep, ReaderStep, WorkerStep, CleanerStep, CloserStep
<1> QED
  BY <1>1, PoolInvariant, ChanInvariant, PTL DEF Spec, AcceptedKept

=============================================================================
