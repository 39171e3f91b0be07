----------------------------- MODULE TurnProofs -----------------------------
(***************************************************************************)
(* Proofs about Turn: the server uses the allocation table as module       *)
(* Allocator specifies it, so the theorems about the table hold for it;    *)
(* nonces move forward; what the filters deny fades; a client gains        *)
(* something only by authenticated requests of its own, and loses          *)
(* something only by its own doing.                                        *)
(***************************************************************************)
EXTENDS Turn, AllocatorRelayProofs

-----------------------------------------------------------------------------
(* Types, and the steps of the server as steps of the allocator *)

\* A context that is not idle names a client and a configuration.
LEMMA BusyContext ==
  \A c \in Contexts : c.stage # "idle" => c \in BusyContexts
  BY DEF Contexts, NoContext

\* What processMessage lets through stays a context of the same client and
\* configuration, and knows whether it was admitted.
LEMMA DispatchedType ==
  ASSUME NEW c \in Contexts, NEW class \in Classes, NEW adm \in BOOLEAN, c.stage # "idle"
  PROVE  /\ Dispatched(c, class, adm) \in Contexts
         /\ \/ Dispatched(c, class, adm).stage = "idle"
            \/ /\ Dispatched(c, class, adm).tuple = c.tuple
               /\ Dispatched(c, class, adm).cfg = c.cfg
         /\ Dispatched(c, class, adm).stage = "handle" =>
               class = "request" /\ Dispatched(c, class, adm).admitted = adm
<1>1. c \in BusyContexts /\ 0 \in 0..MaxDelay
  BY BusyContext, TurnAssumption
<1>2. CASE class = "binding"
  BY <1>2 DEF Dispatched, Contexts, NoContext
<1>3. CASE class # "binding"
  BY <1>1, <1>3 DEF Dispatched, Contexts, BusyContexts
<1> QED BY <1>2, <1>3

\* A context that is served stays one, and is not yet with a handler.
LEMMA ServedType ==
  \A c \in Contexts : c.stage = "read" =>
      /\ Served(c) \in Contexts /\ Served(c).stage = "serve"
      /\ Served(c).tuple = c.tuple /\ Served(c).cfg = c.cfg
  BY BusyContext DEF Served, Contexts, BusyContexts

\* A context that gets older stays the same otherwise.
LEMMA AgedContextType ==
  ASSUME NEW c \in Contexts, c.age < MaxDelay \/ c.stage # "serve"
  PROVE  /\ AgedContext(c) \in Contexts /\ AgedContext(c).stage = c.stage
         /\ AgedContext(c).tuple = c.tuple /\ AgedContext(c).cfg = c.cfg
         /\ AgedContext(c).admitted = c.admitted
<1>1. CASE c.stage = "serve"
  BY <1>1, BusyContext, TurnAssumption DEF AgedContext, Contexts, BusyContexts
<1>2. CASE c.stage # "serve"
  BY <1>2 DEF AgedContext
<1> QED BY <1>1, <1>2

\* The server starts well typed.
LEMMA TurnTypeInit == TurnInit => TurnTypeOK
  BY TurnAssumption DEF TurnInit, TurnTypeOK, Contexts, Nonces

\* Every step of the server keeps it well typed.
LEMMA TurnTypeNext == TurnTypeOK /\ [TurnNext]_turnVars => TurnTypeOK'
<1> SUFFICES ASSUME TurnTypeOK, [TurnNext]_turnVars PROVE TurnTypeOK'
  OBVIOUS
<1>0. NoContext \in Contexts
  BY DEF Contexts
<1>1. CASE setOptions
  BY <1>1 DEF setOptions, TurnTypeOK, authVars
<1>2. ASSUME NEW w \in Workers, NEW t \in Tuples, worker(w, t)
      PROVE  TurnTypeOK'
  <2>1. [stage |-> "read", tuple |-> t, cfg |-> cfg, age |-> 0, admitted |-> FALSE] \in Contexts
    BY TurnAssumption DEF Contexts, BusyContexts, TurnTypeOK
  <2> QED BY <1>2, <2>1 DEF worker, TurnTypeOK, authVars
<1>3. ASSUME NEW w \in Workers, Ends(w)
      PROVE  TurnTypeOK'
  BY <1>0, <1>3 DEF Ends, TurnTypeOK, authVars
<1>4. ASSUME NEW w \in Workers, NEW class \in Classes, processMessage(w, class)
      PROVE  TurnTypeOK'
  <2>1. Dispatched(ctx[w], class, FALSE) \in Contexts
    BY <1>4, DispatchedType DEF processMessage, TurnTypeOK
  <2> QED BY <1>4, <2>1 DEF processMessage, TurnTypeOK, authVars
<1>5. ASSUME NEW w \in Workers, NEW class \in Classes, NEW value \in 0..MaxNonces,
             NEW good \in BOOLEAN, processAuth(w, class, value, good)
      PROVE  TurnTypeOK'
  <2>1. Dispatched(ctx[w], class, TRUE) \in Contexts /\ ctx[w] \in BusyContexts
    BY <1>5, DispatchedType, BusyContext DEF processAuth, TurnTypeOK
  <2>2. CASE Admitted(w, class, value)
    BY <1>5, <2>1, <2>2 DEF processAuth, Admitted, TurnTypeOK, BusyContexts
  <2>3. CASE Challenged(w)
    <3>1. ctx' \in [Workers -> Contexts] /\ UNCHANGED <<lastNonce, cfg>>
      BY <1>0, <1>5, <2>3 DEF processAuth, Challenged, TurnTypeOK
    <3>2. CASE UNCHANGED <<nonces, issued>>
      BY <3>1, <3>2 DEF TurnTypeOK
    <3>3. CASE NewNonce(ctx[w])
      <4>1. [value |-> issued + 1, left |-> NonceDuration - ctx[w].age] \in Nonces
        BY <2>1, <3>3, TurnAssumption DEF NewNonce, TurnTypeOK, Nonces, BusyContexts
      <4> QED BY <2>1, <3>1, <3>3, <4>1, TurnAssumption DEF NewNonce, TurnTypeOK, BusyContexts
    <3> QED BY <2>3, <3>2, <3>3 DEF Challenged
  <2> QED BY <1>5, <2>2, <2>3 DEF processAuth
<1>6. ASSUME NEW w \in Workers, NEW stage, Handled(w, stage)
      PROVE  TurnTypeOK'
  BY <1>0, <1>6 DEF Handled, TurnTypeOK, authVars
<1>7. ASSUME NEW w \in Workers, Handle(w)
      PROVE  TurnTypeOK'
  BY <1>6, <1>7 DEF Handle, processAllocateRequest, processRefreshRequest,
     processCreatePermissionRequest, processChannelBinding, processSendIndication,
     processChannelData
<1>8. CASE TurnTick
  <2>1. \A t \in Tuples : AgedNonce(nonces[t]) \in Nonces
    BY TurnAssumption DEF TurnTypeOK, AgedNonce, Nonces
  <2>2. \A w \in Workers : AgedContext(ctx[w]) \in Contexts
    BY <1>8, AgedContextType DEF TurnTick, TurnTypeOK
  <2> QED BY <1>8, <2>1, <2>2 DEF TurnTick, TurnTypeOK
<1>9. CASE TurnRestart
  BY <1>0, <1>9, TurnAssumption DEF TurnRestart, TurnTypeOK, Nonces
<1>10. CASE Background
  BY <1>10 DEF Background, TurnTypeOK, authVars
<1>11. CASE UNCHANGED turnVars
  BY <1>11 DEF turnVars, authVars, TurnTypeOK
<1>12. ASSUME NEW w \in Workers, serveConn(w)
       PROVE  TurnTypeOK'
  <2>1. Served(ctx[w]) \in Contexts
    BY <1>12, ServedType DEF serveConn, TurnTypeOK
  <2> QED BY <1>12, <2>1 DEF serveConn, TurnTypeOK, authVars
<1>13. ASSUME NEW w \in Workers, Front(w)
       PROVE  TurnTypeOK'
  BY <1>12, <1>3, <1>4, <1>5, <1>13 DEF Front
<1> QED BY <1>1, <1>2, <1>7, <1>8, <1>9, <1>10, <1>11, <1>13 DEF TurnNext

\* Whatever a request does to the table is a step of the allocator.
LEMMA HandleStep ==
  ASSUME TurnTypeOK, NEW w \in Workers, Handle(w)
  PROVE  Request(w) \/ AtomicRequest
<1>1. \A stage : Handled(w, stage) /\ stage # "idle" => ctx[w].tuple \in Tuples
  BY BusyContext DEF Handled, TurnTypeOK, BusyContexts
<1>2. CASE processAllocateRequest(w)
  BY <1>1, <1>2 DEF processAllocateRequest, Request
<1>3. CASE processRefreshRequest(w)
  BY <1>1, <1>3 DEF processRefreshRequest, Request, AtomicRequest
<1>4. CASE processCreatePermissionRequest(w)
  BY <1>1, <1>4 DEF processCreatePermissionRequest, AtomicRequest
<1>5. CASE processChannelBinding(w)
  BY <1>1, <1>5 DEF processChannelBinding, AtomicRequest
<1>6. CASE processSendIndication(w)
  BY <1>1, <1>6 DEF processSendIndication, Request
<1>7. CASE processChannelData(w)
  BY <1>1, <1>7 DEF processChannelData, Request
<1> QED BY <1>2, <1>3, <1>4, <1>5, <1>6, <1>7 DEF Handle

\* Step simulation: a step of the server is a step of the allocator, or does
\* not concern it.
LEMMA StepSimulation == TurnTypeOK /\ [TurnNext]_turnVars => [Next]_vars
<1> SUFFICES ASSUME TurnTypeOK, [TurnNext]_turnVars PROVE Next \/ UNCHANGED vars
  OBVIOUS
<1>1. CASE setOptions \/ UNCHANGED turnVars
  BY <1>1 DEF setOptions, turnVars
<1>2. ASSUME NEW w \in Workers, NEW t \in Tuples, worker(w, t) PROVE UNCHANGED vars
  BY <1>2 DEF worker
<1>3. ASSUME NEW w \in Workers, Front(w) PROVE UNCHANGED vars
  BY <1>3 DEF Front, serveConn, Ends, processMessage, processAuth
<1>4. ASSUME NEW w \in Workers, Handle(w) PROVE Next
  BY <1>4, HandleStep DEF Next
<1>5. CASE Background
  BY <1>5 DEF Background, Continue, Next
<1>6. CASE TurnTick \/ TurnRestart
  BY <1>6 DEF TurnTick, TurnRestart, Next
<1> QED BY <1>1, <1>2, <1>3, <1>4, <1>5, <1>6 DEF TurnNext

\* The server, filters, nonces and reloads included, implements the allocator's
\* specification.
THEOREM TurnUsesAllocator == TurnSpec => UsesAllocator
<1>1. TurnInit => Init
  BY DEF TurnInit
<1> QED BY <1>1, TurnTypeInit, TurnTypeNext, StepSimulation, PTL
        DEF TurnSpec, UsesAllocator, Spec

\* So its relayed addresses are exclusive too.
THEOREM TurnRelayExclusivity == TurnSpec => []RelayExclusive
  BY TurnUsesAllocator, RelayExclusivity, PTL DEF UsesAllocator

\* The whole server, as clients and peers see it, is the relay of RelayService:
\* neither a reload, a restart nor the order in which the workers serve requests
\* lets a client use another one's address, permissions or channels.
THEOREM TurnImplementsRelay == TurnSpec => ImplementsRelay
  BY TurnUsesAllocator, AllocatorImplementsRelay, PTL DEF UsesAllocator

-----------------------------------------------------------------------------
(* Authentication.  Nonces are numbered in the order they are made, so     *)
(* that the last one a client was admitted with is at most its current     *)
(* one, and none is in the future; a restart forgets the current ones but  *)
(* not the numbering.  A request with a handler was admitted.              *)

HandlesAuthenticated ==
    AuthRequired => \A w \in Workers : ctx[w].stage = "handle" => ctx[w].admitted

NoncesOrdered ==
    \A t \in Tuples :
        /\ nonces[t].value <= issued
        /\ lastNonce[t] <= issued
        /\ nonces[t].value # 0 => lastNonce[t] <= nonces[t].value

AuthInv == HandlesAuthenticated /\ NoncesOrdered

\* A server starts without requests and nonces.
LEMMA AuthInit == TurnInit => AuthInv
<1> SUFFICES ASSUME TurnInit PROVE AuthInv
  OBVIOUS
<1>1. HandlesAuthenticated
  BY DEF TurnInit, HandlesAuthenticated, NoContext
<1>2. NoncesOrdered
  <2> SUFFICES ASSUME NEW t \in Tuples
               PROVE  /\ nonces[t].value <= issued /\ lastNonce[t] <= issued
                      /\ nonces[t].value # 0 => lastNonce[t] <= nonces[t].value
    BY DEF NoncesOrdered
  <2>1. nonces[t].value = 0 /\ lastNonce[t] = 0 /\ issued = 0
    BY DEF TurnInit
  <2> QED BY <2>1
<1> QED BY <1>1, <1>2 DEF AuthInv

\* Every step of the server keeps the authentication invariant, and no client's
\* last nonce goes back.
LEMMA AuthNext ==
  TurnTypeOK /\ AuthInv /\ [TurnNext]_turnVars =>
      AuthInv' /\ \A t \in Tuples : lastNonce'[t] >= lastNonce[t]
<1> SUFFICES ASSUME TurnTypeOK, AuthInv, [TurnNext]_turnVars
             PROVE  AuthInv' /\ \A t \in Tuples : lastNonce'[t] >= lastNonce[t]
  OBVIOUS
<1> DEFINE Goal == AuthInv' /\ \A t \in Tuples : lastNonce'[t] >= lastNonce[t]
<1>a. /\ lastNonce \in [Tuples -> 0..MaxNonces] /\ issued \in 0..MaxNonces
      /\ nonces \in [Tuples -> Nonces] /\ \A t \in Tuples : nonces[t].value \in 0..MaxNonces
      /\ ctx \in [Workers -> Contexts] /\ MaxNonces \in Nat
  BY TurnAssumption DEF TurnTypeOK, Nonces
<1>c. NoContext.stage = "idle"
  BY DEF NoContext
\* A step that leaves the nonces alone and starts no handler.
<1>d. ASSUME UNCHANGED <<authVars>>,
             \A w \in Workers : ctx'[w] = ctx[w] \/ ctx'[w].stage # "handle"
      PROVE  Goal
  <2>1. HandlesAuthenticated'
    BY <1>d DEF AuthInv, HandlesAuthenticated
  <2>2. NoncesOrdered' /\ \A t \in Tuples : lastNonce'[t] >= lastNonce[t]
    BY <1>a, <1>d DEF AuthInv, NoncesOrdered, authVars
  <2> QED BY <2>1, <2>2 DEF AuthInv
<1>1. CASE setOptions \/ Background \/ UNCHANGED turnVars
  BY <1>1, <1>d DEF setOptions, Background, turnVars
<1>2. ASSUME NEW w \in Workers, NEW t \in Tuples, worker(w, t) PROVE Goal
  BY <1>2, <1>a, <1>d DEF worker
<1>3. ASSUME NEW w \in Workers, Ends(w) PROVE Goal
  BY <1>3, <1>a, <1>c, <1>d DEF Ends
<1>4. ASSUME NEW w \in Workers, serveConn(w) PROVE Goal
  <2>1. Served(ctx[w]).stage = "serve"
    BY <1>4, <1>a, ServedType DEF serveConn
  <2> QED BY <1>4, <1>a, <1>d, <2>1 DEF serveConn
<1>5. ASSUME NEW w \in Workers, NEW class \in Classes, processMessage(w, class) PROVE Goal
  <2>1. ~AuthRequired \/ class # "request"
    BY <1>5 DEF processMessage, needAuth
  <2>2. /\ UNCHANGED authVars /\ ctx[w].stage # "idle"
        /\ ctx' = [ctx EXCEPT ![w] = Dispatched(ctx[w], class, FALSE)]
    BY <1>5 DEF processMessage
  <2>3. class # "request" => ctx'[w].stage # "handle"
    BY <1>a, <2>2, DispatchedType
  <2>4. HandlesAuthenticated'
    BY <1>a, <2>1, <2>2, <2>3 DEF AuthInv, HandlesAuthenticated
  <2>5. NoncesOrdered' /\ \A t \in Tuples : lastNonce'[t] >= lastNonce[t]
    BY <1>a, <2>2 DEF AuthInv, NoncesOrdered, authVars
  <2> QED BY <2>4, <2>5 DEF AuthInv
<1>6. ASSUME NEW w \in Workers, NEW class \in Classes, NEW value \in 0..MaxNonces,
             NEW good \in BOOLEAN, processAuth(w, class, value, good)
      PROVE  Goal
  <2>0. ctx[w].stage # "idle" /\ ctx[w].tuple \in Tuples
    BY <1>6, <1>a, BusyContext DEF processAuth, BusyContexts
  <2>1. CASE Admitted(w, class, value) /\ Authentic(ctx[w], value, good)
    <3>1. /\ value = nonces[ctx[w].tuple].value /\ value > 0
          /\ lastNonce' = [lastNonce EXCEPT ![ctx[w].tuple] = value]
          /\ UNCHANGED <<nonces, issued>>
          /\ ctx' = [ctx EXCEPT ![w] = Dispatched(ctx[w], class, TRUE)]
      BY <1>6, <1>a, <2>0, <2>1 DEF Admitted, Authentic, Current, processAuth
    <3>2. \A t \in Tuples : lastNonce'[t] >= lastNonce[t] /\ lastNonce'[t] <= issued
      BY <1>a, <2>0, <3>1 DEF AuthInv, NoncesOrdered
    <3>3. NoncesOrdered'
      BY <1>a, <2>0, <3>1, <3>2 DEF AuthInv, NoncesOrdered
    <3>4. ctx'[w].stage = "handle" => ctx'[w].admitted
      BY <1>a, <2>0, <3>1, DispatchedType
    <3>5. HandlesAuthenticated'
      BY <1>a, <3>1, <3>4 DEF AuthInv, HandlesAuthenticated
    <3> QED BY <3>2, <3>3, <3>5 DEF AuthInv
  <2>2. CASE Challenged(w)
    <3>1. UNCHANGED lastNonce /\ ctx' = [ctx EXCEPT ![w] = NoContext]
      BY <2>2 DEF Challenged
    <3>2. HandlesAuthenticated'
      BY <1>a, <1>c, <3>1 DEF AuthInv, HandlesAuthenticated
    <3>3. ASSUME UNCHANGED <<nonces, issued>> PROVE NoncesOrdered'
      BY <3>1, <3>3 DEF AuthInv, NoncesOrdered
    <3>4. ASSUME NewNonce(ctx[w]) PROVE NoncesOrdered'
      BY <1>a, <2>0, <3>1, <3>4 DEF NewNonce, AuthInv, NoncesOrdered
    <3>5. NoncesOrdered'
      BY <2>2, <3>3, <3>4 DEF Challenged
    <3>6. \A t \in Tuples : lastNonce'[t] >= lastNonce[t]
      BY <1>a, <3>1
    <3> QED BY <3>2, <3>5, <3>6 DEF AuthInv
  <2> QED BY <1>6, <2>1, <2>2 DEF processAuth
<1>7. ASSUME NEW w \in Workers, Handle(w) PROVE Goal
  <2>1. PICK stage : Handled(w, stage)
    BY <1>7 DEF Handle, processAllocateRequest, processRefreshRequest,
       processCreatePermissionRequest, processChannelBinding, processSendIndication,
       processChannelData
  <2> QED BY <1>a, <1>c, <1>d, <2>1 DEF Handled
<1>8. CASE TurnTick
  <2>1. \A t \in Tuples : nonces'[t].value = nonces[t].value
    BY <1>8, <1>a DEF TurnTick, AgedNonce, Nonces
  <2>2. UNCHANGED <<issued, lastNonce>>
    BY <1>8 DEF TurnTick
  <2>3. \A w \in Workers : ctx'[w].stage = ctx[w].stage /\ ctx'[w].admitted = ctx[w].admitted
    BY <1>8, <1>a, AgedContextType DEF TurnTick
  <2>4. HandlesAuthenticated'
    BY <2>3 DEF AuthInv, HandlesAuthenticated
  <2>5. NoncesOrdered' /\ \A t \in Tuples : lastNonce'[t] >= lastNonce[t]
    BY <1>a, <2>1, <2>2 DEF AuthInv, NoncesOrdered
  <2> QED BY <2>4, <2>5 DEF AuthInv
<1>9. CASE TurnRestart
  <2>1. /\ UNCHANGED <<issued, lastNonce>>
        /\ ctx' = [w \in Workers |-> NoContext]
        /\ nonces' = [t \in Tuples |-> [value |-> 0, left |-> 0]]
    BY <1>9 DEF TurnRestart
  <2>2. HandlesAuthenticated'
    BY <1>c, <2>1 DEF HandlesAuthenticated
  <2>3. NoncesOrdered' /\ \A t \in Tuples : lastNonce'[t] >= lastNonce[t]
    BY <1>a, <2>1 DEF AuthInv, NoncesOrdered
  <2> QED BY <2>2, <2>3 DEF AuthInv
<1> QED BY <1>1, <1>2, <1>3, <1>4, <1>5, <1>6, <1>7, <1>8, <1>9 DEF TurnNext, Front

\* The server's own state stays well typed.
THEOREM TurnTypeCorrect == TurnSpec => []TurnTypeOK
  BY TurnTypeInit, TurnTypeNext, PTL DEF TurnSpec

\* The authentication invariant holds in every reachable state.
LEMMA AuthInvariant == TurnSpec => []AuthInv
  BY TurnTypeCorrect, AuthInit, AuthNext, PTL DEF TurnSpec

\* A nonce that was rotated out admits nobody, with any number of workers.
THEOREM NoncesForward == TurnSpec => NonceForward
<1>1. TurnTypeOK /\ AuthInv /\ [TurnNext]_turnVars
        => [\A t \in Tuples : lastNonce'[t] >= lastNonce[t]]_turnVars
  BY AuthNext
<1> QED BY <1>1, TurnTypeCorrect, AuthInvariant, PTL DEF TurnSpec, NonceForward

-----------------------------------------------------------------------------
(* Filters.  What is shut out by a filter fades.  The peer filter is asked *)
(* by the handlers that grant something; the client filter is asked once,  *)
(* before a message is looked at, so that one must know of every request   *)
(* past serveConn that its own configuration allows its client.            *)

ServedAllowed ==
    \A w \in Workers : ctx[w].stage \in {"serve", "handle", "data"} => allowClient(ctx[w])

\* Neither time nor the collector prolongs a permission.
LEMMA PermissionFades ==
  \A p \in Permission :
      Fades(p, p) /\ Fades(p, AgedPermission(p)) /\ Fades(p, PrunedPermission(p))
<1> SUFFICES ASSUME NEW p \in Permission
             PROVE  Fades(p, p) /\ Fades(p, AgedPermission(p)) /\ Fades(p, PrunedPermission(p))
  OBVIOUS
<1>1. /\ p = [ip |-> p.ip, timeout |-> p.timeout, binds |-> p.binds]
      /\ p.timeout \in Nat /\ p.binds \subseteq Binding
  BY LifetimeAssumption DEF Permission, Time
<1>2. \A x \in p.binds : x.timeout \in Nat /\ x = [port |-> x.port, chan |-> x.chan, timeout |-> x.timeout]
  BY <1>1, LifetimeAssumption DEF Binding, Time
<1>3. Fades(p, p)
  BY <1>1, <1>2 DEF Fades
<1>4. Fades(p, AgedPermission(p))
  <2>1. \A x \in p.binds : /\ AgedBinding(x).port = x.port /\ AgedBinding(x).chan = x.chan
                           /\ AgedBinding(x).timeout <= x.timeout
    BY <1>2 DEF AgedBinding, Less
  <2>2. /\ AgedPermission(p).ip = p.ip /\ AgedPermission(p).timeout <= p.timeout
        /\ AgedPermission(p).binds = {AgedBinding(x) : x \in p.binds}
    BY <1>1 DEF AgedPermission, Less
  <2> QED BY <2>1, <2>2 DEF Fades
<1>5. Fades(p, PrunedPermission(p))
  <2>1. /\ PrunedPermission(p).ip = p.ip /\ PrunedPermission(p).timeout = p.timeout
        /\ PrunedPermission(p).binds \subseteq p.binds
    BY <1>1 DEF PrunedPermission, Unexpired
  <2> QED BY <1>1, <1>2, <2>1 DEF Fades
<1> QED BY <1>3, <1>4, <1>5

\* An entry that is left alone, ages or is pruned fades.
LEMMA EntriesFade ==
  \A a \in Allocation : EntryFades(a, a) /\ EntryFades(a, Aged(a)) /\ EntryFades(a, Pruned(a))
<1> SUFFICES ASSUME NEW a \in Allocation
             PROVE  EntryFades(a, a) /\ EntryFades(a, Aged(a)) /\ EntryFades(a, Pruned(a))
  OBVIOUS
<1>1. /\ a = [tuple |-> a.tuple, perms |-> a.perms, relay |-> a.relay, timeout |-> a.timeout]
      /\ a.timeout \in Nat /\ a.perms \subseteq Permission
  BY LifetimeAssumption DEF Allocation, Time
<1>2. EntryFades(a, a)
  BY <1>1, PermissionFades DEF EntryFades
<1>3. EntryFades(a, Aged(a))
  <2>1. /\ Aged(a).tuple = a.tuple /\ Aged(a).relay = a.relay /\ Aged(a).timeout <= a.timeout
        /\ Aged(a).perms = {AgedPermission(p) : p \in a.perms}
    BY <1>1 DEF Aged, Less
  <2> QED BY <1>1, <2>1, PermissionFades DEF EntryFades
<1>4. EntryFades(a, Pruned(a))
  <2>1. /\ Pruned(a).tuple = a.tuple /\ Pruned(a).relay = a.relay /\ Pruned(a).timeout = a.timeout
        /\ Pruned(a).perms = {PrunedPermission(p) : p \in Unexpired(a.perms)}
    BY <1>1 DEF Pruned
  <2>2. Unexpired(a.perms) \subseteq a.perms
    BY DEF Unexpired
  <2> QED BY <1>1, <2>1, <2>2, PermissionFades DEF EntryFades
<1> QED BY <1>2, <1>3, <1>4

\* A step that neither commits a New nor serves a request that grants something
\* only lets the table fade.
LEMMA TableFades ==
  ASSUME TypeOK,
         \/ Tick \/ Prune \/ Restart \/ UNCHANGED allocs
         \/ \E w \in Workers, t \in Tuples : Remove(w, t)
  PROVE  \A b \in allocs' : \E a \in allocs : EntryFades(a, b)
<1>1. \A a \in allocs : a \in Allocation
  BY DEF TypeOK
<1>2. CASE Tick
  BY <1>1, <1>2, EntriesFade DEF Tick
<1>3. CASE Prune
  <2>1. allocs' = {Pruned(a) : a \in Unexpired(allocs)} /\ Unexpired(allocs) \subseteq allocs
    BY <1>3 DEF Prune, Unexpired
  <2> QED BY <1>1, <2>1, EntriesFade
<1>4. CASE Restart
  BY <1>4 DEF Restart
<1>5. CASE UNCHANGED allocs \/ \E w \in Workers, t \in Tuples : Remove(w, t)
  <2>1. allocs' \subseteq allocs
    BY <1>5 DEF Remove
  <2> QED BY <1>1, <2>1, EntriesFade
<1> QED BY <1>2, <1>3, <1>4, <1>5

\* A request about other peers leaves the permissions of a peer as they are, and
\* neither New nor Refresh makes any.
LEMMA OtherPeers ==
  ASSUME TypeOK, NEW ip,
         \/ \E w \in Workers, t \in Tuples, d \in Lifetimes : NewReserve(w, t, d)
         \/ \E w \in Workers : NewCommit(w)
         \/ \E t \in Tuples, d \in Time : Refresh(t, d)
         \/ \E t \in Tuples, i \in IPs, d \in Time : i # ip /\ CreatePermission(t, i, d)
         \/ \E t \in Tuples, n \in Channels, peer \in Peers, d \in Lifetimes :
               peer.ip # ip /\ ChannelBind(t, n, peer, d)
  PROVE  \A b \in allocs' : \A q \in b.perms : q.ip = ip =>
             \E a \in allocs : a.tuple = b.tuple /\ \E p \in a.perms : Fades(p, q)
<1> DEFINE Kept(b) ==
        \A q \in b.perms : q.ip = ip => \E a \in allocs : a.tuple = b.tuple /\ q \in a.perms
<1>0. \A a \in allocs : /\ a \in Allocation /\ a.perms \subseteq Permission
                        /\ \A S : [a EXCEPT !.perms = S].perms = S /\ [a EXCEPT !.perms = S].tuple = a.tuple
                        /\ \A d : [a EXCEPT !.timeout = d].perms = a.perms
                              /\ [a EXCEPT !.timeout = d].tuple = a.tuple
  BY DEF TypeOK, Allocation
<1>1. SUFFICES \A b \in allocs' : Kept(b)
  BY <1>0, PermissionFades
<1>2. \A b \in allocs : Kept(b)
  OBVIOUS
<1>3. ASSUME NEW a \in allocs, NEW b, Kept(b), allocs' = Put(a, b)
      PROVE  \A x \in allocs' : Kept(x)
  BY <1>2, <1>3 DEF Put
\* The permissions of entry a change in one of another peer only.
<1>4. ASSUME NEW a \in allocs, NEW S, \A q \in S : q.ip = ip => q \in a.perms,
             allocs' = Put(a, [a EXCEPT !.perms = S])
      PROVE  \A x \in allocs' : Kept(x)
  <2>1. Kept([a EXCEPT !.perms = S])
    BY <1>0, <1>4
  <2> QED BY <1>3, <1>4, <2>1
<1>5. ASSUME NEW w \in Workers, NEW t \in Tuples, NEW d \in Lifetimes, NewReserve(w, t, d)
      PROVE  \A x \in allocs' : Kept(x)
  <2>1. allocs' = allocs \union {Entry(t, NoRelay, d)}
    BY <1>5 DEF NewReserve
  <2>2. Kept(Entry(t, NoRelay, d))
    BY DEF Entry
  <2> QED BY <1>2, <2>1, <2>2
<1>6. ASSUME NEW w \in Workers, NewCommit(w)
      PROVE  \A x \in allocs' : Kept(x)
  <2>1. PICK a \in allocs : allocs' = Put(a, Entry(arg[w].tuple, arg[w].relay, arg[w].timeout))
    BY <1>6 DEF NewCommit
  <2>2. Kept(Entry(arg[w].tuple, arg[w].relay, arg[w].timeout))
    BY DEF Entry
  <2> QED BY <1>3, <2>1, <2>2
<1>7. ASSUME NEW t \in Tuples, NEW d \in Time, Refresh(t, d)
      PROVE  \A x \in allocs' : Kept(x)
  <2>1. PICK a \in allocs : allocs' = Put(a, [a EXCEPT !.timeout = d])
    BY <1>7 DEF Refresh
  <2>2. Kept([a EXCEPT !.timeout = d])
    BY <1>0
  <2> QED BY <1>3, <2>1, <2>2
<1>8. ASSUME NEW a \in allocs, NEW p \in a.perms, NEW q, q.ip # ip, allocs' = PutPermission(a, p, q)
      PROVE  \A x \in allocs' : Kept(x)
  <2>1. \A r \in (a.perms \ {p}) \union {q} : r.ip = ip => r \in a.perms
    BY <1>8
  <2> HIDE DEF Kept
  <2> QED BY <1>4, <1>8, <2>1, Zenon DEF PutPermission
<1>9. ASSUME NEW a \in allocs, NEW q, q.ip # ip,
             allocs' = Put(a, [a EXCEPT !.perms = a.perms \union {q}])
      PROVE  \A x \in allocs' : Kept(x)
  <2>1. \A r \in a.perms \union {q} : r.ip = ip => r \in a.perms
    BY <1>9
  <2> HIDE DEF Kept
  <2> QED BY <1>4, <1>9, <2>1, Zenon
<1>10. ASSUME NEW t \in Tuples, NEW i \in IPs, NEW d \in Time, i # ip, CreatePermission(t, i, d)
       PROVE  \A x \in allocs' : Kept(x)
  <2>1. PICK a \in allocs :
          \/ \E p \in a.perms : p.ip = i /\ allocs' = PutPermission(a, p, [p EXCEPT !.timeout = d])
          \/ allocs' = Put(a, [a EXCEPT !.perms = a.perms \union
                                  {[ip |-> i, timeout |-> d, binds |-> {}]}])
    BY <1>10 DEF CreatePermission
  <2>2. \A p \in a.perms : [p EXCEPT !.timeout = d].ip = p.ip
    BY <1>0 DEF Permission
  <2>3. [ip |-> i, timeout |-> d, binds |-> {}].ip # ip
    BY <1>10
  <2> QED BY <1>8, <1>9, <1>10, <2>1, <2>2, <2>3
<1>11. ASSUME NEW t \in Tuples, NEW n \in Channels, NEW peer \in Peers, NEW d \in Lifetimes,
              peer.ip # ip, ChannelBind(t, n, peer, d)
       PROVE  \A x \in allocs' : Kept(x)
  <2> DEFINE new == [ip |-> peer.ip, timeout |-> d,
                     binds |-> {[port |-> peer.port, chan |-> n, timeout |-> d]}]
  <2>1. PICK a \in allocs :
          \/ \E p \in a.perms :
                p.ip = peer.ip /\ allocs' = PutPermission(a, p, Bound(p, n, peer.port, d))
          \/ allocs' = Put(a, [a EXCEPT !.perms = a.perms \union {new}])
    BY <1>11 DEF ChannelBind
  <2>2. \A p \in a.perms : Bound(p, n, peer.port, d).ip = p.ip
    BY <1>0 DEF Permission, Bound
  <2>3. new.ip # ip
    BY <1>11
  <2> HIDE DEF new
  <2> QED BY <1>8, <1>9, <1>11, <2>1, <2>2, <2>3
<1> QED BY <1>5, <1>6, <1>7, <1>10, <1>11

\* A request of another client leaves the entries of a client as they are.
LEMMA OtherClients ==
  ASSUME TypeOK, NEW t,
         \/ \E w \in Workers, u \in Tuples \ {t}, d \in Lifetimes : NewReserve(w, u, d)
         \/ \E w \in Workers : arg[w].tuple # t /\ NewCommit(w)
         \/ \E u \in Tuples \ {t}, d \in Time : Refresh(u, d)
         \/ \E u \in Tuples \ {t}, i \in IPs, d \in Time : CreatePermission(u, i, d)
         \/ \E u \in Tuples \ {t}, n \in Channels, peer \in Peers, d \in Lifetimes :
               ChannelBind(u, n, peer, d)
  PROVE  \A b \in allocs' : b.tuple = t => b \in allocs
<1>0. \A a \in allocs : /\ \A S : [a EXCEPT !.perms = S].tuple = a.tuple
                        /\ \A d : [a EXCEPT !.timeout = d].tuple = a.tuple
  BY DEF TypeOK, Allocation
<1>1. ASSUME NEW a \in allocs, NEW b, b.tuple # t, allocs' = Put(a, b)
      PROVE  \A x \in allocs' : x.tuple = t => x \in allocs
  BY <1>1 DEF Put
<1>2. ASSUME NEW w \in Workers, NEW u \in Tuples \ {t}, NEW d \in Lifetimes, NewReserve(w, u, d)
      PROVE  \A x \in allocs' : x.tuple = t => x \in allocs
  <2>1. allocs' = allocs \union {Entry(u, NoRelay, d)} /\ Entry(u, NoRelay, d).tuple # t
    BY <1>2 DEF NewReserve, Entry
  <2> QED BY <2>1
<1>3. ASSUME NEW w \in Workers, arg[w].tuple # t, NewCommit(w)
      PROVE  \A x \in allocs' : x.tuple = t => x \in allocs
  <2>1. PICK a \in allocs : allocs' = Put(a, Entry(arg[w].tuple, arg[w].relay, arg[w].timeout))
    BY <1>3 DEF NewCommit
  <2> QED BY <1>1, <1>3, <2>1 DEF Entry
<1>4. ASSUME NEW u \in Tuples \ {t}, NEW d \in Time, Refresh(u, d)
      PROVE  \A x \in allocs' : x.tuple = t => x \in allocs
  <2>1. PICK a \in allocs : a.tuple = u /\ allocs' = Put(a, [a EXCEPT !.timeout = d])
    BY <1>4 DEF Refresh
  <2> QED BY <1>0, <1>1, <2>1
<1>5. ASSUME NEW u \in Tuples \ {t}, NEW a \in allocs, a.tuple = u, NEW S,
             allocs' = Put(a, [a EXCEPT !.perms = S])
      PROVE  \A x \in allocs' : x.tuple = t => x \in allocs
  <2>1. [a EXCEPT !.perms = S].tuple # t
    BY <1>0, <1>5
  <2> QED BY <1>5, <2>1 DEF Put
<1>6. ASSUME NEW u \in Tuples \ {t}, NEW i \in IPs, NEW d \in Time, CreatePermission(u, i, d)
      PROVE  \A x \in allocs' : x.tuple = t => x \in allocs
  <2>1. PICK a \in allocs : a.tuple = u /\ \E S : allocs' = Put(a, [a EXCEPT !.perms = S])
    BY <1>6 DEF CreatePermission, PutPermission
  <2> QED BY <1>5, <2>1
<1>7. ASSUME NEW u \in Tuples \ {t}, NEW n \in Channels, NEW peer \in Peers, NEW d \in Lifetimes,
             ChannelBind(u, n, peer, d)
      PROVE  \A x \in allocs' : x.tuple = t => x \in allocs
  <2>1. PICK a \in allocs : a.tuple = u /\ \E S : allocs' = Put(a, [a EXCEPT !.perms = S])
    BY <1>7 DEF ChannelBind, PutPermission
  <2> QED BY <1>5, <2>1
<1> QED BY <1>2, <1>3, <1>4, <1>6, <1>7

\* How a context changes: it stays, ends, is filled with the configuration of that
\* moment, or goes on with its client and its configuration, past serveConn only
\* if that configuration allows the client.
CtxMoved(w) ==
    \/ ctx'[w] = ctx[w]
    \/ ctx'[w].stage = "idle"
    \/ ctx'[w].stage = "read" /\ ctx'[w].cfg = cfg
    \/ /\ ctx[w].stage # "idle"
       /\ ctx'[w].tuple = ctx[w].tuple /\ ctx'[w].cfg = ctx[w].cfg
       /\ ctx[w].stage = "read" => allowClient(ctx[w])

\* Every step of the server moves contexts in one of these ways.
LEMMA CtxMoves == TurnTypeOK /\ [TurnNext]_turnVars => \A w \in Workers : CtxMoved(w)
<1> SUFFICES ASSUME TurnTypeOK, [TurnNext]_turnVars, NEW w \in Workers PROVE CtxMoved(w)
  OBVIOUS
<1>a. ctx \in [Workers -> Contexts] /\ NoContext.stage = "idle"
  BY DEF TurnTypeOK, NoContext
<1>1. CASE UNCHANGED ctx
  BY <1>1 DEF CtxMoved
<1>2. ASSUME NEW v \in Workers, ctx' = [ctx EXCEPT ![v] = NoContext] PROVE CtxMoved(w)
  BY <1>a, <1>2 DEF CtxMoved
<1>3. ASSUME NEW v \in Workers, NEW t \in Tuples, worker(v, t) PROVE CtxMoved(w)
  BY <1>a, <1>3 DEF worker, CtxMoved
<1>4. ASSUME NEW v \in Workers, serveConn(v) PROVE CtxMoved(w)
  <2>1. Served(ctx[v]).tuple = ctx[v].tuple /\ Served(ctx[v]).cfg = ctx[v].cfg
    BY <1>a, <1>4, ServedType DEF serveConn
  <2>2. ctx' = [ctx EXCEPT ![v] = Served(ctx[v])] /\ ctx[v].stage = "read" /\ allowClient(ctx[v])
    BY <1>4 DEF serveConn
  <2> QED BY <1>a, <2>1, <2>2 DEF CtxMoved
<1>5. ASSUME NEW v \in Workers, NEW class \in Classes, NEW adm \in BOOLEAN,
             ctx[v].stage = "serve", ctx' = [ctx EXCEPT ![v] = Dispatched(ctx[v], class, adm)]
      PROVE  CtxMoved(w)
  BY <1>a, <1>5, DispatchedType DEF CtxMoved
<1>6. ASSUME NEW v \in Workers, Front(v) PROVE CtxMoved(w)
  BY <1>2, <1>4, <1>5, <1>6 DEF Front, Ends, processMessage, processAuth, Admitted, Challenged
<1>7. ASSUME NEW v \in Workers, Handle(v) PROVE CtxMoved(w)
  BY <1>2, <1>7 DEF Handle, processAllocateRequest, processRefreshRequest, Handled,
     processCreatePermissionRequest, processChannelBinding, processSendIndication,
     processChannelData
<1>8. CASE TurnRestart
  BY <1>a, <1>8 DEF TurnRestart, CtxMoved
<1>9. CASE setOptions \/ Background \/ UNCHANGED turnVars
  BY <1>1, <1>9 DEF setOptions, Background, turnVars
<1>10. CASE TurnTick
  <2>1. ctx'[w] = AgedContext(ctx[w]) /\ (ctx[w].age < MaxDelay \/ ctx[w].stage # "serve")
    BY <1>10 DEF TurnTick
  <2> QED BY <1>a, <2>1, AgedContextType DEF CtxMoved, AgedContext
<1> QED BY <1>3, <1>6, <1>7, <1>8, <1>9, <1>10 DEF TurnNext

\* A request past serveConn was allowed by the filter it was read with.
LEMMA AllowedInvariant == TurnSpec => []ServedAllowed
<1>1. TurnInit => ServedAllowed
  BY DEF TurnInit, ServedAllowed, NoContext
<1>2. TurnTypeOK /\ ServedAllowed /\ [TurnNext]_turnVars => ServedAllowed'
  <2> SUFFICES ASSUME TurnTypeOK, ServedAllowed, [TurnNext]_turnVars, NEW w \in Workers,
                      ctx'[w].stage \in {"serve", "handle", "data"}
               PROVE  allowClient(ctx'[w])
    BY DEF ServedAllowed, allowClient
  <2>1. CtxMoved(w)
    BY CtxMoves
  <2>2. ctx[w].stage \in {"idle", "read", "serve", "handle", "data"}
    BY DEF TurnTypeOK, Contexts, BusyContexts, NoContext
  <2> QED BY <2>1, <2>2 DEF CtxMoved, ServedAllowed, allowClient
<1> QED BY <1>1, <1>2, TurnTypeCorrect, PTL DEF TurnSpec

\* A peer that the reloaded filter and every request in flight deny stays shut out,
\* and nothing the server does prolongs what it has: the reason why it is gone
\* after the longest lifetime.
THEOREM DeniedPeersFade == TurnSpec => DeniedPeerFades
<1> DEFINE Kept(ip) ==
        \A b \in allocs' : \A q \in b.perms : q.ip = ip =>
            \E a \in allocs : a.tuple = b.tuple /\ \E p \in a.perms : Fades(p, q)
<1>1. ASSUME TypeOK, TurnTypeOK, [TurnNext]_turnVars, NEW ip \in IPs, PeerShut(ip), PeerDenied(ip)'
      PROVE  PeerShut(ip)'
  <2> SUFFICES ASSUME NEW w \in Workers, ctx'[w].stage # "idle"
               PROVE  ~allowPeer(ctx'[w], ip)
    BY <1>1 DEF PeerShut, allowPeer
  <2>1. CtxMoved(w)
    BY <1>1, CtxMoves
  <2> QED BY <1>1, <2>1 DEF CtxMoved, PeerShut, PeerDenied, allowPeer
<1>2. ASSUME TypeOK, TurnTypeOK, [TurnNext]_turnVars, NEW ip \in IPs, PeerShut(ip)
      PROVE  Kept(ip)
  <2>1. ASSUME \A b \in allocs' : \E a \in allocs : EntryFades(a, b) PROVE Kept(ip)
    BY <2>1 DEF EntryFades
  <2>2. CASE UNCHANGED allocs
    BY <1>2, <2>1, <2>2, TableFades
  <2>3. ASSUME NEW w \in Workers, Handle(w) PROVE Kept(ip)
    <3>1. \A stage \in {"handle", "data"} : Handled(w, stage) =>
              ctx[w].tuple \in Tuples /\ ctx[w].stage # "idle" /\ ~allowPeer(ctx[w], ip)
      BY <1>2, BusyContext DEF BusyContexts, Handled, TurnTypeOK, PeerShut
    <3>2. CASE processAllocateRequest(w)
      BY <1>2, <3>1, <3>2, OtherPeers DEF processAllocateRequest
    <3>3. CASE processRefreshRequest(w)
      BY <1>2, <2>1, <3>1, <3>3, OtherPeers, TableFades DEF processRefreshRequest
    <3>4. CASE processCreatePermissionRequest(w)
      BY <1>2, <3>1, <3>4, OtherPeers DEF processCreatePermissionRequest
    <3>5. CASE processChannelBinding(w)
      BY <1>2, <3>1, <3>5, OtherPeers DEF processChannelBinding
    <3>6. CASE processSendIndication(w) \/ processChannelData(w)
      BY <2>2, <3>6 DEF processSendIndication, processChannelData, SendLookup, SendBoundLookup,
                        Sending
    <3> QED BY <2>3, <3>2, <3>3, <3>4, <3>5, <3>6 DEF Handle
  <2>4. CASE Background
    <3>1. CASE Prune
      BY <1>2, <2>1, <3>1, TableFades
    <3>2. CASE \E w \in Workers : NewCommit(w)
      BY <1>2, <3>2, OtherPeers
    <3>3. Prune \/ (\E w \in Workers : NewCommit(w)) \/ UNCHANGED allocs
      BY <2>4 DEF Background, Continue, NewContinue, NewListen, NewListenFail, NewCommitLost,
         SendWrite, Dealloc, HandlePeerData, ReaderStops
    <3> QED BY <2>2, <3>1, <3>2, <3>3
  <2>5. CASE TurnTick \/ TurnRestart
    BY <1>2, <2>1, <2>5, TableFades DEF TurnTick, TurnRestart
  <2>6. Background \/ TurnTick \/ TurnRestart \/ (\E w \in Workers : Handle(w)) \/ UNCHANGED allocs
    BY <1>2 DEF TurnNext, setOptions, worker, Front, serveConn, Ends, processMessage, processAuth,
       turnVars, vars
  <2> QED BY <2>2, <2>3, <2>4, <2>5, <2>6
<1>3. TypeOK /\ TurnTypeOK /\ [TurnNext]_turnVars
        => [\A ip \in IPs : PeerShut(ip) =>
              /\ PeerDenied(ip)' => PeerShut(ip)'
              /\ \A b \in allocs' : \A q \in b.perms : q.ip = ip =>
                    \E a \in allocs : a.tuple = b.tuple /\ \E p \in a.perms : Fades(p, q)]_turnVars
  BY <1>1, <1>2
<1> QED BY <1>3, TurnTypeCorrect, TurnUsesAllocator, TypeCorrect, PTL
        DEF TurnSpec, UsesAllocator, DeniedPeerFades

\* A client gains something only by a request of its own that has reached its
\* handler, or by the end of its own New.
LEMMA GainStep ==
  ASSUME TypeOK, TurnTypeOK, [TurnNext]_turnVars, NEW t \in Tuples, Gains(t)
  PROVE  \/ \E w \in Workers : /\ ctx[w].stage = "handle" /\ ctx[w].tuple = t
                              /\ ctx'[w].stage = "idle"
         \/ \E w \in Workers : /\ pc[w] = "commit" /\ arg[w].tuple = t
                              /\ pc'[w] = "idle"
<1> SUFFICES ASSUME ~\E w \in Workers : /\ ctx[w].stage = "handle" /\ ctx[w].tuple = t
                                        /\ ctx'[w].stage = "idle",
                    ~\E w \in Workers : pc[w] = "commit" /\ arg[w].tuple = t /\ pc'[w] = "idle"
             PROVE  ~Gains(t)
  OBVIOUS
<1>1. ASSUME \A b \in allocs' : \E a \in allocs : EntryFades(a, b) PROVE ~Gains(t)
  BY <1>1 DEF Gains
<1>2. ASSUME \A b \in allocs' : b.tuple = t => b \in allocs PROVE ~Gains(t)
  <2>1. \A a \in allocs : EntryFades(a, a)
    BY EntriesFade DEF TypeOK
  <2> QED BY <1>2, <2>1 DEF Gains
<1>3. CASE UNCHANGED allocs
  BY <1>2, <1>3
<1>4. ASSUME NEW w \in Workers, Handle(w) PROVE ~Gains(t)
  <2>1. Handled(w, "handle") => ctx[w].tuple \in Tuples \ {t}
    BY BusyContext DEF Handled, TurnTypeOK, NoContext, BusyContexts
  <2>2. CASE processAllocateRequest(w)
    BY <1>2, <2>1, <2>2, OtherClients DEF processAllocateRequest
  <2>3. CASE processRefreshRequest(w)
    BY <1>1, <1>2, <2>1, <2>3, OtherClients, TableFades DEF processRefreshRequest
  <2>4. CASE processCreatePermissionRequest(w)
    BY <1>2, <2>1, <2>4, OtherClients DEF processCreatePermissionRequest
  <2>5. CASE processChannelBinding(w)
    BY <1>2, <2>1, <2>5, OtherClients DEF processChannelBinding
  <2>6. CASE processSendIndication(w) \/ processChannelData(w)
    BY <1>3, <2>6 DEF processSendIndication, processChannelData, SendLookup, SendBoundLookup,
                      Sending
  <2> QED BY <1>4, <2>2, <2>3, <2>4, <2>5, <2>6 DEF Handle
<1>5. CASE Background
  <2>1. CASE Prune
    BY <1>1, <2>1, TableFades
  <2>2. ASSUME NEW w \in Workers, NewCommit(w) PROVE ~Gains(t)
    <3>1. pc[w] = "commit" /\ pc'[w] = "idle"
      BY <2>2 DEF NewCommit, Step, TypeOK, Procs
    <3> QED BY <1>2, <2>2, <3>1, OtherClients
  <2>3. Prune \/ (\E w \in Workers : NewCommit(w)) \/ UNCHANGED allocs
    BY <1>5 DEF Background, Continue, NewContinue, NewListen, NewListenFail, NewCommitLost,
       SendWrite, Dealloc, HandlePeerData, ReaderStops
  <2> QED BY <1>3, <2>1, <2>2, <2>3
<1>6. CASE TurnTick \/ TurnRestart
  BY <1>1, <1>6, TableFades DEF TurnTick, TurnRestart
<1>7. Background \/ TurnTick \/ TurnRestart \/ (\E w \in Workers : Handle(w)) \/ UNCHANGED allocs
  BY DEF TurnNext, setOptions, worker, Front, serveConn, Ends, processMessage, processAuth,
     turnVars, vars
<1> QED BY <1>3, <1>4, <1>5, <1>6, <1>7

\* Where there is an authenticator, what a client gains it gains by a request that
\* has shown the client's credentials with the nonce current at that time.
THEOREM AllocationsAuthenticated == TurnSpec => AuthenticatedOnly
<1>1. TypeOK /\ TurnTypeOK /\ AuthInv /\ [TurnNext]_turnVars =>
        [\A t \in Tuples : Gains(t) =>
            \/ \E w \in Workers : /\ ctx[w].stage = "handle" /\ ctx[w].tuple = t
                                 /\ AuthRequired => ctx[w].admitted
                                 /\ ctx'[w].stage = "idle"
            \/ \E w \in Workers : /\ pc[w] = "commit" /\ arg[w].tuple = t
                                 /\ pc'[w] = "idle"]_turnVars
  BY GainStep DEF AuthInv, HandlesAuthenticated
<1> QED BY <1>1, AuthInvariant, TurnTypeCorrect, TurnUsesAllocator, TypeCorrect, PTL
        DEF TurnSpec, UsesAllocator, AuthenticatedOnly

\* A client that the reloaded filter and its own requests in flight deny gets
\* nothing more, keeps nothing longer and sends nothing more.
THEOREM DeniedClientsFade == TurnSpec => DeniedClientFades
<1> DEFINE NoCalls(t) ==
        \A w \in Workers :
            /\ pc'[w] \in {"listen", "commit"} => arg'[w].tuple # t
            /\ (pc[w] # "write" /\ pc'[w] = "write") => arg'[w].tuple # t
<1> DEFINE Hyp(t) ==
        TypeOK /\ TurnTypeOK /\ ServedAllowed /\ [TurnNext]_turnVars /\ ClientShut(t)
\* The requests that reach a handler are those of other clients.
<1>1. ASSUME NEW t \in Tuples, Hyp(t), NEW w \in Workers, ctx[w].stage \in {"handle", "data"}
      PROVE  ctx[w].tuple # t
  BY <1>1 DEF ServedAllowed, ClientShut
<1>2. ASSUME NEW t \in Tuples, Hyp(t) PROVE ~Gains(t)
  BY <1>1, <1>2, GainStep DEF ClientShut
<1>3. ASSUME NEW t \in Tuples, Hyp(t) PROVE NoCalls(t)
  <2> SUFFICES ASSUME NEW w \in Workers
               PROVE  /\ pc'[w] \in {"listen", "commit"} => arg'[w].tuple # t
                      /\ (pc[w] # "write" /\ pc'[w] = "write") => arg'[w].tuple # t
    OBVIOUS
  <2> DEFINE Calm ==
        \/ pc'[w] \in {"idle", "dealloc"}
        \/ arg'[w].tuple # t
        \/ /\ arg'[w].tuple = arg[w].tuple
           /\ pc'[w] = pc[w] \/ pc[w] = "listen"
  <2> SUFFICES Calm
    BY <1>3 DEF ClientShut
  <2>a. /\ pc \in [Procs -> {"idle", "listen", "commit", "dealloc", "write"}]
        /\ arg \in [Procs -> Locals] /\ w \in Procs /\ w # Collector
        /\ Workers \subseteq Procs
    BY <1>3, ProcessAssumption DEF TypeOK, Procs
  <2>1. CASE UNCHANGED <<pc, arg>>
    BY <2>1
  <2>2. ASSUME NEW v \in Workers, Handle(v) PROVE Calm
    <3>1. \A stage \in {"handle", "data"} : Handled(v, stage) => ctx[v].tuple # t
      BY <1>1, <1>3 DEF Handled
    <3>2. CASE processAllocateRequest(v)
      <4>1. PICK d \in Lifetimes : NewReserve(v, ctx[v].tuple, d)
        BY <3>2 DEF processAllocateRequest
      <4>2. ctx[v].tuple # t
        BY <3>1, <3>2 DEF processAllocateRequest
      <4>3. /\ arg' = [arg EXCEPT ![v] = [NoLocals EXCEPT !.tuple = ctx[v].tuple, !.timeout = d]]
            /\ pc' = [pc EXCEPT ![v] = "listen"]
        BY <4>1 DEF NewReserve, Step
      <4> QED BY <2>a, <4>2, <4>3 DEF NoLocals
    <3>3. CASE \E d \in Time : Refresh(ctx[v].tuple, d)
      BY <2>1, <3>3 DEF Refresh, Atomic
    <3>4. CASE Remove(v, ctx[v].tuple)
      BY <2>a, <3>4 DEF Remove, Step
    <3>5. CASE processCreatePermissionRequest(v) \/ processChannelBinding(v)
      BY <2>1, <3>5 DEF processCreatePermissionRequest, processChannelBinding, CreatePermission,
         ChannelBind, Atomic
    <3>6. CASE processSendIndication(v) \/ processChannelData(v)
      <4>1. PICK r, peer : Sending(v, ctx[v].tuple, r, peer)
        BY <3>6 DEF processSendIndication, processChannelData, SendLookup, SendBoundLookup
      <4>2. ctx[v].tuple # t
        BY <3>1, <3>6 DEF processSendIndication, processChannelData
      <4> QED BY <2>a, <4>1, <4>2 DEF Sending, Step
    <3> QED BY <2>2, <3>2, <3>3, <3>4, <3>5, <3>6 DEF Handle, processRefreshRequest
  <2>3. CASE Background
    <3>1. ASSUME NEW v \in Workers, NEW r \in Relays, NewListen(v, r) PROVE Calm
      <4>1. /\ arg' = [arg EXCEPT ![v].relay = r] /\ pc[v] = "listen"
            /\ pc' = [pc EXCEPT ![v] = "commit"]
        BY <3>1 DEF NewListen, Step
      <4>2. \A l \in Locals : [l EXCEPT !.relay = r].tuple = l.tuple
        BY DEF Locals
      <4> QED BY <2>a, <4>1, <4>2
    <3>2. ASSUME NEW v \in Procs, NewListenFail(v) \/ NewCommit(v) \/ SendWrite(v) \/ Dealloc(v)
          PROVE  Calm
      <4>1. pc' = [pc EXCEPT ![v] = "idle"]
        BY <3>2 DEF NewListenFail, NewCommit, SendWrite, Dealloc, Step
      <4>2. w # v => arg'[w] = arg[w]
        BY <2>a, <3>2 DEF NewListenFail, NewCommit, SendWrite, Dealloc
      <4> QED BY <2>a, <4>1, <4>2
    <3>3. CASE Prune
      BY <2>a, <3>3 DEF Prune, Step
    <3>4. CASE \/ \E v \in Workers : NewCommitLost(v)
               \/ \E r \in Relays, peer \in Peers : HandlePeerData(r, peer)
               \/ \E r \in Relays : ReaderStops(r)
      BY <2>1, <3>4 DEF NewCommitLost, HandlePeerData, ReaderStops
    <3> QED BY <2>3, <2>a, <3>1, <3>2, <3>3, <3>4 DEF Background, Continue, NewContinue
  <2>4. CASE TurnTick
    <3>1. pc' = pc /\ arg' = [v \in Procs |-> [arg[v] EXCEPT !.timeout = Less(@)]]
      BY <2>4 DEF TurnTick, Tick
    <3>2. \A l \in Locals : \A d : [l EXCEPT !.timeout = d].tuple = l.tuple
      BY DEF Locals
    <3> QED BY <2>a, <3>1, <3>2
  <2>5. CASE TurnRestart
    BY <2>a, <2>5 DEF TurnRestart, Restart
  <2>6. \/ Background \/ TurnTick \/ TurnRestart \/ (\E v \in Workers : Handle(v))
        \/ UNCHANGED <<pc, arg>>
    BY <1>3 DEF TurnNext, setOptions, worker, Front, serveConn, Ends, processMessage, processAuth,
       turnVars, vars
  <2> QED BY <2>1, <2>2, <2>3, <2>4, <2>5, <2>6
<1>4. ASSUME NEW t \in Tuples, Hyp(t), ClientDenied(t)', NoCalls(t) PROVE ClientShut(t)'
  <2> SUFFICES ASSUME NEW w \in Workers, ctx'[w].stage # "idle", ctx'[w].tuple = t
               PROVE  ~allowClient(ctx'[w])
    BY <1>4 DEF ClientShut, allowClient
  <2>1. CtxMoved(w)
    BY <1>4, CtxMoves
  <2> QED BY <1>4, <2>1 DEF CtxMoved, ClientShut, ClientDenied, allowClient
<1>5. TypeOK /\ TurnTypeOK /\ ServedAllowed /\ [TurnNext]_turnVars
        => [\A t \in Tuples : ClientShut(t) =>
              /\ ClientDenied(t)' => ClientShut(t)'
              /\ ~Gains(t)
              /\ \A w \in Workers :
                    (pc[w] # "write" /\ pc'[w] = "write") => arg'[w].tuple # t]_turnVars
  BY <1>2, <1>3, <1>4
<1> QED BY <1>5, AllowedInvariant, TurnTypeCorrect, TurnUsesAllocator, TypeCorrect, PTL
        DEF TurnSpec, UsesAllocator, DeniedClientFades

-----------------------------------------------------------------------------
(* Isolation *)

\* Whoever else is served, and whatever is reloaded meanwhile: only a client's own
\* admitted request, or its own New, takes something unexpired from it.
THEOREM OwnRequestsOnlyTake == TurnSpec => OwnRequestsOnly
<1>1. ASSUME TypeOK, TurnTypeOK, TurnNext, ~panicked, NEW t \in Tuples,
             ~\E w \in Workers : /\ ctx[w].stage = "handle" /\ ctx[w].tuple = t
                                /\ ctx'[w].stage = "idle",
             ~\E w \in Workers : pc[w] = "commit" /\ arg[w].tuple = t /\ pc'[w] = "idle"
      PROVE  Untouched(t)
  <2>1. CASE UNCHANGED allocs
    BY <1>1, <2>1, StaysUntouched
  <2>2. ASSUME NEW w \in Workers, Handle(w) PROVE Untouched(t)
    <3>1. CASE processSendIndication(w) \/ processChannelData(w)
      BY <2>1, <3>1 DEF processSendIndication, processChannelData, SendLookup, SendBoundLookup,
                        Sending
    <3>2. CASE Handled(w, "handle")
      <4>1. ctx'[w].stage = "idle" /\ ctx[w].stage = "handle" /\ ctx[w].tuple \in Tuples
        BY <1>1, <3>2, BusyContext DEF BusyContexts, Handled, TurnTypeOK, NoContext
      <4>2. ctx[w].tuple \in Tuples \ {t}
        BY <1>1, <4>1
      <4>3. CASE processAllocateRequest(w)
        BY <1>1, <4>2, <4>3, OthersUntouched DEF processAllocateRequest
      <4>4. CASE processRefreshRequest(w)
        BY <1>1, <4>2, <4>4, OthersUntouched DEF processRefreshRequest
      <4>5. CASE processCreatePermissionRequest(w)
        BY <1>1, <4>2, <4>5, OthersUntouched DEF processCreatePermissionRequest
      <4>6. CASE processChannelBinding(w)
        BY <1>1, <4>2, <4>6, OthersUntouched DEF processChannelBinding
      <4> QED BY <2>2, <3>1, <4>3, <4>4, <4>5, <4>6 DEF Handle
    <3> QED BY <2>2, <3>1, <3>2 DEF Handle, processAllocateRequest, processRefreshRequest,
               processCreatePermissionRequest, processChannelBinding
  <2>3. CASE Background
    <3>1. CASE Prune
      BY <1>1, <3>1, StaysUntouched
    <3>2. ASSUME NEW w \in Workers, NewCommit(w) PROVE Untouched(t)
      <4>1. pc[w] = "commit" /\ pc'[w] = "idle"
        BY <1>1, <3>2 DEF NewCommit, Step, TypeOK, Procs
      <4> QED BY <1>1, <3>2, <4>1, OthersUntouched
    <3>3. Prune \/ (\E w \in Workers : NewCommit(w)) \/ UNCHANGED allocs
      BY <2>3 DEF Background, Continue, NewContinue, NewListen, NewListenFail, NewCommitLost,
         SendWrite, Dealloc, HandlePeerData, ReaderStops
    <3> QED BY <2>1, <3>1, <3>2, <3>3
  <2>4. CASE TurnTick
    BY <1>1, <2>4, StaysUntouched DEF TurnTick
  <2>5. CASE TurnRestart
    BY <1>1, <2>5 DEF TurnRestart, Restart
  <2>6. Background \/ TurnTick \/ TurnRestart \/ (\E w \in Workers : Handle(w)) \/ UNCHANGED allocs
    BY <1>1 DEF TurnNext, setOptions, worker, Front, serveConn, Ends, processMessage, processAuth,
       vars
  <2> QED BY <2>1, <2>2, <2>3, <2>4, <2>5, <2>6
<1>2. TypeOK /\ TurnTypeOK /\ [TurnNext]_turnVars =>
        [~panicked => \A t \in Tuples :
            \/ Untouched(t)
            \/ \E w \in Workers : /\ ctx[w].stage = "handle" /\ ctx[w].tuple = t
                                 /\ ctx'[w].stage = "idle"
            \/ \E w \in Workers : /\ pc[w] = "commit" /\ arg[w].tuple = t
                                 /\ pc'[w] = "idle"]_turnVars
  BY <1>1
<1> QED BY <1>2, TurnTypeCorrect, TurnUsesAllocator, TypeCorrect, PTL
        DEF TurnSpec, UsesAllocator, OwnRequestsOnly

=============================================================================
