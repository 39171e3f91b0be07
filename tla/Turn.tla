-------------------------------- MODULE Turn --------------------------------
(***************************************************************************)
(* The TURN server of one listener: what stands between a datagram and the *)
(* allocation table of module Allocator.  A reader copies the current      *)
(* configuration into the request's context, a worker applies the client   *)
(* filter, the nonce and the credentials, and the handler of the request   *)
(* applies the peer filter and calls the table.  The configuration is      *)
(* reloaded at any time; a request keeps the copy it was read with.        *)
(*                                                                         *)
(* The contents of a datagram are chosen where the code looks at them, so  *)
(* a context holds only the client, the copied configuration and how far   *)
(* the request got.  Responses change no state of the server and are left  *)
(* out; a request answered with an error, a Binding request and what       *)
(* cannot be decoded all just end.                                         *)
(***************************************************************************)
EXTENDS Allocator, Integers, Sequences

CONSTANTS
    Configs,        \* the configurations an operator may write to the file
    AuthRequired,   \* the server has an authenticator
    NonceDuration,  \* how long a nonce is valid, in ticks; 0 if for ever
    MaxNonces,      \* bound: how many nonces are generated
    MaxDelay,       \* bound: how many ticks pass between the clock and the nonce check
    NoCfg

ASSUME TurnAssumption ==
    /\ AuthRequired \in BOOLEAN /\ NonceDuration \in Nat
    /\ MaxNonces \in Nat /\ MaxDelay \in Nat

\* What parseFilteringRules accepts: a rule may pass, the default may not.
FilterParsed(f) ==
    /\ f.action \in {"allow", "deny"}
    /\ \A i \in DOMAIN f.rules : f.rules[i].action \in {"allow", "deny", "pass"}

\* A file with a filter that is not accepted is not applied.
ASSUME ConfigAssumption ==
    \A c \in Configs : FilterParsed(c.peerFilter) /\ FilterParsed(c.clientFilter)

VARIABLES
    cfg,        \* Server.cfg
    ctx,        \* per worker: the context it serves
    nonces,     \* NonceAuth.nonces: per client, value 0 if there is none
    issued,     \* how many nonces were generated
    lastNonce   \* history: per client, the nonce its last admitted request had

Nonces == [value: 0..MaxNonces, left: -MaxDelay..NonceDuration]

authVars == <<nonces, issued, lastNonce>>
turnVars == <<vars, cfg, ctx, authVars>>

\* A context carries the time serveConn read, as the ticks that passed since then
\* (`age`, until the nonce is checked).  `admitted` is a history variable: the
\* request has shown its credentials.
BusyContexts ==
    [stage: {"read", "serve", "handle", "data"}, tuple: Tuples, cfg: Configs,
     age: 0..MaxDelay, admitted: BOOLEAN]

NoContext ==
    [stage |-> "idle", tuple |-> NoTuple, cfg |-> NoCfg, age |-> 0, admitted |-> FALSE]

Contexts == BusyContexts \union {NoContext}

-----------------------------------------------------------------------------
(* internal/filter *)

\* List.Action: the first rule that does not pass decides, or else the default.
Action(f, addr) ==
    LET matched == {i \in DOMAIN f.rules :
                        addr \in f.rules[i].net /\ f.rules[i].action # "pass"}
    IN  IF matched = {} THEN f.action
        ELSE f.rules[CHOOSE i \in matched : \A j \in matched : i <= j].action

allowPeer(c, ip) == Action(c.cfg.peerFilter, ip) = "allow"

allowClient(c) == Action(c.cfg.clientFilter, c.tuple) = "allow"

-----------------------------------------------------------------------------
TurnInit ==
    /\ Init
    /\ cfg \in Configs
    /\ ctx = [w \in Workers |-> NoContext]
    /\ nonces = [t \in Tuples |-> [value |-> 0, left |-> 0]]
    /\ issued = 0
    /\ lastNonce = [t \in Tuples |-> 0]

\* Server.setOptions, called by Updater.Set.
setOptions ==
    /\ ~panicked
    /\ cfg' \in Configs
    /\ UNCHANGED <<vars, ctx, authVars>>

\* Server.worker read a datagram; a worker of the pool is going to serve it.
worker(w, t) ==
    /\ ~panicked
    /\ pc[w] = "idle" /\ ctx[w].stage = "idle"
    /\ ctx' = [ctx EXCEPT ![w] =
                  [stage |-> "read", tuple |-> t, cfg |-> cfg, age |-> 0, admitted |-> FALSE]]
    /\ UNCHANGED <<vars, cfg, authVars>>

-----------------------------------------------------------------------------
(* Server.serveConn, Server.process and Server.processMessage *)

Served(c) == [c EXCEPT !.stage = "serve"]

\* Faulty variant: the client's address is not looked at.
FaultyServeConn(w) ==
    /\ ~panicked
    /\ ctx[w].stage = "read"
    /\ ctx' = [ctx EXCEPT ![w] = Served(@)]
    /\ UNCHANGED <<vars, cfg, authVars>>

\* The clock is read, and the client passes the filter.
serveConn(w) ==
    /\ ~panicked
    /\ ctx[w].stage = "read"
    /\ allowClient(ctx[w])
    /\ ctx' = [ctx EXCEPT ![w] = Served(@)]
    /\ UNCHANGED <<vars, cfg, authVars>>

\* The request gets no further: denied, undecodable, unsupported, a Binding
\* request, or answered with an error.
Ends(w) ==
    /\ ~panicked
    /\ ctx[w].stage # "idle"
    /\ ctx' = [ctx EXCEPT ![w] = NoContext]
    /\ UNCHANGED <<vars, cfg, authVars>>

\* Where a message goes that processMessage lets through.
Dispatched(c, class, admitted) ==
    IF class = "binding" THEN NoContext
    ELSE [c EXCEPT !.stage = IF class = "request" THEN "handle" ELSE "data",
                   !.age = 0, !.admitted = admitted]

\* Faulty variant: only Binding requests are asked for credentials.
FaultyNeedAuth(c, class) == AuthRequired /\ class = "binding" /\ c.cfg.authForSTUN

needAuth(c, class) ==
    /\ AuthRequired
    /\ class \notin {"indication", "channel"}
    /\ class = "binding" => c.cfg.authForSTUN

\* No credentials needed: an indication, ChannelData, or a public server.
processMessage(w, class) ==
    /\ ~panicked
    /\ ctx[w].stage = "serve"
    /\ ~needAuth(ctx[w], class)
    /\ ctx' = [ctx EXCEPT ![w] = Dispatched(@, class, FALSE)]
    /\ UNCHANGED <<vars, cfg, authVars>>

(* NonceAuth.Check and Static.Auth *)

\* The client's nonce, perhaps made since by another worker, is valid at the time
\* this request's clock shows: a nonce has `left` ticks from now, below zero if
\* it is past, and the clock was read `age` ticks ago.
Current(c) ==
    /\ nonces[c.tuple].value # 0
    /\ NonceDuration = 0 \/ nonces[c.tuple].left + c.age > 0

\* Faulty variant: a nonce lasts twice the duration.
FaultyNewNonce(c) ==
    /\ issued < MaxNonces
    /\ issued' = issued + 1
    /\ nonces' = [nonces EXCEPT ![c.tuple] =
                     [value |-> issued + 1, left |-> 2 * NonceDuration - c.age]]

\* A nonce is made for a new client or in place of one that expired.  Its
\* duration counts from when the clock was read.
NewNonce(c) ==
    /\ issued < MaxNonces
    /\ issued' = issued + 1
    /\ nonces' = [nonces EXCEPT ![c.tuple] =
                     [value |-> issued + 1, left |-> NonceDuration - c.age]]

\* Faulty variant: any nonce handed out before is taken.
FaultyAuthentic(c, value, good) == good /\ Current(c)

\* The message has the client's current nonce and is good: Static.Auth knows its
\* user and realm, and its integrity is right.  The realm of a challenge is the
\* reloaded one, so that a client who follows it may be unknown to Static.
Authentic(c, value, good) == good /\ Current(c) /\ value = nonces[c.tuple].value

Admitted(w, class, value) ==
    /\ ctx' = [ctx EXCEPT ![w] = Dispatched(@, class, TRUE)]
    /\ lastNonce' = [lastNonce EXCEPT ![ctx[w].tuple] = value]
    /\ UNCHANGED <<nonces, issued>>

\* 401 or 438 with the client's nonce, which is made or replaced if need be.
Challenged(w) ==
    /\ ctx' = [ctx EXCEPT ![w] = NoContext]
    /\ IF Current(ctx[w]) THEN UNCHANGED <<nonces, issued>> ELSE NewNonce(ctx[w])
    /\ UNCHANGED lastNonce

\* A message that needs credentials.
processAuth(w, class, value, good) ==
    /\ ~panicked
    /\ ctx[w].stage = "serve"
    /\ needAuth(ctx[w], class)
    /\ IF Authentic(ctx[w], value, good)
       THEN Admitted(w, class, value)
       ELSE Challenged(w)
    /\ UNCHANGED <<vars, cfg>>

-----------------------------------------------------------------------------
(* The handlers *)

\* The handler of worker w's request, at `stage`, is called and finishes.
Handled(w, stage) ==
    /\ ctx[w].stage = stage
    /\ ctx' = [ctx EXCEPT ![w] = NoContext]
    /\ UNCHANGED <<cfg, authVars>>

processAllocateRequest(w) ==
    /\ Handled(w, "handle")
    /\ \E d \in Lifetimes : NewReserve(w, ctx[w].tuple, d)

\* Faulty variant: the entry is dropped here, and its socket forgotten.
FaultyProcessRefreshRequest(w) ==
    /\ Handled(w, "handle")
    /\ \/ Atomic /\ allocs' = {a \in allocs : a.tuple # ctx[w].tuple}
       \/ \E d \in Time : Refresh(ctx[w].tuple, d)

\* A lifetime of 0 removes the allocation.
processRefreshRequest(w) ==
    /\ Handled(w, "handle")
    /\ \/ Remove(w, ctx[w].tuple)
       \/ \E d \in Time : Refresh(ctx[w].tuple, d)

processCreatePermissionRequest(w) ==
    /\ Handled(w, "handle")
    /\ \E ip \in IPs, d \in Time :
          allowPeer(ctx[w], ip) /\ CreatePermission(ctx[w].tuple, ip, d)

\* Faulty variant: the peer's address is not looked at.
FaultyProcessChannelBinding(w) ==
    /\ Handled(w, "handle")
    /\ \E n \in Channels, peer \in Peers, d \in Lifetimes : ChannelBind(ctx[w].tuple, n, peer, d)

processChannelBinding(w) ==
    /\ Handled(w, "handle")
    /\ \E n \in Channels, peer \in Peers, d \in Lifetimes :
          allowPeer(ctx[w], peer.ip) /\ ChannelBind(ctx[w].tuple, n, peer, d)

processSendIndication(w) ==
    /\ Handled(w, "data")
    /\ \E peer \in Peers : SendLookup(w, ctx[w].tuple, peer)

processChannelData(w) ==
    /\ Handled(w, "data")
    /\ \E n \in Channels : SendBoundLookup(w, ctx[w].tuple, n)

-----------------------------------------------------------------------------
\* Bound: the last nonce that is generated does not expire, so that clients can
\* go on for ever although nonces cannot.
AgedNonce(n) ==
    IF n.value \in {0, MaxNonces} \/ n.left <= -MaxDelay THEN n ELSE [n EXCEPT !.left = @ - 1]

AgedContext(c) == IF c.stage = "serve" THEN [c EXCEPT !.age = @ + 1] ELSE c

TurnTick ==
    /\ Tick
    /\ \A w \in Workers : ctx[w].age < MaxDelay \/ ctx[w].stage # "serve"
    /\ ctx' = [w \in Workers |-> AgedContext(ctx[w])]
    /\ nonces' = [t \in Tuples |-> AgedNonce(nonces[t])]
    /\ UNCHANGED <<cfg, issued, lastNonce>>

\* A restarted server reads the file as it is by then and knows no nonces.
TurnRestart ==
    /\ Restart
    /\ cfg' \in Configs
    /\ ctx' = [w \in Workers |-> NoContext]
    /\ nonces' = [t \in Tuples |-> [value |-> 0, left |-> 0]]
    /\ UNCHANGED <<issued, lastNonce>>

\* Steps of the allocator that no request starts.
Continue(w) == NewContinue(w) \/ SendWrite(w)

Background ==
    /\ \/ \E w \in Workers : Continue(w)
       \/ \E w \in Procs : Dealloc(w)
       \/ Prune
       \/ \E r \in Relays, peer \in Peers : HandlePeerData(r, peer)
       \/ \E r \in Relays : ReaderStops(r)
    /\ UNCHANGED <<cfg, ctx, authVars>>

Classes == {"request", "binding", "indication", "channel"}

Front(w) ==
    \/ serveConn(w)
    \/ Ends(w)
    \/ \E class \in Classes : processMessage(w, class)
    \/ \E class \in Classes, value \in 0..MaxNonces, good \in BOOLEAN :
          processAuth(w, class, value, good)

Handle(w) ==
    \/ processAllocateRequest(w) \/ processRefreshRequest(w)
    \/ processCreatePermissionRequest(w) \/ processChannelBinding(w)
    \/ processSendIndication(w) \/ processChannelData(w)

TurnNext ==
    \/ setOptions
    \/ \E w \in Workers, t \in Tuples : worker(w, t)
    \/ \E w \in Workers : Front(w) \/ Handle(w)
    \/ Background
    \/ TurnTick
    \/ TurnRestart

\* As in Allocator; besides, a worker finishes the request it has begun.
TurnFairness ==
    /\ WF_turnVars(TurnTick) /\ WF_turnVars(TurnRestart)
    /\ WF_turnVars(Prune /\ Background)
    /\ \A w \in Procs : WF_turnVars(Dealloc(w) /\ Background)
    /\ \A w \in Workers : WF_turnVars(Continue(w) /\ Background) /\ WF_turnVars(Front(w) \/ Handle(w))

TurnSpec == TurnInit /\ [][TurnNext]_turnVars

TurnFairSpec == TurnSpec /\ TurnFairness

-----------------------------------------------------------------------------
(* Properties *)

TurnTypeOK ==
    /\ cfg \in Configs
    /\ ctx \in [Workers -> Contexts]
    /\ nonces \in [Tuples -> Nonces]
    /\ issued \in 0..MaxNonces
    /\ lastNonce \in [Tuples -> 0..MaxNonces]

\* The server uses the allocation table only as module Allocator allows, so
\* everything shown there holds for it.
UsesAllocator == Spec

\* Nothing unexpired is taken from a client but by a request of its own that the
\* server has admitted, or by the end of its own New: no other client's request,
\* no indication, no reload, no round of the collector does.
OwnRequestsOnly ==
    [][~panicked => \A t \in Tuples :
          \/ Untouched(t)
          \/ \E w \in Workers : /\ ctx[w].stage = "handle" /\ ctx[w].tuple = t
                               /\ ctx'[w].stage = "idle"
          \/ \E w \in Workers : /\ pc[w] = "commit" /\ arg[w].tuple = t
                               /\ pc'[w] = "idle"]_turnVars

\* Permission q is what has become of permission p, and nothing of it lasts longer.
Fades(p, q) ==
    /\ q.ip = p.ip /\ q.timeout <= p.timeout
    /\ \A x \in q.binds : \E y \in p.binds :
          y.port = x.port /\ y.chan = x.chan /\ x.timeout <= y.timeout

\* Entry b is what has become of entry a, and nothing of it lasts longer.
EntryFades(a, b) ==
    /\ b.tuple = a.tuple /\ b.relay = a.relay /\ b.timeout <= a.timeout
    /\ \A q \in b.perms : \E p \in a.perms : Fades(p, q)

\* After the step client t has something it did not have before: an allocation, an
\* address, a permission, a binding, or one of them for longer.
Gains(t) == \E b \in allocs' : b.tuple = t /\ \A a \in allocs : ~EntryFades(a, b)

\* A client gains something only by a request of its own that, if there is an
\* authenticator, has itself been admitted with the client's nonce and credentials,
\* or by the end of its own New: neither indications, which are not authenticated,
\* nor a client admitted before, a rotation or a restart get round it.
AuthenticatedOnly ==
    [][\A t \in Tuples : Gains(t) =>
          \/ \E w \in Workers : /\ ctx[w].stage = "handle" /\ ctx[w].tuple = t
                               /\ AuthRequired => ctx[w].admitted
                               /\ ctx'[w].stage = "idle"
          \/ \E w \in Workers : /\ pc[w] = "commit" /\ arg[w].tuple = t
                               /\ pc'[w] = "idle"]_turnVars

\* A nonce that was rotated out never admits a request again, whatever the
\* order in which the workers serve the client's requests.
NonceForward == [][\A t \in Tuples : lastNonce'[t] >= lastNonce[t]]_turnVars

\* A peer the reloaded filter denies loses its permissions: requests in flight
\* with the old configuration end, nothing renews what they left, and it expires.
PeerDenied(ip) == Action(cfg.peerFilter, ip) # "allow"

DeniedPeerGone ==
    \A ip \in IPs :
        <>[]PeerDenied(ip) => <>[](\A a \in allocs : \A p \in a.perms : p.ip # ip)

\* A client the reloaded filter denies loses its allocation, although it may
\* have had a request in flight and a New under way.
ClientDenied(t) == Action(cfg.clientFilter, t) # "allow"

DeniedClientGone ==
    \A t \in Tuples : <>[]ClientDenied(t) => <>[]~InUse(t)

\* The filter denies the peer, and so does the configuration of every request
\* that is still being served.
PeerShut(ip) ==
    /\ PeerDenied(ip)
    /\ \A w \in Workers : ctx[w].stage # "idle" => ~allowPeer(ctx[w], ip)

\* A peer that is shut out stays so until the filter allows it again, and
\* meanwhile no step of any client, worker or goroutine gives it a permission or
\* a binding, or prolongs one it has.
DeniedPeerFades ==
    [][\A ip \in IPs : PeerShut(ip) =>
          /\ PeerDenied(ip)' => PeerShut(ip)'
          /\ \A b \in allocs' : \A q \in b.perms : q.ip = ip =>
                \E a \in allocs : a.tuple = b.tuple /\ \E p \in a.perms : Fades(p, q)]_turnVars

\* The filter denies the client, so does the configuration of each of its
\* requests that is still being served, and it has no New under way.
ClientShut(t) ==
    /\ ClientDenied(t)
    /\ \A w \in Workers :
          /\ (ctx[w].stage # "idle" /\ ctx[w].tuple = t) => ~allowClient(ctx[w])
          /\ pc[w] \in {"listen", "commit"} => arg[w].tuple # t

\* A client that is shut out stays so until the filter allows it again, and
\* meanwhile it gets no allocation, nothing of the one it has lasts longer, and
\* none of its data is accepted: not even of indications, which only the client
\* filter stops.
DeniedClientFades ==
    [][\A t \in Tuples : ClientShut(t) =>
          /\ ClientDenied(t)' => ClientShut(t)'
          /\ ~Gains(t)
          /\ \A w \in Workers :
                (pc[w] # "write" /\ pc'[w] = "write") => arg'[w].tuple # t]_turnVars

=============================================================================
