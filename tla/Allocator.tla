------------------------------ MODULE Allocator ------------------------------
(***************************************************************************)
(* The allocation table of the TURN server (internal/allocator), together  *)
(* with the NetAllocator that opens the relayed sockets, the goroutines    *)
(* that read those sockets and the server's peer-data callback.            *)
(*                                                                         *)
(* Each method of Allocator is split where the code releases allocsMux:    *)
(* New reserves the 5-tuple, opens a socket without the lock, and commits; *)
(* Remove and Prune update the table and then, without the lock, ask the   *)
(* NetAllocator to close sockets; Send and SendBound look the connection   *)
(* up and write to it after unlocking.  A method whose whole effect is one *)
(* critical section is one action and needs no process.  An error return   *)
(* that changes nothing is a stuttering step, so the guards of an action   *)
(* are the conditions under which the method changes something.            *)
(*                                                                         *)
(* Time is relative: every deadline is the number of ticks left, 0 meaning *)
(* that time.Time.After(now) is false.  A request is applied some time     *)
(* after serveConn read the clock, so its deadline is any value up to the  *)
(* longest lifetime.  Where the client chooses the lifetime (Refresh and   *)
(* CreatePermission) it may be so short that the deadline has passed by    *)
(* then; New and ChannelBind get the server's default, a minute.           *)
(*                                                                         *)
(* Which requests reach the table (authentication, filters, parsing) is    *)
(* not decided here: any request may come at any time, so what is shown    *)
(* holds whatever the front of the server lets through.                    *)
(***************************************************************************)
EXTENDS Naturals

CONSTANTS
    Tuples,         \* 5-tuples of clients (all have the listener's address as Server)
    IPs, Ports,     \* peer addresses
    Channels,       \* channel numbers for which ChannelNumber.Valid() holds
    Relays,         \* relayed transport addresses the system can bind
    ServerAddr,     \* the address of the listener, Tuple.Server of every tuple
    Workers,        \* goroutines of the worker pool
    Collector,      \* the goroutine started by startCollect
    MaxLifetime,    \* the largest lifetime, in ticks
    NoTuple, NoRelay, NoPeer, NoChannel, NoMsg

ASSUME LifetimeAssumption == MaxLifetime \in Nat \ {0}
ASSUME AddressAssumption == ServerAddr \notin Relays /\ NoRelay \notin Relays
ASSUME ProcessAssumption == Collector \notin Workers
ASSUME NullAssumption == NoTuple \notin Tuples /\ NoChannel \notin Channels

VARIABLES
    allocs,     \* Allocator.allocs, the table
    open,       \* relayed addresses in NetAllocator.allocs, their sockets bound
    owner,      \* per relayed address, the Tuple captured by its reader
    readers,    \* relayed addresses whose ReadUntilClosed loop is running
    pc, arg,    \* per process: where it is between critical sections, its locals
    out,        \* the datagram written by the last step, NoMsg if none
    panicked    \* the process died of a nil dereference

vars == <<allocs, open, owner, readers, pc, arg, out, panicked>>

-----------------------------------------------------------------------------
(* Data *)

Lifetimes == 1..MaxLifetime
Time == 0..MaxLifetime
Procs == Workers \union {Collector}
Peers == [ip: IPs, port: Ports]

Binding == [port: Ports, chan: Channels, timeout: Time]
Permission == [ip: IPs, timeout: Time, binds: SUBSET Binding]
Allocation == [tuple: Tuples, perms: SUBSET Permission,
               relay: Relays \union {NoRelay}, timeout: Time]

Locals == [tuple: Tuples \union {NoTuple}, timeout: Time,
           relay: Relays \union {NoRelay}, peer: Peers \union {NoPeer}]
NoLocals == [tuple |-> NoTuple, timeout |-> 0, relay |-> NoRelay, peer |-> NoPeer]

Msgs == [to: {"client", "peer"}, tuple: Tuples, relay: Relays, peer: Peers,
         chan: Channels \union {NoChannel}]

Later(s, t) == IF s > t THEN s ELSE t

\* Faulty variant: an entry counts only once it has a connection.
FaultyInUse(t) == \E a \in allocs : a.tuple = t /\ a.relay # NoRelay

InUse(t) == \E a \in allocs : a.tuple = t

\* A fresh entry of the table: no permissions, no connection when r = NoRelay.
Entry(t, r, d) == [tuple |-> t, perms |-> {}, relay |-> r, timeout |-> d]

\* The table with entry a rewritten to b, as the in-place update of allocs[i].
Put(a, b) == (allocs \ {a}) \union {b}

\* The table with permission p of entry a rewritten to q.
PutPermission(a, p, q) ==
    Put(a, [a EXCEPT !.perms = (a.perms \ {p}) \union {q}])

-----------------------------------------------------------------------------
Init ==
    /\ allocs = {}
    /\ open = {}
    /\ owner = [r \in Relays |-> NoTuple]
    /\ readers = {}
    /\ pc = [w \in Procs |-> "idle"]
    /\ arg = [w \in Procs |-> NoLocals]
    /\ out = NoMsg
    /\ panicked = FALSE

\* Process w, in a live server, goes from one unlocked point to the next.
Step(w, from, to) ==
    /\ ~panicked
    /\ pc[w] = from
    /\ pc' = [pc EXCEPT ![w] = to]
    /\ UNCHANGED panicked

\* A method that is a single critical section: no process is left in between.
Atomic ==
    /\ ~panicked
    /\ out' = NoMsg
    /\ UNCHANGED <<open, owner, readers, pc, arg, panicked>>

-----------------------------------------------------------------------------
(* Allocator.New *)

\* First critical section: the 5-tuple is reserved by an entry without Conn.
NewReserve(w, t, d) ==
    /\ Step(w, "idle", "listen")
    /\ ~InUse(t)
    /\ allocs' = allocs \union {Entry(t, NoRelay, d)}
    /\ arg' = [arg EXCEPT ![w] = [NoLocals EXCEPT !.tuple = t, !.timeout = d]]
    /\ out' = NoMsg
    /\ UNCHANGED <<open, owner, readers>>

\* SystemPortAllocator: the system picks any address that is not bound.
AllocatePort(r) == r \notin open

\* Faulty variant: the port may be in use already.
FaultyNewListen(w, r) ==
    /\ Step(w, "listen", "commit")
    /\ open' = open \union {r}
    /\ owner' = [owner EXCEPT ![r] = arg[w].tuple]
    /\ arg' = [arg EXCEPT ![w].relay = r]
    /\ out' = NoMsg
    /\ UNCHANGED <<allocs, readers>>

\* NetAllocator.New: the address and its socket are recorded.
NewListen(w, r) ==
    /\ Step(w, "listen", "commit")
    /\ AllocatePort(r)
    /\ open' = open \union {r}
    /\ owner' = [owner EXCEPT ![r] = arg[w].tuple]
    /\ arg' = [arg EXCEPT ![w].relay = r]
    /\ out' = NoMsg
    /\ UNCHANGED <<allocs, readers>>

\* NetAllocator.New failed: the error is returned, the reserved entry stays.
NewListenFail(w) ==
    /\ Step(w, "listen", "idle")
    /\ arg' = [arg EXCEPT ![w] = NoLocals]
    /\ out' = NoMsg
    /\ UNCHANGED <<allocs, open, owner, readers>>

\* Faulty variant: the entry is completed in place and keeps its permissions.
FaultyNewCommit(w) ==
    /\ Step(w, "commit", "idle")
    /\ \E a \in allocs :
          /\ a.tuple = arg[w].tuple
          /\ allocs' = Put(a, [a EXCEPT !.relay = arg[w].relay, !.timeout = arg[w].timeout])
    /\ readers' = readers \union {arg[w].relay}
    /\ arg' = [arg EXCEPT ![w] = NoLocals]
    /\ out' = NoMsg
    /\ UNCHANGED <<open, owner>>

\* Second critical section: the entry found for the tuple, whoever made it, is
\* overwritten by the allocation New prepared, and its reader is started.
NewCommit(w) ==
    /\ Step(w, "commit", "idle")
    /\ \E a \in allocs :
          /\ a.tuple = arg[w].tuple
          /\ allocs' = Put(a, Entry(arg[w].tuple, arg[w].relay, arg[w].timeout))
    /\ readers' = readers \union {arg[w].relay}
    /\ arg' = [arg EXCEPT ![w] = NoLocals]
    /\ out' = NoMsg
    /\ UNCHANGED <<open, owner>>

\* The entry is gone: allocation.Conn stays nil, and the reader started on it
\* dereferences nil, which ends the process.
NewCommitLost(w) ==
    /\ ~panicked
    /\ pc[w] = "commit"
    /\ ~InUse(arg[w].tuple)
    /\ panicked' = TRUE
    /\ out' = NoMsg
    /\ UNCHANGED <<allocs, open, owner, readers, pc, arg>>

\* The service manager starts a failed server again, with nothing kept.
Restart ==
    /\ panicked
    /\ allocs' = {}
    /\ open' = {}
    /\ owner' = [r \in Relays |-> NoTuple]
    /\ readers' = {}
    /\ pc' = [w \in Procs |-> "idle"]
    /\ arg' = [w \in Procs |-> NoLocals]
    /\ out' = NoMsg
    /\ panicked' = FALSE

-----------------------------------------------------------------------------
(* Allocator.Remove and Allocator.Prune *)

\* Faulty variant: the entries are compared by Tuple.Server, as in NetRemove.
FaultyRemove(w, t) ==
    /\ Step(w, "idle", "dealloc")
    /\ InUse(t)
    /\ allocs' = {}
    /\ out' = NoMsg
    /\ UNCHANGED <<open, owner, readers, arg>>

Remove(w, t) ==
    /\ Step(w, "idle", "dealloc")
    /\ InUse(t)
    /\ allocs' = {a \in allocs : a.tuple # t}
    /\ out' = NoMsg
    /\ UNCHANGED <<open, owner, readers, arg>>

\* What Prune leaves of an entry: a binding goes with its permission.
Unexpired(S) == {x \in S : x.timeout > 0}

\* Faulty variant: the bindings of a kept permission are not copied back.
FaultyPrunedPermission(p) == [p EXCEPT !.binds = {}]

PrunedPermission(p) == [p EXCEPT !.binds = Unexpired(p.binds)]

\* Faulty variant: permissions are kept whatever their deadline.
FaultyPruned(a) == [a EXCEPT !.perms = {PrunedPermission(p) : p \in a.perms}]

Pruned(a) == [a EXCEPT !.perms = {PrunedPermission(p) : p \in Unexpired(a.perms)}]

Prune ==
    /\ Step(Collector, "idle",
            IF Unexpired(allocs) = allocs THEN "idle" ELSE "dealloc")
    /\ allocs' = {Pruned(a) : a \in Unexpired(allocs)}
    /\ out' = NoMsg
    /\ UNCHANGED <<open, owner, readers, arg>>

\* Faulty variant: the address is not compared.
FaultyNetRemove(addr) == open' = {}

\* NetAllocator.Remove(addr): sockets bound to addr are closed and forgotten.
NetRemove(addr) == open' = open \ {addr}

\* Both methods pass toDealloc[i].Tuple.Server, the same for every tuple.
Dealloc(w) ==
    /\ Step(w, "dealloc", "idle")
    /\ NetRemove(ServerAddr)
    /\ out' = NoMsg
    /\ UNCHANGED <<allocs, owner, readers, arg>>

-----------------------------------------------------------------------------
(* Methods on an existing allocation *)

\* Faulty variant: an existing permission is not looked for.
FaultyCreatePermission(t, ip, d) ==
    /\ Atomic
    /\ \E a \in allocs :
          /\ a.tuple = t
          /\ allocs' = Put(a, [a EXCEPT !.perms = @ \union
                                  {[ip |-> ip, timeout |-> d, binds |-> {}]}])

CreatePermission(t, ip, d) ==
    /\ Atomic
    /\ \E a \in allocs :
          /\ a.tuple = t
          /\ \/ \E p \in a.perms :
                   /\ p.ip = ip
                   /\ allocs' = PutPermission(a, p, [p EXCEPT !.timeout = d])
             \/ /\ \A p \in a.perms : p.ip # ip
                /\ allocs' = Put(a, [a EXCEPT !.perms = @ \union
                                        {[ip |-> ip, timeout |-> d, binds |-> {}]}])

\* Faulty variant: the comparison of the channels is inverted.
FaultyConflicts(p, n, port) == \E b \in p.binds : b.port = port /\ b.chan = n

\* Permission.conflicts, called for a permission of the peer's IP: the port is
\* bound to another channel.
conflicts(p, n, port) == \E b \in p.binds : b.port = port /\ b.chan # n

\* The permission after a bind of channel n: the bindings with that channel get
\* the new deadline whatever their port; without one, a binding is added.
Bound(p, n, port, d) ==
    [p EXCEPT
        !.timeout = Later(d, @),
        !.binds = IF \E b \in p.binds : b.chan = n
                  THEN {IF b.chan = n THEN [b EXCEPT !.timeout = d] ELSE b : b \in @}
                  ELSE @ \union {[port |-> port, chan |-> n, timeout |-> d]}]

ChannelBind(t, n, peer, d) ==
    /\ Atomic
    /\ \E a \in allocs :
          /\ a.tuple = t
          /\ \/ \E p \in a.perms :
                   /\ p.ip = peer.ip
                   /\ ~conflicts(p, n, peer.port)
                   /\ allocs' = PutPermission(a, p, Bound(p, n, peer.port, d))
             \/ /\ \A p \in a.perms : p.ip # peer.ip
                /\ allocs' = Put(a, [a EXCEPT !.perms = @ \union
                                  {[ip |-> peer.ip, timeout |-> d,
                                    binds |-> {[port |-> peer.port, chan |-> n,
                                                timeout |-> d]}]}])

\* Faulty variant: the lifetime is added to the old deadline.
FaultyRefresh(t, d) ==
    /\ Atomic
    /\ \E a \in allocs :
          /\ a.tuple = t
          /\ allocs' = Put(a, [a EXCEPT !.timeout = @ + d])

Refresh(t, d) ==
    /\ Atomic
    /\ \E a \in allocs :
          /\ a.tuple = t
          /\ allocs' = Put(a, [a EXCEPT !.timeout = d])

-----------------------------------------------------------------------------
(* Data from the client to a peer: look up under the read lock, then write. *)

Sending(w, t, r, peer) ==
    /\ Step(w, "idle", "write")
    /\ arg' = [arg EXCEPT ![w] = [tuple |-> t, timeout |-> 0, relay |-> r, peer |-> peer]]
    /\ out' = NoMsg
    /\ UNCHANGED <<allocs, open, owner, readers>>

\* Faulty variant: any client's permission for the peer will do.
FaultySendLookup(w, t, peer) ==
    \E a \in allocs :
        /\ a.relay # NoRelay
        /\ \E p \in a.perms : p.ip = peer.ip
        /\ Sending(w, t, a.relay, peer)

SendLookup(w, t, peer) ==
    \E a \in allocs :
        /\ a.tuple = t /\ a.relay # NoRelay
        /\ \E p \in a.perms : p.ip = peer.ip
        /\ Sending(w, t, a.relay, peer)

\* Of several bindings of channel n the code takes the last it meets.
SendBoundLookup(w, t, n) ==
    \E a \in allocs :
        /\ a.tuple = t /\ a.relay # NoRelay
        /\ \E p \in a.perms : \E b \in p.binds :
              /\ b.chan = n
              /\ Sending(w, t, a.relay, [ip |-> p.ip, port |-> b.port])

SendWrite(w) ==
    /\ Step(w, "write", "idle")
    /\ out' = IF arg[w].relay \in open
              THEN [to |-> "peer", tuple |-> arg[w].tuple, relay |-> arg[w].relay,
                    peer |-> arg[w].peer, chan |-> NoChannel]
              ELSE NoMsg
    /\ arg' = [arg EXCEPT ![w] = NoLocals]
    /\ UNCHANGED <<allocs, open, owner, readers>>

-----------------------------------------------------------------------------
(* Data from a peer to the client *)

\* Faulty variant: the peer's port is not compared.
FaultyBoundChannels(t, peer) ==
    {b.chan : b \in UNION {p.binds :
              p \in UNION {{q \in a.perms : q.ip = peer.ip} :
              a \in {e \in allocs : e.tuple = t}}}}

\* Allocator.Bound: the channels bound to the peer's transport address.
BoundChannels(t, peer) ==
    {b.chan : b \in UNION {{c \in p.binds : c.port = peer.port} :
              p \in UNION {{q \in a.perms : q.ip = peer.ip} :
              a \in {e \in allocs : e.tuple = t}}}}

\* One turn of ReadUntilClosed: the datagram is passed to HandlePeerData, which
\* sends ChannelData when Bound finds a channel and a Data indication otherwise.
HandlePeerData(r, peer) ==
    /\ r \in readers \intersect open
    /\ LET chans == BoundChannels(owner[r], peer)
       IN  \E c \in (IF chans = {} THEN {NoChannel} ELSE chans) :
              out' = [to |-> "client", tuple |-> owner[r], relay |-> r,
                      peer |-> peer, chan |-> c]
    /\ ~panicked
    /\ UNCHANGED <<allocs, open, owner, readers, pc, arg, panicked>>

\* The loop ends on any error that is neither temporary nor a timeout.
ReaderStops(r) ==
    /\ r \in readers
    /\ readers' = readers \ {r}
    /\ ~panicked
    /\ out' = NoMsg
    /\ UNCHANGED <<allocs, open, owner, pc, arg, panicked>>

-----------------------------------------------------------------------------
(* The passage of time *)

Less(d) == IF d > 0 THEN d - 1 ELSE 0

AgedBinding(b) == [b EXCEPT !.timeout = Less(@)]
AgedPermission(p) ==
    [p EXCEPT !.timeout = Less(@), !.binds = {AgedBinding(b) : b \in @}]
Aged(a) ==
    [a EXCEPT !.timeout = Less(@), !.perms = {AgedPermission(p) : p \in @}]

Tick ==
    /\ ~panicked
    /\ allocs' = {Aged(a) : a \in allocs}
    /\ arg' = [w \in Procs |-> [arg[w] EXCEPT !.timeout = Less(@)]]
    /\ out' = NoMsg
    /\ UNCHANGED <<open, owner, readers, pc, panicked>>

-----------------------------------------------------------------------------
NewContinue(w) ==
    \/ \E r \in Relays : NewListen(w, r)
    \/ NewListenFail(w)
    \/ NewCommit(w)
    \/ NewCommitLost(w)

\* A worker runs the handler of an Allocate request, of a Refresh request with
\* lifetime 0, of a Send indication or of a ChannelData message ...
Request(w) ==
    \/ \E t \in Tuples, d \in Lifetimes : NewReserve(w, t, d)
    \/ \E t \in Tuples : Remove(w, t)
    \/ \E t \in Tuples, peer \in Peers : SendLookup(w, t, peer)
    \/ \E t \in Tuples, n \in Channels : SendBoundLookup(w, t, n)

\* ... or of a CreatePermission, ChannelBind or Refresh request.
AtomicRequest ==
    \/ \E t \in Tuples, ip \in IPs, d \in Time : CreatePermission(t, ip, d)
    \/ \E t \in Tuples, n \in Channels, peer \in Peers, d \in Lifetimes :
          ChannelBind(t, n, peer, d)
    \/ \E t \in Tuples, d \in Time : Refresh(t, d)

Next ==
    \/ \E w \in Workers : Request(w) \/ NewContinue(w) \/ SendWrite(w)
    \/ AtomicRequest
    \/ \E w \in Procs : Dealloc(w)
    \/ Prune
    \/ \E r \in Relays, peer \in Peers : HandlePeerData(r, peer)
    \/ \E r \in Relays : ReaderStops(r)
    \/ Tick
    \/ Restart

\* What the runtime, the ticker and the service manager keep going; clients and
\* peers need never send anything.
Fairness ==
    /\ WF_vars(Tick)
    /\ WF_vars(Prune)
    /\ WF_vars(Restart)
    /\ \A w \in Procs : WF_vars(Dealloc(w))
    /\ \A w \in Workers : WF_vars(NewContinue(w)) /\ WF_vars(SendWrite(w))

Spec == Init /\ [][Next]_vars

FairSpec == Spec /\ Fairness

-----------------------------------------------------------------------------
(* Properties *)

TypeOK ==
    /\ allocs \subseteq Allocation
    /\ open \subseteq Relays
    /\ owner \in [Relays -> Tuples \union {NoTuple}]
    /\ readers \subseteq Relays
    /\ pc \in [Procs -> {"idle", "listen", "commit", "dealloc", "write"}]
    /\ arg \in [Procs -> Locals]
    /\ out \in Msgs \union {NoMsg}
    /\ panicked \in BOOLEAN

\* The mismatch check of New keeps one entry per 5-tuple, although New leaves
\* the lock between reserving the entry and completing it and may meet another
\* New of the same client there.
TupleUnique == \A a, b \in allocs : a.tuple = b.tuple => a = b

\* One permission per peer IP: CreatePermission and ChannelBind find the
\* permission the other one made, so a lookup by IP is unambiguous.
PermissionUnique ==
    \A a \in allocs : \A p, q \in a.perms : p.ip = q.ip => p = q

\* Under one permission a port has one channel and a channel one port: what
\* conflicts() lets through never leaves two bindings of either.
BindingInjective ==
    \A a \in allocs : \A p \in a.perms : \A b, c \in p.binds :
        (b.port = c.port \/ b.chan = c.chan) => b = c

\* Two allocations never share a relayed address, and the reader of an
\* allocation's socket hands what it reads to the client of that allocation:
\* also when two New calls of a client commit into each other's entries.
RelayExclusive ==
    \A a \in allocs : a.relay # NoRelay =>
        /\ a.relay \in open
        /\ owner[a.relay] = a.tuple
        /\ \A b \in allocs : b.relay = a.relay => b = a

\* A call that left the lock with a connection in its locals (a New about to
\* commit, a Send about to write) holds a bound socket opened for its own
\* client, whatever happened to the table meanwhile.
CallHoldsOwnSocket ==
    \A w \in Procs :
        /\ pc[w] \in {"listen", "commit", "write"} => arg[w].tuple \in Tuples
        /\ pc[w] \in {"commit", "write"} =>
              arg[w].relay \in open /\ owner[arg[w].relay] = arg[w].tuple
        /\ pc[w] = "write" => arg[w].peer \in Peers

\* Client data leaves through a socket that was opened for that client, also
\* when the allocation was removed or replaced after the lookup.
RelayedFromOwnSocket ==
    (out # NoMsg /\ out.to = "peer") => owner[out.relay] = out.tuple

\* As long as an allocation keeps its relayed address, no step takes away one
\* of its unexpired permissions, nor an unexpired binding of such a
\* permission, nor moves the binding to another port or channel.
KeptPermissions(a, b) ==
    \A p \in Unexpired(a.perms) : \E q \in b.perms :
        /\ q.ip = p.ip
        /\ \A x \in Unexpired(p.binds) :
              \E y \in q.binds : y.port = x.port /\ y.chan = x.chan

UnexpiredKept ==
    [][\A a \in allocs : \A b \in allocs' :
          (a.tuple = b.tuple /\ a.relay = b.relay) => KeptPermissions(a, b)]_vars

\* What client t has unexpired is still there after the step, the relayed address
\* with it, and no deadline came closer by more than the tick that may have passed.
Untouched(t) ==
    \A a \in Unexpired(allocs) : a.tuple = t => \E b \in allocs' :
        /\ b.tuple = t /\ b.relay = a.relay /\ b.timeout + 1 >= a.timeout
        /\ \A p \in Unexpired(a.perms) : \E q \in b.perms :
              /\ q.ip = p.ip /\ q.timeout + 1 >= p.timeout
              /\ \A x \in Unexpired(p.binds) : \E y \in q.binds :
                    y.port = x.port /\ y.chan = x.chan /\ y.timeout + 1 >= x.timeout

\* A step of a live server takes something from one client at most: a Refresh, a
\* Remove or a New that commits changes one entry, whoever else is in the table,
\* and the collector and the clock take nothing that has not expired.
ClientsIsolated ==
    [][~panicked => \A t, u \in Tuples : t # u => Untouched(t) \/ Untouched(u)]_vars

\* The collector never falls behind for good: again and again there is nothing
\* expired in the table, entries abandoned by a failed New included.
NothingExpired ==
    \A a \in allocs :
        /\ a.timeout > 0
        /\ \A p \in a.perms : p.timeout > 0 /\ \A b \in p.binds : b.timeout > 0

ExpiredCollected == []<>NothingExpired

(* What comments of the code promise and the code does not do *)

\* allocator.go: New answers with a mismatch when the 5-tuple "is currently in
\* use by an existing allocation": an entry that is no allocation yet belongs to
\* a New under way, so that a client that tries again is not turned away.
MismatchMeansAllocated ==
    \A a \in allocs : a.relay = NoRelay =>
        \E w \in Workers : pc[w] \in {"listen", "commit"} /\ arg[w].tuple = a.tuple

\* allocator.go: "Remove de-allocates and removes allocation."  An open socket
\* belongs to an allocation, to a New under way, or is about to be closed.
SocketsReclaimed ==
    \A r \in open :
        \/ \E a \in allocs : a.relay = r
        \/ \E w \in Workers : pc[w] = "commit" /\ arg[w].relay = r
        \/ \E w \in Procs : pc[w] = "dealloc"

\* allocator.go: "Any data received by allocated socket is passed to callback."
\* The reader New starts has a socket to read.
ReaderHasSocket == ~panicked

\* allocator.go: "There is existing binding with same channel number or peer
\* turn.Address." is a conflict: an allocation has no two bindings of a channel.
ChannelUnique ==
    \A a \in allocs : \A p, q \in a.perms : \A b \in p.binds, c \in q.binds :
        b.chan = c.chan => p = q

\* allocation.go: a permission "mimics the address-restricted filtering
\* mechanism of NAT's": only a permitted peer's data reaches the client.
PeerDataNeedsPermission ==
    (out # NoMsg /\ out.to = "client") =>
        \E a \in allocs : a.tuple = out.tuple /\ \E p \in a.perms : p.ip = out.peer.ip

=============================================================================
