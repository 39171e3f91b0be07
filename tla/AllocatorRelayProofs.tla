------------------------- MODULE AllocatorRelayProofs -------------------------
(***************************************************************************)
(* The proof that the allocator implements the relay, for any number of    *)
(* clients, peers, channels, addresses and workers.  Under the inductive   *)
(* invariant of AllocatorProofs a client has one entry, so its lease, its  *)
(* permits and its channels are those of that entry; each critical section *)
(* is then one step of the relay, and what happens between them none.      *)
(***************************************************************************)
EXTENDS AllocatorRelay, AllocatorTableProofs

clientView == <<leaseOf, permitsOf, channelsOf>>

-----------------------------------------------------------------------------
(* How the view of the table changes *)

\* Rewriting the entry of one client leaves the other clients' entries alone.
LEMMA EntriesPut ==
  ASSUME NEW a \in allocs, NEW b, IndInv, allocs' = Put(a, b), b.tuple = a.tuple
  PROVE  /\ EntriesOf(a.tuple) = {a}
         /\ EntriesOf(a.tuple)' = {b}
         /\ \A u \in Tuples : u # a.tuple => EntriesOf(u)' = EntriesOf(u)
<1>1. EntriesOf(a.tuple) = {a}
  BY DEF IndInv, TupleUnique, EntriesOf
<1>2. EntriesOf(a.tuple)' = {b}
  BY DEF IndInv, TupleUnique, EntriesOf, Put
<1>3. \A u \in Tuples : u # a.tuple => EntriesOf(u)' = EntriesOf(u)
  BY DEF EntriesOf, Put
<1> QED BY <1>1, <1>2, <1>3

\* What a client that has entry a holds.
LEMMA ViewOfEntry ==
  ASSUME NEW a \in allocs, IndInv
  PROVE  /\ a.tuple \in Tuples
         /\ leaseOf[a.tuple] = {a.relay}
         /\ permitsOf[a.tuple] = PermittedIPs(a)
         /\ channelsOf[a.tuple] = BoundPeers(a)
<1>1. a.tuple \in Tuples
  BY DEF IndInv, TypeOK, Allocation
<1>2. EntriesOf(a.tuple) = {a}
  BY DEF IndInv, TupleUnique, EntriesOf
<1> QED BY <1>1, <1>2 DEF leaseOf, permitsOf, channelsOf

\* What the view becomes when entry a is rewritten to b.
LEMMA ViewPut ==
  ASSUME NEW a \in allocs, NEW b, IndInv, allocs' = Put(a, b), b.tuple = a.tuple
  PROVE  /\ leaseOf' = [leaseOf EXCEPT ![a.tuple] = {b.relay}]
         /\ permitsOf' = [permitsOf EXCEPT ![a.tuple] = PermittedIPs(b)]
         /\ channelsOf' = [channelsOf EXCEPT ![a.tuple] = BoundPeers(b)]
<1>1. /\ EntriesOf(a.tuple)' = {b}
      /\ \A u \in Tuples : u # a.tuple => EntriesOf(u)' = EntriesOf(u)
  BY EntriesPut
<1>2. leaseOf' = [leaseOf EXCEPT ![a.tuple] = {b.relay}]
  <2>1. \A u \in Tuples : leaseOf'[u] = IF u = a.tuple THEN {b.relay} ELSE leaseOf[u]
    BY <1>1 DEF leaseOf
  <2>2. leaseOf' = [u \in Tuples |-> leaseOf'[u]] /\ leaseOf = [u \in Tuples |-> leaseOf[u]]
    BY DEF leaseOf
  <2> QED BY <2>1, <2>2
<1>3. permitsOf' = [permitsOf EXCEPT ![a.tuple] = PermittedIPs(b)]
  BY <1>1 DEF permitsOf, PermittedIPs
<1>4. channelsOf' = [channelsOf EXCEPT ![a.tuple] = BoundPeers(b)]
  BY <1>1 DEF channelsOf, BoundPeers, PermissionChannels
<1> QED BY <1>2, <1>3, <1>4

\* A step that leaves the table alone leaves the clients' view alone.
LEMMA ViewSame == UNCHANGED allocs => UNCHANGED clientView
  BY DEF clientView, leaseOf, permitsOf, channelsOf, EntriesOf, PermittedIPs, BoundPeers,
         PermissionChannels

\* A call that is not a Send leaves what is pending alone.
LEMMA PendingSame ==
  ASSUME NEW w \in Procs, NEW from \in {"idle", "listen", "commit", "dealloc"},
         NEW to \in {"idle", "listen", "commit", "dealloc"},
         IndInv, Step(w, from, to), \A v \in Workers : v # w => arg'[v] = arg[v]
  PROVE  pendingOf' = pendingOf
<1>1. pc \in [Procs -> {"idle", "listen", "commit", "dealloc", "write"}]
  BY DEF IndInv, TypeOK
<1>2. \A v \in Workers : pc'[v] = (IF v = w THEN to ELSE pc[v])
  BY <1>1 DEF Step, Procs
<1>3. pc[w] # "write" /\ to # "write"
  BY DEF Step
<1> QED BY <1>2, <1>3 DEF pendingOf

-----------------------------------------------------------------------------
(* Each kind of step is a step of the relay *)

\* A step that changes neither the table, nor who an address was opened for,
\* nor what is pending, and writes nothing, is silence.
LEMMA SilentStep ==
  ASSUME UNCHANGED <<clientView, owner, pendingOf>>, out' = NoMsg
  PROVE  Relay!Silence
  BY DEF Relay!Silence, Relay!clientVars, clientView

\* The first critical section of New reserves a lease.
LEMMA ReserveStep ==
  ASSUME IndInv, NEW w \in Workers, NEW t \in Tuples, NEW d \in Lifetimes, NewReserve(w, t, d)
  PROVE  Relay!Reserve(t)
<1> DEFINE e == Entry(t, NoRelay, d)
<1>1. EntriesOf(t) = {} /\ EntriesOf(t)' = {e}
  BY DEF NewReserve, InUse, EntriesOf, Entry
<1>2. \A u \in Tuples : u # t => EntriesOf(u)' = EntriesOf(u)
  BY DEF NewReserve, EntriesOf, Entry
<1>3. e.relay = NoRelay /\ e.perms = {}
  BY DEF Entry
<1>4. PermittedIPs(e) = {} /\ BoundPeers(e) = {}
  BY <1>3 DEF PermittedIPs, BoundPeers
<1> HIDE DEF e
<1>5. leaseOf[t] = {} /\ permitsOf[t] = {} /\ channelsOf[t] = {}
  BY <1>1 DEF leaseOf, permitsOf, channelsOf
<1>6. leaseOf' = [leaseOf EXCEPT ![t] = {NoRelay}]
  <2>1. \A u \in Tuples : leaseOf'[u] = IF u = t THEN {NoRelay} ELSE leaseOf[u]
    BY <1>1, <1>2, <1>3 DEF leaseOf
  <2>2. leaseOf' = [u \in Tuples |-> leaseOf'[u]] /\ leaseOf = [u \in Tuples |-> leaseOf[u]]
    BY DEF leaseOf
  <2> QED BY <2>1, <2>2
<1>7. permitsOf' = permitsOf
  BY <1>1, <1>2, <1>4 DEF permitsOf, PermittedIPs
<1>8. channelsOf' = channelsOf
  BY <1>1, <1>2, <1>4 DEF channelsOf, BoundPeers, PermissionChannels
<1>9. pendingOf' = pendingOf
  <2>1. w \in Procs /\ Step(w, "idle", "listen") /\ \A v \in Workers : v # w => arg'[v] = arg[v]
    BY DEF NewReserve, Procs, IndInv, TypeOK
  <2> QED BY <2>1, PendingSame
<1> QED
  BY <1>5, <1>6, <1>7, <1>8, <1>9 DEF NewReserve, Relay!Reserve

\* Opening the socket opens an address nobody leases and no Send holds.
LEMMA OpenStep ==
  ASSUME IndInv, NEW w \in Workers, NEW r \in Relays, NewListen(w, r)
  PROVE  \E t \in Tuples : Relay!Open(t, r)
<1>1. w \in Procs /\ arg[w].tuple \in Tuples
  BY DEF NewListen, Step, Procs, IndInv, CallHoldsOwnSocket
<1>2. \A u \in Tuples : r \notin leaseOf[u]
  <2>1. \A a \in allocs : a.relay # r
    BY AddressAssumption DEF NewListen, AllocatePort, IndInv, RelayOwned
  <2> QED BY <2>1 DEF leaseOf, EntriesOf
<1>3. \A v \in Workers : pendingOf[v] # NoMsg => pendingOf[v].relay # r
  BY DEF NewListen, AllocatePort, IndInv, CallHoldsOwnSocket, pendingOf, Procs
<1>4. pendingOf' = pendingOf
  <2>1. Step(w, "listen", "commit") /\ \A v \in Workers : v # w => arg'[v] = arg[v]
    BY DEF NewListen, Procs, IndInv, TypeOK
  <2> QED BY <1>1, <2>1, PendingSame
<1>5. UNCHANGED clientView
  BY ViewSame DEF NewListen
<1>6. owner' = [owner EXCEPT ![r] = arg[w].tuple] /\ out' = NoMsg
  BY DEF NewListen
<1> QED
  BY <1>1, <1>2, <1>3, <1>4, <1>5, <1>6 DEF Relay!Open, Relay!clientVars, clientView

\* The second critical section of New grants the lease, with nothing permitted.
LEMMA GrantStep ==
  ASSUME IndInv, NEW w \in Workers, NewCommit(w)
  PROVE  \E t \in Tuples, r \in Relays : Relay!Grant(t, r)
<1> DEFINE e == Entry(arg[w].tuple, arg[w].relay, arg[w].timeout)
           t == arg[w].tuple
<1>1. w \in Procs /\ t \in Tuples /\ arg[w].relay \in Relays /\ owner[arg[w].relay] = t
  BY DEF NewCommit, Step, Procs, IndInv, TypeOK, CallHoldsOwnSocket
<1>2. PICK a \in allocs : a.tuple = t /\ allocs' = Put(a, e)
  BY DEF NewCommit
<1>3. e.tuple = a.tuple /\ e.relay = arg[w].relay /\ e.perms = {}
  BY <1>2 DEF Entry
<1>4. PermittedIPs(e) = {} /\ BoundPeers(e) = {}
  BY <1>3 DEF PermittedIPs, BoundPeers
<1> HIDE DEF e
<1>5. leaseOf[t] = {a.relay}
  BY <1>2, ViewOfEntry
<1>6. /\ leaseOf' = [leaseOf EXCEPT ![t] = {arg[w].relay}]
      /\ permitsOf' = [permitsOf EXCEPT ![t] = {}]
      /\ channelsOf' = [channelsOf EXCEPT ![t] = {}]
  BY <1>2, <1>3, <1>4, ViewPut
<1>7. pendingOf' = pendingOf
  <2>1. Step(w, "commit", "idle") /\ \A v \in Workers : v # w => arg'[v] = arg[v]
    BY DEF NewCommit, Procs, IndInv, TypeOK
  <2> QED BY <1>1, <2>1, PendingSame
<1>8. owner' = owner /\ out' = NoMsg
  BY DEF NewCommit
<1>9. Relay!Grant(t, arg[w].relay)
  BY <1>1, <1>5, <1>6, <1>7, <1>8 DEF Relay!Grant
<1> QED BY <1>1, <1>9

\* Remove releases the client's lease and nobody else's.
LEMMA ReleaseStep ==
  ASSUME IndInv, NEW w \in Workers, NEW t \in Tuples, Remove(w, t)
  PROVE  Relay!Release(t)
<1>1. EntriesOf(t)' = {} /\ \A u \in Tuples : u # t => EntriesOf(u)' = EntriesOf(u)
  BY DEF Remove, EntriesOf
<1>2. leaseOf' = [leaseOf EXCEPT ![t] = {}]
  BY <1>1 DEF leaseOf
<1>3. permitsOf' = [permitsOf EXCEPT ![t] = {}]
  BY <1>1 DEF permitsOf, PermittedIPs
<1>4. channelsOf' = [channelsOf EXCEPT ![t] = {}]
  BY <1>1 DEF channelsOf, BoundPeers, PermissionChannels
<1>5. pendingOf' = pendingOf
  <2>1. w \in Procs /\ Step(w, "idle", "dealloc") /\ \A v \in Workers : v # w => arg'[v] = arg[v]
    BY DEF Remove, Procs
  <2> QED BY <2>1, PendingSame
<1> QED
  BY <1>2, <1>3, <1>4, <1>5 DEF Remove, Relay!Release

\* Prune ends leases, permits and channels, each with what depends on it.
LEMMA ExpireStep ==
  ASSUME IndInv, Prune
  PROVE  Relay!Expire
<1>1. allocs' = {Pruned(a) : a \in Unexpired(allocs)} /\ allocs \subseteq Allocation
  BY DEF Prune, IndInv, TypeOK
<1>2. \A t \in Tuples : \A x \in EntriesOf(t)' : \E a \in EntriesOf(t) : x = Pruned(a)
  BY <1>1, SameIdentity DEF EntriesOf, Unexpired
<1>3. \A a \in Allocation : /\ Pruned(a).relay = a.relay
                            /\ PermittedIPs(Pruned(a)) \subseteq PermittedIPs(a)
                            /\ BoundPeers(Pruned(a)) \subseteq BoundPeers(a)
                            /\ \A c \in BoundPeers(Pruned(a)) : c.peer.ip \in PermittedIPs(Pruned(a))
  <2> SUFFICES ASSUME NEW a \in Allocation
               PROVE  /\ Pruned(a).relay = a.relay
                      /\ PermittedIPs(Pruned(a)) \subseteq PermittedIPs(a)
                      /\ BoundPeers(Pruned(a)) \subseteq BoundPeers(a)
                      /\ \A c \in BoundPeers(Pruned(a)) : c.peer.ip \in PermittedIPs(Pruned(a))
    OBVIOUS
  <2>1. \A q \in Pruned(a).perms : \E p \in a.perms : q.ip = p.ip /\ q.binds \subseteq p.binds
    BY DEF Pruned, PrunedPermission, Unexpired, Allocation, Permission
  <2>2. PermittedIPs(Pruned(a)) \subseteq PermittedIPs(a)
    BY <2>1 DEF PermittedIPs
  <2>3. BoundPeers(Pruned(a)) \subseteq BoundPeers(a)
    BY <2>1 DEF BoundPeers, PermissionChannels
  <2>4. \A c \in BoundPeers(Pruned(a)) : c.peer.ip \in PermittedIPs(Pruned(a))
    BY DEF BoundPeers, PermissionChannels, PermittedIPs
  <2> QED BY <2>2, <2>3, <2>4, SameIdentity
<1>4. ASSUME NEW t \in Tuples PROVE Relay!Left(t)
  <2>1. \A x \in EntriesOf(t)' : \E a \in EntriesOf(t) :
           /\ x.relay = a.relay
           /\ PermittedIPs(x) \subseteq PermittedIPs(a)
           /\ BoundPeers(x) \subseteq BoundPeers(a)
           /\ \A c \in BoundPeers(x) : c.peer.ip \in PermittedIPs(x)
    BY <1>1, <1>2, <1>3 DEF EntriesOf
  <2>2. leaseOf'[t] \subseteq leaseOf[t] /\ (leaseOf'[t] = {} => EntriesOf(t)' = {})
    BY <2>1 DEF leaseOf
  <2>3. permitsOf[t] = UNION {PermittedIPs(x) : x \in EntriesOf(t)}
        /\ permitsOf'[t] = UNION {PermittedIPs(x) : x \in EntriesOf(t)'}
    BY DEF permitsOf, PermittedIPs
  <2>4. channelsOf[t] = UNION {BoundPeers(x) : x \in EntriesOf(t)}
        /\ channelsOf'[t] = UNION {BoundPeers(x) : x \in EntriesOf(t)'}
    BY DEF channelsOf, BoundPeers, PermissionChannels
  <2>5. permitsOf'[t] \subseteq permitsOf[t] /\ (EntriesOf(t)' = {} => permitsOf'[t] = {})
    BY <2>1, <2>3
  <2>6. channelsOf'[t] \subseteq channelsOf[t]
    BY <2>1, <2>4
  <2>7. \A c \in channelsOf'[t] : c.peer.ip \in permitsOf'[t]
    BY <2>1, <2>3, <2>4
  <2> QED BY <2>2, <2>5, <2>6, <2>7 DEF Relay!Left
<1>5. /\ leaseOf' = [t \in Tuples |-> leaseOf'[t]]
      /\ permitsOf' = [t \in Tuples |-> permitsOf'[t]]
      /\ channelsOf' = [t \in Tuples |-> channelsOf'[t]]
  BY DEF leaseOf, permitsOf, channelsOf
<1>6. pendingOf' = pendingOf
  <2>1. pc' = [pc EXCEPT ![Collector] = pc'[Collector]] /\ arg' = arg
    BY DEF Prune, Step, IndInv, TypeOK, Procs
  <2> QED BY <2>1, ProcessAssumption DEF pendingOf, IndInv, TypeOK, Procs
<1>7. owner' = owner /\ out' = NoMsg
  BY DEF Prune
<1> QED BY <1>4, <1>5, <1>6, <1>7 DEF Relay!Expire

\* A method that rewrites the permissions of an entry in one critical section.
LEMMA AtomicStep ==
  ASSUME IndInv, Atomic, NEW a \in allocs, NEW S, allocs' = Put(a, [a EXCEPT !.perms = S])
  PROVE  /\ leaseOf' = leaseOf /\ pendingOf' = pendingOf /\ owner' = owner /\ out' = NoMsg
         /\ permitsOf' = [permitsOf EXCEPT ![a.tuple] = {p.ip : p \in S}]
         /\ channelsOf' = [channelsOf EXCEPT ![a.tuple] = UNION {PermissionChannels(p) : p \in S}]
<1> DEFINE b == [a EXCEPT !.perms = S]
<1>1. a \in Allocation
  BY DEF IndInv, TypeOK
<1>2. b.tuple = a.tuple /\ b.relay = a.relay /\ b.perms = S
  BY <1>1 DEF Allocation
<1>3. PermittedIPs(b) = {p.ip : p \in S} /\ BoundPeers(b) = UNION {PermissionChannels(p) : p \in S}
  BY <1>2 DEF PermittedIPs, BoundPeers
<1> HIDE DEF b
<1>4. /\ leaseOf' = [leaseOf EXCEPT ![a.tuple] = {b.relay}]
      /\ permitsOf' = [permitsOf EXCEPT ![a.tuple] = PermittedIPs(b)]
      /\ channelsOf' = [channelsOf EXCEPT ![a.tuple] = BoundPeers(b)]
  BY <1>2, ViewPut DEF b
<1>5. leaseOf' = leaseOf
  BY <1>2, <1>4, ViewOfEntry DEF leaseOf
<1>6. pendingOf' = pendingOf /\ owner' = owner /\ out' = NoMsg
  BY DEF Atomic, pendingOf
<1> QED BY <1>3, <1>4, <1>5, <1>6

\* CreatePermission permits the peer's IP.
LEMMA PermitStep ==
  ASSUME IndInv, NEW t \in Tuples, NEW ip \in IPs, NEW d \in Time, CreatePermission(t, ip, d)
  PROVE  Relay!Permit(t, ip)
<1> DEFINE new == [ip |-> ip, timeout |-> d, binds |-> {}]
<1>1. PICK a \in allocs :
         /\ a.tuple = t
         /\ \/ \E p \in a.perms :
                  p.ip = ip /\ allocs' = PutPermission(a, p, [p EXCEPT !.timeout = d])
            \/ allocs' = Put(a, [a EXCEPT !.perms = @ \union {new}])
  BY DEF CreatePermission
<1>2. /\ leaseOf[t] = {a.relay} /\ a.perms \subseteq Permission
      /\ permitsOf[t] = {q.ip : q \in a.perms}
      /\ channelsOf[t] = UNION {PermissionChannels(q) : q \in a.perms}
  BY <1>1, ViewOfEntry DEF PermittedIPs, BoundPeers, IndInv, TypeOK, Allocation
<1>3. Atomic
  BY DEF CreatePermission
<1>4. ASSUME NEW S, allocs' = Put(a, [a EXCEPT !.perms = S]),
             {q.ip : q \in S} = permitsOf[t] \union {ip},
             UNION {PermissionChannels(q) : q \in S} = channelsOf[t]
      PROVE  Relay!Permit(t, ip)
  <2>1. /\ leaseOf' = leaseOf /\ pendingOf' = pendingOf /\ owner' = owner /\ out' = NoMsg
        /\ permitsOf' = [permitsOf EXCEPT ![t] = {q.ip : q \in S}]
        /\ channelsOf' = [channelsOf EXCEPT ![t] = UNION {PermissionChannels(q) : q \in S}]
    BY <1>1, <1>3, <1>4, AtomicStep
  <2>2. channelsOf' = channelsOf
    BY <1>4, <2>1 DEF channelsOf
  <2> QED BY <1>2, <1>4, <2>1, <2>2 DEF Relay!Permit
<1>5. ASSUME NEW p \in a.perms, p.ip = ip, allocs' = PutPermission(a, p, [p EXCEPT !.timeout = d])
      PROVE  Relay!Permit(t, ip)
  <2> DEFINE q == [p EXCEPT !.timeout = d]
             S == (a.perms \ {p}) \union {q}
  <2>1. q.ip = p.ip /\ q.binds = p.binds
    BY <1>2 DEF Permission
  <2>2. PermissionChannels(q) = PermissionChannels(p)
    BY <2>1 DEF PermissionChannels
  <2> HIDE DEF q
  <2>3. {x.ip : x \in S} = permitsOf[t] \union {ip}
    BY <1>2, <1>5, <2>1
  <2>4. UNION {PermissionChannels(x) : x \in S} = channelsOf[t]
    BY <1>2, <2>2
  <2>5. allocs' = Put(a, [a EXCEPT !.perms = S])
    BY <1>5 DEF PutPermission, q
  <2> QED BY <1>4, <2>3, <2>4, <2>5
<1>6. CASE allocs' = Put(a, [a EXCEPT !.perms = @ \union {new}])
  <2> DEFINE S == a.perms \union {new}
  <2>1. new.ip = ip /\ PermissionChannels(new) = {}
    BY DEF PermissionChannels
  <2> HIDE DEF new
  <2>2. {x.ip : x \in S} = permitsOf[t] \union {ip}
    BY <1>2, <2>1
  <2>3. UNION {PermissionChannels(x) : x \in S} = channelsOf[t]
    BY <1>2, <2>1
  <2> QED BY <1>4, <1>6, <2>2, <2>3
<1> QED BY <1>1, <1>5, <1>6

\* ChannelBind permits the peer's IP and binds the channel, unless the channel
\* already leads to the peer's host.
LEMMA BindStep ==
  ASSUME IndInv, TableOK, NEW t \in Tuples, NEW n \in Channels, NEW peer \in Peers,
         NEW d \in Lifetimes, ChannelBind(t, n, peer, d)
  PROVE  Relay!Bind(t, peer, n)
<1> DEFINE mine == [port |-> peer.port, chan |-> n, timeout |-> d]
           new == [ip |-> peer.ip, timeout |-> d, binds |-> {mine}]
           label == [peer |-> peer, chan |-> n]
<1>1. PICK a \in allocs :
         /\ a.tuple = t
         /\ \/ \E p \in a.perms :
                  /\ p.ip = peer.ip /\ ~conflicts(p, n, peer.port)
                  /\ allocs' = PutPermission(a, p, Bound(p, n, peer.port, d))
            \/ /\ \A p \in a.perms : p.ip # peer.ip
               /\ allocs' = Put(a, [a EXCEPT !.perms = @ \union {new}])
  BY DEF ChannelBind
<1>2. /\ leaseOf[t] = {a.relay} /\ a.perms \subseteq Permission
      /\ permitsOf[t] = {q.ip : q \in a.perms}
      /\ channelsOf[t] = UNION {PermissionChannels(q) : q \in a.perms}
  BY <1>1, ViewOfEntry DEF PermittedIPs, BoundPeers, IndInv, TypeOK, Allocation
<1>3. Atomic
  BY DEF ChannelBind
<1>4. peer = [ip |-> peer.ip, port |-> peer.port] /\ peer.ip \in IPs /\ peer.port \in Ports
  BY DEF Peers
<1>5. \A q \in a.perms : \A c \in PermissionChannels(q) : c.peer.ip = q.ip
  BY DEF PermissionChannels
<1>6. ASSUME NEW S, allocs' = Put(a, [a EXCEPT !.perms = S]),
             {q.ip : q \in S} = permitsOf[t] \union {peer.ip},
             \A c \in channelsOf[t] : c.peer = peer => c.chan = n,
             UNION {PermissionChannels(q) : q \in S} =
                IF \E c \in channelsOf[t] : c.peer.ip = peer.ip /\ c.chan = n
                THEN channelsOf[t] ELSE channelsOf[t] \union {label}
      PROVE  Relay!Bind(t, peer, n)
  <2>1. /\ leaseOf' = leaseOf /\ pendingOf' = pendingOf /\ owner' = owner /\ out' = NoMsg
        /\ permitsOf' = [permitsOf EXCEPT ![t] = {q.ip : q \in S}]
        /\ channelsOf' = [channelsOf EXCEPT ![t] = UNION {PermissionChannels(q) : q \in S}]
    BY <1>1, <1>3, <1>6, AtomicStep
  <2>2. channelsOf = [channelsOf EXCEPT ![t] = channelsOf[t]]
    BY DEF channelsOf
  <2>3. channelsOf' = IF \E c \in channelsOf[t] : c.peer.ip = peer.ip /\ c.chan = n
                      THEN channelsOf ELSE [channelsOf EXCEPT ![t] = @ \union {label}]
    BY <1>6, <2>1, <2>2
  <2> QED BY <1>2, <1>6, <2>1, <2>3 DEF Relay!Bind
<1>7. ASSUME NEW p \in a.perms, p.ip = peer.ip, ~conflicts(p, n, peer.port),
             allocs' = PutPermission(a, p, Bound(p, n, peer.port, d))
      PROVE  Relay!Bind(t, peer, n)
  <2> DEFINE q == Bound(p, n, peer.port, d)
             S == (a.perms \ {p}) \union {q}
  <2>1. p \in Permission /\ p.binds \subseteq Binding
    BY <1>2 DEF Permission
  <2>2. \A x \in a.perms : x.ip = peer.ip => x = p
    BY <1>7 DEF TableOK, EntryOK
  <2>3. q.ip = p.ip
    BY <2>1 DEF Bound, Permission
  <2>4. {x.ip : x \in S} = permitsOf[t] \union {peer.ip}
    <3> HIDE DEF q
    <3> QED BY <1>2, <1>7, <2>3
  <2>5. \A c \in channelsOf[t] : c.peer.ip = peer.ip => c \in PermissionChannels(p)
    BY <1>2, <1>5, <2>2
  <2>6. \A c \in channelsOf[t] : c.peer = peer => c.chan = n
    <3>1. \A c \in PermissionChannels(p) : c.peer = peer => c.chan = n
      BY <1>4, <1>7 DEF PermissionChannels, conflicts
    <3> QED BY <2>5, <3>1
  <2>7. (\E c \in channelsOf[t] : c.peer.ip = peer.ip /\ c.chan = n)
           <=> (\E b \in p.binds : b.chan = n)
    <3>1. PermissionChannels(p) \subseteq channelsOf[t]
      BY <1>2
    <3>2. \A c \in PermissionChannels(p) : \E b \in p.binds : c.chan = b.chan
      BY DEF PermissionChannels
    <3>3. ASSUME NEW b \in p.binds PROVE \E c \in PermissionChannels(p) : c.chan = b.chan
      <4> DEFINE c == [peer |-> [ip |-> p.ip, port |-> b.port], chan |-> b.chan]
      <4>1. c \in PermissionChannels(p) /\ c.chan = b.chan
        BY DEF PermissionChannels
      <4> QED BY <4>1
    <3> QED BY <1>5, <1>7, <2>5, <3>1, <3>2, <3>3
  <2>8. PermissionChannels(q) = IF \E b \in p.binds : b.chan = n
                                THEN PermissionChannels(p) ELSE PermissionChannels(p) \union {label}
    <3>1. CASE \E b \in p.binds : b.chan = n
      <4> DEFINE refreshed(b) == IF b.chan = n THEN [b EXCEPT !.timeout = d] ELSE b
      <4>1. q.binds = {refreshed(b) : b \in p.binds}
        BY <2>1, <3>1 DEF Bound, Permission
      <4>2. \A b \in p.binds : refreshed(b).port = b.port /\ refreshed(b).chan = b.chan
        BY <2>1 DEF Binding
      <4> HIDE DEF q, refreshed
      <4>3. PermissionChannels(q) = PermissionChannels(p)
        BY <2>3, <4>1, <4>2 DEF PermissionChannels
      <4> QED BY <3>1, <4>3
    <3>2. CASE ~\E b \in p.binds : b.chan = n
      <4>1. q.binds = p.binds \union {mine}
        BY <2>1, <3>2 DEF Bound, Permission
      <4>2. mine.port = peer.port /\ mine.chan = n
        OBVIOUS
      <4> HIDE DEF q, mine
      <4>3. label = [peer |-> [ip |-> q.ip, port |-> mine.port], chan |-> mine.chan]
        BY <1>4, <1>7, <2>3, <4>2
      <4>4. PermissionChannels(q) = PermissionChannels(p) \union {label}
        <5> HIDE DEF label
        <5> QED BY <2>3, <4>1, <4>3 DEF PermissionChannels
      <4> QED BY <3>2, <4>4
    <3> QED BY <3>1, <3>2
  <2>9. UNION {PermissionChannels(x) : x \in S} =
           IF \E c \in channelsOf[t] : c.peer.ip = peer.ip /\ c.chan = n
           THEN channelsOf[t] ELSE channelsOf[t] \union {label}
    <3> HIDE DEF q, label
    <3>1. UNION {PermissionChannels(x) : x \in S} =
             (UNION {PermissionChannels(x) : x \in a.perms \ {p}}) \union PermissionChannels(q)
      OBVIOUS
    <3>2. channelsOf[t] =
             (UNION {PermissionChannels(x) : x \in a.perms \ {p}}) \union PermissionChannels(p)
      BY <1>2
    <3> QED BY <2>7, <2>8, <3>1, <3>2
  <2>10. allocs' = Put(a, [a EXCEPT !.perms = S])
    BY <1>7 DEF PutPermission
  <2> QED BY <1>6, <2>4, <2>6, <2>9, <2>10
<1>8. ASSUME \A p \in a.perms : p.ip # peer.ip,
             allocs' = Put(a, [a EXCEPT !.perms = @ \union {new}])
      PROVE  Relay!Bind(t, peer, n)
  <2> DEFINE S == a.perms \union {new}
  <2>1. new.ip = peer.ip /\ PermissionChannels(new) = {label}
    BY <1>4 DEF PermissionChannels
  <2> HIDE DEF new, label
  <2>2. {x.ip : x \in S} = permitsOf[t] \union {peer.ip}
    BY <1>2, <2>1
  <2>3. \A c \in channelsOf[t] : c.peer.ip # peer.ip
    BY <1>2, <1>5, <1>8
  <2>4. UNION {PermissionChannels(x) : x \in S} = channelsOf[t] \union {label}
    BY <1>2, <2>1
  <2> QED BY <1>6, <1>8, <2>2, <2>3, <2>4
<1> QED BY <1>1, <1>7, <1>8

\* A Send that found the allocation and a permission of the peer has accepted.
LEMMA AcceptStep ==
  ASSUME IndInv, NEW w \in Workers, NEW a \in allocs, NEW p \in a.perms, NEW peer \in Peers,
         a.relay # NoRelay, p.ip = peer.ip, Sending(w, a.tuple, a.relay, peer)
  PROVE  \E t \in Tuples, r \in Relays : Relay!Accept(w, t, r, peer)
<1>1. /\ a.tuple \in Tuples /\ a.relay \in Relays /\ a.relay \in leaseOf[a.tuple]
      /\ peer.ip \in permitsOf[a.tuple]
  BY ViewOfEntry DEF PermittedIPs, IndInv, TypeOK, Allocation
<1> DEFINE m == [to |-> "peer", tuple |-> a.tuple, relay |-> a.relay, peer |-> peer,
                 chan |-> NoChannel]
<1>2. pendingOf[w] = NoMsg
  BY DEF Sending, Step, pendingOf
<1>3. pendingOf' = [pendingOf EXCEPT ![w] = m]
  <2>1. /\ pc'[w] = "write" /\ arg'[w].tuple = a.tuple /\ arg'[w].relay = a.relay
        /\ arg'[w].peer = peer
        /\ \A v \in Workers : v # w => pc'[v] = pc[v] /\ arg'[v] = arg[v]
    BY DEF Sending, Step, IndInv, TypeOK, Procs
  <2> QED BY <2>1 DEF pendingOf
<1>4. UNCHANGED clientView
  BY ViewSame DEF Sending
<1>5. owner' = owner /\ out' = NoMsg
  BY DEF Sending
<1>6. Relay!Accept(w, a.tuple, a.relay, peer)
  BY <1>1, <1>2, <1>3, <1>4, <1>5
     DEF Relay!Accept, Relay!Datagram, Relay!clientVars, clientView
<1> QED BY <1>1, <1>6

\* The write of a Send delivers what was accepted, or loses it.
LEMMA DeliverStep ==
  ASSUME IndInv, NEW w \in Workers, SendWrite(w)
  PROVE  Relay!Deliver(w)
<1>1. out' \in {pendingOf[w], NoMsg}
  BY DEF SendWrite, Step, pendingOf
<1>2. pendingOf' = [pendingOf EXCEPT ![w] = NoMsg]
  <2>1. pc'[w] = "idle" /\ \A v \in Workers : v # w => pc'[v] = pc[v] /\ arg'[v] = arg[v]
    BY DEF SendWrite, Step, IndInv, TypeOK, Procs
  <2> QED BY <2>1 DEF pendingOf
<1>3. UNCHANGED clientView /\ owner' = owner
  BY ViewSame DEF SendWrite
<1> QED BY <1>1, <1>2, <1>3 DEF Relay!Deliver, Relay!clientVars, clientView

\* What a reader passes on reaches the holder of the address, under its channel.
LEMMA ReceiveStep ==
  ASSUME IndInv, NEW r \in Relays, NEW peer \in Peers, HandlePeerData(r, peer)
  PROVE  Relay!Receive(r, peer)
<1> DEFINE t == owner[r]
<1>1. t \in Tuples
  BY DEF HandlePeerData, IndInv, ReaderOwned
<1>2. BoundChannels(t, peer) = Relay!ChannelsTo(t, peer)
  <2>1. \A a \in allocs : a.tuple = t =>
           /\ channelsOf[t] = BoundPeers(a)
           /\ \A e \in allocs : e.tuple = t => e = a
    BY ViewOfEntry DEF IndInv, TupleUnique
  <2>2. peer = [ip |-> peer.ip, port |-> peer.port]
    BY DEF Peers
  <2>3. CASE \E a \in allocs : a.tuple = t
    <3>1. PICK a \in allocs : a.tuple = t
      BY <2>3
    <3>2. ASSUME NEW c
          PROVE  c \in BoundChannels(t, peer) <=>
                 \E p \in a.perms : \E b \in p.binds : p.ip = peer.ip /\ b.port = peer.port /\ b.chan = c
      BY <2>1, <3>1 DEF BoundChannels
    <3>3. ASSUME NEW c, NEW p \in a.perms, NEW b \in p.binds,
                 p.ip = peer.ip, b.port = peer.port, b.chan = c
          PROVE  c \in Relay!ChannelsTo(t, peer)
      <4> DEFINE x == [peer |-> [ip |-> p.ip, port |-> b.port], chan |-> b.chan]
      <4>1. x \in channelsOf[t]
        BY <2>1, <3>1 DEF BoundPeers, PermissionChannels
      <4>2. x.peer = peer /\ x.chan = c
        BY <2>2, <3>3
      <4> HIDE DEF x
      <4> QED BY <4>1, <4>2 DEF Relay!ChannelsTo
    <3>4. ASSUME NEW x \in channelsOf[t], x.peer = peer
          PROVE  \E p \in a.perms : \E b \in p.binds :
                    p.ip = peer.ip /\ b.port = peer.port /\ b.chan = x.chan
      <4>1. PICK p \in a.perms : x \in PermissionChannels(p)
        BY <2>1, <3>1 DEF BoundPeers
      <4>2. PICK b \in p.binds : x = [peer |-> [ip |-> p.ip, port |-> b.port], chan |-> b.chan]
        BY <4>1 DEF PermissionChannels
      <4> QED BY <3>4, <4>2
    <3>5. \A c : c \in BoundChannels(t, peer) => c \in Relay!ChannelsTo(t, peer)
      BY <3>2, <3>3
    <3>6. \A c : c \in Relay!ChannelsTo(t, peer) => c \in BoundChannels(t, peer)
      BY <3>2, <3>4 DEF Relay!ChannelsTo
    <3> QED BY <3>5, <3>6
  <2>4. CASE ~\E a \in allocs : a.tuple = t
    BY <1>1, <2>4 DEF BoundChannels, Relay!ChannelsTo, channelsOf, EntriesOf
  <2> QED BY <2>3, <2>4
<1>3. UNCHANGED <<clientView, owner, pendingOf>>
  BY ViewSame DEF HandlePeerData, pendingOf
<1> QED BY <1>1, <1>2, <1>3 DEF HandlePeerData, Relay!Receive, Relay!Datagram, Relay!clientVars,
                                clientView

\* A tick changes deadlines, which the relay does not know.
LEMMA TickStep ==
  ASSUME IndInv, Tick
  PROVE  Relay!Silence
<1>1. allocs' = {Aged(a) : a \in allocs} /\ allocs \subseteq Allocation
  BY DEF Tick, IndInv, TypeOK
<1>2. \A t \in Tuples : EntriesOf(t)' = {Aged(a) : a \in EntriesOf(t)}
  BY <1>1, SameIdentity DEF EntriesOf
<1>3. \A a \in Allocation : PermittedIPs(Aged(a)) = PermittedIPs(a) /\ BoundPeers(Aged(a)) = BoundPeers(a)
  <2> SUFFICES ASSUME NEW a \in Allocation
               PROVE  PermittedIPs(Aged(a)) = PermittedIPs(a) /\ BoundPeers(Aged(a)) = BoundPeers(a)
    OBVIOUS
  <2>1. Aged(a).perms = {AgedPermission(p) : p \in a.perms} /\ a.perms \subseteq Permission
    BY DEF Aged, Allocation
  <2>2. \A p \in Permission : /\ AgedPermission(p).ip = p.ip
                              /\ AgedPermission(p).binds = {AgedBinding(b) : b \in p.binds}
                              /\ p.binds \subseteq Binding
    BY DEF AgedPermission, Permission
  <2>3. \A b \in Binding : AgedBinding(b).port = b.port /\ AgedBinding(b).chan = b.chan
    BY DEF AgedBinding, Binding
  <2>4. \A p \in Permission : PermissionChannels(AgedPermission(p)) = PermissionChannels(p)
    BY <2>2, <2>3 DEF PermissionChannels
  <2>5. PermittedIPs(Aged(a)) = PermittedIPs(a)
    BY <2>1, <2>2 DEF PermittedIPs
  <2>6. BoundPeers(Aged(a)) = BoundPeers(a)
    BY <2>1, <2>4 DEF BoundPeers
  <2> QED BY <2>5, <2>6
<1>4. \A t \in Tuples : EntriesOf(t) \subseteq Allocation
  BY <1>1 DEF EntriesOf
<1>5. leaseOf' = leaseOf
  BY <1>2, <1>4, SameIdentity DEF leaseOf
<1>6. permitsOf' = permitsOf
  <2>1. \A t \in Tuples : UNION {PermittedIPs(x) : x \in EntriesOf(t)'} =
                          UNION {PermittedIPs(a) : a \in EntriesOf(t)}
    BY <1>2, <1>3, <1>4
  <2> QED BY <2>1 DEF permitsOf, PermittedIPs
<1>7. channelsOf' = channelsOf
  <2>1. \A t \in Tuples : UNION {BoundPeers(x) : x \in EntriesOf(t)'} =
                          UNION {BoundPeers(a) : a \in EntriesOf(t)}
    BY <1>2, <1>3, <1>4
  <2> QED BY <2>1 DEF channelsOf, BoundPeers, PermissionChannels
<1>8. pendingOf' = pendingOf
  <2>1. \A w \in Workers : arg'[w].tuple = arg[w].tuple /\ arg'[w].relay = arg[w].relay
                           /\ arg'[w].peer = arg[w].peer /\ pc'[w] = pc[w]
    BY DEF Tick, IndInv, TypeOK, Locals, Procs
  <2> QED BY <2>1 DEF pendingOf
<1>9. owner' = owner /\ out' = NoMsg
  BY DEF Tick
<1> QED BY <1>5, <1>6, <1>7, <1>8, <1>9, SilentStep DEF clientView

\* A refresh changes the deadline of an allocation and nothing else.
LEMMA RefreshStep ==
  ASSUME IndInv, NEW t \in Tuples, NEW d \in Time, Refresh(t, d)
  PROVE  Relay!Silence
<1>1. PICK a \in allocs : a.tuple = t /\ allocs' = Put(a, [a EXCEPT !.timeout = d])
  BY DEF Refresh
<1> DEFINE b == [a EXCEPT !.timeout = d]
<1>2. b.tuple = a.tuple /\ b.relay = a.relay /\ b.perms = a.perms
  BY DEF IndInv, TypeOK, Allocation
<1>3. PermittedIPs(b) = PermittedIPs(a) /\ BoundPeers(b) = BoundPeers(a)
  BY <1>2 DEF PermittedIPs, BoundPeers
<1> HIDE DEF b
<1>4. /\ leaseOf' = [leaseOf EXCEPT ![a.tuple] = {b.relay}]
      /\ permitsOf' = [permitsOf EXCEPT ![a.tuple] = PermittedIPs(b)]
      /\ channelsOf' = [channelsOf EXCEPT ![a.tuple] = BoundPeers(b)]
  BY <1>1, <1>2, ViewPut DEF b
<1>5. leaseOf' = leaseOf
  BY <1>2, <1>4, ViewOfEntry DEF leaseOf
<1>6. permitsOf' = permitsOf
  BY <1>3, <1>4, ViewOfEntry DEF permitsOf
<1>7. channelsOf' = channelsOf
  BY <1>3, <1>4, ViewOfEntry DEF channelsOf
<1>8. pendingOf' = pendingOf /\ owner' = owner /\ out' = NoMsg
  BY DEF Refresh, Atomic, pendingOf
<1> QED BY <1>5, <1>6, <1>7, <1>8, SilentStep DEF clientView

\* The steps the relay does not know: a socket that cannot be opened, a commit
\* that lost its entry, the sockets Remove and Prune ask to close, a reader's end.
LEMMA OtherStep ==
  ASSUME IndInv,
         \/ \E w \in Workers : NewListenFail(w) \/ NewCommitLost(w)
         \/ \E w \in Procs : Dealloc(w)
         \/ \E r \in Relays : ReaderStops(r)
  PROVE  Relay!Silence
<1>1. allocs' = allocs /\ owner' = owner /\ out' = NoMsg
  BY DEF NewListenFail, NewCommitLost, Dealloc, ReaderStops
<1>2. pendingOf' = pendingOf
  <2>1. ASSUME NEW w \in Workers, NewListenFail(w) PROVE pendingOf' = pendingOf
    <3>1. w \in Procs /\ Step(w, "listen", "idle") /\ \A v \in Workers : v # w => arg'[v] = arg[v]
      BY <2>1 DEF NewListenFail, Procs, IndInv, TypeOK
    <3> QED BY <3>1, PendingSame
  <2>2. ASSUME NEW w \in Procs, Dealloc(w) PROVE pendingOf' = pendingOf
    <3>1. Step(w, "dealloc", "idle") /\ arg' = arg
      BY <2>2 DEF Dealloc
    <3> QED BY <3>1, PendingSame
  <2>3. ASSUME UNCHANGED <<pc, arg>> PROVE pendingOf' = pendingOf
    BY <2>3 DEF pendingOf
  <2> QED BY <2>1, <2>2, <2>3 DEF NewCommitLost, ReaderStops
<1> QED BY <1>1, <1>2, ViewSame, SilentStep

\* The view of an empty table is that of a service that remembers nothing.
LEMMA StartForgotten == Init => Relay!Forgotten
<1> SUFFICES ASSUME Init PROVE Relay!Forgotten
  OBVIOUS
<1>1. leaseOf = [t \in Tuples |-> {}] /\ permitsOf = [t \in Tuples |-> {}]
      /\ channelsOf = [t \in Tuples |-> {}]
  BY DEF Init, leaseOf, permitsOf, channelsOf, EntriesOf
<1>2. pendingOf = [w \in Workers |-> NoMsg]
  BY DEF Init, pendingOf, Procs
<1> QED BY <1>1, <1>2 DEF Init, Relay!Forgotten

\* A restart forgets everything.
LEMMA CrashStep ==
  ASSUME Restart
  PROVE  Relay!Crash
<1>1. /\ leaseOf' = [t \in Tuples |-> {}] /\ permitsOf' = [t \in Tuples |-> {}]
      /\ channelsOf' = [t \in Tuples |-> {}]
  BY DEF Restart, leaseOf, permitsOf, channelsOf, EntriesOf
<1>2. pendingOf' = [w \in Workers |-> NoMsg]
  BY DEF Restart, pendingOf, Procs
<1> QED BY <1>1, <1>2 DEF Restart, Relay!Crash, Relay!Forgotten

\* Every step of the allocator is a step of the relay or changes nothing of it.
LEMMA RelayNext == IndInv /\ TableOK /\ [Next]_vars => [Relay!Next]_(Relay!serviceVars)
<1> SUFFICES ASSUME IndInv, TableOK, [Next]_vars
             PROVE  Relay!Next \/ UNCHANGED Relay!serviceVars
  BY DEF Relay!serviceVars
<1>0. Relay!Transport = Peers
  BY DEF Relay!Transport, Peers
<1>1. ASSUME NEW w \in Workers, Request(w) PROVE Relay!Next
  <2>1. ASSUME NEW t \in Tuples, NEW d \in Lifetimes, NewReserve(w, t, d) PROVE Relay!Next
    BY <2>1, ReserveStep DEF Relay!Next
  <2>2. ASSUME NEW t \in Tuples, Remove(w, t) PROVE Relay!Next
    BY <2>2, ReleaseStep DEF Relay!Next
  <2>3. ASSUME NEW t \in Tuples, NEW peer \in Peers, SendLookup(w, t, peer) PROVE Relay!Next
    <3>1. PICK a \in allocs : /\ a.tuple = t /\ a.relay # NoRelay
                              /\ \E p \in a.perms : p.ip = peer.ip
                              /\ Sending(w, t, a.relay, peer)
      BY <2>3 DEF SendLookup
    <3>2. \E u \in Tuples, r \in Relays : Relay!Accept(w, u, r, peer)
      BY <3>1, AcceptStep
    <3> QED BY <1>0, <3>2 DEF Relay!Next
  <2>4. ASSUME NEW t \in Tuples, NEW n \in Channels, SendBoundLookup(w, t, n) PROVE Relay!Next
    <3>1. PICK a \in allocs : /\ a.tuple = t /\ a.relay # NoRelay
                              /\ \E p \in a.perms : \E b \in p.binds :
                                   Sending(w, t, a.relay, [ip |-> p.ip, port |-> b.port])
      BY <2>4 DEF SendBoundLookup
    <3>2. PICK p \in a.perms : \E b \in p.binds :
             Sending(w, t, a.relay, [ip |-> p.ip, port |-> b.port])
      BY <3>1
    <3>3. PICK b \in p.binds : Sending(w, t, a.relay, [ip |-> p.ip, port |-> b.port])
      BY <3>2
    <3> DEFINE peer == [ip |-> p.ip, port |-> b.port]
    <3>4. p \in Permission
      BY DEF IndInv, TypeOK, Allocation
    <3>5. peer \in Peers /\ peer.ip = p.ip
      BY <3>4 DEF Permission, Binding, Peers
    <3>6. Sending(w, a.tuple, a.relay, peer)
      BY <3>1, <3>3
    <3> HIDE DEF peer
    <3>7. \E u \in Tuples, r \in Relays : Relay!Accept(w, u, r, peer)
      BY <3>1, <3>5, <3>6, AcceptStep
    <3> QED BY <1>0, <3>5, <3>7 DEF Relay!Next
  <2> QED BY <1>1, <2>1, <2>2, <2>3, <2>4 DEF Request
<1>2. ASSUME NEW w \in Workers, NewContinue(w) PROVE Relay!Next
  <2>1. ASSUME NEW r \in Relays, NewListen(w, r) PROVE Relay!Next
    BY <2>1, OpenStep DEF Relay!Next
  <2>2. CASE NewCommit(w)
    BY <2>2, GrantStep DEF Relay!Next
  <2>3. CASE NewListenFail(w) \/ NewCommitLost(w)
    BY <2>3, OtherStep DEF Relay!Next
  <2> QED BY <1>2, <2>1, <2>2, <2>3 DEF NewContinue
<1>3. ASSUME NEW w \in Workers, SendWrite(w) PROVE Relay!Next
  BY <1>3, DeliverStep DEF Relay!Next
<1>4. ASSUME AtomicRequest PROVE Relay!Next
  <2>1. ASSUME NEW t \in Tuples, NEW ip \in IPs, NEW d \in Time, CreatePermission(t, ip, d)
        PROVE  Relay!Next
    BY <2>1, PermitStep DEF Relay!Next
  <2>2. ASSUME NEW t \in Tuples, NEW n \in Channels, NEW peer \in Peers, NEW d \in Lifetimes,
               ChannelBind(t, n, peer, d)
        PROVE  Relay!Next
    <3>1. Relay!Bind(t, peer, n)
      BY <2>2, BindStep
    <3> QED BY <1>0, <3>1 DEF Relay!Next
  <2>3. ASSUME NEW t \in Tuples, NEW d \in Time, Refresh(t, d) PROVE Relay!Next
    BY <2>3, RefreshStep DEF Relay!Next
  <2> QED BY <1>4, <2>1, <2>2, <2>3 DEF AtomicRequest
<1>5. ASSUME NEW w \in Procs, Dealloc(w) PROVE Relay!Next
  BY <1>5, OtherStep DEF Relay!Next
<1>6. CASE Prune
  BY <1>6, ExpireStep DEF Relay!Next
<1>7. ASSUME NEW r \in Relays, NEW peer \in Peers, HandlePeerData(r, peer) PROVE Relay!Next
  BY <1>0, <1>7, ReceiveStep DEF Relay!Next
<1>8. ASSUME NEW r \in Relays, ReaderStops(r) PROVE Relay!Next
  BY <1>8, OtherStep DEF Relay!Next
<1>9. CASE Tick
  BY <1>9, TickStep DEF Relay!Next
<1>10. CASE Restart
  BY <1>10, CrashStep DEF Relay!Next
<1>11. CASE UNCHANGED vars
  <2>1. UNCHANGED clientView /\ pendingOf' = pendingOf /\ owner' = owner /\ out' = out
    BY <1>11, ViewSame DEF vars, pendingOf
  <2> QED BY <2>1 DEF Relay!serviceVars, Relay!clientVars, clientView
<1> QED
  BY <1>1, <1>2, <1>3, <1>4, <1>5, <1>6, <1>7, <1>8, <1>9, <1>10, <1>11 DEF Next

\* Allocator.New, Remove, Prune, CreatePermission, ChannelBind, Refresh, Send,
\* SendBound and the readers together keep every promise of the relay, however
\* their critical sections interleave.
THEOREM AllocatorImplementsRelay == Spec => ImplementsRelay
<1>1. Init => Relay!Init
  BY StartForgotten DEF Relay!Init
<1> QED
  BY <1>1, RelayNext, IndInvariant, TableInvariant, PTL DEF Spec, ImplementsRelay, Relay!Spec

=============================================================================
