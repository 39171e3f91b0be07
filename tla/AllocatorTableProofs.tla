------------------------- MODULE AllocatorTableProofs -------------------------
(***************************************************************************)
(* Proofs about the permissions and channel bindings of an allocation:     *)
(* they stay unambiguous, no step loses an unexpired one, and no step      *)
(* takes something from two clients.                                       *)
(***************************************************************************)
EXTENDS AllocatorProofs

OneToOne(p) == \A b, c \in p.binds : (b.port = c.port \/ b.chan = c.chan) => b = c

EntryOK(a) ==
    /\ \A p, q \in a.perms : p.ip = q.ip => p = q
    /\ \A p \in a.perms : OneToOne(p)

TableOK == \A a \in allocs : EntryOK(a)

\* The socket a New is about to commit is in no entry and in no other such New.
CommitFresh ==
    \A w \in Procs : pc[w] = "commit" =>
        /\ \A a \in allocs : a.relay # arg[w].relay
        /\ \A v \in Procs \ {w} : pc[v] = "commit" => arg[v].relay # arg[w].relay

-----------------------------------------------------------------------------
(* The rewriting operators keep an entry unambiguous *)

\* A tick changes deadlines only.
LEMMA AgedEntryOK == \A a \in Allocation : EntryOK(a) => EntryOK(Aged(a))
<1> SUFFICES ASSUME NEW a \in Allocation, EntryOK(a) PROVE EntryOK(Aged(a))
  OBVIOUS
<1>1. a.perms \subseteq Permission /\ Aged(a).perms = {AgedPermission(p) : p \in a.perms}
  BY DEF Allocation, Aged
<1>2. \A p \in Permission : AgedPermission(p).ip = p.ip
  BY DEF Permission, AgedPermission
<1>3. \A p \in Permission : AgedPermission(p).binds = {AgedBinding(b) : b \in p.binds}
  BY DEF Permission, AgedPermission
<1>4. \A b \in Binding : AgedBinding(b).port = b.port /\ AgedBinding(b).chan = b.chan
  BY DEF Binding, AgedBinding
<1>5. ASSUME NEW p \in a.perms PROVE OneToOne(AgedPermission(p))
  <2>1. p.binds \subseteq Binding /\ p \in Permission
    BY <1>1 DEF Permission
  <2>2. OneToOne(p)
    BY DEF EntryOK
  <2> QED BY <1>3, <1>4, <2>1, <2>2 DEF OneToOne
<1> QED BY <1>1, <1>2, <1>5 DEF EntryOK

\* Prune only drops permissions and bindings.
LEMMA PrunedEntryOK == \A a \in Allocation : EntryOK(a) => EntryOK(Pruned(a))
<1> SUFFICES ASSUME NEW a \in Allocation, EntryOK(a) PROVE EntryOK(Pruned(a))
  OBVIOUS
<1>1. /\ a.perms \subseteq Permission
      /\ Pruned(a).perms = {PrunedPermission(p) : p \in Unexpired(a.perms)}
  BY DEF Allocation, Pruned
<1>2. \A p \in Permission : /\ PrunedPermission(p).ip = p.ip
                            /\ PrunedPermission(p).binds \subseteq p.binds
  BY DEF Permission, PrunedPermission, Unexpired
<1>3. \A x \in Pruned(a).perms : \E p \in a.perms : x = PrunedPermission(p)
  BY <1>1 DEF Unexpired
<1> QED BY <1>1, <1>2, <1>3 DEF EntryOK, OneToOne

\* A channel bind that conflicts() lets through keeps the bindings one to one.
LEMMA BoundOneToOne ==
  ASSUME NEW p \in Permission, NEW n \in Channels, NEW port \in Ports, NEW d \in Time,
         OneToOne(p), ~conflicts(p, n, port)
  PROVE  OneToOne(Bound(p, n, port, d)) /\ Bound(p, n, port, d).ip = p.ip
<1> DEFINE refreshed(b) == IF b.chan = n THEN [b EXCEPT !.timeout = d] ELSE b
           fresh == [port |-> port, chan |-> n, timeout |-> d]
<1>1. Bound(p, n, port, d).ip = p.ip
  BY DEF Bound, Permission
<1>2. p.binds \subseteq Binding
  BY DEF Permission
<1>3. CASE \E b \in p.binds : b.chan = n
  <2>1. Bound(p, n, port, d).binds = {refreshed(b) : b \in p.binds}
    BY <1>3 DEF Bound, Permission
  <2>2. \A b \in p.binds : refreshed(b).port = b.port /\ refreshed(b).chan = b.chan
    BY <1>2 DEF Binding
  <2> HIDE DEF refreshed
  <2>3. OneToOne(Bound(p, n, port, d))
    BY <2>1, <2>2 DEF OneToOne
  <2> QED BY <1>1, <2>3
<1>4. CASE ~\E b \in p.binds : b.chan = n
  <2>1. Bound(p, n, port, d).binds = p.binds \union {fresh}
    BY <1>4 DEF Bound, Permission
  <2>2. \A b \in p.binds : b.port # port /\ b.chan # n
    BY <1>4 DEF conflicts
  <2>3. OneToOne(Bound(p, n, port, d))
    BY <2>1, <2>2 DEF OneToOne
  <2> QED BY <1>1, <2>3
<1> QED BY <1>3, <1>4

\* A channel bind keeps every binding of the permission where it was.
LEMMA BoundKeeps ==
  ASSUME NEW p \in Permission, NEW n \in Channels, NEW port \in Ports, NEW d \in Time
  PROVE  \A x \in p.binds : \E y \in Bound(p, n, port, d).binds :
            y.port = x.port /\ y.chan = x.chan
<1> DEFINE refreshed(b) == IF b.chan = n THEN [b EXCEPT !.timeout = d] ELSE b
<1>1. p.binds \subseteq Binding
  BY DEF Permission
<1>2. CASE \E b \in p.binds : b.chan = n
  <2>1. Bound(p, n, port, d).binds = {refreshed(b) : b \in p.binds}
    BY <1>2 DEF Bound, Permission
  <2>2. \A b \in p.binds : refreshed(b).port = b.port /\ refreshed(b).chan = b.chan
    BY <1>1 DEF Binding
  <2> HIDE DEF refreshed
  <2> QED BY <2>1, <2>2
<1>3. CASE ~\E b \in p.binds : b.chan = n
  <2>1. p.binds \subseteq Bound(p, n, port, d).binds
    BY <1>3 DEF Bound, Permission
  <2> QED BY <2>1
<1> QED BY <1>2, <1>3

-----------------------------------------------------------------------------
(* The steps *)

\* What a step may do to the entries of a client that keeps its relayed address.
KeptStep ==
    \A a \in allocs : \A b \in allocs' :
        (a.tuple = b.tuple /\ a.relay = b.relay) => KeptPermissions(a, b)

\* An entry keeps its own permissions.
LEMMA KeptSame == \A a : KeptPermissions(a, a)
  BY DEF KeptPermissions, Unexpired

\* Prune keeps an unexpired permission with its unexpired bindings.
LEMMA PrunedKeeps == \A a \in Allocation : KeptPermissions(a, Pruned(a))
<1> SUFFICES ASSUME NEW a \in Allocation, NEW p \in Unexpired(a.perms)
             PROVE  \E q \in Pruned(a).perms :
                       /\ q.ip = p.ip
                       /\ \A x \in Unexpired(p.binds) :
                             \E y \in q.binds : y.port = x.port /\ y.chan = x.chan
  BY DEF KeptPermissions
<1>1. p \in Permission
  BY DEF Allocation, Unexpired
<1>2. PrunedPermission(p).ip = p.ip /\ PrunedPermission(p).binds = Unexpired(p.binds)
  BY <1>1 DEF PrunedPermission, Permission
<1>3. PrunedPermission(p) \in Pruned(a).perms
  BY DEF Pruned, Allocation
<1> QED BY <1>2, <1>3

\* A tick keeps every permission and binding.
LEMMA AgedKeeps == \A a \in Allocation : KeptPermissions(a, Aged(a))
<1> SUFFICES ASSUME NEW a \in Allocation, NEW p \in Unexpired(a.perms)
             PROVE  \E q \in Aged(a).perms :
                       /\ q.ip = p.ip
                       /\ \A x \in Unexpired(p.binds) :
                             \E y \in q.binds : y.port = x.port /\ y.chan = x.chan
  BY DEF KeptPermissions
<1>1. p \in Permission /\ p \in a.perms
  BY DEF Allocation, Unexpired
<1>2. AgedPermission(p).ip = p.ip /\ AgedPermission(p).binds = {AgedBinding(b) : b \in p.binds}
  BY <1>1 DEF AgedPermission, Permission
<1>3. AgedPermission(p) \in Aged(a).perms
  BY <1>1 DEF Aged, Allocation
<1>4. \A x \in Unexpired(p.binds) :
         AgedBinding(x) \in AgedPermission(p).binds
         /\ AgedBinding(x).port = x.port /\ AgedBinding(x).chan = x.chan
  BY <1>1, <1>2 DEF Unexpired, AgedBinding, Permission, Binding
<1> QED BY <1>2, <1>3, <1>4

\* Rewriting permission p of an entry to q, for the same IP and with at least
\* the bindings of p, is fine.
LEMMA ReplacePermission ==
  ASSUME TypeOK, TupleUnique, TableOK,
         NEW a \in allocs, NEW p \in a.perms, NEW q,
         q.ip = p.ip, OneToOne(q),
         \A x \in p.binds : \E y \in q.binds : y.port = x.port /\ y.chan = x.chan,
         allocs' = PutPermission(a, p, q)
  PROVE  TableOK' /\ KeptStep
<1> DEFINE e == [a EXCEPT !.perms = (a.perms \ {p}) \union {q}]
<1>1. a \in Allocation
  BY DEF TypeOK
<1>2. e.perms = (a.perms \ {p}) \union {q} /\ e.tuple = a.tuple
  BY <1>1 DEF Allocation
<1>3. allocs' = (allocs \ {a}) \union {e}
  BY DEF PutPermission, Put
<1> HIDE DEF e
<1>4. EntryOK(a)
  BY DEF TableOK
<1>5. EntryOK(e)
  BY <1>2, <1>4 DEF EntryOK
<1>6. KeptPermissions(a, e)
  BY <1>2 DEF KeptPermissions, Unexpired
<1>7. TableOK'
  BY <1>3, <1>5 DEF TableOK
<1>8. KeptStep
  <2> SUFFICES ASSUME NEW x \in allocs, NEW y \in allocs', x.tuple = y.tuple
               PROVE  KeptPermissions(x, y)
    BY DEF KeptStep
  <2>1. CASE y = e
    <3>1. x = a
      BY <1>2, <2>1 DEF TupleUnique
    <3> QED BY <1>6, <2>1, <3>1
  <2>2. CASE y \in allocs
    <3>1. x = y
      BY <2>2 DEF TupleUnique
    <3> QED BY <3>1, KeptSame
  <2> QED BY <1>3, <2>1, <2>2
<1> QED BY <1>7, <1>8

\* Adding a permission for an IP that has none is fine.
LEMMA AddPermission ==
  ASSUME TypeOK, TupleUnique, TableOK,
         NEW a \in allocs, NEW q, \A p \in a.perms : p.ip # q.ip, OneToOne(q),
         allocs' = Put(a, [a EXCEPT !.perms = @ \union {q}])
  PROVE  TableOK' /\ KeptStep
<1> DEFINE e == [a EXCEPT !.perms = @ \union {q}]
<1>1. a \in Allocation
  BY DEF TypeOK
<1>2. e.perms = a.perms \union {q} /\ e.tuple = a.tuple
  BY <1>1 DEF Allocation
<1>3. allocs' = (allocs \ {a}) \union {e}
  BY DEF Put
<1> HIDE DEF e
<1>4. EntryOK(a)
  BY DEF TableOK
<1>5. EntryOK(e)
  BY <1>2, <1>4 DEF EntryOK
<1>6. KeptPermissions(a, e)
  BY <1>2 DEF KeptPermissions, Unexpired
<1>7. TableOK'
  BY <1>3, <1>5 DEF TableOK
<1>8. KeptStep
  <2> SUFFICES ASSUME NEW x \in allocs, NEW y \in allocs', x.tuple = y.tuple
               PROVE  KeptPermissions(x, y)
    BY DEF KeptStep
  <2>1. CASE y = e
    <3>1. x = a
      BY <1>2, <2>1 DEF TupleUnique
    <3> QED BY <1>6, <2>1, <3>1
  <2>2. CASE y \in allocs
    <3>1. x = y
      BY <2>2 DEF TupleUnique
    <3> QED BY <3>1, KeptSame
  <2> QED BY <1>3, <2>1, <2>2
<1> QED BY <1>7, <1>8

\* A step that only drops entries or leaves them alone is fine.
LEMMA DropEntries ==
  ASSUME TupleUnique, TableOK, allocs' \subseteq allocs
  PROVE  TableOK' /\ KeptStep
  BY KeptSame DEF TupleUnique, TableOK, KeptStep

\* Every step keeps the socket of a New about to commit out of the table: it
\* was unbound when NetAllocator.New returned it, and only this New commits it.
LEMMA FreshNext == IndInv /\ CommitFresh /\ [Next]_vars => CommitFresh'
<1> SUFFICES ASSUME IndInv, CommitFresh, [Next]_vars PROVE CommitFresh'
  OBVIOUS
<1>0. /\ allocs \subseteq Allocation
      /\ pc \in [Procs -> {"idle", "listen", "commit", "dealloc", "write"}]
      /\ arg \in [Procs -> Locals]
  BY DEF IndInv, TypeOK
<1>a. Workers \subseteq Procs
  BY DEF Procs
<1>1. ASSUME NEW w \in Workers, NEW t \in Tuples, NEW d \in Lifetimes, NewReserve(w, t, d)
      PROVE  CommitFresh'
  <2>1. \A x \in allocs' : x \in allocs \/ x.relay = NoRelay
    BY <1>1 DEF NewReserve, Entry
  <2>2. \A v \in Procs : pc'[v] = "commit" =>
           pc[v] = "commit" /\ arg'[v] = arg[v] /\ arg[v].relay # NoRelay
    BY <1>0, <1>1, <1>a, AddressAssumption
       DEF NewReserve, Step, IndInv, TypeOK, CallHoldsOwnSocket
  <2> QED BY <2>1, <2>2 DEF CommitFresh
<1>2. ASSUME NEW w \in Workers, NEW r \in Relays, NewListen(w, r)
      PROVE  CommitFresh'
  <2>1. /\ pc'[w] = "commit" /\ arg'[w].relay = r /\ r \notin open
        /\ \A v \in Procs \ {w} : pc'[v] = pc[v] /\ arg'[v] = arg[v]
    BY <1>0, <1>2, <1>a DEF NewListen, AllocatePort, Step, Locals
  <2>2. \A a \in allocs : a.relay # r
    BY <2>1, AddressAssumption DEF IndInv, RelayOwned
  <2>3. \A v \in Procs : pc[v] = "commit" => arg[v].relay # r
    BY <2>1 DEF IndInv, CallHoldsOwnSocket
  <2>4. allocs' = allocs
    BY <1>2 DEF NewListen
  <2> QED BY <2>1, <2>2, <2>3, <2>4, <1>a DEF CommitFresh
<1>3. ASSUME NEW w \in Workers, NewCommit(w)
      PROVE  CommitFresh'
  <2>1. \A x \in allocs' : x \in allocs \/ x.relay = arg[w].relay
    BY <1>3 DEF NewCommit, Put, Entry
  <2>2. /\ pc[w] = "commit" /\ pc'[w] # "commit"
        /\ \A v \in Procs \ {w} : pc'[v] = pc[v] /\ arg'[v] = arg[v]
    BY <1>0, <1>3, <1>a DEF NewCommit, Step
  <2> QED BY <2>1, <2>2, <1>a DEF CommitFresh
<1>4. CASE Restart
  BY <1>4 DEF Restart, CommitFresh
<1>5. CASE Tick
  <2>1. \A x \in allocs' : \E a \in allocs : x.relay = a.relay
    BY <1>0, <1>5, SameIdentity DEF Tick
  <2>2. \A v \in Procs : pc'[v] = pc[v] /\ arg'[v].relay = arg[v].relay
    BY <1>0, <1>5 DEF Tick, Locals
  <2> QED BY <2>1, <2>2 DEF CommitFresh
<1>6. ASSUME \A x \in allocs' : \E a \in allocs : x.relay = a.relay,
             \A v \in Procs : pc'[v] = "commit" => pc[v] = "commit" /\ arg'[v] = arg[v]
      PROVE  CommitFresh'
  BY <1>6 DEF CommitFresh
<1>7. ASSUME NEW w \in Workers, NewListenFail(w) \/ NewCommitLost(w) \/ SendWrite(w)
      PROVE  CommitFresh'
  <2>1. allocs' = allocs
    BY <1>7 DEF NewListenFail, NewCommitLost, SendWrite
  <2>2. \A v \in Procs : pc'[v] = "commit" => pc[v] = "commit" /\ arg'[v] = arg[v]
    BY <1>0, <1>7, <1>a DEF NewListenFail, NewCommitLost, SendWrite, Step
  <2> QED BY <1>6, <2>1, <2>2
<1>8. ASSUME NEW w \in Workers, NEW t \in Tuples,
             \/ Remove(w, t)
             \/ \E peer \in Peers : SendLookup(w, t, peer)
             \/ \E n \in Channels : SendBoundLookup(w, t, n)
      PROVE  CommitFresh'
  <2>1. allocs' \subseteq allocs
    BY <1>8 DEF Remove, SendLookup, SendBoundLookup, Sending
  <2>2. \A v \in Procs : pc'[v] = "commit" => pc[v] = "commit" /\ arg'[v] = arg[v]
    BY <1>0, <1>8, <1>a DEF Remove, SendLookup, SendBoundLookup, Sending, Step
  <2> QED BY <1>6, <2>1, <2>2
<1>9. CASE Prune
  <2>1. \A x \in allocs' : \E a \in allocs : x.relay = a.relay
    BY <1>0, <1>9, SameIdentity DEF Prune, Unexpired
  <2>2. \A v \in Procs : pc'[v] = "commit" => pc[v] = "commit" /\ arg'[v] = arg[v]
    BY <1>0, <1>9 DEF Prune, Step
  <2> QED BY <1>6, <2>1, <2>2
<1>10. ASSUME NEW w \in Procs, Dealloc(w)
       PROVE  CommitFresh'
  BY <1>0, <1>6, <1>10 DEF Dealloc, Step
<1>11. CASE AtomicRequest
  <2>1. \A x \in allocs' : \E a \in allocs : x.relay = a.relay
    BY <1>0, <1>11 DEF AtomicRequest, CreatePermission, ChannelBind, Refresh,
                       PutPermission, Put, Allocation
  <2>2. UNCHANGED <<pc, arg>>
    BY <1>11 DEF AtomicRequest, CreatePermission, ChannelBind, Refresh, Atomic
  <2> QED BY <1>6, <2>1, <2>2
<1>12. ASSUME \/ \E r \in Relays, peer \in Peers : HandlePeerData(r, peer)
              \/ \E r \in Relays : ReaderStops(r)
              \/ UNCHANGED vars
       PROVE  CommitFresh'
  BY <1>6, <1>12 DEF HandlePeerData, ReaderStops, vars
<1> QED
  BY <1>1, <1>2, <1>3, <1>4, <1>5, <1>7, <1>8, <1>9, <1>10, <1>11, <1>12
     DEF Next, Request, NewContinue

\* The server starts with an unambiguous (empty) table.
LEMMA TableInit == Init => TableOK /\ CommitFresh
  BY DEF Init, TableOK, CommitFresh

\* Every step keeps the table unambiguous and loses nothing unexpired.
LEMMA TableNext == IndInv /\ TableOK /\ CommitFresh /\ [Next]_vars => TableOK' /\ KeptStep
<1> SUFFICES ASSUME IndInv, TableOK, CommitFresh, [Next]_vars PROVE TableOK' /\ KeptStep
  OBVIOUS
<1>0. TypeOK /\ TupleUnique /\ allocs \subseteq Allocation
  BY DEF IndInv, TypeOK
<1>1. ASSUME NEW w \in Workers, NEW t \in Tuples, NEW d \in Lifetimes, NewReserve(w, t, d)
      PROVE  TableOK' /\ KeptStep
  <2>1. \A x \in allocs' : x \in allocs \/ (x.tuple = t /\ x.perms = {})
    BY <1>1 DEF NewReserve, Entry
  <2>2. \A x \in allocs : x.tuple # t
    BY <1>1 DEF NewReserve, InUse
  <2>3. TableOK'
    BY <2>1 DEF TableOK, EntryOK
  <2>4. KeptStep
    BY <1>0, <2>1, <2>2, KeptSame DEF KeptStep, TupleUnique
  <2> QED BY <2>3, <2>4
<1>2. ASSUME NEW w \in Workers, NewCommit(w)
      PROVE  TableOK' /\ KeptStep
  <2> DEFINE e == Entry(arg[w].tuple, arg[w].relay, arg[w].timeout)
  <2>1. PICK a \in allocs : a.tuple = arg[w].tuple /\ allocs' = Put(a, e)
    BY <1>2 DEF NewCommit
  <2>2. e.perms = {} /\ e.tuple = arg[w].tuple
    BY DEF Entry
  <2> HIDE DEF e
  <2>3. TableOK'
    BY <2>1, <2>2 DEF Put, TableOK, EntryOK
  <2>4. \A x \in allocs : x.relay # e.relay
    BY <1>2 DEF NewCommit, Step, CommitFresh, Procs, e, Entry
  <2>5. KeptStep
    BY <1>0, <2>1, <2>4, KeptSame DEF KeptStep, Put, TupleUnique
  <2> QED BY <2>3, <2>5
<1>3. ASSUME NEW w \in Workers, NEW t \in Tuples, Remove(w, t)
      PROVE  TableOK' /\ KeptStep
  BY <1>0, <1>3, DropEntries DEF Remove
<1>4. CASE Restart
  BY <1>0, <1>4, DropEntries DEF Restart
<1>5. CASE Prune
  <2>1. \A y \in allocs' : \E a \in allocs : y = Pruned(a)
    BY <1>5 DEF Prune, Unexpired
  <2>2. TableOK'
    BY <1>0, <2>1, PrunedEntryOK DEF TableOK
  <2>3. \A a \in allocs : KeptPermissions(a, Pruned(a))
    BY <1>0, PrunedKeeps
  <2>4. KeptStep
    BY <1>0, <2>1, <2>3, SameIdentity DEF KeptStep, TupleUnique
  <2> QED BY <2>2, <2>4
<1>6. CASE Tick
  <2>1. \A y \in allocs' : \E a \in allocs : y = Aged(a)
    BY <1>6 DEF Tick
  <2>2. TableOK'
    BY <1>0, <2>1, AgedEntryOK DEF TableOK
  <2>3. \A a \in allocs : KeptPermissions(a, Aged(a))
    BY <1>0, AgedKeeps
  <2>4. KeptStep
    BY <1>0, <2>1, <2>3, SameIdentity DEF KeptStep, TupleUnique
  <2> QED BY <2>2, <2>4
<1>7. ASSUME NEW t \in Tuples, NEW ip \in IPs, NEW d \in Time, CreatePermission(t, ip, d)
      PROVE  TableOK' /\ KeptStep
  <2>1. PICK a \in allocs :
          \/ \E p \in a.perms :
                p.ip = ip /\ allocs' = PutPermission(a, p, [p EXCEPT !.timeout = d])
          \/ /\ \A p \in a.perms : p.ip # ip
             /\ allocs' = Put(a, [a EXCEPT !.perms = @ \union
                                     {[ip |-> ip, timeout |-> d, binds |-> {}]}])
    BY <1>7 DEF CreatePermission
  <2>2. ASSUME NEW p \in a.perms, allocs' = PutPermission(a, p, [p EXCEPT !.timeout = d])
        PROVE  TableOK' /\ KeptStep
    <3>1. p \in Permission /\ OneToOne(p)
      BY <1>0 DEF Allocation, TableOK, EntryOK
    <3>2. [p EXCEPT !.timeout = d].ip = p.ip /\ [p EXCEPT !.timeout = d].binds = p.binds
      BY <3>1 DEF Permission
    <3>3. OneToOne([p EXCEPT !.timeout = d])
      BY <3>1, <3>2 DEF OneToOne
    <3> QED BY <1>0, <2>2, <3>2, <3>3, ReplacePermission
  <2>3. ASSUME \A p \in a.perms : p.ip # ip,
               allocs' = Put(a, [a EXCEPT !.perms = @ \union
                                     {[ip |-> ip, timeout |-> d, binds |-> {}]}])
        PROVE  TableOK' /\ KeptStep
    <3>1. OneToOne([ip |-> ip, timeout |-> d, binds |-> {}])
      BY DEF OneToOne
    <3> QED BY <1>0, <2>3, <3>1, AddPermission
  <2> QED BY <2>1, <2>2, <2>3
<1>8. ASSUME NEW t \in Tuples, NEW n \in Channels, NEW peer \in Peers, NEW d \in Lifetimes,
             ChannelBind(t, n, peer, d)
      PROVE  TableOK' /\ KeptStep
  <2> DEFINE new == [ip |-> peer.ip, timeout |-> d,
                     binds |-> {[port |-> peer.port, chan |-> n, timeout |-> d]}]
  <2>0. d \in Time /\ peer.port \in Ports
    BY LifetimeAssumption DEF Lifetimes, Time, Peers
  <2>1. PICK a \in allocs :
          \/ \E p \in a.perms : /\ ~conflicts(p, n, peer.port)
                                /\ allocs' = PutPermission(a, p, Bound(p, n, peer.port, d))
          \/ /\ \A p \in a.perms : p.ip # peer.ip
             /\ allocs' = Put(a, [a EXCEPT !.perms = @ \union {new}])
    BY <1>8 DEF ChannelBind
  <2>2. ASSUME NEW p \in a.perms, ~conflicts(p, n, peer.port),
               allocs' = PutPermission(a, p, Bound(p, n, peer.port, d))
        PROVE  TableOK' /\ KeptStep
    <3>1. p \in Permission /\ OneToOne(p)
      BY <1>0 DEF Allocation, TableOK, EntryOK
    <3>2. OneToOne(Bound(p, n, peer.port, d)) /\ Bound(p, n, peer.port, d).ip = p.ip
      BY <2>0, <2>2, <3>1, BoundOneToOne
    <3>3. \A x \in p.binds : \E y \in Bound(p, n, peer.port, d).binds :
             y.port = x.port /\ y.chan = x.chan
      BY <2>0, <3>1, BoundKeeps
    <3> QED BY <1>0, <2>2, <3>2, <3>3, ReplacePermission
  <2>3. ASSUME \A p \in a.perms : p.ip # peer.ip,
               allocs' = Put(a, [a EXCEPT !.perms = @ \union {new}])
        PROVE  TableOK' /\ KeptStep
    <3>1. OneToOne(new) /\ new.ip = peer.ip
      BY DEF OneToOne
    <3> HIDE DEF new
    <3> QED BY <1>0, <2>3, <3>1, AddPermission
  <2> QED BY <2>1, <2>2, <2>3
<1>9. ASSUME NEW t \in Tuples, NEW d \in Time, Refresh(t, d)
      PROVE  TableOK' /\ KeptStep
  <2>1. PICK a \in allocs : allocs' = Put(a, [a EXCEPT !.timeout = d])
    BY <1>9 DEF Refresh
  <2>2. /\ [a EXCEPT !.timeout = d].perms = a.perms
        /\ [a EXCEPT !.timeout = d].tuple = a.tuple
    BY <1>0 DEF Allocation
  <2>3. \A y \in allocs' : \E x \in allocs : y.perms = x.perms /\ y.tuple = x.tuple
    BY <2>1, <2>2 DEF Put
  <2>4. TableOK'
    BY <2>3 DEF TableOK, EntryOK
  <2>5. KeptStep
    BY <1>0, <2>3 DEF KeptStep, TupleUnique, KeptPermissions, Unexpired
  <2> QED BY <2>4, <2>5
<1>10. CASE UNCHANGED allocs
  BY <1>0, <1>10, DropEntries
<1>11. ASSUME NEW w \in Workers,
              \/ \E r \in Relays : NewListen(w, r)
              \/ NewListenFail(w) \/ NewCommitLost(w) \/ SendWrite(w)
              \/ \E t \in Tuples, peer \in Peers : SendLookup(w, t, peer)
              \/ \E t \in Tuples, n \in Channels : SendBoundLookup(w, t, n)
       PROVE  UNCHANGED allocs
  BY <1>11 DEF NewListen, NewListenFail, NewCommitLost, SendWrite, SendLookup,
               SendBoundLookup, Sending
<1>12. ASSUME \/ \E w \in Procs : Dealloc(w)
              \/ \E r \in Relays, peer \in Peers : HandlePeerData(r, peer)
              \/ \E r \in Relays : ReaderStops(r)
              \/ UNCHANGED vars
       PROVE  UNCHANGED allocs
  BY <1>12 DEF Dealloc, HandlePeerData, ReaderStops, vars
<1> QED
  BY <1>1, <1>2, <1>3, <1>4, <1>5, <1>6, <1>7, <1>8, <1>9, <1>10, <1>11, <1>12
     DEF Next, Request, NewContinue, AtomicRequest

-----------------------------------------------------------------------------
(* The theorems of the second induction *)

\* The table stays unambiguous, and commits bring in fresh addresses only.
LEMMA TableInvariant == Spec => [](TableOK /\ CommitFresh)
  BY TableInit, TableNext, FreshNext, IndInvariant, PTL DEF Spec

\* CreatePermission and ChannelBind never leave two permissions for one IP.
THEOREM PermissionUniqueness == Spec => []PermissionUnique
<1>1. TableOK => PermissionUnique
  BY DEF TableOK, EntryOK, PermissionUnique
<1> QED BY <1>1, TableInvariant, PTL

\* The ports and channels bound under a permission stay one to one.
THEOREM BindingsOneToOne == Spec => []BindingInjective
<1>1. TableOK => BindingInjective
  BY DEF TableOK, EntryOK, OneToOne, BindingInjective
<1> QED BY <1>1, TableInvariant, PTL

\* No step takes an unexpired permission or binding from an allocation that
\* keeps its relayed address.
THEOREM NothingLostEarly == Spec => UnexpiredKept
<1>1. KeptStep => [\A a \in allocs : \A b \in allocs' :
                     (a.tuple = b.tuple /\ a.relay = b.relay) => KeptPermissions(a, b)]_vars
  BY DEF KeptStep
<1> QED BY <1>1, TableNext, TableInvariant, IndInvariant, PTL DEF Spec, UnexpiredKept

-----------------------------------------------------------------------------
(* Isolation: what one client's requests can do to another *)

\* Entry b still has what entry a had unexpired, at most a tick shorter.
EntryLasts(a, b) ==
    /\ b.tuple = a.tuple /\ b.relay = a.relay /\ b.timeout + 1 >= a.timeout
    /\ \A p \in Unexpired(a.perms) : \E q \in b.perms :
          /\ q.ip = p.ip /\ q.timeout + 1 >= p.timeout
          /\ \A x \in Unexpired(p.binds) : \E y \in q.binds :
                y.port = x.port /\ y.chan = x.chan /\ y.timeout + 1 >= x.timeout

\* An entry that is left alone, ages or is pruned lasts.
LEMMA EntriesLast ==
  \A a \in Allocation : EntryLasts(a, a) /\ EntryLasts(a, Aged(a)) /\ EntryLasts(a, Pruned(a))
<1> SUFFICES ASSUME NEW a \in Allocation
             PROVE  EntryLasts(a, a) /\ EntryLasts(a, Aged(a)) /\ EntryLasts(a, Pruned(a))
  OBVIOUS
<1>1. /\ a = [tuple |-> a.tuple, perms |-> a.perms, relay |-> a.relay, timeout |-> a.timeout]
      /\ a.timeout \in Nat /\ a.perms \subseteq Permission
  BY LifetimeAssumption DEF Allocation, Time
<1>2. \A p \in a.perms :
        /\ p = [ip |-> p.ip, timeout |-> p.timeout, binds |-> p.binds]
        /\ p.timeout \in Nat /\ p.binds \subseteq Binding
  BY <1>1, LifetimeAssumption DEF Permission, Time
<1>3. \A x \in Binding :
        x.timeout \in Nat /\ x = [port |-> x.port, chan |-> x.chan, timeout |-> x.timeout]
  BY LifetimeAssumption DEF Binding, Time
<1>4. /\ Unexpired(a.perms) \subseteq a.perms
      /\ \A p \in a.perms : Unexpired(p.binds) \subseteq p.binds
  BY DEF Unexpired
<1>5. EntryLasts(a, a)
  BY <1>1, <1>2, <1>3, <1>4 DEF EntryLasts
<1>6. EntryLasts(a, Aged(a))
  <2>1. /\ Aged(a).tuple = a.tuple /\ Aged(a).relay = a.relay /\ Aged(a).timeout + 1 >= a.timeout
        /\ Aged(a).perms = {AgedPermission(p) : p \in a.perms}
    BY <1>1 DEF Aged, Less
  <2>2. \A p \in a.perms :
          /\ AgedPermission(p).ip = p.ip /\ AgedPermission(p).timeout + 1 >= p.timeout
          /\ AgedPermission(p).binds = {AgedBinding(x) : x \in p.binds}
    BY <1>2 DEF AgedPermission, Less
  <2>3. \A x \in Binding : /\ AgedBinding(x).port = x.port /\ AgedBinding(x).chan = x.chan
                           /\ AgedBinding(x).timeout + 1 >= x.timeout
    BY <1>3 DEF AgedBinding, Less
  <2>4. ASSUME NEW p \in Unexpired(a.perms)
        PROVE  \A x \in Unexpired(p.binds) : \E y \in AgedPermission(p).binds :
                   y.port = x.port /\ y.chan = x.chan /\ y.timeout + 1 >= x.timeout
    BY <1>2, <1>4, <2>2, <2>3, <2>4
  <2> QED BY <1>4, <2>1, <2>2, <2>4 DEF EntryLasts
<1>7. EntryLasts(a, Pruned(a))
  <2>1. /\ Pruned(a).tuple = a.tuple /\ Pruned(a).relay = a.relay /\ Pruned(a).timeout = a.timeout
        /\ Pruned(a).perms = {PrunedPermission(p) : p \in Unexpired(a.perms)}
    BY <1>1 DEF Pruned
  <2>2. \A p \in a.perms :
          /\ PrunedPermission(p).ip = p.ip /\ PrunedPermission(p).timeout = p.timeout
          /\ PrunedPermission(p).binds = Unexpired(p.binds)
    BY <1>2 DEF PrunedPermission
  <2>3. ASSUME NEW p \in Unexpired(a.perms)
        PROVE  \A x \in Unexpired(p.binds) : \E y \in PrunedPermission(p).binds :
                   y.port = x.port /\ y.chan = x.chan /\ y.timeout + 1 >= x.timeout
    BY <1>2, <1>3, <1>4, <2>2, <2>3
  <2> QED BY <1>1, <1>2, <1>4, <2>1, <2>2, <2>3 DEF EntryLasts
<1> QED BY <1>5, <1>6, <1>7

\* A client whose entries all stay is untouched, and nobody is touched by the
\* clock, by the collector or by a call that does not change the table.
LEMMA StaysUntouched ==
  ASSUME TypeOK
  PROVE  /\ \A t : (\A a \in allocs : a.tuple = t => a \in allocs') => Untouched(t)
         /\ Tick \/ Prune \/ allocs \subseteq allocs' => \A t : Untouched(t)
<1>0. Unexpired(allocs) \subseteq allocs /\ \A a \in allocs : a \in Allocation
  BY DEF TypeOK, Unexpired
<1>1. ASSUME NEW t, \A a \in Unexpired(allocs) : a.tuple = t => \E b \in allocs' : EntryLasts(a, b)
      PROVE  Untouched(t)
  BY <1>1 DEF Untouched, EntryLasts
<1>2. ASSUME NEW t, \A a \in allocs : a.tuple = t => a \in allocs' PROVE Untouched(t)
  BY <1>0, <1>1, <1>2, EntriesLast
<1>3. ASSUME Tick, NEW t PROVE Untouched(t)
  BY <1>0, <1>1, <1>3, EntriesLast DEF Tick
<1>4. ASSUME Prune, NEW t PROVE Untouched(t)
  BY <1>0, <1>1, <1>4, EntriesLast DEF Prune
<1> QED BY <1>2, <1>3, <1>4

\* A request leaves the entries of the other clients where they are.
LEMMA OthersUntouched ==
  ASSUME TypeOK, NEW t,
         \/ \E w \in Workers, u \in Tuples, d \in Lifetimes : NewReserve(w, u, d)
         \/ \E w \in Workers : arg[w].tuple # t /\ NewCommit(w)
         \/ \E w \in Workers, u \in Tuples \ {t} : Remove(w, u)
         \/ \E u \in Tuples \ {t}, d \in Time : Refresh(u, d)
         \/ \E u \in Tuples \ {t}, i \in IPs, d \in Time : CreatePermission(u, i, d)
         \/ \E u \in Tuples \ {t}, n \in Channels, peer \in Peers, d \in Lifetimes :
               ChannelBind(u, n, peer, d)
  PROVE  Untouched(t)
<1>0. SUFFICES \A a \in allocs : a.tuple = t => a \in allocs'
  BY StaysUntouched
<1>1. ASSUME NEW e \in allocs, e.tuple # t, NEW b, allocs' = Put(e, b)
      PROVE  \A a \in allocs : a.tuple = t => a \in allocs'
  BY <1>1 DEF Put
<1>2. CASE \E w \in Workers, u \in Tuples, d \in Lifetimes : NewReserve(w, u, d)
  BY <1>2 DEF NewReserve
<1>3. CASE \E w \in Workers : arg[w].tuple # t /\ NewCommit(w)
  BY <1>1, <1>3 DEF NewCommit
<1>4. CASE \E w \in Workers, u \in Tuples \ {t} : Remove(w, u)
  BY <1>4 DEF Remove
<1>5. CASE \E u \in Tuples \ {t}, d \in Time : Refresh(u, d)
  BY <1>1, <1>5 DEF Refresh
<1>6. CASE \E u \in Tuples \ {t}, i \in IPs, d \in Time : CreatePermission(u, i, d)
  BY <1>1, <1>6 DEF CreatePermission, PutPermission
<1>7. CASE \E u \in Tuples \ {t}, n \in Channels, peer \in Peers, d \in Lifetimes :
             ChannelBind(u, n, peer, d)
  BY <1>1, <1>7 DEF ChannelBind, PutPermission
<1> QED BY <1>2, <1>3, <1>4, <1>5, <1>6, <1>7

\* With any number of clients, a step that is not a restart takes something
\* unexpired from one of them at most.
THEOREM ClientIsolation == Spec => ClientsIsolated
<1>1. ASSUME TypeOK, Next, ~panicked, NEW t \in Tuples, NEW u \in Tuples, t # u
      PROVE  Untouched(t) \/ Untouched(u)
  <2>0. \A x \in Tuples : x \in Tuples \ {t} \/ x \in Tuples \ {u}
    BY <1>1
  <2>1. ASSUME NEW w \in Workers, Request(w) PROVE Untouched(t) \/ Untouched(u)
    <3>1. CASE \E x \in Tuples, d \in Lifetimes : NewReserve(w, x, d)
      BY <1>1, <3>1, OthersUntouched
    <3>2. ASSUME NEW x \in Tuples, Remove(w, x) PROVE Untouched(t) \/ Untouched(u)
      BY <1>1, <2>0, <3>2, OthersUntouched
    <3>3. CASE UNCHANGED allocs
      BY <1>1, <3>3, StaysUntouched
    <3> QED BY <2>1, <3>1, <3>2, <3>3 DEF Request, SendLookup, SendBoundLookup, Sending
  <2>2. ASSUME NEW w \in Workers, NewCommit(w) PROVE Untouched(t) \/ Untouched(u)
    BY <1>1, <2>2, OthersUntouched
  <2>3. CASE AtomicRequest
    <3>1. ASSUME NEW x \in Tuples, NEW i \in IPs, NEW d \in Time, CreatePermission(x, i, d)
          PROVE  Untouched(t) \/ Untouched(u)
      BY <1>1, <2>0, <3>1, OthersUntouched
    <3>2. ASSUME NEW x \in Tuples, NEW n \in Channels, NEW peer \in Peers, NEW d \in Lifetimes,
                 ChannelBind(x, n, peer, d)
          PROVE  Untouched(t) \/ Untouched(u)
      BY <1>1, <2>0, <3>2, OthersUntouched
    <3>3. ASSUME NEW x \in Tuples, NEW d \in Time, Refresh(x, d)
          PROVE  Untouched(t) \/ Untouched(u)
      BY <1>1, <2>0, <3>3, OthersUntouched
    <3> QED BY <2>3, <3>1, <3>2, <3>3 DEF AtomicRequest
  <2>4. CASE Tick \/ Prune \/ UNCHANGED allocs
    BY <1>1, <2>4, StaysUntouched
  <2>5. CASE Restart
    BY <1>1, <2>5 DEF Restart
  <2>6. ASSUME NEW w \in Workers, NewContinue(w) \/ SendWrite(w)
        PROVE  NewCommit(w) \/ UNCHANGED allocs
    BY <2>6 DEF NewContinue, NewListen, NewListenFail, NewCommitLost, SendWrite
  <2>7. ASSUME \/ \E w \in Procs : Dealloc(w)
               \/ \E r \in Relays, peer \in Peers : HandlePeerData(r, peer)
               \/ \E r \in Relays : ReaderStops(r)
        PROVE  UNCHANGED allocs
    BY <2>7 DEF Dealloc, HandlePeerData, ReaderStops
  <2> QED BY <1>1, <2>1, <2>2, <2>3, <2>4, <2>5, <2>6, <2>7 DEF Next
<1>2. TypeOK /\ [Next]_vars =>
        [~panicked => \A t, u \in Tuples : t # u => Untouched(t) \/ Untouched(u)]_vars
  BY <1>1
<1> QED BY <1>2, TypeCorrect, PTL DEF Spec, ClientsIsolated

=============================================================================
