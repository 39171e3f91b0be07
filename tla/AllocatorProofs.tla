--------------------------- MODULE AllocatorProofs ---------------------------
(***************************************************************************)
(* Proofs about Allocator, for any sets of clients, peers, channels,       *)
(* relayed addresses and workers and any longest lifetime.                 *)
(***************************************************************************)
EXTENDS Allocator, TLAPS

-----------------------------------------------------------------------------
(* What the helper operators of the model return *)

\* Counting a deadline down keeps it a deadline.
LEMMA LessType == \A d \in Time : Less(d) \in Time
  BY LifetimeAssumption DEF Time, Less

\* A tick keeps a permission well typed.
LEMMA AgedPermissionType == \A p \in Permission : AgedPermission(p) \in Permission
<1> SUFFICES ASSUME NEW p \in Permission PROVE AgedPermission(p) \in Permission
  OBVIOUS
<1>1. \A b \in p.binds : AgedBinding(b) \in Binding
  BY LessType DEF Permission, Binding, AgedBinding
<1>2. Less(p.timeout) \in Time
  BY LessType DEF Permission
<1> QED
  BY <1>1, <1>2 DEF AgedPermission, Permission

\* A tick keeps an entry of the table well typed.
LEMMA AgedType == \A a \in Allocation : Aged(a) \in Allocation
<1> SUFFICES ASSUME NEW a \in Allocation PROVE Aged(a) \in Allocation
  OBVIOUS
<1>1. \A p \in a.perms : AgedPermission(p) \in Permission
  BY AgedPermissionType DEF Allocation
<1>2. Less(a.timeout) \in Time
  BY LessType DEF Allocation
<1> QED
  BY <1>1, <1>2 DEF Aged, Allocation

\* Prune keeps what it leaves of an entry well typed.
LEMMA PrunedType == \A a \in Allocation : Pruned(a) \in Allocation
<1> SUFFICES ASSUME NEW a \in Allocation PROVE Pruned(a) \in Allocation
  OBVIOUS
<1>1. \A p \in a.perms : PrunedPermission(p) \in Permission
  BY DEF Allocation, Permission, PrunedPermission, Unexpired
<1> QED
  BY <1>1 DEF Pruned, Allocation, Unexpired

\* A channel bind leaves a well-typed permission.
LEMMA BoundType ==
  ASSUME NEW p \in Permission, NEW n \in Channels, NEW port \in Ports, NEW d \in Time
  PROVE  Bound(p, n, port, d) \in Permission
<1> DEFINE upd == {IF b.chan = n THEN [b EXCEPT !.timeout = d] ELSE b : b \in p.binds}
           add == p.binds \union {[port |-> port, chan |-> n, timeout |-> d]}
<1>1. upd \subseteq Binding
  BY DEF Permission, Binding
<1>2. add \subseteq Binding
  BY DEF Permission, Binding
<1>3. Later(d, p.timeout) \in Time
  BY DEF Later, Permission
<1> QED
  BY <1>1, <1>2, <1>3 DEF Bound, Permission

\* A fresh entry is well typed.
LEMMA EntryType ==
  ASSUME NEW t \in Tuples, NEW r \in Relays \union {NoRelay}, NEW d \in Time
  PROVE  Entry(t, r, d) \in Allocation
  BY DEF Entry, Allocation

\* Replacing the permissions of an entry by permissions keeps it well typed.
LEMMA PermsType ==
  ASSUME NEW a \in Allocation, NEW S \in SUBSET Permission
  PROVE  [a EXCEPT !.perms = S] \in Allocation
  BY DEF Allocation

-----------------------------------------------------------------------------
(* The inductive invariant behind type correctness, one entry per 5-tuple  *)
(* and the ownership of relayed sockets.  RelayExclusive is not inductive  *)
(* by itself: the relayed address an entry gets comes from the locals of a *)
(* New that has left the lock, hence CallHoldsOwnSocket; that two entries  *)
(* with one relayed address are the same follows from owner being a        *)
(* function and from TupleUnique.  A reader's client is needed to type the *)
(* datagrams it forwards.                                                  *)

RelayOwned ==
    \A a \in allocs : a.relay # NoRelay => a.relay \in open /\ owner[a.relay] = a.tuple

ReaderOwned == \A r \in readers : r \in open /\ owner[r] \in Tuples

IndInv == TypeOK /\ TupleUnique /\ RelayOwned /\ ReaderOwned /\ CallHoldsOwnSocket

\* Rewriting one entry in place keeps the invariants of the table, if the new
\* entry has the same 5-tuple and owns its relayed address.
LEMMA PutKeeps ==
  ASSUME NEW a \in allocs, NEW b \in Allocation,
         IndInv, allocs' = Put(a, b), b.tuple = a.tuple,
         UNCHANGED <<open, owner>>,
         b.relay # NoRelay => b.relay \in open /\ owner[b.relay] = b.tuple
  PROVE  allocs' \subseteq Allocation /\ TupleUnique' /\ RelayOwned'
<1>1. \A x \in allocs' : x = b \/ (x \in allocs /\ x # a)
  BY DEF Put
<1>2. allocs' \subseteq Allocation
  BY <1>1 DEF IndInv, TypeOK
<1>3. TupleUnique'
  BY <1>1 DEF IndInv, TupleUnique
<1>4. RelayOwned'
  BY <1>1 DEF IndInv, RelayOwned
<1> QED
  BY <1>2, <1>3, <1>4

\* A tick and a prune rewrite every entry but keep its 5-tuple and address.
LEMMA SameIdentity ==
  \A a \in Allocation : /\ Aged(a).tuple = a.tuple /\ Aged(a).relay = a.relay
                        /\ Pruned(a).tuple = a.tuple /\ Pruned(a).relay = a.relay
  BY DEF Aged, Pruned, Allocation

\* The server starts in the invariant.
LEMMA IndInit == Init => IndInv
<1> SUFFICES ASSUME Init PROVE IndInv
  OBVIOUS
<1>1. NoLocals \in Locals
  BY LifetimeAssumption DEF NoLocals, Locals, Time
<1>2. TypeOK
  BY <1>1 DEF Init, TypeOK
<1>3. TupleUnique /\ RelayOwned /\ ReaderOwned /\ CallHoldsOwnSocket
  BY DEF Init, TupleUnique, RelayOwned, ReaderOwned, CallHoldsOwnSocket
<1> QED
  BY <1>2, <1>3 DEF IndInv

\* Every step of every method, reader, tick and restart keeps the invariant.
LEMMA IndNext == IndInv /\ [Next]_vars => IndInv'
<1> SUFFICES ASSUME IndInv, [Next]_vars PROVE IndInv'
  OBVIOUS
<1>0. NoLocals \in Locals /\ 0 \in Time
  BY LifetimeAssumption DEF NoLocals, Locals, Time
<1>1. ASSUME NEW w \in Workers, NEW t \in Tuples, NEW d \in Lifetimes, NewReserve(w, t, d)
      PROVE  IndInv'
  <2>1. d \in Time /\ w \in Procs
    BY LifetimeAssumption DEF Lifetimes, Time, Procs
  <2>2. [NoLocals EXCEPT !.tuple = t, !.timeout = d] \in Locals
    BY <1>0, <2>1 DEF NoLocals, Locals
  <2>3. Entry(t, NoRelay, d) \in Allocation
    BY <2>1, EntryType
  <2>4. TypeOK'
    BY <1>1, <2>1, <2>2, <2>3 DEF IndInv, NewReserve, Step, TypeOK
  <2>5. TupleUnique'
    <3>1. \A x \in allocs' : x \in allocs \/ (x = Entry(t, NoRelay, d) /\ x.tuple = t)
      BY <1>1 DEF NewReserve, Entry
    <3>2. \A x \in allocs : x.tuple # t
      BY <1>1 DEF NewReserve, InUse
    <3> QED BY <3>1, <3>2 DEF IndInv, TupleUnique
  <2>6. RelayOwned' /\ ReaderOwned'
    BY <1>1 DEF IndInv, NewReserve, RelayOwned, ReaderOwned, Entry
  <2>7. CallHoldsOwnSocket'
    BY <1>1, <2>1 DEF IndInv, NewReserve, Step, TypeOK, CallHoldsOwnSocket, NoLocals
  <2> QED BY <2>4, <2>5, <2>6, <2>7 DEF IndInv
<1>2. ASSUME NEW w \in Workers, NEW r \in Relays, NewListen(w, r)
      PROVE  IndInv'
  <2>1. w \in Procs
    BY DEF Procs
  <2>2. TypeOK'
    BY <1>2, <2>1 DEF IndInv, NewListen, Step, TypeOK, Locals
  <2>3. TupleUnique' /\ RelayOwned' /\ ReaderOwned'
    BY <1>2 DEF IndInv, NewListen, AllocatePort, TypeOK, TupleUnique, RelayOwned, ReaderOwned
  <2>4. CallHoldsOwnSocket'
    BY <1>2, <2>1 DEF IndInv, NewListen, AllocatePort, Step, TypeOK, CallHoldsOwnSocket, Locals
  <2> QED BY <2>2, <2>3, <2>4 DEF IndInv
<1>3. ASSUME NEW w \in Workers, NewListenFail(w)
      PROVE  IndInv'
  BY <1>0, <1>3 DEF IndInv, NewListenFail, Step, TypeOK, TupleUnique, RelayOwned, ReaderOwned,
                    CallHoldsOwnSocket
<1>4. ASSUME NEW w \in Workers, NewCommit(w)
      PROVE  IndInv'
  <2> DEFINE e == Entry(arg[w].tuple, arg[w].relay, arg[w].timeout)
  <2>1. w \in Procs
    BY DEF Procs
  <2>2. /\ arg[w].relay \in open /\ arg[w].relay \in Relays
        /\ owner[arg[w].relay] = arg[w].tuple /\ arg[w].tuple \in Tuples
        /\ e \in Allocation
    BY <1>4, <2>1, EntryType DEF IndInv, NewCommit, Step, TypeOK, CallHoldsOwnSocket, Locals
  <2>3. PICK a \in allocs : a.tuple = arg[w].tuple /\ allocs' = Put(a, e)
    BY <1>4 DEF NewCommit
  <2>4. e.tuple = a.tuple /\ e.relay = arg[w].relay
    BY <2>3 DEF Entry
  <2>5. UNCHANGED <<open, owner>>
    BY <1>4 DEF NewCommit
  <2> HIDE DEF e
  <2>6. allocs' \subseteq Allocation /\ TupleUnique' /\ RelayOwned'
    BY <2>2, <2>3, <2>4, <2>5, PutKeeps
  <2>7. TypeOK'
    BY <1>0, <1>4, <2>1, <2>2, <2>6 DEF IndInv, NewCommit, Step, TypeOK
  <2>8. ReaderOwned' /\ CallHoldsOwnSocket'
    BY <1>4, <2>1, <2>2 DEF IndInv, NewCommit, Step, TypeOK, ReaderOwned, CallHoldsOwnSocket
  <2> QED BY <2>6, <2>7, <2>8 DEF IndInv
<1>5. ASSUME NEW w \in Workers, NewCommitLost(w)
      PROVE  IndInv'
  BY <1>5 DEF IndInv, NewCommitLost, TypeOK, TupleUnique, RelayOwned, ReaderOwned, CallHoldsOwnSocket
<1>6. CASE Restart
  BY <1>0, <1>6 DEF Restart, IndInv, TypeOK, TupleUnique, RelayOwned, ReaderOwned, CallHoldsOwnSocket
<1>7. ASSUME NEW w \in Workers, NEW t \in Tuples, Remove(w, t)
      PROVE  IndInv'
  BY <1>7 DEF Remove, Step, IndInv, TypeOK, TupleUnique, RelayOwned, ReaderOwned, CallHoldsOwnSocket
<1>8. CASE Prune
  <2>1. \A x \in allocs' : \E a \in allocs : x = Pruned(a)
    BY <1>8 DEF Prune, Unexpired
  <2>2. allocs \subseteq Allocation
    BY DEF IndInv, TypeOK
  <2>3. allocs' \subseteq Allocation
    BY <2>1, <2>2, PrunedType
  <2>4. TupleUnique' /\ RelayOwned'
    BY <1>8, <2>1, <2>2, SameIdentity DEF Prune, IndInv, TupleUnique, RelayOwned
  <2>5. TypeOK' /\ ReaderOwned' /\ CallHoldsOwnSocket'
    BY <1>8, <2>3 DEF Prune, Step, IndInv, TypeOK, ReaderOwned, CallHoldsOwnSocket, Procs
  <2> QED BY <2>4, <2>5 DEF IndInv
<1>9. ASSUME NEW w \in Procs, Dealloc(w)
      PROVE  IndInv'
  <2>1. open' = open
    BY <1>9, AddressAssumption DEF Dealloc, NetRemove, IndInv, TypeOK
  <2> QED
    BY <1>9, <2>1 DEF Dealloc, Step, IndInv, TypeOK, TupleUnique, RelayOwned, ReaderOwned,
                      CallHoldsOwnSocket
<1>10. ASSUME NEW a \in allocs, NEW b \in Allocation, Atomic, allocs' = Put(a, b),
              b.tuple = a.tuple, b.relay = a.relay
       PROVE  IndInv'
  <2>1. UNCHANGED <<open, owner>>
    BY <1>10 DEF Atomic
  <2>2. allocs' \subseteq Allocation /\ TupleUnique' /\ RelayOwned'
    BY <1>10, <2>1, PutKeeps DEF IndInv, RelayOwned
  <2>3. TypeOK' /\ ReaderOwned' /\ CallHoldsOwnSocket'
    BY <1>10, <2>2 DEF Atomic, IndInv, TypeOK, ReaderOwned, CallHoldsOwnSocket
  <2> QED BY <2>2, <2>3 DEF IndInv
<1>11. ASSUME NEW a \in allocs, NEW S \in SUBSET Permission, Atomic,
              allocs' = Put(a, [a EXCEPT !.perms = S])
       PROVE  IndInv'
  <2>1. a \in Allocation
    BY DEF IndInv, TypeOK
  <2>2. /\ [a EXCEPT !.perms = S] \in Allocation
        /\ [a EXCEPT !.perms = S].tuple = a.tuple
        /\ [a EXCEPT !.perms = S].relay = a.relay
    BY <2>1, PermsType DEF Allocation
  <2> QED BY <1>10, <1>11, <2>2
<1>12. ASSUME NEW t \in Tuples, NEW ip \in IPs, NEW d \in Time, CreatePermission(t, ip, d)
       PROVE  IndInv'
  <2> DEFINE new == [ip |-> ip, timeout |-> d, binds |-> {}]
  <2>1. PICK a \in allocs :
          \/ \E p \in a.perms : allocs' = PutPermission(a, p, [p EXCEPT !.timeout = d])
          \/ allocs' = Put(a, [a EXCEPT !.perms = @ \union {new}])
    BY <1>12 DEF CreatePermission
  <2>2. a.perms \subseteq Permission
    BY DEF IndInv, TypeOK, Allocation
  <2>3. \A p \in a.perms : (a.perms \ {p}) \union {[p EXCEPT !.timeout = d]} \in SUBSET Permission
    BY <2>2 DEF Permission
  <2>4. a.perms \union {new} \in SUBSET Permission
    BY <2>2 DEF Permission
  <2>5. Atomic
    BY <1>12 DEF CreatePermission
  <2>6. CASE \E p \in a.perms : allocs' = PutPermission(a, p, [p EXCEPT !.timeout = d])
    BY <1>11, <2>3, <2>5, <2>6 DEF PutPermission
  <2>7. CASE allocs' = Put(a, [a EXCEPT !.perms = @ \union {new}])
    BY <1>11, <2>4, <2>5, <2>7
  <2> QED BY <2>1, <2>6, <2>7
<1>13. ASSUME NEW t \in Tuples, NEW n \in Channels, NEW peer \in Peers, NEW d \in Lifetimes,
              ChannelBind(t, n, peer, d)
       PROVE  IndInv'
  <2> DEFINE new == [ip |-> peer.ip, timeout |-> d,
                     binds |-> {[port |-> peer.port, chan |-> n, timeout |-> d]}]
  <2>0. d \in Time /\ peer.ip \in IPs /\ peer.port \in Ports
    BY LifetimeAssumption DEF Lifetimes, Time, Peers
  <2>1. PICK a \in allocs :
          \/ \E p \in a.perms : allocs' = PutPermission(a, p, Bound(p, n, peer.port, d))
          \/ allocs' = Put(a, [a EXCEPT !.perms = @ \union {new}])
    BY <1>13 DEF ChannelBind
  <2>2. a.perms \subseteq Permission
    BY DEF IndInv, TypeOK, Allocation
  <2>3. \A p \in a.perms :
           (a.perms \ {p}) \union {Bound(p, n, peer.port, d)} \in SUBSET Permission
    BY <2>0, <2>2, BoundType
  <2>4. a.perms \union {new} \in SUBSET Permission
    BY <2>0, <2>2 DEF Permission, Binding
  <2>5. Atomic
    BY <1>13 DEF ChannelBind
  <2>6. CASE \E p \in a.perms : allocs' = PutPermission(a, p, Bound(p, n, peer.port, d))
    BY <1>11, <2>3, <2>5, <2>6 DEF PutPermission
  <2>7. CASE allocs' = Put(a, [a EXCEPT !.perms = @ \union {new}])
    BY <1>11, <2>4, <2>5, <2>7
  <2> QED BY <2>1, <2>6, <2>7
<1>14. ASSUME NEW t \in Tuples, NEW d \in Time, Refresh(t, d)
       PROVE  IndInv'
  <2>1. PICK a \in allocs : allocs' = Put(a, [a EXCEPT !.timeout = d])
    BY <1>14 DEF Refresh
  <2>2. /\ [a EXCEPT !.timeout = d] \in Allocation
        /\ [a EXCEPT !.timeout = d].tuple = a.tuple
        /\ [a EXCEPT !.timeout = d].relay = a.relay
    BY <1>14 DEF IndInv, TypeOK, Allocation
  <2>3. Atomic
    BY <1>14 DEF Refresh
  <2> QED
    BY <1>10, <2>1, <2>2, <2>3
<1>15. ASSUME NEW w \in Workers, NEW a \in allocs, NEW peer \in Peers,
              a.relay # NoRelay, Sending(w, a.tuple, a.relay, peer)
       PROVE  IndInv'
  <2>1. w \in Procs /\ a.relay \in Relays /\ a.tuple \in Tuples
    BY <1>15 DEF Procs, IndInv, TypeOK, Allocation
  <2>2. [tuple |-> a.tuple, timeout |-> 0, relay |-> a.relay, peer |-> peer] \in Locals
    BY <1>0, <2>1 DEF Locals
  <2>3. TypeOK'
    BY <1>15, <2>1, <2>2 DEF Sending, Step, IndInv, TypeOK
  <2>4. CallHoldsOwnSocket'
    BY <1>15, <2>1 DEF Sending, Step, IndInv, TypeOK, RelayOwned, CallHoldsOwnSocket
  <2>5. TupleUnique' /\ RelayOwned' /\ ReaderOwned'
    BY <1>15 DEF Sending, IndInv, TupleUnique, RelayOwned, ReaderOwned
  <2> QED BY <2>3, <2>4, <2>5 DEF IndInv
<1>16. ASSUME NEW w \in Workers, NEW t \in Tuples, NEW peer \in Peers,
              SendLookup(w, t, peer)
       PROVE  IndInv'
  BY <1>15, <1>16 DEF SendLookup
<1>17. ASSUME NEW w \in Workers, NEW t \in Tuples, NEW n \in Channels,
              SendBoundLookup(w, t, n)
       PROVE  IndInv'
  <2>1. PICK a \in allocs : /\ a.tuple = t /\ a.relay # NoRelay
                            /\ \E p \in a.perms : \E b \in p.binds :
                                 Sending(w, t, a.relay, [ip |-> p.ip, port |-> b.port])
    BY <1>17 DEF SendBoundLookup
  <2>2. PICK p \in a.perms : \E b \in p.binds :
           Sending(w, t, a.relay, [ip |-> p.ip, port |-> b.port])
    BY <2>1
  <2>3. PICK b \in p.binds : Sending(w, t, a.relay, [ip |-> p.ip, port |-> b.port])
    BY <2>2
  <2>4. p \in Permission
    BY DEF IndInv, TypeOK, Allocation
  <2>5. [ip |-> p.ip, port |-> b.port] \in Peers
    BY <2>4 DEF Permission, Binding, Peers
  <2> QED
    BY <1>15, <2>1, <2>3, <2>5
<1>18. ASSUME NEW w \in Workers, SendWrite(w)
       PROVE  IndInv'
  <2>1. w \in Procs
    BY DEF Procs
  <2>2. out' \in Msgs \union {NoMsg}
    BY <1>18, <2>1 DEF SendWrite, Step, IndInv, TypeOK, CallHoldsOwnSocket, Msgs
  <2> QED
    BY <1>0, <1>18, <2>1, <2>2 DEF SendWrite, Step, IndInv, TypeOK, TupleUnique, RelayOwned, ReaderOwned,
                                   CallHoldsOwnSocket
<1>19. ASSUME NEW r \in Relays, NEW peer \in Peers, HandlePeerData(r, peer)
       PROVE  IndInv'
  <2>1. PICK c : out' = [to |-> "client", tuple |-> owner[r], relay |-> r,
                         peer |-> peer, chan |-> c]
                 /\ (c = NoChannel \/ c \in BoundChannels(owner[r], peer))
    BY <1>19 DEF HandlePeerData
  <2>2. BoundChannels(owner[r], peer) \subseteq Channels
    <3>1. \A a \in allocs : \A p \in a.perms : p \in Permission
      BY DEF IndInv, TypeOK, Allocation
    <3>2. \A a \in allocs : \A p \in a.perms : \A b \in p.binds : b.chan \in Channels
      BY <3>1 DEF Permission, Binding
    <3> QED BY <3>2 DEF BoundChannels
  <2>3. owner[r] \in Tuples
    BY <1>19 DEF HandlePeerData, IndInv, ReaderOwned
  <2>4. out' \in Msgs
    BY <2>1, <2>2, <2>3 DEF Msgs
  <2>5. UNCHANGED <<allocs, open, owner, readers, pc, arg, panicked>>
    BY <1>19 DEF HandlePeerData
  <2> QED
    BY <2>4, <2>5 DEF IndInv, TypeOK, TupleUnique, RelayOwned, ReaderOwned,
                      CallHoldsOwnSocket
<1>20. ASSUME NEW r \in Relays, ReaderStops(r)
       PROVE  IndInv'
  BY <1>20 DEF ReaderStops, IndInv, TypeOK, TupleUnique, RelayOwned, ReaderOwned, CallHoldsOwnSocket
<1>21. CASE Tick
  <2>1. \A x \in allocs' : \E a \in allocs : x = Aged(a)
    BY <1>21 DEF Tick
  <2>2. allocs \subseteq Allocation
    BY DEF IndInv, TypeOK
  <2>3. allocs' \subseteq Allocation
    BY <2>1, <2>2, AgedType
  <2>4. TupleUnique' /\ RelayOwned'
    BY <1>21, <2>1, <2>2, SameIdentity DEF Tick, IndInv, TupleUnique, RelayOwned
  <2>5. \A w \in Procs : /\ [arg[w] EXCEPT !.timeout = Less(@)] \in Locals
                         /\ [arg[w] EXCEPT !.timeout = Less(@)].tuple = arg[w].tuple
                         /\ [arg[w] EXCEPT !.timeout = Less(@)].relay = arg[w].relay
                         /\ [arg[w] EXCEPT !.timeout = Less(@)].peer = arg[w].peer
    BY LessType DEF IndInv, TypeOK, Locals
  <2>6. arg' \in [Procs -> Locals]
    BY <1>21, <2>5 DEF Tick
  <2>7. \A w \in Procs : /\ arg'[w].tuple = arg[w].tuple
                         /\ arg'[w].relay = arg[w].relay
                         /\ arg'[w].peer = arg[w].peer
    BY <1>21, <2>5 DEF Tick
  <2>8. TypeOK'
    BY <1>21, <2>3, <2>6 DEF Tick, IndInv, TypeOK
  <2>9. ReaderOwned' /\ CallHoldsOwnSocket'
    BY <1>21, <2>7 DEF Tick, IndInv, ReaderOwned, CallHoldsOwnSocket
  <2> QED BY <2>4, <2>8, <2>9 DEF IndInv
<1>22. CASE UNCHANGED vars
  BY <1>22 DEF vars, IndInv, TypeOK, TupleUnique, RelayOwned, ReaderOwned, CallHoldsOwnSocket
<1> QED
  BY <1>1, <1>2, <1>3, <1>4, <1>5, <1>6, <1>7, <1>8, <1>9, <1>12, <1>13, <1>14, <1>16,
     <1>17, <1>18, <1>19, <1>20, <1>21, <1>22
     DEF Next, Request, NewContinue, AtomicRequest

-----------------------------------------------------------------------------
(* The theorems of the first induction *)

\* Every reachable state satisfies the inductive invariant.
LEMMA IndInvariant == Spec => []IndInv
  BY IndInit, IndNext, PTL DEF Spec

\* Every method of the allocator, the readers and the collector keep their
\* state well typed, whatever the order of their critical sections.
THEOREM TypeCorrect == Spec => []TypeOK
<1>1. IndInv => TypeOK
  BY DEF IndInv
<1> QED BY <1>1, IndInvariant, PTL

\* The table never holds two entries for one client, although New leaves the
\* lock between its mismatch check and its commit.
THEOREM TupleUniqueness == Spec => []TupleUnique
<1>1. IndInv => TupleUnique
  BY DEF IndInv
<1> QED BY <1>1, IndInvariant, PTL

\* A New about to commit and a Send about to write hold a bound socket that was
\* opened for their own client.
THEOREM CallsHoldOwnSockets == Spec => []CallHoldsOwnSocket
<1>1. IndInv => CallHoldsOwnSocket
  BY DEF IndInv
<1> QED BY <1>1, IndInvariant, PTL

\* No two allocations share a relayed address, and what is read from it goes to
\* the client that allocated it.
THEOREM RelayExclusivity == Spec => []RelayExclusive
<1>1. IndInv => RelayExclusive
  BY DEF IndInv, TupleUnique, RelayOwned, RelayExclusive
<1> QED BY <1>1, IndInvariant, PTL

\* Client data never leaves through the socket of another client.
THEOREM OwnSocketOnly == Spec => []RelayedFromOwnSocket
<1>1. Init => RelayedFromOwnSocket
  BY DEF Init, RelayedFromOwnSocket
<1>2. IndInv /\ RelayedFromOwnSocket /\ [Next]_vars => RelayedFromOwnSocket'
  <2> SUFFICES ASSUME IndInv, RelayedFromOwnSocket, [Next]_vars
               PROVE  RelayedFromOwnSocket'
    OBVIOUS
  <2>1. ASSUME NEW w \in Workers, SendWrite(w)
        PROVE  RelayedFromOwnSocket'
    <3>1. w \in Procs
      BY DEF Procs
    <3>2. owner' = owner /\ owner[arg[w].relay] = arg[w].tuple
      BY <2>1, <3>1 DEF SendWrite, Step, IndInv, CallHoldsOwnSocket
    <3> QED BY <2>1, <3>2 DEF SendWrite, RelayedFromOwnSocket
  <2>2. ASSUME NEW r \in Relays, NEW peer \in Peers, HandlePeerData(r, peer)
        PROVE  RelayedFromOwnSocket'
    <3>1. out'.to = "client"
      BY <2>2 DEF HandlePeerData
    <3> QED BY <3>1 DEF RelayedFromOwnSocket
  <2>3. CASE out' = NoMsg
    BY <2>3 DEF RelayedFromOwnSocket
  <2>4. CASE UNCHANGED vars
    BY <2>4 DEF vars, RelayedFromOwnSocket
  <2>5. ASSUME NEW w \in Workers, Request(w) \/ NewContinue(w) PROVE out' = NoMsg
    BY <2>5 DEF Request, NewContinue, NewReserve, NewListen, NewListenFail, NewCommit,
                NewCommitLost, Remove, SendLookup, SendBoundLookup, Sending
  <2>6. ASSUME AtomicRequest PROVE out' = NoMsg
    BY <2>6 DEF AtomicRequest, CreatePermission, ChannelBind, Refresh, Atomic
  <2>7. ASSUME \/ \E w \in Procs : Dealloc(w)
               \/ Prune \/ Tick \/ Restart
               \/ \E r \in Relays : ReaderStops(r)
        PROVE  out' = NoMsg
    BY <2>7 DEF Dealloc, Prune, Tick, Restart, ReaderStops
  <2> QED BY <2>1, <2>2, <2>3, <2>4, <2>5, <2>6, <2>7 DEF Next
<1> QED BY <1>1, <1>2, IndInvariant, PTL DEF Spec

\* The finding of run `sockets` for every instance: as Dealloc passes the address
\* of the listener to NetAllocator.Remove, no relayed socket is closed and none
\* changes hands as long as the process lives.  So the address of a removed
\* allocation stays taken, and data for it goes to its old client.
THEOREM SocketsStay ==
    Spec => [][~panicked => \A r \in open : r \in open' /\ owner'[r] = owner[r]]_vars
<1>1. ASSUME TypeOK, Next, ~panicked, NEW r \in open
      PROVE  r \in open' /\ owner'[r] = owner[r]
  <2>0. r \in Relays /\ r # ServerAddr /\ owner \in [Relays -> Tuples \union {NoTuple}]
    BY <1>1, AddressAssumption DEF TypeOK
  <2>1. CASE UNCHANGED <<open, owner>>
    BY <2>1
  <2>2. ASSUME NEW w \in Workers, NEW s \in Relays, NewListen(w, s)
        PROVE  r \in open' /\ owner'[r] = owner[r]
    BY <2>0, <2>2 DEF NewListen, AllocatePort
  <2>3. ASSUME NEW w \in Procs, Dealloc(w)
        PROVE  r \in open' /\ owner'[r] = owner[r]
    BY <2>0, <2>3 DEF Dealloc, NetRemove
  <2>4. ASSUME NEW w \in Workers,
               Request(w) \/ SendWrite(w) \/ NewListenFail(w) \/ NewCommit(w) \/ NewCommitLost(w)
        PROVE  UNCHANGED <<open, owner>>
    BY <2>4 DEF Request, NewReserve, Remove, SendLookup, SendBoundLookup, Sending, SendWrite,
       NewListenFail, NewCommit, NewCommitLost
  <2>5. ASSUME \/ AtomicRequest \/ Prune \/ Tick
               \/ \E s \in Relays, peer \in Peers : HandlePeerData(s, peer)
               \/ \E s \in Relays : ReaderStops(s)
        PROVE  UNCHANGED <<open, owner>>
    BY <2>5 DEF AtomicRequest, CreatePermission, ChannelBind, Refresh, Atomic, Prune, Tick,
       HandlePeerData, ReaderStops
  <2>6. CASE Restart
    BY <1>1, <2>6 DEF Restart
  <2> QED BY <1>1, <2>1, <2>2, <2>3, <2>4, <2>5, <2>6 DEF Next, NewContinue
<1>2. TypeOK /\ [Next]_vars =>
        [~panicked => \A r \in open : r \in open' /\ owner'[r] = owner[r]]_vars
  BY <1>1
<1> QED BY <1>2, TypeCorrect, PTL DEF Spec

=============================================================================
