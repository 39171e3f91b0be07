--------------------------- MODULE AllocatorRelay ---------------------------
(***************************************************************************)
(* The allocation table, its sockets and its callers implement the relay   *)
(* of module RelayService.  A client's lease, permits and channels are     *)
(* read off its entry in the table, expired parts included, until Prune    *)
(* drops them; a datagram is pending while a Send has left the lock and    *)
(* has not written yet.                                                    *)
(***************************************************************************)
EXTENDS Allocator

EntriesOf(t) == {a \in allocs : a.tuple = t}

PermittedIPs(a) == {p.ip : p \in a.perms}

PermissionChannels(p) ==
    {[peer |-> [ip |-> p.ip, port |-> b.port], chan |-> b.chan] : b \in p.binds}

BoundPeers(a) == UNION {PermissionChannels(p) : p \in a.perms}

leaseOf == [t \in Tuples |-> {a.relay : a \in EntriesOf(t)}]

permitsOf == [t \in Tuples |-> UNION {PermittedIPs(a) : a \in EntriesOf(t)}]

channelsOf == [t \in Tuples |-> UNION {BoundPeers(a) : a \in EntriesOf(t)}]

pendingOf ==
    [w \in Workers |->
        IF pc[w] = "write"
        THEN [to |-> "peer", tuple |-> arg[w].tuple, relay |-> arg[w].relay,
              peer |-> arg[w].peer, chan |-> NoChannel]
        ELSE NoMsg]

Relay == INSTANCE RelayService WITH
    holder <- owner, lease <- leaseOf, permits <- permitsOf, channels <- channelsOf,
    pending <- pendingOf, sent <- out

\* Whatever the interleaving of Allocate, Refresh, Send and the collector, the
\* methods of Allocator do what the relay promises: an address serves one
\* client, a new allocation inherits nothing from an old one, data leaves for
\* permitted peers only and arrives with the right label.
ImplementsRelay == Relay!Spec

=============================================================================
