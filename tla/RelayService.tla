---------------------------- MODULE RelayService ----------------------------
(***************************************************************************)
(* What the relay promises, without locks, processes, sockets, tables or   *)
(* deadlines.  A client has at most one lease of a relayed address; under  *)
(* it it permits peer addresses and binds channels to peers; its data goes *)
(* out through the address it leases, to a permitted peer; what arrives at *)
(* an address goes to the client the address was opened for, labelled with *)
(* the channel that client bound to the sender.                            *)
(*                                                                         *)
(* The service makes up for none of the freedom the network has: whatever  *)
(* was accepted may be lost, a lease or a part of it may end at any time,  *)
(* and a crash forgets everything.                                         *)
(***************************************************************************)
CONSTANTS
    Tuples, IPs, Ports, Channels, Relays, Workers,
    NoTuple, NoRelay, NoChannel, NoMsg

VARIABLES
    holder,     \* per relayed address: the client it was opened for
    lease,      \* per client: {} if none, {NoRelay} if reserved, else {address}
    permits,    \* per client: the peer IPs it permits
    channels,   \* per client: its peers with a channel, [peer, chan]
    pending,    \* per worker: the datagram it has accepted and not yet sent
    sent        \* the datagram sent by the last step, NoMsg if none

clientVars == <<lease, permits, channels>>
serviceVars == <<holder, clientVars, pending, sent>>

Transport == [ip: IPs, port: Ports]

Datagram(to, t, r, peer, c) ==
    [to |-> to, tuple |-> t, relay |-> r, peer |-> peer, chan |-> c]

-----------------------------------------------------------------------------
Forgotten ==
    /\ holder = [r \in Relays |-> NoTuple]
    /\ lease = [t \in Tuples |-> {}]
    /\ permits = [t \in Tuples |-> {}]
    /\ channels = [t \in Tuples |-> {}]
    /\ pending = [w \in Workers |-> NoMsg]
    /\ sent = NoMsg

Init == Forgotten

\* A crash, after which nothing is remembered.
Crash == Forgotten'

\* Nothing the service promises anything about happens.
Silence ==
    /\ sent' = NoMsg
    /\ UNCHANGED <<holder, clientVars, pending>>

-----------------------------------------------------------------------------
(* Leases *)

Reserve(t) ==
    /\ lease[t] = {}
    /\ lease' = [lease EXCEPT ![t] = {NoRelay}]
    /\ sent' = NoMsg
    /\ UNCHANGED <<holder, permits, channels, pending>>

\* An address is opened for a client while nobody leases it and no datagram is
\* about to leave through it.
Open(t, r) ==
    /\ \A u \in Tuples : r \notin lease[u]
    /\ \A w \in Workers : pending[w] # NoMsg => pending[w].relay # r
    /\ holder' = [holder EXCEPT ![r] = t]
    /\ sent' = NoMsg
    /\ UNCHANGED <<clientVars, pending>>

\* The client gets an address that was opened for it and begins with a clean
\* slate, also in place of a lease it had.
Grant(t, r) ==
    /\ lease[t] # {}
    /\ holder[r] = t
    /\ lease' = [lease EXCEPT ![t] = {r}]
    /\ permits' = [permits EXCEPT ![t] = {}]
    /\ channels' = [channels EXCEPT ![t] = {}]
    /\ sent' = NoMsg
    /\ UNCHANGED <<holder, pending>>

\* The client gives its lease up; nobody else loses anything.
Release(t) ==
    /\ lease' = [lease EXCEPT ![t] = {}]
    /\ permits' = [permits EXCEPT ![t] = {}]
    /\ channels' = [channels EXCEPT ![t] = {}]
    /\ sent' = NoMsg
    /\ UNCHANGED <<holder, pending>>

\* What is left of a client's lease, permits and channels: no permit without a
\* lease, no channel without a permit.
Left(t) ==
    /\ lease'[t] \subseteq lease[t]
    /\ permits'[t] \subseteq permits[t]
    /\ channels'[t] \subseteq channels[t]
    /\ lease'[t] = {} => permits'[t] = {}
    /\ \A c \in channels'[t] : c.peer.ip \in permits'[t]

\* Leases, permits and channels of any number of clients end.
Expire ==
    /\ \A t \in Tuples : Left(t)
    /\ lease' = [t \in Tuples |-> lease'[t]]
    /\ permits' = [t \in Tuples |-> permits'[t]]
    /\ channels' = [t \in Tuples |-> channels'[t]]
    /\ sent' = NoMsg
    /\ UNCHANGED <<holder, pending>>

-----------------------------------------------------------------------------
(* Permits and channels *)

Permit(t, ip) ==
    /\ lease[t] # {}
    /\ permits' = [permits EXCEPT ![t] = @ \union {ip}]
    /\ sent' = NoMsg
    /\ UNCHANGED <<holder, lease, channels, pending>>

\* A peer has one channel.  A channel that already leads to another port of the
\* peer's host stays with that port.
Bind(t, peer, n) ==
    /\ lease[t] # {}
    /\ \A c \in channels[t] : c.peer = peer => c.chan = n
    /\ permits' = [permits EXCEPT ![t] = @ \union {peer.ip}]
    /\ channels' = IF \E c \in channels[t] : c.peer.ip = peer.ip /\ c.chan = n
                   THEN channels
                   ELSE [channels EXCEPT ![t] = @ \union {[peer |-> peer, chan |-> n]}]
    /\ sent' = NoMsg
    /\ UNCHANGED <<holder, lease, pending>>

-----------------------------------------------------------------------------
(* Data *)

\* Data for a permitted peer is accepted, to leave through the leased address.
Accept(w, t, r, peer) ==
    /\ pending[w] = NoMsg
    /\ r \in lease[t] /\ r # NoRelay
    /\ peer.ip \in permits[t]
    /\ pending' = [pending EXCEPT ![w] = Datagram("peer", t, r, peer, NoChannel)]
    /\ sent' = NoMsg
    /\ UNCHANGED <<holder, clientVars>>

\* It is sent as it was accepted, or lost.
Deliver(w) ==
    /\ sent' \in {pending[w], NoMsg}
    /\ pending' = [pending EXCEPT ![w] = NoMsg]
    /\ UNCHANGED <<holder, clientVars>>

ChannelsTo(t, peer) == {c.chan : c \in {x \in channels[t] : x.peer = peer}}

\* What a peer sends to an address reaches the client it was opened for.
Receive(r, peer) ==
    /\ holder[r] \in Tuples
    /\ LET cs == ChannelsTo(holder[r], peer)
       IN  \E c \in (IF cs = {} THEN {NoChannel} ELSE cs) :
              sent' = Datagram("client", holder[r], r, peer, c)
    /\ UNCHANGED <<holder, clientVars, pending>>

-----------------------------------------------------------------------------
Next ==
    \/ Silence
    \/ \E r \in Relays, peer \in Transport : Receive(r, peer)
    \/ \E w \in Workers : Deliver(w)
    \/ \E w \in Workers, t \in Tuples, r \in Relays, peer \in Transport : Accept(w, t, r, peer)
    \/ \E t \in Tuples, ip \in IPs : Permit(t, ip)
    \/ \E t \in Tuples, peer \in Transport, n \in Channels : Bind(t, peer, n)
    \/ \E t \in Tuples : Reserve(t) \/ Release(t)
    \/ \E t \in Tuples, r \in Relays : Open(t, r) \/ Grant(t, r)
    \/ Expire
    \/ Crash

Spec == Init /\ [][Next]_serviceVars

=============================================================================
