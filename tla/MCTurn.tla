------------------------------- MODULE MCTurn -------------------------------
(***************************************************************************)
(* Instances of Turn for TLC: the configurations the operator switches     *)
(* between.                                                                *)
(***************************************************************************)
EXTENDS Turn

CONSTANTS DeniedIP, DeniedTuple

Config(peerFilter, clientFilter, stun) ==
    [peerFilter |-> peerFilter, clientFilter |-> clientFilter, authForSTUN |-> stun]

Filter(default, rules) == [action |-> default, rules |-> rules]
Rule(addrs, a) == [net |-> addrs, action |-> a]

AllowAll == Filter("allow", <<>>)

\* A pass rule and a later allow rule do not save what an earlier rule denies.
DenyPeer ==
    Filter("allow", <<Rule(IPs, "pass"), Rule({DeniedIP}, "deny"), Rule(IPs, "allow")>>)

\* Only what is listed is allowed.
DenyClient == Filter("deny", <<Rule(Tuples \ {DeniedTuple}, "allow")>>)

FilterConfigs ==
    {Config(AllowAll, AllowAll, FALSE),
     Config(DenyPeer, AllowAll, TRUE),
     Config(AllowAll, DenyClient, FALSE)}

\* Bound: two workers serve the client at once only while it has no allocation.
\* That is where they compete for its nonce; on the table Allocator's runs have
\* them compete.
InService(w) == ctx[w].stage # "idle" \/ pc[w] # "idle"
OverlapBound == (\A w \in Workers : InService(w)) => allocs = {}

=============================================================================
