------------------------------ MODULE Registry ------------------------------
(***************************************************************************)
(* What the controller promises to the other users of a Nacos server: how  *)
(* the server's instances may change, whatever the two reconcilers of      *)
(* ServiceDiscovery do inside.  An entry is a pair of a service key and an *)
(* address.  Entries come only from Endpoints, only under a service that   *)
(* expects no heartbeats, and one at a time; only the controller's own     *)
(* entries go.  An address that somebody else has registered under the     *)
(* same key is taken over when a Service offers it.                        *)
(***************************************************************************)
CONSTANTS
    Keys,       \* service keys on the Nacos server
    Addrs       \* addresses

VARIABLES
    offered,    \* the entries Endpoints have ever called for
    prepared,   \* the services whose health check is off
    own,        \* the entries that carry the controller's mark
    foreign     \* the entries of others

regVars == <<offered, prepared, own, foreign>>

Entries == Keys \X Addrs

Init ==
    /\ offered \subseteq Entries
    /\ foreign \subseteq Entries
    /\ prepared = {} /\ own = {}

\* The cluster changes.
Offer ==
    /\ offered \subseteq offered' /\ offered' \subseteq Entries
    /\ UNCHANGED <<prepared, own, foreign>>

\* A service is made to expect no heartbeats.
PrepareService(k) ==
    /\ prepared' = prepared \cup {k}
    /\ UNCHANGED <<offered, own, foreign>>

\* An offered address is registered.
Enter(k, a) ==
    /\ k \in prepared /\ <<k, a>> \in offered
    /\ own' = own \cup {<<k, a>>}
    /\ foreign' = foreign \ {<<k, a>>}
    /\ UNCHANGED <<offered, prepared>>

\* An entry of the controller goes.
Leave(k, a) ==
    /\ own' = own \ {<<k, a>>}
    /\ UNCHANGED <<offered, prepared, foreign>>

Next ==
    \/ Offer
    \/ \E k \in Keys : \/ PrepareService(k)
                       \/ \E a \in Addrs : Enter(k, a) \/ Leave(k, a)

Spec == Init /\ [][Next]_regVars
=============================================================================
