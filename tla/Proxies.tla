-------------------------------- MODULE Proxies --------------------------------
(***************************************************************************)
(* hahelpers.cluster, HAProxyContext and ApacheSSLContext: the ports on    *)
(* which haproxy, Apache and the service behind them listen.  They are     *)
(* rendered together by a hook, and stay while peers, the cluster and the  *)
(* certificates come and go, until the next one.                           *)
(***************************************************************************)
EXTENDS Naturals

VARIABLES
    place,       \* what the ports depend on: options and relations
    singlenode,  \* singlenode_mode, which a charm chooses
    listening,   \* as rendered last
    seen         \* the place of then

proxy_vars == <<place, singlenode, listening, seen>>

Places == [peers : BOOLEAN, clustered : BOOLEAN,
           options : BOOLEAN,       \* use-https, or ssl_cert with ssl_key
           certificates : BOOLEAN,  \* a CA on the certificates relation
           keystone : BOOLEAN]      \* https_keystone and ca_cert on identity-service

https(p) == p.options \/ p.certificates \/ p.keystone

\* Ports, in tens below the public one.
Behind(p, single) == IF single \/ p.peers \/ p.clustered THEN 1 ELSE 0
determine_apache_port(p, single) == Behind(p, single)
determine_api_port(p, single) == Behind(p, single) + (IF https(p) THEN 1 ELSE 0)

\* Who listens where and forwards whereto; the service itself forwards to none.
\* HAProxyContext is complete with a peer, or in singlenode_mode; ApacheSSLContext
\* always computes in singlenode_mode.
Rendered(p, single) ==
    [haproxy |-> IF single \/ p.peers THEN {<<0, determine_apache_port(p, single)>>} ELSE {},
     apache |-> IF https(p) THEN {<<determine_apache_port(p, TRUE), determine_api_port(p, TRUE)>>}
                ELSE {},
     api |-> determine_api_port(p, single)]

Init ==
    /\ place \in Places /\ singlenode \in BOOLEAN
    /\ seen = place /\ listening = Rendered(place, singlenode)

\* A peer, the cluster, a certificate or an option comes or goes.
Change ==
    /\ \E what \in DOMAIN place : place' = [place EXCEPT ![what] = ~@]
    /\ UNCHANGED <<singlenode, listening, seen>>

\* A hook writes all files.
Render ==
    /\ listening' = Rendered(place, singlenode) /\ seen' = place
    /\ UNCHANGED <<place, singlenode>>

Next == Change \/ Render

Spec == Init /\ [][Next]_proxy_vars

-----------------------------------------------------------------------------
\* From the public port each forwards to the next, down to the service.
Leads ==
    LET behind == IF listening.apache = {} THEN {listening.api}
                  ELSE {hop[1] : hop \in listening.apache}
    IN /\ listening.haproxy = {} => behind = {0}
       /\ \A hop \in listening.haproxy :
             hop[1] # listening.api /\ hop[1] \notin behind /\ behind = {hop[2]}
       /\ \A hop \in listening.apache : hop[1] # listening.api /\ hop[2] = listening.api

\* Clients reach the service through what stands before it, each on a port of its own;
\* outside singlenode_mode, if there was a peer, or neither a cluster nor TLS.
\* (determine_api_port, determine_apache_port, HAProxyContext, ApacheSSLContext)
PortsLead ==
    singlenode \/ seen.peers \/ ~(seen.clustered \/ https(seen)) => Leads

\* In singlenode_mode files that were rendered before a peer or the cluster came or went
\* are still right, so that nothing has to move; only TLS moves the service.
\* (determine_api_port, "Shuffle ports when only a single unit is present")
NothingMoves ==
    singlenode /\ https(place) = https(seen) => listening = Rendered(place, singlenode)

\* Proxies and the service listen apart and forward to each other.  (Proxies)
PortsRight == PortsLead /\ NothingMoves

-----------------------------------------------------------------------------
\* What the documentation says and the code does not do.

\* cluster.py:246 "Determine correct API server listening port based on existence of
\* HTTPS reverse proxy and/or haproxy": alone and with TLS, it is the port on which
\* ApacheSSLContext, always in singlenode_mode, has Apache listen.
AlwaysLeads == Leads
=============================================================================
