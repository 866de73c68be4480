-------------------------------- MODULE Endpoints --------------------------------
(***************************************************************************)
(* contrib/openstack/ip, contrib/network/ip, cert_utils, ha/utils and the  *)
(* HTTPS and HAProxy contexts: the addresses under which a unit is reached,*)
(* the certificates that are to cover them, and the files and links the    *)
(* web server finds them by.  The virtual addresses, the host names and    *)
(* the cluster change while certificates are asked for, issued and         *)
(* installed, so each of these may be of an earlier configuration.         *)
(***************************************************************************)
EXTENDS Naturals, Sequences, FiniteSets, SequencesExt

CONSTANTS
    Types,       \* endpoint types, each with a binding and options of its own
    Networks,
    Local,       \* the network of the unit's private address
    Hostnames,   \* values of os-*-hostname
    Absent,
    MaxChanges   \* bound: changes of configuration

VARIABLES
    host,      \* configuration, bindings, interfaces and whether there is a cluster
    requested, \* cert_requests on the certificates relation: names to addresses
    issued,    \* the answer, by name: the addresses a certificate was made for
    files,     \* the certificates installed, by name
    links,     \* by address: the name whose certificate it is linked to
    as_of,     \* the configuration that the request, the answer and the files are of
    changes    \* configurations before this one; bound

endpoint_vars == <<host, requested, issued, files, links, as_of, changes>>

Ip(net) == <<"ip", net>>
Vip(net) == <<"vip", net>>
Name(h) == <<"name", h>>
Machine == <<"name", "machine">>
Empty == [name \in {} |-> {}]

-----------------------------------------------------------------------------
\* Addresses.

\* get_address_in_network with a fall back: the first interface in the network.
get_address_in_network(net, fallback) ==
    IF net \in host.attached THEN Ip(net) ELSE fallback

local_address == Ip(Local)
Bound(type) == host.binding[type] # Absent

\* get_relation_ip, for a binding and the network an option gives.
get_relation_ip(type, net) ==
    LET address == IF Bound(type) THEN Ip(host.binding[type]) ELSE local_address
    IN IF net # Absent THEN get_address_in_network(net, address) ELSE address

\* The virtual addresses in a network; get_vip_in_network takes the last.
VipsIn(net) == {i \in DOMAIN host.vips : host.vips[i] = net}
get_vip_in_network(net) == {Vip(n) : n \in {host.vips[i] : i \in VipsIn(net)}}

\* resolve_address; Absent where it raises ValueError.  Without support for the
\* binding the unit takes the first virtual address.
Overridden(type) == host.hostname[type] # Absent
Addressed(type) ==
    LET net == host.network[type]
        wanted == IF net # Absent THEN net ELSE host.binding[type]
    IN IF host.clustered /\ host.vips # <<>>
       THEN IF wanted # Absent
            THEN IF VipsIn(wanted) # {} THEN Vip(wanted) ELSE Absent
            ELSE Vip(host.vips[1])
       ELSE IF net # Absent THEN get_address_in_network(net, local_address)
       ELSE IF Bound(type) THEN Ip(host.binding[type])
       ELSE local_address
resolve_address(type) ==
    IF Overridden(type) THEN Name(host.hostname[type]) ELSE Addressed(type)
Resolvable == \A type \in Types : resolve_address(type) # Absent

\* ApacheSSLContext: the pairs of an address to listen on and an endpoint.
get_network_addresses ==
    {<<IF host.network[type] # Absent THEN get_address_in_network(host.network[type], local_address)
       ELSE IF Bound(type) THEN Ip(host.binding[type]) ELSE local_address,
       resolve_address(type)>> : type \in Types}

\* HAProxyContext: the addresses to listen on.  The one of the cluster binding,
\* which is the private address, comes last and replaces one that is the same.
Frontends == {get_relation_ip(type, host.network[type]) : type \in Types} \cup {local_address}

-----------------------------------------------------------------------------
\* The certificates.

\* What get_certificate_sans collects for a type, and for all of them.
SansOf(type) ==
    LET ip == get_relation_ip(type, host.network[type])
    IN {resolve_address(type), ip} \cup get_vip_in_network(ip[2])
get_certificate_sans == {local_address} \cup UNION {SansOf(type) : type \in Types}

\* The addresses a name is asked for on account of a type.
EntryOf(type) ==
    LET ip == Ip(host.binding[type])
    IN {resolve_address(type), ip} \cup get_vip_in_network(host.binding[type])
Specific == {type \in Types : Bound(type) /\ Overridden(type)}

\* `order' is the order of the bindings: of two entries with one name the later
\* replaces the earlier.  What no entry has is added to that of the machine.
get_certificate_request(order) ==
    LET named == {Name(host.hostname[t]) : t \in Specific}
        rest == get_certificate_sans \ UNION {EntryOf(t) : t \in Specific}
    IN [name \in named \cup {Machine} |->
          IF name = Machine THEN {local_address} \cup get_vip_in_network(Local) \cup rest
          ELSE LET last == CHOOSE t \in Specific :
                        /\ Name(host.hostname[t]) = name
                        /\ \A u \in Specific : Name(host.hostname[u]) = name
                                => order[u] <= order[t]
               IN EntryOf(last)]

Ordered == CHOOSE order \in [Types -> 1..Cardinality(Types)] :
              \A t, u \in Types : order[t] = order[u] => t = u

-----------------------------------------------------------------------------
\* A charm declares a binding for each of its endpoint types, or for none.
Hosts ==
    {h \in [binding : [Types -> Networks] \cup {[t \in Types |-> Absent]},
            network : [Types -> Networks \cup {Absent}],
            hostname : [Types -> Hostnames \cup {Absent}],
            vips : {<<>>} \cup {<<n>> : n \in Networks} \cup {SetToSeq(Networks)},
            attached : {n \in SUBSET Networks : Local \in n}, clustered : BOOLEAN] :
        /\ \A t \in Types : h.binding[t] \in h.attached \cup {Absent}
        /\ h.clustered => h.vips # <<>>}

Now == changes + 1

Init ==
    /\ host \in Hosts
    /\ requested = Empty /\ issued = Empty /\ files = Empty /\ links = Empty
    /\ as_of = [request |-> 0, answer |-> 0, files |-> 0]
    /\ changes = 0

\* The operator changes the virtual addresses or a host name, or the cluster is
\* formed or taken down.
Reconfigure ==
    /\ changes < MaxChanges
    /\ changes' = changes + 1
    /\ \/ \E vips \in {<<n>> : n \in Networks} : host' = [host EXCEPT !.vips = vips]
       \/ \E t \in Types, h \in Hostnames \cup {Absent} :
             host' = [host EXCEPT !.hostname[t] = h]
       \/ /\ host.vips # <<>>
          /\ host' = [host EXCEPT !.clustered = ~@]
    /\ UNCHANGED <<requested, issued, files, links, as_of>>

\* The certificates-relation-joined handler of a charm; it fails where an address
\* cannot be resolved.
Request ==
    /\ Resolvable
    /\ requested' = get_certificate_request(Ordered)
    /\ as_of' = [as_of EXCEPT !.request = Now]
    /\ UNCHANGED <<host, issued, files, links, changes>>

\* The authority answers what was asked last.
Issue ==
    /\ requested # Empty
    /\ issued' = requested
    /\ as_of' = [as_of EXCEPT !.answer = as_of.request]
    /\ UNCHANGED <<host, requested, files, links, changes>>

\* Mutant: install_certs leaves a file that is there.
JoinKeeps(f, g) == [x \in DOMAIN f \cup DOMAIN g |-> IF x \in DOMAIN g THEN g[x] ELSE f[x]]

Join(f, g) == [x \in DOMAIN f \cup DOMAIN g |-> IF x \in DOMAIN f THEN f[x] ELSE g[x]]

\* process_certificates: installs what was issued and links the addresses of the
\* request there would be now, where there is no file of that name yet.  Where an
\* address cannot be resolved it fails after the files.
Added(now, there) ==
    LET linked == {a \in UNION {now[name] : name \in DOMAIN now \cap DOMAIN there} : a \notin DOMAIN there}
    IN [a \in linked |->
          CHOOSE name \in DOMAIN now \cap DOMAIN there : a \in now[name]]

process_certificates ==
    /\ issued # Empty
    /\ files' = Join(issued, files)
    /\ \/ /\ Resolvable
          /\ links' = Join(links, Added(get_certificate_request(Ordered), files'))
          /\ as_of' = [as_of EXCEPT !.files = as_of.answer]
       \/ /\ ~Resolvable
          /\ UNCHANGED <<links, as_of>>
    /\ UNCHANGED <<host, requested, issued, changes>>

Next == Reconfigure \/ Request \/ Issue \/ process_certificates

Spec == Init /\ [][Next]_endpoint_vars

-----------------------------------------------------------------------------
\* Names of two types are different.
OneNameEach ==
    \A t, u \in Types : t # u /\ Overridden(t) => host.hostname[t] # host.hostname[u]

\* Every address that clients, peers or the cluster use is in some certificate that
\* is asked for, whichever types share networks, virtual addresses or have host
\* names.  (get_certificate_request: "Gurantee all SANs are covered")
Covered(request) ==
    \A type \in Types :
        LET all == {resolve_address(type), get_relation_ip(type, host.network[type])}
                      \cup get_vip_in_network(get_relation_ip(type, host.network[type])[2])
        IN all \subseteq DOMAIN request \cup UNION {request[name] : name \in DOMAIN request}

\* A request covers all, be it the first or one made again after a change; until it is
\* made again it is of the configuration before.  (get_certificate_request)
SansCovered == as_of.request = Now /\ OneNameEach => Covered(requested)

\* Once the answer to a request of this configuration is installed, whatever was asked
\* for, issued, installed and linked before, each address of the request is found by a
\* file or by a link, and a link to a name that is still asked for on account of the
\* address leads to a certificate made for it.  (install_certs, create_ip_cert_links)
LinksServe ==
    as_of.files = Now =>
        \A name \in DOMAIN requested : \A a \in requested[name] :
            \/ a \in DOMAIN files
            \/ /\ a \in DOMAIN links /\ links[a] \in DOMAIN files
               /\ links[a] \in DOMAIN requested /\ a \in requested[links[a]]
                     => a \in files[links[a]]

\* Apache finds a certificate for each of its virtual hosts, at any time after one is
\* installed for this configuration.  (ApacheSSLContext, SSLCertificateFile)
HostsServed ==
    as_of.files = Now /\ OneNameEach =>
        \A pair \in get_network_addresses :
            \/ pair[2] \in DOMAIN files
            \/ pair[2] \in DOMAIN links /\ links[pair[2]] \in DOMAIN files

\* A unit of a cluster gives clients an address that the cluster moves when the
\* unit is gone, and HAProxy listens on an address the unit has.  (resolve_address,
\* HAProxyContext, update_hacluster_vip)
AddressesRight ==
    /\ \A type \in Types : host.clustered /\ ~Overridden(type) /\ Resolvable =>
          \E n \in Networks : Addressed(type) = Vip(n)
    /\ \A a \in Frontends : a[1] = "ip" /\ a[2] \in host.attached
    /\ \A pair \in get_network_addresses : pair[1] \in {Ip(n) : n \in host.attached}

\* Certificates cover the names that are served, files and links lead to them also after
\* changes, and addresses fit.  (cert_utils, HAProxyContext)
EndpointsRight == SansCovered /\ LinksServe /\ HostsServed /\ AddressesRight

-----------------------------------------------------------------------------
\* What the documentation says and the code does not do.

\* cert_utils.py:176 "Gurantee all SANs are covered": not when two types have one
\* host name, of which the later entry replaces the earlier.
AllCovered == as_of.request = Now => Covered(requested)

\* cert_utils.py:237 "Create symlinks for SAN records": a link that is there is kept
\* when the address has moved to another name's certificate.
LinksFollow ==
    as_of.files = Now =>
        \A a \in DOMAIN links : links[a] \in DOMAIN files /\ a \in files[links[a]]
=============================================================================
