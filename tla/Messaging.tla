------------------------------- MODULE Messaging -------------------------------
(***************************************************************************)
(* AMQPContext: the hosts in transport_url, from all units of all amqp     *)
(* relations.  One dictionary and one flag `complete' serve all of them.   *)
(***************************************************************************)
EXTENDS Naturals, Sequences, SequencesExt

CONSTANTS MaxRelations, MaxServers  \* bounds: relations, units of each

VARIABLE amqp  \* relations, each the sequence of its units

\* `cluster': not clustered, clustered without a VIP yet, clustered.
Server == [cluster : {"no", "pending", "vip"}, password : BOOLEAN, vip_only : BOOLEAN]

\* A host of transport_url: unit <<r, u>> by its own address or by the VIP.
Own(r, u) == [relation |-> r, unit |-> u, vip |-> FALSE]
Vip(r, u) == [relation |-> r, unit |-> u, vip |-> TRUE]

Nothing == [complete |-> FALSE, clustered |-> FALSE, transport_url |-> {}]

-----------------------------------------------------------------------------
\* The loop over the units of a relation ends with the first one that is
\* complete.  `vip_only' is that of the last unit asked.
AskServer(r, servers, ctxt, u) ==
    IF ctxt.broke THEN ctxt
    ELSE LET s == servers[u]
             ok == s.password /\ s.cluster # "pending"
         IN [broke |-> ok, complete |-> ok, vip_only |-> s.vip_only,
             clustered |-> ctxt.clustered \/ s.cluster # "no",
             hosts |-> {IF s.cluster = "no" THEN Own(r, u) ELSE Vip(r, u)}]

\* Mutant: all units, whether ready or not.
HostsUnready(r, servers) == {Own(r, u) : u \in DOMAIN servers}

\* rabbitmq_hosts: the units that have sent a password.
rabbitmq_hosts(r, servers) == {Own(r, u) : u \in {v \in DOMAIN servers : servers[v].password}}

\* One relation.  Without units it changes nothing, not even `complete'.
AskRelation(all, ctxt, r) ==
    LET servers == all[r]
        asked == FoldLeftDomain(LAMBDA c, u : AskServer(r, servers, c, u),
                     [broke |-> FALSE, complete |-> ctxt.complete, vip_only |-> FALSE,
                      clustered |-> ctxt.clustered, hosts |-> {}], servers)
        hosts == IF (~asked.clustered \/ asked.vip_only) /\ Len(servers) > 1
                 THEN rabbitmq_hosts(r, servers) ELSE asked.hosts
    IN [complete |-> asked.complete, clustered |-> asked.clustered,
        transport_url |-> IF hosts = {} THEN ctxt.transport_url ELSE hosts]

AMQPContext(all) ==
    LET ctxt == FoldLeftDomain(LAMBDA c, r : AskRelation(all, c, r), Nothing, all)
    IN IF ctxt.complete THEN ctxt ELSE Nothing

-----------------------------------------------------------------------------
Init == amqp = <<>>

Relate ==
    /\ Len(amqp) < MaxRelations
    /\ amqp' = Append(amqp, <<>>)

Unrelate(r) ==
    /\ r \in DOMAIN amqp
    /\ amqp' = RemoveAt(amqp, r)

Join(r) ==
    /\ r \in DOMAIN amqp
    /\ Len(amqp[r]) < MaxServers
    /\ amqp' = [amqp EXCEPT ![r] =
                  Append(@, [cluster |-> "no", password |-> FALSE, vip_only |-> FALSE])]

Send(r, u) ==
    /\ r \in DOMAIN amqp /\ u \in DOMAIN amqp[r]
    /\ \/ \E c \in {"no", "pending", "vip"} : amqp' = [amqp EXCEPT ![r][u].cluster = c]
       \/ \E k \in {"password", "vip_only"} : amqp' = [amqp EXCEPT ![r][u][k] = ~@]

Depart(r, u) ==
    /\ r \in DOMAIN amqp /\ u \in DOMAIN amqp[r]
    /\ amqp' = [amqp EXCEPT ![r] = RemoveAt(@, u)]

Next ==
    \/ Relate
    \/ \E r \in 1..MaxRelations :
          \/ Unrelate(r)
          \/ Join(r)
          \/ \E u \in 1..MaxServers : Send(r, u) \/ Depart(r, u)

Spec == Init /\ [][Next]_amqp

-----------------------------------------------------------------------------
Ready(s) == s.password /\ s.cluster # "pending"

\* transport_url names no server that is not ready to be used: each has sent its
\* password, and its VIP when it is addressed by it; and with one relation, no
\* server that is not ready hides one that is.  (AMQPContext)
ServersReady ==
    LET ctxt == AMQPContext(amqp)
    IN /\ \A h \in ctxt.transport_url :
             LET s == amqp[h.relation][h.unit]
             IN s.password /\ (h.vip => s.cluster = "vip")
       /\ ctxt.complete => ctxt.transport_url # {}
       /\ Len(amqp) = 1 /\ (\E u \in DOMAIN amqp[1] : Ready(amqp[1][u])) => ctxt.complete
=============================================================================
