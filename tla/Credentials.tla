------------------------------ MODULE Credentials ------------------------------
(***************************************************************************)
(* The contexts that need a service's credentials: the units of a relation *)
(* are asked one after the other until one has sent all of them.  Every    *)
(* context has a loop of its own, and they differ in what an incomplete    *)
(* unit leaves behind for the next one.                                    *)
(***************************************************************************)
EXTENDS Naturals, Sequences, SequencesExt

CONSTANT MaxUnits  \* bound: units of the relation

VARIABLE peers  \* the units of the relation, in the order of related_units

\* `creds': all keys that are always needed; `v3': api_version is 3, which needs
\* the data of `domain', too.
Unit == [creds : BOOLEAN, v3 : BOOLEAN, domain : BOOLEAN, region : BOOLEAN]
Units == 1..MaxUnits

\* Values of a key of a context: the unit that sent it, no such key, or None.
NoKey == 0
NoneValue == MaxUnits + 1

-----------------------------------------------------------------------------
\* OSContextGenerator.context_complete: no value is None or empty.
context_complete(ctxt) == \A k \in DOMAIN ctxt : ctxt[k] # NoneValue

Value(has, i) == IF has THEN i ELSE NoneValue

\* The loop of IdentityServiceContext and of IdentityCredentialsContext: one
\* dictionary for all units.  Its domain keys are only updated by a unit with
\* version 3; an incomplete one leaves them there as None.
Ask(units, ctxt, i) ==
    IF ctxt.done THEN ctxt
    ELSE LET keys == [creds |-> Value(units[i].creds, i),
                      domain |-> IF units[i].v3 THEN Value(units[i].domain, i) ELSE ctxt.keys.domain]
         IN [done |-> context_complete(keys), keys |-> keys]

Empty == [creds |-> NoKey, domain |-> NoKey]
Asked(units) ==
    FoldLeftDomain(LAMBDA ctxt, i : Ask(units, ctxt, i), [done |-> FALSE, keys |-> Empty], units)

\* Mutant: takes the last unit if none is complete.
TakeLast(units) == Asked(units).keys

\* The context, or {} (no keys) when no unit is complete.
IdentityServiceContext(units) ==
    IF Asked(units).done THEN Asked(units).keys ELSE Empty

IdentityCredentialsContext(units) == IdentityServiceContext(units)

\* APIIdentityServiceContext: of any unit that sent it, the first one.
APIRegion(units) ==
    LET sent == {i \in DOMAIN units : units[i].region}
    IN IF IdentityServiceContext(units).creds = NoKey THEN NoKey
       ELSE IF sent = {} THEN NoneValue
       ELSE CHOOSE i \in sent : \A j \in sent : i <= j

\* SharedDBContext, PostgresqlDBContext: a new dictionary for every unit.
SharedDBContext(units) ==
    LET complete == {i \in DOMAIN units : units[i].creds}
    IN IF complete = {} THEN NoKey ELSE CHOOSE i \in complete : \A j \in complete : i <= j

-----------------------------------------------------------------------------
Init == peers = <<>>

Join ==
    /\ Len(peers) < MaxUnits
    /\ peers' = Append(peers, [creds |-> FALSE, v3 |-> FALSE, domain |-> FALSE, region |-> FALSE])

Send(i) ==
    /\ i \in DOMAIN peers
    /\ \E k \in {"creds", "v3", "domain", "region"} : peers' = [peers EXCEPT ![i][k] = ~@]

Depart(i) ==
    /\ i \in DOMAIN peers
    /\ peers' = RemoveAt(peers, i)

Next ==
    \/ Join
    \/ \E i \in Units : Send(i) \/ Depart(i)

Spec == Init /\ [][Next]_peers

-----------------------------------------------------------------------------
Ready(i) == peers[i].creds /\ (peers[i].v3 => peers[i].domain)
SameVersion == \A i, j \in DOMAIN peers : peers[i].v3 = peers[j].v3

\* Credentials are used only when one unit has sent all of them, and with the
\* domain of that unit; as long as all units speak the same version, no unit
\* that is not ready hides one that is.  (IdentityServiceContext)
OneUnitsCredentials ==
    \A ctxt \in {IdentityServiceContext(peers), IdentityCredentialsContext(peers)} :
       /\ ctxt.creds # NoKey =>
             /\ ctxt.creds \in DOMAIN peers /\ Ready(ctxt.creds)
             /\ peers[ctxt.creds].v3 => ctxt.domain = ctxt.creds
             /\ APIRegion(peers) = NoneValue => \A i \in DOMAIN peers : ~peers[i].region
       /\ SameVersion /\ (\E i \in DOMAIN peers : Ready(i)) => ctxt.creds # NoKey
       /\ SharedDBContext(peers) = NoKey <=> \A i \in DOMAIN peers : ~peers[i].creds
=============================================================================
