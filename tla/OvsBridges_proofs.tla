-------------------------- MODULE OvsBridges_proofs --------------------------
(***************************************************************************)
(* configure_ovs() against a database that survives it, for any number of  *)
(* devices, bonds, bridges and collectors: what the rest of a run will     *)
(* still do makes up for what the database does not have yet.              *)
(***************************************************************************)
EXTENDS OvsBridges, ScriptLemmas, FiniteSetTheorems

\* The commands, and those that set the collector of a bridge.
Command ==
    [cmd : {"add-br"}, br : Bridges]
      \cup [cmd : {"add-port", "new-port", "add-bond"}, br : Bridges,
            port : Nics \cup Bonds, nics : SUBSET Nics]
      \cup [cmd : {"ipfix"}, br : Bridges, target : Targets \cup {None}]
IpfixOf(br) == {c \in Command : c.cmd = "ipfix" /\ c.br = br}

\* What a run of the hook is for: the commands that make bridges and ports, and the
\* bridges that export.  Every device the config names is visible or remembered.
Ports(v) == {p \in Nics : v.dataPort[p] # None}
MembersOf(v, b) == {p \in Nics : v.bondOf[p] = b}
BondsOf(v) == {b \in Bonds : v.dataPort[b] # None /\ MembersOf(v, b) # {}}
Wanted(v) ==
    {AddBridge(INT_BRIDGE), AddBridge(EXT_BRIDGE)}
      \cup (IF v.ext = None THEN {} ELSE {AddPort(EXT_BRIDGE, v.ext)})
      \cup (IF v.dpdk
            THEN {AddBridge(v.dataPort[p]) : p \in Ports(v) \cup BondsOf(v)}
                   \cup {NewPort(v.dataPort[p], p) : p \in Ports(v)}
                   \cup {AddBond(v.dataPort[b], b, MembersOf(v, b)) : b \in BondsOf(v)}
            ELSE {AddBridge(br) : br \in v.mappings}
                   \cup {AddPort(v.dataPort[p], p) :
                             p \in {q \in Nics : v.dataPort[q] \in v.mappings}})
Exporters(v) ==
    {INT_BRIDGE, EXT_BRIDGE}
      \cup (IF v.dpdk THEN {v.dataPort[p] : p \in Ports(v)} ELSE v.mappings)

\* A command is done; the rest of the script makes the database what v asks for.
Done(c) == IF c.cmd = "add-br" THEN c.br \in ovsdb.bridges
                               ELSE <<c.port, c.br, c.nics>> \in ovsdb.ports
Made(v) == \A c \in Wanted(v) : Occurs(c, script) \/ Done(c)
Exporting(v) ==
    \A br \in Exporters(v) :
        \/ LastOf(IpfixOf(br), Ipfix(br, v.target), script)
        \/ Without(IpfixOf(br), script) /\ ovsdb.ipfix[br] = v.target

Database == [bridges : SUBSET Bridges,
             ports : SUBSET ((Nics \cup Bonds) \X Bridges \X SUBSET Nics),
             ipfix : [Bridges -> Targets \cup {None}]]
TypeOK ==
    /\ conf \in Config /\ view \in Config
    /\ hook \in {"none", "running", "failed"} /\ due \in BOOLEAN
    /\ script \in Seq(Command)
    /\ ovsdb \in Database
    /\ known \subseteq Nics /\ listed \subseteq known /\ bound \subseteq known

OnBridges == \A q \in ovsdb.ports : q[2] \in ovsdb.bridges
Current ==
    /\ hook # "running" => script = <<>>
    /\ hook = "running" /\ ~due => view = conf
Applied ==
    /\ hook = "running" => Made(view) /\ Exporting(view)
    /\ Settled => Made(conf) /\ Exporting(conf)

BridgesInv == TypeOK /\ OnBridges /\ Current /\ Applied

-----------------------------------------------------------------------------
\* A loop runs the commands of every key; the last of B is that of the only key
\* that has any.
LEMMA Loop ==
  ASSUME NEW X, NEW f, IsFiniteSet(DOMAIN f), \A x \in DOMAIN f : f[x] \in Seq(X)
  PROVE  /\ Each(f) \in Seq(X)
         /\ \A c : Occurs(c, Each(f)) <=> \E x \in DOMAIN f : Occurs(c, f[x])
         /\ \A B, c : \A x \in DOMAIN f :
               /\ LastOf(B, c, f[x])
               /\ \A y \in DOMAIN f : y # x => Without(B, f[y])
               => LastOf(B, c, Each(f))
<1> DEFINE S == DOMAIN f
           n == Cardinality(S)
           order == SetToSeq(S)
           ss == [i \in DOMAIN order |-> f[order[i]]]
<1>1. /\ n \in Nat /\ order \in [1..n -> S]
      /\ \A x \in S : \E i \in 1..n : order[i] = x
      /\ \A i, j \in 1..n : order[i] = order[j] => i = j
  BY OrderOfKeys
<1> HIDE DEF n, order, S
<1>2. ss \in Seq(Seq(X)) /\ Len(ss) = n /\ \A i \in 1..n : ss[i] = f[order[i]]
  <2>1. \A i \in 1..n : f[order[i]] \in Seq(X)
    BY <1>1 DEF S
  <2>2. ss \in [1..n -> Seq(X)]
    BY <1>1, <2>1
  <2>3. ss \in Seq(Seq(X))
    BY <1>1, <2>2
  <2> HIDE DEF ss
  <2>4. Len(ss) = n
    BY <1>1, <2>2, <2>3, LenProperties
  <2> QED BY <1>1, <2>3, <2>4 DEF ss
<1>3. Each(f) = FlattenSeq(ss)
  BY DEF Each, ss, order, S
<1> HIDE DEF ss
<1>4. /\ Each(f) \in Seq(X)
      /\ \A c : Occurs(c, Each(f)) <=> \E k \in 1..n : Occurs(c, ss[k])
      /\ \A B, c : \A k \in 1..n :
            /\ LastOf(B, c, ss[k])
            /\ \A j \in 1..n : j > k => Without(B, ss[j])
            => LastOf(B, c, Each(f))
  BY <1>2, <1>3, Flattened
<1>5. \A c : Occurs(c, Each(f)) <=> \E x \in S : Occurs(c, f[x])
  <2>1. \A i \in 1..n : order[i] \in S
    BY <1>1
  <2>2. \A c : (\E k \in 1..n : Occurs(c, ss[k])) <=> \E x \in S : Occurs(c, f[x])
    BY <1>1, <1>2, <2>1
  <2> QED BY <1>4, <2>2
<1>6. ASSUME NEW B, NEW c, NEW x \in S, LastOf(B, c, f[x]),
             \A y \in S : y # x => Without(B, f[y])
      PROVE  LastOf(B, c, Each(f))
  <2>1. PICK k \in 1..n : order[k] = x
    BY <1>1
  <2>2. \A j \in 1..n : j > k => Without(B, ss[j])
    <3>1. \A j \in 1..n : j > k => j # k
      BY <1>1
    <3>2. ASSUME NEW j \in 1..n, j # k PROVE Without(B, ss[j])
      <4>1. order[j] \in S /\ order[j] # x
        BY ONLY <1>1, <2>1, <3>2, n \in Nat
      <4>2. Without(B, f[order[j]])
        BY <1>6, <4>1
      <4>3. ss[j] = f[order[j]]
        BY <1>2
      <4> QED BY <4>2, <4>3
    <3> QED BY <3>1, <3>2
  <2> QED BY <1>2, <1>4, <1>6, <2>1, <2>2
<1> QED BY <1>4, <1>5, <1>6 DEF S

-----------------------------------------------------------------------------
LEMMA Constructors ==
  /\ \A br \in Bridges : AddBridge(br) \in Command
  /\ \A br \in Bridges, p \in Nics : AddPort(br, p) \in Command /\ NewPort(br, p) \in Command
  /\ \A br \in Bridges, b \in Bonds, S \in SUBSET Nics : AddBond(br, b, S) \in Command
  /\ \A br \in Bridges, t \in Targets \cup {None} :
        Ipfix(br, t) \in Command /\ Ipfix(br, t) \in IpfixOf(br)
  /\ INT_BRIDGE \in Bridges /\ EXT_BRIDGE \in Bridges /\ Data \subseteq Bridges
<1>1. \A br \in Bridges : AddBridge(br) \in Command
  BY DEF AddBridge, Command
<1>2. \A br \in Bridges, p \in Nics : AddPort(br, p) \in Command /\ NewPort(br, p) \in Command
  BY DEF AddPort, NewPort, Command
<1>3. \A br \in Bridges, b \in Bonds, S \in SUBSET Nics : AddBond(br, b, S) \in Command
  BY DEF AddBond, Command
<1>4. \A br \in Bridges, t \in Targets \cup {None} : Ipfix(br, t) \in Command
  BY DEF Ipfix, Command
<1>5. \A br, t : Ipfix(br, t).cmd = "ipfix" /\ Ipfix(br, t).br = br
  BY DEF Ipfix
<1>6. INT_BRIDGE \in Bridges /\ EXT_BRIDGE \in Bridges /\ Data \subseteq Bridges
  BY DEF Bridges
<1> QED BY <1>1, <1>2, <1>3, <1>4, <1>5, <1>6 DEF IpfixOf

LEMMA Finite ==
  /\ \A S : S \subseteq Nics \/ S \subseteq Bonds \/ S \subseteq Data => IsFiniteSet(S)
  /\ \A S : S \subseteq Bridges => IsFiniteSet(S)
<1>1. IsFiniteSet(Nics \cup Bonds \cup Data)
  BY BridgesAssumption
<1>2. IsFiniteSet(Data)
  <2>1. Data \subseteq Nics \cup Bonds \cup Data
    OBVIOUS
  <2> QED BY <1>1, <2>1, FS_Subset
<1>3. IsFiniteSet({INT_BRIDGE, EXT_BRIDGE})
  <2>1. IsFiniteSet({INT_BRIDGE} \cup {EXT_BRIDGE})
    BY FS_Singleton, FS_Union
  <2>2. {INT_BRIDGE} \cup {EXT_BRIDGE} = {INT_BRIDGE, EXT_BRIDGE}
    OBVIOUS
  <2> QED BY <2>1, <2>2
<1>4. IsFiniteSet(Bridges)
  BY <1>2, <1>3, FS_Union DEF Bridges
<1>5. ASSUME NEW S, S \subseteq Nics \/ S \subseteq Bonds \/ S \subseteq Data
      PROVE  IsFiniteSet(S)
  <2>1. S \subseteq Nics \cup Bonds \cup Data
    BY <1>5
  <2> QED BY <1>1, <2>1, FS_Subset
<1> QED BY <1>4, <1>5, FS_Subset

\* The loop over the bridge mappings, and in it over the ports of a bridge.
LEMMA KernelCommands ==
  ASSUME NEW v \in Config
  PROVE  /\ KernelPorts(v) \in Seq(Command)
         /\ \A c : Occurs(c, KernelPorts(v)) <=>
               \E br \in v.mappings :
                  c = AddBridge(br) \/ \E p \in On(v, br, Nics) : c = AddPort(br, p)
<1> DEFINE inner(br) == [p \in On(v, br, Nics) |-> <<AddPort(br, p)>>]
           f == [br \in v.mappings |-> <<AddBridge(br)>> \o Each(inner(br))]
<1>1. v.mappings \subseteq Data /\ v.mappings \subseteq Bridges
  BY Constructors DEF Config
<1>2. ASSUME NEW br \in v.mappings
      PROVE  /\ Each(inner(br)) \in Seq(Command)
             /\ \A c : Occurs(c, Each(inner(br))) <=>
                          \E p \in On(v, br, Nics) : c = AddPort(br, p)
  <2> DEFINE g == inner(br)
  <2>1. DOMAIN g = On(v, br, Nics) /\ IsFiniteSet(DOMAIN g)
    BY Finite DEF On
  <2>2. \A p \in DOMAIN g : g[p] = <<AddPort(br, p)>> /\ AddPort(br, p) \in Command
    BY <1>1, Constructors DEF On
  <2> HIDE DEF g
  <2>3. \A p \in DOMAIN g : g[p] \in Seq(Command)
    <3> TAKE p \in DOMAIN g
    <3>1. <<AddPort(br, p)>> \in Seq(Command)
      BY <2>2
    <3> QED BY <2>2, <3>1
  <2>6. \A p \in DOMAIN g : \A c : Occurs(c, g[p]) <=> c = AddPort(br, p)
    BY <2>2, Small
  <2>4. /\ Each(g) \in Seq(Command)
        /\ \A c : Occurs(c, Each(g)) <=> \E p \in DOMAIN g : Occurs(c, g[p])
    BY <2>1, <2>3, Loop
  <2>5. \A c : Occurs(c, Each(g)) <=> \E p \in On(v, br, Nics) : c = AddPort(br, p)
    BY <2>1, <2>4, <2>6
  <2> QED BY <2>4, <2>5 DEF g
<1>3. DOMAIN f = v.mappings /\ IsFiniteSet(DOMAIN f)
  BY <1>1, Finite
<1>4. ASSUME NEW br \in v.mappings
      PROVE  /\ f[br] \in Seq(Command)
             /\ \A c : Occurs(c, f[br]) <=>
                   c = AddBridge(br) \/ \E p \in On(v, br, Nics) : c = AddPort(br, p)
  <2> DEFINE t == Each(inner(br))
  <2>1. f[br] = <<AddBridge(br)>> \o t
    OBVIOUS
  <2>2. /\ t \in Seq(Command)
        /\ \A c : Occurs(c, t) <=> \E p \in On(v, br, Nics) : c = AddPort(br, p)
    BY <1>2
  <2> HIDE DEF t, f
  <2>3. AddBridge(br) \in Command
    BY <1>1, Constructors
  <2> DEFINE h == <<AddBridge(br)>>
  <2>4. h \in Seq(Command) /\ \A c : Occurs(c, h) <=> c = AddBridge(br)
    BY <2>3, Small
  <2>5. f[br] = h \o t
    BY <2>1
  <2> HIDE DEF h
  <2>6. h \o t \in Seq(Command) /\ \A c : Occurs(c, h \o t) <=> Occurs(c, h) \/ Occurs(c, t)
    BY <2>2, <2>4, Joined
  <2> QED BY <2>2, <2>4, <2>5, <2>6
<1>5. KernelPorts(v) = Each(f)
  BY DEF KernelPorts
<1> HIDE DEF f
<1>6. /\ Each(f) \in Seq(Command)
      /\ \A c : Occurs(c, Each(f)) <=> \E br \in DOMAIN f : Occurs(c, f[br])
  BY <1>3, <1>4, Loop
<1> DEFINE R(br, c) == c = AddBridge(br) \/ \E p \in On(v, br, Nics) : c = AddPort(br, p)
<1>7. \A br \in v.mappings : \A c : Occurs(c, f[br]) <=> R(br, c)
  BY <1>4
<1> HIDE DEF R
<1>8. \A c : Occurs(c, Each(f)) <=> \E br \in v.mappings : R(br, c)
  BY <1>3, <1>6, <1>7
<1> QED BY <1>5, <1>6, <1>8 DEF R

\* With DPDK: the loop over the ports, and the two over the bonds.
LEMMA DpdkCommands ==
  ASSUME NEW v \in Config, NEW kv
  PROVE  LET s == DpdkPorts(v, kv) \o DpdkBonds(v, kv)
         IN  /\ s \in Seq(Command)
             /\ \A c : Occurs(c, s) <=>
                  \/ \E p \in Resolved(v, kv) :
                        c = AddBridge(v.dataPort[p]) \/ c = NewPort(v.dataPort[p], p)
                  \/ \E b \in UsedBonds(v, kv) :
                        \/ c = AddBridge(v.dataPort[b])
                        \/ c = AddBond(v.dataPort[b], b, BondNics(v, kv, b))
<1> DEFINE P == Resolved(v, kv)
           B == UsedBonds(v, kv)
           br(x) == v.dataPort[x]
           bond(b) == AddBond(br(b), b, BondNics(v, kv, b))
           f == [p \in P |-> <<AddBridge(br(p)), NewPort(br(p), p)>>]
           g == [b \in B |-> <<AddBridge(br(b))>>]
           h == [b \in B |-> <<bond(b)>>]
<1>1. \A p \in P : p \in Nics /\ AddBridge(br(p)) \in Command /\ NewPort(br(p), p) \in Command
  <2> SUFFICES ASSUME NEW p \in P
               PROVE  p \in Nics /\ AddBridge(br(p)) \in Command /\ NewPort(br(p), p) \in Command
    OBVIOUS
  <2>1. p \in Nics /\ br(p) # None
    BY DEF Resolved
  <2>2. br(p) \in Bridges
    BY <2>1, Constructors DEF Config
  <2> QED BY <2>1, <2>2, Constructors
<1>2. \A b \in B : b \in Bonds /\ AddBridge(br(b)) \in Command /\ bond(b) \in Command
  <2> SUFFICES ASSUME NEW b \in B
               PROVE  b \in Bonds /\ AddBridge(br(b)) \in Command /\ bond(b) \in Command
    OBVIOUS
  <2>1. b \in Bonds /\ br(b) # None
    BY DEF UsedBonds
  <2>2. br(b) \in Bridges
    BY <2>1, Constructors DEF Config
  <2>3. BondNics(v, kv, b) \in SUBSET Nics
    BY DEF BondNics
  <2> HIDE DEF br
  <2> QED BY <2>1, <2>2, <2>3, Constructors
<1>3. IsFiniteSet(P) /\ IsFiniteSet(B)
  BY <1>1, <1>2, Finite
<1>4. Each(f) = DpdkPorts(v, kv) /\ Each(g) \o Each(h) = DpdkBonds(v, kv)
  BY DEF DpdkPorts, DpdkBonds
<1> HIDE DEF P, B, br, bond
<1>5. /\ Each(f) \in Seq(Command)
      /\ \A c : Occurs(c, Each(f)) <=>
            \E p \in P : c = AddBridge(br(p)) \/ c = NewPort(br(p), p)
  <2>1. DOMAIN f = P
    OBVIOUS
  <2>2. \A p \in P : /\ f[p] \in Seq(Command)
                     /\ \A c : Occurs(c, f[p]) <=> c = AddBridge(br(p)) \/ c = NewPort(br(p), p)
    <3> TAKE p \in P
    <3>1. f[p] = <<AddBridge(br(p)), NewPort(br(p), p)>>
      OBVIOUS
    <3>2. <<AddBridge(br(p)), NewPort(br(p), p)>> \in Seq(Command)
      BY <1>1
    <3> HIDE DEF f
    <3> QED BY <3>1, <3>2, Small
  <2> HIDE DEF f
  <2> QED BY <1>3, <2>1, <2>2, Loop
<1>6. /\ Each(g) \in Seq(Command)
      /\ \A c : Occurs(c, Each(g)) <=> \E b \in B : c = AddBridge(br(b))
  <2>1. DOMAIN g = B
    OBVIOUS
  <2>2. \A b \in B : g[b] \in Seq(Command) /\ \A c : Occurs(c, g[b]) <=> c = AddBridge(br(b))
    <3> TAKE b \in B
    <3>1. g[b] = <<AddBridge(br(b))>>
      OBVIOUS
    <3>2. <<AddBridge(br(b))>> \in Seq(Command)
      BY <1>2
    <3> HIDE DEF g
    <3> QED BY <3>1, <3>2, Small
  <2> HIDE DEF g
  <2> QED BY <1>3, <2>1, <2>2, Loop
<1>7. /\ Each(h) \in Seq(Command)
      /\ \A c : Occurs(c, Each(h)) <=> \E b \in B : c = bond(b)
  <2>1. DOMAIN h = B
    OBVIOUS
  <2>2. \A b \in B : h[b] \in Seq(Command) /\ \A c : Occurs(c, h[b]) <=> c = bond(b)
    <3> TAKE b \in B
    <3>1. h[b] = <<bond(b)>>
      OBVIOUS
    <3>2. <<bond(b)>> \in Seq(Command)
      BY <1>2
    <3> HIDE DEF h
    <3> QED BY <3>1, <3>2, Small
  <2> HIDE DEF h
  <2> QED BY <1>3, <2>1, <2>2, Loop
<1> HIDE DEF f, g, h
<1>8. /\ Each(g) \o Each(h) \in Seq(Command)
      /\ \A c : Occurs(c, Each(g) \o Each(h)) <=> Occurs(c, Each(g)) \/ Occurs(c, Each(h))
  BY <1>6, <1>7, Joined
<1> DEFINE gh == Each(g) \o Each(h)
<1> HIDE DEF gh
<1>9. /\ Each(f) \o gh \in Seq(Command)
      /\ \A c : Occurs(c, Each(f) \o gh) <=> Occurs(c, Each(f)) \/ Occurs(c, gh)
  BY <1>5, <1>8, Joined DEF gh
<1>10. ASSUME NEW c
       PROVE  Occurs(c, Each(f) \o gh) <=>
                  \/ \E p \in P : c = AddBridge(br(p)) \/ c = NewPort(br(p), p)
                  \/ \E b \in B : c = AddBridge(br(b)) \/ c = bond(b)
  <2>1. Occurs(c, gh) <=> \E b \in B : c = AddBridge(br(b)) \/ c = bond(b)
    BY <1>6, <1>7, <1>8 DEF gh
  <2> QED BY <1>5, <1>9, <2>1
<1>11. DpdkPorts(v, kv) \o DpdkBonds(v, kv) = Each(f) \o gh
  BY <1>4 DEF gh
<1> QED BY <1>9, <1>10, <1>11 DEF P, B, br, bond

\* The last loop: the last word about a bridge is the collector of the config.
LEMMA IpfixCommands ==
  ASSUME NEW v \in Config, NEW kv
  PROVE  /\ IpfixTargets(v, kv) \in Seq(Command)
         /\ \A c : Occurs(c, IpfixTargets(v, kv)) =>
               \E br \in IpfixBridges(v, kv) : c = Ipfix(br, None) \/ c = Ipfix(br, v.target)
         /\ \A br \in IpfixBridges(v, kv) :
               LastOf(IpfixOf(br), Ipfix(br, v.target), IpfixTargets(v, kv))
         /\ IpfixBridges(v, kv) \subseteq Bridges
<1> DEFINE I == IpfixBridges(v, kv)
           f == [br \in I |-> <<Ipfix(br, None)>>
                      \o IF v.target = None THEN <<>> ELSE <<Ipfix(br, v.target)>>]
<1>1. I \subseteq Bridges
  <2>1. v.mappings \subseteq Bridges
    BY Constructors DEF Config
  <2>2. \A p \in Resolved(v, kv) : v.dataPort[p] \in Bridges
    BY Constructors DEF Config, Resolved
  <2> QED BY <2>1, <2>2, Constructors DEF IpfixBridges
<1>2. IpfixTargets(v, kv) = Each(f)
  BY DEF IpfixTargets
<1>3. IsFiniteSet(I) /\ DOMAIN f = I
  BY <1>1, Finite
<1> HIDE DEF I
<1>4. ASSUME NEW br \in I
      PROVE  /\ f[br] \in Seq(Command)
             /\ \A c : Occurs(c, f[br]) => c = Ipfix(br, None) \/ c = Ipfix(br, v.target)
             /\ \A B : LastOf(B, Ipfix(br, v.target), f[br])
  <2> DEFINE a == Ipfix(br, None)
             b == Ipfix(br, v.target)
  <2>1. a \in Command /\ b \in Command
    BY <1>1, Constructors DEF Config
  <2>2. f[br] = <<a>> \o IF v.target = None THEN <<>> ELSE <<b>>
    OBVIOUS
  <2>3. v.target = None => a = b
    OBVIOUS
  <2> HIDE DEF a, b, f
  <2> DEFINE sa == <<a>>
             sb == <<b>>
  <2>4. /\ sa \in Seq(Command) /\ sb \in Seq(Command)
        /\ \A c : (Occurs(c, sa) <=> c = a) /\ (Occurs(c, sb) <=> c = b)
        /\ \A B : LastOf(B, b, sb)
    BY <2>1, Small
  <2>6. v.target = None => sa = sb
    BY <2>3
  <2>7. f[br] = IF v.target = None THEN sa \o <<>> ELSE sa \o sb
    BY <2>2
  <2> HIDE DEF sa, sb
  <2>8. sa \o <<>> = sa
    BY <2>4, ConcatEmptySeq
  <2>9. /\ sa \o sb \in Seq(Command)
        /\ \A c : Occurs(c, sa \o sb) <=> c = a \/ c = b
        /\ \A B : LastOf(B, b, sa \o sb)
    BY <2>4, Joined
  <2>10. f[br] = sb \/ f[br] = sa \o sb
    BY <2>6, <2>7, <2>8
  <2> QED BY <2>4, <2>9, <2>10 DEF a, b
<1> HIDE DEF f
<1>5. /\ Each(f) \in Seq(Command)
      /\ \A c : Occurs(c, Each(f)) <=> \E br \in I : Occurs(c, f[br])
      /\ \A B, c : \A x \in I :
            /\ LastOf(B, c, f[x])
            /\ \A y \in I : y # x => Without(B, f[y])
            => LastOf(B, c, Each(f))
  BY <1>3, <1>4, Loop
<1>6. ASSUME NEW br \in I
      PROVE  LastOf(IpfixOf(br), Ipfix(br, v.target), Each(f))
  <2>1. ASSUME NEW y \in I, y # br PROVE Without(IpfixOf(br), f[y])
    <3> SUFFICES ASSUME NEW i \in 1..Len(f[y]) PROVE f[y][i] \notin IpfixOf(br)
      BY DEF Without
    <3>1. Occurs(f[y][i], f[y])
      BY DEF Occurs
    <3>2. f[y][i] = Ipfix(y, None) \/ f[y][i] = Ipfix(y, v.target)
      BY <1>4, <3>1
    <3>3. f[y][i].br = y
      BY <3>2 DEF Ipfix
    <3> QED BY <2>1, <3>3 DEF IpfixOf
  <2> QED BY <1>4, <1>5, <2>1
<1> QED BY <1>1, <1>2, <1>4, <1>5, <1>6 DEF I

\* The commands of a run.
LEMMA RunCommands ==
  ASSUME NEW v \in Config, NEW kv
  PROVE  LET all == configure_ovs(v, kv)
         IN  /\ all \in Seq(Command)
             /\ \A br \in IpfixBridges(v, kv) : LastOf(IpfixOf(br), Ipfix(br, v.target), all)
             /\ \A c : Occurs(c, all) <=>
                   \/ c = AddBridge(INT_BRIDGE) \/ c = AddBridge(EXT_BRIDGE)
                   \/ v.ext # None /\ c = AddPort(EXT_BRIDGE, v.ext)
                   \/ v.dpdk /\ Occurs(c, DpdkPorts(v, kv) \o DpdkBonds(v, kv))
                   \/ ~v.dpdk /\ Occurs(c, KernelPorts(v))
                   \/ Occurs(c, IpfixTargets(v, kv))
<1> DEFINE A == <<AddBridge(INT_BRIDGE), AddBridge(EXT_BRIDGE)>>
           E == ExtPort(v)
           M == IF v.dpdk THEN DpdkPorts(v, kv) \o DpdkBonds(v, kv) ELSE KernelPorts(v)
           I == IpfixTargets(v, kv)
<1>0. v.dpdk \in BOOLEAN
  BY DEF Config
<1>1. /\ A \in Seq(Command)
      /\ \A c : Occurs(c, A) <=> c = AddBridge(INT_BRIDGE) \/ c = AddBridge(EXT_BRIDGE)
  <2>1. AddBridge(INT_BRIDGE) \in Command /\ AddBridge(EXT_BRIDGE) \in Command
    BY Constructors
  <2>2. A \in Seq(Command)
    BY <2>1
  <2> QED BY <2>2, Small
<1>2. /\ E \in Seq(Command)
      /\ \A c : Occurs(c, E) <=> v.ext # None /\ c = AddPort(EXT_BRIDGE, v.ext)
  <2>1. CASE v.ext = None
    <3>1. E = <<>>
      BY <2>1 DEF ExtPort
    <3> HIDE DEF E
    <3> QED BY <2>1, <3>1, Small
  <2>2. CASE v.ext # None
    <3>1. E = <<AddPort(EXT_BRIDGE, v.ext)>>
      BY <2>2 DEF ExtPort
    <3>2. AddPort(EXT_BRIDGE, v.ext) \in Command
      BY <2>2, Constructors DEF Config
    <3>3. <<AddPort(EXT_BRIDGE, v.ext)>> \in Seq(Command)
      BY <3>2
    <3> HIDE DEF E
    <3> QED BY <2>2, <3>1, <3>3, Small
  <2> QED BY <2>1, <2>2
<1> DEFINE D == DpdkPorts(v, kv) \o DpdkBonds(v, kv)
           K == KernelPorts(v)
<1>3. /\ M \in Seq(Command)
      /\ \A c : Occurs(c, M) <=> (v.dpdk /\ Occurs(c, D)) \/ (~v.dpdk /\ Occurs(c, K))
  <2>1. D \in Seq(Command) /\ K \in Seq(Command)
    BY DpdkCommands, KernelCommands
  <2>2. (v.dpdk => M = D) /\ (~v.dpdk => M = K)
    OBVIOUS
  <2> HIDE DEF D, K, M
  <2>3. CASE v.dpdk
    <3>1. M = D
      BY <2>2, <2>3
    <3> QED BY <2>1, <2>3, <3>1
  <2>4. CASE ~v.dpdk
    <3>1. M = K
      BY <2>2, <2>4
    <3> QED BY <2>1, <2>4, <3>1
  <2> QED BY <2>3, <2>4
<1>4. I \in Seq(Command)
  BY IpfixCommands
<1>5. configure_ovs(v, kv) = A \o E \o M \o I
  BY DEF configure_ovs
<1>6. \A br \in IpfixBridges(v, kv) : LastOf(IpfixOf(br), Ipfix(br, v.target), I)
  BY IpfixCommands
<1> HIDE DEF A, E, M, I, D, K
<1>7. A \o E \in Seq(Command) /\ \A c : Occurs(c, A \o E) <=> Occurs(c, A) \/ Occurs(c, E)
  BY <1>1, <1>2, Joined
<1> DEFINE AE == A \o E
<1> HIDE DEF AE
<1>8. AE \o M \in Seq(Command) /\ \A c : Occurs(c, AE \o M) <=> Occurs(c, AE) \/ Occurs(c, M)
  <2>1. AE \in Seq(Command)
    BY <1>7 DEF AE
  <2> QED BY <1>3, <2>1, Joined
<1> DEFINE AEM == AE \o M
<1> HIDE DEF AEM
<1>9. /\ AEM \o I \in Seq(Command)
      /\ \A c : Occurs(c, AEM \o I) <=> Occurs(c, AEM) \/ Occurs(c, I)
      /\ \A B, c : LastOf(B, c, I) => LastOf(B, c, AEM \o I)
  <2>1. AEM \in Seq(Command)
    BY <1>8 DEF AEM
  <2> QED BY <1>4, <2>1, Joined
<1>10. configure_ovs(v, kv) = AEM \o I
  BY <1>5 DEF AEM, AE
<1>11. \A c : Occurs(c, AEM \o I) <=> Occurs(c, A) \/ Occurs(c, E) \/ Occurs(c, M) \/ Occurs(c, I)
  BY <1>7, <1>8, <1>9 DEF AEM, AE
<1>12. \A br \in IpfixBridges(v, kv) : LastOf(IpfixOf(br), Ipfix(br, v.target), AEM \o I)
  BY <1>6, <1>9
<1> DEFINE all == configure_ovs(v, kv)
<1>13. all = AEM \o I
  BY <1>10
<1> HIDE DEF all
<1>14. \A c : Occurs(c, all) <=>
                   \/ c = AddBridge(INT_BRIDGE) \/ c = AddBridge(EXT_BRIDGE)
                   \/ v.ext # None /\ c = AddPort(EXT_BRIDGE, v.ext)
                   \/ (v.dpdk /\ Occurs(c, D)) \/ (~v.dpdk /\ Occurs(c, K))
                   \/ Occurs(c, I)
  BY <1>1, <1>2, <1>3, <1>11, <1>13
<1> QED BY <1>9, <1>12, <1>13, <1>14 DEF all, D, K, I

\* No device is missing where those the kernel does not show are remembered.
LEMMA Resolving ==
  ASSUME NEW v \in Config, NEW kv, bound \subseteq kv
  PROVE  /\ Resolved(v, kv) = Ports(v)
         /\ \A b : BondNics(v, kv, b) = MembersOf(v, b)
         /\ UsedBonds(v, kv) = BondsOf(v)
         /\ IpfixBridges(v, kv) = Exporters(v)
<1>1. \A p \in Nics : p \in Visible \cup kv
  BY DEF Visible
<1>2. Resolved(v, kv) = Ports(v) /\ \A b : BondNics(v, kv, b) = MembersOf(v, b)
  BY <1>1 DEF Resolved, BondNics, Ports, MembersOf
<1>3. UsedBonds(v, kv) = BondsOf(v)
  BY <1>2 DEF UsedBonds, BondsOf
<1> QED BY <1>2, <1>3 DEF IpfixBridges, Exporters

LEMMA WantedCommands ==
  ASSUME NEW v \in Config
  PROVE  /\ Wanted(v) \subseteq Command
         /\ \A c \in Wanted(v) : c.cmd # "ipfix"
         /\ ~v.dpdk => \A c \in Wanted(v) :
               \/ \E br \in Bridges : c = AddBridge(br)
               \/ \E br \in Bridges, p \in Nics : c = AddPort(br, p)
         /\ ~v.dpdk => \A br \in Exporters(v) : AddBridge(br) \in Wanted(v)
         /\ Exporters(v) \subseteq Bridges
<1>0. /\ v.mappings \subseteq Bridges /\ v.dpdk \in BOOLEAN
      /\ \A p \in Nics \cup Bonds : v.dataPort[p] # None => v.dataPort[p] \in Bridges
      /\ v.ext # None => v.ext \in Nics
  BY Constructors DEF Config
<1>1. \A c \in Wanted(v) :
         \/ \E br \in Bridges : c = AddBridge(br)
         \/ \E br \in Bridges, p \in Nics : c = AddPort(br, p)
         \/ v.dpdk /\ \E br \in Bridges, p \in Nics : c = NewPort(br, p)
         \/ v.dpdk /\ \E br \in Bridges, b \in Bonds, S \in SUBSET Nics : c = AddBond(br, b, S)
  <2> TAKE c \in Wanted(v)
  <2>1. CASE c \in {AddBridge(INT_BRIDGE), AddBridge(EXT_BRIDGE)}
    BY <2>1, Constructors
  <2>2. CASE v.ext # None /\ c = AddPort(EXT_BRIDGE, v.ext)
    BY <1>0, <2>2, Constructors
  <2>3. CASE v.dpdk /\ \E p \in Ports(v) \cup BondsOf(v) : c = AddBridge(v.dataPort[p])
    BY <1>0, <2>3 DEF Ports, BondsOf
  <2>4. CASE v.dpdk /\ \E p \in Ports(v) : c = NewPort(v.dataPort[p], p)
    BY <1>0, <2>4 DEF Ports
  <2>5. CASE v.dpdk /\ \E b \in BondsOf(v) : c = AddBond(v.dataPort[b], b, MembersOf(v, b))
    <3>1. \A b : MembersOf(v, b) \in SUBSET Nics
      BY DEF MembersOf
    <3> QED BY <1>0, <2>5, <3>1 DEF BondsOf
  <2>6. CASE ~v.dpdk /\ \E br \in v.mappings : c = AddBridge(br)
    BY <1>0, <2>6
  <2>7. CASE ~v.dpdk /\ \E p \in {q \in Nics : v.dataPort[q] \in v.mappings} :
                           c = AddPort(v.dataPort[p], p)
    BY <1>0, <2>7
  <2> QED BY <1>0, <2>1, <2>2, <2>3, <2>4, <2>5, <2>6, <2>7 DEF Wanted
<1>2. Wanted(v) \subseteq Command
  BY <1>1, Constructors
<1>3. \A c \in Wanted(v) : c.cmd # "ipfix"
  BY <1>1 DEF AddBridge, AddPort, NewPort, AddBond
<1>4. ASSUME ~v.dpdk, NEW br \in Exporters(v) PROVE AddBridge(br) \in Wanted(v)
  BY <1>4 DEF Exporters, Wanted
<1>5. Exporters(v) \subseteq Bridges
  BY <1>0, Constructors DEF Exporters, Ports
<1> QED BY <1>1, <1>2, <1>3, <1>4, <1>5

\* What configure_ovs runs is what the settings ask for.
LEMMA ScriptOfRun ==
  ASSUME NEW v \in Config, NEW kv, bound \subseteq kv
  PROVE  LET all == configure_ovs(v, kv)
         IN  /\ all \in Seq(Command)
             /\ \A c \in Wanted(v) : Occurs(c, all)
             /\ \A c : Occurs(c, all) =>
                   \/ c \in Wanted(v)
                   \/ \E br \in Exporters(v) : c = Ipfix(br, None) \/ c = Ipfix(br, v.target)
             /\ \A br \in Exporters(v) : LastOf(IpfixOf(br), Ipfix(br, v.target), all)
<1> DEFINE all == configure_ovs(v, kv)
           D == DpdkPorts(v, kv) \o DpdkBonds(v, kv)
           K == KernelPorts(v)
           I == IpfixTargets(v, kv)
<1>0. v.dpdk \in BOOLEAN
  BY DEF Config
<1>1. /\ Resolved(v, kv) = Ports(v)
      /\ \A b : BondNics(v, kv, b) = MembersOf(v, b)
      /\ UsedBonds(v, kv) = BondsOf(v)
      /\ IpfixBridges(v, kv) = Exporters(v)
  BY Resolving
<1>2. /\ all \in Seq(Command)
      /\ \A br \in Exporters(v) : LastOf(IpfixOf(br), Ipfix(br, v.target), all)
      /\ \A c : Occurs(c, all) <=>
            \/ c = AddBridge(INT_BRIDGE) \/ c = AddBridge(EXT_BRIDGE)
            \/ v.ext # None /\ c = AddPort(EXT_BRIDGE, v.ext)
            \/ (v.dpdk /\ Occurs(c, D)) \/ (~v.dpdk /\ Occurs(c, K))
            \/ Occurs(c, I)
  BY <1>1, RunCommands
<1>3. \A c : Occurs(c, D) <=>
        \/ \E p \in Ports(v) : c = AddBridge(v.dataPort[p]) \/ c = NewPort(v.dataPort[p], p)
        \/ \E b \in BondsOf(v) : \/ c = AddBridge(v.dataPort[b])
                               \/ c = AddBond(v.dataPort[b], b, MembersOf(v, b))
  BY <1>1, DpdkCommands
<1>4. \A c : Occurs(c, K) <=>
        \/ \E br \in v.mappings : c = AddBridge(br)
        \/ \E p \in {q \in Nics : v.dataPort[q] \in v.mappings} : c = AddPort(v.dataPort[p], p)
  BY KernelCommands DEF On, DataBridge
<1>5. \A c : Occurs(c, I) =>
        \E br \in Exporters(v) : c = Ipfix(br, None) \/ c = Ipfix(br, v.target)
  BY <1>1, IpfixCommands
<1> HIDE DEF all, D, K, I
<1>6. \A c : c \in Wanted(v) <=>
            \/ c = AddBridge(INT_BRIDGE) \/ c = AddBridge(EXT_BRIDGE)
            \/ v.ext # None /\ c = AddPort(EXT_BRIDGE, v.ext)
            \/ (v.dpdk /\ Occurs(c, D)) \/ (~v.dpdk /\ Occurs(c, K))
  BY <1>0, <1>3, <1>4 DEF Wanted
<1>7. /\ \A c \in Wanted(v) : Occurs(c, all)
      /\ \A c : Occurs(c, all) => c \in Wanted(v) \/ Occurs(c, I)
  BY <1>2, <1>6
<1> QED BY <1>2, <1>5, <1>7 DEF all

-----------------------------------------------------------------------------
LEMMA InitInv == Init => BridgesInv
<1> SUFFICES ASSUME Init PROVE BridgesInv
  OBVIOUS
<1>1. NoConf \in Config
  BY DEF NoConf, Config
<1>2. conf \in Config
  <2>1. PICK d \in BOOLEAN : conf = [NoConf EXCEPT !.dpdk = d]
    BY DEF Init
  <2> QED BY <1>1, <2>1 DEF Config
<1>3. TypeOK
  BY <1>1, <1>2 DEF Init, TypeOK, Database
<1> QED BY <1>3 DEF Init, BridgesInv, OnBridges, Current, Applied, Settled

\* The config changes: config-changed is due.
LEMMA ChangeInv ==
  ASSUME BridgesInv, ChangeConfig
  PROVE  BridgesInv'
<1>1. conf \in Config
  BY DEF BridgesInv, TypeOK
<1>2. PICK c : Change(c) /\ c \in Config
  <2>1. CASE \E S \in SUBSET Data : Change([conf EXCEPT !.mappings = S])
    <3>1. \A S \in SUBSET Data : [conf EXCEPT !.mappings = S] \in Config
      BY <1>1 DEF Config
    <3> QED BY <2>1, <3>1
  <2>2. CASE \E p \in Nics \cup IF conf.dpdk THEN Bonds ELSE {} : \E br \in Data \cup {None} :
                Change([conf EXCEPT !.dataPort[p] = br])
    <3>1. \A p \in Nics \cup Bonds, br \in Data \cup {None} :
             [conf EXCEPT !.dataPort[p] = br] \in Config
      BY <1>1 DEF Config
    <3> QED BY <2>2, <3>1
  <2>3. CASE conf.dpdk /\ \E b \in Bonds : \E S \in SUBSET Nics :
                Change([conf EXCEPT !.bondOf = [p \in Nics |-> IF p \in S THEN b ELSE None]])
    <3>1. \A b \in Bonds, S \in SUBSET Nics :
             [conf EXCEPT !.bondOf = [p \in Nics |-> IF p \in S THEN b ELSE None]] \in Config
      BY <1>1 DEF Config
    <3> QED BY <2>3, <3>1
  <2>4. CASE ~conf.dpdk /\ \E p \in Nics \cup {None} : Change([conf EXCEPT !.ext = p])
    <3>1. \A p \in Nics \cup {None} : [conf EXCEPT !.ext = p] \in Config
      BY <1>1 DEF Config
    <3> QED BY <2>4, <3>1
  <2>5. CASE \E t \in Targets \cup {None} : Change([conf EXCEPT !.target = t])
    <3>1. \A t \in Targets \cup {None} : [conf EXCEPT !.target = t] \in Config
      BY <1>1 DEF Config
    <3> QED BY <2>5, <3>1
  <2> QED BY <2>1, <2>2, <2>3, <2>4, <2>5 DEF ChangeConfig
<1>3. /\ conf' \in Config /\ due' = TRUE
      /\ UNCHANGED <<hook, view, script, ovsdb, known, listed, bound>>
  BY <1>2 DEF Change
<1>4. TypeOK'
  BY <1>3 DEF BridgesInv, TypeOK
<1>5. OnBridges' /\ Current'
  BY <1>3 DEF BridgesInv, OnBridges, Current
<1>6. Applied'
  BY <1>3 DEF BridgesInv, Applied, Settled, Made, Exporting, Done
<1> QED BY <1>4, <1>5, <1>6 DEF BridgesInv

\* The hook starts: everything the config asks for is in its script.
LEMMA BeginInv ==
  ASSUME BridgesInv, Begin
  PROVE  BridgesInv'
<1>1. /\ hook' = "running" /\ due' = FALSE /\ view' = conf
      /\ script' = configure_ovs(conf, known')
      /\ UNCHANGED <<conf, ovsdb, bound>>
      /\ known \subseteq known' /\ known' \subseteq Nics
      /\ listed' \subseteq known'
  <2>1. Named(conf) \subseteq Nics /\ known \subseteq Nics /\ listed \subseteq known
    BY DEF Named, BridgesInv, TypeOK
  <2>2. known \subseteq known' /\ known' \subseteq Nics /\ listed' \subseteq known'
    BY <2>1 DEF Begin, Visible
  <2> QED BY <2>2 DEF Begin
<1>2. conf \in Config /\ bound \subseteq known'
  BY <1>1 DEF BridgesInv, TypeOK
<1>3. /\ script' \in Seq(Command)
      /\ \A c \in Wanted(conf) : Occurs(c, script')
      /\ \A br \in Exporters(conf) : LastOf(IpfixOf(br), Ipfix(br, conf.target), script')
  BY <1>1, <1>2, ScriptOfRun
<1>4. TypeOK'
  BY <1>1, <1>2, <1>3 DEF BridgesInv, TypeOK
<1>5. OnBridges' /\ Current'
  BY <1>1 DEF BridgesInv, OnBridges, Current
<1>6. Made(view)' /\ Exporting(view)'
  BY <1>1, <1>3 DEF Made, Exporting
<1>7. Applied'
  BY <1>1, <1>6 DEF Applied, Settled
<1> QED BY <1>4, <1>5, <1>7 DEF BridgesInv

\* The hook dies, or a command of it fails.
LEMMA EndInError ==
  ASSUME BridgesInv, hook' = "failed", view' = NoConf, script' = <<>>,
         UNCHANGED <<conf, due, ovsdb, known, listed, bound>>
  PROVE  BridgesInv'
<1>1. NoConf \in Config
  BY DEF NoConf, Config
<1>2. TypeOK'
  BY <1>1 DEF BridgesInv, TypeOK
<1> QED BY <1>2 DEF BridgesInv, OnBridges, Current, Applied, Settled

\* A command that succeeds.
LEMMA CommandInv ==
  ASSUME BridgesInv, RunCommand
  PROVE  BridgesInv'
<1>1. CASE ~Succeeds(Head(script), ovsdb)
  BY <1>1, EndInError DEF RunCommand
<1>2. CASE Succeeds(Head(script), ovsdb)
  <2> DEFINE c == Head(script)
             rest == Tail(script)
  <2>1. /\ hook = "running" /\ script # <<>> /\ script \in Seq(Command)
        /\ ovsdb' = Effect(Head(script), ovsdb) /\ script' = Tail(script)
        /\ UNCHANGED <<conf, due, hook, view, known, listed, bound>>
    BY <1>2 DEF RunCommand, BridgesInv, TypeOK
  <2>2. c \in Command /\ rest \in Seq(Command)
    BY <2>1, AfterHead
  <2>3. ovsdb' = Effect(c, ovsdb) /\ script' = rest /\ Succeeds(c, ovsdb)
    BY <1>2, <2>1
  <2>4. /\ \A x : Occurs(x, script) => x = c \/ Occurs(x, rest)
        /\ \A B : Without(B, script) => c \notin B /\ Without(B, rest)
        /\ \A B, x : LastOf(B, x, script) =>
              LastOf(B, x, rest) \/ (x = c /\ Without(B, rest))
    BY <2>1, AfterHead
  <2> HIDE DEF c, rest
  <2>5. /\ ovsdb \in Database /\ OnBridges /\ view \in Config
        /\ Made(view) /\ Exporting(view)
    BY <2>1 DEF BridgesInv, TypeOK, Applied
  <2>6. /\ ovsdb' \in Database /\ OnBridges'
        /\ ovsdb.bridges \subseteq ovsdb.bridges' /\ ovsdb.ports \subseteq ovsdb.ports'
        /\ c.cmd = "add-br" => c.br \in ovsdb.bridges'
        /\ c.cmd \notin {"add-br", "ipfix"} => <<c.port, c.br, c.nics>> \in ovsdb.ports'
        /\ c.cmd # "ipfix" => ovsdb'.ipfix = ovsdb.ipfix
        /\ c.cmd = "ipfix" => ovsdb'.ipfix = [ovsdb.ipfix EXCEPT ![c.br] = c.target]
    <3>1. CASE c.cmd = "add-br"
      <4>1. ovsdb' = [ovsdb EXCEPT !.bridges = @ \cup {c.br}] /\ c.br \in Bridges
        BY <2>2, <2>3, <3>1 DEF Effect, Command
      <4> QED BY <2>5, <3>1, <4>1 DEF Database, OnBridges
    <3>2. CASE c.cmd = "ipfix"
      <4>1. /\ ovsdb' = [ovsdb EXCEPT !.ipfix[c.br] = c.target]
            /\ c.br \in Bridges /\ c.target \in Targets \cup {None}
        BY <2>2, <2>3, <3>2 DEF Effect, Command
      <4> QED BY <2>5, <3>2, <4>1 DEF Database, OnBridges
    <3>3. CASE c.cmd \in {"add-port", "new-port", "add-bond"}
      <4>1. /\ ovsdb' = [ovsdb EXCEPT !.ports = @ \cup {<<c.port, c.br, c.nics>>}]
            /\ c.br \in Bridges /\ c.port \in Nics \cup Bonds /\ c.nics \in SUBSET Nics
        BY <2>2, <2>3, <3>3 DEF Effect, Command
      <4>2. c.br \in ovsdb.bridges
        BY <2>3, <3>3 DEF Succeeds
      <4> QED BY <2>5, <3>3, <4>1, <4>2 DEF Database, OnBridges
    <3> QED BY <2>2, <3>1, <3>2, <3>3 DEF Command
  <2>7. Made(view)'
    <3> SUFFICES ASSUME NEW x \in Wanted(view) PROVE Occurs(x, script') \/ Done(x)'
      BY <2>1 DEF Made
    <3>1. x \in Command /\ x.cmd # "ipfix"
      BY <2>5, WantedCommands
    <3>2. CASE Occurs(x, script)
      BY <2>3, <2>4, <2>6, <3>1, <3>2 DEF Done, Command
    <3>3. CASE Done(x)
      BY <2>6, <3>3 DEF Done
    <3> QED BY <2>5, <3>2, <3>3 DEF Made
  <2>8. Exporting(view)'
    <3> SUFFICES ASSUME NEW br \in Exporters(view)
                 PROVE  \/ LastOf(IpfixOf(br), Ipfix(br, view.target), script')
                        \/ /\ Without(IpfixOf(br), script')
                           /\ ovsdb'.ipfix[br] = view.target
      BY <2>1 DEF Exporting
    <3>1. br \in Bridges
      BY <2>5, WantedCommands
    <3>2. CASE LastOf(IpfixOf(br), Ipfix(br, view.target), script)
      <4>1. ASSUME c = Ipfix(br, view.target) PROVE ovsdb'.ipfix[br] = view.target
        <5>1. c.cmd = "ipfix" /\ c.br = br /\ c.target = view.target
          BY <4>1 DEF Ipfix
        <5> QED BY <2>5, <2>6, <3>1, <5>1 DEF Database
      <4> QED BY <2>3, <2>4, <3>2, <4>1
    <3>3. CASE Without(IpfixOf(br), script) /\ ovsdb.ipfix[br] = view.target
      <4>1. c \notin IpfixOf(br) /\ Without(IpfixOf(br), rest)
        BY <2>4, <3>3
      <4>2. c.cmd = "ipfix" => c.br # br
        BY <2>2, <4>1 DEF IpfixOf
      <4>3. ovsdb'.ipfix[br] = view.target
        BY <2>5, <2>6, <3>1, <3>3, <4>2 DEF Database
      <4> QED BY <2>3, <4>1, <4>3
    <3> QED BY <2>5, <3>2, <3>3 DEF Exporting
  <2>9. TypeOK' /\ Current'
    BY <2>1, <2>2, <2>3, <2>6 DEF BridgesInv, TypeOK, Current
  <2>10. Applied'
    BY <2>1, <2>7, <2>8 DEF Applied, Settled
  <2> QED BY <2>6, <2>9, <2>10 DEF BridgesInv
<1> QED BY <1>1, <1>2

\* The hook is through, or the host reboots: the database is as it was.
LEMMA BindInv ==
  ASSUME BridgesInv, Finish \/ Reboot
  PROVE  BridgesInv'
<1>1. NoConf \in Config
  BY DEF NoConf, Config
<1>2. /\ UNCHANGED <<conf, due, script, ovsdb, known, listed>>
      /\ bound' \subseteq bound \cup listed
      /\ \/ hook = "running" /\ hook' = "none" /\ view' = NoConf /\ script = <<>>
         \/ hook # "running" /\ hook' = hook /\ view' = view
  BY DEF Finish, Reboot
<1>3. TypeOK'
  BY <1>1, <1>2 DEF BridgesInv, TypeOK
<1>4. OnBridges' /\ Current'
  BY <1>2 DEF BridgesInv, OnBridges, Current
<1>5. Settled' => Made(conf) /\ Exporting(conf)
  BY <1>2 DEF BridgesInv, Applied, Current, Settled
<1>6. Applied'
  BY <1>2, <1>5 DEF Applied, Made, Exporting, Done
<1> QED BY <1>3, <1>4, <1>6 DEF BridgesInv

LEMMA Invariance == Spec => []BridgesInv
<1>1. BridgesInv /\ [Next]_vars => BridgesInv'
  <2> SUFFICES ASSUME BridgesInv, [Next]_vars PROVE BridgesInv'
    OBVIOUS
  <2>1. CASE ChangeConfig
    BY <2>1, ChangeInv
  <2>2. CASE Begin
    BY <2>2, BeginInv
  <2>3. CASE RunCommand
    BY <2>3, CommandInv
  <2>4. CASE Finish \/ Reboot
    BY <2>4, BindInv
  <2>5. CASE Kill
    BY <2>5, EndInError DEF Kill
  <2>6. CASE UNCHANGED vars
    BY <2>6 DEF vars, BridgesInv, TypeOK, OnBridges, Current, Applied, Settled, Made, Exporting,
                Done
  <2> QED BY <2>1, <2>2, <2>3, <2>4, <2>5, <2>6 DEF Next
<1> QED BY <1>1, InitInv, PTL DEF Spec

\* When config-changed is through, what the config asks for is done.
LEMMA DoneWhenSettled ==
  ASSUME BridgesInv, Settled
  PROVE  /\ conf \in Config
         /\ \A c \in Wanted(conf) : Done(c)
         /\ \A br \in Exporters(conf) : ovsdb.ipfix[br] = conf.target
<1>1. conf \in Config /\ script = <<>> /\ Made(conf) /\ Exporting(conf)
  BY DEF BridgesInv, TypeOK, Current, Applied, Settled
<1>2. /\ \A c : ~Occurs(c, script)
      /\ \A B, c : ~LastOf(B, c, script)
  BY <1>1 DEF Occurs, LastOf
<1> QED BY <1>1, <1>2 DEF Made, Exporting

\* Every device the config names is on its bridge or in its bond once config-changed
\* has run through, whatever hook died and whatever DPDK took from the kernel before.
\* (configure_ovs)
THEOREM DevicesAttached == Spec => []Attached
<1>1. BridgesInv => Attached
  <2> SUFFICES ASSUME BridgesInv, Settled PROVE AllAttached
    BY DEF Attached
  <2>1. conf \in Config /\ conf.dpdk \in BOOLEAN /\ \A c \in Wanted(conf) : Done(c)
    BY DoneWhenSettled DEF Config
  <2>2. ASSUME NEW p \in Nics,
               conf.dataPort[p] \in (IF conf.dpdk THEN Data ELSE conf.mappings)
        PROVE  <<p, conf.dataPort[p], {p}>> \in ovsdb.ports
    <3>1. CASE conf.dpdk
      <4>1. conf.dataPort[p] # None
        BY <2>2, <3>1, BridgesAssumption
      <4>2. NewPort(conf.dataPort[p], p) \in Wanted(conf)
        BY <3>1, <4>1 DEF Wanted, Ports
      <4> QED BY <2>1, <4>2 DEF Done, NewPort
    <3>2. CASE ~conf.dpdk
      <4>1. AddPort(conf.dataPort[p], p) \in Wanted(conf)
        BY <2>2, <3>2 DEF Wanted
      <4> QED BY <2>1, <4>1 DEF Done, AddPort
    <3> QED BY <2>1, <3>1, <3>2
  <2>3. ASSUME NEW b \in Bonds, conf.dpdk, conf.dataPort[b] # None, Members(b) # {}
        PROVE  <<b, conf.dataPort[b], Members(b)>> \in ovsdb.ports
    <3>1. Members(b) = MembersOf(conf, b) /\ b \in BondsOf(conf)
      BY <2>3 DEF Members, MembersOf, BondsOf
    <3>2. AddBond(conf.dataPort[b], b, Members(b)) \in Wanted(conf)
      BY <2>3, <3>1 DEF Wanted
    <3> QED BY <2>1, <3>2 DEF Done, AddBond
  <2>4. ASSUME conf.ext # None
        PROVE  <<conf.ext, EXT_BRIDGE, {conf.ext}>> \in ovsdb.ports
    <3>1. AddPort(EXT_BRIDGE, conf.ext) \in Wanted(conf)
      BY <2>4 DEF Wanted
    <3> QED BY <2>1, <3>1 DEF Done, AddPort
  <2> QED BY <2>2, <2>3, <2>4 DEF AllAttached
<1> QED BY <1>1, Invariance, PTL

\* And the bridges export to the collector of the config, although a run can die
\* between disable_ipfix and enable_ipfix.
THEOREM BridgesExport == Spec => []Exported
<1>1. BridgesInv => Exported
  <2> SUFFICES ASSUME BridgesInv, Settled PROVE Exported
    BY DEF Exported
  <2>1. conf.dpdk \in BOOLEAN /\ \A br \in Exporters(conf) : ovsdb.ipfix[br] = conf.target
    BY DoneWhenSettled DEF Config
  <2>2. {conf.dataPort[p] : p \in Nics} \ {None} = {conf.dataPort[p] : p \in Ports(conf)}
    BY DEF Ports
  <2> QED BY <2>1, <2>2 DEF Exported, Exporters
<1> QED BY <1>1, Invariance, PTL

\* The PCI address of a device is stored before the device can be bound. (the NOTE in
\* resolve_dpdk_bridges)
THEOREM AddressesRemembered == Spec => []Remembered
<1>1. BridgesInv => Remembered
  BY DEF BridgesInv, TypeOK, Remembered
<1> QED BY <1>1, Invariance, PTL

-----------------------------------------------------------------------------
\* A command makes a database out of a database.
LEMMA Effects ==
  ASSUME NEW c \in Command, NEW db \in Database
  PROVE  /\ Effect(c, db) \in Database
         /\ Succeeds(c, db) \in BOOLEAN
<1>1. Effect(c, db) \in Database
  <2>1. CASE c.cmd = "add-br"
    BY <2>1 DEF Effect, Command, Database
  <2>2. CASE c.cmd = "ipfix"
    <3>1. c.br \in Bridges /\ c.target \in Targets \cup {None}
      BY <2>2 DEF Command
    <3> QED BY <2>2, <3>1 DEF Effect, Database
  <2>3. CASE c.cmd \in {"add-port", "new-port", "add-bond"}
    <3>1. c.br \in Bridges /\ c.port \in Nics \cup Bonds /\ c.nics \in SUBSET Nics
      BY <2>3 DEF Command
    <3> QED BY <2>3, <3>1 DEF Effect, Database
  <2> QED BY <2>1, <2>2, <2>3 DEF Command
<1>2. Succeeds(c, db) \in BOOLEAN
  <2> DEFINE same == <<c.port, c.br, c.nics>> \in db.ports
             taken == \E p \in db.ports : p[1] = c.port \/ p[3] \cap c.nics # {}
             onto == c.br \in db.bridges
             large == Cardinality(c.nics) > 1
  <2>1. same \in BOOLEAN
    OBVIOUS
  <2>2. taken \in BOOLEAN
    OBVIOUS
  <2>3. onto \in BOOLEAN /\ large \in BOOLEAN
    OBVIOUS
  <2> QED BY <2>1, <2>2, <2>3 DEF Succeeds
<1> QED BY <1>1, <1>2

\* What becomes of a database, command by command.
Outcome == [ok : BOOLEAN, db : Database]
After(r, c) == [ok |-> r.ok /\ Succeeds(c, r.db), db |-> Effect(c, r.db)]
LEMMA RerunSteps ==
  ASSUME NEW s \in Seq(Command), NEW db \in Database
  PROVE  \E f \in [0..Len(s) -> Outcome] :
            /\ Rerun(s, db) = f[Len(s)]
            /\ f[0] = [ok |-> TRUE, db |-> db]
            /\ \A i \in 1..Len(s) : f[i] = After(f[i - 1], s[i])
<1> DEFINE n == Len(s)
           start == [ok |-> TRUE, db |-> db]
           next == [q \in Outcome \X (1..n) |-> After(q[1], s[q[2]])]
           body(f) == [i \in 0..n |-> IF i = 0 THEN [ok |-> TRUE, db |-> db]
                          ELSE [ok |-> f[i - 1].ok /\ Succeeds(s[i], f[i - 1].db),
                                db |-> Effect(s[i], f[i - 1].db)]]
           run == CHOOSE f : f = body(f)
<1>1. n \in Nat /\ \A i \in 1..n : s[i] \in Command
  BY LenProperties, ElementOfSeq
<1>2. start \in Outcome
  BY DEF Outcome
<1>3. \A r \in Outcome, c \in Command : After(r, c) \in Outcome
  <2> TAKE r \in Outcome, c \in Command
  <2>1. r.ok \in BOOLEAN /\ r.db \in Database
    BY DEF Outcome
  <2>2. Effect(c, r.db) \in Database /\ Succeeds(c, r.db) \in BOOLEAN
    BY <2>1, Effects
  <2> QED BY <2>1, <2>2 DEF After, Outcome
<1>4. next \in [Outcome \X (1..n) -> Outcome]
  BY <1>1, <1>3
<1>5. \A r \in Outcome, i \in 1..n : next[<<r, i>>] = After(r, s[i])
  OBVIOUS
<1> HIDE DEF next, start
<1>6. Steps(n, Outcome, start, next) # {}
  BY <1>1, <1>2, <1>4, Recursion
<1>7. PICK g \in [0..n -> Outcome] :
          g[0] = start /\ \A i \in 1..n : g[i] = next[<<g[i - 1], i>>]
  BY <1>6 DEF Steps
<1>8. \A i \in 1..n : i - 1 \in 0..n /\ g[i - 1] \in Outcome /\ g[i] = After(g[i - 1], s[i])
  <2> TAKE i \in 1..n
  <2>1. i - 1 \in 0..n
    BY <1>1
  <2>2. g[i - 1] \in Outcome
    BY <1>7, <2>1
  <2> QED BY <1>5, <1>7, <2>1, <2>2
<1>9. g = body(g)
  <2>1. \A i \in 0..n : i = 0 \/ i \in 1..n
    BY <1>1
  <2> QED BY <1>7, <1>8, <2>1 DEF start, After
<1>10. run = body(run)
  <2> HIDE DEF body
  <2> QED BY <1>9
<1>11. Rerun(s, db) = run[n]
  BY DEF Rerun
<1> HIDE DEF run
<1>12. /\ DOMAIN run = 0..n /\ run[0] = start
       /\ \A i \in 1..n : run[i] = After(run[i - 1], s[i])
  <2>1. DOMAIN run = 0..n
    BY <1>10
  <2>2. \A i \in 0..n : run[i] = IF i = 0 THEN [ok |-> TRUE, db |-> db]
                          ELSE [ok |-> run[i - 1].ok /\ Succeeds(s[i], run[i - 1].db),
                                db |-> Effect(s[i], run[i - 1].db)]
    BY <1>10
  <2>3. 0 \in 0..n /\ \A i \in 1..n : i \in 0..n /\ i # 0
    BY <1>1
  <2> HIDE DEF n
  <2> QED BY <2>1, <2>2, <2>3 DEF After, start
<1>13. run \in [0..n -> Outcome]
  <2> DEFINE P == {i \in 0..n : run[i] \in Outcome}
  <2>1. 0 \in P
    BY <1>1, <1>2, <1>12
  <2>2. \A i \in 1..n : i - 1 \in P => i \in P
    BY <1>1, <1>3, <1>12
  <2> HIDE DEF P
  <2>3. \A i \in 0..n : i \in P
    BY <1>1, <2>1, <2>2, Induction
  <2>4. \A i \in 0..n : run[i] \in Outcome
    BY <2>3 DEF P
  <2>5. run = [i \in 0..n |-> run[i]]
    BY <1>10, <1>12
  <2> QED BY <2>4, <2>5
<1> QED BY <1>11, <1>12, <1>13 DEF start

\* Commands that are done already succeed and change nothing, if the last one about
\* the collector of a bridge sets the one it has.
LEMMA NothingToDo ==
  ASSUME NEW s \in Seq(Command), NEW db \in Database,
         \A i \in 1..Len(s) :
            /\ s[i].br \in db.bridges
            /\ \/ s[i].cmd = "add-br"
               \/ s[i].cmd = "add-port" /\ <<s[i].port, s[i].br, s[i].nics>> \in db.ports
               \/ /\ s[i].cmd = "ipfix"
                  /\ LastOf(IpfixOf(s[i].br), Ipfix(s[i].br, db.ipfix[s[i].br]), s)
  PROVE  Rerun(s, db) = [ok |-> TRUE, db |-> db]
<1> DEFINE n == Len(s)
<1>1. n \in Nat /\ \A i \in 1..n : s[i] \in Command
  BY LenProperties, ElementOfSeq
<1>2. PICK f \in [0..n -> Outcome] :
          /\ Rerun(s, db) = f[n]
          /\ f[0] = [ok |-> TRUE, db |-> db]
          /\ \A i \in 1..n : f[i] = After(f[i - 1], s[i])
  BY RerunSteps
<1> DEFINE Later(i, br) == \E j \in 1..n : i < j /\ s[j] \in IpfixOf(br)
           Same(i) == /\ f[i].ok
                      /\ f[i].db.bridges = db.bridges /\ f[i].db.ports = db.ports
                      /\ \A br \in Bridges :
                            f[i].db.ipfix[br] = db.ipfix[br] \/ Later(i, br)
           P == {i \in 0..n : Same(i)}
<1>3. 0 \in P
  BY <1>1, <1>2
<1>4. ASSUME NEW i \in 1..n, i - 1 \in P PROVE i \in P
  <2> DEFINE c == s[i]
             d == f[i - 1].db
             e == f[i].db
  <2>1. /\ i - 1 \in 0..n /\ i \in 0..n /\ c \in Command /\ f[i - 1].ok = TRUE
        /\ d \in Database /\ d.bridges = db.bridges /\ d.ports = db.ports
        /\ \A br \in Bridges : d.ipfix[br] = db.ipfix[br] \/ Later(i - 1, br)
        /\ f[i].ok = (f[i - 1].ok /\ Succeeds(c, d)) /\ e = Effect(c, d)
    <3>1. i - 1 \in 0..n /\ i \in 0..n /\ c \in Command /\ f[i] = After(f[i - 1], c)
      BY <1>1, <1>2
    <3>2. f[i - 1] \in Outcome
      BY <1>2, <3>1
    <3> HIDE DEF Later
    <3>3. f[i - 1].ok \in BOOLEAN /\ d \in Database
      BY <3>2 DEF Outcome
    <3> QED BY <1>4, <3>1, <3>3 DEF After
  <2>2. /\ c.br \in db.bridges
        /\ \/ c.cmd = "add-br"
           \/ c.cmd = "add-port" /\ <<c.port, c.br, c.nics>> \in db.ports
           \/ c.cmd = "ipfix" /\ LastOf(IpfixOf(c.br), Ipfix(c.br, db.ipfix[c.br]), s)
    OBVIOUS
  <2>3. \A br \in Bridges : Later(i - 1, br) => Later(i, br) \/ c \in IpfixOf(br)
    BY <1>1
  <2> HIDE DEF c, d, e, Later
  <2>4. CASE c.cmd = "add-br"
    <3>1. Succeeds(c, d)
      BY <2>4 DEF Succeeds
    <3>2. e.bridges = db.bridges /\ e.ports = db.ports /\ e.ipfix = d.ipfix
      <4>1. e = [d EXCEPT !.bridges = @ \cup {c.br}]
        BY <2>1, <2>4 DEF Effect
      <4> QED BY <2>1, <2>2, <4>1 DEF Database
    <3>3. \A br \in Bridges : c \notin IpfixOf(br)
      BY <2>4 DEF IpfixOf
    <3> QED BY <2>1, <2>3, <3>1, <3>2, <3>3 DEF e
  <2>5. CASE c.cmd = "add-port"
    <3>1. Succeeds(c, d)
      BY <2>1, <2>2, <2>5 DEF Succeeds
    <3>2. e.bridges = db.bridges /\ e.ports = db.ports /\ e.ipfix = d.ipfix
      <4>1. e = [d EXCEPT !.ports = @ \cup {<<c.port, c.br, c.nics>>}]
        BY <2>1, <2>5 DEF Effect
      <4>2. d.ports \cup {<<c.port, c.br, c.nics>>} = d.ports
        BY <2>1, <2>2, <2>5
      <4> DEFINE D == d.ports \cup {<<c.port, c.br, c.nics>>}
      <4> HIDE DEF D
      <4>3. e = [d EXCEPT !.ports = D] /\ D = d.ports
        BY <4>1, <4>2 DEF D
      <4> QED BY <2>1, <4>3 DEF Database
    <3>3. \A br \in Bridges : c \notin IpfixOf(br)
      BY <2>5 DEF IpfixOf
    <3> QED BY <2>1, <2>3, <3>1, <3>2, <3>3 DEF e
  <2>6. CASE c.cmd = "ipfix"
    <3>1. Succeeds(c, d)
      BY <2>1, <2>2, <2>6 DEF Succeeds
    <3>2. /\ e.bridges = db.bridges /\ e.ports = db.ports
          /\ e.ipfix = [d.ipfix EXCEPT ![c.br] = c.target]
      <4>1. e = [d EXCEPT !.ipfix = [d.ipfix EXCEPT ![c.br] = c.target]]
        BY <2>1, <2>6 DEF Effect
      <4>2. d = [bridges |-> d.bridges, ports |-> d.ports, ipfix |-> d.ipfix]
        BY <2>1 DEF Database
      <4> DEFINE h == [d.ipfix EXCEPT ![c.br] = c.target]
      <4> HIDE DEF h
      <4>3. e.bridges = d.bridges /\ e.ports = d.ports /\ e.ipfix = h
        BY <4>1, <4>2 DEF h
      <4> QED BY <2>1, <4>3 DEF h
    <3>3. ASSUME NEW br \in Bridges
          PROVE  e.ipfix[br] = db.ipfix[br] \/ Later(i, br)
      <4>1. CASE br # c.br
        <5>1. e.ipfix[br] = d.ipfix[br] /\ c \notin IpfixOf(br)
          BY <2>1, <3>2, <4>1 DEF IpfixOf, Database
        <5> QED BY <2>1, <2>3, <5>1
      <4>2. CASE br = c.br
        <5>1. PICK j \in 1..n : /\ s[j] = Ipfix(br, db.ipfix[br])
                                /\ \A k \in j+1..n : s[k] \notin IpfixOf(br)
          BY <2>2, <2>6, <4>2 DEF LastOf
        <5>2. c \in IpfixOf(br)
          BY <2>1, <2>6, <4>2 DEF IpfixOf
        <5>3. i <= j
          BY <1>1, <5>1, <5>2 DEF c
        <5>4. CASE i < j
          <6>1. s[j].cmd = "ipfix" /\ s[j].br = br /\ s[j] \in Command
            BY <1>1, <5>1 DEF Ipfix
          <6>2. s[j] \in IpfixOf(br)
            BY <6>1 DEF IpfixOf
          <6> QED BY <5>4, <6>2 DEF Later
        <5>5. CASE i = j
          <6>1. c.target = db.ipfix[br]
            BY <5>1, <5>5 DEF c, Ipfix
          <6> QED BY <2>1, <3>2, <4>2, <6>1 DEF Database
        <5> QED BY <1>1, <5>3, <5>4, <5>5
      <4> QED BY <4>1, <4>2
    <3> QED BY <2>1, <3>1, <3>2, <3>3 DEF e
  <2> QED BY <2>2, <2>4, <2>5, <2>6
<1> HIDE DEF Same, Later
<1>5. Same(n)
  <2> HIDE DEF P
  <2>1. \A i \in 0..n : i \in P
    BY <1>1, <1>3, <1>4, Induction
  <2> QED BY <1>1, <2>1 DEF P
<1>6. \A br \in Bridges : ~Later(n, br)
  BY <1>1 DEF Later
<1>7. f[n] \in Outcome
  BY <1>1, <1>2
<1>8. f[n].ok = TRUE /\ f[n].db = db
  <2>1. \A br \in Bridges : f[n].db.ipfix[br] = db.ipfix[br]
    BY <1>5, <1>6 DEF Same
  <2>2. f[n].db.ipfix = db.ipfix
    BY <1>7, <2>1 DEF Outcome, Database
  <2>3. f[n].ok \in BOOLEAN /\ f[n].db \in Database
    BY <1>7 DEF Outcome
  <2>4. f[n].db.bridges = db.bridges /\ f[n].db.ports = db.ports /\ f[n].ok
    BY <1>5 DEF Same
  <2> HIDE DEF n
  <2>5. f[n].db = db
    BY <2>2, <2>3, <2>4 DEF Database
  <2> QED BY <2>3, <2>4, <2>5
<1> QED BY <1>2, <1>7, <1>8 DEF Outcome

\* Without DPDK, the hook can run once more on its own result: every command has
\* --may-exist. (add_bridge, add_bridge_port)
THEOREM RunsAgain == Spec => []Repeatable
<1>1. BridgesInv => Repeatable
  <2> SUFFICES ASSUME BridgesInv, Settled, ~conf.dpdk
               PROVE  Rerun(configure_ovs(conf, known), ovsdb) = [ok |-> TRUE, db |-> ovsdb]
    BY DEF Repeatable
  <2> DEFINE all == configure_ovs(conf, known)
  <2>1. /\ conf \in Config /\ bound \subseteq known /\ ovsdb \in Database /\ OnBridges
        /\ \A c \in Wanted(conf) : Done(c)
        /\ \A br \in Exporters(conf) : ovsdb.ipfix[br] = conf.target
    BY DoneWhenSettled DEF BridgesInv, TypeOK
  <2>2. /\ all \in Seq(Command)
        /\ \A c : Occurs(c, all) =>
              \/ c \in Wanted(conf)
              \/ \E br \in Exporters(conf) : c = Ipfix(br, None) \/ c = Ipfix(br, conf.target)
        /\ \A br \in Exporters(conf) : LastOf(IpfixOf(br), Ipfix(br, conf.target), all)
    BY <2>1, ScriptOfRun
  <2>3. /\ \A c \in Wanted(conf) : \/ \E br \in Bridges : c = AddBridge(br)
                                   \/ \E br \in Bridges, p \in Nics : c = AddPort(br, p)
        /\ \A br \in Exporters(conf) : AddBridge(br) \in Wanted(conf)
    BY <2>1, WantedCommands
  <2> HIDE DEF all
  <2>4. ASSUME NEW i \in 1..Len(all)
        PROVE  /\ all[i].br \in ovsdb.bridges
               /\ \/ all[i].cmd = "add-br"
                  \/ /\ all[i].cmd = "add-port"
                     /\ <<all[i].port, all[i].br, all[i].nics>> \in ovsdb.ports
                  \/ /\ all[i].cmd = "ipfix"
                     /\ LastOf(IpfixOf(all[i].br), Ipfix(all[i].br, ovsdb.ipfix[all[i].br]), all)
    <3> DEFINE c == all[i]
    <3>1. Occurs(c, all)
      BY DEF Occurs
    <3> HIDE DEF c
    <3>2. CASE c \in Wanted(conf)
      <4>1. Done(c)
        BY <2>1, <3>2
      <4>2. CASE \E br \in Bridges : c = AddBridge(br)
        <5>1. c.cmd = "add-br"
          BY <4>2 DEF AddBridge
        <5> QED BY <4>1, <5>1 DEF Done, c
      <4>3. CASE \E br \in Bridges, p \in Nics : c = AddPort(br, p)
        <5>1. c.cmd = "add-port"
          BY <4>3 DEF AddPort
        <5>2. <<c.port, c.br, c.nics>> \in ovsdb.ports
          BY <4>1, <5>1 DEF Done
        <5>3. c.br \in ovsdb.bridges
          BY <2>1, <5>2 DEF OnBridges
        <5> QED BY <5>1, <5>2, <5>3 DEF c
      <4> QED BY <2>3, <3>2, <4>2, <4>3
    <3>3. CASE \E br \in Exporters(conf) : c = Ipfix(br, None) \/ c = Ipfix(br, conf.target)
      <4>1. PICK br \in Exporters(conf) : c = Ipfix(br, None) \/ c = Ipfix(br, conf.target)
        BY <3>3
      <4>2. c.cmd = "ipfix" /\ c.br = br
        BY <4>1 DEF Ipfix
      <4>3. Done(AddBridge(br))
        BY <2>1, <2>3
      <4>4. br \in ovsdb.bridges
        BY <4>3 DEF Done, AddBridge
      <4>5. LastOf(IpfixOf(br), Ipfix(br, ovsdb.ipfix[br]), all)
        BY <2>1, <2>2
      <4> QED BY <4>2, <4>4, <4>5 DEF c
    <3> QED BY <2>2, <3>1, <3>2, <3>3
  <2>5. Rerun(all, ovsdb) = [ok |-> TRUE, db |-> ovsdb]
    BY <2>1, <2>2, <2>4, NothingToDo
  <2> QED BY <2>5 DEF all
<1> QED BY <1>1, Invariance, PTL
=============================================================================
