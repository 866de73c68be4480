----------------------------- MODULE Devices_proofs -----------------------------
(***************************************************************************)
(* The network cards of MCRelations: what is configured on them, and the   *)
(* ports that stand for them in the bridges.  For any cards, bonds and     *)
(* lists of cores, and any number of entries.                              *)
(***************************************************************************)
EXTENDS MCRelations, ScriptLemmas

\* A step of the whole is one of the component whose part it is.
LEMMA DeviceParts ==
  ASSUME [AllNext]_all_vars
  PROVE  /\ part' = part
         /\ part = "cards" => [Nic!Next]_(Nic!nic_vars)
         /\ part = "ports" => [Ports!Next]_(Ports!ports_vars)
<1> USE DEF Only
<1>1. CASE UNCHANGED all_vars
  BY <1>1 DEF all_vars
<1>2. CASE TableStep
  BY <1>2 DEF TableStep
<1>3. CASE StatusStep \/ EndsStep \/ ProxyStep \/ HaStep \/ ApiStep \/ BrokerStep \/ AmqpStep \/
          CredsStep \/ NapiStep \/ PortsStep \/ NicStep
  BY <1>3 DEF StatusStep, EndsStep, ProxyStep, HaStep, ApiStep, BrokerStep, AmqpStep,
     CredsStep, NapiStep, PortsStep, NicStep
<1> QED
  BY <1>1, <1>2, <1>3 DEF AllNext

-----------------------------------------------------------------------------
\* NicSettings: the loops over the entries of dpdk-bond-config and over the ranges of a
\* NUMA node's cpulist.

BondModes == {"active-backup", "invalid", Nic!DefaultMode}
Bonded == UNION {[D -> BondModes] : D \in SUBSET (Bonds \cup {Nic!ALL_BONDS})}
WithEntry(c, e) ==
    [b \in DOMAIN c \cup {Nic!BondOf(e)} |-> IF b = Nic!BondOf(e) THEN Nic!ModeOf(e) ELSE c[b]]
NoEntries == [b \in {Nic!ALL_BONDS} |-> Nic!DefaultMode]
BondSteps(entries, n) ==
    {g \in [0..n -> Bonded] :
        g[0] = NoEntries /\ \A i \in 1..n : g[i] = WithEntry(g[i - 1], entries[i])}

LEMMA NicMax == \A S : Nic!Max(S) = Max(S)
  BY DEF Nic!Max, Max

LEMMA EntriesRead ==
  ASSUME NEW n, n \in Nat, NEW entries \in [1..n -> Nic!Entries]
  PROVE  Nic!lacp_config(entries) \in {g[n] : g \in BondSteps(entries, n)}
<1> DEFINE V == Bonded
           start == NoEntries
           op(c, i) == WithEntry(c, entries[i])
           body(f) == [s \in SUBSET DOMAIN entries |->
                         IF s = {} THEN start
                         ELSE op(f[s \ {Nic!Max(s)}], Nic!Max(s))]
           iter == CHOOSE f : f = body(f)
           next == [q \in V \X (1..n) |-> op(q[1], q[2])]
<1>1. Nic!lacp_config(entries) = iter[DOMAIN entries]
  BY DEF Nic!lacp_config, Nic!FoldLeft, Nic!MapThenFoldSet, WithEntry, NoEntries
<1>2. DOMAIN entries = 1..n
  OBVIOUS
<1>3. start \in V
  <2>1. NoEntries \in [{Nic!ALL_BONDS} -> BondModes]
    BY DEF NoEntries, BondModes
  <2> QED BY <2>1 DEF Bonded
<1>4. \A c \in V, i \in 1..n : op(c, i) \in V
  <2> SUFFICES ASSUME NEW D \in SUBSET (Bonds \cup {Nic!ALL_BONDS}), NEW c \in [D -> BondModes],
                      NEW e \in Nic!Entries
               PROVE  WithEntry(c, e) \in Bonded
    BY DEF Bonded
  <2>1. Nic!BondOf(e) \in Bonds \cup {Nic!ALL_BONDS} /\ Nic!ModeOf(e) \in BondModes
    BY DEF Nic!Entries, Nic!BondOf, Nic!ModeOf, BondModes
  <2>2. WithEntry(c, e) \in [D \cup {Nic!BondOf(e)} -> BondModes]
    BY <2>1 DEF WithEntry
  <2> QED BY <2>1, <2>2 DEF Bonded
<1> HIDE DEF op, start, V
<1>5. next \in [V \X (1..n) -> V]
  BY <1>4
<1>6. \A c \in V, i \in 1..n : next[<<c, i>>] = op(c, i)
  OBVIOUS
<1> HIDE DEF next
<1>7. \E f : f = body(f)
  <2>1. PICK f \in [SUBSET (1..n) -> V] :
           \A s \in SUBSET (1..n) :
              f[s] = IF s = {} THEN start ELSE next[<<f[s \ {Max(s)}], Max(s)>>]
    <3>1. Folding(n, V, start, next) # {}
      BY <1>3, <1>5, Foldable
    <3> QED BY <3>1 DEF Folding
  <2>2. \A s \in SUBSET (1..n) : s # {} =>
           f[s] = op(f[s \ {Nic!Max(s)}], Nic!Max(s))
    <3> SUFFICES ASSUME NEW s \in SUBSET (1..n), s # {}
                 PROVE  f[s] = op(f[s \ {Max(s)}], Max(s))
      BY NicMax
    <3>1. Max(s) \in s
      BY GreatestOf
    <3>2. f[s \ {Max(s)}] \in V /\ Max(s) \in 1..n
      BY <2>1, <3>1
    <3>3. f[s] = next[<<f[s \ {Max(s)}], Max(s)>>]
      BY <2>1
    <3> QED BY <1>6, <3>2, <3>3
  <2>3. f = body(f)
    <3>1. f[{}] = start
      BY <2>1
    <3> QED BY <1>2, <2>1, <2>2, <3>1
  <2> QED BY <2>3
<1>8. iter = body(iter)
  BY <1>7
<1> HIDE DEF iter
<1>9. iter[1..n] \in Final(n, V, start, next)
  <2>1. iter[{}] = start
    BY <1>8
  <2>2. ASSUME NEW s \in SUBSET (1..n), s # {}, iter[s \ {Max(s)}] \in V
        PROVE  iter[s] = next[<<iter[s \ {Max(s)}], Max(s)>>]
    <3>1. Max(s) \in s
      BY <2>2, GreatestOf
    <3>2. Max(s) \in 1..n
      BY <3>1
    <3>3. iter[s] = op(iter[s \ {Max(s)}], Max(s))
      BY <1>2, <1>8, <2>2, NicMax
    <3> QED BY <1>6, <2>2, <3>2, <3>3
  <2>3. Recurs(n, V, start, next, iter)
    BY <2>1, <2>2 DEF Recurs
  <2> QED BY <1>3, <1>5, <2>3, Stepwise
<1>10. PICK g \in [0..n -> V] :
          /\ g[n] = iter[1..n] /\ g[0] = start
          /\ \A k \in 1..n : g[k] = next[<<g[k - 1], k>>]
  BY <1>9 DEF Steps, Final
<1>11. \A k \in 1..n : g[k] = op(g[k - 1], k)
  <2> TAKE k \in 1..n
  <2>1. k - 1 \in 0..n
    OBVIOUS
  <2> QED BY <1>6, <1>10, <2>1
<1>12. g \in BondSteps(entries, n)
  BY <1>10, <1>11 DEF op, start, V, BondSteps
<1> QED BY <1>1, <1>2, <1>10, <1>12

CoresOf(r) == [i \in 1..(r[2] - r[1] + 1) |-> r[1] + i - 1]
CpuSteps(ranges, n) ==
    {g \in [0..n -> Seq(Nat)] :
        g[0] = <<>> /\ \A i \in 1..n : g[i] = g[i - 1] \o CoresOf(ranges[i])}

LEMMA RangesRead ==
  ASSUME NEW n, n \in Nat, NEW ranges \in [1..n -> Nat \X Nat],
         \A i \in 1..n : ranges[i][1] <= ranges[i][2]
  PROVE  Nic!parse_cpu_list(ranges) \in {g[n] : g \in CpuSteps(ranges, n)}
<1> DEFINE V == Seq(Nat)
           start == <<>>
           op(c, i) == c \o CoresOf(ranges[i])
           body(f) == [s \in SUBSET DOMAIN ranges |->
                         IF s = {} THEN start
                         ELSE op(f[s \ {Nic!Max(s)}], Nic!Max(s))]
           iter == CHOOSE f : f = body(f)
           next == [q \in V \X (1..n) |-> op(q[1], q[2])]
<1>1. Nic!parse_cpu_list(ranges) = iter[DOMAIN ranges]
  BY DEF Nic!parse_cpu_list, Nic!FoldLeft, Nic!MapThenFoldSet, CoresOf
<1>2. DOMAIN ranges = 1..n
  OBVIOUS
<1>3. start \in V
  BY EmptySeq
<1>4. \A c \in V, i \in 1..n : op(c, i) \in V
  <2> SUFFICES ASSUME NEW c \in Seq(Nat), NEW i \in 1..n
               PROVE  c \o CoresOf(ranges[i]) \in Seq(Nat)
    OBVIOUS
  <2>1. CoresOf(ranges[i]) \in Seq(Nat)
    <3> DEFINE a == ranges[i][1]
               b == ranges[i][2]
    <3>1. a \in Nat /\ b \in Nat /\ a <= b
      OBVIOUS
    <3> HIDE DEF a, b
    <3>2. b - a + 1 \in Nat
      BY <3>1
    <3>3. [j \in 1..(b - a + 1) |-> a + j - 1] \in [1..(b - a + 1) -> Nat]
      BY <3>1
    <3> DEFINE l == b - a + 1
               f == [j \in 1..(b - a + 1) |-> a + j - 1]
    <3>4. l \in Nat /\ f \in [1..l -> Nat]
      BY <3>2, <3>3
    <3> HIDE DEF l, f
    <3>5. f \in Seq(Nat)
      BY <3>4, SeqDef
    <3> QED BY <3>5 DEF a, b, f, CoresOf
  <2> QED BY <2>1, ConcatProperties
<1> HIDE DEF op, start, V
<1>5. next \in [V \X (1..n) -> V]
  BY <1>4
<1>6. \A c \in V, i \in 1..n : next[<<c, i>>] = op(c, i)
  OBVIOUS
<1> HIDE DEF next
<1>7. \E f : f = body(f)
  <2>1. PICK f \in [SUBSET (1..n) -> V] :
           \A s \in SUBSET (1..n) :
              f[s] = IF s = {} THEN start ELSE next[<<f[s \ {Max(s)}], Max(s)>>]
    <3>1. Folding(n, V, start, next) # {}
      BY <1>3, <1>5, Foldable
    <3> QED BY <3>1 DEF Folding
  <2>2. \A s \in SUBSET (1..n) : s # {} =>
           f[s] = op(f[s \ {Nic!Max(s)}], Nic!Max(s))
    <3> SUFFICES ASSUME NEW s \in SUBSET (1..n), s # {}
                 PROVE  f[s] = op(f[s \ {Max(s)}], Max(s))
      BY NicMax
    <3>1. Max(s) \in s
      BY GreatestOf
    <3>2. f[s \ {Max(s)}] \in V /\ Max(s) \in 1..n
      BY <2>1, <3>1
    <3>3. f[s] = next[<<f[s \ {Max(s)}], Max(s)>>]
      BY <2>1
    <3> QED BY <1>6, <3>2, <3>3
  <2>3. f = body(f)
    <3>1. f[{}] = start
      BY <2>1
    <3> QED BY <1>2, <2>1, <2>2, <3>1
  <2> QED BY <2>3
<1>8. iter = body(iter)
  BY <1>7
<1> HIDE DEF iter
<1>9. iter[1..n] \in Final(n, V, start, next)
  <2>1. iter[{}] = start
    BY <1>8
  <2>2. ASSUME NEW s \in SUBSET (1..n), s # {}, iter[s \ {Max(s)}] \in V
        PROVE  iter[s] = next[<<iter[s \ {Max(s)}], Max(s)>>]
    <3>1. Max(s) \in s
      BY <2>2, GreatestOf
    <3>2. Max(s) \in 1..n
      BY <3>1
    <3>3. iter[s] = op(iter[s \ {Max(s)}], Max(s))
      BY <1>2, <1>8, <2>2, NicMax
    <3> QED BY <1>6, <2>2, <3>2, <3>3
  <2>3. Recurs(n, V, start, next, iter)
    BY <2>1, <2>2 DEF Recurs
  <2> QED BY <1>3, <1>5, <2>3, Stepwise
<1>10. PICK g \in [0..n -> V] :
          /\ g[n] = iter[1..n] /\ g[0] = start
          /\ \A k \in 1..n : g[k] = next[<<g[k - 1], k>>]
  BY <1>9 DEF Steps, Final
<1>11. \A k \in 1..n : g[k] = op(g[k - 1], k)
  <2> TAKE k \in 1..n
  <2>1. k - 1 \in 0..n
    OBVIOUS
  <2> QED BY <1>6, <1>10, <2>1
<1>12. g \in CpuSteps(ranges, n)
  BY <1>10, <1>11 DEF op, start, V, CpuSteps
<1> QED BY <1>1, <1>2, <1>10, <1>12

\* For each bond the last entry that has its name, or none of them has it.
LEMMA LastEntryCounts ==
  ASSUME NEW n, n \in Nat, NEW entries \in [1..n -> Nic!Entries], NEW b \in Bonds \cup {Nic!ALL_BONDS}
  PROVE  LET c == Nic!lacp_config(entries)
             of == {i \in 1..n : Nic!BondOf(entries[i]) = b}
         IN  /\ of # {} => /\ b \in DOMAIN c
                           /\ \E i \in of : c[b] = Nic!ModeOf(entries[i]) /\ \A j \in of : j <= i
             /\ of = {} => /\ b \in DOMAIN c <=> b = Nic!ALL_BONDS
                           /\ b = Nic!ALL_BONDS => c[b] = Nic!DefaultMode
<1>1. PICK g \in BondSteps(entries, n) : Nic!lacp_config(entries) = g[n]
  BY EntriesRead
<1>2. g[0] = NoEntries /\ \A i \in 1..n : g[i] = WithEntry(g[i - 1], entries[i])
  BY DEF BondSteps
<1> DEFINE of(k) == {i \in 1..k : Nic!BondOf(entries[i]) = b}
           So(k) ==
             /\ of(k) # {} => /\ b \in DOMAIN g[k]
                              /\ \E i \in of(k) : g[k][b] = Nic!ModeOf(entries[i])
                                                     /\ \A j \in of(k) : j <= i
             /\ of(k) = {} => /\ b \in DOMAIN g[k] <=> b = Nic!ALL_BONDS
                              /\ b = Nic!ALL_BONDS => g[k][b] = Nic!DefaultMode
           P == {k \in 0..n : So(k)}
<1>3. 0 \in P
  <2>1. of(0) = {}
    OBVIOUS
  <2>2. So(0)
    BY <1>2, <2>1 DEF NoEntries
  <2> HIDE DEF So
  <2> QED BY <2>2
<1>4. ASSUME NEW k \in 1..n, k - 1 \in P PROVE k \in P
  <2>1. So(k - 1) /\ k \in 0..n /\ k \in Nat
    BY <1>4
  <2>2. g[k] = WithEntry(g[k - 1], entries[k])
    BY <1>2
  <2>3. CASE Nic!BondOf(entries[k]) = b
    <3>1. k \in of(k) /\ \A j \in of(k) : j <= k
      BY <2>3
    <3>2. b \in DOMAIN g[k] /\ g[k][b] = Nic!ModeOf(entries[k])
      BY <2>2, <2>3 DEF WithEntry
    <3>3. So(k)
      BY <3>1, <3>2
    <3> HIDE DEF So
    <3> QED BY <2>1, <3>3
  <2>4. CASE Nic!BondOf(entries[k]) # b
    <3>1. of(k) = of(k - 1)
      <4>1. \A i : i \in 1..k <=> i \in 1..k - 1 \/ i = k
        OBVIOUS
      <4> QED BY <2>4, <4>1
    <3>2. /\ b \in DOMAIN g[k] <=> b \in DOMAIN g[k - 1]
          /\ b \in DOMAIN g[k] => g[k][b] = g[k - 1][b]
      BY <2>2, <2>4 DEF WithEntry
    <3> HIDE DEF of
    <3>3. So(k)
      BY <2>1, <3>1, <3>2
    <3> HIDE DEF So
    <3> QED BY <2>1, <3>3
  <2> QED BY <2>3, <2>4
<1> HIDE DEF P
<1>5. \A k \in 0..n : k \in P
  BY <1>3, <1>4, Induction
<1>6. So(n)
  BY <1>5 DEF P
<1> QED BY <1>1, <1>6

LEMMA OwnEntries ==
  ASSUME bonds \in Seq(Nic!Entries)
  PROVE  Nic!OwnEntryWins
<1> DEFINE n == Len(bonds)
<1>1. n \in Nat /\ DOMAIN bonds = 1..n /\ bonds \in [1..n -> Nic!Entries]
  BY LenProperties
<1> HIDE DEF n
<1> SUFFICES ASSUME NEW b \in Bonds
             PROVE  LET own == {i \in DOMAIN bonds : bonds[i].bond = b}
                        all == {i \in DOMAIN bonds : bonds[i].bond = ""}
                        newest(s) == CHOOSE i \in s : \A j \in s : j <= i
                    IN Nic!get_bond_config(bonds, b) =
                          IF own # {} THEN Nic!ModeOf(bonds[newest(own)])
                          ELSE IF all # {} THEN Nic!ModeOf(bonds[newest(all)])
                          ELSE Nic!DefaultMode
  BY Zenon DEF Nic!OwnEntryWins
<1> DEFINE own == {i \in 1..n : bonds[i].bond = b}
           all == {i \in 1..n : bonds[i].bond = ""}
           newest(s) == CHOOSE i \in s : \A j \in s : j <= i
           c == Nic!lacp_config(bonds)
<1>2. b # Nic!ALL_BONDS /\ b # "" /\ Nic!ALL_BONDS \notin Bonds
  BY NicAssumption DEF Nic!ALL_BONDS
<1>3. \A i \in 1..n : bonds[i].bond \in Bonds \cup {""}
  BY <1>1 DEF Nic!Entries
<1>4. own = {i \in 1..n : Nic!BondOf(bonds[i]) = b}
  BY <1>2, <1>3 DEF Nic!BondOf
<1>5. all = {i \in 1..n : Nic!BondOf(bonds[i]) = Nic!ALL_BONDS}
  BY <1>2, <1>3 DEF Nic!BondOf
<1>6. \A s \in SUBSET (1..n) : \A i \in s : (\A j \in s : j <= i) => newest(s) = i
  <2> SUFFICES ASSUME NEW s \in SUBSET (1..n), NEW i \in s, \A j \in s : j <= i
               PROVE  newest(s) = i
    OBVIOUS
  <2>1. \A j \in s : (\A k \in s : k <= j) => j = i
    BY <1>1
  <2> QED BY <2>1
<1>7. /\ own # {} => /\ b \in DOMAIN c
                     /\ \E i \in own : c[b] = Nic!ModeOf(bonds[i]) /\ \A j \in own : j <= i
      /\ own = {} => b \notin DOMAIN c
  <2>1. b \in Bonds \cup {Nic!ALL_BONDS}
    OBVIOUS
  <2> HIDE DEF own, all, newest
  <2> DEFINE of == {i \in 1..n : Nic!BondOf(bonds[i]) = b}
  <2>2. /\ of # {} => /\ b \in DOMAIN c
                      /\ \E i \in of : c[b] = Nic!ModeOf(bonds[i]) /\ \A j \in of : j <= i
        /\ of = {} => (b \in DOMAIN c <=> b = Nic!ALL_BONDS)
    BY <1>1, <2>1, LastEntryCounts
  <2>3. of = own
    BY <1>4
  <2> HIDE DEF of, c
  <2> QED BY <1>2, <2>2, <2>3
<1>8. /\ all # {} => \E i \in all : c[Nic!ALL_BONDS] = Nic!ModeOf(bonds[i])
                                       /\ \A j \in all : j <= i
      /\ all = {} => c[Nic!ALL_BONDS] = Nic!DefaultMode
  <2>1. Nic!ALL_BONDS \in Bonds \cup {Nic!ALL_BONDS}
    OBVIOUS
  <2> HIDE DEF own, all, newest
  <2> QED BY <1>1, <1>5, <2>1, LastEntryCounts
<1>9. own \in SUBSET (1..n) /\ all \in SUBSET (1..n)
  OBVIOUS
<1> HIDE DEF own, all, newest
<1>10. /\ own # {} => c[b] = Nic!ModeOf(bonds[newest(own)])
       /\ all # {} => c[Nic!ALL_BONDS] = Nic!ModeOf(bonds[newest(all)])
  BY <1>6, <1>7, <1>8, <1>9
<1>11. Nic!get_bond_config(bonds, b) = IF own # {} THEN c[b] ELSE c[Nic!ALL_BONDS]
  BY <1>7 DEF Nic!get_bond_config
<1>12. Nic!get_bond_config(bonds, b) =
          IF own # {} THEN Nic!ModeOf(bonds[newest(own)])
          ELSE IF all # {} THEN Nic!ModeOf(bonds[newest(all)]) ELSE Nic!DefaultMode
  BY <1>8, <1>10, <1>11
<1> QED BY <1>1, <1>12 DEF own, all, newest

-----------------------------------------------------------------------------
\* A node's cores are listed in order, and are those of its ranges.
LEMMA CoresInOrder ==
  ASSUME NEW n, n \in Nat, NEW ranges \in [1..n -> Nat \X Nat],
         \A i \in 1..n : ranges[i][1] <= ranges[i][2],
         \A i, j \in 1..n : i < j => ranges[i][2] < ranges[j][1]
  PROVE  LET s == Nic!parse_cpu_list(ranges)
         IN  /\ s \in Seq(Nat)
             /\ \A i, j \in 1..Len(s) : i < j => s[i] < s[j]
             /\ \A i \in 1..Len(s) : \E r \in 1..n : s[i] \in ranges[r][1]..ranges[r][2]
<1>1. PICK g \in CpuSteps(ranges, n) : Nic!parse_cpu_list(ranges) = g[n]
  BY RangesRead
<1>2. /\ g \in [0..n -> Seq(Nat)]
      /\ g[0] = <<>> /\ \A i \in 1..n : g[i] = g[i - 1] \o CoresOf(ranges[i])
  BY DEF CpuSteps
<1> DEFINE So(k) ==
             /\ \A i, j \in 1..Len(g[k]) : i < j => g[k][i] < g[k][j]
             /\ \A i \in 1..Len(g[k]) : \E r \in 1..k : g[k][i] \in ranges[r][1]..ranges[r][2]
           P == {k \in 0..n : So(k)}
<1>3. 0 \in P
  <2>1. 1..Len(g[0]) = {}
    BY <1>2, EmptySeq
  <2>2. So(0)
    BY <2>1
  <2> HIDE DEF So
  <2> QED BY <2>2
<1>4. ASSUME NEW k \in 1..n, k - 1 \in P PROVE k \in P
  <2> DEFINE s == g[k - 1]
             t == CoresOf(ranges[k])
             a == ranges[k][1]
             b == ranges[k][2]
             l == Len(s)
  <2>1. So(k - 1) /\ k \in 0..n /\ k - 1 \in 0..n /\ k \in Nat
    BY <1>4
  <2>2. a \in Nat /\ b \in Nat /\ a <= b
    OBVIOUS
  <2>3. t = [i \in 1..(b - a + 1) |-> a + i - 1]
    BY DEF CoresOf
  <2>4. s \in Seq(Nat) /\ l \in Nat /\ \A i \in 1..l : s[i] \in Nat
    BY <1>2, <2>1, LenProperties, ElementOfSeq
  <2>5. /\ g[k] = s \o t
        /\ \A i \in 1..l : \E r \in 1..k - 1 : s[i] \in ranges[r][1]..ranges[r][2]
        /\ \A i, j \in 1..l : i < j => s[i] < s[j]
    BY <1>2, <2>1
  <2>6. \A i \in 1..l : s[i] < a
    <3> TAKE i \in 1..l
    <3>1. PICK r \in 1..k - 1 : s[i] \in ranges[r][1]..ranges[r][2]
      BY <2>5
    <3>2. r \in 1..n /\ r < k
      BY <2>1
    <3>3. ranges[r][1] \in Nat /\ ranges[r][2] \in Nat
      BY <3>2
    <3>4. ranges[r][2] < a
      BY <3>2
    <3> HIDE DEF a, s, l
    <3> QED BY <2>2, <2>4, <3>1, <3>3, <3>4
  <2> HIDE DEF a, b, s, t, l
  <2>7. b - a + 1 \in Nat /\ t \in Seq(Nat) /\ Len(t) = b - a + 1
        /\ \A i \in 1..Len(t) : t[i] = a + i - 1 /\ t[i] \in a..b
    <3>1. b - a + 1 \in Nat
      BY <2>2
    <3>2. t \in [1..(b - a + 1) -> Nat]
      BY <2>2, <2>3
    <3>3. t \in Seq(Nat)
      BY <3>1, <3>2, SeqDef
    <3>4. Len(t) = b - a + 1
      BY <3>1, <3>2, <3>3, LenProperties
    <3>5. \A i \in 1..(b - a + 1) : t[i] = a + i - 1 /\ t[i] \in a..b
      BY <2>2, <2>3
    <3> QED BY <3>1, <3>3, <3>4, <3>5
  <2> DEFINE u == s \o t
             m == Len(t)
  <2>8. /\ Len(u) = l + m /\ m \in Nat
        /\ \A i \in 1..(l + m) : u[i] = IF i <= l THEN s[i] ELSE t[i - l]
    BY <2>4, <2>7, ConcatProperties DEF l
  <2> HIDE DEF u, m
  <2>9. \A i \in 1..(l + m) : i <= l \/ i - l \in 1..m
    BY <2>4, <2>8
  <2>10. \A i \in 1..m : t[i] = a + i - 1 /\ t[i] \in a..b
    BY <2>7 DEF m
  <2>11. \A i, j \in 1..(l + m) : i < j => u[i] < u[j]
    <3> SUFFICES ASSUME NEW i \in 1..(l + m), NEW j \in 1..(l + m), i < j PROVE u[i] < u[j]
      OBVIOUS
    <3>1. i \in Nat /\ j \in Nat
      BY <2>4, <2>8
    <3>2. CASE j <= l
      <4>1. i \in 1..l /\ j \in 1..l
        BY <2>4, <2>8, <3>1, <3>2
      <4>2. i <= l /\ s[i] < s[j]
        BY <2>4, <2>5, <3>1, <3>2, <4>1
      <4> QED BY <2>8, <3>2, <4>2
    <3>3. CASE i <= l /\ ~(j <= l)
      <4>1. i \in 1..l /\ j - l \in 1..m
        BY <2>4, <2>8, <2>9, <3>1, <3>3
      <4>2. u[i] = s[i] /\ u[j] = t[j - l]
        BY <2>8, <3>3
      <4>3. s[i] < a /\ s[i] \in Nat /\ t[j - l] \in a..b
        BY <2>4, <2>6, <2>10, <4>1
      <4> QED BY <2>2, <4>2, <4>3
    <3>4. CASE ~(i <= l)
      <4>1. i - l \in 1..m /\ j - l \in 1..m /\ ~(j <= l)
        BY <2>4, <2>8, <2>9, <3>1, <3>4
      <4>2. u[i] = a + (i - l) - 1 /\ u[j] = a + (j - l) - 1
        BY <2>8, <2>10, <3>4, <4>1
      <4>3. l \in Nat /\ a \in Nat
        BY <2>2, <2>4
      <4>4. a + (i - l) - 1 < a + (j - l) - 1
        BY <3>1, <4>3
      <4> HIDE DEF l, a
      <4> QED BY <4>2, <4>4
    <3> QED BY <3>2, <3>3, <3>4
  <2>12. \A i \in 1..(l + m) : \E r \in 1..k : u[i] \in ranges[r][1]..ranges[r][2]
    <3> SUFFICES ASSUME NEW i \in 1..(l + m)
                 PROVE  \E r \in 1..k : u[i] \in ranges[r][1]..ranges[r][2]
      OBVIOUS
    <3>1. CASE i <= l
      <4>1. i \in 1..l
        BY <2>4, <2>8, <3>1
      <4>2. PICK r \in 1..k - 1 : s[i] \in ranges[r][1]..ranges[r][2]
        BY <2>5, <4>1
      <4>3. r \in 1..k /\ u[i] = s[i]
        BY <2>1, <2>8, <3>1
      <4> QED BY <4>2, <4>3
    <3>2. CASE ~(i <= l)
      <4>1. u[i] \in a..b
        BY <2>8, <2>9, <2>10, <3>2
      <4>2. k \in 1..k
        BY <2>1
      <4> QED BY <4>1, <4>2 DEF a, b
    <3> QED BY <3>1, <3>2
  <2>13. So(k)
    <3>1. g[k] = u /\ Len(u) = l + m
      BY <2>5, <2>8 DEF u
    <3> QED BY <2>11, <2>12, <3>1
  <2> HIDE DEF So
  <2> QED BY <2>1, <2>13
<1> HIDE DEF P
<1>5. \A k \in 0..n : k \in P
  BY <1>3, <1>4, Induction
<1>6. So(n) /\ g[n] \in Seq(Nat)
  BY <1>2, <1>5 DEF P
<1> QED BY <1>1, <1>6

NicTypeOK ==
    /\ cards \in [Cards -> Nat]
    /\ vfs \in [numvfs : {"auto", "number", "pairs", "other"}, number : Nat,
                pairs : UNION {[D -> Nat] : D \in SUBSET Cards}, mapped : SUBSET Cards]
    /\ bonds \in Seq(Nic!Entries)
    /\ cores \in Nat

LEMMA NicInitial == Nic!Init => NicTypeOK
<1> SUFFICES ASSUME Nic!Init PROVE NicTypeOK
  OBVIOUS
<1>1. cards \in [Cards -> Nat]
  BY DEF Nic!Init
<1>2. Nic!NoPairs \in UNION {[D -> Nat] : D \in SUBSET Cards}
  <2>1. <<>> \in [{} -> Nat]
    OBVIOUS
  <2> QED BY <2>1 DEF Nic!NoPairs
<1>3. bonds \in Seq(Nic!Entries) /\ cores \in Nat
  BY EmptySeq DEF Nic!Init
<1> QED BY <1>1, <1>2, <1>3 DEF Nic!Init, NicTypeOK

LEMMA NicInductive ==
  ASSUME NicTypeOK, [Nic!Next]_(Nic!nic_vars)
  PROVE  NicTypeOK'
<1> DEFINE Pairs == UNION {[D -> Nat] : D \in SUBSET Cards}
<1>1. CASE UNCHANGED Nic!nic_vars
  BY <1>1 DEF NicTypeOK, Nic!nic_vars
<1>2. ASSUME NEW c \in Cards, Nic!Plug(c) PROVE NicTypeOK'
  BY <1>2, NicAssumption DEF NicTypeOK, Nic!Plug
<1>3. ASSUME NEW c \in Cards, Nic!MapDevice(c) PROVE NicTypeOK'
  BY <1>3 DEF NicTypeOK, Nic!MapDevice
<1>4. CASE Nic!SetNumVfs
  <2>1. Nic!NoPairs \in Pairs
    <3>1. <<>> \in [{} -> Nat]
      OBVIOUS
    <3> QED BY <3>1 DEF Nic!NoPairs
  <2>2. ASSUME NEW c \in Cards, NEW n \in VfRequests
        PROVE  [d \in DOMAIN vfs.pairs \cup {c} |-> IF d = c THEN n ELSE vfs.pairs[d]] \in Pairs
    <3>1. PICK D \in SUBSET Cards : vfs.pairs \in [D -> Nat]
      BY DEF NicTypeOK
    <3>2. [d \in DOMAIN vfs.pairs \cup {c} |-> IF d = c THEN n ELSE vfs.pairs[d]]
             \in [D \cup {c} -> Nat]
      BY <3>1, NicAssumption
    <3> QED BY <3>2
  <2>3. vfs' \in [numvfs : {"auto", "number", "pairs", "other"}, number : Nat, pairs : Pairs,
                  mapped : SUBSET Cards]
    <3> HIDE DEF Pairs
    <3>1. vfs \in [numvfs : {"auto", "number", "pairs", "other"}, number : Nat, pairs : Pairs,
                   mapped : SUBSET Cards]
      BY DEF NicTypeOK, Pairs
    <3>2. ASSUME NEW kind \in {"auto", "other"},
                 vfs' = [vfs EXCEPT !.numvfs = kind, !.number = 0, !.pairs = Nic!NoPairs]
          PROVE  vfs' \in [numvfs : {"auto", "number", "pairs", "other"}, number : Nat,
                           pairs : Pairs, mapped : SUBSET Cards]
      BY <2>1, <3>1, <3>2
    <3>3. ASSUME NEW n \in VfRequests,
                 vfs' = [vfs EXCEPT !.numvfs = "number", !.number = n, !.pairs = Nic!NoPairs]
          PROVE  vfs' \in [numvfs : {"auto", "number", "pairs", "other"}, number : Nat, pairs : Pairs,
                           mapped : SUBSET Cards]
      BY <2>1, <3>1, <3>3, NicAssumption
    <3>4. ASSUME NEW c \in Cards, NEW n \in VfRequests,
                 vfs' = [vfs EXCEPT !.numvfs = "pairs", !.number = 0,
                            !.pairs = [d \in DOMAIN @ \cup {c} |-> IF d = c THEN n ELSE @[d]]]
          PROVE  vfs' \in [numvfs : {"auto", "number", "pairs", "other"}, number : Nat, pairs : Pairs,
                           mapped : SUBSET Cards]
      <4> DEFINE new == [d \in DOMAIN vfs.pairs \cup {c} |-> IF d = c THEN n ELSE vfs.pairs[d]]
      <4>1. new \in Pairs /\ vfs' = [vfs EXCEPT !.numvfs = "pairs", !.number = 0, !.pairs = new]
        BY <2>2, <3>4
      <4> HIDE DEF new
      <4> QED BY <3>1, <4>1
    <3> QED BY <1>4, <3>2, <3>3, <3>4 DEF Nic!SetNumVfs
  <2> QED BY <1>4, <2>3 DEF NicTypeOK, Nic!SetNumVfs
<1>5. ASSUME NEW e \in Nic!Entries, Nic!AddEntry(e) PROVE NicTypeOK'
  <2>1. bonds' \in Seq(Nic!Entries)
    BY <1>5, AppendProperties DEF NicTypeOK, Nic!AddEntry
  <2> QED BY <1>5, <2>1 DEF NicTypeOK, Nic!AddEntry
<1>6. CASE Nic!SetCores
  BY <1>6 DEF NicTypeOK, Nic!SetCores
<1> QED BY <1>1, <1>2, <1>3, <1>4, <1>5, <1>6 DEF Nic!Next

-----------------------------------------------------------------------------
\* Whatever has the types gives settings that fit.
LEMMA VfsFit == NicTypeOK => Nic!VfsWithinCards
<1> SUFFICES ASSUME NicTypeOK, ~Nic!UnableToDetermine(vfs),
                    NEW d \in DOMAIN Nic!SRIOVContext(vfs)
             PROVE  LET ctxt == Nic!SRIOVContext(vfs)
                    IN  /\ cards[d] > 0 /\ ctxt[d] <= cards[d]
                        /\ vfs.numvfs = "auto" => ctxt[d] = cards[d]
                                                  /\ (vfs.mapped # {} => d \in vfs.mapped)
                        /\ vfs.numvfs = "pairs" => d \in DOMAIN vfs.pairs
  BY DEF Nic!VfsWithinCards
<1>1. vfs.numvfs \in {"auto", "number", "pairs"} /\ vfs.number \in Nat
  BY DEF NicTypeOK, Nic!UnableToDetermine
<1>2. \A e \in DOMAIN vfs.pairs : vfs.pairs[e] \in Nat
  <2>1. PICK D \in SUBSET Cards : vfs.pairs \in [D -> Nat]
    BY DEF NicTypeOK
  <2> QED BY <2>1
<1>3. d \in Nic!Configured(vfs) /\ Nic!SRIOVContext(vfs)[d] = Nic!_determine_numvfs(vfs, d)
  BY DEF Nic!SRIOVContext
<1>4. /\ Nic!sriov_config_mode(vfs) = "auto" <=> vfs.numvfs = "auto"
      /\ Nic!sriov_config_mode(vfs) = "explicit" <=> vfs.numvfs = "pairs"
      /\ Nic!sriov_config_mode(vfs) = "blanket" <=> vfs.numvfs = "number"
  BY <1>1 DEF Nic!sriov_config_mode
<1>5. /\ d \in Cards /\ cards[d] > 0
      /\ vfs.numvfs = "auto" /\ vfs.mapped # {} => d \in vfs.mapped
      /\ vfs.numvfs = "pairs" => d \in DOMAIN vfs.pairs
  BY <1>3, <1>4 DEF Nic!Configured
<1>6. cards[d] \in Nat
  BY <1>5 DEF NicTypeOK
<1>7. \A r \in Nat : Nic!Capped(d, r) <= cards[d]
  BY <1>6 DEF Nic!Capped
<1>8. Nic!Capped(d, cards[d]) = cards[d]
  BY <1>6 DEF Nic!Capped
<1>9. Nic!_determine_numvfs(vfs, d) <= cards[d]
  <2>1. CASE vfs.numvfs = "auto"
    BY <1>4, <1>6, <1>7, <2>1 DEF Nic!_determine_numvfs
  <2>2. CASE vfs.numvfs = "number"
    BY <1>1, <1>4, <1>7, <2>2 DEF Nic!_determine_numvfs
  <2>3. CASE vfs.numvfs = "pairs"
    BY <1>2, <1>4, <1>5, <1>7, <2>3 DEF Nic!_determine_numvfs
  <2> QED BY <1>1, <2>1, <2>2, <2>3
<1>10. vfs.numvfs = "auto" => Nic!_determine_numvfs(vfs, d) = cards[d]
  BY <1>4, <1>8 DEF Nic!_determine_numvfs
<1> QED BY <1>3, <1>5, <1>9, <1>10

LEMMA NicCardinality == \A S : Nic!Cardinality(S) = Cardinality(S)
  BY DEF Nic!Cardinality, Cardinality

LEMMA NodesPoll == cores \in Nat => Nic!EveryNodePolls
<1> SUFFICES ASSUME cores \in Nat PROVE Nic!EveryNodePolls
  OBVIOUS
<1> DEFINE list(n) == Nic!parse_cpu_list(cpulist[n])
           Polls(n) == IF cores < Len(list(n)) THEN cores ELSE Len(list(n))
           mask(n) == {list(n)[i] : i \in 1..Polls(n)}
           all(n) == {list(n)[i] : i \in 1..Len(list(n))}
<1>1. ASSUME NEW n \in DOMAIN cpulist
      PROVE  /\ list(n) \in Seq(Nat)
             /\ \A i, j \in 1..Len(list(n)) : i < j => list(n)[i] < list(n)[j]
             /\ all(n) \subseteq Cores(n)
  <2> DEFINE ranges == cpulist[n]
             k == Len(ranges)
  <2>1. ranges \in Seq(Nat \X Nat)
    <3> DEFINE S == Seq(Nat \X Nat)
    <3>1. cpulist \in Seq(S)
      BY NicAssumption
    <3> HIDE DEF S
    <3>2. n \in 1..Len(cpulist)
      BY <3>1, LenProperties
    <3>3. cpulist[n] \in S
      BY <3>1, <3>2, ElementOfSeq
    <3> QED BY <3>3 DEF S
  <2>2. k \in Nat /\ DOMAIN ranges = 1..k /\ ranges \in [1..k -> Nat \X Nat]
    BY <2>1, LenProperties
  <2>3. /\ \A i \in 1..k : ranges[i][1] <= ranges[i][2]
        /\ \A i, j \in 1..k : i < j => ranges[i][2] < ranges[j][1]
    BY <2>2, NicAssumption
  <2>4. Cores(n) = UNION {ranges[i][1]..ranges[i][2] : i \in 1..k}
    BY <2>2 DEF Cores
  <2> DEFINE s == Nic!parse_cpu_list(ranges)
  <2> HIDE DEF ranges, k
  <2>5. /\ s \in Seq(Nat)
        /\ \A i, j \in 1..Len(s) : i < j => s[i] < s[j]
        /\ \A i \in 1..Len(s) : \E r \in 1..k : s[i] \in ranges[r][1]..ranges[r][2]
    BY <2>2, <2>3, CoresInOrder
  <2> HIDE DEF s
  <2>6. {s[i] : i \in 1..Len(s)} \subseteq Cores(n)
    BY <2>4, <2>5
  <2>7. list(n) = s
    BY DEF s, ranges
  <2> HIDE DEF list
  <2> QED BY <2>5, <2>6, <2>7
<1>2. ASSUME NEW n \in DOMAIN cpulist
      PROVE  /\ Len(list(n)) \in Nat /\ DOMAIN list(n) = 1..Len(list(n))
             /\ Polls(n) \in 0..Len(list(n))
             /\ ToSet(SubSeq(list(n), 1, Polls(n))) = mask(n)
             /\ ToSet(list(n)) = all(n)
             /\ mask(n) \subseteq all(n)
  <2> DEFINE s == list(n)
             l == Len(s)
             p == Polls(n)
  <2>1. s \in Seq(Nat) /\ l \in Nat /\ DOMAIN s = 1..l /\ \A i \in 1..l : s[i] \in Nat
    BY <1>1, LenProperties, ElementOfSeq
  <2>2. p \in 0..l
    <3>1. p = IF cores < l THEN cores ELSE l
      OBVIOUS
    <3> HIDE DEF p, l
    <3> QED BY <2>1, <3>1
  <2>3. mask(n) = {s[i] : i \in 1..p} /\ all(n) = {s[i] : i \in 1..l}
    OBVIOUS
  <2> DEFINE t == SubSeq(s, 1, p)
  <2>4. p \in Nat /\ \A i \in 1..p : i \in 1..l
    BY <2>1, <2>2
  <2> HIDE DEF list, s, l, p, mask, all, Polls
  <2>5. t \in Seq(Nat) /\ Len(t) = p /\ \A i \in 1..p : t[i] = s[i]
    <3>1. \A i \in 1..p : s[i] \in Nat
      BY <2>1, <2>4
    <3> QED BY <2>1, <2>4, <3>1, SubSeqProperties
  <2> HIDE DEF t
  <2>6. DOMAIN t = 1..p
    BY <2>5, LenProperties
  <2>7. ToSet(t) = {s[i] : i \in 1..p}
    BY <2>5, <2>6 DEF ToSet
  <2>8. ToSet(s) = {s[i] : i \in 1..l}
    BY <2>1 DEF ToSet
  <2> QED BY <2>1, <2>2, <2>3, <2>4, <2>7, <2>8 DEF s, l, p, t
<1>3. ASSUME NEW n \in DOMAIN cpulist
      PROVE  Cardinality(mask(n)) = Polls(n) /\ Cardinality(all(n)) = Len(list(n))
  <2> DEFINE s == list(n)
             l == Len(s)
             p == Polls(n)
  <2>1. s \in Seq(Nat) /\ (\A i, j \in 1..Len(s) : i < j => s[i] < s[j])
    BY <1>1
  <2>2. p \in 0..Len(s) /\ l \in 0..Len(s)
    BY <1>2
  <2>3. mask(n) = {s[i] : i \in 1..p} /\ all(n) = {s[i] : i \in 1..l}
    OBVIOUS
  <2> HIDE DEF list, s, p, mask, all, Polls
  <2>4. Cardinality({s[i] : i \in 1..p}) = p /\ Cardinality({s[i] : i \in 1..l}) = l
    BY <2>1, <2>2, CountedPrefix
  <2> QED BY <2>3, <2>4 DEF s, p
<1>4. \A m, n \in DOMAIN cpulist : m # n => all(m) \cap all(n) = {}
  <2> SUFFICES ASSUME NEW m \in DOMAIN cpulist, NEW n \in DOMAIN cpulist, m # n
               PROVE  all(m) \cap all(n) = {}
    OBVIOUS
  <2>1. Cores(m) \cap Cores(n) = {}
    BY NicAssumption
  <2>2. all(m) \subseteq Cores(m) /\ all(n) \subseteq Cores(n)
    BY <1>1
  <2> HIDE DEF all
  <2> QED BY <2>1, <2>2
<1>5. Nic!cpu_mask(cores) = UNION {mask(n) : n \in DOMAIN cpulist}
  <2>1. DOMAIN Nic!numa_node_cores = DOMAIN cpulist
        /\ \A n \in DOMAIN cpulist : Nic!numa_node_cores[n] = list(n)
    BY DEF Nic!numa_node_cores
  <2>2. \A n \in DOMAIN cpulist : Nic!ToSet(SubSeq(list(n), 1, Polls(n))) = mask(n)
    BY <1>2 DEF Nic!ToSet, ToSet
  <2> HIDE DEF list, mask
  <2> QED BY <2>1, <2>2 DEF Nic!cpu_mask
<1>6. ASSUME NEW n \in DOMAIN cpulist
      PROVE  Cardinality(Nic!cpu_mask(cores) \cap Nic!ToSet(Nic!numa_node_cores[n])) =
                IF cores < Cardinality(Nic!ToSet(Nic!numa_node_cores[n])) THEN cores
                ELSE Cardinality(Nic!ToSet(Nic!numa_node_cores[n]))
  <2>1. Nic!ToSet(Nic!numa_node_cores[n]) = all(n)
    BY <1>2 DEF Nic!ToSet, ToSet, Nic!numa_node_cores
  <2> DEFINE p == Polls(n)
             l == Len(list(n))
  <2>2. p = IF cores < l THEN cores ELSE l
    OBVIOUS
  <2>3. Cardinality(mask(n)) = p /\ Cardinality(all(n)) = l
    BY <1>3
  <2>4. \A m \in DOMAIN cpulist : mask(m) \subseteq all(m)
    BY <1>2
  <2> HIDE DEF all, mask, p, l
  <2>5. Nic!cpu_mask(cores) \cap all(n) = mask(n)
    BY <1>4, <1>5, <2>4
  <2> QED BY <2>1, <2>2, <2>3, <2>5
<1> QED BY <1>6, NicCardinality, Zenon DEF Nic!EveryNodePolls

LEMMA NicGive == NicTypeOK => Nic!NicsRight
<1>1. NicTypeOK => Nic!OwnEntryWins
  BY OwnEntries DEF NicTypeOK
<1>2. NicTypeOK => Nic!EveryNodePolls
  BY NodesPoll DEF NicTypeOK
<1> QED BY <1>1, <1>2, VfsFit DEF Nic!NicsRight

\* No card is asked for more VFs than it has, a bond follows the last entry of its own, and
\* every NUMA node polls with the cores configured or all it has, for any cards, bonds,
\* entries and nodes.
THEOREM CardsAsConfigured == AllSpec => []NicsRight
<1> DEFINE Inv == part = "cards" => NicTypeOK
<1>1. AllInit => Inv
  BY NicInitial DEF AllInit
<1>2. Inv /\ [AllNext]_all_vars => Inv'
  BY DeviceParts, NicInductive
<1>3. Inv => NicsRight
  BY NicGive DEF NicsRight
<1> QED BY <1>1, <1>2, <1>3, PTL DEF AllSpec

-----------------------------------------------------------------------------
\* DataPorts: what config and host may be is all there is to know; the mappings are
\* looked up one by one.

Mappings == (DataBridges \cup {"none"}) \X (Ports!Names \cup Ports!Macs)
PortsTypeOK == nics \in Ports!Host /\ data_port \in Seq(Mappings)

LEMMA PortsInitial == Ports!Init => PortsTypeOK
<1> SUFFICES ASSUME Ports!Init PROVE PortsTypeOK
  OBVIOUS
<1>1. nics \in Ports!Host
  BY DEF Ports!Init, Ports!Host
<1> QED BY <1>1, EmptySeq DEF Ports!Init, PortsTypeOK

LEMMA PortsInductive ==
  ASSUME PortsTypeOK, [Ports!Next]_(Ports!ports_vars)
  PROVE  PortsTypeOK'
<1>1. CASE UNCHANGED Ports!ports_vars
  BY <1>1 DEF Ports!ports_vars, PortsTypeOK
<1>2. ASSUME NEW nic \in {"eth0", "eth1"}, Ports!Plug(nic) PROVE PortsTypeOK'
  BY <1>2 DEF Ports!Plug, PortsTypeOK, Ports!Host
<1>3. CASE Ports!Bond
  BY <1>3 DEF Ports!Bond, PortsTypeOK, Ports!Host
<1>4. ASSUME NEW nic \in Ports!Names, Ports!Use(nic) PROVE PortsTypeOK'
  BY <1>4 DEF Ports!Use, PortsTypeOK, Ports!Host
<1>5. ASSUME NEW b \in DataBridges \cup {"none"}, NEW e \in Ports!Names \cup Ports!Macs,
             Ports!Map(b, e)
      PROVE  PortsTypeOK'
  <2>1. <<b, e>> \in Mappings
    BY DEF Mappings
  <2> QED BY <1>5, <2>1, AppendProperties DEF Ports!Map, PortsTypeOK
<1> QED BY <1>1, <1>2, <1>3, <1>4, <1>5 DEF Ports!Next

\* The bridge of a card's name or address is one that the config gives it.
LEMMA MappedAsGiven ==
  ASSUME NEW c \in Seq(Mappings), NEW e \in Ports!Names \cup Ports!Macs
  PROVE  LET portmap == Ports!parse_data_port_mappings(c)
         IN  /\ e \in DOMAIN portmap =>
                   \E i \in DOMAIN c :
                      /\ c[i][2] = e
                      /\ \/ c[i][1] # "none" /\ portmap[e] = c[i][1]
                         \/ c[i][1] = "none" /\ portmap[e] = Ports!DEFAULT_BRIDGE
             /\ (\E i \in DOMAIN c : c[i][1] # "none" /\ c[i][2] = e) => e \in DOMAIN portmap
<1> DEFINE pairs == {i \in DOMAIN c : Ports!HasColon(c[i])}
           parsed == Ports!parse_mappings(c)
           portmap == Ports!parse_data_port_mappings(c)
           Newest(k, i) == Ports!Key(c[i]) = k /\ \A j \in pairs : j > i => Ports!Key(c[j]) # k
<1>1. \A i \in DOMAIN c : c[i] \in Mappings
  BY LenProperties, ElementOfSeq
<1>2. \A i \in DOMAIN c : c[i][2] \in Ports!Names \cup Ports!Macs /\ c[i][1] \in DataBridges \cup {"none"}
  BY <1>1 DEF Mappings
<1>3. e # "rest of m0" /\ e # "rest of m1"
  BY DEF Ports!Names, Ports!Macs
<1>4. \A i \in DOMAIN c : Ports!Key(c[i]) = e => c[i][1] # "none" /\ c[i][2] = e
  BY <1>3 DEF Ports!Key, Ports!Rest
<1>5. DOMAIN parsed = {Ports!Key(c[i]) : i \in pairs}
  BY DEF Ports!parse_mappings
<1>6. ASSUME e \in DOMAIN parsed
      PROVE  \E i \in DOMAIN c : c[i][2] = e /\ c[i][1] # "none" /\ parsed[e] = c[i][1]
  <2>1. pairs \in SUBSET (1..Len(c)) /\ Len(c) \in Nat
    BY LenProperties
  <2> DEFINE of == {i \in pairs : Ports!Key(c[i]) = e}
  <2>2. of # {} /\ of \in SUBSET (1..Len(c))
    BY <1>5, <1>6, <2>1
  <2>3. Max(of) \in of /\ \A y \in of : Max(of) >= y
    BY <2>1, <2>2, GreatestOf
  <2>4. \A j \in of : ~(j > Max(of))
    <3>1. \A j \in of : j \in Nat
      BY <2>1
    <3> HIDE DEF of
    <3> DEFINE m == Max(of)
    <3>2. m \in Nat /\ \A y \in of : m >= y
      BY <2>3, <3>1
    <3> HIDE DEF m
    <3>3. \A j \in of : ~(j > m)
      BY <3>1, <3>2
    <3> QED BY <3>3 DEF m
  <2>5. \E i \in pairs : Newest(e, i)
    BY <2>3, <2>4
  <2> DEFINE m == CHOOSE i \in pairs : Newest(e, i)
  <2>6. m \in pairs /\ Newest(e, m)
    BY <2>5
  <2>7. parsed[e] = Ports!Bridge(c[m])
    BY <1>5, <1>6 DEF Ports!parse_mappings
  <2> HIDE DEF m
  <2>8. m \in DOMAIN c /\ c[m][1] # "none" /\ c[m][2] = e
    BY <1>4, <2>6
  <2> QED BY <2>7, <2>8 DEF Ports!Bridge
<1>7. ASSUME DOMAIN parsed = {}, c # <<>>, e = c[1][2]
      PROVE  1 \in DOMAIN c /\ c[1][1] = "none" /\ c[1][2] = e
  <2>1. 1 \in DOMAIN c
    <3>1. Len(c) \in Nat /\ Len(c) # 0 /\ DOMAIN c = 1..Len(c)
      BY <1>7, EmptySeq, LenProperties
    <3> QED BY <3>1
  <2>2. ~Ports!HasColon(c[1])
    BY <1>5, <1>7, <2>1
  <2> QED BY <1>7, <2>1, <2>2 DEF Ports!HasColon
<1>8. portmap = IF DOMAIN parsed # {} THEN parsed
                ELSE IF c = <<>> THEN <<>> ELSE [k \in {c[1][2]} |-> Ports!DEFAULT_BRIDGE]
  BY DEF Ports!parse_data_port_mappings
<1>9. DOMAIN <<>> = {}
  BY EmptySeq
<1>10. \A i \in DOMAIN c : c[i][1] # "none" /\ c[i][2] = e => e \in DOMAIN parsed
  BY <1>5 DEF Ports!HasColon, Ports!Key
<1> HIDE DEF parsed, portmap
<1>11. e \in DOMAIN portmap =>
          \E i \in DOMAIN c :
             /\ c[i][2] = e
             /\ \/ c[i][1] # "none" /\ portmap[e] = c[i][1]
                \/ c[i][1] = "none" /\ portmap[e] = Ports!DEFAULT_BRIDGE
  BY <1>6, <1>7, <1>8, <1>9
<1>12. (\E i \in DOMAIN c : c[i][1] # "none" /\ c[i][2] = e) => e \in DOMAIN portmap
  BY <1>8, <1>10
<1> QED BY <1>11, <1>12 DEF portmap

\* A card that an address stands for has that address, exists and is no slave.
LEMMA CardOfAddress ==
  ASSUME NEW h \in Ports!Host, NEW mac \in Ports!Macs, NEW nic \in Ports!CardsWith(h, mac)
  PROVE  /\ Ports!get_nic_hwaddr(nic) = mac /\ nic \in Ports!list_nics(h)
         /\ Ports!get_bond_master(h, nic) = "None"
  BY DEF Ports!Host, Ports!Macs, Ports!CardsWith, Ports!get_nic_hwaddr, Ports!list_nics,
     Ports!get_bond_master

LEMMA Resolved ==
  ASSUME NEW h, NEW entries, NEW nic
  PROVE  nic \in Ports!resolve_ports(h, entries) <=>
            \/ \E mac \in entries \cap Ports!Macs :
                  nic \in Ports!CardsWith(h, mac) /\ nic \notin h.address \cup h.member
            \/ nic \in entries /\ nic \in Ports!list_nics(h)
<1> DEFINE by_mac == {Ports!CardsWith(h, e) \ (h.address \cup h.member) : e \in entries \cap Ports!Macs}
           by_name == entries \cap Ports!list_nics(h)
<1>1. Ports!resolve_ports(h, entries) = by_name \cup UNION by_mac
  BY DEF Ports!resolve_ports
<1>2. nic \in UNION by_mac <=>
         \E mac \in entries \cap Ports!Macs :
            nic \in Ports!CardsWith(h, mac) /\ nic \notin h.address \cup h.member
  OBVIOUS
<1> HIDE DEF by_mac
<1> QED BY <1>1, <1>2

LEMMA PortsOrder ==
  ASSUME NEW S, IsFiniteSet(S)
  PROVE  LET s == Ports!SetToSeq(S)
         IN  /\ s \in Seq(S)
             /\ \A x \in S : \E i \in 1..Len(s) : s[i] = x
<1>1. Ports!SetToSeq(S) = SetToSeq(S)
  BY DEF Ports!SetToSeq, SetToSeq, Ports!Cardinality, Cardinality, Ports!IsInjective, IsInjective
<1> DEFINE s == SetToSeq(S)
           n == Cardinality(S)
<1>2. n \in Nat /\ s \in [1..n -> S] /\ \A x \in S : \E i \in 1..n : s[i] = x
  BY OrderOfKeys
<1> HIDE DEF s, n
<1>3. s \in Seq(S)
  BY <1>2, SeqDef
<1>4. Len(s) = n
  BY <1>2, <1>3, LenProperties
<1> QED BY <1>1, <1>2, <1>3, <1>4 DEF s

LEMMA LowerDevicesFirst ==
  ASSUME PortsTypeOK
  PROVE  LET devs == Ports!MtuDevices(nics, data_port)
         IN  \A i \in DOMAIN devs : \A l \in Ports!LowerDevices(nics, devs[i]) :
                \E j \in 1..i : devs[j] = l
<1> DEFINE ports == DOMAIN Ports!DataPortContext(nics, data_port)
           lower == UNION {Ports!LowerDevices(nics, p) : p \in ports}
           a == Ports!SetToSeq(lower)
           b == Ports!SetToSeq(ports)
           devs == a \o b
<1>1. ports \subseteq Ports!Names
  <2>1. ports = Ports!resolve_ports(nics, DOMAIN Ports!parse_data_port_mappings(data_port))
    BY DEF Ports!DataPortContext
  <2>2. \A mac \in Ports!Macs : Ports!CardsWith(nics, mac) \subseteq Ports!Names
    BY DEF PortsTypeOK, Ports!Host, Ports!CardsWith, Ports!get_bond_master, Ports!Names
  <2>3. Ports!list_nics(nics) \subseteq Ports!Names
    BY DEF PortsTypeOK, Ports!Host, Ports!list_nics, Ports!Names
  <2> HIDE DEF ports
  <2>4. ASSUME NEW p \in ports PROVE p \in Ports!Names
    BY <2>1, <2>2, <2>3, Resolved
  <2> QED BY <2>4
<1>2. lower \subseteq {"eth1"}
  BY DEF Ports!LowerDevices
<1>3. IsFiniteSet(ports) /\ IsFiniteSet(lower)
  <2>1. IsFiniteSet({"eth1"}) /\ IsFiniteSet({"eth0"} \cup {"eth1"} \cup {"bond0"})
    <3>1. IsFiniteSet({"eth0"}) /\ IsFiniteSet({"eth1"}) /\ IsFiniteSet({"bond0"})
      BY FS_Singleton
    <3>2. IsFiniteSet({"eth0"} \cup {"eth1"})
      BY <3>1, FS_Union
    <3> QED BY <3>1, <3>2, FS_Union
  <2>2. Ports!Names = {"eth0"} \cup {"eth1"} \cup {"bond0"}
    BY DEF Ports!Names
  <2> HIDE DEF ports, lower
  <2> QED BY <1>1, <1>2, <2>1, <2>2, FS_Subset
<1> HIDE DEF ports, lower
<1>4. /\ a \in Seq(lower) /\ \A x \in lower : \E i \in 1..Len(a) : a[i] = x
      /\ b \in Seq(ports)
  BY <1>3, PortsOrder
<1> HIDE DEF a, b
<1>5. /\ Len(a) \in Nat /\ Len(b) \in Nat /\ Len(devs) = Len(a) + Len(b)
      /\ DOMAIN devs = 1..Len(devs)
      /\ \A i \in 1..(Len(a) + Len(b)) : devs[i] = IF i <= Len(a) THEN a[i] ELSE b[i - Len(a)]
  <2>1. a \in Seq(lower \cup ports) /\ b \in Seq(lower \cup ports)
    <3>1. lower \subseteq lower \cup ports /\ ports \subseteq lower \cup ports
      OBVIOUS
    <3> QED BY <1>4, <3>1, SeqMonotonic
  <2>2. devs \in Seq(lower \cup ports)
    BY <2>1, ConcatProperties
  <2> QED BY <2>1, <2>2, ConcatProperties, LenProperties
<1>6. Ports!MtuDevices(nics, data_port) = devs
  BY DEF Ports!MtuDevices, a, b, lower, ports
<1> HIDE DEF devs
<1> SUFFICES ASSUME NEW i \in DOMAIN devs, NEW l \in Ports!LowerDevices(nics, devs[i])
             PROVE  \E j \in 1..i : devs[j] = l
  BY <1>6
<1>7. CASE i <= Len(a)
  <2>1. i \in 1..Len(a)
    BY <1>5, <1>7
  <2>2. devs[i] \in lower
    BY <1>4, <1>5, <1>7, <2>1, ElementOfSeq
  <2> QED BY <1>2, <2>2 DEF Ports!LowerDevices
<1>8. CASE ~(i <= Len(a))
  <2>1. i - Len(a) \in 1..Len(b) /\ devs[i] = b[i - Len(a)]
    BY <1>5, <1>8
  <2>2. devs[i] \in ports
    BY <1>4, <2>1, ElementOfSeq
  <2>3. l \in lower
    BY <2>2 DEF lower
  <2>4. PICK j \in 1..Len(a) : a[j] = l
    BY <1>4, <2>3
  <2>5. j \in 1..i /\ j \in 1..(Len(a) + Len(b)) /\ j <= Len(a)
    BY <1>5, <1>8
  <2> QED BY <1>5, <2>4, <2>5
<1> QED BY <1>7, <1>8

LEMMA PortsGive == PortsTypeOK => Ports!PortsRight
<1> SUFFICES ASSUME PortsTypeOK PROVE Ports!PortsRight
  OBVIOUS
<1> DEFINE portmap == Ports!parse_data_port_mappings(data_port)
           ctxt == Ports!DataPortContext(nics, data_port)
           Used == nics.address \cup nics.member
           EntryOf_(nic) == IF nic \in DOMAIN portmap THEN nic ELSE Ports!get_nic_hwaddr(nic)
<1>1. DOMAIN ctxt = Ports!resolve_ports(nics, DOMAIN portmap)
      /\ \A nic \in DOMAIN ctxt : ctxt[nic] = portmap[EntryOf_(nic)]
  BY DEF Ports!DataPortContext
<1>2. nics \in Ports!Host /\ data_port \in Seq(Mappings)
  BY DEF PortsTypeOK
<1>3. \A i \in DOMAIN data_port : data_port[i] \in Mappings
  BY <1>2, LenProperties, ElementOfSeq
<1> DEFINE Via(nic) == \/ nic \in DOMAIN portmap /\ nic \in Ports!list_nics(nics)
                       \/ \E mac \in DOMAIN portmap \cap Ports!Macs :
                             nic \in Ports!CardsWith(nics, mac) \ Used
<1>4. ASSUME NEW nic \in DOMAIN ctxt PROVE Via(nic)
  <2> HIDE DEF portmap, ctxt
  <2>1. nic \in Ports!resolve_ports(nics, DOMAIN portmap)
    BY <1>1
  <2> QED BY <2>1, Resolved
<1>5. ASSUME NEW nic \in DOMAIN ctxt
      PROVE  /\ nic \in Ports!list_nics(nics) /\ nic \in Ports!Names
             /\ EntryOf_(nic) \in DOMAIN portmap
             /\ EntryOf_(nic) \in Ports!Names \cup Ports!Macs
             /\ nic \notin DOMAIN portmap =>
                   /\ nic \notin Used /\ Ports!get_bond_master(nics, nic) = "None"
                   /\ EntryOf_(nic) \in Ports!Macs
                   /\ nic \in Ports!CardsWith(nics, EntryOf_(nic))
  <2>1. Ports!list_nics(nics) \subseteq Ports!Names
    BY <1>2 DEF Ports!list_nics, Ports!Host, Ports!Names
  <2>2. \A mac \in Ports!Macs : \A n \in Ports!CardsWith(nics, mac) :
           /\ Ports!get_nic_hwaddr(n) = mac /\ n \in Ports!list_nics(nics)
           /\ Ports!get_bond_master(nics, n) = "None"
    BY <1>2, CardOfAddress
  <2> HIDE DEF portmap, ctxt
  <2>3. Via(nic)
    BY <1>4
  <2> QED BY <2>1, <2>2, <2>3
<1>6. \A e \in Ports!Names \cup Ports!Macs : e \in DOMAIN portmap =>
         \E i \in DOMAIN data_port :
            /\ data_port[i][2] = e
            /\ \/ data_port[i][1] # "none" /\ portmap[e] = data_port[i][1]
               \/ data_port[i][1] = "none" /\ portmap[e] = Ports!DEFAULT_BRIDGE
  BY <1>2, MappedAsGiven
<1>7. ASSUME NEW i \in DOMAIN data_port, data_port[i][1] # "none", data_port[i][2] \in Ports!Macs
      PROVE  Ports!CardsWith(nics, data_port[i][2]) \ Used \subseteq DOMAIN ctxt
  <2>1. data_port[i][2] \in DOMAIN portmap
    BY <1>2, <1>7, MappedAsGiven
  <2> HIDE DEF portmap, ctxt
  <2>2. \A nic \in Ports!CardsWith(nics, data_port[i][2]) \ Used :
            nic \in Ports!resolve_ports(nics, DOMAIN portmap)
    BY <1>7, <2>1, Resolved
  <2> QED BY <1>1, <2>2
<1>8. ASSUME NEW nic \in DOMAIN ctxt
      PROVE  /\ Ports!Given(nic, ctxt[nic])
             /\ nic \in DOMAIN portmap => Ports!ByName(nic)
  <2> HIDE DEF portmap, ctxt
  <2>1. PICK i \in DOMAIN data_port :
           /\ data_port[i][2] = EntryOf_(nic)
           /\ \/ data_port[i][1] # "none" /\ portmap[EntryOf_(nic)] = data_port[i][1]
              \/ data_port[i][1] = "none" /\ portmap[EntryOf_(nic)] = Ports!DEFAULT_BRIDGE
    BY <1>5, <1>6
  <2>2. ctxt[nic] = portmap[EntryOf_(nic)] /\ EntryOf_(nic) \in {nic, Ports!get_nic_hwaddr(nic)}
    BY <1>1
  <2>3. Ports!Given(nic, ctxt[nic])
    BY <2>1, <2>2 DEF Ports!Given
  <2>4. nic \in DOMAIN portmap => Ports!ByName(nic)
    BY <2>1 DEF Ports!ByName
  <2> QED BY <2>3, <2>4
<1>9. Ports!FreePortsOnly
  <2>1. ASSUME NEW nic \in Ports!ExternalPorts(nics, data_port)
        PROVE  Ports!ByName(nic) \/ nic \notin Used
    <3> DEFINE entries == {data_port[i][2] : i \in DOMAIN data_port}
    <3>1. nic \in Ports!resolve_ports(nics, entries)
      BY <2>1 DEF Ports!ExternalPorts
    <3>2. nic \in entries \/ nic \notin Used
      <4> HIDE DEF entries
      <4> QED BY <3>1, Resolved
    <3> QED BY <3>2 DEF Ports!ByName
  <2>2. LET devs == Ports!MtuDevices(nics, data_port)
        IN  \A i \in DOMAIN devs : \A l \in Ports!LowerDevices(nics, devs[i]) :
                \E j \in 1..i : devs[j] = l
    BY LowerDevicesFirst
  <2>3. \A nic \in DOMAIN ctxt :
             /\ nic \in Ports!list_nics(nics)
             /\ Ports!Given(nic, ctxt[nic])
             /\ ~Ports!ByName(nic) => /\ nic \notin Used
                                      /\ Ports!get_bond_master(nics, nic) = "None"
    BY <1>5, <1>8
  <2> HIDE DEF ctxt
  <2> QED BY <1>7, <2>1, <2>2, <2>3 DEF Ports!FreePortsOnly, ctxt
<1>10. Ports!MapCompatible
  <2> SUFFICES ASSUME \A i \in DOMAIN data_port : data_port[i][1] # "none",
                      NEW nic \in DOMAIN ctxt
               PROVE  <<ctxt[nic], nic, nic>> \in Ports!BridgePortInterfaceMap(nics, data_port)
    BY DEF Ports!MapCompatible
  <2> HIDE DEF portmap, ctxt
  <2>1. PICK i \in DOMAIN data_port :
           data_port[i][2] = EntryOf_(nic) /\ portmap[EntryOf_(nic)] = data_port[i][1]
    BY <1>5, <1>6
  <2>2. ctxt[nic] = data_port[i][1]
    BY <1>1, <2>1
  <2>3. <<ctxt[nic], nic, nic>> \in Ports!MappedInterfaces(nics, data_port[i])
    <3>1. CASE nic \in DOMAIN portmap
      <4>1. data_port[i][2] = nic /\ nic \notin Ports!Macs
        BY <1>5, <2>1, <3>1 DEF Ports!Names, Ports!Macs
      <4> QED BY <2>2, <4>1 DEF Ports!MappedInterfaces
    <3>2. CASE nic \notin DOMAIN portmap
      <4>1. data_port[i][2] \in Ports!Macs /\ nic \in Ports!CardsWith(nics, data_port[i][2])
        BY <1>5, <2>1, <3>2
      <4> QED BY <2>2, <4>1 DEF Ports!MappedInterfaces
    <3> QED BY <3>1, <3>2
  <2> QED BY <2>3 DEF Ports!BridgePortInterfaceMap
<1> QED BY <1>9, <1>10 DEF Ports!PortsRight

\* A card becomes a data port only on a bridge the config gives it, and by its address only
\* when nothing else uses it, and every free card with a mapping does, for any bridges and
\* mappings.
THEOREM PortsAsMapped == AllSpec => []PortsRight
<1> DEFINE Inv == part = "ports" => PortsTypeOK
<1>1. AllInit => Inv
  BY PortsInitial DEF AllInit
<1>2. Inv /\ [AllNext]_all_vars => Inv'
  BY DeviceParts, PortsInductive
<1>3. Inv => PortsRight
  BY PortsGive DEF PortsRight
<1> QED BY <1>1, <1>2, <1>3, PTL DEF AllSpec
=============================================================================
