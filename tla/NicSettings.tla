------------------------------ MODULE NicSettings ------------------------------
(***************************************************************************)
(* Settings of network cards: virtual functions for SR-IOV, bonds of DPDK  *)
(* interfaces and the cores that DPDK polls them with.                     *)
(***************************************************************************)
EXTENDS Naturals, Integers, Sequences, FiniteSets, SequencesExt, Functions

CONSTANTS
    Cards,
    VfTotals, VfRequests,  \* what a card may support, what sriov-numvfs may ask for
    Bonds,
    MaxEntries,  \* bound: entries of dpdk-bond-config
    cpulist,     \* of the NUMA nodes: a sequence of ranges each
    MaxCores     \* bound: dpdk-socket-cores

VARIABLES
    cards,  \* card -> VFs it supports; 0 when it is not capable of SR-IOV
    vfs,    \* sriov-numvfs and the devices of sriov-device-mappings
    bonds,  \* dpdk-bond-config
    cores   \* dpdk-socket-cores

nic_vars == <<cards, vfs, bonds, cores>>

NoPairs == <<>>  \* no <device>:<numvfs>

-----------------------------------------------------------------------------
\* sriov-numvfs that is neither "auto", a number nor <device>:<numvfs>, the empty one
\* included: RuntimeError, so there is no context and the hook fails.
UnableToDetermine(v) == v.numvfs = "other"

\* SRIOVContext: the mode that sriov-numvfs selects, unless UnableToDetermine.
sriov_config_mode(v) ==
    CASE v.numvfs = "auto" -> "auto"
      [] v.numvfs = "number" -> "blanket"
      [] v.numvfs = "pairs" -> "explicit"

\* Mutant: as many VFs as requested.
Uncapped(device, requested) == requested

\* _get_capped_numvfs
Capped(device, requested) ==
    IF requested > cards[device] THEN cards[device] ELSE requested

\* Devices that get a number of VFs: all that are capable, restricted to the
\* mapped ones in auto mode (if any is) and to the listed ones in explicit mode.
Configured(v) ==
    LET capable == {d \in Cards : cards[d] > 0}
    IN CASE sriov_config_mode(v) = "auto" /\ v.mapped # {} -> capable \cap v.mapped
         [] sriov_config_mode(v) = "explicit" -> capable \cap DOMAIN v.pairs
         [] OTHER -> capable

_determine_numvfs(v, device) ==
    CASE sriov_config_mode(v) = "auto" -> Capped(device, cards[device])
      [] sriov_config_mode(v) = "blanket" -> Capped(device, v.number)
      [] sriov_config_mode(v) = "explicit" -> Capped(device, v.pairs[device])

\* The VFs of each device, unless UnableToDetermine.
SRIOVContext(v) == [d \in Configured(v) |-> _determine_numvfs(v, d)]

-----------------------------------------------------------------------------
\* DPDKBondsConfig, BondConfig: an entry's empty fields take the defaults; an
\* invalid one raises.
ALL_BONDS == "ALL_BONDS"
DefaultMode == "balance-tcp"
BOND_MODES == {"active-backup", "balance-slb", DefaultMode}
Entries == [bond : Bonds \cup {""}, mode : {"", "active-backup", "invalid"}]

BondOf(e) == IF e.bond = "" THEN ALL_BONDS ELSE e.bond
ModeOf(e) == IF e.mode = "" THEN DefaultMode ELSE e.mode

Valid(entries) == \A i \in DOMAIN entries : ModeOf(entries[i]) \in BOND_MODES

\* The last entry of a bond counts.
lacp_config(entries) ==
    FoldLeft(LAMBDA c, e : [b \in DOMAIN c \cup {BondOf(e)} |-> IF b = BondOf(e) THEN ModeOf(e) ELSE c[b]],
             [b \in {ALL_BONDS} |-> DefaultMode], entries)

get_bond_config(entries, bond) ==
    LET c == lacp_config(entries) IN IF bond \in DOMAIN c THEN c[bond] ELSE c[ALL_BONDS]

-----------------------------------------------------------------------------
\* parse_cpu_list
parse_cpu_list(ranges) ==
    FoldLeft(LAMBDA list, r : list \o [i \in 1..(r[2] - r[1] + 1) |-> r[1] + i - 1], <<>>, ranges)

numa_node_cores == [n \in DOMAIN cpulist |-> parse_cpu_list(cpulist[n])]

\* cpu_mask: the bits that are set.
cpu_mask(num_cores) ==
    UNION {ToSet(SubSeq(numa_node_cores[n], 1,
                        IF num_cores < Len(numa_node_cores[n]) THEN num_cores
                        ELSE Len(numa_node_cores[n]))) : n \in DOMAIN numa_node_cores}

-----------------------------------------------------------------------------
Init ==
    /\ cards = [c \in Cards |-> 0]
    /\ vfs = [numvfs |-> "auto", number |-> 0, pairs |-> NoPairs, mapped |-> {}]
    /\ bonds = <<>>
    /\ cores = 0

Plug(c) ==
    /\ \E n \in VfTotals : cards' = [cards EXCEPT ![c] = n]
    /\ UNCHANGED <<vfs, bonds, cores>>

SetNumVfs ==
    /\ \/ \E kind \in {"auto", "other"} :
             vfs' = [vfs EXCEPT !.numvfs = kind, !.number = 0, !.pairs = NoPairs]
       \/ \E n \in VfRequests :
             vfs' = [vfs EXCEPT !.numvfs = "number", !.number = n, !.pairs = NoPairs]
       \/ \E c \in Cards, n \in VfRequests :
             vfs' = [vfs EXCEPT !.numvfs = "pairs", !.number = 0,
                                !.pairs = [d \in DOMAIN @ \cup {c} |-> IF d = c THEN n ELSE @[d]]]
    /\ UNCHANGED <<cards, bonds, cores>>

MapDevice(c) ==
    /\ vfs' = [vfs EXCEPT !.mapped = @ \cup {c}]
    /\ UNCHANGED <<cards, bonds, cores>>

AddEntry(e) ==
    /\ Len(bonds) < MaxEntries
    /\ bonds' = Append(bonds, e)
    /\ UNCHANGED <<cards, vfs, cores>>

SetCores ==
    /\ cores < MaxCores
    /\ cores' = cores + 1
    /\ UNCHANGED <<cards, vfs, bonds>>

Next ==
    \/ \E c \in Cards : Plug(c) \/ MapDevice(c)
    \/ SetNumVfs
    \/ \E e \in Entries : AddEntry(e)
    \/ SetCores

Spec == Init /\ [][Next]_nic_vars

-----------------------------------------------------------------------------
\* A card is never asked for more VFs than it has, which would fail for good, nor
\* is one that has none, or that the config does not mean.  (SRIOVContext)
VfsWithinCards ==
    ~UnableToDetermine(vfs) =>
    LET ctxt == SRIOVContext(vfs)
    IN \A d \in DOMAIN ctxt :
          /\ cards[d] > 0 /\ ctxt[d] <= cards[d]
          /\ vfs.numvfs = "auto" => ctxt[d] = cards[d] /\ (vfs.mapped # {} => d \in vfs.mapped)
          /\ vfs.numvfs = "pairs" => d \in DOMAIN vfs.pairs

\* Whatever the order of the entries, an entry for one bond is not overridden by
\* one for all of them, and a bond without an entry takes that.
\* (DPDKBondsConfig, BondConfig)
OwnEntryWins ==
    Valid(bonds) =>
        \A b \in Bonds :
            LET own == {i \in DOMAIN bonds : bonds[i].bond = b}
                all == {i \in DOMAIN bonds : bonds[i].bond = ""}
                newest(s) == CHOOSE i \in s : \A j \in s : j <= i
            IN get_bond_config(bonds, b) =
                  IF own # {} THEN ModeOf(bonds[newest(own)])
                  ELSE IF all # {} THEN ModeOf(bonds[newest(all)]) ELSE DefaultMode

\* Every NUMA node polls with as many of its cores as configured, or with all it
\* has, so that no socket's cards are left without a core.  (cpu_mask)
EveryNodePolls ==
    \A n \in DOMAIN cpulist :
        LET of == ToSet(numa_node_cores[n])
        IN Cardinality(cpu_mask(cores) \cap of) =
              IF cores < Cardinality(of) THEN cores ELSE Cardinality(of)

\* No card gets more VFs than it has, its own entry wins, and every NUMA node has a core
\* that polls.  (NeutronPortContext, sriov, OVSDPDKDeviceContext)
NicsRight == VfsWithinCards /\ OwnEntryWins /\ EveryNodePolls
=============================================================================
