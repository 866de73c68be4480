-------------------------------- MODULE Cleanup --------------------------------
(***************************************************************************)
(* actions/cleanup.py: removes what the Neutron agents have left on the    *)
(* host (patch ports, the tunnel bridge, OVSDB controllers, namespaces,    *)
(* ipsets), one command after the other.  Any command can fail and the     *)
(* action can be killed; Juju does not retry an action, the operator runs  *)
(* it again.  When the unit is resumed the agents put everything back.     *)
(***************************************************************************)
EXTENDS Naturals, Sequences, FiniteSets

CONSTANTS
    Physical,  \* data bridges, each patched to br-int by the agent
    MaxFaults  \* bound: actions that end half way

ASSUME CleanupAssumption == IsFiniteSet(Physical) /\ MaxFaults \in Nat

INT_BRIDGE == "br-int"
TUN_BRIDGE == "br-tun"
Peers   == Physical \cup {TUN_BRIDGE}
Bridges == Peers \cup {INT_BRIDGE}

\* A patch is two ports: <<INT_BRIDGE, b>> on br-int and <<b, INT_BRIDGE>> on b.
Ends == ({INT_BRIDGE} \X Peers) \cup (Peers \X {INT_BRIDGE})

VARIABLES
    paused,      \* the unit-paused flag; the agents run when it is not set
    tun,         \* br-tun exists
    ends,        \* patch ports
    controllers, \* bridges with a controller
    netns,       \* namespaces of Neutron
    ipsets,      \* ipsets of Neutron
    filters,     \* the temporary rootwrap filters are there
    pc,          \* the next step of the action; "none" when it does not run
    todo,        \* patches or bridges the current loop still has to visit
    half,        \* the patch whose first end is removed
    done,        \* the action ran through, and the agents have not run since
    faults       \* how many actions ended half way

host == <<tun, ends, controllers, netns, ipsets>>
vars == <<paused, host, filters, pc, todo, half, done, faults>>

-----------------------------------------------------------------------------
\* The agents set up all of it when they start.
AgentsRun ==
    /\ tun' = TRUE
    /\ ends' = Ends
    /\ controllers' = Bridges
    /\ netns' = TRUE
    /\ ipsets' = TRUE

Init ==
    /\ paused = FALSE
    /\ tun = TRUE
    /\ ends = Ends
    /\ controllers = Bridges
    /\ netns = TRUE
    /\ ipsets = TRUE
    /\ filters = FALSE
    /\ pc = "none"
    /\ todo = {}
    /\ half = {}
    /\ done = FALSE
    /\ faults = 0

\* The pause action stops the agents and leaves their state on the host.
Pause ==
    /\ pc = "none"
    /\ paused' = TRUE
    /\ UNCHANGED <<host, filters, pc, todo, half, done, faults>>

Resume ==
    /\ pc = "none"
    /\ paused' = FALSE
    /\ AgentsRun
    /\ done' = FALSE
    /\ UNCHANGED <<filters, pc, todo, half, faults>>

\* Mutant: does not ask whether the unit is paused.
CleanupUnchecked ==
    /\ pc = "none"
    /\ pc' = "patches"
    /\ todo' = {e \in ends : e[1] = INT_BRIDGE}
    /\ done' = FALSE
    /\ UNCHANGED <<paused, host, filters, half, faults>>

\* The prerequisites (firewall-driver and i-really-mean-it are given), and all
\* patch ports on br-int, looked up before anything is removed.
CleanupAction ==
    /\ pc = "none"
    /\ paused
    /\ pc' = "patches"
    /\ todo' = {e \in ends : e[1] = INT_BRIDGE}
    /\ done' = FALSE
    /\ UNCHANGED <<paused, host, filters, half, faults>>

RemoveThisEnd(e) ==
    /\ pc = "patches"
    /\ half = {}
    /\ e \in todo
    /\ half' = {e}
    /\ todo' = todo \ {e}
    /\ ends' = ends \ {e}
    /\ UNCHANGED <<paused, tun, controllers, netns, ipsets, filters, pc, done, faults>>

RemoveOtherEnd(e) ==
    /\ pc = "patches"
    /\ e \in half
    /\ half' = {}
    /\ ends' = ends \ {<<e[2], e[1]>>}
    /\ UNCHANGED <<paused, tun, controllers, netns, ipsets, filters, pc, todo, done, faults>>

\* The tunnel bridge goes with the ports it has.
DeleteTunnelBridge ==
    /\ pc = "patches"
    /\ todo = {} /\ half = {}
    /\ tun' = FALSE
    /\ ends' = {e \in ends : e[1] # TUN_BRIDGE}
    /\ controllers' = controllers \ {TUN_BRIDGE}
    /\ todo' = controllers'
    /\ pc' = "controllers"
    /\ UNCHANGED <<paused, netns, ipsets, filters, half, done, faults>>

RemoveController(b) ==
    /\ pc = "controllers"
    /\ b \in todo
    /\ controllers' = controllers \ {b}
    /\ todo' = todo \ {b}
    /\ UNCHANGED <<paused, tun, ends, netns, ipsets, filters, pc, half, done, faults>>

\* neutron_netns_cleanup: net-tools are there, the filters are written.
WriteFilters ==
    /\ pc = "controllers"
    /\ todo = {}
    /\ filters' = TRUE
    /\ pc' = "netns"
    /\ UNCHANGED <<paused, host, todo, half, done, faults>>

NetnsCleanup ==
    /\ pc = "netns"
    /\ netns' = FALSE
    /\ pc' = "unlink"
    /\ UNCHANGED <<paused, tun, ends, controllers, ipsets, filters, todo, half, done, faults>>

\* Mutant: leaves the filters to the next run.
UnlinkNothing ==
    /\ pc = "unlink"
    /\ pc' = "ipset"
    /\ UNCHANGED <<paused, host, filters, todo, half, done, faults>>

UnlinkFilters ==
    /\ pc = "unlink"
    /\ filters' = FALSE
    /\ pc' = "ipset"
    /\ UNCHANGED <<paused, host, todo, half, done, faults>>

IpsetCleanup ==
    /\ pc = "ipset"
    /\ ipsets' = FALSE
    /\ pc' = "none"
    /\ done' = TRUE
    /\ UNCHANGED <<paused, tun, ends, controllers, netns, filters, todo, half, faults>>

\* A command fails, or the action is killed; main() reports it.
EndHalfWay ==
    /\ pc # "none"
    /\ faults < MaxFaults
    /\ faults' = faults + 1
    /\ pc' = "none"
    /\ todo' = {}
    /\ half' = {}
    /\ UNCHANGED <<paused, host, filters, done>>

Next ==
    \/ Pause
    \/ Resume
    \/ CleanupAction
    \/ \E e \in Ends : RemoveThisEnd(e) \/ RemoveOtherEnd(e)
    \/ DeleteTunnelBridge
    \/ \E b \in Bridges : RemoveController(b)
    \/ WriteFilters
    \/ NetnsCleanup
    \/ UnlinkFilters
    \/ IpsetCleanup
    \/ EndHalfWay

Spec == Init /\ [][Next]_vars

-----------------------------------------------------------------------------
\* After an action that ran through, the integration bridge is cut off and
\* nothing of the agents is left on the host, nor the rootwrap filters of the
\* action, however many actions ended half way before.  (cleanup)
CleanedUp ==
    done =>
        /\ ~tun /\ ~netns /\ ~ipsets /\ ~filters
        /\ controllers = {}
        /\ \A e \in ends : INT_BRIDGE # e[1] /\ TUN_BRIDGE \notin {e[1], e[2]}

\* The next action finds both ends of every patch port on br-int: it never asks
\* for the bridge of a peer that is gone, which would make it fail for good.
\* (remove_patch_ports, patch_ports_on_bridge)
PeersThere ==
    \A e \in ends : e[1] = INT_BRIDGE => <<e[2], e[1]>> \in ends

\* When cleanup ends well nothing of the agents is left, and no patch is left with
\* one end only that a second run could not remove.  (cleanup, remove_patch_ports)
CleanupRight == CleanedUp /\ PeersThere

\* Nothing is taken from agents that run.  (UnitNotPaused)
OnlyWhilePaused ==
    [][host' # host /\ ends' \subseteq ends => paused]_vars

-----------------------------------------------------------------------------
\* What the documentation says and the code does not do.

\* cleanup.py:54 "Remove patch ports from both ends starting with named bridge.":
\* an action that ran through leaves no patch port of br-int, on either side.
PatchesRemoved == done => ends = {}
=============================================================================
