--------------------------- MODULE UnitInvariant ---------------------------
(***************************************************************************)
(* The inductive invariants behind the safety properties of UnitLifecycle: *)
(* what is true between any two steps of a hook, and not only between two  *)
(* hooks.                                                                  *)
(***************************************************************************)
EXTENDS UnitLifecycle

Agents == Base \ {OVS}
RunsHooks == {"config-changed", "neutron-plugin-api-relation-changed"}

\* Which hook can be at which step.
Sequenced ==
    /\ pc = "idle" <=> hook = "none"
    /\ hook # "none" => failed = "none"
    /\ pc \in {"packages", "restart_ovs", "configure_ovs"} => hook \in RunsHooks
    /\ pc = "write" => hook \in Writers \cup {"post-series-upgrade"}
    /\ pc = "joined" => hook \in RunsHooks \cup {"neutron-plugin-relation-joined"}
    /\ pc = "restart" => hook \in Writers
    /\ pc = "pause" => hook \in {"pause", "pre-series-upgrade"}
    /\ pc = "resume" => hook \in {"resume", "post-series-upgrade"}
    /\ hook = "neutron-plugin-relation-joined" => changed = {}

\* A stop-start restart has at most one service down, which is the next to start.
HalfOK ==
    /\ half # {} => pc = "restart" /\ hook = "neutron-control-relation-changed"
    /\ half \subseteq todo
    /\ half \cap running = {}
    /\ \A s, t \in half : s = t

\* The base packages are never purged.
BaseInstalled == Base \subseteq installed

\* The flags and the queue around a series upgrade.
FlagsOK ==
    /\ failed = "none"
    /\ "post-series-upgrade" \in due => series /\ hook # "post-series-upgrade"
    /\ hook = "none" => /\ upgrading = series
                        /\ upgrading => paused
    /\ hook = "pre-series-upgrade" => /\ upgrading /\ ~series
                                      /\ pc = "assess" => paused
    /\ hook = "post-series-upgrade" => ~upgrading /\ ~paused
    /\ hook \notin Series \cup {"none"} => ~upgrading /\ ~series

\* Open vSwitch runs, or is being restarted, outside a series upgrade.
OvsKept ==
    /\ ~upgrading /\ hook # "post-series-upgrade"
          => OVS \notin masked /\ OVS \in running \cup half
    /\ hook = "pause" => OVS \notin todo

\* A unit that is not paused, and is not just about to be or no longer to be.
AgentsUp ==
    /\ ~paused /\ pc \notin {"pause", "resume"} /\ hook # "post-series-upgrade"
          => Base \cap masked = {} /\ Base \subseteq running \cup half
    /\ pc = "resume" => Base \ (todo \cup (IF hook = "resume" THEN {OVS} ELSE {}))
                            \subseteq running \ masked
    /\ pc = "assess" /\ hook = "post-series-upgrade" => Base \subseteq running \ masked

\* A paused unit, and one that is being paused.
AgentsDown ==
    /\ paused /\ pc # "resume" => Agents \subseteq masked \ running
    /\ pc = "pause" => Agents \ todo \subseteq masked \ running
    /\ pc = "write" /\ hook = "post-series-upgrade" => Agents \cap running = {}
    /\ pc = "restart" /\ paused => todo = {}

\* An agent that runs on an older file is one the hook knows it has to restart.
StaleKnown ==
    /\ pc \in {"idle", "packages", "pause", "resume", "assess"} => Agents \cap stale = {}
    /\ pc \in {"write", "restart_ovs", "configure_ovs", "joined"}
          => \A s \in Agents \cap stale : \E f \in changed : s \in Users[f]
    /\ pc = "restart" => Agents \cap stale \subseteq todo

Untroubled == FlagsOK /\ OvsKept /\ AgentsUp /\ AgentsDown /\ StaleKnown

\* Between any two steps of an untroubled unit.  (Implies BaseUp, BaseQuiet,
\* AgentsFresh and OvsUp.)
UnitInv ==
    /\ Sequenced
    /\ HalfOK
    /\ BaseInstalled
    /\ ~troubled => Untroubled

-----------------------------------------------------------------------------
\* The hook that runs has read the current inputs, or another one is queued.
ViewCurrent ==
    hook # "none" => \/ view = want /\ viewFeatures = features
                     \/ due \cap Writers # {}

\* What a writing hook has written so far is what the inputs say.
WrittenCurrent ==
    pc = "write" /\ hook \in Writers
        => \/ \A f \in Registered(features) \ todo : disk[f] = want[f]
           \/ due \cap Writers # {}

\* An outdated file has a hook that will write it, or one that has put it off.
OutdatedPending ==
    \/ \A f \in Registered(features) : disk[f] = want[f]
    \/ due \cap Writers # {}
    \/ failed \in Writers
    \/ deferred # {}
    \/ hook \in Writers /\ pc \in {"packages", "write"}

\* Between any two steps of any unit, faults included.  (Implies Delivered.)
DeliveryInv == Sequenced /\ ViewCurrent /\ WrittenCurrent /\ OutdatedPending

-----------------------------------------------------------------------------
\* What decides a feature and what its absence purges: the relation decides DVR,
\* the charm config all others, and only DVR and local DHCP have packages that go.
ASSUME PurgeAssumption ==
    /\ \A e \in Features :
           FeatureHook[e] = IF e = DVR THEN "neutron-plugin-api-relation-changed"
                                       ELSE "config-changed"
    /\ \A s \in DvrPurged \cup JoinedPurged :
           /\ Needs[s] \subseteq {DVR, DHCP}
           /\ s \in DvrPurged <=> DVR \in Needs[s]
           /\ s \in JoinedPurged <=> DHCP \in Needs[s]

UpToJoined == {"packages", "write", "restart_ovs", "configure_ovs", "joined"}

\* Hook h has still to run, or runs and is at one of the given steps.
Pending(h, steps) ==
    \/ h \in due
    \/ failed = h
    \/ hook = h /\ pc \in steps
    \/ h \in deferred /\ (hook = h => pc = "assess")

\* A feature that changed under the hook that runs has its own hook queued.
ViewFollowed ==
    hook # "none" =>
        \A e \in Features : (e \in viewFeatures <=> e \in features) \/ FeatureHook[e] \in due

\* The hook of a feature whose package is missing has not got past its apt commands.
MissingPending ==
    \A s \in Services \ installed : \A e \in Needs[s] \cap features :
        Pending(FeatureHook[e], {"packages"})

\* Likewise for a package nobody needs any more.
SurplusPending ==
    \A s \in ((DvrPurged \cup JoinedPurged) \cap installed) \ Managed(features) :
        \/ s \in DvrPurged /\ Pending("neutron-plugin-api-relation-changed", {"packages"})
        \/ s \in JoinedPurged /\ Pending("config-changed", UpToJoined)

\* Between any two steps of any unit, faults included.  (With UnitInv implies Provisioned.)
ProvisionInv == ViewFollowed /\ MissingPending /\ SurplusPending
=============================================================================
