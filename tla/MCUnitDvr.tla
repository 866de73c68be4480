------------------------------ MODULE MCUnitDvr ------------------------------
(***************************************************************************)
(* A unit with DVR (decided by the neutron-plugin-api relation) and local  *)
(* DHCP and metadata (decided by the charm config): the agents that the    *)
(* hooks install and purge.  The metadata agent serves both.               *)
(***************************************************************************)
EXTENDS UnitInvariant, TLC

MCFiles == {"openvswitch-switch", "neutron.conf", "metadata_agent.ini"}
MCServices == {"ovs", "ovs-agent", "l3-agent", "metadata-agent", "dhcp-agent"}

MCUsers ==
    ("openvswitch-switch" :> {"ovs"}) @@
    ("neutron.conf" :> MCServices \ {"ovs"}) @@
    ("metadata_agent.ini" :> {"metadata-agent"})
MCNeeds ==
    [s \in MCServices |-> CASE s = "l3-agent" -> {"dvr"}
                            [] s = "dhcp-agent" -> {"dhcp"}
                            [] s = "metadata-agent" -> {"dvr", "dhcp"}
                            [] OTHER -> {}]
MCFileNeeds ==
    [f \in MCFiles |-> IF f = "metadata_agent.ini" THEN {"dvr", "dhcp"} ELSE {}]
MCReads ==
    ("openvswitch-switch" :> {"neutron-control-relation-changed"}) @@
    ("neutron.conf" :> {"amqp-relation-changed"}) @@
    ("metadata_agent.ini" :> {"neutron-plugin-api-relation-changed"})
MCFeatureHook == ("dvr" :> "neutron-plugin-api-relation-changed") @@
                 ("dhcp" :> "config-changed")
MCSymmetry == Permutations(Values)
=============================================================================
