----------------------------- MODULE MCUnitSriov -----------------------------
(***************************************************************************)
(* A unit with the Open vSwitch agent and, optionally, the SR-IOV agent,   *)
(* whose package the charm never purges.                                   *)
(***************************************************************************)
EXTENDS UnitInvariant, TLC

MCFiles == {"openvswitch-switch", "neutron.conf", "sriov_agent.ini"}
MCServices == {"ovs", "ovs-agent", "sriov-agent"}

MCUsers ==
    ("openvswitch-switch" :> {"ovs"}) @@
    ("neutron.conf" :> {"ovs-agent", "sriov-agent"}) @@
    ("sriov_agent.ini" :> {"sriov-agent"})
MCNeeds == [s \in MCServices |-> IF s = "sriov-agent" THEN {"sriov"} ELSE {}]
MCFileNeeds == [f \in MCFiles |-> IF f = "sriov_agent.ini" THEN {"sriov"} ELSE {}]
MCReads ==
    ("openvswitch-switch" :> {"config-changed",
                              "neutron-control-relation-changed"}) @@
    ("neutron.conf" :> {"neutron-plugin-api-relation-changed",
                        "amqp-relation-changed"}) @@
    ("sriov_agent.ini" :> {})
MCReadsFew == [MCReads EXCEPT !["neutron.conf"] = {"amqp-relation-changed"},
                              !["openvswitch-switch"] = {"config-changed"}]
MCFeatureHook == [e \in {"sriov"} |-> "config-changed"]

MCSymmetry == Permutations(Values)
=============================================================================
