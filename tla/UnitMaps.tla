------------------------------ MODULE UnitMaps ------------------------------
(***************************************************************************)
(* Which services and which configuration files a unit manages, as a table *)
(* over its optional features.  UnitLifecycle is built on this table;      *)
(* ResourceMap shows that resource_map() computes one.                     *)
(***************************************************************************)
CONSTANTS
    Files,        \* managed configuration files
    Services,     \* services named by restart_map()
    Features,     \* optional features: DVR, local DHCP, SR-IOV, ...
    Users,        \* [Files -> SUBSET Services]: restart_map(), all features on
    Needs,        \* [Services -> SUBSET Features]: any of them brings it in
    FileNeeds     \* [Files -> SUBSET Features]: likewise for the file

ASSUME TableAssumption ==
    /\ Users \in [Files -> SUBSET Services]
    /\ Needs \in [Services -> SUBSET Features]
    /\ FileNeeds \in [Files -> SUBSET Features]

\* A file comes with one of its services: where the file is managed, so is some
\* service that uses it.
FilesOwned ==
    \A f \in Files :
        Users[f] # {} =>
            \E s \in Users[f] :
                \/ Needs[s] = {}
                \/ FileNeeds[f] # {} /\ FileNeeds[f] \subseteq Needs[s]
ASSUME OwnerAssumption == FilesOwned

Base == {s \in Services : Needs[s] = {}}

\* services(), restart_map() and the files registered with the renderer.
Managed(on)      == {s \in Services : Needs[s] = {} \/ Needs[s] \cap on # {}}
RestartMap(f, on) == Users[f] \cap Managed(on)
Registered(on)   == {f \in Files : FileNeeds[f] = {} \/ FileNeeds[f] \cap on # {}}
=============================================================================
