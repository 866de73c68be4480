------------------------------ MODULE Unit_proofs ------------------------------
(***************************************************************************)
(* The lifecycle of a unit, for every set of files, services and features  *)
(* and every restart map.  TypeOK and UnitInv are inductive, so the safety *)
(* properties hold; DeliveryInv and ProvisionInv are, so no change of the  *)
(* inputs is forgotten, in the files or in the packages, whatever fails.   *)
(***************************************************************************)
EXTENDS UnitInvariant, TLAPS

LEMMA ManagedType == \A on : Managed(on) \subseteq Services /\ Base \subseteq Managed(on)
  BY DEF Managed, Base

LEMMA RegisteredType == \A on : Registered(on) \subseteq Files
  BY DEF Registered

LEMMA ToRestartType == TypeOK => ToRestart \subseteq Services
  BY TableAssumption, FilesAssumption DEF TypeOK, ToRestart, RestartMap

LEMMA BaseType == Base \subseteq Services
  BY DEF Base

\* The effects that several actions share keep the host well typed.
LEMMA StartType ==
  ASSUME NEW S \in SUBSET Services, TypeOK, Start(S) \/ Restart(S)
  PROVE  running' \subseteq Services /\ stale' \subseteq running'
  BY DEF TypeOK, Start, Restart, CanStart

LEMMA PackagesType ==
  ASSUME NEW S \in SUBSET Services, TypeOK, Install(S) \/ Purge(S)
  PROVE  /\ disk' \in [Files -> Values \cup {Absent}]
         /\ installed' \subseteq Services
         /\ running' \subseteq Services
         /\ masked' \subseteq Services
         /\ stale' \subseteq running'
  BY DEF TypeOK, Install, Purge

LEMMA ExitType ==
  ASSUME Exit
  PROVE  /\ hook' \in Hooks \cup Actions \cup {"none"}
         /\ pc' \in Steps
         /\ view' \in [Files -> Values \cup {Absent}]
         /\ viewReady' \in BOOLEAN
         /\ viewFeatures' \subseteq Features
         /\ todo' \subseteq Files \cup Services
         /\ half' \subseteq Services
         /\ changed' \subseteq Files
  BY DEF Exit, NoView, Steps

LEMMA BeginType ==
  ASSUME TypeOK, NEW h \in Hooks \cup Actions, NEW step \in Steps,
         NEW work \in SUBSET (Files \cup Services), Begin(h, step, work),
         UNCHANGED flagVars \/ (paused' \in BOOLEAN /\ upgrading' \in BOOLEAN),
         deferred' \subseteq Writers
  PROVE  TypeOK'
  BY DEF TypeOK, Begin, inputVars, hostVars, flagVars

LEMMA TypeInductive == TypeOK /\ [Next]_vars => TypeOK'
<1> SUFFICES ASSUME TypeOK, [Next]_vars PROVE TypeOK'
  OBVIOUS
<1> USE ManagedType, RegisteredType, BaseType, TableAssumption, FilesAssumption,
        ServicesAssumption, OvsAssumption, BoundsAssumption
<1> USE DEF vars, inputVars, hostVars, flagVars, jujuVars, viewVars, runVars
<1>1. CASE Inputs
  <2>1. ASSUME NEW w \in Writers, SetInputs(w)
        PROVE  inputs' \in 0..MaxInputs /\ due' \subseteq Hooks
    BY <2>1 DEF SetInputs, TypeOK, Hooks
  <2>2. ASSUME NEW w \in Writers, ChangeData(w) PROVE TypeOK'
    <3>1. amqpReady' \in BOOLEAN
      BY <2>2, Zenon DEF ChangeData, TypeOK
    <3> QED BY <2>1, <2>2, <3>1 DEF ChangeData, SetInputs, TypeOK
  <2>3. ASSUME NEW e \in Features, ChangeFeature(e) PROVE TypeOK'
    <3>1. FeatureHook[e] \in Writers
      BY <2>3 DEF Writers
    <3> QED BY <2>1, <2>3, <3>1 DEF ChangeFeature, SetInputs, TypeOK
  <2> QED BY <1>1, <2>2, <2>3 DEF Inputs
<1>2. CASE Operator
  <2>1. CASE \E h \in Series : UpgradeSeries(h)
    BY <2>1 DEF UpgradeSeries, TypeOK, Hooks
  <2>2. CASE pause_action
    BY <2>2, BeginType DEF pause_action, TypeOK, Actions, Steps
  <2>3. CASE resume_action
    BY <2>3, BeginType DEF resume_action, TypeOK, Actions, Steps
  <2> QED BY <1>2, <2>1, <2>2, <2>3 DEF Operator
<1>3. CASE Dispatch \/ update_status
  <2>1. CASE config_changed
    BY <2>1, BeginType DEF config_changed, BeginHook, TypeOK, Hooks, Writers, Steps
  <2>2. CASE neutron_plugin_api_changed
    BY <2>2, BeginType DEF neutron_plugin_api_changed, BeginHook, TypeOK, Hooks, Writers, Steps
  <2>3. CASE neutron_plugin_joined
    BY <2>3, BeginType DEF neutron_plugin_joined, BeginHook, TypeOK, Hooks, Steps
  <2>4. CASE amqp_changed
    BY <2>4, BeginType DEF amqp_changed, BeginHook, TypeOK, Hooks, Writers, Steps
  <2>5. CASE restart_check
    BY <2>5, BeginType DEF restart_check, BeginHook, TypeOK, Hooks, Writers, Steps
  <2>6. CASE pre_series_upgrade
    BY <2>6, BeginType DEF pre_series_upgrade, BeginHook, TypeOK, Hooks, Series, Steps
  <2>7. CASE post_series_upgrade
    BY <2>7, BeginType DEF post_series_upgrade, BeginHook, TypeOK, Hooks, Series, Steps
  <2>8. CASE update_status
    BY <2>8, BeginType DEF update_status, TypeOK, Hooks, Steps
  <2> QED BY <1>3, <2>1, <2>2, <2>3, <2>4, <2>5, <2>6, <2>7, <2>8 DEF Dispatch
<1>4. CASE Step
  <2>1. CASE Packages
    <3>1. /\ disk' \in [Files -> Values \cup {Absent}]
          /\ installed' \subseteq Services
          /\ running' \subseteq Services
          /\ masked' \subseteq Services
          /\ stale' \subseteq running'
      BY <2>1, PackagesType DEF Packages
    <3> QED BY <2>1, <3>1 DEF Packages, Proceed, TypeOK, Steps
  <2>2. ASSUME NEW f \in Files, WriteFile(f) PROVE TypeOK'
    BY <2>2 DEF WriteFile, Proceed, TypeOK, Steps
  <2>3. CASE Written
    BY <2>3, ToRestartType DEF Written, Proceed, TypeOK, Steps
  <2>4. CASE RestartOvs
    <3>1. running' \subseteq Services /\ stale' \subseteq running'
      BY <2>4, StartType DEF RestartOvs, RestartMap, TypeOK
    <3> QED BY <2>4, <3>1 DEF RestartOvs, Proceed, TypeOK, Steps
  <2>5. CASE ConfigureOvs
    <3>1. running' \subseteq Services /\ stale' \subseteq running'
      BY <2>5 DEF ConfigureOvs, TypeOK
    <3>2. CASE Proceed("joined", {}) /\ UNCHANGED <<failed, half, changed, troubled>>
      BY <2>5, <3>1, <3>2 DEF ConfigureOvs, Proceed, TypeOK, Steps
    <3>3. CASE Raise
      BY <2>5, <3>1, <3>3, ExitType DEF ConfigureOvs, Raise, TypeOK
    <3> QED BY <2>5, <3>2, <3>3 DEF ConfigureOvs
  <2>6. CASE Joined
    <3>1. /\ disk' \in [Files -> Values \cup {Absent}]
          /\ installed' \subseteq Services
          /\ running' \subseteq Services
          /\ masked' \subseteq Services
          /\ stale' \subseteq running'
      BY <2>6, PackagesType DEF Joined
    <3> QED BY <2>6, <3>1, ToRestartType DEF Joined, Proceed, TypeOK, Steps
  <2>7. ASSUME NEW s \in Services, RestartService(s) PROVE TypeOK'
    <3>1. running' \subseteq Services /\ stale' \subseteq running'
      BY <2>7, StartType DEF RestartService
    <3> QED BY <2>7, <3>1 DEF RestartService, Proceed, TypeOK, Steps
  <2>8. ASSUME NEW s \in Services, StopService(s) PROVE TypeOK'
    BY <2>8 DEF StopService, Proceed, TypeOK, Steps
  <2>9. ASSUME NEW s \in Services, StartService(s) PROVE TypeOK'
    <3>1. running' \subseteq Services /\ stale' \subseteq running'
      BY <2>9, StartType DEF StartService
    <3> QED BY <2>9, <3>1 DEF StartService, Proceed, TypeOK, Steps
  <2>10. CASE Restarted
    BY <2>10 DEF Restarted, Proceed, TypeOK, Steps
  <2>11. ASSUME NEW s \in Services, PauseService(s) PROVE TypeOK'
    BY <2>11 DEF PauseService, Proceed, TypeOK, Steps
  <2>12. CASE SetPaused
    BY <2>12 DEF SetPaused, Proceed, TypeOK, Steps
  <2>13. ASSUME NEW s \in Services, ResumeService(s) PROVE TypeOK'
    BY <2>13 DEF ResumeService, Proceed, TypeOK, Steps
  <2>14. CASE ClearPaused
    BY <2>14 DEF ClearPaused, Proceed, TypeOK, Steps
  <2>15. CASE Assess
    <3>1. status' \in States
      BY <2>15 DEF Assess, WorkloadStatus, States, TypeOK
    <3>2. Exit /\ failed' \in Hooks \cup {"none"} /\ troubled' \in BOOLEAN
          /\ series' \in BOOLEAN
      BY <2>15 DEF Assess, Raise, TypeOK
    <3> QED BY <2>15, <3>1, <3>2, ExitType DEF Assess, TypeOK
  <2> QED BY <1>4, <2>1, <2>2, <2>3, <2>4, <2>5, <2>6, <2>7, <2>8, <2>9, <2>10,
             <2>11, <2>12, <2>13, <2>14, <2>15 DEF Step
<1>5. CASE Faults
  <2>1. CASE Abort
    BY <2>1, ExitType DEF Abort, Raise, TypeOK
  <2>2. ASSUME NEW s \in Services, Die(s) PROVE TypeOK'
    BY <2>2 DEF Die, TypeOK
  <2>3. CASE Reboot
    BY <2>3 DEF Reboot, TypeOK
  <2> QED BY <1>5, <2>1, <2>2, <2>3 DEF Faults
<1>6. CASE UNCHANGED vars
  BY <1>6 DEF TypeOK
<1> QED BY <1>1, <1>2, <1>3, <1>4, <1>5, <1>6 DEF Next

\* Every variable keeps its type.
THEOREM TypeCorrect == Spec => []TypeOK
<1>1. Init => TypeOK
  <2> SUFFICES ASSUME Init PROVE TypeOK
    OBVIOUS
  <2>1. want \in [Files -> Values]
    BY DEF Init
  <2>2. view \in [Files -> Values \cup {Absent}] /\ disk \in [Files -> Values \cup {Absent}]
    BY DEF Init, NoView
  <2>3. due \subseteq Hooks
    BY DEF Init, Hooks, Writers
  <2>4. inputs \in 0..MaxInputs /\ faults \in 0..MaxFaults
    BY BoundsAssumption DEF Init
  <2>5. pc \in Steps /\ status \in States
    BY DEF Init, Steps, States
  <2>6. installed \subseteq Services /\ running \subseteq Services
    BY BaseType DEF Init
  <2> QED BY <2>1, <2>2, <2>3, <2>4, <2>5, <2>6 DEF Init, TypeOK
<1> QED BY <1>1, TypeInductive, PTL DEF Spec
-----------------------------------------------------------------------------
\* The inductive invariant.
USE DEF Agents

LEMMA BaseFacts ==
    /\ Base \subseteq Services
    /\ OVS \in Base
    /\ \A on : Base \subseteq Managed(on) /\ Managed(on) \subseteq Services
    /\ \A f \in Files : Users[f] \subseteq Services
    /\ Users[OVS_DEFAULT] = {OVS}
  BY OvsAssumption, TableAssumption, FilesAssumption DEF Base, Managed

\* apt touches no service of the base map.
LEMMA PackagesBase ==
  ASSUME BaseInstalled, NEW S \in SUBSET Services,
         Install(S) \/ (Purge(S) /\ S \cap Base = {})
  PROVE  /\ BaseInstalled'
         /\ masked' = masked
         /\ \A s \in Base : (s \in running' <=> s \in running) /\ (s \in stale' <=> s \in stale)
  BY BaseFacts DEF BaseInstalled, Install, Purge

\* A hook begins in a state where UnitInv holds.
LEMMA IdleFacts ==
  ASSUME TypeOK, UnitInv, pc = "idle"
  PROVE  /\ hook = "none" /\ half = {} /\ Base \subseteq installed
         /\ ~troubled =>
              /\ failed = "none" /\ upgrading = series /\ (upgrading => paused)
              /\ "post-series-upgrade" \in due => series
              /\ ~upgrading => OVS \notin masked /\ OVS \in running
              /\ ~paused => Base \cap masked = {} /\ Base \subseteq running
              /\ paused => Agents \subseteq masked \ running
              /\ Agents \cap stale = {}
  BY BaseFacts DEF UnitInv, Sequenced, HalfOK, BaseInstalled, Untroubled, FlagsOK, OvsKept, AgentsUp,
     AgentsDown, StaleKnown

\* The beginning of a hook or action that changes no flag.
LEMMA BeginInv ==
  ASSUME TypeOK, UnitInv,
         NEW h \in (Hooks \cup Actions) \ Series,
         NEW step \in {"packages", "write", "joined", "pause", "resume", "assess"},
         NEW work,
         Begin(h, step, work), UNCHANGED flagVars,
         step = "packages" => h \in RunsHooks,
         step = "write" => h \in Writers,
         step = "joined" => h = "neutron-plugin-relation-joined",
         step \in {"pause", "resume"} => h = step /\ Agents \subseteq work /\ OVS \notin work,
         h \in Actions => step = h
  PROVE  UnitInv'
<1> USE DEF Begin, flagVars, hostVars, inputVars
<1>1. Sequenced'
  BY DEF Sequenced, Hooks, Writers, Series, Actions, RunsHooks
<1>2. HalfOK' /\ BaseInstalled'
  BY IdleFacts DEF HalfOK, BaseInstalled
<1>3. ASSUME ~troubled' PROVE Untroubled'
  <2>1. ~troubled /\ ~series
    BY <1>3, IdleFacts DEF Series
  <2>2. FlagsOK'
    BY <2>1, IdleFacts DEF FlagsOK, Hooks, Writers, Series, Actions
  <2>3. OvsKept'
    BY <2>1, IdleFacts DEF OvsKept, Series, Actions
  <2>4. AgentsUp'
    BY <2>1, IdleFacts, BaseFacts DEF AgentsUp, Series
  <2>5. AgentsDown'
    BY <2>1, IdleFacts DEF AgentsDown, Series
  <2>6. StaleKnown'
    BY <2>1, IdleFacts DEF StaleKnown
  <2> QED BY <2>2, <2>3, <2>4, <2>5, <2>6 DEF Untroubled
<1> QED BY <1>1, <1>2, <1>3 DEF UnitInv
LEMMA InputsInv ==
  ASSUME TypeOK, UnitInv, Inputs \/ (\E h \in Series : UpgradeSeries(h))
  PROVE  UnitInv'
<1> USE DEF hostVars, flagVars, inputVars, viewVars, runVars
<1> DEFINE Queued ==
      /\ UNCHANGED <<hostVars, flagVars, failed, series, runVars, troubled>>
      /\ \/ due' \subseteq due \cup Writers
         \/ "post-series-upgrade" \in due' \ due => series /\ hook # "post-series-upgrade"
<1>1. Queued
  <2>1. ASSUME NEW w \in Writers, ChangeData(w) PROVE Queued
    BY <2>1 DEF ChangeData, SetInputs
  <2>2. ASSUME NEW e \in Features, ChangeFeature(e) PROVE Queued
    BY <2>2, ServicesAssumption DEF ChangeFeature, SetInputs, Writers
  <2>3. ASSUME NEW h \in Series, UpgradeSeries(h) PROVE Queued
    BY <2>3 DEF UpgradeSeries
  <2> QED BY <2>1, <2>2, <2>3 DEF Inputs
<1>2. FlagsOK => FlagsOK'
  BY <1>1 DEF FlagsOK, Writers
<1> QED
  BY <1>1, <1>2 DEF UnitInv, Sequenced, HalfOK, BaseInstalled, Untroubled, OvsKept, AgentsUp,
     AgentsDown, StaleKnown

LEMMA BeginsInv ==
  ASSUME TypeOK, UnitInv,
         config_changed \/ neutron_plugin_api_changed \/ neutron_plugin_joined
         \/ amqp_changed \/ restart_check \/ update_status \/ pause_action \/ resume_action
  PROVE  UnitInv'
<1> USE DEF Hooks, Writers, Series, Actions, RunsHooks, BeginHook
<1>1. CASE config_changed
  BY <1>1, BeginInv DEF config_changed
<1>2. CASE neutron_plugin_api_changed
  BY <1>2, BeginInv DEF neutron_plugin_api_changed
<1>3. CASE neutron_plugin_joined
  BY <1>3, BeginInv DEF neutron_plugin_joined
<1>4. CASE amqp_changed
  BY <1>4, BeginInv DEF amqp_changed
<1>5. CASE restart_check
  BY <1>5, BeginInv DEF restart_check
<1>6. CASE update_status
  BY <1>6, BeginInv DEF update_status
<1>7. CASE pause_action
  BY <1>7, BeginInv, BaseFacts DEF pause_action
<1>8. CASE resume_action
  BY <1>8, BeginInv, BaseFacts DEF resume_action
<1> QED BY <1>1, <1>2, <1>3, <1>4, <1>5, <1>6, <1>7, <1>8

LEMMA PreSeriesInv ==
  ASSUME TypeOK, UnitInv, pre_series_upgrade
  PROVE  UnitInv'
<1> USE DEF pre_series_upgrade, BeginHook, Begin, flagVars, hostVars, inputVars
<1>1. Sequenced'
  BY DEF Sequenced
<1>2. HalfOK' /\ BaseInstalled'
  BY IdleFacts DEF HalfOK, BaseInstalled
<1>3. ASSUME ~troubled' PROVE Untroubled'
  <2>1. ~troubled /\ ~series
    BY <1>3
  <2>2. FlagsOK'
    BY <2>1, IdleFacts DEF FlagsOK, Series
  <2>3. OvsKept' /\ AgentsUp'
    BY <2>1, IdleFacts DEF OvsKept, AgentsUp
  <2>4. AgentsDown' /\ StaleKnown'
    BY <2>1, IdleFacts, BaseFacts DEF AgentsDown, StaleKnown
  <2> QED BY <2>2, <2>3, <2>4 DEF Untroubled
<1> QED BY <1>1, <1>2, <1>3 DEF UnitInv

LEMMA PostSeriesInv ==
  ASSUME TypeOK, UnitInv, post_series_upgrade
  PROVE  UnitInv'
<1> USE DEF post_series_upgrade, BeginHook, Begin, flagVars, hostVars, inputVars
<1>1. Sequenced'
  BY DEF Sequenced
<1>2. HalfOK' /\ BaseInstalled'
  BY IdleFacts DEF HalfOK, BaseInstalled
<1>3. ASSUME ~troubled' PROVE Untroubled'
  <2>1. ~troubled /\ series /\ paused
    BY <1>3, IdleFacts
  <2>2. FlagsOK'
    BY <2>1, IdleFacts DEF FlagsOK, Series
  <2>3. OvsKept' /\ AgentsUp'
    BY <2>1, IdleFacts DEF OvsKept, AgentsUp
  <2>4. AgentsDown' /\ StaleKnown'
    BY <2>1, IdleFacts DEF AgentsDown, StaleKnown
  <2> QED BY <2>2, <2>3, <2>4 DEF Untroubled
<1> QED BY <1>1, <1>2, <1>3 DEF UnitInv
\* A step that does not touch the host or the queue.
LEMMA WrittenInv ==
  ASSUME TypeOK, UnitInv, Written
  PROVE  UnitInv'
<1> USE DEF Written, Proceed, hostVars, flagVars, jujuVars, viewVars
<1>1. Sequenced'
  BY DEF UnitInv, Sequenced, RunsHooks, Writers
<1>2. HalfOK' /\ BaseInstalled'
  BY DEF UnitInv, HalfOK, BaseInstalled
<1>3. ASSUME ~troubled' PROVE Untroubled'
  <2>1. Untroubled /\ Sequenced /\ half = {}
    BY <1>3 DEF UnitInv, HalfOK
  <2>2. FlagsOK'
    BY <2>1 DEF Untroubled, FlagsOK
  <2>3. OvsKept'
    BY <2>1 DEF Untroubled, OvsKept, Sequenced, Writers
  <2>4. AgentsUp'
    BY <2>1, BaseFacts DEF Untroubled, AgentsUp, Sequenced, Writers
  <2>5. AgentsDown'
    BY <2>1 DEF Untroubled, AgentsDown, Sequenced, Writers, ToRestart
  <2>6. StaleKnown'
    <3>1. CASE hook \in RunsHooks
      BY <2>1, <3>1 DEF Untroubled, StaleKnown, RunsHooks
    <3>2. CASE hook = "post-series-upgrade"
      <4>1. Agents \cap stale = {}
        BY <2>1, <3>2 DEF Untroubled, AgentsDown, TypeOK
      <4> QED BY <2>1, <3>2, <4>1 DEF StaleKnown
    <3>3. CASE hook \notin RunsHooks /\ hook # "post-series-upgrade"
      <4>1. CASE paused
        <5>1. Agents \cap stale = {}
          BY <2>1, <4>1 DEF Untroubled, AgentsDown, TypeOK
        <5> QED BY <3>3, <4>1, <5>1 DEF StaleKnown, RunsHooks
      <4>2. CASE ~paused
        <5>1. todo' = UNION {RestartMap(f, viewFeatures) : f \in changed}
          BY <3>3, <4>2 DEF ToRestart, RunsHooks
        <5>2. \A s \in Agents \cap stale : \E f \in changed : s \in Users[f]
          BY <2>1 DEF Untroubled, StaleKnown
        <5>3. Agents \cap stale \subseteq todo'
          BY <5>1, <5>2, BaseFacts DEF RestartMap
        <5> QED BY <3>3, <5>3 DEF StaleKnown, RunsHooks
      <4> QED BY <4>1, <4>2
    <3> QED BY <3>1, <3>2, <3>3
  <2> QED BY <2>2, <2>3, <2>4, <2>5, <2>6 DEF Untroubled
<1> QED BY <1>1, <1>2, <1>3 DEF UnitInv

\* The steps that install or purge packages.
LEMMA PackagesInv ==
  ASSUME TypeOK, UnitInv, Packages
  PROVE  UnitInv'
<1> USE DEF Packages, Proceed, flagVars, jujuVars, viewVars
<1>1. Sequenced'
  BY DEF UnitInv, Sequenced, RunsHooks, Writers
<1>2. /\ BaseInstalled'
      /\ masked' = masked
      /\ \A s \in Base : (s \in running' <=> s \in running) /\ (s \in stale' <=> s \in stale)
  BY PackagesBase, BaseFacts, ServicesAssumption DEF UnitInv
<1>3. half = {} /\ HalfOK'
  BY DEF UnitInv, HalfOK
<1>4. ASSUME ~troubled' PROVE Untroubled'
  <2>1. Untroubled /\ Sequenced
    BY <1>4 DEF UnitInv
  <2>2. FlagsOK'
    BY <2>1 DEF Untroubled, FlagsOK
  <2>3. OvsKept'
    BY <1>2, <2>1, <1>3, BaseFacts DEF Untroubled, OvsKept, Sequenced, RunsHooks
  <2>4. AgentsUp'
    BY <1>2, <2>1, <1>3 DEF Untroubled, AgentsUp, Sequenced, RunsHooks
  <2>5. AgentsDown'
    BY <1>2, <2>1 DEF Untroubled, AgentsDown, Sequenced, RunsHooks
  <2>6. StaleKnown'
    BY <1>2, <2>1 DEF Untroubled, StaleKnown
  <2> QED BY <2>2, <2>3, <2>4, <2>5, <2>6 DEF Untroubled
<1> QED BY <1>1, <1>2, <1>3, <1>4 DEF UnitInv

LEMMA JoinedInv ==
  ASSUME TypeOK, UnitInv, Joined
  PROVE  UnitInv'
<1> USE DEF Joined, Proceed, flagVars, jujuVars, viewVars
<1>1. Sequenced'
  BY DEF UnitInv, Sequenced, RunsHooks, Writers
<1>2. /\ BaseInstalled'
      /\ masked' = masked
      /\ \A s \in Base : (s \in running' <=> s \in running) /\ (s \in stale' <=> s \in stale)
  BY PackagesBase, BaseFacts, ServicesAssumption DEF UnitInv
<1>3. half = {} /\ HalfOK'
  BY DEF UnitInv, HalfOK
<1>4. ASSUME ~troubled' PROVE Untroubled'
  <2>1. Untroubled /\ Sequenced
    BY <1>4 DEF UnitInv
  <2>2. FlagsOK'
    BY <2>1 DEF Untroubled, FlagsOK, Sequenced, RunsHooks
  <2>3. OvsKept'
    BY <1>2, <2>1, <1>3, BaseFacts DEF Untroubled, OvsKept, Sequenced, RunsHooks
  <2>4. AgentsUp'
    BY <1>2, <2>1, <1>3 DEF Untroubled, AgentsUp, Sequenced, RunsHooks
  <2>5. AgentsDown'
    BY <1>2, <2>1 DEF Untroubled, AgentsDown, Sequenced, RunsHooks, ToRestart
  <2>6. StaleKnown'
    <3>1. \A s \in Agents \cap stale' : \E f \in changed : s \in Users[f]
      BY <1>2, <2>1 DEF Untroubled, StaleKnown
    <3>2. CASE hook = "neutron-plugin-relation-joined"
      BY <2>1, <3>1, <3>2 DEF Sequenced, StaleKnown
    <3>3. CASE hook # "neutron-plugin-relation-joined" /\ paused
      <4>1. Agents \cap stale = {}
        BY <2>1, <3>3 DEF Untroubled, AgentsDown, TypeOK
      <4> QED BY <1>2, <3>3, <4>1 DEF StaleKnown
    <3>4. CASE hook # "neutron-plugin-relation-joined" /\ ~paused
      <4>1. todo' = UNION {RestartMap(f, viewFeatures) : f \in changed \ {OVS_DEFAULT}}
        BY <2>1, <3>4 DEF ToRestart, Sequenced, RunsHooks
      <4>2. \A s \in Agents \cap stale' : \E f \in changed \ {OVS_DEFAULT} : s \in Users[f]
        BY <3>1, BaseFacts
      <4>3. Agents \cap stale' \subseteq todo'
        BY <4>1, <4>2, BaseFacts DEF RestartMap
      <4> QED BY <3>4, <4>3 DEF StaleKnown
    <3> QED BY <3>2, <3>3, <3>4
  <2> QED BY <2>2, <2>3, <2>4, <2>5, <2>6 DEF Untroubled
<1> QED BY <1>1, <1>2, <1>3, <1>4 DEF UnitInv

LEMMA WriteFileInv ==
  ASSUME TypeOK, UnitInv, NEW f \in Files, WriteFile(f)
  PROVE  UnitInv'
<1> USE DEF WriteFile, Proceed, flagVars, jujuVars, viewVars
<1>1. Sequenced'
  BY DEF UnitInv, Sequenced, RunsHooks, Writers
<1>2. half = {} /\ HalfOK' /\ BaseInstalled'
  BY DEF UnitInv, HalfOK, BaseInstalled
<1>3. ASSUME ~troubled' PROVE Untroubled'
  <2>1. Untroubled /\ Sequenced
    BY <1>3 DEF UnitInv
  <2>2. FlagsOK' /\ OvsKept' /\ AgentsUp' /\ AgentsDown'
    BY <2>1, <1>2 DEF Untroubled, FlagsOK, OvsKept, AgentsUp, AgentsDown
  <2>3. StaleKnown'
    BY <2>1 DEF Untroubled, StaleKnown
  <2> QED BY <2>2, <2>3 DEF Untroubled
<1> QED BY <1>1, <1>2, <1>3 DEF UnitInv
\* Open vSwitch itself is (re)started before the bridges are configured.
LEMMA OvsStepsInv ==
  ASSUME TypeOK, UnitInv, RestartOvs \/ (ConfigureOvs /\ ~troubled')
  PROVE  UnitInv'
<1> USE DEF flagVars, jujuVars, viewVars, inputVars
<1>1. /\ running \subseteq running' /\ running' \subseteq running \cup {OVS}
      /\ stale' \subseteq stale
      /\ pc \in {"restart_ovs", "configure_ovs"} /\ pc' \in {"configure_ovs", "joined"}
      /\ UNCHANGED <<hook, installed, masked, half, changed, paused, upgrading, due, failed,
                     series, troubled>>
      /\ todo' = {}
  <2>1. CASE RestartOvs
    BY <2>1, BaseFacts DEF RestartOvs, Restart, RestartMap, Proceed
  <2>2. CASE ConfigureOvs /\ ~troubled'
    BY <2>2 DEF ConfigureOvs, Proceed, Raise, hostVars
  <2> QED BY <2>1, <2>2
<1>2. Sequenced'
  BY <1>1 DEF UnitInv, Sequenced, RunsHooks
<1>3. half = {} /\ HalfOK' /\ BaseInstalled'
  BY <1>1 DEF UnitInv, HalfOK, BaseInstalled
<1>4. ASSUME ~troubled' PROVE Untroubled'
  <2>1. Untroubled /\ Sequenced
    BY <1>1, <1>4 DEF UnitInv
  <2>2. FlagsOK' /\ OvsKept'
    BY <1>1, <2>1 DEF Untroubled, FlagsOK, OvsKept, Sequenced, RunsHooks
  <2>3. AgentsUp' /\ AgentsDown'
    BY <1>1, <2>1 DEF Untroubled, AgentsUp, AgentsDown
  <2>4. StaleKnown'
    BY <1>1, <2>1 DEF Untroubled, StaleKnown
  <2> QED BY <2>2, <2>3, <2>4 DEF Untroubled
<1> QED BY <1>2, <1>3, <1>4 DEF UnitInv

LEMMA RestartServiceInv ==
  ASSUME TypeOK, UnitInv, NEW s \in Services, RestartService(s)
  PROVE  UnitInv'
<1> USE DEF RestartService, Restart, Proceed, flagVars, jujuVars, viewVars
<1>1. Sequenced'
  BY DEF UnitInv, Sequenced
<1>2. half = {} /\ HalfOK' /\ BaseInstalled'
  BY DEF UnitInv, HalfOK, BaseInstalled
<1>3. ASSUME ~troubled' PROVE Untroubled'
  <2>1. Untroubled /\ Sequenced /\ ~paused
    BY <1>3 DEF UnitInv, Untroubled, AgentsDown
  <2>2. FlagsOK' /\ OvsKept'
    BY <2>1 DEF Untroubled, FlagsOK, OvsKept
  <2>3. AgentsUp' /\ AgentsDown'
    BY <2>1 DEF Untroubled, AgentsUp, AgentsDown
  <2>4. s \in Base => CanStart(s)
    BY <2>1, <1>2 DEF Untroubled, AgentsUp, CanStart, UnitInv, BaseInstalled, Sequenced, Writers
  <2>5. StaleKnown'
    BY <2>1, <2>4 DEF Untroubled, StaleKnown
  <2> QED BY <2>2, <2>3, <2>5 DEF Untroubled
<1> QED BY <1>1, <1>2, <1>3 DEF UnitInv

LEMMA StopServiceInv ==
  ASSUME TypeOK, UnitInv, NEW s \in Services, StopService(s)
  PROVE  UnitInv'
<1> USE DEF StopService, Proceed, flagVars, jujuVars, viewVars
<1>1. Sequenced'
  BY DEF UnitInv, Sequenced
<1>2. HalfOK' /\ BaseInstalled'
  BY DEF UnitInv, HalfOK, BaseInstalled
<1>3. ASSUME ~troubled' PROVE Untroubled'
  <2>1. Untroubled /\ Sequenced /\ ~paused
    BY <1>3 DEF UnitInv, Untroubled, AgentsDown
  <2>2. FlagsOK' /\ OvsKept'
    BY <2>1 DEF Untroubled, FlagsOK, OvsKept
  <2>3. AgentsUp' /\ AgentsDown'
    BY <2>1 DEF Untroubled, AgentsUp, AgentsDown
  <2>4. StaleKnown'
    BY <2>1 DEF Untroubled, StaleKnown
  <2> QED BY <2>2, <2>3, <2>4 DEF Untroubled
<1> QED BY <1>1, <1>2, <1>3 DEF UnitInv

LEMMA StartServiceInv ==
  ASSUME TypeOK, UnitInv, NEW s \in Services, StartService(s)
  PROVE  UnitInv'
<1> USE DEF StartService, Start, Proceed, flagVars, jujuVars, viewVars
<1>1. Sequenced'
  BY DEF UnitInv, Sequenced
<1>2. half = {s} /\ s \notin running /\ s \in todo /\ HalfOK' /\ BaseInstalled'
  BY DEF UnitInv, HalfOK, BaseInstalled
<1>3. ASSUME ~troubled' PROVE Untroubled'
  <2>1. Untroubled /\ Sequenced /\ ~paused /\ hook \in Writers
    BY <1>2, <1>3 DEF UnitInv, Untroubled, AgentsDown, Sequenced
  <2>2. s \in Base => CanStart(s)
    BY <2>1 DEF Untroubled, AgentsUp, CanStart, UnitInv, BaseInstalled, Writers
  <2>3. FlagsOK' /\ OvsKept'
    BY <1>2, <2>1, <2>2, BaseFacts DEF Untroubled, FlagsOK, OvsKept, Writers
  <2>4. AgentsUp' /\ AgentsDown'
    BY <1>2, <2>1, <2>2 DEF Untroubled, AgentsUp, AgentsDown
  <2>5. StaleKnown'
    BY <1>2, <2>1 DEF Untroubled, StaleKnown, TypeOK
  <2> QED BY <2>3, <2>4, <2>5 DEF Untroubled
<1> QED BY <1>1, <1>2, <1>3 DEF UnitInv

LEMMA RestartedInv ==
  ASSUME TypeOK, UnitInv, Restarted
  PROVE  UnitInv'
<1> USE DEF Restarted, Proceed, hostVars, flagVars, jujuVars, viewVars
<1>1. Sequenced'
  BY DEF UnitInv, Sequenced
<1>2. half = {} /\ HalfOK' /\ BaseInstalled'
  BY DEF UnitInv, HalfOK, BaseInstalled
<1>3. ASSUME ~troubled' PROVE Untroubled'
  <2>1. Untroubled /\ Sequenced /\ hook \in Writers
    BY <1>3 DEF UnitInv, Sequenced
  <2>2. FlagsOK' /\ OvsKept'
    BY <1>2, <2>1 DEF Untroubled, FlagsOK, OvsKept, Writers
  <2>3. AgentsUp' /\ AgentsDown' /\ StaleKnown'
    BY <1>2, <2>1 DEF Untroubled, AgentsUp, AgentsDown, StaleKnown, Writers
  <2> QED BY <2>2, <2>3 DEF Untroubled
<1> QED BY <1>1, <1>2, <1>3 DEF UnitInv
LEMMA PauseServiceInv ==
  ASSUME TypeOK, UnitInv, NEW s \in Services, PauseService(s)
  PROVE  UnitInv'
<1> USE DEF PauseService, Proceed, flagVars, jujuVars, viewVars
<1>1. Sequenced'
  BY DEF UnitInv, Sequenced
<1>2. half = {} /\ HalfOK' /\ BaseInstalled'
  BY DEF UnitInv, HalfOK, BaseInstalled
<1>3. ASSUME ~troubled' PROVE Untroubled'
  <2>1. Untroubled /\ Sequenced
    BY <1>3 DEF UnitInv
  <2>2. FlagsOK'
    BY <2>1 DEF Untroubled, FlagsOK
  <2>3. OvsKept'
    BY <2>1, <1>2 DEF Untroubled, OvsKept, FlagsOK, Sequenced
  <2>4. AgentsUp' /\ AgentsDown' /\ StaleKnown'
    BY <2>1 DEF Untroubled, AgentsUp, AgentsDown, StaleKnown
  <2> QED BY <2>2, <2>3, <2>4 DEF Untroubled
<1> QED BY <1>1, <1>2, <1>3 DEF UnitInv

LEMMA ResumeServiceInv ==
  ASSUME TypeOK, UnitInv, NEW s \in Services, ResumeService(s)
  PROVE  UnitInv'
<1> USE DEF ResumeService, Proceed, flagVars, jujuVars, viewVars
<1>1. Sequenced'
  BY DEF UnitInv, Sequenced
<1>2. half = {} /\ HalfOK' /\ BaseInstalled'
  BY DEF UnitInv, HalfOK, BaseInstalled
<1>3. ASSUME ~troubled' PROVE Untroubled'
  <2>1. Untroubled /\ Sequenced /\ Base \subseteq installed
    BY <1>3 DEF UnitInv, BaseInstalled
  <2>2. FlagsOK' /\ OvsKept'
    BY <2>1 DEF Untroubled, FlagsOK, OvsKept
  <2>3. AgentsUp'
    BY <2>1 DEF Untroubled, AgentsUp
  <2>4. AgentsDown' /\ StaleKnown'
    BY <2>1 DEF Untroubled, AgentsDown, StaleKnown
  <2> QED BY <2>2, <2>3, <2>4 DEF Untroubled
<1> QED BY <1>1, <1>2, <1>3 DEF UnitInv

LEMMA SetPausedInv ==
  ASSUME TypeOK, UnitInv, SetPaused
  PROVE  UnitInv'
<1> USE DEF SetPaused, Proceed, hostVars, jujuVars, viewVars
<1>1. Sequenced'
  BY DEF UnitInv, Sequenced
<1>2. half = {} /\ HalfOK' /\ BaseInstalled'
  BY DEF UnitInv, HalfOK, BaseInstalled
<1>3. ASSUME ~troubled' PROVE Untroubled'
  <2>1. Untroubled /\ Sequenced
    BY <1>3 DEF UnitInv
  <2>2. FlagsOK' /\ OvsKept'
    BY <2>1 DEF Untroubled, FlagsOK, OvsKept, Sequenced
  <2>3. AgentsUp' /\ AgentsDown' /\ StaleKnown'
    BY <2>1 DEF Untroubled, AgentsUp, AgentsDown, StaleKnown, Sequenced
  <2> QED BY <2>2, <2>3 DEF Untroubled
<1> QED BY <1>1, <1>2, <1>3 DEF UnitInv

LEMMA ClearPausedInv ==
  ASSUME TypeOK, UnitInv, ClearPaused
  PROVE  UnitInv'
<1> USE DEF ClearPaused, Proceed, hostVars, jujuVars, viewVars
<1>1. Sequenced'
  BY DEF UnitInv, Sequenced
<1>2. half = {} /\ HalfOK' /\ BaseInstalled'
  BY DEF UnitInv, HalfOK, BaseInstalled
<1>3. ASSUME ~troubled' PROVE Untroubled'
  <2>1. Untroubled /\ Sequenced
    BY <1>3 DEF UnitInv
  <2>2. hook = "resume" => OVS \in running \ masked
    BY <1>2, <2>1 DEF Untroubled, OvsKept, FlagsOK, Series
  <2>3. Base \subseteq running \ masked
    BY <2>1, <2>2 DEF Untroubled, AgentsUp, Sequenced
  <2>4. FlagsOK' /\ OvsKept'
    BY <2>1 DEF Untroubled, FlagsOK, OvsKept, Sequenced, Series
  <2>5. AgentsUp' /\ AgentsDown' /\ StaleKnown'
    BY <2>1, <2>3 DEF Untroubled, AgentsUp, AgentsDown, StaleKnown, Sequenced
  <2> QED BY <2>4, <2>5 DEF Untroubled
<1> QED BY <1>1, <1>2, <1>3 DEF UnitInv

\* The end of a hook: what is left is what holds between two hooks.
LEMMA AssessInv ==
  ASSUME TypeOK, UnitInv, Assess
  PROVE  UnitInv'
<1> USE DEF Assess, Raise, Exit, hostVars, flagVars, inputVars
<1>1. Sequenced'
  BY DEF Sequenced
<1>2. half = {} /\ HalfOK' /\ BaseInstalled'
  BY DEF UnitInv, HalfOK, BaseInstalled
<1>3. ASSUME ~troubled' PROVE Untroubled'
  <2>1. /\ Untroubled /\ Sequenced /\ hook # "none"
        /\ failed' = failed
        /\ series' = IF hook \in Series THEN hook = "pre-series-upgrade" ELSE series
    BY <1>3 DEF UnitInv, Sequenced
  <2>2. FlagsOK'
    BY <2>1 DEF Untroubled, FlagsOK, Series, TypeOK
  <2>3. OvsKept'
    BY <1>2, <2>1, BaseFacts DEF Untroubled, OvsKept, AgentsUp, FlagsOK
  <2>4. AgentsUp' /\ AgentsDown' /\ StaleKnown'
    BY <1>2, <2>1 DEF Untroubled, AgentsUp, AgentsDown, StaleKnown
  <2> QED BY <2>2, <2>3, <2>4 DEF Untroubled
<1> QED BY <1>1, <1>2, <1>3 DEF UnitInv

LEMMA FaultsInv ==
  ASSUME TypeOK, UnitInv, Faults \/ (ConfigureOvs /\ troubled')
  PROVE  UnitInv'
<1> USE DEF Exit, hostVars, flagVars, inputVars, jujuVars, runVars, viewVars
<1>1. CASE Abort
  BY <1>1 DEF Abort, Raise, UnitInv, Sequenced, HalfOK, BaseInstalled
<1>2. ASSUME NEW s \in Services, Die(s) PROVE UnitInv'
  BY <1>2 DEF Die, UnitInv, Sequenced, HalfOK, BaseInstalled
<1>3. CASE Reboot
  <2>1. UNCHANGED <<installed, masked, pc, hook, todo, half, changed, paused, upgrading, due,
                    failed, series, troubled>>
        /\ half = {} /\ running' = installed \ masked /\ stale' = {}
    BY <1>3, IdleFacts DEF Reboot
  <2>2. Sequenced' /\ HalfOK' /\ BaseInstalled'
    BY <2>1 DEF UnitInv, Sequenced, HalfOK, BaseInstalled
  <2>3. ASSUME ~troubled' PROVE Untroubled'
    <3>1. Untroubled /\ BaseInstalled /\ pc = "idle" /\ hook = "none"
      BY <1>3, <2>1, <2>3, IdleFacts DEF UnitInv, Reboot
    <3>2. FlagsOK' /\ OvsKept'
      BY <2>1, <3>1, BaseFacts DEF Untroubled, FlagsOK, OvsKept, BaseInstalled
    <3>3. AgentsUp' /\ AgentsDown' /\ StaleKnown'
      BY <2>1, <3>1 DEF Untroubled, AgentsUp, AgentsDown, StaleKnown, BaseInstalled
    <3> QED BY <3>2, <3>3 DEF Untroubled
  <2> QED BY <2>2, <2>3 DEF UnitInv
<1>4. CASE ConfigureOvs /\ troubled'
  <2>1. CASE troubled
    <3>1. CASE Raise
      BY <1>4, <2>1, <3>1 DEF ConfigureOvs, Raise, UnitInv, Sequenced, HalfOK, BaseInstalled
    <3>2. CASE ~Raise
      BY <1>4, <2>1, <3>2 DEF ConfigureOvs, Proceed, UnitInv, Sequenced, HalfOK, BaseInstalled,
         RunsHooks
    <3> QED BY <3>1, <3>2
  <2>2. CASE ~troubled
    BY <1>4, <2>2 DEF ConfigureOvs, Raise, UnitInv, Sequenced, HalfOK, BaseInstalled
  <2> QED BY <2>1, <2>2
<1> QED BY <1>1, <1>2, <1>3, <1>4 DEF Faults

LEMMA UnitInductive == TypeOK /\ UnitInv /\ [Next]_vars => UnitInv'
<1> SUFFICES ASSUME TypeOK, UnitInv, [Next]_vars PROVE UnitInv'
  OBVIOUS
<1>1. CASE Inputs
  BY <1>1, InputsInv
<1>2. CASE Operator
  BY <1>2, InputsInv, BeginsInv DEF Operator
<1>3. CASE Dispatch \/ update_status
  BY <1>3, BeginsInv, PreSeriesInv, PostSeriesInv DEF Dispatch
<1>4. CASE Step
  <2>1. CASE ConfigureOvs
    BY <2>1, OvsStepsInv, FaultsInv
  <2> QED
    BY <1>4, <2>1, PackagesInv, WriteFileInv, WrittenInv, OvsStepsInv, JoinedInv,
       RestartServiceInv, StopServiceInv, StartServiceInv, RestartedInv, PauseServiceInv,
       SetPausedInv, ResumeServiceInv, ClearPausedInv, AssessInv DEF Step
<1>5. CASE Faults
  BY <1>5, FaultsInv
<1>6. CASE UNCHANGED vars
  BY <1>6 DEF vars, hostVars, flagVars, inputVars, jujuVars, runVars, viewVars, UnitInv,
     Sequenced, HalfOK, BaseInstalled, Untroubled, FlagsOK, OvsKept, AgentsUp, AgentsDown,
     StaleKnown
<1> QED BY <1>1, <1>2, <1>3, <1>4, <1>5, <1>6 DEF Next

\* Whatever the hooks and the operator do, and in whatever order: what is masked,
\* down, outdated or half restarted between two steps of an untroubled unit is
\* what the hook that runs still has to put right.
THEOREM UnitInvHolds == Spec => []UnitInv
<1>1. Init => UnitInv
  BY BaseFacts DEF Init, UnitInv, Sequenced, HalfOK, BaseInstalled, Untroubled, FlagsOK, OvsKept,
     AgentsUp, AgentsDown, StaleKnown
<1> QED BY <1>1, TypeCorrect, UnitInductive, PTL DEF Spec

\* Between two hooks of an untroubled unit that is not paused, the services of
\* the base map run and none is masked.
THEOREM BaseServicesUp == Spec => []BaseUp
<1>1. TypeOK /\ UnitInv => BaseUp
  BY IdleFacts, BaseFacts DEF BaseUp, Idle
<1> QED BY <1>1, TypeCorrect, UnitInvHolds, PTL

\* Between two hooks of an untroubled paused unit, no agent of the base map runs.
THEOREM BaseServicesQuiet == Spec => []BaseQuiet
<1>1. TypeOK /\ UnitInv => BaseQuiet
  BY IdleFacts, BaseFacts DEF BaseQuiet, Idle
<1> QED BY <1>1, TypeCorrect, UnitInvHolds, PTL

\* Between two hooks of an untroubled unit, no agent of the base map runs on an
\* older file.
THEOREM AgentsUseTheirFiles == Spec => []AgentsFresh
<1>1. TypeOK /\ UnitInv => AgentsFresh
  BY IdleFacts, BaseFacts DEF AgentsFresh, Idle
<1> QED BY <1>1, TypeCorrect, UnitInvHolds, PTL

\* Outside a series upgrade, the hooks and actions leave Open vSwitch up.
THEOREM OpenVSwitchUp == Spec => []OvsUp
<1>1. TypeOK /\ UnitInv => OvsUp
  BY IdleFacts, BaseFacts DEF OvsUp, Idle
<1> QED BY <1>1, TypeCorrect, UnitInvHolds, PTL

-----------------------------------------------------------------------------
\* No change of the inputs is forgotten.
Right == \A f \in Registered(features) : disk[f] = want[f]

\* A purge of services nobody manages leaves the registered files alone.
LEMMA PurgeFiles ==
  ASSUME TypeOK, NEW on \in SUBSET Features, NEW S, S \cap Managed(on) = {}, Purge(S)
  PROVE  \A f \in Registered(on) : disk'[f] = disk[f]
<1> SUFFICES ASSUME NEW f \in Registered(on) PROVE disk'[f] = disk[f]
  OBVIOUS
<1>1. f \in Files /\ (FileNeeds[f] = {} \/ FileNeeds[f] \cap on # {})
  BY DEF Registered
<1>2. ASSUME Users[f] # {} PROVE \E s \in Users[f] : s \in Managed(on)
  <2>1. PICK s \in Users[f] : Needs[s] = {} \/ (FileNeeds[f] # {} /\ FileNeeds[f] \subseteq Needs[s])
    BY <1>1, <1>2, OwnerAssumption DEF FilesOwned
  <2>2. s \in Services
    BY <1>1, <2>1, TableAssumption
  <2> QED BY <1>1, <2>1, <2>2 DEF Managed
<1> QED BY <1>1, <1>2 DEF Purge, TypeOK

\* A hook begins: it has read the current inputs.
LEMMA BeginDelivery ==
  ASSUME TypeOK, DeliveryInv, NEW h \in Hooks \cup Actions, NEW step \in Steps \ {"idle"}, NEW work,
         Begin(h, step, work), Sequenced',
         h \in Writers => \/ step = "packages"
                          \/ step = "write" /\ Registered(features) \subseteq work
                          \/ step = "assess" /\ h \in deferred',
         deferred \subseteq deferred'
  PROVE  DeliveryInv'
<1> USE DEF Begin, inputVars, hostVars
<1>1. hook' # "none" /\ view' = want' /\ viewFeatures' = features'
  BY DEF Hooks, Writers, Series, Actions
<1>2. ViewCurrent'
  BY <1>1 DEF ViewCurrent
<1>3. WrittenCurrent'
  <2>1. CASE step = "write" /\ Registered(features) \subseteq work
    BY <2>1 DEF WrittenCurrent, Registered
  <2>2. CASE ~(h \in Writers /\ step = "write")
    BY <2>2 DEF WrittenCurrent
  <2> QED BY <2>1, <2>2
<1>4. OutdatedPending'
  BY DEF OutdatedPending, Registered, Hooks, Series, Writers, DeliveryInv, Sequenced
<1> QED BY <1>2, <1>3, <1>4 DEF DeliveryInv
LEMMA BeginsDelivery ==
  ASSUME TypeOK, DeliveryInv, Sequenced', Dispatch \/ update_status \/ pause_action \/ resume_action
  PROVE  DeliveryInv'
<1> USE DEF Hooks, Writers, Series, Actions, Steps, BeginHook
<1>1. CASE config_changed
  BY <1>1, BeginDelivery DEF config_changed
<1>2. CASE neutron_plugin_api_changed
  BY <1>2, BeginDelivery DEF neutron_plugin_api_changed
<1>3. CASE neutron_plugin_joined
  BY <1>3, BeginDelivery DEF neutron_plugin_joined
<1>4. CASE amqp_changed
  BY <1>4, BeginDelivery DEF amqp_changed
<1>5. CASE restart_check
  BY <1>5, BeginDelivery DEF restart_check
<1>6. CASE update_status
  BY <1>6, BeginDelivery DEF update_status
<1>7. CASE pause_action
  BY <1>7, BeginDelivery DEF pause_action
<1>8. CASE resume_action
  BY <1>8, BeginDelivery DEF resume_action
<1>9. CASE pre_series_upgrade
  BY <1>9, BeginDelivery DEF pre_series_upgrade
<1>10. CASE post_series_upgrade
  BY <1>10, BeginDelivery DEF post_series_upgrade
<1> QED BY <1>1, <1>2, <1>3, <1>4, <1>5, <1>6, <1>7, <1>8, <1>9, <1>10 DEF Dispatch

\* A changed input queues a hook that writes.
LEMMA InputsDelivery ==
  ASSUME TypeOK, DeliveryInv, Inputs \/ (\E h \in Series : UpgradeSeries(h))
  PROVE  DeliveryInv'
<1> USE DEF hostVars, flagVars, inputVars, viewVars, runVars
<1> DEFINE Queued == UNCHANGED <<hook, pc, changed, failed>> /\ due' \cap Writers # {}
<1>1. ASSUME Inputs PROVE Queued
  <2>1. ASSUME NEW w \in Writers, ChangeData(w) PROVE Queued
    BY <2>1 DEF ChangeData, SetInputs
  <2>2. ASSUME NEW e \in Features, ChangeFeature(e) PROVE Queued
    BY <2>2, ServicesAssumption DEF ChangeFeature, SetInputs, Writers
  <2> QED BY <1>1, <2>1, <2>2 DEF Inputs
<1>2. CASE Inputs
  BY <1>1, <1>2 DEF DeliveryInv, Sequenced, ViewCurrent, WrittenCurrent, OutdatedPending
<1>3. ASSUME NEW h \in Series, UpgradeSeries(h) PROVE DeliveryInv'
  BY <1>3 DEF UpgradeSeries, DeliveryInv, Sequenced, ViewCurrent, WrittenCurrent,
     OutdatedPending, Registered
<1> QED BY <1>2, <1>3

\* The steps that change neither files, flags of the queue, nor inputs.
LEMMA QuietDelivery ==
  ASSUME TypeOK, DeliveryInv, Sequenced',
         UNCHANGED <<inputVars, disk, due, deferred>>,
         \/ /\ UNCHANGED <<hook, viewVars, failed>>
            /\ pc' = pc \/ (pc' # "write" /\ pc \notin {"packages", "write"})
            /\ pc = "write" => UNCHANGED todo
         \/ Raise /\ pc # "idle"
         \/ Exit /\ pc = "assess" /\ UNCHANGED failed
  PROVE  DeliveryInv'
<1> USE DEF inputVars, viewVars
<1>1. CASE Raise /\ pc # "idle"
  BY <1>1 DEF Raise, Exit, DeliveryInv, Sequenced, ViewCurrent, WrittenCurrent, OutdatedPending, Registered,
     Hooks, Writers
<1>2. CASE Exit /\ pc = "assess" /\ UNCHANGED failed
  BY <1>2 DEF Exit, DeliveryInv, ViewCurrent, WrittenCurrent, OutdatedPending, Registered
<1>3. CASE /\ UNCHANGED <<hook, viewVars, failed>>
           /\ pc' = pc \/ (pc' # "write" /\ pc \notin {"packages", "write"})
           /\ pc = "write" => UNCHANGED todo
  BY <1>3 DEF DeliveryInv, ViewCurrent, WrittenCurrent, OutdatedPending, Registered
<1> QED BY <1>1, <1>2, <1>3

LEMMA PackagesDelivery ==
  ASSUME TypeOK, DeliveryInv, Sequenced', Packages
  PROVE  DeliveryInv'
<1> USE DEF Packages, Proceed, inputVars, jujuVars, viewVars, RunsHooks, Writers
<1>1. ViewCurrent'
  BY DEF DeliveryInv, ViewCurrent
<1>2. hook \in Writers
  BY DEF DeliveryInv, Sequenced
<1>3. WrittenCurrent'
  <2>1. (view = want /\ viewFeatures = features) \/ due \cap Writers # {}
    BY <1>2 DEF DeliveryInv, ViewCurrent, Writers
  <2> QED BY <2>1 DEF WrittenCurrent, Registered
<1>4. OutdatedPending'
  BY <1>2 DEF OutdatedPending
<1>5. Sequenced'
  OBVIOUS
<1> QED BY <1>1, <1>3, <1>4, <1>5 DEF DeliveryInv

LEMMA WriteFileDelivery ==
  ASSUME TypeOK, DeliveryInv, Sequenced', NEW f \in Files, WriteFile(f)
  PROVE  DeliveryInv'
<1> USE DEF WriteFile, Proceed, inputVars, jujuVars, viewVars
<1>1. ViewCurrent'
  BY DEF DeliveryInv, ViewCurrent
<1>2. (view = want /\ viewFeatures = features) \/ due \cap Writers # {}
  BY DEF DeliveryInv, ViewCurrent, Sequenced
<1>3. \A g \in Files : disk'[g] = IF g = f THEN view[f] ELSE disk[g]
  BY DEF TypeOK
<1>4. WrittenCurrent'
  BY <1>2, <1>3 DEF DeliveryInv, WrittenCurrent, Registered
<1>5. OutdatedPending'
  BY <1>2, <1>3 DEF DeliveryInv, OutdatedPending, Registered
<1> QED BY <1>1, <1>4, <1>5 DEF DeliveryInv

LEMMA WrittenDelivery ==
  ASSUME TypeOK, DeliveryInv, Sequenced', Written
  PROVE  DeliveryInv'
<1> USE DEF Written, Proceed, inputVars, hostVars, jujuVars, viewVars
<1>1. ViewCurrent' /\ WrittenCurrent'
  BY DEF DeliveryInv, ViewCurrent, WrittenCurrent
<1>2. OutdatedPending'
  <2>1. CASE hook \in Writers
    BY <2>1 DEF DeliveryInv, WrittenCurrent, OutdatedPending, Registered
  <2>2. CASE hook \notin Writers
    BY <2>2 DEF DeliveryInv, OutdatedPending, Registered, TypeOK
  <2> QED BY <2>1, <2>2
<1> QED BY <1>1, <1>2 DEF DeliveryInv

LEMMA JoinedDelivery ==
  ASSUME TypeOK, DeliveryInv, Sequenced', Joined
  PROVE  DeliveryInv'
<1> USE DEF Joined, Proceed, inputVars, jujuVars, viewVars
<1>1. ViewCurrent' /\ WrittenCurrent'
  BY DEF DeliveryInv, ViewCurrent, WrittenCurrent
<1>2. viewFeatures = features \/ due \cap Writers # {}
  BY DEF DeliveryInv, ViewCurrent, Sequenced
<1>3. viewFeatures = features => \A f \in Registered(features) : disk'[f] = disk[f]
  <2>1. CASE UNCHANGED disk
    BY <2>1
  <2>2. CASE Purge(JoinedPurged \ Managed(viewFeatures))
    BY <2>2, PurgeFiles DEF TypeOK
  <2> QED BY <2>1, <2>2 DEF Install
<1>4. OutdatedPending'
  BY <1>2, <1>3 DEF DeliveryInv, OutdatedPending, Registered
<1> QED BY <1>1, <1>4 DEF DeliveryInv
LEMMA DeliveryInductive == TypeOK /\ DeliveryInv /\ Sequenced' /\ [Next]_vars => DeliveryInv'
<1> SUFFICES ASSUME TypeOK, DeliveryInv, Sequenced', [Next]_vars PROVE DeliveryInv'
  OBVIOUS
<1> USE DEF Steps
<1>1. CASE Inputs
  BY <1>1, InputsDelivery
<1>2. CASE Operator
  BY <1>2, InputsDelivery, BeginsDelivery DEF Operator
<1>3. CASE Dispatch \/ update_status
  BY <1>3, BeginsDelivery
<1>4. CASE Step
  <2>1. CASE RestartOvs \/ ConfigureOvs
    BY <2>1, QuietDelivery DEF RestartOvs, ConfigureOvs, Proceed, jujuVars, flagVars, hostVars
  <2>2. ASSUME NEW s \in Services, RestartService(s) \/ StopService(s) \/ StartService(s)
        PROVE DeliveryInv'
    BY <2>2, QuietDelivery DEF RestartService, StopService, StartService, Proceed, jujuVars
  <2>3. ASSUME NEW s \in Services, PauseService(s) \/ ResumeService(s)
        PROVE DeliveryInv'
    BY <2>3, QuietDelivery DEF PauseService, ResumeService, Proceed, jujuVars
  <2>4. CASE Restarted \/ SetPaused \/ ClearPaused
    BY <2>4, QuietDelivery DEF Restarted, SetPaused, ClearPaused, Proceed, jujuVars, hostVars
  <2>5. CASE Assess
    BY <2>5, QuietDelivery DEF Assess, hostVars
  <2> QED
    BY <1>4, <2>1, <2>2, <2>3, <2>4, <2>5, PackagesDelivery, WriteFileDelivery,
       WrittenDelivery, JoinedDelivery DEF Step
<1>5. CASE Faults
  BY <1>5, QuietDelivery DEF Faults, Abort, Die, Reboot, jujuVars, hostVars, runVars
<1>6. CASE UNCHANGED vars
  BY <1>6, QuietDelivery DEF vars, jujuVars, hostVars, runVars
<1> QED BY <1>1, <1>2, <1>3, <1>4, <1>5, <1>6 DEF Next

\* At every step, with any number of failures: the hook that runs has read the
\* current inputs or another one that writes is queued, what it has written is
\* current, and an outdated file has a hook that will write it.
THEOREM DeliveryInvHolds == Spec => []DeliveryInv
<1>1. Init => DeliveryInv
  BY DEF Init, DeliveryInv, Sequenced, ViewCurrent, WrittenCurrent, OutdatedPending, Writers
<1>2. UnitInv => Sequenced
  BY DEF UnitInv
<1> QED BY <1>1, <1>2, TypeCorrect, UnitInvHolds, DeliveryInductive, PTL DEF Spec

\* When nothing is queued or in error and no hook has put its work off, every
\* registered file holds what the inputs say, after any number of failures.
THEOREM ChangesDelivered == Spec => []Delivered
<1>1. TypeOK /\ DeliveryInv => Delivered
  BY DEF DeliveryInv, Sequenced, OutdatedPending, Delivered, Idle, Writers
<1> QED BY <1>1, DeliveryInvHolds, TypeCorrect, PTL

-----------------------------------------------------------------------------
\* The packages follow the features.

FeatureHooks == {"config-changed", "neutron-plugin-api-relation-changed"}

\* A step that leaves packages and features alone, and forgets no hook.
LEMMA PendingKept ==
  ASSUME ProvisionInv, UNCHANGED <<features, installed>>, ViewFollowed',
         \A h \in FeatureHooks : Pending(h, {"packages"}) => Pending(h, {"packages"})',
         Pending("config-changed", UpToJoined) => Pending("config-changed", UpToJoined)'
  PROVE  ProvisionInv'
<1>1. MissingPending'
  <2> SUFFICES ASSUME NEW s \in Services \ installed, NEW e \in Needs[s] \cap features
               PROVE  Pending(FeatureHook[e], {"packages"})'
    BY DEF MissingPending
  <2>1. Pending(FeatureHook[e], {"packages"})
    BY DEF ProvisionInv, MissingPending
  <2>2. FeatureHook[e] \in FeatureHooks
    BY TableAssumption, ServicesAssumption DEF FeatureHooks
  <2> QED BY <2>1, <2>2
<1>2. SurplusPending'
  <2> SUFFICES ASSUME NEW s \in ((DvrPurged \cup JoinedPurged) \cap installed) \ Managed(features)
               PROVE  \/ s \in DvrPurged /\ Pending("neutron-plugin-api-relation-changed", {"packages"})'
                      \/ s \in JoinedPurged /\ Pending("config-changed", UpToJoined)'
    BY DEF SurplusPending, Managed
  <2>1. \/ s \in DvrPurged /\ Pending("neutron-plugin-api-relation-changed", {"packages"})
        \/ s \in JoinedPurged /\ Pending("config-changed", UpToJoined)
    BY DEF ProvisionInv, SurplusPending
  <2> QED BY <2>1 DEF FeatureHooks
<1> QED BY <1>1, <1>2 DEF ProvisionInv

\* A hook begins: it has read the current features.
LEMMA BeginProvision ==
  ASSUME TypeOK, Sequenced, ProvisionInv, NEW h \in Hooks \cup Actions, NEW step \in Steps, NEW work,
         Begin(h, step, work), deferred \subseteq deferred',
         h \in FeatureHooks => step = "packages" \/ (step = "assess" /\ h \in deferred')
  PROVE  ProvisionInv'
<1> USE DEF Begin, inputVars, hostVars
<1>1. ViewFollowed'
  BY DEF ViewFollowed
<1>2. hook = "none"
  BY DEF Sequenced
<1>3. ASSUME NEW g \in FeatureHooks, NEW S, "packages" \in S, Pending(g, S)
      PROVE  Pending(g, S)'
  BY <1>2, <1>3 DEF Pending, FeatureHooks
<1>4. \A g \in FeatureHooks : Pending(g, {"packages"}) => Pending(g, {"packages"})'
  BY <1>3
<1>5. Pending("config-changed", UpToJoined) => Pending("config-changed", UpToJoined)'
  BY <1>3 DEF FeatureHooks, UpToJoined
<1> QED BY <1>1, <1>4, <1>5, PendingKept

LEMMA BeginsProvision ==
  ASSUME TypeOK, Sequenced, ProvisionInv, Dispatch \/ update_status \/ pause_action \/ resume_action
  PROVE  ProvisionInv'
<1> USE DEF Hooks, Writers, Series, Actions, Steps, BeginHook, FeatureHooks
<1>1. CASE config_changed
  BY <1>1, BeginProvision DEF config_changed
<1>2. CASE neutron_plugin_api_changed
  BY <1>2, BeginProvision DEF neutron_plugin_api_changed
<1>3. CASE neutron_plugin_joined
  BY <1>3, BeginProvision DEF neutron_plugin_joined
<1>4. CASE amqp_changed
  BY <1>4, BeginProvision DEF amqp_changed
<1>5. CASE restart_check
  BY <1>5, BeginProvision DEF restart_check
<1>6. CASE update_status
  BY <1>6, BeginProvision DEF update_status
<1>7. CASE pause_action
  BY <1>7, BeginProvision DEF pause_action
<1>8. CASE resume_action
  BY <1>8, BeginProvision DEF resume_action
<1>9. CASE pre_series_upgrade
  BY <1>9, BeginProvision DEF pre_series_upgrade
<1>10. CASE post_series_upgrade
  BY <1>10, BeginProvision DEF post_series_upgrade
<1> QED BY <1>1, <1>2, <1>3, <1>4, <1>5, <1>6, <1>7, <1>8, <1>9, <1>10 DEF Dispatch

\* A changed feature queues the hook that installs or purges what it needs.
LEMMA FeatureProvision ==
  ASSUME TypeOK, ProvisionInv, NEW e \in Features, ChangeFeature(e)
  PROVE  ProvisionInv'
<1> USE DEF ChangeFeature, SetInputs, hostVars, flagVars, runVars, viewVars
<1>1. FeatureHook[e] \in due' /\ due \subseteq due'
  OBVIOUS
<1>2. \A f \in Features : f # e => (f \in features' <=> f \in features)
  OBVIOUS
<1>3. \A h, S : Pending(h, S) => Pending(h, S)'
  BY <1>1 DEF Pending
<1>4. ViewFollowed'
  BY <1>1, <1>2 DEF ProvisionInv, ViewFollowed
<1>5. MissingPending'
  <2> SUFFICES ASSUME NEW s \in Services \ installed, NEW f \in Needs[s] \cap features'
               PROVE  Pending(FeatureHook[f], {"packages"})'
    BY DEF MissingPending
  <2>1. CASE f = e
    BY <2>1, <1>1 DEF Pending
  <2>2. CASE f # e
    <3>1. f \in features
      BY <2>2
    <3> QED BY <3>1, <1>3 DEF ProvisionInv, MissingPending
  <2> QED BY <2>1, <2>2
<1>6. SurplusPending'
  <2> SUFFICES ASSUME NEW s \in ((DvrPurged \cup JoinedPurged) \cap installed), s \notin Managed(features)'
               PROVE  \/ s \in DvrPurged /\ Pending("neutron-plugin-api-relation-changed", {"packages"})'
                      \/ s \in JoinedPurged /\ Pending("config-changed", UpToJoined)'
    BY DEF SurplusPending
  <2>1. s \in Services
    BY ServicesAssumption
  <2>2. CASE s \notin Managed(features)
    BY <2>2, <1>3 DEF ProvisionInv, SurplusPending
  <2>3. CASE s \in Managed(features)
    <3>1. e \in Needs[s]
      BY <2>1, <2>3, <1>2, TableAssumption DEF Managed, TypeOK
    <3>2. CASE e = DVR
      <4>1. s \in DvrPurged /\ "neutron-plugin-api-relation-changed" \in due'
        BY <3>1, <3>2, <1>1, PurgeAssumption
      <4> QED BY <4>1 DEF Pending
    <3>3. CASE e # DVR
      <4>1. s \in JoinedPurged /\ "config-changed" \in due'
        BY <3>1, <3>3, <1>1, PurgeAssumption
      <4> QED BY <4>1 DEF Pending
    <3> QED BY <3>2, <3>3
  <2> QED BY <2>2, <2>3
<1> QED BY <1>4, <1>5, <1>6 DEF ProvisionInv

\* What an install for the features the hook has read adds, or a purge takes,
\* against them has a hook queued.
LEMMA StaleFollowed ==
  ASSUME TypeOK, ViewFollowed, hook # "none", NEW s \in Services, NEW e \in Needs[s],
         ~(e \in viewFeatures <=> e \in features)
  PROVE  FeatureHook[e] \in due
<1>1. e \in Features
  BY TableAssumption
<1> QED BY <1>1 DEF ViewFollowed

LEMMA PackagesProvision ==
  ASSUME TypeOK, Sequenced, ProvisionInv, Packages
  PROVE  ProvisionInv'
<1> USE DEF Packages, Proceed, inputVars, jujuVars, viewVars
<1> DEFINE api == "neutron-plugin-api-relation-changed"
<1>1. hook # "none" /\ hook \in FeatureHooks
  BY DEF Sequenced, RunsHooks, FeatureHooks
<1>2. ViewFollowed'
  BY DEF ProvisionInv, ViewFollowed
<1>3. \A h, S : h # hook /\ Pending(h, S) => Pending(h, S)'
  BY DEF Pending
<1>4. \A h, S : h \in due => Pending(h, S)'
  BY DEF Pending
<1>5. Pending("config-changed", UpToJoined) => Pending("config-changed", UpToJoined)'
  BY DEF Pending, UpToJoined
<1>6. MissingPending'
  <2> SUFFICES ASSUME NEW s \in Services \ installed', NEW e \in Needs[s] \cap features
               PROVE  Pending(FeatureHook[e], {"packages"})'
    BY DEF MissingPending
  <2>1. e \in Features
    BY TableAssumption
  <2>2. CASE e \notin viewFeatures
    BY <1>1, <1>4, <2>2, StaleFollowed DEF ProvisionInv
  <2>3. CASE e \in viewFeatures
    <3>1. s \in Managed(viewFeatures)
      BY <2>3 DEF Managed
    <3>2. Purge(DvrPurged \ Managed(viewFeatures)) /\ hook = api /\ DVR \notin viewFeatures
      BY <3>1, <1>1 DEF Install, FeatureHooks
    <3>3. s \notin installed
      BY <3>1, <3>2 DEF Purge
    <3>4. FeatureHook[e] = "config-changed"
      BY <2>1, <2>3, <3>2, PurgeAssumption
    <3> QED BY <3>2, <3>3, <3>4, <1>3 DEF ProvisionInv, MissingPending
  <2> QED BY <2>2, <2>3
<1>7. SurplusPending'
  <2> SUFFICES ASSUME NEW s \in (DvrPurged \cup JoinedPurged) \cap installed', s \notin Managed(features)
               PROVE  \/ s \in DvrPurged /\ Pending(api, {"packages"})'
                      \/ s \in JoinedPurged /\ Pending("config-changed", UpToJoined)'
    BY DEF SurplusPending, Managed
  <2>1. s \in Services /\ Needs[s] \cap features = {} /\ Needs[s] # {}
    BY ServicesAssumption, TableAssumption DEF Managed
  <2>2. CASE s \in Managed(viewFeatures)
    <3>1. PICK e \in Needs[s] : e \in viewFeatures /\ e \notin features
      BY <2>1, <2>2 DEF Managed
    <3>2. FeatureHook[e] \in due /\ e \in Features
      BY <2>1, <3>1, <1>1, StaleFollowed, TableAssumption DEF ProvisionInv
    <3>3. CASE e = DVR
      BY <3>2, <3>3, <1>4, PurgeAssumption
    <3>4. CASE e # DVR
      BY <3>2, <3>4, <1>4, PurgeAssumption
    <3> QED BY <3>3, <3>4
  <2>3. CASE s \notin Managed(viewFeatures)
    <3>1. s \in installed
      BY <2>3 DEF Install, Purge
    <3>2. \/ s \in DvrPurged /\ Pending(api, {"packages"})
          \/ s \in JoinedPurged /\ Pending("config-changed", UpToJoined)
      BY <3>1 DEF ProvisionInv, SurplusPending
    <3>3. ASSUME s \in DvrPurged, Pending(api, {"packages"}) PROVE Pending(api, {"packages"})'
      <4>1. CASE hook = "config-changed"
        BY <3>3, <4>1, <1>3
      <4>2. CASE hook = api
        <5>1. CASE DVR \in viewFeatures
          <6>1. DVR \in Needs[s]
            BY <3>3, PurgeAssumption
          <6> QED BY <2>1, <2>3, <5>1, <6>1 DEF Managed
        <5>2. CASE DVR \notin viewFeatures
          BY <2>3, <3>3, <4>2, <5>2 DEF Purge
        <5> QED BY <5>1, <5>2
      <4> QED BY <4>1, <4>2, <1>1 DEF FeatureHooks
    <3> QED BY <3>2, <3>3, <1>5
  <2> QED BY <2>2, <2>3
<1> QED BY <1>2, <1>6, <1>7 DEF ProvisionInv

LEMMA JoinedProvision ==
  ASSUME TypeOK, Sequenced, ProvisionInv, Joined
  PROVE  ProvisionInv'
<1> USE DEF Joined, Proceed, inputVars, jujuVars, viewVars
<1> DEFINE api == "neutron-plugin-api-relation-changed"
<1>1. hook # "none"
  BY DEF Sequenced, RunsHooks
<1>2. ViewFollowed'
  BY DEF ProvisionInv, ViewFollowed
<1>3. \A h : Pending(h, {"packages"}) => Pending(h, {"packages"})'
  BY DEF Pending
<1>4. \A h, S : h \in due => Pending(h, S)'
  BY DEF Pending
<1>5. MissingPending'
  <2> SUFFICES ASSUME NEW s \in Services \ installed', NEW e \in Needs[s] \cap features
               PROVE  Pending(FeatureHook[e], {"packages"})'
    BY DEF MissingPending
  <2>1. CASE e \notin viewFeatures
    BY <1>1, <1>4, <2>1, StaleFollowed DEF ProvisionInv
  <2>2. CASE e \in viewFeatures
    <3>1. s \in Managed(viewFeatures)
      BY <2>2 DEF Managed
    <3>2. s \notin installed
      BY <3>1 DEF Install, Purge
    <3> QED BY <3>2, <1>3 DEF ProvisionInv, MissingPending
  <2> QED BY <2>1, <2>2
<1>6. SurplusPending'
  <2> SUFFICES ASSUME NEW s \in (DvrPurged \cup JoinedPurged) \cap installed', s \notin Managed(features)
               PROVE  \/ s \in DvrPurged /\ Pending(api, {"packages"})'
                      \/ s \in JoinedPurged /\ Pending("config-changed", UpToJoined)'
    BY DEF SurplusPending, Managed
  <2>1. s \in Services /\ Needs[s] \cap features = {} /\ Needs[s] # {}
    BY ServicesAssumption, TableAssumption DEF Managed
  <2>2. CASE s \in Managed(viewFeatures)
    <3>1. PICK e \in Needs[s] : e \in viewFeatures /\ e \notin features
      BY <2>1, <2>2 DEF Managed
    <3>2. FeatureHook[e] \in due /\ e \in Features
      BY <2>1, <3>1, <1>1, StaleFollowed, TableAssumption DEF ProvisionInv
    <3>3. CASE e = DVR
      BY <3>2, <3>3, <1>4, PurgeAssumption
    <3>4. CASE e # DVR
      BY <3>2, <3>4, <1>4, PurgeAssumption
    <3> QED BY <3>3, <3>4
  <2>3. CASE s \notin Managed(viewFeatures)
    <3>1. s \in installed
      BY <2>3 DEF Install, Purge
    <3>2. CASE s \in JoinedPurged
      <4>1. DHCP \notin viewFeatures
        BY <2>1, <2>3, <3>2, PurgeAssumption DEF Managed
      <4> QED BY <2>3, <3>2, <4>1 DEF Purge
    <3>3. CASE s \notin JoinedPurged
      BY <3>1, <3>3, <1>3 DEF ProvisionInv, SurplusPending
    <3> QED BY <3>2, <3>3
  <2> QED BY <2>2, <2>3
<1> QED BY <1>2, <1>5, <1>6 DEF ProvisionInv

\* The steps of a hook that touch no package, and the end of a hook.
LEMMA StepProvision ==
  ASSUME TypeOK, Sequenced, ProvisionInv,
         UNCHANGED <<inputVars, installed, due>>,
         \/ /\ UNCHANGED <<hook, viewVars, failed>>
            /\ pc \notin {"idle", "packages", "joined", "assess"}
            /\ hook \in FeatureHooks /\ pc \in {"write", "restart_ovs", "configure_ovs"} => pc' \in UpToJoined
            /\ UNCHANGED deferred \/ (deferred' = deferred \ {hook} /\ pc = "write")
         \/ Raise /\ pc # "idle" /\ UNCHANGED deferred
         \/ Exit /\ pc = "assess" /\ UNCHANGED <<failed, deferred>>
         \/ UNCHANGED <<hook, pc, viewVars, failed, deferred>>
  PROVE  ProvisionInv'
<1> USE DEF inputVars, viewVars
<1>1. ViewFollowed'
  BY DEF ProvisionInv, ViewFollowed, Raise, Exit
<1>2. ASSUME NEW h \in FeatureHooks, NEW S, S = {"packages"} \/ (S = UpToJoined /\ h = "config-changed"),
             Pending(h, S)
      PROVE  Pending(h, S)'
  <2>1. CASE /\ UNCHANGED <<hook, viewVars, failed>>
             /\ pc \notin {"idle", "packages", "joined", "assess"}
             /\ hook \in FeatureHooks /\ pc \in {"write", "restart_ovs", "configure_ovs"} => pc' \in UpToJoined
             /\ UNCHANGED deferred \/ (deferred' = deferred \ {hook} /\ pc = "write")
    BY <1>2, <2>1 DEF Pending, UpToJoined
  <2>2. CASE Raise /\ pc # "idle" /\ UNCHANGED deferred
    BY <1>2, <2>2 DEF Sequenced, Pending, Raise, Exit, FeatureHooks, Hooks, Writers, UpToJoined
  <2>3. CASE Exit /\ pc = "assess" /\ UNCHANGED <<failed, deferred>>
    BY <1>2, <2>3 DEF Pending, Exit, FeatureHooks, UpToJoined
  <2>4. CASE UNCHANGED <<hook, pc, viewVars, failed, deferred>>
    BY <1>2, <2>4 DEF Pending
  <2> QED BY <2>1, <2>2, <2>3, <2>4
<1>3. \A h \in FeatureHooks : Pending(h, {"packages"}) => Pending(h, {"packages"})'
  BY <1>2
<1>4. Pending("config-changed", UpToJoined) => Pending("config-changed", UpToJoined)'
  BY <1>2 DEF FeatureHooks
<1> QED BY <1>1, <1>3, <1>4, PendingKept

LEMMA ProvisionInductive == TypeOK /\ Sequenced /\ ProvisionInv /\ [Next]_vars => ProvisionInv'
<1> SUFFICES ASSUME TypeOK, Sequenced, ProvisionInv, [Next]_vars PROVE ProvisionInv'
  OBVIOUS
<1>1. CASE Inputs
  <2>1. ASSUME NEW w \in Writers, ChangeData(w) PROVE ProvisionInv'
    <3>1. UNCHANGED <<features, installed, failed, hook, pc, viewFeatures, deferred>> /\ due \subseteq due'
      BY <2>1 DEF ChangeData, SetInputs, hostVars, runVars, viewVars
    <3> QED BY <3>1, PendingKept DEF Pending, ProvisionInv, ViewFollowed
  <2>2. ASSUME NEW e \in Features, ChangeFeature(e) PROVE ProvisionInv'
    BY <2>2, FeatureProvision
  <2> QED BY <1>1, <2>1, <2>2 DEF Inputs
<1>2. CASE Operator
  <2>1. ASSUME NEW h \in Series, UpgradeSeries(h) PROVE ProvisionInv'
    <3>1. UNCHANGED <<features, installed, failed, hook, pc, viewFeatures, deferred>> /\ due \subseteq due'
      BY <2>1 DEF UpgradeSeries, hostVars, inputVars, runVars, viewVars
    <3> QED BY <3>1, PendingKept DEF Pending, ProvisionInv, ViewFollowed
  <2> QED BY <1>2, <2>1, BeginsProvision DEF Operator
<1>3. CASE Dispatch \/ update_status
  BY <1>3, BeginsProvision
<1>4. CASE Step
  <2> USE DEF Proceed, jujuVars, UpToJoined, FeatureHooks
  <2>1. CASE RestartOvs \/ ConfigureOvs
    BY <2>1, StepProvision DEF RestartOvs, ConfigureOvs, hostVars
  <2>2. ASSUME NEW s \in Services, RestartService(s) \/ StopService(s) \/ StartService(s)
        PROVE ProvisionInv'
    BY <2>2, StepProvision DEF RestartService, StopService, StartService
  <2>3. ASSUME NEW s \in Services, PauseService(s) \/ ResumeService(s)
        PROVE ProvisionInv'
    BY <2>3, StepProvision DEF PauseService, ResumeService
  <2>4. CASE Restarted \/ SetPaused \/ ClearPaused
    BY <2>4, StepProvision DEF Restarted, SetPaused, ClearPaused, hostVars
  <2>5. CASE Assess
    BY <2>5, StepProvision DEF Assess, hostVars
  <2>6. ASSUME NEW f \in Files, WriteFile(f) PROVE ProvisionInv'
    BY <2>6, StepProvision DEF WriteFile
  <2>7. CASE Written
    <3>1. /\ UNCHANGED <<inputVars, installed, due, hook, viewVars, failed>> /\ pc = "write"
          /\ pc' \in {"restart_ovs", "resume", "restart"}
          /\ hook \in FeatureHooks => pc' = "restart_ovs"
          /\ deferred' = deferred \ {hook}
      BY <2>7 DEF Written, hostVars
    <3> QED BY <3>1, StepProvision
  <2> QED
    BY <1>4, <2>1, <2>2, <2>3, <2>4, <2>5, <2>6, <2>7, PackagesProvision, JoinedProvision DEF Step
<1>5. CASE Faults
  BY <1>5, StepProvision DEF Faults, Abort, Die, Reboot, jujuVars, hostVars, runVars
<1>6. CASE UNCHANGED vars
  BY <1>6, StepProvision DEF vars, jujuVars, hostVars, runVars
<1> QED BY <1>1, <1>2, <1>3, <1>4, <1>5, <1>6 DEF Next

\* Once the unit has settled, the packages of the features that are on are
\* installed and those only other features need are purged, after any number of
\* changes and failures.  (install_packages, purge_packages)
THEOREM PackagesFollow == Spec => []Provisioned
<1>1. Init => ProvisionInv
  <2> SUFFICES ASSUME Init PROVE ProvisionInv
    OBVIOUS
  <2>1. ViewFollowed /\ MissingPending
    BY DEF Init, ViewFollowed, MissingPending
  <2>2. SurplusPending
    BY PurgeAssumption DEF Init, SurplusPending, Managed, Base
  <2> QED BY <2>1, <2>2 DEF ProvisionInv
<1>2. TypeOK /\ Sequenced /\ BaseInstalled /\ ProvisionInv => Provisioned
  <2> SUFFICES ASSUME TypeOK, Sequenced, BaseInstalled, ProvisionInv, Settled, deferred = {}
               PROVE  /\ Managed(features) \subseteq installed
                      /\ (DvrPurged \cup JoinedPurged) \cap installed \subseteq Managed(features)
    BY DEF Provisioned
  <2>1. \A h \in FeatureHooks : \A S : ~Pending(h, S)
    BY DEF Settled, Idle, Sequenced, Pending, FeatureHooks
  <2>2. ASSUME NEW s \in Managed(features), s \notin installed PROVE FALSE
    <3>1. PICK e \in Needs[s] : e \in features
      BY <2>2 DEF BaseInstalled, Base, Managed
    <3>2. FeatureHook[e] \in FeatureHooks /\ Pending(FeatureHook[e], {"packages"})
      BY <2>2, <3>1, ServicesAssumption DEF ProvisionInv, MissingPending, Managed, TypeOK, FeatureHooks
    <3> QED BY <2>1, <3>2
  <2>3. (DvrPurged \cup JoinedPurged) \cap installed \subseteq Managed(features)
    BY <2>1 DEF ProvisionInv, SurplusPending, FeatureHooks
  <2> QED BY <2>2, <2>3
<1>3. UnitInv => Sequenced /\ BaseInstalled
  BY DEF UnitInv
<1>4. Spec => []ProvisionInv
  BY <1>1, <1>3, TypeCorrect, UnitInvHolds, ProvisionInductive, PTL DEF Spec
<1> QED BY <1>2, <1>3, <1>4, TypeCorrect, UnitInvHolds, PTL
=============================================================================
