------------------------------ MODULE OvsOptions ------------------------------
(***************************************************************************)
(* The other_config columns that install_packages() sets in the Open       *)
(* vSwitch database for DPDK and for hardware offload, one ovs-vsctl       *)
(* command each, and the restart of Open vSwitch that makes ovs-vswitchd   *)
(* use them.  Open vSwitch can also be restarted by something else at any  *)
(* time; a hook can be killed between any two commands and is retried.     *)
(***************************************************************************)
EXTENDS Naturals, Sequences

CONSTANTS
    ColumnValues,     \* settings of dpdk-socket-* and PCI whitelists
    NeverSet,         \* a column that has never been set; not a value
    MaxOptionInputs,  \* bound: changes of the inputs
    MaxKilledHooks    \* bound: killed hooks

Columns == {"dpdk-lcore-mask", "dpdk-socket-mem", "dpdk-init", "dpdk-extra",
            "hw-offload", "max-idle"}
Hooks == {"config-changed", "neutron-plugin-api-relation-changed"}

VARIABLES
    conf,         \* use_dpdk(), use_hw_offload(), cores, memory and whitelist
    inputs,       \* how often it or the relation data changed
    unit_paused,  \* the unit-paused flag
    due,          \* hooks that have to run
    hook,         \* the hook that runs or is in error; "none" otherwise
    script,       \* the commands it still has to run; <<>> when it does not run
    changed,      \* values_changed: has a command of this function changed a column?
    db,           \* the columns
    used,         \* the columns as ovs-vswitchd read them when it started
    deferred,     \* the last hook was a config-changed that returned early
    lost,         \* a restart was lost: a hook was killed, or the unit was paused
    killed_hooks  \* how many hooks were killed

options_vars == <<conf, inputs, unit_paused, due, hook, script, changed, db, used,
                  deferred, lost, killed_hooks>>

Config == [dpdk: BOOLEAN, offload: BOOLEAN, cores: ColumnValues, memory: ColumnValues,
           whitelist: ColumnValues]

-----------------------------------------------------------------------------
SetTo(column, value) == [cmd |-> "set", column |-> column, value |-> value]
RestartIfChanged == [cmd |-> "restart"]

enable_ovs_dpdk(c) ==
    <<SetTo("dpdk-lcore-mask", c.cores),
      SetTo("dpdk-socket-mem", c.memory),
      SetTo("dpdk-init", "true"),
      SetTo("dpdk-extra", c.whitelist),
      RestartIfChanged>>
enable_hw_offload ==
    <<SetTo("hw-offload", "true"), SetTo("max-idle", "30000"), RestartIfChanged>>

install_packages(c) ==
    (IF c.dpdk THEN enable_ovs_dpdk(c) ELSE <<>>)
        \o (IF c.offload THEN enable_hw_offload ELSE <<>>)

-----------------------------------------------------------------------------
OptionsInit ==
    /\ conf \in {c \in Config : ~c.dpdk /\ ~c.offload
                                  /\ c.cores = c.memory /\ c.memory = c.whitelist}
    /\ inputs = 0
    /\ unit_paused = FALSE
    /\ due = {}
    /\ hook = "none"
    /\ script = <<>>
    /\ changed = FALSE
    /\ db = [c \in Columns |-> NeverSet]
    /\ used = db
    /\ deferred = FALSE
    /\ lost = FALSE
    /\ killed_hooks = 0

\* juju config
ChangeConfig ==
    /\ inputs < MaxOptionInputs
    /\ inputs' = inputs + 1
    /\ conf' \in {[conf EXCEPT ![o] = v] :
                     o \in {"cores", "memory", "whitelist"}, v \in ColumnValues}
                 \cup {[conf EXCEPT ![o] = ~conf[o]] : o \in {"dpdk", "offload"}}
    /\ due' = due \cup {"config-changed"}
    /\ UNCHANGED <<unit_paused, hook, script, changed, db, used, deferred, lost, killed_hooks>>

\* Other relation data of neutron-api; with DVR or a metadata agent its hook goes
\* through install_packages() too.
ChangeRelation ==
    /\ inputs < MaxOptionInputs
    /\ inputs' = inputs + 1
    /\ due' = due \cup {"neutron-plugin-api-relation-changed"}
    /\ UNCHANGED <<conf, unit_paused, hook, script, changed, db, used, deferred, lost,
                   killed_hooks>>

\* The pause and resume actions run between two hooks.
PauseOrResume ==
    /\ script = <<>>
    /\ unit_paused' = ~unit_paused
    /\ UNCHANGED <<conf, inputs, due, hook, script, changed, db, used, deferred, lost,
                   killed_hooks>>

\* Every hook ends with a step of its own, after which Juju takes it as done.
Done == [cmd |-> "done"]

\* config-changed does nothing on a paused unit.
Begin(h) ==
    /\ script = <<>>
    /\ hook = h \/ (hook = "none" /\ h \in due)
    /\ hook' = h
    /\ due' = due \ {h}
    /\ changed' = FALSE
    /\ script' = IF h = "config-changed" /\ unit_paused THEN <<Done>>
                 ELSE install_packages(conf) \o <<Done>>
    /\ UNCHANGED <<conf, inputs, unit_paused, db, used, deferred, lost, killed_hooks>>

\* set_Open_vSwitch_column_value
SetColumn ==
    /\ script # <<>>
    /\ Head(script).cmd = "set"
    /\ db' = [db EXCEPT ![Head(script).column] = Head(script).value]
    /\ changed' = (changed \/ db' # db)
    /\ script' = Tail(script)
    /\ UNCHANGED <<conf, inputs, unit_paused, due, hook, used, deferred, lost, killed_hooks>>

\* Mutant: forgets what an earlier column of the same function has changed.
RestartLastOnly ==
    /\ script # <<>>
    /\ Head(script).cmd = "restart"
    /\ used' = IF changed /\ db["dpdk-extra"] # used["dpdk-extra"] THEN db ELSE used
    /\ lost' = (lost \/ (changed /\ unit_paused))
    /\ changed' = FALSE
    /\ script' = Tail(script)
    /\ UNCHANGED <<conf, inputs, unit_paused, due, hook, db, deferred, killed_hooks>>

\* The end of enable_ovs_dpdk and of enable_hw_offload.
RestartForColumns ==
    /\ script # <<>>
    /\ Head(script).cmd = "restart"
    /\ used' = IF changed /\ ~unit_paused THEN db ELSE used
    /\ lost' = (lost \/ (changed /\ unit_paused))
    /\ changed' = FALSE
    /\ script' = Tail(script)
    /\ UNCHANGED <<conf, inputs, unit_paused, due, hook, db, deferred, killed_hooks>>

Finish ==
    /\ script = <<Done>>
    /\ script' = <<>>
    /\ hook' = "none"
    /\ deferred' = (unit_paused /\ hook = "config-changed")
    /\ UNCHANGED <<conf, inputs, unit_paused, due, changed, db, used, lost, killed_hooks>>

OptionsKill ==
    /\ script # <<>>
    /\ killed_hooks < MaxKilledHooks
    /\ killed_hooks' = killed_hooks + 1
    /\ lost' = TRUE
    /\ script' = <<>>
    /\ changed' = FALSE
    /\ UNCHANGED <<conf, inputs, unit_paused, due, hook, db, used, deferred>>

\* Something else restarts Open vSwitch.
OvsStarts ==
    /\ used # db
    /\ used' = db
    /\ UNCHANGED <<conf, inputs, unit_paused, due, hook, script, changed, db, deferred,
                   lost, killed_hooks>>

OptionsNext ==
    \/ ChangeConfig
    \/ ChangeRelation
    \/ \E h \in Hooks : Begin(h)
    \/ PauseOrResume
    \/ SetColumn
    \/ RestartForColumns
    \/ Finish
    \/ OptionsKill
    \/ OvsStarts

OptionsSpec == OptionsInit /\ [][OptionsNext]_options_vars

-----------------------------------------------------------------------------
\* No hook is queued, running or in error.
Settled == hook = "none" /\ due = {}

\* Whatever was killed and retried, the columns end up as the config says, and
\* those of DPDK together: no hook leaves a mask of one config with the memory
\* of another.  (enable_ovs_dpdk, enable_hw_offload)
ColumnsSet ==
    Settled /\ ~deferred =>
        \A i \in DOMAIN install_packages(conf) :
            LET c == install_packages(conf)[i]
            IN  c.cmd = "set" => db[c.column] = c.value

\* If no hook was killed and the unit was not paused, ovs-vswitchd uses what the
\* columns say as soon as the hook is through, however many of them changed.
\* (the restart at the end of enable_ovs_dpdk and enable_hw_offload)
ColumnsUsed == ~lost /\ hook = "none" => used = db

\* Open vSwitch has the columns that the options ask for, and uses them unless a
\* restart was lost.  (enable_ovs_dpdk, enable_hw_offload)
OptionsRight == ColumnsSet /\ ColumnsUsed

-----------------------------------------------------------------------------
\* What the documentation says and the code does not do.

\* README.md:85 "Changing dpdk-socket-* configuration options will trigger a
\* restart of Open vSwitch": also when the hook that set the columns ran on a
\* paused unit, or was killed before the restart and retried.
SocketOptionsUsed ==
    Settled /\ ~unit_paused /\ ~deferred /\ conf.dpdk =>
        \A c \in {"dpdk-lcore-mask", "dpdk-socket-mem"} : used[c] = db[c]
=============================================================================
