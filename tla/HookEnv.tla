-------------------------------- MODULE HookEnv --------------------------------
(***************************************************************************)
(* charmhelpers/core/hookenv.py: what one hook process reads and leaves    *)
(* behind.  The config is read once, compared with the copy an earlier     *)
(* hook has saved, and saved when the hook succeeds; relation data is read *)
(* through a cache; relation-set counts when the process exits with 0.     *)
(***************************************************************************)
CONSTANTS
    OptionKeys, OptionValues, \* config.yaml
    NoValue                     \* None: an option without value, a key not set

VARIABLES
    options,     \* what config-get answers
    config_file, \* .juju-persistent-config
    own_data,    \* this unit's relation data, as others see it
    process,     \* the hook process that runs
    told         \* history: what the last process that saved its config saw and stored

hookenv_vars == <<options, config_file, own_data, process, told>>

HookValues == OptionValues \cup {NoValue}
Opts == [OptionKeys -> HookValues]
\* A Config object: the options and one key of the charm's own (mykey).
Configs == [opts : Opts, mykey : HookValues]
NoConfig == [opts |-> [k \in OptionKeys |-> NoValue], mykey |-> NoValue]

NoProcess == [at |-> "none", loaded |-> FALSE, opts |-> NoConfig.opts, config |-> NoConfig,
              prev |-> "None", prev_config |-> NoConfig, data |-> NoValue, cached |-> FALSE,
              cache |-> NoValue, exits |-> FALSE]

Init ==
    /\ options \in Opts
    /\ config_file = [is |-> "absent", config |-> NoConfig]
    /\ own_data = NoValue
    /\ process = NoProcess
    /\ told = [saved |-> FALSE, torn |-> FALSE, config |-> NoConfig]

\* juju config
SetOption ==
    /\ \E k \in OptionKeys, v \in HookValues :
          options[k] # v /\ options' = [options EXCEPT ![k] = v]
    /\ UNCHANGED <<config_file, own_data, process, told>>

\* Juju gives a hook one view of the config and of the relations.
execute ==
    /\ process.at = "none"
    /\ process' = [NoProcess EXCEPT !.at = "body", !.opts = options, !.data = own_data]
    /\ UNCHANGED <<options, config_file, own_data, told>>

-----------------------------------------------------------------------------
\* load_previous: a file that does not parse leaves no previous config, which
\* makes every option a changed one; keys that config-get does not know are kept.
\* Mutant: an empty previous config instead.
load_previous_empty == IF config_file.is = "absent" THEN "None" ELSE "dict"
load_previous == IF config_file.is = "whole" THEN "dict" ELSE "None"

config ==
    /\ process.at = "body"
    /\ ~process.loaded
    /\ LET kept == IF config_file.is = "whole" THEN config_file.config ELSE NoConfig
       IN process' = [process EXCEPT !.loaded = TRUE, !.prev = load_previous, !.prev_config = kept,
                                     !.config = [opts |-> process.opts, mykey |-> kept.mykey]]
    /\ UNCHANGED <<options, config_file, own_data, told>>

previous(k) == IF process.prev = "None" THEN NoValue ELSE process.prev_config.opts[k]
changed(k) == process.prev = "None" \/ previous(k) # process.config.opts[k]

SetMyKey ==
    /\ process.at = "body"
    /\ process.loaded
    /\ \E v \in HookValues : process' = [process EXCEPT !.config.mykey = v]
    /\ UNCHANGED <<options, config_file, own_data, told>>

-----------------------------------------------------------------------------
\* relation_get of this unit's own data, through the cache.
relation_get ==
    /\ process.at = "body"
    /\ ~process.cached
    /\ process' = [process EXCEPT !.cached = TRUE, !.cache = process.data]
    /\ UNCHANGED <<options, config_file, own_data, told>>

\* relation_set flushes every entry with this unit's name in it.
relation_set(v) ==
    /\ process.at = "body"
    /\ process' = [process EXCEPT !.data = v, !.cached = FALSE, !.cache = NoValue]
    /\ UNCHANGED <<options, config_file, own_data, told>>

\* relation_clear changes the cached dictionary itself before it sets it.
relation_clear ==
    /\ process.cached
    /\ relation_set(NoValue)

-----------------------------------------------------------------------------
\* The body returns, or raises SystemExit(0), and _run_atexit saves the config
\* if it was ever read: open(path, 'w') truncates the file, then it is written.
Return ==
    /\ process.at = "body"
    /\ \E exits \in BOOLEAN :
          process' = [process EXCEPT !.exits = exits, !.at = IF process.loaded THEN "save" ELSE "saved"]
    /\ UNCHANGED <<options, config_file, own_data, told>>

OpenConfigFile ==
    /\ process.at = "save"
    /\ config_file' = [is |-> "torn", config |-> NoConfig]
    /\ process' = [process EXCEPT !.at = "write"]
    /\ UNCHANGED <<options, own_data, told>>

save ==
    /\ process.at = "write"
    /\ config_file' = [is |-> "whole", config |-> process.config]
    /\ told' = [saved |-> TRUE, torn |-> FALSE, config |-> process.config]
    /\ process' = [process EXCEPT !.at = "saved"]
    /\ UNCHANGED <<options, own_data>>

\* main(): assess_status follows, unless the body has exited; then Juju commits.
Commit ==
    /\ process.at = "saved"
    /\ own_data' = process.data
    /\ process' = NoProcess
    /\ UNCHANGED <<options, config_file, told>>

\* The body, or assess_status, raises or exits with another code: no atexit
\* callbacks, and Juju drops what was set.  Or the process is killed anywhere.
Fail ==
    /\ process.at \in {"body", "save", "write"} \/ (process.at = "saved" /\ ~process.exits)
    /\ process' = NoProcess
    /\ told' = [told EXCEPT !.torn = @ \/ process.at = "write"]
    /\ UNCHANGED <<options, config_file, own_data>>

Next ==
    \/ SetOption
    \/ execute
    \/ config \/ SetMyKey
    \/ relation_get \/ relation_clear
    \/ \E v \in HookValues : relation_set(v)
    \/ Return \/ OpenConfigFile \/ save \/ Commit
    \/ Fail

Spec == Init /\ [][Next]_hookenv_vars

-----------------------------------------------------------------------------
\* Whatever happened to the processes before, an option that differs from what
\* the last hook that saved it saw is reported as changed; one that does not is
\* reported only when the file is new or was torn.  (Config.changed, save)
ChangedTold ==
    process.at = "body" /\ process.loaded /\ told.saved =>
        \A k \in OptionKeys :
            /\ told.config.opts[k] # process.config.opts[k] => changed(k)
            /\ told.config.opts[k] = process.config.opts[k] /\ ~told.torn => ~changed(k)

\* Between two hooks the file has what the last successful body has left, also
\* the charm's own keys, unless a process was killed while it wrote the file.
\* (load_previous, _run_atexit)
OwnKeysKept ==
    process.at = "none" /\ told.saved /\ ~told.torn => config_file.config = told.config

\* A hook reads back the relation data it has set, not what it had read before.
\* (relation_set, cached, flush)
OwnWritesRead == process.cached => process.cache = process.data

\* A hook is told of each change since the last one that saved its config, and reads
\* what it has written itself.  (hookenv.Config, relation_get)
HookDataTrue == ChangedTold /\ OwnKeysKept /\ OwnWritesRead

-----------------------------------------------------------------------------
\* What the documentation says and the code does not do.

\* hookenv.py:341 "keys/values that we add are preserved across hooks": not when
\* the next one is killed while it saves them.
MyKeyPreserved ==
    process.at = "none" /\ told.saved => config_file.config.mykey = told.config.mykey
=============================================================================
