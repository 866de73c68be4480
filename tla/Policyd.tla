-------------------------------- MODULE Policyd --------------------------------
(***************************************************************************)
(* contrib/openstack/policyd.py: the files of the policyd-override         *)
(* resource, put into a service's policy.d directory while the service may *)
(* read it at any time.  A file says whether that has succeeded; it makes  *)
(* the prefix of the status line and lets config-changed skip the work.    *)
(* The operator replaces the resource and the option between hooks, and a  *)
(* hook is killed anywhere and retried.                                    *)
(***************************************************************************)
EXTENDS Naturals, Sequences, FiniteSets

CONSTANTS
    Entries,      \* names of the files a resource may have
    Kept,         \* the one that is in blacklist_paths
    MaxResources, MaxPolicyKills  \* bounds: resources attached, killed hooks

VARIABLES
    enabled,   \* use-policyd-override
    resource,  \* what resource-get answers
    policy_d,  \* policy.d: its files, and whose they are
    success,   \* policyd-override-success is there
    doing,     \* the hook that runs
    pending,   \* hooks that are due
    killed,
    processed  \* history: the resource processed last, how that ended, and whether the
               \* success file was left behind: by a resource refused as a whole, or a
               \* hook killed while it turned the overrides off

policy_vars == <<enabled, resource, policy_d, success, doing, pending, killed, processed>>

\* A zip file: `number' tells resources apart, `whole' is FALSE for one that
\* open_and_filter_yaml_files refuses (no zip file, no YAML file, a name twice).
\* An entry is `valid' when read_and_validate_yaml, and the template function if
\* it has the extension of a template, accept it.
Resources(n) ==
    {r \in [number : {n}, whole : BOOLEAN,
            files : UNION {[1..k -> [name : Entries, valid : BOOLEAN]] : k \in 1..2}] :
        /\ r.whole <=> \A i, j \in DOMAIN r.files : i # j => r.files[i].name # r.files[j].name
        /\ ~r.whole => \A i \in DOMAIN r.files : r.files[i].valid}
NoResource == [number |-> 0, whole |-> FALSE, files |-> <<>>]

\* A file of policy.d: that of a resource, or the charm's own (number 0).
File(name, n) == [name |-> name, number |-> n]
Own == File(Kept, 0)
Overrides == policy_d \ {Own}

NotDoing == [at |-> "idle", hook |-> "none", left |-> <<>>, remove |-> {}]

-----------------------------------------------------------------------------
PolicyInit ==
    /\ enabled = FALSE
    /\ resource = NoResource
    /\ policy_d = {Own}
    /\ success = FALSE
    /\ doing = NotDoing
    /\ pending = {"install"}
    /\ killed = 0
    /\ processed = [number |-> 0, ok |-> TRUE, stale |-> FALSE]

SetOption ==
    /\ doing.at = "idle"
    /\ enabled' = ~enabled
    /\ pending' = pending \cup {"config-changed"}
    /\ UNCHANGED <<resource, policy_d, success, doing, killed, processed>>

\* juju attach-resource, which an upgrade-charm hook follows.
AttachResource ==
    /\ doing.at = "idle"
    /\ resource.number < MaxResources
    /\ resource' \in Resources(resource.number + 1)
    /\ pending' = pending \cup {"upgrade-charm"}
    /\ UNCHANGED <<enabled, policy_d, success, doing, killed, processed>>

-----------------------------------------------------------------------------
\* The files clean_policyd_dir_for removes.
Unkept == {f \in policy_d : f.name # Kept}

\* maybe_do_policyd_overrides: with the option off the directory is cleaned and the
\* success file removed; config-changed does nothing where that file is.
maybe_do_policyd_overrides(hook) ==
    /\ doing.at = "idle"
    /\ hook \in pending
    /\ doing.hook \in {"none", hook}
    /\ LET skips == hook = "config-changed" /\ success
       IN doing' =
            [NotDoing EXCEPT
               !.hook = hook,
               !.at = IF ~enabled THEN "disable" ELSE IF skips THEN "end" ELSE "open",
               !.remove = IF ~enabled THEN Unkept ELSE {}]
    /\ UNCHANGED <<enabled, resource, policy_d, success, pending, killed, processed>>

\* One file, in the order of scandir.
RemoveFile ==
    /\ \E f \in doing.remove :
          /\ policy_d' = policy_d \ {f}
          /\ doing' = [doing EXCEPT !.remove = @ \ {f}]
    /\ UNCHANGED <<enabled, resource, success, pending, killed, processed>>

remove_policy_success_file ==
    /\ doing.at = "disable" /\ doing.remove = {}
    /\ success' = FALSE
    /\ doing' = [doing EXCEPT !.at = "end"]
    /\ processed' = [processed EXCEPT !.stale = FALSE]
    /\ UNCHANGED <<enabled, resource, policy_d, pending, killed>>

\* Mutant: writes over what is there.
open_and_write ==
    /\ doing.at = "open"
    /\ IF resource.whole
       THEN /\ success' = FALSE
            /\ doing' = [doing EXCEPT !.at = "write", !.left = resource.files]
       ELSE /\ doing' = [doing EXCEPT !.at = "failed", !.remove = Unkept]
            /\ UNCHANGED success
    /\ processed' = [number |-> resource.number, ok |-> FALSE, stale |-> ~resource.whole]
    /\ UNCHANGED <<enabled, resource, policy_d, pending, killed>>

\* process_policy_resource_file: only a resource that is accepted as a whole has the
\* success file removed, and then the directory cleaned.
open_and_filter_yaml_files ==
    /\ doing.at = "open"
    /\ IF resource.whole
       THEN /\ success' = FALSE
            /\ doing' = [doing EXCEPT !.at = "write", !.left = resource.files, !.remove = Unkept]
       ELSE /\ doing' = [doing EXCEPT !.at = "failed", !.remove = Unkept]
            /\ UNCHANGED success
    /\ processed' = [number |-> resource.number, ok |-> FALSE, stale |-> ~resource.whole]
    /\ UNCHANGED <<enabled, resource, policy_d, pending, killed>>

\* An entry on a blacklisted path, or one that is not valid, fails all of them.
WriteOverride ==
    /\ doing.at = "write" /\ doing.remove = {} /\ doing.left # <<>>
    /\ LET e == Head(doing.left)
       IN IF e.name # Kept /\ e.valid
          THEN /\ policy_d' = {f \in policy_d : f.name # e.name} \cup
                             {File(e.name, resource.number)}
               /\ doing' = [doing EXCEPT !.left = Tail(@)]
          ELSE /\ doing' = [doing EXCEPT !.at = "failed", !.remove = Unkept]
               /\ UNCHANGED policy_d
    /\ UNCHANGED <<enabled, resource, success, pending, killed, processed>>

set_policy_success_file ==
    /\ doing.at = "write" /\ doing.remove = {} /\ doing.left = <<>>
    /\ success' = TRUE
    /\ doing' = [doing EXCEPT !.at = "end"]
    /\ processed' = [processed EXCEPT !.ok = TRUE]
    /\ UNCHANGED <<enabled, resource, policy_d, pending, killed>>

\* The hook ends as any other; a failure is only logged.  A hook other
\* than config-changed is followed by one.
EndHook ==
    /\ doing.at \in {"end", "failed"} /\ doing.remove = {}
    /\ doing' = NotDoing
    /\ pending' = IF doing.hook = "config-changed" THEN pending \ {doing.hook}
                  ELSE (pending \ {doing.hook}) \cup {"config-changed"}
    /\ UNCHANGED <<enabled, resource, policy_d, success, killed, processed>>

\* Juju runs the same hook again before any other.
PolicyKill ==
    /\ doing.at # "idle"
    /\ killed < MaxPolicyKills
    /\ killed' = killed + 1
    /\ doing' = [NotDoing EXCEPT !.hook = doing.hook]
    /\ processed' = [processed EXCEPT !.stale = @ \/ doing.at = "disable"]
    /\ UNCHANGED <<enabled, resource, policy_d, success, pending>>

PolicyNext ==
    \/ SetOption \/ AttachResource
    \/ \E h \in {"install", "upgrade-charm", "config-changed"} : maybe_do_policyd_overrides(h)
    \/ RemoveFile \/ remove_policy_success_file
    \/ open_and_filter_yaml_files \/ WriteOverride \/ set_policy_success_file
    \/ EndHook \/ PolicyKill

PolicySpec == PolicyInit /\ [][PolicyNext]_policy_vars

-----------------------------------------------------------------------------
policyd_status_message_prefix == IF success THEN "PO:" ELSE "PO (broken):"
PolicySettled == doing.at = "idle" /\ pending = {}

\* The service never reads files of two resources together, whatever hook was
\* killed in between.  (process_policy_resource_file: cleaned before it is written)
OneResource == \A f, g \in Overrides : f.number = g.number

\* What is in blacklist_paths stays as it is.  (clean_policyd_dir_for)
KeptAlone == {f \in policy_d : f.name = Kept} = {Own}

\* "No policy override files are installed if the PO (broken) is shown", and none are
\* while the option is off.  (policyd.py:168)
BrokenHasNone ==
    PolicySettled /\ (~enabled \/ policyd_status_message_prefix = "PO (broken):") => Overrides = {}

\* "PO" means that all files of the resource are there and no others, unless
\* the success file was left behind.  (set_policy_success_file)
SuccessIsWhole ==
    PolicySettled /\ enabled /\ success /\ ~processed.stale =>
        Overrides = {File(resource.files[i].name, resource.number) : i \in DOMAIN resource.files}

\* policy.d has the overrides of one resource, nothing else is touched, none are left of a
\* broken one, and the success file means all of them.  (process_policy_resource_file)
PolicyRight == OneResource /\ KeptAlone /\ BrokenHasNone /\ SuccessIsWhole

-----------------------------------------------------------------------------
\* What the documentation says and the code does not do.

\* policyd.py:165 "If the installation of the policy override YAML files failed for
\* any reason then the status line will be prefixed with PO (broken)": not when the
\* resource is refused as a whole after an earlier one has succeeded.
BrokenIsShown ==
    PolicySettled /\ enabled /\ ~processed.ok => policyd_status_message_prefix = "PO (broken):"
=============================================================================
