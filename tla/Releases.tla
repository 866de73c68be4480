-------------------------------- MODULE Releases --------------------------------
(***************************************************************************)
(* charmhelpers.contrib.openstack.utils on releases: os_release, which the *)
(* charm asks while it is imported and again while it installs packages,   *)
(* openstack_upgrade_available and the upgrade as an action, and the       *)
(* changes that are remembered in the unit's store: of an option and of    *)
(* the endpoints that keystone notifies.  A hook or action is a process    *)
(* with caches of its own, which may fail or be killed between two calls.  *)
(***************************************************************************)
EXTENDS Naturals, Sequences

CONSTANTS
    Newest,     \* releases are numbered, the oldest that the charm supports is 1
    Packaged,   \* the first release whose archive has the package openstack-release
    MaxEvents,  \* bound: changes of the option, of the endpoint and of the sources
    MaxFaults   \* bound: calls of apt that fail, processes that are killed

VARIABLES
    machine,    \* the release that apt's sources give, and those that are installed
    settings,   \* openstack-origin, another option, the endpoint's nonce
    process,    \* what the process has to do, has read and has cached
    store,      \* the option and nonce saved in the unit's store
    acted,      \* the last value of the option, and nonce, that a process has acted on
    outcome,    \* of the last upgrade
    lost,       \* history: a process has died that had asked whether the option changed
    events, faults

releases_vars == <<machine, settings, process, store, acted, outcome, lost, events, faults>>

None == 0
Rels == 1..Newest
Base == 1        \* base='icehouse'
NoProcess == [kind |-> "none", todo |-> <<>>, settings |-> [origin |-> None, option |-> None, nonce |-> None],
              os_rel |-> None, file |-> None, read |-> FALSE, changed |-> FALSE]

Init ==
    /\ \E r \in Rels : /\ machine = [archive |-> r, installed |-> None, file |-> None, rendered |-> None]
                       /\ settings \in [origin : {None, r}, option : 0..1, nonce : {1}]
    /\ process = NoProcess
    /\ store = [option |-> None, nonce |-> None]
    /\ acted = [option |-> None, nonce |-> None]
    /\ outcome = "none" /\ lost = FALSE
    /\ events = 0 /\ faults = 0

\* What a release's archive has of openstack-release.
InArchive(r) == IF r >= Packaged THEN r ELSE None

\* Between hooks the principal upgrades the whole machine, or the operator sets
\* openstack-origin of a charm that has it; an option is set, an endpoint changes.
Principal(r) ==
    /\ r > machine.archive
    /\ machine' = [machine EXCEPT !.archive = r,
                     !.installed = IF @ = None THEN @ ELSE r,
                     !.file = IF @ = None THEN @ ELSE InArchive(r)]
    /\ UNCHANGED settings
Change ==
    /\ process = NoProcess
    /\ events < MaxEvents /\ events' = events + 1
    /\ \/ \E r \in Rels : settings.origin = None /\ Principal(r)
       \/ \E r \in Rels : /\ settings.origin \notin {None, r}
                         /\ settings' = [settings EXCEPT !.origin = r] /\ UNCHANGED machine
       \/ \E v \in 0..2 : settings' = [settings EXCEPT !.option = v] /\ UNCHANGED machine
       \/ settings' = [settings EXCEPT !.nonce = @ + 1] /\ UNCHANGED machine
    /\ UNCHANGED <<process, store, acted, outcome, lost, faults>>

-----------------------------------------------------------------------------
\* A process: the charm is imported, which asks for the release; then its own work.
Work(kind) ==
    CASE kind = "install" -> <<"neutron-common", "reset">>
      [] kind = "hook" -> <<"option", "act", "endpoint", "act", "save">>
      [] kind = "upgrade" -> <<"available", "source", "packages", "reset", "render">>
Begin(kind) ==
    /\ process = NoProcess
    /\ IF kind = "install" THEN machine.installed = None ELSE machine.installed # None
    /\ kind = "upgrade" => settings.origin # None
    /\ process' = [NoProcess EXCEPT !.kind = kind, !.todo = <<"import">> \o Work(kind),
                                    !.settings = settings]
    /\ UNCHANGED <<machine, settings, store, acted, outcome, lost, events, faults>>

Does(what) == process.todo # <<>> /\ Head(process.todo) = what
Rest == Tail(process.todo)

\* get_installed_os_version installs openstack-release, which may fail, and reads
\* /etc/openstack-release once in the life of the process.
Installed(works) == IF machine.file = None /\ works THEN InArchive(machine.archive) ELSE machine.file
openstack_release(works) == IF process.read THEN process.file ELSE Installed(works)
get_os_codename_package(works) ==
    IF openstack_release(works) # None THEN openstack_release(works) ELSE machine.installed
get_os_codename_install_source(origin) == origin
FirstOf(a, b, c) == IF a # None THEN a ELSE IF b # None THEN b ELSE c
FreshRelease(works) ==
    FirstOf(get_os_codename_package(works), get_os_codename_install_source(process.settings.origin), Base)

\* Mutant: the cache is believed even when it is to be reset.
os_release_cached(works, reset_cache) == IF process.os_rel # None THEN process.os_rel ELSE FreshRelease(works)
os_release(works, reset_cache) ==
    IF process.os_rel # None /\ ~reset_cache THEN process.os_rel ELSE FreshRelease(works)

AskRelease(reset_cache) ==
    /\ Does(IF reset_cache THEN "reset" ELSE "import")
    /\ \E works \in BOOLEAN :
          /\ IF works THEN UNCHANGED faults ELSE faults < MaxFaults /\ faults' = faults + 1
          /\ machine' = [machine EXCEPT !.file = Installed(works)]
          /\ process' = [process EXCEPT !.todo = Rest, !.os_rel = os_release(works, reset_cache),
                                        !.file = openstack_release(works), !.read = TRUE]
    /\ UNCHANGED <<settings, store, acted, outcome, lost, events>>

\* install_packages: neutron-common, of the archive's release.
InstallNeutronCommon ==
    /\ Does("neutron-common")
    /\ machine' = [machine EXCEPT !.installed = machine.archive]
    /\ process' = [process EXCEPT !.todo = Rest]
    /\ UNCHANGED <<settings, store, acted, outcome, lost, events, faults>>

-----------------------------------------------------------------------------
\* config_value_changed saves the value at once, in a scope of the store of its own.
config_value_changed ==
    /\ Does("option")
    /\ process' = [process EXCEPT !.todo = Rest,
                     !.changed = store.option # None /\ process.settings.option # store.option]
    /\ store' = [store EXCEPT !.option = process.settings.option]
    /\ UNCHANGED <<machine, settings, acted, outcome, lost, events, faults>>

\* endpoint_changed compares; save_endpoint_changed_triggers saves, when all is done.
\* Relation data do not change during a hook.
get_endpoint_notifications == process.settings.nonce
endpoint_changed ==
    /\ Does("endpoint")
    /\ process' = [process EXCEPT !.todo = Rest, !.changed = store.nonce # get_endpoint_notifications]
    /\ UNCHANGED <<machine, settings, store, acted, outcome, lost, events, faults>>

\* What the charm does about a change, or does not when there is none.
Act ==
    /\ Does("act")
    /\ acted' = IF ~process.changed THEN acted
                ELSE IF Len(Rest) < 2 THEN [acted EXCEPT !.nonce = process.settings.nonce]
                ELSE [acted EXCEPT !.option = process.settings.option]
    /\ process' = [process EXCEPT !.todo = Rest, !.changed = FALSE]
    /\ UNCHANGED <<machine, settings, store, outcome, lost, events, faults>>

save_endpoint_changed_triggers ==
    /\ Does("save")
    /\ store' = [store EXCEPT !.nonce = get_endpoint_notifications]
    /\ process' = [process EXCEPT !.todo = Rest]
    /\ UNCHANGED <<machine, settings, acted, outcome, lost, events, faults>>

-----------------------------------------------------------------------------
\* The upgrade of a charm that has openstack-origin, as an action.  The release that the
\* process has read already decides; action-managed-upgrade is set.
openstack_upgrade_available == get_os_codename_install_source(process.settings.origin) > get_os_codename_package(TRUE)

do_action_openstack_upgrade ==
    /\ Does("available")
    /\ process' = [process EXCEPT !.todo = IF openstack_upgrade_available THEN Rest ELSE <<>>]
    /\ \E works \in BOOLEAN : machine' = [machine EXCEPT !.file = Installed(works)]
    /\ outcome' = IF openstack_upgrade_available THEN "begun" ELSE "none available"
    /\ UNCHANGED <<settings, store, acted, lost, events, faults>>

\* The charm's upgrade_callback: the new source, all packages, the templates.
upgrade_callback ==
    /\ \/ Does("source") /\ machine' = [machine EXCEPT !.archive = process.settings.origin]
       \/ Does("packages") /\ machine' = [machine EXCEPT !.installed = machine.archive,
                                             !.file = IF @ = None THEN @ ELSE InArchive(machine.archive)]
       \/ Does("render") /\ machine' = [machine EXCEPT !.rendered = process.settings.origin]
    /\ process' = [process EXCEPT !.todo = Rest]
    /\ outcome' = IF Does("render") THEN "success" ELSE outcome
    /\ UNCHANGED <<settings, store, acted, lost, events, faults>>

\* A call in a process fails, or the process is killed.
Die ==
    /\ process.todo # <<>> /\ faults < MaxFaults
    /\ faults' = faults + 1
    /\ lost' = (lost \/ (process.changed /\ Len(process.todo) > 2))
    /\ outcome' = IF process.kind = "upgrade" THEN "failed" ELSE outcome
    /\ process' = NoProcess
    /\ UNCHANGED <<machine, settings, store, acted, events>>

End ==
    /\ process # NoProcess /\ process.todo = <<>>
    /\ process' = NoProcess
    /\ UNCHANGED <<machine, settings, store, acted, outcome, lost, events, faults>>

Next ==
    \/ Change
    \/ \E kind \in {"install", "hook", "upgrade"} : Begin(kind)
    \/ \E reset_cache \in BOOLEAN : AskRelease(reset_cache)
    \/ InstallNeutronCommon \/ config_value_changed \/ endpoint_changed \/ Act
    \/ save_endpoint_changed_triggers
    \/ do_action_openstack_upgrade \/ upgrade_callback
    \/ Die \/ End

Spec == Init /\ [][Next]_releases_vars

-----------------------------------------------------------------------------
Asked == process.os_rel # None
Upgrading == process.kind = "upgrade"

\* Unless an upgrade stopped half-way, os_release tells a hook the release that is
\* installed, and after a reset also the install hook that had asked before anything
\* was installed, even if its apt had failed then.  (os_release, get_installed_os_version)
ReleaseRight ==
    Asked /\ ~Upgrading /\ machine.archive = machine.installed =>
        \/ process.os_rel = machine.installed
        \/ process.kind = "install" /\ Does("reset")

\* An upgrade begins only to a release that is newer than the one that is installed, and
\* has succeeded only with everything at that release.  (openstack_upgrade_available)
UpgradeRight ==
    /\ Does("source") => process.settings.origin > machine.installed
    /\ Upgrading /\ outcome = "success" /\ process.todo = <<>> =>
          machine.installed = process.settings.origin /\ machine.rendered = machine.installed

\* An endpoint's change that is saved has been acted on, whatever process died; and so
\* has the option's, unless one died between the question and the act.
\* (endpoint_changed, save_endpoint_changed_triggers, config_value_changed)
ChangesActed ==
    /\ acted.nonce >= store.nonce
    /\ process = NoProcess /\ ~lost /\ acted.option # None => acted.option = store.option

\* The charm knows the installed release, upgrades only to a newer one and acts on each
\* change it has saved.  (os_release, openstack_upgrade_available)
ReleasesRight == ReleaseRight /\ UpgradeRight /\ ChangesActed

-----------------------------------------------------------------------------
\* What the documentation says and the code does not do.

\* utils.py:616 "If reset_cache then unset the cached os_release version and return the
\* freshly determined version": /etc/openstack-release is read once in a process.
FreshOnReset == Upgrading /\ Does("render") => process.os_rel = machine.installed

\* utils.py:623 "Name of package to determine release from": openstack-release, installed
\* from a newer source when an upgrade has stopped half-way, hides the package.
ReleaseOfPackage ==
    Asked /\ ~Upgrading /\ process.kind = "hook" => process.os_rel = machine.installed

\* utils.py:838 "Returns True if configured installation source offers a newer version of
\* package": not after an upgrade that has stopped after the source was set.
UpgradeResumes ==
    Upgrading /\ process.todo = <<>> /\ outcome = "none available" =>
        process.settings.origin <= machine.installed

\* utils.py:715 "Determine if config value changed": also to a hook that is run again.
OptionActed ==
    process = NoProcess /\ acted.option # None => acted.option = store.option
=============================================================================
