-------------------------------- MODULE Services --------------------------------
(***************************************************************************)
(* charmhelpers/core/services: the ServiceManager, which in every hook     *)
(* renders, restarts or stops each service according to the data there is. *)
(* It remembers in READY-SERVICES.json which services were ready, in a     *)
(* file for each service which ports are open, and in a StoredContext a    *)
(* password that is generated once.  A hook is killed between any two      *)
(* calls, and retried with what the relations and the config say then;     *)
(* Juju opens and closes ports, and sends data, when the hook succeeds.    *)
(***************************************************************************)
EXTENDS Naturals, Sequences, FiniteSets, SequencesExt

CONSTANTS
    Order,    \* the services, in the order of their registration
    Ports,    \* values of the option that gives a service its port
    Torn,     \* a file that was truncated and not written
    MaxChanges, MaxKills  \* bounds

VARIABLES
    world,    \* the services whose required data are complete, a version of the data, the port
    disk,     \* READY-SERVICES.json, the port files, the stored password, rendered files
    juju,     \* open ports, and what the remote services are told
    running,  \* the version a running service was started with; 0 for none
    hook,     \* what the hook that runs has read, has still to do, and will commit
    changes, kills,  \* kills counts callbacks that exit, too
    events    \* history, see below

services_vars == <<world, disk, juju, running, hook, changes, kills, events>>

Names == ToSet(Order)
Versions == 1..2
World == [ready : SUBSET Names, version : Versions, port : Ports]
NoPort == 0
NoHook == [at |-> "none", again |-> "none", world |-> [ready |-> {}, version |-> 1, port |-> NoPort],
           todo |-> <<>>, open |-> {}]

\* History: the last of data_ready and data_lost that a service was sent, passwords
\* that have been generated and used, and what kills have spoilt: a readiness
\* that was not saved, a port file that is ahead of Juju.
NoEvents == [sent |-> [s \in Names |-> "none"], passwords |-> {}, generated |-> 0,
             unsaved |-> {}, ahead |-> FALSE, current |-> FALSE, stopped |-> FALSE]

Init ==
    /\ world \in [ready : {{}}, version : {1}, port : Ports]
    /\ disk = [ready |-> {}, ports |-> [s \in Names |-> NoPort], stored |-> 0,
               rendered |-> [s \in Names |-> 0]]
    /\ juju = [open |-> {}, told |-> {}]
    /\ running = [s \in Names |-> 0]
    /\ hook = NoHook
    /\ changes = 0 /\ kills = 0
    /\ events = NoEvents

Change ==
    /\ ~events.stopped
    /\ changes < MaxChanges
    /\ changes' = changes + 1
    /\ \/ \E s \in Names : world' = [world EXCEPT !.ready = IF s \in @ THEN @ \ {s} ELSE @ \cup {s}]
       \/ world' = [world EXCEPT !.version = 3 - @]
       \/ \E p \in Ports : p # world.port /\ world' = [world EXCEPT !.port = p]
    /\ events' = [events EXCEPT !.current = FALSE]
    /\ UNCHANGED <<disk, juju, running, hook, kills>>

-----------------------------------------------------------------------------
\* reconfigure_services.  data_lost goes to a service that was ready.
Step(what, s) == <<what, s>>
Ready(s) == <<Step("data_ready", s), Step("restart", s), Step("ports", s), Step("save_ready", s)>>
\* Mutant: data_lost is never fired.
LostUntold(s) == <<Step("was_ready", s), Step("ports", s), Step("stop", s), Step("save_lost", s)>>
Lost(s) ==
    <<Step("was_ready", s)>> \o (IF disk.ready # Torn /\ s \in disk.ready THEN <<Step("data_lost", s)>> ELSE <<>>)
        \o <<Step("ports", s), Step("stop", s), Step("save_lost", s)>>

reconfigure_services ==
    FlattenSeq([i \in DOMAIN Order |->
                  IF Order[i] \in world.ready THEN Ready(Order[i]) ELSE Lost(Order[i])])
stop_services ==
    FlattenSeq([i \in DOMAIN Order |-> <<Step("ports", Order[i]), Step("stop", Order[i])>>])

\* manage(): the contexts are built first, among them the StoredContext.
manage(name) ==
    /\ hook.at = "none" /\ ~events.stopped
    /\ hook.again \in {"none", name}
    /\ hook' = [at |-> name, again |-> name, world |-> world, open |-> juju.open,
                todo |-> <<Step("stored", "")>> \o
                         (IF name = "stop" THEN stop_services ELSE reconfigure_services)]
    /\ UNCHANGED <<world, disk, juju, running, changes, kills, events>>

Now == Head(hook.todo)
Does(what) == hook.at # "none" /\ hook.todo # <<>> /\ Now[1] = what
Done == hook' = [hook EXCEPT !.todo = Tail(@)]
\* An error: Juju runs the same hook again.
Fails == hook' = [NoHook EXCEPT !.again = hook.again]

\* StoredContext: what the file has; an empty one raises.
StoredContext ==
    /\ Does("stored")
    /\ IF disk.stored = Torn THEN Fails /\ UNCHANGED <<disk, events>>
       ELSE /\ Done
            /\ disk' = [disk EXCEPT !.stored = IF @ = 0 THEN events.generated + 1 ELSE @]
            /\ events' = [events EXCEPT !.generated = IF disk.stored = 0 THEN @ + 1 ELSE @]
    /\ UNCHANGED <<world, juju, running, changes, kills>>

\* TemplateCallback and other data_ready callbacks, which use the password.
data_ready ==
    /\ Does("data_ready")
    /\ disk' = [disk EXCEPT !.rendered[Now[2]] = hook.world.version]
    /\ events' = [events EXCEPT !.sent[Now[2]] = "ready", !.passwords = @ \cup {disk.stored}]
    /\ Done
    /\ UNCHANGED <<world, juju, running, changes, kills>>

data_lost ==
    /\ Does("data_lost")
    /\ events' = [events EXCEPT !.sent[Now[2]] = "lost"]
    /\ Done
    /\ UNCHANGED <<world, disk, juju, running, changes, kills>>

service_restart ==
    /\ Does("restart")
    /\ running' = [running EXCEPT ![Now[2]] = disk.rendered[Now[2]]]
    /\ Done
    /\ UNCHANGED <<world, disk, juju, changes, kills, events>>

service_stop ==
    /\ Does("stop")
    /\ running' = [running EXCEPT ![Now[2]] = 0]
    /\ Done
    /\ UNCHANGED <<world, disk, juju, changes, kills, events>>

\* PortManagerCallback, at start and at stop: closes the port of the file when it is
\* another one, writes the file, opens or closes the port of now.
PortManager ==
    /\ Does("ports")
    /\ LET s == Now[2]
           port == hook.world.port
           starts == hook.at # "stop" /\ s \in hook.world.ready
           rest == hook.open \ {<<s, disk.ports[s]>>, <<s, port>>}
       IN /\ disk' = [disk EXCEPT !.ports[s] = port]
          /\ hook' = [hook EXCEPT !.todo = Tail(@), !.open = IF starts THEN rest \cup {<<s, port>>} ELSE rest]
    /\ UNCHANGED <<world, juju, running, changes, kills, events>>

\* A hook that ends now has changed a port file and leaves the old port open.
Ahead == events.ahead \/ \E open \in juju.open : open[2] # disk.ports[open[1]]

\* was_ready, save_ready, save_lost: the file is read first.
LoadReady == Does("was_ready") \/ Does("save_ready") \/ Does("save_lost")
ReadyFile ==
    /\ LoadReady
    /\ IF disk.ready = Torn THEN Fails /\ UNCHANGED disk
       ELSE /\ Done
            /\ disk' = [disk EXCEPT !.ready = CASE Does("save_ready") -> @ \cup {Now[2]}
                                                [] Does("save_lost") -> @ \ {Now[2]}
                                                [] OTHER -> @]
    /\ events' = IF disk.ready = Torn THEN [events EXCEPT !.ahead = Ahead]
                 ELSE [events EXCEPT !.unsaved = IF Does("save_ready") THEN @ \ {Now[2]} ELSE @]
    /\ UNCHANGED <<world, juju, running, changes, kills>>

\* provide_data, and the end of the process.
provide_data ==
    /\ hook.at # "none" /\ hook.todo = <<>>
    /\ juju' = [open |-> hook.open, told |-> IF hook.at = "stop" THEN juju.told ELSE hook.world.ready]
    /\ hook' = NoHook
    /\ events' = [events EXCEPT !.current = (world = hook.world), !.stopped = (hook.at = "stop")]
    /\ UNCHANGED <<world, disk, running, changes, kills>>

\* manage() catches SystemExit: a callback that exits with any code ends the hook as
\* one that has succeeded, without what is left to do.
SystemExit ==
    /\ Does("data_ready")
    /\ kills < MaxKills
    /\ kills' = kills + 1
    /\ juju' = [juju EXCEPT !.open = hook.open]
    /\ hook' = NoHook
    /\ events' = [events EXCEPT !.current = FALSE]
    /\ UNCHANGED <<world, disk, running, changes>>

Unfinished ==
    {s \in Names : /\ events.sent[s] = "ready" /\ Contains(hook.todo, Step("save_ready", s))
                   /\ disk.ready # Torn /\ s \notin disk.ready}
Kill ==
    /\ hook.at # "none"
    /\ kills < MaxKills
    /\ kills' = kills + 1
    /\ Fails
    /\ disk' \in {disk} \cup (IF Does("stored") /\ disk.stored = 0
                              THEN {[disk EXCEPT !.stored = Torn]} ELSE {})
                        \cup (IF Does("save_ready") \/ Does("save_lost")
                              THEN {[disk EXCEPT !.ready = Torn]} ELSE {})
    /\ events' = [events EXCEPT
                    !.current = FALSE,
                    !.unsaved = @ \cup Unfinished,
                    !.ahead = Ahead]
    /\ UNCHANGED <<world, juju, running, changes>>

Next ==
    \/ Change
    \/ \E n \in {"any", "stop"} : manage(n)
    \/ StoredContext \/ data_ready \/ data_lost \/ service_restart \/ service_stop
    \/ PortManager \/ ReadyFile \/ provide_data
    \/ SystemExit \/ Kill

Spec == Init /\ [][Next]_services_vars

-----------------------------------------------------------------------------
\* A hook has succeeded with the data of now.
Settled == hook.at = "none" /\ events.current

\* A service runs with the newest data when they are complete, and does not run when
\* one of them is gone, however the hooks before have ended; and the remote services
\* are told which ones do.  (reconfigure_services, provide_data)
RunsWhenReady ==
    Settled =>
        /\ \A s \in Names :
              running[s] = IF s \in world.ready /\ ~events.stopped THEN world.version ELSE 0
        /\ ~events.stopped => juju.told = {s \in Names : running[s] # 0}

\* A service that had data_ready is sent data_lost when it loses its data, unless the
\* hook that had sent data_ready was killed before it has saved that.  (was_ready, save_ready, save_lost)
LossTold ==
    Settled /\ ~events.stopped =>
        \A s \in Names \ events.unsaved : events.sent[s] = "ready" <=> s \in world.ready

\* Open are the ports of the services that run, unless a hook that died had forgotten
\* the port that was open before.  (PortManagerCallback)
PortsMatch ==
    Settled /\ ~events.ahead =>
        juju.open = IF events.stopped THEN {} ELSE world.ready \X {world.port}

\* Whatever hook died where, all services have used one password.  (StoredContext)
OnePassword == Cardinality(events.passwords) <= 1

\* Services run when their data are complete, a loss is told, ports follow, and the
\* password is one.  (ServiceManager)
ServicesRight == RunsWhenReady /\ LossTold /\ PortsMatch /\ OnePassword

-----------------------------------------------------------------------------
\* What the documentation says and the code does not do.

\* base.py:59 data_lost is "to be called when a 'required_data' item no longer passes
\* is_ready()": not when a killed hook had sent data_ready and not saved it.
EveryLossTold ==
    Settled /\ ~events.stopped => \A s \in Names : events.sent[s] = "ready" => s \in world.ready

\* base.py:73 "The default 'stop' handler will close the ports": a port that was closed
\* in a hook that was killed then stays open.
PortsClosed == Settled /\ events.stopped => juju.open = {}

\* base.py:249: a hook that is killed in the middle of saving does not make all later
\* hooks fail.
NoFileTorn == disk.ready # Torn /\ disk.stored # Torn
=============================================================================
