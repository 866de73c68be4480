-------------------------------- MODULE AptFetch --------------------------------
(***************************************************************************)
(* charmhelpers/fetch: package sources, their keys and the apt commands a  *)
(* hook runs one after the other.  Another process can hold the dpkg lock, *)
(* commands fail with an exit code or are killed, and so is the hook,      *)
(* which Juju retries from its first command.                              *)
(***************************************************************************)
EXTENDS Naturals, Sequences, SequencesExt

CONSTANTS
    MaxHeld,     \* bound: attempts that find the dpkg lock taken
    MaxFaults,   \* bound: failures for other reasons, and killed hooks
    MaxSources   \* bound: configured sources

VARIABLES
    wanted,  \* the configured sources, each with or without a key
    apt,     \* sources, keys, the index of the last update, installed packages
    script,  \* the commands the hook still has to run
    tries,   \* failed attempts of the first of them: retry_count
    outcome, \* of the hook: "none", "running", "failed" or "done"
    held,    \* how often the lock will still be found taken; FreeSoFar at first
    troubles,\* failures for other reasons so far
    skipped  \* history: a command did not succeed and the hook went on

apt_vars == <<wanted, apt, script, tries, outcome, held, troubles, skipped>>

CMD_RETRY_COUNT == 3
APT_NO_LOCK == 100
FreeSoFar == MaxHeld + 1
IsHeld == held \in 1..MaxHeld

\* What the patterns of add_source tell apart.  `own': the Ubuntu series named,
\* or that of the pocket, is the one that runs here; `valid': there is such a
\* pocket, or a proposed pocket for this architecture.
Kinds == {"distro", "proposed", "repository", "staging", "series-pocket", "pocket", "unknown"}
Sources == [kind : Kinds, own : BOOLEAN, valid : BOOLEAN, key : BOOLEAN]
Sample ==
    {s \in Sources : /\ s.kind \in {"distro", "repository", "unknown"} => s.own /\ s.valid
                     /\ s.kind = "proposed" => s.own
                     /\ s.kind = "staging" => s.valid
                     /\ s.key => s.kind = "repository"}
Pockets == {"series-pocket", "pocket"}
Package == "networking-tools"
Keyring == "ubuntu-cloud-keyring"

-----------------------------------------------------------------------------
\* The commands of configure_sources and install_packages.  `codes' are the exit
\* codes that are retried; <<>> for a command whose failure is not looked at.
Command(what, source, codes) == [what |-> what, source |-> source, codes |-> codes]
AptCodes == {1, APT_NO_LOCK}
Ignored == {}

\* _verify_is_ubuntu_rel, and the lookup in CLOUD_ARCHIVE_POCKETS.
Accepted(s) ==
    /\ s.kind \in {"staging", "series-pocket"} => s.own
    /\ s.kind \in {"proposed", "series-pocket", "pocket"} => s.valid

\* A series that is named is compared before anything else is done.
Verify(s) == IF s.kind = "series-pocket" THEN <<Command("verify", s, {})>> ELSE <<>>

add_source(s) ==
    (IF s.key /\ s.kind # "unknown" THEN <<Command("key", s, {})>> ELSE <<>>)
    \o (CASE s.kind \in {"distro", "unknown"} -> <<>>
          [] s.kind = "proposed" -> <<Command("write", s, {})>>
          [] s.kind \in {"repository", "staging"} -> <<Command("repository", s, {1})>>
          [] OTHER -> Verify(s) \o <<Command("install", Keyring, AptCodes), Command("write", s, {})>>)

configure_sources(ss) == FlattenSeq([i \in DOMAIN ss |-> add_source(ss[i])])
install_packages(ss) ==
    configure_sources(ss) \o <<Command("update", "", Ignored), Command("install", Package, AptCodes)>>

-----------------------------------------------------------------------------
Init ==
    /\ wanted \in UNION {[1..n -> Sample] : n \in 0..MaxSources}
    /\ apt = [sources |-> {}, keys |-> {}, index |-> {}, installed |-> {}]
    /\ script = <<>>
    /\ tries = 0
    /\ outcome = "none"
    /\ held = FreeSoFar
    /\ troubles = 0
    /\ skipped = FALSE

Begin ==
    /\ outcome \in {"none", "failed"}
    /\ outcome' = "running"
    /\ script' = install_packages(wanted)
    /\ tries' = 0
    /\ skipped' = FALSE
    /\ UNCHANGED <<wanted, apt, held, troubles>>

\* unattended-upgrades, or the principal charm's hook.
TakeLock ==
    /\ held = FreeSoFar
    /\ held' = MaxHeld
    /\ UNCHANGED <<wanted, apt, script, tries, outcome, troubles, skipped>>

Now == Head(script)
Locks == outcome = "running" /\ script # <<>> /\ Now.what \in {"update", "install"}

\* A package of a source can be installed when the index has the source.
Available(p) ==
    p = Keyring \/ \A i \in DOMAIN wanted :
                      \/ wanted[i].kind \in {"distro", "unknown"}
                      \/ wanted[i] \in apt.index
                      \/ wanted[i].kind \in Pockets /\ \E j \in DOMAIN wanted :
                                                     j > i /\ wanted[j].kind \in Pockets

\* The command succeeds.  A pocket replaces the one cloud-archive.list had.
Effect(c) ==
    CASE c.what = "key" -> [apt EXCEPT !.keys = @ \cup {c.source}]
      [] c.what = "repository" -> [apt EXCEPT !.sources = @ \cup {c.source}]
      [] c.what = "write" ->
            [apt EXCEPT !.sources =
                {s \in @ : c.source.kind = "proposed" \/ s.kind \notin Pockets}
                   \cup {c.source}]
      [] c.what = "update" -> [apt EXCEPT !.index = apt.sources]
      [] c.what = "install" -> [apt EXCEPT !.installed = @ \cup {c.source}]
      [] c.what = "verify" -> apt

Possible(c) ==
    CASE c.what \in {"repository", "write"} -> Accepted(c.source)
      [] c.what = "verify" -> Accepted([c.source EXCEPT !.valid = TRUE])
      [] c.what = "install" -> Available(c.source)
      [] OTHER -> TRUE

Succeed ==
    /\ outcome = "running" /\ script # <<>>
    /\ ~(Locks /\ IsHeld)
    /\ Possible(Now)
    /\ apt' = Effect(Now)
    /\ script' = Tail(script)
    /\ tries' = 0
    /\ UNCHANGED <<wanted, outcome, held, troubles, skipped>>

\* An unaccepted source or key raises SourceConfigError.
Refuse ==
    /\ outcome = "running" /\ script # <<>>
    /\ Now.what \in {"repository", "write", "verify"} /\ ~Possible(Now)
    /\ outcome' = "failed"
    /\ UNCHANGED <<wanted, apt, script, tries, held, troubles, skipped>>

\* Mutant: one attempt fewer.
GivesUpEarly == tries + 1 >= CMD_RETRY_COUNT

\* _run_with_retries: after too many attempts the error is raised; a code that is
\* not to be retried ends the loop as success does.
GivesUp == tries + 1 > CMD_RETRY_COUNT
Fatal(c) == c.codes # Ignored

Attempt(code) ==
    /\ CASE Fatal(Now) /\ GivesUp ->
               outcome' = "failed" /\ UNCHANGED <<script, tries, skipped>>
         [] Fatal(Now) /\ ~GivesUp /\ code \in Now.codes ->
               tries' = tries + 1 /\ UNCHANGED <<script, outcome, skipped>>
         [] OTHER ->
               /\ script' = Tail(script) /\ tries' = 0
               /\ skipped' = (skipped \/ Fatal(Now))
               /\ UNCHANGED outcome
    /\ UNCHANGED <<wanted, apt>>

Locked ==
    /\ Locks /\ IsHeld
    /\ held' = held - 1
    /\ Attempt(APT_NO_LOCK)
    /\ UNCHANGED troubles

\* apt-get exits with 100 for most failures; a maintainer script that is killed,
\* or the command itself, gives others.
Unavailable ==
    /\ Locks /\ ~IsHeld /\ ~Possible(Now)
    /\ Attempt(APT_NO_LOCK)
    /\ UNCHANGED <<held, troubles>>

CommandFails ==
    /\ outcome = "running" /\ script # <<>>
    /\ Now.what \in {"update", "install", "repository"}
    /\ troubles < MaxFaults
    /\ troubles' = troubles + 1
    /\ \E code \in {1, 2} : Attempt(code)
    /\ UNCHANGED held

\* An invalid key, a keyserver that does not answer, a killed hook.
HookFails ==
    /\ outcome = "running"
    /\ troubles < MaxFaults
    /\ troubles' = troubles + 1
    /\ outcome' = "failed"
    /\ UNCHANGED <<wanted, apt, script, tries, held, skipped>>

Finish ==
    /\ outcome = "running" /\ script = <<>>
    /\ outcome' = "done"
    /\ UNCHANGED <<wanted, apt, script, tries, held, troubles, skipped>>

Next ==
    \/ Begin \/ TakeLock \/ Succeed \/ Refuse
    \/ Locked \/ Unavailable \/ CommandFails \/ HookFails
    \/ Finish

Spec == Init /\ [][Next]_apt_vars

-----------------------------------------------------------------------------
\* "Import key before adding the source which depends on it": whatever hook died
\* where, apt has the key of every source it has.  (fetch/ubuntu.py:596)
KeyFirst == \A s \in apt.sources : s.key => s \in apt.keys

\* A source that names an Ubuntu series is added only on a host of that series,
\* and cloud-archive.list has one pocket.  (_verify_is_ubuntu_rel)
OwnSeries ==
    /\ \A s \in apt.sources : s.kind \in {"staging", "series-pocket"} => s.own
    /\ \A s, t \in apt.sources : {s.kind, t.kind} \subseteq Pockets => s = t

\* A hook that got to its end has installed what it was to install, from the
\* sources configured, although it does not ask how apt-get update went; unless a
\* command ended with a code that is neither success nor retried.
DoneIsDone ==
    outcome = "done" /\ ~skipped =>
        /\ Package \in apt.installed
        /\ \A i \in DOMAIN wanted : LET s == wanted[i] IN
              /\ s.kind \in {"proposed", "repository", "staging"} => s \in apt.sources
              /\ s.key => s \in apt.keys

\* A lock that is held for as long as the attempts last, and no longer, does not
\* fail the hook; but apt-get update, which is not retried, can be skipped for it,
\* and then a source just added has no packages yet.  (_run_with_retries)
LockSurvived ==
    outcome = "failed" =>
        \/ troubles > 0
        \/ \E i \in DOMAIN wanted : ~Accepted(wanted[i])
        \/ apt.index # apt.sources

\* apt has the configured source of this host's series with its key, a run that says
\* it is done is, and a held dpkg lock is waited for.  (add_source, _run_apt_command)
SourcesRight == KeyFirst /\ OwnSeries /\ DoneIsDone /\ LockSurvived

-----------------------------------------------------------------------------
\* What the documentation says and the code does not do.

\* fetch/ubuntu.py:275 ":raises: subprocess.CalledProcessError" of a fatal command
\* that fails: with a code that is not retried it is taken for a success.
FatalRaises == outcome = "done" => Package \in apt.installed

\* fetch/ubuntu.py:662 "the requested release doesn't match the current distro
\* version" raises SourceConfigError: not for a pocket without a series.
PocketOfSeries == \A s \in apt.sources : s.kind = "pocket" => s.own
=============================================================================
