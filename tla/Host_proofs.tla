------------------------------ MODULE Host_proofs ------------------------------
(***************************************************************************)
(* What a unit keeps from one hook to the next, while hooks and actions    *)
(* fail and are killed.  First the components that MCHost names with       *)
(* INSTANCE, each in a section of its own: what a hook is told, the        *)
(* releases, the package sources.  A part of their invariant speaks of a   *)
(* component only in the behaviours in which that component takes the      *)
(* steps.  Then those with a specification of their own: the Open vSwitch  *)
(* of the host (the cleanup action, the columns the options set), the      *)
(* key-value store, the files the charm writes once, the policy overrides. *)
(***************************************************************************)
EXTENDS MCHost, ScriptLemmas

\* A step of the whole is one of the component whose part it is.
LEMMA Parts ==
  ASSUME [AllNext]_all_vars
  PROVE  /\ part' = part
         /\ [StoreNext]_store_vars
         /\ part = "hookenv" => [Env!Next]_(Env!hookenv_vars)
         /\ part = "releases" => [Release!Next]_(Release!releases_vars)
         /\ part = "apt" => [Apt!Next]_(Apt!apt_vars)
<1> USE DEF Only
<1>1. CASE UNCHANGED all_vars
  BY <1>1 DEF all_vars
<1>2. CASE CleanupStep \/ OptionsStep \/ FilesStep \/ PolicyStep
  BY <1>2 DEF CleanupStep, OptionsStep, FilesStep, PolicyStep
<1>3. CASE KvStep
  BY <1>3 DEF KvStep
<1>4. CASE EnvStep \/ AptStep \/ PoolsStep \/ ManagerStep \/ ReleaseStep
  BY <1>4 DEF EnvStep, AptStep, PoolsStep, ManagerStep, ReleaseStep
<1> QED
  BY <1>1, <1>2, <1>3, <1>4 DEF AllNext

-----------------------------------------------------------------------------
\* HookEnv: a whole file is what the last process that saved its config has left, and
\* a process compares the config with what was in the file when it started.

EnvProcess ==
    [at : {"none", "body", "save", "write", "saved"}, loaded : BOOLEAN, opts : Env!Opts,
     config : Env!Configs, prev : {"None", "dict"}, prev_config : Env!Configs,
     data : Env!HookValues, cached : BOOLEAN, cache : Env!HookValues, exits : BOOLEAN]
EnvTypeOK ==
    /\ options \in Env!Opts
    /\ config_file \in [is : {"absent", "torn", "whole"}, config : Env!Configs]
    /\ own_data \in Env!HookValues
    /\ process \in EnvProcess
    /\ told \in [saved : BOOLEAN, torn : BOOLEAN, config : Env!Configs]

\* What the file says.
FileTrue ==
    /\ config_file.is = "whole" => told.saved /\ ~told.torn /\ config_file.config = told.config
    /\ told.saved /\ config_file.is # "whole" => told.torn \/ process.at = "write"
    /\ process.at = "write" => config_file.is = "torn"

\* What the process has read from it.
LoadTrue ==
    process.loaded /\ process.at = "body" =>
        /\ process.prev = "dict" <=> config_file.is = "whole"
        /\ process.prev = "dict" => process.prev_config = config_file.config

EnvInv == EnvTypeOK /\ FileTrue /\ LoadTrue /\ Env!OwnWritesRead

LEMMA EnvInitial == Env!Init => EnvInv
<1> SUFFICES ASSUME Env!Init PROVE EnvInv
  OBVIOUS
<1>1. Env!NoConfig \in Env!Configs
  BY DEF Env!NoConfig, Env!Configs, Env!Opts, Env!HookValues
<1>2. EnvTypeOK
  BY <1>1 DEF Env!Init, EnvTypeOK, EnvProcess, Env!NoProcess, Env!HookValues, Env!Configs
<1> QED BY <1>2 DEF Env!Init, EnvInv, FileTrue, LoadTrue, Env!OwnWritesRead, Env!NoProcess

LEMMA EnvInductive ==
  ASSUME EnvInv, [Env!Next]_(Env!hookenv_vars)
  PROVE  EnvInv'
<1> USE DEF EnvInv
<1>0. Env!NoConfig \in Env!Configs /\ Env!NoProcess \in EnvProcess /\ NoValue \in Env!HookValues
  BY DEF Env!NoConfig, Env!Configs, Env!Opts, Env!HookValues, Env!NoProcess, EnvProcess
<1>1. CASE Env!SetOption
  <2>1. options' \in Env!Opts
    BY <1>1 DEF Env!SetOption, EnvTypeOK, Env!Opts
  <2> QED BY <1>1, <2>1 DEF Env!SetOption, EnvTypeOK, FileTrue, LoadTrue, Env!OwnWritesRead
<1>2. CASE Env!execute
  <2>1. process' \in EnvProcess /\ process'.loaded = FALSE /\ process'.cached = FALSE
        /\ process'.at = "body"
    BY <1>0, <1>2 DEF Env!execute, EnvTypeOK, EnvProcess, Env!NoProcess
  <2> QED BY <1>2, <2>1 DEF Env!execute, EnvTypeOK, FileTrue, LoadTrue, Env!OwnWritesRead
<1>3. CASE Env!config
  <2> DEFINE kept == IF config_file.is = "whole" THEN config_file.config ELSE Env!NoConfig
  <2>1. kept \in Env!Configs
    BY <1>0 DEF EnvTypeOK
  <2>2. process' = [process EXCEPT !.loaded = TRUE, !.prev = Env!load_previous,
                        !.prev_config = kept, !.config = [opts |-> process.opts, mykey |-> kept.mykey]]
    BY <1>3 DEF Env!config
  <2> HIDE DEF kept
  <2>3. [opts |-> process.opts, mykey |-> kept.mykey] \in Env!Configs
    BY <2>1 DEF EnvTypeOK, EnvProcess, Env!Configs
  <2>4. process' \in EnvProcess
    BY <2>1, <2>2, <2>3 DEF EnvTypeOK, EnvProcess, Env!load_previous
  <2> QED BY <1>3, <2>2, <2>4 DEF Env!config, EnvTypeOK, EnvProcess, FileTrue, LoadTrue,
                                Env!OwnWritesRead, Env!load_previous, kept
<1>4. CASE Env!SetMyKey
  BY <1>4 DEF Env!SetMyKey, EnvTypeOK, EnvProcess, Env!Configs, FileTrue, LoadTrue,
              Env!OwnWritesRead
<1>5. CASE Env!relation_get
  BY <1>5 DEF Env!relation_get, EnvTypeOK, EnvProcess, FileTrue, LoadTrue, Env!OwnWritesRead
<1>6. ASSUME NEW v \in Env!HookValues, Env!relation_set(v)
      PROVE  EnvInv'
  BY <1>0, <1>6 DEF Env!relation_set, EnvTypeOK, EnvProcess, FileTrue, LoadTrue,
              Env!OwnWritesRead
<1>7. CASE Env!relation_clear
  BY <1>0, <1>6, <1>7 DEF Env!relation_clear
<1>8. CASE Env!Return
  BY <1>8 DEF Env!Return, EnvTypeOK, EnvProcess, FileTrue, LoadTrue, Env!OwnWritesRead
<1>9. CASE Env!OpenConfigFile
  BY <1>0, <1>9 DEF Env!OpenConfigFile, EnvTypeOK, EnvProcess, FileTrue, LoadTrue,
              Env!OwnWritesRead
<1>10. CASE Env!save
  BY <1>10 DEF Env!save, EnvTypeOK, EnvProcess, FileTrue, LoadTrue, Env!OwnWritesRead
<1>11. CASE Env!Commit
  <2>1. process'.at = "none" /\ process'.cached = FALSE /\ process' \in EnvProcess
        /\ process.at = "saved" /\ own_data' \in Env!HookValues
    BY <1>0, <1>11 DEF Env!Commit, EnvTypeOK, EnvProcess, Env!NoProcess
  <2> QED BY <1>11, <2>1 DEF Env!Commit, EnvTypeOK, FileTrue, LoadTrue, Env!OwnWritesRead
<1>12. CASE Env!Fail
  <2>1. process'.at = "none" /\ process'.cached = FALSE /\ process' \in EnvProcess
    BY <1>0, <1>12 DEF Env!Fail, Env!NoProcess
  <2>2. told' = [told EXCEPT !.torn = told.torn \/ process.at = "write"]
    BY <1>12 DEF Env!Fail
  <2>3. told.torn \in BOOLEAN /\ (process.at = "write") \in BOOLEAN
    BY DEF EnvTypeOK
  <2>4. told' \in [saved : BOOLEAN, torn : BOOLEAN, config : Env!Configs]
        /\ told'.saved = told.saved /\ told'.config = told.config
        /\ told'.torn = (told.torn \/ process.at = "write")
    BY <2>2, <2>3 DEF EnvTypeOK
  <2> QED BY <1>12, <2>1, <2>4 DEF Env!Fail, EnvTypeOK, FileTrue, LoadTrue, Env!OwnWritesRead
<1>13. CASE UNCHANGED Env!hookenv_vars
  BY <1>13 DEF Env!hookenv_vars, EnvTypeOK, FileTrue, LoadTrue, Env!OwnWritesRead
<1> QED
  BY <1>1, <1>2, <1>3, <1>4, <1>5, <1>6, <1>7, <1>8, <1>9, <1>10, <1>11, <1>12, <1>13
  DEF Env!Next

LEMMA EnvConclusion == EnvInv => Env!HookDataTrue
<1> SUFFICES ASSUME EnvInv PROVE Env!HookDataTrue
  OBVIOUS
<1>1. Env!ChangedTold
  BY DEF EnvInv, EnvTypeOK, EnvProcess, FileTrue, LoadTrue, Env!ChangedTold, Env!changed,
         Env!previous
<1>2. Env!OwnKeysKept
  BY DEF EnvInv, FileTrue, Env!OwnKeysKept
<1> QED BY <1>1, <1>2 DEF EnvInv, Env!HookDataTrue

-----------------------------------------------------------------------------
\* KvStore, its history: the newest record of a key that was only written by hooks is
\* what the table says, in the committed database and in what the connection sees.

ShapedBase(d) ==
    /\ d = [kv |-> d.kv, revs |-> d.revs, hooks |-> d.hooks, loose |-> d.loose]
    /\ d.kv \in [Keys -> Values \cup {Absent}]
    /\ d.hooks \in Nat
    /\ d.loose \subseteq Keys
    /\ DOMAIN d.revs \subseteq (Keys \cup PrefixArgs) \X (1..d.hooks)
Recorded(d, k) == {n \in 1..d.hooks : <<k, n>> \in DOMAIN d.revs}
Telling(d, k) == IF d.kv[k] = Absent THEN Deleted ELSE d.kv[k]
Agrees(d) ==
    /\ ShapedBase(d)
    /\ \A k \in Keys \ d.loose :
          \/ Recorded(d, k) = {} /\ d.kv[k] = Absent
          \/ \E n \in Recorded(d, k) :
                (\A m \in Recorded(d, k) : m <= n) /\ d.revs[<<k, n>>] = Telling(d, k)

HistoryInv ==
    /\ Agrees(disk) /\ Agrees(conn)
    /\ revision \in Nat
    /\ revision # 0 => revision = conn.hooks

\* Rows with the number of the newest hook keep the history true.
LEMMA RecordAgrees ==
  ASSUME NEW d, NEW e, NEW rows, NEW data, Agrees(d), ShapedBase(e),
         e.hooks = d.hooks, e.revs = Record(d.revs, rows, data),
         rows \subseteq (Keys \cup PrefixArgs) \X {d.hooks},
         \A k \in Keys \ e.loose :
            \/ <<k, d.hooks>> \in rows /\ data = Telling(e, k)
            \/ <<k, d.hooks>> \notin rows /\ k \notin d.loose /\ e.kv[k] = d.kv[k]
  PROVE  Agrees(e)
<1> SUFFICES ASSUME NEW k \in Keys \ e.loose
             PROVE  \/ Recorded(e, k) = {} /\ e.kv[k] = Absent
                    \/ \E n \in Recorded(e, k) : /\ \A m \in Recorded(e, k) : m <= n
                                                 /\ e.revs[<<k, n>>] = Telling(e, k)
  BY DEF Agrees
<1>1. /\ DOMAIN e.revs = DOMAIN d.revs \cup rows
      /\ \A r \in DOMAIN e.revs : e.revs[r] = IF r \in rows THEN data ELSE d.revs[r]
  BY DEF Record
<1>2. d.hooks \in Nat /\ \A n : <<k, n>> \in rows => n = d.hooks
  BY DEF Agrees, ShapedBase
<1>3. CASE <<k, d.hooks>> \in rows /\ data = Telling(e, k)
  <2>1. <<k, d.hooks>> \in DOMAIN e.revs /\ e.revs[<<k, d.hooks>>] = data
    BY <1>1, <1>3
  <2>2. d.hooks \in 1..e.hooks
    BY <2>1 DEF ShapedBase
  <2> QED BY <1>2, <1>3, <2>1, <2>2 DEF Recorded
<1>4. CASE <<k, d.hooks>> \notin rows /\ k \notin d.loose /\ e.kv[k] = d.kv[k]
  <2>1. Recorded(e, k) = Recorded(d, k) /\ Telling(e, k) = Telling(d, k)
    BY <1>1, <1>2, <1>4 DEF Recorded, Telling
  <2>2. \A n \in Recorded(d, k) : e.revs[<<k, n>>] = d.revs[<<k, n>>]
    BY <1>1, <1>2, <1>4 DEF Recorded
  <2> QED BY <1>4, <2>1, <2>2 DEF Agrees
<1> QED BY <1>3, <1>4

LEMMA HistoryInitial == StoreInit => HistoryInv
  BY DEF StoreInit, HistoryInv, Agrees, ShapedBase, Recorded

LEMMA SetTold ==
  ASSUME HistoryInv, NEW k \in Keys, NEW v \in Values, Set(k, v)
  PROVE  HistoryInv'
<1> DEFINE rows == IF revision = 0 THEN {} ELSE {<<k, revision>>}
<1>1. /\ disk' = disk /\ revision' = revision
      /\ conn' = [conn EXCEPT !.kv[k] = v,
                    !.revs = IF revision = 0 THEN conn.revs ELSE Record(conn.revs, {<<k, revision>>}, v),
                    !.loose = IF revision = 0 THEN conn.loose \cup {k} ELSE conn.loose \ {k}]
  BY DEF Set
<1>2. ShapedBase(conn)
  BY DEF HistoryInv, Agrees
<1>3. CASE revision = 0
  <2>1. /\ conn'.kv = [conn.kv EXCEPT ![k] = v] /\ conn'.revs = conn.revs
        /\ conn'.hooks = conn.hooks /\ conn'.loose = conn.loose \cup {k}
        /\ ShapedBase(conn')
    BY <1>1, <1>2, <1>3 DEF ShapedBase
  <2>2. Agrees(conn')
    <3> SUFFICES ASSUME NEW i \in Keys \ conn'.loose
                 PROVE  \/ Recorded(conn', i) = {} /\ conn'.kv[i] = Absent
                        \/ \E n \in Recorded(conn', i) :
                              /\ \A m \in Recorded(conn', i) : m <= n
                              /\ conn'.revs[<<i, n>>] = Telling(conn', i)
      BY <2>1 DEF Agrees
    <3>1. i \in Keys \ conn.loose /\ conn'.kv[i] = conn.kv[i]
      BY <1>2, <2>1 DEF ShapedBase
    <3>2. Recorded(conn', i) = Recorded(conn, i) /\ Telling(conn', i) = Telling(conn, i)
      BY <2>1, <3>1 DEF Recorded, Telling
    <3> QED BY <2>1, <3>1, <3>2 DEF HistoryInv, Agrees
  <2> QED BY <1>1, <1>3, <2>2 DEF HistoryInv
<1>4. CASE revision # 0
  <2>1. revision = conn.hooks /\ revision \in 1..conn.hooks
    BY <1>2, <1>4 DEF HistoryInv, ShapedBase
  <2>2. /\ conn'.kv = [conn.kv EXCEPT ![k] = v]
        /\ conn'.revs = Record(conn.revs, {<<k, revision>>}, v)
        /\ conn'.hooks = conn.hooks /\ conn'.loose = conn.loose \ {k}
        /\ conn' = [kv |-> conn'.kv, revs |-> conn'.revs, hooks |-> conn'.hooks,
                    loose |-> conn'.loose]
    BY <1>1, <1>2, <1>4 DEF ShapedBase
  <2>3. ShapedBase(conn')
    <3>1. DOMAIN conn'.revs = DOMAIN conn.revs \cup {<<k, revision>>}
      BY <2>2 DEF Record
    <3>2. [conn.kv EXCEPT ![k] = v] \in [Keys -> Values \cup {Absent}]
      BY <1>2 DEF ShapedBase
    <3>3. DOMAIN conn'.revs \subseteq (Keys \cup PrefixArgs) \X (1..conn.hooks)
      BY <1>2, <2>1, <3>1 DEF ShapedBase
    <3> QED BY <1>2, <2>2, <3>2, <3>3 DEF ShapedBase
  <2>4. \A i \in Keys \ conn'.loose :
           \/ <<i, conn.hooks>> \in {<<k, revision>>} /\ v = Telling(conn', i)
           \/ <<i, conn.hooks>> \notin {<<k, revision>>} /\ i \notin conn.loose
              /\ conn'.kv[i] = conn.kv[i]
    BY <1>2, <2>1, <2>2, StoreAssumption DEF Telling, ShapedBase
  <2>5. {<<k, revision>>} \subseteq (Keys \cup PrefixArgs) \X {conn.hooks}
    BY <2>1
  <2> DEFINE one == {<<k, revision>>}
  <2>7. /\ conn'.hooks = conn.hooks /\ conn'.revs = Record(conn.revs, one, v)
        /\ one \subseteq (Keys \cup PrefixArgs) \X {conn.hooks}
        /\ \A i \in Keys \ conn'.loose :
              \/ <<i, conn.hooks>> \in one /\ v = Telling(conn', i)
              \/ <<i, conn.hooks>> \notin one /\ i \notin conn.loose /\ conn'.kv[i] = conn.kv[i]
    BY <2>2, <2>4, <2>5
  <2> HIDE DEF one
  <2>6. Agrees(conn')
    BY <2>3, <2>7, RecordAgrees DEF HistoryInv
  <2> QED BY <1>1, <2>1, <2>2, <2>6 DEF HistoryInv
<1> QED BY <1>3, <1>4

LEMMA RollBackTold ==
  ASSUME HistoryInv, RollBack, UNCHANGED disk
  PROVE  HistoryInv'
  BY DEF HistoryInv, RollBack

\* Rows that are deleted one by one are noted one by one; a range is noted as such, and
\* leaves the rows without a trace of their own.
LEMMA DeleteTold ==
  ASSUME HistoryInv, NEW gone, NEW rows, NEW exact \in BOOLEAN, Delete(gone, rows, exact),
         gone \subseteq Keys, exact => rows = gone, ~exact => rows \subseteq PrefixArgs
  PROVE  HistoryInv'
<1>1. CASE RollBack
  BY <1>1, RollBackTold DEF Delete
<1>2. CASE ~RollBack
  <2> DEFINE there == {k \in gone : conn.kv[k] # Absent}
             noted == IF revision # 0 /\ there # {} THEN rows \X {revision} ELSE {}
             table == [k \in Keys |-> IF k \in gone THEN Absent ELSE conn.kv[k]]
             keys == IF revision # 0 /\ exact THEN conn.loose \ there
                     ELSE conn.loose \cup there
  <2>1. /\ disk' = disk /\ revision' = revision
        /\ conn' = [conn EXCEPT !.kv = table, !.revs = Record(conn.revs, noted, Deleted),
                                !.loose = keys]
    BY <1>2 DEF Delete
  <2>2. ShapedBase(conn)
    BY DEF HistoryInv, Agrees
  <2>3. revision # 0 => revision = conn.hooks /\ revision \in 1..conn.hooks
    BY <2>2 DEF HistoryInv, ShapedBase
  <2>4. noted \subseteq (Keys \cup PrefixArgs) \X {conn.hooks}
        /\ (noted # {} => conn.hooks \in 1..conn.hooks)
    BY <2>3
  <2>5. /\ conn'.kv = table /\ conn'.revs = Record(conn.revs, noted, Deleted)
        /\ conn'.hooks = conn.hooks /\ conn'.loose = keys
        /\ conn' = [kv |-> conn'.kv, revs |-> conn'.revs, hooks |-> conn'.hooks,
                    loose |-> conn'.loose]
    <3> HIDE DEF table, noted, keys
    <3> QED BY <2>1, <2>2 DEF ShapedBase
  <2>6. CASE keys \subseteq Keys
    <3>1. ShapedBase(conn')
      <4>1. DOMAIN conn'.revs = DOMAIN conn.revs \cup noted
        BY <2>5 DEF Record
      <4>2. table \in [Keys -> Values \cup {Absent}]
        BY <2>2 DEF ShapedBase
      <4> HIDE DEF table, noted, keys
      <4>3. DOMAIN conn.revs \cup noted \subseteq (Keys \cup PrefixArgs) \X (1..conn.hooks)
        BY <2>2, <2>4 DEF ShapedBase
      <4> QED BY <2>2, <2>5, <2>6, <4>1, <4>2, <4>3 DEF ShapedBase
    <3>2. ASSUME NEW k \in Keys \ conn'.loose
          PROVE  \/ <<k, conn.hooks>> \in noted /\ Deleted = Telling(conn', k)
                 \/ <<k, conn.hooks>> \notin noted /\ k \notin conn.loose
                    /\ conn'.kv[k] = conn.kv[k]
      <4>1. k \notin keys /\ conn'.kv[k] = IF k \in gone THEN Absent ELSE conn.kv[k]
        BY <2>5
      <4>2. k \in gone /\ k \notin there => conn.kv[k] = Absent
        OBVIOUS
      <4>3. CASE exact /\ revision # 0 /\ there # {} /\ k \in gone
        <5>1. <<k, conn.hooks>> \in noted /\ conn'.kv[k] = Absent
          BY <2>3, <4>1, <4>3
        <5> QED BY <5>1 DEF Telling
      <4>4. CASE exact /\ revision # 0 /\ there # {} /\ k \notin gone
        BY <4>1, <4>4
      <4>5. CASE there = {}
        BY <4>1, <4>2, <4>5
      <4>6. CASE ~exact \/ revision = 0
        <5>1. <<k, conn.hooks>> \notin noted
          BY <4>6, StoreAssumption
        <5> QED BY <4>1, <4>2, <4>6, <5>1
      <4> QED BY <4>3, <4>4, <4>5, <4>6
    <3> HIDE DEF table, noted, keys
    <3>3. Agrees(conn')
      BY <2>4, <2>5, <3>1, <3>2, RecordAgrees DEF HistoryInv
    <3> QED BY <2>1, <2>5, <3>3 DEF HistoryInv
  <2>7. there \subseteq Keys
    OBVIOUS
  <2>8. keys \subseteq Keys
    BY <2>2, <2>7 DEF ShapedBase
  <2> QED BY <2>6, <2>8
<1> QED BY <1>1, <1>2

LEMMA HistoryInductive ==
  ASSUME HistoryInv, [StoreNext]_store_vars
  PROVE  HistoryInv'
<1>1. CASE Open \/ End \/ LeaveScope \/ Flush
  BY <1>1 DEF Open, End, LeaveScope, Flush, HistoryInv
<1>2. ASSUME NEW k \in Keys, NEW v \in Values, Set(k, v) PROVE HistoryInv'
  BY <1>2, SetTold
<1>3. ASSUME NEW k \in Keys, Unset(k) PROVE HistoryInv'
  <2> DEFINE ks == {k}
  <2>1. Delete(ks, ks, TRUE) /\ ks \subseteq Keys
    BY <1>3 DEF Unset
  <2> HIDE DEF ks
  <2> QED BY <2>1, DeleteTold
<1>4. ASSUME NEW ks \in SUBSET Keys, UnsetKeys(ks) PROVE HistoryInv'
  <2>1. Delete(ks, ks, TRUE) /\ ks \subseteq Keys
    BY <1>4 DEF UnsetKeys
  <2> QED BY <2>1, DeleteTold
<1>5. ASSUME NEW p \in PrefixArgs, UnsetPrefix(p) PROVE HistoryInv'
  <2>1. Delete(Under(p), {p}, FALSE) /\ Under(p) \subseteq Keys
    BY <1>5, StoreAssumption DEF UnsetPrefix
  <2> QED BY <2>1, DeleteTold
<1>6. CASE EnterScope
  <2>1. /\ conn' = [conn EXCEPT !.hooks = conn.hooks + 1]
        /\ disk' = disk /\ revision' = conn'.hooks
    BY <1>6 DEF EnterScope
  <2>2. /\ ShapedBase(conn) /\ Agrees(conn)
        /\ conn'.kv = conn.kv /\ conn'.revs = conn.revs /\ conn'.loose = conn.loose
        /\ conn'.hooks = conn.hooks + 1
    BY <2>1 DEF HistoryInv, Agrees, ShapedBase
  <2>3. ShapedBase(conn')
    BY <2>1, <2>2 DEF ShapedBase
  <2>4. \A k \in Keys : Recorded(conn', k) = Recorded(conn, k) /\ Telling(conn', k) = Telling(conn, k)
    BY <2>2, <2>3 DEF Recorded, Telling, ShapedBase
  <2>5. Agrees(conn')
    BY <2>2, <2>3, <2>4 DEF Agrees
  <2> QED BY <2>1, <2>3, <2>5 DEF HistoryInv, ShapedBase
<1>7. CASE RaiseInScope
  BY <1>7, RollBackTold DEF RaiseInScope
<1>8. CASE UNCHANGED store_vars
  BY <1>8 DEF store_vars, HistoryInv
<1> QED
  BY <1>1, <1>2, <1>3, <1>4, <1>5, <1>6, <1>7, <1>8 DEF StoreNext

LEMMA HistoryConclusion == HistoryInv => HistoryAgrees
<1> SUFFICES ASSUME HistoryInv, NEW k \in Keys \ disk.loose
             PROVE  LET of == {r[2] : r \in {s \in DOMAIN disk.revs : s[1] = k}}
                        newest == CHOOSE n \in of : \A m \in of : m <= n
                    IN IF of = {} THEN disk.kv[k] = Absent
                       ELSE disk.revs[<<k, newest>>] =
                               (IF disk.kv[k] = Absent THEN Deleted ELSE disk.kv[k])
  BY DEF HistoryAgrees
<1> DEFINE of == {r[2] : r \in {s \in DOMAIN disk.revs : s[1] = k}}
           newest == CHOOSE n \in of : \A m \in of : m <= n
<1>1. of = Recorded(disk, k) /\ Agrees(disk)
  <2>1. Agrees(disk) /\ DOMAIN disk.revs \subseteq (Keys \cup PrefixArgs) \X (1..disk.hooks)
    BY DEF HistoryInv, Agrees, ShapedBase
  <2>2. \A r \in DOMAIN disk.revs : r = <<r[1], r[2]>> /\ r[2] \in 1..disk.hooks
    BY <2>1
  <2>3. \A n : n \in of <=> \E r \in DOMAIN disk.revs : r[1] = k /\ r[2] = n
    OBVIOUS
  <2>4. \A n : <<k, n>>[1] = k /\ <<k, n>>[2] = n
    OBVIOUS
  <2> HIDE DEF of
  <2>5. \A n : n \in of <=> n \in 1..disk.hooks /\ <<k, n>> \in DOMAIN disk.revs
    BY <2>2, <2>3, <2>4
  <2> QED BY <2>1, <2>5 DEF Recorded
<1>2. Recorded(disk, k) \subseteq Nat
  BY DEF Recorded
<1>3. CASE of = {}
  BY <1>1, <1>3 DEF Agrees
<1>4. CASE of # {}
  <2>1. PICK n \in of : (\A m \in of : m <= n) /\ disk.revs[<<k, n>>] = Telling(disk, k)
    BY <1>1, <1>4 DEF Agrees
  <2> HIDE DEF of
  <2>2. newest \in of /\ \A m \in of : m <= newest
    BY <2>1
  <2>3. newest = n
    BY <1>1, <1>2, <2>1, <2>2
  <2> QED BY <1>4, <2>1, <2>3 DEF Telling, of
<1> QED BY <1>3, <1>4

\* However the hooks before have ended, a hook is told which options have changed since
\* the last that saved its config, its own keys are kept, it reads what it has written;
\* and the store's history is true.  (hookenv.Config, relation_get, Storage.gethistory)
THEOREM HooksAreTold == AllSpec => []HookDataTrue
<1> DEFINE Inv == HistoryInv /\ (part = "hookenv" => EnvInv)
<1>1. AllInit => Inv
  BY EnvInitial, HistoryInitial DEF AllInit
<1>2. Inv /\ [AllNext]_all_vars => Inv'
  BY Parts, EnvInductive, HistoryInductive
<1>3. Inv => HookDataTrue
  BY EnvConclusion, HistoryConclusion DEF HookDataTrue
<1> QED BY <1>1, <1>2, <1>3, PTL DEF AllSpec

-----------------------------------------------------------------------------
\* Releases.  What apt's sources give is never older than what is installed, and what
\* /etc/openstack-release says lies between the two; while the sources and the packages
\* agree, so does the file.

InstallTodo == {<<"import", "neutron-common", "reset">>, <<"neutron-common", "reset">>,
                <<"reset">>, <<>>}
HookTodo == {<<"import", "option", "act", "endpoint", "act", "save">>,
             <<"option", "act", "endpoint", "act", "save">>,
             <<"act", "endpoint", "act", "save">>, <<"endpoint", "act", "save">>,
             <<"act", "save">>, <<"save">>, <<>>}
UpgradeTodo == {<<"import", "available", "source", "packages", "reset", "render">>,
                <<"available", "source", "packages", "reset", "render">>,
                <<"source", "packages", "reset", "render">>,
                <<"packages", "reset", "render">>, <<"reset", "render">>, <<"render">>, <<>>}
SomeRels == {Release!None} \cup Release!Rels
OfArchive == {Release!None, Release!InArchive(machine.archive)}

ReleaseTypeOK ==
    /\ machine \in [archive : Release!Rels, installed : SomeRels, file : SomeRels,
                    rendered : SomeRels]
    /\ settings \in [origin : SomeRels, option : 0..2, nonce : Nat \ {0}]
    /\ asking \in [kind : {"none", "install", "hook", "upgrade"},
                   todo : InstallTodo \cup HookTodo \cup UpgradeTodo,
                   settings : [origin : SomeRels, option : 0..2, nonce : Nat],
                   os_rel : SomeRels, file : SomeRels, read : BOOLEAN, changed : BOOLEAN]
    /\ asking.kind = "none" => asking = Release!NoProcess
    /\ asking.kind = "install" => asking.todo \in InstallTodo
    /\ asking.kind = "hook" => asking.todo \in HookTodo
    /\ asking.kind = "upgrade" => asking.todo \in UpgradeTodo
    /\ asking.kind # "none" => asking.settings = settings
    /\ store \in [option : 0..2, nonce : Nat]
    /\ acted \in [option : 0..2, nonce : Nat]
    /\ forgotten \in BOOLEAN

FilesBetween ==
    /\ machine.installed <= machine.archive
    /\ machine.file # Release!None => machine.installed <= machine.file
    /\ machine.installed \in {Release!None, machine.archive} => machine.file \in OfArchive

\* What a process has read, and what it has made of it.
Left == Len(asking.todo)
AskedTrue ==
    /\ asking.kind # "none" => (asking.read <=> Left < IF asking.kind = "install" THEN 3 ELSE 6)
    /\ asking.os_rel # Release!None => asking.read
    /\ asking.kind = "install" =>
          /\ Left > 1 => machine.installed = Release!None
          /\ Left <= 1 => machine.installed = machine.archive
          /\ asking.read => asking.file \in OfArchive
          /\ Left = 0 => asking.os_rel = machine.installed
    /\ asking.kind = "hook" =>
          /\ machine.installed # Release!None
          /\ asking.os_rel # Release!None /\ machine.installed = machine.archive
                => asking.os_rel = machine.installed

UpgradeTrue ==
    asking.kind = "upgrade" =>
        /\ machine.installed # Release!None /\ settings.origin # Release!None
        /\ Left > 3 /\ asking.read /\ asking.file # Release!None => machine.installed <= asking.file
        /\ Left = 4 => settings.origin > machine.installed
        /\ Left = 3 => machine.archive = settings.origin
        /\ Left \in 1..2 => machine.installed = settings.origin
        /\ Left = 0 /\ upgrade = "success" =>
              machine.installed = settings.origin /\ machine.rendered = settings.origin

\* What the store says of the changes, before and after they are acted on.
ActedTrue ==
    /\ store.nonce <= acted.nonce /\ store.nonce <= settings.nonce
    /\ asking.kind = "hook" /\ Left = 2 /\ ~asking.changed => store.nonce = settings.nonce
    /\ asking.kind = "hook" /\ Left = 1 => settings.nonce <= acted.nonce
    /\ asking.kind = "hook" /\ Left = 4 => store.option = settings.option
    /\ ~forgotten /\ acted.option # Release!None =>
          (asking.kind = "hook" /\ Left = 4 /\ asking.changed) \/ acted.option = store.option

ReleaseInv == ReleaseTypeOK /\ FilesBetween /\ AskedTrue /\ UpgradeTrue /\ ActedTrue

\* What is left to do, by its length.
LEMMA Lengths ==
  /\ \A t \in InstallTodo :
        /\ Len(t) \in 0..3 /\ (Len(t) = 0 <=> t = <<>>)
        /\ t # <<>> => Tail(t) \in InstallTodo /\ Len(Tail(t)) = Len(t) - 1
        /\ Len(t) = 3 => Head(t) = "import"
        /\ Len(t) = 2 => Head(t) = "neutron-common"
        /\ Len(t) = 1 => Head(t) = "reset"
  /\ \A t \in HookTodo :
        /\ Len(t) \in 0..6 /\ (Len(t) = 0 <=> t = <<>>)
        /\ t # <<>> => Tail(t) \in HookTodo /\ Len(Tail(t)) = Len(t) - 1
        /\ Len(t) = 6 => Head(t) = "import"
        /\ Len(t) = 5 => Head(t) = "option"
        /\ Len(t) \in {2, 4} => Head(t) = "act"
        /\ Len(t) = 3 => Head(t) = "endpoint"
        /\ Len(t) = 1 => Head(t) = "save"
  /\ \A t \in UpgradeTodo :
        /\ Len(t) \in 0..6 /\ (Len(t) = 0 <=> t = <<>>)
        /\ t # <<>> => Tail(t) \in UpgradeTodo /\ Len(Tail(t)) = Len(t) - 1
        /\ Len(t) = 6 => Head(t) = "import"
        /\ Len(t) = 5 => Head(t) = "available"
        /\ Len(t) = 4 => Head(t) = "source"
        /\ Len(t) = 3 => Head(t) = "packages"
        /\ Len(t) = 2 => Head(t) = "reset"
        /\ Len(t) = 1 => Head(t) = "render"
<1>1. ASSUME NEW t \in InstallTodo
      PROVE  /\ Len(t) \in 0..3 /\ (Len(t) = 0 <=> t = <<>>)
             /\ t # <<>> => Tail(t) \in InstallTodo /\ Len(Tail(t)) = Len(t) - 1
             /\ Len(t) = 3 => Head(t) = "import"
             /\ Len(t) = 2 => Head(t) = "neutron-common"
             /\ Len(t) = 1 => Head(t) = "reset"
  <2>1. CASE t = <<"import", "neutron-common", "reset">>
    BY <2>1 DEF InstallTodo
  <2>2. CASE t = <<"neutron-common", "reset">>
    BY <2>2 DEF InstallTodo
  <2>3. CASE t = <<"reset">>
    BY <2>3 DEF InstallTodo
  <2>4. CASE t = <<>>
    BY <2>4
  <2> QED BY <2>1, <2>2, <2>3, <2>4 DEF InstallTodo
<1>2. ASSUME NEW t \in HookTodo
      PROVE  /\ Len(t) \in 0..6 /\ (Len(t) = 0 <=> t = <<>>)
             /\ t # <<>> => Tail(t) \in HookTodo /\ Len(Tail(t)) = Len(t) - 1
             /\ Len(t) = 6 => Head(t) = "import"
             /\ Len(t) = 5 => Head(t) = "option"
             /\ Len(t) \in {2, 4} => Head(t) = "act"
             /\ Len(t) = 3 => Head(t) = "endpoint"
             /\ Len(t) = 1 => Head(t) = "save"
  <2>1. CASE t = <<"import", "option", "act", "endpoint", "act", "save">>
    BY <2>1 DEF HookTodo
  <2>2. CASE t = <<"option", "act", "endpoint", "act", "save">>
    BY <2>2 DEF HookTodo
  <2>3. CASE t = <<"act", "endpoint", "act", "save">>
    BY <2>3 DEF HookTodo
  <2>4. CASE t = <<"endpoint", "act", "save">>
    BY <2>4 DEF HookTodo
  <2>5. CASE t = <<"act", "save">>
    BY <2>5 DEF HookTodo
  <2>6. CASE t = <<"save">>
    BY <2>6 DEF HookTodo
  <2>7. CASE t = <<>>
    BY <2>7
  <2> QED BY <2>1, <2>2, <2>3, <2>4, <2>5, <2>6, <2>7 DEF HookTodo
<1>3. ASSUME NEW t \in UpgradeTodo
      PROVE  /\ Len(t) \in 0..6 /\ (Len(t) = 0 <=> t = <<>>)
             /\ t # <<>> => Tail(t) \in UpgradeTodo /\ Len(Tail(t)) = Len(t) - 1
             /\ Len(t) = 6 => Head(t) = "import"
             /\ Len(t) = 5 => Head(t) = "available"
             /\ Len(t) = 4 => Head(t) = "source"
             /\ Len(t) = 3 => Head(t) = "packages"
             /\ Len(t) = 2 => Head(t) = "reset"
             /\ Len(t) = 1 => Head(t) = "render"
  <2>1. CASE t = <<"import", "available", "source", "packages", "reset", "render">>
    BY <2>1 DEF UpgradeTodo
  <2>2. CASE t = <<"available", "source", "packages", "reset", "render">>
    BY <2>2 DEF UpgradeTodo
  <2>3. CASE t = <<"source", "packages", "reset", "render">>
    BY <2>3 DEF UpgradeTodo
  <2>4. CASE t = <<"packages", "reset", "render">>
    BY <2>4 DEF UpgradeTodo
  <2>5. CASE t = <<"reset", "render">>
    BY <2>5 DEF UpgradeTodo
  <2>6. CASE t = <<"render">>
    BY <2>6 DEF UpgradeTodo
  <2>7. CASE t = <<>>
    BY <2>7
  <2> QED BY <2>1, <2>2, <2>3, <2>4, <2>5, <2>6, <2>7 DEF UpgradeTodo
<1> QED BY <1>1, <1>2, <1>3

LEMMA ReleaseInitial == Release!Init => ReleaseInv
<1> SUFFICES ASSUME Release!Init PROVE ReleaseInv
  OBVIOUS
<1> USE DEF Release!None
<1>1. PICK r \in Release!Rels :
        /\ machine = [archive |-> r, installed |-> 0, file |-> 0, rendered |-> 0]
        /\ settings \in [origin : {0, r}, option : 0..1, nonce : {1}]
  BY DEF Release!Init
<1>2. /\ asking = Release!NoProcess /\ store = [option |-> 0, nonce |-> 0]
      /\ acted = [option |-> 0, nonce |-> 0] /\ forgotten = FALSE
  BY DEF Release!Init
<1>3. r \in Nat /\ r >= 1
  BY <1>1, ReleasesAssumption DEF Release!Rels
<1>4. asking.kind = "none" /\ asking.todo = <<>> /\ asking.os_rel = 0
  BY <1>2 DEF Release!NoProcess
<1>5. ReleaseTypeOK
  <2>1. <<>> \in InstallTodo
    BY DEF InstallTodo
  <2>2. /\ machine \in [archive : Release!Rels, installed : SomeRels, file : SomeRels,
                        rendered : SomeRels]
        /\ settings \in [origin : SomeRels, option : 0..2, nonce : Nat \ {0}]
    BY <1>1 DEF SomeRels
  <2>3. asking \in [kind : {"none", "install", "hook", "upgrade"},
                   todo : InstallTodo \cup HookTodo \cup UpgradeTodo,
                   settings : [origin : SomeRels, option : 0..2, nonce : Nat],
                   os_rel : SomeRels, file : SomeRels, read : BOOLEAN, changed : BOOLEAN]
    BY <1>2, <2>1 DEF SomeRels, Release!NoProcess
  <2>4. store \in [option : 0..2, nonce : Nat] /\ acted \in [option : 0..2, nonce : Nat]
    BY <1>2
  <2>5. forgotten \in BOOLEAN
    BY <1>2
  <2>6. asking.kind = "none" => asking = Release!NoProcess
    BY <1>2
  <2> QED BY <1>4, <2>2, <2>3, <2>4, <2>5, <2>6, Zenon DEF ReleaseTypeOK
<1>6. FilesBetween
  BY <1>1, <1>3 DEF FilesBetween, OfArchive
<1>7. AskedTrue /\ UpgradeTrue /\ ActedTrue
  BY <1>1, <1>2, <1>4 DEF AskedTrue, UpgradeTrue, ActedTrue
<1> QED BY <1>5, <1>6, <1>7 DEF ReleaseInv

\* Which process does what, and when.
LEMMA WhatIsDone ==
  ASSUME ReleaseTypeOK
  PROVE  /\ Left \in 0..6 /\ (Left = 0 <=> asking.todo = <<>>)
         /\ asking.kind = "none" => Left = 0
         /\ Release!Does("import") =>
               \/ asking.kind = "install" /\ Left = 3
               \/ asking.kind \in {"hook", "upgrade"} /\ Left = 6
         /\ Release!Does("neutron-common") => asking.kind = "install" /\ Left = 2
         /\ Release!Does("reset") =>
               \/ asking.kind = "install" /\ Left = 1
               \/ asking.kind = "upgrade" /\ Left = 2
         /\ Release!Does("option") => asking.kind = "hook" /\ Left = 5
         /\ Release!Does("act") => asking.kind = "hook" /\ Left \in {2, 4}
         /\ Release!Does("endpoint") => asking.kind = "hook" /\ Left = 3
         /\ Release!Does("save") => asking.kind = "hook" /\ Left = 1
         /\ Release!Does("available") => asking.kind = "upgrade" /\ Left = 5
         /\ Release!Does("source") => asking.kind = "upgrade" /\ Left = 4
         /\ Release!Does("packages") => asking.kind = "upgrade" /\ Left = 3
         /\ Release!Does("render") => asking.kind = "upgrade" /\ Left = 1
<1> DEFINE what == Head(asking.todo)
<1>1. asking.kind \in {"none", "install", "hook", "upgrade"}
  BY DEF ReleaseTypeOK
<1>2. CASE asking.kind = "none"
  BY <1>2 DEF ReleaseTypeOK, Release!NoProcess, Release!Does, Left
<1>3. CASE asking.kind = "install"
  <2>1. asking.todo \in InstallTodo
    BY <1>3 DEF ReleaseTypeOK
  <2> QED BY <1>3, <2>1, Lengths DEF Left, Release!Does
<1>4. CASE asking.kind = "hook"
  <2>1. asking.todo \in HookTodo
    BY <1>4 DEF ReleaseTypeOK
  <2> QED BY <1>4, <2>1, Lengths DEF Left, Release!Does
<1>5. CASE asking.kind = "upgrade"
  <2>1. asking.todo \in UpgradeTodo
    BY <1>5 DEF ReleaseTypeOK
  <2> QED BY <1>5, <2>1, Lengths DEF Left, Release!Does
<1> QED BY <1>1, <1>2, <1>3, <1>4, <1>5

LEMMA RestOfIt ==
  ASSUME ReleaseTypeOK, asking.todo # <<>>
  PROVE  /\ asking.kind # "none"
         /\ asking.kind = "install" => Release!Rest \in InstallTodo
         /\ asking.kind = "hook" => Release!Rest \in HookTodo
         /\ asking.kind = "upgrade" => Release!Rest \in UpgradeTodo
         /\ Release!Rest \in InstallTodo \cup HookTodo \cup UpgradeTodo
         /\ Len(Release!Rest) = Left - 1
<1>1. asking.kind \in {"none", "install", "hook", "upgrade"} /\ asking.kind # "none"
  BY DEF ReleaseTypeOK, Release!NoProcess
<1>2. CASE asking.kind = "install"
  BY <1>2, Lengths DEF ReleaseTypeOK, Left, Release!Rest
<1>3. CASE asking.kind = "hook"
  BY <1>3, Lengths DEF ReleaseTypeOK, Left, Release!Rest
<1>4. CASE asking.kind = "upgrade"
  BY <1>4, Lengths DEF ReleaseTypeOK, Left, Release!Rest
<1> QED BY <1>1, <1>2, <1>3, <1>4

LEMMA ChangeKept ==
  ASSUME ReleaseInv, Release!Change
  PROVE  ReleaseInv'
<1> USE DEF ReleaseInv, Release!None
<1>1. /\ asking.kind = "none" /\ asking.os_rel = 0
      /\ UNCHANGED <<asking, store, acted, upgrade, forgotten>>
  BY DEF Release!Change, Release!NoProcess
<1>2. /\ machine.archive \in Release!Rels /\ machine.installed \in SomeRels
      /\ machine.file \in SomeRels /\ machine.rendered \in SomeRels
      /\ \A r \in Release!Rels : r \in Nat /\ r >= 1 /\ r \in SomeRels
  BY ReleasesAssumption DEF ReleaseTypeOK, SomeRels, Release!Rels
<1>3. /\ settings' \in [origin : SomeRels, option : 0..2, nonce : Nat \ {0}]
      /\ \/ machine' = machine
         \/ \E r \in Release!Rels : Release!Principal(r)
  <2>1. \/ \E r \in Release!Rels : Release!Principal(r)
        \/ \E r \in Release!Rels : settings' = [settings EXCEPT !.origin = r] /\ UNCHANGED machine
        \/ \E v \in 0..2 : settings' = [settings EXCEPT !.option = v] /\ UNCHANGED machine
        \/ settings' = [settings EXCEPT !.nonce = @ + 1] /\ UNCHANGED machine
    BY DEF Release!Change
  <2>2. ASSUME NEW r \in Release!Rels, Release!Principal(r) PROVE settings' = settings
    BY <2>2 DEF Release!Principal
  <2> QED BY <1>2, <2>1, <2>2 DEF ReleaseTypeOK
<1>4. /\ machine' \in [archive : Release!Rels, installed : SomeRels, file : SomeRels,
                       rendered : SomeRels]
      /\ FilesBetween'
  <2>1. CASE machine' = machine
    BY <2>1 DEF ReleaseTypeOK, FilesBetween, OfArchive
  <2>2. ASSUME NEW r \in Release!Rels, Release!Principal(r)
        PROVE  /\ machine' \in [archive : Release!Rels, installed : SomeRels, file : SomeRels,
                                rendered : SomeRels]
               /\ FilesBetween'
    <3>1. /\ machine'.archive = r
          /\ machine'.installed \in {0, r} /\ machine'.file \in {0, Release!InArchive(r)}
          /\ Release!InArchive(r) \in {0, r}
      BY <2>2 DEF Release!Principal, ReleaseTypeOK, Release!InArchive
    <3>2. machine' \in [archive : Release!Rels, installed : SomeRels, file : SomeRels,
                        rendered : SomeRels]
      BY <1>2, <2>2, <3>1 DEF Release!Principal, ReleaseTypeOK, SomeRels
    <3> QED BY <1>2, <3>1, <3>2 DEF FilesBetween, OfArchive
  <2> QED BY <1>3, <2>1, <2>2
<1>5. ReleaseTypeOK'
  BY <1>1, <1>3, <1>4 DEF ReleaseTypeOK, Release!NoProcess
<1>6. AskedTrue' /\ UpgradeTrue'
  BY <1>1 DEF AskedTrue, UpgradeTrue
<1>7. ActedTrue'
  <2>1. settings.nonce \in Nat /\ settings'.nonce \in {settings.nonce, settings.nonce + 1}
        /\ store.nonce \in Nat
    BY DEF Release!Change, Release!Principal, ReleaseTypeOK
  <2> QED BY <1>1, <2>1 DEF ActedTrue
<1> QED BY <1>4, <1>5, <1>6, <1>7

LEMMA BeginKept ==
  ASSUME ReleaseInv, NEW kind \in {"install", "hook", "upgrade"}, Release!Begin(kind)
  PROVE  ReleaseInv'
<1> USE DEF ReleaseInv, Release!None
<1> DEFINE work == <<"import">> \o Release!Work(kind)
<1>1. /\ kind = "install" => work \in InstallTodo /\ Len(work) = 3
      /\ kind = "hook" => work \in HookTodo /\ Len(work) = 6
      /\ kind = "upgrade" => work \in UpgradeTodo /\ Len(work) = 6
  <2>1. CASE kind = "install"
    <3>1. work = <<"import">> \o <<"neutron-common", "reset">>
      BY <2>1 DEF Release!Work
    <3>2. work = <<"import", "neutron-common", "reset">>
      BY <3>1, BeforeTwo, Zenon
    <3> QED BY <2>1, <3>2 DEF InstallTodo
  <2>2. CASE kind = "hook"
    <3>1. work = <<"import">> \o <<"option", "act", "endpoint", "act", "save">>
      BY <2>2 DEF Release!Work
    <3>2. work = <<"import", "option", "act", "endpoint", "act", "save">>
      BY <3>1, BeforeFive, Zenon
    <3> QED BY <2>2, <3>2 DEF HookTodo
  <2>3. CASE kind = "upgrade"
    <3>1. work = <<"import">> \o <<"available", "source", "packages", "reset", "render">>
      BY <2>3 DEF Release!Work
    <3>2. work = <<"import", "available", "source", "packages", "reset", "render">>
      BY <3>1, BeforeFive, Zenon
    <3> QED BY <2>3, <3>2 DEF UpgradeTodo
  <2> QED BY <2>1, <2>2, <2>3
<1> HIDE DEF work
<1>2. /\ asking' = [kind |-> kind, todo |-> work, settings |-> settings, os_rel |-> 0, file |-> 0,
                    read |-> FALSE, changed |-> FALSE]
      /\ IF kind = "install" THEN machine.installed = 0 ELSE machine.installed # 0
      /\ kind = "upgrade" => settings.origin # 0
      /\ UNCHANGED <<machine, settings, store, acted, upgrade, forgotten>>
  BY DEF Release!Begin, Release!NoProcess, work
<1>3. ReleaseTypeOK'
  <2>1. asking' \in [kind : {"none", "install", "hook", "upgrade"},
                     todo : InstallTodo \cup HookTodo \cup UpgradeTodo,
                     settings : [origin : SomeRels, option : 0..2, nonce : Nat],
                     os_rel : SomeRels, file : SomeRels, read : BOOLEAN, changed : BOOLEAN]
    BY <1>1, <1>2 DEF ReleaseTypeOK, SomeRels
  <2>2. asking'.kind = kind /\ asking'.todo = work /\ asking'.settings = settings
    BY <1>2
  <2> QED BY <1>1, <1>2, <2>1, <2>2 DEF ReleaseTypeOK
<1>4. FilesBetween'
  BY <1>2 DEF FilesBetween, OfArchive
<1>5. AskedTrue' /\ UpgradeTrue' /\ ActedTrue'
  <2>1. /\ asking'.kind = kind /\ asking'.os_rel = 0 /\ ~asking'.read /\ ~asking'.changed
        /\ Left' = IF kind = "install" THEN 3 ELSE 6
    BY <1>1, <1>2 DEF Left
  <2>2. ~(asking.kind = "hook" /\ Left = 4 /\ asking.changed)
    BY WhatIsDone DEF Release!Begin, Release!NoProcess
  <2>3. /\ IF kind = "install" THEN machine.installed = 0 ELSE machine.installed # 0
        /\ kind = "upgrade" => settings.origin # 0
        /\ UNCHANGED <<machine, settings, store, acted, upgrade, forgotten>>
    BY <1>2
  <2>4. AskedTrue'
    BY <2>1, <2>3 DEF AskedTrue
  <2>5. UpgradeTrue'
    BY <2>1, <2>3 DEF UpgradeTrue
  <2>6. ActedTrue'
    BY <2>1, <2>2, <2>3 DEF ActedTrue
  <2> QED BY <2>4, <2>5, <2>6
<1> QED BY <1>3, <1>4, <1>5

\* The release a process takes is that of the file it reads, or of what it has read.
LEMMA ReleaseAsked ==
  ASSUME ReleaseInv, NEW works \in BOOLEAN
  PROVE  LET file == Release!Installed(works)
             read == Release!openstack_release(works)
         IN  /\ file \in SomeRels /\ read \in SomeRels
             /\ file # 0 => machine.installed <= file
             /\ machine.installed \in {0, machine.archive} => file \in OfArchive
             /\ asking.read => read = asking.file
             /\ ~asking.read => read = file
             /\ \A reset : ~(asking.os_rel # 0 /\ ~reset) /\ machine.installed # 0 =>
                   Release!os_release(works, reset) =
                      IF read # 0 THEN read ELSE machine.installed
             /\ \A reset : Release!os_release(works, reset) \in SomeRels
<1> USE DEF ReleaseInv, Release!None
<1>1. /\ machine.archive \in Release!Rels /\ machine.installed \in SomeRels
      /\ machine.file \in SomeRels /\ asking.file \in SomeRels /\ asking.os_rel \in SomeRels
      /\ asking.settings.origin \in SomeRels
      /\ \A r \in Release!Rels : r \in Nat /\ r >= 1 /\ r \in SomeRels
      /\ 0 \in SomeRels /\ 1 \in SomeRels
  BY ReleasesAssumption DEF ReleaseTypeOK, SomeRels, Release!Rels
<1>2. Release!InArchive(machine.archive) \in {0, machine.archive}
  BY DEF Release!InArchive
<1>3. Release!Installed(works) \in {machine.file, Release!InArchive(machine.archive)}
      /\ (machine.file # 0 => Release!Installed(works) = machine.file)
  BY DEF Release!Installed
<1>4. /\ Release!Installed(works) \in SomeRels
      /\ Release!Installed(works) # 0 => machine.installed <= Release!Installed(works)
      /\ machine.installed \in {0, machine.archive} => Release!Installed(works) \in OfArchive
  BY <1>1, <1>2, <1>3 DEF FilesBetween, OfArchive
<1> QED BY <1>1, <1>4 DEF Release!openstack_release, Release!os_release, Release!FreshRelease,
     Release!get_os_codename_package, Release!get_os_codename_install_source, Release!FirstOf,
     Release!Base
LEMMA AskKept ==
  ASSUME ReleaseInv, NEW reset \in BOOLEAN, Release!AskRelease(reset)
  PROVE  ReleaseInv'
<1> USE DEF ReleaseInv, Release!None
<1>1. PICK works \in BOOLEAN :
        /\ machine' = [machine EXCEPT !.file = Release!Installed(works)]
        /\ asking' = [asking EXCEPT !.todo = Release!Rest, !.os_rel = Release!os_release(works, reset),
                                    !.file = Release!openstack_release(works), !.read = TRUE]
  BY DEF Release!AskRelease
<1> DEFINE file == Release!Installed(works)
           read == Release!openstack_release(works)
           rest == Release!Rest
           answer == Release!os_release(works, reset)
<1>2. UNCHANGED <<settings, store, acted, upgrade, forgotten>> /\ asking.todo # <<>>
  BY DEF Release!AskRelease, Release!Does
<1>3. /\ file \in SomeRels /\ read \in SomeRels /\ answer \in SomeRels
      /\ file # 0 => machine.installed <= file
      /\ machine.installed \in {0, machine.archive} => file \in OfArchive
      /\ asking.read => read = asking.file
      /\ ~asking.read => read = file
      /\ ~(asking.os_rel # 0 /\ ~reset) /\ machine.installed # 0 =>
            answer = IF read # 0 THEN read ELSE machine.installed
  BY ReleaseAsked
<1>4. /\ asking.kind # "none"
      /\ asking.kind = "install" => rest \in InstallTodo
      /\ asking.kind = "hook" => rest \in HookTodo
      /\ asking.kind = "upgrade" => rest \in UpgradeTodo
      /\ rest \in InstallTodo \cup HookTodo \cup UpgradeTodo
      /\ Len(rest) = Left - 1
  BY <1>2, RestOfIt
<1>5. \/ ~reset /\ asking.kind = "install" /\ Left = 3
      \/ ~reset /\ asking.kind \in {"hook", "upgrade"} /\ Left = 6
      \/ reset /\ asking.kind = "install" /\ Left = 1
      \/ reset /\ asking.kind = "upgrade" /\ Left = 2
  BY WhatIsDone DEF Release!AskRelease
<1> HIDE DEF file, read, rest, answer
<1>6. /\ asking'.kind = asking.kind /\ asking'.todo = rest /\ asking'.settings = asking.settings
      /\ asking'.os_rel = answer /\ asking'.file = read /\ asking'.read
      /\ asking'.changed = asking.changed
      /\ Left' = Left - 1
  BY <1>1, <1>4 DEF ReleaseTypeOK, file, read, rest, answer, Left
<1>7. /\ machine'.archive = machine.archive /\ machine'.installed = machine.installed
      /\ machine'.rendered = machine.rendered /\ machine'.file = file
  BY <1>1 DEF ReleaseTypeOK, file
<1>8. ReleaseTypeOK'
  <2>1. machine' \in [archive : Release!Rels, installed : SomeRels, file : SomeRels,
                      rendered : SomeRels]
    BY <1>1, <1>3 DEF ReleaseTypeOK, file
  <2>2. asking' \in [kind : {"none", "install", "hook", "upgrade"},
                     todo : InstallTodo \cup HookTodo \cup UpgradeTodo,
                     settings : [origin : SomeRels, option : 0..2, nonce : Nat],
                     os_rel : SomeRels, file : SomeRels, read : BOOLEAN, changed : BOOLEAN]
    BY <1>1, <1>3, <1>4 DEF ReleaseTypeOK, file, read, rest, answer
  <2> QED BY <1>2, <1>4, <1>6, <2>1, <2>2 DEF ReleaseTypeOK
<1>9. OfArchive' = OfArchive
  BY <1>7 DEF OfArchive
<1>10. FilesBetween'
  BY <1>3, <1>7, <1>9 DEF FilesBetween
<1>11. machine.archive # 0 /\ OfArchive \subseteq {0, machine.archive}
  BY ReleasesAssumption DEF ReleaseTypeOK, Release!Rels, OfArchive, Release!InArchive
<1>12. AskedTrue'
  <2>1. ~reset /\ Left \in {3, 6} /\ (Left = 3 => asking.kind = "install") => asking.os_rel = 0 /\ ~asking.read
    BY <1>4 DEF AskedTrue
  <2>2. CASE ~reset /\ asking.kind = "install" /\ Left = 3
    <3>1. ~asking.read /\ machine.installed = 0
      BY <2>1, <2>2 DEF AskedTrue
    <3>2. read \in OfArchive
      BY <1>3, <3>1
    <3> QED BY <1>6, <1>7, <1>9, <2>2, <3>1, <3>2 DEF AskedTrue
  <2>3. CASE ~reset /\ asking.kind \in {"hook", "upgrade"} /\ Left = 6
    <3>1. ~asking.read /\ asking.os_rel = 0
      BY <2>1, <2>3
    <3>2. asking.kind = "hook" => machine.installed # 0
      BY DEF AskedTrue
    <3>3. asking.kind = "hook" /\ machine.installed = machine.archive => answer = machine.installed
      BY <1>3, <1>11, <3>1, <3>2
    <3> QED BY <1>6, <1>7, <2>3, <3>2, <3>3 DEF AskedTrue
  <2>4. CASE reset /\ asking.kind = "install" /\ Left = 1
    <3>1. asking.read /\ asking.file \in OfArchive /\ machine.installed = machine.archive
      BY <2>4 DEF AskedTrue
    <3>2. read \in OfArchive /\ answer = machine.installed
      BY <1>3, <1>11, <2>4, <3>1
    <3> QED BY <1>6, <1>7, <1>9, <2>4, <3>1, <3>2 DEF AskedTrue
  <2>5. CASE reset /\ asking.kind = "upgrade" /\ Left = 2
    BY <1>6, <2>5 DEF AskedTrue
  <2> QED BY <1>5, <2>2, <2>3, <2>4, <2>5
<1>13. UpgradeTrue'
  BY <1>2, <1>3, <1>5, <1>6, <1>7 DEF UpgradeTrue, AskedTrue
<1>14. ActedTrue'
  BY <1>2, <1>5, <1>6 DEF ActedTrue
<1> QED BY <1>8, <1>10, <1>12, <1>13, <1>14

LEMMA InstallKept ==
  ASSUME ReleaseInv, Release!InstallNeutronCommon
  PROVE  ReleaseInv'
<1> USE DEF ReleaseInv, Release!None
<1> DEFINE rest == Release!Rest
<1>1. /\ asking.kind = "install" /\ Left = 2 /\ asking.todo # <<>>
      /\ rest \in InstallTodo /\ Len(rest) = Left - 1
      /\ UNCHANGED <<settings, store, acted, upgrade, forgotten>>
  BY WhatIsDone, RestOfIt DEF Release!InstallNeutronCommon, Release!Does
<1> HIDE DEF rest
<1>2. /\ asking' = [asking EXCEPT !.todo = rest]
      /\ machine' = [machine EXCEPT !.installed = machine.archive]
  BY DEF Release!InstallNeutronCommon, rest
<1>3. /\ asking'.kind = asking.kind /\ asking'.todo = rest /\ asking'.settings = asking.settings
      /\ asking'.os_rel = asking.os_rel /\ asking'.file = asking.file
      /\ (asking'.read <=> asking.read)
      /\ Left' = Left - 1
  BY <1>1, <1>2 DEF ReleaseTypeOK, Left
<1>4. /\ machine'.archive = machine.archive /\ machine'.installed = machine.archive
      /\ machine'.rendered = machine.rendered /\ machine'.file = machine.file
  BY <1>2 DEF ReleaseTypeOK
<1>5. ReleaseTypeOK'
  <2>1. machine' \in [archive : Release!Rels, installed : SomeRels, file : SomeRels,
                      rendered : SomeRels]
    BY <1>2 DEF ReleaseTypeOK, SomeRels
  <2>2. asking' \in [kind : {"none", "install", "hook", "upgrade"},
                     todo : InstallTodo \cup HookTodo \cup UpgradeTodo,
                     settings : [origin : SomeRels, option : 0..2, nonce : Nat],
                     os_rel : SomeRels, file : SomeRels, read : BOOLEAN, changed : BOOLEAN]
    BY <1>1, <1>2 DEF ReleaseTypeOK
  <2> QED BY <1>1, <1>3, <2>1, <2>2 DEF ReleaseTypeOK
<1>6. machine.installed = 0 /\ machine.file \in OfArchive /\ OfArchive' = OfArchive
      /\ machine.archive \in Nat /\ machine.archive # 0
      /\ OfArchive \subseteq {0, machine.archive}
  BY <1>1, <1>4, ReleasesAssumption DEF AskedTrue, FilesBetween, OfArchive, ReleaseTypeOK,
     Release!Rels, Release!InArchive
<1>7. FilesBetween'
  <2>1. machine'.file \in OfArchive' /\ machine'.file \in {0, machine.archive}
    BY <1>4, <1>6
  <2>2. machine'.installed = machine'.archive /\ machine'.archive \in Nat
        /\ machine'.file \in {0, machine'.archive}
    BY <1>4, <1>6, <2>1
  <2> QED BY <2>1, <2>2 DEF FilesBetween
<1>8. AskedTrue'
  BY <1>1, <1>3, <1>4, <1>6 DEF AskedTrue
<1>9. UpgradeTrue'
  BY <1>1, <1>3 DEF UpgradeTrue
<1>10. ActedTrue'
  BY <1>1, <1>3 DEF ActedTrue
<1> QED BY <1>5, <1>7, <1>8, <1>9, <1>10

\* A hook only changes the store, and what it has acted on.
LEMMA HookKept ==
  ASSUME ReleaseInv,
         \/ Release!config_value_changed \/ Release!endpoint_changed \/ Release!Act
         \/ Release!save_endpoint_changed_triggers
  PROVE  ReleaseInv'
<1> USE DEF ReleaseInv, Release!None
<1> DEFINE rest == Release!Rest
<1>1. /\ asking.todo # <<>> /\ UNCHANGED <<machine, settings, upgrade, forgotten>>
      /\ asking.kind = "hook"
  BY WhatIsDone DEF Release!Does, Release!config_value_changed, Release!endpoint_changed,
     Release!Act, Release!save_endpoint_changed_triggers
<1>2. rest \in HookTodo /\ Len(rest) = Left - 1 /\ Left \in 0..6
  BY <1>1, RestOfIt, WhatIsDone
<1> HIDE DEF rest
<1>3. PICK differs \in BOOLEAN : asking' = [asking EXCEPT !.todo = rest, !.changed = differs]
  <2>1. asking.changed \in BOOLEAN /\ asking = [asking EXCEPT !.changed = asking.changed]
    BY DEF ReleaseTypeOK
  <2>2. CASE Release!config_value_changed
    BY <2>2 DEF Release!config_value_changed, rest
  <2>3. CASE Release!endpoint_changed
    BY <2>3 DEF Release!endpoint_changed, rest
  <2>4. CASE Release!Act
    BY <2>4 DEF Release!Act, rest
  <2>5. CASE Release!save_endpoint_changed_triggers
    <3>1. asking' = [asking EXCEPT !.todo = rest]
      BY <2>5 DEF Release!save_endpoint_changed_triggers, rest
    <3>2. [asking EXCEPT !.todo = rest] = [asking EXCEPT !.todo = rest, !.changed = asking.changed]
      BY DEF ReleaseTypeOK
    <3> QED BY <2>1, <3>1, <3>2
  <2> QED BY <2>2, <2>3, <2>4, <2>5
<1>4. /\ asking'.kind = "hook" /\ asking'.todo = rest /\ asking'.settings = asking.settings
      /\ asking'.os_rel = asking.os_rel /\ asking'.file = asking.file
      /\ (asking'.read <=> asking.read) /\ (asking'.changed <=> differs)
      /\ Left' = Left - 1
  BY <1>1, <1>2, <1>3 DEF ReleaseTypeOK, Left
<1>5. /\ store' \in [option : 0..2, nonce : Nat] /\ acted' \in [option : 0..2, nonce : Nat]
      /\ ActedTrue'
  <2>1. asking.settings = settings /\ settings.option \in 0..2 /\ settings.nonce \in Nat
        /\ store \in [option : 0..2, nonce : Nat] /\ acted \in [option : 0..2, nonce : Nat]
    BY <1>1 DEF ReleaseTypeOK
  <2>2. CASE Release!config_value_changed
    <3>1. Left = 5 /\ Left' = 4 /\ acted' = acted
      BY <1>4, <2>2, WhatIsDone DEF Release!config_value_changed
    <3>2. asking'.changed <=> store.option # 0 /\ settings.option # store.option
      BY <2>1, <2>2 DEF Release!config_value_changed, ReleaseTypeOK
    <3>3. /\ store' \in [option : 0..2, nonce : Nat]
          /\ store'.option = settings.option /\ store'.nonce = store.nonce
      BY <2>1, <2>2 DEF Release!config_value_changed
    <3> QED BY <1>1, <1>4, <2>1, <3>1, <3>2, <3>3 DEF ActedTrue
  <2>3. CASE Release!endpoint_changed
    <3>1. Left = 3 /\ Left' = 2 /\ acted' = acted /\ store' = store
      BY <1>4, <2>3, WhatIsDone DEF Release!endpoint_changed
    <3>2. asking'.changed <=> store.nonce # settings.nonce
      BY <2>1, <2>3 DEF Release!endpoint_changed, Release!get_endpoint_notifications, ReleaseTypeOK
    <3> QED BY <1>1, <1>4, <2>1, <3>1, <3>2 DEF ActedTrue
  <2>4. CASE Release!Act
    <3>1. Left \in {2, 4} /\ Left' = Left - 1 /\ store' = store
      BY <1>4, <2>4, WhatIsDone DEF Release!Act
    <3>2. ~asking.changed => acted' = acted
      BY <2>4 DEF Release!Act
    <3>3. asking.changed =>
            /\ acted' \in [option : 0..2, nonce : Nat]
            /\ acted'.nonce = IF Left = 2 THEN settings.nonce ELSE acted.nonce
            /\ acted'.option = IF Left = 2 THEN acted.option ELSE settings.option
      BY <1>2, <2>1, <2>4, <3>1 DEF Release!Act, rest
    <3>4. CASE Left = 2
      BY <1>1, <1>4, <2>1, <3>1, <3>2, <3>3, <3>4 DEF ActedTrue
    <3>5. CASE Left = 4
      BY <1>1, <1>4, <2>1, <3>1, <3>2, <3>3, <3>5 DEF ActedTrue
    <3> QED BY <3>1, <3>4, <3>5
  <2>5. CASE Release!save_endpoint_changed_triggers
    <3>1. Left = 1 /\ Left' = 0 /\ acted' = acted
      BY <1>4, <2>5, WhatIsDone DEF Release!save_endpoint_changed_triggers
    <3>2. /\ store' \in [option : 0..2, nonce : Nat]
          /\ store'.option = store.option /\ store'.nonce = settings.nonce
      BY <2>1, <2>5 DEF Release!save_endpoint_changed_triggers, Release!get_endpoint_notifications
    <3> QED BY <1>1, <1>4, <2>1, <3>1, <3>2 DEF ActedTrue
  <2> QED BY <2>2, <2>3, <2>4, <2>5
<1>6. ReleaseTypeOK'
  <2>1. asking' \in [kind : {"none", "install", "hook", "upgrade"},
                     todo : InstallTodo \cup HookTodo \cup UpgradeTodo,
                     settings : [origin : SomeRels, option : 0..2, nonce : Nat],
                     os_rel : SomeRels, file : SomeRels, read : BOOLEAN, changed : BOOLEAN]
    BY <1>2, <1>3 DEF ReleaseTypeOK
  <2> QED BY <1>1, <1>2, <1>4, <1>5, <2>1 DEF ReleaseTypeOK
<1>7. FilesBetween'
  BY <1>1 DEF FilesBetween, OfArchive
<1>8. AskedTrue'
  <2>1. asking.read <=> Left < 6
    BY <1>1 DEF AskedTrue
  <2>2. asking.os_rel # 0 /\ machine.installed = machine.archive => asking.os_rel = machine.installed
    BY <1>1 DEF AskedTrue
  <2>3. machine.installed # 0 /\ (asking.os_rel # 0 => asking.read)
    BY <1>1 DEF AskedTrue
  <2>4. Left # 6
    BY WhatIsDone DEF Release!config_value_changed, Release!endpoint_changed,
       Release!Act, Release!save_endpoint_changed_triggers
  <2> QED BY <1>1, <1>2, <1>4, <2>1, <2>2, <2>3, <2>4 DEF AskedTrue
<1>9. UpgradeTrue'
  BY <1>4 DEF UpgradeTrue
<1> QED BY <1>5, <1>6, <1>7, <1>8, <1>9

\* What all steps of an upgrade have in common: it forgets what it has done.
LEMMA UpgradeGoesOn ==
  ASSUME ReleaseInv, asking.kind = "upgrade", asking.todo # <<>>, NEW left \in UpgradeTodo,
         asking' = [asking EXCEPT !.todo = left],
         UNCHANGED <<settings, store, acted, forgotten>>,
         machine' \in [archive : Release!Rels, installed : SomeRels, file : SomeRels,
                       rendered : SomeRels],
         Left < 6, Len(left) < Left
  PROVE  /\ ReleaseTypeOK' /\ AskedTrue' /\ ActedTrue'
         /\ Left' = Len(left) /\ asking'.kind = "upgrade" /\ asking'.file = asking.file
         /\ (asking'.read <=> asking.read) /\ (asking'.todo = left)
<1> USE DEF ReleaseInv, Release!None
<1>1. /\ asking'.kind = asking.kind /\ asking'.todo = left /\ asking'.settings = asking.settings
      /\ asking'.os_rel = asking.os_rel /\ asking'.file = asking.file
      /\ (asking'.read <=> asking.read) /\ Left' = Len(left)
  BY DEF ReleaseTypeOK, Left
<1>2. asking' \in [kind : {"none", "install", "hook", "upgrade"},
                   todo : InstallTodo \cup HookTodo \cup UpgradeTodo,
                   settings : [origin : SomeRels, option : 0..2, nonce : Nat],
                   os_rel : SomeRels, file : SomeRels, read : BOOLEAN, changed : BOOLEAN]
  BY DEF ReleaseTypeOK
<1>3. ReleaseTypeOK'
  BY <1>1, <1>2 DEF ReleaseTypeOK
<1>4. Len(left) \in 0..5 /\ asking.read
  BY Lengths, WhatIsDone DEF AskedTrue
<1>5. AskedTrue'
  BY <1>1, <1>4 DEF AskedTrue
<1>6. ActedTrue'
  BY <1>1 DEF ActedTrue
<1> QED BY <1>1, <1>3, <1>5, <1>6

LEMMA UpgradeKept ==
  ASSUME ReleaseInv, Release!do_action_openstack_upgrade \/ Release!upgrade_callback
  PROVE  ReleaseInv'
<1> USE DEF ReleaseInv, Release!None
<1> DEFINE rest == Release!Rest
<1>1. /\ asking.todo # <<>> /\ asking.kind = "upgrade" /\ Left \in 1..5
      /\ UNCHANGED <<settings, store, acted, forgotten>>
  <2>1. CASE Release!do_action_openstack_upgrade
    <3>1. Release!Does("available") /\ UNCHANGED <<settings, store, acted, forgotten>>
      BY <2>1 DEF Release!do_action_openstack_upgrade
    <3> QED BY <3>1, WhatIsDone
  <2>2. CASE Release!upgrade_callback
    <3>1. /\ Release!Does("source") \/ Release!Does("packages") \/ Release!Does("render")
          /\ UNCHANGED <<settings, store, acted, forgotten>>
      BY <2>2 DEF Release!upgrade_callback
    <3> QED BY <3>1, WhatIsDone
  <2> QED BY <2>1, <2>2
<1>2. rest \in UpgradeTodo /\ Len(rest) = Left - 1
  BY <1>1, RestOfIt
<1>3. /\ asking.settings = settings /\ settings.origin \in Release!Rels
      /\ machine.installed # 0
      /\ \A r \in Release!Rels : r \in Nat /\ r # 0 /\ r \in SomeRels
      /\ machine.archive \in Release!Rels /\ machine.installed \in Release!Rels
      /\ machine.file \in SomeRels /\ machine.rendered \in SomeRels /\ 0 \in SomeRels
  BY <1>1, ReleasesAssumption DEF ReleaseTypeOK, UpgradeTrue, SomeRels, Release!Rels
<1> HIDE DEF rest
<1>4. CASE Release!do_action_openstack_upgrade
  <2>1. PICK works \in BOOLEAN : machine' = [machine EXCEPT !.file = Release!Installed(works)]
    BY <1>4 DEF Release!do_action_openstack_upgrade
  <2>2. /\ Release!Installed(works) \in SomeRels
        /\ Release!Installed(works) # 0 => machine.installed <= Release!Installed(works)
        /\ machine.installed \in {0, machine.archive} => Release!Installed(works) \in OfArchive
    BY ReleaseAsked
  <2>3. Left = 5 /\ asking.read
    <3>1. Left = 5
      BY <1>4, WhatIsDone DEF Release!do_action_openstack_upgrade
    <3> QED BY <1>1, <3>1 DEF AskedTrue
  <2>4. Release!openstack_upgrade_available => settings.origin > machine.installed
    <3>1. Release!get_os_codename_package(TRUE) =
            IF asking.file # 0 THEN asking.file ELSE machine.installed
      BY <2>3 DEF Release!openstack_release, Release!get_os_codename_package
    <3>2. asking.file # 0 => machine.installed <= asking.file
      BY <1>1, <2>3 DEF UpgradeTrue
    <3>3. asking.file \in Nat
      BY <1>3 DEF ReleaseTypeOK, SomeRels
    <3>4. settings.origin \in Nat /\ machine.installed \in Nat /\ asking.settings = settings
      BY <1>3
    <3>5. Release!openstack_upgrade_available =>
             settings.origin > IF asking.file # 0 THEN asking.file ELSE machine.installed
      BY <3>1, <3>4 DEF Release!openstack_upgrade_available, Release!get_os_codename_install_source
    <3> QED BY <3>2, <3>3, <3>4, <3>5
  <2> DEFINE left == IF Release!openstack_upgrade_available THEN rest ELSE <<>>
  <2>5. asking' = [asking EXCEPT !.todo = left]
        /\ (Release!openstack_upgrade_available \/ upgrade' # "success")
    BY <1>4, Zenon DEF Release!do_action_openstack_upgrade, rest
  <2>6. left \in UpgradeTodo /\ Len(left) \in {0, 4}
        /\ (Release!openstack_upgrade_available => Len(left) = 4)
        /\ (~Release!openstack_upgrade_available => Len(left) = 0)
    <3>1. <<>> \in UpgradeTodo /\ Len(<<>>) = 0
      BY DEF UpgradeTodo
    <3> QED BY <1>2, <2>3, <3>1
  <2> HIDE DEF left
  <2>7. /\ machine'.archive = machine.archive /\ machine'.installed = machine.installed
        /\ machine'.file = Release!Installed(works) /\ OfArchive' = OfArchive
        /\ machine' \in [archive : Release!Rels, installed : SomeRels, file : SomeRels,
                         rendered : SomeRels]
    BY <2>1, <2>2 DEF ReleaseTypeOK, OfArchive
  <2>8. FilesBetween'
    BY <2>2, <2>7 DEF FilesBetween
  <2>9. /\ ReleaseTypeOK' /\ AskedTrue' /\ ActedTrue'
        /\ Left' = Len(left) /\ asking'.kind = "upgrade" /\ asking'.file = asking.file
        /\ (asking'.read <=> asking.read)
    <3>2. Len(left) = 0 \/ Len(left) = 4
      BY <2>6
    <3>1. Left < 6 /\ Len(left) < Left
      BY <2>3, <3>2
    <3> QED BY <1>1, <2>5, <2>6, <2>7, <3>1, UpgradeGoesOn
  <2>10. UpgradeTrue'
    <3>1. /\ machine'.installed # 0 /\ settings'.origin # 0
          /\ asking.file # 0 => machine.installed <= asking.file
      BY <1>1, <1>3, <2>3, <2>7 DEF UpgradeTrue
    <3>2. CASE Release!openstack_upgrade_available
      <4>1. Left' = 4 /\ settings'.origin > machine'.installed
        BY <1>1, <2>4, <2>6, <2>7, <2>9, <3>2
      <4>2. asking'.file # 0 => machine'.installed <= asking'.file
        BY <2>7, <2>9, <3>1
      <4> QED BY <3>1, <4>1, <4>2 DEF UpgradeTrue
    <3>3. CASE ~Release!openstack_upgrade_available
      <4>1. Left' = 0 /\ upgrade' # "success"
        BY <2>5, <2>6, <2>9, <3>3
      <4> QED BY <3>1, <4>1 DEF UpgradeTrue
    <3> QED BY <3>2, <3>3
  <2> QED BY <2>8, <2>9, <2>10
<1>5. CASE Release!upgrade_callback
  <2>1. Left \in {4, 3, 1} /\ asking' = [asking EXCEPT !.todo = rest]
    BY <1>5, WhatIsDone DEF Release!upgrade_callback, rest
  <2>2. CASE Release!Does("source")
    <3>1. Left = 4 /\ machine' = [machine EXCEPT !.archive = settings.origin]
          /\ settings.origin > machine.installed
      BY <1>1, <1>3, <1>5, <2>2, WhatIsDone DEF Release!upgrade_callback, UpgradeTrue, Release!Does
    <3>2. /\ machine'.archive = settings.origin /\ machine'.installed = machine.installed
          /\ machine'.file = machine.file
          /\ machine' \in [archive : Release!Rels, installed : SomeRels, file : SomeRels,
                           rendered : SomeRels]
      BY <1>3, <3>1 DEF ReleaseTypeOK
    <3>3. FilesBetween'
      <4>1. machine'.installed \notin {0, machine'.archive}
        BY <1>3, <3>1, <3>2
      <4> QED BY <1>3, <3>1, <3>2, <4>1 DEF FilesBetween
    <3>4. /\ ReleaseTypeOK' /\ AskedTrue' /\ ActedTrue'
          /\ Left' = Len(rest) /\ asking'.kind = "upgrade"
      <4>1. Left < 6 /\ Len(rest) < Left
        BY <1>2, <3>1
      <4> QED BY <1>1, <1>2, <2>1, <3>2, <4>1, UpgradeGoesOn
    <3>5. UpgradeTrue'
      BY <1>1, <1>2, <1>3, <3>1, <3>2, <3>4 DEF UpgradeTrue
    <3> QED BY <3>3, <3>4, <3>5
  <2>3. CASE Release!Does("packages")
    <3> DEFINE file == IF machine.file = 0 THEN 0 ELSE Release!InArchive(machine.archive)
    <3>1. Left = 3 /\ machine' = [machine EXCEPT !.installed = machine.archive, !.file = file]
          /\ machine.archive = settings.origin
      BY <1>1, <1>5, <2>3, WhatIsDone DEF Release!upgrade_callback, UpgradeTrue, Release!Does,
         ReleaseTypeOK
    <3>2. file \in OfArchive /\ file \in {0, machine.archive}
      BY DEF OfArchive, Release!InArchive
    <3> HIDE DEF file
    <3>3. /\ machine'.archive = machine.archive /\ machine'.installed = machine.archive
          /\ machine'.file = file /\ OfArchive' = OfArchive
          /\ machine' \in [archive : Release!Rels, installed : SomeRels, file : SomeRels,
                           rendered : SomeRels]
      BY <1>3, <3>1, <3>2 DEF ReleaseTypeOK, OfArchive
    <3>4. FilesBetween'
      <4>1. machine'.installed <= machine'.archive
        BY <1>3, <3>3
      <4>2. machine'.file # 0 => machine'.installed <= machine'.file
        BY <1>3, <3>2, <3>3
      <4>3. machine'.file \in OfArchive'
        BY <3>2, <3>3
      <4> QED BY <4>1, <4>2, <4>3 DEF FilesBetween
    <3>5. /\ ReleaseTypeOK' /\ AskedTrue' /\ ActedTrue'
          /\ Left' = Len(rest) /\ asking'.kind = "upgrade"
      <4>1. Left < 6 /\ Len(rest) < Left
        BY <1>2, <3>1
      <4> QED BY <1>1, <1>2, <2>1, <3>3, <4>1, UpgradeGoesOn
    <3>6. UpgradeTrue'
      BY <1>1, <1>2, <1>3, <3>1, <3>3, <3>5 DEF UpgradeTrue
    <3> QED BY <3>4, <3>5, <3>6
  <2>4. CASE Release!Does("render")
    <3>1. Left = 1 /\ machine' = [machine EXCEPT !.rendered = settings.origin]
          /\ machine.installed = settings.origin
      BY <1>1, <1>3, <1>5, <2>4, WhatIsDone DEF Release!upgrade_callback, UpgradeTrue, Release!Does
    <3>2. /\ machine'.archive = machine.archive /\ machine'.installed = machine.installed
          /\ machine'.file = machine.file /\ machine'.rendered = settings.origin
          /\ OfArchive' = OfArchive
          /\ machine' \in [archive : Release!Rels, installed : SomeRels, file : SomeRels,
                           rendered : SomeRels]
      BY <1>3, <3>1 DEF ReleaseTypeOK, OfArchive
    <3>3. FilesBetween'
      BY <3>2 DEF FilesBetween
    <3>4. /\ ReleaseTypeOK' /\ AskedTrue' /\ ActedTrue'
          /\ Left' = Len(rest) /\ asking'.kind = "upgrade"
      <4>1. Left < 6 /\ Len(rest) < Left
        BY <1>2, <3>1
      <4> QED BY <1>1, <1>2, <2>1, <3>2, <4>1, UpgradeGoesOn
    <3>5. UpgradeTrue'
      BY <1>1, <1>2, <1>3, <3>1, <3>2, <3>4 DEF UpgradeTrue
    <3> QED BY <3>3, <3>4, <3>5
  <2> QED BY <1>5, <2>2, <2>3, <2>4 DEF Release!upgrade_callback
<1> QED BY <1>4, <1>5

\* A process that has ended, or died.
LEMMA OverKept ==
  ASSUME ReleaseInv, Release!Die \/ Release!End
  PROVE  ReleaseInv'
<1> USE DEF ReleaseInv, Release!None
<1>1. /\ asking' = Release!NoProcess
      /\ UNCHANGED <<machine, settings, store, acted>>
      /\ forgotten' \in BOOLEAN
      /\ ~forgotten' => ~forgotten /\ ~(asking.changed /\ Left > 2)
  BY WhatIsDone DEF Release!Die, Release!End, ReleaseTypeOK, Left
<1>2. asking'.kind = "none" /\ asking'.os_rel = 0 /\ asking'.todo = <<>> /\ Left' = 0
  BY <1>1 DEF Release!NoProcess, Left
<1>3. ReleaseTypeOK'
  <2>1. <<>> \in InstallTodo
    BY DEF InstallTodo
  <2>2. asking' \in [kind : {"none", "install", "hook", "upgrade"},
                     todo : InstallTodo \cup HookTodo \cup UpgradeTodo,
                     settings : [origin : SomeRels, option : 0..2, nonce : Nat],
                     os_rel : SomeRels, file : SomeRels, read : BOOLEAN, changed : BOOLEAN]
    BY <1>1, <2>1 DEF Release!NoProcess, SomeRels
  <2>3. (Release!NoProcess)' = Release!NoProcess
    BY DEF Release!NoProcess
  <2> QED BY <1>1, <1>2, <2>2, <2>3 DEF ReleaseTypeOK
<1>4. FilesBetween'
  BY <1>1 DEF FilesBetween, OfArchive
<1>5. AskedTrue' /\ UpgradeTrue'
  BY <1>2 DEF AskedTrue, UpgradeTrue
<1>6. ActedTrue'
  BY <1>1, <1>2 DEF ActedTrue
<1> QED BY <1>3, <1>4, <1>5, <1>6

LEMMA ReleaseInductive ==
  ASSUME ReleaseInv, [Release!Next]_(Release!releases_vars)
  PROVE  ReleaseInv'
<1>1. CASE UNCHANGED Release!releases_vars
  BY <1>1 DEF Release!releases_vars, ReleaseInv, ReleaseTypeOK, FilesBetween, AskedTrue,
     UpgradeTrue, ActedTrue, OfArchive, Left, Release!NoProcess
<1>2. CASE Release!Change \/ \E kind \in {"install", "hook", "upgrade"} : Release!Begin(kind)
  BY <1>2, ChangeKept, BeginKept
<1>3. CASE (\E reset \in BOOLEAN : Release!AskRelease(reset)) \/ Release!InstallNeutronCommon
  BY <1>3, AskKept, InstallKept
<1>4. CASE \/ Release!config_value_changed \/ Release!endpoint_changed \/ Release!Act
           \/ Release!save_endpoint_changed_triggers
  BY <1>4, HookKept
<1>5. CASE \/ Release!do_action_openstack_upgrade \/ Release!upgrade_callback
           \/ Release!Die \/ Release!End
  BY <1>5, UpgradeKept, OverKept
<1> QED BY <1>1, <1>2, <1>3, <1>4, <1>5 DEF Release!Next

LEMMA ReleaseConclusion == ReleaseInv => Release!ReleasesRight
<1> SUFFICES ASSUME ReleaseInv PROVE Release!ReleasesRight
  OBVIOUS
<1> USE DEF ReleaseInv, Release!None
<1>1. asking.kind \in {"none", "install", "hook", "upgrade"} /\ machine.archive # 0
  BY ReleasesAssumption DEF ReleaseTypeOK, Release!Rels
<1>2. Release!ReleaseRight
  <2> SUFFICES ASSUME asking.os_rel # 0, asking.kind # "upgrade", machine.archive = machine.installed
               PROVE  \/ asking.os_rel = machine.installed
                      \/ asking.kind = "install" /\ Release!Does("reset")
    BY DEF Release!ReleaseRight, Release!Asked, Release!Upgrading
  <2>1. CASE asking.kind = "none"
    BY <2>1 DEF ReleaseTypeOK, Release!NoProcess
  <2>2. CASE asking.kind = "hook"
    BY <2>2 DEF AskedTrue
  <2>3. CASE asking.kind = "install"
    <3>1. asking.todo \in InstallTodo /\ Left <= 1
      BY <1>1, <2>3, WhatIsDone DEF ReleaseTypeOK, AskedTrue
    <3>2. Left = 1 => asking.todo # <<>> /\ Head(asking.todo) = "reset"
      BY <3>1, Lengths DEF Left
    <3> QED BY <2>3, <3>1, <3>2, WhatIsDone DEF AskedTrue, Release!Does
  <2> QED BY <1>1, <2>1, <2>2, <2>3
<1>3. Release!UpgradeRight
  BY WhatIsDone DEF Release!UpgradeRight, Release!Upgrading, UpgradeTrue, ReleaseTypeOK
<1>4. Release!ChangesActed
  BY DEF Release!ChangesActed, ActedTrue, Release!NoProcess, ReleaseTypeOK
<1> QED BY <1>2, <1>3, <1>4 DEF Release!ReleasesRight

\* For any releases, any number of changes and failures, and a process that dies anywhere:
\* a hook is told the release that is installed, an upgrade goes only up, and what the
\* store says has been acted on.  (os_release, openstack_upgrade_available, endpoint_changed)
THEOREM ReleasesAreRight == AllSpec => []ReleasesRight
<1> DEFINE Inv == part = "releases" => ReleaseInv
<1>1. AllInit => Inv
  BY ReleaseInitial DEF AllInit
<1>2. Inv /\ [AllNext]_all_vars => Inv'
  BY Parts, ReleaseInductive
<1>3. Inv => ReleasesRight
  BY ReleaseConclusion DEF ReleasesRight
<1> QED BY <1>1, <1>2, <1>3, PTL DEF AllSpec

-----------------------------------------------------------------------------
\* Package sources.  What a hook still has to do and what apt has by now make up what is
\* wanted: each source, with its key before it, and of the pockets the last.

Given == {wanted[i] : i \in 1..Len(wanted)}
OfKind(kinds) == {s \in Given : s.kind \in kinds}
Key(s) == Apt!Command("key", s, {})
Write(s) == Apt!Command("write", s, {})
Repository(s) == Apt!Command("repository", s, {1})
Install(p) == Apt!Command("install", p, Apt!AptCodes)
Update == Apt!Command("update", "", {})
AptCommands ==
    {Key(s) : s \in Given} \cup {Apt!Command("verify", s, {}) : s \in OfKind({"series-pocket"})}
        \cup {Write(s) : s \in OfKind({"proposed"} \cup Apt!Pockets)}
        \cup {Repository(s) : s \in OfKind({"repository", "staging"})}
        \cup {Install(Apt!Keyring), Install(Apt!Package), Update}

AptTypeOK ==
    /\ wanted \in Seq(Apt!Sample)
    /\ apt \in [sources : SUBSET Given, keys : SUBSET Given, index : SUBSET Given,
                installed : SUBSET {Apt!Keyring, Apt!Package}]
    /\ commands \in Seq(AptCommands)
    /\ tries \in Nat
    /\ outcome \in {"none", "running", "failed", "done"}
    /\ held \in 0..MaxHeld + 1
    /\ troubles \in Nat
    /\ skipped \in BOOLEAN

\* In a sequence of commands, a source that has a key comes after it.
Keyed == {s \in Seq(AptCommands) :
            \A i \in 1..Len(s) : \A t \in Given :
                s[i] \in {Write(t), Repository(t)} /\ t.key =>
                    t \in apt.keys \/ \E j \in 1..i - 1 : s[j] = Key(t)}

\* Of the pockets, the last that is wanted is, or will be, the one there is.
PocketWrites == {Write(s) : s \in OfKind(Apt!Pockets)}
IsLastPocket(i) ==
    /\ i \in 1..Len(wanted) /\ wanted[i].kind \in Apt!Pockets
    /\ \A j \in i + 1..Len(wanted) : wanted[j].kind \notin Apt!Pockets

\* Nothing is missing, unless a command was passed over.
Complete ==
    /\ \A s \in OfKind({"proposed"}) : s \in apt.sources \/ Occurs(Write(s), commands)
    /\ \A s \in OfKind({"repository", "staging"}) :
          s \in apt.sources \/ Occurs(Repository(s), commands)
    /\ \A s \in Given : s.key => s \in apt.keys \/ Occurs(Key(s), commands)
    /\ \A i \in 1..Len(wanted) : IsLastPocket(i) =>
          \/ LastOf(PocketWrites, Write(wanted[i]), commands)
          \/ Without(PocketWrites, commands) /\ wanted[i] \in apt.sources
    /\ Apt!Package \in apt.installed \/ Occurs(Install(Apt!Package), commands)

ScriptRight ==
    outcome = "running" =>
        /\ commands \in Keyed
        /\ \A i \in 1..Len(commands) : commands[i] = Install(Apt!Package) => i = Len(commands)
        /\ ~skipped => Complete
        /\ skipped => troubles > 0
DoneRight ==
    outcome = "done" => commands = <<>> /\ (~skipped => Complete)

\* How often a command has failed: no more often than the lock was found taken, unless its
\* package is not there.
TriesRight ==
    outcome = "running" /\ troubles = 0 =>
        \/ tries <= IF held = MaxHeld + 1 THEN 0 ELSE MaxHeld - held
        \/ commands # <<>> /\ Head(commands) = Install(Apt!Package) /\ ~Apt!Available(Apt!Package)

AptInv ==
    /\ AptTypeOK /\ ScriptRight /\ DoneRight /\ TriesRight
    /\ Apt!KeyFirst /\ Apt!OwnSeries /\ Apt!LockSurvived

\* The operators of AptFetch are the library's.
LEMMA AptFlatten == \A ss : Apt!FlattenSeq(ss) = FlattenSeq(ss)
  BY DEF Apt!FlattenSeq, FlattenSeq

LEMMA CommandsAre ==
  ASSUME NEW c \in AptCommands
  PROVE  /\ c.what \in {"key", "verify", "write", "repository", "install", "update"}
         /\ c.what = "key" => c.source \in Given /\ c = Key(c.source)
         /\ c.what = "verify" => c.source \in OfKind({"series-pocket"})
         /\ c.what = "write" => /\ c.source \in OfKind({"proposed"} \cup Apt!Pockets)
                                /\ c = Write(c.source)
         /\ c.what = "repository" => /\ c.source \in OfKind({"repository", "staging"})
                                     /\ c = Repository(c.source) /\ c.codes = {1}
         /\ c.what = "install" => /\ c = Install(Apt!Keyring) \/ c = Install(Apt!Package)
                                  /\ c.source \in {Apt!Keyring, Apt!Package}
                                  /\ c.codes = {1, 100}
         /\ c.what = "update" => c = Update /\ c.codes = {}
<1> DEFINE K == {"key", "verify", "write", "repository", "install", "update"}
<1> USE DEF Apt!Command
<1>1. ASSUME NEW s \in Given, c = Key(s)
      PROVE  c.what = "key" /\ c.source = s
  BY <1>1 DEF Key
<1>2. ASSUME NEW s, c = Apt!Command("verify", s, {})
      PROVE  c.what = "verify" /\ c.source = s
  BY <1>2
<1>3. ASSUME NEW s, c = Write(s)
      PROVE  c.what = "write" /\ c.source = s
  BY <1>3 DEF Write
<1>4. ASSUME NEW s, c = Repository(s)
      PROVE  c.what = "repository" /\ c.source = s /\ c.codes = {1}
  BY <1>4 DEF Repository
<1>5. ASSUME NEW p, c = Install(p)
      PROVE  c.what = "install" /\ c.source = p /\ c.codes = {1, 100}
  BY <1>5 DEF Install, Apt!AptCodes, Apt!APT_NO_LOCK
<1>6. ASSUME c = Update
      PROVE  c.what = "update" /\ c.codes = {}
  BY <1>6 DEF Update
<1> HIDE DEF Apt!Command
<1>7. \/ \E s \in Given : c = Key(s)
      \/ \E s \in OfKind({"series-pocket"}) : c = Apt!Command("verify", s, {})
      \/ \E s \in OfKind({"proposed"} \cup Apt!Pockets) : c = Write(s)
      \/ \E s \in OfKind({"repository", "staging"}) : c = Repository(s)
      \/ c = Install(Apt!Keyring) \/ c = Install(Apt!Package) \/ c = Update
  BY DEF AptCommands
<1> QED BY <1>1, <1>2, <1>3, <1>4, <1>5, <1>6, <1>7

LEMMA KeyedJoined ==
  /\ <<>> \in Keyed
  /\ \A s, t \in Keyed : s \o t \in Keyed
<1>1. <<>> \in Keyed
  BY DEF Keyed
<1>2. ASSUME NEW s \in Keyed, NEW t \in Keyed PROVE s \o t \in Keyed
  <2> DEFINE u == s \o t
  <2>1. s \in Seq(AptCommands) /\ t \in Seq(AptCommands)
    BY DEF Keyed
  <2>2. /\ u \in Seq(AptCommands)
        /\ Len(u) = Len(s) + Len(t)
        /\ \A i \in 1..Len(s) + Len(t) : u[i] = IF i <= Len(s) THEN s[i] ELSE t[i - Len(s)]
    BY <2>1, ConcatProperties
  <2>3. Len(s) \in Nat /\ Len(t) \in Nat
    BY <2>1, LenProperties
  <2> HIDE DEF u
  <2>4. ASSUME NEW i \in 1..Len(u), NEW k \in Given, u[i] \in {Write(k), Repository(k)}, k.key
        PROVE  k \in apt.keys \/ \E j \in 1..i - 1 : u[j] = Key(k)
    <3>1. CASE i <= Len(s)
      <4>1. i \in 1..Len(s) /\ u[i] = s[i]
        BY <2>2, <2>3, <3>1
      <4>2. k \in apt.keys \/ \E j \in 1..i - 1 : s[j] = Key(k)
        BY <2>4, <4>1 DEF Keyed
      <4>3. \A j \in 1..i - 1 : u[j] = s[j]
        BY <2>2, <2>3, <4>1
      <4> QED BY <4>2, <4>3
    <3>2. CASE i > Len(s)
      <4>1. i - Len(s) \in 1..Len(t) /\ u[i] = t[i - Len(s)]
        BY <2>2, <2>3, <3>2
      <4>2. k \in apt.keys \/ \E j \in 1..(i - Len(s)) - 1 : t[j] = Key(k)
        BY <2>4, <4>1 DEF Keyed
      <4>3. ASSUME NEW j \in 1..(i - Len(s)) - 1
            PROVE  j + Len(s) \in 1..i - 1 /\ u[j + Len(s)] = t[j]
        <5>1. i \in Nat /\ i <= Len(s) + Len(t)
          BY <2>2, <2>3
        <5>2. /\ j + Len(s) \in 1..i - 1 /\ j + Len(s) \in 1..Len(s) + Len(t)
              /\ j + Len(s) > Len(s) /\ (j + Len(s)) - Len(s) = j
          BY <2>3, <5>1
        <5> QED BY <2>2, <2>3, <5>2
      <4> QED BY <4>2, <4>3
    <3> QED BY <2>2, <2>3, <3>1, <3>2
  <2>5. u \in Keyed
    BY <2>2, <2>4 DEF Keyed
  <2> QED BY <2>5 DEF u
<1> QED BY <1>1, <1>2

\* What add_source does about one source.
Accounted(s, cs) ==
    /\ cs \in Keyed
    /\ s.kind = "proposed" => Occurs(Write(s), cs)
    /\ s.kind \in {"repository", "staging"} => Occurs(Repository(s), cs)
    /\ s.key => Occurs(Key(s), cs)
    /\ IF s.kind \in Apt!Pockets THEN LastOf(PocketWrites, Write(s), cs)
                                 ELSE Without(PocketWrites, cs)
    /\ Without({Install(Apt!Package)}, cs)

LEMMA CommandsDiffer ==
  ASSUME NEW s, NEW t, NEW p
  PROVE  /\ Key(s) # Write(t) /\ Key(s) # Repository(t) /\ Repository(s) # Write(t)
         /\ Write(s) # Install(p) /\ Key(s) # Install(p) /\ Repository(s) # Install(p)
         /\ Write(s) # Update /\ Repository(s) # Update /\ Install(p) # Update
         /\ Apt!Command("verify", s, {}) \notin {Write(t), Repository(t), Install(p)}
         /\ Repository(s) = Repository(t) => s = t
         /\ Write(s) = Write(t) => s = t
         /\ Key(s) = Key(t) => s = t
         /\ Install(s) = Install(p) => s = p
         /\ Install(Apt!Keyring) # Install(Apt!Package)
<1> USE DEF Apt!Command
<1>1. /\ Key(s).what = "key" /\ Key(s).source = s /\ Key(t).source = t
      /\ Write(t).what = "write" /\ Write(t).source = t /\ Write(s).what = "write"
      /\ Write(s).source = s
      /\ Repository(t).what = "repository" /\ Repository(t).source = t
      /\ Repository(s).what = "repository" /\ Repository(s).source = s
  BY DEF Key, Write, Repository
<1>2. /\ Install(p).what = "install" /\ Install(p).source = p /\ Install(s).source = s
      /\ Update.what = "update"
      /\ Install(Apt!Keyring).source = Apt!Keyring /\ Install(Apt!Package).source = Apt!Package
  BY DEF Install, Update
<1>3. Apt!Command("verify", s, {}).what = "verify" /\ Apt!Keyring # Apt!Package
  BY DEF Apt!Keyring, Apt!Package
<1> QED BY ONLY <1>1, <1>2, <1>3

LEMMA AddSource ==
  ASSUME NEW s \in Given, s \in Apt!Sample
  PROVE  Accounted(s, Apt!add_source(s))
<1>1. s.key => s.kind = "repository"
  BY DEF Apt!Sample
<1>2. s.kind \in {"distro", "proposed", "repository", "staging", "series-pocket", "pocket", "unknown"}
  BY DEF Apt!Sample, Apt!Sources, Apt!Kinds
<1> DEFINE verify == Apt!Command("verify", s, {})
           keyring == Install(Apt!Keyring)
<1>3. /\ Key(s) \in AptCommands
      /\ s.kind \in {"proposed"} \cup Apt!Pockets => Write(s) \in AptCommands
      /\ s.kind \in {"repository", "staging"} => Repository(s) \in AptCommands
      /\ s.kind = "series-pocket" => verify \in AptCommands
      /\ keyring \in AptCommands
  BY DEF AptCommands, OfKind
<1>4. /\ Write(s) \in PocketWrites <=> s.kind \in Apt!Pockets
      /\ Key(s) \notin PocketWrites /\ Repository(s) \notin PocketWrites
      /\ verify \notin PocketWrites /\ keyring \notin PocketWrites
  BY CommandsDiffer DEF PocketWrites, OfKind
<1>5. /\ Key(s) # Install(Apt!Package) /\ Repository(s) # Install(Apt!Package)
      /\ Write(s) # Install(Apt!Package) /\ keyring # Install(Apt!Package)
      /\ verify # Install(Apt!Package)
  BY CommandsDiffer
<1>6. \A t \in Given : /\ Key(s) \notin {Write(t), Repository(t)}
                       /\ keyring \notin {Write(t), Repository(t)}
                       /\ verify \notin {Write(t), Repository(t)}
                       /\ Write(s) \in {Write(t), Repository(t)} => t = s
                       /\ Repository(s) \in {Write(t), Repository(t)} => t = s
  BY CommandsDiffer
<1>7. Apt!Pockets = {"series-pocket", "pocket"}
  BY DEF Apt!Pockets
<1>8. CASE s.kind \in {"distro", "unknown"}
  <2>1. Apt!add_source(s) = <<>> \o <<>> /\ <<>> \o <<>> = <<>>
    BY <1>1, <1>8, ConcatEmptySeq DEF Apt!add_source
  <2>2. Without(PocketWrites, <<>>) /\ Without({Install(Apt!Package)}, <<>>)
    BY DEF Without
  <2> QED BY <1>1, <1>7, <1>8, <2>1, <2>2, KeyedJoined DEF Accounted
<1>9. CASE s.kind = "proposed"
  <2> DEFINE cs == <<Write(s)>>
  <2>1. Apt!add_source(s) = <<>> \o cs
    BY <1>1, <1>9 DEF Apt!add_source, Write
  <2>2. cs \in Seq(AptCommands) /\ Len(cs) = 1 /\ cs[1] = Write(s)
    BY <1>3, <1>9
  <2> HIDE DEF cs
  <2>3. Apt!add_source(s) = cs
    BY <2>1, <2>2, ConcatEmptySeq
  <2>4. cs \in Keyed
    <3> SUFFICES ASSUME NEW i \in 1..1, NEW t \in Given, cs[i] \in {Write(t), Repository(t)}, t.key
                 PROVE  FALSE
      BY <2>2 DEF Keyed
    <3>1. i \in 1..1 /\ cs[i] \in {Write(t), Repository(t)}
      OBVIOUS
    <3>2. t = s
      BY <1>6, <2>2, <3>1
    <3> QED BY <1>1, <1>9, <3>2
  <2>5. Occurs(Write(s), cs) /\ Without(PocketWrites, cs) /\ Without({Install(Apt!Package)}, cs)
    BY <1>4, <1>5, <1>7, <1>9, <2>2 DEF Occurs, Without
  <2> QED BY <1>1, <1>7, <1>9, <2>3, <2>4, <2>5 DEF Accounted
<1>10. CASE s.kind \in {"repository", "staging"} /\ ~s.key
  <2> DEFINE cs == <<Repository(s)>>
  <2>1. Apt!add_source(s) = <<>> \o cs
    BY <1>1, <1>10 DEF Apt!add_source, Repository
  <2>2. cs \in Seq(AptCommands) /\ Len(cs) = 1 /\ cs[1] = Repository(s)
    BY <1>3, <1>10
  <2> HIDE DEF cs
  <2>3. Apt!add_source(s) = cs
    BY <2>1, <2>2, ConcatEmptySeq
  <2>4. cs \in Keyed
    <3> SUFFICES ASSUME NEW i \in 1..1, NEW t \in Given, cs[i] \in {Write(t), Repository(t)}, t.key
                 PROVE  FALSE
      BY <2>2 DEF Keyed
    <3>1. i \in 1..1 /\ cs[i] \in {Write(t), Repository(t)}
      OBVIOUS
    <3>2. t = s
      BY <1>6, <2>2, <3>1
    <3> QED BY <1>10, <3>2
  <2>5. Occurs(Repository(s), cs) /\ Without(PocketWrites, cs)
        /\ Without({Install(Apt!Package)}, cs)
    BY <1>4, <1>5, <2>2 DEF Occurs, Without
  <2> QED BY <1>7, <1>10, <2>3, <2>4, <2>5 DEF Accounted
<1>11. CASE s.kind = "repository" /\ s.key
  <2> DEFINE cs == <<Key(s), Repository(s)>>
  <2>1. Apt!add_source(s) = <<Key(s)>> \o <<Repository(s)>>
    BY <1>11 DEF Apt!add_source, Repository, Key
  <2>2. cs \in Seq(AptCommands) /\ Len(cs) = 2 /\ cs[1] = Key(s) /\ cs[2] = Repository(s)
    BY <1>3, <1>11
  <2>3. Apt!add_source(s) = cs
    BY <2>1, BeforeOne, Zenon
  <2> HIDE DEF cs
  <2>4. cs \in Keyed
    <3> SUFFICES ASSUME NEW i \in 1..2, NEW t \in Given, cs[i] \in {Write(t), Repository(t)}
                 PROVE  \E j \in 1..i - 1 : cs[j] = Key(t)
      BY <2>2 DEF Keyed
    <3>1. i = 2 /\ t = s
      BY <1>6, <2>2
    <3> QED BY <2>2, <3>1
  <2>5. Occurs(Repository(s), cs) /\ Occurs(Key(s), cs) /\ Without(PocketWrites, cs)
        /\ Without({Install(Apt!Package)}, cs)
    BY <1>4, <1>5, <2>2 DEF Occurs, Without
  <2> QED BY <1>7, <1>11, <2>3, <2>4, <2>5 DEF Accounted
<1>12. CASE s.kind = "pocket"
  <2> DEFINE cs == <<keyring, Write(s)>>
  <2>1. Apt!add_source(s) = <<>> \o (<<>> \o cs)
    BY <1>1, <1>12 DEF Apt!add_source, Apt!Verify, Write, Install
  <2>2. cs \in Seq(AptCommands) /\ Len(cs) = 2 /\ cs[1] = keyring /\ cs[2] = Write(s)
    BY <1>3, <1>7, <1>12
  <2> HIDE DEF cs, keyring, verify
  <2>3. Apt!add_source(s) = cs
    BY <2>1, <2>2, ConcatEmptySeq
  <2>4. cs \in Keyed
    <3> SUFFICES ASSUME NEW i \in 1..2, NEW t \in Given, cs[i] \in {Write(t), Repository(t)}, t.key
                 PROVE  FALSE
      BY <2>2 DEF Keyed
    <3>1. i \in 1..2 /\ cs[i] \in {Write(t), Repository(t)}
      OBVIOUS
    <3>2. t = s
      BY <1>6, <2>2, <3>1
    <3> QED BY <1>1, <1>12, <3>2
  <2>5. LastOf(PocketWrites, Write(s), cs) /\ Without({Install(Apt!Package)}, cs)
    BY <1>5, <2>2 DEF LastOf, Without
  <2> QED BY <1>1, <1>7, <1>12, <2>3, <2>4, <2>5 DEF Accounted
<1>13. CASE s.kind = "series-pocket"
  <2> DEFINE cs == <<verify, keyring, Write(s)>>
  <2>1. Apt!add_source(s) = <<>> \o (<<verify>> \o <<keyring, Write(s)>>)
    BY <1>1, <1>13 DEF Apt!add_source, Apt!Verify, Write, Install
  <2>2. /\ cs \in Seq(AptCommands) /\ Len(cs) = 3
        /\ cs[1] = verify /\ cs[2] = keyring /\ cs[3] = Write(s)
    BY <1>3, <1>7, <1>13
  <2>3. <<verify>> \o <<keyring, Write(s)>> = cs
    BY BeforeTwo, Zenon
  <2> HIDE DEF cs, keyring, verify
  <2>4. Apt!add_source(s) = cs
    BY <2>1, <2>2, <2>3, ConcatEmptySeq
  <2>5. cs \in Keyed
    <3> SUFFICES ASSUME NEW i \in 1..3, NEW t \in Given, cs[i] \in {Write(t), Repository(t)}, t.key
                 PROVE  FALSE
      BY <2>2 DEF Keyed
    <3>1. i \in 1..3 /\ cs[i] \in {Write(t), Repository(t)}
      OBVIOUS
    <3>2. t = s
      BY <1>6, <2>2, <3>1
    <3> QED BY <1>1, <1>13, <3>2
  <2>6. LastOf(PocketWrites, Write(s), cs) /\ Without({Install(Apt!Package)}, cs)
    BY <1>5, <2>2 DEF LastOf, Without
  <2> QED BY <1>1, <1>7, <1>13, <2>4, <2>5, <2>6 DEF Accounted
<1> QED BY <1>1, <1>2, <1>8, <1>9, <1>10, <1>11, <1>12, <1>13

\* What the hook is to do from its beginning.
LEMMA WholeScript ==
  ASSUME wanted \in Seq(Apt!Sample)
  PROVE  LET cs == Apt!install_packages(wanted) IN
         /\ cs \in Keyed /\ cs \in Seq(AptCommands)
         /\ \A i \in 1..Len(cs) : cs[i] = Install(Apt!Package) => i = Len(cs)
         /\ \A s \in OfKind({"proposed"}) : Occurs(Write(s), cs)
         /\ \A s \in OfKind({"repository", "staging"}) : Occurs(Repository(s), cs)
         /\ \A s \in Given : s.key => Occurs(Key(s), cs)
         /\ \A i \in 1..Len(wanted) : IsLastPocket(i) => LastOf(PocketWrites, Write(wanted[i]), cs)
         /\ Occurs(Install(Apt!Package), cs)
<1> DEFINE n == Len(wanted)
           ss == [i \in DOMAIN wanted |-> Apt!add_source(wanted[i])]
           all == FlattenSeq(ss)
           rest == <<Update, Install(Apt!Package)>>
<1>1. n \in Nat /\ DOMAIN wanted = 1..n /\ \A i \in 1..n : wanted[i] \in Apt!Sample
  OBVIOUS
<1>2. \A i \in 1..n : wanted[i] \in Given
  BY DEF Given
<1>3. \A i \in 1..n : ss[i] = Apt!add_source(wanted[i])
  BY <1>1
<1>4. \A i \in 1..n : Accounted(wanted[i], ss[i])
  BY <1>1, <1>2, <1>3, AddSource, Zenon
<1>5. \A i \in 1..n : ss[i] \in Keyed /\ ss[i] \in Seq(AptCommands)
  BY <1>4 DEF Accounted, Keyed
<1>6. ss \in Seq(Seq(AptCommands)) /\ Len(ss) = n
  <2>1. ss \in [1..n -> Seq(AptCommands)]
    BY <1>1, <1>3, <1>5
  <2> HIDE DEF ss
  <2>2. ss \in Seq(Seq(AptCommands))
    BY <1>1, <2>1
  <2> QED BY <1>1, <2>1, <2>2, LenProperties
<1>7. Apt!install_packages(wanted) = all \o rest
  BY AptFlatten DEF Apt!install_packages, Apt!configure_sources, Apt!Ignored, Update, Install
<1> HIDE DEF ss, n
<1>8. all \in Keyed
  <2>1. Keyed \in SUBSET Seq(AptCommands)
    BY DEF Keyed
  <2> HIDE DEF all
  <2>2. \A k \in 1..Len(ss) : ss[k] \in Keyed
    BY <1>5, <1>6
  <2> QED BY ONLY <1>6, <2>1, <2>2, KeyedJoined, FlattenedIn DEF all
<1>9. /\ all \in Seq(AptCommands)
      /\ \A c : Occurs(c, all) <=> \E k \in 1..n : Occurs(c, ss[k])
      /\ \A B, c : \A k \in 1..n :
            /\ LastOf(B, c, ss[k])
            /\ \A j \in 1..n : j > k => Without(B, ss[j])
            => LastOf(B, c, all)
  BY <1>6, Flattened
<1> HIDE DEF all
<1>10. \A s \in Given : \E i \in 1..n : s = wanted[i]
  BY DEF Given, n
<1>11. /\ \A s \in OfKind({"proposed"}) : Occurs(Write(s), all)
       /\ \A s \in OfKind({"repository", "staging"}) : Occurs(Repository(s), all)
       /\ \A s \in Given : s.key => Occurs(Key(s), all)
  <2>1. ASSUME NEW s \in Given
        PROVE  /\ s.kind = "proposed" => Occurs(Write(s), all)
               /\ s.kind \in {"repository", "staging"} => Occurs(Repository(s), all)
               /\ s.key => Occurs(Key(s), all)
    <3>1. PICK i \in 1..n : s = wanted[i]
      BY <1>10
    <3>2. Accounted(s, ss[i])
      BY <1>4, <3>1
    <3> QED BY <1>9, <3>2, Zenon DEF Accounted
  <2> QED BY <2>1 DEF OfKind
<1>12. ASSUME NEW i \in 1..n, IsLastPocket(i) PROVE LastOf(PocketWrites, Write(wanted[i]), all)
  <2>1. LastOf(PocketWrites, Write(wanted[i]), ss[i])
    BY <1>4, <1>12 DEF Accounted, IsLastPocket
  <2>2. ASSUME NEW j \in 1..n, j > i PROVE Without(PocketWrites, ss[j])
    <3>1. j \in i + 1..Len(wanted)
      BY <1>1, <2>2 DEF n
    <3>2. wanted[j].kind \notin Apt!Pockets
      BY <1>12, <3>1 DEF IsLastPocket
    <3> QED BY <1>4, <3>2 DEF Accounted
  <2> QED BY <1>9, <2>1, <2>2
<1>13. Without({Install(Apt!Package)}, all)
  <2>1. \A k \in 1..n : ~Occurs(Install(Apt!Package), ss[k])
    BY <1>4 DEF Accounted, Without, Occurs
  <2>2. ~Occurs(Install(Apt!Package), all)
    BY <1>9, <2>1
  <2> QED BY <2>2 DEF Without, Occurs
<1>14. /\ rest \in Seq(AptCommands) /\ Len(rest) = 2
       /\ rest[1] = Update /\ rest[2] = Install(Apt!Package)
  BY DEF AptCommands
<1> HIDE DEF rest
<1>15. Update # Install(Apt!Package) /\ Update \notin PocketWrites /\ Install(Apt!Package) \notin PocketWrites
  BY CommandsDiffer DEF PocketWrites
<1>16. rest \in Keyed
  <2> SUFFICES ASSUME NEW i \in 1..2, NEW t \in Given, rest[i] \in {Write(t), Repository(t)}
               PROVE  FALSE
    BY <1>14 DEF Keyed
  <2>1. rest[i] = Update \/ rest[i] = Install(Apt!Package)
    BY <1>14
  <2> QED BY <2>1, CommandsDiffer
<1>17. Without(PocketWrites, rest) /\ Occurs(Install(Apt!Package), rest)
  BY <1>14, <1>15 DEF Without, Occurs
<1> DEFINE cs == all \o rest
<1>18. /\ \A c : Occurs(c, cs) <=> Occurs(c, all) \/ Occurs(c, rest)
       /\ \A B, c : LastOf(B, c, all) /\ Without(B, rest) => LastOf(B, c, cs)
       /\ cs \in Seq(AptCommands)
  BY <1>9, <1>14, Joined
<1>19. cs \in Keyed
  BY <1>8, <1>16, KeyedJoined
<1>20. \A i \in 1..Len(cs) : cs[i] = Install(Apt!Package) => i = Len(cs)
  <2>1. /\ Len(cs) = Len(all) + Len(rest)
        /\ \A i \in 1..Len(all) + Len(rest) :
              cs[i] = IF i <= Len(all) THEN all[i] ELSE rest[i - Len(all)]
    BY <1>9, <1>14, ConcatProperties
  <2>2. Len(all) \in Nat
    BY <1>9, LenProperties
  <2> HIDE DEF cs
  <2> SUFFICES ASSUME NEW i \in 1..Len(cs), cs[i] = Install(Apt!Package), i # Len(cs)
               PROVE  FALSE
    OBVIOUS
  <2>3. CASE i <= Len(all)
    <3>1. i \in 1..Len(all) /\ all[i] = Install(Apt!Package)
      BY <2>1, <2>2, <2>3
    <3> QED BY <1>13, <3>1 DEF Without
  <2>4. CASE i > Len(all)
    <3>1. i - Len(all) = 1 /\ cs[i] = rest[i - Len(all)]
      BY <1>14, <2>1, <2>2, <2>4
    <3> QED BY <1>14, <1>15, <3>1
  <2> QED BY <2>1, <2>2, <2>3, <2>4, <1>14
<1> HIDE DEF cs
<1>21. Apt!install_packages(wanted) = cs
  BY <1>7 DEF cs
<1>22. /\ \A s \in OfKind({"proposed"}) : Occurs(Write(s), cs)
       /\ \A s \in OfKind({"repository", "staging"}) : Occurs(Repository(s), cs)
       /\ \A s \in Given : s.key => Occurs(Key(s), cs)
       /\ Occurs(Install(Apt!Package), cs)
  BY <1>11, <1>17, <1>18, Zenon
<1>23. \A i \in 1..Len(wanted) : IsLastPocket(i) => LastOf(PocketWrites, Write(wanted[i]), cs)
  BY <1>12, <1>17, <1>18 DEF n
<1> QED BY <1>18, <1>19, <1>20, <1>21, <1>22, <1>23

LEMMA AptStart ==
  ASSUME Apt!Init
  PROVE  AptInv
<1> USE AptAssumption DEF Apt!CMD_RETRY_COUNT
<1>1. PICK n \in 0..MaxSources : wanted \in [1..n -> Apt!Sample]
  BY DEF Apt!Init
<1>2. wanted \in Seq(Apt!Sample)
  BY <1>1
<1>3. /\ apt = [sources |-> {}, keys |-> {}, index |-> {}, installed |-> {}]
      /\ commands = <<>> /\ tries = 0 /\ outcome = "none" /\ held = MaxHeld + 1 /\ troubles = 0
      /\ skipped = FALSE
  BY DEF Apt!Init, Apt!FreeSoFar
<1>4. commands \in Seq(AptCommands)
  BY <1>3
<1>5. apt \in [sources : SUBSET Given, keys : SUBSET Given, index : SUBSET Given,
                installed : SUBSET {Apt!Keyring, Apt!Package}]
  BY <1>3
<1>6. AptTypeOK
  <2>1. MaxHeld \in Nat /\ held \in 0..MaxHeld + 1 /\ tries \in Nat /\ troubles \in Nat
    BY <1>3
  <2>2. outcome \in {"none", "running", "failed", "done"} /\ skipped \in BOOLEAN
    BY <1>3
  <2> QED BY <1>2, <1>4, <1>5, <2>1, <2>2 DEF AptTypeOK
<1> QED BY <1>3, <1>6 DEF AptInv, ScriptRight, DoneRight, TriesRight, Apt!KeyFirst, Apt!OwnSeries,
     Apt!LockSurvived

\* The first command has gone, and has done its work if it had any.
LEMMA KeyedLater ==
  ASSUME AptTypeOK, commands \in Keyed, commands # <<>>, wanted' = wanted,
         apt.keys \subseteq apt'.keys,
         \A t \in Given : Head(commands) = Key(t) => t \in apt'.keys
  PROVE  Tail(commands) \in Keyed'
<1> DEFINE s == commands
           r == Tail(commands)
<1>1. /\ s \in Seq(AptCommands) /\ r \in Seq(AptCommands) /\ Head(s) = s[1]
      /\ Len(s) \in Nat /\ Len(r) = Len(s) - 1
      /\ \A i \in 1..Len(r) : r[i] = s[i + 1]
  BY AfterHead DEF AptTypeOK
<1>2. Given' = Given /\ AptCommands' = AptCommands
  BY DEF Given, AptCommands, OfKind
<1>3. \A i \in 1..Len(s), t \in Given : s[i] \in {Write(t), Repository(t)} /\ t.key =>
          t \in apt.keys \/ \E j \in 1..i - 1 : s[j] = Key(t)
  BY DEF Keyed
<1> HIDE DEF r, s
<1>4. ASSUME NEW i \in 1..Len(r), NEW t \in Given, r[i] \in {Write(t), Repository(t)}, t.key
      PROVE  t \in apt'.keys \/ \E j \in 1..i - 1 : r[j] = Key(t)
  <2>1. i + 1 \in 1..Len(s) /\ s[i + 1] = r[i]
    BY <1>1
  <2>2. CASE t \in apt.keys
    BY <2>2
  <2>3. CASE t \notin apt.keys
    <3>1. PICK j \in 1..(i + 1) - 1 : s[j] = Key(t)
      BY <1>3, <1>4, <2>1, <2>3
    <3>2. CASE j = 1
      BY <1>1, <3>1, <3>2 DEF s
    <3>3. CASE j # 1
      <4>1. j - 1 \in 1..i - 1 /\ j - 1 \in 1..Len(r) /\ (j - 1) + 1 = j
        BY <1>1, <3>1, <3>3
      <4> QED BY <1>1, <3>1, <4>1
    <3> QED BY <3>2, <3>3
  <2> QED BY <2>2, <2>3
<1>5. Keyed' = {q \in Seq(AptCommands) :
            \A i \in 1..Len(q) : \A t \in Given :
                q[i] \in {Write(t), Repository(t)} /\ t.key =>
                    t \in apt'.keys \/ \E j \in 1..i - 1 : q[j] = Key(t)}
  BY <1>2 DEF Keyed, Write, Repository, Key
<1> QED BY <1>1, <1>4, <1>5 DEF r

LEMMA CompleteLater ==
  ASSUME AptTypeOK, Complete, commands # <<>>, wanted' = wanted, commands' = Tail(commands),
         apt.keys \subseteq apt'.keys, apt.installed \subseteq apt'.installed,
         \A s \in Given : Head(commands) \in {Write(s), Repository(s)} => s \in apt'.sources,
         \A s \in Given : Head(commands) = Key(s) => s \in apt'.keys,
         Head(commands) = Install(Apt!Package) => Apt!Package \in apt'.installed,
         \A s \in apt.sources : s.kind \notin Apt!Pockets => s \in apt'.sources,
         Head(commands) \notin PocketWrites => apt.sources \subseteq apt'.sources
  PROVE  Complete'
<1> DEFINE s == commands
           r == Tail(commands)
<1>1. /\ \A x : Occurs(x, s) <=> x = Head(s) \/ Occurs(x, r)
      /\ \A B : Without(B, s) <=> Head(s) \notin B /\ Without(B, r)
      /\ \A B, x : LastOf(B, x, s) => LastOf(B, x, r) \/ (x = Head(s) /\ Without(B, r))
  BY AfterHead DEF AptTypeOK
<1> HIDE DEF r, s
<1>2. Given' = Given /\ PocketWrites' = PocketWrites /\ commands' = r
  BY DEF Given, PocketWrites, OfKind, r
<1>3. ASSUME NEW k \in Given
      PROVE  /\ k.kind = "proposed" => k \in apt'.sources \/ Occurs(Write(k), r)
             /\ k.kind \in {"repository", "staging"} =>
                  k \in apt'.sources \/ Occurs(Repository(k), r)
             /\ k.key => k \in apt'.keys \/ Occurs(Key(k), r)
  <2>1. /\ k.kind = "proposed" => k \in apt.sources \/ Occurs(Write(k), s)
        /\ k.kind \in {"repository", "staging"} => k \in apt.sources \/ Occurs(Repository(k), s)
        /\ k.key => k \in apt.keys \/ Occurs(Key(k), s)
    BY DEF Complete, OfKind, s
  <2>2. k.kind \in {"proposed", "repository", "staging"} => k.kind \notin Apt!Pockets
    BY DEF Apt!Pockets
  <2>3. /\ Occurs(Write(k), s) => Occurs(Write(k), r) \/ Head(s) = Write(k)
        /\ Occurs(Repository(k), s) => Occurs(Repository(k), r) \/ Head(s) = Repository(k)
        /\ Occurs(Key(k), s) => Occurs(Key(k), r) \/ Head(s) = Key(k)
    BY <1>1
  <2> QED BY <2>1, <2>2, <2>3 DEF s
<1>4. ASSUME NEW i \in 1..Len(wanted), IsLastPocket(i)
      PROVE  \/ LastOf(PocketWrites, Write(wanted[i]), r)
             \/ Without(PocketWrites, r) /\ wanted[i] \in apt'.sources
  <2>1. wanted[i] \in Given
    BY DEF Given
  <2>2. \/ LastOf(PocketWrites, Write(wanted[i]), s)
        \/ Without(PocketWrites, s) /\ wanted[i] \in apt.sources
    BY <1>4 DEF Complete, s
  <2>3. CASE LastOf(PocketWrites, Write(wanted[i]), s)
    <3>1. LastOf(PocketWrites, Write(wanted[i]), r)
          \/ (Write(wanted[i]) = Head(s) /\ Without(PocketWrites, r))
      BY <1>1, <2>3
    <3> QED BY <2>1, <3>1 DEF s
  <2>4. CASE Without(PocketWrites, s) /\ wanted[i] \in apt.sources
    BY <1>1, <2>4 DEF s
  <2> QED BY <2>2, <2>3, <2>4
<1>5. Apt!Package \in apt'.installed \/ Occurs(Install(Apt!Package), r)
  BY <1>1 DEF Complete, s
<1>6. Complete' <=>
    /\ \A k \in OfKind({"proposed"}) : k \in apt'.sources \/ Occurs(Write(k), r)
    /\ \A k \in OfKind({"repository", "staging"}) :
          k \in apt'.sources \/ Occurs(Repository(k), r)
    /\ \A k \in Given : k.key => k \in apt'.keys \/ Occurs(Key(k), r)
    /\ \A i \in 1..Len(wanted) : IsLastPocket(i) =>
          \/ LastOf(PocketWrites, Write(wanted[i]), r)
          \/ Without(PocketWrites, r) /\ wanted[i] \in apt'.sources
    /\ Apt!Package \in apt'.installed \/ Occurs(Install(Apt!Package), r)
  BY <1>2 DEF Complete, OfKind, IsLastPocket
<1> QED BY <1>3, <1>4, <1>5, <1>6 DEF OfKind

LEMMA AptBegins ==
  ASSUME AptInv, Apt!Begin
  PROVE  AptInv'
<1> DEFINE cs == Apt!install_packages(wanted)
<1>1. /\ outcome' = "running" /\ commands' = cs /\ tries' = 0 /\ skipped' = FALSE
      /\ wanted' = wanted /\ apt' = apt /\ held' = held /\ troubles' = troubles
  BY DEF Apt!Begin
<1>2. /\ cs \in Keyed /\ cs \in Seq(AptCommands)
      /\ \A i \in 1..Len(cs) : cs[i] = Install(Apt!Package) => i = Len(cs)
      /\ \A s \in OfKind({"proposed"}) : Occurs(Write(s), cs)
      /\ \A s \in OfKind({"repository", "staging"}) : Occurs(Repository(s), cs)
      /\ \A s \in Given : s.key => Occurs(Key(s), cs)
      /\ \A i \in 1..Len(wanted) : IsLastPocket(i) => LastOf(PocketWrites, Write(wanted[i]), cs)
      /\ Occurs(Install(Apt!Package), cs)
  BY WholeScript DEF AptInv, AptTypeOK
<1> HIDE DEF cs
<1>3. /\ Given' = Given /\ AptCommands' = AptCommands /\ Keyed' = Keyed
      /\ PocketWrites' = PocketWrites
  BY <1>1 DEF Given, AptCommands, Keyed, PocketWrites, OfKind
<1>4. AptTypeOK'
  <2>1. MaxHeld \in Nat /\ 0 \in Nat
    BY AptAssumption DEF Apt!CMD_RETRY_COUNT
  <2> QED BY <1>1, <1>2, <1>3, <2>1 DEF AptInv, AptTypeOK
<1>5. Complete'
  BY <1>1, <1>2, <1>3 DEF Complete, OfKind, IsLastPocket
<1>6. ScriptRight'
  BY <1>1, <1>2, <1>3, <1>5 DEF ScriptRight
<1>7. DoneRight'
  BY <1>1 DEF DoneRight
<1>8. TriesRight'
  <2>1. held' \in 0..MaxHeld + 1 /\ MaxHeld \in Nat
    BY <1>4, AptAssumption DEF AptTypeOK, Apt!CMD_RETRY_COUNT
  <2> QED BY <1>1, <2>1 DEF TriesRight
<1>9. Apt!KeyFirst' /\ Apt!OwnSeries' /\ Apt!LockSurvived'
  BY <1>1 DEF AptInv, Apt!KeyFirst, Apt!OwnSeries, Apt!LockSurvived
<1> QED BY <1>4, <1>5, <1>6, <1>7, <1>8, <1>9 DEF AptInv

\* Nothing happens to what the hook does, or it ends.
LEMMA AptStops ==
  ASSUME AptInv, UNCHANGED <<wanted, apt, commands, tries, skipped>>,
         held' \in 0..MaxHeld + 1, troubles' \in Nat, troubles' >= troubles,
         outcome' \in {outcome, "failed"} \/ (outcome = "running" /\ commands = <<>> /\ outcome' = "done"),
         outcome' = "running" => /\ troubles' = troubles
                                 /\ held' = held \/ (held = MaxHeld + 1 /\ held' = MaxHeld),
         outcome' = "failed" => \/ outcome = "failed"
                                \/ troubles' > 0
                                \/ \E i \in DOMAIN wanted : ~Apt!Accepted(wanted[i])
                                \/ apt.index # apt.sources
  PROVE  AptInv'
<1>1. /\ Given' = Given /\ AptCommands' = AptCommands /\ Keyed' = Keyed
      /\ PocketWrites' = PocketWrites
  BY DEF Given, AptCommands, Keyed, PocketWrites, OfKind
<1>2. Complete' <=> Complete
  BY <1>1 DEF Complete, OfKind, IsLastPocket
<1>3. AptTypeOK'
  BY <1>1 DEF AptInv, AptTypeOK
<1>4. MaxHeld \in Nat /\ troubles \in Nat /\ held \in 0..MaxHeld + 1 /\ tries \in Nat
  BY AptAssumption DEF AptInv, AptTypeOK, Apt!CMD_RETRY_COUNT
<1>5. ScriptRight'
  BY <1>1, <1>2, <1>4 DEF AptInv, ScriptRight
<1>6. DoneRight'
  BY <1>2 DEF AptInv, DoneRight, ScriptRight
<1>7. TriesRight'
  <2> SUFFICES ASSUME outcome' = "running", troubles' = 0
               PROVE  \/ tries <= IF held' = MaxHeld + 1 THEN 0 ELSE MaxHeld - held'
                      \/ /\ commands # <<>> /\ Head(commands) = Install(Apt!Package)
                         /\ ~Apt!Available(Apt!Package)
    BY DEF TriesRight, Apt!Available
  <2>1. \/ tries <= IF held = MaxHeld + 1 THEN 0 ELSE MaxHeld - held
        \/ /\ commands # <<>> /\ Head(commands) = Install(Apt!Package)
           /\ ~Apt!Available(Apt!Package)
    BY DEF AptInv, TriesRight
  <2>2. CASE held' = held
    BY <2>1, <2>2
  <2>3. CASE held = MaxHeld + 1 /\ held' = MaxHeld
    BY <1>4, <2>1, <2>3
  <2> QED BY <2>2, <2>3
<1>8. Apt!KeyFirst' /\ Apt!OwnSeries'
  BY DEF AptInv, Apt!KeyFirst, Apt!OwnSeries
<1>9. Apt!LockSurvived'
  BY <1>4 DEF AptInv, Apt!LockSurvived, Apt!Accepted
<1> QED BY <1>3, <1>5, <1>6, <1>7, <1>8, <1>9 DEF AptInv

\* The first command goes, without any effect but that of apt-get update.
LEMMA AptGoesOn ==
  ASSUME AptInv, outcome = "running", commands # <<>>, wanted' = wanted, outcome' = outcome,
         commands' = Tail(commands), tries' = 0, held' \in 0..MaxHeld + 1, troubles' \in Nat,
         skipped' \in BOOLEAN, skipped' => troubles' > 0, ~skipped' => ~skipped,
         apt' \in [sources : SUBSET Given, keys : SUBSET Given, index : SUBSET Given,
                   installed : SUBSET {Apt!Keyring, Apt!Package}],
         apt.keys \subseteq apt'.keys,
         \A t \in Given : Head(commands) = Key(t) => t \in apt'.keys,
         ~skipped' => Complete',
         Apt!KeyFirst', Apt!OwnSeries'
  PROVE  AptInv'
<1>1. /\ Given' = Given /\ AptCommands' = AptCommands
  BY DEF Given, AptCommands, OfKind
<1>2. /\ Tail(commands) \in Seq(AptCommands) /\ Len(commands) \in Nat
      /\ Len(Tail(commands)) = Len(commands) - 1
      /\ \A i \in 1..Len(Tail(commands)) : Tail(commands)[i] = commands[i + 1]
  BY AfterHead DEF AptInv, AptTypeOK
<1>3. AptTypeOK'
  BY <1>1, <1>2 DEF AptInv, AptTypeOK
<1>4. commands' \in Keyed'
  BY KeyedLater DEF AptInv, ScriptRight
<1>5. \A i \in 1..Len(commands') : commands'[i] = Install(Apt!Package) => i = Len(commands')
  <2> SUFFICES ASSUME NEW i \in 1..Len(commands'), commands'[i] = Install(Apt!Package)
               PROVE  i = Len(commands')
    OBVIOUS
  <2>1. i + 1 \in 1..Len(commands) /\ commands[i + 1] = Install(Apt!Package)
    BY <1>2
  <2>2. i + 1 = Len(commands)
    BY <2>1 DEF AptInv, ScriptRight
  <2>3. commands' = Tail(commands) /\ i \in 1..Len(commands')
    OBVIOUS
  <2>4. Len(commands') = Len(commands) - 1 /\ i \in Int
    BY <1>2, <2>3
  <2>5. Len(commands) \in Nat
    BY <1>2
  <2> QED BY ONLY <2>2, <2>4, <2>5
<1>6. ScriptRight'
  BY <1>4, <1>5 DEF ScriptRight, Install, Apt!Command
<1>7. DoneRight' /\ Apt!LockSurvived'
  BY DEF DoneRight, Apt!LockSurvived
<1>8. TriesRight'
  <2>1. \A m \in Nat : \A h \in 0..m + 1 : 0 <= IF h = m + 1 THEN 0 ELSE m - h
    OBVIOUS
  <2>2. tries' = 0 /\ held' \in 0..MaxHeld + 1 /\ MaxHeld \in Nat
    BY AptAssumption DEF Apt!CMD_RETRY_COUNT
  <2>3. tries' <= IF held' = MaxHeld + 1 THEN 0 ELSE MaxHeld - held'
    BY ONLY <2>1, <2>2, Zenon
  <2> QED BY <2>3 DEF TriesRight
<1> QED BY <1>3, <1>6, <1>7, <1>8 DEF AptInv

LEMMA AptSucceeds ==
  ASSUME AptInv, Apt!Succeed
  PROVE  AptInv'
<1> DEFINE c == Head(commands)
<1>1. /\ outcome = "running" /\ commands # <<>> /\ Apt!Possible(c) /\ apt' = Apt!Effect(c)
      /\ commands' = Tail(commands) /\ tries' = 0
      /\ wanted' = wanted /\ outcome' = outcome /\ held' = held /\ troubles' = troubles
      /\ skipped' = skipped
  BY DEF Apt!Succeed, Apt!Now
<1>2. /\ c \in AptCommands /\ c = commands[1] /\ Len(commands) >= 1
  BY <1>1, AfterHead, EmptySeq, LenProperties DEF AptInv, AptTypeOK
<1> HIDE DEF c
<1>3. /\ apt \in [sources : SUBSET Given, keys : SUBSET Given, index : SUBSET Given,
                  installed : SUBSET {Apt!Keyring, Apt!Package}]
      /\ skipped \in BOOLEAN /\ troubles \in Nat /\ held \in 0..MaxHeld + 1
  BY DEF AptInv, AptTypeOK
<1>4. /\ c.what \in {"key", "verify", "write", "repository", "install", "update"}
      /\ c.what = "key" => c.source \in Given /\ c = Key(c.source)
      /\ c.what = "write" => /\ c.source \in OfKind({"proposed"} \cup Apt!Pockets)
                             /\ c = Write(c.source)
      /\ c.what = "repository" => /\ c.source \in OfKind({"repository", "staging"})
                                  /\ c = Repository(c.source)
      /\ c.what = "install" => /\ c = Install(Apt!Keyring) \/ c = Install(Apt!Package)
                               /\ c.source \in {Apt!Keyring, Apt!Package}
  BY <1>2, CommandsAre
<1>5. /\ \A s : c = Key(s) => c.what = "key" /\ c.source = s
      /\ \A s : c = Write(s) => c.what = "write" /\ c.source = s
      /\ \A s : c = Repository(s) => c.what = "repository" /\ c.source = s
      /\ \A p : c = Install(p) => c.what = "install" /\ c.source = p
  BY DEF Key, Write, Repository, Install, Apt!Command
<1>6. \A s \in Given : c \in {Write(s), Repository(s)} /\ s.key => s \in apt.keys
  <2>1. 1 \in 1..Len(commands) /\ 1..1 - 1 = {}
    BY <1>2
  <2>2. commands \in Keyed
    BY <1>1 DEF AptInv, ScriptRight
  <2> QED BY <1>2, <2>1, <2>2 DEF Keyed
<1> DEFINE Sets == [sources : SUBSET Given, keys : SUBSET Given, index : SUBSET Given,
                  installed : SUBSET {Apt!Keyring, Apt!Package}]
           Does == /\ apt' \in Sets
                   /\ apt.keys \subseteq apt'.keys /\ apt.installed \subseteq apt'.installed
                   /\ \A s \in Given : c = Key(s) => s \in apt'.keys
                   /\ \A s \in Given : c \in {Write(s), Repository(s)} => s \in apt'.sources
                   /\ c = Install(Apt!Package) => Apt!Package \in apt'.installed
                   /\ \A s \in apt.sources : s.kind \notin Apt!Pockets => s \in apt'.sources
                   /\ c \notin PocketWrites => apt.sources \subseteq apt'.sources
                   /\ Apt!KeyFirst' /\ Apt!OwnSeries'
<1>7. Apt!KeyFirst /\ Apt!OwnSeries
  BY DEF AptInv
<1>9. Apt!KeyFirst' <=> \A s \in apt'.sources : s.key => s \in apt'.keys
  BY DEF Apt!KeyFirst
<1>10. Apt!OwnSeries' <=>
        /\ \A s \in apt'.sources : s.kind \in {"staging", "series-pocket"} => s.own
        /\ \A s, t \in apt'.sources : {s.kind, t.kind} \subseteq Apt!Pockets => s = t
  BY DEF Apt!OwnSeries
\* What the commands do.
<1>11. ASSUME c.what = "key" PROVE Does
  <2>1. apt' = [apt EXCEPT !.keys = @ \cup {c.source}] /\ c.source \in Given
    BY <1>1, <1>4, <1>11 DEF Apt!Effect
  <2>2. /\ apt'.sources = apt.sources /\ apt'.keys = apt.keys \cup {c.source}
        /\ apt'.installed = apt.installed /\ apt' \in Sets
    BY <1>3, <2>1
  <2>3. Apt!KeyFirst' /\ Apt!OwnSeries'
    BY <1>7, <1>9, <1>10, <2>2 DEF Apt!KeyFirst, Apt!OwnSeries
  <2> QED BY <1>5, <1>11, <2>2, <2>3
<1>12. ASSUME c.what = "repository" PROVE Does
  <2>1. /\ apt' = [apt EXCEPT !.sources = @ \cup {c.source}] /\ c = Repository(c.source)
        /\ c.source \in OfKind({"repository", "staging"}) /\ c.source \in Given
    BY <1>1, <1>4, <1>12 DEF Apt!Effect, OfKind
  <2>2. /\ apt'.sources = apt.sources \cup {c.source} /\ apt'.keys = apt.keys
        /\ apt'.installed = apt.installed /\ apt' \in Sets
    BY <1>3, <2>1
  <2>3. Apt!KeyFirst'
    BY <1>6, <1>7, <1>9, <2>1, <2>2 DEF Apt!KeyFirst
  <2>4. c.source.kind \in {"repository", "staging"} /\ (c.source.kind = "staging" => c.source.own)
    BY <1>1, <1>12, <2>1 DEF OfKind, Apt!Possible, Apt!Accepted
  <2>5. Apt!OwnSeries'
    BY <1>7, <1>10, <2>2, <2>4 DEF Apt!OwnSeries, Apt!Pockets
  <2> QED BY <1>5, <1>12, <2>1, <2>2, <2>3, <2>5
<1>13. ASSUME c.what = "write" PROVE Does
  <2> DEFINE left == {s \in apt.sources : c.source.kind = "proposed" \/ s.kind \notin Apt!Pockets}
  <2>1. /\ apt' = [apt EXCEPT !.sources = left \cup {c.source}] /\ c = Write(c.source)
        /\ c.source \in OfKind({"proposed"} \cup Apt!Pockets) /\ c.source \in Given
    BY <1>1, <1>4, <1>13 DEF Apt!Effect, OfKind
  <2>2. /\ apt'.sources = left \cup {c.source} /\ apt'.keys = apt.keys
        /\ apt'.installed = apt.installed /\ apt' \in Sets
    BY <1>3, <2>1
  <2>3. Apt!KeyFirst'
    BY <1>6, <1>7, <1>9, <2>1, <2>2 DEF Apt!KeyFirst
  <2>4. /\ c.source.kind \in {"proposed", "series-pocket", "pocket"}
        /\ c.source.kind = "series-pocket" => c.source.own
    BY <1>1, <1>13, <2>1 DEF OfKind, Apt!Possible, Apt!Accepted, Apt!Pockets
  <2>5. \A s \in apt'.sources : s.kind \in {"staging", "series-pocket"} => s.own
    BY <1>7, <2>2, <2>4 DEF Apt!OwnSeries
  <2>6. \A s, t \in apt'.sources : {s.kind, t.kind} \subseteq Apt!Pockets => s = t
    BY <1>7, <2>2, <2>4 DEF Apt!OwnSeries, Apt!Pockets
  <2>7. c \notin PocketWrites => apt.sources \subseteq apt'.sources
    BY <2>1, <2>2, <2>4 DEF PocketWrites, OfKind, Apt!Pockets
  <2> QED BY <1>5, <1>10, <1>13, <2>1, <2>2, <2>3, <2>5, <2>6, <2>7
<1>14. ASSUME c.what = "update" PROVE Does
  <2>1. apt' = [apt EXCEPT !.index = apt.sources]
    BY <1>1, <1>14 DEF Apt!Effect
  <2>2. /\ apt'.sources = apt.sources /\ apt'.keys = apt.keys
        /\ apt'.installed = apt.installed /\ apt' \in Sets
    BY <1>3, <2>1
  <2>3. Apt!KeyFirst' /\ Apt!OwnSeries'
    BY <1>7, <1>9, <1>10, <2>2 DEF Apt!KeyFirst, Apt!OwnSeries
  <2> QED BY <1>5, <1>14, <2>2, <2>3
<1>15. ASSUME c.what = "install" PROVE Does
  <2>1. apt' = [apt EXCEPT !.installed = @ \cup {c.source}]
    BY <1>1, <1>15 DEF Apt!Effect
  <2>2. /\ apt'.sources = apt.sources /\ apt'.keys = apt.keys
        /\ apt'.installed = apt.installed \cup {c.source} /\ apt' \in Sets
    BY <1>3, <1>4, <1>15, <2>1
  <2>3. Apt!KeyFirst' /\ Apt!OwnSeries'
    BY <1>7, <1>9, <1>10, <2>2 DEF Apt!KeyFirst, Apt!OwnSeries
  <2> QED BY <1>5, <1>15, <2>2, <2>3
<1>16. ASSUME c.what = "verify" PROVE Does
  <2>1. apt' = apt
    BY <1>1, <1>16 DEF Apt!Effect
  <2>2. Apt!KeyFirst' /\ Apt!OwnSeries'
    BY <1>7, <1>9, <1>10, <2>1 DEF Apt!KeyFirst, Apt!OwnSeries
  <2> QED BY <1>3, <1>5, <1>16, <2>1, <2>2
<1>17. Does
  BY <1>4, <1>11, <1>12, <1>13, <1>14, <1>15, <1>16
<1>18. ~skipped' => Complete'
  <2>1. ~skipped' => Complete
    BY <1>1 DEF AptInv, ScriptRight
  <2>2. AptTypeOK
    BY DEF AptInv
  <2> QED BY <1>1, <1>17, <2>1, <2>2, CompleteLater DEF c
<1>19. skipped' => troubles' > 0
  BY <1>1 DEF AptInv, ScriptRight
<1> QED BY <1>1, <1>3, <1>17, <1>18, <1>19, AptGoesOn DEF c

\* An attempt that fails: the command is tried again, is passed over, or was the last one.
LEMMA AptAttempts ==
  ASSUME AptInv, outcome = "running", commands # <<>>, NEW code, Apt!Attempt(code),
         Head(commands).what \in {"update", "install", "repository"},
         held' \in 0..MaxHeld + 1, troubles' \in Nat, troubles' >= troubles,
         code # 100 => troubles' > 0, code # 100 => code \in {1, 2},
         Head(commands).what = "repository" => code # 100,
         \/ troubles' > 0
         \/ held \in 1..MaxHeld /\ held' = held - 1
         \/ Head(commands) = Install(Apt!Package) /\ ~Apt!Available(Apt!Package) /\ held' = held
  PROVE  AptInv'
<1> DEFINE c == Head(commands)
<1>1. c \in AptCommands /\ c = commands[1] /\ Len(commands) \in Nat /\ Len(commands) >= 1
  BY AfterHead, EmptySeq, LenProperties DEF AptInv, AptTypeOK
<1>2. Apt!Fatal(c) <=> c.codes # {}
  BY DEF Apt!Fatal, Apt!Ignored
<1>3. /\ \/ /\ Apt!Fatal(c) /\ Apt!GivesUp /\ outcome' = "failed"
            /\ UNCHANGED <<commands, tries, skipped>>
         \/ /\ Apt!Fatal(c) /\ ~Apt!GivesUp /\ code \in c.codes
            /\ tries' = tries + 1 /\ UNCHANGED <<commands, outcome, skipped>>
         \/ /\ ~Apt!Fatal(c) \/ (~Apt!GivesUp /\ code \notin c.codes)
            /\ commands' = Tail(commands) /\ tries' = 0
            /\ skipped' = (skipped \/ Apt!Fatal(c)) /\ outcome' = outcome
      /\ wanted' = wanted /\ apt' = apt
  BY DEF Apt!Attempt, Apt!Now
<1> HIDE DEF c
<1>4. /\ c.what \in {"key", "verify", "write", "repository", "install", "update"}
      /\ c.what = "repository" => c = Repository(c.source) /\ c.codes = {1}
      /\ c.what = "install" => /\ c = Install(Apt!Keyring) \/ c = Install(Apt!Package)
                               /\ c.codes = {1, 100}
      /\ c.what = "update" => c = Update /\ c.codes = {}
  BY <1>1, CommandsAre
<1>5. /\ MaxHeld \in Nat /\ MaxHeld <= 3 /\ tries \in Nat /\ troubles \in Nat
      /\ skipped \in BOOLEAN /\ held \in 0..MaxHeld + 1
      /\ apt \in [sources : SUBSET Given, keys : SUBSET Given, index : SUBSET Given,
                  installed : SUBSET {Apt!Keyring, Apt!Package}]
  BY AptAssumption DEF AptInv, AptTypeOK, Apt!CMD_RETRY_COUNT
<1>6. Apt!GivesUp <=> tries + 1 > 3
  BY DEF Apt!GivesUp, Apt!CMD_RETRY_COUNT
<1>7. skipped => troubles' > 0
  BY <1>5 DEF AptInv, ScriptRight
\* Without troubles: how often it was tried, and what it is if it is tried too often.
<1>8. troubles' = 0 =>
        \/ tries <= IF held = MaxHeld + 1 THEN 0 ELSE MaxHeld - held
        \/ c = Install(Apt!Package) /\ ~Apt!Available(Apt!Package)
  BY <1>5 DEF AptInv, TriesRight, c
<1>9. ASSUME outcome' = "failed", UNCHANGED <<commands, tries, skipped>>, Apt!GivesUp
      PROVE  AptInv'
  <2>1. ASSUME troubles' = 0, apt.index = apt.sources
        PROVE  \E i \in DOMAIN wanted : ~Apt!Accepted(wanted[i])
    <3>1. c = Install(Apt!Package) /\ ~Apt!Available(Apt!Package)
      <4>1. CASE held \in 1..MaxHeld
        <5>1. held # MaxHeld + 1 /\ MaxHeld - held < 3
          BY <1>5, <4>1
        <5>2. ~(tries <= MaxHeld - held)
          BY <1>5, <1>6, <1>9, <4>1, <5>1
        <5> QED BY <1>8, <2>1, <5>1, <5>2
      <4>2. CASE held \notin 1..MaxHeld
        BY <2>1, <4>2 DEF c
      <4> QED BY <4>1, <4>2
    <3>2. ~skipped /\ Complete
      BY <1>5, <1>7, <2>1 DEF AptInv, ScriptRight
    <3>3. Len(commands) = 1
      <4>1. 1 \in 1..Len(commands) /\ commands[1] = Install(Apt!Package)
        BY <1>1, <3>1
      <4> QED BY <4>1 DEF AptInv, ScriptRight
    <3>4. \A x : Occurs(x, commands) => x = c
      BY <1>1, <3>3 DEF Occurs
    <3>5. PICK i \in DOMAIN wanted :
             /\ wanted[i].kind \notin {"distro", "unknown"} /\ wanted[i] \notin apt.sources
             /\ wanted[i].kind \in Apt!Pockets =>
                   \A j \in DOMAIN wanted : j > i => wanted[j].kind \notin Apt!Pockets
      BY <2>1, <3>1 DEF Apt!Available
    <3>6. /\ i \in 1..Len(wanted) /\ Len(wanted) \in Nat /\ DOMAIN wanted = 1..Len(wanted)
          /\ wanted[i] \in Apt!Sample /\ wanted[i] \in Given
      BY LenProperties DEF AptInv, AptTypeOK, Given
    <3>7. CASE wanted[i].kind \in Apt!Pockets
      <4>1. IsLastPocket(i)
        BY <3>5, <3>6, <3>7 DEF IsLastPocket
      <4>2. Occurs(Write(wanted[i]), commands)
        BY <3>2, <3>5, <3>6, <4>1 DEF Complete, LastOf, Occurs
      <4> QED BY <3>1, <3>4, <4>2, CommandsDiffer
    <3>8. CASE wanted[i].kind \notin Apt!Pockets
      <4>1. wanted[i].kind \in {"proposed", "repository", "staging"}
        BY <3>5, <3>6, <3>8 DEF Apt!Sample, Apt!Sources, Apt!Kinds, Apt!Pockets
      <4>2. Occurs(Write(wanted[i]), commands) \/ Occurs(Repository(wanted[i]), commands)
        BY <3>2, <3>5, <3>6, <4>1 DEF Complete, OfKind
      <4> QED BY <3>1, <3>4, <4>2, CommandsDiffer
    <3> QED BY <3>7, <3>8
  <2>2. \/ troubles' > 0 \/ apt.index # apt.sources
        \/ \E i \in DOMAIN wanted : ~Apt!Accepted(wanted[i])
    BY <1>5, <2>1
  <2> QED BY <1>3, <1>9, <2>2, AptStops
<1>10. ASSUME tries' = tries + 1, UNCHANGED <<commands, outcome, skipped>>
       PROVE  AptInv'
  <2>1. /\ Given' = Given /\ AptCommands' = AptCommands /\ Keyed' = Keyed
        /\ PocketWrites' = PocketWrites
    BY <1>3 DEF Given, AptCommands, Keyed, PocketWrites, OfKind
  <2>2. Complete' <=> Complete
    BY <1>3, <1>10, <2>1 DEF Complete, OfKind, IsLastPocket
  <2>3. AptTypeOK'
    BY <1>3, <1>5, <1>10, <2>1 DEF AptInv, AptTypeOK
  <2>4. ScriptRight'
    BY <1>3, <1>7, <1>10, <2>1, <2>2 DEF AptInv, ScriptRight
  <2>5. TriesRight'
    <3> SUFFICES ASSUME troubles' = 0
                 PROVE  \/ tries + 1 <= IF held' = MaxHeld + 1 THEN 0 ELSE MaxHeld - held'
                        \/ c = Install(Apt!Package) /\ ~Apt!Available(Apt!Package)
      BY <1>3, <1>10 DEF TriesRight, Apt!Available, c
    <3>1. CASE held \in 1..MaxHeld /\ held' = held - 1
      <4>1. held # MaxHeld + 1 /\ held' # MaxHeld + 1 /\ MaxHeld - held' = (MaxHeld - held) + 1
        BY <1>5, <3>1
      <4>2. tries <= MaxHeld - held => tries + 1 <= MaxHeld - held'
        BY <1>5, <3>1, <4>1
      <4> QED BY <1>8, <4>1, <4>2
    <3>2. CASE c = Install(Apt!Package) /\ ~Apt!Available(Apt!Package)
      BY <3>2
    <3> QED BY <3>1, <3>2 DEF c
  <2>6. DoneRight' /\ Apt!LockSurvived' /\ Apt!KeyFirst' /\ Apt!OwnSeries'
    BY <1>3, <1>10 DEF AptInv, DoneRight, Apt!LockSurvived, Apt!KeyFirst, Apt!OwnSeries
  <2> QED BY <2>3, <2>4, <2>5, <2>6 DEF AptInv
<1>11. ASSUME commands' = Tail(commands), tries' = 0, outcome' = outcome,
              skipped' = (skipped \/ Apt!Fatal(c)),
              ~Apt!Fatal(c) \/ code \notin c.codes
       PROVE  AptInv'
  <2>1. Apt!Fatal(c) => troubles' > 0
    BY <1>2, <1>4, <1>11 DEF c
  <2>2. /\ skipped' \in BOOLEAN /\ (skipped' => troubles' > 0) /\ (~skipped' => ~skipped)
        /\ ~skipped' => c = Update
    BY <1>2, <1>4, <1>5, <1>7, <1>11, <2>1 DEF c
  <2>3. Apt!KeyFirst' /\ Apt!OwnSeries'
    BY <1>3 DEF AptInv, Apt!KeyFirst, Apt!OwnSeries
  <2>4. \A t : c # Key(t)
    <3>1. \A t : Key(t).what = "key"
      BY DEF Key, Apt!Command
    <3>2. c.what # "key"
      BY DEF c
    <3> QED BY <3>1, <3>2
  <2>5. ~skipped' => Complete'
    <3> SUFFICES ASSUME ~skipped' PROVE Complete'
      OBVIOUS
    <3>1. c = Update /\ Complete /\ AptTypeOK
      BY <2>2 DEF AptInv, ScriptRight
    <3>2. \A s : c \notin {Write(s), Repository(s)} /\ c # Install(s)
      BY <3>1, CommandsDiffer
    <3> QED BY <1>3, <1>11, <2>4, <3>1, <3>2, CompleteLater DEF c
  <2> QED BY <1>3, <1>5, <1>11, <2>2, <2>3, <2>4, <2>5, AptGoesOn DEF c
<1> QED BY <1>3, <1>9, <1>10, <1>11

LEMMA AptInductive ==
  ASSUME AptInv, [Apt!Next]_(Apt!apt_vars)
  PROVE  AptInv'
<1>1. /\ MaxHeld \in Nat /\ troubles \in Nat /\ held \in 0..MaxHeld + 1
      /\ outcome \in {"none", "running", "failed", "done"}
  BY AptAssumption DEF AptInv, AptTypeOK, Apt!CMD_RETRY_COUNT
<1>2. outcome = "failed" => \/ troubles > 0
                            \/ \E i \in DOMAIN wanted : ~Apt!Accepted(wanted[i])
                            \/ apt.index # apt.sources
  BY DEF AptInv, Apt!LockSurvived
<1>3. CASE UNCHANGED Apt!apt_vars
  BY <1>1, <1>2, <1>3, AptStops DEF Apt!apt_vars
<1>4. CASE Apt!Begin
  BY <1>4, AptBegins
<1>5. CASE Apt!TakeLock
  BY <1>1, <1>2, <1>5, AptStops DEF Apt!TakeLock, Apt!FreeSoFar
<1>6. CASE Apt!Succeed
  BY <1>6, AptSucceeds
<1>7. CASE Apt!Refuse
  <2> DEFINE c == Head(commands)
  <2>1. /\ outcome = "running" /\ commands # <<>> /\ ~Apt!Possible(c) /\ outcome' = "failed"
        /\ c.what \in {"repository", "write", "verify"}
        /\ UNCHANGED <<wanted, apt, commands, tries, held, troubles, skipped>>
    BY <1>7 DEF Apt!Refuse, Apt!Now
  <2>2. c \in AptCommands
    BY <2>1, AfterHead DEF AptInv, AptTypeOK
  <2> HIDE DEF c
  <2>3. c.source \in Given
    BY <2>1, <2>2, CommandsAre DEF OfKind
  <2>4. ~Apt!Accepted(c.source)
    <3>1. CASE c.what \in {"repository", "write"}
      BY <2>1, <3>1 DEF Apt!Possible
    <3>2. CASE c.what = "verify"
      <4>1. c.source \in Apt!Sample /\ c.source.kind = "series-pocket"
        BY <2>2, <3>2, CommandsAre DEF OfKind, Given, AptInv, AptTypeOK
      <4>2. ~Apt!Accepted([c.source EXCEPT !.valid = TRUE])
        BY <2>1, <3>2 DEF Apt!Possible
      <4>3. ~c.source.own
        BY <4>1, <4>2 DEF Apt!Accepted, Apt!Sample, Apt!Sources
      <4> QED BY <4>1, <4>3 DEF Apt!Accepted
    <3> QED BY <2>1, <3>1, <3>2
  <2>5. \E i \in DOMAIN wanted : ~Apt!Accepted(wanted[i])
    <3>1. PICK i \in 1..Len(wanted) : wanted[i] = c.source
      BY <2>3 DEF Given
    <3>2. DOMAIN wanted = 1..Len(wanted)
      BY LenProperties DEF AptInv, AptTypeOK
    <3> QED BY <2>4, <3>1, <3>2
  <2> QED BY <1>1, <2>1, <2>5, AptStops
<1>8. CASE Apt!Locked
  BY <1>1, <1>8, AptAttempts DEF Apt!Locked, Apt!Locks, Apt!Now, Apt!IsHeld, Apt!APT_NO_LOCK
<1>9. CASE Apt!Unavailable
  <2>1. /\ outcome = "running" /\ commands # <<>> /\ ~Apt!Possible(Head(commands))
        /\ Head(commands).what \in {"update", "install"}
        /\ Apt!Attempt(100) /\ UNCHANGED <<held, troubles>>
    BY <1>9 DEF Apt!Unavailable, Apt!Locks, Apt!Now, Apt!APT_NO_LOCK
  <2>2. Head(commands) \in AptCommands
    BY <2>1, AfterHead DEF AptInv, AptTypeOK
  <2>3. Head(commands).what = "install" /\ ~Apt!Available(Head(commands).source)
    BY <2>1 DEF Apt!Possible
  <2>4. Head(commands).source # Apt!Keyring
    BY <2>3 DEF Apt!Available
  <2>5. Head(commands) = Install(Apt!Package) /\ Head(commands).source = Apt!Package
    <3>1. Head(commands) = Install(Apt!Keyring) \/ Head(commands) = Install(Apt!Package)
      BY <2>2, <2>3, CommandsAre
    <3>2. \A p : Install(p).source = p
      BY DEF Install, Apt!Command
    <3> QED BY <2>4, <3>1, <3>2
  <2> QED BY <1>1, <2>1, <2>3, <2>5, AptAttempts
<1>10. CASE Apt!CommandFails
  <2>1. PICK code \in {1, 2} : Apt!Attempt(code)
    BY <1>10 DEF Apt!CommandFails
  <2>2. /\ outcome = "running" /\ commands # <<>> /\ troubles' = troubles + 1 /\ held' = held
        /\ Head(commands).what \in {"update", "install", "repository"}
    BY <1>10 DEF Apt!CommandFails, Apt!Now
  <2> QED BY <1>1, <2>1, <2>2, AptAttempts
<1>11. CASE Apt!HookFails
  <2>1. troubles' \in Nat /\ troubles' > 0 /\ troubles' >= troubles
    BY <1>1, <1>11 DEF Apt!HookFails
  <2> QED BY <1>1, <1>11, <2>1, AptStops DEF Apt!HookFails
<1>12. CASE Apt!Finish
  BY <1>1, <1>12, AptStops DEF Apt!Finish
<1> QED
  BY <1>3, <1>4, <1>5, <1>6, <1>7, <1>8, <1>9, <1>10, <1>11, <1>12 DEF Apt!Next

LEMMA AptSourcesRight == ASSUME AptInv PROVE Apt!SourcesRight
<1>1. Apt!DoneIsDone
  <2> SUFFICES ASSUME outcome = "done", ~skipped
               PROVE  /\ Apt!Package \in apt.installed
                      /\ \A i \in DOMAIN wanted :
                            /\ wanted[i].kind \in {"proposed", "repository", "staging"} =>
                                  wanted[i] \in apt.sources
                            /\ wanted[i].key => wanted[i] \in apt.keys
    BY DEF Apt!DoneIsDone
  <2>1. Complete /\ \A x : ~Occurs(x, commands)
    BY DEF AptInv, DoneRight, Occurs
  <2>2. \A i \in DOMAIN wanted : wanted[i] \in Given
    BY LenProperties DEF AptInv, AptTypeOK, Given
  <2> QED BY <2>1, <2>2 DEF Complete, OfKind
<1> QED BY <1>1 DEF AptInv, Apt!SourcesRight

\* For any sources, any number of failures and hooks that are killed, and a lock that is
\* held no longer than the attempts last: apt has no source without its key or of another
\* series, a hook that got to its end has installed what it was to install, and a held
\* lock alone fails none.  (add_source, configure_sources, _run_with_retries)
THEOREM SourcesAreRight == AllSpec => []SourcesRight
<1> DEFINE I == part = "apt" => AptInv
<1>1. AllInit => I
  BY AptStart DEF AllInit
<1>2. I /\ [AllNext]_all_vars => I'
  BY Parts, AptInductive
<1>3. I => SourcesRight
  BY AptSourcesRight DEF SourcesRight
<1> HIDE DEF I
<1> QED BY <1>1, <1>2, <1>3, PTL DEF AllSpec
-----------------------------------------------------------------------------
\* Cleanup: the action leaves nothing of the agents behind, never a patch that a later
\* run could not remove, and takes nothing from agents that run.

Stages == {"none", "patches", "controllers", "netns", "unlink", "ipset"}

\* Nothing the agents have set up is missing.
Whole ==
    /\ tun = TRUE /\ netns = TRUE /\ ipsets = TRUE
    /\ ends = Ends /\ controllers = Bridges

\* The patches of br-int and of br-tun are removed, and br-tun.
CutOff ==
    /\ ~tun
    /\ \A e \in ends : INT_BRIDGE # e[1] /\ TUN_BRIDGE \notin {e[1], e[2]}

\* What is gone at each step of the action, and what the loop still has to do.
CleanupInv ==
    /\ pc \in Stages
    /\ paused \in BOOLEAN
    /\ ends \subseteq Ends
    /\ half \subseteq {INT_BRIDGE} \X Peers
    /\ half \cap ends = {}
    /\ pc # "patches" => half = {}
    /\ ~paused => pc = "none" /\ Whole
    /\ done => pc = "none" /\ CutOff /\ ~netns /\ ~ipsets /\ ~filters /\ controllers = {}
    /\ pc = "patches" => /\ todo \subseteq {INT_BRIDGE} \X Peers
                         /\ \A e \in ends : e[1] = INT_BRIDGE => e \in todo
    /\ pc \in {"controllers", "netns", "unlink", "ipset"} => CutOff
    /\ pc = "controllers" => controllers \subseteq todo
    /\ pc \in {"netns", "unlink", "ipset"} => controllers = {}
    /\ pc \in {"unlink", "ipset"} => ~netns
    /\ pc = "ipset" => ~filters
    /\ PeersThere

LEMMA EndsAreThePairs ==
  ASSUME NEW e \in Ends
  PROVE  /\ e = <<e[1], e[2]>>
         /\ e[1] = INT_BRIDGE \/ e[2] = INT_BRIDGE
         /\ <<e[2], e[1]>> \in Ends
         /\ e[1] = INT_BRIDGE => e \in {INT_BRIDGE} \X Peers
  BY DEF Ends, Peers

LEMMA CleanupInitial == Init => CleanupInv
<1> SUFFICES ASSUME Init PROVE CleanupInv
  OBVIOUS
<1>1. PeersThere
  BY EndsAreThePairs DEF Init, PeersThere
<1> QED
  BY <1>1 DEF Init, CleanupInv, Stages, Whole, CutOff

LEMMA CleanupInductive ==
  ASSUME CleanupInv, [Next]_vars
  PROVE  CleanupInv'
<1> USE DEF CleanupInv, Stages
<1>1. CASE Pause
  BY <1>1 DEF Pause, host, Whole, CutOff, PeersThere
<1>2. CASE Resume
  <2>1. PeersThere'
    BY <1>2, EndsAreThePairs DEF Resume, AgentsRun, PeersThere
  <2> QED
    BY <1>2, <2>1 DEF Resume, AgentsRun, Whole, CutOff
<1>3. CASE CleanupAction
  BY <1>3, EndsAreThePairs DEF CleanupAction, host, Whole, CutOff, PeersThere
<1>4. ASSUME NEW e \in Ends, RemoveThisEnd(e) PROVE CleanupInv'
  <2>1. PeersThere'
    BY <1>4, EndsAreThePairs DEF RemoveThisEnd, PeersThere
  <2> QED
    BY <1>4, <2>1, EndsAreThePairs DEF RemoveThisEnd, CutOff, Whole
<1>5. ASSUME NEW e \in Ends, RemoveOtherEnd(e) PROVE CleanupInv'
  <2>1. PeersThere'
    BY <1>5, EndsAreThePairs DEF RemoveOtherEnd, PeersThere
  <2> QED
    BY <1>5, <2>1, EndsAreThePairs DEF RemoveOtherEnd, CutOff, Whole
<1>6. CASE DeleteTunnelBridge
  <2>1. \A e \in ends : e[1] # INT_BRIDGE
    BY <1>6 DEF DeleteTunnelBridge
  <2>2. PeersThere' /\ CutOff'
    BY <1>6, <2>1, EndsAreThePairs DEF DeleteTunnelBridge, PeersThere, CutOff, INT_BRIDGE, TUN_BRIDGE
  <2> QED
    BY <1>6, <2>2 DEF DeleteTunnelBridge
<1>7. ASSUME NEW b \in Bridges, RemoveController(b) PROVE CleanupInv'
  BY <1>7 DEF RemoveController, CutOff, PeersThere
<1>8. CASE WriteFilters
  BY <1>8 DEF WriteFilters, host, CutOff, PeersThere
<1>9. CASE NetnsCleanup
  BY <1>9 DEF NetnsCleanup, CutOff, PeersThere
<1>10. CASE UnlinkFilters
  BY <1>10 DEF UnlinkFilters, host, CutOff, PeersThere
<1>11. CASE IpsetCleanup
  BY <1>11 DEF IpsetCleanup, CutOff, PeersThere
<1>12. CASE EndHalfWay
  BY <1>12 DEF EndHalfWay, host, CutOff, PeersThere
<1>13. CASE UNCHANGED vars
  BY <1>13 DEF vars, host, Whole, CutOff, PeersThere
<1> QED
  BY <1>1, <1>2, <1>3, <1>4, <1>5, <1>6, <1>7, <1>8, <1>9, <1>10, <1>11, <1>12, <1>13 DEF Next

LEMMA CleanupInvHolds == Spec => []CleanupInv
  BY CleanupInitial, CleanupInductive, PTL DEF Spec

\* After an action that ran through nothing of the agents is left, and whatever ended
\* half way, no patch on br-int has lost its peer.  (cleanup, remove_patch_ports)
THEOREM CleanupIsRight == Spec => []CleanupRight
<1>1. CleanupInv => CleanupRight
  BY DEF CleanupInv, CleanupRight, CleanedUp, CutOff
<1> QED
  BY <1>1, CleanupInvHolds, PTL

LEMMA TakesWhilePaused ==
  ASSUME CleanupInv, Next, host' # host, ends' \subseteq ends
  PROVE  paused
<1> SUFFICES ASSUME ~paused PROVE FALSE
  BY DEF CleanupInv
<1>1. pc = "none" /\ Whole
  BY DEF CleanupInv
<1>2. CASE Resume
  BY <1>1, <1>2 DEF Resume, AgentsRun, Whole, host
<1> QED
  BY <1>1, <1>2 DEF Next, Pause, CleanupAction, RemoveThisEnd, RemoveOtherEnd,
     DeleteTunnelBridge, RemoveController, WriteFilters, NetnsCleanup, UnlinkFilters,
     IpsetCleanup, EndHalfWay, host

\* A step that takes something from the host is one of a paused unit, or it is the
\* agents' own, which only add.  (UnitNotPaused)
THEOREM NothingTakenFromAgents == Spec => OnlyWhilePaused
<1>1. CleanupInv /\ [Next]_vars => [host' # host /\ ends' \subseteq ends => paused]_vars
  BY TakesWhilePaused DEF vars
<1> QED
  BY <1>1, CleanupInvHolds, PTL DEF Spec, OnlyWhilePaused

-----------------------------------------------------------------------------
\* OvsOptions: two facts about a script of commands carry the proof.  After every set
\* command a restart follows, and what a hook has not set yet is still in its script.

Contents == ColumnValues \cup {"true", "30000"}
Commands == {SetTo(c, v) : c \in Columns, v \in Contents} \cup {RestartIfChanged, Done}

\* After every set of the script there is a restart.
Followed(s) ==
    \A i \in 1..Len(s) : s[i].cmd = "set" => \E j \in i..Len(s) : s[j].cmd = "restart"

Dpdk(c) == {SetTo("dpdk-lcore-mask", c.cores), SetTo("dpdk-socket-mem", c.memory),
            SetTo("dpdk-init", "true"), SetTo("dpdk-extra", c.whitelist)}
Offload == {SetTo("hw-offload", "true"), SetTo("max-idle", "30000")}

\* The columns that install_packages() sets under the config c.
Wanted(c) == (IF c.dpdk THEN Dpdk(c) ELSE {}) \cup (IF c.offload THEN Offload ELSE {})

Holds(c) == \A w \in Wanted(c) : db[w.column] = w.value

\* What the config asks for is set or going to be, and nothing else is going to be.
InHand ==
    /\ \A w \in Wanted(conf) : db[w.column] = w.value \/ \E i \in 1..Len(script) : script[i] = w
    /\ \A i \in 1..Len(script) : script[i].cmd = "set" => script[i] \in Wanted(conf)

OptionsTypeOK ==
    /\ conf \in Config
    /\ unit_paused \in BOOLEAN
    /\ due \subseteq Hooks
    /\ hook \in Hooks \cup {"none"}
    /\ script \in Seq(Commands)
    /\ changed \in BOOLEAN
    /\ db \in [Columns -> Contents \cup {NeverSet}]
    /\ deferred \in BOOLEAN
    /\ lost \in BOOLEAN

OptionsInv ==
    /\ OptionsTypeOK
    /\ hook = "none" => script = <<>>
    /\ Followed(script)
    /\ changed => \E j \in 1..Len(script) : script[j].cmd = "restart"
    /\ lost \/ changed \/ used = db
    /\ hook = "none" => "config-changed" \in due \/ deferred \/ Holds(conf)
    /\ script # <<>> => \/ "config-changed" \in due
                        \/ hook = "config-changed" /\ unit_paused
                        \/ InHand

-----------------------------------------------------------------------------
\* The sets of a script are those of W, each followed by a restart.
Carries(s, W) ==
    /\ s \in Seq(Commands)
    /\ Followed(s)
    /\ \A w \in W : \E i \in 1..Len(s) : s[i] = w
    /\ \A i \in 1..Len(s) : s[i].cmd = "set" => s[i] \in W

LEMMA CarriesConcat ==
  ASSUME NEW s, NEW V, Carries(s, V), NEW t, NEW W, Carries(t, W)
  PROVE  Carries(s \o t, V \cup W)
<1> DEFINE u == s \o t
<1>1. /\ u \in Seq(Commands)
      /\ Len(u) = Len(s) + Len(t)
      /\ \A i \in 1..Len(s) + Len(t) : u[i] = IF i <= Len(s) THEN s[i] ELSE t[i - Len(s)]
  BY ConcatProperties DEF Carries
<1>2. Len(s) \in Nat /\ Len(t) \in Nat
  BY DEF Carries
<1> HIDE DEF u
<1>3. \A i \in 1..Len(s) : i \in 1..Len(u) /\ u[i] = s[i]
  BY <1>1, <1>2
<1>4. \A i \in 1..Len(t) : Len(s) + i \in 1..Len(u) /\ u[Len(s) + i] = t[i]
  <2> TAKE i \in 1..Len(t)
  <2>1. Len(s) + i \in 1..Len(s) + Len(t) /\ ~(Len(s) + i <= Len(s)) /\ (Len(s) + i) - Len(s) = i
    BY <1>2
  <2> QED
    BY <1>1, <2>1
<1>5. \A i \in 1..Len(u) : i \in 1..Len(s) \/ \E j \in 1..Len(t) : i = Len(s) + j
  <2> SUFFICES ASSUME NEW i \in 1..Len(u), i \notin 1..Len(s)
               PROVE  \E j \in 1..Len(t) : i = Len(s) + j
    OBVIOUS
  <2>1. i - Len(s) \in 1..Len(t) /\ i = Len(s) + (i - Len(s))
    BY <1>1, <1>2
  <2> QED
    BY <2>1
<1>6. Followed(u)
  <2> SUFFICES ASSUME NEW i \in 1..Len(u), u[i].cmd = "set"
               PROVE  \E j \in i..Len(u) : u[j].cmd = "restart"
    BY DEF Followed
  <2>1. CASE i \in 1..Len(s)
    <3>1. PICK j \in i..Len(s) : s[j].cmd = "restart"
      BY <1>3, <2>1 DEF Carries, Followed
    <3>2. j \in 1..Len(s) /\ j \in i..Len(u)
      BY <1>1, <1>2, <2>1
    <3> QED
      BY <1>3, <3>1, <3>2
  <2>2. ASSUME NEW k \in 1..Len(t), i = Len(s) + k
        PROVE  \E j \in i..Len(u) : u[j].cmd = "restart"
    <3>1. PICK j \in k..Len(t) : t[j].cmd = "restart"
      BY <1>4, <2>2 DEF Carries, Followed
    <3>2. j \in 1..Len(t) /\ Len(s) + j \in i..Len(u)
      BY <1>1, <1>2, <2>2
    <3> QED
      BY <1>4, <3>1, <3>2
  <2> QED
    BY <1>5, <2>1, <2>2
<1>7. \A w \in V \cup W : \E i \in 1..Len(u) : u[i] = w
  BY <1>3, <1>4 DEF Carries
<1>8. \A i \in 1..Len(u) : u[i].cmd = "set" => u[i] \in V \cup W
  <2> SUFFICES ASSUME NEW i \in 1..Len(u), u[i].cmd = "set"
               PROVE  u[i] \in V \cup W
    OBVIOUS
  <2>1. CASE i \in 1..Len(s)
    BY <1>3, <2>1 DEF Carries
  <2>2. ASSUME NEW k \in 1..Len(t), i = Len(s) + k
        PROVE  u[i] \in V \cup W
    BY <1>4, <2>2 DEF Carries
  <2> QED
    BY <1>5, <2>1, <2>2
<1> QED
  BY <1>1, <1>6, <1>7, <1>8 DEF Carries, u

LEMMA CommandsOfScripts ==
  /\ \A c \in Columns, v \in Contents : SetTo(c, v) \in Commands
  /\ RestartIfChanged \in Commands /\ Done \in Commands
  BY DEF Commands

LEMMA DpdkScript ==
  ASSUME NEW c \in Config
  PROVE  Carries(enable_ovs_dpdk(c), Dpdk(c))
<1> DEFINE s == enable_ovs_dpdk(c)
<1>1. /\ SetTo("dpdk-lcore-mask", c.cores) \in Commands
      /\ SetTo("dpdk-socket-mem", c.memory) \in Commands
      /\ SetTo("dpdk-init", "true") \in Commands
      /\ SetTo("dpdk-extra", c.whitelist) \in Commands
  BY CommandsOfScripts DEF Columns, Contents, Config
<1>2. s \in Seq(Commands) /\ Len(s) = 5
  BY <1>1, CommandsOfScripts DEF enable_ovs_dpdk
<1>3. /\ s[1] = SetTo("dpdk-lcore-mask", c.cores) /\ s[2] = SetTo("dpdk-socket-mem", c.memory)
      /\ s[3] = SetTo("dpdk-init", "true") /\ s[4] = SetTo("dpdk-extra", c.whitelist)
      /\ s[5] = RestartIfChanged
  BY DEF enable_ovs_dpdk
<1>4. s[5].cmd = "restart"
  BY <1>3 DEF RestartIfChanged
<1> HIDE DEF s
<1>5. Followed(s)
  BY <1>2, <1>4 DEF Followed
<1>6. \A w \in Dpdk(c) : \E i \in 1..Len(s) : s[i] = w
  BY <1>2, <1>3 DEF Dpdk
<1>7. \A i \in 1..Len(s) : s[i].cmd = "set" => s[i] \in Dpdk(c)
  BY <1>2, <1>3, <1>4 DEF Dpdk
<1> QED
  BY <1>2, <1>5, <1>6, <1>7 DEF s, Carries

LEMMA OffloadScript == Carries(enable_hw_offload, Offload)
<1> DEFINE s == enable_hw_offload
<1>1. SetTo("hw-offload", "true") \in Commands /\ SetTo("max-idle", "30000") \in Commands
  BY CommandsOfScripts DEF Columns, Contents
<1>2. s \in Seq(Commands) /\ Len(s) = 3
  BY <1>1, CommandsOfScripts DEF enable_hw_offload
<1>3. /\ s[1] = SetTo("hw-offload", "true") /\ s[2] = SetTo("max-idle", "30000")
      /\ s[3] = RestartIfChanged
  BY DEF enable_hw_offload
<1>4. s[3].cmd = "restart"
  BY <1>3 DEF RestartIfChanged
<1> HIDE DEF s
<1>5. Followed(s)
  BY <1>2, <1>4 DEF Followed
<1>6. \A w \in Offload : \E i \in 1..Len(s) : s[i] = w
  BY <1>2, <1>3 DEF Offload
<1>7. \A i \in 1..Len(s) : s[i].cmd = "set" => s[i] \in Offload
  BY <1>2, <1>3, <1>4 DEF Offload
<1> QED
  BY <1>2, <1>5, <1>6, <1>7 DEF s, Carries

LEMMA NothingToSet == Carries(<<>>, {}) /\ Carries(<<Done>>, {})
<1>1. Carries(<<>>, {})
  BY DEF Carries, Followed
<1>2. <<Done>> \in Seq(Commands) /\ Len(<<Done>>) = 1 /\ <<Done>>[1].cmd = "done"
  BY CommandsOfScripts DEF Done
<1>3. Carries(<<Done>>, {})
  BY <1>2 DEF Carries, Followed
<1> QED
  BY <1>1, <1>3

LEMMA PackagesScript ==
  ASSUME NEW c \in Config
  PROVE  Carries(install_packages(c), Wanted(c))
<1> DEFINE a == IF c.dpdk THEN enable_ovs_dpdk(c) ELSE <<>>
           b == IF c.offload THEN enable_hw_offload ELSE <<>>
           V == IF c.dpdk THEN Dpdk(c) ELSE {}
           W == IF c.offload THEN Offload ELSE {}
<1>1. Carries(a, V) /\ Carries(b, W)
  BY DpdkScript, OffloadScript, NothingToSet
<1> HIDE DEF a, b, V, W
<1>2. Carries(a \o b, V \cup W)
  BY <1>1, CarriesConcat
<1>3. V \cup W = Wanted(c) /\ a \o b = install_packages(c)
  BY DEF V, W, Wanted, a, b, install_packages
<1> QED
  BY <1>2, <1>3

\* A hook that goes through install_packages() sets what the config asks for.
LEMMA HookScript ==
  ASSUME NEW c \in Config
  PROVE  Carries(install_packages(c) \o <<Done>>, Wanted(c))
<1>1. Carries(install_packages(c) \o <<Done>>, Wanted(c) \cup {})
  BY PackagesScript, NothingToSet, CarriesConcat
<1>2. Wanted(c) \cup {} = Wanted(c)
  OBVIOUS
<1> QED
  BY <1>1, <1>2

-----------------------------------------------------------------------------
LEMMA OptionsInitial == OptionsInit => OptionsInv
<1> SUFFICES ASSUME OptionsInit PROVE OptionsInv
  OBVIOUS
<1>1. OptionsTypeOK
  <2>1. conf \in Config
    BY DEF OptionsInit
  <2>2. <<>> \in Seq(Commands)
    BY EmptySeq
  <2> QED
    BY <2>1, <2>2 DEF OptionsInit, OptionsTypeOK
<1>2. Holds(conf)
  BY DEF OptionsInit, Holds, Wanted
<1> QED
  BY <1>1, <1>2 DEF OptionsInit, OptionsInv, Followed

\* A script after its first command.
LEMMA TailScript ==
  ASSUME NEW s \in Seq(Commands), s # <<>>
  PROVE  /\ Tail(s) \in Seq(Commands) /\ Len(Tail(s)) = Len(s) - 1 /\ Len(s) \in Nat \ {0}
         /\ Head(s) = s[1] /\ Head(s) \in Commands
         /\ \A i \in 1..Len(Tail(s)) : Tail(s)[i] = s[i + 1]
         /\ \A i \in 1..Len(s) : i # 1 => i - 1 \in 1..Len(Tail(s)) /\ s[i] = Tail(s)[i - 1]
<1>1. Tail(s) \in Seq(Commands) /\ Len(Tail(s)) = Len(s) - 1 /\ Len(s) \in Nat \ {0}
  BY EmptySeq
<1>2. Head(s) = s[1] /\ Head(s) \in Commands
  BY <1>1
<1>3. \A i \in 1..Len(Tail(s)) : Tail(s)[i] = s[i + 1]
  BY <1>1
<1>4. ASSUME NEW i \in 1..Len(s), i # 1
      PROVE  i - 1 \in 1..Len(Tail(s)) /\ s[i] = Tail(s)[i - 1]
  <2>1. i - 1 \in 1..Len(Tail(s)) /\ (i - 1) + 1 = i
    BY <1>1, <1>4
  <2> QED
    BY <1>3, <2>1
<1> QED
  BY <1>1, <1>2, <1>3, <1>4

LEMMA TailFollowed ==
  ASSUME NEW s \in Seq(Commands), s # <<>>, Followed(s)
  PROVE  Followed(Tail(s))
<1> SUFFICES ASSUME NEW i \in 1..Len(Tail(s)), Tail(s)[i].cmd = "set"
             PROVE  \E j \in i..Len(Tail(s)) : Tail(s)[j].cmd = "restart"
  BY DEF Followed
<1>1. i + 1 \in 1..Len(s) /\ s[i + 1].cmd = "set"
  BY TailScript
<1>2. PICK j \in i + 1..Len(s) : s[j].cmd = "restart"
  BY <1>1 DEF Followed
<1>3. j \in 1..Len(s) /\ j # 1 /\ j - 1 \in i..Len(Tail(s))
  BY <1>2, TailScript
<1> QED
  BY <1>2, <1>3, TailScript

LEMMA ColumnsOfCommands ==
  /\ \A c \in Commands : c.cmd = "set" => c.column \in Columns /\ c.value \in Contents
  /\ \A c \in Config : \A v, w \in Wanted(c) : v.column = w.column => v = w
  /\ \A c \in Config : \A w \in Wanted(c) : w.cmd = "set" /\ w.column \in Columns
<1>1. \A c \in Commands : c.cmd = "set" => c.column \in Columns /\ c.value \in Contents
  BY DEF Commands, SetTo, RestartIfChanged, Done
<1>2. ASSUME NEW c \in Config, NEW v \in Wanted(c), NEW w \in Wanted(c), v.column = w.column
      PROVE  v = w
  BY <1>2 DEF Wanted, Dpdk, Offload, SetTo
<1>3. ASSUME NEW c \in Config, NEW w \in Wanted(c)
      PROVE  w.cmd = "set" /\ w.column \in Columns
  BY <1>3 DEF Wanted, Dpdk, Offload, SetTo, Columns
<1> QED
  BY <1>1, <1>2, <1>3

\* A command that is not the set of a column leaves the rest of the script in hand.
LEMMA TailInHand ==
  ASSUME OptionsInv, InHand, script # <<>>, script' = Tail(script), UNCHANGED conf,
         \/ Head(script).cmd # "set" /\ UNCHANGED db
         \/ Head(script).cmd = "set"
             /\ db' = [db EXCEPT ![Head(script).column] = Head(script).value]
  PROVE  InHand'
<1>1. script \in Seq(Commands) /\ conf \in Config /\ db \in [Columns -> Contents \cup {NeverSet}]
  BY DEF OptionsInv, OptionsTypeOK
<1>2. ASSUME NEW w \in Wanted(conf)
      PROVE  db'[w.column] = w.value \/ \E i \in 1..Len(script') : script'[i] = w
  <2>1. CASE Head(script) = w
    <3>1. w \in Commands /\ w.cmd = "set"
      BY <1>1, <2>1, ColumnsOfCommands, TailScript
    <3>2. w.column \in Columns
      BY <3>1, ColumnsOfCommands
    <3> QED
      BY <1>1, <2>1, <3>1, <3>2
  <2>2. CASE Head(script) # w /\ db[w.column] = w.value
    <3>1. CASE Head(script).cmd = "set"
      <4>1. Head(script) \in Wanted(conf)
        BY <1>1, <3>1, TailScript DEF InHand
      <4>2. Head(script).column # w.column
        BY <1>1, <2>2, <4>1, ColumnsOfCommands
      <4> QED
        BY <1>1, <2>2, <3>1, <4>2, ColumnsOfCommands
    <3>2. CASE Head(script).cmd # "set"
      BY <2>2, <3>2
    <3> QED
      BY <3>1, <3>2
  <2>3. CASE Head(script) # w /\ \E i \in 1..Len(script) : script[i] = w
    <3>1. PICK i \in 1..Len(script) : script[i] = w
      BY <2>3
    <3>2. i # 1
      BY <1>1, <2>3, <3>1, TailScript
    <3> QED
      BY <1>1, <3>1, <3>2, TailScript
  <2> QED
    BY <2>1, <2>2, <2>3 DEF InHand
<1>3. ASSUME NEW i \in 1..Len(script'), script'[i].cmd = "set"
      PROVE  script'[i] \in Wanted(conf)
  <2>1. script'[i] = script[i + 1] /\ i + 1 \in 1..Len(script)
    BY <1>1, TailScript
  <2> QED
    BY <1>3, <2>1 DEF InHand
<1> QED
  BY <1>2, <1>3 DEF InHand
-----------------------------------------------------------------------------
LEMMA OptionsType ==
  ASSUME OptionsInv, [OptionsNext]_options_vars
  PROVE  OptionsTypeOK'
<1> USE DEF OptionsInv, OptionsTypeOK
<1>1. CASE ChangeConfig
  <2>1. conf' \in Config
    <3>1. ASSUME NEW v \in ColumnValues,
                 conf' \in {[conf EXCEPT ![o] = v] : o \in {"cores", "memory", "whitelist"}}
          PROVE  conf' \in Config
      BY <3>1 DEF Config
    <3>2. CASE conf' \in {[conf EXCEPT ![o] = ~conf[o]] : o \in {"dpdk", "offload"}}
      BY <3>2 DEF Config
    <3> QED
      BY <1>1, <3>1, <3>2 DEF ChangeConfig
  <2> QED
    BY <1>1, <2>1 DEF ChangeConfig, Hooks
<1>2. CASE ChangeRelation
  BY <1>2 DEF ChangeRelation, Hooks
<1>3. ASSUME NEW h \in Hooks, Begin(h) PROVE OptionsTypeOK'
  <2>1. install_packages(conf) \o <<Done>> \in Seq(Commands) /\ <<Done>> \in Seq(Commands)
    BY HookScript, NothingToSet DEF Carries
  <2> QED
    BY <1>3, <2>1 DEF Begin
<1>4. CASE PauseOrResume
  BY <1>4 DEF PauseOrResume
<1>5. CASE SetColumn
  <2>1. Head(script).column \in Columns /\ Head(script).value \in Contents
    BY <1>5, TailScript, ColumnsOfCommands DEF SetColumn
  <2> QED
    BY <1>5, <2>1, TailScript DEF SetColumn
<1>6. CASE RestartForColumns
  BY <1>6, TailScript DEF RestartForColumns
<1>7. CASE Finish
  BY <1>7, EmptySeq DEF Finish
<1>8. CASE OptionsKill
  BY <1>8, EmptySeq DEF OptionsKill
<1>9. CASE OvsStarts
  BY <1>9 DEF OvsStarts
<1>10. CASE UNCHANGED options_vars
  BY <1>10 DEF options_vars
<1> QED
  BY <1>1, <1>2, <1>3, <1>4, <1>5, <1>6, <1>7, <1>8, <1>9, <1>10 DEF OptionsNext

LEMMA BeginOptions ==
  ASSUME OptionsInv, NEW h \in Hooks, Begin(h)
  PROVE  OptionsInv'
<1>1. Carries(install_packages(conf) \o <<Done>>, Wanted(conf))
  BY HookScript DEF OptionsInv, OptionsTypeOK
<1>2. script' # <<>> /\ Followed(script')
  BY <1>1, NothingToSet DEF Begin, Carries
<1>3. ~(h = "config-changed" /\ unit_paused) => InHand'
  BY <1>1 DEF Begin, Carries, InHand
<1>4. OptionsTypeOK'
  BY OptionsType DEF OptionsNext
<1>5. hook' # "none"
  BY DEF Begin, Hooks
<1>6. lost' \/ changed' \/ used' = db'
  BY DEF Begin, OptionsInv
<1> QED
  BY <1>2, <1>3, <1>4, <1>5, <1>6 DEF OptionsInv, Begin

LEMMA ScriptOptions ==
  ASSUME OptionsInv, SetColumn \/ RestartForColumns
  PROVE  OptionsInv'
<1>1. OptionsTypeOK'
  BY OptionsType DEF OptionsNext
<1>2. Followed(script') /\ hook' # "none"
  BY TailFollowed DEF SetColumn, RestartForColumns, OptionsInv, OptionsTypeOK
<1>3. script' # <<>> => \/ "config-changed" \in due'
                        \/ hook' = "config-changed" /\ unit_paused'
                        \/ InHand'
  <2>1. /\ script # <<>> /\ script' = Tail(script)
        /\ UNCHANGED <<conf, due, hook, unit_paused>>
        /\ \/ Head(script).cmd # "set" /\ UNCHANGED db
           \/ Head(script).cmd = "set"
               /\ db' = [db EXCEPT ![Head(script).column] = Head(script).value]
    BY DEF SetColumn, RestartForColumns
  <2>2. InHand => InHand'
    BY <2>1, TailInHand
  <2> QED
    BY <2>1, <2>2 DEF OptionsInv
<1>4. changed' => \E j \in 1..Len(script') : script'[j].cmd = "restart"
  <2>1. CASE SetColumn
    <3>1. script \in Seq(Commands) /\ script # <<>> /\ script' = Tail(script)
      BY <2>1 DEF SetColumn, OptionsInv, OptionsTypeOK
    <3>2. 1 \in 1..Len(script) /\ script[1].cmd = "set"
      BY <2>1, <3>1, TailScript DEF SetColumn
    <3>3. PICK j \in 1..Len(script) : script[j].cmd = "restart"
      BY <3>2 DEF OptionsInv, Followed
    <3>4. j # 1
      BY <3>2, <3>3
    <3> QED
      BY <3>1, <3>3, <3>4, TailScript
  <2>2. CASE RestartForColumns
    BY <2>2 DEF RestartForColumns
  <2> QED
    BY <2>1, <2>2
<1>5. lost' \/ changed' \/ used' = db'
  <2>1. lost \/ changed \/ used = db
    BY DEF OptionsInv
  <2>2. CASE SetColumn
    <3>1. lost' = lost /\ used' = used
      BY <2>2 DEF SetColumn
    <3>2. changed \/ db' # db => changed'
      BY <2>2 DEF SetColumn
    <3> QED
      BY <2>1, <3>1, <3>2
  <2>3. CASE RestartForColumns
    BY <2>1, <2>3 DEF RestartForColumns, OptionsInv, OptionsTypeOK
  <2> QED
    BY <2>2, <2>3
<1> QED
  BY <1>1, <1>2, <1>3, <1>4, <1>5 DEF OptionsInv

LEMMA FinishOptions ==
  ASSUME OptionsInv, Finish
  PROVE  OptionsInv'
<1>1. OptionsTypeOK' /\ conf \in Config
  BY OptionsType DEF OptionsNext, OptionsInv, OptionsTypeOK
<1>2. Len(script) = 1 /\ script[1].cmd = "done" /\ script' = <<>>
  BY DEF Finish, Done
<1>3. ~changed
  BY <1>2 DEF OptionsInv
<1>4. InHand => Holds(conf)
  BY <1>1, <1>2, ColumnsOfCommands DEF InHand, Holds
<1>5. "config-changed" \in due' \/ deferred' \/ Holds(conf)'
  BY <1>2, <1>4 DEF Finish, OptionsInv, Holds
<1>6. lost' \/ changed' \/ used' = db'
  BY <1>3 DEF Finish, OptionsInv
<1>7. Followed(script')
  BY <1>2 DEF Followed
<1> QED
  BY <1>1, <1>2, <1>3, <1>5, <1>6, <1>7 DEF OptionsInv, Finish

LEMMA OptionsInductive ==
  ASSUME OptionsInv, [OptionsNext]_options_vars
  PROVE  OptionsInv'
<1>1. OptionsTypeOK'
  BY OptionsType
<1>2. CASE ChangeConfig
  BY <1>1, <1>2 DEF ChangeConfig, OptionsInv
<1>3. CASE ChangeRelation
  BY <1>1, <1>3 DEF ChangeRelation, OptionsInv, Holds, InHand
<1>4. CASE PauseOrResume
  BY <1>1, <1>4 DEF PauseOrResume, OptionsInv, Holds
<1>5. CASE OptionsKill
  BY <1>1, <1>5 DEF OptionsKill, OptionsInv, Followed
<1>6. CASE OvsStarts
  BY <1>1, <1>6 DEF OvsStarts, OptionsInv, Holds, InHand
<1>7. CASE UNCHANGED options_vars
  BY <1>1, <1>7 DEF options_vars, OptionsInv, Holds, InHand
<1> QED
  BY <1>2, <1>3, <1>4, <1>5, <1>6, <1>7, BeginOptions, ScriptOptions, FinishOptions DEF OptionsNext

LEMMA InvGivesOptions == OptionsInv => OptionsRight
<1> SUFFICES ASSUME OptionsInv PROVE OptionsRight
  OBVIOUS
<1>1. ColumnsUsed
  BY DEF OptionsInv, ColumnsUsed
<1>2. ColumnsSet
  <2> SUFFICES ASSUME Settled, ~deferred, NEW i \in DOMAIN install_packages(conf),
                      install_packages(conf)[i].cmd = "set"
               PROVE  db[install_packages(conf)[i].column] = install_packages(conf)[i].value
    BY DEF ColumnsSet
  <2>1. Holds(conf) /\ conf \in Config
    BY DEF Settled, OptionsInv, OptionsTypeOK
  <2>2. install_packages(conf)[i] \in Wanted(conf)
    BY <2>1, PackagesScript DEF Carries
  <2> QED
    BY <2>1, <2>2 DEF Holds
<1> QED
  BY <1>1, <1>2 DEF OptionsRight

\* When nothing is queued, running or put off, Open vSwitch has the columns of the config,
\* and ovs-vswitchd uses them unless a restart was lost, after any number of changes and
\* killed hooks.  (enable_ovs_dpdk, enable_hw_offload)
THEOREM OptionsAreRight == OptionsSpec => []OptionsRight
  BY OptionsInitial, OptionsInductive, InvGivesOptions, PTL DEF OptionsSpec

-----------------------------------------------------------------------------
\* KvStore keeps the promise of UnitStore: every statement only changes what the
\* connection sees, and what is stored changes all at once.

\* The connection and the file are databases, whose table kv has a row or none for
\* every key.  (The types of the history are of no concern here.)
Shaped(d) ==
    /\ d = [kv |-> d.kv, revs |-> d.revs, hooks |-> d.hooks, loose |-> d.loose]
    /\ d.kv \in [Keys -> Values \cup {Absent}]

KvInv == Shaped(disk) /\ Shaped(conn)

\* One step of what UnitStore allows.
Allowed == [Abstract!Next]_<<disk.kv, conn.kv>>

LEMMA KvInitial == StoreInit => KvInv /\ Abstract!Init
  BY DEF StoreInit, KvInv, Shaped, Abstract!Init

LEMMA SetAllowed ==
  ASSUME KvInv, NEW k \in Keys, NEW v \in Values, Set(k, v)
  PROVE  KvInv' /\ Allowed
<1>1. Shaped(conn') /\ disk' = disk
  BY DEF Set, KvInv, Shaped
<1> QED
  BY <1>1 DEF KvInv, Shaped, Allowed, Abstract!Next, Abstract!Write, Abstract!Contents

LEMMA RollBackAllowed ==
  ASSUME KvInv, RollBack, UNCHANGED disk
  PROVE  KvInv' /\ Allowed
<1>1. CASE revision = 0
  BY <1>1 DEF RollBack, KvInv, Shaped, Allowed
<1>2. CASE revision # 0
  BY <1>2 DEF RollBack, KvInv, Shaped, Allowed, Abstract!Next, Abstract!Abandon
<1> QED
  BY <1>1, <1>2

LEMMA DeleteAllowed ==
  ASSUME KvInv, NEW gone, NEW rows, NEW exact, Delete(gone, rows, exact)
  PROVE  KvInv' /\ Allowed
<1>1. CASE RollBack
  BY <1>1, RollBackAllowed DEF Delete
<1>2. CASE ~RollBack
  <2>1. disk' = disk
    BY DEF Delete
  <2> DEFINE there == {k \in gone : conn.kv[k] # Absent}
             noted == IF revision # 0 /\ there # {} THEN rows \X {revision} ELSE {}
             table == [k \in Keys |-> IF k \in gone THEN Absent ELSE conn.kv[k]]
             records == Record(conn.revs, noted, Deleted)
             keys == IF revision # 0 /\ exact THEN conn.loose \ there
                     ELSE conn.loose \cup there
  <2>2. conn' = [conn EXCEPT !.kv = table, !.revs = records, !.loose = keys]
    BY <1>2 DEF Delete
  <2>3. table \in [Keys -> Values \cup {Absent}]
    BY DEF KvInv, Shaped
  <2> HIDE DEF table, records, keys
  <2>4. Shaped(conn')
    BY <2>2, <2>3 DEF KvInv, Shaped
  <2> QED
    BY <2>1, <2>4 DEF KvInv, Shaped, Allowed, Abstract!Next, Abstract!Write, Abstract!Contents
<1> QED
  BY <1>1, <1>2

LEMMA KvInductive ==
  ASSUME KvInv, [StoreNext]_store_vars
  PROVE  KvInv' /\ Allowed
<1>1. CASE Open \/ End
  BY <1>1 DEF Open, End, KvInv, Shaped, Allowed, Abstract!Next, Abstract!Abandon
<1>2. ASSUME NEW k \in Keys, Unset(k) \/ \E v \in Values : Set(k, v)
      PROVE  KvInv' /\ Allowed
  BY <1>2, SetAllowed, DeleteAllowed DEF Unset
<1>3. ASSUME NEW ks \in SUBSET Keys, UnsetKeys(ks)
      PROVE  KvInv' /\ Allowed
  BY <1>3, DeleteAllowed DEF UnsetKeys
<1>4. ASSUME NEW p \in PrefixArgs, UnsetPrefix(p)
      PROVE  KvInv' /\ Allowed
  BY <1>4, DeleteAllowed DEF UnsetPrefix
<1>5. CASE EnterScope
  BY <1>5 DEF EnterScope, KvInv, Shaped, Allowed
<1>6. CASE LeaveScope \/ Flush
  BY <1>6 DEF LeaveScope, Flush, KvInv, Shaped, Allowed, Abstract!Next, Abstract!Commit
<1>7. CASE RaiseInScope
  BY <1>7, RollBackAllowed DEF RaiseInScope
<1>8. CASE UNCHANGED store_vars
  BY <1>8 DEF store_vars, KvInv, Shaped, Allowed
<1> QED
  BY <1>1, <1>2, <1>3, <1>4, <1>5, <1>6, <1>7, <1>8 DEF StoreNext

\* What is written between two flushes appears all at once or not at all, whatever raises,
\* exits or is killed: every behaviour of the store is one of UnitStore.  (flush, hook_scope)
THEOREM StoreIsTransactional == StoreSpec => Transactional
<1>1. KvInv /\ [StoreNext]_store_vars => KvInv' /\ [Abstract!Next]_<<disk.kv, conn.kv>>
  BY KvInductive DEF Allowed
<1>2. StoreSpec => Abstract!Init /\ [][Abstract!Next]_<<disk.kv, conn.kv>>
  BY <1>1, KvInitial, PTL DEF StoreSpec
<1> QED
  BY <1>2 DEF Transactional, Abstract!Spec

-----------------------------------------------------------------------------
\* ConfigFiles: the shared secret, ovs_use_veth, the host name, and the options Open
\* vSwitch runs with.

NoPart == <<>>
BeforeConf == {<<NEUTRON_CONF, OVS_DEFAULT>>,
               <<NEUTRON_CONF, OVS_DEFAULT, METADATA, DHCP_AGENT>>}
BeforeOvs == {<<OVS_DEFAULT>>, <<OVS_DEFAULT, METADATA, DHCP_AGENT>>}
AfterOvs == {<<METADATA, DHCP_AGENT>>, <<DHCP_AGENT>>, NoPart}

FileNames == {NEUTRON_CONF, OVS_DEFAULT, DHCP_AGENT, METADATA, SHARED_SECRET}
Writing == {"config-changed", "neutron-control"}
Veths == {"True", "False"}
OvsTexts == [style : {"old", "new"}, options : 1..2, trigger : 0..2]
FileTexts == [style : {"old", "new"}, options : 1..2, trigger : 1..2]
NewTexts == [style : {"new"}, options : 1..2, trigger : 1..2]
Inputs == [release : {"rocky", "stein"}, veth : {"None"} \cup Veths, local : BOOLEAN,
           options : 1..2, trigger : 1..2]

\* No content is taken for a missing or an empty file.
Distinct ==
    /\ Missing # Empty
    /\ {Missing, Empty} \cap (Nat \cup Veths \cup OvsTexts) = {}

FilesTypeOK ==
    /\ given \in Inputs
    /\ files = [f \in FileNames |-> files[f]]
    /\ files[SHARED_SECRET] \in {Missing, Empty} \cup Nat
    /\ files[DHCP_AGENT] \in {Missing, Empty} \cup Veths
    /\ files[OVS_DEFAULT] \in {Missing, Empty} \cup FileTexts
    /\ use_fqdn \in BOOLEAN
    /\ plugin = [secret |-> plugin.secret, host |-> plugin.host]
    /\ plugin.host \in {"unset", "fqdn", "short"}
    /\ ovs \in OvsTexts
    /\ task = [hook |-> task.hook, left |-> task.left, file |-> task.file, text |-> task.text,
               before |-> task.before, restart |-> task.restart, join |-> task.join]
    /\ task.hook \in {NoHook, "upgrade-charm"} \cup Writing
    /\ task.file \in FileNames \cup {NoFile}
    /\ task.restart \in BOOLEAN /\ task.join \in BOOLEAN
    /\ retry \in HookNames \cup {NoHook}
    /\ memory \in [secrets : Nat, torn : BOOLEAN, hosts : SUBSET {"fqdn", "short"}, unresolved : BOOLEAN,
                   lost : BOOLEAN, outage : BOOLEAN, veth : {"None"} \cup Veths]

\* Which hook does what, and in which order.
Ordered ==
    /\ task.hook = NoHook => task = Idle
    /\ task.hook = "upgrade-charm" =>
          /\ retry = "upgrade-charm" /\ ~task.restart /\ ~task.join
          /\ task.left \in {<<OVS_DEFAULT>>, NoPart} /\ task.file \in {OVS_DEFAULT, NoFile}
    /\ task.hook \in Writing =>
          /\ retry \in {NoHook, task.hook}
          /\ task.left \in BeforeConf \cup BeforeOvs \cup AfterOvs
          /\ task.left # NoPart \/ task.file \notin {NoFile, SHARED_SECRET} => task.restart
          /\ task.join <=> task.hook = "config-changed"

\* The host name that neutron.conf gets while the resolver answers.
Resolved == HostOfConf(TRUE)

\* A file that is open is empty, and what is about to be written was rendered from what
\* still is so.
Rendered ==
    /\ task.file # NoFile => files[task.file] = Empty
    /\ task.file = SHARED_SECRET => task.text \in Nat
    /\ task.file = METADATA => task.text = files[SHARED_SECRET]
    /\ task.file = DHCP_AGENT => task.text \in Veths
    /\ task.file = OVS_DEFAULT => task.text \in NewTexts
    /\ task.file = NEUTRON_CONF => /\ task.text.host \in {Resolved, "short"}
                                   /\ ~memory.unresolved => task.text.host = Resolved

\* The veth setting in use is in the file or about to be.
VethInv ==
    memory.veth # "None" /\ ~memory.torn =>
        memory.veth = IF task.file = DHCP_AGENT THEN task.text ELSE files[DHCP_AGENT]

\* The decision on FQDNs is made before the first host name is written, and the
\* principal is told it after.
HostInv ==
    /\ use_fqdn => given.release = "stein"
    /\ ~use_fqdn => memory.hosts \subseteq {"short"} /\ plugin.host = "unset"
    /\ retry = "install" =>
          task.hook = NoHook /\ memory.hosts = {} /\ plugin.host = "unset" /\ ~memory.unresolved
    /\ ~memory.unresolved =>
          /\ memory.hosts \subseteq {Resolved}
          /\ plugin.host # "short"
          /\ plugin.host = "fqdn" => memory.hosts = {"fqdn"}
          /\ task.hook \in Writing =>
                \/ task.left \in BeforeConf
                \/ task.file = NEUTRON_CONF
                \/ memory.hosts = {Resolved}

Same(f) == f.options = ovs.options /\ f.trigger = ovs.trigger

\* A file that Open vSwitch was not started with: a restart was lost, or one is due, or
\* there was none yet.
OvsInv ==
    /\ ~memory.outage
    /\ retry = "upgrade-charm" => files[OVS_DEFAULT] # Missing
    /\ retry = "install" => files[OVS_DEFAULT] = Missing /\ ovs.trigger = 0
    /\ task.hook = NoHook /\ ~memory.lost /\ retry \notin {"install", "upgrade-charm"} =>
          \/ files[OVS_DEFAULT] = Missing /\ ovs.trigger = 0 /\ retry = "config-changed"
          \/ files[OVS_DEFAULT] \in NewTexts /\ Same(files[OVS_DEFAULT])
    /\ task.hook = "upgrade-charm" =>
          task.left = <<OVS_DEFAULT>> \/ task.file = OVS_DEFAULT \/ files[OVS_DEFAULT] \in NewTexts
    /\ task.hook \in Writing =>
          /\ \/ task.left \in BeforeConf \cup BeforeOvs
             \/ task.file = OVS_DEFAULT
             \/ files[OVS_DEFAULT] \in NewTexts
          /\ task.restart /\ ~memory.lost =>
                \/ task.before = Missing /\ ovs.trigger = 0
                \/ task.before \in NewTexts /\ Same(task.before)
          /\ ~task.restart /\ ~memory.lost =>
                files[OVS_DEFAULT] \in NewTexts /\ Same(files[OVS_DEFAULT])

FilesInv == FilesTypeOK /\ Ordered /\ Rendered /\ OneSecret /\ VethInv /\ HostInv /\ OvsInv

-----------------------------------------------------------------------------
\* write_all goes through the files one by one.
LEMMA RegisteredFiles == \A in \in Inputs : Registered(in) \in BeforeConf
<1> SUFFICES ASSUME NEW in \in Inputs PROVE Registered(in) \in BeforeConf
  OBVIOUS
<1> DEFINE two == <<NEUTRON_CONF, OVS_DEFAULT>>
           more == <<METADATA, DHCP_AGENT>>
           all == <<NEUTRON_CONF, OVS_DEFAULT, METADATA, DHCP_AGENT>>
<1>1. two \in Seq(FileNames) /\ more \in Seq(FileNames) /\ all \in Seq(FileNames)
  BY DEF FileNames
<1>2. two \o more = all
  <2>1. two \o more \in Seq(FileNames) /\ Len(two \o more) = 4
    BY <1>1, ConcatProperties
  <2>2. \A i \in 1..4 : (two \o more)[i] = all[i]
    OBVIOUS
  <2> QED BY <1>1, <2>1, <2>2, SeqEqual
<1>3. two \o <<>> = two
  BY <1>1, ConcatEmptySeq
<1> QED BY <1>2, <1>3 DEF Registered, BeforeConf

LEMMA FirstConf ==
  ASSUME NEW l \in BeforeConf
  PROVE  l # NoPart /\ Head(l) = NEUTRON_CONF /\ Tail(l) \in BeforeOvs
<1>1. CASE l = <<NEUTRON_CONF, OVS_DEFAULT>>
  BY <1>1 DEF BeforeOvs, NoPart
<1>2. CASE l = <<NEUTRON_CONF, OVS_DEFAULT, METADATA, DHCP_AGENT>>
  BY <1>2 DEF BeforeOvs, NoPart
<1> QED BY <1>1, <1>2 DEF BeforeConf

LEMMA FirstOvs ==
  ASSUME NEW l \in BeforeOvs
  PROVE  l # NoPart /\ Head(l) = OVS_DEFAULT /\ Tail(l) \in AfterOvs
<1>1. CASE l = <<OVS_DEFAULT>>
  BY <1>1 DEF AfterOvs, NoPart
<1>2. CASE l = <<OVS_DEFAULT, METADATA, DHCP_AGENT>>
  BY <1>2 DEF AfterOvs, NoPart
<1> QED BY <1>1, <1>2 DEF BeforeOvs

LEMMA FirstAfter ==
  ASSUME NEW l \in AfterOvs, l # NoPart
  PROVE  Head(l) \in {METADATA, DHCP_AGENT} /\ Tail(l) \in AfterOvs
<1>1. CASE l = <<METADATA, DHCP_AGENT>>
  BY <1>1 DEF AfterOvs
<1>2. CASE l = <<DHCP_AGENT>>
  BY <1>2 DEF AfterOvs, NoPart
<1> QED BY <1>1, <1>2 DEF AfterOvs, NoPart

\* Two options files say the same if they differ in style only.
LEMMA Says ==
  ASSUME Distinct, FilesTypeOK, NEW f \in OvsTexts
  PROVE  SaysTheSame(ovs, f) <=> Same(f)
<1>1. f # Empty
  BY DEF Distinct
<1>2. [f EXCEPT !.style = "new"] = [style |-> "new", options |-> f.options, trigger |-> f.trigger]
  BY DEF OvsTexts
<1>3. [ovs EXCEPT !.style = "new"] = [style |-> "new", options |-> ovs.options, trigger |-> ovs.trigger]
  BY DEF FilesTypeOK, OvsTexts
<1> QED BY <1>1, <1>2, <1>3 DEF SaysTheSame, Same

-----------------------------------------------------------------------------
LEMMA InitFiles == ASSUME Distinct, FilesInit PROVE FilesInv
<1> USE DEF NEUTRON_CONF, OVS_DEFAULT, DHCP_AGENT, METADATA, SHARED_SECRET, FileNames
<1>1. given \in Inputs /\ memory.veth \in {"None"} \cup Veths /\ ovs \in OvsTexts
  BY DEF FilesInit, Inputs, Veths, OvsTexts
<1>2. /\ files = [f \in FileNames |-> files[f]]
      /\ files[SHARED_SECRET] = Missing
      /\ files[METADATA] = Missing
      /\ files[DHCP_AGENT] \in {Missing, "True"}
      /\ files[OVS_DEFAULT] \in {Missing} \cup FileTexts
  BY <1>1 DEF FilesInit, FileTexts
<1>3. memory = [secrets |-> 0, torn |-> FALSE, hosts |-> {}, unresolved |-> FALSE,
                lost |-> FALSE, outage |-> FALSE,
                veth |-> IF files[DHCP_AGENT] = Missing THEN "None" ELSE files[DHCP_AGENT]]
  BY DEF FilesInit
<1>4. /\ task = Idle /\ use_fqdn = FALSE /\ plugin = [secret |-> Missing, host |-> "unset"]
      /\ \/ retry = "install" /\ files[OVS_DEFAULT] = Missing /\ ovs.trigger = 0
         \/ retry = "upgrade-charm" /\ files[OVS_DEFAULT] \in OvsTexts
  BY <1>1 DEF FilesInit
<1> USE DEF Idle, NoHook, NoFile
<1>5. FilesTypeOK
  <2>1. memory \in [secrets : Nat, torn : BOOLEAN, hosts : SUBSET {"fqdn", "short"}, unresolved : BOOLEAN,
                    lost : BOOLEAN, outage : BOOLEAN, veth : {"None"} \cup Veths]
    BY <1>1, <1>3
  <2> QED BY <1>1, <1>2, <1>4, <2>1 DEF FilesTypeOK, HookNames, Veths
<1>6. Ordered /\ Rendered
  BY <1>4 DEF Ordered, Rendered, Writing
<1>7. OneSecret
  BY <1>2, <1>4 DEF OneSecret
<1>8. VethInv
  BY <1>3, <1>4 DEF VethInv
<1>9. HostInv
  BY <1>3, <1>4 DEF HostInv, Writing
<1>10. OvsInv
  BY <1>3, <1>4 DEF Distinct, OvsInv, Writing
<1> QED BY <1>5, <1>6, <1>7, <1>8, <1>9, <1>10 DEF FilesInv

LEMMA ChangeFiles == ASSUME Distinct, FilesInv, Change PROVE FilesInv'
<1> USE DEF FilesInv, Change
<1>1. given' \in Inputs /\ (given.release = "stein" => given'.release = "stein")
  <2>1. given \in Inputs
    BY DEF FilesTypeOK
  <2>2. \A n \in 1..2 : 3 - n \in 1..2
    OBVIOUS
  <2>3. CASE given' = [given EXCEPT !.release = "stein"]
    BY <2>1, <2>3 DEF Inputs
  <2>4. ASSUME NEW v \in {"True", "False"}, given' = [given EXCEPT !.veth = v] PROVE given' \in Inputs /\ (given.release = "stein" => given'.release = "stein")
    BY <2>1, <2>4 DEF Inputs, Veths
  <2>5. CASE given' = [given EXCEPT !.local = ~@]
    BY <2>1, <2>5 DEF Inputs
  <2>6. CASE given' = [given EXCEPT !.options = 3 - @]
    BY <2>1, <2>2, <2>6 DEF Inputs
  <2>7. CASE given' = [given EXCEPT !.trigger = 3 - @]
    BY <2>1, <2>2, <2>7 DEF Inputs
  <2> QED BY <2>3, <2>4, <2>5, <2>6, <2>7
<1>2. Resolved' = Resolved
  <2>1. CASE use_fqdn
    BY <1>1, <2>1 DEF HostInv, Resolved, HostOfConf, HostName
  <2>2. CASE ~use_fqdn
    BY <2>2 DEF Resolved, HostOfConf, HostName
  <2> QED BY <2>1, <2>2
<1>3. FilesTypeOK'
  BY <1>1 DEF FilesTypeOK
<1>4. Ordered'
  BY DEF Ordered, Idle, NoHook
<1>5. Rendered'
  BY <1>2 DEF Rendered
<1>6. OneSecret' /\ VethInv'
  BY DEF OneSecret, VethInv
<1>7. HostInv'
  BY <1>1, <1>2 DEF HostInv
<1>8. OvsInv'
  BY DEF OvsInv, Same
<1> QED BY <1>3, <1>4, <1>5, <1>6, <1>7, <1>8

\* The hooks begin.
LEMMA InstallFiles == ASSUME Distinct, FilesInv, install PROVE FilesInv'
<1> USE DEF FilesInv, install
<1>1. FilesTypeOK'
  BY DEF FilesTypeOK, HookNames
<1>2. Ordered'
  BY DEF Ordered, Idle, NoHook, Writing
<1>3. Rendered'
  <2>1. task.file = NoFile
    BY DEF Ordered, Idle
  <2> QED BY <2>1 DEF Rendered, NoFile, NEUTRON_CONF, OVS_DEFAULT, DHCP_AGENT, METADATA, SHARED_SECRET
<1>4. OneSecret' /\ VethInv'
  BY DEF OneSecret, VethInv
<1>5. HostInv'
  BY DEF FilesTypeOK, Ordered, HostInv, Writing, Inputs, NoHook
<1>6. OvsInv'
  BY DEF OvsInv, Same, Writing, NoHook
<1> QED BY <1>1, <1>2, <1>3, <1>4, <1>5, <1>6

\* The file is left to be written unless the new charm has written it.
LEMMA UpgradeFiles == ASSUME Distinct, FilesInv, upgrade_charm PROVE FilesInv'
<1> USE DEF FilesInv
<1>1. PICK l \in {<<OVS_DEFAULT>>, NoPart} :
         /\ task' = [hook |-> "upgrade-charm", left |-> l, file |-> NoFile, text |-> Empty,
                     before |-> Missing, restart |-> FALSE, join |-> FALSE]
         /\ l = NoPart => files[OVS_DEFAULT] # Empty /\ files[OVS_DEFAULT].style = "new"
  BY DEF upgrade_charm, Idle, NoPart
<1>2. /\ task = Idle /\ retry = "upgrade-charm"
      /\ UNCHANGED <<given, changes, files, use_fqdn, plugin, ovs, retry, kills, memory>>
  BY DEF upgrade_charm, Ordered
<1>3. FilesTypeOK'
  BY <1>1, <1>2 DEF FilesTypeOK
<1>4. Ordered'
  BY <1>1, <1>2 DEF Ordered, Writing, NoHook, NoFile
<1>5. Rendered'
  BY <1>1, <1>2 DEF Rendered, NoFile, NEUTRON_CONF, OVS_DEFAULT, DHCP_AGENT, METADATA, SHARED_SECRET
<1>6. OneSecret'
  BY <1>2 DEF OneSecret
<1>7. VethInv'
  BY <1>1, <1>2 DEF VethInv, Idle, NoFile, DHCP_AGENT
<1>8. HostInv'
  BY <1>1, <1>2 DEF HostInv, Resolved, HostOfConf, HostName, Writing
<1>9. OvsInv'
  <2>1. l = NoPart => files[OVS_DEFAULT] \in NewTexts
    BY <1>1, <1>2 DEF FilesTypeOK, OvsInv, FileTexts, NewTexts
  <2> QED BY <1>1, <1>2, <2>1 DEF OvsInv, Writing, NoHook
<1> QED BY <1>3, <1>4, <1>5, <1>6, <1>7, <1>8, <1>9

LEMMA WritingFiles ==
  ASSUME Distinct, FilesInv, NEW h \in HookNames, config_changed(h)
  PROVE  FilesInv'
<1> USE DEF FilesInv
<1>1. PICK l \in BeforeConf :
         task' = [hook |-> h, left |-> l, file |-> NoFile, text |-> Empty,
                  before |-> files[OVS_DEFAULT], restart |-> TRUE, join |-> (h = "config-changed")]
  BY RegisteredFiles DEF config_changed, Idle, FilesTypeOK
<1>2. /\ h \in Writing /\ task = Idle /\ retry \in {NoHook, h}
      /\ UNCHANGED <<given, changes, files, use_fqdn, plugin, ovs, retry, kills, memory>>
  BY DEF config_changed, Ordered, Writing
<1>3. FilesTypeOK'
  BY <1>1, <1>2 DEF FilesTypeOK
<1>4. Ordered'
  BY <1>1, <1>2 DEF Ordered, Writing, NoHook
<1>5. Rendered'
  BY <1>1, <1>2 DEF Rendered, NoFile, NEUTRON_CONF, OVS_DEFAULT, DHCP_AGENT, METADATA, SHARED_SECRET
<1>6. OneSecret'
  BY <1>2 DEF OneSecret
<1>7. VethInv'
  BY <1>1, <1>2 DEF VethInv, Idle, NoFile, DHCP_AGENT
<1>8. HostInv'
  BY <1>1, <1>2 DEF HostInv, Resolved, HostOfConf, HostName, Writing, NoHook
<1>9. OvsInv'
  BY <1>1, <1>2 DEF OvsInv, Same, Writing, NoHook, Idle
<1> QED BY <1>3, <1>4, <1>5, <1>6, <1>7, <1>8, <1>9

-----------------------------------------------------------------------------
\* The hook goes on.
LEMMA SecretFiles == ASSUME Distinct, FilesInv, get_shared_secret PROVE FilesInv'
<1> USE DEF FilesInv
<1>1. /\ task.hook # NoHook /\ task.file = NoFile /\ files[SHARED_SECRET] = Missing
      /\ UNCHANGED <<given, changes, use_fqdn, plugin, ovs, retry, kills>>
      /\ files' = [files EXCEPT ![SHARED_SECRET] = Empty]
      /\ \/ task.left # NoPart /\ Head(task.left) = METADATA
         \/ task.join /\ given.local
  BY DEF get_shared_secret, NeedsSecret, NoPart
<1>2. /\ task' = [hook |-> task.hook, left |-> task.left, file |-> SHARED_SECRET, text |-> NewSecret,
                  before |-> task.before, restart |-> task.restart, join |-> task.join]
      /\ memory' = [memory EXCEPT !.secrets = NewSecret]
  BY DEF get_shared_secret, FilesTypeOK
<1> NewSecret \in Nat
  BY DEF FilesTypeOK, NewSecret
<1>3. /\ files' = [f \in FileNames |-> files'[f]]
      /\ files'[SHARED_SECRET] = Empty
      /\ \A f \in FileNames \ {SHARED_SECRET} : files'[f] = files[f]
  BY <1>1 DEF FilesTypeOK, FileNames
<1> USE DEF FileNames, NEUTRON_CONF, OVS_DEFAULT, DHCP_AGENT, METADATA, SHARED_SECRET, NoFile
<1>4. task.hook \in Writing
  <2>1. Head(<<OVS_DEFAULT>>) # METADATA
    OBVIOUS
  <2>2. task.hook # "upgrade-charm"
    BY <1>1, <2>1 DEF Ordered
  <2> QED BY <1>1, <2>2 DEF FilesTypeOK
<1>5. FilesTypeOK'
  BY <1>1, <1>2, <1>3 DEF FilesTypeOK
<1>6. Ordered'
  BY <1>1, <1>2, <1>4 DEF Ordered, Writing, NoHook
<1>7. Rendered'
  BY <1>2, <1>3 DEF Rendered
<1>8. OneSecret'
  BY <1>1, <1>3 DEF OneSecret
<1>9. VethInv'
  BY <1>1, <1>2, <1>3 DEF VethInv, FilesTypeOK
<1>10. HostInv'
  BY <1>1, <1>2 DEF HostInv, Resolved, HostOfConf, HostName, FilesTypeOK, NoHook
<1>11. OvsInv'
  BY <1>1, <1>2, <1>3 DEF OvsInv, Same, FilesTypeOK
<1> QED BY <1>5, <1>6, <1>7, <1>8, <1>9, <1>10, <1>11

LEMMA OpenFiles == ASSUME Distinct, FilesInv, OpenFile PROVE FilesInv'
<1> USE DEF FilesInv
<1> DEFINE f == Head(task.left)
<1>1. /\ task.hook # NoHook /\ task.file = NoFile /\ task.left # NoPart
      /\ f = METADATA => files[SHARED_SECRET] # Missing
      /\ UNCHANGED <<given, changes, use_fqdn, plugin, ovs, retry, kills>>
      /\ files' = [files EXCEPT ![f] = Empty]
  BY DEF OpenFile, NeedsSecret, Ordered, Idle, NoPart
<1>r. PICK resolves \in BOOLEAN :
         /\ task' = [task EXCEPT !.left = Tail(@), !.file = f, !.text = render(f, resolves)]
         /\ memory' = [memory EXCEPT
                          !.unresolved = @ \/ (f = NEUTRON_CONF /\ use_fqdn /\ ~resolves)]
  BY DEF OpenFile
<1> DEFINE text == render(f, resolves)
<1>2. task' = [hook |-> task.hook, left |-> Tail(task.left), file |-> f, text |-> text,
               before |-> task.before, restart |-> task.restart, join |-> task.join]
  BY <1>r DEF FilesTypeOK
<1>m. /\ memory'.secrets = memory.secrets /\ memory'.torn = memory.torn
      /\ memory'.hosts = memory.hosts /\ memory'.veth = memory.veth
      /\ memory'.lost = memory.lost /\ memory'.outage = memory.outage
      /\ memory'.unresolved = (memory.unresolved \/ (f = NEUTRON_CONF /\ use_fqdn /\ ~resolves))
  BY <1>r DEF FilesTypeOK
<1>u. ~memory'.unresolved => ~memory.unresolved
  BY <1>m
<1>3. task.left \in BeforeConf => f = NEUTRON_CONF /\ Tail(task.left) \in BeforeOvs
  BY FirstConf
<1>a. task.left \in BeforeOvs => f = OVS_DEFAULT /\ Tail(task.left) \in AfterOvs
  BY FirstOvs
<1>b. task.left \in AfterOvs => f \in {METADATA, DHCP_AGENT} /\ Tail(task.left) \in AfterOvs
  BY <1>1, FirstAfter
<1>c. task.left = <<OVS_DEFAULT>> => f = OVS_DEFAULT /\ Tail(task.left) = NoPart
  BY DEF NoPart
<1>4. f \in FileNames \ {SHARED_SECRET}
  BY <1>1, <1>3, <1>a, <1>b, <1>c DEF Ordered, FilesTypeOK, FileNames, NEUTRON_CONF, OVS_DEFAULT, DHCP_AGENT, METADATA, SHARED_SECRET
<1>5. /\ files' = [g \in FileNames |-> files'[g]]
      /\ files'[f] = Empty
      /\ \A g \in FileNames \ {f} : files'[g] = files[g]
  BY <1>1, <1>4 DEF FilesTypeOK
<1>6. /\ f = METADATA => text = files[SHARED_SECRET]
      /\ f = DHCP_AGENT => text = get_ovs_use_veth
      /\ f = OVS_DEFAULT => text \in NewTexts
      /\ f = NEUTRON_CONF => text.host = HostOfConf(resolves)
  <2>1. given \in Inputs
    BY DEF FilesTypeOK
  <2> QED BY <2>1 DEF render, NewTexts, Inputs, NEUTRON_CONF, OVS_DEFAULT, DHCP_AGENT, METADATA
<1>7. get_ovs_use_veth \in Veths
  BY DEF get_ovs_use_veth, existing_veth, FilesTypeOK, Inputs, Veths
\* A name that the resolver did not give is the short one.
<1>n. /\ HostOfConf(resolves) \in {Resolved, "short"}
      /\ (use_fqdn /\ ~resolves) \/ HostOfConf(resolves) = Resolved
      /\ Resolved' = Resolved
  BY <1>1 DEF Resolved, HostOfConf, HostName
<1>h. f = NEUTRON_CONF => /\ text.host \in {Resolved, "short"}
                          /\ ~memory'.unresolved => text.host = Resolved
  BY <1>6, <1>n, <1>m
<1> HIDE DEF f, text
<1> USE DEF FileNames, NEUTRON_CONF, OVS_DEFAULT, DHCP_AGENT, METADATA, SHARED_SECRET, NoFile
<1>8. FilesTypeOK'
  <2>1. task' = [hook |-> task'.hook, left |-> task'.left, file |-> task'.file, text |-> task'.text,
                 before |-> task'.before, restart |-> task'.restart, join |-> task'.join]
    BY <1>2
  <2>2. \A g \in FileNames : files'[g] \in {Empty, files[g]}
    BY <1>5
  <2>3. /\ files'[SHARED_SECRET] \in {Missing, Empty} \cup Nat
        /\ files'[DHCP_AGENT] \in {Missing, Empty} \cup Veths
        /\ files'[OVS_DEFAULT] \in {Missing, Empty} \cup FileTexts
    BY <2>2 DEF FilesTypeOK
  <2>4. /\ task'.hook \in {NoHook, "upgrade-charm"} \cup Writing
        /\ task'.file \in FileNames \cup {NoFile}
        /\ task'.restart \in BOOLEAN /\ task'.join \in BOOLEAN
    BY <1>2, <1>4 DEF FilesTypeOK
  <2>5. memory' \in [secrets : Nat, torn : BOOLEAN, hosts : SUBSET {"fqdn", "short"}, unresolved : BOOLEAN,
                     lost : BOOLEAN, outage : BOOLEAN, veth : {"None"} \cup Veths]
    <3>1. memory'.unresolved \in BOOLEAN
      BY <1>m, ZenonT(20)
    <3>2. memory' = [secrets |-> memory'.secrets, torn |-> memory'.torn, hosts |-> memory'.hosts,
                     unresolved |-> memory'.unresolved,
                     lost |-> memory'.lost, outage |-> memory'.outage, veth |-> memory'.veth]
      BY <1>r DEF FilesTypeOK
    <3>3. /\ memory'.secrets \in Nat /\ memory'.hosts \in SUBSET {"fqdn", "short"}
          /\ memory'.lost \in BOOLEAN /\ memory'.torn \in BOOLEAN
          /\ memory'.outage \in BOOLEAN /\ memory'.veth \in {"None"} \cup Veths
      BY <1>m DEF FilesTypeOK
    <3> QED BY <3>1, <3>2, <3>3
  <2> QED BY <1>1, <1>5, <2>1, <2>3, <2>4, <2>5 DEF FilesTypeOK
<1>9. Ordered'
  <2>1. task.hook \in Writing => Tail(task.left) \in BeforeConf \cup BeforeOvs \cup AfterOvs /\ task.restart
    BY <1>1, <1>3, <1>a, <1>b, <1>c DEF Ordered
  <2>2. task.hook = "upgrade-charm" => Tail(task.left) = NoPart /\ f = OVS_DEFAULT
    BY <1>1, <1>3, <1>a, <1>b, <1>c DEF Ordered
  <2> QED BY <1>1, <1>2, <1>4, <2>1, <2>2 DEF Ordered
<1>10. Rendered'
  BY <1>1, <1>2, <1>4, <1>5, <1>6, <1>7, <1>h, <1>n DEF Rendered
<1>11. OneSecret'
  BY <1>1, <1>4, <1>5 DEF OneSecret
<1>12. VethInv'
  <2>1. memory.veth # "None" /\ ~memory.torn => memory.veth = files[DHCP_AGENT]
    BY <1>1 DEF VethInv
  <2>2. memory.veth # "None" => memory.veth \in Veths
    BY DEF FilesTypeOK
  <2>3. memory.veth # "None" /\ ~memory.torn => get_ovs_use_veth = memory.veth
    BY <2>1, <2>2 DEF get_ovs_use_veth, existing_veth, Distinct, Veths
  <2> QED BY <1>1, <1>2, <1>5, <1>6, <1>m, <2>1, <2>3 DEF VethInv
<1>13. HostInv'
  BY <1>1, <1>2, <1>3, <1>a, <1>b, <1>c, <1>m, <1>n, <1>u DEF HostInv, NoHook, Ordered
<1>14. OvsInv'
  <2>1. f = OVS_DEFAULT \/ files'[OVS_DEFAULT] = files[OVS_DEFAULT]
    BY <1>5
  <2>2. task'.hook = "upgrade-charm" => task'.file = OVS_DEFAULT
    BY <1>1, <1>2, <1>c DEF Ordered
  <2>3. task'.hook \in Writing =>
           \/ task'.left \in BeforeConf \cup BeforeOvs
           \/ task'.file = OVS_DEFAULT
           \/ files'[OVS_DEFAULT] \in NewTexts
    BY <1>1, <1>2, <1>3, <1>a, <1>b, <2>1 DEF OvsInv, Ordered
  <2>4. task'.hook \in Writing => task'.restart /\ task'.restart = task.restart /\ task'.before = task.before
    BY <1>1, <1>2 DEF Ordered
  <2>5. retry # "install" /\ (retry = "upgrade-charm" => files'[OVS_DEFAULT] # Missing)
    BY <1>1, <2>1, <1>5 DEF HostInv, OvsInv, Distinct
  <2> QED BY <1>1, <1>2, <1>m, <2>2, <2>3, <2>4, <2>5 DEF OvsInv, Same
<1> QED BY <1>8, <1>9, <1>10, <1>11, <1>12, <1>13, <1>14

LEMMA WriteFiles == ASSUME Distinct, FilesInv, WriteFile PROVE FilesInv'
<1> USE DEF FilesInv
<1> DEFINE f == task.file
<1>1. /\ f # NoFile /\ f \in FileNames /\ files[f] = Empty /\ task.hook # NoHook
      /\ UNCHANGED <<given, changes, use_fqdn, plugin, ovs, retry, kills>>
      /\ files' = [files EXCEPT ![f] = task.text]
  BY DEF WriteFile, FilesTypeOK, Rendered, Ordered, Idle
<1>2. task' = [hook |-> task.hook, left |-> task.left, file |-> NoFile, text |-> task.text,
               before |-> task.before, restart |-> task.restart, join |-> task.join]
  BY DEF WriteFile, FilesTypeOK
<1>3. /\ files' = [g \in FileNames |-> files'[g]]
      /\ files'[f] = task.text
      /\ \A g \in FileNames \ {f} : files'[g] = files[g]
  BY <1>1 DEF FilesTypeOK
<1>4. memory' = [memory EXCEPT
                    !.veth = IF f = DHCP_AGENT /\ @ = "None" THEN task.text ELSE @,
                    !.hosts = IF f = NEUTRON_CONF THEN @ \cup {task.text.host} ELSE @]
  BY DEF WriteFile
<1>5. /\ memory'.secrets = memory.secrets /\ memory'.torn = memory.torn
      /\ memory'.lost = memory.lost /\ memory'.outage = memory.outage
      /\ memory'.unresolved = memory.unresolved
      /\ memory'.veth = IF f = DHCP_AGENT /\ memory.veth = "None" THEN task.text ELSE memory.veth
      /\ memory'.hosts = IF f = NEUTRON_CONF THEN memory.hosts \cup {task.text.host} ELSE memory.hosts
  BY <1>4 DEF FilesTypeOK
<1> HIDE DEF f
<1> USE DEF FileNames, NEUTRON_CONF, OVS_DEFAULT, DHCP_AGENT, METADATA, SHARED_SECRET, NoFile
<1>6. /\ f = SHARED_SECRET => task.text \in Nat
      /\ f = METADATA => task.text = files[SHARED_SECRET]
      /\ f = DHCP_AGENT => task.text \in Veths
      /\ f = OVS_DEFAULT => task.text \in NewTexts
  BY DEF Rendered, f
<1>7. /\ Resolved \in {"fqdn", "short"} /\ Resolved' = Resolved
      /\ ~use_fqdn => Resolved = "short"
  BY <1>1 DEF Resolved, HostOfConf, HostName
<1>h. f = NEUTRON_CONF => /\ task.text.host \in {Resolved, "short"}
                          /\ ~memory.unresolved => task.text.host = Resolved
  BY DEF Rendered, f
<1>8. FilesTypeOK'
  <2>1. task' = [hook |-> task'.hook, left |-> task'.left, file |-> task'.file, text |-> task'.text,
                 before |-> task'.before, restart |-> task'.restart, join |-> task'.join]
    BY <1>2
  <2>2. /\ files'[SHARED_SECRET] \in {Missing, Empty} \cup Nat
        /\ files'[DHCP_AGENT] \in {Missing, Empty} \cup Veths
        /\ files'[OVS_DEFAULT] \in {Missing, Empty} \cup FileTexts
    BY <1>1, <1>3, <1>6 DEF FilesTypeOK, FileTexts, NewTexts
  <2>3. /\ task'.hook \in {NoHook, "upgrade-charm"} \cup Writing
        /\ task'.file \in FileNames \cup {NoFile}
        /\ task'.restart \in BOOLEAN /\ task'.join \in BOOLEAN
    BY <1>2 DEF FilesTypeOK
  <2>4. memory' \in [secrets : Nat, torn : BOOLEAN, hosts : SUBSET {"fqdn", "short"}, unresolved : BOOLEAN,
                     lost : BOOLEAN, outage : BOOLEAN, veth : {"None"} \cup Veths]
    BY <1>4, <1>5, <1>6, <1>7, <1>h DEF FilesTypeOK
  <2> QED BY <1>1, <1>3, <2>1, <2>2, <2>3, <2>4 DEF FilesTypeOK
<1>9. Ordered'
  BY <1>1, <1>2 DEF Ordered, f
<1>10. Rendered'
  BY <1>2 DEF Rendered
<1>11. OneSecret'
  <2>1. files[SHARED_SECRET] \in {Missing, Empty} =>
           files[METADATA] \in {Missing, Empty} /\ plugin.secret \in {Missing, Empty}
    BY DEF OneSecret
  <2>2. CASE f = SHARED_SECRET
    BY <1>1, <1>3, <2>1, <2>2 DEF OneSecret
  <2>3. CASE f # SHARED_SECRET
    BY <1>1, <1>3, <1>6, <2>3 DEF OneSecret
  <2> QED BY <2>2, <2>3
<1>12. VethInv'
  BY <1>1, <1>2, <1>3, <1>5 DEF VethInv, f
<1>13. HostInv'
  <2>1. ~memory.unresolved => memory'.hosts \subseteq {Resolved}
    BY <1>5, <1>h DEF HostInv
  <2>2. ~memory.unresolved /\ memory.hosts = {"fqdn"} => memory'.hosts = {"fqdn"}
    BY <1>5, <2>1 DEF HostInv
  <2>3. ~memory.unresolved /\ f = NEUTRON_CONF => memory'.hosts = {Resolved}
    BY <1>5, <1>h, <2>1
  <2>4. ~memory.unresolved /\ memory.hosts = {Resolved} => memory'.hosts = {Resolved}
    BY <1>5, <2>1
  <2>5. ~use_fqdn => memory'.hosts \subseteq {"short"}
    BY <1>5, <1>7, <1>h DEF HostInv
  <2> QED BY <1>1, <1>2, <1>5, <1>7, <2>1, <2>2, <2>3, <2>4, <2>5 DEF HostInv, f
<1>14. OvsInv'
  <2>1. CASE f = OVS_DEFAULT
    <3>1. files'[OVS_DEFAULT] \in NewTexts /\ files'[OVS_DEFAULT] # Missing
      BY <1>3, <1>6, <2>1 DEF Distinct, NewTexts, OvsTexts
    <3>2. task.hook \in Writing => task.restart
      BY <1>1, <2>1 DEF Ordered, f
    <3> QED BY <1>1, <1>2, <1>5, <3>1, <3>2 DEF OvsInv, HostInv, Same
  <2>2. CASE f # OVS_DEFAULT
    BY <1>1, <1>2, <1>3, <1>5, <2>2 DEF OvsInv, Same, f
  <2> QED BY <2>1, <2>2
<1> QED BY <1>8, <1>9, <1>10, <1>11, <1>12, <1>13, <1>14

LEMMA RestartFiles == ASSUME Distinct, FilesInv, RestartOvs PROVE FilesInv'
<1> USE DEF FilesInv
<1> USE DEF FileNames, NEUTRON_CONF, OVS_DEFAULT, DHCP_AGENT, METADATA, SHARED_SECRET, NoFile
<1> DEFINE differs == files[OVS_DEFAULT] # task.before
<1>1. /\ task.hook \in Writing /\ task.file = NoFile /\ task.left = NoPart /\ task.restart
      /\ UNCHANGED <<given, changes, files, use_fqdn, plugin, retry, kills>>
      /\ ovs' = IF differs THEN files[OVS_DEFAULT] ELSE ovs
  <2>1. task.restart /\ task.hook # NoHook
    <3>1. task.restart
      BY DEF RestartOvs
    <3>2. Idle.restart = FALSE
      BY DEF Idle
    <3>3. task.hook = NoHook => task = Idle
      BY DEF Ordered
    <3> QED BY <3>1, <3>2, <3>3
  <2>2. task.hook \in Writing
    BY <2>1 DEF Ordered, FilesTypeOK
  <2> QED BY <2>1, <2>2 DEF RestartOvs, NoPart
<1>2. task' = [hook |-> task.hook, left |-> NoPart, file |-> NoFile, text |-> task.text,
               before |-> task.before, restart |-> FALSE, join |-> task.join]
  BY <1>1 DEF RestartOvs, FilesTypeOK
<1>3. NoPart \notin BeforeConf \cup BeforeOvs
  BY FirstConf, FirstOvs
<1>4. files[OVS_DEFAULT] \in NewTexts
  BY <1>1, <1>3 DEF OvsInv
<1>5. files[OVS_DEFAULT] \in OvsTexts /\ files[OVS_DEFAULT].trigger # 0
  BY <1>4 DEF NewTexts, OvsTexts
<1>6. memory' = [memory EXCEPT !.lost = IF differs THEN FALSE ELSE @,
                               !.outage = \/ @
                                          \/ /\ differs /\ task.before # Empty /\ ~memory.lost
                                             /\ SaysTheSame(ovs, files[OVS_DEFAULT])]
  BY DEF RestartOvs
\* Had the file not said what Open vSwitch runs with, it would be another one.
<1>7. differs /\ ~memory.lost => ~SaysTheSame(ovs, files[OVS_DEFAULT])
  <2> SUFFICES ASSUME differs, ~memory.lost PROVE ~Same(files[OVS_DEFAULT])
    BY <1>5, Says
  <2>1. CASE ovs.trigger = 0
    BY <1>5, <2>1 DEF Same
  <2>2. CASE task.before \in NewTexts /\ Same(task.before)
    BY <1>4, <2>2 DEF Same, NewTexts
  <2> QED BY <1>1, <2>1, <2>2 DEF OvsInv
<1>8. /\ memory'.secrets = memory.secrets /\ memory'.torn = memory.torn /\ memory'.hosts = memory.hosts
      /\ memory'.unresolved = memory.unresolved
      /\ memory'.veth = memory.veth
      /\ memory'.lost = IF differs THEN FALSE ELSE memory.lost
      /\ memory'.outage = FALSE
  BY <1>6, <1>7 DEF FilesTypeOK, OvsInv
<1> HIDE DEF differs
<1>9. FilesTypeOK'
  <2>1. memory' \in [secrets : Nat, torn : BOOLEAN, hosts : SUBSET {"fqdn", "short"}, unresolved : BOOLEAN,
                     lost : BOOLEAN, outage : BOOLEAN, veth : {"None"} \cup Veths]
    BY <1>6, <1>8 DEF FilesTypeOK
  <2>2. ovs' \in OvsTexts
    BY <1>1, <1>5 DEF FilesTypeOK
  <2> QED BY <1>1, <1>2, <2>1, <2>2 DEF FilesTypeOK
<1>10. Ordered'
  BY <1>1, <1>2 DEF Ordered, AfterOvs, NoHook, Writing
<1>11. Rendered' /\ OneSecret'
  BY <1>1, <1>2 DEF Rendered, OneSecret
<1>12. VethInv'
  BY <1>1, <1>2, <1>8 DEF VethInv
<1>13. HostInv'
  BY <1>1, <1>2, <1>3, <1>8 DEF HostInv, Resolved, HostOfConf, HostName
<1>14. OvsInv'
  <2>1. CASE differs
    <3>1. retry \notin {"install", "upgrade-charm"}
      BY <1>1 DEF Ordered, Writing, NoHook
    <3>2. ovs' = files[OVS_DEFAULT] /\ files' = files /\ retry' = retry
      BY <1>1, <2>1
    <3>3. files'[OVS_DEFAULT] \in NewTexts /\ Same(files[OVS_DEFAULT])'
      BY <1>4, <3>2 DEF Same
    <3> QED BY <1>1, <1>2, <1>8, <3>1, <3>2, <3>3 DEF OvsInv, NoHook, Writing
  <2>2. CASE ~differs
    <3>1. ~memory.lost => Same(files[OVS_DEFAULT])
      <4>1. files[OVS_DEFAULT] = task.before
        BY <2>2 DEF differs
      <4>2. files[OVS_DEFAULT] # Missing
        BY <1>5 DEF Distinct
      <4> QED BY <1>1, <4>1, <4>2 DEF OvsInv
    <3> QED BY <1>1, <1>2, <1>4, <1>8, <2>2, <3>1 DEF OvsInv, Same, NoHook, Writing
  <2> QED BY <2>1, <2>2
<1> QED BY <1>9, <1>10, <1>11, <1>12, <1>13, <1>14

-----------------------------------------------------------------------------
\* The hook ends.
LEMMA SucceedFiles == ASSUME Distinct, FilesInv, Succeed PROVE FilesInv'
<1> USE DEF FilesInv
<1> USE DEF FileNames, NEUTRON_CONF, OVS_DEFAULT, DHCP_AGENT, METADATA, SHARED_SECRET, NoFile, NoHook
<1>r. PICK resolves \in BOOLEAN :
         /\ task.join =>
               /\ plugin' = [secret |-> IF ~given.local \/ files[SHARED_SECRET] = Empty THEN Missing
                                        ELSE files[SHARED_SECRET],
                             host |-> IF use_fqdn THEN HostName(resolves) ELSE "unset"]
               /\ files' = [f \in DOMAIN files |->
                              IF f \in {METADATA, DHCP_AGENT} /\ ~given.local
                              THEN Missing ELSE files[f]]
         /\ ~task.join => UNCHANGED <<plugin, files>>
         /\ memory' = [memory EXCEPT
                          !.veth = IF task.join /\ ~given.local THEN "None" ELSE @,
                          !.torn = @ /\ (task.join => given.local),
                          !.unresolved = @ \/ (task.join /\ use_fqdn /\ ~resolves),
                          !.lost = \/ @
                                   \/ /\ task.hook = "upgrade-charm"
                                      /\ ~SaysTheSame(ovs, files[OVS_DEFAULT])]
  BY DEF Succeed
<1>1. /\ task.hook \in {"upgrade-charm"} \cup Writing /\ task.file = NoFile /\ task.left = NoPart
      /\ ~task.restart /\ task' = Idle
      /\ retry' = IF task.hook = "upgrade-charm" THEN "config-changed" ELSE NoHook
      /\ UNCHANGED <<given, changes, use_fqdn, ovs, kills>>
  BY DEF Succeed, FilesTypeOK, NoPart, Writing
<1>2. NoPart \notin BeforeConf \cup BeforeOvs /\ NoPart # <<OVS_DEFAULT>>
  BY FirstConf, FirstOvs DEF NoPart
<1>3. files[OVS_DEFAULT] \in NewTexts
  BY <1>1, <1>2 DEF OvsInv
<1>4. /\ files' = [f \in FileNames |-> files'[f]]
      /\ files'[SHARED_SECRET] = files[SHARED_SECRET]
      /\ files'[OVS_DEFAULT] = files[OVS_DEFAULT]
      /\ files'[METADATA] \in {Missing, files[METADATA]}
      /\ files'[DHCP_AGENT] = IF task.join /\ ~given.local THEN Missing ELSE files[DHCP_AGENT]
  BY <1>r DEF FilesTypeOK
<1>5. /\ plugin'.secret \in {Missing, plugin.secret, files[SHARED_SECRET]}
      /\ plugin'.host = IF task.join THEN IF use_fqdn THEN HostName(resolves) ELSE "unset"
                         ELSE plugin.host
      /\ plugin' = [secret |-> plugin'.secret, host |-> plugin'.host]
  <2>1. CASE task.join
    <3>1. plugin' = [secret |-> IF ~given.local \/ files[SHARED_SECRET] = Empty THEN Missing
                                ELSE files[SHARED_SECRET],
                     host |-> IF use_fqdn THEN HostName(resolves) ELSE "unset"]
      BY <1>r, <2>1
    <3> QED BY <2>1, <3>1
  <2>2. CASE ~task.join
    <3>1. plugin' = plugin
      BY <1>r, <2>2
    <3>2. plugin = [secret |-> plugin.secret, host |-> plugin.host]
      BY DEF FilesTypeOK
    <3> QED BY <2>2, <3>1, <3>2
  <2> QED BY <2>1, <2>2, task.join \in BOOLEAN DEF FilesTypeOK
<1>7. /\ memory'.secrets = memory.secrets /\ memory'.hosts = memory.hosts
      /\ memory'.outage = memory.outage
      /\ memory'.veth = IF task.join /\ ~given.local THEN "None" ELSE memory.veth
      /\ memory'.torn = (memory.torn /\ (task.join => given.local))
      /\ memory'.unresolved = (memory.unresolved \/ (task.join /\ use_fqdn /\ ~resolves))
      /\ memory'.lost = \/ memory.lost
                        \/ /\ task.hook = "upgrade-charm"
                           /\ ~SaysTheSame(ovs, files[OVS_DEFAULT])
  BY <1>r DEF FilesTypeOK
<1>8. FilesTypeOK'
  <2>1. memory' \in [secrets : Nat, torn : BOOLEAN, hosts : SUBSET {"fqdn", "short"}, unresolved : BOOLEAN,
                     lost : BOOLEAN, outage : BOOLEAN, veth : {"None"} \cup Veths]
    <3>1. memory'.lost \in BOOLEAN /\ memory'.torn \in BOOLEAN /\ memory'.unresolved \in BOOLEAN
      BY <1>7, ZenonT(20)
    <3>2. memory' = [secrets |-> memory'.secrets, torn |-> memory'.torn, hosts |-> memory'.hosts,
                     unresolved |-> memory'.unresolved,
                     lost |-> memory'.lost, outage |-> memory'.outage, veth |-> memory'.veth]
      BY <1>r DEF FilesTypeOK
    <3>3. /\ memory'.secrets \in Nat /\ memory'.hosts \in SUBSET {"fqdn", "short"}
          /\ memory'.outage \in BOOLEAN /\ memory'.veth \in {"None"} \cup Veths
      BY <1>7 DEF FilesTypeOK
    <3> QED BY <3>1, <3>2, <3>3
  <2>2. /\ task' = [hook |-> task'.hook, left |-> task'.left, file |-> task'.file, text |-> task'.text,
                    before |-> task'.before, restart |-> task'.restart, join |-> task'.join]
        /\ task'.hook = NoHook /\ task'.file = NoFile
        /\ task'.restart \in BOOLEAN /\ task'.join \in BOOLEAN
    BY <1>1 DEF Idle
  <2>3. retry' \in HookNames \cup {NoHook}
    BY <1>1 DEF HookNames
  <2>4. plugin'.host \in {"unset", "fqdn", "short"}
    BY <1>5 DEF FilesTypeOK, HostName
  <2> QED BY <1>1, <1>4, <1>5, <2>1, <2>2, <2>3, <2>4 DEF FilesTypeOK
<1>9. Ordered' /\ Rendered'
  BY <1>1 DEF Ordered, Rendered, Idle, Writing
<1>10. OneSecret'
  BY <1>4, <1>5 DEF OneSecret
<1>11. VethInv'
  BY <1>1, <1>4, <1>7 DEF VethInv, Idle
<1>12. HostInv'
  <2>1. task.join /\ ~memory.unresolved => memory.hosts = {Resolved}
    BY <1>1, <1>2 DEF Ordered, HostInv
  <2>2. (use_fqdn => Resolved = "fqdn") /\ Resolved' = Resolved
    BY <1>1 DEF HostInv, Resolved, HostOfConf, HostName
  <2>3. ~memory'.unresolved => /\ ~memory.unresolved
                               /\ task.join /\ use_fqdn => resolves
    BY <1>7
  <2>4. ~memory'.unresolved => /\ plugin'.host # "short"
                               /\ plugin'.host = "fqdn" => memory.hosts = {"fqdn"}
    BY <1>5, <2>1, <2>2, <2>3 DEF HostInv, HostName
  <2>5. ~use_fqdn => plugin'.host = "unset"
    BY <1>5 DEF HostInv
  <2> QED BY <1>1, <1>7, <2>2, <2>3, <2>4, <2>5 DEF HostInv, Idle, Writing
<1>13. OvsInv'
  <2>1. files[OVS_DEFAULT] \in OvsTexts
    BY <1>3 DEF NewTexts, OvsTexts
  <2>2. ~memory'.lost => Same(files[OVS_DEFAULT])
    <3>1. CASE task.hook = "upgrade-charm"
      BY <1>7, <2>1, <3>1, Says
    <3>2. CASE task.hook \in Writing
      BY <1>1, <1>7, <3>2 DEF OvsInv
    <3> QED BY <1>1, <3>1, <3>2
  <2> QED BY <1>1, <1>3, <1>4, <1>7, <2>2 DEF OvsInv, Same, Idle, Writing
<1> QED BY <1>8, <1>9, <1>10, <1>11, <1>12, <1>13

LEMMA KillFiles == ASSUME Distinct, FilesInv, FilesKill PROVE FilesInv'
<1> USE DEF FilesInv
<1> USE DEF FileNames, NEUTRON_CONF, OVS_DEFAULT, DHCP_AGENT, METADATA, SHARED_SECRET, NoFile, NoHook
<1>1. /\ task.hook \in {"upgrade-charm"} \cup Writing /\ task' = Idle /\ retry' = task.hook
      /\ UNCHANGED <<given, changes, files, use_fqdn, plugin, ovs>>
  BY DEF FilesKill, FilesTypeOK
<1>2. memory' = [memory EXCEPT !.torn = @ \/ task.file = DHCP_AGENT, !.lost = @ \/ task.restart]
  BY DEF FilesKill
<1>3. /\ memory'.secrets = memory.secrets /\ memory'.hosts = memory.hosts
      /\ memory'.outage = memory.outage /\ memory'.veth = memory.veth
      /\ memory'.unresolved = memory.unresolved
      /\ memory'.torn = (memory.torn \/ task.file = DHCP_AGENT)
      /\ memory'.lost = (memory.lost \/ task.restart)
  BY <1>2 DEF FilesTypeOK
<1>4. FilesTypeOK'
  <2>1. memory' \in [secrets : Nat, torn : BOOLEAN, hosts : SUBSET {"fqdn", "short"}, unresolved : BOOLEAN,
                     lost : BOOLEAN, outage : BOOLEAN, veth : {"None"} \cup Veths]
    <3>1. memory'.lost \in BOOLEAN /\ memory'.torn \in BOOLEAN
      BY <1>3, ZenonT(20)
    <3>2. memory' = [secrets |-> memory'.secrets, torn |-> memory'.torn, hosts |-> memory'.hosts,
                     unresolved |-> memory'.unresolved,
                     lost |-> memory'.lost, outage |-> memory'.outage, veth |-> memory'.veth]
      BY <1>2 DEF FilesTypeOK
    <3>3. /\ memory'.secrets \in Nat /\ memory'.hosts \in SUBSET {"fqdn", "short"}
          /\ memory'.unresolved \in BOOLEAN /\ memory'.outage \in BOOLEAN /\ memory'.veth \in {"None"} \cup Veths
      BY <1>3 DEF FilesTypeOK
    <3> QED BY <3>1, <3>2, <3>3
  <2>2. /\ task' = [hook |-> task'.hook, left |-> task'.left, file |-> task'.file, text |-> task'.text,
                    before |-> task'.before, restart |-> task'.restart, join |-> task'.join]
        /\ task'.hook = NoHook /\ task'.file = NoFile
        /\ task'.restart \in BOOLEAN /\ task'.join \in BOOLEAN
    BY <1>1 DEF Idle
  <2>3. retry' \in HookNames
    BY <1>1 DEF HookNames, Writing
  <2> QED BY <1>1, <2>1, <2>2, <2>3 DEF FilesTypeOK
<1>5. Ordered' /\ Rendered'
  BY <1>1 DEF Ordered, Rendered, Idle, Writing
<1>6. OneSecret'
  BY <1>1 DEF OneSecret
<1>7. VethInv'
  BY <1>1, <1>3 DEF VethInv, Idle
<1>8. HostInv'
  BY <1>1, <1>3 DEF HostInv, Resolved, HostOfConf, HostName, Idle, Writing
<1>9. OvsInv'
  <2>1. CASE task.hook = "upgrade-charm"
    BY <1>1, <1>3, <2>1 DEF OvsInv, Ordered, Idle, Writing
  <2>2. CASE task.hook \in Writing
    BY <1>1, <1>3, <2>2 DEF OvsInv, Same, Idle, Writing
  <2> QED BY <1>1, <2>1, <2>2
<1> QED BY <1>4, <1>5, <1>6, <1>7, <1>8, <1>9

LEMMA FilesInductive == ASSUME Distinct, FilesInv, [FilesNext]_file_vars PROVE FilesInv'
<1>1. CASE UNCHANGED file_vars
  <2>1. UNCHANGED <<given, changes, files, use_fqdn, plugin, ovs, task, retry, kills, memory>>
    BY <1>1 DEF file_vars
  <2>2. FilesTypeOK' /\ Ordered' /\ Rendered'
    BY <2>1 DEF FilesInv, FilesTypeOK, Ordered, Rendered, Resolved, HostOfConf, HostName
  <2>3. OneSecret' /\ VethInv' /\ HostInv' /\ OvsInv'
    BY <2>1 DEF FilesInv, OneSecret, VethInv, HostInv, Resolved, HostOfConf, HostName, OvsInv, Same
  <2> QED BY <2>2, <2>3 DEF FilesInv
<1> QED
  BY <1>1, ChangeFiles, InstallFiles, UpgradeFiles, WritingFiles, SecretFiles, OpenFiles,
     WriteFiles, RestartFiles, SucceedFiles, KillFiles DEF FilesNext

LEMMA InvGivesKept == ASSUME Distinct, FilesInv PROVE FilesKept
<1> USE DEF FilesInv
<1>1. VethKept
  <2>1. task.file = DHCP_AGENT => files[DHCP_AGENT] = Empty
    BY DEF Rendered, NoFile, DHCP_AGENT
  <2> QED BY <2>1 DEF VethInv, VethKept
<1>2. HostKept
  BY DEF HostInv, HostKept
<1>3. RestartedForCause
  <2>1. task.hook = NoHook /\ retry = NoHook /\ ~memory.lost =>
           files[OVS_DEFAULT] \in OvsTexts /\ Same(files[OVS_DEFAULT])
    BY DEF OvsInv, NoHook, NewTexts, OvsTexts
  <2> QED BY <2>1, Says DEF RestartedForCause, OvsInv
<1> QED BY <1>1, <1>2, <1>3 DEF FilesKept

\* However many hooks are killed and inputs changed: the agents and the principal hold
\* one secret, the veth setting stays what it was first, and Open vSwitch is restarted
\* when, and only when, its options have changed.  The host name stays what it was first
\* as long as no hook asks the resolver in vain, and whatever the resolver says on a unit
\* deployed with short names.  Contents are not taken for missing or empty files.  (get_shared_secret, get_ovs_use_veth,
\* use_fqdn_hint, upgrade_charm, restart_on_change)
THEOREM FilesAreKept == FilesSpec => []FilesKept
<1>0. Distinct
  BY ContentsAssumption DEF Distinct, Veths, OvsTexts
<1>1. FilesInit => FilesInv
  BY <1>0, InitFiles
<1>2. FilesInv /\ [FilesNext]_file_vars => FilesInv'
  BY <1>0, FilesInductive
<1>3. FilesInv => FilesKept
  BY <1>0, InvGivesKept
<1> QED BY <1>1, <1>2, <1>3, PTL DEF FilesSpec

-----------------------------------------------------------------------------
\* Policyd: the overrides of a service are those of one resource, all of them when the
\* unit says so and none when it says that they are broken.

Entry == [name : Entries, valid : BOOLEAN]
Stored == [name : Entries \cup {Kept}, number : Nat]
PolicyHooks == {"install", "upgrade-charm", "config-changed"}

\* The files of the resource that the hook which writes has written so far.
Count == Len(resource.files) - Len(doing.left)
Written(k) == {File(resource.files[i].name, resource.number) : i \in 1..k}
Installed == Overrides = Written(Len(resource.files))

PolicyTypeOK ==
    /\ enabled \in BOOLEAN /\ success \in BOOLEAN
    /\ resource.number \in Nat /\ resource.whole \in BOOLEAN
    /\ resource.files \in Seq(Entry)
    /\ policy_d \subseteq Stored
    /\ doing \in [at : {"idle", "disable", "open", "write", "failed", "end"},
                  hook : PolicyHooks \cup {"none"}, left : Seq(Entry), remove : SUBSET Stored]
    /\ pending \subseteq PolicyHooks
    /\ processed \in [number : Nat, ok : BOOLEAN, stale : BOOLEAN]

\* No name twice in a resource that was accepted as a whole.
NamesDiffer ==
    resource.whole => \A i, j \in 1..Len(resource.files) :
                         i # j => resource.files[i].name # resource.files[j].name

\* What is there while the resource is written: the files to be removed, or those of
\* the resource that have had their turn.
PolicyWriting ==
    /\ resource.whole /\ ~success /\ ~processed.stale
    /\ Count \in 0..Len(resource.files)
    /\ \A j \in 1..Len(doing.left) : doing.left[j] = resource.files[Count + j]
    /\ doing.remove # {} => Count = 0
    /\ Overrides = doing.remove \cup Written(Count)

\* What a hook knows at each place.
Places ==
    /\ doing.at \in {"open", "write", "failed"} => enabled
    /\ doing.at \in {"idle", "open", "end"} => doing.remove = {}
    /\ doing.at = "disable" => ~enabled /\ Overrides \subseteq doing.remove
    /\ doing.at = "failed" => Overrides \subseteq doing.remove /\ (success => processed.stale)
    /\ doing.at = "open" /\ doing.hook = "config-changed" => ~success
    /\ doing.at = "write" => PolicyWriting
    /\ doing.at = "end" => \/ ~enabled /\ Overrides = {} /\ ~success
                           \/ /\ enabled /\ success
                              /\ doing.hook = "config-changed" \/ processed.stale \/ Installed

\* A file of success says what is installed, until a hook that is due sees to it.
Truthful ==
    success /\ ~processed.stale =>
        doing.at = "disable" \/ Installed \/ "upgrade-charm" \in pending

PolicyInv ==
    /\ PolicyTypeOK
    /\ NamesDiffer
    /\ KeptAlone
    /\ \A f \in doing.remove : f.name # Kept
    /\ OneResource
    /\ doing.at # "idle" => doing.hook # "none"
    /\ doing.hook # "none" => doing.hook \in pending
    /\ Places
    /\ Truthful
    /\ BrokenHasNone

-----------------------------------------------------------------------------
LEMMA OverridesAreUnkept == ASSUME KeptAlone PROVE Unkept = Overrides
  BY DEF KeptAlone, Unkept, Overrides, Own, File

LEMMA PolicyInitial == PolicyInit => PolicyInv
<1> SUFFICES ASSUME PolicyInit PROVE PolicyInv
  OBVIOUS
<1>1. PolicyTypeOK
  <2>1. policy_d \subseteq Stored
    BY DEF PolicyInit, Own, File, Stored
  <2>2. doing = [at |-> "idle", hook |-> "none", left |-> <<>>, remove |-> {}]
    BY DEF PolicyInit, NotDoing
  <2>3. <<>> \in Seq(Entry)
    BY EmptySeq
  <2>4. /\ resource.number \in Nat /\ resource.whole \in BOOLEAN
        /\ resource.files \in Seq(Entry)
    BY <2>3 DEF PolicyInit, NoResource
  <2>5. doing \in [at : {"idle", "disable", "open", "write", "failed", "end"},
                  hook : PolicyHooks \cup {"none"}, left : Seq(Entry), remove : SUBSET Stored]
    BY <2>2, <2>3
  <2>6. processed \in [number : Nat, ok : BOOLEAN, stale : BOOLEAN]
    BY DEF PolicyInit
  <2> QED
    BY <2>1, <2>4, <2>5, <2>6 DEF PolicyInit, PolicyTypeOK, PolicyHooks
<1>2. NamesDiffer
  BY DEF PolicyInit, NamesDiffer, NoResource
<1>3. Overrides = {} /\ KeptAlone
  BY DEF PolicyInit, Overrides, KeptAlone, Own, File
<1> QED
  BY <1>1, <1>2, <1>3 DEF PolicyInit, PolicyInv, NotDoing, OneResource, Places, Truthful, BrokenHasNone, PolicySettled

LEMMA ResourceFiles ==
  ASSUME NEW n \in Nat, NEW r \in Resources(n)
  PROVE  /\ r.number = n /\ r.whole \in BOOLEAN /\ r.files \in Seq(Entry)
         /\ r.whole => \A i, j \in 1..Len(r.files) : i # j => r.files[i].name # r.files[j].name
<1>1. /\ r.number = n /\ r.whole \in BOOLEAN
      /\ r.files \in UNION {[1..k -> Entry] : k \in 1..2}
      /\ r.whole => \A i, j \in DOMAIN r.files : i # j => r.files[i].name # r.files[j].name
  BY DEF Resources, Entry
<1>2. PICK k \in 1..2 : r.files \in [1..k -> Entry]
  BY <1>1
<1>3. r.files \in Seq(Entry)
  BY <1>2, SeqDef
<1>4. DOMAIN r.files = 1..Len(r.files)
  BY <1>3
<1> QED
  BY <1>1, <1>3, <1>4

-----------------------------------------------------------------------------
LEMMA OperatorPolicy ==
  ASSUME PolicyInv, SetOption \/ AttachResource
  PROVE  PolicyInv'
<1> USE DEF PolicyInv
<1>1. CASE SetOption
  <2>1. PolicyTypeOK'
    BY <1>1 DEF SetOption, PolicyTypeOK, PolicyHooks
  <2>2. Overrides' = Overrides /\ Installed' = Installed
    BY <1>1 DEF SetOption, Overrides, Installed, Written
  <2>3. Places' /\ BrokenHasNone'
    BY <1>1, <2>2 DEF SetOption, Places, BrokenHasNone, PolicySettled
  <2>4. Truthful'
    BY <1>1, <2>2 DEF SetOption, Truthful
  <2> QED
    BY <1>1, <2>1, <2>2, <2>3, <2>4 DEF SetOption, NamesDiffer, KeptAlone, OneResource
<1>2. CASE AttachResource
  <2>1. resource' \in Resources(resource.number + 1) /\ resource.number + 1 \in Nat
    BY <1>2 DEF AttachResource, PolicyTypeOK
  <2>2. PolicyTypeOK' /\ NamesDiffer'
    BY <1>2, <2>1, ResourceFiles DEF AttachResource, PolicyTypeOK, PolicyHooks, NamesDiffer
  <2> QED
    BY <1>2, <2>2 DEF AttachResource, KeptAlone, OneResource, Overrides,
       Places, Truthful, BrokenHasNone, PolicySettled
<1> QED
  BY <1>1, <1>2

LEMMA BeginPolicy ==
  ASSUME PolicyInv, NEW h \in PolicyHooks, maybe_do_policyd_overrides(h)
  PROVE  PolicyInv'
<1> USE DEF PolicyInv
<1> DEFINE at == IF ~enabled THEN "disable"
                 ELSE IF h = "config-changed" /\ success THEN "end" ELSE "open"
           remove == IF ~enabled THEN Unkept ELSE {}
<1>1. doing' = [at |-> at, hook |-> h, left |-> <<>>, remove |-> remove]
  BY DEF maybe_do_policyd_overrides, NotDoing
<1>2. PolicyTypeOK'
  <2>1. <<>> \in Seq(Entry)
    BY EmptySeq
  <2> QED
    <3>1. remove \subseteq Stored /\ at \in {"disable", "end", "open"}
      BY DEF PolicyTypeOK, Unkept
    <3> HIDE DEF remove, at
    <3>2. doing' \in [at : {"idle", "disable", "open", "write", "failed", "end"},
                      hook : PolicyHooks \cup {"none"}, left : Seq(Entry), remove : SUBSET Stored]
      BY <1>1, <2>1, <3>1
    <3> QED
      BY <3>2 DEF maybe_do_policyd_overrides, PolicyTypeOK
<1>3. Unkept = Overrides
  BY OverridesAreUnkept
<1>4. Places'
  BY <1>1, <1>3 DEF maybe_do_policyd_overrides, Places, Overrides
<1>5. Truthful'
  BY <1>1 DEF maybe_do_policyd_overrides, Truthful, Installed, Written, Overrides
<1>6. BrokenHasNone'
  BY <1>1 DEF BrokenHasNone, PolicySettled
<1>7. \A f \in doing'.remove : f.name # Kept
  BY <1>1 DEF Unkept
<1>8. NamesDiffer' /\ KeptAlone' /\ OneResource'
  BY DEF maybe_do_policyd_overrides, NamesDiffer, KeptAlone, OneResource, Overrides
<1>9. doing'.hook # "none" /\ doing'.hook \in pending'
  BY <1>1 DEF maybe_do_policyd_overrides, PolicyHooks
<1> QED
  BY <1>2, <1>4, <1>5, <1>6, <1>7, <1>8, <1>9
LEMMA RemovePolicy ==
  ASSUME PolicyInv, RemoveFile
  PROVE  PolicyInv'
<1> USE DEF PolicyInv
<1>1. PICK f \in doing.remove : /\ policy_d' = policy_d \ {f}
                                /\ doing' = [doing EXCEPT !.remove = @ \ {f}]
  BY DEF RemoveFile
<1>2. /\ doing'.at = doing.at /\ doing'.hook = doing.hook /\ doing'.left = doing.left
      /\ doing'.remove = doing.remove \ {f}
      /\ PolicyTypeOK'
  BY <1>1 DEF RemoveFile, PolicyTypeOK
<1>3. f.name # Kept /\ f # Own
  BY DEF Own, File
<1>4. Overrides' = Overrides \ {f} /\ KeptAlone'
  BY <1>1, <1>3 DEF Overrides, KeptAlone
<1>5. doing.at \in {"disable", "write", "failed"}
  BY <1>1 DEF Places, PolicyTypeOK
<1>6. doing.at = "write" => PolicyWriting'
  <2> SUFFICES ASSUME doing.at = "write" PROVE PolicyWriting'
    OBVIOUS
  <2>1. PolicyWriting /\ Count = 0
    BY <1>1 DEF Places, PolicyWriting
  <2>2. Count' = 0 /\ Written(0) = {} /\ Written(0)' = {}
    BY <1>2, <2>1 DEF RemoveFile, Count, Written
  <2> QED
    BY <1>2, <1>4, <2>1, <2>2 DEF RemoveFile, PolicyWriting
<1>7. Places'
  BY <1>2, <1>4, <1>5, <1>6 DEF RemoveFile, Places
<1>8. Truthful' /\ BrokenHasNone'
  BY <1>2, <1>5 DEF RemoveFile, Truthful, BrokenHasNone, PolicySettled, Places, PolicyWriting
<1>9. NamesDiffer' /\ OneResource' /\ doing'.hook \in pending'
  BY <1>2, <1>4, <1>5 DEF RemoveFile, NamesDiffer, OneResource
<1> QED
  BY <1>2, <1>4, <1>5, <1>7, <1>8, <1>9 DEF RemoveFile

LEMMA DisabledPolicy ==
  ASSUME PolicyInv, remove_policy_success_file
  PROVE  PolicyInv'
<1> USE DEF PolicyInv
<1>1. PolicyTypeOK' /\ doing'.at = "end" /\ doing'.hook = doing.hook /\ doing'.remove = {}
  BY DEF remove_policy_success_file, PolicyTypeOK
<1>2. Overrides' = {} /\ ~enabled' /\ ~success'
  BY DEF remove_policy_success_file, Places, Overrides
<1> QED
  BY <1>1, <1>2 DEF remove_policy_success_file, NamesDiffer, KeptAlone, OneResource, Places,
     Truthful, BrokenHasNone, PolicySettled

LEMMA OpenPolicy ==
  ASSUME PolicyInv, open_and_filter_yaml_files
  PROVE  PolicyInv'
<1> USE DEF PolicyInv
<1>1. Unkept = Overrides /\ Overrides' = Overrides /\ Unkept \subseteq Stored
  BY OverridesAreUnkept DEF open_and_filter_yaml_files, Overrides, Unkept, PolicyTypeOK
<1>2. /\ processed' = [number |-> resource.number, ok |-> FALSE, stale |-> ~resource.whole]
      /\ UNCHANGED <<enabled, resource, policy_d, pending>> /\ enabled
  BY DEF open_and_filter_yaml_files, Places
<1>3. CASE resource.whole
  <2>1. /\ doing' = [doing EXCEPT !.at = "write", !.left = resource.files, !.remove = Unkept]
        /\ success' = FALSE
    BY <1>3 DEF open_and_filter_yaml_files
  <2>2. /\ doing'.at = "write" /\ doing'.hook = doing.hook
        /\ doing'.left = resource.files /\ doing'.remove = Overrides
    BY <1>1, <2>1 DEF PolicyTypeOK
  <2>3. PolicyTypeOK'
    BY <1>1, <1>2, <2>1 DEF PolicyTypeOK
  <2>4. PolicyWriting'
    <3>1. Count' = 0 /\ Len(resource.files) \in Nat
      BY <1>2, <2>2 DEF Count, PolicyTypeOK
    <3>2. (Written(Count))' = {}
      BY <3>1 DEF Written
    <3>3. \A j \in 1..Len(doing'.left) : doing'.left[j] = resource'.files[Count' + j]
      BY <1>2, <2>2, <3>1
    <3>4. Count' \in 0..Len(resource'.files)
      BY <1>2, <3>1
    <3> QED
      BY <1>1, <1>2, <1>3, <2>1, <2>2, <3>1, <3>2, <3>3, <3>4 DEF PolicyWriting
  <2>5. Places' /\ Truthful' /\ BrokenHasNone'
    BY <1>2, <2>1, <2>2, <2>4 DEF Places, Truthful, BrokenHasNone, PolicySettled
  <2> QED
    BY <1>1, <1>2, <2>2, <2>3, <2>5 DEF open_and_filter_yaml_files, NamesDiffer, KeptAlone,
       OneResource, Unkept
<1>4. CASE ~resource.whole
  <2>1. /\ doing' = [doing EXCEPT !.at = "failed", !.remove = Unkept]
        /\ success' = success
    BY <1>4 DEF open_and_filter_yaml_files
  <2>2. /\ doing'.at = "failed" /\ doing'.hook = doing.hook /\ doing'.remove = Overrides
    BY <1>1, <2>1 DEF PolicyTypeOK
  <2>3. PolicyTypeOK'
    BY <1>1, <1>2, <2>1 DEF PolicyTypeOK
  <2>4. Places' /\ Truthful' /\ BrokenHasNone'
    BY <1>1, <1>2, <1>4, <2>1, <2>2 DEF Places, Truthful, BrokenHasNone, PolicySettled
  <2> QED
    BY <1>1, <1>2, <2>2, <2>3, <2>4 DEF open_and_filter_yaml_files, NamesDiffer, KeptAlone,
       OneResource, Unkept
<1> QED
  BY <1>3, <1>4
\* An entry that is accepted is the next file of the resource.
LEMMA WritePolicy ==
  ASSUME PolicyInv, WriteOverride
  PROVE  PolicyInv'
<1> USE DEF PolicyInv
<1> DEFINE e == Head(doing.left)
<1>1. /\ doing.at = "write" /\ doing.remove = {} /\ doing.left # <<>> /\ PolicyWriting /\ enabled
      /\ UNCHANGED <<enabled, resource, success, pending, processed>>
  BY DEF WriteOverride, Places
<1>2. /\ doing.left \in Seq(Entry) /\ resource.files \in Seq(Entry)
      /\ Len(doing.left) \in Nat \ {0} /\ e = doing.left[1]
  BY <1>1, EmptySeq DEF PolicyTypeOK
<1>3. /\ Count + 1 \in 1..Len(resource.files) /\ e = resource.files[Count + 1]
      /\ Count \in Nat /\ Len(resource.files) \in Nat
      /\ e \in Entry
  <2>1. Count = Len(resource.files) - Len(doing.left) /\ Len(resource.files) \in Nat
    BY <1>2 DEF Count
  <2> DEFINE all == Len(resource.files)
             left == Len(doing.left)
             k == Count
  <2>2. k \in 0..all /\ k = all - left /\ all \in Nat /\ left \in Nat \ {0}
    BY <1>1, <1>2, <2>1 DEF PolicyWriting
  <2> HIDE DEF all, left, k
  <2>4. k \in Nat /\ k + 1 \in 1..all /\ 1 \in 1..left
    BY <2>2
  <2> USE DEF all, left, k
  <2>3. doing.left[1] = resource.files[Count + 1]
    BY <1>1, <2>4 DEF PolicyWriting
  <2>5. resource.files[Count + 1] \in Entry
    BY <1>2, <2>4
  <2> QED
    BY <1>2, <2>1, <2>3, <2>4, <2>5
<1>4. CASE e.name # Kept /\ e.valid
  <2>1. /\ policy_d' = {f \in policy_d : f.name # e.name} \cup {File(e.name, resource.number)}
        /\ doing' = [doing EXCEPT !.left = Tail(@)]
    BY <1>4 DEF WriteOverride
  <2>2. /\ doing'.at = "write" /\ doing'.hook = doing.hook /\ doing'.remove = {}
        /\ doing'.left = Tail(doing.left) /\ Tail(doing.left) \in Seq(Entry)
        /\ Len(Tail(doing.left)) = Len(doing.left) - 1
        /\ \A j \in 1..Len(Tail(doing.left)) : Tail(doing.left)[j] = doing.left[j + 1]
    BY <1>1, <1>2, <2>1 DEF PolicyTypeOK
  <2>3. PolicyTypeOK'
    <3>1. File(e.name, resource.number) \in Stored
      BY <1>3 DEF PolicyTypeOK, Entry, Stored, File
    <3>2. policy_d' \subseteq Stored
      BY <2>1, <3>1 DEF PolicyTypeOK
    <3>3. doing' \in [at : {"idle", "disable", "open", "write", "failed", "end"},
                     hook : PolicyHooks \cup {"none"}, left : Seq(Entry), remove : SUBSET Stored]
      BY <2>1, <2>2 DEF PolicyTypeOK
    <3> QED
      BY <1>1, <3>2, <3>3 DEF PolicyTypeOK
  <2>4. File(e.name, resource.number) # Own
    BY <1>4 DEF Own, File
  <2>5. KeptAlone'
    BY <1>4, <2>1, <2>4 DEF KeptAlone, File, Own
  <2>6. Overrides' = {f \in Overrides : f.name # e.name} \cup {File(e.name, resource.number)}
    BY <2>1, <2>4 DEF Overrides
  <2>7. Overrides = Written(Count)
    BY <1>1 DEF PolicyWriting
  <2>8. \A f \in Overrides : f.name # e.name
    <3> SUFFICES ASSUME NEW i \in 1..Count
                 PROVE  resource.files[i].name # e.name
      BY <2>7 DEF Written, File
    <3>1. i \in 1..Len(resource.files) /\ i # Count + 1
      BY <1>3
    <3> QED
      BY <1>1, <1>3, <3>1 DEF NamesDiffer, PolicyWriting
  <2>9. Count' = Count + 1
    <3>1. Count' = Len(resource.files) - (Len(doing.left) - 1)
      BY <1>1, <2>2 DEF Count
    <3>2. Count = Len(resource.files) - Len(doing.left)
      BY DEF Count
    <3> QED
      BY <1>2, <1>3, <3>1, <3>2
  <2>10. Overrides' = Written(Count + 1)
    <3>1. 1..(Count + 1) = (1..Count) \cup {Count + 1}
      BY <1>3
    <3>2. Written(Count + 1) = Written(Count) \cup {File(e.name, resource.number)}
      BY <1>3, <3>1 DEF Written
    <3> QED
      BY <2>6, <2>7, <2>8, <3>2
  <2>11. PolicyWriting'
    <3>1. \A j \in 1..Len(doing'.left) : doing'.left[j] = resource'.files[Count' + j]
      <4> TAKE j \in 1..Len(doing'.left)
      <4>1. j \in Nat /\ j + 1 \in 1..Len(doing.left) /\ doing'.left[j] = doing.left[j + 1]
        BY <1>2, <2>2
      <4>2. doing.left[j + 1] = resource.files[Count + (j + 1)]
        BY <1>1, <4>1 DEF PolicyWriting
      <4>3. Count + (j + 1) = Count' + j /\ resource' = resource
        BY <1>1, <1>3, <2>9, <4>1
      <4> QED
        BY <4>1, <4>2, <4>3
    <3>2. (Written(Count))' = Written(Count + 1)
      BY <1>1, <2>9 DEF Written
    <3> QED
      BY <1>1, <1>3, <2>2, <2>9, <2>10, <3>1, <3>2 DEF PolicyWriting
  <2>12. \A f \in Overrides' : f.number = resource.number
    BY <2>10 DEF Written, File
  <2> QED
    BY <1>1, <2>2, <2>3, <2>5, <2>11, <2>12 DEF NamesDiffer, OneResource, Places, Truthful,
       BrokenHasNone, PolicySettled, PolicyWriting
<1>5. CASE ~(e.name # Kept /\ e.valid)
  <2>1. doing' = [doing EXCEPT !.at = "failed", !.remove = Unkept] /\ policy_d' = policy_d
    BY <1>5 DEF WriteOverride
  <2>2. Unkept = Overrides /\ Overrides' = Overrides /\ Unkept \subseteq Stored
    BY <2>1, OverridesAreUnkept DEF Overrides, Unkept, PolicyTypeOK
  <2>3. /\ doing'.at = "failed" /\ doing'.hook = doing.hook /\ doing'.remove = Overrides
    BY <2>1, <2>2 DEF PolicyTypeOK
  <2>4. PolicyTypeOK'
    BY <1>1, <2>1, <2>2 DEF PolicyTypeOK
  <2>5. Places' /\ Truthful' /\ BrokenHasNone'
    BY <1>1, <2>2, <2>3 DEF Places, Truthful, BrokenHasNone, PolicySettled, PolicyWriting
  <2>6. KeptAlone' /\ OneResource' /\ NamesDiffer'
    BY <1>1, <2>1, <2>2 DEF KeptAlone, OneResource, NamesDiffer
  <2> QED
    BY <1>1, <2>2, <2>3, <2>4, <2>5, <2>6 DEF Unkept
<1> QED
  BY <1>4, <1>5

LEMMA SuccessPolicy ==
  ASSUME PolicyInv, set_policy_success_file
  PROVE  PolicyInv'
<1> USE DEF PolicyInv
<1>1. /\ doing.at = "write" /\ doing.remove = {} /\ doing.left = <<>> /\ PolicyWriting /\ enabled
      /\ UNCHANGED <<enabled, resource, policy_d, pending>> /\ success' = TRUE
  BY DEF set_policy_success_file, Places
<1>2. PolicyTypeOK' /\ doing'.at = "end" /\ doing'.hook = doing.hook /\ doing'.remove = {}
  BY <1>1 DEF set_policy_success_file, PolicyTypeOK
<1>3. Installed
  <2>1. Len(doing.left) = 0 /\ Len(resource.files) \in Nat
    BY <1>1 DEF PolicyTypeOK
  <2>2. Count = Len(resource.files)
    BY <2>1 DEF Count
  <2> QED
    BY <1>1, <2>2 DEF PolicyWriting, Installed
<1>4. Installed' /\ Overrides' = Overrides
  BY <1>1, <1>3 DEF Installed, Overrides, Written
<1> QED
  BY <1>1, <1>2, <1>4 DEF NamesDiffer, KeptAlone, OneResource, Places, Truthful, BrokenHasNone,
     PolicySettled

LEMMA EndPolicy ==
  ASSUME PolicyInv, EndHook
  PROVE  PolicyInv'
<1> USE DEF PolicyInv
<1>1. /\ doing' = NotDoing /\ doing.at \in {"end", "failed"} /\ doing.remove = {}
      /\ UNCHANGED <<enabled, resource, policy_d, success, processed>>
  BY DEF EndHook
<1>2. doing'.at = "idle" /\ doing'.hook = "none" /\ doing'.remove = {}
  BY <1>1 DEF NotDoing
<1>3. PolicyTypeOK'
  <2>1. <<>> \in Seq(Entry)
    BY EmptySeq
  <2>2. doing' \in [at : {"idle", "disable", "open", "write", "failed", "end"},
                  hook : PolicyHooks \cup {"none"}, left : Seq(Entry), remove : SUBSET Stored]
    BY <1>1, <2>1 DEF NotDoing
  <2>3. pending' \subseteq PolicyHooks
    BY DEF EndHook, PolicyTypeOK, PolicyHooks
  <2> QED
    BY <1>1, <2>2, <2>3 DEF PolicyTypeOK
<1>4. Overrides' = Overrides /\ Installed' = Installed
  BY <1>1 DEF Overrides, Installed, Written
<1>5. Truthful'
  <2>1. CASE doing.at = "failed"
    BY <1>1, <2>1 DEF Places, Truthful
  <2>2. CASE doing.at = "end" /\ doing.hook # "config-changed"
    BY <1>1, <1>4, <2>2 DEF Places, Truthful
  <2>3. CASE doing.at = "end" /\ doing.hook = "config-changed"
    BY <1>1, <1>4, <2>3 DEF EndHook, Places, Truthful
  <2> QED
    BY <1>1, <2>1, <2>2, <2>3
<1>6. Places' /\ BrokenHasNone'
  BY <1>1, <1>2, <1>4 DEF Places, BrokenHasNone, policyd_status_message_prefix
<1> QED
  BY <1>1, <1>2, <1>3, <1>4, <1>5, <1>6 DEF NamesDiffer, KeptAlone, OneResource

LEMMA KillPolicy ==
  ASSUME PolicyInv, PolicyKill
  PROVE  PolicyInv'
<1> USE DEF PolicyInv
<1>1. /\ doing' = [at |-> "idle", hook |-> doing.hook, left |-> <<>>, remove |-> {}]
      /\ processed' = [processed EXCEPT !.stale = @ \/ doing.at = "disable"]
      /\ UNCHANGED <<enabled, resource, policy_d, success, pending>> /\ doing.at # "idle"
  BY DEF PolicyKill, NotDoing
<1>2. PolicyTypeOK'
  <2>1. <<>> \in Seq(Entry)
    BY EmptySeq
  <2> QED
    BY <1>1, <2>1 DEF PolicyTypeOK
<1>3. Overrides' = Overrides /\ Installed' = Installed
  BY <1>1 DEF Overrides, Installed, Written
<1>4. processed'.stale = (processed.stale \/ doing.at = "disable")
  BY <1>1 DEF PolicyTypeOK
<1>5. Truthful'
  BY <1>1, <1>3, <1>4 DEF Truthful, Places, PolicyWriting
<1>6. Places' /\ BrokenHasNone'
  BY <1>1 DEF Places, BrokenHasNone, PolicySettled
<1> QED
  BY <1>1, <1>2, <1>3, <1>5, <1>6 DEF NamesDiffer, KeptAlone, OneResource

LEMMA PolicyInductive ==
  ASSUME PolicyInv, [PolicyNext]_policy_vars
  PROVE  PolicyInv'
<1>1. CASE UNCHANGED policy_vars
  <2>1. UNCHANGED <<enabled, resource, policy_d, success, doing, pending, processed>>
    BY <1>1 DEF policy_vars
  <2>2. PolicyTypeOK' /\ NamesDiffer' /\ KeptAlone'
    BY <2>1 DEF PolicyInv, PolicyTypeOK, NamesDiffer, KeptAlone
  <2>3. Overrides' = Overrides /\ Installed' = Installed /\ Count' = Count
    BY <2>1 DEF Overrides, Installed, Written, Count
  <2>4. (Written(Count))' = Written(Count)
    BY <2>1, <2>3 DEF Written
  <2>5. PolicyWriting' = PolicyWriting
    BY <2>1, <2>3, <2>4 DEF PolicyWriting
  <2>6. Places'
    BY <2>1, <2>3, <2>5 DEF PolicyInv, Places
  <2> QED
    BY <2>1, <2>2, <2>3, <2>6 DEF PolicyInv, OneResource, Truthful, BrokenHasNone, PolicySettled,
       policyd_status_message_prefix
<1> QED
  BY <1>1, OperatorPolicy, BeginPolicy, RemovePolicy, DisabledPolicy, OpenPolicy, WritePolicy,
     SuccessPolicy, EndPolicy, KillPolicy DEF PolicyNext, PolicyHooks

LEMMA InvGivesPolicy == PolicyInv => PolicyRight
<1> SUFFICES ASSUME PolicyInv PROVE PolicyRight
  OBVIOUS
<1>1. SuccessIsWhole
  <2> SUFFICES ASSUME PolicySettled, enabled, success, ~processed.stale
               PROVE  Overrides = {File(resource.files[i].name, resource.number) :
                                     i \in DOMAIN resource.files}
    BY DEF SuccessIsWhole
  <2>1. Installed
    BY DEF PolicyInv, Truthful, PolicySettled
  <2>2. DOMAIN resource.files = 1..Len(resource.files)
    BY DEF PolicyInv, PolicyTypeOK
  <2> QED
    BY <2>1, <2>2 DEF Installed, Written
<1> QED
  BY <1>1 DEF PolicyInv, PolicyRight

\* A service never reads files of two resources together, its own files stay, "PO" stands
\* for all the files of the resource and "PO (broken)" for none.
\* (process_policy_resource_file, clean_policyd_dir_for)
THEOREM PolicyIsRight == PolicySpec => []PolicyRight
  BY PolicyInitial, PolicyInductive, InvGivesPolicy, PTL DEF PolicySpec
=============================================================================
