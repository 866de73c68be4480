-------------------------------- MODULE KvStore --------------------------------
(***************************************************************************)
(* charmhelpers/core/unitdata.py: the sqlite database that keeps the unit- *)
(* paused flag, the PCI addresses of DPDK devices and the use of FQDNs.  A *)
(* connection works in one transaction until flush(); within hook_scope()  *)
(* it also records what it writes in kv_revisions, under the number of the *)
(* hook.  Hooks raise, exit or are killed between any two calls.           *)
(***************************************************************************)
EXTENDS Naturals, FiniteSets

CONSTANTS
    Keys, Values,
    Absent,      \* no row for a key; not a value
    Deleted,     \* json.dumps('DELETED'); not one either
    PrefixArgs,  \* arguments of unsetrange(prefix=...)
    Under(_),    \* the keys that begin with a prefix, which is none itself
    MaxHooks     \* bound: rows of the table hooks

\* A prefix is not a key itself, and "no row" is not a value.
ASSUME StoreAssumption ==
    /\ Keys \cap PrefixArgs = {}
    /\ \A p \in PrefixArgs : Under(p) \subseteq Keys
    /\ Absent \notin Values

VARIABLES
    disk,     \* the committed database
    conn,     \* the database as the connection sees it
    revision, \* self.revision; 0 for None
    open      \* a process runs and has a connection

store_vars == <<disk, conn, revision, open>>

\* The tables: kv, kv_revisions as a partial function of <<key, revision>>, and
\* the number of rows of hooks.  `loose' is history: the keys whose rows have
\* been changed outside a hook_scope or by a range, which leave no trace.
Database == [kv : [Keys -> Values \cup {Absent}],
             revs : UNION {[D -> Values \cup {Deleted}] :
                             D \in SUBSET ((Keys \cup PrefixArgs) \X (1..MaxHooks))},
             hooks : 0..MaxHooks, loose : SUBSET Keys]

Record(revs, rows, data) ==
    [r \in DOMAIN revs \cup rows |-> IF r \in rows THEN data ELSE revs[r]]

\* Storage._init(): the tables are there.
StoreInit ==
    /\ disk = [kv |-> [k \in Keys |-> Absent], revs |-> <<>>, hooks |-> 0, loose |-> {}]
    /\ conn = disk
    /\ revision = 0
    /\ open = FALSE

\* kv(): the first call of a process opens the connection.
Open ==
    /\ ~open
    /\ open' = TRUE
    /\ conn' = disk
    /\ revision' = 0
    /\ UNCHANGED disk

\* Mutant: every statement is committed at once.
SetAutocommit(k, v) ==
    /\ open
    /\ conn.kv[k] # v
    /\ conn' = [conn EXCEPT !.kv[k] = v,
                 !.revs = IF revision = 0 THEN @ ELSE Record(@, {<<k, revision>>}, v),
                 !.loose = IF revision = 0 THEN @ \cup {k} ELSE @ \ {k}]
    /\ disk' = conn'
    /\ UNCHANGED <<revision, open>>

\* The same value again is no mutation.
Set(k, v) ==
    /\ open
    /\ conn.kv[k] # v
    /\ conn' = [conn EXCEPT !.kv[k] = v,
                 !.revs = IF revision = 0 THEN @ ELSE Record(@, {<<k, revision>>}, v),
                 !.loose = IF revision = 0 THEN @ \cup {k} ELSE @ \ {k}]
    /\ UNCHANGED <<disk, revision, open>>

\* An exception that leaves hook_scope, or is caught without one.
RollBack ==
    /\ revision' = 0
    /\ conn' = IF revision = 0 THEN conn ELSE disk

\* The statements of unset() and unsetrange(): `gone' are the rows deleted,
\* `rows' those inserted into kv_revisions when there were any.  kv_revisions
\* has one row for a key and a revision: a second INSERT raises.
Delete(gone, rows, exact) ==
    LET there  == {k \in gone : conn.kv[k] # Absent}
        noted  == IF revision # 0 /\ there # {} THEN rows \X {revision} ELSE {}
    IN /\ open
       /\ UNCHANGED <<disk, open>>
       /\ \/ /\ noted \cap DOMAIN conn.revs = {}
             /\ conn' = [conn EXCEPT
                          !.kv = [k \in Keys |-> IF k \in gone THEN Absent ELSE @[k]],
                          !.revs = Record(@, noted, Deleted),
                          !.loose = IF revision # 0 /\ exact THEN @ \ there ELSE @ \cup there]
             /\ UNCHANGED revision
          \/ /\ noted \cap DOMAIN conn.revs # {}
             /\ RollBack

Unset(k) == Delete({k}, {k}, TRUE)
UnsetKeys(ks) == Delete(ks, ks, TRUE)
UnsetPrefix(p) == Delete(Under(p), {p}, FALSE)

\* hook_scope(): no nesting; the row of hooks gives the revision its number.
EnterScope ==
    /\ open
    /\ revision = 0
    /\ conn.hooks < MaxHooks
    /\ conn' = [conn EXCEPT !.hooks = @ + 1]
    /\ revision' = conn'.hooks
    /\ UNCHANGED <<disk, open>>

LeaveScope ==
    /\ open
    /\ revision # 0
    /\ revision' = 0
    /\ disk' = conn
    /\ UNCHANGED <<conn, open>>

RaiseInScope ==
    /\ open
    /\ revision # 0
    /\ RollBack
    /\ UNCHANGED <<disk, open>>

\* flush(), inside a scope (resolve_dpdk_bridges) or outside (install).
Flush ==
    /\ open
    /\ disk' = conn
    /\ UNCHANGED <<conn, revision, open>>

\* The process ends, by SystemExit or a signal in any place: nobody closes the
\* connection, and sqlite drops the transaction.
End ==
    /\ open
    /\ open' = FALSE
    /\ conn' = disk
    /\ revision' = 0
    /\ UNCHANGED disk

StoreNext ==
    \/ Open
    \/ \E k \in Keys : Unset(k) \/ \E v \in Values : Set(k, v)
    \/ \E ks \in SUBSET Keys : Cardinality(ks) > 1 /\ UnsetKeys(ks)
    \/ \E p \in PrefixArgs : UnsetPrefix(p)
    \/ EnterScope
    \/ LeaveScope
    \/ RaiseInScope
    \/ Flush
    \/ End

StoreSpec == StoreInit /\ [][StoreNext]_store_vars

-----------------------------------------------------------------------------
TypeOK ==
    /\ {disk, conn} \subseteq Database
    /\ revision \in 0..MaxHooks
    /\ open \in BOOLEAN

\* The store keeps the promise of UnitStore: what is written between two flushes
\* appears together or not at all, whatever ends the hook.  (flush, hook_scope)
Abstract == INSTANCE UnitStore WITH stored <- disk.kv, pending <- conn.kv
Transactional == Abstract!Spec

\* gethistory() tells the truth: the newest committed record of a key that was
\* only written by hooks is what the table says now.  (set, unset)
HistoryAgrees ==
    \A k \in Keys \ disk.loose :
        LET of     == {r[2] : r \in {s \in DOMAIN disk.revs : s[1] = k}}
            newest == CHOOSE n \in of : \A m \in of : m <= n
        IN IF of = {} THEN disk.kv[k] = Absent
           ELSE disk.revs[<<k, newest>>] = (IF disk.kv[k] = Absent THEN Deleted ELSE disk.kv[k])

-----------------------------------------------------------------------------
\* What the documentation says and the code does not do.

\* unitdata.py:226 "Remove a key from the database entirely.": also a key that
\* this hook has set, which raises IntegrityError and takes back the hook.
UnsetRemoves ==
    [][\A k \in Keys : Unset(k) => conn'.kv[k] = Absent /\ revision' = revision]_store_vars
=============================================================================
