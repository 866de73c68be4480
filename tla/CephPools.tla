-------------------------------- MODULE CephPools --------------------------------
(***************************************************************************)
(* contrib/storage/linux/ceph: pools, their cache tiers, and the block     *)
(* device that a unit's data is moved to.  Each operation is a list of     *)
(* commands; any of them can fail, which ends the operation, and it is     *)
(* then asked for again.  Clients and services write in between.           *)
(***************************************************************************)
EXTENDS Integers, Sequences, FiniteSets

CONSTANTS
    OsdCounts,  \* numbers of OSDs the cluster may have
    Expected,   \* values of expected-osd-count
    Requested,  \* values of pg_num in a request; 0 for none
    Sizes,      \* numbers of replicas, or of the chunks k + m of erasure coding
    Percents,   \* shares of the data that a pool is to hold
    Optional,   \* whether a request has a quota, compression, overwrites
    MaxFaults   \* bound: failed commands

VARIABLES
    cluster,  \* osds, expected: what the number of placement groups is taken from
    request,  \* the pool operation of the broker request
    pool,     \* what has been set on the pool, with its placement groups; or NoPool
    tier,     \* the cache pool: attached, mode, overlay, dirty objects
    disk,     \* the block device and the mount point
    running,  \* the operation, or None
    script,   \* its commands that are left
    faults,   \* commands that failed so far
    history   \* which kinds of them: "pool", "tier", "unchecked", "reboot"

pools_vars == <<cluster, request, pool, tier, disk, running, script, faults, history>>
None == "None"
NoPool == [pgs |-> 0, set |-> {}]

DEFAULT_PGS_PER_OSD_TARGET == 100
LEGACY_PG_COUNT == 200
DEFAULT_MINIMUM_PGS == 2
Larger(a, b) == IF a >= b THEN a ELSE b
Smaller(a, b) == IF a <= b THEN a ELSE b

\* BasePool.get_pgs for a share of the data in per cent.
Exact(size, percent) ==
    Larger(DEFAULT_MINIMUM_PGS,
           (DEFAULT_PGS_PER_OSD_TARGET * Larger(cluster.expected, cluster.osds) * percent)
               \div (100 * size))
\* 2 to the power of the whole part of the logarithm.
Nearest(n) ==
    LET nearest[k \in 1..n] == IF k = 1 THEN 1 ELSE 2 * nearest[k \div 2] IN nearest[n]
Unknown == cluster.osds = 0 /\ cluster.expected = 0
get_pgs(size, percent) ==
    IF Unknown THEN LEGACY_PG_COUNT
    ELSE LET n == Exact(size, percent)
             near == Nearest(n)
         IN IF 4 * (n - near) > n THEN 2 * near ELSE near

\* ReplicatedPool._create and ErasurePool._create, for k + m in place of replicas.
PgNum ==
    IF request.kind = "replicated" /\ request.pg_num > 0
    THEN Smaller(request.pg_num, get_pgs(request.size, 100))
    ELSE get_pgs(request.size, request.percent)

-----------------------------------------------------------------------------
\* The commands of create: those of _create, _post_create and update.
\* set_app_name_for_pool and enable_pg_autoscale may fail.
If(condition, command) == IF condition THEN <<command>> ELSE <<>>
update == If(request.quota, "set-quota") \o If(request.compression, "set compression")
create ==
    IF pool # NoPool THEN <<>>
    ELSE <<"create">> \o If(request.kind = "replicated", "set size")
         \o <<"set ratio", "application", "autoscale">>
         \o If(request.kind = "erasure" /\ request.overwrites, "set overwrites")
         \o update
MayFail == {"application", "autoscale"}

Asked(command) ==
    CASE command = "set size" -> request.kind = "replicated"
      [] command = "set overwrites" -> request.kind = "erasure" /\ request.overwrites
      [] command = "set-quota" -> request.quota
      [] command = "set compression" -> request.compression
      [] OTHER -> command = "set ratio"

add_cache_tier == <<"tier add", "tier cache-mode", "tier set-overlay", "hit_set_type">>

\* Mutant: flushes while the cache still takes writes.
remove_cache_tier_flushing ==
    CASE tier.mode = "readonly" -> <<"tier mode none", "tier remove">>
      [] tier.mode = "writeback" ->
            <<"tier flush", "tier mode forward", "tier remove-overlay", "tier remove">>
      [] OTHER -> <<>>

\* The mode is read once, before the first command.
remove_cache_tier ==
    CASE tier.mode = "readonly" -> <<"tier mode none", "tier remove">>
      [] tier.mode = "writeback" ->
            <<"tier mode forward", "tier flush", "tier remove-overlay", "tier remove">>
      [] OTHER -> <<>>

\* ensure_ceph_storage, and place_data_on_block_device in it.
ensure_ceph_storage ==
    If(~disk.image, "create image") \o If(~disk.mapped, "map")
    \o (IF disk.mounted THEN <<>>
        ELSE <<"mkfs">> \o If(disk.service, "stop") \o <<"mount /mnt", "copy", "umount /mnt", "mount", "start">>)

-----------------------------------------------------------------------------
Old == "old data"
New == "new data"

Init ==
    /\ cluster \in [osds : OsdCounts, expected : Expected]
    /\ request \in [kind : {"replicated", "erasure"}, size : Sizes, percent : Percents,
                    pg_num : Requested, quota : Optional, compression : Optional,
                    overwrites : Optional]
    /\ request.kind = "erasure" => request.pg_num = 0
    /\ pool = NoPool
    /\ tier = [attached |-> FALSE, mode |-> "none", overlay |-> FALSE, dirty |-> FALSE]
    /\ disk = [image |-> FALSE, mapped |-> FALSE, mounted |-> FALSE, service |-> TRUE,
               mnt |-> FALSE, local |-> {Old}, device |-> {}, stray |-> {}]
    /\ running = None /\ script = <<>>
    /\ faults = 0
    /\ history = {}

Start(operation, commands) ==
    /\ running = None
    /\ running' = operation
    /\ script' = commands
    /\ UNCHANGED <<cluster, request, pool, tier, disk, faults, history>>

Create == Start("pool", create)
Update == pool # NoPool /\ Start("update", update)
AddTier == pool # NoPool /\ ~tier.attached /\ Start("tier", add_cache_tier)
RemoveTier == tier.attached /\ Start("remove", remove_cache_tier)
Storage == pool # NoPool /\ Start("storage", ensure_ceph_storage)

OfPool(c) ==
    CASE c = "create" -> [pgs |-> PgNum, set |-> {}]
      [] c \in {"set size", "set ratio", "application", "autoscale", "set overwrites",
                "set-quota", "set compression"} -> [pool EXCEPT !.set = @ \cup {c}]
      [] OTHER -> pool

\* The mode asked for is writeback or readonly.
OfTier(c, mode) ==
    CASE c = "tier add" -> [tier EXCEPT !.attached = TRUE]
      [] c = "tier cache-mode" -> [tier EXCEPT !.mode = mode]
      [] c = "tier set-overlay" -> [tier EXCEPT !.overlay = TRUE]
      [] c = "tier mode none" -> [tier EXCEPT !.mode = "none"]
      [] c = "tier mode forward" -> [tier EXCEPT !.mode = "forward"]
      [] c = "tier flush" -> [tier EXCEPT !.dirty = FALSE]
      [] c = "tier remove-overlay" -> [tier EXCEPT !.overlay = FALSE]
      [] c = "tier remove" -> [tier EXCEPT !.attached = FALSE, !.mode = "none", !.overlay = FALSE]
      [] OTHER -> tier

\* What /mnt and the mount point show.
Shown == IF disk.mounted THEN disk.device ELSE disk.local

OfDisk(c) ==
    CASE c = "create image" -> [disk EXCEPT !.image = TRUE]
      [] c = "map" -> [disk EXCEPT !.mapped = TRUE]
      [] c = "mkfs" -> [disk EXCEPT !.device = {}]
      [] c = "stop" -> [disk EXCEPT !.service = FALSE]
      [] c = "mount /mnt" -> [disk EXCEPT !.mnt = TRUE]
      [] c = "copy" -> IF disk.mnt THEN [disk EXCEPT !.device = @ \cup disk.local]
                       ELSE [disk EXCEPT !.stray = @ \cup disk.local]
      [] c = "umount /mnt" -> [disk EXCEPT !.mnt = FALSE]
      [] c = "mount" -> [disk EXCEPT !.mounted = TRUE]
      [] c = "start" -> [disk EXCEPT !.service = TRUE]
      [] OTHER -> disk

Unchecked == {"mount /mnt", "umount /mnt", "mount", "stop", "start"}

Step ==
    /\ running # None /\ script # <<>>
    /\ ~(Head(script) = "mkfs" /\ disk.mnt)
    /\ \E mode \in {"writeback", "readonly"} :
          /\ Head(script) # "tier cache-mode" => mode = "writeback"
          /\ tier' = OfTier(Head(script), mode)
    /\ pool' = OfPool(Head(script))
    /\ disk' = OfDisk(Head(script))
    /\ script' = Tail(script)
    /\ UNCHANGED <<cluster, request, running, faults, history>>

\* mkfs of a device that a failed copy left mounted at /mnt.
Busy ==
    /\ running # None /\ script # <<>>
    /\ Head(script) = "mkfs" /\ disk.mnt
    /\ running' = None /\ script' = <<>>
    /\ UNCHANGED <<cluster, request, pool, tier, disk, faults, history>>

\* A failed command raises, and the operation is over; except where the error is
\* caught, and in mount, umount and the service commands, which only return it.
Fail ==
    /\ running # None /\ script # <<>>
    /\ faults < MaxFaults
    /\ faults' = faults + 1
    /\ IF Head(script) \in MayFail \cup Unchecked
       THEN script' = Tail(script) /\ UNCHANGED running
       ELSE script' = <<>> /\ running' = None
    /\ history' = history \cup {IF Head(script) \in Unchecked THEN "unchecked" ELSE running}
    /\ UNCHANGED <<cluster, request, pool, tier, disk>>

Finish ==
    /\ running # None /\ script = <<>>
    /\ running' = None
    /\ UNCHANGED <<cluster, request, pool, tier, disk, script, faults, history>>

\* A client writes to the pool: through the overlay to a cache that takes writes.
ClientWrites ==
    /\ tier.overlay /\ tier.mode = "writeback"
    /\ tier' = [tier EXCEPT !.dirty = TRUE]
    /\ UNCHANGED <<cluster, request, pool, disk, running, script, faults, history>>

ServiceWrites ==
    /\ disk.service
    /\ disk' = IF disk.mounted THEN [disk EXCEPT !.device = @ \cup {New}]
               ELSE [disk EXCEPT !.local = @ \cup {New}]
    /\ UNCHANGED <<cluster, request, pool, tier, running, script, faults, history>>

\* Nothing maps the image again when the machine comes up; services start.
Reboot ==
    /\ disk.mapped /\ faults < MaxFaults
    /\ faults' = faults + 1
    /\ disk' = [disk EXCEPT !.mapped = FALSE, !.mounted = FALSE, !.mnt = FALSE, !.service = TRUE]
    /\ running' = None /\ script' = <<>>
    /\ history' = history \cup {"reboot"}
    /\ UNCHANGED <<cluster, request, pool, tier>>

Next ==
    \/ Create \/ Update \/ AddTier \/ RemoveTier \/ Storage
    \/ Step \/ Fail \/ Busy \/ Finish
    \/ ClientWrites \/ ServiceWrites \/ Reboot

Spec == Init /\ [][Next]_pools_vars

-----------------------------------------------------------------------------
\* The number of placement groups is a power of two no more than a quarter below
\* and less than half above the number asked for, and a number that a request names
\* is only ever lowered.  (BasePool.get_pgs, ReplicatedPool._create)
Fits(pgs, percent) ==
    LET n == Exact(request.size, percent) IN 4 * pgs >= 3 * n /\ 2 * pgs < 3 * n
PgsFit ==
    pool # NoPool /\ ~Unknown =>
        IF request.kind = "replicated" /\ request.pg_num > 0
        THEN /\ pool.pgs <= request.pg_num
             /\ pool.pgs < request.pg_num => Fits(pool.pgs, 100)
        ELSE Fits(pool.pgs, request.percent)

\* A pool that no create was interrupted on has all that was asked for once the
\* operation is over.  (BasePool.create)
PoolComplete ==
    pool # NoPool /\ running = None /\ "pool" \notin history =>
        \A c \in {"set size", "set ratio", "set overwrites", "set-quota", "set compression"} :
            Asked(c) => c \in pool.set

\* A cache pool is taken off only when all it held has been written to the pool
\* under it, although clients go on writing.  (remove_cache_tier)
TierSafe == ~tier.attached => ~tier.dirty

\* The service finds its data at the mount point, its own writes since then too,
\* unless a mount or a service command failed or the machine was restarted.  (ensure_ceph_storage,
\* place_data_on_block_device)
DataKept ==
    history \cap {"unchecked", "reboot"} = {} =>
        Old \in Shown /\ (disk.mounted => disk.local \subseteq disk.device)

\* A pool has the placement groups and settings that were asked for, and neither it nor
\* its cache tier loses data.  (CephPools)
PoolsRight == PgsFit /\ PoolComplete /\ TierSafe /\ DataKept

-----------------------------------------------------------------------------
\* What the documentation says and the code does not do.

\* ceph.py:373 "Create pool and perform any post pool creation tasks": not when an
\* earlier attempt had created the pool and failed then.
CreatePerformsAll ==
    running = "pool" /\ script = <<>> =>
        \A c \in {"set size", "set-quota"} : Asked(c) => c \in pool.set

\* ceph.py:1600 "data existing at mount_point will be migrated to the RBD device
\* before being re-mounted": a mount that fails is only logged.
DataMigrated == "reboot" \notin history => Old \in Shown

\* ceph.py:463 "Removes a cache tier": a second attempt finds the mode "forward" and
\* does nothing.
TierRemoved == running = "remove" /\ script = <<>> => ~tier.attached
=============================================================================
