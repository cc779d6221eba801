----------------------------- MODULE AppStores -----------------------------
(***************************************************************************)
(* What one app keeps outside app_migrations, and the clients that write   *)
(* it: the routing authorities (org_app_index, the Cloudflare mapping, the *)
(* region column of app_kv_credentials), its apps row, Postgres database,  *)
(* KV scope and runtime rows in every region, and the dumps in R2.         *)
(*                                                                         *)
(* Data is what the properties tell apart: the tenant database and the KV  *)
(* scope of a region are the sets of client writes they hold, and the      *)
(* runtime tables are one row with a version and an archive tag.  Requests *)
(* are handled in the home region, where the region cache forwards them.   *)
(***************************************************************************)
EXTENDS MigrationStore

CONSTANTS
  PgWrites,      \* client writes to the tenant database
  KvWrites,      \* client writes to the KV scope
  PauseStates,   \* pause states the owner may ask for: a subset of BOOLEAN
  MaxVersion,    \* bound on the versions of the runtime row
  None           \* no status cached, no dump, no tag

ASSUME StoresAssumption ==
  /\ PauseStates \subseteq BOOLEAN
  /\ MaxVersion \in Nat \ {0}
  /\ PgWrites \cap KvWrites = {}
  /\ {"unsent", "acked"} \cap Regions = {}
  /\ \A dump \in (SUBSET PgWrites) \cup (SUBSET KvWrites) : dump # None

VARIABLES
  home,          \* org_app_index.region
  indexLock,     \* who holds the org_app_index row lock across two steps
  edge,          \* region of the Cloudflare subdomain mapping
  appRow,        \* region -> provisioning_status of its apps row
  paused,        \* region -> paused column of its apps row
  statusCache,   \* region -> app-status:<app> cached by the migration guard
  pg,            \* region -> writes in the tenant database
  pgDump,        \* migration -> dump.sql.gz
  kvHome,        \* app_kv_credentials.region
  kv,            \* region -> writes in the KV scope
  kvDump,        \* migration -> dump.kv.jsonl.gz
  kvBlock,       \* region -> the migration sentinel is set
  rtVersion,     \* region -> version of the runtime row, 0 when there is none
  rtTag,         \* region -> archived_after_move of the runtime row
  writeAt,       \* write -> "unsent", the region whose guard let it in, "acked"
  late,          \* acknowledged writes that landed behind a dump (observer)
  pauseAck       \* the pause state last acknowledged to the owner (observer)

routeVars  == <<home, indexLock, edge>>
rowsVars   == <<appRow, paused>>
pgVars     == <<pg, pgDump>>
kvVars     == <<kvHome, kv, kvDump, kvBlock>>
rtVars     == <<rtVersion, rtTag>>
clientVars == <<writeAt, late, pauseAck>>

storeVars == <<routeVars, rowsVars, statusCache, pgVars, kvVars, rtVars, clientVars>>

AppStatus == {"none", "ready", "migrating", "migration_target_reserved"}

StoresInit ==
  /\ home = FirstHome
  /\ indexLock = "free"
  /\ edge = FirstHome
  /\ appRow = [r \in Regions |-> IF r = FirstHome THEN "ready" ELSE "none"]
  /\ paused = [r \in Regions |-> FALSE]
  /\ statusCache = [r \in Regions |-> None]
  /\ pg = [r \in Regions |-> {}]
  /\ pgDump = [m \in Migrations |-> None]
  /\ kvHome = FirstHome
  /\ kv = [r \in Regions |-> {}]
  /\ kvDump = [m \in Migrations |-> None]
  /\ kvBlock = [r \in Regions |-> FALSE]
  /\ rtVersion = [r \in Regions |-> IF r = FirstHome THEN 1 ELSE 0]
  /\ rtTag = [r \in Regions |-> None]
  /\ writeAt = [w \in PgWrites \cup KvWrites |-> "unsent"]
  /\ late = {}
  /\ pauseAck = FALSE

---------------------------------------------------------------------------
(* Clients.                                                                *)

(* migration-guard.ts: the status comes from Redis when it is there, and   *)
(* from the region's apps row, which is then cached, when it is not.       *)
GuardStatus(r) == IF statusCache[r] = None THEN appRow[r] ELSE statusCache[r]

(* A region without an apps row lets the request through and caches nothing. *)
StatusAfterLookup(r) == IF GuardStatus(r) = "none" THEN None ELSE GuardStatus(r)

PassGuard(w) ==
  /\ writeAt[w] = "unsent"
  /\ GuardStatus(home) # "migrating"
  /\ writeAt' = [writeAt EXCEPT ![w] = home]
  /\ statusCache' = [statusCache EXCEPT ![home] = StatusAfterLookup(home)]
  /\ UNCHANGED <<routeVars, rowsVars, pgVars, kvVars, rtVars, late, pauseAck>>

(* 503 app_migrating; the refused request leaves the status it read in the *)
(* cache.                                                                  *)
RefuseWrite(w) ==
  /\ writeAt[w] = "unsent"
  /\ GuardStatus(home) = "migrating"
  /\ statusCache[home] = None
  /\ statusCache' = [statusCache EXCEPT ![home] = "migrating"]
  /\ UNCHANGED <<routeVars, rowsVars, pgVars, kvVars, rtVars, clientVars>>

StatusCacheExpires(r) ==
  /\ statusCache[r] # None
  /\ statusCache' = [statusCache EXCEPT ![r] = None]
  /\ UNCHANGED <<routeVars, rowsVars, pgVars, kvVars, rtVars, clientVars>>

(* The handler behind the guard commits in the region that let it in.      *)
LandPgWrite(w, behindDump) ==
  /\ writeAt[w] \in Regions
  /\ pg' = [pg EXCEPT ![writeAt[w]] = @ \cup {w}]
  /\ writeAt' = [writeAt EXCEPT ![w] = "acked"]
  /\ late' = IF behindDump THEN late \cup {w} ELSE late
  /\ UNCHANGED <<routeVars, rowsVars, statusCache, pgDump, kvVars, rtVars, pauseAck>>

(* kv-quota.ts: KV requests go to the region of the credentials, and only  *)
(* that region's sentinel is looked at.                                    *)
PassKvSentinel(k) ==
  /\ writeAt[k] = "unsent"
  /\ ~ kvBlock[kvHome]
  /\ writeAt' = [writeAt EXCEPT ![k] = kvHome]
  /\ UNCHANGED <<routeVars, rowsVars, statusCache, pgVars, kvVars, rtVars, late, pauseAck>>

LandKvWrite(k) ==
  /\ writeAt[k] \in Regions
  /\ kv' = [kv EXCEPT ![writeAt[k]] = @ \cup {k}]
  /\ writeAt' = [writeAt EXCEPT ![k] = "acked"]
  /\ UNCHANGED <<routeVars, rowsVars, statusCache, pgVars, kvHome, kvDump, kvBlock,
                 rtVars, late, pauseAck>>

(* SETEX with TTL_SEC: the sentinel goes by itself.                        *)
KvBlockExpires(r) ==
  /\ kvBlock[r]
  /\ kvBlock' = [kvBlock EXCEPT ![r] = FALSE]
  /\ UNCHANGED <<routeVars, rowsVars, statusCache, pgVars, kvHome, kv, kvDump, rtVars,
                 clientVars>>

(* Sign-ups, function deploys and the like update the runtime tables of    *)
(* the home region; their routes do not carry the migration guard.         *)
RuntimeWrite ==
  /\ rtVersion[home] \in 1 .. MaxVersion - 1
  /\ rtVersion' = [rtVersion EXCEPT ![home] = @ + 1]
  /\ UNCHANGED <<routeVars, rowsVars, statusCache, pgVars, kvVars, rtTag, clientVars>>

(* setPausedState, called with the org_app_index row locked and the home   *)
(* read under that lock.                                                   *)
SetPaused(value) ==
  /\ indexLock = "free"
  /\ appRow[home] # "none"
  /\ pauseAck # value
  /\ paused' = [paused EXCEPT ![home] = value]
  /\ pauseAck' = value
  /\ UNCHANGED <<routeVars, appRow, statusCache, pgVars, kvVars, rtVars, writeAt, late>>

---------------------------------------------------------------------------
StoresTypeOK ==
  /\ home \in Regions /\ edge \in Regions /\ kvHome \in Regions
  /\ indexLock \in {"free", "driver", "reverse"}
  /\ appRow \in [Regions -> AppStatus]
  /\ paused \in [Regions -> BOOLEAN] /\ pauseAck \in BOOLEAN
  /\ statusCache \in [Regions -> (AppStatus \ {"none"}) \cup {None}]
  /\ pg \in [Regions -> SUBSET PgWrites]
  /\ pgDump \in [Migrations -> (SUBSET PgWrites) \cup {None}]
  /\ kv \in [Regions -> SUBSET KvWrites]
  /\ kvDump \in [Migrations -> (SUBSET KvWrites) \cup {None}]
  /\ kvBlock \in [Regions -> BOOLEAN]
  /\ rtVersion \in [Regions -> 0 .. MaxVersion]
  /\ rtTag \in [Regions -> Migrations \cup {None}]
  /\ writeAt \in [PgWrites \cup KvWrites -> Regions \cup {"unsent", "acked"}]
  /\ late \subseteq PgWrites

===========================================================================
