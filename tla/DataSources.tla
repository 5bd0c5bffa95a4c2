---------------------------- MODULE DataSources ----------------------------
(***************************************************************************)
(* One external database: DataSourceService (datasource/service.py), its   *)
(* connection pool (pool.py), the whitelist of the SQL gateway and the     *)
(* cache of table descriptions.  A configuration is a version number: its  *)
(* address, its tables and its read-only flag go with it.  Threads run     *)
(* calls side by side while an administrator reloads the configuration.    *)
(***************************************************************************)
EXTENDS Naturals, Sequences

CONSTANTS
  Calls,       \* bound: threads in a call at the same time
  MaxSize,     \* pool_size: idle connections a pool keeps
  MaxReloads   \* bound: changes of the configuration

ASSUME SourceAssumption == MaxSize \in Nat /\ MaxReloads \in Nat

VARIABLES
  config,      \* the version in force
  pools,       \* of each version: its idle connections, last in first out
  undrained,   \* versions replaced whose pool is not drained yet
  call,        \* what each thread does
  cache        \* SchemaCache: whether it is filled, and from which version

dsVars == <<config, pools, undrained, call, cache>>

Versions == 0 .. MaxReloads
Kinds == {"query", "write", "describe"}

\* A connection: whether a read-only transaction is open, whether it is dead.
Fresh == [txn |-> FALSE, dead |-> FALSE]
Idle == [at |-> "idle", kind |-> "query", seen |-> 0, pool |-> 0, conn |-> Fresh, ok |-> TRUE]

SourceInit ==
  /\ config = 0 /\ undrained = {}
  /\ pools = [v \in Versions |-> <<>>]
  /\ call = [c \in Calls |-> Idle]
  /\ cache = [filled |-> FALSE, of |-> 0]

\* reload(): configuration, pools and cache are replaced under the lock ...
Reload ==
  /\ config < MaxReloads /\ config' = config + 1
  /\ undrained' = undrained \cup {config}
  /\ cache' = [cache EXCEPT !.filled = FALSE]
  /\ UNCHANGED <<pools, call>>

\* ... and the old pools are drained after it.
Drain(v) ==
  /\ v \in undrained /\ undrained' = undrained \ {v}
  /\ pools' = [pools EXCEPT ![v] = <<>>]
  /\ UNCHANGED <<config, call, cache>>

\* The statement is checked against the tables of the configuration read here.
\* A description is answered from the cache if that is filled.
Check(c, k) ==
  /\ call[c].at = "idle"
  /\ k = "describe" => ~cache.filled
  /\ call' = [call EXCEPT ![c] = [Idle EXCEPT !.at = "checked", !.kind = k, !.seen = config]]
  /\ UNCHANGED <<config, pools, undrained, cache>>

\* _get_pool() reads the configuration once more.
GetPool(c) ==
  /\ call[c].at = "checked"
  /\ call' = [call EXCEPT ![c].at = "borrow", ![c].pool = config]
  /\ UNCHANGED <<config, pools, undrained, cache>>

\* The last connection returned, if it answers a ping; else a new one, which may
\* be refused.
Borrow(c) ==
  /\ call[c].at = "borrow"
  /\ LET p == pools[call[c].pool] IN
     /\ pools' = [pools EXCEPT ![call[c].pool] = IF p = <<>> THEN p ELSE SubSeq(p, 1, Len(p) - 1)]
     /\ IF p # <<>> /\ ~p[Len(p)].dead
        THEN call' = [call EXCEPT ![c].at = "run", ![c].conn = p[Len(p)]]
        ELSE \/ call' = [call EXCEPT ![c].at = "run", ![c].conn = Fresh]
             \/ call' = [call EXCEPT ![c] = Idle]
  /\ UNCHANGED <<config, undrained, cache>>

\* Reading begins a read-only transaction; a write runs in what it finds and
\* commits.  The statement may fail, and the connection may die under it.
Run(c) ==
  /\ call[c].at = "run"
  /\ \E ok, dies \in BOOLEAN :
       call' = [call EXCEPT ![c].at = "return", ![c].ok = ok /\ ~dies,
                            ![c].conn = [txn |-> call[c].kind # "write" \/ @.txn, dead |-> dies]]
  /\ UNCHANGED <<config, pools, undrained, cache>>

\* put(): the transaction is rolled back; a connection that is too old, or one
\* too many, is closed.  A description still has to be stored.
NotRolledBack(conn) == conn                                                 \* mutant
RolledBack(conn) == [conn EXCEPT !.txn = IF conn.dead THEN @ ELSE FALSE]

HasRoomForOneMore(p) == Len(p) <= MaxSize                                   \* mutant
HasRoom(p) == Len(p) < MaxSize

Return(c) ==
  /\ call[c].at = "return"
  /\ LET p == pools[call[c].pool] IN
     \/ HasRoom(p)
        /\ pools' = [pools EXCEPT ![call[c].pool] = Append(p, RolledBack(call[c].conn))]
     \/ UNCHANGED pools
  /\ call' = [call EXCEPT ![c] = IF call[c].kind = "describe" /\ call[c].ok
                                 THEN [Idle EXCEPT !.at = "store", !.seen = call[c].seen] ELSE Idle]
  /\ UNCHANGED <<config, undrained, cache>>

Store(c) ==
  /\ call[c].at = "store"
  /\ cache' = [filled |-> TRUE, of |-> call[c].seen]
  /\ call' = [call EXCEPT ![c] = Idle]
  /\ UNCHANGED <<config, pools, undrained>>

\* 900 seconds after it was stored the description counts no more.
Unexpired == cache.of = config                                              \* mutant
Expired == cache.filled

Forget ==
  /\ Expired /\ cache' = [cache EXCEPT !.filled = FALSE]
  /\ UNCHANGED <<config, pools, undrained, call>>

SourceNext ==
  \/ Reload \/ (\E v \in Versions : Drain(v)) \/ Forget
  \/ \E c \in Calls : \/ (\E k \in Kinds : Check(c, k)) \/ GetPool(c) \/ Borrow(c)
                      \/ Run(c) \/ Return(c) \/ Store(c)

\* Time passes for the cache.
SourceFairness == WF_dsVars(Forget)

SourceSpec == SourceInit /\ [][SourceNext]_dsVars
SourceFairSpec == SourceSpec /\ SourceFairness

-----------------------------------------------------------------------------
(* What the component promises.                                              *)

Connections == [txn : BOOLEAN, dead : BOOLEAN]

DataSourceTypeOK ==
  /\ config \in Versions /\ undrained \subseteq Versions
  /\ \A v \in Versions : Len(pools[v]) <= MaxSize /\ \A i \in DOMAIN pools[v] : pools[v][i] \in Connections
  /\ call \in [Calls -> [at : {"idle", "checked", "borrow", "run", "return", "store"}, kind : Kinds,
                         seen : Versions, pool : Versions, conn : Connections, ok : BOOLEAN]]
  /\ cache \in [filled : BOOLEAN, of : Versions]

\* "so a leaked BEGIN cannot poison a subsequently borrowed connection": what a
\* call borrows has no transaction left open by another, so no write is refused
\* because someone else was reading.
BorrowedIsClean == \A c \in Calls : call[c].at = "run" => ~call[c].conn.txn

\* A description of tables that a reload has taken away does not stay for good,
\* though a call that began before the reload can put it back.
StaleDescriptionEnds == (cache.filled /\ cache.of < config) ~> ~(cache.filled /\ cache.of < config)

\* "Replace the entire datasource configuration atomically": a statement runs on
\* the database of the configuration whose tables it was checked against.
RunsUnderItsRules == \A c \in Calls : call[c].at = "run" => call[c].pool = call[c].seen

\* "Cache is cleared wholesale by reload()".
DescriptionIsCurrent == cache.filled => cache.of = config

\* "Old connection pools are drained so file descriptors are released."
OldPoolsAreEmpty == \A v \in Versions : v < config /\ v \notin undrained => pools[v] = <<>>
=============================================================================
