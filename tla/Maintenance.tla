----------------------------- MODULE Maintenance -----------------------------
(***************************************************************************)
(* MaintenanceService: the maintenance switch is a row of AppConfig that   *)
(* every request consults through a cache of five seconds.  Reads of the   *)
(* row overlap each other and the changes admins make, and their answers   *)
(* come back in any order.                                                 *)
(*                                                                         *)
(* Every setMaintenanceConfig writes a value of its own, called by the     *)
(* element of Sets; Unset is the default when there is no row.             *)
(***************************************************************************)
EXTENDS Integers

CONSTANTS
    Sets,           \* the calls of setMaintenanceConfig
    Gets,           \* the reads of the row that may overlap
    Unset,          \* no row: maintenance is off
    TTL,            \* cacheTtlMs
    Horizon         \* bound of the model: the last instant

VARIABLES
    now,
    row,            \* the value in AppConfig
    until,          \* (history) until[v]: when the row stopped to have value v
    cache, lastFetchedAt,
    get,            \* get[g]: a read under way, when it began, what it read
    set,            \* set[s]: "new", "written" (the upsert is committed), "done"
    crossed         \* (history) values that were cached by their own change after
                    \* another change had replaced them

maintenanceVars == <<now, row, until, cache, lastFetchedAt, get, set, crossed>>

MaintenanceConstants == TTL \in Nat /\ Horizon \in Nat

Values == Sets \cup {Unset}

NoRead == [stage |-> "idle", at |-> 0, value |-> Unset]

MaintenanceTypeOK ==
    /\ now \in 0..Horizon
    /\ row \in Values
    /\ until \in [Values -> 0..Horizon]
    /\ cache \in Values
    /\ lastFetchedAt \in -TTL..Horizon
    /\ get \in [Gets -> [stage : {"idle", "asked", "read"}, at : 0..Horizon, value : Values]]
    /\ set \in [Sets -> {"new", "written", "done"}]
    /\ crossed \subseteq Sets

MaintenanceInit ==
    /\ now = 0
    /\ row = Unset
    /\ until = [v \in Values |-> 0]
    /\ cache = Unset
    /\ lastFetchedAt = -TTL
    /\ get = [g \in Gets |-> NoRead]
    /\ set = [s \in Sets |-> "new"]
    /\ crossed = {}

Tick ==
    /\ now < Horizon
    /\ now' = now + 1
    /\ UNCHANGED <<row, until, cache, lastFetchedAt, get, set, crossed>>

-----------------------------------------------------------------------------
(* getMaintenanceConfig.                                                   *)

CacheIsFresh == now - lastFetchedAt < TTL

\* A request that finds the cache fresh is answered from it and changes nothing.
Ask(g) ==
    /\ ~CacheIsFresh
    /\ get[g].stage = "idle"
    /\ get' = [get EXCEPT ![g] = [stage |-> "asked", at |-> now, value |-> Unset]]
    /\ UNCHANGED <<now, row, until, cache, lastFetchedAt, set, crossed>>

ReadRow(g) ==
    /\ get[g].stage = "asked"
    /\ get' = [get EXCEPT ![g].stage = "read", ![g].value = row]
    /\ UNCHANGED <<now, row, until, cache, lastFetchedAt, set, crossed>>

\* (mutant) the cache is stamped with the time of the answer
Answered_StampedLate(g) ==
    /\ get[g].stage = "read"
    /\ cache' = get[g].value
    /\ lastFetchedAt' = now
    /\ get' = [get EXCEPT ![g] = NoRead]
    /\ UNCHANGED <<now, row, until, set, crossed>>

\* The cache is stamped with the time the read began.
Answered(g) ==
    /\ get[g].stage = "read"
    /\ cache' = get[g].value
    /\ lastFetchedAt' = get[g].at
    /\ get' = [get EXCEPT ![g] = NoRead]
    /\ UNCHANGED <<now, row, until, set, crossed>>

\* The database is away: the last known state is kept, and not stamped.
ReadFails(g) ==
    /\ get[g].stage # "idle"
    /\ get' = [get EXCEPT ![g] = NoRead]
    /\ UNCHANGED <<now, row, until, cache, lastFetchedAt, set, crossed>>

-----------------------------------------------------------------------------
(* setMaintenanceConfig: the upsert, then the cache.  A call of another    *)
(* process, or one that dies after the upsert, stays "written".            *)

Upsert(s) ==
    /\ set[s] = "new"
    /\ set' = [set EXCEPT ![s] = "written"]
    /\ row' = s
    /\ until' = [until EXCEPT ![row] = now]
    /\ UNCHANGED <<now, cache, lastFetchedAt, get, crossed>>

CacheIt(s) ==
    /\ set[s] = "written"
    /\ set' = [set EXCEPT ![s] = "done"]
    /\ cache' = s
    /\ lastFetchedAt' = now
    /\ crossed' = IF row = s THEN crossed ELSE crossed \cup {s}
    /\ UNCHANGED <<now, row, until, get>>

MaintenanceNext ==
    \/ Tick
    \/ \E g \in Gets : Ask(g) \/ ReadRow(g) \/ Answered(g) \/ ReadFails(g)
    \/ \E s \in Sets : Upsert(s) \/ CacheIt(s)

MaintenanceSpec == MaintenanceInit /\ [][MaintenanceNext]_maintenanceVars

-----------------------------------------------------------------------------

\* A request that is answered from the cache gets a value that was the row's at
\* most TTL ago, however long the reads took and whatever changes overtook them:
\* a service that went under maintenance serves for TTL at most.  The exception is
\* a change overtaken by another before its own answer came, which then caches a
\* value that is already replaced.
ServedIsRecent ==
    CacheIsFresh => \/ cache = row
                    \/ now - until[cache] < TTL
                    \/ cache \in crossed
=============================================================================
