------------------------------ MODULE Storage ------------------------------
(***************************************************************************)
(* Opening the Registry: Registry::initialize in several processes at      *)
(* once, of binaries that support different schema versions, any of which  *)
(* may die between two transactions.                                       *)
(*                                                                         *)
(* Sources: runtime/registry/storage.rs, runtime/registry.rs (checksums).  *)
(***************************************************************************)
EXTENDS Integers, Sequences

CONSTANTS
    Openers,        \* processes that open the Registry
    Supported,      \* per process, its binary's MAX_MIGRATION_VERSION
    NewestVersion   \* the newest version any binary knows

(* A binary knows the initial migration at least.                          *)
ASSUME StorageAssumption ==
    NewestVersion \in Nat /\ Supported \in [Openers -> 1 .. NewestVersion]

VARIABLES
    journal,        \* schema_migrations: per version, the recorded checksum
    shape,          \* the migration scripts the tables have been through
    sideTables,     \* the storage that is ensured outside the migrations
    opener          \* per process, where initialize is

storageVars == <<journal, shape, sideTables, opener>>

Versions == 1 .. NewestVersion
Missing == "missing"
Checksums == {"own", "other"}

(* ensure_query_indexes and the four ensure_*_storage functions, in order. *)
SideStorage == <<"query_indexes", "execution_provider", "supervisor_owner",
                 "host_dependency", "runtime_release">>

Closed == [pc |-> "closed", seen |-> 0, at |-> 0]
Recorded == {v \in Versions : journal[v] # Missing}

(* An installation that has been migrated to some version, with a script   *)
(* at the top that may be another build's.                                 *)
StorageInit ==
    \E n \in 0 .. NewestVersion, top \in Checksums :
        /\ n = 0 => top = "own"
        /\ journal = [v \in Versions |-> IF v > n THEN Missing
                                         ELSE IF v = n THEN top ELSE "own"]
        /\ shape = [v \in 1 .. n |-> v]
        /\ sideTables = {}
        /\ opener = [o \in Openers |-> Closed]

Go(o, pc, at) ==
    opener' = [opener EXCEPT ![o].pc = pc, ![o].at = at]
RefuseOpen(o) == Go(o, "refused", 0)
Is(o, pc) == opener[o].pc = pc

-----------------------------------------------------------------------------
OpenConnection(o) ==
    /\ Is(o, "closed")
    /\ Go(o, "table", 0)
    /\ UNCHANGED <<journal, shape, sideTables>>

(* The script runs and its version is recorded in two transactions.        *)
RunScriptUnrecorded(o, v) ==
    /\ shape' = Append(shape, v)
    /\ IF \E i \in 1 .. Len(shape) : shape[i] = v
       THEN journal' = [journal EXCEPT ![v] = "own"]
       ELSE UNCHANGED journal

(* One immediate transaction: the script, and its row, whose version is    *)
(* the primary key.                                                        *)
RunScript(o, v) ==
    /\ shape' = Append(shape, v)
    /\ journal' = [journal EXCEPT ![v] = "own"]

(* The transaction fails as a whole where the row is there already.        *)
Applies(o, v, pc, at) ==
    IF journal[v] = Missing
    THEN RunScript(o, v) /\ Go(o, pc, at)
    ELSE RefuseOpen(o) /\ UNCHANGED <<journal, shape>>

(* has_table is read outside the transaction that acts on it.              *)
InspectTable(o) ==
    /\ Is(o, "table")
    /\ Go(o, IF Recorded = {} THEN "initial" ELSE "version", 0)
    /\ UNCHANGED <<journal, shape, sideTables>>

InitialMigration(o) ==
    /\ Is(o, "initial")
    /\ Applies(o, 1, "version", 0)
    /\ UNCHANGED sideTables

(* max_version is read once, and every later migration is decided by it.   *)
ReadVersion(o) ==
    /\ Is(o, "version")
    /\ LET newest == CHOOSE v \in Recorded : \A w \in Recorded : w <= v
       IN  opener' = [opener EXCEPT
              ![o] = IF newest > Supported[o]
                     THEN [@ EXCEPT !.pc = "refused"]
                     ELSE [pc |-> "validate", seen |-> newest, at |-> 1]]
    /\ UNCHANGED <<journal, shape, sideTables>>

ApplyMigration(o) ==
    /\ Is(o, "apply")
    /\ LET v == opener[o].at IN
       IF opener[o].seen < v
       THEN Applies(o, v, "validate", v)
       ELSE Go(o, "validate", v) /\ UNCHANGED <<journal, shape>>
    /\ UNCHANGED sideTables

(* Past the newest migration the binary knows, the side storage follows.   *)
ValidateChecksum(o) ==
    /\ Is(o, "validate")
    /\ LET v == opener[o].at IN
       IF journal[v] # "own" THEN RefuseOpen(o)
       ELSE IF v < Supported[o] THEN Go(o, "apply", v + 1)
       ELSE Go(o, "ensure", 1)
    /\ UNCHANGED <<journal, shape, sideTables>>

(* Create if missing, commit, and look again.                              *)
EnsureStorage(o) ==
    /\ Is(o, "ensure")
    /\ LET i == opener[o].at IN
       /\ sideTables' = sideTables \cup {SideStorage[i]}
       /\ IF i < Len(SideStorage) THEN Go(o, "ensure", i + 1)
                                  ELSE Go(o, "ready", 0)
    /\ UNCHANGED <<journal, shape>>

(* The process dies or stops, from whatever point; a refused one exits.    *)
CloseRegistry(o) ==
    /\ ~Is(o, "closed")
    /\ opener' = [opener EXCEPT ![o] = Closed]
    /\ UNCHANGED <<journal, shape, sideTables>>

StorageNext ==
    \E o \in Openers :
        \/ OpenConnection(o) \/ InspectTable(o) \/ InitialMigration(o)
        \/ ReadVersion(o) \/ ApplyMigration(o) \/ ValidateChecksum(o)
        \/ EnsureStorage(o) \/ CloseRegistry(o)

StorageSpec == StorageInit /\ [][StorageNext]_storageVars

-----------------------------------------------------------------------------
\* The journal names versions and every opener is at a known step.
StorageTypeOK ==
    /\ journal \in [Versions -> Checksums \cup {Missing}]
    /\ shape \in Seq(Versions)
    /\ \A o \in Openers :
          /\ opener[o].pc \in {"closed", "table", "initial", "version",
                "validate", "apply", "ensure", "ready", "refused"}
          /\ opener[o].seen \in 0 .. NewestVersion

(* Every migration script has run exactly once, in order, and exactly the  *)
(* recorded ones have, although the decision to run one is taken outside   *)
(* its transaction and processes die between transactions; and a Registry  *)
(* that is open has every migration its binary needs, from that binary's   *)
(* own scripts, and all of the side storage.                               *)
SchemaExact ==
    /\ shape = [v \in 1 .. Len(shape) |-> v]
    /\ Recorded = 1 .. Len(shape)
    /\ \A o \in Openers : Is(o, "ready") =>
          /\ \A v \in 1 .. Supported[o] : journal[v] = "own"
          /\ sideTables = {SideStorage[i] : i \in 1 .. Len(SideStorage)}
=============================================================================
