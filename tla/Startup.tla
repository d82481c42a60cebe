------------------------------- MODULE Startup -------------------------------
(***************************************************************************)
(* What happens to the database before the program serves: a database from *)
(* before versioned migrations is adopted, goose applies the migrations    *)
(* (internal/store/migrate.go, migrations/), and an empty profile table is *)
(* filled with the defaults (internal/store/seed.go).  Every statement     *)
(* stands for itself, a migration is a transaction with its version, and   *)
(* the process may die between any two of them and be started again.       *)
(***************************************************************************)
EXTENDS Naturals, FiniteSets, Sequences

CONSTANTS
    Legacy,    \* columns addMissingColumns knows of
    Dropped,   \* the one of them the last migration drops
    Added,     \* the columns the migrations after the first add, one each
    Defaults,  \* the number of default profiles
    Unversioned \* the version of a database that goose does not manage

VARIABLES
    tables,     \* the tables of the first migration exist
    columns,    \* which of the columns above they have
    versioned,  \* the table goose_db_version exists
    version,    \* the last migration it names, Unversioned without one
    profiles,   \* the number of profile rows
    phase       \* where the start is

dbVars == <<tables, columns, versioned, version, profiles>>
vars == <<dbVars, phase>>

AddedColumns == {Added[m] : m \in 1..Len(Added)}
Column == Legacy \cup AddedColumns
Last == Len(Added) + 2

TypeOK ==
    /\ tables \in BOOLEAN /\ columns \subseteq Column
    /\ versioned \in BOOLEAN /\ version \in 0..Last \cup {Unversioned}
    /\ profiles \in 0..Defaults
    /\ phase \in {"open", "columns", "create", "stamp", "up", "seed", "seeding", "serve", "failed"}

\* The columns of a database at a version.
ColumnsAt(v) == Legacy \cup {Added[m] : m \in {m \in 1..Len(Added) : m < v}}

\* A new database, one of an old release without versions, which may lack any
\* column that came later, or one an earlier release has left at some version.
Init ==
    /\ phase = "open"
    /\ \/ tables = FALSE /\ columns = {} /\ versioned = FALSE /\ version = Unversioned /\ profiles = 0
       \/ /\ tables = TRUE /\ columns \in SUBSET Legacy /\ versioned = FALSE /\ version = Unversioned
          /\ profiles \in {0, Defaults}
       \/ /\ tables = TRUE /\ versioned = TRUE /\ version \in 1..(Last - 1) /\ columns = ColumnsAt(version)
          /\ profiles \in {0, Defaults}

-----------------------------------------------------------------------------
(* adoptLegacyDB *)

Goes(here, there) == phase = here /\ phase' = there

\* Only a database that has tables and no version table is adopted.
OpenStore ==
    /\ Goes("open", IF ~versioned /\ tables THEN "columns" ELSE "up")
    /\ UNCHANGED dbVars

\* addMissingColumns: one ALTER TABLE for each column that is not there.
AddColumn ==
    /\ phase = "columns"
    /\ \E c \in Legacy \ columns : columns' = columns \cup {c}
    /\ UNCHANGED <<tables, versioned, version, profiles, phase>>

ColumnsAdded ==
    /\ Goes("columns", "create")
    /\ Legacy \subseteq columns
    /\ UNCHANGED dbVars

CreateVersions ==
    /\ Goes("create", "stamp")
    /\ versioned' = TRUE
    /\ UNCHANGED <<tables, columns, version, profiles>>

\* Mutant: an adopted database counts as one of this release.
StampLast == Last

\* INSERT ... (0, 1), (1, 1): the first migration need not be run.
Stamp == 1

StampVersion ==
    /\ Goes("stamp", "up")
    /\ version' = Stamp
    /\ UNCHANGED <<tables, columns, versioned, profiles>>

-----------------------------------------------------------------------------
(* goose *)

\* goose makes its version table with version 0 in one transaction.  An empty
\* one, which a crash before the stamp leaves behind, it may refuse.
StartVersions ==
    /\ phase = "up" /\ version = Unversioned
    /\ \/ version' = 0 /\ versioned' = TRUE /\ UNCHANGED phase
       \/ versioned /\ phase' = "failed" /\ UNCHANGED <<versioned, version>>
    /\ UNCHANGED <<tables, columns, profiles>>

\* The next migration: the first creates what tables are missing, the last
\* drops a column, the others add one each.
Migrate ==
    /\ phase = "up" /\ version # Unversioned /\ version < Last
    /\ version' = version + 1
    /\ \/ version = 0 /\ tables' = TRUE /\ columns' = IF tables THEN columns ELSE Legacy
       \/ /\ version > 0 /\ version' < Last
          /\ Added[version] \notin columns /\ columns' = columns \cup {Added[version]}
          /\ UNCHANGED tables
       \/ /\ version > 0 /\ version' = Last
          /\ Dropped \in columns /\ columns' = columns \ {Dropped}
          /\ UNCHANGED tables
    /\ UNCHANGED <<versioned, profiles, phase>>

Migrated ==
    /\ Goes("up", "seed")
    /\ version = Last
    /\ UNCHANGED dbVars

-----------------------------------------------------------------------------
(* seedDefaultProfiles, and what comes after *)

\* Profiles are seeded if there is none, deleted ones included.
CountProfiles ==
    /\ Goes("seed", IF profiles = 0 THEN "seeding" ELSE "serve")
    /\ UNCHANGED dbVars

SeedProfile ==
    /\ phase = "seeding" /\ profiles < Defaults
    /\ profiles' = profiles + 1
    /\ UNCHANGED <<tables, columns, versioned, version, phase>>

Seeded ==
    /\ Goes("seeding", "serve")
    /\ profiles = Defaults
    /\ UNCHANGED dbVars

\* The process dies, or a statement fails and ends it, and is started again.
Restart ==
    /\ phase # "open"
    /\ phase' = "open"
    /\ UNCHANGED dbVars

Next ==
    \/ OpenStore \/ AddColumn \/ ColumnsAdded \/ CreateVersions \/ StampVersion
    \/ StartVersions \/ Migrate \/ Migrated
    \/ CountProfiles \/ SeedProfile \/ Seeded
    \/ Restart

Spec == Init /\ [][Next]_vars

-----------------------------------------------------------------------------
(* Properties *)

\* Whatever release a database comes from and wherever earlier starts have
\* died, the program serves only with every column it uses, and with the
\* dropped one gone (adoptLegacyDB, addMissingColumns, migrate).
SchemaIsComplete == phase = "serve" => tables /\ columns = Column \ {Dropped}

=============================================================================
