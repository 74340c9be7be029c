---------------------------- MODULE SchemaMigration ----------------------------
(***************************************************************************)
(* scripts/migrate_rt_schema.py: renames the columns of the curated        *)
(* GTFS-rt parquet files, which carry flat names, the dotted protobuf      *)
(* paths or a mixture of both depending on when they were written, to the  *)
(* dotted ones that the readers ask for; in place, with a thread per file, *)
(* and repeated after it failed or was killed.  One dataset: the two have  *)
(* directories of their own and are migrated one after the other.          *)
EXTENDS Integers, FiniteSets

CONSTANTS
  Columns,            \* of the canonical schema
  Stamp,              \* feed_timestamp, whose name has never had a dot
  FlatColumns,        \* the columns that had a flat name (the rename map)
  CuratedFiles,       \* paths of the dataset
  EraFiles,           \* the files that may be there: column names -> data
  NoData,             \* a column of nulls
  MaxMigrations,      \* bound: runs
  MaxMigrationFaults  \* bound: files that fail, and runs that die

VARIABLES
  curated,     \* path -> the file
  aside,       \* path -> <path>.tmp-migrate
  originals,   \* path -> the file as the rollup had written it
  migrator,    \* path -> the thread that migrates it
  migration,   \* the run
  migrations,  \* how often it was run
  migrationFaults

migrationVars == <<curated, aside, originals, migrator, migration, migrations, migrationFaults>>

-----------------------------------------------------------------------------
Flat(c) == <<"flat", c>>
Dotted(c) == <<"dotted", c>>
IsDotted(name) == name[1] = "dotted"

\* The name of a column in the canonical schema.
Canonical(c) == IF c = Stamp THEN Flat(c) ELSE Dotted(c)

Schema == {Canonical(c) : c \in Columns}

\* The time of the poll is in every file, and some column was renamed.
ASSUME MigrationAssumption ==
  /\ IsFiniteSet(Columns)
  /\ FlatColumns \subseteq Columns /\ FlatColumns # {}
  /\ Stamp \in Columns \ FlatColumns
  /\ \A file \in EraFiles : IsFiniteSet(DOMAIN file) /\ Flat(Stamp) \in DOMAIN file

\* Mutant of Classify: a file with dotted names is taken for a migrated one.
ClassifyAnyDotted(names) ==
  IF \E n \in names : IsDotted(n) THEN "DOTTED" ELSE "FLAT"

Classify(names) ==
  LET dotted == {n \in names : IsDotted(n)} IN
  IF dotted = {} THEN "FLAT"
  ELSE IF Cardinality(dotted) = Cardinality(names) - 1 THEN "DOTTED"
  ELSE "HYBRID"

Rename(name) ==
  IF name \in {Flat(c) : c \in FlatColumns} THEN Dotted(name[2]) ELSE name

\* Two columns of a file come to have the same name, and neither can be read.
Ambiguous(file) ==
  \E m, n \in DOMAIN file : m # n /\ Rename(m) = Rename(n) /\ Rename(m) \in Schema

\* Mutant of MigrateTable: names that are not canonical are not renamed, and
\* the columns are taken to be missing.
MigrateCanonical(file) ==
  [n \in Schema |-> IF n \in DOMAIN file THEN file[n] ELSE NoData]

\* The canonical columns: renamed, or nulls; of other columns nothing is kept.
MigrateTable(file) ==
  [n \in Schema |->
     IF \E m \in DOMAIN file : Rename(m) = n
     THEN file[CHOOSE m \in DOMAIN file : Rename(m) = n] ELSE NoData]

-----------------------------------------------------------------------------
NoParquet == <<>>
Unqueued == [at |-> "none", result |-> "none"]

MigrationInit ==
  /\ originals \in [CuratedFiles -> EraFiles]
  /\ curated = originals
  /\ aside = [f \in CuratedFiles |-> NoParquet]
  /\ migrator = [f \in CuratedFiles |-> Unqueued]
  /\ migration = "idle"
  /\ migrations = 0 /\ migrationFaults = 0

\* main: every file is queued, in a dry run or to be rewritten.
StartMigration(mode) ==
  /\ migration = "idle"
  /\ migrations < MaxMigrations
  /\ migrations' = migrations + 1
  /\ migration' = mode
  /\ migrator' = [f \in CuratedFiles |-> [at |-> "queued", result |-> "none"]]
  /\ UNCHANGED <<curated, aside, originals, migrationFaults>>

FileEnds(f, result) == migrator' = [migrator EXCEPT ![f] = [at |-> "done", result |-> result]]

\* migrate_file, up to what it writes: the footer decides.
ReadSchema(f) ==
  LET era == Classify(DOMAIN curated[f]) IN
  /\ migrator[f].at = "queued"
  /\ \/ era = "DOTTED" /\ FileEnds(f, "skip")
     \/ era # "DOTTED" /\ migration = "dry" /\ FileEnds(f, "would-migrate")
     \/ era # "DOTTED" /\ migration = "apply" /\ Ambiguous(curated[f]) /\ FileEnds(f, "error")
     \/ /\ era # "DOTTED" /\ migration = "apply" /\ ~Ambiguous(curated[f])
        /\ migrator' = [migrator EXCEPT ![f].at = "write"]
  /\ UNCHANGED <<curated, aside, originals, migration, migrations, migrationFaults>>

WriteAside(f) ==
  /\ migrator[f].at = "write"
  /\ migrator' = [migrator EXCEPT ![f].at = "replace"]
  /\ aside' = [aside EXCEPT ![f] = MigrateTable(curated[f])]
  /\ UNCHANGED <<curated, originals, migration, migrations, migrationFaults>>

Replace(f) ==
  /\ migrator[f].at = "replace"
  /\ curated' = [curated EXCEPT ![f] = aside[f]]
  /\ aside' = [aside EXCEPT ![f] = NoParquet]
  /\ FileEnds(f, "migrated")
  /\ UNCHANGED <<originals, migration, migrations, migrationFaults>>

\* An exception costs the one file; what it wrote aside stays.
MigrateFails(f) ==
  /\ migrator[f].at \in {"queued", "write", "replace"}
  /\ migrationFaults < MaxMigrationFaults
  /\ migrationFaults' = migrationFaults + 1
  /\ FileEnds(f, "error")
  /\ UNCHANGED <<curated, aside, originals, migration, migrations>>

\* The tally is printed and the exit code is 0, whatever it says.
Tally ==
  /\ migration \in {"dry", "apply"}
  /\ \A f \in CuratedFiles : migrator[f].at = "done"
  /\ migration' = IF migration = "dry" THEN "previewed" ELSE "applied"
  /\ UNCHANGED <<curated, aside, originals, migrator, migrations, migrationFaults>>

MigrationRests ==
  /\ migration \in {"previewed", "applied"}
  /\ migration' = "idle"
  /\ UNCHANGED <<curated, aside, originals, migrator, migrations, migrationFaults>>

MigrationDies ==
  /\ migration \in {"dry", "apply"}
  /\ migrationFaults < MaxMigrationFaults
  /\ migrationFaults' = migrationFaults + 1
  /\ migration' = "idle"
  /\ migrator' = [f \in CuratedFiles |-> Unqueued]
  /\ UNCHANGED <<curated, aside, originals, migrations>>

MigrationNext ==
  \/ \E mode \in {"dry", "apply"} : StartMigration(mode)
  \/ \E f \in CuratedFiles :
       ReadSchema(f) \/ WriteAside(f) \/ Replace(f) \/ MigrateFails(f)
  \/ Tally \/ MigrationRests \/ MigrationDies

MigrationSpec == MigrationInit /\ [][MigrationNext]_migrationVars

-----------------------------------------------------------------------------
Tables == EraFiles \cup {MigrateTable(file) : file \in EraFiles}
Asides == {NoParquet} \cup {MigrateTable(table) : table \in Tables}

\* No path ever has half of a file.
MigrationTypeOK ==
  /\ originals \in [CuratedFiles -> EraFiles]
  /\ curated \in [CuratedFiles -> Tables]
  /\ aside \in [CuratedFiles -> Asides]
  /\ migrator \in [CuratedFiles -> [at : {"none", "queued", "write", "replace", "done"},
                                    result : {"none", "skip", "would-migrate", "migrated", "error"}]]
  /\ migration \in {"idle", "dry", "apply", "previewed", "applied"}
  /\ migrations \in Nat /\ migrationFaults \in Nat

\* A column of a file, under whichever of its names, if it has one of them.
DataOf(file, c) ==
  IF Canonical(c) \in DOMAIN file THEN file[Canonical(c)]
  ELSE IF c \in FlatColumns /\ Flat(c) \in DOMAIN file THEN file[Flat(c)]
  ELSE NoData

\* "A pure naming + null-padding pass": whatever was skipped, failed, killed
\* half-way and repeated, every canonical column of every file still has the
\* data it was written with.
EveryColumnKept ==
  \A f \in CuratedFiles :
    curated[f] # originals[f] =>
      \A c \in Columns : DataOf(curated[f], c) = DataOf(originals[f], c)

\* A file in which two columns come to have one name is left as it was.
AmbiguousLeftAlone ==
  \A f \in CuratedFiles : curated[f] # originals[f] => ~Ambiguous(originals[f])

\* "So a whole-dataset read unifies": after a run without errors no file has
\* a flat name left, every file it migrated has exactly the canonical columns,
\* and the next run skips it.
AppliedRunUnifies ==
  /\ \A f \in CuratedFiles :
       curated[f] # originals[f] =>
         DOMAIN curated[f] = Schema /\ Classify(DOMAIN curated[f]) = "DOTTED"
  /\ migration = "applied" /\ (\A f \in CuratedFiles : migrator[f].result # "error") =>
       \A f \in CuratedFiles, c \in FlatColumns : Flat(c) \notin DOMAIN curated[f]

\* The migration of the curated files.
MigrationSound ==
  MigrationTypeOK /\ EveryColumnKept /\ AmbiguousLeftAlone /\ AppliedRunUnifies
=============================================================================
