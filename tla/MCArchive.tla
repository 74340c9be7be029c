------------------------------ MODULE MCArchive ------------------------------
(***************************************************************************)
(* What happens to a day that is archived, model-checked together: the     *)
(* batch that makes and prunes it (MCBatchDay), and the two jobs that      *)
(* rewrite in place what earlier versions of the code have made.  They     *)
(* share no state in the models, so each behaviour is one of them, the     *)
(* others resting in their initial states.                                 *)
(***************************************************************************)
EXTENDS MCBatchDay, MetadataRewrite, SchemaMigration

VARIABLE part

-----------------------------------------------------------------------------
(* "rewrite": polls that are repeated within a microsecond or have no      *)
(* time, and a row with a column that the schema does not have.            *)

PollRow(t, d, n) == [timestamp |-> t, digest |-> d, line |-> n]

SomeDays == {
  [unknown |-> FALSE,
   rows |-> <<PollRow(0, "a", 1), PollRow(1, "a", 2), PollRow(0, "b", 3),
              PollRow(NotFinite, "a", 4)>>],
  [unknown |-> FALSE, rows |-> <<PollRow(3, "a", 1)>>],
  [unknown |-> TRUE, rows |-> <<PollRow(3, "a", 1)>>]}

TwoPartitions == {"vehicles", "alerts"}

(* "migrate": files of the flat, the mixed and the dotted names, with a    *)
(* column that none of them has, and one in which two columns meet.        *)

FourColumns == {"feed_timestamp", "trip_id", "stop_id", "start_time"}
HadFlatNames == {"trip_id", "stop_id"}

ColumnsNamed(names) == [n \in names \cup {Flat("feed_timestamp")} |-> n]

SomeEraFiles == {
  ColumnsNamed({Flat("trip_id"), Flat("stop_id")}),
  ColumnsNamed({Flat("trip_id"), Dotted("stop_id"), Flat("no_column")}),
  ColumnsNamed({Dotted("trip_id"), Dotted("stop_id"), Dotted("start_time")}),
  ColumnsNamed({Flat("trip_id"), Dotted("trip_id"), Dotted("stop_id")})}

-----------------------------------------------------------------------------
archiveVars == <<part, vars, rewriteVars, migrationVars>>

ArchiveInit ==
  /\ part \in {"day", "rewrite", "migrate"}
  /\ Init /\ RewriteInit /\ MigrationInit
  /\ \/ part = "migrate"
     \/ originals = [f \in CuratedFiles |-> CHOOSE any \in EraFiles : TRUE]

ArchiveNext ==
  /\ UNCHANGED part
  /\ \/ part = "day" /\ Next /\ UNCHANGED <<rewriteVars, migrationVars>>
     \/ part = "rewrite" /\ RewriteNext /\ UNCHANGED <<vars, migrationVars>>
     \/ part = "migrate" /\ MigrationNext /\ UNCHANGED <<vars, rewriteVars>>

ArchiveSpec == ArchiveInit /\ [][ArchiveNext]_archiveVars

=============================================================================
