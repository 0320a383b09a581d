--------------------------- MODULE SchemaMigration ---------------------------
(***************************************************************************)
(* The explicit migrations of a database file from schema v1 to v4         *)
(* (database.py), one version at a time, each with a backup, while callers *)
(* of the store still write and a migration may die at any point.          *)
(*                                                                         *)
(* The migrations to v2 and v3 validate, back up and change the schema in  *)
(* one transaction.  It is begun without a lock, so it works on the        *)
(* snapshot of its first read, and SQLite refuses its first write when     *)
(* another connection has committed since.  The migration to v4 switches   *)
(* foreign keys off first, which SQLite allows only outside a transaction, *)
(* and so validates and backs up before its transaction begins.            *)
(*                                                                         *)
(* Rows are numbered in the order of their commit.                         *)
(***************************************************************************)
EXTENDS Naturals, FiniteSets

CONSTANTS
  Migrations,  (* processes that run the migrate command                    *)
  Paths,       (* backup paths                                              *)
  MaxRow       (* bound: rows ever written                                  *)

ASSUME MigrationAssumption == MaxRow \in Nat

VARIABLES
  version,    (* user_version of the database, 0 while the file is empty    *)
  rows,       (* rows committed                                             *)
  migration,  (* where each migration is, and what it has read              *)
  backups     (* what the file at each backup path holds                    *)

schemaVars == <<version, rows, migration, backups>>

Versions == 0..4

Contents == [version : Versions, rows : SUBSET (1..MaxRow)]

NoFile  == [kind |-> "none",    of |-> [version |-> 0, rows |-> {}]]
Partial == [kind |-> "partial", of |-> [version |-> 0, rows |-> {}]]

\* A copy: what the database is, or was for a snapshot.
Copy(contents) == [kind |-> "copy", of |-> contents]

Database == [version |-> version, rows |-> rows]

\* read: the contents the migration has validated.
Migration(pc, from, path, read) ==
  [pc |-> pc, from |-> from, path |-> path, read |-> read]

NoMigration == [pc |-> "none"]

\* A database that an earlier release has created, or no database yet.
SchemaInit ==
  /\ version \in 0..3
  /\ rows = {}
  /\ migration = [m \in Migrations |-> NoMigration]
  /\ backups = [p \in Paths |-> NoFile]

-----------------------------------------------------------------------------
(* The other callers *)

\* initialize: an empty database gets the newest schema, another stays as it is.
Initialize ==
  /\ version = 0
  /\ version' = 4
  /\ UNCHANGED <<rows, migration, backups>>

\* _check_schema: a v1 database is refused, older ones than the newest open.
Opens(v) == v \in 2..4

\* A transaction of the store.
Write ==
  /\ Opens(version)
  /\ Cardinality(rows) < MaxRow
  /\ rows' = rows \cup {Cardinality(rows) + 1}
  /\ UNCHANGED <<version, migration, backups>>

-----------------------------------------------------------------------------
(* A migration *)

At(m, pc) == migration[m].pc = pc

Goes(m, pc) == migration' = [migration EXCEPT ![m].pc = pc]

FreePath(p) == backups[p].kind = "none"

\* The command: the backup path is validated first.  Two commands that name one
\* path at the same time are left out.
Command(m, from, p) ==
  /\ At(m, "none")
  /\ \A o \in Migrations : ~At(o, "none") => migration[o].path # p
  /\ from \in 1..3
  /\ FreePath(p)
  /\ migration' = [migration EXCEPT ![m] = Migration("validate", from, p, Database)]
  /\ UNCHANGED <<version, rows, backups>>

\* _require_exact_v1, _v2 or _v3, with the shape that goes with the version.
Exactly(from) == version = from

\* The migrations to v2 and v3 read their snapshot here.
Validate(m) ==
  /\ At(m, "validate")
  /\ migration' = [migration EXCEPT ![m] =
       IF Exactly(@.from)
       THEN Migration("open", @.from, @.path, Database)
       ELSE [@ EXCEPT !.pc = "refused"]]
  /\ UNCHANGED <<version, rows, backups>>

\* The snapshot of the transaction; without one the backup reads what there is.
Source(m) == IF migration[m].from = 3 THEN Database ELSE migration[m].read

\* The backup writes to its path, whatever is there by now.
OpenBackup(m) ==
  /\ At(m, "open")
  /\ backups' = [backups EXCEPT ![migration[m].path] = Partial]
  /\ Goes(m, "copy")
  /\ UNCHANGED <<version, rows>>

FinishBackup(m) ==
  /\ At(m, "copy")
  /\ backups' = [backups EXCEPT ![migration[m].path] = Copy(Source(m))]
  /\ Goes(m, "apply")
  /\ UNCHANGED <<version, rows>>

\* A backup that fails is removed.
FailBackup(m) ==
  /\ At(m, "copy")
  /\ backups' = [backups EXCEPT ![migration[m].path] = NoFile]
  /\ Goes(m, "refused")
  /\ UNCHANGED <<version, rows>>

\* Mutant: the older migrations, too, begin their transaction after the backup.
UndisturbedNow(m) == TRUE

\* The first write of a transaction succeeds on the newest snapshot only; that
\* of the migration to v4 reads nothing before its first write.
Undisturbed(m) == migration[m].from = 3 \/ migration[m].read = Database

\* The statements, the second integrity check and the version in one commit.  On
\* a v4 database the statements of the last migration build v4 once more.
Apply(m) ==
  /\ At(m, "apply")
  /\ Undisturbed(m)
  /\ version' = migration[m].from + 1
  /\ Goes(m, "done")
  /\ UNCHANGED <<rows, backups>>

\* The database is busy or changed, or a statement or check fails: rolled back.
ApplyFails(m) ==
  /\ At(m, "apply")
  /\ Goes(m, "refused")
  /\ UNCHANGED <<version, rows, backups>>

\* The process is killed; the transaction is rolled back by the next reader.
Kill(m) ==
  /\ migration[m].pc \in {"validate", "open", "copy", "apply"}
  /\ migration' = [migration EXCEPT ![m] = NoMigration]
  /\ UNCHANGED <<version, rows, backups>>

\* The operator reads the outcome and may go on with another version.
Report(m) ==
  /\ migration[m].pc \in {"done", "refused"}
  /\ migration' = [migration EXCEPT ![m] = NoMigration]
  /\ UNCHANGED <<version, rows, backups>>

\* An operator removes the file an interrupted migration left.
RemovePartial(p) ==
  /\ backups[p].kind = "partial"
  /\ \A m \in Migrations : ~At(m, "copy")
  /\ backups' = [backups EXCEPT ![p] = NoFile]
  /\ UNCHANGED <<version, rows, migration>>

MigrationStep(m) ==
  \/ Validate(m)
  \/ OpenBackup(m) \/ FinishBackup(m) \/ FailBackup(m)
  \/ Apply(m) \/ ApplyFails(m)
  \/ Kill(m)
  \/ Report(m)

SchemaNext ==
  \/ Initialize
  \/ Write
  \/ \E m \in Migrations :
       \/ \E from \in 1..3, p \in Paths : Command(m, from, p)
       \/ MigrationStep(m)
  \/ \E p \in Paths : RemovePartial(p)

SchemaSpec == SchemaInit /\ [][SchemaNext]_schemaVars

-----------------------------------------------------------------------------
(* Properties *)

Begun == [pc   : {"validate", "open", "copy", "apply", "done", "refused"},
          from : 1..3,
          path : Paths,
          read : Contents]

SchemaTypeOK ==
  /\ version \in Versions
  /\ rows \subseteq 1..MaxRow
  /\ migration \in [Migrations -> {NoMigration} \cup Begun]
  /\ backups \in [Paths -> [kind : {"none", "partial", "copy"}, of : Contents]]

\* Each migration moves the database on by one version and leaves a backup of
\* exactly what it has changed, whatever was written, migrated or killed beside
\* it.  Only the migration to v4 may miss a commit, one that falls between its
\* validation and its transaction.
BackupIsExact ==
  [][\A m \in Migrations :
       At(m, "apply") /\ migration'[m].pc = "done" =>
         \/ /\ version = migration[m].from
            /\ version' = version + 1
            /\ backups[migration[m].path] = Copy(Database)
         \/ migration[m].from = 3 /\ migration[m].read # Database]_schemaVars

=============================================================================
