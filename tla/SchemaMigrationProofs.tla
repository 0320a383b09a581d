------------------------ MODULE SchemaMigrationProofs ------------------------
(***************************************************************************)
(* Any number of migrations, backup paths and rows: the file a migration   *)
(* leaves beside the database holds exactly what the migration changed.    *)
(*                                                                         *)
(* The argument is one of order.  The contents of the database only grow,  *)
(* and what a migration has validated, what it has copied and what the     *)
(* database is now follow each other in that order; the older migrations   *)
(* copy what they validated, and SQLite lets them commit only on that.     *)
(***************************************************************************)
EXTENDS SchemaMigration, FiniteSetTheorems, TLAPS

\* Contents that the database has had on its way to others.
Before(x, y) == x.version <= y.version /\ x.rows \subseteq y.rows

\* What a migration has validated is of its version, and what it has copied lies
\* between that and the database.
StepInv(mg, files, database) ==
  mg # NoMigration =>
    /\ Before(mg.read, database)
    /\ mg.pc \in {"open", "copy", "apply"} => mg.read.version = mg.from
    /\ mg.pc = "apply" =>
         /\ files[mg.path].kind = "copy"
         /\ Before(mg.read, files[mg.path].of)
         /\ Before(files[mg.path].of, database)
         /\ mg.from < 3 => files[mg.path].of = mg.read

\* No two migrations under way write to one path.
PathsDiffer ==
  \A m, o \in Migrations :
    m # o /\ migration[m] # NoMigration /\ migration[o] # NoMigration
      => migration[m].path # migration[o].path

SchemaInv ==
  /\ SchemaTypeOK
  /\ IsFiniteSet(rows)
  /\ \A m \in Migrations : StepInv(migration[m], backups, Database)
  /\ PathsDiffer

Files == [Paths -> [kind : {"none", "partial", "copy"}, of : Contents]]

-----------------------------------------------------------------------------
(* Contents and migrations *)

LEMMA DatabaseIs ==
  ASSUME SchemaInv
  PROVE  Database \in Contents /\ Before(Database, Database)
BY DEF SchemaInv, SchemaTypeOK, Database, Contents, Before, Versions

LEMMA BeforeIsTransitive ==
  ASSUME NEW x \in Contents, NEW y \in Contents, NEW z \in Contents,
         Before(x, y), Before(y, z)
  PROVE  Before(x, z)
BY DEF Before, Contents, Versions

LEMMA BeforeBothWays ==
  ASSUME NEW x \in Contents, NEW y \in Contents, Before(x, y), Before(y, x)
  PROVE  x = y
BY DEF Before, Contents, Versions

\* A migration under way is one that was begun.
LEMMA BegunIs ==
  ASSUME SchemaInv, NEW m \in Migrations, ~At(m, "none")
  PROVE  migration[m] \in Begun /\ migration[m] # NoMigration
BY DEF SchemaInv, SchemaTypeOK, At, NoMigration, Begun

\* The database may move on and other files change under a migration.
LEMMA StepStays ==
  ASSUME NEW mg \in {NoMigration} \cup Begun, NEW files \in Files, NEW more \in Files,
         NEW x \in Contents, NEW y \in Contents, Before(x, y),
         mg # NoMigration => more[mg.path] = files[mg.path],
         StepInv(mg, files, x)
  PROVE  StepInv(mg, more, y)
<1> SUFFICES ASSUME mg # NoMigration
             PROVE  StepInv(mg, more, y)
  BY DEF StepInv
<1>1. mg \in Begun /\ mg.read \in Contents /\ files[mg.path].of \in Contents
  BY DEF Begun, Files
<1>2. Before(mg.read, y)
  BY <1>1, BeforeIsTransitive DEF StepInv
<1>3. mg.pc = "apply" => Before(files[mg.path].of, y)
  BY <1>1, BeforeIsTransitive DEF StepInv
<1> QED
  BY <1>2, <1>3 DEF StepInv

\* One migration moves, with its own file and perhaps the version; the others
\* stay where they are.
LEMMA OneMigrates ==
  ASSUME SchemaInv, NEW m \in Migrations, NEW mg \in {NoMigration} \cup Begun,
         migration' = [migration EXCEPT ![m] = mg],
         \A o \in Migrations \ {m} :
           migration[o] # NoMigration =>
             /\ mg # NoMigration => migration[o].path # mg.path
             /\ backups'[migration[o].path] = backups[migration[o].path],
         backups' \in Files,
         version' \in Versions, version <= version', UNCHANGED rows,
         StepInv(mg, backups', Database')
  PROVE  SchemaInv'
<1>1. /\ migration \in [Migrations -> {NoMigration} \cup Begun]
      /\ backups \in Files
      /\ version \in Versions /\ rows \subseteq 1..MaxRow
  BY DEF SchemaInv, SchemaTypeOK, Files
<1>2. migration' \in [Migrations -> {NoMigration} \cup Begun] /\ migration'[m] = mg
  BY <1>1
<1>3. \A o \in Migrations \ {m} : migration'[o] = migration[o]
  BY <1>1
<1>4. Database \in Contents /\ Database' \in Contents /\ Before(Database, Database')
  BY <1>1 DEF Database, Contents, Before
<1>5. \A o \in Migrations : StepInv(migration'[o], backups', Database')
  <2> SUFFICES ASSUME NEW o \in Migrations \ {m}
               PROVE  StepInv(migration'[o], backups', Database')
    BY <1>2
  <2>1. migration[o] \in {NoMigration} \cup Begun /\ StepInv(migration[o], backups, Database)
    BY <1>1 DEF SchemaInv
  <2>2. StepInv(migration[o], backups', Database')
    BY <1>1, <1>4, <2>1, StepStays
  <2> QED
    BY <1>3, <2>2
<1>6. PathsDiffer'
  <2> SUFFICES ASSUME NEW o \in Migrations, NEW p \in Migrations, o # p,
                      migration'[o] # NoMigration, migration'[p] # NoMigration
               PROVE  migration'[o].path # migration'[p].path
    BY DEF PathsDiffer
  <2>1. CASE o # m /\ p # m
    BY <1>3, <2>1 DEF SchemaInv, PathsDiffer
  <2>2. CASE o = m
    BY <1>2, <1>3, <2>2
  <2>3. CASE p = m
    BY <1>2, <1>3, <2>3
  <2> QED
    BY <2>1, <2>2, <2>3
<1>7. SchemaTypeOK'
  BY <1>1, <1>2 DEF SchemaTypeOK, Files
<1> QED
  BY <1>5, <1>6, <1>7 DEF SchemaInv

\* It keeps its path and changes the file there, or changes none.
LEMMA Continues ==
  ASSUME SchemaInv, NEW m \in Migrations, NEW mg \in {NoMigration} \cup Begun,
         ~At(m, "none"),
         migration' = [migration EXCEPT ![m] = mg],
         mg # NoMigration => mg.path = migration[m].path,
         NEW file \in [kind : {"none", "partial", "copy"}, of : Contents],
         \/ UNCHANGED backups
         \/ backups' = [backups EXCEPT ![migration[m].path] = file],
         version' \in Versions, version <= version', UNCHANGED rows,
         StepInv(mg, backups', Database')
  PROVE  SchemaInv'
<1>1. backups \in Files /\ migration[m] # NoMigration /\ migration[m] \in Begun
  BY BegunIs DEF SchemaInv, SchemaTypeOK, Files
<1>2. backups' \in Files
  BY <1>1 DEF Files
<1>3. \A o \in Migrations \ {m} :
        migration[o] # NoMigration =>
          /\ mg # NoMigration => migration[o].path # mg.path
          /\ backups'[migration[o].path] = backups[migration[o].path]
  <2> SUFFICES ASSUME NEW o \in Migrations \ {m}, migration[o] # NoMigration
               PROVE  /\ mg # NoMigration => migration[o].path # mg.path
                      /\ backups'[migration[o].path] = backups[migration[o].path]
    OBVIOUS
  <2>1. migration[o].path # migration[m].path
    BY <1>1 DEF SchemaInv, PathsDiffer
  <2>2. migration[o].path \in Paths
    BY DEF SchemaInv, SchemaTypeOK, Begun
  <2> QED
    BY <1>1, <2>1, <2>2 DEF Files
<1> QED
  BY <1>2, <1>3, OneMigrates

\* What Goes does to a migration: it is somewhere else, with what it has read.
LEMMA GoesIs ==
  ASSUME SchemaInv, NEW m \in Migrations, ~At(m, "none"),
         NEW pc \in {"validate", "open", "copy", "apply", "done", "refused"},
         Goes(m, pc),
         NEW mg, mg = [migration[m] EXCEPT !.pc = pc]
  PROVE  /\ migration' = [migration EXCEPT ![m] = mg]
         /\ mg \in Begun
         /\ mg.pc = pc /\ mg.from = migration[m].from
         /\ mg.path = migration[m].path /\ mg.read = migration[m].read
<1>1. migration[m] \in Begun
  BY BegunIs
<1> QED
  BY <1>1 DEF Begun, Goes

-----------------------------------------------------------------------------
(* Other callers *)

\* The database grows and nothing else changes.
LEMMA DatabaseGrows ==
  ASSUME SchemaInv, UNCHANGED <<migration, backups>>,
         version' \in Versions, version <= version',
         rows' \subseteq 1..MaxRow, rows \subseteq rows', IsFiniteSet(rows')
  PROVE  SchemaInv'
<1>1. /\ migration \in [Migrations -> {NoMigration} \cup Begun]
      /\ backups \in Files
      /\ version \in Versions /\ rows \subseteq 1..MaxRow
  BY DEF SchemaInv, SchemaTypeOK, Files
<1>2. Database \in Contents /\ Database' \in Contents /\ Before(Database, Database')
  BY <1>1 DEF Database, Contents, Before
<1>3. \A m \in Migrations : StepInv(migration'[m], backups', Database')
  <2> SUFFICES ASSUME NEW m \in Migrations
               PROVE  StepInv(migration[m], backups', Database')
    OBVIOUS
  <2>1. migration[m] \in {NoMigration} \cup Begun /\ StepInv(migration[m], backups, Database)
    BY <1>1 DEF SchemaInv
  <2> QED
    BY <1>1, <1>2, <2>1, StepStays
<1>4. PathsDiffer'
  BY DEF SchemaInv, PathsDiffer
<1> QED
  BY <1>1, <1>3, <1>4 DEF SchemaInv, SchemaTypeOK

LEMMA InitializeKeeps ==
  ASSUME SchemaInv, Initialize
  PROVE  SchemaInv'
BY DatabaseGrows DEF Initialize, SchemaInv, SchemaTypeOK, Versions

LEMMA WriteKeeps ==
  ASSUME SchemaInv, Write
  PROVE  SchemaInv'
<1>1. Cardinality(rows) \in Nat /\ IsFiniteSet(rows) /\ rows \subseteq 1..MaxRow
  BY FS_CardinalityType DEF SchemaInv, SchemaTypeOK
<1>2. Cardinality(rows) + 1 \in 1..MaxRow
  BY <1>1, MigrationAssumption DEF Write
<1>3. IsFiniteSet(rows') /\ rows' \subseteq 1..MaxRow /\ rows \subseteq rows'
  BY <1>1, <1>2, FS_AddElement DEF Write
<1> QED
  BY <1>3, DatabaseGrows DEF Write, SchemaInv, SchemaTypeOK, Versions

\* A file that no migration has finished is removed.
LEMMA RemoveKeeps ==
  ASSUME SchemaInv, NEW p \in Paths, RemovePartial(p)
  PROVE  SchemaInv'
<1>1. /\ migration \in [Migrations -> {NoMigration} \cup Begun]
      /\ backups \in Files
      /\ backups[p].kind = "partial"
      /\ UNCHANGED <<version, rows, migration>>
  BY DEF SchemaInv, SchemaTypeOK, Files, RemovePartial
<1>2. NoFile \in [kind : {"none", "partial", "copy"}, of : Contents]
  BY DEF NoFile, Contents, Versions
<1>3. backups' \in Files /\ \A q \in Paths \ {p} : backups'[q] = backups[q]
  BY <1>1, <1>2 DEF Files, RemovePartial
<1>4. Database' = Database
  BY <1>1 DEF Database
<1>5. \A m \in Migrations : StepInv(migration'[m], backups', Database')
  <2> SUFFICES ASSUME NEW m \in Migrations, migration[m] # NoMigration
               PROVE  StepInv(migration[m], backups', Database)
    BY <1>1, <1>4 DEF StepInv
  <2>1. migration[m] \in Begun /\ StepInv(migration[m], backups, Database)
    BY <1>1 DEF SchemaInv
  <2>2. migration[m].path \in Paths
    BY <2>1 DEF Begun
  <2>3. migration[m].pc = "apply" => migration[m].path # p
    BY <1>1, <2>1 DEF StepInv
  <2> QED
    BY <1>3, <2>1, <2>2, <2>3 DEF StepInv
<1>6. PathsDiffer'
  BY <1>1 DEF SchemaInv, PathsDiffer
<1> QED
  BY <1>1, <1>3, <1>5, <1>6 DEF SchemaInv, SchemaTypeOK, Files

-----------------------------------------------------------------------------
(* The steps of a migration *)

LEMMA CommandKeeps ==
  ASSUME SchemaInv, NEW m \in Migrations, NEW from \in 1..3, NEW p \in Paths,
         Command(m, from, p)
  PROVE  SchemaInv'
<1> DEFINE mg == Migration("validate", from, p, Database)
<1>1. Database \in Contents /\ Before(Database, Database)
  BY DatabaseIs
<1>2. mg \in Begun /\ mg.pc = "validate" /\ mg.path = p /\ mg.read = Database
  BY <1>1 DEF Migration, Begun
<1>3. /\ migration' = [migration EXCEPT ![m] = mg]
      /\ UNCHANGED <<version, rows, backups>>
  BY DEF Command
<1>4. Database' = Database /\ version \in Versions /\ backups \in Files
  BY <1>3 DEF Database, SchemaInv, SchemaTypeOK, Files
<1>5. \A o \in Migrations \ {m} :
        migration[o] # NoMigration => migration[o].path # mg.path
  <2> SUFFICES ASSUME NEW o \in Migrations \ {m}, migration[o] # NoMigration
               PROVE  migration[o].path # p
    BY <1>2
  <2>1. ~At(o, "none")
    BY DEF SchemaInv, SchemaTypeOK, Begun, At
  <2> QED
    BY <2>1 DEF Command
<1>6. StepInv(mg, backups', Database')
  BY <1>1, <1>2, <1>4 DEF StepInv
<1>7. version <= version'
  BY <1>3, <1>4 DEF Versions
<1> HIDE DEF mg
<1> QED
  BY <1>2, <1>3, <1>4, <1>5, <1>6, <1>7, OneMigrates

\* A migration ends, or its outcome has been read.
LEMMA EndsKeeps ==
  ASSUME SchemaInv, NEW m \in Migrations, ~At(m, "none"),
         migration' = [migration EXCEPT ![m] = NoMigration],
         UNCHANGED <<version, rows, backups>>
  PROVE  SchemaInv'
<1>1. version' \in Versions /\ version <= version'
  BY DEF SchemaInv, SchemaTypeOK, Versions
<1>2. StepInv(NoMigration, backups', Database')
  BY DEF StepInv
<1>3. NoFile \in [kind : {"none", "partial", "copy"}, of : Contents]
  BY DEF NoFile, Contents, Versions
<1> QED
  BY <1>1, <1>2, <1>3, Continues

\* A migration that goes to a place where nothing new is asked of it.
LEMMA GoesKeeps ==
  ASSUME SchemaInv, NEW m \in Migrations, ~At(m, "none"),
         NEW pc \in {"copy", "done", "refused"}, Goes(m, pc),
         pc = "copy" => migration[m].read.version = migration[m].from,
         NEW file \in [kind : {"none", "partial", "copy"}, of : Contents],
         \/ UNCHANGED backups
         \/ backups' = [backups EXCEPT ![migration[m].path] = file],
         version' \in Versions, version <= version', UNCHANGED rows
  PROVE  SchemaInv'
<1> DEFINE mg == [migration[m] EXCEPT !.pc = pc]
<1>1. /\ migration' = [migration EXCEPT ![m] = mg]
      /\ mg \in Begun
      /\ mg.pc = pc /\ mg.from = migration[m].from
      /\ mg.path = migration[m].path /\ mg.read = migration[m].read
  BY GoesIs
<1>2. Before(mg.read, Database')
  <2>1. migration[m] \in Begun /\ migration[m] # NoMigration
    BY BegunIs
  <2>2. mg.read \in Contents /\ Before(mg.read, Database)
    BY <1>1, <2>1 DEF SchemaInv, StepInv, Begun
  <2>3. /\ Database \in Contents /\ Database' \in Contents
        /\ Before(Database, Database')
    BY DEF SchemaInv, SchemaTypeOK, Database, Contents, Before
  <2> QED
    BY <2>2, <2>3, BeforeIsTransitive
<1> HIDE DEF mg
<1>3. StepInv(mg, backups', Database')
  BY <1>1, <1>2 DEF StepInv
<1> QED
  BY <1>1, <1>3, Continues

LEMMA ValidateKeeps ==
  ASSUME SchemaInv, NEW m \in Migrations, Validate(m)
  PROVE  SchemaInv'
<1>1. ~At(m, "none") /\ UNCHANGED <<version, rows, backups>>
  BY DEF Validate, At
<1>2. migration[m] \in Begun
  BY <1>1, BegunIs
<1>3. version' \in Versions /\ version <= version'
  BY <1>1 DEF SchemaInv, SchemaTypeOK, Versions
<1>4. NoFile \in [kind : {"none", "partial", "copy"}, of : Contents]
  BY DEF NoFile, Contents, Versions
<1>5. CASE Exactly(migration[m].from)
  <2> DEFINE mg == Migration("open", migration[m].from, migration[m].path, Database)
  <2>1. Database \in Contents /\ Before(Database, Database) /\ Database' = Database
        /\ Database.version = version
    BY <1>1, DatabaseIs DEF Database
  <2>2. /\ mg \in Begun /\ mg.pc = "open" /\ mg.read = Database
        /\ mg.path = migration[m].path /\ mg.from = version
    BY <1>2, <1>5, <2>1 DEF Migration, Begun, Exactly
  <2>3. migration' = [migration EXCEPT ![m] = mg]
    BY <1>5 DEF Validate
  <2> HIDE DEF mg
  <2>4. StepInv(mg, backups', Database')
    BY <2>1, <2>2 DEF StepInv
  <2> QED
    BY <1>1, <1>3, <1>4, <2>2, <2>3, <2>4, Continues
<1>6. CASE ~Exactly(migration[m].from)
  <2>1. Goes(m, "refused")
    BY <1>2, <1>6 DEF Validate, Goes
  <2> QED
    BY <1>1, <1>3, <1>4, <2>1, GoesKeeps
<1> QED
  BY <1>5, <1>6

\* The steps that open the backup, or end without a commit.
LEMMA WithoutCommitKeeps ==
  ASSUME SchemaInv, NEW m \in Migrations,
         OpenBackup(m) \/ FailBackup(m) \/ ApplyFails(m)
  PROVE  SchemaInv'
<1>1. ~At(m, "none") /\ UNCHANGED <<version, rows>>
  BY DEF OpenBackup, FailBackup, ApplyFails, At
<1>2. version' \in Versions /\ version <= version'
  BY <1>1 DEF SchemaInv, SchemaTypeOK, Versions
<1>3. /\ NoFile \in [kind : {"none", "partial", "copy"}, of : Contents]
      /\ Partial \in [kind : {"none", "partial", "copy"}, of : Contents]
  BY DEF NoFile, Partial, Contents, Versions
<1>4. CASE OpenBackup(m)
  <2>1. migration[m].read.version = migration[m].from
    BY <1>1, <1>4, BegunIs DEF OpenBackup, At, SchemaInv, StepInv
  <2> QED
    BY <1>1, <1>2, <1>3, <1>4, <2>1, GoesKeeps DEF OpenBackup
<1>5. CASE FailBackup(m)
  BY <1>1, <1>2, <1>3, <1>5, GoesKeeps DEF FailBackup
<1>6. CASE ApplyFails(m)
  BY <1>1, <1>2, <1>3, <1>6, GoesKeeps DEF ApplyFails
<1> QED
  BY <1>4, <1>5, <1>6

LEMMA FinishBackupKeeps ==
  ASSUME SchemaInv, NEW m \in Migrations, FinishBackup(m)
  PROVE  SchemaInv'
<1> DEFINE mg   == [migration[m] EXCEPT !.pc = "apply"]
           file == Copy(Source(m))
<1>1. ~At(m, "none") /\ Goes(m, "apply") /\ UNCHANGED <<version, rows>>
  BY DEF FinishBackup, At
<1>2. /\ migration' = [migration EXCEPT ![m] = mg]
      /\ mg \in Begun
      /\ mg.pc = "apply" /\ mg.from = migration[m].from
      /\ mg.path = migration[m].path /\ mg.read = migration[m].read
  BY <1>1, GoesIs
<1>3. Database \in Contents /\ Before(Database, Database) /\ Database' = Database
  BY <1>1, DatabaseIs DEF Database
<1>4. /\ migration[m] \in Begun
      /\ migration[m].read \in Contents
      /\ Before(migration[m].read, Database)
      /\ migration[m].read.version = migration[m].from
  BY <1>1, BegunIs DEF FinishBackup, At, SchemaInv, StepInv, Begun
<1>5. /\ Source(m) \in Contents
      /\ Before(migration[m].read, Source(m)) /\ Before(Source(m), Database)
      /\ migration[m].from < 3 => Source(m) = migration[m].read
  <2>1. Before(migration[m].read, migration[m].read)
    BY <1>4 DEF Before, Contents, Versions
  <2> QED
    BY <1>3, <1>4, <2>1 DEF Source, Begun
<1>6. file \in [kind : {"none", "partial", "copy"}, of : Contents]
      /\ file.kind = "copy" /\ file.of = Source(m)
  BY <1>5 DEF Copy
<1>7. backups' = [backups EXCEPT ![migration[m].path] = file]
  BY DEF FinishBackup
<1>8. backups'[mg.path] = file
  BY <1>2, <1>4, <1>7 DEF SchemaInv, SchemaTypeOK, Begun
<1> HIDE DEF mg, file
<1>9. StepInv(mg, backups', Database')
  BY <1>2, <1>3, <1>4, <1>5, <1>6, <1>8 DEF StepInv
<1>10. version' \in Versions /\ version <= version'
  BY <1>1 DEF SchemaInv, SchemaTypeOK, Versions
<1> QED
  BY <1>1, <1>2, <1>6, <1>7, <1>9, <1>10, Continues

\* What a migration can rely on as it commits.
LEMMA AtApply ==
  ASSUME SchemaInv, NEW m \in Migrations, Apply(m)
  PROVE  /\ ~At(m, "none")
         /\ migration[m] \in Begun
         /\ migration[m].read \in Contents /\ Before(migration[m].read, Database)
         /\ migration[m].read.version = migration[m].from
         /\ backups[migration[m].path].kind = "copy"
         /\ backups[migration[m].path].of \in Contents
         /\ Before(migration[m].read, backups[migration[m].path].of)
         /\ Before(backups[migration[m].path].of, Database)
         /\ migration[m].from < 3 => backups[migration[m].path].of = migration[m].read
<1>1. ~At(m, "none") /\ migration[m].pc = "apply"
  BY DEF Apply, At
<1>2. migration[m] \in Begun /\ migration[m] # NoMigration
  BY <1>1, BegunIs
<1>3. backups[migration[m].path].of \in Contents
  BY <1>2 DEF SchemaInv, SchemaTypeOK, Begun
<1> QED
  BY <1>1, <1>2, <1>3 DEF SchemaInv, StepInv, Begun

LEMMA ApplyKeeps ==
  ASSUME SchemaInv, NEW m \in Migrations, Apply(m)
  PROVE  SchemaInv'
<1>1. ~At(m, "none") /\ Goes(m, "done") /\ UNCHANGED <<rows, backups>>
      /\ version' = migration[m].from + 1
  BY DEF Apply, At
<1>2. /\ migration[m].from \in 1..3
      /\ migration[m].read.version = migration[m].from
      /\ version \in Versions
  BY AtApply DEF Begun, SchemaInv, SchemaTypeOK
<1>3. version' \in Versions /\ version <= version'
  <2>1. version' \in Versions
    BY <1>1, <1>2 DEF Versions
  <2>2. version <= version'
    BY <1>1, <1>2
    DEF Apply, Undisturbed, Database, Versions
  <2> QED
    BY <2>1, <2>2
<1>4. NoFile \in [kind : {"none", "partial", "copy"}, of : Contents]
  BY DEF NoFile, Contents, Versions
<1> QED
  BY <1>1, <1>3, <1>4, GoesKeeps

\* The invariant of the database file, its backups and the migrations.
THEOREM SchemaInvariant == SchemaSpec => []SchemaInv
<1>1. SchemaInit => SchemaInv
  <2> SUFFICES ASSUME SchemaInit
               PROVE  SchemaInv
    OBVIOUS
  <2>1. IsFiniteSet(rows) /\ rows \subseteq 1..MaxRow
    BY FS_EmptySet DEF SchemaInit
  <2>2. SchemaTypeOK
    BY <2>1 DEF SchemaInit, SchemaTypeOK, Versions, NoFile, Contents
  <2>3. \A m \in Migrations : migration[m] = NoMigration
    BY DEF SchemaInit
  <2> QED
    BY <2>1, <2>2, <2>3 DEF SchemaInv, StepInv, PathsDiffer
<1>2. SchemaInv /\ [SchemaNext]_schemaVars => SchemaInv'
  <2> SUFFICES ASSUME SchemaInv, [SchemaNext]_schemaVars
               PROVE  SchemaInv'
    OBVIOUS
  <2>1. CASE UNCHANGED schemaVars
    <3>1. UNCHANGED <<version, rows, migration, backups>> /\ Database' = Database
      BY <2>1 DEF schemaVars, Database
    <3> QED
      BY <3>1 DEF SchemaInv, SchemaTypeOK, PathsDiffer
  <2>2. CASE Initialize \/ Write
    <3>1. CASE Initialize
      BY <3>1, InitializeKeeps
    <3>2. CASE Write
      BY <3>2, WriteKeeps
    <3> QED
      BY <2>2, <3>1, <3>2
  <2>3. CASE \E p \in Paths : RemovePartial(p)
    BY <2>3, RemoveKeeps
  <2>4. CASE \E m \in Migrations : \E from \in 1..3, p \in Paths : Command(m, from, p)
    BY <2>4, CommandKeeps
  <2>5. ASSUME NEW m \in Migrations, MigrationStep(m)
        PROVE  SchemaInv'
    <3>1. CASE Validate(m)
      BY <3>1, ValidateKeeps
    <3>2. CASE OpenBackup(m) \/ FailBackup(m) \/ ApplyFails(m)
      BY <3>2, WithoutCommitKeeps
    <3>3. CASE FinishBackup(m)
      BY <3>3, FinishBackupKeeps
    <3>4. CASE Apply(m)
      BY <3>4, ApplyKeeps
    <3>5. CASE Kill(m) \/ Report(m)
      BY <3>5, EndsKeeps DEF Kill, Report, At
    <3> QED
      BY <2>5, <3>1, <3>2, <3>3, <3>4, <3>5 DEF MigrationStep
  <2> QED
    BY <2>1, <2>2, <2>3, <2>4, <2>5 DEF SchemaNext
<1> QED
  BY <1>1, <1>2, PTL DEF SchemaSpec

\* The database has only the versions and rows it can have, and so has every
\* backup.
THEOREM SchemaTypesHold == SchemaSpec => []SchemaTypeOK
<1>1. SchemaInv => SchemaTypeOK
  BY DEF SchemaInv
<1> QED
  BY <1>1, SchemaInvariant, PTL

\* Whatever is written, migrated or killed beside it, a migration that commits
\* leaves a backup of exactly what it has changed; the migration to v4 may only
\* miss a commit that falls between its validation and its transaction.
THEOREM BackupAlwaysExact == SchemaSpec => BackupIsExact
<1>1. ASSUME SchemaInv, [SchemaNext]_schemaVars
      PROVE  \A m \in Migrations :
               At(m, "apply") /\ migration'[m].pc = "done" =>
                 \/ /\ version = migration[m].from
                    /\ version' = version + 1
                    /\ backups[migration[m].path] = Copy(Database)
                 \/ migration[m].from = 3 /\ migration[m].read # Database
  <2> SUFFICES ASSUME NEW m \in Migrations,
                      At(m, "apply"), migration'[m].pc = "done"
               PROVE  \/ /\ version = migration[m].from
                         /\ version' = version + 1
                         /\ backups[migration[m].path] = Copy(Database)
                      \/ migration[m].from = 3 /\ migration[m].read # Database
    OBVIOUS
  <2>1. Apply(m)
    <3>1. migration[m].pc = "apply" /\ migration'[m] # migration[m]
      BY DEF At
    <3>2. PICK o \in Migrations :
            (\E from \in 1..3, p \in Paths : Command(o, from, p)) \/ MigrationStep(o)
      BY <1>1, <3>1
      DEF SchemaNext, schemaVars, Initialize, Write, RemovePartial
    <3>3. migration \in [Migrations -> {NoMigration} \cup Begun]
      BY <1>1 DEF SchemaInv, SchemaTypeOK
    <3>4. o = m
      BY <3>1, <3>2, <3>3 DEF Command, MigrationStep, Validate, OpenBackup, FinishBackup,
           FailBackup, Apply, ApplyFails, Kill, Report, Goes
    <3>5. Apply(m) \/ ApplyFails(m) \/ Kill(m)
      BY <3>1, <3>2, <3>4 DEF Command, MigrationStep, Validate, OpenBackup,
           FinishBackup, FailBackup, Report, At
    <3>6. ~Kill(m)
      BY <3>3 DEF Kill, NoMigration
    <3>7. ~ApplyFails(m)
      <4>1. SUFFICES ASSUME Goes(m, "refused")
                     PROVE  FALSE
        BY DEF ApplyFails
      <4>2. migration[m] \in Begun
        <5>1. ~At(m, "none")
          BY DEF At
        <5> QED
          BY <1>1, <5>1, BegunIs
      <4>3. migration'[m].pc = "refused"
        BY <3>3, <4>1, <4>2 DEF Goes, Begun
      <4> QED
        BY <4>3
    <3> QED
      BY <3>5, <3>6, <3>7
  <2> DEFINE copied == backups[migration[m].path].of
             read   == migration[m].read
  <2>2. CASE read = Database
    <3>1. copied = Database
      BY <1>1, <2>1, <2>2, AtApply, DatabaseIs, BeforeBothWays
    <3>2. backups[migration[m].path] = Copy(Database)
      <4>1. backups[migration[m].path] \in [kind : {"none", "partial", "copy"}, of : Contents]
        BY <1>1, <2>1, AtApply DEF SchemaInv, SchemaTypeOK, Begun
      <4> QED
        BY <1>1, <2>1, <3>1, <4>1, AtApply DEF Copy
    <3>3. version = migration[m].from
      BY <1>1, <2>1, <2>2, AtApply DEF Database
    <3> QED
      BY <2>1, <3>2, <3>3 DEF Apply
  <2>3. CASE read # Database
    BY <2>1, <2>3 DEF Apply, Undisturbed
  <2> QED
    BY <2>2, <2>3
<1> QED
  BY <1>1, SchemaInvariant, PTL DEF BackupIsExact, SchemaSpec

=============================================================================
