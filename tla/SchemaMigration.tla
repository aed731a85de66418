---------------------------- MODULE SchemaMigration ----------------------------
(***************************************************************************)
(* The schema of the ledger and its upgrades: lib/core/db/schema.dart and  *)
(* _initializeSchema of lib/core/db/app_database.dart, as the audit        *)
(* tool/reference_schema_migration_audit.py runs them too.                 *)
(*                                                                         *)
(* Opening a database of version v runs the statements of v + 1, v + 2 ... *)
(* in one transaction per version, then makes every current object that is *)
(* missing, then rebuilds the search index when it does not match.  The    *)
(* process may be killed, or the storage be full, between any two          *)
(* statements; the next start goes on from the version on disk.            *)
(*                                                                         *)
(* A statement is a pair <<operation, argument>>.  A database is a record: *)
(* its columns and objects that not every version has, and of its rows     *)
(* what the migrations read or write.  Occurrences, bills and categories   *)
(* are tables by rowid.                                                    *)
(***************************************************************************)
EXTENDS Integers, SequencesExt, FiniteSetsExt

CONSTANTS None,
          Legacy,        \* the databases there may be at the first start
          SystemNames,   \* a sequence: the names that have a system_key
          MaxStops       \* bound: how often the upgrade is interrupted

ASSUME SchemaAssumption ==
  /\ MaxStops \in Nat
  /\ SystemNames \in Seq(Range(SystemNames)) /\ None \notin Range(SystemNames)

Current == 11            \* kSchemaVersion

VARIABLES start,   \* history: the database of the first start
          disk,    \* the committed database
          work,    \* the database as the open transaction sees it
          todo,    \* the statements left of that transaction
          phase,   \* where _initializeSchema stands
          stops

vars == <<start, disk, work, todo, phase, stops>>

--------------------------------------------------------------------------------
(* The shape of a version                                                  *)

(* The version that brought each column a first version has not.           *)
Since == [paid |-> 2, accountIcon |-> 10, accountColor |-> 10,
          categoryIcon |-> 10, categoryColor |-> 10, systemKey |-> 11]

(* The version that brought each table, index and trigger.                 *)
ObjectSince == [fingerprints |-> 6, search |-> 7, searchTriggers |-> 7,
                billIndex |-> 8, keyIndex |-> 11, keyTrigger |-> 11]

SyncTables == {"sync_conflicts", "sync_operations"}

ColumnsAt(v) == IF v = 0 THEN {} ELSE {c \in DOMAIN Since : Since[c] =< v}

(* The tables of the former synchronisation may be there before version 3. *)
ObjectsAt(v) == IF v = 0 THEN {} ELSE {o \in DOMAIN ObjectSince : ObjectSince[o] =< v}

ShapeOf(db) == [columns |-> db.columns, objects |-> db.objects \ SyncTables]

Fields == {"version", "columns", "objects", "damaged", "tx", "groups", "search",
           "bills", "occs", "rules", "categories"}

(* A database has the shape of its version, and an index that is not       *)
(* damaged has no row of a transaction that is not there.                  *)
ASSUME LegacyAssumption ==
  \A d \in Legacy :
    /\ d = [f \in Fields |-> d[f]]
    /\ d.version \in 0 .. Current =>
         ShapeOf(d) = [columns |-> ColumnsAt(d.version), objects |-> ObjectsAt(d.version)]
    /\ IsFiniteSet(DOMAIN d.tx)
    /\ d.damaged \/ d.search \subseteq DOMAIN d.tx

--------------------------------------------------------------------------------
(* What the statements do to the rows                                      *)

Posted(db, t) == t \in DOMAIN db.tx /\ db.tx[t].status = "POSTED" /\ ~db.tx[t].deleted
Tombstones(db) == {t \in DOMAIN db.tx : db.tx[t].deleted}

EntryFields == {"type", "status", "deleted", "delta", "original", "group"}
BillFields == {"status", "payment"}
OccurrenceFields == {"rule", "date", "key", "tx"}

(* Rows are rows, and None is no entry.  An app of version 9 deletes an    *)
(* entry for good, and version 8 has the unique index on bills; a database *)
(* of version 0 is empty.                                                  *)
ASSUME RowsAssumption ==
  \A d \in Legacy :
    /\ DOMAIN d.occs \subseteq Nat /\ DOMAIN d.bills \subseteq Nat /\ None \notin DOMAIN d.tx
    /\ \A t \in DOMAIN d.tx : d.tx[t] = [f \in EntryFields |-> d.tx[t][f]]
    /\ \A i \in DOMAIN d.bills : d.bills[i] = [f \in BillFields |-> d.bills[i][f]]
    /\ \A i \in DOMAIN d.occs : d.occs[i] = [f \in OccurrenceFields |-> d.occs[i][f]]
    /\ d.version \in {0} \union (9 .. Current) => Tombstones(d) = {}
    /\ d.version \in {0} \union (8 .. Current) =>
         \A i, j \in DOMAIN d.bills : i # j /\ d.bills[i].payment # None
                                       => d.bills[i].payment # d.bills[j].payment

(* A bug: one marker per rule stays.                                       *)
DedupeByRule(db) ==
  LET least(i) == \A j \in DOMAIN db.occs :
                    db.occs[j].rule = db.occs[i].rule => db.occs[j].date >= db.occs[i].date
  IN [db EXCEPT !.occs = [i \in {k \in DOMAIN db.occs : least(k)} |-> db.occs[i]]]

(* 4: one marker per rule and calendar date stays, the one of least rowid. *)
DedupeOccurrences(db) ==
  LET first(i) == ~\E j \in DOMAIN db.occs : /\ j < i
                                             /\ db.occs[j].rule = db.occs[i].rule
                                             /\ db.occs[j].date = db.occs[i].date
  IN [db EXCEPT !.occs = [i \in {k \in DOMAIN db.occs : first(k)} |-> db.occs[i]]]

(* UNIQUE(rule_id, occurrence_key)                                         *)
KeysClash(db) ==
  \E i, j \in DOMAIN db.occs : /\ i # j
                               /\ db.occs[i].rule = db.occs[j].rule
                               /\ db.occs[i].date = db.occs[j].date

NormalizeKeys(db) ==
  [db EXCEPT !.occs = [i \in DOMAIN db.occs |-> [db.occs[i] EXCEPT !.key = "date"]]]

(* 4: a draft that an occurrence names and that has no leg gets the one of *)
(* its rule: less on an asset, more on a card.                             *)
BackfillLegs(db) ==
  LET rulesOf(t) == {db.occs[i].rule : i \in {k \in DOMAIN db.occs : db.occs[k].tx = t}}
      legless(t) == /\ db.tx[t].status = "DRAFT" /\ ~db.tx[t].deleted
                    /\ db.tx[t].delta = None /\ rulesOf(t) # {}
  IN [db EXCEPT !.tx = [t \in DOMAIN db.tx |->
       IF legless(t)
       THEN [db.tx[t] EXCEPT !.delta =
               IF db.rules[CHOOSE r \in rulesOf(t) : TRUE].class = "ASSET" THEN -1 ELSE 1]
       ELSE db.tx[t]]]

(* 5: the next run is a date, no longer an instant.                        *)
CalendarDates(db) ==
  [db EXCEPT !.rules = [r \in DOMAIN db.rules |-> [db.rules[r] EXCEPT !.nextRun = "date"]]]

Unpaid(bill) == [bill EXCEPT !.payment = None, !.status = "UPCOMING"]

(* A bug: duplicates are left to the unique index.                         *)
KeepDuplicates(db) == db

(* 8: of the bills that name one payment the first keeps it.               *)
UnlinkDuplicates(db) ==
  [db EXCEPT !.bills = [i \in DOMAIN db.bills |->
     IF /\ db.bills[i].payment # None
        /\ \E j \in DOMAIN db.bills : j < i /\ db.bills[j].payment = db.bills[i].payment
     THEN Unpaid(db.bills[i]) ELSE db.bills[i]]]

(* 9: bills, occurrences and refunds let go of the tombstones.             *)
ReleaseBills(db) ==
  [db EXCEPT !.bills = [i \in DOMAIN db.bills |->
     IF db.bills[i].payment \in Tombstones(db) THEN Unpaid(db.bills[i]) ELSE db.bills[i]]]

ReleaseOccurrences(db) ==
  [db EXCEPT !.occs = [i \in DOMAIN db.occs |->
     IF db.occs[i].tx \in Tombstones(db) THEN [db.occs[i] EXCEPT !.tx = None] ELSE db.occs[i]]]

VoidRefunds(db) ==
  [db EXCEPT !.tx = [t \in DOMAIN db.tx |->
     IF db.tx[t].type = "REFUND" /\ db.tx[t].original \in Tombstones(db)
     THEN [db.tx[t] EXCEPT !.status = "VOIDED", !.original = None] ELSE db.tx[t]]]

(* foreign_keys = ON                                                       *)
StillNamed(db) ==
  Tombstones(db) \intersect
    ({db.bills[i].payment : i \in DOMAIN db.bills} \union {db.occs[i].tx : i \in DOMAIN db.occs}
      \union {db.tx[t].original : t \in DOMAIN db.tx \ Tombstones(db)})

DeleteTombstones(db) ==
  LET left == DOMAIN db.tx \ Tombstones(db) IN
  [db EXCEPT !.tx = [t \in left |-> db.tx[t]],
             !.search = IF "searchTriggers" \in db.objects THEN @ \intersect left ELSE @]

DeleteEmptyGroups(db) == [db EXCEPT !.groups = @ \intersect {db.tx[t].group : t \in DOMAIN db.tx}]

(* 7, and the rebuild of _ensureDerivedSearchIndex after its DELETE        *)
FillSearch(db) == [db EXCEPT !.search = DOMAIN db.tx, !.damaged = FALSE]

(* A bug: the last row of the name gets the key.                           *)
AssignKeyToLast(db, name) ==
  LET named == {i \in DOMAIN db.categories : db.categories[i].name = name}
  IN [db EXCEPT !.categories = [i \in DOMAIN db.categories |->
       IF named # {} /\ i = Max(named) THEN [db.categories[i] EXCEPT !.key = name] ELSE db.categories[i]]]

(* 11: the oldest category of a system name gets its key.                  *)
AssignKey(db, name) ==
  LET named == {i \in DOMAIN db.categories : db.categories[i].name = name}
      before(i, j) == \/ db.categories[i].created < db.categories[j].created
                      \/ db.categories[i].created = db.categories[j].created /\ i < j
  IN [db EXCEPT !.categories = [i \in DOMAIN db.categories |->
       IF i \in named /\ \A j \in named \ {i} : before(i, j)
       THEN [db.categories[i] EXCEPT !.key = name] ELSE db.categories[i]]]

--------------------------------------------------------------------------------
(* The statements                                                          *)

Add(column) == <<"add", column>>
Create(object) == <<"create", object>>
Do(operation) == <<operation, None>>

(* kSchemaMigrations                                                       *)
Migrations == [
  v \in 2 .. Current |->
    CASE v = 2 -> <<Add("paid")>>
      [] v = 3 -> <<<<"drop", "sync_conflicts">>, <<"drop", "sync_operations">>>>
      [] v = 4 -> <<Do("dedupe"), Do("normalize"), Do("backfill")>>
      [] v = 5 -> <<Do("dates")>>
      [] v = 6 -> <<Create("fingerprints")>>
      [] v = 7 -> <<Create("search"), Create("searchTriggers"), Do("fill")>>
      [] v = 8 -> <<Do("unlink"), Create("billIndex")>>
      [] v = 9 -> <<Do("releaseBills"), Do("releaseOccurrences"), Do("voidRefunds"),
                    Do("deleteTombstones"), Do("deleteGroups")>>
      [] v = 10 -> <<Add("accountIcon"), Add("accountColor"),
                     Add("categoryIcon"), Add("categoryColor")>>
      [] v = 11 -> <<Add("systemKey")>>
                   \o [n \in DOMAIN SystemNames |-> <<"assignKey", SystemNames[n]>>]
                   \o <<Create("keyIndex"), Create("keyTrigger")>>]

(* kSchemaStatements: every one says IF NOT EXISTS.                        *)
CurrentObjects ==
  <<Do("tables"), Create("fingerprints"), Create("search"), Create("searchTriggers"),
    Create("keyTrigger"), Create("billIndex"), Create("keyIndex")>>

SetVersion(v) == <<"version", v>>

MigrationTo(v) == Append(Migrations[v], SetVersion(v))

(* What SQLite refuses: a column that is there, an index on a column that  *)
(* is not, a value twice under a unique index, a row that is still named.  *)
Refused(s, db) ==
  CASE s[1] = "add" -> s[2] \in db.columns
    [] s[1] = "normalize" -> KeysClash(db)
    [] s[1] = "deleteTombstones" -> StillNamed(db) # {}
    [] s[1] = "assignKey" -> "systemKey" \notin db.columns
    [] s = Create("billIndex") ->
         /\ s[2] \notin db.objects
         /\ \/ "paid" \notin db.columns
            \/ \E i, j \in DOMAIN db.bills : /\ i # j /\ db.bills[i].payment # None
                                             /\ db.bills[i].payment = db.bills[j].payment
    [] s = Create("keyIndex") -> s[2] \notin db.objects /\ "systemKey" \notin db.columns
    [] OTHER -> FALSE

Effect(s, db) ==
  CASE s[1] = "add" -> [db EXCEPT !.columns = @ \union {s[2]}]
    [] s[1] = "create" -> [db EXCEPT !.objects = @ \union {s[2]}]
    [] s[1] = "drop" -> [db EXCEPT !.objects = @ \ {s[2]}]
    [] s[1] = "tables" -> IF db.version = 0 THEN [db EXCEPT !.columns = DOMAIN Since] ELSE db
    [] s[1] = "version" -> [db EXCEPT !.version = s[2]]
    [] s[1] = "dedupe" -> DedupeOccurrences(db)
    [] s[1] = "normalize" -> NormalizeKeys(db)
    [] s[1] = "backfill" -> BackfillLegs(db)
    [] s[1] = "dates" -> CalendarDates(db)
    [] s[1] = "fill" -> FillSearch(db)
    [] s[1] = "unlink" -> UnlinkDuplicates(db)
    [] s[1] = "releaseBills" -> ReleaseBills(db)
    [] s[1] = "releaseOccurrences" -> ReleaseOccurrences(db)
    [] s[1] = "voidRefunds" -> VoidRefunds(db)
    [] s[1] = "deleteTombstones" -> DeleteTombstones(db)
    [] s[1] = "deleteGroups" -> DeleteEmptyGroups(db)
    [] s[1] = "assignKey" -> AssignKey(db, s[2])

(* apply of the audit: one after the other, no failure.                    *)
Applied(statements, db) ==
  LET run[n \in 0 .. Len(statements)] ==
        IF n = 0 THEN db ELSE Effect(statements[n], run[n - 1])
  IN run[Len(statements)]

--------------------------------------------------------------------------------
(* Opening                                                                 *)

Transactions == {"creating", "migrating", "ensuring", "rebuilding"}

(* BEGIN IMMEDIATE on the database d                                       *)
Begin(p, statements, d) == phase' = p /\ todo' = statements /\ work' = d

(* The loop over the versions and what comes after it                      *)
Continue(d) ==
  IF d.version < Current THEN Begin("migrating", MigrationTo(d.version + 1), d)
  ELSE Begin("ensuring", CurrentObjects, d)

Init ==
  /\ start \in Legacy
  /\ disk = start /\ work = start
  /\ todo = <<>> /\ phase = "closed" /\ stops = 0

(* _initializeSchema: a database without app_meta is made in one           *)
(* transaction; a version that is missing, damaged or newer is refused.    *)
Open ==
  /\ phase = "closed"
  /\ IF disk.version = 0 THEN Begin("creating", Append(CurrentObjects, SetVersion(Current)), disk)
     ELSE IF disk.version \in 1 .. Current THEN Continue(disk)
     ELSE phase' = "refused" /\ UNCHANGED <<todo, work>>
  /\ UNCHANGED <<start, disk, stops>>

(* A bug: no transaction, each statement commits.                          *)
ExecuteAndCommit ==
  /\ phase \in Transactions /\ todo # <<>>
  /\ ~Refused(Head(todo), work)
  /\ work' = Effect(Head(todo), work) /\ disk' = work'
  /\ todo' = Tail(todo)
  /\ UNCHANGED <<start, phase, stops>>

Execute ==
  /\ phase \in Transactions /\ todo # <<>>
  /\ ~Refused(Head(todo), work)
  /\ work' = Effect(Head(todo), work)
  /\ todo' = Tail(todo)
  /\ UNCHANGED <<start, disk, phase, stops>>

(* COMMIT, and the next transaction                                        *)
Commit ==
  /\ phase \in Transactions /\ todo = <<>>
  /\ disk' = work
  /\ CASE phase = "migrating" -> Continue(work)
       [] phase \in {"creating", "ensuring"} -> phase' = "checking" /\ UNCHANGED <<todo, work>>
       [] phase = "rebuilding" -> phase' = "ready" /\ UNCHANGED <<todo, work>>
  /\ UNCHANGED <<start, stops>>

(* A bug: only the rows are counted.                                       *)
CheckSearchByCount ==
  /\ phase = "checking"
  /\ IF Cardinality(disk.search) # Cardinality(DOMAIN disk.tx)
     THEN Begin("rebuilding", <<Do("fill")>>, disk)
     ELSE phase' = "ready" /\ UNCHANGED <<todo, work>>
  /\ UNCHANGED <<start, disk, stops>>

(* _ensureDerivedSearchIndex: an index that fails its own check, or has    *)
(* another number of rows than the ledger, is made again.                  *)
CheckSearch ==
  /\ phase = "checking"
  /\ IF disk.damaged \/ Cardinality(disk.search) # Cardinality(DOMAIN disk.tx)
     THEN Begin("rebuilding", <<Do("fill")>>, disk)
     ELSE phase' = "ready" /\ UNCHANGED <<todo, work>>
  /\ UNCHANGED <<start, disk, stops>>

Abandon == phase' = "closed" /\ todo' = <<>> /\ work' = disk /\ UNCHANGED <<start, disk>>

(* The process dies: what it had not committed is gone.                    *)
Kill ==
  /\ phase \in Transactions \union {"checking", "ready"} /\ stops < MaxStops
  /\ stops' = stops + 1
  /\ Abandon

(* A statement throws, for what it meets or because the storage is full:   *)
(* ROLLBACK, open() closes the handle, and the user tries again.           *)
Throw ==
  /\ phase \in Transactions /\ todo # <<>>
  /\ Refused(Head(todo), work) \/ stops < MaxStops
  /\ stops' = IF Refused(Head(todo), work) THEN stops ELSE stops + 1
  /\ Abandon

Next == Open \/ Execute \/ Commit \/ CheckSearch \/ Throw \/ Kill

(* The user starts the app again, and a running start goes on.             *)
Spec == Init /\ [][Next]_vars
        /\ WF_vars(Open) /\ WF_vars(Execute) /\ WF_vars(Commit) /\ WF_vars(CheckSearch)
        /\ WF_vars(Throw)

--------------------------------------------------------------------------------
(* Restoring a portable backup of the same database                        *)

(* INSERT INTO categories under trg_category_system_key_seed, row by row:  *)
(* a row without a key takes the one of its name while that is free.       *)
InsertCategory(rows, row) ==
  LET free(key) == \A i \in DOMAIN rows : rows[i].key # key
  IN Append(rows, [row EXCEPT !.key =
       IF row.key = None /\ row.name \in Range(SystemNames) /\ free(row.name) THEN row.name ELSE @])

RestoredCategories(rows) == FoldLeft(InsertCategory, <<>>, rows)

(* idx_categories_system_key_unique throws, and the restore is rolled back *)
KeyTakenTwice(rows) ==
  LET r == RestoredCategories(rows)
  IN \E i, j \in DOMAIN r : i # j /\ r[i].key # None /\ r[i].key = r[j].key

(* A bug: a backup of version 3 is taken for one of the new shape.         *)
RepairFromTwo(db) ==
  LET four == IF db.version < 3 THEN BackfillLegs(NormalizeKeys(DedupeOccurrences(db))) ELSE db
  IN IF db.version < 5 THEN CalendarDates(four) ELSE four

(* _repairLegacyPortableBackupState                                        *)
RepairPortable(db) ==
  LET four == IF db.version < 4 THEN BackfillLegs(NormalizeKeys(DedupeOccurrences(db))) ELSE db
  IN IF db.version < 5 THEN CalendarDates(four) ELSE four

(* _repairLegacyLocalOnlyState                                             *)
RepairLocalOnly(db) ==
  DeleteEmptyGroups(DeleteTombstones(VoidRefunds(ReleaseOccurrences(ReleaseBills(db)))))

(* The rows _restoreDecodedBackup leaves of those of db                    *)
Restored(db) ==
  LET bills == IF db.version < 8 THEN UnlinkDuplicates(db) ELSE db
  IN [RepairLocalOnly(RepairPortable(bills)) EXCEPT !.categories = RestoredCategories(@)]

Refunds(db, t) == {r \in DOMAIN db.tx : db.tx[r].original = t /\ Posted(db, r)}

(* The drafts without a leg: invalidSimpleShape counts them.               *)
Legless(db) == {t \in DOMAIN db.tx : db.tx[t].delta = None}

(* _validateLedger, in what the migrations may change                      *)
Accepted(db) ==
  /\ Legless(db) = {}
  /\ \A t \in DOMAIN db.tx :
       db.tx[t].type = "REFUND" /\ db.tx[t].status = "POSTED" => Posted(db, db.tx[t].original)
  /\ \A g \in db.groups : \E t \in DOMAIN db.tx : db.tx[t].group = g
  /\ \A i \in DOMAIN db.occs :
       /\ db.occs[i].key = "date"
       /\ db.occs[i].tx # None => db.tx[db.occs[i].tx].status = "DRAFT"
       /\ \A j \in DOMAIN db.occs \ {i} : db.occs[i].tx = None \/ db.occs[j].tx # db.occs[i].tx
  /\ \A i \in DOMAIN db.bills :
       (db.bills[i].status = "PAID")
         <=> Posted(db, db.bills[i].payment) /\ Refunds(db, db.bills[i].payment) = {}
  /\ \A r \in DOMAIN db.rules : db.rules[r].nextRun = "date"

--------------------------------------------------------------------------------
(* Properties                                                              *)

(* A database on disk has the columns and objects of the version it says,  *)
(* whole: no version is half applied, and none is counted before it is     *)
(* applied (the number is written in the transaction of its statements).   *)
TypeOK ==
  /\ start \in Legacy
  /\ phase \in {"closed", "checking", "ready", "refused"} \union Transactions
  /\ stops \in 0 .. MaxStops
  /\ phase \notin Transactions => todo = <<>> /\ work = disk
  /\ disk.version \in 0 .. Current =>
       ShapeOf(disk) = [columns |-> ColumnsAt(disk.version), objects |-> ObjectsAt(disk.version)]

(* What the migrations make of d, one version after the other              *)
Migrated(d) ==
  LET at[v \in d.version .. Current] ==
        IF v = d.version THEN d ELSE Applied(MigrationTo(v), at[v - 1])
  IN at[Current]

Searchable(d) == IF d.damaged \/ d.search # DOMAIN d.tx THEN FillSearch(d) ELSE d

(* What an upgrade that nothing interrupts makes of d                      *)
Upgraded(d) ==
  CASE d.version \notin 0 .. Current -> d
    [] d.version = 0 -> Searchable(Applied(Append(CurrentObjects, SetVersion(Current)), d))
    [] d.version \in 1 .. Current -> Searchable(Applied(CurrentObjects, Migrated(d)))

(* However often the upgrade is killed or finds the storage full, and at   *)
(* whatever version it goes on, the app starts with the database that one  *)
(* uninterrupted upgrade makes; a database it refuses it leaves alone.     *)
ResumedAsUninterrupted == phase \in {"ready", "refused"} => disk = Upgraded(start)

(* What an entry counts in the balance                                     *)
Counted(db, t) == IF Posted(db, t) THEN db.tx[t].delta ELSE 0

(* The refunds that lose their original, a tombstone, in version 9.        *)
LostRefunds(db) == {t \in DOMAIN db.tx : Posted(db, t) /\ db.tx[t].type = "REFUND"
                                           /\ db.tx[t].original \in Tombstones(db)}

Markers(db) == {<<db.occs[i].rule, db.occs[i].date>> : i \in DOMAIN db.occs}

(* An upgrade keeps every entry that is not a tombstone and what it counts *)
(* in the balance, but for the refunds whose purchase had been deleted;    *)
(* every bill, and one payment link for every payment that a bill named;   *)
(* and the marker of every date a rule was generated for: the date is not  *)
(* generated again.                                                        *)
EntriesKept ==
  phase = "ready" =>
    /\ DOMAIN disk.tx = DOMAIN start.tx \ Tombstones(start)
    /\ \A t \in DOMAIN disk.tx :
         Counted(disk, t) = IF t \in LostRefunds(start) THEN 0 ELSE Counted(start, t)
    /\ DOMAIN disk.bills = DOMAIN start.bills
    /\ \A i \in DOMAIN start.bills :
         start.bills[i].payment \in DOMAIN disk.tx =>
           Cardinality({j \in DOMAIN disk.bills : disk.bills[j].payment = start.bills[i].payment}) = 1
    /\ Markers(disk) = Markers(start)

(* Upgrading the database and restoring a backup an old version made of it *)
(* are two pieces of code for one purpose: they leave the same entries,    *)
(* bills, occurrences and rules, and an owner for the same system names.   *)
(* Of the result the firewall refuses nothing but the draft of a date that *)
(* was generated twice, the second one, which has no leg; and a backup of  *)
(* it can be restored unless a younger category of a system name was       *)
(* inserted before the older one (its owner), by a clock that ran behind.  *)
RestoreAgrees ==
  phase = "ready" /\ start.version \in 1 .. Current =>
    LET r == Restored(start)
        owners(db) == {db.categories[i].key : i \in DOMAIN db.categories}
    IN /\ <<r.tx, r.bills, r.occs, r.rules, r.groups>>
            = <<disk.tx, disk.bills, disk.occs, disk.rules, disk.groups>>
       /\ start.version < 11 => ~KeyTakenTwice(start.categories) /\ owners(r) = owners(disk)
       /\ Accepted(disk) <=> Legless(disk) = {}
       /\ Legless(disk) \subseteq
            {start.occs[i].tx : i \in {k \in DOMAIN start.occs :
               \E j \in DOMAIN start.occs : /\ j < k
                                            /\ start.occs[j].rule = start.occs[k].rule
                                            /\ start.occs[j].date = start.occs[k].date}}
       /\ KeyTakenTwice(disk.categories) =>
            \E i, j \in DOMAIN disk.categories :
              /\ i < j /\ disk.categories[i].name = disk.categories[j].name
              /\ disk.categories[i].created > disk.categories[j].created

(* Every database of a version the app knows ends up open: no statement of *)
(* any migration fails on it, and an interrupted upgrade can always go on. *)
OpensAtLast == start.version \in 0 .. Current ~> phase = "ready"
===============================================================================
