---------------------------- MODULE MigrationAudit ----------------------------
(***************************************************************************)
(* The scenarios of tool/reference_schema_migration_audit.py as databases  *)
(* an upgrade starts from, and their assertions as an invariant.  Where    *)
(* the audit applies one migration to a database of the current schema,    *)
(* the database here has the schema of its version, goes through every     *)
(* later migration too, and may be interrupted anywhere.                   *)
(***************************************************************************)
EXTENDS SchemaMigration

(* A database of version v without rows                                    *)
EmptyAt(v) ==
  [version |-> v, columns |-> ColumnsAt(v), objects |-> ObjectsAt(v), damaged |-> FALSE,
   tx |-> <<>>, groups |-> {}, search |-> {}, bills |-> <<>>, occs |-> <<>>,
   rules |-> <<>>, categories |-> <<>>]

Entry(type, status, delta) ==
  [type |-> type, status |-> status, deleted |-> FALSE, delta |-> delta,
   original |-> None, group |-> None]

Category(name, created) == [name |-> name, created |-> created, key |-> None]
Bill(status, payment) == [status |-> status, payment |-> payment]
Occurrence(rule, date, key, t) == [rule |-> rule, date |-> date, key |-> key, tx |-> t]
Rule(class, nextRun) == [class |-> class, nextRun |-> nextRun]

Indexed(db) == [db EXCEPT !.search = IF db.version < 7 THEN {} ELSE DOMAIN db.tx]

FirstName == SystemNames[1]

Fresh == EmptyAt(0)

LegacyV1 == [EmptyAt(1) EXCEPT !.categories = <<Category(FirstName, 1)>>,
                               !.bills = <<Bill("UPCOMING", None)>>]

LegacyV3 ==
  [EmptyAt(3) EXCEPT
     !.rules = "r3" :> Rule("ASSET", "instant"),
     !.tx = "t3" :> Entry("EXPENSE", "DRAFT", None) @@ "t3dup" :> Entry("EXPENSE", "DRAFT", None),
     !.occs = <<Occurrence("r3", 8, "version", "t3"), Occurrence("r3", 8, "version", "t3dup")>>]

LegacyV6 == [EmptyAt(6) EXCEPT !.tx = "t7" :> Entry("EXPENSE", "POSTED", -1)]

LegacyV7 ==
  Indexed([EmptyAt(7) EXCEPT !.tx = "pay8" :> Entry("EXPENSE", "POSTED", -1),
                             !.bills = <<Bill("PAID", "pay8"), Bill("PAID", "pay8")>>])

LegacyV8 ==
  Indexed([EmptyAt(8) EXCEPT
     !.tx = "dead9" :> [Entry("ADJUSTMENT", "POSTED", 1) EXCEPT !.deleted = TRUE]])

LegacyV9 == EmptyAt(9)

LegacyV10 == [EmptyAt(10) EXCEPT !.categories = <<Category(FirstName, 1), Category(FirstName, 2)>>]

Scenarios == {Fresh, LegacyV1, LegacyV3, LegacyV6, LegacyV7, LegacyV8, LegacyV9, LegacyV10}

(* The assertions of each function of the audit                            *)
CurrentShape == disk.columns = DOMAIN Since /\ disk.objects = DOMAIN ObjectSince

FreshSchema ==
  /\ CurrentShape
  /\ InsertCategory(<<>>, Category(FirstName, 1))[1].key = FirstName

LegacyV1ToCurrent ==
  /\ CurrentShape
  /\ disk.version = Current
  /\ disk.categories[1].key = FirstName
  /\ Len(disk.bills) = 1

LegacyV3RecurringNormalization ==
  /\ disk.occs = <<Occurrence("r3", 8, "date", "t3")>>
  /\ disk.tx["t3"].delta = -1

LegacyV6ToV7Search == "t7" \in disk.search

LegacyV7ToV8BillUniqueness == Cardinality({i \in DOMAIN disk.bills : disk.bills[i].payment = "pay8"}) = 1

LegacyV8ToV9TombstoneCleanup == "dead9" \notin DOMAIN disk.tx

LegacyV9ToV10VisualIdentity ==
  {"accountIcon", "accountColor", "categoryIcon", "categoryColor"} \subseteq disk.columns

(* The older one has the key, the younger one cannot have it too, and a    *)
(* new category of a name that nobody has takes its own.                   *)
LegacyV10ToV11SystemIdentity ==
  /\ disk.categories[1].key = FirstName
  /\ disk.categories[2].key = None
  /\ KeyTakenTwice([disk.categories EXCEPT ![2].key = FirstName])
  /\ \A n \in Range(SystemNames) \ {FirstName} :
       Last(InsertCategory(disk.categories, Category(n, 3))).key = n

(* Every scenario of the audit ends as it asserts, however often the       *)
(* upgrade is interrupted.                                                 *)
AuditHolds ==
  phase = "ready" =>
    /\ start = Fresh => FreshSchema
    /\ start = LegacyV1 => LegacyV1ToCurrent
    /\ start = LegacyV3 => LegacyV3RecurringNormalization
    /\ start = LegacyV6 => LegacyV6ToV7Search
    /\ start = LegacyV7 => LegacyV7ToV8BillUniqueness
    /\ start = LegacyV8 => LegacyV8ToV9TombstoneCleanup
    /\ start = LegacyV9 => LegacyV9ToV10VisualIdentity
    /\ start = LegacyV10 => LegacyV10ToV11SystemIdentity
===============================================================================
