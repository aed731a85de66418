------------------------------- MODULE CsvImport -------------------------------
(***************************************************************************)
(* Export of the transactions to a CSV file and import of such files       *)
(* (lib/core/services/csv_export_service.dart, csv_import_service.dart,    *)
(* importSimpleTransactionsAtomically, _importCsv of the settings).  A     *)
(* file is previewed, the preview waits in a dialog, and what it lists is  *)
(* imported in one transaction or not at all.  The user may pick a second  *)
(* file before the first dialog shows, so two may wait, one over the       *)
(* other; meanwhile the zone of the device may change and recurring drafts *)
(* are made, but the user does nothing else.                               *)
(*                                                                         *)
(* Time runs in halves of a UTC day; a zone is what its local time is      *)
(* ahead.  Category, amount and note are one value, the content, of which  *)
(* CategoryOf is the name of the category.  Archiving and renaming of      *)
(* categories are left out.                                                *)
(*                                                                         *)
(* A file is a function from line numbers to lines, and what a preview     *)
(* lists keeps its numbers.                                                *)
(***************************************************************************)
EXTENDS Integers, FiniteSetsExt, SequencesExt

CONSTANTS None,
          Accounts,      \* account ids
          Assets,        \* ... of class ASSET; the others are cards
          NameOf,        \* their names
          Seeds,         \* accounts of a new ledger
          Contents,
          CategoryOf,    \* their categories
          Defaults,      \* <<type, name>> of the categories of a new ledger
          Instants, Now, \* Now is the present one
          Zones,
          ForeignFiles,  \* files no export made
          MaxIds,        \* bound: transaction ids ever made
          MaxChanges     \* bound: what the user and the device do but import

ASSUME CsvAssumption ==
  /\ Defaults \subseteq {"EXPENSE", "INCOME"} \X {CategoryOf[c] : c \in Contents}
  /\ Assets \subseteq Accounts /\ Seeds \subseteq Accounts
  /\ Instants \subseteq Nat /\ Now \in Nat /\ Zones \subseteq {0, 1} /\ {MaxIds, MaxChanges} \subseteq Nat
  /\ None \notin Nat
  /\ \A file \in ForeignFiles :
       /\ DOMAIN file \subseteq Nat \ {0} /\ IsFiniteSet(DOMAIN file)
       /\ \A n \in DOMAIN file : file[n].id \in (Nat \ {0}) \union {None}

VARIABLES tx,        \* transactions
          prints,    \* import_fingerprints: fingerprint -> transaction
          open,      \* accounts that are not archived
          archived,  \* ... and those that are
          categories, \* <<type, name>> of the categories
          zone,
          exported,  \* the file of the last export
          dialogs,   \* previews waiting for an answer, the last one on top
          copy,      \* history: the transactions that export listed
          origin,    \* history: the line a transaction was imported from
          ids,       \* history: ids made so far
          changes

named == <<open, archived, categories>>

vars == <<tx, prints, named, zone, exported, dialogs, copy, origin, ids, changes>>

Empty == [x \in {} |-> None]
LocalDay(instant) == (instant + zone) \div 2

Row(type, status, a, content, instant) ==
  [type |-> type, status |-> status, account |-> a, content |-> content,
   instant |-> instant]

Add(table, new) == [i \in DOMAIN table \union DOMAIN new |->
                      IF i \in DOMAIN new THEN new[i] ELSE table[i]]

Postable(instant) == LocalDay(instant) =< LocalDay(Now)

(* income goes to an asset account, an expense to any of ours              *)
Fits(type, a) == type = "INCOME" => a \in Assets

(* a category is for one of the two types                                  *)
Keys == {"EXPENSE", "INCOME"} \X {CategoryOf[c] : c \in Contents}

Categorized(type, content) == <<type, CategoryOf[content]>> \in categories

--------------------------------------------------------------------------------
(* Lines of a CSV file.  An export writes instants in UTC; the time of     *)
(* another file is taken for local time.                                   *)

Line(id, type, name, destination, content, time, utc) ==
  [id |-> id, type |-> type, name |-> name, destination |-> destination,
   content |-> content, time |-> time, utc |-> utc]

(* The query of listTransactions finds a destination wherever a leg is     *)
(* positive: on income and on what a card paid, too.                       *)
HasDestination(row) == row.type \in {"TRANSFER", "INCOME"} \/ row.account \notin Assets

(* Mutant: the export writes local times.                                  *)
ExportLineLocal(i) ==
  Line(i, tx[i].type, NameOf[tx[i].account], HasDestination(tx[i]), tx[i].content,
       tx[i].instant + zone, TRUE)

(* Rows of every status are exported, and the status is not.               *)
ExportLine(i) ==
  Line(i, tx[i].type, NameOf[tx[i].account], HasDestination(tx[i]), tx[i].content,
       tx[i].instant, TRUE)

Instant(line) == IF line.utc THEN line.time ELSE line.time - zone

Fingerprint(line) ==
  IF line.id # None THEN <<"id", line.id>>
  ELSE <<Instant(line), line.type, line.name, line.content>>

ToldApart(accounts) == \A a, b \in accounts : NameOf[a] = NameOf[b] => a = b

OpenNames == {NameOf[a] : a \in open}

Valid(line) ==
  /\ ~ line.destination
  /\ line.type \in {"EXPENSE", "INCOME"}
  /\ line.name \in OpenNames
  /\ Categorized(line.type, line.content)

(* The first line with a fingerprint counts, valid or not.                 *)
FirstOfItsKind(file, n) ==
  \A m \in DOMAIN file : m < n => Fingerprint(file[m]) # Fingerprint(file[n])

Draft(line) ==
  [id |-> line.id, type |-> line.type, content |-> line.content,
   account |-> CHOOSE a \in open : NameOf[a] = line.name,
   instant |-> Instant(line), print |-> Fingerprint(line),
   line |-> line, zone |-> zone]

(* What preview finds importable.                                          *)
Importable(file) ==
  LET listed == {n \in DOMAIN file : /\ Valid(file[n])
                                     /\ FirstOfItsKind(file, n)
                                     /\ Fingerprint(file[n]) \notin DOMAIN prints}
  IN [n \in listed |-> Draft(file[n])]

--------------------------------------------------------------------------------
(* importSimpleTransactionsAtomically                                      *)

(* Mutant: a voided transaction counts as imported.                        *)
SameOfAnyStatus(d) ==
  /\ tx[d.id].type = d.type
  /\ tx[d.id].content = d.content /\ tx[d.id].account = d.account
  /\ tx[d.id].instant = d.instant

Same(d) ==
  /\ tx[d.id].type = d.type /\ tx[d.id].status = "POSTED"
  /\ tx[d.id].content = d.content /\ tx[d.id].account = d.account
  /\ tx[d.id].instant = d.instant

(* Mutant: the fingerprints are not read again.                            *)
AsPreviewed(d) == FALSE

Known(d) == d.print \in DOMAIN prints

There(d) == d.id \in DOMAIN tx

Inserted(drafts) == {n \in DOMAIN drafts : ~ There(drafts[n]) /\ ~ Known(drafts[n])}

(* Any of these throws, and nothing is imported.                           *)
Accepted(drafts) ==
  /\ \A n \in DOMAIN drafts :
       /\ drafts[n].account \in open
       /\ Fits(drafts[n].type, drafts[n].account)
       /\ Categorized(drafts[n].type, drafts[n].content)
       /\ There(drafts[n]) => Same(drafts[n])
  /\ \A n \in Inserted(drafts) : Postable(drafts[n].instant)

(* An inserted row keeps its id from the file, or gets a new one.          *)
NewId(drafts, n) ==
  IF drafts[n].id # None THEN drafts[n].id
  ELSE ids + Cardinality({m \in Inserted(drafts) : m =< n /\ drafts[m].id = None})

DraftRow(d) == Row(d.type, "POSTED", d.account, d.content, d.instant)

Import(drafts) ==
  LET index == [i \in {NewId(drafts, n) : n \in Inserted(drafts)} |->
                  CHOOSE n \in Inserted(drafts) : NewId(drafts, n) = i]
  IN [tx |-> Add(tx, [i \in DOMAIN index |-> DraftRow(drafts[index[i]])]),
      prints |-> [p \in DOMAIN prints \union {drafts[n].print : n \in Inserted(drafts)} |->
                    IF p \in DOMAIN prints THEN prints[p]
                    ELSE NewId(drafts, CHOOSE n \in Inserted(drafts) : drafts[n].print = p)],
      origin |-> Add(origin, [i \in DOMAIN index |->
                    <<drafts[index[i]].line, drafts[index[i]].zone>>])]

--------------------------------------------------------------------------------
(* The user                                                                *)

Changes == changes < MaxChanges /\ changes' = changes + 1
AtRest == dialogs = <<>> /\ Changes

Enter(type, status, a, content, instant) ==
  /\ ids < MaxIds
  /\ a \in open /\ Fits(type, a)
  /\ type # "TRANSFER" => Categorized(type, content)
  /\ status = "POSTED" => Postable(instant)
  /\ ids' = ids + 1
  /\ tx' = Add(tx, [i \in {ids + 1} |->
                      Row(type, status, a, content, instant)])
  /\ UNCHANGED <<prints, named, zone, exported, copy, dialogs, origin>>

(* generateDueRecurring, at a resume                                       *)
MakeDraft ==
  Changes /\ \E a \in open, c \in Contents, t \in Instants : Enter("EXPENSE", "DRAFT", a, c, t)

Record ==
  /\ AtRest
  /\ \E type \in {"EXPENSE", "INCOME", "TRANSFER"}, a \in open, c \in Contents, t \in Instants :
       Enter(type, "POSTED", a, c, t)

(* updateSimpleTransaction, whatever the status; the time stays            *)
Update(i) ==
  /\ AtRest
  /\ tx[i].type \in {"EXPENSE", "INCOME"}
  /\ \E a \in open, c \in Contents :
       /\ Fits(tx[i].type, a) /\ Categorized(tx[i].type, c)
       /\ tx' = [tx EXCEPT ![i].account = a, ![i].content = c]
  /\ UNCHANGED <<prints, named, zone, exported, copy, dialogs, origin, ids>>

SetStatus(i, from, to) ==
  /\ AtRest
  /\ tx[i].status = from
  /\ tx' = [tx EXCEPT ![i].status = to]
  /\ UNCHANGED <<prints, named, zone, exported, copy, dialogs, origin, ids>>

(* The fingerprint goes with its transaction (ON DELETE CASCADE).          *)
Delete(i) ==
  /\ AtRest
  /\ tx' = [j \in DOMAIN tx \ {i} |-> tx[j]]
  /\ prints' = [p \in {q \in DOMAIN prints : prints[q] # i} |-> prints[p]]
  /\ origin' = [j \in DOMAIN origin \ {i} |-> origin[j]]
  /\ UNCHANGED <<named, zone, exported, copy, dialogs, ids>>

(* createAccount, with a name that no open account has                     *)
CreateAccount ==
  /\ AtRest
  /\ \E a \in Accounts \ (open \union archived) :
       NameOf[a] \notin OpenNames /\ open' = open \union {a}
  /\ UNCHANGED <<tx, prints, archived, categories, zone, exported, copy, dialogs, origin, ids>>

(* That its balance has to be zero and none of its rows in the future is   *)
(* left out.                                                               *)
ArchiveAccount ==
  /\ AtRest
  /\ \E a \in open :
       /\ \A i \in DOMAIN tx : tx[i].account = a => tx[i].status # "DRAFT"
       /\ open' = open \ {a} /\ archived' = archived \union {a}
  /\ UNCHANGED <<tx, prints, categories, zone, exported, copy, dialogs, origin, ids>>

CreateCategory ==
  /\ AtRest
  /\ \E type \in {"EXPENSE", "INCOME"}, c \in Contents :
       ~ Categorized(type, c) /\ categories' = categories \union {<<type, CategoryOf[c]>>}
  /\ UNCHANGED <<tx, prints, open, archived, zone, exported, copy, dialogs, origin, ids>>

ChangeZone ==
  /\ Changes
  /\ zone' \in Zones \ {zone}
  /\ UNCHANGED <<tx, prints, named, exported, copy, dialogs, origin, ids>>

(* wipeLocalFinanceData.  Accounts and categories of the user go with the  *)
(* rest, the exported file is out of its reach.                            *)
Wipe ==
  /\ AtRest
  /\ DOMAIN tx # {}
  /\ tx' = Empty /\ prints' = Empty /\ origin' = Empty
  /\ open' = Seeds /\ archived' = {} /\ categories' = Defaults
  /\ UNCHANGED <<zone, exported, copy, dialogs, ids>>

(* The lines are numbered by the ids; their order is left open.            *)
Export ==
  /\ AtRest
  /\ DOMAIN tx # {}
  /\ exported' = [i \in DOMAIN tx |-> ExportLine(i)]
  /\ copy' = tx
  /\ UNCHANGED <<tx, prints, named, zone, dialogs, origin, ids>>

(* An id of this ledger is in a file only after it was made; others come   *)
(* from other devices.                                                     *)
Preview(file) ==
  /\ Len(dialogs) < 2
  /\ \A n \in DOMAIN file : file[n].id \in 1 .. MaxIds => file[n].id =< ids
  /\ DOMAIN Importable(file) # {}
  /\ dialogs' = Append(dialogs, Importable(file))
  /\ UNCHANGED <<tx, prints, named, zone, exported, copy, origin, ids, changes>>

Cancel ==
  /\ dialogs # <<>>
  /\ dialogs' = Front(dialogs)
  /\ UNCHANGED <<tx, prints, named, zone, exported, copy, origin, ids, changes>>

(* Confirmed, and imported.  An import that throws does what Cancel does.  *)
Commit ==
  LET drafts == Last(dialogs) IN
  /\ dialogs # <<>>
  /\ Accepted(drafts)
  /\ ids' = ids + Cardinality({n \in Inserted(drafts) : drafts[n].id = None})
  /\ ids' =< MaxIds
  /\ tx' = Import(drafts).tx
  /\ prints' = Import(drafts).prints
  /\ origin' = Import(drafts).origin
  /\ dialogs' = Front(dialogs)
  /\ UNCHANGED <<named, zone, exported, copy, changes>>

(* What the user made before his first transaction is there.               *)
Init ==
  /\ tx = Empty /\ prints = Empty /\ origin = Empty
  /\ open \in {s \in SUBSET Accounts : Seeds \subseteq s /\ ToldApart(s)}
  /\ categories \in {s \in SUBSET Keys : Defaults \subseteq s}
  /\ archived = {}
  /\ zone \in Zones
  /\ exported = Empty /\ copy = Empty /\ dialogs = <<>>
  /\ ids = 0 /\ changes = 0

Next ==
  \/ Record \/ MakeDraft \/ CreateAccount \/ ArchiveAccount \/ CreateCategory
  \/ ChangeZone \/ Wipe \/ Export \/ Cancel \/ Commit
  \/ \E i \in DOMAIN tx : \/ Update(i) \/ Delete(i)
                          \/ SetStatus(i, "DRAFT", "POSTED")
                          \/ SetStatus(i, "POSTED", "VOIDED")
  \/ \E file \in ForeignFiles \union {exported} : Preview(file)

Spec == Init /\ [][Next]_vars

--------------------------------------------------------------------------------
(* Properties                                                              *)

TypeOK ==
  /\ DOMAIN tx \subseteq Nat \ {0} /\ \A i \in DOMAIN tx : i \in 1 .. MaxIds => i =< ids
  /\ \A i \in DOMAIN tx : /\ tx[i].type \in {"EXPENSE", "INCOME", "TRANSFER"}
                          /\ tx[i].status \in {"DRAFT", "POSTED", "VOIDED"}
                          /\ tx[i].account \in Accounts
  /\ \A p \in DOMAIN prints : prints[p] \in DOMAIN tx
  /\ ToldApart(open) /\ open \intersect archived = {}
  /\ zone \in Zones /\ ids \in 0 .. MaxIds /\ changes \in 0 .. MaxChanges

(* However often a file is imported, from two dialogs at once or again     *)
(* after its transactions were edited, voided or their account archived,   *)
(* no line of it stands for two transactions (the fingerprints of          *)
(* csv_import_service).  Lines without an id are told apart by their       *)
(* instant, so one read in two zones may.                                  *)
ImportedOnce ==
  \A i, j \in DOMAIN origin : origin[i] = origin[j] => i = j

(* The rows reference_csv_import_audit imports one by one, looking each up *)
(* among those before it, or the refusal of the first that conflicts.      *)
NextRow(done, d) ==
  IF d.id \in DOMAIN done.tx
  THEN LET r == done.tx[d.id] IN
       [done EXCEPT !.ok = <<r.type, r.status, r.content, r.instant>>
                           = <<d.type, "POSTED", d.content, d.instant>>]
  ELSE IF d.print \in done.prints THEN done
  ELSE LET i == IF d.id = None THEN done.ids + 1 ELSE d.id IN
       [ok |-> TRUE, tx |-> Add(done.tx, [j \in {i} |-> DraftRow(d)]),
        prints |-> done.prints \union {d.print},
        ids |-> IF d.id = None THEN i ELSE done.ids]

Reference(drafts) ==
  LET before == [ok |-> TRUE, tx |-> tx, prints |-> DOMAIN prints, ids |-> ids]
      done[n \in 0 .. Max(DOMAIN drafts)] ==
        IF n = 0 THEN before
        ELSE IF n \in DOMAIN drafts /\ done[n - 1].ok THEN NextRow(done[n - 1], drafts[n])
        ELSE done[n - 1]
  IN done[Max(DOMAIN drafts)]

AsReference ==
  LET r == Reference(Last(dialogs)) IN r.ok /\ r.tx = tx' /\ r.prints = DOMAIN prints'

(* An import that goes through leaves what importing row by row would      *)
(* leave, although all questions were asked of the ledger as it was before *)
(* the first row; where a row conflicts, it does not go through.           *)
ImportsAsReference == [][Commit => AsReference]_vars

Returning == {i \in DOMAIN copy : /\ copy[i].type = "EXPENSE"
                                  /\ copy[i].account \in Assets
                                  /\ NameOf[copy[i].account] \in OpenNames
                                  /\ Categorized("EXPENSE", copy[i].content)}

(* Of an export that is imported into an emptied ledger, the expenses of   *)
(* asset accounts come back, each with its id, content and instant, as far *)
(* as their account and category are there by name: a wipe leaves those of *)
(* a new ledger only, and the user has to make his own again before the    *)
(* preview.  Nothing else comes back: an income or an expense of a card is *)
(* taken for a transfer.  A draft or a voided expense comes back posted.   *)
ExpensesComeBack ==
  [][Commit /\ tx = Empty /\ Last(dialogs) = Importable(exported) =>
       /\ DOMAIN tx' = Returning
       /\ \A i \in Returning : /\ tx'[i].content = copy[i].content
                               /\ tx'[i].instant = copy[i].instant]_vars
================================================================================
