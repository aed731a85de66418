# Verification of the local-only finance app

The application is an offline personal-finance app written in Dart for Flutter.
Everything lives on the device: an encrypted SQLite database (`lib/core/db`),
one repository that owns the money rules (`lib/data`), services for backups,
PIN, reminders and files (`lib/core/services`), and a controller between them
and the screens (`lib/app_controller.dart`, `lib/features`). There is no server
and no second device. What is hard is therefore not a network: it is long
sequences of legal edits, the process dying between two file operations, and
asynchronous tasks of one process that nothing keeps apart.

Paths below are relative to the repository.

## 1. Inventory

| Component | State it keeps | Operations | What makes it correct |
|---|---|---|---|
| Finance repository, `lib/data/local_finance_repository.dart` | accounts, categories, transactions with groups, legs and splits, bills, recurring rules and their occurrences, budgets | create, edit, void, delete, refund, pay, skip, generate, archive, wipe, import | legs and splits fit the type; groups are all or nothing; refunds stay within an expense in effect; a PAID bill has a payment in effect; a rule misses no date and handles none twice; nothing in use names something archived |
| Semantic firewall, `_validateLedger` in `lib/core/services/backup_service.dart` | none | decides whether a ledger may be exported or restored | accepts what the repository can produce |
| Database files, `lib/core/db/app_database.dart` | database and log at the canonical path, the key in secure storage, the recovery marker, the quarantine | open, close, begin / mark validated / finalize / roll back a fresh recovery | after any crash there is one ledger, the old or the new; no rollback deletes the only copy |
| Recovery generations, `backup_service.dart` | `local_recovery/*.arusrecovery`, the recovery key | snapshot, prune, restore a portable backup, destroy | a restore has a readable way back; pruning never costs the last readable file |
| Schema and migrations, `lib/core/db/schema.dart`, `_initializeSchema` | `user_version`, tables and indexes, the derived search index | one transaction per version, current objects, rebuilt index; the legacy repairs of a restore | a crash leaves a version that the next start migrates to the same end; no entry is lost; an upgrade and a restored old backup agree |
| Application controller, `lib/app_controller.dart` | rows shown, request numbers, busy flag, queued resume | refresh, search, load more, write, resume | rows belong to the query shown; a queued resume is processed |
| PIN and recovery code, `security_service.dart` | salts, hashes, attempt counters, lock times in secure storage | set, verify, change, remove, reset | no attempt uncounted; a half-written PIN does not lock the owner out |
| Lock gate, `lock_gate.dart` | locked, prompt in progress, paused time | lifecycle events, keyguard samples, biometric answers | content is not shown while locked; an answer of an old prompt unlocks nothing |
| Local reminders, `local_notification_service.dart` | the stored map of managed reminders, the platform's schedule | sync, enable, disable | the map names every reminder on the platform |
| CSV import and export, `csv_import_service.dart`, `csv_export_service.dart` | fingerprints, source ids, open dialogs | preview, confirm, one transaction per file, export | no line is imported twice; one transaction leaves what row-by-row import would; what is exported comes back |
| Native shell tools, `tool/native_*.py`, `tool/v49_lifecycle_native_patch.py`, the signing tools | the files of the generated `android/` and `ios/` | patch in place, audit on fixtures | patched any number of times, a file holds each text once; nothing ships without the hardening |
| Release pipeline, `bootstrap.sh`, the gates and the orchestrator in `tool/` | shells, SDK, artifacts, evidence, report | bootstrap, gates, install, capture, report | evidence names what was built; a killed script spoils no later one; READY is earned |
| Screen protection, preferences, profile, icons, insights, screens | single settings, files beside rows | | presentation |
| Static source audits, audits of scale, in `tool/` | none | search the source for texts, measure speed | |

How they interact: screens call the controller, the controller calls the
repository, and both call services; every call is an `await` on one isolate, so
interleaving happens exactly at awaits. `LocalFinanceRepository` calls SQLite
synchronously, so one repository operation is one atomic step although it
returns a future. The backup service and `AppDatabase` await the file system
and the secure storage between their steps, and several of their operations can
be in flight together: `app.dart` starts a background snapshot at each start and
each pause without waiting for it, while the settings restore, recover or wipe.

The scripts under `tool/` are a second system beside the app: they patch the
shells Flutter generates, build, record evidence of the build and report from
the evidence. They run one at a time, each stops at the first command that
fails, and the developer edits and kills between and under them.

`PROJECT.json` lists the components with their status, and every hazard at its
line, with the properties that would catch it.

## 2. Modules

    LedgerData        rows, tables, helpers of the repository's queries
      LedgerFirewall  the validator's queries, as predicates on the tables
        Ledger        every writing operation of the repository
          MCLedger    instances for TLC
          LedgerProofs    sums, calendar, types; links; rows
    DurableLedger     what a database promises across crashes (abstract)
      FreshRecovery   files, marker, quarantine; implements DurableLedger
        MCFreshRecovery
        FreshRecoveryProofs
    RecoveryGenerations   snapshots, restores, wipes as overlapping tasks
      MCRecoveryGenerations
      RecoveryGenerationsProofs
    SchemaMigration   statements of every migration, restarts, legacy repairs
      MigrationAudit  scenarios and assertions of the migration audit
        MCSchemaMigration
      SchemaMigrationProofs
    CsvImport         export, preview, dialogs and the import of a file
      MCCsvImport
      CsvImportProofs
    AppController     what the screens show, and the overlapping calls that load it
      MCAppController
      AppControllerProofs
    Reminders         the platform's schedule and the stored map, as overlapping tasks
      MCReminders
      RemindersProofs
    NativeShell       the tools that patch android/ and ios/, as functions on marks
      ReleaseGates    the release scripts, edits, kills, evidence and report
        MCReleaseGates
        ReleaseGatesProofs

Definitions under a comment that begins with *Mutant* are wrong on purpose:
each is a plausible mistake in the definition below it, and shows that a
property would notice it.

### Ledger

A variable is a table; a row is a record; ids come from small sets (`Slots`,
`Bills`, `Rules`, `Budgets`). `today` is the device's calendar date and moves
both ways. Each repository method is one action with the method's checks as
guards; a method that throws rolls back its SQLite transaction and is therefore
a disabled action. Exceptions to "one method, one step":

- `generateDueRecurring` commits per occurrence. `GenerateDueRecurring` takes
  any prefix of its commits (`CommittedPrefix`), which is what a kill, or a rule
  whose account was archived, leaves. The healed cursors are committed together.
- `listBills` writes although it reads: it is the action `ListBills`.

Data: an amount is `1 .. MaxMoney`, a date is `1 .. LastDate`, and `Month` maps
dates to months, which may be short so that the clamping of a rule's day
happens. A group is named by its primary transaction. Names, notes, currency,
merchant and tags are left out; interest and fee of a loan payment share one
category; "not yet nine o'clock" is the Boolean `early`, because the loop
compares a cursor it read with midnight and a date it computed (also the one it
skips to over a long gap) with nine o'clock. The id
of a deleted row may be used again, which only adds behaviours.

### FreshRecovery

`todo` holds the awaits left to the operation in flight, in program order; one
action performs the head, `Kill` drops them all, `Fault` makes the head throw
and takes the code's catch branch. A ledger is the number of its last commit; a
family is the main file's ledger and the log's. Renames, deletions and the
marker's write-then-rename are separate steps, as they are separate awaits.
Left out: the `-shm` file (derived from the log), integrity checks, a marker
that does not parse (it is published by a rename), the recovery generation
taken inside a recovery (its failure is swallowed), and two operations at a
time. `Launch` from an idle process with no open database is the retry button
of the recovery screen.

`DurableLedger` states the promise in three actions: open, commit, close. The
refinement mapping `Recoverable` says which ledger the next start will find:
the one at the canonical path, or, while an unvalidated marker stands, the one
in its quarantine.

### RecoveryGenerations

Every operation is a task with a program counter `at`; a step ends where the
code awaits. Two tasks, commits and kills interleave freely, as nothing in the
code excludes it. A file is the ledger it holds, the key it was made with and
the timestamp in its name. That timestamp is the wall clock's
(`backup_service.dart:147`), which the user or the network sets forward and
back, so `Write` takes any value no other file has; lists and pruning go by it.
"Recent enough" of a background snapshot is a free choice. `since` and `behind`
are history: what a restore may promise, and whether a file was ever named
behind one that was already there. `PrunesSafely` says when the last readable
generation is lost: only after such a name, and only to `Keep` unreadable files
with later ones. `RestoreHasFallback` excepts a restore whose own file was named
behind another, and is stated for no more tasks than generations are kept. Both
exceptions are real (section 6). With more tasks, TLC finds the
counterexample: `Keep` snapshots taken before the restore began and published
after its own prune the one it relies on. Left out: `.pending` files that a kill
leaves (nothing reads them), and payload formats.

### AppController

The controller awaits a `FinanceRepository`. A call under way is a record in
`calls`, with what it waits for and what it has read; an answer, a failure or
the next request is one action, because the isolate runs without interruption
between two awaits. Lists are read at the call and answered later, in any
order; a write takes effect when it is answered. That is the interface's
contract. `LocalFinanceRepository`, synchronous under its futures, always
answers in the order of the calls, so the model has more behaviours than the
program has today, and what holds in it does not rest on that detail.

Request numbers are compared for equality with the newest only, so a call has
two Booleans, `newest` and `newestList`, instead. Accounts, dashboard, planning
and the rest of a refresh are the commit they were read at (`dashboardData`);
a transaction is a number, newer ones larger; search text and filter are one
query. `run` with `refreshAfter: false` hands over to the call `"caller"` (a new
account or category), and `WrittenElsewhere` is a restore or a choice of icon,
which refresh with no regard to `busy`. `owed` and `mixed` are history.

### Reminders

`platform` is what the operating system has scheduled, `managed` the stored
map. Each call of the plugin is awaited, so it is a step; `syncSchedules` and
`setEnabled` calls overlap, fail or are killed between any two of them. The
order of cancellations, and that of schedulings, is left open. A day has two instants, 8:00 and
9:00; a signature is the record the hash is taken of. The ids are a small cyclic
range, so that they collide, are probed and wrap around. `loose` is history:
the ids on which a failed, killed or overlapped call may have left platform and
map apart, until a whole call has worked on them again.

### SchemaMigration, MigrationAudit

`disk` is the committed database, `work` what the open transaction sees; `todo`
is the list of statements left of that transaction. `Execute` runs one
statement, the last of a transaction commits, and a kill or full storage drops
`work`. Statements are pairs of an operation and its argument, in the order of
`schema.dart`; what a migration reads or writes of a row is kept, the rest of
its columns is not. `Restored` is the path of an old portable backup
(`_repairLegacyLocalOnlyState`), which repeats the migrations in other code.
`MigrationAudit` takes the scenarios and the assertions of
`tool/reference_schema_migration_audit.py`, except that the database goes
through every later migration too and may be interrupted. A v1 bill that is
PAID (it would get no payment and be refused) is assumed not to exist. An
unfinished index is a Boolean, `damaged`. Occurrences, bills and categories are
tables by rowid, so that deleting a row leaves the others their place, which
"the first keeps it" is about.

What is assumed of the first database (`LegacyAssumption`, `RowsAssumption`) is
what an app of its version could have left: the columns, indexes and triggers
of that version; no shared payment from version 8, which has the unique index
on bills; no tombstone from version 9, since that migration deletes them and no
statement of the app sets `deleted_at` any more; no tombstone and no shared
payment in version 0, which has no tables. An index may hold less than the
ledger; one that holds a row of no transaction is `damaged`, which is what the
integrity check of FTS5 finds.

### CsvImport

A file is a function from line numbers to lines; a line is what the parser
gives, and what a preview lists keeps its number. `dialogs` holds the previews
that wait, the newest on top; `Commit` imports that preview against the ledger
as it is then, in one transaction. The ids of this ledger are `1 .. MaxIds`, in
the order they are made (random in the code), so a file can name one only after
it was made; a file of another device may hold any other id. Time runs in halves of a
UTC day and a zone is 0 or 1 half ahead, so that an instant and a local date can
disagree. `copy` and `origin` are history: what an export listed, and the line
a transaction came from. Category, amount and note are one value, the content,
and `CategoryOf` tells its category's name. `categories` are those of the
ledger, each for expenses or for income: preview and import refuse a line whose
category is not among them. The user makes accounts and categories, before his
first transaction (`Init`) and later; `Wipe` takes them and leaves those of a new
ledger. An archived account's name may be given again. Left out are the syntax
and the size limits of a file, an account's balance, and categories that are
archived or renamed: to a later export a renamed one is one of the user's own.

### NativeShell, ReleaseGates

A file of the shells is a bag of marks: `"template"` for the structure the
tools search for, and one for each text a tool inserts, with how often it is
there; a killed write leaves it empty. Each tool is a function on these bags,
with its own guard against inserting twice, or without one. The fixture audits
(`reference_native_hardening_audit` and the like) are the same functions
applied to the fixture they write.

A script is a sequence of steps, one command each; `set -e` is "the first
failing step ends it". The source is a number that grows with each edit, the
lock says which dependencies were resolved, an artifact records of what it was
built. Static audits are folded into one step that passes or fails with what
they look at. The developer edits source, lock, key and shell files between
the scripts and under them. A build that succeeds replaces its artifact, but for
the `.ipa`: the store gate takes the first by name of those in `build/ios/ipa`
(`native_release_gate.sh:43`), which may be an older one. History are `calm`
(nobody disturbed this run), `moved` (the artifacts since whose build source or
lock changed), `leftover` (the gate has an `.ipa` that its build did not make),
`touched` and `rewritten` (a shell file was edited by hand, or was so under the
running gate). An artifact and its evidence carry them, and the properties name
them as their exceptions.

## 3. Runs

| Run | Instance | What it shows |
|---|---|---|
| `entries` | 3 transactions, 2 assets, a card (created during the run), a loan, amounts 1..2, one date | groups are all or nothing, refunds stay within an expense in effect and keep it, the dashboard's figures are what the types of the entries say |
| `bills` | 3 transactions, 2 bills, 2 dates | a PAID bill has a payment in effect that pays nothing else; `listBills` settles every bill that is not SKIPPED |
| `planning` | a rule, 2 transactions, a budget, 4 dates in 3 months | no date missed, none handled twice, no flood of drafts after a clock jump, dependencies stay open, types |
| `recovery` | 3 kills and 3 faults, 3 recoveries, 5 commits, devices with and without their key | under kills alone `FreshRecovery` implements `DurableLedger`; with up to three failing steps, the last checkpointed copy is never deleted and a validated replacement stays; a marker is resolved |
| `generations` | 3 tasks, 2 at a time, 2 commits, 2 faults or kills, no key at the start, any order of names | pruning costs the last readable file only after a clock set back; a restore has a readable fallback, with the same exception; a wipe that ran alone leaves nothing readable |
| `reminders` | 2 bills and a rule that hash to one of 3 ids, 2 overlapping calls, 2 days, 2 changes, a fault | the map tells what is scheduled, off leaves nothing, no bill loses its reminder |
| `controller` | 3 transactions, 2 queries, 2 searches, 3 calls at a time, a commit, pages of one row | rows match the query shown; nothing goes back to an older state; a queued resume is served |
| `schema` | databases of all 11 versions with what their migrations are about, the audit's scenarios, an unknown version; 2 interruptions | the upgrade ends where an uninterrupted one does, loses nothing, agrees with a restore of a backup, passes the audit, and ends |
| `csv` | 2 bank accounts of one name, a card, 2 categories, one of them the user's own for expenses, 4 foreign files, 2 time zones, 2 ids, 4 changes | no line twice; one transaction is row by row; exported expenses come back if their account and category are there |
| `release_gates` | 3 scripts, an edit, a kill, an edit of the Gradle file, both hosts, the gates of each platform | evidence names its build, what ships is hardened, each with its exceptions; a calm run passes, READY is earned |
| `posted_draft`, `recovery_corrupt` | the smallest instance that shows it | statements of the documents that the code does not keep (section 6) |

Why the bounds are enough. Three transactions hold an expense with two refunds,
a loan payment with interest and fee, or a transfer with a fee and a refund of
it: the largest cluster of rows that refer to each other except for two refunds
of a group member. Amount 2 against 1 and 1 makes "sum" and "largest" differ.
Four dates in months of one, two and one days have a clamp, a gap of more than
`MaxGapMonths`, a cursor further ahead than `HealMonths`, and a loop longer
than `MaxCatchUp`; the three constants are 1, 1 and 2 there instead of 24, 2
and 24. Two recoveries are needed for one marker to overwrite another, three to
prune after it. With three failing steps `KeepsLedger` holds, and it still holds
with four (one kill, four recoveries); a fifth takes the data (section 6): it
is a statement about few failing steps, not one for any number. `Keep = 2` with
two tasks at a time is the smallest retention that an overlap cannot exhaust;
the code keeps 3. Three tasks are two that fill the retention and one that
prunes: with `behind` or `since` left out of the properties, TLC finds in this
instance how a clock set back breaks them.

In `schema` two interruptions are one inside a transaction and one after the
restart; a third finds the database where the second did. In `csv`, two ids
tell a row imported from one that was there, and a conflict needs no more; four
changes are an expense, its export, a wipe, and a change of zone or a new
category before the import. `CHECK_DEADLOCK FALSE` is set there because a user
who has used up his changes may have nothing to import. In `release_gates`, three scripts are a bootstrap that is
killed, the one after it, and a gate or a report; `PartialCopies` leaves a
killed copy of the template with nothing, or without the manifest or the Gradle
file; the Gradle file is also the one edited by hand: the hardening, the
signing and both gates read it, so an edit of it between a gate's checks and its
build takes both. A gate in mode `all` runs the commands of both platforms one
after the other, and only on macOS; the theorems are about every mode, and the
run leaves it out.

Constraints of instances, in `MCLedger`: in `entries`, rows that only set a
balance (income, adjustment, opening balance) come one at a time and one amount
is above 1; in `planning`, a budget and transactions are not there at the same
time, as they only meet through the catalog. Ids of transactions and of bills,
and the seeded assets, are symmetric, since no definition tells them apart.
`CHECK_DEADLOCK FALSE` is set where the bounds on tasks leave the app idle.

In `reminders`, one bill and two reminders are the caps (32 and 48 in the
code), so that a paid bill lets another in and the rule takes the last place;
three ids are the fewest that let a reminder move past another and wrap. Two
calls overlap only until the first fault, which keeps the instance small: a
call that fails alone and calls that overlap are both there. In `controller`,
three calls are what a page, a search and a refresh need to overtake each
other, and a write, a pass and a search to queue a resume; pages of one row
make two transactions need a second page.

Fairness. `recovery` and `recovery_corrupt` use `FairSpec`, which
has weak fairness on the next step of the running operation (an awaited file
operation ends or throws, and one isolate runs what follows) and on starting an
app that was killed. Nothing is assumed of the user: no fairness on commits,
recoveries or retries. `MarkerResolved` therefore allows the app to stand at
the recovery screen. `SchemaMigration` assumes that a running start goes on and
that an app which died is started again, while interruptions are bounded;
without the second, `OpensAtLast` would say nothing but that. `AppController`
assumes that a call of the repository made by a pass, by `initialize` or by a
write is answered or throws. Nothing is assumed of searches, retries and the
user. The other modules assume nothing.

## 4. Theorems

For every value of the constants that satisfies the named assumptions of
`LedgerData` and `Ledger`: asset, card and loan accounts are disjoint sets of
accounts, expense and income categories are disjoint, bounds are numbers;
`Month` gives every date a month, and dates follow each other through the
months and leave none out (`MonthsAssumption`); ids, accounts and categories are
finite sets (`SlotsAssumption`, `CatalogAssumption`), as a sum or a count over
them has to have a value.

- `TypeCorrect` (`LedgerProofs`): `Spec => []TypeOK`. `TypeOK` is inductive.
  The proof has one lemma per table operation (rows made by a constructor are
  rows, inserting and removing rows keeps a table typed) and one step per
  action. The calendar operators stay in the horizon by the lemmas on
  `OccurrenceIn` and `NextOccurrence`.
- `RefundsKeepOriginal`: `Spec => []RefundsHaveOriginal`.
  The inductive invariant `OriginalLinks` adds what is kept of voided refunds:
  their original is still there and is an expense. Without it a delete could
  leave a voided refund behind whose original's id is used again.
- `RefundsNeverExceed`: `Spec => []RefundsWithinOriginal`. The invariant
  `Within` is inductive on top of `OriginalLinks`. What each operation does to
  the sum of the refunds of an expense comes from the lemmas on sums below.
- `PaidBillsHavePayment`: `Spec => []BillPaymentsInEffect`. The inductive part
  is the link: a payment exists, pays one bill, and is an expense; a void or
  delete of it reopens the bill in the same step.
- `ListingSettlesBills`: `Spec => ListBillsSettles`. `listBills` leaves every
  bill that is not SKIPPED with the status its payment and the date call for.
- `OccurrencesAreRemembered`, `RunsAreBounded`, `CursorsMissNoDate`:
  `Spec => OccurrencesRemembered`, `NoSyntheticFlood`, `NoDateMissed`. All three
  are about the prefix of its commits that a run of the catch-up makes before it
  ends or dies. The last one rests on `NextOccurrence`: it leaves no date of the
  rule between one occurrence and the next, for any calendar that satisfies the
  assumptions.
- `RowsAreValid`: `Spec => []RowsMatchType`, the rows part
  of the firewall: every transaction has the legs and splits of its type. It is
  proved together with the next one, because a draft is made from a rule: the
  row is valid only if the rule's account and category are of the right kind.
- `DependenciesAreOpen`: `Spec => []DependenciesOpen`. The invariant `AllReady`
  joins `RowsReady`, `RulesReady` and `BudgetsReady`: what a rule, a draft or a
  budget names is open and of its kind, so that `archiveAccount` and
  `archiveCategory` find it when they look for uses.
- `FiguresFollowContract`: `Spec => []DashboardFollowsContract`. Given the
  shapes of the rows it is an exchange of sums: the dashboard adds up each
  account over the rows, the contract each row over its accounts.
- `GroupsStayWhole`: `Spec => []GroupsAllOrNothing`. The strengthening
  `GroupsReady` says that no member of a group is a draft; otherwise posting one
  would give a group two statuses.

Sums. `Refunded`, `NetWorth` and the totals of splits are `SumFunction` of the
community modules, a recursion over a set. The induction theorems of the library
cannot be used (section "What stays with TLC"), so `LedgerProofs` argues with a
smallest counterexample: well-founded order on subsets by their cardinality
(`SubsetMin`) gives `SumExists`, and from it `SumIsTotal`, `TotalStep` and the
lemmas about adding, removing and exchanging.

For every set of transactions, queries and overlapping searches
(`ControllerAssumption`: the names of the calls differ, bounds are numbers):

- `PendingResumeHasOwner` (`AppControllerProofs`): `Spec => []PendingHasOwner`.
  Strengthened by `FlagsMatchCalls`: `busy` and `_processingResume` are up
  exactly while a write and a pass are under way. Without it a flag could
  outlive its call, and nothing would ever take the queued resume.
- `ShownNeverOlder`: `Spec => NeverOlder`. The inductive part is
  `NewestReadsLater`: at most one refresh is the newest, and it was read no
  earlier than what is shown.

These two follow from one invariant `IInv`, with a lemma for each kind of step: a
call moves on, asks for a refresh, ends, or ends as the owner of the queue.

- `RowsMatchQuery`: `Spec => []TimelineMatchesQuery`. `ListInv` says what the
  request numbers are for: a list that still has the newest one was read as it
  was asked for (`ListsAreAsked`); it is the only one, and its query is the one
  shown, unless it is a search (`OneNewestList`). A further page takes no number,
  so both hold of it only if nothing else was under way when it was asked for
  (`during`). `FirstRefresh` covers the start, when nothing is shown yet. What
  the rows are is stated of the list itself: a transaction's place is the number
  of newer ones, so places tell transactions apart, none is left free, and a
  stretch of such a list is the list of what is in it (`StretchIsNewestFirst`):
  that is why pages can be joined.

For every set of bills, rules and overlapping calls, every hash and every cap
(`RemindersAssumption`: bills and rules are distinct numbers, finitely many, the
hash gives an id of the range, the range holds `TotalCap` reminders):

- `ScheduledAsRemembered` (`RemindersProofs`): `Spec => []ManagedMatchesPlatform`.
- `OffMeansNone`: `Spec => []OffLeavesNothing`.
- `BillsAreReminded`: `Spec => []NoBillUnreminded`.

The first two follow from the invariant `Sound`. What holds at rest is broken in the
middle of a call, so `Sound` says of a call nobody overlapped that it is
`OnCourse`: what it did is as its plan says, what it has left to do is disjoint
from that, and plan and map agree on the rest. `Alone` says that such a call is
the only one, `Quiet` that a call which is not at its plugin calls has none
left. A call that fails, is killed or was overlapped hands its ids to `loose`.
The third needs no invariant of its own: it is `ManagedMatchesPlatform` together
with what a sync wants. A row's place among those a sync lists is the number of
rows due before it, so the bills before one that is among the first `BillCap`
are too few to push it over the cap (`FirstIsListed`), and the rules come after
the bills (`DraftsAre`). Probing for ids ends as long as fewer are taken than
the range has, and gives no two drafts the same id (`ProbingEnds`, `IdsDiffer`,
from the smallest number of drafts at which it would be stuck), so the schedule
that a sync wants has each draft under one id (`DraftsAreDesired`).

For every set of devices, every damage, and any number of commits, recoveries,
kills and steps that throw (`BoundsAssumption`, `DevicesAssumption`; `None` is
neither a number, a Boolean nor a session):

- `TypeCorrect` (`FreshRecoveryProofs`): `Spec => []TypeOK`. What is inductive
  is `Typed`: `todo` is a sequence of known steps, and an operation with a step
  that names a directory of the quarantine has a session.
- `ReplacementStays`: `Spec => ValidatedStays`. The invariant `Sound` says two
  things about the program left to run. While the marker records a validated
  replacement the process stands at one of a few places (`AtValid`), and none
  of their steps moves or drops a file before the marker is gone. An operation
  that is still to record it is `OnTheWay`: it is about to open its database,
  perhaps after a rollback (`BeforeOpen`), or has it and restores into it
  (`AfterOpen`), so that what the marker will vouch for is the newest ledger
  (`Whole`). `Numbered` tells a new recovery from the one the marker names: its
  failure does not roll the validated one back.
- `LedgerIsDurable`: `Sealed => (Spec => ImplementsDurableLedger)`, the
  refinement. `Sealed` says that no file is damaged and that a log found at the
  start belongs to a database with a key: without a key or a database its
  commits are lost to any program. Every device of the run
  `recovery` is such a one. `TypeCorrect` and `ReplacementStays` need no such thing. `DurableLedger`
  promises nothing once a step has thrown, so the invariant is
  `Calm == faults = 0 => Safe`, for any number of kills, restarts and recoveries.
  `Safe` has two halves. `FilesSafe` is about the files: a log stands beside its
  database and its key (`LogsSafe`), no file is newer than the last commit
  (`Newest`), and a marker that a start would roll back means that what was not
  there before the recovery is not there now (`MarkerSafe`). `StepsSafe` is about
  the steps that are left: `InOrder` gives each kind of step its place, once for
  all operations, and `Beginning`, `RollingBack`, `Opening` and `Recovering` say
  what the steps that are left take for granted of the files, for example that
  the database is deleted only while its original is in quarantine. A kill ends
  the operation and keeps the files, so it needs only `FilesSafe`. One lemma for
  each kind of step then shows that it keeps `Safe` and is an open, a commit, a
  close or a stutter of `DurableLedger` (`Maps`).

For any number of tasks, keys, commits, steps that throw and kills, and any
`Keep` above zero (`GenerationBounds`, `KindsAssumption`, `TasksAreFinite`,
`NoneIsNoValue`):

- `WipesAreComplete` (`RecoveryGenerationsProofs`): `Spec => []WipedIsGone`.
- `PruningIsSafe`: `Spec => PrunesSafely`.
- `RestoresAreGuarded`: `Spec => RestoreHasFallback`.

The three follow from `Inv`. The second has two parts. What a task is about to
delete has `Keep` files with later names beside it, also after other tasks
published or pruned in between (`ExtrasHaveNewer`); if one of these decodes, a
readable one is left. And while no file was named by a clock set back (`behind`),
what has a later stamp has a key that is no older (`Ordered`), so if the newest
file no longer decodes, no older one does. `WipesAlone` and `NotWiped` follow a
wipe that nobody overlaps through its three deletions. For the restore,
`FewStale` counts the snapshots that were taken before it and are, or may still
be, published under a later name than its own: there are fewer of them than
tasks, so, with no more tasks than `Keep`, a prune keeps at least one file that
is as new as the restore (`NewestKept`). A file that verifies under a later name
has the restore's key (`YoungKeys`), which its name alone does not promise.

For any modes, partial copies, hand-edited files, edits and kills
(`GatesAssumption`, `NoneAssumption`; `None` is no number, no package and no
record):

- `TypesHold` (`ReleaseGatesProofs`): `Spec => []TypeOK`, with "no text is in a
  file twice" as its part that is not about types.
- `EvidenceIsOfTheBuild`: `Spec => []EvidenceNamesWhatWasBuilt`.
- `ReadinessIsEarned`: `Spec => ReadyIsEarned`.
- `ArtifactsShipHardened`: `Spec => []ShipsHardened`.
- `UndisturbedRunsPass`: `Spec => []CalmRunsPass`.

What these rest on is the order of the commands, which the invariants carry as a
property of the rest of the script: `Led(todo, X, Y)` says that each step of `Y`
that is left has one of `X` before it, `NoneAfter` that none comes after. So in
every state a gate either still has to harden a file before its next build, or
the file is hardened (`HardenedFirst`), and nothing a gate runs takes that away;
likewise for the preflight, the build of a piece of evidence, the icons' audit
and the signing. `BeginStarts` shows once that every script has its order when
it begins. A killed bootstrap leaves shells that are hardened in part and
branded in part; `Marks` says that a shell with icons has its name and splash,
because icons come last, and the audits that every gate runs look at the icons.
What is edited under the gate is excepted where the gate cannot see it:
`BuiltFirst` holds of an artifact until source or lock change after its build, or
an `.ipa` of another build is found (`Excused`), and `HardenedFirst` until
somebody rewrites a shell file under the running script (`rewritten`).
A file is a bag; that a tool inserts no text twice is a lemma for each tool.

`UndisturbedRunsPass` is the other side of the same order: each reason for which
a step fails is away when the step comes. `Undisturbed` says so of the rest of a
script that nobody disturbs. Until a bootstrap has removed the shells nothing is
known of them, and nothing is needed: the removal comes before every copy, tool
and audit. After it no file lacks its structure (`Fit`), and for each file that
a tool or the audits want, the copy or the tool that makes it is still before
them, or the file is as they want it (`Duties`). `ToolKeeps` says what the tools
may change of a shell in one statement for all five: a file keeps its structure
and its marks, and only the activity is replaced, by a class with the channel
the v49 patch looks for; `ToolDoes` says what each is for. A compile gate is
undisturbed only on complete shells whose audits pass; its two tools keep them
so, a build adds the scene manifest to an `Info.plist` that was hardened before
it (`Ships`), and evidence is taken before the report that needs its directory.
The fixture audits pass in every state (`FixturesAlwaysPass`): two runs of each
tool over their fixture are computed in the proof. TLC checked `Undisturbed` on
the instance of the run `release_gates` first.

For any accounts, contents, zones and files, and any number of waiting dialogs
and imports (`CsvAssumption`: the files of other origin are finite and number
their lines from 1; `None` is no number):

- `ImportedOnceAlways` (`CsvImportProofs`): `Spec => []ImportedOnce`.
- `ImportsAsReferenceAlways`: `Spec => ImportsAsReference`.
- `ExpensesComeBackAlways`: `Spec => ExpensesComeBack`.

The first holds because of more than itself: `Remembered` says that every line
that was imported has its fingerprint, of the zone of that day, in the table and
that it leads to the line's transaction. `Waiting` says of the drafts of a
dialog, however old, that their fingerprints differ and that none has an id
still to be made. So an inserted row's id is new (`NewIdFresh`) and no two get
the same one (`NewIdInjective`): ids of the file by their fingerprints, new ones
by their rank. The third says of an import into an emptied ledger that it lists
what `Valid` admits of the export: `Returning` names those rows by the accounts
and categories that are there at the import. The second compares an import, all of whose questions are asked
before its first row, with the recursion of the reference: `After` says in
closed form where the reference is after n lines, `NextAfter` that one more line
leads from there to the next, which both shows that the recursion has a value
and what it is. The invariant was checked by TLC on the run `csv` first.

For any set of databases of the eleven versions, any rows and system names, and
any number of interruptions (the assumptions of section 2):

- `TypeCorrect` (`SchemaMigrationProofs`): `Spec => []TypeOK`.
- `ResumedAlways`: `Spec => []ResumedAsUninterrupted`.
- `EntriesKeptAlways`: `Spec => []EntriesKept`.

What a list of statements makes of a database is a recursive function over the
list. That it has a value, and one only, comes from the shortest list on which
two runs would differ (`RunExists`, `RunUnique`); then `AppliedHead` and
`AppliedLast` take off its first or its last statement. `UpgradeInv` rests on
them: the statements that are left, applied to the open transaction, make what
the whole list makes of the database on disk (`Halfway`), and the rest of the
upgrade of what is on disk is the upgrade of what was there at the first start
(`Upgraded(disk) = Upgraded(start)`). A kill takes the transaction back and
keeps both. Each commit climbs one version of the ladder, and its end is that a
whole database of version 11 is its own upgrade: `CurrentObjects` run over it
again changes nothing, so the last transactions may be repeated any number of
times. No list changes the shape of a database but as `Since` and `ObjectSince`
say (`EveryVersion`), which is `Whole`, and with it `TypeOK`.

`EntriesKept` compares the end with the start, `KeptFrom` every database on the
way, in two stretches of versions. Up to version 8 no entry appears or goes, and
what of an entry counts stays (`SameEntry`: a backfilled leg is a draft's).
Version 9 takes the tombstones and voids their refunds (`EntriesAfter`). A
payment that bills share keeps one bill in version 8, the first (`OnePayment`),
and 9 releases only those of tombstones, so what was linked and is not a
tombstone stays linked (`Linked`). In version 4 the markers stay as a set: of
the rows with one marker there is a first (`NatLeast`), and it stays. The other
versions leave the rows alone.

What stays with TLC:

- Liveness (`MarkerResolved`, `ResumeServed`, `OpensAtLast`): no proof under
  fairness here.
- `RestoreAgrees` of `SchemaMigration`: it compares an upgrade with the repairs of
  a restore, whose categories are a fold over rows, and what a fold leaves is
  induction over data (the library's induction theorems take an operator as a
  parameter, which the provers cannot instantiate). `AuditHolds` is about the
  nine databases of the audit, not about any.
- `KeepsLedger` of `FreshRecovery`, which is a statement about few failing
  steps: no invariant proves it for any number of them, because with four
  sessions and five failing steps it is false (section 6).

## 5. What the passing runs say about the code

- Refund, edit, void and delete guard each other in every order tried.
  Composite transactions have no half states.
- `BillPaymentsInEffect` holds without `listBills`; what can be stale until
  then is the *status* of a bill, never a PAID bill with no payment in effect.
- `generateDueRecurring` survives a kill between any two commits, because the
  occurrence row, not the draft, marks a date as handled, and the cursor moves
  after the occurrences.
- With no failing file operation, a fresh recovery is atomic under kills, given
  that the log is checkpointed by `close()` first.
- With up to four failing file operations it never deletes the last main file; five
  can (section 6). A log that
  was never checkpointed is not protected (section 6). A recovery begun
  from the recovery screen while an older marker stands overwrites that marker:
  the older original stays in quarantine, but no start brings it back.
- Snapshots may overlap without a lock, given a key that no task replaces and a
  clock that only goes forward (section 6). Two
  tasks that both find no key each make one; the file of the first is then not
  readable, which is why `RestoreHasFallback` speaks of a settled key.
- Two `finally` blocks hand a queued resume to each other without losing it,
  also while `initialize` is retried; only a failing `initialize` drops it.
- The differential sync of reminders is right whenever its map is: colliding
  ids that move when a bill is paid never cost another bill its reminder.

- The dashboard's figures follow the contract of
  `tool/reference_financial_audit.py` after any edit, also where an edit moves
  an expense between an asset and a card. `netWorth` is stated over all
  accounts; the query sums those not archived, and an account can be archived
  only at balance zero, so the two agree.
- Every migration resumes: a kill or full storage between any two statements
  changes nothing of the end, and an upgrade and the restore of a backup of the
  same database leave the same entries, bills, occurrences and rules.
- An import may ask all its questions before its first row: with fingerprints
  and ids checked inside the file too, the result is that of row by row.
- Bootstrap starts from nothing each time, which is why a killed one spoils no
  later one; the patches guard their texts, so any order of the two gates leaves
  each text once.

## 6. Where documents and code differ

Two runs end in a counterexample:

- `posted_draft`: posting a draft that a rule made keeps the occurrence's link
  to it, and the firewall wants linked transactions to be drafts: the ledger
  can then not be exported.
- `recovery_corrupt`: `open()` inside a recovery finds that recovery's own
  marker and rolls it back, so recovering a damaged database never succeeds.
  For the same reason the replacement is written into the original file, and no
  original is in quarantine when it is validated.

Met while modelling, each a few steps long, and not kept as runs of their own.
In the ledger, the recovery, the controller and the reminders:

- A rollback deletes the log at the canonical path before it looks in the
  quarantine (`app_database.dart:518`); after a kill between the renames of the
  database and of its log, that log is the original's
  (docs/BUG_HUNT_LOCAL_ONLY_V14_REPORT.md:71). It matters where `close()` could
  not checkpoint.
- A start whose database fails to open after it found a validated marker leaves
  `_validatedRecoveryPendingFinalize` set (`app_database.dart:445`), and the next
  one that succeeds prunes the quarantine whatever came between, keeping
  the newest directory even if a failed recovery left it empty. TLC finds this
  with four sessions and five failing steps, where it takes the last copy of the
  data: two rollbacks have left it in the quarantine alone, and a recovery that
  was validated and then killed had its restored data in the log, which a third
  rollback deleted. `KeepsLedger` is therefore stated for few failing steps.
- A background snapshot between the deletion of the generations and of the
  ledger leaves a readable generation of the wiped data
  (`backup_service.dart:207`, docs/VERSION_CONTINUITY_V1_V14.md:43).
- Expense, refund, edit of the expense's date to after the refund, or of its
  category: `updateSimpleTransaction` compares only the refunded amount, and
  `invalidRefundSemantics` refuses the ledger.
- Pay a bill, refund the payment in full, skip the bill, void the refund:
  `_reconcileBillForPayment` passes over SKIPPED bills, which leaves a SKIPPED
  bill with a payment in effect; `invalidUnpaidBillActivePayment` refuses it.
- A commit between the snapshot before a portable restore and the restore: the
  generation is readable but not exact.
- Generations are named, listed and pruned by the wall clock
  (`backup_service.dart:147,157,182`). Made while the clock was ahead and then
  left without their key, `Keep` of them push every new one out as soon as it is
  published, the last readable one included, against the comment at 150-153
  ("so ENOSPC/interruption cannot destroy the last fallback"). With as many
  readable ones of later names, the generation a restore takes of the present
  ledger is pruned by the task that wrote it; the restore goes on with none taken
  since it began, and the latest generation by name is an old one. `behind` and
  `since` except these; without them TLC finds both in the run `generations`.
- A further page asked for while a search or a refresh is under way passes for
  new once that one is answered first, since `loadMoreTransactions` takes no
  number of its own: rows of the old query are appended to the new ones
  (docs/TEST_MATRIX.md:88 has "stale pages must be discarded"). It needs a
  repository that answers later than at once; `mixed` marks it.
- Likewise a retry superseded by a newer refresh returns as if it had loaded and
  clears the notice, even one that the newer refresh has just set by failing.
- A sync that stops between scheduling and storing its map (a kill, a plugin
  error, a date that passed meanwhile) leaves a reminder the map does not know;
  a sync that overlaps with switching reminders off stores the map again or
  schedules after the cancellation, and such a reminder is cancelled by nothing
  later. `loose` holds these ids.

In the schema and its repairs:

- After version 4 the second draft of a date generated twice keeps no leg, as
  the backfill (`schema.dart:223`) goes over the occurrences that are left.
  `invalidSimpleShape` then refuses every backup of the upgraded ledger, and
  the restore of an old backup with such drafts, although a comment of
  `backup_service.dart` (at 443) leaves the extra draft "as an ordinary draft".
  `RestoreAgrees` says that nothing else is refused.
- A version 11 backup in which a category without a key precedes, by rowid, the
  keyed one of the same system name meets the unique index and cannot be
  restored; the last conjunct of `RestoreAgrees` says when this can be.

In import and export:

- The export gives income, and what a card paid, a destination account, since
  the query takes any leg that adds (`local_finance_repository.dart:989`); the
  import refuses a line with a destination. Exported income can never be
  imported again, although docs/BUG_HUNT_LOCAL_ONLY_V6_REPORT.md:9 calls the
  import one "from Arus export format".
- A wipe deletes the user's accounts and categories and makes those of a new
  ledger (`local_finance_repository.dart:1718-1728`); the import refuses lines
  that name any other (`csv_import_service.dart:153`). Expenses in accounts and
  categories of the user's own, or renamed ones, come back only after he has
  made these again by hand.
- Drafts and voided rows are exported without their status: into an emptied
  ledger they come back POSTED, and in their own ledger they make the whole
  import throw. An account archived and replaced by one of its name does too.
- A row of an export gets the UTC date as its local date
  (`local_finance_repository.dart:79`), against docs/MASTER_BLUEPRINT_FINAL_V2.md:4775.
  Dates are not in the model's rows.
- A line without an id is told apart by the UTC instant of a local time: the
  same file read in another zone is imported again.

In the release scripts:

- The Android store gate cannot pass: it runs all audits, one of which runs
  `create_git_bootstrap_bundle.sh`, which refuses a tree with `key.properties`
  or a keystore, and the gate's own next step requires `android/key.properties`
  (`native_release_gate.sh:27,32`; docs/NATIVE_EXECUTION_HANDOFF.md:55).
- `device-validation.json`, once there, makes every audit refuse
  (`reference_v26_release_orchestration_audit.py:35` asserts UNPROVEN), and so
  does the probe file that a killed `reference_v42` leaves.
- The orchestrator's report writes into `build/arus_evidence` without making
  it; a write that was killed leaves `Info.plist` empty, and every later gate
  fails until the shells are made again; bootstrap deletes `key.properties`.
- Audits, tests, build and capture read the source at different times. Edited
  between audits and build, it is the edited one that is built and that the
  evidence names, which neither audits nor tests saw; edited between build and
  capture, the evidence names a source the artifact was not made of (`moved`). A
  shell file edited under the gate is built as it is then (`rewritten`).
- The store gate takes the first `.ipa` by name of those it finds
  (`native_release_gate.sh:43`), with no regard to when it was made: when
  the product was renamed, or the export failed and the command did not, the
  evidence of the present source is of an older artifact (`leftover`). The
  compile gate and the store gate's Android part look at fixed paths.
- Only the Linux archive has a pinned checksum.

## 7. Not modelled

- PIN, recovery code, biometrics and the lock gate. Their hazards are listed in
  `PROJECT.json`. The order in which two platforms deliver lifecycle events,
  keyguard samples and biometric answers is not in this repository, so a model
  would rest on assumptions about them; it belongs to a review of its own.
- Screens, icons, preferences, profile, insights, screen protection and
  formatting: presentation, or single settings with no relation to others.
  Category maintenance: names are abstracted in `Ledger`.
- Encryption and file formats: functions of one input.
- The static source audits under `tool/` search the source for given texts, and
  the audits of scale measure time: neither keeps state. `ReleaseGates` has
  them in the outcome of one step. `verify_lock_artifact.py` is left out.
- Two overlapping fresh recoveries: the recovery screen keeps a busy flag, the
  settings do not (`settings_screen.dart:845`); the second would double the
  steps of `FreshRecovery`.
- A restore that replaces the tables of `Ledger`: it takes any ledger that
  `LedgerFirewall` accepts, so the initial states would be those the firewall
  accepts, which is more than the repository can make.

What would be worth adding next: the lock gate with the assumptions of each
platform spelled out, and the overlap of two recoveries.
