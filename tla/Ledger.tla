-------------------------------- MODULE Ledger --------------------------------
(***************************************************************************)
(* The local finance repository (lib/data/local_finance_repository.dart):  *)
(* every operation of LocalFinanceRepository that changes the database.    *)
(* No operation suspends between its checks and its commit (SQLite is      *)
(* called synchronously), so an operation is one step; what can happen     *)
(* between steps is any other operation, and the device clock moving in    *)
(* either direction.  An operation that throws changes nothing and is a    *)
(* disabled action.  generateDueRecurring commits several times, and a     *)
(* crash may keep only a prefix of its commits.                            *)
(***************************************************************************)
EXTENDS LedgerFirewall

CONSTANTS
  SeedAccounts,   \* accounts of a newly seeded database
  HealMonths,     \* a cursor further ahead than this is clock drift (2)
  MaxGapMonths,   \* a cursor further behind than this is skipped (24)
  MaxCatchUp      \* drafts one call makes for one rule (24)

ASSUME SeedAssumption == SeedAccounts \subseteq Accounts
ASSUME RecurringBoundsAssumption ==
  HealMonths \in Nat /\ MaxGapMonths \in Nat /\ MaxCatchUp \in Nat \ {0}

VARIABLES
  today,            \* the local calendar date of the device clock
  openAccounts,     \* accounts that are not archived
  archivedAccounts,
  openCategories,   \* categories that are not archived
  tx,               \* transactions with their groups, legs and splits
  bill,
  rule,             \* recurring_rules
  occ,              \* recurring_occurrences: <<rule, date>> -> transaction_id
  budget

catalog == <<openAccounts, archivedAccounts, openCategories>>
planning == <<bill, rule, occ, budget>>
vars == <<today, catalog, tx, planning>>

Empty == [x \in {} |-> None]
Free == Slots \ DOMAIN tx

(* The state after initialize() on a new device, and after a wipe.         *)
Init ==
  /\ today \in Dates
  /\ openAccounts = SeedAccounts
  /\ archivedAccounts = {}
  /\ openCategories = Categories
  /\ tx = Empty
  /\ bill = Empty
  /\ rule = Empty
  /\ occ = Empty
  /\ budget = Empty

(***************************************************************************)
(* Catalog: accounts, categories, budgets.                                 *)
(***************************************************************************)
CreateAccount(a) ==
  /\ a \notin openAccounts \cup archivedAccounts
  /\ openAccounts' = openAccounts \cup {a}
  /\ \/ tx' = tx
     \/ \E i \in Free, n \in Amounts :
          tx' = Insert(tx, [j \in {i} |->
                  Transaction("OPENING_BALANCE", "POSTED", n, today,
                              OneLeg(a, n), NoSplit)])
  /\ UNCHANGED <<today, archivedAccounts, openCategories, planning>>

(* Rows that keep account a in use: active rules, drafts, and POSTED rows  *)
(* dated after today (the clock was set back).                             *)
AccountInUse(a) ==
  \/ \E r \in DOMAIN rule : rule[r].active /\ rule[r].account = a
  \/ \E i \in DOMAIN tx :
       /\ a \in AccountsOf(tx[i])
       /\ \/ tx[i].status = "DRAFT"
          \/ tx[i].status = "POSTED" /\ tx[i].date > today

(* Mutant: the archived account is still listed as open.                   *)
ArchiveAccountKeepsOpen(a) ==
  /\ a \in openAccounts
  /\ ~AccountInUse(a)
  /\ Balance(tx, a, today) = 0
  /\ archivedAccounts' = archivedAccounts \cup {a}
  /\ UNCHANGED <<today, openAccounts, openCategories, tx, planning>>

ArchiveAccount(a) ==
  /\ a \in openAccounts
  /\ ~AccountInUse(a)
  /\ Balance(tx, a, today) = 0
  /\ openAccounts' = openAccounts \ {a}
  /\ archivedAccounts' = archivedAccounts \cup {a}
  /\ UNCHANGED <<today, openCategories, tx, planning>>

(* Mutant: the drafts that use a category are not counted.                 *)
CategoryInUseIgnoresDrafts(c) ==
  \/ \E r \in DOMAIN rule : rule[r].active /\ rule[r].category = c
  \/ \E b \in DOMAIN budget : budget[b].category = c /\ ~budget[b].archived

CategoryInUse(c) ==
  \/ \E r \in DOMAIN rule : rule[r].active /\ rule[r].category = c
  \/ \E b \in DOMAIN budget : budget[b].category = c /\ ~budget[b].archived
  \/ \E i \in DOMAIN tx :
       /\ c \in CategoriesOf(tx[i])
       /\ \/ tx[i].status = "DRAFT"
          \/ tx[i].status = "POSTED" /\ tx[i].date > today

ArchiveCategory(c) ==
  /\ c \in openCategories
  /\ ~CategoryInUse(c)
  /\ openCategories' = openCategories \ {c}
  /\ UNCHANGED <<today, openAccounts, archivedAccounts, tx, planning>>

CreateBudget(b) ==
  /\ b \notin DOMAIN budget
  /\ \E c \in (ExpenseCategories \cap openCategories) \cup {None} :
       budget' = Insert(budget, [x \in {b} |-> [category |-> c, archived |-> FALSE]])
  /\ UNCHANGED <<today, catalog, tx, bill, rule, occ>>

ArchiveBudget(b) ==
  /\ b \in DOMAIN budget
  /\ ~budget[b].archived
  /\ budget' = [budget EXCEPT ![b].archived = TRUE]
  /\ UNCHANGED <<today, catalog, tx, bill, rule, occ>>

(***************************************************************************)
(* Transactions.                                                           *)
(***************************************************************************)
Postable(date) == date =< today
SpendableAccounts == (Assets \cup CreditCards) \cap openAccounts
OpenAssets == Assets \cap openAccounts

CreateExpense(i, status, n, date, a, c) ==
  /\ status = "POSTED" => Postable(date)
  /\ a \in SpendableAccounts
  /\ c \in ExpenseCategories \cap openCategories
  /\ tx' = Insert(tx, [j \in {i} |-> ExpenseRow(status, n, date, a, c)])
  /\ UNCHANGED <<today, catalog, planning>>

CreateIncome(i, status, n, date, a, c) ==
  /\ status = "POSTED" => Postable(date)
  /\ a \in OpenAssets
  /\ c \in IncomeCategories \cap openCategories
  /\ tx' = Insert(tx, [j \in {i} |-> IncomeRow(status, n, date, a, c)])
  /\ UNCHANGED <<today, catalog, planning>>

TransferRow(n, date, a, b) ==
  Transaction("TRANSFER", "POSTED", n, date, TwoLegs(a, -n, b, n), NoSplit)

(* The rows of a composite transaction, in a group named by its primary.   *)
Grouped(rows, primary) ==
  [j \in DOMAIN rows |-> [rows[j] EXCEPT !.group = primary]]

CreateTransfer(i, n, date, a, b) ==
  /\ Postable(date)
  /\ a \in OpenAssets
  /\ b \in OpenAssets \ {a}
  /\ tx' = Insert(tx, [j \in {i} |-> TransferRow(n, date, a, b)])
  /\ UNCHANGED <<today, catalog, planning>>

(* The fee's category is found by its system key, archived or not.         *)
CreateTransferWithFee(i, k, n, fee, date, a, b) ==
  /\ Postable(date)
  /\ i # k
  /\ a \in OpenAssets
  /\ b \in OpenAssets \ {a}
  /\ tx' = Insert(tx, Grouped([j \in {i, k} |->
             IF j = i THEN TransferRow(n, date, a, b)
             ELSE ExpenseRow("POSTED", fee, date, a, TransferFee)], i))
  /\ UNCHANGED <<today, catalog, planning>>

CreateCreditCardPayment(i, n, date, a, card) ==
  /\ Postable(date)
  /\ a \in OpenAssets
  /\ card \in CreditCards \cap openAccounts
  /\ tx' = Insert(tx, [j \in {i} |->
             Transaction("CREDIT_CARD_PAYMENT", "POSTED", n, date,
                         TwoLegs(a, -n, card, -n), NoSplit)])
  /\ UNCHANGED <<today, catalog, planning>>

CreateLoanDisbursement(i, n, date, a, loan) ==
  /\ Postable(date)
  /\ a \in OpenAssets
  /\ loan \in Loans \cap openAccounts
  /\ tx' = Insert(tx, [j \in {i} |->
             Transaction("LOAN_DISBURSEMENT", "POSTED", n, date,
                         TwoLegs(a, n, loan, n), NoSplit)])
  /\ UNCHANGED <<today, catalog, planning>>

(* children gives interest and fee, when not zero, an id and an amount.    *)
CreateLoanPayment(i, children, principal, date, a, loan, c) ==
  /\ Postable(date)
  /\ i \notin DOMAIN children
  /\ a \in OpenAssets
  /\ loan \in Loans \cap openAccounts
  /\ c \in ExpenseCategories
  /\ DOMAIN children # {} => c \in openCategories
  /\ principal =< Balance(tx, loan, today)
  /\ tx' = Insert(tx, Grouped([j \in {i} \cup DOMAIN children |->
             IF j = i
             THEN Transaction("LOAN_PAYMENT", "POSTED", principal, date,
                              TwoLegs(a, -principal, loan, -principal), NoSplit)
             ELSE ExpenseRow("POSTED", children[j], date, a, c)], i))
  /\ UNCHANGED <<today, catalog, planning>>

(* reconcileAccount: delta is the observed balance less the current one.   *)
ReconcileAccount(i, delta, date, a) ==
  /\ Postable(date)
  /\ delta # 0
  /\ a \in openAccounts
  /\ Balance(tx, a, today) + delta \in -MaxMoney .. MaxMoney
  /\ tx' = Insert(tx, [j \in {i} |->
             Transaction("ADJUSTMENT", "POSTED", IF delta < 0 THEN -delta ELSE delta,
                         date, OneLeg(a, delta), NoSplit)])
  /\ UNCHANGED <<today, catalog, planning>>

(* createRefund: the refund takes the original's category, and a bill the  *)
(* original paid is reconciled as of the refund's date.                    *)
RefundRow(o, n, date, a) ==
  [Transaction("REFUND", "POSTED", n, date, OneLeg(a, GetBack(a, n)),
               [c \in Categories |-> IF tx[o].splits[c] # 0 THEN n ELSE 0])
   EXCEPT !.original = o]

RefundFits(o, n) == Refunded(tx, o) + n =< tx[o].amount

CreateRefund(i, o, n, date, a) ==
  /\ Posted(tx, o)
  /\ tx[o].type = "EXPENSE"
  /\ RefundFits(o, n)
  /\ date >= tx[o].date
  /\ Postable(date)
  /\ a \in SpendableAccounts
  /\ tx' = Insert(tx, [j \in {i} |-> RefundRow(o, n, date, a)])
  /\ bill' = ReconcileBills(tx', bill, o, date)
  /\ UNCHANGED <<today, catalog, rule, occ, budget>>

(* updateSimpleTransaction: a simple expense or income of any status gets  *)
(* a new amount, date, leg and split.  Its bill is not reconciled.         *)
(* Mutant: an edited expense takes an asset's sign on any account.         *)
EditedRowAssetSign(i, n, date, a, c) ==
  Transaction(tx[i].type, tx[i].status, n, date,
              OneLeg(a, IF tx[i].type = "EXPENSE" THEN -n ELSE n), OneSplit(c, n))

EditedRow(i, n, date, a, c) ==
  IF tx[i].type = "EXPENSE" THEN ExpenseRow(tx[i].status, n, date, a, c)
  ELSE IncomeRow(tx[i].status, n, date, a, c)

(* Mutant: the new amount is compared with the largest refund.             *)
CoversEachRefund(i, n) == \A r \in ActiveRefunds(tx, i) : tx[r].amount =< n

CoversRefunds(i, n) == Refunded(tx, i) =< n

UpdateSimpleTransaction(i, n, date, a, c) ==
  /\ i \in DOMAIN tx
  /\ tx[i].group = None
  /\ tx[i].type \in {"EXPENSE", "INCOME"}
  /\ tx[i].status = "POSTED" => Postable(date)
  /\ CoversRefunds(i, n)
  /\ a \in IF tx[i].type = "EXPENSE" THEN SpendableAccounts ELSE OpenAssets
  /\ c \in openCategories
  /\ c \in IF tx[i].type = "EXPENSE" THEN ExpenseCategories ELSE IncomeCategories
  /\ tx' = [tx EXCEPT ![i] = EditedRow(i, n, date, a, c)]
  /\ UNCHANGED <<today, catalog, planning>>

PostDraftTransaction(i) ==
  /\ i \in DOMAIN tx
  /\ tx[i].status = "DRAFT"
  /\ Postable(tx[i].date)
  /\ tx[i].type \in {"EXPENSE", "INCOME"}
  /\ Cardinality(AccountsOf(tx[i])) = 1
  /\ CategoriesOf(tx[i]) # {}
  /\ AccountsOf(tx[i]) \subseteq openAccounts
  /\ CategoriesOf(tx[i]) \subseteq openCategories
  /\ tx' = [tx EXCEPT ![i].status = "POSTED"]
  /\ UNCHANGED <<today, catalog, planning>>

(* Mutant: only the primary of a group is checked.                         *)
PrimaryHasActiveRefund(ids) ==
  \E j \in ids : tx[j].group \in {None, j} /\ ActiveRefunds(tx, j) # {}

(* A transaction of ids has a refund in effect.                            *)
HasActiveRefund(ids) == \E j \in ids : ActiveRefunds(tx, j) # {}

(* What deleting ids removes: voided refunds go with their original.       *)
RemovedWith(ids) == ids \cup UNION {RefundsOf(tx, j) : j \in ids}

(* Mutant: the occurrences go with their drafts.                           *)
DropOccurrences(gone) ==
  [k \in {l \in DOMAIN occ : occ[l] \notin gone} |-> occ[k]]

(* recurring_occurrences survive the draft they made.                      *)
DetachOccurrences(gone) ==
  [k \in DOMAIN occ |-> IF occ[k] \in gone THEN None ELSE occ[k]]

DeleteTransaction(i) ==
  /\ i \in DOMAIN tx
  /\ ~HasActiveRefund(Members(tx, i))
  /\ tx' = Remove(tx, RemovedWith(Members(tx, i)))
  /\ occ' = DetachOccurrences(Members(tx, i))
  /\ bill' = ReconcileBills(tx', ReopenBills(bill, Members(tx, i), today),
                            tx[i].original, today)
  /\ UNCHANGED <<today, catalog, rule, budget>>

(* Mutant: only the selected member of a group is voided.                  *)
VoidOneTransaction(i) ==
  /\ Posted(tx, i)
  /\ ~HasActiveRefund(Members(tx, i))
  /\ tx' = [tx EXCEPT ![i].status = "VOIDED"]
  /\ bill' = ReconcileBills(tx', ReopenBills(bill, Members(tx, i), today),
                            tx[i].original, today)
  /\ UNCHANGED <<today, catalog, rule, occ, budget>>

VoidTransaction(i) ==
  /\ Posted(tx, i)
  /\ ~HasActiveRefund(Members(tx, i))
  /\ tx' = [j \in DOMAIN tx |-> IF j \in Members(tx, i)
                                THEN [tx[j] EXCEPT !.status = "VOIDED"]
                                ELSE tx[j]]
  /\ bill' = ReconcileBills(tx', ReopenBills(bill, Members(tx, i), today),
                            tx[i].original, today)
  /\ UNCHANGED <<today, catalog, rule, occ, budget>>

(***************************************************************************)
(* Bills.                                                                  *)
(***************************************************************************)
CreateBill(b, due) ==
  /\ b \notin DOMAIN bill
  /\ bill' = Insert(bill, [x \in {b} |->
               [due |-> due, status |-> UnpaidStatus(due, today), payment |-> None]])
  /\ UNCHANGED <<today, catalog, tx, rule, occ, budget>>

(* No payment of bill b is in effect.                                      *)
Payable(b) == bill[b].status # "PAID" /\ FullyRefunded(tx, bill[b].payment)

(* markBillStatus(SKIPPED): the link to a refunded payment stays.          *)
SkipBill(b) ==
  /\ b \in DOMAIN bill
  /\ Payable(b)
  /\ bill' = [bill EXCEPT ![b].status = "SKIPPED"]
  /\ UNCHANGED <<today, catalog, tx, rule, occ, budget>>

PayBill(b, i, n, date, a, c) ==
  /\ b \in DOMAIN bill
  /\ Payable(b)
  /\ Postable(date)
  /\ a \in SpendableAccounts
  /\ c \in ExpenseCategories \cap openCategories
  /\ tx' = Insert(tx, [j \in {i} |-> ExpenseRow("POSTED", n, date, a, c)])
  /\ bill' = [bill EXCEPT ![b].status = "PAID", ![b].payment = i]
  /\ UNCHANGED <<today, catalog, rule, occ, budget>>

(* Mutant: listBills trusts the stored status of a bill with a payment.    *)
StoredStatus(row) ==
  IF row.status \in UnpaidStatuses THEN UnpaidStatus(row.due, today) ELSE row.status

(* listBills writes: it reconciles every bill with a payment that is not   *)
(* SKIPPED, then derives the unpaid statuses from today's date.            *)
RefreshedStatus(row) ==
  LET paid == IF row.payment = None THEN row.status
              ELSE ReconciledStatus(tx, row, today)
  IN IF paid \in UnpaidStatuses THEN UnpaidStatus(row.due, today) ELSE paid

ListBills ==
  /\ bill' = [x \in DOMAIN bill |->
                [bill[x] EXCEPT !.status = RefreshedStatus(bill[x])]]
  /\ UNCHANGED <<today, catalog, tx, rule, occ, budget>>

(***************************************************************************)
(* Recurring rules.                                                        *)
(***************************************************************************)
RuleUsable(row) ==
  row.account \in SpendableAccounts /\ row.category \in openCategories

CreateRecurringExpenseDraft(r, a, c, n, day) ==
  LET row == [account |-> a, category |-> c, amount |-> n, day |-> day,
              nextRun |-> NextOccurrence(today, day), active |-> TRUE]
  IN /\ r \notin DOMAIN rule
     /\ RuleUsable(row)
     /\ rule' = Insert(rule, [x \in {r} |-> row])
     /\ UNCHANGED <<today, catalog, tx, bill, occ, budget>>

SetRecurringActive(r, active) ==
  /\ r \in DOMAIN rule
  /\ active => RuleUsable(rule[r])
  /\ rule' = [rule EXCEPT ![r].active = active]
  /\ UNCHANGED <<today, catalog, tx, bill, occ, budget>>

(* The cursor generateDueRecurring works from: one pushed far ahead by a   *)
(* bad clock is healed to this month.                                      *)
HealedCursor(row) ==
  IF /\ row.active
     /\ row.nextRun > today
     /\ MonthOf(row.nextRun) - MonthOf(today) > HealMonths
  THEN OccurrenceIn(MonthOf(today), row.day)
  ELSE row.nextRun

(* Mutant: the gap is never skipped.                                       *)
FirstScheduledNoSkip(row) == HealedCursor(row)

(* Where the loop starts: a cursor far behind skips to this month.         *)
FirstScheduled(row) ==
  IF MonthOf(today) - MonthOf(HealedCursor(row)) > MaxGapMonths
  THEN OccurrenceIn(MonthOf(today), row.day)
  ELSE HealedCursor(row)

(* The dates one call handles for a rule.  A cursor read from the ledger   *)
(* is compared with now at midnight, a date computed in the call at nine   *)
(* o'clock: early says it is not nine yet.                                 *)
ScheduledDates(row, early) ==
  LET first == FirstScheduled(row)
      dates == {d \in {first} \cup {OccurrenceIn(m, row.day) : m \in Months} :
                  /\ d >= first
                  /\ d < today \/ (d = today /\ (d = HealedCursor(row) \/ ~early))}
  IN {d \in dates : Cardinality({e \in dates : e < d}) < MaxCatchUp}

(* Mutant: the cursor jumps past today even when the loop was cut short.   *)
CursorPastToday(row, early) == NextOccurrence(today + 1, row.day)

CursorAfter(row, early) ==
  LET dates == ScheduledDates(row, early)
  IN IF dates = {} THEN FirstScheduled(row)
     ELSE NextOccurrence(Max(dates) + 1, row.day)

DueRules == {r \in DOMAIN rule : rule[r].active /\ HealedCursor(rule[r]) =< today}

RunsBefore(r, s) == HealedCursor(rule[r]) < HealedCursor(rule[s])

Keys(rs, early) == UNION {{r} \X ScheduledDates(rule[r], early) : r \in rs}

(* The commits of one call, in order: every occurrence of a rule, the      *)
(* rule's cursor, the next rule.  done has the occurrences and moved the   *)
(* cursors that committed before a crash, or before a rule with an         *)
(* archived dependency threw.                                              *)
CommittedPrefix(done, moved, early) ==
  LET started == {k[1] : k \in done} \cup moved IN
  /\ Keys(moved, early) \subseteq done
  /\ Cardinality(started \ moved) =< 1
  /\ \A r \in DueRules, s \in started : RunsBefore(r, s) => r \in moved
  /\ \A s \in started : RuleUsable(rule[s])
  /\ \A k \in done, d \in Dates :
       d < k[2] /\ d \in ScheduledDates(rule[k[1]], early) => <<k[1], d>> \in done

DraftFor(k) ==
  LET row == rule[k[1]]
  IN ExpenseRow("DRAFT", row.amount, k[2], row.account, row.category)

Unmade(done) == done \ DOMAIN occ

GenerateDueRecurring(done, moved, early, slot) ==
  /\ CommittedPrefix(done, moved, early)
  /\ DOMAIN slot = Unmade(done)
  /\ tx' = Insert(tx, [i \in {slot[k] : k \in DOMAIN slot} |->
             DraftFor(CHOOSE k \in DOMAIN slot : slot[k] = i)])
  /\ occ' = Insert(occ, slot)
  /\ rule' = [r \in DOMAIN rule |->
                [rule[r] EXCEPT !.nextRun =
                   IF r \in moved THEN CursorAfter(rule[r], early)
                   ELSE HealedCursor(rule[r])]]
  /\ UNCHANGED <<today, catalog, bill, budget>>

(***************************************************************************)
(* The device clock, and wipeLocalFinanceData with its re-seed.            *)
(***************************************************************************)
SetClock(d) ==
  /\ today' = d
  /\ UNCHANGED <<catalog, tx, planning>>

WipeLocalFinanceData ==
  /\ openAccounts' = SeedAccounts
  /\ archivedAccounts' = {}
  /\ openCategories' = Categories
  /\ tx' = Empty
  /\ bill' = Empty
  /\ rule' = Empty
  /\ occ' = Empty
  /\ budget' = Empty
  /\ UNCHANGED today

-----------------------------------------------------------------------------
Record(i) ==
  \E n \in Amounts, date \in Dates :
    \/ \E s \in {"POSTED", "DRAFT"}, a \in Accounts, c \in Categories :
         CreateExpense(i, s, n, date, a, c) \/ CreateIncome(i, s, n, date, a, c)
    \/ \E a, b \in Accounts :
         \/ CreateTransfer(i, n, date, a, b)
         \/ CreateCreditCardPayment(i, n, date, a, b)
         \/ CreateLoanDisbursement(i, n, date, a, b)
    \/ \E a \in Accounts, o \in DOMAIN tx : CreateRefund(i, o, n, date, a)
    \/ \E a \in Accounts, c \in ExpenseCategories, b \in Bills :
         PayBill(b, i, n, date, a, c)

RecordGroup(i) ==
  \E n \in Amounts, date \in Dates, a, b \in Accounts :
    \/ \E k \in Free, fee \in Amounts : CreateTransferWithFee(i, k, n, fee, date, a, b)
    \/ \E c \in ExpenseCategories, ids \in SUBSET (Free \ {i}) :
         /\ Cardinality(ids) =< 2
         /\ \E children \in [ids -> Amounts] :
              CreateLoanPayment(i, children, n, date, a, b, c)

Adjust(i) ==
  \E delta \in -MaxMoney .. MaxMoney, date \in Dates, a \in Accounts :
    ReconcileAccount(i, delta, date, a)

Change(i) ==
  \/ \E n \in Amounts, date \in Dates, a \in Accounts, c \in Categories :
       UpdateSimpleTransaction(i, n, date, a, c)
  \/ PostDraftTransaction(i)
  \/ DeleteTransaction(i)
  \/ VoidTransaction(i)

ChangeCatalog ==
  \/ \E a \in Accounts : CreateAccount(a) \/ ArchiveAccount(a)
  \/ \E c \in Categories : ArchiveCategory(c)
  \/ \E b \in Budgets : CreateBudget(b) \/ ArchiveBudget(b)

ChangeBill == \E b \in Bills : SkipBill(b) \/ \E due \in Dates : CreateBill(b, due)

ChangeRule ==
  \E r \in Rules :
    \/ \E active \in BOOLEAN : SetRecurringActive(r, active)
    \/ \E a \in Accounts, c \in ExpenseCategories, n \in Amounts, day \in RuleDays :
         CreateRecurringExpenseDraft(r, a, c, n, day)

(* Fresh ids for the drafts of the keys ks.                                *)
FreshSlots(ks) ==
  {slot \in [ks -> Free] : \A k, l \in ks : slot[k] = slot[l] => k = l}

RunRecurring ==
  \E early \in BOOLEAN, moved \in SUBSET DueRules :
    \E done \in SUBSET Keys(DueRules, early) :
      \E slot \in FreshSlots(Unmade(done)) :
        GenerateDueRecurring(done, moved, early, slot)

Next ==
  \/ \E i \in Free : Record(i) \/ RecordGroup(i) \/ Adjust(i)
  \/ \E i \in DOMAIN tx : Change(i)
  \/ ChangeCatalog
  \/ ChangeBill
  \/ ListBills
  \/ ChangeRule
  \/ RunRecurring
  \/ \E d \in Dates : SetClock(d)
  \/ WipeLocalFinanceData

Spec == Init /\ [][Next]_vars

-----------------------------------------------------------------------------
(***************************************************************************)
(* Properties.                                                             *)
(***************************************************************************)

CatalogTypeOK ==
  /\ openAccounts \subseteq Accounts
  /\ archivedAccounts \subseteq Accounts \ openAccounts
  /\ openCategories \subseteq Categories

TxTypeOK == DOMAIN tx \subseteq Slots /\ tx \in [DOMAIN tx -> TxRow]

BillTypeOK == DOMAIN bill \subseteq Bills /\ bill \in [DOMAIN bill -> BillRow]

RuleTypeOK ==
  /\ DOMAIN rule \subseteq Rules /\ rule \in [DOMAIN rule -> RuleRow]
  /\ DOMAIN occ \subseteq (DOMAIN rule) \X Dates
  /\ occ \in [DOMAIN occ -> Slots \cup {None}]

BudgetTypeOK ==
  DOMAIN budget \subseteq Budgets /\ budget \in [DOMAIN budget -> BudgetRow]

(* Every table holds well-formed rows; an account is open or archived.     *)
TypeOK ==
  /\ today \in Dates
  /\ CatalogTypeOK
  /\ TxTypeOK
  /\ BillTypeOK
  /\ RuleTypeOK
  /\ BudgetTypeOK

(* Whatever is edited, voided or deleted around it, a refund in effect     *)
(* always gives back part of an expense that is in effect.                 *)
RefundsHaveOriginal == OriginalLinksValid(tx)

(* The refunds in effect of an expense never exceed it, across refunds,    *)
(* voided refunds and edits of the expense's amount.                       *)
RefundsWithinOriginal == RefundTotalsValid(tx)

(* What a transaction does to net worth, spending and income: the          *)
(* reference model of the financial contract.                              *)
Contract(row) ==
  LET n == row.amount
      Does(worth, spent, earned) == [worth |-> worth, spent |-> spent, earned |-> earned]
  IN CASE row.type = "EXPENSE" -> Does(-n, n, 0)
       [] row.type = "INCOME" -> Does(n, 0, n)
       [] row.type = "REFUND" -> Does(n, -n, 0)
       [] row.type \in {"ADJUSTMENT", "OPENING_BALANCE"} ->
            Does(SumFunction([a \in Accounts |-> GetBack(a, row.legs[a])]), 0, 0)
       [] OTHER -> Does(0, 0, 0)

(* What the dashboard computes from legs and splits is what the contract   *)
(* (tool/reference_financial_audit) says the transactions in effect do: a  *)
(* card is charged once and paying it changes nothing, of a loan payment   *)
(* only interest and fee are spent, a refund takes spending back, whatever *)
(* was edited, moved between an asset and a card, voided or deleted, and   *)
(* wherever the clock stands.                                              *)
DashboardFollowsContract ==
  LET contract == [i \in InEffect(tx, today) |-> Contract(tx[i])] IN
  /\ NetWorth(tx, Accounts, today) = SumFunction([i \in DOMAIN contract |-> contract[i].worth])
  /\ Spending(tx, today) = SumFunction([i \in DOMAIN contract |-> contract[i].spent])
  /\ Income(tx, today) = SumFunction([i \in DOMAIN contract |-> contract[i].earned])

(* Every transaction has the legs and splits its type promises, after any  *)
(* edit (invalidSimpleShape and the queries after it in _validateLedger).  *)
RowsMatchType == \A i \in DOMAIN tx : RowValid(tx[i])

(* The members of a composite transaction live, are voided and are deleted *)
(* together.                                                               *)
GroupsAllOrNothing == GroupsValid(tx)

(* A bill's payment exists, pays no other bill and, while the bill is      *)
(* PAID, is an expense in effect.                                          *)
BillPaymentsInEffect ==
  /\ PaymentLinksValid(tx, bill)
  /\ \A b \in DOMAIN bill : bill[b].status = "PAID" =>
       Posted(tx, bill[b].payment) /\ tx[bill[b].payment].type = "EXPENSE"

(* No active rule, draft or live budget names an archived account or       *)
(* category, so that drafts can be posted and generateDueRecurring never   *)
(* throws.                                                                 *)
DependenciesOpen ==
  /\ RulesValid(rule, openAccounts, openCategories)
  /\ \A i \in DOMAIN tx : tx[i].status = "DRAFT" =>
       /\ AccountsOf(tx[i]) \subseteq openAccounts
       /\ CategoriesOf(tx[i]) \subseteq openCategories
  /\ \A b \in DOMAIN budget :
       ~budget[b].archived => budget[b].category \in openCategories \cup {None}

(* listBills leaves every bill that is not SKIPPED in agreement with its   *)
(* payment, its refunds and the date, whatever happened since.             *)
BillsSettled ==
  LET live == [b \in {x \in DOMAIN bill : bill[x].status # "SKIPPED"} |-> bill[b]]
  IN /\ PaidBillsValid(tx, live)
     /\ UnpaidBillsValid(tx, live)
     /\ \A b \in DOMAIN live : live[b].status # "PAID" =>
          live[b].status = UnpaidStatus(live[b].due, today)

ListBillsSettles == [][ListBills => BillsSettled']_vars

(* A date of a rule that was handled once stays handled: its occurrence    *)
(* row outlives the draft, a crash and any move of the clock.              *)
OccurrencesRemembered ==
  [][rule' # Empty => \A k \in DOMAIN occ :
        k \in DOMAIN occ' /\ occ'[k] \in {occ[k], None}]_vars

(* No crash, safety bound or clock moves a rule's cursor past a date that  *)
(* has no occurrence row, but for months skipped on purpose.               *)
NoDateMissed ==
  [][\A r \in DOMAIN rule \cap DOMAIN rule' : \A m \in Months :
       LET d == OccurrenceIn(m, rule[r].day) IN
       /\ rule'[r].nextRun # rule[r].nextRun
       /\ HealedCursor(rule[r]) =< d /\ d < rule'[r].nextRun
       => \/ <<r, d>> \in DOMAIN occ'
          \/ m < MonthOf(today) /\ FirstScheduled(rule[r]) # HealedCursor(rule[r])]_vars

(* A clock jump makes no drafts for months long past, nor for the future.  *)
NoSyntheticFlood ==
  [][\A k \in DOMAIN occ' \ DOMAIN occ :
       k[2] =< today /\ MonthOf(today) - MonthOf(k[2]) =< MaxGapMonths]_vars

(* A statement of the validator that legal operations break.              *)

(* A linked occurrence is the exact draft its rule implies.                *)
OccurrencesMatchRule == OccurrencesValid(tx, rule, occ)
=============================================================================
