------------------------------ MODULE LedgerData ------------------------------
(***************************************************************************)
(* The tables of the finance database (lib/core/db/schema.dart) and the    *)
(* queries the repository and the backup validator ask of them             *)
(* (lib/data/local_finance_repository.dart).  Every operator is a pure     *)
(* function of the tables it is given, so that a handler can ask its       *)
(* question of the rows it is about to commit.                             *)
(*                                                                         *)
(* A table is a function whose domain is the set of ids it holds.  Names,  *)
(* notes, currencies (always IDR) and timestamps are left out.             *)
(***************************************************************************)
EXTENDS Integers, FiniteSets, FiniteSetsExt, Functions

CONSTANTS
  Accounts,          \* account ids
  Assets,            \* ... of class ASSET
  CreditCards,       \* ... of class LIABILITY and type CREDIT_CARD
  Loans,             \* ... of class LIABILITY and type LOAN
  ExpenseCategories, \* category ids of type EXPENSE
  IncomeCategories,  \* category ids of type INCOME
  TransferFee,       \* the category with system_key expense.transfer_fee
  Slots,             \* transaction ids
  Bills, Rules, Budgets, \* ids of the planning tables
  MaxMoney,          \* kMaxMoneyMinor
  LastDate,          \* the model's horizon of local calendar dates
  Month,             \* the calendar month of every date up to the horizon
  RuleDays,          \* the days of the month a rule may name (1 to 31)
  None               \* SQL NULL

ASSUME AccountsAssumption ==
  /\ Assets \subseteq Accounts
  /\ CreditCards \subseteq Accounts
  /\ Loans \subseteq Accounts
  /\ Assets \cap CreditCards = {}
  /\ Assets \cap Loans = {}
  /\ CreditCards \cap Loans = {}

ASSUME CategoriesAssumption ==
  /\ ExpenseCategories \cap IncomeCategories = {}
  /\ TransferFee \in ExpenseCategories

ASSUME SlotsAssumption == IsFiniteSet(Slots)

ASSUME CatalogAssumption ==
  IsFiniteSet(Accounts) /\ IsFiniteSet(ExpenseCategories) /\ IsFiniteSet(IncomeCategories)

ASSUME BoundsAssumption == MaxMoney \in Nat \ {0} /\ LastDate \in Nat \ {0}

ASSUME CalendarAssumption ==
  Month \in [1 .. LastDate -> Nat] /\ RuleDays \subseteq Nat \ {0}

(* Dates follow each other through the months and leave none out.          *)
ASSUME MonthsAssumption ==
  /\ \A d, e \in 1 .. LastDate : d =< e => Month[d] =< Month[e]
  /\ \A d \in 1 .. LastDate - 1 : Month[d + 1] =< Month[d] + 1

ASSUME NoneAssumption ==
  None \notin Slots \cup Accounts \cup ExpenseCategories \cup IncomeCategories

Categories == ExpenseCategories \cup IncomeCategories
Dates == 1 .. LastDate
Amounts == 1 .. MaxMoney

Types == {"EXPENSE", "INCOME", "TRANSFER", "REFUND", "ADJUSTMENT",
          "OPENING_BALANCE", "CREDIT_CARD_PAYMENT", "LOAN_DISBURSEMENT",
          "LOAN_PAYMENT"}
Statuses == {"DRAFT", "POSTED", "VOIDED"}
UnpaidStatuses == {"UPCOMING", "DUE", "OVERDUE"}

(* A transaction with its legs and splits.  A group is named by its        *)
(* primary transaction; an account without a leg has delta 0 and a         *)
(* category without a split has amount 0.                                  *)
TxRow ==
  [type : Types, status : Statuses, amount : Amounts, date : Dates,
   group : Slots \cup {None}, original : Slots \cup {None},
   legs : [Accounts -> -MaxMoney .. MaxMoney],
   splits : [Categories -> 0 .. MaxMoney]]

BillRow == [due : Dates, status : UnpaidStatuses \cup {"PAID", "SKIPPED"},
            payment : Slots \cup {None}]

(* next_run may point beyond the horizon, at LastDate + 1.                 *)
RuleRow == [account : Accounts, category : ExpenseCategories,
            amount : Amounts, day : RuleDays, nextRun : 1 .. LastDate + 1,
            active : BOOLEAN]

BudgetRow == [category : ExpenseCategories \cup {None}, archived : BOOLEAN]

-----------------------------------------------------------------------------
(* Rows the handlers insert.                                               *)

OneLeg(a, delta) == [x \in Accounts |-> IF x = a THEN delta ELSE 0]

TwoLegs(a, deltaA, b, deltaB) ==
  [x \in Accounts |-> IF x = a THEN deltaA ELSE IF x = b THEN deltaB ELSE 0]

NoSplit == [c \in Categories |-> 0]
OneSplit(c, amount) == [x \in Categories |-> IF x = c THEN amount ELSE 0]

(* A transaction row: _insertTransaction with its legs and splits.         *)
Transaction(type, status, amount, date, legs, splits) ==
  [type |-> type, status |-> status, amount |-> amount, date |-> date,
   group |-> None, original |-> None, legs |-> legs, splits |-> splits]

(* The signed effect on account a of spending, and of getting it back.     *)
Spend(a, amount) == IF a \in Assets THEN -amount ELSE amount
GetBack(a, amount) == IF a \in Assets THEN amount ELSE -amount

ExpenseRow(status, amount, date, a, c) ==
  Transaction("EXPENSE", status, amount, date, OneLeg(a, Spend(a, amount)),
              OneSplit(c, amount))

IncomeRow(status, amount, date, a, c) ==
  Transaction("INCOME", status, amount, date, OneLeg(a, amount),
              OneSplit(c, amount))

(* Insert rows new (a function from fresh ids) into table t.               *)
Insert(t, new) ==
  [i \in DOMAIN t \cup DOMAIN new |-> IF i \in DOMAIN new THEN new[i] ELSE t[i]]

Remove(t, ids) == [i \in DOMAIN t \ ids |-> t[i]]

-----------------------------------------------------------------------------
(* Queries on a table t of transactions.                                   *)

Posted(t, i) == i \in DOMAIN t /\ t[i].status = "POSTED"

RefundsOf(t, i) ==
  {r \in DOMAIN t : t[r].type = "REFUND" /\ t[r].original = i}

ActiveRefunds(t, i) == {r \in RefundsOf(t, i) : t[r].status = "POSTED"}

Refunded(t, i) == SumFunction([r \in ActiveRefunds(t, i) |-> t[r].amount])

(* The transactions one user-visible transaction consists of.              *)
Members(t, i) ==
  IF t[i].group = None THEN {i} ELSE {j \in DOMAIN t : t[j].group = t[i].group}

(* The transactions the figures count: POSTED, up to today.                *)
InEffect(t, today) == {i \in DOMAIN t : t[i].status = "POSTED" /\ t[i].date =< today}

(* _accountBalanceInDb: the legs of an account.                            *)
Balance(t, a, today) == SumFunction([i \in InEffect(t, today) |-> t[i].legs[a]])

(* dashboard: net worth of some accounts, and the month's figures taken    *)
(* over all days up to today.                                              *)
NetWorth(t, accounts, today) ==
  SumFunction([a \in accounts |-> IF a \in Assets THEN Balance(t, a, today)
                                                  ELSE -Balance(t, a, today)])

SplitTotal(t, type, today) ==
  SumFunction([i \in {j \in InEffect(t, today) : t[j].type = type} |->
                 SumFunction(t[i].splits)])

Spending(t, today) == SplitTotal(t, "EXPENSE", today) - SplitTotal(t, "REFUND", today)
Income(t, today) == SplitTotal(t, "INCOME", today)

AccountsOf(row) == {a \in Accounts : row.legs[a] # 0}
CategoriesOf(row) == {c \in Categories : row.splits[c] # 0}

(* _paymentFullyRefunded: a payment with no effect left.                   *)
FullyRefunded(t, p) == Posted(t, p) => Refunded(t, p) >= t[p].amount

(* _derivedUnpaidBillStatus *)
UnpaidStatus(due, today) ==
  IF due < today THEN "OVERDUE" ELSE IF due = today THEN "DUE" ELSE "UPCOMING"

(* _reconcileBillForPayment on table b of bills: a SKIPPED bill is left    *)
(* alone, any other bill paid by p follows the payment.                    *)
ReconciledStatus(t, row, today) ==
  IF row.status = "SKIPPED" THEN "SKIPPED"
  ELSE IF FullyRefunded(t, row.payment) THEN UnpaidStatus(row.due, today)
  ELSE "PAID"

ReconcileBills(t, b, p, today) ==
  [x \in DOMAIN b |->
     IF p # None /\ b[x].payment = p
     THEN [b[x] EXCEPT !.status = ReconciledStatus(t, b[x], today)]
     ELSE b[x]]

(* Mutant: a bill keeps its payment when the payment is voided.            *)
KeepBills(b, gone, today) == b

(* The UPDATE of deleteTransaction and voidTransaction: bills paid by one  *)
(* of the transactions in gone are unpaid again.                           *)
ReopenBills(b, gone, today) ==
  [x \in DOMAIN b |->
     IF b[x].payment \in gone
     THEN [b[x] EXCEPT !.status = UnpaidStatus(b[x].due, today),
                       !.payment = None]
     ELSE b[x]]

-----------------------------------------------------------------------------
(* Calendar of the recurring rules.                                        *)

Months == {Month[d] : d \in Dates}
MonthOf(d) == IF d \in Dates THEN Month[d] ELSE Month[LastDate] + 1
DaysIn(m) == {d \in Dates : Month[d] = m}

(* Day number day of month m, clamped to the month's last day.             *)
OccurrenceIn(m, day) ==
  IF DaysIn(m) = {} THEN LastDate + 1
  ELSE LET first == Min(DaysIn(m))
           last == Max(DaysIn(m))
       IN IF first + day - 1 > last THEN last ELSE first + day - 1

(* _nextMonthlyOccurrence with includeCurrentDay: true, as every caller    *)
(* passes.                                                                 *)
NextOccurrence(from, day) ==
  LET candidate == OccurrenceIn(MonthOf(from), day)
  IN IF candidate < from THEN OccurrenceIn(MonthOf(from) + 1, day) ELSE candidate
=============================================================================
