SPECIFICATION Spec
CONSTANTS
  None = None
  Accounts = {cash}
  Assets = {cash}
  CreditCards = {}
  Loans = {}
  ExpenseCategories = {food}
  IncomeCategories = {}
  TransferFee = food
  Slots = {t1, t2}
  Bills = {}
  Rules = {r1}
  Budgets = {g1}
  MaxMoney = 1
  LastDate = 4
  Month <- ShortMonths
  RuleDays = {1, 2}
  SeedAccounts = {cash}
  HealMonths = 1
  MaxGapMonths = 1
  MaxCatchUp = 2
SYMMETRY Symmetry
CONSTRAINT BudgetsWithoutTransactions
INVARIANTS
  TypeOK
  DependenciesOpen
PROPERTIES
  NoDateMissed
  NoSyntheticFlood
  OccurrencesRemembered
