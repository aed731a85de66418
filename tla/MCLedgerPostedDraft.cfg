SPECIFICATION Spec
CONSTANTS
  None = None
  Accounts = {cash}
  Assets = {cash}
  CreditCards = {}
  Loans = {}
  ExpenseCategories = {food}
  IncomeCategories = {}
  TransferFee = food
  Slots = {t1, t2}
  Bills = {}
  Rules = {r1}
  Budgets = {}
  MaxMoney = 1
  LastDate = 4
  Month <- ShortMonths
  RuleDays = {1, 2}
  SeedAccounts = {cash}
  HealMonths = 1
  MaxGapMonths = 24
  MaxCatchUp = 2
SYMMETRY Symmetry
INVARIANTS
  OccurrencesMatchRule
