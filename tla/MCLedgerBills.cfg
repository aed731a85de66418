SPECIFICATION Spec
CONSTANTS
  None = None
  Accounts = {cash}
  Assets = {cash}
  CreditCards = {}
  Loans = {}
  ExpenseCategories = {food}
  IncomeCategories = {}
  TransferFee = food
  Slots = {t1, t2, t3}
  Bills = {b1, b2}
  Rules = {}
  Budgets = {}
  MaxMoney = 2
  LastDate = 2
  Month <- OneMonth
  RuleDays = {1, 2}
  SeedAccounts = {cash}
  HealMonths = 2
  MaxGapMonths = 24
  MaxCatchUp = 24
SYMMETRY Symmetry
INVARIANTS
  BillPaymentsInEffect
PROPERTIES
  ListBillsSettles
