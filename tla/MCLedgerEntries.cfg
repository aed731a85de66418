SPECIFICATION Spec
CONSTANTS
  None = None
  Accounts = {cash, bank, card, loan}
  Assets = {cash, bank}
  CreditCards = {card}
  Loans = {loan}
  ExpenseCategories = {food}
  IncomeCategories = {salary}
  TransferFee = food
  Slots = {t1, t2, t3}
  Bills = {}
  Rules = {}
  Budgets = {}
  MaxMoney = 2
  LastDate = 1
  Month <- OneMonth
  RuleDays = {1, 2}
  SeedAccounts = {cash, bank, loan}
  HealMonths = 2
  MaxGapMonths = 24
  MaxCatchUp = 24
SYMMETRY Symmetry
CONSTRAINTS OneBalanceRow OneLargeAmount
INVARIANTS
  RefundsWithinOriginal
  DashboardFollowsContract
  GroupsAllOrNothing
  RefundsHaveOriginal
