SPECIFICATION Spec
CONSTANTS
  None = None
  Accounts = {"bank", "bank2", "card"}
  Assets = {"bank", "bank2"}
  NameOf <- MCNameOf
  Seeds = {"bank"}
  Contents = {"food", "rent"}
  CategoryOf <- MCCategoryOf
  Defaults <- MCDefaults
  Instants = {1}
  Now = 3
  Zones = {0, 1}
  ForeignFiles <- MCForeignFiles
  MaxIds = 2
  MaxChanges = 4
INVARIANTS
  ImportedOnce
PROPERTIES
  ImportsAsReference
  ExpensesComeBack
CHECK_DEADLOCK FALSE
