------------------------------ MODULE MCCsvImport ------------------------------
(* A bank account that may give its name to another, a card, a category    *)
(* of the user's own and files of other origin.                            *)
EXTENDS CsvImport, TLC

MCNameOf == "bank" :> "bank" @@ "bank2" :> "bank" @@ "card" :> "card"

(* Rent is no category of a new ledger, as an expense.                     *)
MCCategoryOf == [c \in Contents |-> c]
MCDefaults == {<<"EXPENSE", "food">>, <<"INCOME", "food">>, <<"INCOME", "rent">>}

(* A line without an id, of a local time                                   *)
Plain(type, name, content, time) == Line(None, type, name, FALSE, content, time, FALSE)

MCForeignFiles ==
  {\* one expense twice, and another with the id of another device
   <<Plain("EXPENSE", "bank", "food", 2), Plain("EXPENSE", "bank", "food", 2),
     [Plain("EXPENSE", "card", "food", 2) EXCEPT !.id = 3]>>,
   \* income for a card, which the preview lists and the import refuses
   <<Plain("EXPENSE", "bank", "rent", 2), Plain("INCOME", "card", "rent", 2)>>,
   \* an edited export: the first transaction with another content or time
   <<[Plain("EXPENSE", "bank", "rent", 2) EXCEPT !.id = 1, !.utc = TRUE],
     [Plain("EXPENSE", "bank", "food", 2) EXCEPT !.id = 1, !.utc = TRUE]>>,
   \* tomorrow
   <<Plain("INCOME", "bank", "food", 5)>>}
================================================================================
