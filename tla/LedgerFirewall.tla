---------------------------- MODULE LedgerFirewall ----------------------------
(***************************************************************************)
(* The semantic firewall of lib/core/services/backup_service.dart:         *)
(* _validateLedger, which every portable backup, every local recovery      *)
(* generation and every restore must pass.  One operator per group of      *)
(* queries, true when the query counts no bad row.                         *)
(*                                                                         *)
(* Queries about text, currency, money range, date syntax and foreign      *)
(* keys speak of data the tables of LedgerData abstract or make impossible *)
(* and are left out.                                                       *)
(***************************************************************************)
EXTENDS LedgerData

(* invalidSimpleShape, invalidSimpleSemantics, splitMismatch               *)
SimpleRowValid(row) ==
  \E a \in Accounts, c \in Categories :
    /\ AccountsOf(row) = {a}
    /\ CategoriesOf(row) = {c}
    /\ row.splits[c] = row.amount
    /\ c \in IF row.type = "INCOME" THEN IncomeCategories ELSE ExpenseCategories
    /\ a \in IF row.type = "INCOME" THEN Assets ELSE Assets \cup CreditCards
    /\ row.legs[a] = IF row.type = "EXPENSE" THEN Spend(a, row.amount)
                                             ELSE GetBack(a, row.amount)

(* Two legs: from an account of one class, to one of another.              *)
MovesBetween(row, from, deltaFrom, to, deltaTo) ==
  \E a \in from, b \in to :
    /\ a # b
    /\ AccountsOf(row) = {a, b}
    /\ row.legs[a] = deltaFrom
    /\ row.legs[b] = deltaTo

(* invalidNonCategorizedShape, invalidSpecialSemantics                     *)
SpecialRowValid(row) ==
  LET n == row.amount IN
  /\ CategoriesOf(row) = {}
  /\ CASE row.type = "TRANSFER" -> MovesBetween(row, Assets, -n, Assets, n)
       [] row.type = "CREDIT_CARD_PAYMENT" -> MovesBetween(row, Assets, -n, CreditCards, -n)
       [] row.type = "LOAN_DISBURSEMENT" -> MovesBetween(row, Assets, n, Loans, n)
       [] row.type = "LOAN_PAYMENT" -> MovesBetween(row, Assets, -n, Loans, -n)
       [] row.type \in {"ADJUSTMENT", "OPENING_BALANCE"} ->
            \E a \in Accounts : AccountsOf(row) = {a} /\ row.legs[a] \in {n, -n}

RowValid(row) ==
  IF row.type \in {"EXPENSE", "INCOME", "REFUND"} THEN SimpleRowValid(row)
  ELSE SpecialRowValid(row)

(* invalidOriginalLink, orphanPostedRefund                                 *)
OriginalLinksValid(t) ==
  \A i \in DOMAIN t :
    /\ t[i].type # "REFUND" => t[i].original = None
    /\ t[i].type = "REFUND" /\ t[i].status = "POSTED" =>
         Posted(t, t[i].original) /\ t[t[i].original].type = "EXPENSE"

(* overRefund                                                              *)
RefundTotalsValid(t) ==
  \A i \in DOMAIN t :
    t[i].type = "EXPENSE" /\ t[i].status = "POSTED" => Refunded(t, i) =< t[i].amount

(* invalidRefundSemantics: chronology and category of every linked refund  *)
RefundSemanticsValid(t) ==
  \A r \in DOMAIN t :
    t[r].type = "REFUND" /\ t[r].original \in DOMAIN t =>
      /\ t[r].date >= t[t[r].original].date
      /\ CategoriesOf(t[r]) = CategoriesOf(t[t[r].original])

(* invalidGroupShape, invalidGroupSemantics, invalidGroupMembership        *)
GroupsValid(t) ==
  \A i \in DOMAIN t :
    LET g == t[i].group IN
    /\ t[i].type = "LOAN_PAYMENT" => g = i
    /\ g # None =>
         /\ g \in DOMAIN t
         /\ t[g].group = g
         /\ t[g].type \in {"TRANSFER", "LOAN_PAYMENT"}
         /\ t[i].status = t[g].status
         /\ i # g => t[i].type = "EXPENSE"
         /\ t[g].type = "TRANSFER" => Cardinality(Members(t, g)) = 2
         /\ t[g].type = "LOAN_PAYMENT" => Cardinality(Members(t, g)) \in 1 .. 3

(* invalidPaidBill                                                         *)
PaidBillsValid(t, b) ==
  \A x \in DOMAIN b : b[x].status = "PAID" =>
    /\ Posted(t, b[x].payment)
    /\ t[b[x].payment].type = "EXPENSE"
    /\ Refunded(t, b[x].payment) < t[b[x].payment].amount

(* invalidUnpaidBillActivePayment                                          *)
UnpaidBillsValid(t, b) ==
  \A x \in DOMAIN b : b[x].status # "PAID" => FullyRefunded(t, b[x].payment)

(* idx_bills_paid_tx_unique, a foreign key                                 *)
PaymentLinksValid(t, b) ==
  \A x \in DOMAIN b : b[x].payment # None =>
    /\ b[x].payment \in DOMAIN t
    /\ \A y \in DOMAIN b \ {x} : b[y].payment # b[x].payment

(* invalidRecurringSemantics                                               *)
RulesValid(rules, openAccounts, openCategories) ==
  \A r \in DOMAIN rules :
    /\ rules[r].account \in Assets \cup CreditCards
    /\ rules[r].active => /\ rules[r].account \in openAccounts
                          /\ rules[r].category \in openCategories

(* invalidRecurringOccurrenceSemantics: the linked transaction is the      *)
(* exact DRAFT expense the rule implies, linked once.                      *)
OccurrencesValid(t, rules, occ) ==
  \A k \in DOMAIN occ : occ[k] # None =>
    LET rule == rules[k[1]] IN
    /\ occ[k] \in DOMAIN t
    /\ t[occ[k]].type = "EXPENSE"
    /\ t[occ[k]].status = "DRAFT"
    /\ t[occ[k]].amount = rule.amount
    /\ t[occ[k]].legs = OneLeg(rule.account, Spend(rule.account, rule.amount))
    /\ t[occ[k]].splits = OneSplit(rule.category, rule.amount)
    /\ \A l \in DOMAIN occ \ {k} : occ[l] # occ[k]
=============================================================================
