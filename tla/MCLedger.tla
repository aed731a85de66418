------------------------------- MODULE MCLedger -------------------------------
(* Small instances of Ledger for TLC.                                      *)
EXTENDS Ledger, TLC

(* Ids of transactions and of bills are interchangeable, and so are the    *)
(* asset accounts, which every instance has seeded.                        *)
Symmetry == Permutations(Slots) \cup Permutations(Bills) \cup Permutations(Assets)

(* Bounds an instance with rules: a budget and transactions have nothing   *)
(* to do with each other but through the catalog.                          *)
BudgetsWithoutTransactions == DOMAIN budget = {} \/ DOMAIN tx = {}

(* Bounds an instance with many kinds of rows: those that only set a       *)
(* balance, which no other row refers to, come one at a time.              *)
OneBalanceRow ==
  Cardinality({i \in DOMAIN tx :
    tx[i].type \in {"INCOME", "ADJUSTMENT", "OPENING_BALANCE"}}) =< 1

(* One amount can be split among refunds; the others are the smallest.     *)
OneLargeAmount == Cardinality({i \in DOMAIN tx : tx[i].amount > 1}) =< 1

(* All dates in one month.                                                 *)
OneMonth == [d \in 1 .. LastDate |-> 1]
(* Months of two days, the first month of one: the day 2 is clamped there. *)
ShortMonths == [d \in 1 .. LastDate |-> d \div 2]
=============================================================================
