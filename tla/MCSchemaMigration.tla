--------------------------- MODULE MCSchemaMigration ---------------------------
(* Databases of every version for TLC: the scenarios of the audit, and     *)
(* ledgers in which each migration finds what it is there for.             *)
EXTENDS MigrationAudit

MCNames == <<"food", "fee">>

(* A purchase with a refund, each perhaps deleted, two bills, and a transfer with a fee *)
Rows(purchaseGone, refundGone, groupGone) ==
  "buy" :> [Entry("EXPENSE", "POSTED", -1) EXCEPT !.deleted = purchaseGone]
  @@ "back" :> [Entry("REFUND", "POSTED", 1) EXCEPT !.original = "buy", !.deleted = refundGone]
  @@ "pay" :> [Entry("EXPENSE", "POSTED", -1) EXCEPT !.deleted = groupGone]
  @@ "move" :> [Entry("TRANSFER", "POSTED", 0) EXCEPT !.group = "g", !.deleted = groupGone]
  @@ "fee" :> [Entry("EXPENSE", "POSTED", -1) EXCEPT !.group = "g", !.deleted = groupGone]

(* Generated drafts: one per occurrence, of a bank rule and of a card rule. *)
Drafts(v, gone) ==
  LET leg(sign) == IF v < 4 THEN None ELSE sign IN
  "d1" :> Entry("EXPENSE", "DRAFT", leg(-1))
  @@ "d2" :> [Entry("EXPENSE", "DRAFT", leg(-1)) EXCEPT !.deleted = gone]
  @@ "d3" :> Entry("EXPENSE", "DRAFT", leg(1))

MCRules(v) == LET run == IF v < 5 THEN "instant" ELSE "date"
              IN "bank" :> Rule("ASSET", run) @@ "card" :> Rule("LIABILITY", run)

(* Before version 4 one date may have two markers, of two rule versions.   *)
MCOccs(v, twice) ==
  LET key == IF v < 4 THEN "version" ELSE "date" IN
  <<Occurrence("bank", 1, key, "d1"),
    Occurrence("bank", IF twice THEN 1 ELSE 2, key, "d2"),
    Occurrence("card", 1, key, "d3")>>

MCBills(v, shared) ==
  IF v < 2 THEN <<Bill("UPCOMING", None), Bill("UPCOMING", None)>>
  ELSE <<Bill("PAID", "pay"), IF shared THEN Bill("PAID", "pay") ELSE Bill("UPCOMING", None)>>

Keyed(v, rows) ==
  IF v < 11 THEN rows
  ELSE Applied([n \in DOMAIN SystemNames |-> <<"assignKey", SystemNames[n]>>],
               [EmptyAt(v) EXCEPT !.categories = rows]).categories

CategoryRows == {<<Category("food", a), Category("own", 2), Category("food", b), Category("fee", 1)>> :
                   a \in 1 .. 2, b \in 1 .. 2}

Ledgers ==
  {[Indexed([EmptyAt(v) EXCEPT
      !.objects = @ \union (IF v < 3 THEN SyncTables ELSE {}),
      !.tx = Rows(purchaseGone /\ v < 9, refundGone /\ v < 9, groupGone /\ v < 9) @@ Drafts(v, draftGone /\ v < 9),
      !.groups = {"g"}, !.rules = MCRules(v),
      !.occs = MCOccs(v, twice /\ v < 4),
      !.bills = MCBills(v, shared /\ v < 8),
      !.categories = Keyed(v, rows)]) EXCEPT !.damaged = damaged /\ v >= 7] :
    v \in 1 .. Current, purchaseGone, refundGone, groupGone, draftGone, twice, shared, damaged \in BOOLEAN,
    rows \in CategoryRows}

(* A newer app's database, and one whose version cannot be read.           *)
Strange == {[EmptyAt(Current) EXCEPT !.version = Current + 1], [EmptyAt(Current) EXCEPT !.version = None]}

MCLegacy == Scenarios \union Ledgers \union Strange
===============================================================================
