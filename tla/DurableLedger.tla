---------------------------- MODULE DurableLedger ----------------------------
(***************************************************************************)
(* What AppDatabase promises its users: there is one ledger, a database    *)
(* that is open shows it, and only a commit to the open database changes   *)
(* it.  Crashes close the database and nothing else.  A ledger is the      *)
(* number of the commit it ends with, 0 for a new one.  Once a file        *)
(* operation has failed, nothing of this is promised.                      *)
(***************************************************************************)
EXTENDS Naturals

CONSTANTS MaxVersion, None

VARIABLES
  ledger,   \* the ledger a start of the app finds, None before the first
  shown,    \* the ledger of the open database, None when it is closed
  broken    \* a file operation has failed

Init == ledger \in 0 .. MaxVersion \cup {None} /\ shown = None /\ ~broken

Open ==
  /\ shown = None
  /\ ledger' = IF ledger = None THEN 0 ELSE ledger
  /\ shown' = ledger'

(* A user's commit, or a restore of a backup as one transaction.           *)
Commit ==
  /\ shown # None
  /\ ledger' \in 1 .. MaxVersion
  /\ ledger' > ledger
  /\ shown' = ledger'

Close == shown # None /\ shown' = None /\ ledger' = ledger

Break == broken'

Next == Break \/ (~broken' /\ (Open \/ Commit \/ Close))

Spec == Init /\ [][Next]_<<ledger, shown, broken>>
=============================================================================
