---------------------- MODULE RecoveryGenerationsProofs ----------------------
(***************************************************************************)
(* Theorems about RecoveryGenerations, for any number of tasks, keys,      *)
(* faults and commits.                                                     *)
(***************************************************************************)
EXTENDS RecoveryGenerations, FiniteSetTheorems, TLAPS

-----------------------------------------------------------------------------
(* The inductive invariant.                                                *)

File == [stamp : Nat, ledger : Nat, key : Nat]

Row == [at : Steps, kind : Kinds \cup {None}, ledger : Nat \cup {None},
        key : Nat \cup {None}, stamp : Nat \cup {None}, pending : BOOLEAN,
        extras : SUBSET File, since : Nat \cup {None}]

(* What a task has by the step it is at.                                   *)
HasLedger == {"ReadKey", "MakeKey", "Write", "Verify", "Publish", "ListExtras",
              "DeleteExtras", "Replace"}
HasKey == HasLedger \ {"ReadKey", "MakeKey"}
HasStamp == HasKey \ {"Write"}
WipeSteps == {"DeleteDir", "DeleteKey", "WipeLedger"}

RowReady(row) ==
  /\ row.at \in HasLedger => row.ledger # None
  /\ row.at \in HasKey => row.key # None
  /\ row.at \in HasStamp => row.stamp # None
  /\ row.pending => row.at \in {"Verify", "Publish"}
  /\ row.extras # {} => row.at = "DeleteExtras"
  /\ row.kind = "WIPE" <=> row.at \in WipeSteps
  /\ row.since # None => row.at # "idle"

Shape ==
  /\ ledger \in Nat /\ lastKey \in Nat /\ wiped \in Nat /\ behind \in BOOLEAN
  /\ key \in {lastKey, None}
  /\ generations \subseteq File /\ IsFiniteSet(generations)
  /\ task \in [Tasks -> Row]
  /\ \A t \in Tasks : RowReady(task[t])

(* No key is newer than the last one.                                      *)
KeysMade ==
  /\ \A g \in generations : g.key =< lastKey
  /\ \A t \in Tasks : task[t].at \in HasKey => task[t].key =< lastKey

(* A candidate has a stamp of its own.                                     *)
Apart ==
  \A t \in Tasks : task[t].pending =>
    /\ \A g \in generations : g.stamp # task[t].stamp
    /\ \A s \in Tasks :
         /\ s # t /\ task[s].pending => task[s].stamp # task[t].stamp
         /\ \A g \in task[s].extras : g.stamp # task[t].stamp

(* As long as no file was named by a clock set back, a verified file was   *)
(* made with a key no older than the key of any file with an earlier name. *)
Verified == generations
              \cup {GenerationOf(t) : t \in {s \in Tasks : task[s].pending /\ At(s, "Publish")}}
Written == Verified
             \cup {GenerationOf(t) : t \in {s \in Tasks : task[s].pending /\ At(s, "Verify")}}
Ordered == ~behind => \A h \in Verified, g \in Written : h.stamp > g.stamp => h.key >= g.key

(* Whatever is about to be pruned, Keep generations with later names are   *)
(* there, although other tasks prune as well.                              *)
ExtrasHaveNewer ==
  \A t \in Tasks : \A g \in task[t].extras \cap generations : Cardinality(Newer(g)) >= Keep

(* A wipe that runs alone finds no file once it has deleted the directory. *)
WipesAlone ==
  \A t \in Tasks : task[t].kind = "WIPE" /\ task[t].since # None =>
    /\ Alone(t)
    /\ task[t].at \in {"DeleteKey", "WipeLedger"} => generations = {}

(* It leaves no file and no snapshot of what it wiped.                     *)
NotWiped ==
  /\ ledger > wiped
  /\ \A g \in generations : g.ledger > wiped
  /\ \A t \in Tasks : task[t].at \in HasLedger => task[t].ledger > wiped

(* A task that began with a settled key works with that key.               *)
Guarded(t) == task[t].kind # "WIPE" /\ task[t].since # None
Settled ==
  \A t \in Tasks : Guarded(t) =>
    /\ KeySettled
    /\ task[t].since =< ledger
    /\ task[t].at \in HasLedger => task[t].ledger >= task[t].since
    /\ task[t].at \in HasKey => task[t].key = key

(* Snapshots taken before task t began, written and published after t's    *)
(* own: published already, or on their way.                                *)
Unpublished == {"ReadKey", "MakeKey", "Write", "Verify", "Publish"}
Published == {"ListExtras", "DeleteExtras", "Replace"}
StaleFiles(t) == {g \in generations : g.stamp > task[t].stamp /\ g.ledger < task[t].since}
StaleTasks(t) == {s \in Tasks \ {t} : task[s].at \in Unpublished /\ task[s].ledger < task[t].since}
FewStale ==
  \A t \in Tasks : Guarded(t) =>
    /\ Cardinality(StaleTasks(t)) < Cardinality(Tasks)
    /\ task[t].at \in HasStamp =>
         Cardinality(StaleTasks(t)) + Cardinality(StaleFiles(t)) < Cardinality(Tasks)

(* A verified file with a later name than t's own has t's key.             *)
YoungKeys ==
  \A t \in Tasks : Guarded(t) /\ task[t].at \in HasStamp =>
    \A g \in Verified : g.stamp > task[t].stamp => g.key = key

(* The files that serve task t as a fallback.  There is one once t has     *)
(* published its own, and no task is about to prune the newest of them.    *)
Good(t) == {g \in generations : /\ g.stamp >= task[t].stamp
                                /\ g.ledger >= task[t].since
                                /\ Decodable(g)}
Newest(t, g) == g \in Good(t) /\ \A h \in Good(t) : h.stamp =< g.stamp
NewestKept ==
  \A t \in Tasks : Guarded(t) /\ task[t].at \in HasStamp =>
    /\ task[t].at \in Published => Good(t) # {}
    /\ \A g : Newest(t, g) => \A s \in Tasks : g \notin task[s].extras

(* What happens to the rows: task t gets the row r.                        *)
Moves(t, r) ==
  /\ r \in Row /\ RowReady(r)
  /\ task' \in [Tasks -> Row] /\ task'[t] = r
  /\ \A s \in Tasks \ {t} : task'[s] = task[s]

-----------------------------------------------------------------------------
(* The rows after each step.                                               *)

LEMMA IdleRow == Idle \in Row /\ RowReady(Idle)
PROOF
BY NoneIsNoValue DEF Idle, Row, RowReady, Steps, HasLedger, HasKey, HasStamp, WipeSteps

LEMMA Typed ==
  ASSUME Shape, NEW t \in Tasks
  PROVE  /\ task \in [Tasks -> Row] /\ task[t] \in Row /\ RowReady(task[t])
         /\ ledger \in Nat /\ lastKey \in Nat
         /\ key \in Nat \cup {None} /\ None \notin Nat
PROOF
BY NoneIsNoValue DEF Shape

LEMMA MoveIs ==
  ASSUME Shape, NEW t \in Tasks, NEW r \in Row, RowReady(r), task' = [task EXCEPT ![t] = r]
  PROVE  Moves(t, r)
PROOF
BY DEF Shape, Moves

LEMMA MakeDirRow ==
  ASSUME Shape, NEW t \in Tasks, MakeDir(t)
  PROVE  Moves(t, [task[t] EXCEPT !.at = "Capture"])
PROOF
<1> DEFINE row == [task[t] EXCEPT !.at = "Capture"]
<1>1. task' = [task EXCEPT ![t] = row]
  BY Typed DEF MakeDir, End, GoTo
<1>2. row \in Row
  BY Typed DEF MakeDir, At, Row, Steps
<1>3. RowReady(row)
  BY Typed DEF MakeDir, At, Row, RowReady, Steps, HasLedger, HasKey, HasStamp, WipeSteps
<1> QED
  BY <1>1, <1>2, <1>3, MoveIs

LEMMA RecentEnoughRow ==
  ASSUME Shape, NEW t \in Tasks, RecentEnough(t)
  PROVE  Moves(t, Idle)
PROOF
BY IdleRow, MoveIs DEF RecentEnough, End

LEMMA CaptureRow ==
  ASSUME Shape, NEW t \in Tasks, Capture(t)
  PROVE  Moves(t, [task[t] EXCEPT !.ledger = ledger, !.at = "ReadKey"])
PROOF
<1> DEFINE row == [task[t] EXCEPT !.ledger = ledger, !.at = "ReadKey"]
<1>1. task' = [task EXCEPT ![t] = row]
  BY Typed DEF Capture, End, GoTo
<1>2. row \in Row
  BY Typed DEF Capture, At, Row, Steps
<1>3. RowReady(row)
  BY Typed DEF Capture, At, Row, RowReady, Steps, HasLedger, HasKey, HasStamp, WipeSteps
<1> QED
  BY <1>1, <1>2, <1>3, MoveIs

LEMMA ReadKeyRow ==
  ASSUME Shape, NEW t \in Tasks, ReadKey(t)
  PROVE  Moves(t, [task[t] EXCEPT !.key = key,
                             !.at = IF key = None THEN "MakeKey" ELSE "Write"])
PROOF
<1> DEFINE row == [task[t] EXCEPT !.key = key, !.at = IF key = None THEN "MakeKey" ELSE "Write"]
<1>1. task' = [task EXCEPT ![t] = row]
  BY Typed DEF ReadKey, End, GoTo
<1>2. row \in Row
  BY Typed DEF ReadKey, At, Row, Steps
<1>3. RowReady(row)
  BY Typed DEF ReadKey, At, Row, RowReady, Steps, HasLedger, HasKey, HasStamp, WipeSteps
<1> QED
  BY <1>1, <1>2, <1>3, MoveIs

LEMMA MakeKeyRow ==
  ASSUME Shape, NEW t \in Tasks, MakeKey(t)
  PROVE  Moves(t, [task[t] EXCEPT !.key = lastKey + 1, !.at = "Write"])
PROOF
<1> DEFINE row == [task[t] EXCEPT !.key = lastKey + 1, !.at = "Write"]
<1>1. task' = [task EXCEPT ![t] = row]
  BY Typed DEF MakeKey, End, GoTo
<1>2. row \in Row
  BY Typed DEF MakeKey, At, Row, Steps
<1>3. RowReady(row)
  BY Typed DEF MakeKey, At, Row, RowReady, Steps, HasLedger, HasKey, HasStamp, WipeSteps
<1> QED
  BY <1>1, <1>2, <1>3, MoveIs

LEMMA WriteRow ==
  ASSUME Shape, NEW t \in Tasks, Write(t)
  PROVE  \/ Moves(t, Idle) /\ behind' = behind
         \/ \E s \in Stamps \ Taken :
              /\ Moves(t, [task[t] EXCEPT !.stamp = s, !.pending = TRUE, !.at = "Verify",
                                         !.since = IF SetBack(s) THEN None ELSE @])
              /\ behind' = (behind \/ SetBack(s))
PROOF
<1>1. CASE ~dir
  BY <1>1, IdleRow, MoveIs DEF Write, End
<1>2. CASE dir
  <2>1. PICK s \in Stamps \ Taken :
          /\ behind' = (behind \/ SetBack(s))
          /\ task' = [task EXCEPT ![t].stamp = s, ![t].pending = TRUE, ![t].at = "Verify",
                                  ![t].since = IF SetBack(s) THEN None ELSE @]
    BY <1>2 DEF Write
  <2> DEFINE row == [task[t] EXCEPT !.stamp = s, !.pending = TRUE, !.at = "Verify",
                                    !.since = IF SetBack(s) THEN None ELSE @]
  <2>2. task[t] \in Row /\ RowReady(task[t]) /\ task[t].at = "Write"
    BY Typed DEF Write, At
  <2>3. s \in Nat
    BY <2>1, GenerationBounds DEF Stamps
  <2>4. task' = [task EXCEPT ![t] = row]
    BY <2>1, Typed
  <2>5. row \in Row
    BY <2>2, <2>3 DEF Row, Steps
  <2>6. RowReady(row)
    BY <2>2, <2>3, NoneIsNoValue DEF Row, RowReady, HasLedger, HasKey, HasStamp, WipeSteps
  <2> QED
    BY <2>1, <2>4, <2>5, <2>6, MoveIs
<1> QED
  BY <1>1, <1>2

LEMMA VerifyRow ==
  ASSUME Shape, NEW t \in Tasks, Verify(t)
  PROVE  Moves(t, IF task[t].pending /\ key # None /\ task[t].key = key
                  THEN [task[t] EXCEPT !.at = "Publish"] ELSE Idle)
PROOF
<1> DEFINE row == IF task[t].pending /\ key # None /\ task[t].key = key
                  THEN [task[t] EXCEPT !.at = "Publish"]
                  ELSE Idle
<1>1. task' = [task EXCEPT ![t] = row]
  BY Typed DEF Verify, End, GoTo
<1>2. row \in Row
  BY IdleRow, Typed DEF Verify, At, Row, Steps
<1>3. RowReady(row)
  BY IdleRow, Typed DEF Verify, At, Row, RowReady, Steps, HasLedger, HasKey, HasStamp, WipeSteps
<1> QED
  BY <1>1, <1>2, <1>3, MoveIs

LEMMA PublishRow ==
  ASSUME Shape, NEW t \in Tasks, Publish(t)
  PROVE  Moves(t, IF task[t].pending
                  THEN [task[t] EXCEPT !.pending = FALSE, !.at = "ListExtras"] ELSE Idle)
PROOF
<1> DEFINE row == IF task[t].pending
                  THEN [task[t] EXCEPT !.pending = FALSE, !.at = "ListExtras"]
                  ELSE Idle
<1>1. task' = [task EXCEPT ![t] = row]
  BY Typed DEF Publish, End, GoTo
<1>2. row \in Row
  BY IdleRow, Typed DEF Publish, At, Row, Steps
<1>3. RowReady(row)
  BY IdleRow, Typed DEF Publish, At, Row, RowReady, Steps, HasLedger, HasKey, HasStamp, WipeSteps
<1> QED
  BY <1>1, <1>2, <1>3, MoveIs

LEMMA ListExtrasRow ==
  ASSUME Shape, NEW t \in Tasks, ListExtras(t)
  PROVE  Moves(t, [task[t] EXCEPT
                    !.extras = {g \in generations : Cardinality(Newer(g)) >= Keep},
                    !.at = "DeleteExtras"])
PROOF
<1> DEFINE row == [task[t] EXCEPT !.extras = {g \in generations : Cardinality(Newer(g)) >= Keep},
                                       !.at = "DeleteExtras"]
<1>1. task' = [task EXCEPT ![t] = row]
  BY Typed DEF ListExtras, End, GoTo
<1>2. row \in Row
  <2>1. {g \in generations : Cardinality(Newer(g)) >= Keep} \subseteq File
    BY DEF Shape
  <2>2. "DeleteExtras" \in Steps /\ task[t] \in Row
    BY Typed DEF Steps
  <2> QED
    BY <2>1, <2>2 DEF Row
<1>3. RowReady(row)
  BY Typed DEF ListExtras, At, Row, RowReady, Steps, HasLedger, HasKey, HasStamp, WipeSteps
<1> QED
  BY <1>1, <1>2, <1>3, MoveIs

LEMMA CreatedRow ==
  ASSUME Shape, NEW t \in Tasks, Created(t)
  PROVE  Moves(t, IF task[t].kind = "RESTORE" THEN [task[t] EXCEPT !.at = "Replace"] ELSE Idle)
PROOF
<1> DEFINE row == IF task[t].kind = "RESTORE" THEN [task[t] EXCEPT !.at = "Replace"] ELSE Idle
<1>1. task' = [task EXCEPT ![t] = row]
  BY Typed DEF Created, End, GoTo
<1>2. row \in Row
  BY IdleRow, Typed DEF Created, At, Row, Steps
<1>3. RowReady(row)
  BY IdleRow, Typed DEF Created, At, Row, RowReady, Steps, HasLedger, HasKey, HasStamp, WipeSteps
<1> QED
  BY <1>1, <1>2, <1>3, MoveIs

LEMMA ReplaceRow ==
  ASSUME Shape, NEW t \in Tasks, Replace(t)
  PROVE  Moves(t, Idle)
PROOF
BY IdleRow, MoveIs DEF Replace, End

LEMMA WipeLedgerRow ==
  ASSUME Shape, NEW t \in Tasks, WipeLedger(t)
  PROVE  Moves(t, Idle)
PROOF
BY IdleRow, MoveIs DEF WipeLedger, End

LEMMA ThrowRow ==
  ASSUME Shape, NEW t \in Tasks, Throw(t)
  PROVE  Moves(t, Idle)
PROOF
BY IdleRow, MoveIs DEF Throw, End

LEMMA DeleteExtraRow ==
  ASSUME Shape, NEW t \in Tasks, DeleteExtra(t)
  PROVE  \E g \in task[t].extras :
           /\ Moves(t, [task[t] EXCEPT !.extras = @ \ {g}])
           /\ generations' = generations \/ generations' = generations \ {g}
PROOF
<1>1. PICK g \in task[t].extras :
        /\ task' = [task EXCEPT ![t].extras = @ \ {g}]
        /\ generations' = generations \/ generations' = generations \ {g}
  BY DEF DeleteExtra
<1> DEFINE row == [task[t] EXCEPT !.extras = @ \ {g}]
<1>2. row \in Row
  BY Typed DEF Row
<1>3. RowReady(row)
  BY Typed DEF Row, RowReady, Idle
<1>4. task' = [task EXCEPT ![t] = row]
  BY <1>1, Typed
<1>5. Moves(t, row)
  BY <1>2, <1>3, <1>4, MoveIs
<1> QED
  BY <1>1, <1>5

LEMMA BeginRows ==
  ASSUME Shape, NEW t \in Tasks, NEW kind \in Kinds, Begin(t, kind)
  PROVE  /\ task' \in [Tasks -> Row] /\ \A s \in Tasks : RowReady(task'[s])
         /\ task[t].at = "idle"
         /\ task'[t] = [task[t] EXCEPT !.kind = kind,
                          !.at = IF kind = "WIPE" THEN "DeleteDir" ELSE "MakeDir",
                          !.since = IF IF kind = "WIPE" THEN Alone(t) ELSE KeySettled
                                    THEN ledger ELSE None]
         /\ \A s \in Tasks \ {t} :
              task'[s] = IF task[s].kind = "WIPE" THEN [task[s] EXCEPT !.since = None]
                         ELSE task[s]
PROOF
<1>1. task[t].at = "idle"
  BY DEF Begin, BeginAt, At
<1> DEFINE row == [task[t] EXCEPT !.kind = kind,
                     !.at = IF kind = "WIPE" THEN "DeleteDir" ELSE "MakeDir",
                     !.since = IF IF kind = "WIPE" THEN Alone(t) ELSE KeySettled
                               THEN ledger ELSE None]
<1> DEFINE other(s) == IF task[s].kind = "WIPE" THEN [task[s] EXCEPT !.since = None]
                       ELSE task[s]
<1>2. task' = [s \in Tasks |-> IF s = t THEN row ELSE other(s)]
  BY DEF Begin, BeginAt
<1>3. row \in Row /\ RowReady(row)
  <2>1. task[t] \in Row /\ RowReady(task[t]) /\ ledger \in Nat /\ kind \in Kinds
    BY Typed
  <2>2. row \in Row
    BY <2>1 DEF Row, Steps
  <2>3. /\ row.kind = kind /\ row.pending = task[t].pending /\ row.extras = task[t].extras
        /\ row.at = IF kind = "WIPE" THEN "DeleteDir" ELSE "MakeDir"
    BY <2>1 DEF Row
  <2> HIDE DEF row
  <2>4. row.at \in {"DeleteDir", "MakeDir"} /\ (row.at = "DeleteDir" <=> row.kind = "WIPE")
    BY <2>3
  <2>5. RowReady(row)
    BY <1>1, <2>1, <2>3, <2>4 DEF RowReady, HasLedger, HasKey, HasStamp, WipeSteps
  <2> QED
    BY <2>2, <2>5
<1>4. ASSUME NEW s \in Tasks
      PROVE  other(s) \in Row /\ RowReady(other(s))
  <2>1. task[s] \in Row /\ RowReady(task[s])
    BY Typed
  <2> QED
    BY <2>1 DEF Row, RowReady
<1> HIDE DEF row, other
<1> QED
  BY <1>1, <1>2, <1>3, <1>4 DEF row, other

LEMMA DeleteDirRows ==
  ASSUME Shape, NEW t \in Tasks, DeleteDir(t)
  PROVE  /\ task' \in [Tasks -> Row] /\ \A s \in Tasks : RowReady(task'[s])
         /\ task'[t] = [task[t] EXCEPT !.at = "DeleteKey"]
         /\ \A s \in Tasks \ {t} :
              task'[s] = [task[s] EXCEPT !.pending = FALSE, !.since = None]
PROOF
<1> DEFINE row == [task[t] EXCEPT !.at = "DeleteKey"]
<1> DEFINE other(s) == [task[s] EXCEPT !.pending = FALSE, !.since = None]
<1>1. task' = [s \in Tasks |-> IF s = t THEN row ELSE other(s)]
  BY DEF DeleteDir
<1>2. row \in Row /\ RowReady(row)
  BY Typed DEF DeleteDir, At, Row, RowReady, Steps, HasLedger, HasKey, HasStamp, WipeSteps
<1>3. ASSUME NEW s \in Tasks
      PROVE  other(s) \in Row /\ RowReady(other(s))
  BY Typed DEF Row, RowReady
<1> HIDE DEF row, other
<1> QED
  BY <1>1, <1>2, <1>3 DEF row, other

LEMMA DeleteKeyRows ==
  ASSUME Shape, NEW t \in Tasks, DeleteKey(t)
  PROVE  /\ task' \in [Tasks -> Row] /\ \A s \in Tasks : RowReady(task'[s])
         /\ task'[t] = [task[t] EXCEPT !.at = "WipeLedger"]
         /\ \A s \in Tasks \ {t} : task'[s] = [task[s] EXCEPT !.since = None]
PROOF
<1> DEFINE row == [task[t] EXCEPT !.at = "WipeLedger"]
<1> DEFINE other(s) == [task[s] EXCEPT !.since = None]
<1>1. task' = [s \in Tasks |-> IF s = t THEN row ELSE other(s)]
  BY DEF DeleteKey
<1>2. row \in Row /\ RowReady(row)
  BY Typed DEF DeleteKey, At, Row, RowReady, Steps, HasLedger, HasKey, HasStamp, WipeSteps
<1>3. ASSUME NEW s \in Tasks
      PROVE  other(s) \in Row /\ RowReady(other(s))
  BY Typed DEF Row, RowReady
<1> HIDE DEF row, other
<1> QED
  BY <1>1, <1>2, <1>3 DEF row, other

(* Every step keeps the shape.                                             *)
LEMMA ShapeStep ==
  ASSUME Shape, [Next]_vars
  PROVE  Shape'
PROOF
<1>1. ASSUME NEW t \in Tasks, NEW kind \in Kinds, Begin(t, kind)
      PROVE  Shape'
  BY <1>1, BeginRows
  DEF Begin, BeginAt, Shape, Moves, disk, counters, history
<1>2. ASSUME NEW t \in Tasks, MakeDir(t)
      PROVE  Shape'
  BY <1>2, MakeDirRow
  DEF MakeDir, Shape, Moves, disk, counters, history
<1>3. ASSUME NEW t \in Tasks, RecentEnough(t)
      PROVE  Shape'
  BY <1>3, RecentEnoughRow
  DEF RecentEnough, Shape, Moves, disk, counters, history
<1>4. ASSUME NEW t \in Tasks, Capture(t)
      PROVE  Shape'
  BY <1>4, CaptureRow
  DEF Capture, Shape, Moves, disk, counters, history
<1>5. ASSUME NEW t \in Tasks, ReadKey(t)
      PROVE  Shape'
  BY <1>5, ReadKeyRow
  DEF ReadKey, Shape, Moves, disk, counters, history
<1>6. ASSUME NEW t \in Tasks, MakeKey(t)
      PROVE  Shape'
  <2>1. task' \in [Tasks -> Row] /\ \A s \in Tasks : RowReady(task'[s])
    BY <1>6, MakeKeyRow DEF Shape, Moves
  <2> QED
    BY <1>6, <2>1 DEF MakeKey, Shape, disk, counters, history
<1>7. ASSUME NEW t \in Tasks, Write(t)
      PROVE  Shape'
  <2>1. task' \in [Tasks -> Row] /\ \A s \in Tasks : RowReady(task'[s])
    BY <1>7, WriteRow DEF Shape, Moves
  <2> QED
    BY <1>7, <2>1 DEF Write, Shape, disk, counters, history
<1>8. ASSUME NEW t \in Tasks, Verify(t)
      PROVE  Shape'
  BY <1>8, VerifyRow
  DEF Verify, Shape, Moves, disk, counters, history
<1>9. ASSUME NEW t \in Tasks, Publish(t)
      PROVE  Shape'
  <2>1. task' \in [Tasks -> Row] /\ \A s \in Tasks : RowReady(task'[s])
    BY <1>9, PublishRow DEF Shape, Moves
  <2>2. task[t].pending => GenerationOf(t) \in File
    BY <1>9, Typed DEF Publish, At, GenerationOf, File, Row, RowReady, HasLedger, HasKey, HasStamp
  <2>3. generations' \subseteq File /\ IsFiniteSet(generations')
    BY <1>9, <2>2, FS_AddElement DEF Publish, Shape
  <2> QED
    BY <1>9, <2>1, <2>3 DEF Publish, Shape, counters, history
<1>10. ASSUME NEW t \in Tasks, ListExtras(t)
      PROVE  Shape'
  BY <1>10, ListExtrasRow
  DEF ListExtras, Shape, Moves, disk, counters, history
<1>11. ASSUME NEW t \in Tasks, DeleteExtra(t)
      PROVE  Shape'
  <2>1. task' \in [Tasks -> Row] /\ \A s \in Tasks : RowReady(task'[s])
    BY <1>11, DeleteExtraRow DEF Shape, Moves
  <2>2. generations' \subseteq File /\ IsFiniteSet(generations')
    BY <1>11, DeleteExtraRow, FS_Subset DEF Shape
  <2> QED
    BY <1>11, <2>1, <2>2 DEF DeleteExtra, Shape, history
<1>12. ASSUME NEW t \in Tasks, Created(t)
      PROVE  Shape'
  BY <1>12, CreatedRow
  DEF Created, Shape, Moves, disk, counters, history
<1>13. ASSUME NEW t \in Tasks, Replace(t)
      PROVE  Shape'
  BY <1>13, ReplaceRow
  DEF Replace, Shape, Moves, disk, counters, history
<1>14. ASSUME NEW t \in Tasks, DeleteDir(t)
      PROVE  Shape'
  <2>1. task' \in [Tasks -> Row] /\ \A s \in Tasks : RowReady(task'[s])
    BY <1>14, DeleteDirRows DEF Shape, Moves
  <2> QED
    BY <1>14, <2>1, FS_EmptySet DEF DeleteDir, Shape, disk, counters, history
<1>15. ASSUME NEW t \in Tasks, DeleteKey(t)
      PROVE  Shape'
  BY <1>15, DeleteKeyRows
  DEF DeleteKey, Shape, Moves, disk, counters, history
<1>16. ASSUME NEW t \in Tasks, WipeLedger(t)
      PROVE  Shape'
  BY <1>16, WipeLedgerRow
  DEF WipeLedger, Shape, Moves, disk, counters, history
<1>17. ASSUME NEW t \in Tasks, Throw(t)
      PROVE  Shape'
  BY <1>17, ThrowRow
  DEF Throw, Shape, Moves, disk, counters, history
<1>18. ASSUME Commit
      PROVE  Shape'
  BY <1>18
  DEF Commit, Shape, Moves, disk, counters, history
<1>19. ASSUME Kill
      PROVE  Shape'
  BY <1>19, IdleRow
  DEF Kill, Shape, Moves, disk, counters, history
<1>20. CASE UNCHANGED vars
  BY <1>20 DEF vars, disk, counters, history, Shape, Moves, disk, counters, history
<1> QED
  BY <1>1, <1>2, <1>3, <1>4, <1>5, <1>6, <1>7, <1>8, <1>9, <1>10, <1>11, <1>12, <1>13, <1>14,
     <1>15, <1>16, <1>17, <1>18, <1>19, <1>20 DEF Next, CreateStep, WipeStep

LEMMA BeginFields ==
  ASSUME Shape, NEW t \in Tasks, NEW kind \in Kinds, Begin(t, kind)
  PROVE  /\ task'[t].kind = kind
         /\ kind = "WIPE" => /\ task'[t].at = "DeleteDir"
                             /\ task'[t].since # None => Alone(t)
         /\ kind # "WIPE" => /\ task'[t].at = "MakeDir"
                             /\ task'[t].since # None => KeySettled /\ task'[t].since = ledger
         /\ \A s \in Tasks \ {t} :
              /\ task'[s].at = task[s].at /\ task'[s].kind = task[s].kind
              /\ IF task[s].kind = "WIPE" THEN task'[s].since = None ELSE task'[s] = task[s]
PROOF
<1>1. task[t] \in Row
  BY Typed
<1>2. ASSUME kind = "WIPE"
      PROVE  /\ task'[t].kind = kind /\ task'[t].at = "DeleteDir"
             /\ task'[t].since # None => Alone(t)
  <2>1. PICK since : since = IF Alone(t) THEN ledger ELSE None
    OBVIOUS
  <2>2. task'[t] = [task[t] EXCEPT !.kind = kind, !.at = "DeleteDir", !.since = since]
    BY <1>2, <2>1, BeginRows
  <2>3. task'[t].kind = kind /\ task'[t].at = "DeleteDir" /\ task'[t].since = since
    BY <1>1, <2>2 DEF Row
  <2> QED
    BY <2>1, <2>3
<1>3. ASSUME kind # "WIPE"
      PROVE  /\ task'[t].kind = kind /\ task'[t].at = "MakeDir"
             /\ task'[t].since # None => KeySettled /\ task'[t].since = ledger
  <2>1. PICK since : since = IF KeySettled THEN ledger ELSE None
    OBVIOUS
  <2>2. task'[t] = [task[t] EXCEPT !.kind = kind, !.at = "MakeDir", !.since = since]
    BY <1>3, <2>1, BeginRows
  <2>3. task'[t].kind = kind /\ task'[t].at = "MakeDir" /\ task'[t].since = since
    BY <1>1, <2>2 DEF Row
  <2> QED
    BY <2>1, <2>3
<1>4. ASSUME NEW s \in Tasks \ {t}
      PROVE  /\ task'[s].at = task[s].at /\ task'[s].kind = task[s].kind
             /\ IF task[s].kind = "WIPE" THEN task'[s].since = None ELSE task'[s] = task[s]
  <2>1. task[s] \in Row
    BY Typed
  <2>2. CASE task[s].kind = "WIPE"
    <3>1. task'[s] = [task[s] EXCEPT !.since = None]
      BY <2>2, BeginRows
    <3> QED
      BY <2>1, <2>2, <3>1 DEF Row
  <2>3. CASE task[s].kind # "WIPE"
    BY <2>3, BeginRows
  <2> QED
    BY <2>2, <2>3
<1> QED
  BY <1>2, <1>3, <1>4

LEMMA DeleteFields ==
  ASSUME Shape, NEW t \in Tasks, DeleteDir(t) \/ DeleteKey(t)
  PROVE  /\ task[t].kind = "WIPE" /\ task'[t].kind = "WIPE" /\ task'[t].since = task[t].since
         /\ \A s \in Tasks \ {t} : task'[s].at = task[s].at /\ task'[s].since = None
PROOF
<1>1. task[t] \in Row /\ task[t].kind = "WIPE"
  BY Typed DEF DeleteDir, DeleteKey, At, RowReady, WipeSteps
<1>2. \/ task'[t] = [task[t] EXCEPT !.at = "DeleteKey"]
      \/ task'[t] = [task[t] EXCEPT !.at = "WipeLedger"]
  BY DeleteDirRows, DeleteKeyRows
<1>3. ASSUME NEW s \in Tasks \ {t}
      PROVE  task'[s].at = task[s].at /\ task'[s].since = None
  <2>1. task[s] \in Row
    BY Typed
  <2>2. \/ task'[s] = [task[s] EXCEPT !.pending = FALSE, !.since = None]
        \/ task'[s] = [task[s] EXCEPT !.since = None]
    BY DeleteDirRows, DeleteKeyRows
  <2> QED
    BY <2>1, <2>2 DEF Row
<1> QED
  BY <1>1, <1>2, <1>3 DEF Row

(* What the steps that work on a generation change of the task's row.      *)

LEMMA CaptureFields ==
  ASSUME Shape, NEW t \in Tasks, Capture(t)
  PROVE  /\ task[t].at = "Capture" /\ task'[t].at = "ReadKey"
         /\ task'[t].ledger = ledger
         /\ task'[t].kind = task[t].kind /\ task'[t].since = task[t].since
         /\ ~task'[t].pending /\ task'[t].extras = {}
PROOF
<1>1. task[t].at = "Capture" /\ task[t] \in Row /\ RowReady(task[t])
  BY Typed DEF Capture, At
<1>2. task'[t] = [task[t] EXCEPT !.ledger = ledger, !.at = "ReadKey"]
  BY CaptureRow DEF Moves
<1> QED
  BY <1>1, <1>2 DEF Row, RowReady

LEMMA ReadKeyFields ==
  ASSUME Shape, NEW t \in Tasks, ReadKey(t)
  PROVE  /\ task[t].at = "ReadKey"
         /\ task'[t].at = IF key = None THEN "MakeKey" ELSE "Write"
         /\ task'[t].key = key /\ task'[t].ledger = task[t].ledger
         /\ task'[t].kind = task[t].kind /\ task'[t].since = task[t].since
         /\ ~task'[t].pending /\ task'[t].extras = {}
PROOF
<1>1. CASE key = None
  <2>1. task'[t] = [task[t] EXCEPT !.key = key, !.at = "MakeKey"]
    BY <1>1, ReadKeyRow DEF Moves
  <2> QED
    BY <1>1, <2>1, Typed DEF ReadKey, At, Row, RowReady
<1>2. CASE key # None
  <2>1. task'[t] = [task[t] EXCEPT !.key = key, !.at = "Write"]
    BY <1>2, ReadKeyRow DEF Moves
  <2> QED
    BY <1>2, <2>1, Typed DEF ReadKey, At, Row, RowReady
<1> QED
  BY <1>1, <1>2

LEMMA MakeKeyFields ==
  ASSUME Shape, NEW t \in Tasks, MakeKey(t)
  PROVE  /\ task[t].at = "MakeKey" /\ task'[t].at = "Write"
         /\ task'[t].key = lastKey + 1 /\ task'[t].ledger = task[t].ledger
         /\ task'[t].kind = task[t].kind /\ task'[t].since = task[t].since
         /\ ~task'[t].pending /\ task'[t].extras = {}
PROOF
<1>1. task[t].at = "MakeKey" /\ task[t] \in Row /\ RowReady(task[t])
  BY Typed DEF MakeKey, At
<1>2. task'[t] = [task[t] EXCEPT !.key = lastKey + 1, !.at = "Write"]
  BY MakeKeyRow DEF Moves
<1> QED
  BY <1>1, <1>2 DEF Row, RowReady

LEMMA WriteFields ==
  ASSUME Shape, NEW t \in Tasks, Write(t)
  PROVE  /\ task[t].at = "Write" /\ task'[t].extras = {}
         /\ \/ task'[t] = Idle /\ behind' = behind
            \/ /\ task'[t].at = "Verify" /\ task'[t].stamp \in Stamps \ Taken
               /\ task'[t].ledger = task[t].ledger /\ task'[t].key = task[t].key
               /\ task'[t].kind = task[t].kind
               /\ task'[t].since = IF SetBack(task'[t].stamp) THEN None ELSE task[t].since
               /\ behind' = (behind \/ SetBack(task'[t].stamp))
PROOF
<1>1. task[t].at = "Write" /\ task[t] \in Row /\ RowReady(task[t])
  BY Typed DEF Write, At
<1>2. CASE Moves(t, Idle) /\ behind' = behind
  BY <1>1, <1>2 DEF Moves, Idle
<1>3. ASSUME NEW s \in Stamps \ Taken, behind' = (behind \/ SetBack(s)),
             Moves(t, [task[t] EXCEPT !.stamp = s, !.pending = TRUE, !.at = "Verify",
                                      !.since = IF SetBack(s) THEN None ELSE @])
      PROVE  /\ task'[t].extras = {}
             /\ task'[t].at = "Verify" /\ task'[t].stamp \in Stamps \ Taken
             /\ task'[t].ledger = task[t].ledger /\ task'[t].key = task[t].key
             /\ task'[t].kind = task[t].kind
             /\ task'[t].since = IF SetBack(task'[t].stamp) THEN None ELSE task[t].since
             /\ behind' = (behind \/ SetBack(task'[t].stamp))
  <2>1. PICK since : since = IF SetBack(s) THEN None ELSE task[t].since
    OBVIOUS
  <2>2. task'[t] = [task[t] EXCEPT !.stamp = s, !.pending = TRUE, !.at = "Verify",
                                   !.since = since]
    BY <1>3, <2>1 DEF Moves
  <2>3. /\ task'[t].extras = {} /\ task'[t].at = "Verify" /\ task'[t].stamp = s
        /\ task'[t].ledger = task[t].ledger /\ task'[t].key = task[t].key
        /\ task'[t].kind = task[t].kind /\ task'[t].since = since
    BY <1>1, <2>2 DEF Row, RowReady
  <2> QED
    BY <1>3, <2>1, <2>3
<1> QED
  BY <1>1, <1>2, <1>3, WriteRow

(* A file that is not named behind another has the latest name of all that *)
(* are written.                                                            *)
LEMMA NamedLast ==
  ASSUME Shape, NEW s \in Stamps \ Taken, ~SetBack(s), NEW g \in Written
  PROVE  g.stamp \in Nat /\ g.stamp < s
PROOF
<1>1. s \in Nat
  BY GenerationBounds DEF Stamps
<1>2. CASE g \in generations
  BY <1>1, <1>2 DEF Shape, File, SetBack, Taken
<1>3. ASSUME NEW t \in Tasks, task[t].pending, g = GenerationOf(t)
      PROVE  g.stamp \in Nat /\ g.stamp < s
  <2>1. task[t].stamp \in Nat
    BY <1>3, Typed DEF Row, RowReady, HasLedger, HasKey, HasStamp
  <2>2. g.stamp = task[t].stamp /\ task[t].stamp # s /\ ~(task[t].stamp > s)
    BY <1>3 DEF GenerationOf, SetBack, Taken
  <2> QED
    BY <1>1, <2>1, <2>2
<1> QED
  BY <1>2, <1>3 DEF Written, Verified

LEMMA VerifyFields ==
  ASSUME Shape, NEW t \in Tasks, Verify(t)
  PROVE  /\ task[t].at = "Verify" /\ task'[t].extras = {}
         /\ \/ task'[t] = Idle
            \/ /\ task[t].pending /\ task[t].key = key /\ key # None
               /\ task'[t].at = "Publish"
               /\ task'[t].ledger = task[t].ledger /\ task'[t].key = task[t].key
               /\ task'[t].stamp = task[t].stamp
               /\ task'[t].kind = task[t].kind /\ task'[t].since = task[t].since
PROOF
<1>1. CASE task[t].pending /\ key # None /\ task[t].key = key
  <2>1. task'[t] = [task[t] EXCEPT !.at = "Publish"]
    BY <1>1, VerifyRow DEF Moves
  <2> QED
    BY <1>1, <2>1, Typed DEF Verify, At, Row, RowReady
<1>2. CASE ~(task[t].pending /\ key # None /\ task[t].key = key)
  <2>1. task'[t] = Idle
    BY <1>2, VerifyRow DEF Moves
  <2> QED
    BY <1>2, <2>1, Typed DEF Verify, At, Idle
<1> QED
  BY <1>1, <1>2

LEMMA PublishFields ==
  ASSUME Shape, NEW t \in Tasks, Publish(t)
  PROVE  /\ task[t].at = "Publish" /\ task'[t].extras = {} /\ ~task'[t].pending
         /\ \/ task'[t] = Idle /\ generations' = generations
            \/ /\ task[t].pending /\ task'[t].at = "ListExtras"
               /\ generations' = generations \cup {GenerationOf(t)}
               /\ task'[t].ledger = task[t].ledger /\ task'[t].key = task[t].key
               /\ task'[t].stamp = task[t].stamp
               /\ task'[t].kind = task[t].kind /\ task'[t].since = task[t].since
PROOF
<1>1. CASE task[t].pending
  <2>1. task'[t] = [task[t] EXCEPT !.pending = FALSE, !.at = "ListExtras"]
    BY <1>1, PublishRow DEF Moves
  <2> QED
    BY <1>1, <2>1, Typed DEF Publish, At, Row, RowReady
<1>2. CASE ~task[t].pending
  <2>1. task'[t] = Idle
    BY <1>2, PublishRow DEF Moves
  <2> QED
    BY <1>2, <2>1, Typed DEF Publish, At, Idle
<1> QED
  BY <1>1, <1>2

LEMMA ListExtrasFields ==
  ASSUME Shape, NEW t \in Tasks, ListExtras(t)
  PROVE  /\ task[t].at = "ListExtras" /\ task'[t].at = "DeleteExtras"
         /\ task'[t].extras = {g \in generations : Cardinality(Newer(g)) >= Keep}
         /\ task'[t].ledger = task[t].ledger /\ task'[t].key = task[t].key
         /\ task'[t].stamp = task[t].stamp /\ ~task'[t].pending
         /\ task'[t].kind = task[t].kind /\ task'[t].since = task[t].since
PROOF
BY Typed, ListExtrasRow DEF Moves, ListExtras, At, Row, RowReady

-----------------------------------------------------------------------------
(* A step that takes no snapshot, makes no key, writes no file, publishes  *)
(* none and lists none leaves every task with no more than it had.         *)

Lighter(s) ==
  /\ task'[s].at \in HasLedger =>
       task[s].at \in HasLedger /\ task'[s].ledger = task[s].ledger
  /\ task'[s].at \in HasKey => task[s].at \in HasKey /\ task'[s].key = task[s].key
  /\ task'[s].at \in HasStamp => task[s].at \in HasStamp /\ task'[s].stamp = task[s].stamp
  /\ task'[s].at \in Unpublished => task[s].at \in Unpublished
  /\ task'[s].at \in Published => task[s].at \in Published
  /\ task'[s].pending => task[s].pending /\ task'[s].at = task[s].at
  /\ task'[s].extras \subseteq task[s].extras

Quiet ==
  /\ \A s \in Tasks : Lighter(s)
  /\ generations' \subseteq generations /\ lastKey' = lastKey /\ behind' = behind

Loud(t) == \/ Capture(t) \/ ReadKey(t) \/ MakeKey(t) \/ Write(t) \/ Verify(t) \/ Publish(t)
           \/ ListExtras(t)

LEMMA IdleIsLight ==
  ASSUME Shape, Shape', NEW s \in Tasks, task'[s].at \notin HasLedger
  PROVE  Lighter(s)
PROOF
<1>1. task'[s] \in Row /\ RowReady(task'[s])
  BY DEF Shape
<1>2. ~task'[s].pending /\ task'[s].extras = {}
  BY <1>1 DEF Row, RowReady, HasLedger
<1> QED
  BY <1>1, <1>2 DEF Lighter, Unpublished, Published, HasLedger, HasKey, HasStamp

LEMMA SameIsLight == \A s \in Tasks : task'[s] = task[s] => Lighter(s)
PROOF
BY DEF Lighter

LEMMA OtherRows ==
  ASSUME Shape, NEW t \in Tasks, Loud(t)
  PROVE  \A s \in Tasks \ {t} : task'[s] = task[s]
PROOF
BY CaptureRow, ReadKeyRow, MakeKeyRow, WriteRow, VerifyRow, PublishRow, ListExtrasRow
DEF Loud, Moves

LEMMA Calls == ASSUME Shape, [Next]_vars PROVE Quiet \/ \E t \in Tasks : Loud(t)
PROOF
<1>0. Shape'
  BY ShapeStep
<1>1. ASSUME NEW t \in Tasks, NEW kind \in Kinds, Begin(t, kind)
      PROVE  Quiet
  <2>1. Lighter(t)
    <3>1. task'[t].at \in {"DeleteDir", "MakeDir"}
      BY <1>1, BeginFields
    <3> QED
      BY <1>0, <3>1, IdleIsLight DEF HasLedger
  <2>2. ASSUME NEW s \in Tasks \ {t}
        PROVE  Lighter(s)
    <3>1. task[s] \in Row /\ task'[s] \in {task[s], [task[s] EXCEPT !.since = None]}
      BY <1>1, BeginRows, Typed
    <3> QED
      BY <3>1 DEF Row, Lighter
  <2> QED
    BY <1>1, <2>1, <2>2 DEF Begin, BeginAt, disk, history, Quiet
<1>2. ASSUME NEW t \in Tasks, MakeDir(t)
      PROVE  Quiet
  BY <1>0, <1>2, MakeDirRow, Typed, IdleIsLight, SameIsLight
  DEF MakeDir, Moves, disk, counters, history, Quiet, Row, HasLedger
<1>3. ASSUME NEW t \in Tasks, RecentEnough(t)
      PROVE  Quiet
  BY <1>0, <1>3, RecentEnoughRow, IdleIsLight, SameIsLight
  DEF RecentEnough, Moves, disk, counters, history, Quiet, Idle, HasLedger
<1>4. ASSUME NEW t \in Tasks, DeleteExtra(t)
      PROVE  Quiet
  <2>1. PICK g \in task[t].extras :
          /\ Moves(t, [task[t] EXCEPT !.extras = @ \ {g}])
          /\ generations' = generations \/ generations' = generations \ {g}
    BY <1>4, DeleteExtraRow
  <2>2. Lighter(t)
    BY <2>1, Typed DEF Moves, Lighter, Row
  <2> QED
    BY <1>4, <2>1, <2>2, SameIsLight DEF DeleteExtra, Moves, history, Quiet
<1>5. ASSUME NEW t \in Tasks, Created(t)
      PROVE  Quiet
  <2>1. Lighter(t)
    <3>1. CASE task'[t] = Idle
      BY <1>0, <3>1, IdleIsLight DEF Idle, HasLedger
    <3>2. CASE task'[t] # Idle
      <4>1. /\ task[t] \in Row /\ RowReady(task[t]) /\ task[t].at = "DeleteExtras"
            /\ task'[t] = [task[t] EXCEPT !.at = "Replace"]
        BY <1>5, <3>2, CreatedRow, Typed DEF Created, At, Moves
      <4> QED
        BY <4>1 DEF Lighter, Row, RowReady, Unpublished, Published, HasLedger, HasKey, HasStamp
    <3> QED
      BY <3>1, <3>2
  <2> QED
    BY <1>5, <2>1, CreatedRow, SameIsLight DEF Created, Moves, disk, counters, history, Quiet
<1>6. ASSUME NEW t \in Tasks, Replace(t)
      PROVE  Quiet
  BY <1>0, <1>6, ReplaceRow, IdleIsLight, SameIsLight
  DEF Replace, Moves, disk, counters, history, Quiet, Idle, HasLedger
<1>7. ASSUME NEW t \in Tasks, DeleteDir(t)
      PROVE  Quiet
  <2>1. Lighter(t)
    BY <1>0, <1>7, DeleteDirRows, Typed, IdleIsLight DEF Row, HasLedger
  <2>2. ASSUME NEW s \in Tasks \ {t}
        PROVE  Lighter(s)
    <3>1. task[s] \in Row /\ task'[s] = [task[s] EXCEPT !.pending = FALSE, !.since = None]
      BY <1>7, DeleteDirRows, Typed
    <3> QED
      BY <3>1 DEF Row, Lighter
  <2> QED
    BY <1>7, <2>1, <2>2 DEF DeleteDir, disk, counters, history, Quiet
<1>8. ASSUME NEW t \in Tasks, DeleteKey(t)
      PROVE  Quiet
  <2>1. Lighter(t)
    BY <1>0, <1>8, DeleteKeyRows, Typed, IdleIsLight DEF Row, HasLedger
  <2>2. ASSUME NEW s \in Tasks \ {t}
        PROVE  Lighter(s)
    <3>1. task[s] \in Row /\ task'[s] = [task[s] EXCEPT !.since = None]
      BY <1>8, DeleteKeyRows, Typed
    <3> QED
      BY <3>1 DEF Row, Lighter
  <2> QED
    BY <1>8, <2>1, <2>2 DEF DeleteKey, disk, counters, history, Quiet
<1>9. ASSUME NEW t \in Tasks, WipeLedger(t)
      PROVE  Quiet
  BY <1>0, <1>9, WipeLedgerRow, IdleIsLight, SameIsLight
  DEF WipeLedger, Moves, disk, counters, history, Quiet, Idle, HasLedger
<1>10. ASSUME NEW t \in Tasks, Throw(t)
      PROVE  Quiet
  BY <1>0, <1>10, ThrowRow, IdleIsLight, SameIsLight
  DEF Throw, Moves, disk, counters, history, Quiet, Idle, HasLedger
<1>11. ASSUME Commit
      PROVE  Quiet
  BY <1>11, SameIsLight DEF Commit, disk, history, Quiet
<1>12. ASSUME Kill
      PROVE  Quiet
  BY <1>0, <1>12, IdleIsLight DEF Kill, disk, history, Quiet, Idle, HasLedger
<1>13. CASE UNCHANGED vars
  BY <1>13, SameIsLight DEF vars, disk, counters, history, Quiet
<1> QED
  BY <1>1, <1>2, <1>3, <1>4, <1>5, <1>6, <1>7, <1>8, <1>9, <1>10, <1>11, <1>12, <1>13 DEF Next,
     CreateStep, WipeStep, Loud

-----------------------------------------------------------------------------
(* No step makes a file whose key is newer than the last one.              *)
LEMMA KeysMadeStep == ASSUME Shape, KeysMade, [Next]_vars PROVE KeysMade'
PROOF
<1>1. CASE Quiet
  BY <1>1 DEF Quiet, Lighter, KeysMade
<1>2. ASSUME NEW t \in Tasks, Loud(t)
      PROVE  KeysMade'
  <2>1. /\ task[t] \in Row /\ RowReady(task[t]) /\ lastKey \in Nat
        /\ key \in {lastKey, None} /\ generations \subseteq File
        /\ \A s \in Tasks : task[s].at \in HasKey => task[s].key \in Nat
    BY Typed DEF Shape, Row, RowReady
  <2>2. /\ lastKey' \in {lastKey, lastKey + 1}
        /\ MakeKey(t) => lastKey' = lastKey + 1
        /\ \A s \in Tasks \ {t} : task'[s] = task[s]
    BY <1>2, OtherRows DEF Loud, Capture, ReadKey, MakeKey, Write, Verify, Publish, ListExtras,
       counters
  <2>3. task'[t].at \in HasKey =>
          \/ MakeKey(t) /\ task'[t].key = lastKey + 1
          \/ task'[t].key = key /\ key # None
          \/ task[t].at \in HasKey /\ task'[t].key = task[t].key
    BY <1>2, CaptureFields, ReadKeyFields, MakeKeyFields, WriteFields, VerifyFields,
       PublishFields, ListExtrasFields DEF Loud, Idle, HasLedger, HasKey
  <2>4. task'[t].at \in HasKey => task'[t].key =< lastKey'
    BY <2>1, <2>2, <2>3 DEF KeysMade
  <2>5. \/ generations' = generations
        \/ generations' = generations \cup {GenerationOf(t)} /\ task[t].at \in HasKey
    BY <1>2, PublishFields DEF Loud, Capture, ReadKey, MakeKey, Write, Verify, ListExtras, disk,
       HasLedger, HasKey
  <2>6. \A g \in generations : g.key \in Nat
    BY <2>1 DEF File
  <2>7. \A g \in generations' : g.key =< lastKey'
    BY <2>1, <2>2, <2>5, <2>6 DEF KeysMade, GenerationOf
  <2> QED
    BY <2>1, <2>2, <2>4, <2>7 DEF KeysMade
<1> QED
  BY <1>1, <1>2, Calls

-----------------------------------------------------------------------------
(* A step that writes and publishes no file leaves every candidate as it   *)
(* was, and marks for deletion only files that are there.                  *)

Calm ==
  /\ generations' \subseteq generations
  /\ \A s \in Tasks :
       /\ task'[s].pending => /\ task[s].pending
                              /\ task'[s].stamp = task[s].stamp
                              /\ GenerationOf(s)' = GenerationOf(s)
       /\ task'[s].extras \subseteq task[s].extras \cup generations

LEMMA CalmSteps ==
  ASSUME Shape, [Next]_vars, \A t \in Tasks : ~Write(t) /\ ~Publish(t)
  PROVE  /\ Calm
         /\ (\A t \in Tasks : ~Verify(t)) =>
              \A s \in Tasks : task'[s].pending => task'[s].at = task[s].at
PROOF
<1> DEFINE stays == (\A t \in Tasks : ~Verify(t)) =>
                      \A s \in Tasks : task'[s].pending => task'[s].at = task[s].at
<1>1. CASE Quiet
  <2>1. ASSUME NEW s \in Tasks, task'[s].pending
        PROVE  task'[s].at \in HasStamp
    BY <2>1, ShapeStep DEF Shape, RowReady, HasLedger, HasKey, HasStamp
  <2> QED
    BY <1>1, <2>1 DEF Quiet, Lighter, Calm, GenerationOf, HasLedger, HasKey, HasStamp
<1>2. ASSUME NEW t \in Tasks, Loud(t)
      PROVE  Calm /\ stays
  <2>1. generations' = generations
    BY <1>2 DEF Loud, Capture, ReadKey, MakeKey, Verify, ListExtras, disk
  <2>2. /\ task'[t].pending => /\ task[t].pending
                               /\ task'[t].stamp = task[t].stamp
                               /\ GenerationOf(t)' = GenerationOf(t)
                               /\ Verify(t)
        /\ task'[t].extras \subseteq task[t].extras \cup generations
    BY <1>2, CaptureFields, ReadKeyFields, MakeKeyFields, VerifyFields, ListExtrasFields
    DEF Loud, Idle, GenerationOf
  <2>3. \A s \in Tasks \ {t} : task'[s] = task[s]
    BY <1>2, OtherRows
  <2> QED
    BY <2>1, <2>2, <2>3 DEF Calm, GenerationOf
<1> QED
  BY <1>1, <1>2, Calls

-----------------------------------------------------------------------------
(* No two files ever have the same stamp.                                  *)
LEMMA ApartStep == ASSUME Shape, Apart, [Next]_vars PROVE Apart'
PROOF
<1>1. CASE Calm
  BY <1>1 DEF Calm, Apart
<1>2. ASSUME NEW t \in Tasks, Write(t)
      PROVE  Apart'
  <2>0. /\ generations' = generations
        /\ task'[t].extras = {} /\ (task'[t].pending => task'[t].stamp \notin Taken)
        /\ \A s \in Tasks \ {t} : task'[s] = task[s]
    <3>1. \A s \in Tasks \ {t} : task'[s] = task[s]
      BY <1>2, OtherRows DEF Loud
    <3>2. generations' = generations
      BY <1>2 DEF Write, disk
    <3>3. ~Idle.pending /\ Idle.at # "Publish"
      BY DEF Idle
    <3> QED
      BY <1>2, <3>1, <3>2, <3>3, WriteFields
  <2>1. /\ \A g \in generations : g.stamp \in Taken
        /\ \A s \in Tasks : task[s].stamp \in Taken
        /\ \A s \in Tasks : \A g \in task[s].extras : g.stamp \in Taken
    BY DEF Taken
  <2> QED
    BY <2>0, <2>1 DEF Apart
<1>3. ASSUME NEW t \in Tasks, Publish(t)
      PROVE  Apart'
  <2>0. /\ ~task'[t].pending /\ task'[t].extras = {}
        /\ \A s \in Tasks \ {t} : task'[s] = task[s]
        /\ \/ generations' = generations
           \/ task[t].pending /\ generations' = generations \cup {GenerationOf(t)}
    BY <1>3, PublishFields, OtherRows DEF Loud
  <2>1. GenerationOf(t).stamp = task[t].stamp
    BY DEF GenerationOf
  <2> QED
    BY <2>0, <2>1 DEF Apart
<1> QED
  BY <1>1, <1>2, <1>3, CalmSteps

-----------------------------------------------------------------------------
(* The written files are ordered by their keys, and the files about to be  *)
(* pruned have a newer one.                                                *)

LEMMA WrittenFiles ==
  ASSUME Shape, KeysMade, NEW g \in Written
  PROVE  g \in File /\ g.key =< lastKey
PROOF
<1>1. CASE g \in generations
  BY <1>1 DEF Shape, KeysMade
<1>2. ASSUME NEW t \in Tasks, task[t].pending, g = GenerationOf(t)
      PROVE  g \in File /\ g.key =< lastKey
  <2>1. task[t] \in Row /\ RowReady(task[t]) /\ task[t].at \in HasStamp
    BY <1>2, Typed DEF RowReady, HasLedger, HasKey, HasStamp
  <2> QED
    BY <1>2, <2>1 DEF GenerationOf, File, Row, RowReady, KeysMade, HasLedger, HasKey, HasStamp
<1> QED
  BY <1>1, <1>2 DEF Written, Verified

LEMMA WrittenSteps ==
  ASSUME Shape, [Next]_vars
  PROVE  \/ /\ \A g \in Verified' : g \in Verified \/ (g.key = key /\ key = lastKey)
            /\ Written' \subseteq Written /\ behind' = behind
         \/ /\ Verified' \subseteq Verified
            /\ \E s \in Stamps \ Taken :
                 /\ \A g \in Written' : g \in Written \/ g.stamp = s
                 /\ behind' = (behind \/ SetBack(s))
PROOF
<1>1. ASSUME NEW t \in Tasks, Write(t)
      PROVE  \/ Verified' \subseteq Verified /\ Written' \subseteq Written /\ behind' = behind
             \/ /\ Verified' \subseteq Verified
                /\ \E s \in Stamps \ Taken :
                     /\ \A g \in Written' : g \in Written \/ g.stamp = s
                     /\ behind' = (behind \/ SetBack(s))
  <2>1. /\ generations' = generations
        /\ task'[t].at # "Publish"
        /\ \A s \in Tasks \ {t} : task'[s] = task[s]
    <3>1. \A s \in Tasks \ {t} : task'[s] = task[s]
      BY <1>1, OtherRows DEF Loud
    <3>2. generations' = generations
      BY <1>1 DEF Write, disk
    <3> QED
      BY <1>1, <3>1, <3>2, WriteFields DEF Idle
  <2>2. Verified' \subseteq Verified
    BY <2>1 DEF Verified, At, GenerationOf
  <2>3. CASE task'[t] = Idle /\ behind' = behind
    BY <2>1, <2>2, <2>3 DEF Verified, Written, At, GenerationOf, Idle
  <2>4. CASE ~(task'[t] = Idle /\ behind' = behind)
    <3>1. PICK s \in Stamps \ Taken : s = task'[t].stamp /\ behind' = (behind \/ SetBack(s))
      BY <1>1, <2>4, WriteFields
    <3>2. \A g \in Written' : g \in Written \/ g.stamp = s
      BY <2>1, <3>1 DEF Verified, Written, At, GenerationOf
    <3> QED
      BY <2>2, <3>1, <3>2
  <2> QED
    BY <2>3, <2>4
<1>2. ASSUME NEW t \in Tasks, Verify(t)
      PROVE  /\ \A g \in Verified' : g \in Verified \/ (g.key = key /\ key = lastKey)
             /\ Written' \subseteq Written /\ behind' = behind
  <2>0. behind' = behind
    BY <1>2 DEF Verify, history
  <2>1. /\ generations' = generations
        /\ \A s \in Tasks \ {t} : task'[s] = task[s]
        /\ \/ task'[t] = Idle
           \/ /\ task[t].pending /\ task[t].at = "Verify"
              /\ task[t].key = key /\ key # None
              /\ task'[t].stamp = task[t].stamp /\ task'[t].ledger = task[t].ledger
              /\ task'[t].key = task[t].key
    BY <1>2, VerifyFields, OtherRows DEF Verify, Loud, disk
  <2>2. Written' \subseteq Written
    BY <2>1 DEF Written, Verified, At, GenerationOf, Idle
  <2>3. task'[t] = Idle \/ (GenerationOf(t)'.key = key /\ key = lastKey)
    BY <2>1 DEF GenerationOf, Shape
  <2>4. \A g \in Verified' : g \in Verified \/ (g.key = key /\ key = lastKey)
    BY <2>1, <2>3 DEF Verified, At, GenerationOf, Idle
  <2> QED
    BY <2>0, <2>2, <2>4
<1>3. ASSUME NEW t \in Tasks, Publish(t)
      PROVE  Verified' \subseteq Verified /\ Written' \subseteq Written /\ behind' = behind
  <2>0. behind' = behind
    BY <1>3 DEF Publish, history
  <2>1. /\ task[t].at = "Publish" /\ ~task'[t].pending
        /\ \A s \in Tasks \ {t} : task'[s] = task[s]
        /\ \/ generations' = generations
           \/ task[t].pending /\ generations' = generations \cup {GenerationOf(t)}
    BY <1>3, PublishFields, OtherRows DEF Loud
  <2> QED
    BY <2>0, <2>1 DEF Verified, Written, At, GenerationOf
<1>4. ASSUME Calm, \A t \in Tasks : ~Verify(t) /\ ~Write(t) /\ ~Publish(t)
      PROVE  Verified' \subseteq Verified /\ Written' \subseteq Written /\ behind' = behind
  <2>0. behind' = behind
    <3>1. CASE Quiet
      BY <3>1 DEF Quiet
    <3>2. ASSUME NEW t \in Tasks, Loud(t)
          PROVE  behind' = behind
      BY <1>4, <3>2 DEF Loud, Capture, ReadKey, MakeKey, ListExtras, history
    <3> QED
      BY <3>1, <3>2, Calls
  <2>1. \A s \in Tasks : task'[s].pending => task'[s].at = task[s].at
    BY <1>4, CalmSteps
  <2> QED
    BY <1>4, <2>0, <2>1 DEF Calm, Verified, Written, At
<1> QED
  BY <1>1, <1>2, <1>3, <1>4, CalmSteps

LEMMA OrderedStep == ASSUME Shape, KeysMade, Ordered, [Next]_vars PROVE Ordered'
PROOF
<1>1. ASSUME ~behind', NEW h \in Verified', NEW g \in Written', h.stamp > g.stamp
      PROVE  h.key >= g.key
  <2>1. CASE ~behind /\ h \in Verified /\ g \in Written
    BY <1>1, <2>1 DEF Ordered
  <2>2. ASSUME NEW s \in Stamps \ Taken, ~SetBack(s), h \in Verified, g.stamp = s
        PROVE  FALSE
    <3>1. h \in Written
      BY <2>2 DEF Written
    <3>2. h.stamp \in Nat /\ h.stamp < s /\ s \in Nat
      BY <2>2, <3>1, NamedLast, GenerationBounds DEF Stamps
    <3> QED
      BY <1>1, <2>2, <3>2
  <2>3. CASE h.key = lastKey /\ g \in Written
    BY <2>3, WrittenFiles DEF File, Shape
  <2> QED
    BY <1>1, <2>1, <2>2, <2>3, WrittenSteps
<1> QED
  BY <1>1 DEF Ordered

LEMMA NewerGrows ==
  ASSUME NEW S, NEW T, NEW files, S \subseteq T, T \subseteq files, IsFiniteSet(files),
         Cardinality(S) >= Keep
  PROVE  Cardinality(T) >= Keep
PROOF
<1>1. IsFiniteSet(T)
  BY FS_Subset
<1>2. IsFiniteSet(S) /\ Cardinality(S) =< Cardinality(T)
  BY <1>1, FS_Subset
<1>3. Cardinality(S) \in Nat /\ Cardinality(T) \in Nat /\ Keep \in Nat
  BY <1>1, <1>2, FS_CardinalityType, GenerationBounds
<1> QED
  BY <1>2, <1>3

LEMMA ExtrasHaveNewerStep ==
  ASSUME Shape, Apart, ExtrasHaveNewer, [Next]_vars
  PROVE  ExtrasHaveNewer'
PROOF
<1>0. IsFiniteSet(generations')
  BY ShapeStep DEF Shape
<1>1. ASSUME \A s \in Tasks : task'[s].extras \subseteq task[s].extras, generations' = generations
      PROVE  ExtrasHaveNewer'
  BY <1>1 DEF ExtrasHaveNewer, Newer
<1>2. ASSUME NEW t \in Tasks, ListExtras(t)
      PROVE  ExtrasHaveNewer'
  <2>1. /\ generations' = generations
        /\ task'[t].extras = {g \in generations : Cardinality(Newer(g)) >= Keep}
        /\ \A s \in Tasks \ {t} : task'[s] = task[s]
    BY <1>2, ListExtrasFields, ListExtrasRow DEF ListExtras, Moves, disk
  <2> QED
    BY <2>1 DEF ExtrasHaveNewer, Newer
<1>3. ASSUME NEW t \in Tasks, Publish(t)
      PROVE  ExtrasHaveNewer'
  <2>1. /\ task'[t].extras = {} /\ \A s \in Tasks \ {t} : task'[s] = task[s]
        /\ \/ generations' = generations
           \/ task[t].pending /\ generations' = generations \cup {GenerationOf(t)}
    BY <1>3, PublishFields, PublishRow DEF Moves
  <2>2. task[t].pending => \A s \in Tasks : GenerationOf(t) \notin task[s].extras
    BY DEF Apart, GenerationOf
  <2>3. ASSUME NEW s \in Tasks, NEW e \in task'[s].extras \cap generations'
        PROVE  Cardinality(Newer(e)') >= Keep
    <3>1. e \in task[s].extras /\ e \in generations
      BY <2>1, <2>2, <2>3
    <3>2. Cardinality(Newer(e)) >= Keep
      BY <3>1 DEF ExtrasHaveNewer
    <3>3. Newer(e) \subseteq Newer(e)' /\ Newer(e)' \subseteq generations'
      BY <2>1 DEF Newer
    <3> QED
      BY <1>0, <3>2, <3>3, NewerGrows
  <2> QED
    BY <2>3 DEF ExtrasHaveNewer
<1>4. ASSUME NEW t \in Tasks, DeleteExtra(t)
      PROVE  ExtrasHaveNewer'
  <2>1. PICK g \in task[t].extras :
          /\ task'[t].extras = task[t].extras \ {g} /\ \A s \in Tasks \ {t} : task'[s] = task[s]
          /\ generations' = generations \/ generations' = generations \ {g}
    <3>1. PICK g \in task[t].extras :
            /\ Moves(t, [task[t] EXCEPT !.extras = @ \ {g}])
            /\ generations' = generations \/ generations' = generations \ {g}
      BY <1>4, DeleteExtraRow
    <3> QED
      BY <3>1, Typed DEF Moves, Row
  <2>2. ASSUME NEW s \in Tasks, NEW e \in task'[s].extras \cap generations'
        PROVE  Cardinality(Newer(e)') >= Keep
    <3>1. e \in task[s].extras /\ e \in generations
      BY <2>1, <2>2
    <3>2. Cardinality(Newer(e)) >= Keep
      BY <3>1 DEF ExtrasHaveNewer
    <3>3. CASE Newer(e) \subseteq generations'
      <4>1. Newer(e) \subseteq Newer(e)' /\ Newer(e)' \subseteq generations'
        BY <3>3 DEF Newer
      <4> QED
        BY <1>0, <3>2, <4>1, NewerGrows
    <3>4. CASE ~(Newer(e) \subseteq generations')
      <4>1. g \in generations /\ g.stamp > e.stamp /\ generations' = generations \ {g}
        BY <2>1, <3>4 DEF Newer
      <4>2. Cardinality(Newer(g)) >= Keep
        BY <2>1, <4>1 DEF ExtrasHaveNewer
      <4>3. generations \subseteq File /\ e \in File /\ g \in File
        BY <3>1, <4>1 DEF Shape
      <4>4. \A h \in Newer(g) : h.stamp > e.stamp /\ h # g
        BY <4>1, <4>3 DEF Newer, File
      <4>5. Newer(g) \subseteq Newer(e)' /\ Newer(e)' \subseteq generations'
        BY <4>1, <4>4 DEF Newer
      <4> QED
        BY <1>0, <4>2, <4>5, NewerGrows
    <3> QED
      BY <3>3, <3>4
  <2> QED
    BY <2>2 DEF ExtrasHaveNewer
<1>5. ASSUME NEW t \in Tasks, DeleteDir(t)
      PROVE  ExtrasHaveNewer'
  BY <1>5 DEF DeleteDir, ExtrasHaveNewer
<1>6. ASSUME \A t \in Tasks : ~ListExtras(t) /\ ~Publish(t) /\ ~DeleteExtra(t) /\ ~DeleteDir(t)
      PROVE  ExtrasHaveNewer'
  <2>1. generations' = generations
    BY <1>6 DEF Next, Begin, BeginAt, CreateStep, WipeStep, MakeDir, RecentEnough, Capture,
                ReadKey, MakeKey, Write, Verify, Created, Replace, DeleteKey, WipeLedger,
                Throw, Commit, Kill, vars, disk
  <2>2. \A s \in Tasks : task'[s].extras \subseteq task[s].extras
    <3>1. CASE Quiet
      BY <3>1 DEF Quiet, Lighter
    <3>2. ASSUME NEW t \in Tasks, Loud(t)
          PROVE  \A s \in Tasks : task'[s].extras \subseteq task[s].extras
      <4>1. task'[t].extras = {}
        BY <1>6, <3>2, CaptureFields, ReadKeyFields, MakeKeyFields, WriteFields, VerifyFields
        DEF Loud
      <4> QED
        BY <3>2, <4>1, OtherRows
    <3> QED
      BY <3>1, <3>2, Calls
  <2> QED
    BY <1>1, <2>1, <2>2
<1> QED
  BY <1>2, <1>3, <1>4, <1>5, <1>6

-----------------------------------------------------------------------------
(* What the steps of a task that is under way leave of its row, but for    *)
(* the steps of a wipe that take something from the others.                *)

Work(t) == CreateStep(t) \/ Replace(t) \/ Throw(t) \/ WipeLedger(t)

LEMMA WorkRows ==
  ASSUME Shape, NEW t \in Tasks, Work(t)
  PROVE  /\ task[t].at # "idle" /\ task'[t].at \notin WipeSteps
         /\ task'[t].at = "MakeKey" => ReadKey(t) /\ key = None
         /\ \/ task'[t] = Idle
            \/ task'[t].kind = task[t].kind /\ task'[t].since \in {task[t].since, None}
         /\ \A s \in Tasks \ {t} : task'[s] = task[s]
PROOF
<1> DEFINE kept == /\ task'[t].at \notin WipeSteps \cup {"MakeKey"}
                   /\ \/ task'[t] = Idle
                      \/ task'[t].kind = task[t].kind /\ task'[t].since \in {task[t].since, None}
<1>1. task[t].at # "idle"
  BY DEF Work, CreateStep, MakeDir, RecentEnough, Capture, ReadKey, MakeKey, Write, Verify, Publish,
         ListExtras, DeleteExtra, Created, Replace, Throw, WipeLedger, At
<1>2. CASE ReadKey(t)
  BY <1>1, <1>2, ReadKeyFields, OtherRows DEF Loud, WipeSteps
<1>3. CASE Loud(t) /\ ~ReadKey(t)
  <2>1. task'[t].at \in {"ReadKey", "Write", "idle", "Verify", "Publish", "ListExtras",
                        "DeleteExtras"}
    BY <1>3, CaptureFields, MakeKeyFields, WriteFields, VerifyFields, PublishFields,
       ListExtrasFields DEF Loud, Idle
  <2>2. \/ task'[t] = Idle
        \/ task'[t].kind = task[t].kind /\ task'[t].since \in {task[t].since, None}
    BY <1>3, CaptureFields, MakeKeyFields, WriteFields, VerifyFields, PublishFields,
       ListExtrasFields DEF Loud
  <2> QED
    BY <1>1, <1>3, <2>1, <2>2, OtherRows DEF WipeSteps
<1>4. CASE MakeDir(t)
  BY <1>1, <1>4, MakeDirRow, Typed DEF Moves, Row, WipeSteps
<1>5. CASE DeleteExtra(t)
  <2>1. PICK g \in task[t].extras : Moves(t, [task[t] EXCEPT !.extras = @ \ {g}])
    BY <1>5, DeleteExtraRow
  <2>2. task[t].at = "DeleteExtras" /\ task[t] \in Row
    BY <1>5, Typed DEF DeleteExtra, At
  <2> QED
    BY <1>1, <2>1, <2>2 DEF Moves, Row, WipeSteps
<1>6. CASE Created(t)
  <2>1. task'[t] \in {Idle, [task[t] EXCEPT !.at = "Replace"]}
    BY <1>6, CreatedRow DEF Moves
  <2>2. task'[t].at \in {"idle", "Replace"}
    BY <2>1, Typed DEF Row, Idle
  <2>3. kept
    BY <2>1, <2>2, Typed DEF Row, WipeSteps
  <2> QED
    BY <1>1, <1>6, <2>3, CreatedRow DEF Moves
<1>7. CASE RecentEnough(t) \/ Replace(t) \/ Throw(t) \/ WipeLedger(t)
  <2>1. task'[t] = Idle /\ \A s \in Tasks \ {t} : task'[s] = task[s]
    BY <1>7, RecentEnoughRow, ReplaceRow, ThrowRow, WipeLedgerRow DEF Moves
  <2> QED
    BY <1>1, <2>1 DEF WipeSteps, Idle
<1> QED
  BY <1>2, <1>3, <1>4, <1>5, <1>6, <1>7 DEF Work, CreateStep, Loud

-----------------------------------------------------------------------------
(* A wipe that runs alone leaves nothing of what it wiped.                 *)

LEMMA WipesAloneStep == ASSUME Shape, WipesAlone, [Next]_vars PROVE WipesAlone'
PROOF
<1>1. ASSUME NEW t \in Tasks, NEW kind \in Kinds, Begin(t, kind)
      PROVE  WipesAlone'
  <2>1. /\ \A s \in Tasks \ {t} : /\ task'[s].at = task[s].at
                                  /\ task'[s].kind = "WIPE" => task'[s].since = None
        /\ task'[t].kind = "WIPE" /\ task'[t].since # None => Alone(t)
        /\ task'[t].at \in {"DeleteDir", "MakeDir"}
    BY <1>1, BeginFields
  <2> QED
    BY <2>1 DEF WipesAlone, Alone, At
<1>2. ASSUME NEW t \in Tasks, task[t].at # "idle", task'[t].at \notin WipeSteps,
             \A s \in Tasks \ {t} : task'[s] = task[s]
      PROVE  WipesAlone'
  <2>1. ASSUME NEW s \in Tasks, task'[s].kind = "WIPE", task'[s].since # None
        PROVE  FALSE
    <3>1. s # t
      BY <1>2, <2>1, ShapeStep DEF Shape, RowReady
    <3>2. Alone(s)
      BY <1>2, <2>1, <3>1 DEF WipesAlone
    <3> QED
      BY <1>2, <3>1, <3>2 DEF Alone, At
  <2> QED
    BY <2>1 DEF WipesAlone
<1>3. ASSUME NEW t \in Tasks, Work(t)
      PROVE  WipesAlone'
  BY <1>2, <1>3, WorkRows
<1>4. ASSUME NEW t \in Tasks, DeleteDir(t)
      PROVE  WipesAlone'
  <2>1. /\ generations' = {} /\ task[t].at = "DeleteDir"
        /\ task'[t].since = task[t].since /\ task'[t].kind = task[t].kind
        /\ \A s \in Tasks \ {t} : task'[s].at = task[s].at /\ task'[s].since = None
    BY <1>4, DeleteFields DEF DeleteDir, At
  <2> QED
    BY <2>1 DEF WipesAlone, Alone, At
<1>5. ASSUME NEW t \in Tasks, DeleteKey(t)
      PROVE  WipesAlone'
  <2>1. /\ generations' = generations /\ task[t].at = "DeleteKey"
        /\ task'[t].since = task[t].since /\ task'[t].kind = task[t].kind
        /\ \A s \in Tasks \ {t} : task'[s].at = task[s].at /\ task'[s].since = None
    BY <1>5, DeleteFields DEF DeleteKey, disk, At
  <2> QED
    BY <2>1 DEF WipesAlone, Alone, At
<1>6. CASE Commit \/ UNCHANGED vars
  BY <1>6 DEF Commit, vars, disk, WipesAlone, Alone, At
<1>7. CASE Kill
  BY <1>7 DEF Kill, Idle, WipesAlone
<1> QED
  BY <1>1, <1>3, <1>4, <1>5, <1>6, <1>7 DEF Next, WipeStep, Work

LEMMA NotWipedStep ==
  ASSUME Shape, WipesAlone, NotWiped, [Next]_vars
  PROVE  NotWiped'
PROOF
<1>0. /\ ledger \in Nat /\ wiped \in Nat /\ ledger > wiped
      /\ \A s \in Tasks : task[s].at \in HasLedger => task[s].ledger \in Nat
  BY Typed DEF Shape, Row, RowReady, NotWiped
<1>1. ASSUME NEW t \in Tasks, WipeLedger(t), task[t].since # None
      PROVE  NotWiped'
  <2>1. /\ generations' = {} /\ ledger' = ledger + 1 /\ wiped' = ledger
    <3>1. task[t].kind = "WIPE" /\ task[t].at = "WipeLedger"
      BY <1>1, Typed DEF WipeLedger, At, RowReady, WipeSteps
    <3> QED
      BY <1>1, <3>1 DEF WipeLedger, disk, WipesAlone
  <2>2. \A s \in Tasks : task'[s].at \notin HasLedger
    <3>1. task'[t] = Idle /\ \A s \in Tasks \ {t} : task'[s] = task[s]
      BY <1>1, WipeLedgerRow DEF Moves
    <3>2. Alone(t)
      BY <1>1, Typed DEF WipesAlone, WipeLedger, At, RowReady, WipeSteps
    <3> QED
      BY <3>1, <3>2 DEF Alone, At, Idle, HasLedger
  <2> QED
    BY <1>0, <2>1, <2>2 DEF NotWiped
<1>2. ASSUME wiped' = wiped, ledger' >= ledger, ledger' \in Nat,
             \A g \in generations' : g \in generations \/ g.ledger > wiped,
             \A s \in Tasks : task'[s].at \in HasLedger =>
               \/ task'[s].ledger = ledger
               \/ task[s].at \in HasLedger /\ task'[s].ledger = task[s].ledger
      PROVE  NotWiped'
  BY <1>0, <1>2 DEF NotWiped
<1>3. ASSUME \A t \in Tasks : ~(WipeLedger(t) /\ task[t].since # None)
      PROVE  NotWiped'
  <2>1. wiped' = wiped /\ ledger' >= ledger /\ ledger' \in Nat
    <3>1. wiped' = wiped /\ ledger' \in {ledger, ledger + 1}
      <4>1. ASSUME NEW t \in Tasks, CreateStep(t)
            PROVE  wiped' = wiped /\ ledger' = ledger
        BY <4>1 DEF CreateStep, MakeDir, RecentEnough, Capture, ReadKey, MakeKey, Write, Verify,
                    Publish, ListExtras, DeleteExtra, Created, history
      <4>2. ASSUME NEW t \in Tasks, WipeStep(t)
            PROVE  wiped' = wiped /\ ledger' \in {ledger, ledger + 1}
        BY <1>3, <4>2 DEF WipeStep, DeleteDir, DeleteKey, WipeLedger, history
      <4> QED
        BY <4>1, <4>2 DEF Next, Begin, BeginAt, Replace, Throw, Commit, Kill, vars, history
    <3> QED
      BY <1>0, <3>1
  <2>2. \A g \in generations' : g \in generations \/ g.ledger > wiped
    <3>1. CASE Quiet
      BY <3>1 DEF Quiet
    <3>2. ASSUME NEW t \in Tasks, Publish(t)
          PROVE  \A g \in generations' : g \in generations \/ g.ledger > wiped
      <4>1. task[t].ledger > wiped
        BY <3>2 DEF Publish, At, HasLedger, NotWiped
      <4> QED
        BY <3>2, <4>1 DEF Publish, GenerationOf
    <3>3. ASSUME NEW t \in Tasks, Loud(t), ~Publish(t)
          PROVE  generations' = generations
      BY <3>3 DEF Loud, Capture, ReadKey, MakeKey, Write, Verify, ListExtras, disk
    <3> QED
      BY <3>1, <3>2, <3>3, Calls
  <2>3. \A s \in Tasks : task'[s].at \in HasLedger =>
          \/ task'[s].ledger = ledger
          \/ task[s].at \in HasLedger /\ task'[s].ledger = task[s].ledger
    <3>1. CASE Quiet
      BY <3>1 DEF Quiet, Lighter
    <3>2. ASSUME NEW t \in Tasks, Loud(t)
          PROVE  task'[t].at \in HasLedger =>
                   \/ task'[t].ledger = ledger
                   \/ task[t].at \in HasLedger /\ task'[t].ledger = task[t].ledger
      BY <3>2, CaptureFields, ReadKeyFields, MakeKeyFields, WriteFields, VerifyFields,
         PublishFields, ListExtrasFields DEF Loud, HasLedger, Idle
    <3> QED
      BY <3>1, <3>2, OtherRows, Calls
  <2> QED
    BY <1>2, <2>1, <2>2, <2>3
<1> QED
  BY <1>1, <1>3

-----------------------------------------------------------------------------
(* A task that began with a settled key works with that key.               *)

LEMMA GuardedSteps ==
  ASSUME Shape, Settled, [Next]_vars, NEW s \in Tasks, Guarded(s)'
  PROVE  /\ KeySettled /\ KeySettled' /\ key' = key
         /\ \/ Guarded(s) /\ task'[s].since = task[s].since
            \/ task[s].at = "idle" /\ task'[s].at = "MakeDir" /\ task'[s].since = ledger
PROOF
<1>1. ASSUME NEW t \in Tasks, NEW kind \in Kinds, Begin(t, kind)
      PROVE  /\ KeySettled /\ KeySettled' /\ key' = key
             /\ \/ Guarded(s) /\ task'[s].since = task[s].since
                \/ task[s].at = "idle" /\ task'[s].at = "MakeDir" /\ task'[s].since = ledger
  <2>1. key' = key /\ task[t].at = "idle" /\ task'[t].at \in {"DeleteDir", "MakeDir"}
    <3>1. key' = key /\ task[t].at = "idle"
      BY <1>1 DEF Begin, BeginAt, At
    <3> QED
      BY <1>1, <3>1, BeginFields
  <2>2. \A u \in Tasks \ {t} : task'[u].at = task[u].at
    BY <1>1, BeginFields
  <2>3. KeySettled <=> KeySettled'
    BY <2>1, <2>2 DEF KeySettled, At
  <2>4. CASE s = t
    <3>1. KeySettled /\ task'[t].at = "MakeDir" /\ task'[t].since = ledger
      BY <1>1, <2>4, BeginFields DEF Guarded
    <3> QED
      BY <2>1, <2>3, <2>4, <3>1
  <2>5. CASE s # t
    <3>1. task'[s] = task[s]
      BY <1>1, <2>5, BeginFields DEF Guarded
    <3>2. Guarded(s) /\ task'[s].since = task[s].since
      BY <3>1 DEF Guarded
    <3> QED
      BY <2>1, <2>3, <3>2 DEF Settled
  <2> QED
    BY <2>4, <2>5
<1>2. ASSUME NEW t \in Tasks, Work(t)
      PROVE  KeySettled /\ KeySettled' /\ key' = key /\ Guarded(s) /\ task'[s].since = task[s].since
  <2>1. Guarded(s) /\ task'[s].since = task[s].since
    BY <1>2, WorkRows DEF Guarded, Idle
  <2>2. KeySettled
    BY <2>1 DEF Settled
  <2>3. key' = key
    BY <1>2, <2>2 DEF Work, CreateStep, MakeDir, RecentEnough, Capture, ReadKey, MakeKey, Write,
       Verify, Publish, ListExtras, DeleteExtra, Created, Replace, Throw, WipeLedger, disk, KeySettled
  <2>4. KeySettled'
    BY <1>2, <2>2, <2>3, WorkRows DEF KeySettled, At
  <2> QED
    BY <2>1, <2>2, <2>3, <2>4
<1>3. ASSUME NEW t \in Tasks, DeleteDir(t) \/ DeleteKey(t)
      PROVE  FALSE
  BY <1>3, DeleteFields DEF Guarded
<1>4. CASE Commit \/ UNCHANGED vars
  BY <1>4 DEF Commit, vars, disk, Guarded, Settled, KeySettled, At
<1>5. CASE Kill
  BY <1>5 DEF Kill, Idle, Guarded
<1> QED
  BY <1>1, <1>2, <1>3, <1>4, <1>5 DEF Next, WipeStep, Work

LEMMA LedgerGrows ==
  ASSUME Shape, [Next]_vars
  PROVE  ledger' \in {ledger, ledger + 1}
PROOF
<1>1. ASSUME NEW t \in Tasks, CreateStep(t)
      PROVE  ledger' = ledger
  BY <1>1 DEF CreateStep, MakeDir, RecentEnough, Capture, ReadKey, MakeKey, Write, Verify,
              Publish, ListExtras, DeleteExtra, Created
<1>2. ASSUME NEW t \in Tasks, WipeStep(t)
      PROVE  ledger' \in {ledger, ledger + 1}
  BY <1>2 DEF WipeStep, DeleteDir, DeleteKey, WipeLedger
<1> QED
  BY <1>1, <1>2 DEF Next, Begin, BeginAt, Replace, Throw, Commit, Kill, vars

LEMMA SettledStep == ASSUME Shape, Settled, [Next]_vars PROVE Settled'
PROOF
<1>1. ASSUME NEW s \in Tasks, Guarded(s)'
      PROVE  /\ KeySettled' /\ task'[s].since =< ledger'
             /\ task'[s].at \in HasLedger => task'[s].ledger >= task'[s].since
             /\ task'[s].at \in HasKey => task'[s].key = key'
  <2>1. /\ KeySettled /\ KeySettled' /\ key' = key
        /\ \/ Guarded(s) /\ task'[s].since = task[s].since
           \/ task[s].at = "idle" /\ task'[s].at = "MakeDir" /\ task'[s].since = ledger
    BY <1>1, GuardedSteps
  <2>2. ledger \in Nat /\ ledger' >= ledger /\ ledger' \in Nat
    BY LedgerGrows, Typed
  <2>3. CASE task'[s].at = "MakeDir" /\ task'[s].since = ledger
    BY <2>1, <2>2, <2>3 DEF HasLedger, HasKey
  <2>4. CASE Guarded(s) /\ task'[s].since = task[s].since
    <3>1. /\ task[s].since \in Nat /\ task[s].since =< ledger
          /\ task[s].at \in HasLedger => task[s].ledger >= task[s].since
          /\ task[s].at \in HasKey => task[s].key = key
      BY <2>4, Typed DEF Settled, Guarded, Row
    <3>2. /\ task'[s].at \in HasLedger =>
               \/ task'[s].ledger = ledger
               \/ task[s].at \in HasLedger /\ task'[s].ledger = task[s].ledger
          /\ task'[s].at \in HasKey =>
               \/ task'[s].key = key
               \/ task[s].at \in HasKey /\ task'[s].key = task[s].key
      <4>1. CASE Quiet
        BY <4>1 DEF Quiet, Lighter
      <4>2. ASSUME NEW t \in Tasks, Loud(t), s # t
            PROVE  task'[s] = task[s]
        BY <4>2, OtherRows
      <4>3. CASE Loud(s)
        <5>1. ~MakeKey(s)
          BY <2>1 DEF MakeKey, KeySettled
        <5> QED
          BY <4>3, <5>1, CaptureFields, ReadKeyFields, WriteFields, VerifyFields,
             PublishFields, ListExtrasFields DEF Loud, HasLedger, HasKey, Idle
      <4> QED
        BY <4>1, <4>2, <4>3, Calls
    <3> QED
      BY <2>1, <2>2, <2>4, <3>1, <3>2
  <2> QED
    BY <2>1, <2>3, <2>4
<1> QED
  BY <1>1 DEF Settled

-----------------------------------------------------------------------------
(* A restore has a fallback as long as no more than Keep tasks overlap.    *)

(* A task that has a stamp had it before, or names its file now, and keeps *)
(* its guard only if all files have earlier names.                         *)
LEMMA StampSteps ==
  ASSUME Shape, [Next]_vars, NEW t \in Tasks, task'[t].at \in HasStamp
  PROVE  \/ task[t].at \in HasStamp /\ task'[t].stamp = task[t].stamp
         \/ Write(t) /\ (task'[t].since # None =>
                           \A g \in Written : ~(g.stamp >= task'[t].stamp))
PROOF
<1>1. CASE Quiet
  BY <1>1 DEF Quiet, Lighter
<1>2. ASSUME NEW s \in Tasks, Loud(s), s # t
      PROVE  task'[t] = task[t]
  BY <1>2, OtherRows
<1>3. CASE Loud(t) /\ ~Write(t)
  BY <1>3, CaptureFields, ReadKeyFields, MakeKeyFields, VerifyFields, PublishFields,
     ListExtrasFields DEF Loud, HasLedger, HasKey, HasStamp, Idle
<1>4. ASSUME Write(t), task'[t].since # None, NEW g \in Written
      PROVE  ~(g.stamp >= task'[t].stamp)
  <2>1. task'[t].stamp \in Stamps \ Taken /\ ~SetBack(task'[t].stamp)
    BY <1>4, WriteFields DEF Idle
  <2>2. g.stamp \in Nat /\ g.stamp < task'[t].stamp /\ task'[t].stamp \in Nat
    BY <1>4, <2>1, NamedLast, GenerationBounds DEF Stamps
  <2> QED
    BY <2>2
<1> QED
  BY <1>1, <1>2, <1>3, <1>4, Calls

LEMMA YoungKeysStep ==
  ASSUME Shape, KeysMade, Settled, YoungKeys, [Next]_vars
  PROVE  YoungKeys'
PROOF
<1>1. ASSUME NEW t \in Tasks, Guarded(t)', task'[t].at \in HasStamp,
             NEW g \in Verified', g.stamp > task'[t].stamp
      PROVE  g.key = key'
  <2>1. key' = key
    BY <1>1, GuardedSteps
  <2>2. CASE g \notin Verified
    BY <2>1, <2>2, WrittenSteps
  <2>3. CASE g \in Verified /\ \A h \in Written : ~(h.stamp >= task'[t].stamp)
    <3>1. task'[t].stamp \in Nat /\ g.stamp \in Nat
      BY <1>1, <2>3, ShapeStep, WrittenFiles DEF Written, Shape, Row, RowReady, File
    <3> QED
      BY <1>1, <2>3, <3>1 DEF Written
  <2>4. CASE g \in Verified /\ task[t].at \in HasStamp /\ task'[t].stamp = task[t].stamp
    <3>1. Guarded(t)
      BY <1>1, <2>4, GuardedSteps DEF HasLedger, HasKey, HasStamp
    <3> QED
      BY <1>1, <2>1, <2>4, <3>1 DEF YoungKeys
  <2> QED
    BY <1>1, <2>2, <2>3, <2>4, StampSteps DEF Guarded
<1> QED
  BY <1>1 DEF YoungKeys

(* Of the tasks with a stale snapshot only one that publishes leaves, and  *)
(* none joins.                                                             *)
LEMMA StaleTasksShrink ==
  ASSUME Shape, Settled, [Next]_vars, NEW t \in Tasks, Guarded(t), Guarded(t)',
         task'[t].since = task[t].since
  PROVE  StaleTasks(t)' \subseteq StaleTasks(t)
PROOF
<1>1. ASSUME NEW s \in Tasks \ {t}, task'[s].at \in Unpublished,
             task'[s].ledger < task'[t].since
      PROVE  task[s].at \in Unpublished /\ task[s].ledger < task[t].since
  <2>1. task[t].since \in Nat /\ ledger \in Nat /\ task[t].since =< ledger
    BY Typed DEF Settled, Guarded, Row
  <2>2. CASE Quiet
    BY <1>1, <2>2 DEF Quiet, Lighter, Unpublished, HasLedger
  <2>3. ASSUME NEW u \in Tasks, Loud(u), u # s
        PROVE  task'[s] = task[s]
    BY <2>3, OtherRows
  <2>4. CASE Loud(s)
    <3>1. ~Capture(s)
      BY <1>1, <2>1, CaptureFields
    <3>2. /\ task[s].at \in Unpublished /\ task'[s].ledger = task[s].ledger
      BY <1>1, <2>4, <3>1, ReadKeyFields, MakeKeyFields, WriteFields, VerifyFields, PublishFields,
         ListExtrasFields DEF Loud, Unpublished, Idle
    <3> QED
      BY <1>1, <3>2
  <2> QED
    BY <1>1, <2>2, <2>3, <2>4, Calls
<1> QED
  BY <1>1 DEF StaleTasks

(* A file is published by a task that had it, and then has none.           *)
LEMMA NewFile ==
  ASSUME Shape, [Next]_vars
  PROVE  \/ generations' \subseteq generations
         \/ \E s \in Tasks : /\ Publish(s) /\ task[s].pending
                             /\ generations' = generations \cup {GenerationOf(s)}
                             /\ task'[s].at \notin Unpublished
PROOF
<1>1. CASE Quiet
  BY <1>1 DEF Quiet
<1>2. ASSUME NEW s \in Tasks, Publish(s)
      PROVE  \/ generations' \subseteq generations
             \/ /\ Publish(s) /\ task[s].pending
                /\ generations' = generations \cup {GenerationOf(s)}
                /\ task'[s].at \notin Unpublished
  BY <1>2, PublishFields DEF Unpublished
<1>3. ASSUME NEW s \in Tasks, Loud(s), ~Publish(s)
      PROVE  generations' = generations
  BY <1>3 DEF Loud, Capture, ReadKey, MakeKey, Write, Verify, ListExtras, disk
<1> QED
  BY <1>1, <1>2, <1>3, Calls

LEMMA StaleFinite ==
  ASSUME Shape, NEW t \in Tasks
  PROVE  /\ IsFiniteSet(StaleTasks(t)) /\ Cardinality(StaleTasks(t)) \in Nat
         /\ Cardinality(StaleTasks(t)) < Cardinality(Tasks)
         /\ IsFiniteSet(StaleFiles(t)) /\ Cardinality(StaleFiles(t)) \in Nat
         /\ Cardinality(Tasks) \in Nat
PROOF
<1>1. StaleFiles(t) \subseteq generations /\ IsFiniteSet(generations)
  BY DEF StaleFiles, Shape
<1>2. StaleTasks(t) \subseteq Tasks \ {t} /\ Tasks \ {t} \subseteq Tasks
  BY DEF StaleTasks
<1> HIDE DEF StaleTasks, StaleFiles
<1>3. IsFiniteSet(Tasks \ {t}) /\ Cardinality(Tasks \ {t}) = Cardinality(Tasks) - 1
  BY TasksAreFinite, FS_RemoveElement
<1>4. /\ IsFiniteSet(StaleTasks(t))
      /\ Cardinality(StaleTasks(t)) =< Cardinality(Tasks \ {t})
  BY <1>2, <1>3, FS_Subset
<1>5. IsFiniteSet(StaleFiles(t))
  BY <1>1, FS_Subset
<1>6. /\ Cardinality(StaleTasks(t)) \in Nat /\ Cardinality(StaleFiles(t)) \in Nat
      /\ Cardinality(Tasks) \in Nat
  BY <1>4, <1>5, TasksAreFinite, FS_CardinalityType
<1> QED
  BY <1>3, <1>4, <1>5, <1>6

LEMMA FewStaleStep ==
  ASSUME Shape, KeysMade, Settled, FewStale, [Next]_vars
  PROVE  FewStale'
PROOF
<1>0. Shape'
  BY ShapeStep
<1>1. ASSUME NEW t \in Tasks, Guarded(t)', task'[t].at \in HasStamp
      PROVE  Cardinality(StaleTasks(t)') + Cardinality(StaleFiles(t)') < Cardinality(Tasks)
  <2>0. Guarded(t) /\ task'[t].since = task[t].since
    BY <1>1, GuardedSteps DEF HasLedger, HasKey, HasStamp
  <2>1. StaleTasks(t)' \subseteq StaleTasks(t)
    BY <1>1, <2>0, StaleTasksShrink
  <2>2. /\ IsFiniteSet(StaleTasks(t)) /\ Cardinality(StaleTasks(t)) \in Nat
        /\ Cardinality(StaleTasks(t)) < Cardinality(Tasks)
        /\ IsFiniteSet(StaleFiles(t)) /\ Cardinality(StaleFiles(t)) \in Nat
        /\ Cardinality(Tasks) \in Nat
    BY StaleFinite
  <2>3. PICK tasks : tasks = StaleTasks(t)'
    OBVIOUS
  <2>4. PICK files : files = StaleFiles(t)'
    OBVIOUS
  <2>5. /\ tasks \subseteq StaleTasks(t) /\ IsFiniteSet(tasks) /\ Cardinality(tasks) \in Nat
        /\ Cardinality(tasks) =< Cardinality(StaleTasks(t))
    BY <2>1, <2>2, <2>3, FS_Subset, FS_CardinalityType
  <2>6. CASE Write(t) /\ \A g \in Written : ~(g.stamp >= task'[t].stamp)
    <3>1. generations' = generations
      BY <2>6 DEF Write, disk
    <3>2. \A g \in generations : ~(g.stamp > task'[t].stamp)
      <4>1. task'[t].stamp \in Nat
        BY <1>0, <1>1 DEF Shape, Row, RowReady
      <4> QED
        BY <2>6, <4>1 DEF Shape, File, Written, Verified
    <3>3. files = {}
      BY <2>4, <2>6, <3>1, <3>2 DEF StaleFiles
    <3> QED
      BY <2>2, <2>3, <2>4, <2>5, <3>3, FS_EmptySet
  <2>7. CASE task[t].at \in HasStamp /\ task'[t].stamp = task[t].stamp
    <3>0. Cardinality(StaleTasks(t)) + Cardinality(StaleFiles(t)) < Cardinality(Tasks)
      BY <2>0, <2>7 DEF FewStale
    <3>1. CASE files \subseteq StaleFiles(t)
      <4>1. Cardinality(files) =< Cardinality(StaleFiles(t)) /\ Cardinality(files) \in Nat
        BY <2>2, <3>1, FS_Subset, FS_CardinalityType
      <4> QED
        BY <2>2, <2>3, <2>4, <2>5, <3>0, <4>1
    <3>2. CASE ~(files \subseteq StaleFiles(t))
      <4>1. PICK s \in Tasks : /\ Publish(s) /\ task[s].pending
                               /\ generations' = generations \cup {GenerationOf(s)}
                               /\ task'[s].at \notin Unpublished
        BY <2>0, <2>4, <2>7, <3>2, NewFile DEF StaleFiles
      <4>2. files \subseteq StaleFiles(t) \cup {GenerationOf(s)}
        BY <2>0, <2>4, <2>7, <4>1 DEF StaleFiles
      <4>3. GenerationOf(s) \in files
        BY <3>2, <4>2
      <4>4. task[s].stamp > task[t].stamp /\ task[s].ledger < task[t].since
        BY <2>0, <2>4, <2>7, <4>3 DEF StaleFiles, GenerationOf
      <4>5. s # t
        <5>1. task[t].stamp \in Nat
          BY <2>7, Typed DEF Row, RowReady
        <5> QED
          BY <4>4, <5>1
      <4>6. s \in StaleTasks(t)
        BY <4>1, <4>4, <4>5 DEF StaleTasks, Publish, At, Unpublished
      <4>7. s \notin tasks
        BY <2>3, <4>1 DEF StaleTasks
      <4>8. /\ IsFiniteSet(StaleTasks(t) \ {s})
            /\ Cardinality(StaleTasks(t) \ {s}) = Cardinality(StaleTasks(t)) - 1
        BY <2>2, <4>6, FS_RemoveElement
      <4>9. tasks \subseteq StaleTasks(t) \ {s}
        BY <2>5, <4>7
      <4>10. Cardinality(tasks) =< Cardinality(StaleTasks(t)) - 1
        BY <4>8, <4>9, FS_Subset
      <4>11. /\ IsFiniteSet(StaleFiles(t) \cup {GenerationOf(s)})
             /\ Cardinality(StaleFiles(t) \cup {GenerationOf(s)}) =< Cardinality(StaleFiles(t)) + 1
        <5>1. /\ IsFiniteSet(StaleFiles(t) \cup {GenerationOf(s)})
              /\ Cardinality(StaleFiles(t) \cup {GenerationOf(s)}) =
                   IF GenerationOf(s) \in StaleFiles(t) THEN Cardinality(StaleFiles(t))
                   ELSE Cardinality(StaleFiles(t)) + 1
          <6> HIDE DEF StaleFiles, GenerationOf
          <6> QED
            BY <2>2, FS_AddElement
        <5> QED
          BY <2>2, <5>1
      <4>12. /\ Cardinality(files) =< Cardinality(StaleFiles(t) \cup {GenerationOf(s)})
             /\ Cardinality(files) \in Nat
             /\ Cardinality(StaleFiles(t) \cup {GenerationOf(s)}) \in Nat
        BY <4>2, <4>11, FS_Subset, FS_CardinalityType
      <4> QED
        BY <2>2, <2>3, <2>4, <2>5, <3>0, <4>10, <4>11, <4>12
    <3> QED
      BY <3>1, <3>2
  <2> QED
    BY <1>1, <2>6, <2>7, StampSteps DEF Guarded
<1>2. ASSUME NEW t \in Tasks, Guarded(t)'
      PROVE  Cardinality(StaleTasks(t)') < Cardinality(Tasks)
  <2>1. PICK tasks : tasks = StaleTasks(t)'
    OBVIOUS
  <2>2. tasks \subseteq Tasks \ {t}
    BY <2>1 DEF StaleTasks
  <2>3. IsFiniteSet(Tasks \ {t}) /\ Cardinality(Tasks \ {t}) = Cardinality(Tasks) - 1
    BY TasksAreFinite, FS_RemoveElement
  <2>4. Cardinality(tasks) =< Cardinality(Tasks \ {t}) /\ IsFiniteSet(tasks)
    BY <2>2, <2>3, FS_Subset
  <2>5. Cardinality(tasks) \in Nat /\ Cardinality(Tasks) \in Nat
    BY <2>4, TasksAreFinite, FS_CardinalityType
  <2> QED
    BY <2>1, <2>3, <2>4, <2>5
<1> QED
  BY <1>1, <1>2 DEF FewStale

(* Of finitely many files one is the newest.                               *)
LEMMA NewestExists ==
  ASSUME NEW S, S \subseteq File, IsFiniteSet(S), S # {}
  PROVE  \E g \in S : \A h \in S : h.stamp =< g.stamp
PROOF
<1> DEFINE above(g) == {h \in S : h.stamp > g.stamp}
<1> DEFINE T == {above(g) : g \in S}
<1>1. T \subseteq SUBSET S /\ T # {}
  OBVIOUS
<1>2. FiniteSubsetsOf(S) = SUBSET S
  BY FS_FiniteSubsetsOfFinite
<1>3. IsWellFoundedOn(StrictSubsetOrdering(S), SUBSET S)
  BY <1>2, FS_StrictSubsetOrderingWellFounded
<1>4. PICK least \in T : \A r \in T : ~(<<r, least>> \in StrictSubsetOrdering(S))
  <2> HIDE DEF T
  <2> QED
    BY <1>1, <1>3, WFMin
<1>5. PICK g \in S : least = above(g)
  BY <1>4
<1>6. ASSUME NEW h \in S, h.stamp > g.stamp
      PROVE  FALSE
  <2>1. \A k \in S : k.stamp \in Nat
    BY DEF File
  <2>2. above(h) \subseteq above(g) /\ h \in above(g) /\ h \notin above(h)
    BY <1>6, <2>1
  <2>3. above(h) \in T /\ above(h) \subseteq S /\ above(g) \subseteq S
    OBVIOUS
  <2> QED
    BY <1>4, <1>5, <2>2, <2>3 DEF StrictSubsetOrdering
<1> QED
  BY <1>5, <1>6 DEF File

LEMMA NewestGood ==
  ASSUME Shape, NEW t \in Tasks, Good(t) # {}
  PROVE  \E g : Newest(t, g)
PROOF
<1>1. PICK S : S = Good(t)
  OBVIOUS
<1>2. S \subseteq generations /\ generations \subseteq File /\ IsFiniteSet(generations)
  BY <1>1 DEF Good, Shape
<1>3. IsFiniteSet(S) /\ S \subseteq File
  BY <1>2, FS_Subset
<1> QED
  BY <1>1, <1>3, NewestExists DEF Newest

(* The newest fallback is among the Keep newest files.                     *)
LEMMA NewestListed ==
  ASSUME Shape, FewStale, YoungKeys, NEW t \in Tasks, Guarded(t), task[t].at \in HasStamp,
         NEW g, Newest(t, g), Cardinality(Tasks) =< Keep
  PROVE  ~(Cardinality(Newer(g)) >= Keep)
PROOF
<1>1. /\ g \in generations /\ g.stamp >= task[t].stamp /\ g \in File
      /\ task[t].stamp \in Nat /\ task[t].since \in Nat /\ generations \subseteq File
  BY Typed DEF Newest, Good, Shape, Row, RowReady, Guarded
<1>2. ASSUME NEW h \in generations, h.stamp > g.stamp
      PROVE  h.stamp > task[t].stamp /\ h.ledger < task[t].since
  <2>1. h \in File /\ h.stamp > task[t].stamp
    BY <1>1, <1>2 DEF File
  <2>2. h.key = key
    BY <2>1 DEF YoungKeys, Verified
  <2>3. h \notin Good(t)
    BY <1>1, <1>2, <2>1 DEF Newest, File
  <2> QED
    BY <1>1, <2>1, <2>2, <2>3 DEF Good, Decodable, File
<1>3. Newer(g) \subseteq StaleFiles(t)
  BY <1>2 DEF Newer, StaleFiles
<1>4. /\ Cardinality(StaleTasks(t)) + Cardinality(StaleFiles(t)) < Cardinality(Tasks)
      /\ IsFiniteSet(StaleFiles(t)) /\ Cardinality(StaleFiles(t)) \in Nat
      /\ Cardinality(StaleTasks(t)) \in Nat /\ Cardinality(Tasks) \in Nat
  BY StaleFinite DEF FewStale
<1>5. Cardinality(Newer(g)) =< Cardinality(StaleFiles(t)) /\ Cardinality(Newer(g)) \in Nat
  <2> HIDE DEF Newer, StaleFiles
  <2> QED
    BY <1>3, <1>4, FS_Subset, FS_CardinalityType
<1> QED
  BY <1>4, <1>5, GenerationBounds

LEMMA NewestKeptStep ==
  ASSUME Shape, Apart, Settled, FewStale, YoungKeys, NewestKept, [Next]_vars,
         Cardinality(Tasks) =< Keep
  PROVE  NewestKept'
PROOF
<1>1. ASSUME NEW t \in Tasks, Guarded(t)', task'[t].at \in HasStamp
      PROVE  /\ task'[t].at \in Published => Good(t)' # {}
             /\ \A g : Newest(t, g)' => \A s \in Tasks : g \notin task'[s].extras
  <2>0. Guarded(t) /\ task'[t].since = task[t].since /\ key' = key /\ KeySettled
    BY <1>1, GuardedSteps DEF HasLedger, HasKey, HasStamp
  <2>1. CASE Write(t) /\ \A g \in Written : ~(g.stamp >= task'[t].stamp)
    <3>1. generations' = generations
      BY <2>1 DEF Write, disk
    <3>2. \A g \in generations : ~(g.stamp >= task'[t].stamp)
      BY <2>1 DEF Written, Verified
    <3>3. Good(t)' = {}
      BY <2>1, <3>1, <3>2 DEF Good
    <3>4. task'[t].at \notin Published
      BY <2>1, WriteFields DEF Idle, Published
    <3> QED
      BY <3>3, <3>4 DEF Newest
  <2>2. CASE task[t].at \in HasStamp /\ task'[t].stamp = task[t].stamp
    <3>1. \A g : g \in Good(t)' <=> /\ g \in generations'
                                   /\ g.stamp >= task[t].stamp /\ g.ledger >= task[t].since
                                   /\ g.key = key
      BY <2>0, <2>2 DEF Good, Decodable
    <3>2. \A g : g \in Good(t) <=> /\ g \in generations
                                  /\ g.stamp >= task[t].stamp /\ g.ledger >= task[t].since
                                  /\ g.key = key
      BY DEF Good, Decodable
    <3>3. \A g : Newest(t, g) => \A s \in Tasks : g \notin task[s].extras
      BY <2>0, <2>2 DEF NewestKept
    <3>4. ~\E s \in Tasks : DeleteDir(s)
      <4>1. ASSUME NEW s \in Tasks, DeleteDir(s)
            PROVE  FALSE
        <5>1. s # t
          BY <2>0, <4>1, Typed DEF DeleteDir, At, Guarded, RowReady, WipeSteps
        <5>2. task'[t] = [task[t] EXCEPT !.pending = FALSE, !.since = None]
          BY <4>1, <5>1, DeleteDirRows
        <5> QED
          BY <1>1, <5>2, Typed DEF Row, Guarded
      <4> QED
        BY <4>1
    <3>5. \A g : Newest(t, g) => g \in generations'
      <4>1. ASSUME NEW s \in Tasks, DeleteExtra(s), NEW g, Newest(t, g)
            PROVE  g \in generations'
        BY <3>3, <4>1, DeleteExtraRow DEF Newest, Good
      <4>2. (\E s \in Tasks : DeleteExtra(s)) \/ generations \subseteq generations'
        BY <3>4 DEF Next, Begin, BeginAt, CreateStep, WipeStep, MakeDir, RecentEnough, Capture,
           ReadKey, MakeKey, Write, Verify, Publish, ListExtras, Created, Replace, DeleteKey,
           WipeLedger, Throw, Commit, Kill, vars, disk
      <4> QED
        BY <4>1, <4>2 DEF Newest, Good
    <3>6. task'[t].at \in Published => Good(t)' # {}
      <4>1. CASE Good(t) # {}
        BY <3>1, <3>2, <3>5, <4>1, NewestGood DEF Newest
      <4>2. CASE Publish(t) /\ task'[t].at = "ListExtras"
        <5>1. generations' = generations \cup {GenerationOf(t)}
          BY <4>2, PublishFields DEF Idle
        <5>2. /\ task[t].ledger >= task[t].since /\ task[t].key = key
              /\ task[t].stamp \in Nat
          BY <2>0, <4>2, Typed DEF Settled, Publish, At, Row, RowReady, HasLedger, HasKey, HasStamp
        <5>3. GenerationOf(t) \in Good(t)'
          BY <3>1, <5>1, <5>2 DEF GenerationOf
        <5> QED
          BY <5>3
      <4>3. ASSUME task'[t].at \in Published, ~Publish(t)
            PROVE  task[t].at \in Published
        <5>1. CASE Quiet
          BY <4>3, <5>1 DEF Quiet, Lighter
        <5>2. ASSUME NEW s \in Tasks, Loud(s), s # t
              PROVE  task'[t] = task[t]
          BY <5>2, OtherRows
        <5>3. CASE Loud(t)
          BY <4>3, <5>3, CaptureFields, ReadKeyFields, MakeKeyFields, WriteFields, VerifyFields,
             ListExtrasFields DEF Loud, Idle, Published
        <5> QED
          BY <4>3, <5>1, <5>2, <5>3, Calls
      <4>4. task[t].at \in Published => Good(t) # {}
        BY <2>0, <2>2 DEF NewestKept
      <4>5. Publish(t) => task'[t].at \in {"idle", "ListExtras"}
        BY PublishFields DEF Idle
      <4> QED
        BY <4>1, <4>2, <4>3, <4>4, <4>5 DEF Published
    <3>7. ASSUME NEW g, Newest(t, g)', NEW s \in Tasks, g \in task'[s].extras
          PROVE  FALSE
      <4>1. /\ g \in Good(t)' /\ g \in generations' /\ \A h \in Good(t)' : h.stamp =< g.stamp
        BY <3>7 DEF Newest, Good
      <4>2. CASE g \notin generations
        <5>1. PICK u \in Tasks : Publish(u) /\ task[u].pending /\ g = GenerationOf(u)
          BY <4>1, <4>2, NewFile
        <5>2. g.stamp = task[u].stamp
          BY <5>1 DEF GenerationOf
        <5>3. task'[s].extras \subseteq task[s].extras
          BY <5>1, PublishFields, OtherRows DEF Loud
        <5> QED
          BY <3>7, <5>1, <5>2, <5>3 DEF Apart
      <4>3. CASE g \in generations
        <5>1. g \in Good(t)
          BY <3>1, <3>2, <4>1, <4>3
        <5>2. PICK n : Newest(t, n)
          BY <5>1, NewestGood
        <5>3. n \in Good(t)'
          BY <3>1, <3>2, <3>5, <5>2 DEF Newest
        <5>4. /\ n \in File /\ g \in File /\ n.stamp =< g.stamp
              /\ \A h \in Good(t) : h \in File /\ h.stamp =< n.stamp
          BY <4>1, <4>3, <5>2, <5>3 DEF Newest, Good, Shape
        <5>5. Newest(t, g)
          BY <5>1, <5>4 DEF Newest, File
        <5>6. g \notin task[s].extras
          BY <3>3, <5>5
        <5>7. task'[s].extras \subseteq task[s].extras
                \/ task'[s].extras = {e \in generations : Cardinality(Newer(e)) >= Keep}
          <6>1. CASE Quiet
            BY <6>1 DEF Quiet, Lighter
          <6>2. ASSUME NEW u \in Tasks, Loud(u), u # s
                PROVE  task'[s] = task[s]
            BY <6>2, OtherRows
          <6>3. CASE Loud(s)
            BY <6>3, CaptureFields, ReadKeyFields, MakeKeyFields, WriteFields, VerifyFields,
               PublishFields, ListExtrasFields DEF Loud
          <6> QED
            BY <6>1, <6>2, <6>3, Calls
        <5> QED
          BY <2>0, <2>2, <3>7, <5>5, <5>6, <5>7, NewestListed
      <4> QED
        BY <4>2, <4>3
    <3> QED
      BY <3>6, <3>7
  <2> QED
    BY <1>1, <2>1, <2>2, StampSteps DEF Guarded
<1> QED
  BY <1>1 DEF NewestKept

-----------------------------------------------------------------------------
(* The theorems.                                                           *)

(* What holds of any tasks, and what needs them to be few.                 *)
Inv == /\ Shape /\ KeysMade /\ Apart /\ Ordered /\ ExtrasHaveNewer /\ WipesAlone /\ NotWiped
       /\ Settled /\ FewStale /\ YoungKeys
       /\ Cardinality(Tasks) =< Keep => NewestKept

LEMMA InitInv == Init => Inv
PROOF
<1> SUFFICES ASSUME Init
             PROVE  Inv
  OBVIOUS
<1>1. \A t \in Tasks : task[t] = Idle
  BY DEF Init
<1>2. Shape
  BY IdleRow, FS_EmptySet DEF Init, Shape
<1>3. KeysMade /\ Apart /\ ExtrasHaveNewer
  BY <1>1 DEF Init, KeysMade, Apart, ExtrasHaveNewer, Idle, HasLedger, HasKey
<1>4. Verified = {}
  BY <1>1 DEF Init, Verified, Idle
<1>5. Ordered
  BY <1>4 DEF Ordered
<1>6. WipesAlone /\ NotWiped
  BY <1>1 DEF Init, WipesAlone, NotWiped, Idle, HasLedger
<1>7. \A t \in Tasks : ~Guarded(t)
  BY <1>1 DEF Guarded, Idle
<1>8. Settled /\ FewStale /\ YoungKeys /\ NewestKept
  BY <1>7 DEF Settled, FewStale, YoungKeys, NewestKept
<1> QED
  BY <1>2, <1>3, <1>5, <1>6, <1>8 DEF Inv

LEMMA StepInv == ASSUME Inv, [Next]_vars PROVE Inv'
PROOF
BY ShapeStep, KeysMadeStep, ApartStep, OrderedStep, ExtrasHaveNewerStep, WipesAloneStep,
   NotWipedStep, SettledStep, FewStaleStep, YoungKeysStep, NewestKeptStep DEF Inv

LEMMA AlwaysInv == Spec => []Inv
PROOF
BY InitInv, StepInv, PTL DEF Spec

(* A wipe that no other task overlapped leaves no readable generation of a *)
(* ledger that was wiped: destroyLocalRecoveryMaterial and what makes      *)
(* generations.                                                            *)
THEOREM WipesAreComplete == Spec => []WipedIsGone
PROOF
<1>1. Inv => WipedIsGone
  BY DEF Inv, NotWiped, WipedIsGone
<1> QED
  BY <1>1, AlwaysInv, PTL

(* Pruning takes the last readable generation only when Keep unreadable    *)
(* ones have later names, and never as long as no file was named by a      *)
(* clock set back, whatever tasks overlap, fail or are killed: then a file *)
(* with a later name has a key no older.                                   *)
THEOREM PruningIsSafe == Spec => PrunesSafely
PROOF
<1>1. ASSUME Inv, [Next]_vars, dir', generations' # generations, HasFallback, ~HasFallback'
      PROVE  /\ behind
             /\ \A g \in generations \ generations' :
                  Cardinality({h \in generations' : h.stamp > g.stamp}) >= Keep
  <2>1. PICK g \in generations : g.key = key
    BY <1>1 DEF HasFallback, Decodable
  <2>2. CASE \E t \in Tasks : Publish(t)
    BY <1>1, <2>1, <2>2 DEF Publish, HasFallback, Decodable
  <2>3. CASE \A t \in Tasks : ~Publish(t) /\ ~DeleteExtra(t)
    BY <1>1, <2>3 DEF Next, Begin, BeginAt, CreateStep, WipeStep, MakeDir, RecentEnough, Capture,
       ReadKey, MakeKey, Write, Verify, ListExtras, Created, Replace, DeleteDir, DeleteKey,
       WipeLedger, Throw, Commit, Kill, vars, disk
  <2>4. ASSUME NEW t \in Tasks, DeleteExtra(t)
        PROVE  /\ behind
               /\ \A e \in generations \ generations' :
                    Cardinality({h \in generations' : h.stamp > e.stamp}) >= Keep
    <3>1. g \in task[t].extras /\ generations' = generations \ {g} /\ key' = key
      BY <1>1, <2>1, <2>4 DEF DeleteExtra, HasFallback, Decodable
    <3>2. Cardinality(Newer(g)) >= Keep
      BY <1>1, <3>1 DEF Inv, ExtrasHaveNewer
    <3>3. generations \subseteq File /\ IsFiniteSet(generations) /\ g \in File
      BY <1>1 DEF Inv, Shape
    <3>4. Newer(g) = {h \in generations' : h.stamp > g.stamp}
      BY <3>1, <3>3 DEF Newer, File
    <3>5. ASSUME ~behind
          PROVE  FALSE
      <4>1. Newer(g) # {}
        BY <3>2, FS_EmptySet, GenerationBounds
      <4>2. PICK h \in generations : h.stamp > g.stamp
        BY <4>1 DEF Newer
      <4>3. g \in File /\ h \in File /\ h.key >= g.key /\ h.key =< lastKey
        BY <1>1, <3>3, <3>5, <4>2 DEF Inv, KeysMade, Ordered, Verified, Written
      <4>4. key = lastKey /\ lastKey \in Nat
        BY <1>1, <2>1, <4>3, NoneIsNoValue DEF Inv, Shape, File
      <4>5. h.key = key /\ h # g
        BY <2>1, <4>2, <4>3, <4>4 DEF File
      <4> QED
        BY <1>1, <3>1, <4>2, <4>5 DEF HasFallback, Decodable
    <3> QED
      BY <3>1, <3>2, <3>4, <3>5
  <2> QED
    BY <2>2, <2>3, <2>4
<1> QED
  BY <1>1, AlwaysInv, PTL DEF Spec, PrunesSafely

(* A restore replaces the ledger only when a readable generation has it as *)
(* it was when the restore began, or later: as long as no more than Keep   *)
(* tasks overlap, the user destroyed nothing meanwhile and the restore's   *)
(* own file was not named behind another by a clock set back.              *)
THEOREM RestoresAreGuarded == Spec => RestoreHasFallback
PROOF
<1>1. ASSUME Inv, NEW t \in Tasks, Replace(t), task[t].since # None, Cardinality(Tasks) =< Keep
      PROVE  \E g \in generations : Decodable(g) /\ g.ledger >= task[t].since
  <2>1. task[t].at = "Replace" /\ Guarded(t)
    BY <1>1, Typed DEF Inv, Replace, At, Guarded, RowReady, WipeSteps
  <2>2. Good(t) # {}
    BY <1>1, <2>1 DEF Inv, NewestKept, Published, HasLedger, HasKey, HasStamp
  <2> QED
    BY <2>2 DEF Good
<1>2. Inv => [\A t \in Tasks :
                Replace(t) /\ task[t].since # None /\ Cardinality(Tasks) =< Keep =>
                  \E g \in generations : Decodable(g) /\ g.ledger >= task[t].since]_vars
  BY <1>1
<1> QED
  BY <1>2, AlwaysInv, PTL DEF RestoreHasFallback
=============================================================================
