-------------------------- MODULE RecoveryGenerations --------------------------
(***************************************************************************)
(* The local recovery generations (lib/core/services/backup_service.dart): *)
(* encrypted snapshots of the ledger that the app makes when it starts,    *)
(* when it goes to the background, when the user asks and before a         *)
(* portable backup replaces the ledger; and the wipe that removes them.    *)
(*                                                                         *)
(* Nothing keeps two of these operations apart, so each is a task, and     *)
(* every await is the end of a step: other tasks, commits to the ledger    *)
(* and the death of the process may come between.  A ledger is the number  *)
(* of the commit that made it.                                             *)
(***************************************************************************)
EXTENDS Naturals, FiniteSets

CONSTANTS
  None,
  Tasks,       \* operations that may run at the same time
  Kinds,       \* what a task may be
  Keep,        \* generations kept (3)
  MaxCommits,  \* bound: commits between the tasks'
  MaxTasks,    \* bound: tasks begun
  MaxFaults,   \* bound: steps that throw, and kills
  KeyAtStart   \* the device has a recovery key already

ASSUME KindsAssumption == Kinds \subseteq {"BACKGROUND", "FORCED", "RESTORE", "WIPE"}
ASSUME GenerationBounds ==
  /\ Keep \in Nat \ {0} /\ MaxCommits \in Nat
  /\ MaxTasks \in Nat /\ MaxFaults \in Nat
  /\ KeyAtStart \in BOOLEAN
ASSUME TasksAreFinite == IsFiniteSet(Tasks)
ASSUME NoneIsNoValue == None \notin Nat /\ None # "WIPE"

Versions == 1 .. 1 + MaxCommits + MaxTasks
(* Every task makes at most one key and one file name.                     *)
Keys == 1 .. MaxTasks + 1
Stamps == 1 .. MaxTasks
Generation == [stamp : Stamps, ledger : Versions, key : Keys]

VARIABLES
  ledger,       \* the last commit
  key,          \* arus_local_recovery_key_v1, or None
  dir,          \* the directory local_recovery exists
  generations,  \* the published .arusrecovery files
  task,         \* what each task has done
  lastKey, begun, commits, faults,  \* counters of the bounds
  behind,       \* history: a file was named by a clock set back
  wiped         \* history: the last ledger wiped while no other task ran

vars == <<ledger, key, dir, generations, task, lastKey, begun, commits, faults, behind, wiped>>
disk == <<dir, generations>>
counters == <<lastKey, begun, commits, faults>>
history == <<behind, wiped>>

Steps == {"idle", "MakeDir", "Capture", "ReadKey", "MakeKey", "Write", "Verify", "Publish",
          "ListExtras", "DeleteExtras", "Replace", "DeleteDir", "DeleteKey", "WipeLedger"}

Idle == [at |-> "idle", kind |-> None, ledger |-> None, key |-> None, stamp |-> None,
         pending |-> FALSE, extras |-> {}, since |-> None]

Init ==
  /\ ledger = 1
  /\ key = IF KeyAtStart THEN 1 ELSE None
  /\ lastKey = IF KeyAtStart THEN 1 ELSE 0
  /\ dir = FALSE
  /\ generations = {}
  /\ task = [t \in Tasks |-> Idle]
  /\ begun = 0 /\ commits = 0 /\ faults = 0
  /\ behind = FALSE /\ wiped = 0

At(t, step) == task[t].at = step
GoTo(t, step) == task' = [task EXCEPT ![t].at = step]

(* The task is over; the .pending file of a task that throws is deleted.   *)
End(t) == task' = [task EXCEPT ![t] = Idle]

Decodable(g) == g.key = key

(* listLocalRecoveryGenerations: the newest first.                         *)
Newer(g) == {h \in generations : h.stamp > g.stamp}

-----------------------------------------------------------------------------
(* createLocalRecoveryGeneration                                           *)

(* Two tasks that find no key both make one, and the first one's file is   *)
(* not readable any more: a key is settled when no task will replace it.   *)
KeySettled == key # None /\ \A t \in Tasks : ~At(t, "MakeKey")

Alone(t) == \A s \in Tasks \ {t} : At(s, "idle")

(* since is history: the ledger at the beginning, unless the key was not   *)
(* settled then or a wipe destroyed the recovery material afterwards; of a *)
(* wipe, unless another task runs.                                         *)
BeginAt(t, kind, step) ==
  /\ At(t, "idle")
  /\ begun < MaxTasks
  /\ begun' = begun + 1
  /\ task' = [s \in Tasks |->
       IF s = t
       THEN [task[t] EXCEPT !.kind = kind, !.at = step,
               !.since = IF IF kind = "WIPE" THEN Alone(t) ELSE KeySettled THEN ledger ELSE None]
       ELSE IF task[s].kind = "WIPE" THEN [task[s] EXCEPT !.since = None] ELSE task[s]]
  /\ UNCHANGED <<ledger, key, disk, lastKey, commits, faults, history>>

(* Mutant: a wipe deletes the ledger only.                                 *)
BeginWipeOfLedger(t, kind) == BeginAt(t, kind, IF kind = "WIPE" THEN "WipeLedger" ELSE "MakeDir")

Begin(t, kind) == BeginAt(t, kind, IF kind = "WIPE" THEN "DeleteDir" ELSE "MakeDir")

MakeDir(t) ==
  /\ At(t, "MakeDir")
  /\ dir' = TRUE
  /\ GoTo(t, "Capture")
  /\ UNCHANGED <<ledger, key, generations, counters, history>>

(* A background task needs no new generation when the last one is recent.  *)
RecentEnough(t) ==
  /\ At(t, "Capture")
  /\ task[t].kind = "BACKGROUND"
  /\ generations # {}
  /\ End(t)
  /\ UNCHANGED <<ledger, key, disk, counters, history>>

Capture(t) ==
  /\ At(t, "Capture")
  /\ task' = [task EXCEPT ![t].ledger = ledger, ![t].at = "ReadKey"]
  /\ UNCHANGED <<ledger, key, disk, counters, history>>

ReadKey(t) ==
  /\ At(t, "ReadKey")
  /\ task' = [task EXCEPT ![t].key = key,
                          ![t].at = IF key = None THEN "MakeKey" ELSE "Write"]
  /\ UNCHANGED <<ledger, key, disk, counters, history>>

MakeKey(t) ==
  /\ At(t, "MakeKey")
  /\ lastKey' = lastKey + 1
  /\ key' = lastKey'
  /\ task' = [task EXCEPT ![t].key = lastKey', ![t].at = "Write"]
  /\ UNCHANGED <<ledger, disk, begun, commits, faults, history>>

(* No two files are named in the same microsecond.                         *)
Taken == {g.stamp : g \in generations \cup UNION {task[t].extras : t \in Tasks}}
           \cup {task[t].stamp : t \in Tasks}

(* A file or a candidate in the directory has a later name than s: the     *)
(* clock has been set back since.                                          *)
SetBack(s) == \/ \E g \in generations : g.stamp > s
              \/ \E t \in Tasks : task[t].pending /\ task[t].stamp > s

(* The file is named, after the snapshot was taken and encrypted, by the   *)
(* wall clock of the device, which may have been set forward or back.      *)
Write(t) ==
  /\ At(t, "Write")
  /\ \/ /\ dir
        /\ \E s \in Stamps \ Taken :
             /\ behind' = (behind \/ SetBack(s))
             /\ task' = [task EXCEPT ![t].stamp = s, ![t].pending = TRUE, ![t].at = "Verify",
                                     ![t].since = IF SetBack(s) THEN None ELSE @]
     \/ ~dir /\ End(t) /\ behind' = behind
  /\ UNCHANGED <<ledger, key, disk, counters, wiped>>

(* The candidate must decode with the key in the secure storage.           *)
Verify(t) ==
  /\ At(t, "Verify")
  /\ IF task[t].pending /\ key # None /\ task[t].key = key THEN GoTo(t, "Publish") ELSE End(t)
  /\ UNCHANGED <<ledger, key, disk, counters, history>>

GenerationOf(t) ==
  [stamp |-> task[t].stamp, ledger |-> task[t].ledger, key |-> task[t].key]

(* The rename: it fails when the wipe has taken the candidate.             *)
Publish(t) ==
  /\ At(t, "Publish")
  /\ IF task[t].pending
     THEN /\ generations' = generations \cup {GenerationOf(t)}
          /\ task' = [task EXCEPT ![t].pending = FALSE, ![t].at = "ListExtras"]
     ELSE generations' = generations /\ End(t)
  /\ UNCHANGED <<ledger, key, dir, counters, history>>

(* Mutant: only the generation just published is kept.                     *)
ListExtrasKeepOwn(t) ==
  /\ At(t, "ListExtras")
  /\ task' = [task EXCEPT ![t].extras = generations \ {GenerationOf(t)},
                          ![t].at = "DeleteExtras"]
  /\ UNCHANGED <<ledger, key, disk, counters, history>>

ListExtras(t) ==
  /\ At(t, "ListExtras")
  /\ task' = [task EXCEPT ![t].extras = {g \in generations : Cardinality(Newer(g)) >= Keep},
                          ![t].at = "DeleteExtras"]
  /\ UNCHANGED <<ledger, key, disk, counters, history>>

(* Each deletion is awaited, and a failed one is passed over.              *)
DeleteExtra(t) ==
  /\ At(t, "DeleteExtras")
  /\ \E g \in task[t].extras :
       /\ task' = [task EXCEPT ![t].extras = @ \ {g}]
       /\ \/ generations' = generations \ {g} /\ faults' = faults
          \/ generations' = generations /\ faults < MaxFaults /\ faults' = faults + 1
  /\ UNCHANGED <<ledger, key, dir, lastKey, begun, commits, history>>

Created(t) ==
  /\ At(t, "DeleteExtras")
  /\ task[t].extras = {}
  /\ IF task[t].kind = "RESTORE" THEN GoTo(t, "Replace") ELSE End(t)
  /\ UNCHANGED <<ledger, key, disk, counters, history>>

-----------------------------------------------------------------------------
(* restorePortableBackup, after the generation it begins with; the wipe.   *)

(* The backup's rows replace the ledger in one transaction.                *)
Replace(t) ==
  /\ At(t, "Replace")
  /\ ledger' = ledger + 1
  /\ End(t)
  /\ UNCHANGED <<key, disk, counters, history>>

(* destroyLocalRecoveryMaterial: the directory, then the key.              *)
DeleteDir(t) ==
  /\ At(t, "DeleteDir")
  /\ dir' = FALSE
  /\ generations' = {}
  /\ task' = [s \in Tasks |-> IF s = t THEN [task[s] EXCEPT !.at = "DeleteKey"]
                              ELSE [task[s] EXCEPT !.pending = FALSE, !.since = None]]
  /\ UNCHANGED <<ledger, key, counters, history>>

DeleteKey(t) ==
  /\ At(t, "DeleteKey")
  /\ key' = None
  /\ task' = [s \in Tasks |-> IF s = t THEN [task[s] EXCEPT !.at = "WipeLedger"]
                              ELSE [task[s] EXCEPT !.since = None]]
  /\ UNCHANGED <<ledger, disk, counters, history>>

WipeLedger(t) ==
  /\ At(t, "WipeLedger")
  /\ ledger' = ledger + 1
  /\ wiped' = IF task[t].since = None THEN wiped ELSE ledger
  /\ End(t)
  /\ UNCHANGED <<key, disk, counters, behind>>

-----------------------------------------------------------------------------
Commit ==
  /\ commits < MaxCommits
  /\ commits' = commits + 1
  /\ ledger' = ledger + 1
  /\ UNCHANGED <<key, disk, task, lastKey, begun, faults, history>>

(* Mutant: a restore goes on without its generation.                       *)
ThrowSwallowed(t) ==
  /\ ~At(t, "idle")
  /\ faults < MaxFaults
  /\ faults' = faults + 1
  /\ IF task[t].kind = "RESTORE" /\ ~At(t, "Replace") THEN GoTo(t, "Replace") ELSE End(t)
  /\ UNCHANGED <<ledger, key, disk, lastKey, begun, commits, history>>

(* A step throws (the storage is full, the secure storage fails): the task *)
(* is over, a restore before it touched the ledger.                        *)
Throw(t) ==
  /\ ~At(t, "idle")
  /\ faults < MaxFaults
  /\ faults' = faults + 1
  /\ End(t)
  /\ UNCHANGED <<ledger, key, disk, lastKey, begun, commits, history>>

Kill ==
  /\ \E t \in Tasks : ~At(t, "idle")
  /\ faults < MaxFaults
  /\ faults' = faults + 1
  /\ task' = [t \in Tasks |-> Idle]
  /\ UNCHANGED <<ledger, key, disk, lastKey, begun, commits, history>>

CreateStep(t) ==
  \/ MakeDir(t) \/ RecentEnough(t) \/ Capture(t) \/ ReadKey(t) \/ MakeKey(t) \/ Write(t)
  \/ Verify(t) \/ Publish(t) \/ ListExtras(t) \/ DeleteExtra(t) \/ Created(t)

WipeStep(t) == DeleteDir(t) \/ DeleteKey(t) \/ WipeLedger(t)

Next ==
  \/ \E t \in Tasks :
       \/ \E kind \in Kinds : Begin(t, kind)
       \/ CreateStep(t) \/ Replace(t) \/ WipeStep(t) \/ Throw(t)
  \/ Commit
  \/ Kill

Spec == Init /\ [][Next]_vars

-----------------------------------------------------------------------------
(***************************************************************************)
(* Properties.                                                             *)
(***************************************************************************)

TaskRow == [at : Steps, kind : Kinds \cup {None}, ledger : Versions \cup {None},
            key : Keys \cup {None}, stamp : Stamps \cup {None}, pending : BOOLEAN,
            extras : SUBSET Generation, since : Versions \cup {None}]

TypeOK ==
  /\ ledger \in Versions
  /\ key \in Keys \cup {None}
  /\ dir \in BOOLEAN
  /\ generations \subseteq Generation
  /\ DOMAIN task = Tasks
  /\ task \in [Tasks -> TaskRow]
  /\ \A t \in Tasks : task[t].pending => task[t].at \in {"Verify", "Publish"}
  /\ behind \in BOOLEAN /\ lastKey \in 0 .. MaxTasks + 1
  /\ wiped \in Versions \cup {0}

HasFallback == \E g \in generations : Decodable(g)

(* A new generation costs the app its last readable one only when a file   *)
(* was named by a clock set back, and Keep files that do not decode have    *)
(* later names (a list by name takes them for newer): whatever tasks       *)
(* overlap, fail or are killed, and although keys come and go.             *)
PrunesSafely ==
  [][dir' /\ generations' # generations /\ HasFallback /\ ~HasFallback' =>
       /\ behind
       /\ \A g \in generations \ generations' :
            Cardinality({h \in generations' : h.stamp > g.stamp}) >= Keep]_vars

(* With a settled key, and unless the user destroyed the recovery material *)
(* meanwhile, a restore replaces the ledger only when a readable           *)
(* generation has the ledger as it was when the restore began, or a later  *)
(* one; as long as its file was not named behind another by a clock set    *)
(* back, and no more than Keep tasks overlap: Keep snapshots taken before  *)
(* it and published after its own generation would prune that.             *)
RestoreHasFallback ==
  [][\A t \in Tasks :
       Replace(t) /\ task[t].since # None /\ Cardinality(Tasks) =< Keep =>
         \E g \in generations : Decodable(g) /\ g.ledger >= task[t].since]_vars

(* After a wipe that no other task overlapped no readable generation has a *)
(* ledger that was wiped.  A snapshot that overlaps the wipe may leave one *)
(* (backup_service.dart:207): it makes the directory and a key again       *)
(* between the steps of the wipe.                                          *)
WipedIsGone == \A g \in generations : Decodable(g) => g.ledger > wiped
=============================================================================
