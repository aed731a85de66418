---------------------------- MODULE FreshRecovery ----------------------------
(***************************************************************************)
(* The life of the database files (lib/core/db/app_database.dart) and the  *)
(* fresh recovery that replaces them with a backup                         *)
(* (lib/core/services/backup_service.dart).                                *)
(*                                                                         *)
(* Every await on the file system or the secure storage is a step, and the *)
(* process may be killed between any two.  todo holds the steps left to    *)
(* the running operation.  A ledger is the number of the commit it ends    *)
(* with; a family is the main file with the ledger checkpointed into it    *)
(* and the write-ahead log, which holds a newer one.  The shared-memory    *)
(* file is derived from the log and left out.                              *)
(***************************************************************************)
EXTENDS Naturals, Sequences

CONSTANTS
  None,
  MaxVersion,   \* bound: commits
  MaxSessions,  \* bound: fresh recoveries begun
  MaxKills,     \* bound: kills of the process during an operation
  MaxFaults,    \* bound: steps that throw
  Devices0,     \* the families, and the keys, a device may start with
  Damaged       \* versions of the main file that can not be read

ASSUME BoundsAssumption ==
  /\ MaxVersion \in Nat /\ MaxSessions \in Nat
  /\ MaxKills \in Nat /\ MaxFaults \in Nat
ASSUME NoneAssumption == None \notin Nat /\ None \notin BOOLEAN

Versions == 0 .. MaxVersion
Family == [main : Versions \cup {None}, wal : Versions \cup {None}]
NoFamily == [main |-> None, wal |-> None]

ASSUME DevicesAssumption == Devices0 \subseteq Family \X BOOLEAN
ASSUME DamagedAssumption == Damaged \subseteq Versions

VARIABLES
  live,        \* the family at the canonical path
  quarantine,  \* recovery_quarantine: directory -> family
  key,         \* the secure storage has a database key
  marker,      \* arus_recovery_in_progress_v1.json, or None
  pending,     \* its .pending file exists
  mode,        \* what the process is doing
  todo,        \* the steps it still has to do
  session,     \* the FreshRecoverySession of the running operation
  isOpen,      \* _db is not null
  finalize,    \* _validatedRecoveryPendingFinalize
  lastVersion, \* the number of the last commit
  sessions, kills, faults  \* counters of the bounds

files == <<live, quarantine, key>>
markers == <<marker, pending>>
process == <<mode, todo, session, isOpen, finalize>>
counters == <<lastVersion, sessions, kills, faults>>
vars == <<files, markers, process, counters>>

Session == [dir : 1 .. MaxSessions, hadDatabase : BOOLEAN, hadKey : BOOLEAN]
ASSUME SessionAssumption == None \notin Session
States == {"preparing", "quarantined", "replacement_validated"}
ASSUME MarkerAssumption == None \notin [state : States, session : Session]
Modes == {"down", "opening", "beginning", "recovering", "undoing", "purging", "idle"}

Ledger(f) == IF f.wal # None THEN f.wal ELSE f.main
InQuarantine(d) == IF d \in DOMAIN quarantine THEN quarantine[d] ELSE NoFamily
WithoutDir(d) == [e \in DOMAIN quarantine \ {d} |-> quarantine[e]]

(* close() checkpoints the log into the main file.                         *)
Closed(f) == [main |-> Ledger(f), wal |-> None]

Init ==
  /\ \E device \in Devices0 : live = device[1] /\ key = device[2]
  /\ quarantine = [d \in {} |-> NoFamily]
  /\ marker = None /\ pending = FALSE
  /\ mode = "down" /\ todo = <<>> /\ session = None
  /\ isOpen = FALSE /\ finalize = FALSE
  /\ lastVersion = IF live.main = None THEN 0 ELSE Ledger(live)
  /\ sessions = 0 /\ kills = 0 /\ faults = 0

-----------------------------------------------------------------------------
(* The programs: the awaits of each operation, in order.                   *)

OpenSteps == <<"Resolve", "OpenDb">>
BeginSteps == <<"WritePending", "Preparing", "MoveMain", "MoveWal",
                "WritePending", "Quarantined">>
RestoreSteps == <<"Restore", "WritePending", "Validated">>
FinishSteps == <<"DropMarker", "DropPending", "Finished", "Prune">>
PurgeSteps == <<"DropMarker", "DropPending", "PurgeAll">>

(* Mutant: the canonical files are deleted without a look at quarantine.   *)
RollbackAlways(s) ==
  <<"DropWal", "DropMain", "MainBack", "WalBack", "DropQuarantine">>
  \o (IF s.hadKey THEN <<>> ELSE <<"DropKey">>) \o <<"DropMarker", "DropPending">>

(* Mutant: the marker is gone before the files are back.                   *)
RollbackMarkerFirst(s) ==
  IF s.hadDatabase /\ InQuarantine(s.dir).main = None
  THEN <<"DropMarker", "DropPending", "DropQuarantine">>
  ELSE <<"DropMarker", "DropPending", "DropWal", "DropMain", "MainBack", "WalBack",
         "DropQuarantine">> \o (IF s.hadKey THEN <<>> ELSE <<"DropKey">>)

(* Mutant: a rollback that moved nothing leaves the marker.                *)
RollbackKeepsMarker(s) ==
  IF s.hadDatabase /\ InQuarantine(s.dir).main = None THEN <<"DropQuarantine">>
  ELSE RollbackAlways(s)

(* _rollbackRecoveryFiles: a database that was not moved is the only copy. *)
RollbackSteps(s) ==
  IF s.hadDatabase /\ InQuarantine(s.dir).main = None
  THEN <<"DropMarker", "DropPending", "DropQuarantine">>
  ELSE <<"DropWal", "DropMain", "MainBack", "WalBack", "DropQuarantine">>
       \o (IF s.hadKey THEN <<>> ELSE <<"DropKey">>)
       \o <<"DropMarker", "DropPending">>

Does(step) == todo # <<>> /\ Head(todo) = step

(* The operation goes on after its current step; an operation with no step *)
(* left is over.                                                           *)
GoOn ==
  /\ todo' = Tail(todo)
  /\ mode' = IF Tail(todo) = <<>> THEN "idle" ELSE mode

StepRest == <<session, isOpen, finalize, counters>>

-----------------------------------------------------------------------------
(* The file steps.                                                         *)

WritePending ==
  /\ Does("WritePending")
  /\ pending' = TRUE
  /\ GoOn
  /\ UNCHANGED <<files, marker, StepRest>>

(* The rename that publishes the pending marker.                           *)
Publish(state) ==
  /\ marker' = [state |-> state, session |-> session]
  /\ pending' = FALSE
  /\ UNCHANGED <<files, StepRest>>

Preparing == Does("Preparing") /\ Publish("preparing") /\ GoOn

Quarantined ==
  /\ Does("Quarantined")
  /\ Publish("quarantined")
  /\ mode' = "recovering"
  /\ todo' = OpenSteps \o RestoreSteps

(* markFreshRecoveryValidated, after which finalizeFreshRecovery tidies up. *)
Validated ==
  /\ Does("Validated")
  /\ Publish("replacement_validated")
  /\ mode' = mode
  /\ todo' = <<"DropMarker", "DropPending", "Prune">>

MoveMain ==
  /\ Does("MoveMain")
  /\ live' = [live EXCEPT !.main = None]
  /\ quarantine' = [quarantine EXCEPT ![session.dir].main = live.main]
  /\ GoOn
  /\ UNCHANGED <<key, markers, StepRest>>

MoveWal ==
  /\ Does("MoveWal")
  /\ live' = [live EXCEPT !.wal = None]
  /\ quarantine' = [quarantine EXCEPT ![session.dir].wal = live.wal]
  /\ GoOn
  /\ UNCHANGED <<key, markers, StepRest>>

DropWal ==
  /\ Does("DropWal")
  /\ live' = [live EXCEPT !.wal = None]
  /\ GoOn
  /\ UNCHANGED <<quarantine, key, markers, StepRest>>

DropMain ==
  /\ Does("DropMain")
  /\ live' = [live EXCEPT !.main = None]
  /\ GoOn
  /\ UNCHANGED <<quarantine, key, markers, StepRest>>

(* Renames back to the canonical path; a missing file is passed over.      *)
MainBack ==
  /\ Does("MainBack")
  /\ IF InQuarantine(session.dir).main = None THEN UNCHANGED <<live, quarantine>>
     ELSE /\ live' = [live EXCEPT !.main = quarantine[session.dir].main]
          /\ quarantine' = [quarantine EXCEPT ![session.dir].main = None]
  /\ GoOn
  /\ UNCHANGED <<key, markers, StepRest>>

WalBack ==
  /\ Does("WalBack")
  /\ IF InQuarantine(session.dir).wal = None THEN UNCHANGED <<live, quarantine>>
     ELSE /\ live' = [live EXCEPT !.wal = quarantine[session.dir].wal]
          /\ quarantine' = [quarantine EXCEPT ![session.dir].wal = None]
  /\ GoOn
  /\ UNCHANGED <<key, markers, StepRest>>

DropQuarantine ==
  /\ Does("DropQuarantine")
  /\ quarantine' = WithoutDir(session.dir)
  /\ GoOn
  /\ UNCHANGED <<live, key, markers, StepRest>>

DropKey ==
  /\ Does("DropKey")
  /\ key' = FALSE
  /\ GoOn
  /\ UNCHANGED <<live, quarantine, markers, StepRest>>

DropMarker ==
  /\ Does("DropMarker")
  /\ marker' = None
  /\ GoOn
  /\ UNCHANGED <<files, pending, StepRest>>

DropPending ==
  /\ Does("DropPending")
  /\ pending' = FALSE
  /\ GoOn
  /\ UNCHANGED <<files, marker, StepRest>>

Finished ==
  /\ Does("Finished")
  /\ finalize' = FALSE
  /\ GoOn
  /\ UNCHANGED <<files, markers, session, isOpen, counters>>

(* _pruneRecoveryQuarantine(keep: 1) keeps the newest directory.           *)
Prune ==
  /\ Does("Prune")
  /\ quarantine' = [d \in {e \in DOMAIN quarantine : \A f \in DOMAIN quarantine : f =< e}
                      |-> quarantine[d]]
  /\ GoOn
  /\ UNCHANGED <<live, key, markers, StepRest>>

PurgeAll ==
  /\ Does("PurgeAll")
  /\ quarantine' = [d \in {} |-> NoFamily]
  /\ GoOn
  /\ UNCHANGED <<live, key, markers, StepRest>>

-----------------------------------------------------------------------------
(* open()                                                                  *)

(* Mutant: a validated replacement is rolled back like any other.          *)
ResolveForgetsValidated ==
  /\ Does("Resolve")
  /\ IF marker = None
     THEN todo' = Tail(todo) /\ pending' = FALSE /\ UNCHANGED <<session, finalize>>
     ELSE /\ todo' = RollbackAlways(marker.session) \o Tail(todo)
          /\ session' = marker.session
          /\ UNCHANGED <<pending, finalize>>
  /\ UNCHANGED <<files, marker, mode, isOpen, counters>>

(* _resolveInterruptedRecoveryIfNeeded                                     *)
Resolve ==
  /\ Does("Resolve")
  /\ \/ /\ marker = None
        /\ pending' = FALSE
        /\ todo' = Tail(todo)
        /\ UNCHANGED <<session, finalize>>
     \/ /\ marker # None
        /\ marker.state = "replacement_validated"
        /\ finalize' = TRUE
        /\ todo' = Tail(todo)
        /\ UNCHANGED <<session, pending>>
     \/ /\ marker # None
        /\ marker.state # "replacement_validated"
        /\ session' = marker.session
        /\ todo' = RollbackSteps(marker.session) \o Tail(todo)
        /\ UNCHANGED <<finalize, pending>>
  /\ UNCHANGED <<files, marker, mode, isOpen, counters>>

(* An existing database is not readable without its key, nor when damaged; *)
(* a missing one is created, with a key if there is none.                  *)
Readable == live.main # None => key /\ live.main \notin Damaged

OpenDb ==
  /\ Does("OpenDb")
  /\ Readable
  /\ key' = TRUE
  /\ live' = IF live.main = None THEN [main |-> 0, wal |-> None] ELSE live
  /\ isOpen' = TRUE
  /\ IF finalize THEN todo' = FinishSteps \o Tail(todo) /\ mode' = mode ELSE GoOn
  /\ UNCHANGED <<quarantine, markers, session, finalize, counters>>

(* _restoreDecodedBackup: one transaction on the database that is open.    *)
Restore ==
  /\ Does("Restore")
  /\ lastVersion < MaxVersion
  /\ lastVersion' = lastVersion + 1
  /\ live' = [live EXCEPT !.wal = lastVersion']
  /\ GoOn
  /\ UNCHANGED <<quarantine, key, markers, session, isOpen, finalize,
                 sessions, kills, faults>>

-----------------------------------------------------------------------------
(* Failures.  The .pending file of a marker that fails to publish goes.    *)
Publishing == {"WritePending", "Preparing", "Quarantined", "Validated"}

(* This session's marker has been published, so a failure is rolled back.  *)
RollsBack ==
  \/ mode = "recovering"
  \/ mode = "beginning" /\ marker # None /\ marker.session = session

(* Tidying up after a validated replacement: a failure there is swallowed, *)
(* and what follows Prune goes on.                                         *)
TidyingUp == \E k \in DOMAIN todo : todo[k] = "Prune"
AfterTidyingUp ==
  LET k == CHOOSE k \in DOMAIN todo : todo[k] = "Prune"
  IN SubSeq(todo, k + 1, Len(todo))

(* A step throws, or the database can not be opened.                       *)
Throw ==
  /\ pending' = IF Head(todo) \in Publishing THEN FALSE ELSE pending
  /\ \/ /\ TidyingUp
        /\ todo' = AfterTidyingUp
        /\ mode' = IF AfterTidyingUp = <<>> THEN "idle" ELSE mode
        /\ UNCHANGED <<live, isOpen>>
     \/ /\ ~TidyingUp
        /\ RollsBack
        /\ live' = IF isOpen THEN Closed(live) ELSE live
        /\ isOpen' = FALSE
        /\ mode' = "undoing"
        /\ todo' = RollbackSteps(session)
     \/ /\ ~TidyingUp
        /\ ~RollsBack
        /\ isOpen' = (isOpen /\ mode = "purging")
        /\ mode' = "idle"
        /\ todo' = <<>>
        /\ live' = live
  /\ UNCHANGED <<quarantine, key, marker, session, finalize,
                 lastVersion, sessions, kills>>

OpenFails == Does("OpenDb") /\ ~Readable /\ Throw /\ UNCHANGED faults

Fault ==
  /\ todo # <<>>
  /\ Head(todo) # "DropQuarantine"
  /\ faults < MaxFaults
  /\ faults' = faults + 1
  /\ Throw

(* A quarantine that can not be deleted is left behind.                    *)
LeaveQuarantine ==
  /\ Does("DropQuarantine")
  /\ faults < MaxFaults
  /\ faults' = faults + 1
  /\ GoOn
  /\ UNCHANGED <<files, markers, session, isOpen, finalize, lastVersion, sessions, kills>>

(* The process dies; what is in the log stays in the log.                  *)
Kill ==
  /\ mode # "down"
  /\ mode # "idle" => kills < MaxKills
  /\ kills' = IF mode = "idle" THEN kills ELSE kills + 1
  /\ mode' = "down"
  /\ todo' = <<>>
  /\ session' = None
  /\ isOpen' = FALSE
  /\ finalize' = FALSE
  /\ UNCHANGED <<files, markers, lastVersion, sessions, faults>>

-----------------------------------------------------------------------------
(* What the user does.                                                     *)

Launch ==
  /\ mode = "down" \/ (mode = "idle" /\ ~isOpen)
  /\ mode' = "opening"
  /\ todo' = OpenSteps
  /\ UNCHANGED <<files, markers, session, isOpen, finalize, counters>>

Commit ==
  /\ mode = "idle"
  /\ isOpen
  /\ lastVersion < MaxVersion
  /\ lastVersion' = lastVersion + 1
  /\ live' = [live EXCEPT !.wal = lastVersion']
  /\ UNCHANGED <<quarantine, key, markers, process, sessions, kills, faults>>

(* SQLite checkpoints the log on its own.                                  *)
Checkpoint ==
  /\ isOpen
  /\ live.wal # None
  /\ live' = Closed(live)
  /\ UNCHANGED <<quarantine, key, markers, process, counters>>

(* Mutant: the session names the directory of the recovery before it.      *)
SessionOfLastRecovery(family) ==
  [dir |-> sessions, hadDatabase |-> family.main # None, hadKey |-> key]

NewSession(family) ==
  [dir |-> sessions + 1, hadDatabase |-> family.main # None, hadKey |-> key]

(* beginFreshRecovery with a backup that was decoded, from the settings or *)
(* from the recovery screen.                                               *)
Recover ==
  /\ mode = "idle"
  /\ sessions < MaxSessions
  /\ lastVersion < MaxVersion
  /\ sessions' = sessions + 1
  /\ live' = IF isOpen THEN Closed(live) ELSE live
  /\ isOpen' = FALSE
  /\ session' = NewSession(live')
  /\ quarantine' = [d \in DOMAIN quarantine \cup {sessions'} |->
                      IF d = sessions' THEN NoFamily ELSE quarantine[d]]
  /\ mode' = "beginning"
  /\ todo' = BeginSteps
  /\ UNCHANGED <<key, markers, finalize, lastVersion, kills, faults>>

(* purgeRecoveryQuarantine, before the local data is wiped.                *)
Purge ==
  /\ mode = "idle"
  /\ isOpen
  /\ mode' = "purging"
  /\ todo' = PurgeSteps
  /\ UNCHANGED <<files, markers, session, isOpen, finalize, counters>>

MarkerStep == WritePending \/ Preparing \/ Quarantined \/ Validated \/ DropMarker \/ DropPending
FileStep == MoveMain \/ MoveWal \/ DropWal \/ DropMain \/ MainBack \/ WalBack
            \/ DropQuarantine \/ DropKey \/ Finished \/ Prune \/ PurgeAll
DatabaseStep == Resolve \/ OpenDb \/ OpenFails \/ Restore

ProcessStep == MarkerStep \/ FileStep \/ DatabaseStep

Next ==
  \/ ProcessStep
  \/ Fault \/ LeaveQuarantine \/ Kill
  \/ Launch \/ Commit \/ Checkpoint \/ Recover \/ Purge

Spec == Init /\ [][Next]_vars

(* The process goes on as long as it lives, and a killed app is started    *)
(* again.                                                                  *)
FairSpec == Spec /\ WF_vars(ProcessStep) /\ WF_vars(mode = "down" /\ Launch)

-----------------------------------------------------------------------------
(***************************************************************************)
(* Properties.                                                             *)
(***************************************************************************)

TypeOK ==
  /\ live \in Family
  /\ DOMAIN quarantine \subseteq 1 .. MaxSessions
  /\ quarantine \in [DOMAIN quarantine -> Family]
  /\ key \in BOOLEAN /\ pending \in BOOLEAN /\ isOpen \in BOOLEAN /\ finalize \in BOOLEAN
  /\ session \in Session \cup {None}
  /\ marker \in [state : States, session : Session] \cup {None}
  /\ mode \in Modes
  /\ lastVersion \in Versions

Families == {live} \cup {quarantine[d] : d \in DOMAIN quarantine}

HasCheckpointed == \E f \in Families : f.main # None /\ f.main > 0
HasLedger == \E f \in Families : f.main # None /\ Ledger(f) > 0

(* However a recovery is killed or fails, and however often, no rollback   *)
(* and no pruning deletes the last main file with the user's data, unless  *)
(* a database with the user's data is there: only the user's wipe does.    *)
(* (A failed recovery on a device that had no database takes away what it  *)
(* had restored there.  A log that was never checkpointed is not           *)
(* protected: the rollback deletes both files before it renames back.      *)
(* Nor is this a promise for any number of failing steps: with five of     *)
(* them a pruning can take the last quarantine that holds the data.)       *)
KeepsLedger ==
  [][HasCheckpointed =>
       \/ HasLedger' \/ PurgeAll
       \/ faults > 0 /\ session # None /\ ~session.hadDatabase]_vars

(* A replacement whose validation was recorded is never rolled back.       *)
ValidatedStays ==
  [][marker # None /\ marker.state = "replacement_validated"
       => live'.main # None /\ Ledger(live') >= Ledger(live)]_vars

(* A marker left by a crash is resolved by the next start, unless that     *)
(* start stops at the recovery screen.  A failed finalization may leave    *)
(* the marker of a validated replacement while the app runs on.            *)
MarkerResolved ==
  (marker # None) ~> \/ marker = None
                     \/ mode = "idle" /\ ~isOpen
                     \/ mode = "idle" /\ marker.state = "replacement_validated"

(* The ledger the next start will find: that of the database family which  *)
(* resolving the marker puts at the canonical path.                        *)
Recoverable ==
  LET undone == /\ marker # None
                /\ marker.state # "replacement_validated"
                /\ ~(marker.session.hadDatabase
                     /\ InQuarantine(marker.session.dir).main = None)
      q == InQuarantine(marker.session.dir)
  IN IF ~undone THEN Ledger(live)
     ELSE IF q.main = None THEN None ELSE Ledger(q)

(* Killed at any step, a recovery leaves the old ledger or the new one, as *)
(* long as no file operation has failed.                                   *)
Durable == INSTANCE DurableLedger
             WITH ledger <- Recoverable, shown <- IF isOpen THEN Ledger(live) ELSE None,
                  broken <- faults > 0
ImplementsDurableLedger == Durable!Spec

-----------------------------------------------------------------------------
(* Statements of the documents that the code does not keep.                *)

(* "Corrupt active DB with valid local generation: Safe Recovery Mode      *)
(* restores generation."                                                   *)
RecoveryRestores == (mode = "beginning") ~> isOpen
=============================================================================
