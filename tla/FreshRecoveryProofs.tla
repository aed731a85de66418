-------------------------- MODULE FreshRecoveryProofs --------------------------
(***************************************************************************)
(* Theorems about FreshRecovery, for every device, every damage and any    *)
(* number of recoveries, kills and steps that throw.                       *)
(* The types and the marker's promise come first.  Then, for runs in which *)
(* no step has thrown yet, what the files hold while each list of steps is *)
(* under way, and from it the refinement of DurableLedger.                 *)
(***************************************************************************)
EXTENDS FreshRecovery, SequenceTheorems, TLAPS

-----------------------------------------------------------------------------
(* Types, in four parts; and an operation that uses a session has one.     *)

RollbackNames == {"DropWal", "DropMain", "MainBack", "WalBack", "DropQuarantine", "DropKey",
                  "DropMarker", "DropPending"}
OfSession == {"Preparing", "Quarantined", "Validated", "MoveMain", "MoveWal",
              "MainBack", "WalBack", "DropQuarantine"}
Names == RollbackNames \cup OfSession \cup
         {"Resolve", "OpenDb", "WritePending", "Restore", "Finished", "Prune", "PurgeAll"}

FilesTyped ==
  /\ live \in Family /\ key \in BOOLEAN
  /\ DOMAIN quarantine \subseteq 1 .. MaxSessions
  /\ quarantine \in [DOMAIN quarantine -> Family]
MarkersTyped ==
  /\ marker \in [state : States, session : Session] \cup {None}
  /\ pending \in BOOLEAN
TodoTyped ==
  /\ todo \in Seq(Names) /\ mode \in Modes
  /\ session \in Session \cup {None}
  /\ mode \in {"beginning", "recovering"} => session \in Session
  /\ (\E i \in 1 .. Len(todo) : todo[i] \in OfSession) => session \in Session
FlagsTyped == isOpen \in BOOLEAN /\ finalize \in BOOLEAN
CountersTyped == lastVersion \in Versions /\ sessions \in 0 .. MaxSessions

Typed == FilesTyped /\ MarkersTyped /\ TodoTyped /\ FlagsTyped /\ CountersTyped

LEMMA TypedIsTypeOK == Typed => TypeOK
BY DEF Typed, FilesTyped, MarkersTyped, TodoTyped, FlagsTyped, CountersTyped, TypeOK

LEMMA LedgerType ==
  ASSUME NEW f \in Family
  PROVE  Ledger(f) \in Versions \cup {None} /\ Closed(f) \in Family /\ NoFamily \in Family
BY DEF Family, Ledger, Closed, NoFamily

LEMMA RollbackType ==
  ASSUME NEW s
  PROVE  RollbackSteps(s) \in Seq(RollbackNames)
<1>1. <<"DropMarker", "DropPending", "DropQuarantine">> \in Seq(RollbackNames)
  BY DEF RollbackNames
<1>2. <<"DropWal", "DropMain", "MainBack", "WalBack", "DropQuarantine">> \in Seq(RollbackNames)
  BY DEF RollbackNames
<1>3. <<>> \in Seq(RollbackNames) /\ <<"DropKey">> \in Seq(RollbackNames)
  BY DEF RollbackNames
<1>4. <<"DropMarker", "DropPending">> \in Seq(RollbackNames)
  BY DEF RollbackNames
<1>5. (IF s.hadKey THEN <<>> ELSE <<"DropKey">>) \in Seq(RollbackNames)
  BY <1>3
<1>6. QED
  BY <1>1, <1>2, <1>4, <1>5, ConcatProperties DEF RollbackSteps

(* The programs.                                                           *)
LEMMA ProgramsType ==
  /\ OpenSteps \in Seq(Names) /\ RestoreSteps \in Seq(Names) /\ BeginSteps \in Seq(Names)
  /\ FinishSteps \in Seq(Names) /\ PurgeSteps \in Seq(Names) /\ <<>> \in Seq(Names)
  /\ <<"DropMarker", "DropPending", "Prune">> \in Seq(Names)
BY DEF OpenSteps, RestoreSteps, BeginSteps, FinishSteps, PurgeSteps, Names, RollbackNames,
       OfSession

LEMMA NoSessionNeeded ==
  /\ \A i \in 1 .. Len(OpenSteps) : OpenSteps[i] \notin OfSession
  /\ \A i \in 1 .. Len(PurgeSteps) : PurgeSteps[i] \notin OfSession
  /\ \A i \in 1 .. Len(FinishSteps) : FinishSteps[i] \notin OfSession
BY DEF OpenSteps, PurgeSteps, FinishSteps, OfSession

(* The next step.                                                          *)
LEMMA DoesType ==
  ASSUME Typed, NEW step, Does(step)
  PROVE  /\ todo # <<>> /\ Len(todo) >= 1 /\ todo[1] = step /\ Len(todo) \in Nat
         /\ Tail(todo) \in Seq(Names) /\ Len(Tail(todo)) = Len(todo) - 1
         /\ \A i \in 1 .. Len(todo) - 1 : Tail(todo)[i] = todo[i + 1]
         /\ step \in OfSession => session \in Session
BY DEF Typed, TodoTyped, Does

LEMMA GoOnType ==
  ASSUME Typed, NEW step, Does(step), GoOn, session' = session
  PROVE  TodoTyped'
<1>1. mode' \in Modes /\ mode' \in {mode, "idle"} /\ todo' = Tail(todo)
  BY DEF GoOn, Typed, TodoTyped, Modes
<1>2. (\E i \in 1 .. Len(Tail(todo)) : Tail(todo)[i] \in OfSession) =>
         \E i \in 1 .. Len(todo) : todo[i] \in OfSession
  BY DoesType
<1>3. QED
  BY <1>1, <1>2, DoesType DEF Typed, TodoTyped

LEMMA InitTyped == Init => Typed
<1> SUFFICES ASSUME Init
             PROVE  Typed
  OBVIOUS
<1>1. live \in Family /\ key \in BOOLEAN
  BY DevicesAssumption DEF Init
<1>2. lastVersion \in Versions
  BY <1>1, BoundsAssumption DEF Init, Family, Ledger, Versions
<1>3. TodoTyped
  BY DEF Init, TodoTyped, Modes
<1>4. FilesTyped
  <2>1. DOMAIN quarantine = {} /\ quarantine = [d \in {} |-> NoFamily]
    BY DEF Init
  <2>2. quarantine \in [DOMAIN quarantine -> Family]
    BY <2>1
  <2>3. QED
    BY <1>1, <2>1, <2>2 DEF FilesTyped
<1>5. MarkersTyped /\ FlagsTyped
  BY DEF Init, MarkersTyped, FlagsTyped
<1>6. CountersTyped
  BY <1>2, BoundsAssumption DEF Init, CountersTyped
<1>7. QED
  BY <1>3, <1>4, <1>5, <1>6 DEF Typed

-----------------------------------------------------------------------------
(* The marker.                                                             *)

LEMMA MarkerStepTyped ==
  ASSUME Typed, MarkerStep
  PROVE  Typed'
<1>1. CASE WritePending \/ DropMarker \/ DropPending
  <2>1. PICK step : Does(step)
    BY <1>1 DEF WritePending, DropMarker, DropPending
  <2>2. GoOn /\ UNCHANGED <<files, StepRest>>
    BY <1>1 DEF WritePending, DropMarker, DropPending
  <2>3. TodoTyped'
    BY <2>1, <2>2, GoOnType DEF StepRest
  <2>4. MarkersTyped'
    BY <1>1 DEF WritePending, DropMarker, DropPending, Typed, MarkersTyped
  <2>5. FilesTyped' /\ FlagsTyped' /\ CountersTyped'
    BY <2>2 DEF Typed, FilesTyped, FlagsTyped, CountersTyped, files, StepRest, counters
  <2>6. QED
    BY <2>3, <2>4, <2>5 DEF Typed
<1>2. ASSUME NEW state \in States, Publish(state), session \in Session
      PROVE  FilesTyped' /\ MarkersTyped' /\ FlagsTyped' /\ CountersTyped' /\ session' = session
  <2>1. UNCHANGED <<files, StepRest>>
    BY <1>2 DEF Publish
  <2>2. FilesTyped' /\ FlagsTyped' /\ CountersTyped' /\ session' = session
    BY <2>1 DEF Typed, FilesTyped, FlagsTyped, CountersTyped, files, StepRest, counters
  <2>3. MarkersTyped'
    BY <1>2 DEF Publish, MarkersTyped
  <2>4. QED
    BY <2>2, <2>3
<1>3. {"preparing", "quarantined", "replacement_validated"} \subseteq States
  BY DEF States
<1>4. CASE Preparing
  <2>1. Does("Preparing") /\ Publish("preparing") /\ GoOn
    BY <1>4 DEF Preparing
  <2>2. session \in Session
    BY <2>1, DoesType DEF OfSession
  <2>3. FilesTyped' /\ MarkersTyped' /\ FlagsTyped' /\ CountersTyped' /\ session' = session
    BY <1>2, <1>3, <2>1, <2>2
  <2>4. TodoTyped'
    BY <2>1, <2>3, GoOnType
  <2>5. QED
    BY <2>3, <2>4 DEF Typed
<1>5. CASE Quarantined
  <2>1. Does("Quarantined") /\ Publish("quarantined")
    BY <1>5 DEF Quarantined
  <2>2. session \in Session
    BY <2>1, DoesType DEF OfSession
  <2>3. FilesTyped' /\ MarkersTyped' /\ FlagsTyped' /\ CountersTyped' /\ session' = session
    BY <1>2, <1>3, <2>1, <2>2
  <2>4. mode' = "recovering" /\ todo' \in Seq(Names)
    BY <1>5, ProgramsType, ConcatProperties DEF Quarantined
  <2>5. TodoTyped'
    BY <2>2, <2>3, <2>4 DEF TodoTyped, Modes
  <2>6. QED
    BY <2>3, <2>5 DEF Typed
<1>6. CASE Validated
  <2>1. Does("Validated") /\ Publish("replacement_validated")
    BY <1>6 DEF Validated
  <2>2. session \in Session
    BY <2>1, DoesType DEF OfSession
  <2>3. FilesTyped' /\ MarkersTyped' /\ FlagsTyped' /\ CountersTyped' /\ session' = session
    BY <1>2, <1>3, <2>1, <2>2
  <2>4. mode' = mode /\ todo' \in Seq(Names)
    BY <1>6, ProgramsType DEF Validated
  <2>5. TodoTyped'
    BY <2>2, <2>3, <2>4 DEF Typed, TodoTyped
  <2>6. QED
    BY <2>3, <2>5 DEF Typed
<1>7. QED
  BY <1>1, <1>4, <1>5, <1>6 DEF MarkerStep

(* The files.                                                              *)
LEMMA FileStepTyped ==
  ASSUME Typed, FileStep
  PROVE  Typed'
<1>1. PICK step : Does(step)
  BY DEF FileStep, MoveMain, MoveWal, DropWal, DropMain, MainBack, WalBack, DropQuarantine,
         DropKey, Finished, Prune, PurgeAll
<1>2. GoOn /\ UNCHANGED <<markers, session, isOpen, counters>>
  BY DEF FileStep, MoveMain, MoveWal, DropWal, DropMain, MainBack, WalBack, DropQuarantine,
         DropKey, Finished, Prune, PurgeAll, StepRest
<1>3. TodoTyped' /\ MarkersTyped' /\ CountersTyped'
  BY <1>1, <1>2, GoOnType DEF Typed, MarkersTyped, CountersTyped, markers, counters
<1>4. FlagsTyped'
  BY DEF FileStep, MoveMain, MoveWal, DropWal, DropMain, MainBack, WalBack, DropQuarantine,
         DropKey, Finished, Prune, PurgeAll, StepRest, Typed, FlagsTyped
<1>5. FilesTyped'
  <2>1. /\ live \in Family /\ key \in BOOLEAN /\ DOMAIN quarantine \subseteq 1 .. MaxSessions
        /\ \A d \in DOMAIN quarantine : quarantine[d] \in Family
        /\ quarantine = [d \in DOMAIN quarantine |-> quarantine[d]]
    BY DEF Typed, FilesTyped
  <2>2. \A v \in Versions \cup {None} : \A f \in Family :
          [f EXCEPT !.main = v] \in Family /\ [f EXCEPT !.wal = v] \in Family
    BY DEF Family
  <2>3. \A f \in Family : f.main \in Versions \cup {None} /\ f.wal \in Versions \cup {None}
    BY DEF Family
  <2>4. CASE MoveMain
    BY <2>1, <2>2, <2>3, <2>4 DEF MoveMain, FilesTyped
  <2>5. CASE MoveWal
    BY <2>1, <2>2, <2>3, <2>5 DEF MoveWal, FilesTyped
  <2>6. CASE DropWal
    BY <2>1, <2>2, <2>6 DEF DropWal, FilesTyped
  <2>7. CASE DropMain
    BY <2>1, <2>2, <2>7 DEF DropMain, FilesTyped
  <2>8. CASE MainBack
    <3>1. CASE InQuarantine(session.dir).main = None
      BY <2>1, <2>8, <3>1 DEF MainBack, FilesTyped
    <3>2. CASE InQuarantine(session.dir).main # None
      <4>1. session.dir \in DOMAIN quarantine
        BY <3>2 DEF InQuarantine, NoFamily
      <4>2. /\ live' = [live EXCEPT !.main = quarantine[session.dir].main]
            /\ quarantine' = [quarantine EXCEPT ![session.dir].main = None]
            /\ key' = key
        BY <2>8, <3>2 DEF MainBack
      <4>3. QED
        BY <2>1, <2>2, <2>3, <4>1, <4>2 DEF FilesTyped
    <3>3. QED
      BY <3>1, <3>2
  <2>9. CASE WalBack
    <3>1. CASE InQuarantine(session.dir).wal = None
      BY <2>1, <2>9, <3>1 DEF WalBack, FilesTyped
    <3>2. CASE InQuarantine(session.dir).wal # None
      <4>1. session.dir \in DOMAIN quarantine
        BY <3>2 DEF InQuarantine, NoFamily
      <4>2. /\ live' = [live EXCEPT !.wal = quarantine[session.dir].wal]
            /\ quarantine' = [quarantine EXCEPT ![session.dir].wal = None]
            /\ key' = key
        BY <2>9, <3>2 DEF WalBack
      <4>3. QED
        BY <2>1, <2>2, <2>3, <4>1, <4>2 DEF FilesTyped
    <3>3. QED
      BY <3>1, <3>2
  <2>10. CASE DropQuarantine
    BY <2>1, <2>10 DEF DropQuarantine, FilesTyped, WithoutDir
  <2>11. CASE DropKey
    BY <2>1, <2>11 DEF DropKey, FilesTyped
  <2>12. CASE Finished
    BY <2>1, <2>12 DEF Finished, FilesTyped, files
  <2>13. CASE Prune
    BY <2>1, <2>13 DEF Prune, FilesTyped
  <2>14. CASE PurgeAll
    BY <2>1, <2>14 DEF PurgeAll, FilesTyped
  <2>15. QED
    BY <2>4, <2>5, <2>6, <2>7, <2>8, <2>9, <2>10, <2>11, <2>12, <2>13, <2>14 DEF FileStep
<1>6. QED
  BY <1>3, <1>4, <1>5 DEF Typed

(* open() and the restore.                                                 *)
LEMMA ThenRest ==
  ASSUME Typed, NEW step, Does(step), NEW steps \in Seq(Names)
  PROVE  /\ steps \o Tail(todo) \in Seq(Names)
         /\ (\E i \in 1 .. Len(steps \o Tail(todo)) : (steps \o Tail(todo))[i] \in OfSession) =>
              \/ \E i \in 1 .. Len(steps) : steps[i] \in OfSession
              \/ session \in Session
<1>1. /\ Tail(todo) \in Seq(Names) /\ Len(Tail(todo)) = Len(todo) - 1 /\ Len(todo) \in Nat
      /\ \A i \in 1 .. Len(todo) - 1 : Tail(todo)[i] = todo[i + 1]
  BY DoesType
<1>2. /\ steps \o Tail(todo) \in Seq(Names)
      /\ Len(steps \o Tail(todo)) = Len(steps) + Len(Tail(todo))
      /\ \A i \in 1 .. Len(steps) + Len(Tail(todo)) :
           (steps \o Tail(todo))[i] = IF i <= Len(steps) THEN steps[i]
                                      ELSE Tail(todo)[i - Len(steps)]
  BY <1>1, ConcatProperties
<1>3. ASSUME NEW i \in 1 .. Len(steps) + Len(Tail(todo)), i > Len(steps),
             (steps \o Tail(todo))[i] \in OfSession
      PROVE  session \in Session
  <2>1. i - Len(steps) \in 1 .. Len(todo) - 1 /\ i - Len(steps) + 1 \in 1 .. Len(todo)
    BY <1>1, <1>3
  <2>2. todo[i - Len(steps) + 1] \in OfSession
    BY <1>1, <1>2, <1>3, <2>1
  <2>3. QED
    BY <2>1, <2>2 DEF Typed, TodoTyped
<1>4. QED
  BY <1>1, <1>2, <1>3

LEMMA ResolveTyped ==
  ASSUME Typed, Resolve
  PROVE  Typed'
<1>1. Does("Resolve") /\ UNCHANGED <<files, marker, mode, isOpen, counters>>
  BY DEF Resolve
<1>2. FilesTyped' /\ CountersTyped'
  BY <1>1 DEF Typed, FilesTyped, CountersTyped, files, counters
<1>3. MarkersTyped' /\ FlagsTyped'
  BY DEF Resolve, Typed, MarkersTyped, FlagsTyped
<1>4. CASE todo' = Tail(todo) /\ session' = session
  <2>1. (\E i \in 1 .. Len(Tail(todo)) : Tail(todo)[i] \in OfSession) =>
           \E i \in 1 .. Len(todo) : todo[i] \in OfSession
    BY <1>1, DoesType
  <2>2. TodoTyped'
    BY <1>1, <1>4, <2>1, DoesType DEF Typed, TodoTyped
  <2>3. QED
    BY <1>2, <1>3, <2>2 DEF Typed
<1>5. CASE /\ marker # None /\ session' = marker.session
           /\ todo' = RollbackSteps(marker.session) \o Tail(todo)
  <2>1. session' \in Session
    BY <1>5 DEF Typed, MarkersTyped
  <2>2. RollbackSteps(marker.session) \in Seq(Names)
    BY RollbackType DEF Names
  <2>3. todo' \in Seq(Names)
    BY <1>1, <1>5, <2>2, ThenRest
  <2>4. TodoTyped'
    BY <1>1, <2>1, <2>3 DEF Typed, TodoTyped
  <2>5. QED
    BY <1>2, <1>3, <2>4 DEF Typed
<1>6. QED
  BY <1>4, <1>5 DEF Resolve

LEMMA OpenTyped ==
  ASSUME Typed, OpenDb
  PROVE  Typed'
<1>1. Does("OpenDb") /\ UNCHANGED <<quarantine, markers, session, finalize, counters>>
  BY DEF OpenDb
<1>2. FilesTyped'
  <2>1. 0 \in Versions
    BY BoundsAssumption DEF Versions
  <2>2. QED
    BY <1>1, <2>1 DEF OpenDb, Typed, FilesTyped, Family
<1>3. MarkersTyped' /\ FlagsTyped' /\ CountersTyped'
  BY <1>1 DEF OpenDb, Typed, MarkersTyped, FlagsTyped, CountersTyped, markers, counters
<1>4. CASE GoOn
  BY <1>1, <1>2, <1>3, <1>4, GoOnType DEF Typed
<1>5. CASE todo' = FinishSteps \o Tail(todo) /\ mode' = mode
  <2>1. todo' \in Seq(Names)
    BY <1>1, <1>5, ProgramsType, ThenRest
  <2>2. (\E i \in 1 .. Len(todo') : todo'[i] \in OfSession) => session \in Session
    BY <1>1, <1>5, ProgramsType, NoSessionNeeded, ThenRest
  <2>3. TodoTyped'
    BY <1>1, <1>5, <2>1, <2>2 DEF Typed, TodoTyped
  <2>4. QED
    BY <1>2, <1>3, <2>3 DEF Typed
<1>6. QED
  BY <1>4, <1>5 DEF OpenDb

LEMMA RestoreTyped ==
  ASSUME Typed, Restore
  PROVE  Typed'
<1>1. /\ Does("Restore") /\ GoOn
      /\ UNCHANGED <<quarantine, key, markers, session, isOpen, finalize, sessions>>
  BY DEF Restore
<1>2. TodoTyped'
  BY <1>1, GoOnType
<1>3. lastVersion' \in Versions /\ live' = [live EXCEPT !.wal = lastVersion']
  BY BoundsAssumption DEF Restore, Typed, CountersTyped, Versions
<1>4. FilesTyped'
  BY <1>1, <1>3 DEF Typed, FilesTyped, Family
<1>5. MarkersTyped' /\ FlagsTyped' /\ CountersTyped'
  BY <1>1, <1>3 DEF Typed, MarkersTyped, FlagsTyped, CountersTyped, markers
<1>6. QED
  BY <1>2, <1>4, <1>5 DEF Typed

(* Failures.                                                               *)
LEMMA AfterTidyingUpType ==
  ASSUME Typed, TidyingUp
  PROVE  /\ AfterTidyingUp \in Seq(Names)
         /\ (\E i \in 1 .. Len(AfterTidyingUp) : AfterTidyingUp[i] \in OfSession)
              => session \in Session
<1> DEFINE k == CHOOSE k \in DOMAIN todo : todo[k] = "Prune"
<1>1. todo \in Seq(Names) /\ Len(todo) \in Nat /\ DOMAIN todo = 1 .. Len(todo)
  BY DEF Typed, TodoTyped
<1>2. k \in 1 .. Len(todo)
  BY <1>1 DEF TidyingUp
<1>3. AfterTidyingUp = SubSeq(todo, k + 1, Len(todo))
  BY DEF AfterTidyingUp
<1> HIDE DEF k
<1>4. \A i \in k + 1 .. Len(todo) : i \in 1 .. Len(todo) /\ todo[i] \in Names
  BY <1>1, <1>2
<1>5. AfterTidyingUp = [i \in 1 .. Len(todo) - k |-> todo[i + k]]
  BY <1>1, <1>2, <1>3
<1>6. /\ AfterTidyingUp \in Seq(Names) /\ Len(AfterTidyingUp) = Len(todo) - k
      /\ \A i \in 1 .. Len(todo) - k : AfterTidyingUp[i] = todo[i + k] /\ i + k \in 1 .. Len(todo)
  BY <1>1, <1>2, <1>4, <1>5
<1>7. QED
  BY <1>6 DEF Typed, TodoTyped

LEMMA ThrowTyped ==
  ASSUME Typed, todo # <<>>, Throw
  PROVE  Typed'
<1>1. UNCHANGED <<quarantine, key, marker, session, finalize, lastVersion, sessions>>
  BY DEF Throw
<1>2. live' \in {live, Closed(live)} /\ isOpen' \in BOOLEAN /\ pending' \in BOOLEAN
  BY DEF Throw, Typed, FlagsTyped, MarkersTyped
<1>3. FilesTyped' /\ MarkersTyped' /\ FlagsTyped' /\ CountersTyped'
  BY <1>1, <1>2, LedgerType DEF Typed, FilesTyped, MarkersTyped, FlagsTyped, CountersTyped
<1>4. CASE TidyingUp
  <2>1. todo' = AfterTidyingUp /\ mode' \in {mode, "idle"}
    BY <1>4 DEF Throw
  <2>2. TodoTyped'
    BY <1>1, <1>4, <2>1, AfterTidyingUpType DEF Typed, TodoTyped, Modes
  <2>3. QED
    BY <1>3, <2>2 DEF Typed
<1>5. CASE ~TidyingUp /\ RollsBack
  <2>1. mode' = "undoing" /\ todo' = RollbackSteps(session)
    BY <1>5 DEF Throw
  <2>2. session \in Session
    BY <1>5 DEF RollsBack, Typed, TodoTyped
  <2>3. RollbackSteps(session) \in Seq(Names)
    BY RollbackType DEF Names
  <2>4. TodoTyped'
    BY <1>1, <2>1, <2>2, <2>3 DEF TodoTyped, Modes
  <2>5. QED
    BY <1>3, <2>4 DEF Typed
<1>6. CASE ~TidyingUp /\ ~RollsBack
  <2>1. mode' = "idle" /\ todo' = <<>>
    BY <1>6 DEF Throw
  <2>2. TodoTyped'
    BY <1>1, <2>1 DEF Typed, TodoTyped, Modes
  <2>3. QED
    BY <1>3, <2>2 DEF Typed
<1>7. QED
  BY <1>4, <1>5, <1>6

LEMMA FailureTyped ==
  ASSUME Typed, OpenFails \/ Fault \/ LeaveQuarantine \/ Kill
  PROVE  Typed'
<1>1. CASE OpenFails
  BY <1>1, ThrowTyped DEF OpenFails, Does
<1>2. CASE Fault
  BY <1>2, ThrowTyped DEF Fault
<1>3. CASE LeaveQuarantine
  <2>1. /\ Does("DropQuarantine") /\ GoOn
        /\ UNCHANGED <<files, markers, session, isOpen, finalize, lastVersion, sessions>>
    BY <1>3 DEF LeaveQuarantine
  <2>2. TodoTyped'
    BY <2>1, GoOnType
  <2>3. QED
    BY <2>1, <2>2 DEF Typed, FilesTyped, MarkersTyped, FlagsTyped, CountersTyped, files, markers
<1>4. CASE Kill
  <2>1. UNCHANGED <<files, markers, lastVersion, sessions>>
    BY <1>4 DEF Kill
  <2>2. TodoTyped'
    BY <1>4 DEF Kill, TodoTyped, Modes
  <2>3. FlagsTyped'
    BY <1>4 DEF Kill, FlagsTyped
  <2>4. QED
    BY <2>1, <2>2, <2>3 DEF Typed, FilesTyped, MarkersTyped, CountersTyped, files, markers
<1>5. QED
  BY <1>1, <1>2, <1>3, <1>4

(* What the user does.                                                     *)
LEMMA UserTyped ==
  ASSUME Typed, Launch \/ Commit \/ Checkpoint \/ Recover \/ Purge
  PROVE  Typed'
<1>1. CASE Launch \/ Purge
  <2>1. UNCHANGED <<files, markers, session, isOpen, finalize, counters>>
    BY <1>1 DEF Launch, Purge
  <2>2. mode' \in {"opening", "purging"} /\ todo' \in {OpenSteps, PurgeSteps}
    BY <1>1 DEF Launch, Purge
  <2>3. TodoTyped'
    BY <2>1, <2>2, ProgramsType, NoSessionNeeded DEF Typed, TodoTyped, Modes
  <2>4. QED
    BY <2>1, <2>3 DEF Typed, FilesTyped, MarkersTyped, FlagsTyped, CountersTyped, files,
                      markers, counters
<1>2. CASE Commit
  <2>1. UNCHANGED <<quarantine, key, markers, process, sessions>>
    BY <1>2 DEF Commit
  <2>2. lastVersion' \in Versions /\ live' = [live EXCEPT !.wal = lastVersion']
    BY <1>2, BoundsAssumption DEF Commit, Typed, CountersTyped, Versions
  <2>3. FilesTyped'
    BY <2>1, <2>2 DEF Typed, FilesTyped, Family
  <2>4. QED
    BY <2>1, <2>2, <2>3 DEF Typed, MarkersTyped, TodoTyped, FlagsTyped, CountersTyped, process,
                            markers
<1>3. CASE Checkpoint
  <2>1. UNCHANGED <<quarantine, key, markers, process, counters>> /\ live' = Closed(live)
    BY <1>3 DEF Checkpoint
  <2>2. FilesTyped'
    BY <2>1, LedgerType DEF Typed, FilesTyped
  <2>3. QED
    BY <2>1, <2>2 DEF Typed, MarkersTyped, TodoTyped, FlagsTyped, CountersTyped, process,
                      markers, counters
<1>4. CASE Recover
  <2>1. UNCHANGED <<key, markers, finalize, lastVersion>>
    BY <1>4 DEF Recover
  <2>2. live' \in Family /\ isOpen' = FALSE /\ mode' = "beginning" /\ todo' = BeginSteps
    BY <1>4, LedgerType DEF Recover, Typed, FilesTyped
  <2>3. sessions' = sessions + 1 /\ sessions' \in 1 .. MaxSessions
    BY <1>4, BoundsAssumption DEF Recover, Typed, CountersTyped
  <2>4. session' \in Session
    BY <1>4, <2>3 DEF Recover, NewSession, Session, Typed, FilesTyped
  <2>5. /\ DOMAIN quarantine' = DOMAIN quarantine \cup {sessions'}
        /\ quarantine' \in [DOMAIN quarantine \cup {sessions'} -> Family]
    BY <1>4, LedgerType DEF Recover, Typed, FilesTyped
  <2>6. FilesTyped'
    BY <2>1, <2>2, <2>3, <2>5 DEF Typed, FilesTyped
  <2>7. TodoTyped'
    BY <2>2, <2>4, ProgramsType DEF TodoTyped, Modes
  <2>8. MarkersTyped' /\ FlagsTyped'
    BY <2>1, <2>2 DEF Typed, MarkersTyped, FlagsTyped, markers
  <2>9. CountersTyped'
    BY <2>1, <2>3 DEF Typed, CountersTyped
  <2>10. QED
    BY <2>6, <2>7, <2>8, <2>9 DEF Typed
<1>5. QED
  BY <1>1, <1>2, <1>3, <1>4

LEMMA NextTyped == Typed /\ [Next]_vars => Typed'
<1> SUFFICES ASSUME Typed, [Next]_vars
             PROVE  Typed'
  OBVIOUS
<1>1. CASE UNCHANGED vars
  BY <1>1 DEF vars, files, markers, process, counters, Typed, FilesTyped, MarkersTyped, TodoTyped,
              FlagsTyped, CountersTyped
<1>2. CASE Next
  BY <1>2, MarkerStepTyped, FileStepTyped, ResolveTyped, OpenTyped, RestoreTyped, FailureTyped,
     UserTyped DEF Next, ProcessStep, DatabaseStep
<1>3. QED
  BY <1>1, <1>2

(* Whatever is killed, fails or is recovered, in whatever order: files and *)
(* marker are well-formed, and a step that needs a session has one.        *)
THEOREM TypeCorrect == Spec => []TypeOK
BY InitTyped, NextTyped, TypedIsTypeOK, PTL DEF Spec

-----------------------------------------------------------------------------
(* The inductive invariant: where the process stands when the marker says  *)
(* that the replacement was validated, and when it is about to say so.     *)

Valid == marker # None /\ marker.state = "replacement_validated"
Whole == live.main # None /\ Ledger(live) = lastVersion

FinalizeSteps == <<"DropMarker", "DropPending", "Prune">>

(* No step of these moves or drops a file before the marker has gone.      *)
AtValid ==
  \/ mode \in {"idle", "down"} /\ todo = <<>>
  \/ mode = "opening" /\ todo \in {OpenSteps, <<"OpenDb">>, FinishSteps}
  \/ mode = "purging" /\ todo = PurgeSteps
  \/ /\ mode = "beginning" /\ todo \in {BeginSteps, Tail(BeginSteps)}
     /\ marker.session # session
  \/ mode = "recovering" /\ todo = FinalizeSteps

(* The recovery opens its database, perhaps after a rollback ...           *)
OpensNext == <<"OpenDb", "Restore", "WritePending", "Validated">>
BeforeOpen ==
  /\ Len(todo) >= 4
  /\ \A j \in 1 .. 4 : todo[Len(todo) - 4 + j] = OpensNext[j]
  /\ \A i \in 1 .. Len(todo) - 4 : todo[i] \in RollbackNames \cup {"Resolve"}

(* ... and restores into it, perhaps after tidying up.                     *)
RestoresNext == <<"DropMarker", "DropPending", "Finished", "Prune",
                  "Restore", "WritePending", "Validated">>
AfterOpen ==
  /\ Len(todo) \in 1 .. 7
  /\ \A j \in 1 .. Len(todo) : todo[j] = RestoresNext[7 - Len(todo) + j]
  /\ live.main # None
  /\ Len(todo) <= 2 => Ledger(live) = lastVersion

WillValidate == \E i \in 1 .. Len(todo) : todo[i] = "Validated"
OnTheWay == WillValidate => mode = "recovering" /\ (BeforeOpen \/ AfterOpen)

Numbered ==
  /\ marker # None => marker.session.dir <= sessions
  /\ session # None => session.dir <= sessions

Sound == Numbered /\ (Valid => Whole /\ AtValid) /\ OnTheWay

LEMMA InitSound == Init => Sound
BY DEF Init, Sound, Numbered, Valid, OnTheWay, WillValidate

LEMMA LedgerOfClosed ==
  ASSUME NEW f \in Family
  PROVE  /\ Ledger(Closed(f)) = Ledger(f)
         /\ f.main # None => Closed(f).main # None
BY DEF Family, Ledger, Closed

(* The step that comes next while the marker says validated.               *)
LEMMA StepAtValid ==
  ASSUME AtValid, NEW step, Does(step)
  PROVE  \/ step = "Resolve" /\ mode = "opening" /\ todo = OpenSteps
         \/ step = "OpenDb" /\ mode = "opening" /\ todo = <<"OpenDb">>
         \/ step = "DropMarker"
         \/ step = "WritePending" /\ mode = "beginning" /\ todo = BeginSteps
                                  /\ marker.session # session
         \/ step = "Preparing"
<1>1. /\ Head(OpenSteps) = "Resolve" /\ Head(<<"OpenDb">>) = "OpenDb"
      /\ Head(FinishSteps) = "DropMarker" /\ Head(PurgeSteps) = "DropMarker"
      /\ Head(FinalizeSteps) = "DropMarker"
      /\ Head(BeginSteps) = "WritePending" /\ Head(Tail(BeginSteps)) = "Preparing"
  BY DEF OpenSteps, FinishSteps, PurgeSteps, FinalizeSteps, BeginSteps
<1>2. QED
  BY <1>1 DEF AtValid, Does

(* A step of the way to the validation, but for opening and restoring.     *)
Destructive == {"MoveMain", "MoveWal", "DropWal", "DropMain", "MainBack", "WalBack"}

LEMMA StepOnTheWay ==
  ASSUME Typed, OnTheWay, NEW step, Does(step), step \notin {"OpenDb", "Restore"},
         GoOn, UNCHANGED lastVersion, live' = live \/ step \in Destructive
  PROVE  OnTheWay'
<1> SUFFICES ASSUME WillValidate'
             PROVE  mode' = "recovering" /\ (BeforeOpen' \/ AfterOpen')
  BY DEF OnTheWay
<1>1. /\ todo' = Tail(todo) /\ todo # <<>> /\ todo[1] = step /\ Len(todo) \in Nat
      /\ Len(todo') = Len(todo) - 1 /\ \A i \in 1 .. Len(todo) - 1 : todo'[i] = todo[i + 1]
  BY DoesType DEF GoOn
<1>2. Len(todo) >= 2 /\ WillValidate
  BY <1>1 DEF WillValidate
<1>3. mode = "recovering" /\ (BeforeOpen \/ AfterOpen)
  BY <1>2 DEF OnTheWay
<1>4. mode' = "recovering"
  <2>1. Tail(todo) # <<>>
    BY <1>1, <1>2
  <2>2. QED
    BY <1>3, <2>1 DEF GoOn
<1>5. CASE BeforeOpen
  <2>1. Len(todo) # 4
    <3>1. SUFFICES ASSUME Len(todo) = 4
                   PROVE  FALSE
      OBVIOUS
    <3>2. 1 \in 1 .. 4 /\ 4 - 4 + 1 = 1
      OBVIOUS
    <3>3. todo[1] = OpensNext[1]
      BY <1>5, <3>1, <3>2 DEF BeforeOpen
    <3>4. OpensNext[1] = "OpenDb"
      BY DEF OpensNext
    <3>5. QED
      BY <1>1, <3>3, <3>4
  <2>2. BeforeOpen'
    <3>1. Len(todo') >= 4
      BY <1>1, <1>5, <2>1 DEF BeforeOpen
    <3>2. \A j \in 1 .. 4 : todo'[Len(todo') - 4 + j] = OpensNext[j]
      <4>1. TAKE j \in 1 .. 4
      <4>2. /\ Len(todo') - 4 + j \in 1 .. Len(todo) - 1
            /\ Len(todo') - 4 + j + 1 = Len(todo) - 4 + j
        BY <1>1, <3>1
      <4>3. todo'[Len(todo') - 4 + j] = todo[Len(todo) - 4 + j]
        BY <1>1, <4>2
      <4>4. QED
        BY <1>5, <4>3 DEF BeforeOpen
    <3>3. \A i \in 1 .. Len(todo') - 4 : todo'[i] \in RollbackNames \cup {"Resolve"}
      BY <1>1, <1>5, <2>1 DEF BeforeOpen
    <3>4. QED
      BY <3>1, <3>2, <3>3 DEF BeforeOpen
  <2>3. QED
    BY <1>4, <2>2
<1>6. CASE AfterOpen
  <2>1. PICK n \in 1 .. 7 : n = Len(todo)
    BY <1>6 DEF AfterOpen
  <2>2. step = RestoresNext[7 - n + 1] /\ 7 - n + 1 \in 1 .. 7
    <3>1. 1 \in 1 .. n /\ 7 - n + 1 \in 1 .. 7
      OBVIOUS
    <3>2. QED
      BY <1>1, <1>6, <2>1, <3>1 DEF AfterOpen
  <2>3. step \notin Destructive /\ n # 3
    <3>1. \A k \in 1 .. 7 : RestoresNext[k] \notin Destructive
      BY DEF RestoresNext, Destructive
    <3>2. RestoresNext[5] = "Restore"
      BY DEF RestoresNext
    <3>3. n = 3 => 7 - n + 1 = 5
      OBVIOUS
    <3>4. QED
      BY <2>2, <3>1, <3>2, <3>3
  <2>4. live' = live /\ lastVersion' = lastVersion
    BY <2>3
  <2>5. PICK m \in 1 .. 7 : m = n - 1 /\ m = Len(todo')
    <3>1. Len(todo') = n - 1 /\ n >= 2
      BY <1>1, <1>2, <2>1
    <3>2. n - 1 \in 1 .. 7
      BY <3>1
    <3>3. QED
      BY <3>1, <3>2
  <2>6. \A j \in 1 .. m : todo'[j] = RestoresNext[7 - m + j]
    <3>1. TAKE j \in 1 .. m
    <3>2. j + 1 \in 1 .. n /\ 7 - n + (j + 1) = 7 - m + j
      BY <2>5
    <3>3. j \in 1 .. n - 1
      BY <2>5
    <3>4. todo'[j] = todo[j + 1]
      BY <1>1, <2>1, <3>3
    <3>5. todo[j + 1] = RestoresNext[7 - n + (j + 1)]
      BY <1>6, <2>1, <3>2 DEF AfterOpen
    <3>6. QED
      BY <3>2, <3>4, <3>5
  <2>7. live'.main # None /\ Ledger(live') = Ledger(live)
    BY <1>6, <2>4 DEF AfterOpen
  <2>8. m <= 2 => Ledger(live') = lastVersion'
    <3>1. m <= 2 => n <= 2
      BY <2>3, <2>5
    <3>2. QED
      BY <1>6, <2>1, <2>4, <2>7, <3>1 DEF AfterOpen
  <2>9. AfterOpen'
    BY <2>5, <2>6, <2>7, <2>8 DEF AfterOpen
  <2>10. QED
    BY <1>4, <2>9
<1>7. QED
  BY <1>3, <1>5, <1>6

LEMMA FileStepSound ==
  ASSUME Typed, Sound, FileStep \/ LeaveQuarantine
  PROVE  Sound' /\ ~Valid
<1>1. PICK step : /\ Does(step) /\ GoOn /\ UNCHANGED <<marker, session, sessions, lastVersion>>
                  /\ step \notin {"OpenDb", "Restore", "Resolve", "DropMarker", "WritePending",
                                  "Preparing"}
                  /\ live' = live \/ step \in Destructive
  BY DEF FileStep, MoveMain, MoveWal, DropWal, DropMain, MainBack, WalBack, DropQuarantine,
         DropKey, Finished, Prune, PurgeAll, StepRest, markers, counters, files, Destructive,
         LeaveQuarantine
<1>2. ~Valid
  BY <1>1, StepAtValid DEF Sound
<1>3. ~Valid' /\ Numbered'
  BY <1>1, <1>2 DEF Valid, Sound, Numbered
<1>4. OnTheWay'
  BY <1>1, StepOnTheWay DEF Sound
<1>5. QED
  BY <1>2, <1>3, <1>4 DEF Sound

LEMMA ConcatIndex ==
  ASSUME NEW a \in Seq(Names), NEW b \in Seq(Names), NEW m \in Nat, NEW n \in Nat,
         m = Len(a), n = Len(b)
  PROVE  /\ Len(a \o b) = m + n
         /\ \A i \in 1 .. m : (a \o b)[i] = a[i]
         /\ \A i \in m + 1 .. m + n : (a \o b)[i] = b[i - m]
BY ConcatProperties

(* What the theorem says of a step.                                        *)
Kept == Valid => live'.main # None /\ Ledger(live') >= Ledger(live)

LEMMA KeptWhole ==
  ASSUME Typed, Valid => Whole,
         Valid => live'.main # None /\ Ledger(live') \in {lastVersion, lastVersion + 1}
  PROVE  Kept
BY DEF Whole, Kept, Typed, CountersTyped, Versions

LEMMA WholeStays ==
  ASSUME Typed, Valid => Whole, live' = live, lastVersion' = lastVersion
  PROVE  Kept /\ (Valid => Whole')
<1>1. Ledger(live') = Ledger(live)
  OBVIOUS
<1>2. Valid => Whole'
  BY <1>1 DEF Whole
<1>3. QED
  BY <1>1, <1>2, KeptWhole DEF Whole

(* The marker.                                                             *)
LEMMA RecoveryProgram ==
  /\ Len(OpenSteps \o RestoreSteps) = 5
  /\ (OpenSteps \o RestoreSteps)[1] = "Resolve"
  /\ \A j \in 1 .. 4 : (OpenSteps \o RestoreSteps)[1 + j] = OpensNext[j]
<1>1. /\ OpenSteps \in Seq(Names) /\ RestoreSteps \in Seq(Names)
      /\ Len(OpenSteps) = 2 /\ Len(RestoreSteps) = 3
  BY ProgramsType DEF OpenSteps, RestoreSteps
<1>2. /\ Len(OpenSteps \o RestoreSteps) = 2 + 3
      /\ \A i \in 1 .. 2 : (OpenSteps \o RestoreSteps)[i] = OpenSteps[i]
      /\ \A i \in 2 + 1 .. 2 + 3 : (OpenSteps \o RestoreSteps)[i] = RestoreSteps[i - 2]
  <2>1. PICK m \in Nat, n \in Nat : m = 2 /\ n = 3
    OBVIOUS
  <2>2. m = Len(OpenSteps) /\ n = Len(RestoreSteps)
    BY <1>1, <2>1
  <2>3. /\ Len(OpenSteps \o RestoreSteps) = m + n
        /\ \A i \in 1 .. m : (OpenSteps \o RestoreSteps)[i] = OpenSteps[i]
        /\ \A i \in m + 1 .. m + n : (OpenSteps \o RestoreSteps)[i] = RestoreSteps[i - m]
    BY <2>2, ProgramsType, ConcatIndex
  <2>4. QED
    BY <2>1, <2>3
<1>3. /\ (OpenSteps \o RestoreSteps)[1] = OpenSteps[1]
      /\ (OpenSteps \o RestoreSteps)[1 + 1] = OpenSteps[2]
      /\ (OpenSteps \o RestoreSteps)[1 + 2] = RestoreSteps[1]
      /\ (OpenSteps \o RestoreSteps)[1 + 3] = RestoreSteps[2]
      /\ (OpenSteps \o RestoreSteps)[1 + 4] = RestoreSteps[3]
  BY <1>2
<1>4. /\ OpenSteps[1] = "Resolve" /\ OpenSteps[2] = OpensNext[1]
      /\ RestoreSteps[1] = OpensNext[2] /\ RestoreSteps[2] = OpensNext[3]
      /\ RestoreSteps[3] = OpensNext[4]
  BY DEF OpenSteps, RestoreSteps, OpensNext
<1>5. QED
  BY <1>2, <1>3, <1>4

LEMMA PublishNumbered ==
  ASSUME Typed, Numbered, NEW state, Publish(state), session \in Session
  PROVE  Numbered' /\ marker'.state = state /\ live' = live /\ lastVersion' = lastVersion
BY SessionAssumption DEF Publish, Numbered, files, StepRest, counters

LEMMA MarkerStepSound ==
  ASSUME Typed, Sound, MarkerStep
  PROVE  Sound' /\ Kept
<1>1. CASE WritePending
  <2>1. /\ Does("WritePending") /\ GoOn /\ UNCHANGED <<marker, session, sessions>>
        /\ live' = live /\ lastVersion' = lastVersion
    BY <1>1 DEF WritePending, files, StepRest, counters
  <2>2. Numbered' /\ (Valid' <=> Valid) /\ (Valid => Whole') /\ Kept
    BY <2>1, WholeStays DEF Sound, Numbered, Valid
  <2>3. OnTheWay'
    BY <2>1, StepOnTheWay DEF Sound
  <2>4. ASSUME Valid
        PROVE  AtValid'
    <3>1. mode = "beginning" /\ todo = BeginSteps /\ marker.session # session
      BY <2>1, <2>4, StepAtValid DEF Sound
    <3>2. Tail(BeginSteps) # <<>>
      BY DEF BeginSteps
    <3>3. todo' = Tail(BeginSteps) /\ mode' = "beginning"
      BY <2>1, <3>1, <3>2 DEF GoOn
    <3>4. QED
      BY <2>1, <3>1, <3>3 DEF AtValid
  <2>5. QED
    BY <2>2, <2>3, <2>4 DEF Sound
<1>2. CASE Preparing
  <2>1. Does("Preparing") /\ Publish("preparing") /\ GoOn
    BY <1>2 DEF Preparing
  <2>2. Numbered' /\ marker'.state = "preparing" /\ live' = live /\ lastVersion' = lastVersion
    BY <2>1, DoesType, PublishNumbered DEF Sound, OfSession
  <2>3. OnTheWay'
    BY <2>1, <2>2, StepOnTheWay DEF Sound
  <2>4. Kept
    BY <2>2, WholeStays DEF Sound
  <2>5. QED
    BY <2>2, <2>3, <2>4 DEF Sound, Valid
<1>3. CASE Quarantined
  <2>1. /\ Does("Quarantined") /\ Publish("quarantined")
        /\ mode' = "recovering" /\ todo' = OpenSteps \o RestoreSteps
    BY <1>3 DEF Quarantined
  <2>2. Numbered' /\ marker'.state = "quarantined" /\ live' = live /\ lastVersion' = lastVersion
    BY <2>1, DoesType, PublishNumbered DEF Sound, OfSession
  <2>3. BeforeOpen'
    BY <2>1, RecoveryProgram DEF BeforeOpen
  <2>4. Kept
    BY <2>2, WholeStays DEF Sound
  <2>5. QED
    BY <2>1, <2>2, <2>3, <2>4 DEF Sound, Valid, OnTheWay
<1>4. CASE Validated
  <2>1. /\ Does("Validated") /\ Publish("replacement_validated")
        /\ mode' = mode /\ todo' = FinalizeSteps
    BY <1>4 DEF Validated, FinalizeSteps
  <2>2. /\ Numbered' /\ marker'.state = "replacement_validated"
        /\ live' = live /\ lastVersion' = lastVersion
    BY <2>1, DoesType, PublishNumbered DEF Sound, OfSession
  <2>3. Len(todo) \in Nat /\ Len(todo) >= 1 /\ todo[1] = "Validated"
    BY <2>1, DoesType
  <2>4. WillValidate
    BY <2>3 DEF WillValidate
  <2>5. mode = "recovering" /\ (BeforeOpen \/ AfterOpen)
    BY <2>4 DEF Sound, OnTheWay
  <2>6. ~BeforeOpen
    <3>1. SUFFICES ASSUME BeforeOpen
                   PROVE  FALSE
      OBVIOUS
    <3>2. OpensNext[1] = "OpenDb" /\ "Validated" \notin RollbackNames \cup {"Resolve"}
      BY DEF OpensNext, RollbackNames
    <3>3. Len(todo) # 4
      BY <2>3, <3>1, <3>2 DEF BeforeOpen
    <3>4. QED
      BY <2>3, <3>1, <3>2, <3>3 DEF BeforeOpen
  <2>7. Len(todo) = 1
    <3>1. PICK n \in 1 .. 7 : n = Len(todo)
      BY <2>5, <2>6 DEF AfterOpen
    <3>2. 1 \in 1 .. n /\ 7 - n + 1 \in 1 .. 7 /\ (n # 1 => 7 - n + 1 \in 1 .. 6)
      OBVIOUS
    <3>3. RestoresNext[7 - n + 1] = "Validated"
      BY <2>3, <2>5, <2>6, <3>1, <3>2 DEF AfterOpen
    <3>4. \A k \in 1 .. 6 : RestoresNext[k] # "Validated"
      BY DEF RestoresNext
    <3>5. QED
      BY <3>1, <3>2, <3>3, <3>4
  <2>8. Whole
    BY <2>5, <2>6, <2>7 DEF AfterOpen, Whole
  <2>9. Whole' /\ Kept
    <3>1. Ledger(live') = Ledger(live)
      BY <2>2
    <3>2. Whole'
      BY <2>2, <2>8, <3>1 DEF Whole
    <3>3. QED
      BY <2>2, <3>2, WholeStays DEF Sound
  <2>10. AtValid'
    BY <2>1, <2>5 DEF AtValid
  <2>11. ~WillValidate'
    BY <2>1 DEF WillValidate, FinalizeSteps
  <2>12. QED
    BY <2>2, <2>9, <2>10, <2>11 DEF Sound, OnTheWay
<1>5. CASE DropMarker
  <2>1. /\ Does("DropMarker") /\ GoOn /\ marker' = None /\ UNCHANGED <<session, sessions>>
        /\ live' = live /\ lastVersion' = lastVersion
    BY <1>5 DEF DropMarker, files, StepRest, counters
  <2>2. Numbered' /\ ~Valid' /\ Kept
    BY <2>1, WholeStays DEF Sound, Numbered, Valid
  <2>3. OnTheWay'
    BY <2>1, StepOnTheWay DEF Sound
  <2>4. QED
    BY <2>2, <2>3 DEF Sound
<1>6. CASE DropPending
  <2>1. /\ Does("DropPending") /\ GoOn /\ UNCHANGED <<marker, session, sessions>>
        /\ live' = live /\ lastVersion' = lastVersion
    BY <1>6 DEF DropPending, files, StepRest, counters
  <2>2. ~Valid
    BY <2>1, StepAtValid DEF Sound
  <2>3. Numbered' /\ ~Valid' /\ Kept
    BY <2>1, <2>2 DEF Sound, Numbered, Valid, Kept
  <2>4. OnTheWay'
    BY <2>1, StepOnTheWay DEF Sound
  <2>5. QED
    BY <2>3, <2>4 DEF Sound
<1>7. QED
  BY <1>1, <1>2, <1>3, <1>4, <1>5, <1>6 DEF MarkerStep

(* open().                                                                 *)
LEMMA ResolveSound ==
  ASSUME Typed, Sound, Resolve
  PROVE  Sound' /\ Kept
<1>1. /\ Does("Resolve") /\ UNCHANGED <<marker, mode, sessions>>
      /\ live' = live /\ lastVersion' = lastVersion
  BY DEF Resolve, files, counters
<1>2. Numbered'
  BY <1>1 DEF Resolve, Sound, Numbered
<1>3. (Valid' <=> Valid) /\ (Valid => Whole') /\ Kept
  BY <1>1, WholeStays DEF Sound, Valid
<1>4. ASSUME Valid
      PROVE  AtValid'
  <2>1. mode = "opening" /\ todo = OpenSteps
    BY <1>1, <1>4, StepAtValid DEF Sound
  <2>2. todo' = Tail(todo) /\ mode' = "opening"
    BY <1>1, <1>4, <2>1 DEF Resolve, Valid
  <2>3. Tail(OpenSteps) = <<"OpenDb">>
    BY DEF OpenSteps
  <2>4. QED
    BY <2>1, <2>2, <2>3 DEF AtValid
<1>5. CASE todo' = Tail(todo)
  <2>1. ASSUME Tail(todo) = <<>>
        PROVE  OnTheWay'
    <3>1. todo' = <<>>
      BY <1>5, <2>1
    <3>2. ~WillValidate'
      BY <3>1 DEF WillValidate
    <3>3. QED
      BY <3>2 DEF OnTheWay
  <2>2. ASSUME Tail(todo) # <<>>
        PROVE  OnTheWay'
    <3>1. GoOn
      BY <1>1, <1>5, <2>2 DEF GoOn
    <3>2. QED
      BY <1>1, <3>1, StepOnTheWay DEF Sound
  <2>3. OnTheWay'
    BY <2>1, <2>2
  <2>4. QED
    BY <1>2, <1>3, <1>4, <2>3 DEF Sound
<1>6. CASE todo' = RollbackSteps(marker.session) \o Tail(todo)
  <2> DEFINE r == RollbackSteps(marker.session)
  <2>1. r \in Seq(RollbackNames) /\ Len(r) \in Nat /\ \A i \in 1 .. Len(r) : r[i] \in RollbackNames
    BY RollbackType
  <2>2. todo' = r \o Tail(todo)
    BY <1>6
  <2>3. r \in Seq(Names)
    BY RollbackType DEF Names
  <2> HIDE DEF r
  <2>4. /\ Len(todo) \in Nat /\ Len(todo) >= 1 /\ todo[1] = "Resolve"
        /\ Tail(todo) \in Seq(Names) /\ Len(Tail(todo)) = Len(todo) - 1
        /\ \A i \in 1 .. Len(todo) - 1 : Tail(todo)[i] = todo[i + 1]
    BY <1>1, DoesType
  <2>5. /\ Len(todo') = Len(r) + Len(todo) - 1
        /\ \A i \in 1 .. Len(r) : todo'[i] \in RollbackNames
        /\ \A i \in Len(r) + 1 .. Len(r) + Len(todo) - 1 : todo'[i] = todo[i - Len(r) + 1]
    BY <2>1, <2>2, <2>3, <2>4, ConcatProperties
  <2>6. ASSUME WillValidate'
        PROVE  mode' = "recovering" /\ BeforeOpen'
    <3>1. PICK i \in 1 .. Len(todo') : todo'[i] = "Validated"
      BY <2>6 DEF WillValidate
    <3>2. i \in Len(r) + 1 .. Len(r) + Len(todo) - 1
      <4>1. "Validated" \notin RollbackNames
        BY DEF RollbackNames
      <4>2. i \notin 1 .. Len(r)
        BY <2>5, <3>1, <4>1
      <4>3. i \in 1 .. Len(r) + Len(todo) - 1
        BY <2>5, <3>1
      <4>4. QED
        BY <2>1, <2>4, <4>2, <4>3
    <3>3. WillValidate
      <4>1. i - Len(r) + 1 \in 1 .. Len(todo)
        BY <2>1, <2>4, <3>2
      <4>2. todo[i - Len(r) + 1] = "Validated"
        BY <2>5, <3>1, <3>2
      <4>3. QED
        BY <4>1, <4>2 DEF WillValidate
    <3>4. mode = "recovering" /\ (BeforeOpen \/ AfterOpen)
      BY <3>3 DEF Sound, OnTheWay
    <3>5. ~AfterOpen
      <4>1. SUFFICES ASSUME AfterOpen
                     PROVE  FALSE
        OBVIOUS
      <4>2. \A k \in 1 .. 7 : RestoresNext[k] # "Resolve"
        BY DEF RestoresNext
      <4>3. PICK n \in 1 .. 7 : n = Len(todo)
        BY <4>1 DEF AfterOpen
      <4>4. 1 \in 1 .. n /\ 7 - n + 1 \in 1 .. 7
        OBVIOUS
      <4>5. todo[1] = RestoresNext[7 - n + 1]
        BY <4>1, <4>3, <4>4 DEF AfterOpen
      <4>6. QED
        BY <2>4, <4>2, <4>4, <4>5
    <3>6. Len(todo) >= 5
      <4>1. OpensNext[1] = "OpenDb"
        BY DEF OpensNext
      <4>2. QED
        BY <2>4, <3>4, <3>5, <4>1 DEF BeforeOpen
    <3>7. Len(todo') >= 4
      BY <2>1, <2>4, <2>5, <3>6
    <3>8. \A j \in 1 .. 4 : todo'[Len(todo') - 4 + j] = OpensNext[j]
      <4>1. TAKE j \in 1 .. 4
      <4>2. Len(todo') - 4 + j \in Len(r) + 1 .. Len(r) + Len(todo) - 1
        BY <2>1, <2>4, <2>5, <3>6
      <4>3. todo'[Len(todo') - 4 + j] = todo[Len(todo') - 4 + j - Len(r) + 1]
        BY <2>5, <4>2
      <4>4. Len(todo') - 4 + j - Len(r) + 1 = Len(todo) - 4 + j
        BY <2>1, <2>4, <2>5
      <4>5. QED
        BY <3>4, <3>5, <4>3, <4>4 DEF BeforeOpen
    <3>9. \A k \in 1 .. Len(todo') - 4 : todo'[k] \in RollbackNames \cup {"Resolve"}
      <4>1. TAKE k \in 1 .. Len(todo') - 4
      <4>2. CASE k <= Len(r)
        BY <2>1, <2>5, <4>2
      <4>3. CASE k > Len(r)
        <5>1. k - Len(r) + 1 \in 1 .. Len(todo) - 4
          BY <2>1, <2>4, <2>5, <3>6, <4>3
        <5>2. todo'[k] = todo[k - Len(r) + 1]
          BY <2>1, <2>4, <2>5, <3>6, <4>3
        <5>3. QED
          BY <3>4, <3>5, <5>1, <5>2 DEF BeforeOpen
      <4>4. QED
        BY <2>1, <4>2, <4>3
    <3>10. QED
      BY <1>1, <3>4, <3>7, <3>8, <3>9 DEF BeforeOpen
  <2>7. OnTheWay'
    BY <2>6 DEF OnTheWay
  <2>8. QED
    BY <1>2, <1>3, <1>4, <2>7 DEF Sound
<1>7. QED
  BY <1>5, <1>6 DEF Resolve

LEMMA OpenSound ==
  ASSUME Typed, Sound, OpenDb
  PROVE  Sound' /\ Kept
<1>1. /\ Does("OpenDb") /\ UNCHANGED <<marker, session, sessions>> /\ lastVersion' = lastVersion
      /\ live' = IF live.main = None THEN [main |-> 0, wal |-> None] ELSE live
  BY DEF OpenDb, markers, counters
<1>2. \/ todo' = FinishSteps \o Tail(todo) /\ mode' = mode
      \/ GoOn
  BY DEF OpenDb
<1>3. Numbered' /\ (Valid' <=> Valid)
  BY <1>1 DEF Sound, Numbered, Valid
<1>4. ASSUME Valid
      PROVE  Whole' /\ AtValid' /\ Kept
  <2>1. mode = "opening" /\ todo = <<"OpenDb">> /\ Whole
    BY <1>1, <1>4, StepAtValid DEF Sound
  <2>2. live' = live
    BY <1>1, <2>1 DEF Whole
  <2>3. Whole' /\ Kept
    BY <1>1, <1>4, <2>1, <2>2, WholeStays
  <2>4. Tail(<<"OpenDb">>) = <<>> /\ FinishSteps \o <<>> = FinishSteps
    BY DEF FinishSteps
  <2>5. \/ todo' = FinishSteps /\ mode' = "opening"
        \/ todo' = <<>> /\ mode' = "idle"
    BY <1>2, <2>1, <2>4 DEF GoOn
  <2>6. AtValid'
    BY <2>5 DEF AtValid
  <2>7. QED
    BY <2>3, <2>6
<1>5. Kept
  BY <1>4 DEF Kept
<1>6. ASSUME WillValidate'
      PROVE  mode' = "recovering" /\ AfterOpen'
  <2>1. /\ Len(todo) \in Nat /\ Len(todo) >= 1 /\ todo[1] = "OpenDb"
        /\ Tail(todo) \in Seq(Names) /\ Len(Tail(todo)) = Len(todo) - 1
        /\ \A i \in 1 .. Len(todo) - 1 : Tail(todo)[i] = todo[i + 1]
    BY <1>1, DoesType
  <2>2. FinishSteps \in Seq(Names) /\ Len(FinishSteps) = 4
    BY ProgramsType DEF FinishSteps
  <2>3. /\ Len(FinishSteps \o Tail(todo)) = 3 + Len(todo)
        /\ \A i \in 1 .. 4 : (FinishSteps \o Tail(todo))[i] = FinishSteps[i]
        /\ \A i \in 5 .. 3 + Len(todo) : (FinishSteps \o Tail(todo))[i] = todo[i - 3]
    <3>1. PICK n \in Nat : n = Len(Tail(todo)) /\ n = Len(todo) - 1
      <4>1. Len(Tail(todo)) \in Nat
        BY <2>1
      <4>2. QED
        BY <2>1, <4>1
    <3>2. /\ Len(FinishSteps \o Tail(todo)) = 4 + n
          /\ \A i \in 1 .. 4 : (FinishSteps \o Tail(todo))[i] = FinishSteps[i]
          /\ \A i \in 4 + 1 .. 4 + n : (FinishSteps \o Tail(todo))[i] = Tail(todo)[i - 4]
      <4>1. PICK m \in Nat : m = 4
        OBVIOUS
      <4>2. /\ Len(FinishSteps \o Tail(todo)) = m + n
            /\ \A i \in 1 .. m : (FinishSteps \o Tail(todo))[i] = FinishSteps[i]
            /\ \A i \in m + 1 .. m + n : (FinishSteps \o Tail(todo))[i] = Tail(todo)[i - m]
        <5>1. PICK a \in Seq(Names) : a = FinishSteps
          BY <2>2
        <5>2. PICK b \in Seq(Names) : b = Tail(todo)
          BY <2>1
        <5>3. m = Len(a) /\ n = Len(b)
          BY <2>2, <3>1, <4>1, <5>1, <5>2
        <5>4. /\ Len(a \o b) = m + n
              /\ \A i \in 1 .. m : (a \o b)[i] = a[i]
              /\ \A i \in m + 1 .. m + n : (a \o b)[i] = b[i - m]
          BY <5>3, ConcatIndex
        <5>5. QED
          BY <5>1, <5>2, <5>4
      <4>3. QED
        BY <4>1, <4>2
    <3>3. ASSUME NEW i \in 5 .. 3 + Len(todo)
          PROVE  (FinishSteps \o Tail(todo))[i] = todo[i - 3]
      <4>1. i \in 4 + 1 .. 4 + n /\ i - 4 \in 1 .. n /\ (i - 4) + 1 = i - 3
        BY <2>1, <3>1
      <4>2. i - 4 \in 1 .. Len(todo) - 1
        BY <3>1, <4>1
      <4>3. Tail(todo)[i - 4] = todo[(i - 4) + 1]
        BY <2>1, <4>2
      <4>4. QED
        BY <3>2, <4>1, <4>3
    <3>4. QED
      BY <2>1, <3>1, <3>2, <3>3
  <2>4. WillValidate
    <3>1. \A k \in 1 .. 4 : FinishSteps[k] # "Validated"
      BY DEF FinishSteps
    <3>2. CASE todo' = Tail(todo)
      BY <1>6, <2>1, <3>2 DEF WillValidate
    <3>3. CASE todo' = FinishSteps \o Tail(todo)
      <4>1. PICK i \in 1 .. 3 + Len(todo) : (FinishSteps \o Tail(todo))[i] = "Validated"
        BY <1>6, <2>3, <3>3 DEF WillValidate
      <4>2. i \in 5 .. 3 + Len(todo)
        BY <2>1, <2>3, <3>1, <4>1
      <4>3. i - 3 \in 1 .. Len(todo) /\ todo[i - 3] = "Validated"
        BY <2>1, <2>3, <4>1, <4>2
      <4>4. QED
        BY <4>3 DEF WillValidate
    <3>4. QED
      BY <1>2, <3>2, <3>3 DEF GoOn
  <2>5. mode = "recovering" /\ (BeforeOpen \/ AfterOpen)
    BY <2>4 DEF Sound, OnTheWay
  <2>6. ~AfterOpen
    <3>1. SUFFICES ASSUME AfterOpen
                   PROVE  FALSE
      OBVIOUS
    <3>2. \A k \in 1 .. 7 : RestoresNext[k] # "OpenDb"
      BY DEF RestoresNext
    <3>3. PICK n \in 1 .. 7 : n = Len(todo)
      BY <3>1 DEF AfterOpen
    <3>4. 1 \in 1 .. n /\ 7 - n + 1 \in 1 .. 7
      OBVIOUS
    <3>5. todo[1] = RestoresNext[7 - n + 1]
      BY <3>1, <3>3, <3>4 DEF AfterOpen
    <3>6. QED
      BY <2>1, <3>2, <3>4, <3>5
  <2>7. Len(todo) = 4 /\ \A j \in 1 .. 4 : todo[j] = OpensNext[j]
    <3>1. "OpenDb" \notin RollbackNames \cup {"Resolve"}
      BY DEF RollbackNames
    <3>2. Len(todo) = 4
      BY <2>1, <2>5, <2>6, <3>1 DEF BeforeOpen
    <3>3. QED
      BY <2>5, <2>6, <3>2 DEF BeforeOpen
  <2>8. live'.main # None
    BY <1>1, NoneAssumption
  <2>9. /\ \A j \in 1 .. 3 : OpensNext[j + 1] = RestoresNext[4 + j]
        /\ \A j \in 1 .. 4 : FinishSteps[j] = RestoresNext[j]
    BY DEF OpensNext, RestoresNext, FinishSteps
  <2>10. CASE GoOn
    <3>1. Tail(todo) # <<>> /\ todo' = Tail(todo)
      BY <2>1, <2>7, <2>10 DEF GoOn
    <3>2. Len(todo') = 3 /\ \A j \in 1 .. 3 : todo'[j] = todo[j + 1]
      <4>1. Len(todo) - 1 = 3
        BY <2>7
      <4>2. QED
        BY <2>1, <3>1, <4>1
    <3>3. \A j \in 1 .. 3 : todo'[j] = RestoresNext[7 - 3 + j]
      BY <2>7, <2>9, <3>2
    <3>4. AfterOpen'
      BY <2>8, <3>2, <3>3 DEF AfterOpen
    <3>5. QED
      BY <2>5, <2>10, <3>1, <3>4 DEF GoOn
  <2>11. CASE todo' = FinishSteps \o Tail(todo) /\ mode' = mode
    <3>1. Len(todo') = 7 /\ 3 + Len(todo) = 7
      BY <2>3, <2>7, <2>11
    <3>2. /\ \A j \in 1 .. 4 : todo'[j] = FinishSteps[j]
          /\ \A j \in 5 .. 7 : todo'[j] = todo[j - 3]
      BY <2>3, <2>11, <3>1
    <3>3. \A j \in 1 .. 7 : todo'[j] = RestoresNext[7 - 7 + j]
      <4>1. TAKE j \in 1 .. 7
      <4>2. CASE j \in 1 .. 4
        BY <2>9, <3>2, <4>2
      <4>3. CASE j \in 5 .. 7
        <5>1. j - 4 \in 1 .. 3 /\ j - 3 = (j - 4) + 1 /\ 4 + (j - 4) = j /\ j - 3 \in 1 .. 4
          BY <4>3
        <5>2. QED
          BY <2>7, <2>9, <3>2, <4>3, <5>1
      <4>4. QED
        BY <4>2, <4>3
    <3>4. AfterOpen'
      BY <2>8, <3>1, <3>3 DEF AfterOpen
    <3>5. QED
      BY <2>5, <2>11, <3>4
  <2>12. QED
    BY <1>2, <2>10, <2>11
<1>7. OnTheWay'
  BY <1>6 DEF OnTheWay
<1>8. QED
  BY <1>3, <1>4, <1>5, <1>7 DEF Sound

LEMMA RestoreSound ==
  ASSUME Typed, Sound, Restore
  PROVE  Sound' /\ Kept
<1>1. /\ Does("Restore") /\ GoOn /\ UNCHANGED <<marker, session, sessions>>
      /\ lastVersion' = lastVersion + 1 /\ live' = [live EXCEPT !.wal = lastVersion']
  BY DEF Restore, markers
<1>2. ~Valid
  BY <1>1, StepAtValid DEF Sound
<1>3. Numbered' /\ ~Valid' /\ Kept
  BY <1>1, <1>2 DEF Sound, Numbered, Valid, Kept
<1>4. ASSUME WillValidate'
      PROVE  mode' = "recovering" /\ AfterOpen'
  <2>1. /\ todo' = Tail(todo) /\ todo[1] = "Restore" /\ Len(todo) \in Nat /\ Len(todo) >= 1
        /\ Len(todo') = Len(todo) - 1 /\ \A i \in 1 .. Len(todo) - 1 : todo'[i] = todo[i + 1]
    BY <1>1, DoesType DEF GoOn
  <2>2. WillValidate
    BY <1>4, <2>1 DEF WillValidate
  <2>3. mode = "recovering" /\ (BeforeOpen \/ AfterOpen)
    BY <2>2 DEF Sound, OnTheWay
  <2>4. ~BeforeOpen
    <3>1. OpensNext[1] = "OpenDb" /\ "Restore" \notin RollbackNames \cup {"Resolve"}
      BY DEF OpensNext, RollbackNames
    <3>2. QED
      BY <2>1, <3>1 DEF BeforeOpen
  <2>5. Len(todo) = 3
    <3>1. PICK n \in 1 .. 7 : n = Len(todo)
      BY <2>3, <2>4 DEF AfterOpen
    <3>2. 1 \in 1 .. n /\ 7 - n + 1 \in 1 .. 7 /\ (n # 3 => 7 - n + 1 # 5)
      OBVIOUS
    <3>3. RestoresNext[7 - n + 1] = "Restore"
      BY <2>1, <2>3, <2>4, <3>1, <3>2 DEF AfterOpen
    <3>4. \A k \in 1 .. 7 : k # 5 => RestoresNext[k] # "Restore"
      BY DEF RestoresNext
    <3>5. QED
      BY <3>1, <3>2, <3>3, <3>4
  <2>6. Len(todo') = 2 /\ \A j \in 1 .. 2 : todo'[j] = RestoresNext[7 - 2 + j]
    <3>1. Len(todo) - 1 = 2
      BY <2>5
    <3>2. Len(todo') = 2 /\ \A j \in 1 .. 2 : todo'[j] = todo[j + 1]
      BY <2>1, <3>1
    <3>3. \A j \in 1 .. 3 : todo[j] = RestoresNext[7 - 3 + j]
      BY <2>3, <2>4, <2>5 DEF AfterOpen
    <3>4. \A j \in 1 .. 2 : j + 1 \in 1 .. 3 /\ 7 - 3 + (j + 1) = 7 - 2 + j
      OBVIOUS
    <3>5. QED
      BY <3>2, <3>3, <3>4
  <2>7. live'.main # None /\ Ledger(live') = lastVersion'
    <3>1. live \in Family /\ lastVersion' # None
      BY <1>1, NoneAssumption DEF Typed, FilesTyped, CountersTyped, Versions
    <3>2. live'.main = live.main /\ live'.wal = lastVersion'
      BY <1>1, <3>1 DEF Family
    <3>3. QED
      BY <2>3, <2>4, <3>1, <3>2 DEF Ledger, AfterOpen
  <2>8. todo' # <<>>
    BY <2>6
  <2>9. mode' = "recovering"
    BY <1>1, <2>1, <2>3, <2>8 DEF GoOn
  <2>10. AfterOpen'
    BY <2>6, <2>7 DEF AfterOpen
  <2>11. QED
    BY <2>9, <2>10
<1>5. OnTheWay'
  BY <1>4 DEF OnTheWay
<1>6. QED
  BY <1>3, <1>5 DEF Sound

(* Failures.                                                               *)
LEMMA TidiesUp ==
  ASSUME Typed
  PROVE  /\ TidyingUp <=> \E k \in 1 .. Len(todo) : todo[k] = "Prune"
         /\ TidyingUp => \E k \in 1 .. Len(todo) :
                          /\ todo[k] = "Prune"
                          /\ AfterTidyingUp = [i \in 1 .. Len(todo) - k |-> todo[i + k]]
                          /\ Len(AfterTidyingUp) = Len(todo) - k
<1> DEFINE k == CHOOSE k \in DOMAIN todo : todo[k] = "Prune"
<1>1. todo \in Seq(Names) /\ Len(todo) \in Nat /\ DOMAIN todo = 1 .. Len(todo)
  BY DEF Typed, TodoTyped
<1>2. TidyingUp => k \in 1 .. Len(todo) /\ todo[k] = "Prune"
  BY <1>1 DEF TidyingUp
<1>3. AfterTidyingUp = SubSeq(todo, k + 1, Len(todo))
  BY DEF AfterTidyingUp
<1> HIDE DEF k
<1>4. TidyingUp <=> \E n \in 1 .. Len(todo) : todo[n] = "Prune"
  BY <1>1 DEF TidyingUp
<1>5. ASSUME TidyingUp
      PROVE  /\ AfterTidyingUp = [i \in 1 .. Len(todo) - k |-> todo[i + k]]
             /\ Len(AfterTidyingUp) = Len(todo) - k
  <2>1. AfterTidyingUp = [i \in 1 .. Len(todo) - k |-> todo[i + k]]
    BY <1>1, <1>2, <1>3, <1>5
  <2>2. Len(todo) - k \in Nat
    BY <1>1, <1>2, <1>5
  <2>3. QED
    BY <2>1, <2>2
<1>6. QED
  BY <1>2, <1>4, <1>5

LEMMA ThrowAtValid ==
  ASSUME Typed, Sound, Valid, todo # <<>>, Throw
  PROVE  todo' = <<>> /\ mode' = "idle" /\ live' = live
<1>1. AtValid
  BY DEF Sound
<1>2. CASE /\ mode \in {"opening", "purging", "beginning"}
           /\ todo \in {OpenSteps, <<"OpenDb">>, PurgeSteps, BeginSteps, Tail(BeginSteps)}
           /\ mode = "beginning" => marker.session # session
  <2>1. /\ \A k \in 1 .. Len(OpenSteps) : OpenSteps[k] # "Prune"
        /\ \A k \in 1 .. Len(PurgeSteps) : PurgeSteps[k] # "Prune"
        /\ \A k \in 1 .. Len(BeginSteps) : BeginSteps[k] # "Prune"
        /\ \A k \in 1 .. Len(Tail(BeginSteps)) : Tail(BeginSteps)[k] # "Prune"
        /\ \A k \in 1 .. Len(<<"OpenDb">>) : <<"OpenDb">>[k] # "Prune"
    BY DEF OpenSteps, PurgeSteps, BeginSteps
  <2>2. ~TidyingUp
    BY <1>2, <2>1, TidiesUp
  <2>3. ~RollsBack
    BY <1>2 DEF RollsBack
  <2>4. QED
    BY <2>2, <2>3 DEF Throw
<1>3. CASE todo \in {FinishSteps, FinalizeSteps}
  <2>1. /\ FinishSteps[4] = "Prune" /\ Len(FinishSteps) = 4
        /\ FinalizeSteps[3] = "Prune" /\ Len(FinalizeSteps) = 3
        /\ \A k \in 1 .. 3 : FinishSteps[k] # "Prune"
        /\ \A k \in 1 .. 2 : FinalizeSteps[k] # "Prune"
    BY DEF FinishSteps, FinalizeSteps
  <2>2. TidyingUp
    BY <1>3, <2>1, TidiesUp
  <2>3. PICK k \in 1 .. Len(todo) : todo[k] = "Prune" /\ Len(AfterTidyingUp) = Len(todo) - k
    BY <2>2, TidiesUp
  <2>4. k = Len(todo)
    <3>1. CASE todo = FinishSteps
      BY <2>1, <2>3, <3>1
    <3>2. CASE todo = FinalizeSteps
      BY <2>1, <2>3, <3>2
    <3>3. QED
      BY <1>3, <3>1, <3>2
  <2>5. Len(AfterTidyingUp) = 0
    BY <1>3, <2>1, <2>3, <2>4
  <2>6. AfterTidyingUp = <<>>
    BY <2>2, <2>5, AfterTidyingUpType
  <2>7. QED
    BY <2>2, <2>6 DEF Throw
<1>4. QED
  BY <1>1, <1>2, <1>3 DEF AtValid

LEMMA ThrowSound ==
  ASSUME Typed, Sound, todo # <<>>, Throw
  PROVE  Sound' /\ Kept
<1>1. UNCHANGED <<marker, session, sessions>> /\ lastVersion' = lastVersion
  BY DEF Throw
<1>2. Numbered' /\ (Valid' <=> Valid)
  BY <1>1 DEF Sound, Numbered, Valid
<1>3. ASSUME Valid
      PROVE  Whole' /\ AtValid' /\ Kept
  BY <1>1, <1>3, ThrowAtValid, WholeStays DEF Sound, AtValid
<1>4. Kept
  BY <1>3 DEF Kept
<1>5. CASE TidyingUp
  <2>1. PICK k \in 1 .. Len(todo) :
           /\ todo[k] = "Prune"
           /\ AfterTidyingUp = [i \in 1 .. Len(todo) - k |-> todo[i + k]]
           /\ Len(AfterTidyingUp) = Len(todo) - k
    BY <1>5, TidiesUp
  <2>2. /\ todo' = AfterTidyingUp /\ live' = live
        /\ mode' = IF AfterTidyingUp = <<>> THEN "idle" ELSE mode
    BY <1>5 DEF Throw
  <2>3. Len(todo) \in Nat
    BY DEF Typed, TodoTyped
  <2>4. Len(todo') = Len(todo) - k /\ \A i \in 1 .. Len(todo) - k : todo'[i] = todo[i + k]
    BY <2>1, <2>2
  <2>5. ASSUME WillValidate'
        PROVE  mode' = "recovering" /\ AfterOpen'
    <3>1. WillValidate /\ Len(todo') >= 1
      BY <2>3, <2>4, <2>5 DEF WillValidate
    <3>2. mode = "recovering" /\ (BeforeOpen \/ AfterOpen)
      BY <3>1 DEF Sound, OnTheWay
    <3>3. ~BeforeOpen
      <4>1. "Prune" \notin RollbackNames \cup {"Resolve"} /\ \A j \in 1 .. 4 : OpensNext[j] # "Prune"
        BY DEF RollbackNames, OpensNext
      <4>2. SUFFICES ASSUME BeforeOpen
                     PROVE  FALSE
        OBVIOUS
      <4>3. CASE k <= Len(todo) - 4
        BY <2>1, <2>3, <4>1, <4>2, <4>3 DEF BeforeOpen
      <4>4. CASE k > Len(todo) - 4
        <5>1. k - (Len(todo) - 4) \in 1 .. 4
          BY <2>3, <4>4
        <5>2. todo[Len(todo) - 4 + (k - (Len(todo) - 4))] # "Prune"
          BY <4>1, <4>2, <5>1 DEF BeforeOpen
        <5>3. Len(todo) - 4 + (k - (Len(todo) - 4)) = k
          BY <2>3
        <5>4. QED
          BY <2>1, <5>2, <5>3
      <4>5. QED
        BY <2>3, <4>3, <4>4
    <3>4. PICK n \in 1 .. 7 : n = Len(todo) /\ k \in 1 .. n
      BY <3>2, <3>3 DEF AfterOpen
    <3>5. k = n - 3
      <4>1. RestoresNext[7 - n + k] = "Prune"
        BY <2>1, <3>2, <3>3, <3>4 DEF AfterOpen
      <4>2. \A j \in 1 .. 7 : j # 4 => RestoresNext[j] # "Prune"
        BY DEF RestoresNext
      <4>3. 7 - n + k \in 1 .. 7 /\ (7 - n + k = 4 => k = n - 3)
        <5>1. PICK j \in 1 .. 7 : j = k
          BY <3>4
        <5>2. j <= n
          BY <3>4, <5>1
        <5>3. 7 - n + j \in 1 .. 7 /\ (7 - n + j = 4 => j = n - 3)
          BY <5>2
        <5>4. QED
          BY <5>1, <5>3
      <4>4. QED
        BY <4>1, <4>2, <4>3
    <3>6. Len(todo') = 3 /\ \A j \in 1 .. 3 : todo'[j] = RestoresNext[7 - 3 + j]
      <4>1. n - k = 3
        BY <3>4, <3>5
      <4>2. Len(todo') = 3 /\ \A j \in 1 .. 3 : todo'[j] = todo[j + k]
        BY <2>4, <3>4, <4>1
      <4>3. ASSUME NEW j \in 1 .. 3
            PROVE  todo'[j] = RestoresNext[7 - 3 + j]
        <5>1. j + k \in 1 .. n /\ 7 - n + (j + k) = 7 - 3 + j
          BY <3>4, <3>5
        <5>2. todo[j + k] = RestoresNext[7 - n + (j + k)]
          BY <3>2, <3>3, <3>4, <5>1 DEF AfterOpen
        <5>3. QED
          BY <4>2, <5>1, <5>2
      <4>4. QED
        BY <4>2, <4>3
    <3>7. live'.main # None
      BY <2>2, <3>2, <3>3 DEF AfterOpen
    <3>8. todo' # <<>>
      <4>1. Len(todo') = 3
        BY <3>6
      <4>2. QED
        BY <4>1
    <3>9. AfterOpen'
      BY <3>6, <3>7 DEF AfterOpen
    <3>10. QED
      BY <2>2, <3>2, <3>8, <3>9
  <2>6. QED
    BY <1>2, <1>3, <1>4, <2>5 DEF Sound, OnTheWay
<1>6. CASE ~TidyingUp
  <2>1. todo' = RollbackSteps(session) \/ todo' = <<>>
    BY <1>6 DEF Throw
  <2>2. \A i \in 1 .. Len(RollbackSteps(session)) : RollbackSteps(session)[i] # "Validated"
    BY RollbackType DEF RollbackNames
  <2>3. ~WillValidate'
    BY <2>1, <2>2 DEF WillValidate
  <2>4. QED
    BY <1>2, <1>3, <1>4, <2>3 DEF Sound, OnTheWay
<1>7. QED
  BY <1>5, <1>6

LEMMA FailureSound ==
  ASSUME Typed, Sound, OpenFails \/ Fault \/ Kill
  PROVE  Sound' /\ Kept
<1>1. CASE OpenFails
  BY <1>1, ThrowSound DEF OpenFails, Does
<1>2. CASE Fault
  BY <1>2, ThrowSound DEF Fault
<1>3. CASE Kill
  <2>1. /\ UNCHANGED <<marker, sessions>> /\ live' = live /\ lastVersion' = lastVersion
        /\ mode' = "down" /\ todo' = <<>> /\ session' = None
    BY <1>3 DEF Kill, files, markers
  <2>2. (Valid' <=> Valid) /\ Numbered' /\ AtValid' /\ ~WillValidate'
    BY <2>1 DEF Valid, Sound, Numbered, AtValid, WillValidate
  <2>3. QED
    BY <2>1, <2>2, WholeStays DEF Sound, OnTheWay
<1>4. QED
  BY <1>1, <1>2, <1>3

(* What the user does.                                                     *)
LEMMA UserSound ==
  ASSUME Typed, Sound, Launch \/ Commit \/ Checkpoint \/ Recover \/ Purge
  PROVE  Sound' /\ Kept
<1>1. CASE Launch \/ Purge
  <2>1. /\ UNCHANGED <<marker, session, sessions>> /\ live' = live /\ lastVersion' = lastVersion
        /\ \/ mode' = "opening" /\ todo' = OpenSteps
           \/ mode' = "purging" /\ todo' = PurgeSteps
    BY <1>1 DEF Launch, Purge, files, markers, counters
  <2>2. (Valid' <=> Valid) /\ Numbered' /\ AtValid'
    BY <2>1 DEF Valid, Sound, Numbered, AtValid
  <2>3. ~WillValidate'
    BY <2>1 DEF WillValidate, OpenSteps, PurgeSteps
  <2>4. QED
    BY <2>1, <2>2, <2>3, WholeStays DEF Sound, OnTheWay
<1>2. CASE Commit
  <2>1. /\ mode = "idle" /\ UNCHANGED <<marker, mode, todo, session, sessions>>
        /\ lastVersion' = lastVersion + 1 /\ live' = [live EXCEPT !.wal = lastVersion']
    BY <1>2 DEF Commit, markers, process
  <2>2. Numbered' /\ (Valid' <=> Valid)
    BY <2>1 DEF Sound, Numbered, Valid
  <2>3. ~WillValidate'
    BY <2>1 DEF Sound, OnTheWay, WillValidate
  <2>4. live'.main = live.main /\ Ledger(live') = lastVersion'
    <3>1. live \in Family /\ lastVersion' # None
      BY <2>1, NoneAssumption DEF Typed, FilesTyped, CountersTyped, Versions
    <3>2. live'.main = live.main /\ live'.wal = lastVersion'
      BY <2>1, <3>1 DEF Family
    <3>3. QED
      BY <3>1, <3>2 DEF Ledger
  <2>5. Valid => Whole' /\ AtValid'
    BY <2>1, <2>4 DEF Sound, Whole, AtValid
  <2>6. Kept
    BY <2>1, <2>4, KeptWhole DEF Sound, Whole
  <2>7. QED
    BY <2>2, <2>3, <2>5, <2>6 DEF Sound, OnTheWay
<1>3. CASE Checkpoint
  <2>1. /\ UNCHANGED <<marker, mode, todo, session, sessions>> /\ lastVersion' = lastVersion
        /\ live' = Closed(live)
    BY <1>3 DEF Checkpoint, markers, process, counters
  <2>2. Numbered' /\ (Valid' <=> Valid) /\ (WillValidate' <=> WillValidate)
    BY <2>1 DEF Sound, Numbered, Valid, WillValidate
  <2>3. Ledger(live') = Ledger(live) /\ (live.main # None => live'.main # None)
    BY <2>1, LedgerOfClosed DEF Typed, FilesTyped
  <2>4. Valid => Whole' /\ AtValid'
    BY <2>1, <2>3 DEF Sound, Whole, AtValid
  <2>5. Kept
    BY <2>3, KeptWhole DEF Sound, Whole
  <2>6. OnTheWay'
    BY <2>1, <2>2, <2>3 DEF Sound, OnTheWay, BeforeOpen, AfterOpen
  <2>7. QED
    BY <2>2, <2>4, <2>5, <2>6 DEF Sound
<1>4. CASE Recover
  <2>1. /\ sessions' = sessions + 1 /\ live' \in {live, Closed(live)} /\ session'.dir = sessions + 1
        /\ marker' = marker /\ lastVersion' = lastVersion
        /\ mode' = "beginning" /\ todo' = BeginSteps
    BY <1>4 DEF Recover, NewSession, markers
  <2>2. sessions \in Nat /\ (marker # None => marker.session.dir \in Nat)
    BY DEF Typed, CountersTyped, MarkersTyped, Session
  <2>3. Numbered' /\ (Valid' <=> Valid)
    BY <2>1, <2>2 DEF Sound, Numbered, Valid
  <2>4. Valid => marker'.session # session'
    BY <2>1, <2>2 DEF Sound, Numbered, Valid
  <2>5. Ledger(live') = Ledger(live) /\ (live.main # None => live'.main # None)
    BY <2>1, LedgerOfClosed DEF Typed, FilesTyped
  <2>6. Valid => Whole' /\ AtValid'
    BY <2>1, <2>4, <2>5 DEF Sound, Whole, AtValid
  <2>7. Kept
    BY <2>5, KeptWhole DEF Sound, Whole
  <2>8. ~WillValidate'
    BY <2>1 DEF WillValidate, BeginSteps
  <2>9. QED
    BY <2>3, <2>6, <2>7, <2>8 DEF Sound, OnTheWay
<1>5. QED
  BY <1>1, <1>2, <1>3, <1>4

LEMMA NextSound == Typed /\ Sound /\ [Next]_vars => Sound' /\ Kept
<1> SUFFICES ASSUME Typed, Sound, [Next]_vars
             PROVE  Sound' /\ Kept
  OBVIOUS
<1>1. CASE UNCHANGED vars
  <2>1. /\ UNCHANGED <<marker, session, sessions, mode, todo>>
        /\ live' = live /\ lastVersion' = lastVersion
    BY <1>1 DEF vars, files, markers, process, counters
  <2>2. Numbered' /\ (Valid' <=> Valid) /\ OnTheWay' /\ (AtValid' <=> AtValid)
    BY <2>1 DEF Sound, Numbered, Valid, OnTheWay, WillValidate, BeforeOpen, AfterOpen, AtValid,
                Ledger
  <2>3. QED
    BY <2>1, <2>2, WholeStays DEF Sound
<1>2. CASE FileStep \/ LeaveQuarantine
  BY <1>2, FileStepSound DEF Kept
<1>3. CASE MarkerStep \/ DatabaseStep \/ Fault \/ Kill
  BY <1>3, MarkerStepSound, ResolveSound, OpenSound, RestoreSound, FailureSound DEF DatabaseStep
<1>4. CASE Launch \/ Commit \/ Checkpoint \/ Recover \/ Purge
  BY <1>4, UserSound
<1>5. QED
  BY <1>1, <1>2, <1>3, <1>4 DEF Next, ProcessStep

(* Once the marker records that the restored database was validated, no    *)
(* kill, no failure, no restart and no further recovery takes it away or   *)
(* puts an older ledger in its place, for as long as the marker says so.   *)
THEOREM ReplacementStays == Spec => ValidatedStays
<1>1. Typed /\ Sound /\ [Next]_vars =>
        [Valid => live'.main # None /\ Ledger(live') >= Ledger(live)]_vars
  BY NextSound DEF Kept
<1>2. Init => Typed /\ Sound
  BY InitTyped, InitSound
<1>3. Typed /\ Sound /\ [Next]_vars => Typed' /\ Sound'
  BY NextTyped, NextSound
<1>4. Spec => [][Valid => live'.main # None /\ Ledger(live') >= Ledger(live)]_vars
  BY <1>1, <1>2, <1>3, PTL DEF Spec
<1>5. QED
  BY <1>4 DEF ValidatedStays, Valid

-----------------------------------------------------------------------------
(* The refinement.  While no step has thrown, every program keeps an       *)
(* order: a step may stand before another when its first place is before   *)
(* the other's last place.                                                 *)

Undone == marker # None /\ ~Valid
Steps(program) == {program[i] : i \in 1 .. Len(program)}
Left == Steps(todo)

FirstPlace(step) ==
  CASE step = "WritePending" -> 0
    [] step = "Preparing" -> 1
    [] step \in {"DropWal", "MoveMain"} -> 2
    [] step \in {"DropMain", "MoveWal"} -> 3
    [] step \in {"MainBack", "Quarantined"} -> 4
    [] step \in {"WalBack", "DropQuarantine"} -> 5
    [] step = "DropKey" -> 6
    [] step = "DropMarker" -> 7
    [] step = "DropPending" -> 8
    [] step = "Resolve" -> 9
    [] step = "OpenDb" -> 10
    [] step \in {"Finished", "PurgeAll"} -> 11
    [] step = "Prune" -> 12
    [] step = "Restore" -> 13
    [] OTHER -> 14
LastPlace(step) ==
  CASE step = "WritePending" -> 15
    [] step = "DropQuarantine" -> 9
    [] step = "Resolve" -> 1
    [] OTHER -> FirstPlace(step)
Ordered(program) ==
  \A i, j \in 1 .. Len(program) : i < j => FirstPlace(program[i]) < LastPlace(program[j])
InOrder == Ordered(todo)

OfBeginning == {"Preparing", "MoveMain", "MoveWal", "Quarantined"}
PutsBack == {"DropWal", "DropMain", "MainBack", "WalBack"}
NeedsClosed == OfBeginning \cup PutsBack \cup {"Resolve", "DropKey", "OpenDb"}
NeedsOpen == {"Finished", "Prune", "PurgeAll"}
MainIn(s) == InQuarantine(s.dir).main

(* What the files hold.                                                    *)
LogsSafe ==
  /\ live.wal # None => key /\ live.main # None
  /\ \A d \in DOMAIN quarantine : quarantine[d].wal = None
UpTo(v, f) == Ledger(f) # None => Ledger(f) <= v
Newest == UpTo(lastVersion, live) /\ \A d \in DOMAIN quarantine : UpTo(lastVersion, quarantine[d])
MarkerSafe ==
  /\ Undone => /\ live.wal = None
               /\ ~marker.session.hadKey => ~key
               /\ ~marker.session.hadDatabase => live.main = None /\ MainIn(marker.session) = None
  /\ Valid => key /\ live.main # None

(* What the steps that are left take for granted.                          *)
OpenSafe ==
  /\ isOpen => key /\ live.main # None /\ ~Undone /\ Left \cap NeedsClosed = {}
  /\ Left \cap NeedsOpen # {} => isOpen
Resting ==
  /\ mode \in {"idle", "down"} => todo = <<>>
  /\ mode = "down" => ~isOpen
  /\ mode = "idle" => marker = None /\ (isOpen \/ ~key)
Beginning ==
  /\ Left \cap OfBeginning # {} => mode = "beginning"
  /\ mode = "beginning" =>
       /\ "Quarantined" \in Left /\ Left \subseteq OfBeginning \cup {"WritePending"}
       /\ ~isOpen /\ live.wal = None /\ (key => session.hadKey)
       /\ session.dir \in DOMAIN quarantine
       /\ ~session.hadDatabase => live.main = None /\ MainIn(session) = None
       /\ "MoveMain" \in Left => MainIn(session) = None
       /\ marker # None => Undone /\ marker.session = session
       /\ IF "Preparing" \in Left THEN marker = None /\ "MoveMain" \in Left ELSE marker # None
RollingBack ==
  /\ "DropKey" \in Left => ~key
  /\ Left \cap PutsBack # {} => Undone /\ marker.session = session
  /\ Left \cap {"DropWal", "DropMain"} # {} => ~session.hadDatabase \/ MainIn(session) # None
  /\ "MainBack" \notin Left /\ Left \cap {"DropMarker", "DropQuarantine"} # {} /\ Undone
       => marker.session = session /\ MainIn(session) = None
  /\ mode = "undoing" =>
       /\ ~key /\ ~isOpen /\ marker = None
       /\ Left \subseteq {"DropMarker", "DropPending", "DropQuarantine"}
Opening ==
  /\ Left \cap {"Resolve", "OpenDb"} # {} => mode \in {"opening", "recovering"}
  /\ "Resolve" \in Left => "OpenDb" \in Left
  /\ mode = "opening" => todo # <<>> /\ todo[Len(todo)] \in {"OpenDb", "Prune"}
  /\ mode = "purging" => marker = None /\ isOpen
  /\ "OpenDb" \in Left /\ Left \cap {"Resolve", "DropMarker"} = {} => ~Undone
  /\ "OpenDb" \in Left /\ "Resolve" \notin Left /\ Valid => finalize
  /\ "Prune" \in Left /\ "DropMarker" \notin Left => marker = None
Recovering ==
  /\ Left \cap {"Restore", "Validated"} # {} => mode = "recovering" /\ (isOpen \/ "OpenDb" \in Left)
  /\ mode = "recovering" => todo # <<>> /\ todo[Len(todo)] \in {"Validated", "Prune"}
  /\ mode = "recovering" /\ "OpenDb" \in Left =>
       /\ ~session.hadDatabase => live.main = None
       /\ "Resolve" \in Left => Undone /\ marker.session = session
       /\ Left \cap {"Resolve", "MainBack"} = {} => MainIn(session) = None

FilesSafe == LogsSafe /\ Newest /\ MarkerSafe
StepsSafe == OpenSafe /\ Resting /\ Beginning /\ RollingBack /\ Opening /\ Recovering /\ InOrder
Safe == FilesSafe /\ StepsSafe


-----------------------------------------------------------------------------
(* The steps that are left.                                                *)

LEMMA TailOfProgram ==
  ASSUME Typed, InOrder, NEW step, Does(step)
  PROVE  LET rest == Tail(todo)
         IN  /\ Left = Steps(rest) \cup {step} /\ Ordered(rest) /\ rest \in Seq(Names)
             /\ \A later \in Steps(rest) : FirstPlace(step) < LastPlace(later)
             /\ rest = <<>> => Steps(rest) = {} /\ Left = {step} /\ todo[Len(todo)] = step
             /\ rest # <<>> => rest[Len(rest)] = todo[Len(todo)] /\ rest[Len(rest)] \in Steps(rest)
<1> DEFINE rest == Tail(todo)
<1>1. /\ Len(todo) \in Nat /\ Len(todo) >= 1 /\ todo[1] = step /\ rest \in Seq(Names)
      /\ Len(rest) = Len(todo) - 1 /\ \A i \in 1 .. Len(todo) - 1 : rest[i] = todo[i + 1]
  BY DoesType
<1> HIDE DEF rest
<1>2. PICK n \in Nat : n = Len(todo) /\ n >= 1 /\ Len(rest) = n - 1
  BY <1>1
<1>3. \A i \in 1 .. n - 1 : i + 1 \in 1 .. n /\ rest[i] = todo[i + 1]
  BY <1>1, <1>2
<1>4. \A i \in 1 .. n : i # 1 => i - 1 \in 1 .. n - 1 /\ rest[i - 1] = todo[i]
  <2>1. TAKE i \in 1 .. n
  <2>2. CASE i # 1
    <3>1. i - 1 \in 1 .. n - 1 /\ (i - 1) + 1 = i
      BY <1>2, <2>2
    <3>2. QED
      BY <1>3, <3>1
  <2>3. QED
    BY <2>2
<1>5. Steps(rest) = {rest[i] : i \in 1 .. n - 1} /\ Left = {todo[i] : i \in 1 .. n}
  BY <1>2 DEF Left, Steps
<1>6. Left = Steps(rest) \cup {step}
  BY <1>1, <1>2, <1>3, <1>4, <1>5
<1>7. \A i, j \in 1 .. n : i < j => FirstPlace(todo[i]) < LastPlace(todo[j])
  BY <1>2 DEF InOrder, Ordered
<1>8. Ordered(rest)
  <2>1. SUFFICES ASSUME NEW i \in 1 .. n - 1, NEW j \in 1 .. n - 1, i < j
                 PROVE  FirstPlace(rest[i]) < LastPlace(rest[j])
    BY <1>2 DEF Ordered
  <2>2. i + 1 \in 1 .. n /\ j + 1 \in 1 .. n /\ i + 1 < j + 1
    BY <1>2, <2>1
  <2>3. QED
    BY <1>3, <1>7, <2>2
<1>9. \A later \in Steps(rest) : FirstPlace(step) < LastPlace(later)
  <2>1. TAKE later \in Steps(rest)
  <2>2. PICK i \in 1 .. n - 1 : later = rest[i]
    BY <1>5
  <2>3. i + 1 \in 1 .. n /\ 1 < i + 1 /\ 1 \in 1 .. n
    BY <1>2, <2>2
  <2>4. QED
    BY <1>1, <1>3, <1>7, <2>2, <2>3
<1>10. rest = <<>> => Steps(rest) = {} /\ Left = {step} /\ todo[Len(todo)] = step
  <2>1. SUFFICES ASSUME rest = <<>>
                 PROVE  Steps(rest) = {} /\ Left = {step} /\ todo[Len(todo)] = step
    OBVIOUS
  <2>2. n = 1
    <3>1. n - 1 = 0
      BY <1>2, <2>1
    <3>2. QED
      BY <3>1
  <2>3. Steps(rest) = {}
    BY <1>5, <2>2
  <2>4. QED
    BY <1>1, <1>2, <1>6, <2>2, <2>3
<1>11. rest # <<>> => rest[Len(rest)] = todo[Len(todo)] /\ rest[Len(rest)] \in Steps(rest)
  <2>1. SUFFICES ASSUME rest # <<>>
                 PROVE  rest[n - 1] = todo[n] /\ rest[n - 1] \in Steps(rest)
    BY <1>2
  <2>2. n - 1 \in 1 .. n - 1 /\ (n - 1) + 1 = n
    BY <1>1, <1>2, <2>1
  <2>3. QED
    BY <1>3, <1>5, <2>2
<1>12. QED
  BY <1>1, <1>6, <1>8, <1>9, <1>10, <1>11 DEF rest

LEMMA StepGoesOn ==
  ASSUME Typed, InOrder, NEW step, Does(step), todo' = Tail(todo)
  PROVE  /\ Left = Left' \cup {step} /\ InOrder'
         /\ \A later \in Left' : FirstPlace(step) < LastPlace(later)
         /\ todo' = <<>> => Left' = {} /\ Left = {step} /\ todo[Len(todo)] = step
         /\ todo' # <<>> => todo'[Len(todo')] = todo[Len(todo)] /\ todo'[Len(todo')] \in Left'
<1>1. Left' = Steps(Tail(todo)) /\ (InOrder' <=> Ordered(Tail(todo)))
  BY DEF Left, InOrder
<1>2. QED
  BY <1>1, TailOfProgram

(* What the order of the steps excludes.                                   *)
LEMMA NotLater ==
  ASSUME NEW step, NEW later, FirstPlace(step) < LastPlace(later)
  PROVE  /\ step = "MainBack" => later \notin {"DropWal", "DropMain", "MainBack"}
         /\ step = "MoveMain" => later \notin {"MoveMain", "Preparing"}
         /\ step = "DropMarker" => later \notin PutsBack \cup {"DropKey", "DropMarker", "Resolve"}
         /\ step = "Resolve" => later \notin PutsBack \cup {"DropKey", "DropMarker", "Resolve",
                                                            "DropPending", "DropQuarantine"}
         /\ step = "OpenDb" => later \notin PutsBack \cup {"DropKey", "DropMarker", "Resolve",
                                                           "DropQuarantine", "OpenDb"}
         /\ step \in {"Preparing", "Quarantined"} => later # "Preparing"
         /\ step \in {"Validated", "Restore"} => later # "OpenDb"
         /\ step = "Resolve" => \A first \in RollbackNames : FirstPlace(first) < LastPlace(later)
         /\ step = "OpenDb" /\ later \in Names \ NeedsOpen =>
              FirstPlace("Prune") < LastPlace(later)
         /\ step \in {"DropQuarantine", "Prune", "PurgeAll"} => later \notin PutsBack
         /\ step = "Prune" => later \notin {"Prune", "DropMarker", "OpenDb", "PurgeAll", "Finished"}
<1>1. step = "Resolve" => \A first \in RollbackNames : FirstPlace(first) < LastPlace(later)
  <2>1. \A first \in RollbackNames : FirstPlace(first) \in 0 .. 8
    BY DEF FirstPlace, RollbackNames
  <2>2. LastPlace(later) \in 1 .. 15 /\ FirstPlace("Resolve") = 9
    BY DEF FirstPlace, LastPlace
  <2>3. QED
    BY <2>1, <2>2
<1>2. step = "OpenDb" /\ later \in Names \ NeedsOpen => FirstPlace("Prune") < LastPlace(later)
  BY DEF FirstPlace, LastPlace, RollbackNames, Names, OfSession, NeedsOpen
<1>3. QED
  BY <1>1, <1>2 DEF FirstPlace, LastPlace, PutsBack

(* A program made of two.                                                  *)
LEMMA TwoPrograms ==
  ASSUME NEW a \in Seq(Names), NEW b \in Seq(Names), Ordered(a), Ordered(b),
         \A first \in Steps(a), later \in Steps(b) : FirstPlace(first) < LastPlace(later)
  PROVE  /\ Steps(a \o b) = Steps(a) \cup Steps(b) /\ Ordered(a \o b)
         /\ b # <<>> => a \o b # <<>> /\ (a \o b)[Len(a \o b)] = b[Len(b)]
<1> DEFINE c == a \o b
<1>1. PICK m \in Nat, n \in Nat : m = Len(a) /\ n = Len(b)
  OBVIOUS
<1>2. /\ Len(c) = m + n
      /\ \A i \in 1 .. m : c[i] = a[i]
      /\ \A i \in m + 1 .. m + n : c[i] = b[i - m]
  BY <1>1, ConcatIndex
<1> HIDE DEF c
<1>3. \A i \in 1 .. m + n : \/ i \in 1 .. m /\ c[i] = a[i]
                            \/ i - m \in 1 .. n /\ i \notin 1 .. m /\ c[i] = b[i - m]
  <2>1. TAKE i \in 1 .. m + n
  <2>2. CASE i \in 1 .. m
    BY <1>2, <2>2
  <2>3. CASE i \notin 1 .. m
    <3>1. i \in m + 1 .. m + n /\ i - m \in 1 .. n
      BY <1>1, <2>3
    <3>2. QED
      BY <1>2, <2>3, <3>1
  <2>4. QED
    BY <2>2, <2>3
<1>4. Steps(c) = Steps(a) \cup Steps(b)
  <2>1. /\ Steps(c) = {c[i] : i \in 1 .. m + n}
        /\ Steps(a) = {a[i] : i \in 1 .. m} /\ Steps(b) = {b[i] : i \in 1 .. n}
    BY <1>1, <1>2 DEF Steps
  <2>2. \A i \in 1 .. n : i + m \in 1 .. m + n /\ i + m \in m + 1 .. m + n /\ (i + m) - m = i
    BY <1>1
  <2>3. \A i \in 1 .. n : i + m \in 1 .. m + n /\ c[i + m] = b[i]
    BY <1>2, <2>2
  <2>4. \A i \in 1 .. m : i \in 1 .. m + n /\ c[i] = a[i]
    BY <1>1, <1>2
  <2>5. Steps(c) \subseteq Steps(a) \cup Steps(b)
    BY <1>3, <2>1
  <2>6. Steps(a) \subseteq Steps(c) /\ Steps(b) \subseteq Steps(c)
    BY <2>1, <2>3, <2>4
  <2>7. QED
    BY <2>5, <2>6
<1>5. Ordered(c)
  <2>1. SUFFICES ASSUME NEW i \in 1 .. m + n, NEW j \in 1 .. m + n, i < j
                 PROVE  FirstPlace(c[i]) < LastPlace(c[j])
    BY <1>2 DEF Ordered
  <2>2. CASE i \in 1 .. m /\ j \in 1 .. m
    BY <1>1, <1>2, <2>1, <2>2 DEF Ordered
  <2>3. CASE i \in 1 .. m /\ j \notin 1 .. m
    <3>1. j - m \in 1 .. n /\ c[j] = b[j - m] /\ c[i] = a[i]
      BY <1>2, <1>3, <2>3
    <3>2. a[i] \in Steps(a) /\ b[j - m] \in Steps(b)
      BY <1>1, <2>3, <3>1 DEF Steps
    <3>3. QED
      BY <3>1, <3>2
  <2>4. CASE i \notin 1 .. m
    <3>1. i - m \in 1 .. n /\ j - m \in 1 .. n /\ i - m < j - m
      BY <1>1, <2>1, <2>4
    <3>2. j \notin 1 .. m
      BY <1>1, <2>1, <2>4
    <3>3. c[i] = b[i - m] /\ c[j] = b[j - m]
      BY <1>3, <2>4, <3>2
    <3>4. QED
      BY <1>1, <3>1, <3>3 DEF Ordered
  <2>5. QED
    BY <2>2, <2>3, <2>4
<1>6. b # <<>> => c # <<>> /\ c[Len(c)] = b[Len(b)]
  <2>1. SUFFICES ASSUME b # <<>>
                 PROVE  c # <<>> /\ c[m + n] = b[n]
    BY <1>1, <1>2
  <2>2. n >= 1
    BY <1>1, <2>1
  <2>3. m + n \in m + 1 .. m + n /\ (m + n) - m = n
    BY <1>1, <2>2
  <2>4. c # <<>>
    BY <1>1, <1>2, <2>2
  <2>5. QED
    BY <1>2, <2>3, <2>4
<1>7. QED
  BY <1>4, <1>5, <1>6 DEF c

(* The programs an operation begins with.                                  *)
LEMMA OpeningProgram ==
  /\ Ordered(OpenSteps) /\ Steps(OpenSteps) = {"Resolve", "OpenDb"}
  /\ OpenSteps # <<>> /\ OpenSteps[Len(OpenSteps)] = "OpenDb"
<1>1. Len(OpenSteps) = 2 /\ OpenSteps[1] = "Resolve" /\ OpenSteps[2] = "OpenDb"
  BY DEF OpenSteps
<1>2. 1 .. 2 = {1, 2}
  OBVIOUS
<1>3. Ordered(OpenSteps)
  BY <1>1, <1>2 DEF Ordered, FirstPlace, LastPlace
<1>4. QED
  BY <1>1, <1>2, <1>3 DEF Steps

LEMMA RestoringProgram ==
  /\ RestoreSteps # <<>> /\ RestoreSteps[Len(RestoreSteps)] = "Validated"
  /\ Ordered(RestoreSteps) /\ Steps(RestoreSteps) = {"Restore", "WritePending", "Validated"}
<1>1. /\ Len(RestoreSteps) = 3 /\ RestoreSteps[1] = "Restore"
      /\ RestoreSteps[2] = "WritePending" /\ RestoreSteps[3] = "Validated"
  BY DEF RestoreSteps
<1>2. 1 .. 3 = {1, 2, 3}
  OBVIOUS
<1>3. Ordered(RestoreSteps)
  BY <1>1, <1>2 DEF Ordered, FirstPlace, LastPlace
<1>4. RestoreSteps # <<>>
  BY DEF RestoreSteps
<1>5. QED
  BY <1>1, <1>2, <1>3, <1>4 DEF Steps

LEMMA RecoveringProgram ==
  /\ OpenSteps \o RestoreSteps # <<>>
  /\ (OpenSteps \o RestoreSteps)[Len(OpenSteps \o RestoreSteps)] = "Validated"
  /\ Ordered(OpenSteps \o RestoreSteps)
  /\ Steps(OpenSteps \o RestoreSteps) =
       {"Resolve", "OpenDb", "Restore", "WritePending", "Validated"}
<1>1. \A first \in Steps(OpenSteps), later \in Steps(RestoreSteps) :
        FirstPlace(first) < LastPlace(later)
  BY OpeningProgram, RestoringProgram DEF FirstPlace, LastPlace
<1>2. /\ Steps(OpenSteps \o RestoreSteps) = Steps(OpenSteps) \cup Steps(RestoreSteps)
      /\ Ordered(OpenSteps \o RestoreSteps) /\ OpenSteps \o RestoreSteps # <<>>
      /\ (OpenSteps \o RestoreSteps)[Len(OpenSteps \o RestoreSteps)]
           = RestoreSteps[Len(RestoreSteps)]
  <2>1. /\ OpenSteps \in Seq(Names) /\ RestoreSteps \in Seq(Names)
        /\ Ordered(OpenSteps) /\ Ordered(RestoreSteps) /\ RestoreSteps # <<>>
    BY OpeningProgram, RestoringProgram, ProgramsType
  <2>2. QED
    BY <1>1, <2>1, TwoPrograms
<1>3. QED
  BY <1>2, OpeningProgram, RestoringProgram

LEMMA BeginningProgram ==
  Ordered(BeginSteps) /\ Steps(BeginSteps) = OfBeginning \cup {"WritePending"}
<1>1. /\ Len(BeginSteps) = 6 /\ BeginSteps[1] = "WritePending" /\ BeginSteps[2] = "Preparing"
      /\ BeginSteps[3] = "MoveMain" /\ BeginSteps[4] = "MoveWal"
      /\ BeginSteps[5] = "WritePending" /\ BeginSteps[6] = "Quarantined"
  BY DEF BeginSteps
<1>2. 1 .. 6 = {1, 2, 3, 4, 5, 6}
  OBVIOUS
<1>3. Ordered(BeginSteps)
  BY <1>1, <1>2 DEF Ordered, FirstPlace, LastPlace
<1>4. QED
  BY <1>1, <1>2, <1>3 DEF Steps, OfBeginning

LEMMA FinishingPrograms ==
  /\ Ordered(FinishSteps) /\ Steps(FinishSteps) = {"DropMarker", "DropPending", "Finished", "Prune"}
  /\ FinishSteps # <<>> /\ FinishSteps[Len(FinishSteps)] = "Prune"
  /\ FinalizeSteps # <<>> /\ FinalizeSteps[Len(FinalizeSteps)] = "Prune"
  /\ Ordered(FinalizeSteps) /\ Steps(FinalizeSteps) = {"DropMarker", "DropPending", "Prune"}
  /\ Ordered(PurgeSteps) /\ Steps(PurgeSteps) = {"DropMarker", "DropPending", "PurgeAll"}
<1>1. /\ Len(FinishSteps) = 4 /\ FinishSteps[1] = "DropMarker" /\ FinishSteps[2] = "DropPending"
      /\ FinishSteps[3] = "Finished" /\ FinishSteps[4] = "Prune"
  BY DEF FinishSteps
<1>2. /\ Len(FinalizeSteps) = 3 /\ FinalizeSteps[1] = "DropMarker"
      /\ FinalizeSteps[2] = "DropPending" /\ FinalizeSteps[3] = "Prune"
  BY DEF FinalizeSteps
<1>3. /\ Len(PurgeSteps) = 3 /\ PurgeSteps[1] = "DropMarker"
      /\ PurgeSteps[2] = "DropPending" /\ PurgeSteps[3] = "PurgeAll"
  BY DEF PurgeSteps
<1>4. 1 .. 4 = {1, 2, 3, 4} /\ 1 .. 3 = {1, 2, 3}
  OBVIOUS
<1>5. Ordered(FinishSteps) /\ Ordered(FinalizeSteps) /\ Ordered(PurgeSteps)
  BY <1>1, <1>2, <1>3, <1>4 DEF Ordered, FirstPlace, LastPlace
<1>6. FinishSteps # <<>> /\ FinalizeSteps # <<>>
  BY DEF FinishSteps, FinalizeSteps
<1>7. QED
  BY <1>1, <1>2, <1>3, <1>4, <1>5, <1>6 DEF Steps

(* A rollback, when the database was moved or did not exist, and otherwise. *)
LongRollback(s) == ~s.hadDatabase \/ MainIn(s) # None
LEMMA RollbackProgram ==
  ASSUME NEW s
  PROVE  /\ Ordered(RollbackSteps(s)) /\ RollbackSteps(s) \in Seq(Names)
         /\ ~LongRollback(s) =>
              Steps(RollbackSteps(s)) = {"DropMarker", "DropPending", "DropQuarantine"}
         /\ LongRollback(s) /\ s.hadKey =>
              Steps(RollbackSteps(s)) = RollbackNames \ {"DropKey"}
         /\ LongRollback(s) /\ ~s.hadKey => Steps(RollbackSteps(s)) = RollbackNames
<1>1. /\ RollbackSteps(s) \in Seq(Names)
      /\ RollbackNames = {"DropWal", "DropMain", "MainBack", "WalBack", "DropQuarantine",
                          "DropKey", "DropMarker", "DropPending"}
  <2>1. RollbackNames \subseteq Names
    BY DEF Names
  <2>2. QED
    BY <2>1, RollbackType DEF RollbackNames
<1>2. CASE ~LongRollback(s)
  <2>1. RollbackSteps(s) = <<"DropMarker", "DropPending", "DropQuarantine">>
    BY <1>2 DEF LongRollback, MainIn, RollbackSteps
  <2>2. /\ Len(RollbackSteps(s)) = 3 /\ RollbackSteps(s)[1] = "DropMarker"
        /\ RollbackSteps(s)[2] = "DropPending" /\ RollbackSteps(s)[3] = "DropQuarantine"
    BY <2>1
  <2>3. 1 .. 3 = {1, 2, 3}
    OBVIOUS
  <2>4. Ordered(RollbackSteps(s))
    BY <2>2, <2>3 DEF Ordered, FirstPlace, LastPlace
  <2>5. Steps(RollbackSteps(s)) = {"DropMarker", "DropPending", "DropQuarantine"}
    BY <2>2, <2>3 DEF Steps
  <2>6. QED
    BY <1>1, <1>2, <2>4, <2>5
<1>3. CASE LongRollback(s)
  <2> DEFINE a == <<"DropWal", "DropMain", "MainBack", "WalBack", "DropQuarantine">>
             k == IF s.hadKey THEN <<>> ELSE <<"DropKey">>
             c == <<"DropMarker", "DropPending">>
  <2>1. RollbackSteps(s) = (a \o k) \o c
    BY <1>3 DEF LongRollback, MainIn, RollbackSteps
  <2>2. a \in Seq(Names) /\ k \in Seq(Names) /\ c \in Seq(Names)
    <3>1. a \in Seq(Names)
      BY DEF Names, RollbackNames
    <3>2. <<"DropKey">> \in Seq(Names) /\ <<>> \in Seq(Names)
      BY DEF Names, RollbackNames
    <3>3. c \in Seq(Names)
      BY DEF Names, RollbackNames
    <3>4. QED
      BY <3>1, <3>2, <3>3
  <2>3. /\ Ordered(a)
        /\ Steps(a) = {"DropWal", "DropMain", "MainBack", "WalBack", "DropQuarantine"}
    <3>1. 1 .. 5 = {1, 2, 3, 4, 5}
      OBVIOUS
    <3>2. /\ Len(a) = 5 /\ a[1] = "DropWal" /\ a[2] = "DropMain" /\ a[3] = "MainBack"
          /\ a[4] = "WalBack" /\ a[5] = "DropQuarantine"
      OBVIOUS
    <3> HIDE DEF a
    <3>3. Ordered(a)
      BY <3>1, <3>2 DEF Ordered, FirstPlace, LastPlace
    <3>4. QED
      BY <3>1, <3>2, <3>3 DEF Steps
  <2>4. /\ Ordered(k)
        /\ Steps(k) = IF s.hadKey THEN {} ELSE {"DropKey"}
    <3>1. IF s.hadKey THEN Len(k) = 0 ELSE Len(k) = 1 /\ k[1] = "DropKey"
      OBVIOUS
    <3>2. 1 .. 1 = {1} /\ 1 .. 0 = {}
      OBVIOUS
    <3> HIDE DEF k
    <3>3. QED
      BY <3>1, <3>2 DEF Ordered, Steps
  <2>5. Ordered(c) /\ Steps(c) = {"DropMarker", "DropPending"}
    <3>1. 1 .. 2 = {1, 2} /\ Len(c) = 2 /\ c[1] = "DropMarker" /\ c[2] = "DropPending"
      OBVIOUS
    <3> HIDE DEF c
    <3>2. Ordered(c)
      BY <3>1 DEF Ordered, FirstPlace, LastPlace
    <3>3. QED
      BY <3>1, <3>2 DEF Steps
  <2> HIDE DEF a, k, c
  <2>6. Ordered(a \o k) /\ Steps(a \o k) = Steps(a) \cup Steps(k) /\ a \o k \in Seq(Names)
    <3>1. \A first \in Steps(a), later \in Steps(k) : FirstPlace(first) < LastPlace(later)
      BY <2>3, <2>4 DEF FirstPlace, LastPlace
    <3>2. QED
      BY <2>2, <2>3, <2>4, <3>1, TwoPrograms, ConcatProperties
  <2>7. Ordered((a \o k) \o c) /\ Steps((a \o k) \o c) = Steps(a \o k) \cup Steps(c)
    <3>1. \A first \in Steps(a \o k), later \in Steps(c) : FirstPlace(first) < LastPlace(later)
      BY <2>3, <2>4, <2>5, <2>6 DEF FirstPlace, LastPlace
    <3>2. QED
      BY <2>2, <2>5, <2>6, <3>1, TwoPrograms
  <2>8. /\ ~s.hadKey => Steps(RollbackSteps(s)) = RollbackNames
        /\ s.hadKey => Steps(RollbackSteps(s)) = RollbackNames \ {"DropKey"}
    BY <1>1, <2>1, <2>3, <2>4, <2>5, <2>6, <2>7
  <2>9. QED
    BY <1>1, <1>3, <2>1, <2>7, <2>8
<1>4. QED
  BY <1>2, <1>3


-----------------------------------------------------------------------------
(* A step after which the operation goes on.                               *)

LEMMA RestsSafely ==
  ASSUME Typed, Safe, NEW step, Does(step), GoOn
  PROVE  /\ mode \notin {"idle", "down"}
         /\ mode' # "idle" => mode' = mode /\ todo' # <<>>
         /\ mode' = "idle" => todo' = <<>> /\ Left' = {}
         /\ mode' = "idle" /\ mode = "opening" => step \in {"OpenDb", "Prune"}
         /\ mode' = "idle" /\ mode = "beginning" => step = "Quarantined"
         /\ mode' = "idle" /\ mode = "recovering" => step \in {"Validated", "Prune"}
<1>1. todo # <<>> /\ todo' = Tail(todo) /\ mode' = IF Tail(todo) = <<>> THEN "idle" ELSE mode
  BY DEF GoOn, Does
<1>2. mode \notin {"idle", "down"}
  BY <1>1 DEF Safe, StepsSafe, Resting
<1>3. todo' = <<>> => Left' = {} /\ Left = {step} /\ todo[Len(todo)] = step
  BY <1>1, StepGoesOn DEF Safe, StepsSafe
<1>4. mode' = "idle" /\ mode = "opening" => step \in {"OpenDb", "Prune"}
  BY <1>1, <1>3 DEF Safe, StepsSafe, Opening
<1>5. mode' = "idle" /\ mode = "beginning" => step = "Quarantined"
  BY <1>1, <1>3 DEF Safe, StepsSafe, Beginning
<1>6. mode' = "idle" /\ mode = "recovering" => step \in {"Validated", "Prune"}
  BY <1>1, <1>3 DEF Safe, StepsSafe, Recovering
<1>7. QED
  BY <1>1, <1>2, <1>3, <1>4, <1>5, <1>6

(* A rest is safe when the database is open or the marker was kept.        *)
LEMMA RestingStays ==
  ASSUME Typed, Safe, NEW step, Does(step), GoOn,
         step \notin {"OpenDb", "Quarantined", "Validated"},
         UNCHANGED <<marker, isOpen, key>>
  PROVE  Resting'
<1>1. mode' \in Modes /\ mode' # "down"
  BY RestsSafely DEF GoOn, Typed, TodoTyped, Modes
<1>2. ASSUME mode' = "idle"
      PROVE  marker = None /\ (isOpen \/ ~key)
  <2>1. CASE mode \in {"opening", "recovering"}
    <3>1. step = "Prune"
      BY <1>2, <2>1, RestsSafely
    <3>2. "Prune" \in Left /\ \A later \in Left : later # "DropMarker"
      <4>1. Left = Left' \cup {step} /\ Left' = {}
        BY <1>2, StepGoesOn, RestsSafely DEF GoOn, Safe, StepsSafe
      <4>2. QED
        BY <3>1, <4>1
    <3>3. QED
      BY <3>2 DEF Safe, StepsSafe, Opening, OpenSafe, NeedsOpen
  <2>2. CASE mode = "undoing" \/ mode = "purging"
    BY <2>2 DEF Safe, StepsSafe, RollingBack, Opening
  <2>3. mode # "beginning"
    BY <1>2, RestsSafely
  <2>4. QED
    BY <2>1, <2>2, <2>3, RestsSafely DEF Typed, TodoTyped, Modes
<1>3. QED
  BY <1>1, <1>2, RestsSafely DEF Resting

(* What was taken out of quarantine is not there.                          *)
LEMMA TakenOut ==
  ASSUME \A d \in DOMAIN quarantine' : d \in DOMAIN quarantine /\ quarantine'[d] = quarantine[d],
         NEW s
  PROVE  MainIn(s)' \in {MainIn(s), None}
<1>1. InQuarantine(s.dir)' \in {InQuarantine(s.dir), NoFamily}
  BY DEF InQuarantine
<1>2. QED
  BY <1>1 DEF MainIn, NoFamily

(* The steps that only drop.                                               *)
LEMMA DropsSafely ==
  ASSUME Typed, Safe, NEW step, Does(step), GoOn,
         step \notin {"Resolve", "MainBack", "DropMarker", "OpenDb", "Preparing", "Quarantined",
                      "MoveMain", "Validated", "Restore"},
         UNCHANGED <<marker, session, isOpen, key, lastVersion>>,
         finalize' = finalize \/ "OpenDb" \notin Left,
         live' = live \/ (live' \in Family /\ ~isOpen /\ ~Valid /\ live.wal = None /\ live'.wal = None
                          /\ live'.main \in {live.main, None}),
         \A d \in DOMAIN quarantine' : d \in DOMAIN quarantine /\ quarantine'[d] = quarantine[d],
         quarantine' = quarantine \/ (mode # "beginning" /\ Left \cap PutsBack = {})
  PROVE  Safe'
<1>1. Left = Left' \cup {step} /\ InOrder'
  BY StepGoesOn DEF GoOn, Safe, StepsSafe
<1>2. FilesSafe'
  <2>1. LogsSafe'
    BY DEF Safe, FilesSafe, LogsSafe
  <2>2. Newest'
    BY DEF Safe, FilesSafe, Newest, UpTo, Ledger
  <2>3. (Undone' <=> Undone) /\ (Valid' <=> Valid)
    BY DEF Undone, Valid
  <2>4. MainIn(marker.session)' \in {MainIn(marker.session), None}
    BY TakenOut
  <2>5. MarkerSafe'
    BY <2>3, <2>4 DEF Safe, FilesSafe, MarkerSafe
  <2>6. QED
    BY <2>1, <2>2, <2>5 DEF FilesSafe
<1>3. (Undone' <=> Undone) /\ (Valid' <=> Valid)
  BY DEF Undone, Valid
<1>4. OpenSafe'
  BY <1>1, <1>3 DEF Safe, StepsSafe, OpenSafe
<1>5. Resting'
  BY RestingStays
<1>6. MainIn(session)' \in {MainIn(session), None} /\ (quarantine' = quarantine => MainIn(session)' = MainIn(session))
  BY TakenOut DEF MainIn, InQuarantine
<1>7. Beginning'
  <2>1. mode' = mode \/ (mode' = "idle" /\ Left' = {})
    BY RestsSafely
  <2>2. Left' \cap OfBeginning # {} => mode' = "beginning"
    BY <1>1, <2>1 DEF Safe, StepsSafe, Beginning
  <2>3. CASE mode' = "beginning"
    <3>1. mode = "beginning" /\ quarantine' = quarantine
      BY <2>1, <2>3
    <3>2. /\ "Quarantined" \in Left' /\ Left' \subseteq OfBeginning \cup {"WritePending"}
          /\ ("MoveMain" \in Left' <=> "MoveMain" \in Left)
          /\ ("Preparing" \in Left' <=> "Preparing" \in Left)
      BY <1>1, <3>1 DEF Safe, StepsSafe, Beginning
    <3>3. QED
      BY <1>3, <1>6, <2>2, <2>3, <3>1, <3>2 DEF Safe, StepsSafe, Beginning
  <2>4. QED
    BY <2>2, <2>3 DEF Beginning
<1>8. RollingBack'
  <2>1. mode' = mode \/ mode' = "idle"
    BY RestsSafely
  <2>2. /\ ("MainBack" \in Left' <=> "MainBack" \in Left) /\ Left' \subseteq Left
    BY <1>1
  <2>3. Left' \cap PutsBack # {} => quarantine' = quarantine
    BY <2>2
  <2>4. Left' \cap {"DropWal", "DropMain"} # {} => ~session'.hadDatabase \/ MainIn(session)' # None
    BY <1>6, <2>2, <2>3 DEF Safe, StepsSafe, RollingBack, PutsBack
  <2>5. Left' \cap PutsBack # {} => Undone' /\ marker'.session = session'
    BY <1>3, <2>2 DEF Safe, StepsSafe, RollingBack
  <2>6. "MainBack" \notin Left' /\ Left' \cap {"DropMarker", "DropQuarantine"} # {} /\ Undone'
          => marker'.session = session' /\ MainIn(session)' = None
    BY <1>3, <1>6, <2>2 DEF Safe, StepsSafe, RollingBack
  <2>7. QED
    BY <2>1, <2>2, <2>4, <2>5, <2>6 DEF Safe, StepsSafe, RollingBack
<1>9. Opening'
  <2>1. (mode' = mode /\ todo' # <<>>) \/ (mode' = "idle" /\ Left' = {})
    BY RestsSafely
  <2>2. todo' # <<>> => todo'[Len(todo')] = todo[Len(todo)]
    BY StepGoesOn DEF GoOn, Safe, StepsSafe
  <2>3. /\ Left' \subseteq Left
        /\ \A n \in {"Resolve", "DropMarker", "OpenDb"} : n \in Left' <=> n \in Left
    BY <1>1
  <2>4. QED
    BY <1>3, <2>1, <2>2, <2>3 DEF Safe, StepsSafe, Opening
<1>10. Recovering'
  <2>1. (mode' = mode /\ todo' # <<>>) \/ (mode' = "idle" /\ Left' = {})
    BY RestsSafely
  <2>2. todo' # <<>> => todo'[Len(todo')] = todo[Len(todo)]
    BY StepGoesOn DEF GoOn, Safe, StepsSafe
  <2>3. /\ Left' \subseteq Left
        /\ \A n \in {"Resolve", "MainBack", "OpenDb"} : n \in Left' <=> n \in Left
    BY <1>1
  <2>4. QED
    BY <1>3, <1>6, <2>1, <2>2, <2>3 DEF Safe, StepsSafe, Recovering
<1>11. QED
  BY <1>1, <1>2, <1>4, <1>5, <1>7, <1>8, <1>9, <1>10 DEF Safe, StepsSafe


(* What the abstract ledger sees of a step.                                *)
Shown == IF isOpen THEN Ledger(live) ELSE None
Stutters == Recoverable' = Recoverable /\ Shown' = Shown
Maps == Stutters \/ Durable!Open \/ Durable!Commit \/ Durable!Close

LEMMA WhatIsRecoverable ==
  /\ LogsSafe => Recoverable = IF Undone /\ LongRollback(marker.session)
                               THEN MainIn(marker.session) ELSE Ledger(live)
  /\ LogsSafe' => Recoverable' = IF Undone' /\ LongRollback(marker.session)'
                                 THEN MainIn(marker.session)' ELSE Ledger(live')
<1>1. ASSUME LogsSafe
      PROVE  Recoverable = IF Undone /\ LongRollback(marker.session)
                           THEN MainIn(marker.session) ELSE Ledger(live)
  <2>1. InQuarantine(marker.session.dir).wal = None
    BY <1>1 DEF LogsSafe, InQuarantine, NoFamily
  <2>2. QED
    BY <2>1 DEF Recoverable, Undone, Valid, LongRollback, MainIn, Ledger
<1>2. ASSUME LogsSafe'
      PROVE  Recoverable' = IF Undone' /\ LongRollback(marker.session)'
                            THEN MainIn(marker.session)' ELSE Ledger(live')
  <2>1. InQuarantine(marker.session.dir)'.wal = None
    BY <1>2 DEF LogsSafe, InQuarantine, NoFamily
  <2>2. QED
    BY <2>1 DEF Recoverable, Undone, Valid, LongRollback, MainIn, Ledger
<1>3. QED
  BY <1>1, <1>2

(* A step that leaves what will be found.                                  *)
LEMMA Unmoved ==
  ASSUME LogsSafe, LogsSafe', UNCHANGED <<marker, isOpen>>, isOpen => live' = live,
         Undone => MainIn(marker.session)' = MainIn(marker.session),
         live' = live \/ (Undone /\ LongRollback(marker.session))
  PROVE  Stutters
<1>1. (Undone' <=> Undone) /\ (Undone => (LongRollback(marker.session)' <=> LongRollback(marker.session)))
  BY DEF Undone, Valid, LongRollback
<1>2. Recoverable' = Recoverable
  BY <1>1, WhatIsRecoverable
<1>3. QED
  BY <1>2 DEF Stutters, Shown

LEMMA QuietlySafe ==
  ASSUME Typed, Safe, NEW step, Does(step), GoOn,
         step \notin {"Resolve", "MainBack", "DropMarker", "OpenDb", "Preparing", "Quarantined",
                      "MoveMain", "Validated", "Restore"},
         UNCHANGED <<live, quarantine, marker, session, isOpen, key, lastVersion>>,
         finalize' = finalize \/ "OpenDb" \notin Left
  PROVE  Safe' /\ Maps
<1>1. Safe'
  BY DropsSafely
<1>2. MainIn(marker.session)' = MainIn(marker.session)
  BY DEF MainIn, InQuarantine
<1>3. QED
  BY <1>1, <1>2, Unmoved DEF Safe, FilesSafe, Maps

LEMMA DroppingStep ==
  ASSUME Typed, Safe,
         WritePending \/ DropPending \/ DropKey \/ MoveWal \/ WalBack \/ DropWal \/ DropMain
           \/ DropQuarantine \/ Finished \/ Prune \/ PurgeAll
  PROVE  Safe' /\ Maps
<1>1. ASSUME NEW step, Does(step)
      PROVE  step \in Left
  BY <1>1, StepGoesOn, DoesType DEF Safe, StepsSafe, Left, Steps
<1>2. CASE WritePending \/ DropPending
  <2>1. PICK step \in {"WritePending", "DropPending"} :
          /\ Does(step) /\ GoOn /\ finalize' = finalize
          /\ UNCHANGED <<live, quarantine, marker, session, isOpen, key, lastVersion>>
    BY <1>2 DEF WritePending, DropPending, files, StepRest, counters
  <2>2. QED
    BY <2>1, QuietlySafe
<1>3. CASE DropKey
  <2>1. /\ Does("DropKey") /\ GoOn /\ finalize' = finalize
        /\ UNCHANGED <<live, quarantine, marker, session, isOpen, lastVersion>>
    BY <1>3 DEF DropKey, markers, StepRest, counters
  <2>2. key' = key
    BY <1>1, <1>3, <2>1 DEF DropKey, Safe, StepsSafe, RollingBack, Typed, FilesTyped
  <2>3. QED
    BY <2>1, <2>2, QuietlySafe
<1>4. CASE Finished
  <2>1. /\ Does("Finished") /\ GoOn
        /\ UNCHANGED <<live, quarantine, marker, session, isOpen, key, lastVersion>>
    BY <1>4 DEF Finished, files, markers, counters
  <2>2. "OpenDb" \notin Left
    BY <1>1, <2>1 DEF Safe, StepsSafe, OpenSafe, NeedsOpen, NeedsClosed
  <2>3. QED
    BY <2>1, <2>2, QuietlySafe
<1>5. CASE MoveWal
  <2>1. /\ Does("MoveWal") /\ GoOn /\ finalize' = finalize
        /\ UNCHANGED <<marker, session, isOpen, key, lastVersion>>
    BY <1>5 DEF MoveWal, markers, StepRest, counters
  <2>2. mode = "beginning"
    BY <1>1, <2>1 DEF Safe, StepsSafe, Beginning, OfBeginning
  <2>3. live.wal = None /\ session.dir \in DOMAIN quarantine /\ quarantine[session.dir].wal = None
    BY <2>2 DEF Safe, StepsSafe, Beginning, FilesSafe, LogsSafe
  <2>4. live' = live
    BY <1>5, <2>3 DEF MoveWal, Typed, FilesTyped, Family
  <2>5. quarantine' = quarantine
    <3>1. quarantine[session.dir] \in Family /\ quarantine \in [DOMAIN quarantine -> Family]
      BY <2>3 DEF Typed, FilesTyped
    <3>2. [quarantine[session.dir] EXCEPT !.wal = None] = quarantine[session.dir]
      BY <2>3, <3>1 DEF Family
    <3>3. quarantine' = [quarantine EXCEPT ![session.dir].wal = None]
      BY <1>5, <2>3 DEF MoveWal
    <3>4. QED
      BY <3>1, <3>2, <3>3
  <2>6. QED
    BY <2>1, <2>4, <2>5, QuietlySafe
<1>6. CASE WalBack
  <2>1. /\ Does("WalBack") /\ GoOn /\ finalize' = finalize
        /\ UNCHANGED <<marker, session, isOpen, key, lastVersion>>
    BY <1>6 DEF WalBack, markers, StepRest, counters
  <2>2. InQuarantine(session.dir).wal = None
    BY DEF Safe, FilesSafe, LogsSafe, InQuarantine, NoFamily
  <2>3. live' = live /\ quarantine' = quarantine
    BY <1>6, <2>2 DEF WalBack
  <2>4. QED
    BY <2>1, <2>3, QuietlySafe
<1>7. CASE DropWal \/ DropMain
  <2>1. PICK step \in {"DropWal", "DropMain"} :
          /\ Does(step) /\ GoOn /\ finalize' = finalize /\ quarantine' = quarantine
          /\ UNCHANGED <<marker, session, isOpen, key, lastVersion>>
    BY <1>7 DEF DropWal, DropMain, markers, StepRest, counters
  <2>2. step \in Left /\ step \in PutsBack
    BY <1>1, <2>1 DEF PutsBack
  <2>3. Undone /\ marker.session = session /\ live.wal = None /\ ~isOpen /\ ~Valid
    BY <2>2 DEF Safe, StepsSafe, FilesSafe, RollingBack, MarkerSafe, OpenSafe, NeedsClosed, Undone
  <2>4. LongRollback(marker.session)
    BY <2>1, <2>2, <2>3 DEF Safe, StepsSafe, RollingBack, LongRollback
  <2>5. live' \in Family /\ live'.wal = None /\ live'.main \in {live.main, None}
    BY <1>7, <2>3 DEF DropWal, DropMain, Typed, FilesTyped, Family
  <2>6. Safe'
    BY <2>1, <2>3, <2>5, DropsSafely
  <2>7. MainIn(marker.session)' = MainIn(marker.session)
    BY <2>1 DEF MainIn, InQuarantine
  <2>8. QED
    BY <2>1, <2>3, <2>4, <2>6, <2>7, Unmoved DEF Safe, FilesSafe, Maps
<1>8. CASE DropQuarantine \/ Prune \/ PurgeAll
  <2>1. PICK step \in {"DropQuarantine", "Prune", "PurgeAll"} :
          /\ Does(step) /\ GoOn /\ finalize' = finalize /\ live' = live
          /\ UNCHANGED <<marker, session, isOpen, key, lastVersion>>
    BY <1>8 DEF DropQuarantine, Prune, PurgeAll, markers, StepRest, counters
  <2>2. \A d \in DOMAIN quarantine' : d \in DOMAIN quarantine /\ quarantine'[d] = quarantine[d]
    BY <1>8 DEF DropQuarantine, Prune, PurgeAll, WithoutDir
  <2>3. step \in Left /\ mode # "beginning"
    BY <1>1, <2>1 DEF Safe, StepsSafe, Beginning, OfBeginning
  <2>4. Left \cap PutsBack = {}
    <3>1. /\ Left = Left' \cup {step}
          /\ \A later \in Left' : FirstPlace(step) < LastPlace(later)
      BY <2>1, StepGoesOn DEF Safe, StepsSafe, GoOn
    <3>2. \A later \in Left' : later \notin PutsBack
      BY <2>1, <3>1, NotLater
    <3>3. QED
      BY <2>1, <3>1, <3>2 DEF PutsBack
  <2>5. Undone => marker.session = session /\ MainIn(session) = None
    <3>1. "MainBack" \notin Left
      BY <2>4 DEF PutsBack
    <3>2. step # "DropQuarantine" => ~Undone
      BY <2>1, <2>3 DEF Safe, StepsSafe, OpenSafe, NeedsOpen
    <3>3. QED
      BY <2>3, <3>1, <3>2 DEF Safe, StepsSafe, RollingBack
  <2>6. Safe'
    BY <2>1, <2>2, <2>3, <2>4, DropsSafely
  <2>7. Undone => MainIn(marker.session)' = MainIn(marker.session)
    BY <2>1, <2>2, <2>5, TakenOut
  <2>8. QED
    BY <2>1, <2>6, <2>7, Unmoved DEF Safe, FilesSafe, Maps
<1>9. QED
  BY <1>2, <1>3, <1>4, <1>5, <1>6, <1>7, <1>8


-----------------------------------------------------------------------------
(* The beginning of a recovery moves the files away.                       *)

LEMMA BeginsSafely ==
  ASSUME mode' = "beginning", ~isOpen', InOrder', Beginning'
  PROVE  StepsSafe'
BY DEF StepsSafe, OpenSafe, Resting, RollingBack, Opening, Recovering, Beginning, OfBeginning,
       PutsBack, NeedsOpen

LEMMA Recorded ==
  ASSUME NEW state \in {"preparing", "quarantined"}, Publish(state), session \in Session
  PROVE  /\ Undone' /\ ~Valid' /\ marker' # None /\ marker'.session = session /\ session' = session
         /\ UNCHANGED <<live, quarantine, key, isOpen, finalize, lastVersion>>
<1>1. marker' = [state |-> state, session |-> session]
  BY DEF Publish
<1>2. marker' \in [state : States, session : Session]
  BY <1>1 DEF States
<1>3. marker' # None /\ marker'.state = state /\ marker'.session = session
  BY <1>1, <1>2, MarkerAssumption
<1>4. Undone' /\ ~Valid'
  BY <1>3 DEF Undone, Valid
<1>5. QED
  BY <1>3, <1>4 DEF Publish, files, StepRest, counters

LEMMA PreparingStep ==
  ASSUME Typed, Safe, Preparing
  PROVE  Safe' /\ Maps
<1>1. Does("Preparing") /\ Publish("preparing") /\ GoOn
  BY DEF Preparing
<1>2. /\ "Preparing" \in Left /\ Left = Left' \cup {"Preparing"} /\ InOrder'
      /\ "Preparing" \notin Left'
  BY <1>1, StepGoesOn, NotLater DEF Safe, StepsSafe, GoOn
<1>3. mode = "beginning" /\ session \in Session
  BY <1>2 DEF Safe, StepsSafe, Beginning, OfBeginning, Typed, TodoTyped
<1>4. mode' = "beginning"
  BY <1>1, <1>3, RestsSafely
<1>5. /\ ~isOpen /\ live.wal = None /\ (key => session.hadKey) /\ session.dir \in DOMAIN quarantine
      /\ ~session.hadDatabase => live.main = None
      /\ MainIn(session) = None /\ marker = None
      /\ "Quarantined" \in Left /\ Left \subseteq OfBeginning \cup {"WritePending"}
  BY <1>2, <1>3 DEF Safe, StepsSafe, Beginning
<1>6. /\ Undone' /\ ~Valid' /\ marker' # None /\ marker'.session = session /\ session' = session
      /\ UNCHANGED <<live, quarantine, key, isOpen, finalize, lastVersion>>
  BY <1>1, <1>3, Recorded
<1>7. MainIn(session)' = None /\ MainIn(marker.session)' = None
  BY <1>5, <1>6 DEF MainIn, InQuarantine
<1>8. FilesSafe'
  <2>1. LogsSafe' /\ Newest'
    BY <1>6 DEF Safe, FilesSafe, LogsSafe, Newest, UpTo
  <2>2. MarkerSafe'
    BY <1>5, <1>6, <1>7 DEF MarkerSafe
  <2>3. QED
    BY <2>1, <2>2 DEF FilesSafe
<1>9. StepsSafe'
  <2>1. Beginning'
    BY <1>2, <1>4, <1>5, <1>6, <1>7 DEF Beginning
  <2>2. QED
    BY <1>2, <1>4, <1>5, <1>6, <2>1, BeginsSafely
<1>10. Stutters
  <2>1. Recoverable = Ledger(live)
    BY <1>5, WhatIsRecoverable DEF Safe, FilesSafe, Undone
  <2>2. Recoverable' = Ledger(live)
    <3>1. LongRollback(marker.session)' => ~session.hadDatabase
      BY <1>6, <1>7 DEF LongRollback
    <3>2. LongRollback(marker.session)' => Ledger(live) = None
      BY <1>5, <3>1 DEF Ledger
    <3>3. QED
      BY <1>6, <1>7, <1>8, <3>2, WhatIsRecoverable DEF FilesSafe
  <2>3. QED
    BY <1>6, <2>1, <2>2 DEF Stutters, Shown
<1>11. QED
  BY <1>8, <1>9, <1>10 DEF Safe, Maps

LEMMA MoveMainStep ==
  ASSUME Typed, Safe, MoveMain
  PROVE  Safe' /\ Maps
<1>1. /\ Does("MoveMain") /\ GoOn
      /\ UNCHANGED <<marker, session, isOpen, key, finalize, lastVersion>>
  BY DEF MoveMain, markers, StepRest, counters
<1>2. /\ "MoveMain" \in Left /\ Left = Left' \cup {"MoveMain"} /\ InOrder'
      /\ "MoveMain" \notin Left' /\ "Preparing" \notin Left'
  BY <1>1, StepGoesOn, NotLater DEF Safe, StepsSafe, GoOn
<1>3. mode = "beginning" /\ session \in Session
  BY <1>2 DEF Safe, StepsSafe, Beginning, OfBeginning, Typed, TodoTyped
<1>4. mode' = "beginning"
  BY <1>1, <1>3, RestsSafely
<1>5. /\ ~isOpen /\ live.wal = None /\ (key => session.hadKey) /\ session.dir \in DOMAIN quarantine
      /\ ~session.hadDatabase => live.main = None
      /\ MainIn(session) = None /\ Undone /\ marker.session = session /\ marker # None
      /\ "Quarantined" \in Left /\ Left \subseteq OfBeginning \cup {"WritePending"}
  BY <1>2, <1>3 DEF Safe, StepsSafe, Beginning
<1>6. Undone' /\ ~Valid' /\ marker'.session = session'
  BY <1>1, <1>5 DEF Undone, Valid
<1>7. live'.main = None /\ live'.wal = None
  BY <1>5 DEF MoveMain, Typed, FilesTyped, Family
<1>8. /\ DOMAIN quarantine' = DOMAIN quarantine
      /\ quarantine'[session.dir].main = live.main /\ quarantine'[session.dir].wal = None
      /\ \A d \in DOMAIN quarantine : d # session.dir => quarantine'[d] = quarantine[d]
  <2>1. /\ quarantine \in [DOMAIN quarantine -> Family]
        /\ quarantine[session.dir] \in Family /\ quarantine[session.dir].wal = None
    BY <1>5 DEF Typed, FilesTyped, Safe, FilesSafe, LogsSafe
  <2>2. quarantine' = [quarantine EXCEPT ![session.dir].main = live.main]
    BY DEF MoveMain
  <2>3. quarantine'[session.dir] = [quarantine[session.dir] EXCEPT !.main = live.main]
    BY <1>5, <2>2
  <2>4. QED
    BY <2>1, <2>2, <2>3 DEF Family
<1>9. MainIn(session)' = live.main /\ MainIn(marker.session)' = live.main
  BY <1>1, <1>5, <1>8 DEF MainIn, InQuarantine
<1>10. FilesSafe'
  <2>1. LogsSafe'
    BY <1>7, <1>8 DEF Safe, FilesSafe, LogsSafe
  <2>2. Newest'
    BY <1>1, <1>5, <1>7, <1>8 DEF Safe, FilesSafe, LogsSafe, Newest, UpTo, Ledger
  <2>3. MarkerSafe'
    BY <1>1, <1>5, <1>6, <1>7, <1>9 DEF MarkerSafe
  <2>4. QED
    BY <2>1, <2>2, <2>3 DEF FilesSafe
<1>11. StepsSafe'
  <2>1. Beginning'
    BY <1>1, <1>2, <1>4, <1>5, <1>6, <1>7, <1>8, <1>9 DEF Beginning
  <2>2. QED
    BY <1>1, <1>2, <1>4, <1>5, <2>1, BeginsSafely
<1>12. Stutters
  <2>1. Ledger(live) = live.main /\ Ledger(live') = None
    BY <1>5, <1>7 DEF Ledger
  <2>2. Recoverable = live.main
    BY <1>5, <2>1, WhatIsRecoverable DEF Safe, FilesSafe, LongRollback
  <2>3. LongRollback(marker.session)' \/ live.main = None
    BY <1>1, <1>5, <1>9 DEF LongRollback
  <2>4. Recoverable' = live.main
    BY <1>6, <1>9, <1>10, <2>1, <2>3, WhatIsRecoverable DEF FilesSafe
  <2>5. QED
    BY <1>1, <1>5, <2>2, <2>4 DEF Stutters, Shown
<1>13. QED
  BY <1>10, <1>11, <1>12 DEF Safe, Maps

LEMMA QuarantinedStep ==
  ASSUME Typed, Safe, Quarantined
  PROVE  Safe' /\ Maps
<1>1. /\ Does("Quarantined") /\ Publish("quarantined") /\ mode' = "recovering"
      /\ todo' = OpenSteps \o RestoreSteps
  BY DEF Quarantined
<1>2. /\ "Quarantined" \in Left /\ "Preparing" \notin Left
  <2>1. SUFFICES ASSUME "Preparing" \in Left
                 PROVE  FALSE
    BY <1>1, DoesType DEF Left, Steps
  <2>2. PICK i \in 1 .. Len(todo) : todo[i] = "Preparing"
    BY <2>1 DEF Left, Steps
  <2>3. 1 < i /\ 1 \in 1 .. Len(todo) /\ todo[1] = "Quarantined"
    BY <1>1, <2>2, DoesType
  <2>4. FirstPlace("Quarantined") < LastPlace("Preparing")
    BY <2>2, <2>3 DEF Safe, StepsSafe, InOrder, Ordered
  <2>5. QED
    BY <2>4, NotLater
<1>3. mode = "beginning" /\ session \in Session
  BY <1>2 DEF Safe, StepsSafe, Beginning, OfBeginning, Typed, TodoTyped
<1>4. /\ ~isOpen /\ live.wal = None /\ (key => session.hadKey)
      /\ ~session.hadDatabase => live.main = None /\ MainIn(session) = None
      /\ Undone /\ marker.session = session
  BY <1>2, <1>3 DEF Safe, StepsSafe, Beginning
<1>5. /\ Undone' /\ ~Valid' /\ marker' # None /\ marker'.session = session /\ session' = session
      /\ UNCHANGED <<live, quarantine, key, isOpen, finalize, lastVersion>>
  BY <1>1, <1>3, Recorded
<1>6. MainIn(session)' = MainIn(session) /\ MainIn(marker.session)' = MainIn(session)
  BY <1>5 DEF MainIn, InQuarantine
<1>7. FilesSafe'
  <2>1. LogsSafe' /\ Newest'
    BY <1>5 DEF Safe, FilesSafe, LogsSafe, Newest, UpTo
  <2>2. MarkerSafe'
    BY <1>4, <1>5, <1>6 DEF MarkerSafe
  <2>3. QED
    BY <2>1, <2>2 DEF FilesSafe
<1>8. /\ Left' = {"Resolve", "OpenDb", "Restore", "WritePending", "Validated"} /\ InOrder'
      /\ todo' # <<>> /\ todo'[Len(todo')] = "Validated"
  BY <1>1, RecoveringProgram DEF Left, InOrder
<1>9. StepsSafe'
  <2>1. OpenSafe' /\ Resting' /\ Beginning'
    BY <1>1, <1>4, <1>5, <1>8 DEF OpenSafe, Resting, Beginning, NeedsOpen, OfBeginning
  <2>2. RollingBack' /\ Opening' /\ Recovering'
    BY <1>1, <1>4, <1>5, <1>8 DEF RollingBack, Opening, Recovering, PutsBack
  <2>3. QED
    BY <1>8, <2>1, <2>2 DEF StepsSafe
<1>10. Stutters
  <2>1. LongRollback(marker.session)' <=> LongRollback(marker.session)
    BY <1>4, <1>5, <1>6 DEF LongRollback
  <2>2. Recoverable' = Recoverable
    BY <1>4, <1>5, <1>6, <1>7, <2>1, WhatIsRecoverable DEF Safe, FilesSafe
  <2>3. QED
    BY <1>5, <2>2 DEF Stutters, Shown
<1>11. QED
  BY <1>7, <1>9, <1>10 DEF Safe, Maps


-----------------------------------------------------------------------------
(* The rollback puts the main file back, and then the marker goes.         *)

LEMMA MainBackStep ==
  ASSUME Typed, Safe, MainBack
  PROVE  Safe' /\ Maps
<1>1. /\ Does("MainBack") /\ GoOn
      /\ UNCHANGED <<marker, session, isOpen, key, finalize, lastVersion>>
  BY DEF MainBack, markers, StepRest, counters
<1>2. /\ "MainBack" \in Left /\ Left = Left' \cup {"MainBack"} /\ InOrder'
      /\ Left' \cap {"DropWal", "DropMain", "MainBack"} = {}
  BY <1>1, StepGoesOn, NotLater DEF Safe, StepsSafe, GoOn
<1>3. Undone /\ marker.session = session /\ live.wal = None /\ ~isOpen /\ ~Valid
  BY <1>2 DEF Safe, StepsSafe, FilesSafe, RollingBack, MarkerSafe, OpenSafe, NeedsClosed,
              PutsBack, Undone
<1>4. /\ ~session.hadDatabase => live.main = None /\ MainIn(session) = None
      /\ ~session.hadKey => ~key
  BY <1>3 DEF Safe, FilesSafe, MarkerSafe
<1>5. Undone' /\ ~Valid' /\ marker'.session = session'
  BY <1>1, <1>3 DEF Undone, Valid
<1>6. /\ \A d \in DOMAIN quarantine' :
           /\ d \in DOMAIN quarantine
           /\ quarantine'[d].wal = None /\ quarantine'[d].main \in {quarantine[d].main, None}
      /\ MainIn(session)' = None /\ MainIn(marker.session)' = None
      /\ live'.wal = None
      /\ live'.main = IF MainIn(session) = None THEN live.main ELSE MainIn(session)
  <2>1. CASE MainIn(session) = None
    <3>1. live' = live /\ quarantine' = quarantine
      BY <2>1 DEF MainBack, MainIn
    <3>2. MainIn(session)' = None /\ MainIn(marker.session)' = None
      BY <1>1, <1>3, <2>1, <3>1 DEF MainIn, InQuarantine
    <3>3. QED
      BY <1>3, <2>1, <3>1, <3>2 DEF Safe, FilesSafe, LogsSafe
  <2>2. CASE MainIn(session) # None
    <3>1. /\ live' = [live EXCEPT !.main = quarantine[session.dir].main]
          /\ quarantine' = [quarantine EXCEPT ![session.dir].main = None]
      BY <2>2 DEF MainBack, MainIn
    <3>2. session.dir \in DOMAIN quarantine /\ MainIn(session) = quarantine[session.dir].main
      BY <2>2 DEF MainIn, InQuarantine, NoFamily
    <3>3. quarantine[session.dir] \in Family /\ quarantine \in [DOMAIN quarantine -> Family]
      BY <3>2 DEF Typed, FilesTyped
    <3>4. /\ DOMAIN quarantine' = DOMAIN quarantine
          /\ quarantine'[session.dir] = [quarantine[session.dir] EXCEPT !.main = None]
          /\ \A d \in DOMAIN quarantine : d # session.dir => quarantine'[d] = quarantine[d]
      BY <3>1, <3>2
    <3>5. quarantine'[session.dir].main = None /\ quarantine'[session.dir].wal = None
      BY <3>2, <3>3, <3>4 DEF Family, Safe, FilesSafe, LogsSafe
    <3>6. MainIn(session)' = None /\ MainIn(marker.session)' = None
      BY <1>1, <1>3, <3>2, <3>4, <3>5 DEF MainIn, InQuarantine
    <3>7. live'.wal = None /\ live'.main = MainIn(session)
      BY <1>3, <3>1, <3>2 DEF Typed, FilesTyped, Family
    <3>8. \A d \in DOMAIN quarantine : quarantine[d].wal = None
      BY DEF Safe, FilesSafe, LogsSafe
    <3>9. QED
      BY <2>2, <3>4, <3>5, <3>6, <3>7, <3>8
  <2>3. QED
    BY <2>1, <2>2
<1>7. FilesSafe'
  <2>1. LogsSafe'
    BY <1>6 DEF LogsSafe
  <2>2. Newest'
    <3>1. MainIn(session) # None => MainIn(session) <= lastVersion
      BY DEF Safe, FilesSafe, LogsSafe, Newest, UpTo, MainIn, InQuarantine, NoFamily, Ledger
    <3>2. QED
      BY <1>1, <1>3, <1>6, <3>1 DEF Safe, FilesSafe, LogsSafe, Newest, UpTo, Ledger
  <2>3. MarkerSafe'
    BY <1>1, <1>3, <1>4, <1>5, <1>6 DEF MarkerSafe
  <2>4. QED
    BY <2>1, <2>2, <2>3 DEF FilesSafe
<1>8. (mode' = mode /\ todo' # <<>>) \/ (mode' = "idle" /\ Left' = {})
  BY <1>1, RestsSafely
<1>9. todo' # <<>> => todo'[Len(todo')] = todo[Len(todo)]
  BY <1>1, StepGoesOn DEF GoOn, Safe, StepsSafe
<1>10. /\ Left' \subseteq Left
       /\ \A n \in {"Resolve", "DropMarker", "OpenDb"} : n \in Left' <=> n \in Left
  BY <1>2
<1>11. StepsSafe'
  <2>1. OpenSafe'
    BY <1>1, <1>3, <1>10 DEF Safe, StepsSafe, OpenSafe
  <2>2. Resting'
    BY <1>1, RestingStays
  <2>3. Beginning'
    BY <1>2, <1>8, <1>10 DEF Safe, StepsSafe, Beginning, OfBeginning
  <2>4. RollingBack'
    BY <1>1, <1>2, <1>5, <1>6, <1>8, <1>10 DEF Safe, StepsSafe, RollingBack, PutsBack
  <2>5. Opening'
    BY <1>1, <1>2, <1>3, <1>5, <1>8, <1>9, <1>10 DEF Safe, StepsSafe, Opening
  <2>6. Recovering'
    <3>1. ~session.hadDatabase => live'.main = None
      BY <1>4, <1>6
    <3>2. QED
      BY <1>1, <1>5, <1>6, <1>8, <1>9, <1>10, <3>1 DEF Safe, StepsSafe, Recovering
  <2>7. QED
    BY <1>2, <2>1, <2>2, <2>3, <2>4, <2>5, <2>6 DEF StepsSafe
<1>12. Stutters
  <2>1. Ledger(live) = live.main /\ Ledger(live') = live'.main
    BY <1>3, <1>6 DEF Ledger
  <2>2. Recoverable = IF MainIn(session) = None THEN live.main ELSE MainIn(session)
    BY <1>3, <1>4, <2>1, WhatIsRecoverable DEF Safe, FilesSafe, LongRollback
  <2>3. LongRollback(marker.session)' => ~session.hadDatabase
    BY <1>1, <1>3, <1>6 DEF LongRollback
  <2>4. Recoverable' = live'.main
    BY <1>4, <1>5, <1>6, <1>7, <2>1, <2>3, WhatIsRecoverable DEF FilesSafe
  <2>5. QED
    BY <1>1, <1>3, <1>6, <2>2, <2>4 DEF Stutters, Shown
<1>13. QED
  BY <1>7, <1>11, <1>12 DEF Safe, Maps

LEMMA DropMarkerStep ==
  ASSUME Typed, Safe, DropMarker
  PROVE  Safe' /\ Maps
<1>1. /\ Does("DropMarker") /\ GoOn /\ marker' = None
      /\ UNCHANGED <<live, quarantine, session, isOpen, key, finalize, lastVersion>>
  BY DEF DropMarker, files, StepRest, counters
<1>2. /\ "DropMarker" \in Left /\ Left = Left' \cup {"DropMarker"} /\ InOrder'
      /\ Left' \cap (PutsBack \cup {"DropKey", "DropMarker", "Resolve"}) = {}
  BY <1>1, StepGoesOn, NotLater DEF Safe, StepsSafe, GoOn
<1>3. "MainBack" \notin Left /\ "Resolve" \notin Left
  BY <1>2 DEF PutsBack
<1>4. ~Undone' /\ ~Valid'
  BY <1>1 DEF Undone, Valid
<1>5. Undone => marker.session = session /\ MainIn(session) = None
  BY <1>2, <1>3 DEF Safe, StepsSafe, RollingBack
<1>6. FilesSafe'
  BY <1>1, <1>4 DEF Safe, FilesSafe, LogsSafe, Newest, UpTo, MarkerSafe
<1>7. (mode' = mode /\ todo' # <<>>) \/ (mode' = "idle" /\ Left' = {} /\ todo' = <<>>)
  BY <1>1, RestsSafely
<1>8. todo' # <<>> => todo'[Len(todo')] = todo[Len(todo)]
  BY <1>1, StepGoesOn DEF GoOn, Safe, StepsSafe
<1>9. mode # "beginning"
  BY <1>2 DEF Safe, StepsSafe, Beginning, OfBeginning
<1>10. MainIn(session)' = MainIn(session)
  BY <1>1 DEF MainIn, InQuarantine
<1>11. StepsSafe'
  <2>1. OpenSafe'
    BY <1>1, <1>2, <1>4 DEF Safe, StepsSafe, OpenSafe
  <2>2. Resting'
    <3>1. mode' = "idle" => mode \in {"undoing", "purging"}
      BY <1>1, <1>9, RestsSafely DEF Typed, TodoTyped, Modes
    <3>2. mode' = "idle" => isOpen' \/ ~key'
      BY <1>1, <3>1 DEF Safe, StepsSafe, RollingBack, Opening
    <3>3. mode' # "down"
      BY <1>1, RestsSafely
    <3>4. QED
      BY <1>1, <1>7, <3>2, <3>3, RestsSafely DEF Resting
  <2>3. Beginning'
    BY <1>2, <1>7, <1>9 DEF Safe, StepsSafe, Beginning, OfBeginning
  <2>4. RollingBack'
    BY <1>1, <1>2, <1>4, <1>7 DEF Safe, StepsSafe, RollingBack, PutsBack
  <2>5. Opening'
    BY <1>1, <1>2, <1>4, <1>7, <1>8 DEF Safe, StepsSafe, Opening
  <2>6. Recovering'
    BY <1>1, <1>2, <1>3, <1>7, <1>8, <1>10 DEF Safe, StepsSafe, Recovering
  <2>7. QED
    BY <1>2, <2>1, <2>2, <2>3, <2>4, <2>5, <2>6 DEF StepsSafe
<1>12. Stutters
  <2>1. Recoverable' = Ledger(live)
    BY <1>1, <1>4, <1>6, WhatIsRecoverable DEF FilesSafe
  <2>2. Undone /\ LongRollback(marker.session) =>
          /\ live.main = None /\ live.wal = None /\ MainIn(marker.session) = None
    BY <1>5 DEF LongRollback, Safe, FilesSafe, MarkerSafe
  <2>3. Recoverable = Ledger(live)
    BY <2>2, WhatIsRecoverable DEF Safe, FilesSafe, Ledger
  <2>4. QED
    BY <1>1, <2>1, <2>3 DEF Stutters, Shown
<1>13. QED
  BY <1>6, <1>11, <1>12 DEF Safe, Maps

(* The restored database is validated; the marker says so, and goes.       *)
LEMMA ValidatedStep ==
  ASSUME Typed, Safe, Validated
  PROVE  Safe' /\ Maps
<1>1. /\ Does("Validated") /\ Publish("replacement_validated") /\ mode' = mode
      /\ todo' = FinalizeSteps
      /\ UNCHANGED <<live, quarantine, session, isOpen, key, finalize, lastVersion>>
  BY DEF Validated, Publish, FinalizeSteps, files, StepRest, counters
<1>2. "Validated" \in Left
  BY <1>1, DoesType DEF Left, Steps
<1>3. "OpenDb" \notin Left
  <2>1. SUFFICES ASSUME NEW i \in 1 .. Len(todo), todo[i] = "OpenDb"
                 PROVE  FALSE
    BY DEF Left, Steps
  <2>2. 1 < i /\ 1 \in 1 .. Len(todo) /\ todo[1] = "Validated"
    BY <1>1, <2>1, DoesType
  <2>3. FirstPlace("Validated") < LastPlace("OpenDb")
    BY <2>1, <2>2 DEF Safe, StepsSafe, InOrder, Ordered
  <2>4. QED
    BY <2>3, NotLater
<1>4. mode = "recovering" /\ isOpen
  BY <1>2, <1>3 DEF Safe, StepsSafe, Recovering
<1>5. key /\ live.main # None /\ ~Undone
  BY <1>4 DEF Safe, StepsSafe, OpenSafe
<1>6. ~Undone'
  <2>1. marker'.state = "replacement_validated"
    BY <1>1 DEF Publish
  <2>2. QED
    BY <2>1 DEF Undone, Valid
<1>7. FilesSafe'
  BY <1>1, <1>5, <1>6 DEF Safe, FilesSafe, LogsSafe, Newest, UpTo, MarkerSafe
<1>8. /\ Left' = {"DropMarker", "DropPending", "Prune"} /\ InOrder'
      /\ todo' # <<>> /\ todo'[Len(todo')] = "Prune"
  BY <1>1, FinishingPrograms DEF Left, InOrder
<1>9. StepsSafe'
  <2>1. OpenSafe' /\ Resting' /\ Beginning'
    BY <1>1, <1>4, <1>5, <1>6, <1>8 DEF OpenSafe, Resting, Beginning, NeedsClosed, OfBeginning,
                                        PutsBack
  <2>2. RollingBack' /\ Opening' /\ Recovering'
    BY <1>1, <1>4, <1>6, <1>8 DEF RollingBack, Opening, Recovering, PutsBack
  <2>3. QED
    BY <1>8, <2>1, <2>2 DEF StepsSafe
<1>10. Stutters
  <2>1. Recoverable = Ledger(live) /\ Recoverable' = Ledger(live)
    BY <1>1, <1>5, <1>6, <1>7, WhatIsRecoverable DEF Safe, FilesSafe
  <2>2. QED
    BY <1>1, <2>1 DEF Stutters, Shown
<1>11. QED
  BY <1>7, <1>9, <1>10 DEF Safe, Maps


-----------------------------------------------------------------------------
(* The database is open, and what is committed to it is found again.       *)

LEMMA LedgerFound ==
  ASSUME Typed, Safe, isOpen
  PROVE  /\ key /\ live.main # None /\ ~Undone
         /\ Recoverable = Ledger(live) /\ Shown = Ledger(live) /\ Ledger(live) # None
         /\ Ledger(live) \in Versions /\ Ledger(live) <= lastVersion
<1>1. key /\ live.main # None /\ ~Undone
  BY DEF Safe, StepsSafe, OpenSafe
<1>2. Recoverable = Ledger(live) /\ Shown = Ledger(live)
  BY <1>1, WhatIsRecoverable DEF Safe, FilesSafe, Shown
<1>3. Ledger(live) # None /\ Ledger(live) \in Versions
  BY <1>1 DEF Ledger, Typed, FilesTyped, Family
<1>4. Ledger(live) <= lastVersion
  BY <1>3 DEF Safe, FilesSafe, Newest, UpTo
<1>5. QED
  BY <1>1, <1>2, <1>3, <1>4

LEMMA CommitsSafely ==
  ASSUME Typed, Safe, isOpen, lastVersion < MaxVersion, lastVersion' = lastVersion + 1,
         live' = [live EXCEPT !.wal = lastVersion'], UNCHANGED <<quarantine, key, marker, isOpen>>
  PROVE  /\ FilesSafe' /\ Maps
         /\ live'.main = live.main /\ (Undone' <=> Undone) /\ (Valid' <=> Valid)
<1>1. /\ key /\ live.main # None /\ ~Undone
      /\ Recoverable = Ledger(live) /\ Shown = Ledger(live) /\ Ledger(live) # None
      /\ Ledger(live) \in Versions /\ Ledger(live) <= lastVersion
  BY LedgerFound
<1>2. /\ lastVersion \in 0 .. MaxVersion /\ MaxVersion \in Nat /\ lastVersion' \in 1 .. MaxVersion
      /\ lastVersion' # None
  BY BoundsAssumption, NoneAssumption DEF Typed, CountersTyped, Versions
<1>3. live'.main = live.main /\ live'.wal = lastVersion'
  BY DEF Typed, FilesTyped, Family
<1>4. Ledger(live') = lastVersion'
  BY <1>2, <1>3 DEF Ledger
<1>5. (Undone' <=> Undone) /\ (Valid' <=> Valid)
  BY DEF Undone, Valid
<1>6. FilesSafe'
  <2>1. LogsSafe'
    BY <1>1, <1>3 DEF Safe, FilesSafe, LogsSafe
  <2>2. Newest'
    <3>1. \A d \in DOMAIN quarantine : UpTo(lastVersion', quarantine[d])
      <4>1. TAKE d \in DOMAIN quarantine
      <4>2. quarantine[d] \in Family /\ UpTo(lastVersion, quarantine[d])
        BY DEF Typed, FilesTyped, Safe, FilesSafe, Newest
      <4>3. Ledger(quarantine[d]) \in Versions \cup {None}
        BY <4>2, LedgerType
      <4>4. QED
        BY <1>2, <4>2, <4>3 DEF UpTo, Versions
    <3>2. UpTo(lastVersion', live')
      BY <1>2, <1>4 DEF UpTo
    <3>3. QED
      BY <3>1, <3>2 DEF Newest, UpTo
  <2>3. MarkerSafe'
    BY <1>1, <1>3, <1>5 DEF MarkerSafe
  <2>4. QED
    BY <2>1, <2>2, <2>3 DEF FilesSafe
<1>7. Durable!Commit
  <2>1. Recoverable' = lastVersion'
    BY <1>1, <1>4, <1>5, <1>6, WhatIsRecoverable DEF FilesSafe
  <2>2. lastVersion' > Ledger(live)
    BY <1>1, <1>2 DEF Versions
  <2>3. QED
    BY <1>1, <1>2, <1>4, <2>1, <2>2 DEF Durable!Commit
<1>8. QED
  BY <1>3, <1>5, <1>6, <1>7 DEF Maps

LEMMA RestoreStep ==
  ASSUME Typed, Safe, Restore
  PROVE  Safe' /\ Maps
<1>1. /\ Does("Restore") /\ GoOn /\ lastVersion < MaxVersion /\ lastVersion' = lastVersion + 1
      /\ live' = [live EXCEPT !.wal = lastVersion']
      /\ UNCHANGED <<quarantine, key, marker, session, isOpen, finalize>>
  BY DEF Restore, markers
<1>2. /\ "Restore" \in Left /\ Left = Left' \cup {"Restore"} /\ InOrder' /\ "OpenDb" \notin Left'
  BY <1>1, StepGoesOn, NotLater DEF Safe, StepsSafe, GoOn
<1>3. isOpen /\ mode = "recovering" /\ "OpenDb" \notin Left
  BY <1>2 DEF Safe, StepsSafe, Recovering
<1>4. /\ FilesSafe' /\ Maps
      /\ live'.main = live.main /\ (Undone' <=> Undone) /\ (Valid' <=> Valid)
  BY <1>1, <1>3, CommitsSafely
<1>5. mode' = mode /\ todo' # <<>> /\ todo'[Len(todo')] = todo[Len(todo)]
  BY <1>1, <1>3, RestsSafely, StepGoesOn DEF GoOn, Safe, StepsSafe
<1>6. ~Undone /\ live.main # None /\ key
  BY <1>3 DEF Safe, StepsSafe, OpenSafe
<1>7. StepsSafe'
  <2>1. OpenSafe' /\ Resting' /\ Beginning'
    BY <1>1, <1>2, <1>3, <1>4, <1>5, <1>6
    DEF Safe, StepsSafe, OpenSafe, Resting, Beginning, OfBeginning
  <2>2. RollingBack' /\ Opening' /\ Recovering'
    BY <1>1, <1>2, <1>3, <1>4, <1>5, <1>6
    DEF Safe, StepsSafe, RollingBack, Opening, Recovering, OpenSafe, NeedsClosed, PutsBack
  <2>3. QED
    BY <1>2, <2>1, <2>2 DEF StepsSafe
<1>8. QED
  BY <1>4, <1>7 DEF Safe

(* What the user does.                                                     *)
LEMMA UserStep ==
  ASSUME Typed, Safe, Launch \/ Commit \/ Checkpoint \/ Purge \/ Recover \/ Kill
  PROVE  Safe' /\ Maps
<1>1. CASE Commit
  <2>1. /\ mode = "idle" /\ isOpen /\ lastVersion < MaxVersion /\ lastVersion' = lastVersion + 1
        /\ live' = [live EXCEPT !.wal = lastVersion']
        /\ UNCHANGED <<quarantine, key, marker, mode, todo, session, isOpen, finalize>>
    BY <1>1 DEF Commit, markers, process
  <2>2. /\ FilesSafe' /\ Maps
        /\ live'.main = live.main /\ (Undone' <=> Undone) /\ (Valid' <=> Valid)
    BY <2>1, CommitsSafely
  <2>3. todo = <<>> /\ Left = {} /\ Left' = {}
    BY <2>1 DEF Safe, StepsSafe, Resting, Left, Steps
  <2>4. StepsSafe'
    BY <2>1, <2>2, <2>3 DEF Safe, StepsSafe, OpenSafe, Resting, Beginning, RollingBack, Opening,
                            Recovering, InOrder, Ordered
  <2>5. QED
    BY <2>2, <2>4 DEF Safe
<1>2. CASE Checkpoint
  <2>1. /\ isOpen /\ live' = Closed(live)
        /\ UNCHANGED <<quarantine, key, marker, mode, todo, session, isOpen, finalize, lastVersion>>
    BY <1>2 DEF Checkpoint, markers, process, counters
  <2>2. /\ key /\ live.main # None /\ ~Undone
        /\ Recoverable = Ledger(live) /\ Shown = Ledger(live) /\ Ledger(live) # None
    BY <2>1, LedgerFound
  <2>3. live'.main = Ledger(live) /\ live'.wal = None /\ Ledger(live') = Ledger(live)
    BY <2>1 DEF Closed, Ledger
  <2>4. (Undone' <=> Undone) /\ (Valid' <=> Valid) /\ Left' = Left
    BY <2>1 DEF Undone, Valid, Left
  <2>5. FilesSafe'
    BY <2>1, <2>2, <2>3, <2>4 DEF Safe, FilesSafe, LogsSafe, Newest, UpTo, MarkerSafe
  <2>6. StepsSafe'
    <3>1. "OpenDb" \notin Left /\ mode # "beginning" /\ mode # "undoing"
      BY <2>1 DEF Safe, StepsSafe, OpenSafe, NeedsClosed, Beginning, RollingBack
    <3>2. MainIn(session)' = MainIn(session)
      BY <2>1 DEF MainIn, InQuarantine
    <3>3. OpenSafe' /\ Resting' /\ Beginning'
      BY <2>1, <2>2, <2>3, <2>4, <3>1 DEF Safe, StepsSafe, OpenSafe, Resting, Beginning
    <3>4. RollingBack' /\ Opening' /\ Recovering'
      BY <2>1, <2>2, <2>3, <2>4, <3>1, <3>2 DEF Safe, StepsSafe, RollingBack, Opening, Recovering
    <3>5. QED
      BY <2>1, <3>3, <3>4 DEF Safe, StepsSafe, InOrder
  <2>7. Stutters
    BY <2>1, <2>2, <2>3, <2>4, <2>5, WhatIsRecoverable DEF FilesSafe, Stutters, Shown
  <2>8. QED
    BY <2>5, <2>6, <2>7 DEF Safe, Maps
<1>3. CASE Launch
  <2>1. /\ mode' = "opening" /\ todo' = OpenSteps /\ (mode = "down" \/ ~isOpen)
        /\ UNCHANGED <<live, quarantine, key, marker, session, isOpen, finalize, lastVersion>>
    BY <1>3 DEF Launch, files, markers, counters
  <2>2. ~isOpen
    BY <2>1 DEF Safe, StepsSafe, Resting
  <2>3. (Undone' <=> Undone) /\ (Valid' <=> Valid)
    BY <2>1 DEF Undone, Valid
  <2>4. MainIn(marker.session)' = MainIn(marker.session)
    BY <2>1 DEF MainIn, InQuarantine
  <2>5. FilesSafe'
    BY <2>1, <2>3, <2>4 DEF Safe, FilesSafe, LogsSafe, Newest, UpTo, MarkerSafe
  <2>6. /\ Left' = {"Resolve", "OpenDb"} /\ InOrder'
        /\ todo' # <<>> /\ todo'[Len(todo')] = "OpenDb"
    BY <2>1, OpeningProgram DEF Left, InOrder
  <2>7. StepsSafe'
    BY <2>1, <2>2, <2>6 DEF StepsSafe, OpenSafe, Resting, Beginning, RollingBack, Opening,
                            Recovering, NeedsOpen, OfBeginning, PutsBack
  <2>8. QED
    BY <2>1, <2>4, <2>5, <2>7, Unmoved DEF Safe, FilesSafe, Maps
<1>4. CASE Purge
  <2>1. /\ mode = "idle" /\ isOpen /\ mode' = "purging" /\ todo' = PurgeSteps
        /\ UNCHANGED <<live, quarantine, key, marker, session, isOpen, finalize, lastVersion>>
    BY <1>4 DEF Purge, files, markers, counters
  <2>2. (Undone' <=> Undone) /\ (Valid' <=> Valid) /\ marker = None /\ ~Undone
    BY <2>1 DEF Undone, Valid, Safe, StepsSafe, Resting
  <2>3. FilesSafe'
    BY <2>1, <2>2 DEF Safe, FilesSafe, LogsSafe, Newest, UpTo, MarkerSafe
  <2>4. Left' = {"DropMarker", "DropPending", "PurgeAll"} /\ InOrder'
    BY <2>1, FinishingPrograms DEF Left, InOrder
  <2>5. key /\ live.main # None
    BY <2>1 DEF Safe, StepsSafe, OpenSafe
  <2>6. StepsSafe'
    BY <2>1, <2>2, <2>4, <2>5 DEF StepsSafe, OpenSafe, Resting, Beginning, RollingBack, Opening,
                            Recovering, NeedsClosed, OfBeginning, PutsBack
  <2>7. QED
    BY <2>1, <2>2, <2>3, <2>6, Unmoved DEF Safe, FilesSafe, Maps
<1>5. CASE Kill
  <2>1. /\ mode' = "down" /\ todo' = <<>> /\ isOpen' = FALSE
        /\ UNCHANGED <<live, quarantine, key, marker, lastVersion>>
    BY <1>5 DEF Kill, files, markers
  <2>2. (Undone' <=> Undone) /\ (Valid' <=> Valid)
    BY <2>1 DEF Undone, Valid
  <2>3. MainIn(marker.session)' = MainIn(marker.session)
    BY <2>1 DEF MainIn, InQuarantine
  <2>4. FilesSafe'
    BY <2>1, <2>2, <2>3 DEF Safe, FilesSafe, LogsSafe, Newest, UpTo, MarkerSafe
  <2>5. Left' = {} /\ InOrder'
    BY <2>1 DEF Left, Steps, InOrder, Ordered
  <2>6. StepsSafe'
    BY <2>1, <2>5 DEF StepsSafe, OpenSafe, Resting, Beginning, RollingBack, Opening, Recovering
  <2>7. Recoverable' = Recoverable
    BY <2>1 DEF Recoverable, InQuarantine
  <2>8. CASE isOpen
    <3>1. Shown # None
      BY <2>8, LedgerFound
    <3>2. Durable!Close
      BY <2>1, <2>7, <3>1 DEF Durable!Close, Shown
    <3>3. QED
      BY <2>4, <2>6, <3>2 DEF Safe, Maps
  <2>9. CASE ~isOpen
    BY <2>1, <2>4, <2>6, <2>7, <2>9 DEF Safe, Maps, Stutters, Shown
  <2>10. QED
    BY <2>8, <2>9
<1>6. CASE Recover
  <2>1. /\ mode = "idle" /\ mode' = "beginning" /\ todo' = BeginSteps /\ isOpen' = FALSE
        /\ live' = (IF isOpen THEN Closed(live) ELSE live) /\ session' = NewSession(live')
        /\ sessions' = sessions + 1
        /\ quarantine' = [d \in DOMAIN quarantine \cup {sessions'} |->
                            IF d = sessions' THEN NoFamily ELSE quarantine[d]]
        /\ UNCHANGED <<key, marker, lastVersion>>
    BY <1>6 DEF Recover, markers
  <2>2. marker = None /\ (isOpen \/ ~key)
    BY <2>1 DEF Safe, StepsSafe, Resting
  <2>3. ~Undone /\ ~Undone' /\ ~Valid'
    BY <2>1, <2>2 DEF Undone, Valid
  <2>4. live'.wal = None /\ Ledger(live') = Ledger(live) /\ live' \in Family
    BY <2>1, <2>2, LedgerType, LedgerOfClosed
    DEF Safe, FilesSafe, LogsSafe, Closed, Typed, FilesTyped
  <2>5. session'.dir = sessions' /\ session'.hadKey = key /\ session'.hadDatabase = (live'.main # None)
    BY <2>1 DEF NewSession
  <2>6. session'.dir \in DOMAIN quarantine' /\ quarantine'[session'.dir] = NoFamily
    BY <2>1, <2>5
  <2>7. MainIn(session)' = None
    BY <2>6 DEF MainIn, InQuarantine, NoFamily
  <2>8. FilesSafe'
    <3>1. LogsSafe'
      BY <2>1, <2>4 DEF Safe, FilesSafe, LogsSafe, NoFamily
    <3>2. Newest'
      BY <2>1, <2>4 DEF Safe, FilesSafe, Newest, UpTo, NoFamily, Ledger
    <3>3. MarkerSafe'
      BY <2>3 DEF MarkerSafe
    <3>4. QED
      BY <3>1, <3>2, <3>3 DEF FilesSafe
  <2>9. Left' = OfBeginning \cup {"WritePending"} /\ InOrder'
    BY <2>1, BeginningProgram DEF Left, InOrder
  <2>10. Beginning'
    BY <2>1, <2>2, <2>4, <2>5, <2>6, <2>7, <2>9 DEF Beginning, OfBeginning
  <2>11. StepsSafe'
    BY <2>1, <2>9, <2>10, BeginsSafely
  <2>12. Recoverable' = Recoverable
    BY <2>3, <2>4, <2>8, WhatIsRecoverable DEF Safe, FilesSafe
  <2>13. CASE isOpen
    <3>1. Shown # None
      BY <2>13, LedgerFound
    <3>2. Durable!Close
      BY <2>1, <2>12, <3>1 DEF Durable!Close, Shown
    <3>3. QED
      BY <2>8, <2>11, <3>2 DEF Safe, Maps
  <2>14. CASE ~isOpen
    BY <2>1, <2>8, <2>11, <2>12, <2>14 DEF Safe, Maps, Stutters, Shown
  <2>15. QED
    BY <2>13, <2>14
<1>7. QED
  BY <1>1, <1>2, <1>3, <1>4, <1>5, <1>6


-----------------------------------------------------------------------------
(* A start resolves the marker and opens the database.                     *)

LEMMA ResolveStep ==
  ASSUME Typed, Safe, Resolve
  PROVE  Safe' /\ Maps
<1>1. /\ Does("Resolve") /\ mode' = mode
      /\ UNCHANGED <<live, quarantine, key, marker, isOpen, lastVersion>>
  BY DEF Resolve, files, counters
<1> DEFINE rest == Tail(todo)
<1>2. /\ "Resolve" \in Left /\ "OpenDb" \in Left /\ ~isOpen
      /\ mode \in {"opening", "recovering"}
      /\ mode = "recovering" => Undone /\ marker.session = session
  <2>1. "Resolve" \in Left
    BY <1>1, DoesType DEF Left, Steps
  <2>2. QED
    BY <2>1 DEF Safe, StepsSafe, Opening, OpenSafe, NeedsClosed, Recovering
<1>3. (Undone' <=> Undone) /\ (Valid' <=> Valid)
  BY <1>1 DEF Undone, Valid
<1>4. MainIn(marker.session)' = MainIn(marker.session)
  BY <1>1 DEF MainIn, InQuarantine
<1>5. FilesSafe'
  BY <1>1, <1>3, <1>4 DEF Safe, FilesSafe, LogsSafe, Newest, UpTo, MarkerSafe
<1>6. Stutters
  BY <1>1, <1>4, <1>5, Unmoved DEF Safe, FilesSafe
<1>7. ASSUME ~Undone
      PROVE  StepsSafe'
  <2>1. todo' = rest /\ mode = "opening" /\ (Valid => finalize')
    BY <1>2, <1>7 DEF Resolve, Undone, Valid
  <2>2. /\ Left = Left' \cup {"Resolve"} /\ InOrder' /\ todo' # <<>>
        /\ todo'[Len(todo')] = todo[Len(todo)]
        /\ Left' \cap (PutsBack \cup {"DropKey", "DropMarker", "Resolve",
                                      "DropPending", "DropQuarantine"}) = {}
    BY <1>1, <1>2, <2>1, StepGoesOn, NotLater DEF Safe, StepsSafe
  <2>3. OpenSafe' /\ Resting' /\ Beginning'
    BY <1>1, <1>2, <2>1, <2>2 DEF Safe, StepsSafe, OpenSafe, Resting, Beginning, OfBeginning
  <2>4. RollingBack' /\ Opening' /\ Recovering'
    BY <1>1, <1>2, <1>3, <1>7, <2>1, <2>2
    DEF Safe, StepsSafe, RollingBack, Opening, Recovering, OpenSafe, NeedsOpen, PutsBack
  <2>5. QED
    BY <2>2, <2>3, <2>4 DEF StepsSafe
<1>8. ASSUME Undone
      PROVE  StepsSafe'
  <2>1. /\ session' = marker.session /\ finalize' = finalize
        /\ todo' = RollbackSteps(marker.session) \o rest
    BY <1>8 DEF Resolve, Undone, Valid
  <2>2. /\ rest \in Seq(Names) /\ rest # <<>> /\ rest[Len(rest)] = todo[Len(todo)]
        /\ Left = Steps(rest) \cup {"Resolve"} /\ Ordered(rest)
        /\ \A later \in Steps(rest) : FirstPlace("Resolve") < LastPlace(later)
    BY <1>1, <1>2, TailOfProgram DEF Safe, StepsSafe
  <2> HIDE DEF rest
  <2>3. Steps(rest) \cap (PutsBack \cup {"DropKey", "DropMarker", "Resolve", "DropPending",
                                         "DropQuarantine"}) = {}
    BY <2>2, NotLater
  <2> DEFINE back == RollbackSteps(marker.session)
  <2>4. /\ Ordered(back) /\ back \in Seq(Names) /\ Steps(back) \subseteq RollbackNames
        /\ "DropMarker" \in Steps(back)
        /\ "DropKey" \in Steps(back) => ~marker.session.hadKey
        /\ "MainBack" \in Steps(back) <=> LongRollback(marker.session)
        /\ Steps(back) \cap PutsBack # {} => LongRollback(marker.session)
    <3>1. /\ Ordered(back) /\ back \in Seq(Names)
          /\ \/ /\ ~LongRollback(marker.session)
                /\ Steps(back) = {"DropMarker", "DropPending", "DropQuarantine"}
             \/ /\ LongRollback(marker.session)
                /\ marker.session.hadKey /\ Steps(back) = RollbackNames \ {"DropKey"}
             \/ /\ LongRollback(marker.session)
                /\ ~marker.session.hadKey /\ Steps(back) = RollbackNames
      BY RollbackProgram
    <3> HIDE DEF back
    <3>2. QED
      BY <3>1 DEF RollbackNames, PutsBack
  <2> HIDE DEF back
  <2>5. \A first \in Steps(back), later \in Steps(rest) : FirstPlace(first) < LastPlace(later)
    BY <2>2, <2>4, NotLater
  <2>6. /\ Left' = Steps(back) \cup Steps(rest) /\ InOrder'
        /\ todo' # <<>> /\ todo'[Len(todo')] = todo[Len(todo)]
    <3>1. todo' = back \o rest
      BY <2>1 DEF back
    <3>2. /\ Steps(back \o rest) = Steps(back) \cup Steps(rest) /\ Ordered(back \o rest)
          /\ back \o rest # <<>> /\ (back \o rest)[Len(back \o rest)] = rest[Len(rest)]
      BY <2>2, <2>4, <2>5, TwoPrograms
    <3>3. QED
      BY <2>2, <3>1, <3>2 DEF Left, InOrder
  <2>7. /\ "OpenDb" \in Left' /\ "DropMarker" \in Left' /\ "Resolve" \notin Left'
        /\ "DropKey" \in Left' => ~marker.session.hadKey
        /\ Left' \cap PutsBack # {} => LongRollback(marker.session)
        /\ "MainBack" \notin Left' => ~LongRollback(marker.session)
        /\ Left' \cap OfBeginning = {} /\ Left' \cap NeedsOpen = {}
        /\ Left' \cap {"Restore", "Validated"} = Left \cap {"Restore", "Validated"}
    <3>1. "OpenDb" \in Steps(rest)
      BY <1>2, <2>2
    <3>2. Left \cap OfBeginning = {} /\ Left \cap NeedsOpen = {}
      BY <1>2 DEF Safe, StepsSafe, Beginning, OpenSafe
    <3>3. RollbackNames \cap (OfBeginning \cup NeedsOpen \cup {"Restore", "Validated", "Resolve"}) = {}
      BY DEF RollbackNames, OfBeginning, NeedsOpen
    <3>4. QED
      BY <2>2, <2>3, <2>4, <2>6, <3>1, <3>2, <3>3 DEF PutsBack
  <2>8. /\ ~marker.session.hadKey => ~key
        /\ ~marker.session.hadDatabase => live.main = None /\ MainIn(marker.session) = None
    BY <1>8 DEF Safe, FilesSafe, MarkerSafe
  <2>9. MainIn(session)' = MainIn(marker.session) /\ marker'.session = session'
    BY <1>1, <2>1 DEF MainIn, InQuarantine
  <2>10. OpenSafe' /\ Resting' /\ Beginning'
    BY <1>1, <1>2, <2>7 DEF OpenSafe, Resting, Beginning
  <2>11. RollingBack'
    BY <1>1, <1>2, <1>3, <1>8, <2>1, <2>7, <2>8, <2>9 DEF RollingBack, LongRollback, PutsBack
  <2>12. Opening'
    BY <1>1, <1>2, <1>3, <1>8, <2>6, <2>7 DEF Safe, StepsSafe, Opening, NeedsOpen, Undone
  <2>13. Recovering'
    BY <1>1, <1>2, <2>1, <2>6, <2>7, <2>8, <2>9 DEF Safe, StepsSafe, Recovering, LongRollback
  <2>14. QED
    BY <2>6, <2>10, <2>11, <2>12, <2>13 DEF StepsSafe
<1>9. QED
  BY <1>5, <1>6, <1>7, <1>8 DEF Safe, Maps


LEMMA OpenDbStep ==
  ASSUME Typed, Safe, OpenDb
  PROVE  Safe' /\ Maps
<1>1. /\ Does("OpenDb") /\ key' = TRUE /\ isOpen' = TRUE
      /\ live' = IF live.main = None THEN [main |-> 0, wal |-> None] ELSE live
      /\ UNCHANGED <<quarantine, marker, session, finalize, lastVersion>>
  BY DEF OpenDb, markers, counters
<1> DEFINE rest == Tail(todo)
<1>2. /\ Left = Steps(rest) \cup {"OpenDb"} /\ Ordered(rest) /\ rest \in Seq(Names)
      /\ \A later \in Steps(rest) : FirstPlace("OpenDb") < LastPlace(later)
      /\ rest # <<>> => rest[Len(rest)] = todo[Len(todo)] /\ rest[Len(rest)] \in Steps(rest)
      /\ rest = <<>> => todo[Len(todo)] = "OpenDb" /\ Steps(rest) = {}
  BY <1>1, TailOfProgram DEF Safe, StepsSafe
<1>3. IF finalize THEN todo' = FinishSteps \o rest /\ mode' = mode
      ELSE todo' = rest /\ mode' = IF rest = <<>> THEN "idle" ELSE mode
  BY DEF OpenDb, GoOn
<1> HIDE DEF rest
<1>4. Steps(rest) \cap (PutsBack \cup {"DropKey", "DropMarker", "Resolve", "DropQuarantine",
                                       "OpenDb"}) = {}
  BY <1>2, NotLater
<1>5. /\ "OpenDb" \in Left /\ ~isOpen /\ mode \in {"opening", "recovering"}
      /\ ~Undone /\ (Valid => finalize)
  BY <1>2, <1>4 DEF Safe, StepsSafe, Opening, OpenSafe, NeedsClosed
<1>6. Steps(rest) \cap OfBeginning = {} /\ Steps(rest) \cap NeedsOpen = {}
  BY <1>2, <1>5 DEF Safe, StepsSafe, OpenSafe, Beginning
<1>7. /\ mode = "opening" => rest = <<>>
      /\ mode = "recovering" => rest # <<>> /\ rest[Len(rest)] \in {"Validated", "Prune"}
  BY <1>2, <1>4, <1>6 DEF Safe, StepsSafe, Opening, Recovering, NeedsOpen
<1>8. (Undone' <=> Undone) /\ (Valid' <=> Valid)
  BY <1>1 DEF Undone, Valid
<1>9. 0 # None
  BY NoneAssumption
<1>10. live'.main # None /\ (live.main # None => live' = live)
       /\ (live.main = None => live'.main = 0 /\ live'.wal = None)
  BY <1>1, <1>9
<1>11. FilesSafe'
  <2>1. LogsSafe'
    BY <1>1, <1>10 DEF Safe, FilesSafe, LogsSafe
  <2>2. Newest'
    <3>1. 0 <= lastVersion
      BY BoundsAssumption DEF Typed, CountersTyped, Versions
    <3>2. QED
      BY <1>1, <1>10, <3>1 DEF Safe, FilesSafe, Newest, UpTo, Ledger
  <2>3. MarkerSafe'
    BY <1>1, <1>5, <1>8, <1>10 DEF MarkerSafe
  <2>4. QED
    BY <2>1, <2>2, <2>3 DEF FilesSafe
<1>12. /\ InOrder' /\ Left' \subseteq Steps(rest) \cup {"DropMarker", "DropPending", "Finished", "Prune"}
       /\ Steps(rest) \subseteq Left'
       /\ finalize => "DropMarker" \in Left'
       /\ ~finalize => Left' = Steps(rest) /\ todo' = rest
       /\ rest # <<>> => todo' # <<>> /\ todo'[Len(todo')] = rest[Len(rest)]
       /\ finalize /\ rest = <<>> => todo' # <<>> /\ todo'[Len(todo')] = "Prune"
  <2>1. CASE ~finalize
    BY <1>2, <1>3, <2>1 DEF Left, InOrder
  <2>2. CASE finalize
    <3>1. \A later \in Steps(rest) : later \in Names
      BY <1>2 DEF Steps
    <3>2. \A later \in Steps(rest) : 12 < LastPlace(later)
      <4>1. FirstPlace("Prune") = 12
        BY DEF FirstPlace
      <4>2. QED
        BY <1>2, <1>6, <3>1, <4>1, NotLater
    <3>3. \A first \in Steps(FinishSteps) : FirstPlace(first) \in 7 .. 12
      BY FinishingPrograms DEF FirstPlace
    <3>4. \A later \in Steps(rest) : LastPlace(later) \in Nat
      BY DEF FirstPlace, LastPlace
    <3>5. \A first \in Steps(FinishSteps), later \in Steps(rest) : FirstPlace(first) < LastPlace(later)
      BY <3>2, <3>3, <3>4
    <3>6. /\ Steps(FinishSteps \o rest) = Steps(FinishSteps) \cup Steps(rest)
          /\ Ordered(FinishSteps \o rest)
          /\ rest # <<>> => FinishSteps \o rest # <<>>
                            /\ (FinishSteps \o rest)[Len(FinishSteps \o rest)] = rest[Len(rest)]
      <4>1. FinishSteps \in Seq(Names) /\ Ordered(FinishSteps)
        BY ProgramsType, FinishingPrograms
      <4>2. QED
        BY <1>2, <3>5, <4>1, TwoPrograms
    <3>7. rest = <<>> => FinishSteps \o rest = FinishSteps
      BY ProgramsType
    <3>8. QED
      BY <1>3, <2>2, <3>6, <3>7, FinishingPrograms DEF Left, InOrder
  <2>3. QED
    BY <2>1, <2>2
<1>13. mode' = mode \/ (mode' = "idle" /\ todo' = <<>> /\ marker = None)
  BY <1>3, <1>5 DEF Undone
<1>14. mode' = "idle" => Left' = {}
  BY <1>2, <1>3, <1>5, <1>12
<1>15. StepsSafe'
  <2>1. OpenSafe'
    BY <1>1, <1>4, <1>5, <1>6, <1>8, <1>10, <1>12 DEF OpenSafe, NeedsClosed, OfBeginning, PutsBack
  <2>2. Resting'
    BY <1>1, <1>5, <1>13 DEF Resting
  <2>3. Beginning'
    BY <1>5, <1>6, <1>12, <1>13 DEF Beginning, OfBeginning
  <2>4. RollingBack'
    BY <1>4, <1>5, <1>8, <1>12, <1>13 DEF RollingBack, PutsBack
  <2>5. Opening'
    <3>1. Left' \cap {"Resolve", "OpenDb"} = {}
      BY <1>4, <1>12
    <3>2. mode' = "opening" => todo' # <<>> /\ todo'[Len(todo')] \in {"OpenDb", "Prune"}
      BY <1>3, <1>7, <1>12, <1>13
    <3>3. "Prune" \in Left' /\ "DropMarker" \notin Left' => marker' = None
      BY <1>6, <1>12 DEF NeedsOpen
    <3>4. mode' # "purging"
      BY <1>5, <1>13
    <3>5. QED
      BY <3>1, <3>2, <3>3, <3>4 DEF Opening
  <2>6. Recovering'
    <3>1. Left' \cap {"Restore", "Validated"} # {} => mode' = "recovering" /\ isOpen'
      <4>1. Left' \cap {"Restore", "Validated"} # {} => mode = "recovering"
        BY <1>2, <1>12 DEF Safe, StepsSafe, Recovering
      <4>2. QED
        BY <1>1, <1>13, <1>14, <4>1
    <3>2. mode' = "recovering" => todo' # <<>> /\ todo'[Len(todo')] \in {"Validated", "Prune"}
      BY <1>7, <1>12, <1>13
    <3>3. "OpenDb" \notin Left'
      BY <1>4, <1>12
    <3>4. QED
      BY <3>1, <3>2, <3>3 DEF Recovering
  <2>7. QED
    BY <1>12, <2>1, <2>2, <2>3, <2>4, <2>5, <2>6 DEF StepsSafe
<1>16. Durable!Open
  <2>1. Recoverable = Ledger(live) /\ Recoverable' = Ledger(live')
    BY <1>5, <1>8, <1>11, WhatIsRecoverable DEF Safe, FilesSafe
  <2>2. live.main = None => Ledger(live) = None /\ Ledger(live') = 0
    BY <1>10 DEF Safe, FilesSafe, LogsSafe, Ledger
  <2>3. live.main # None => Ledger(live) # None /\ Ledger(live') = Ledger(live)
    BY <1>10 DEF Ledger
  <2>4. QED
    BY <1>1, <1>5, <2>1, <2>2, <2>3 DEF Durable!Open
<1>17. QED
  BY <1>11, <1>15, <1>16 DEF Safe, Maps

(* A database that can not be read, for want of its key.                   *)
LEMMA OpenFailsStep ==
  ASSUME Typed, Safe, OpenFails, Damaged = {}
  PROVE  Safe' /\ Maps
<1>1. /\ Does("OpenDb") /\ ~Readable /\ Throw
  BY DEF OpenFails
<1>2. live.main # None /\ ~key
  BY <1>1 DEF Readable
<1>3. /\ "OpenDb" \in Left /\ ~isOpen /\ mode \in {"opening", "recovering"}
  <2>1. "OpenDb" \in Left
    BY <1>1, DoesType DEF Left, Steps
  <2>2. QED
    BY <2>1 DEF Safe, StepsSafe, Opening, OpenSafe, NeedsClosed
<1>4. Left \cap {"Resolve", "DropMarker", "MainBack"} = {}
  <2>1. /\ Left = Steps(Tail(todo)) \cup {"OpenDb"}
        /\ \A later \in Steps(Tail(todo)) : FirstPlace("OpenDb") < LastPlace(later)
    BY <1>1, TailOfProgram DEF Safe, StepsSafe
  <2>2. \A later \in Steps(Tail(todo)) : later \notin {"Resolve", "DropMarker", "MainBack"}
    BY <2>1, NotLater DEF PutsBack
  <2>3. QED
    BY <2>1, <2>2
<1>5. marker = None
  BY <1>2, <1>3, <1>4 DEF Safe, StepsSafe, FilesSafe, Opening, MarkerSafe, Undone
<1>6. ~TidyingUp
  <2>1. "Prune" \notin Left
    BY <1>3 DEF Safe, StepsSafe, OpenSafe, NeedsOpen
  <2>2. DOMAIN todo = 1 .. Len(todo)
    BY DEF Typed, TodoTyped
  <2>3. QED
    BY <2>1, <2>2 DEF TidyingUp, Left, Steps
<1>7. UNCHANGED <<quarantine, key, marker, session, finalize, lastVersion>>
  BY <1>1 DEF Throw
<1>8. live' = live /\ ~isOpen' /\ isOpen' = isOpen
      /\ \/ /\ mode = "recovering" /\ mode' = "undoing" /\ todo' = RollbackSteps(session)
         \/ mode' = "idle" /\ todo' = <<>>
  BY <1>1, <1>3, <1>5, <1>6 DEF Throw, RollsBack, Typed, FlagsTyped
<1>9. ~Undone' /\ ~Valid' /\ ~Undone
  BY <1>5, <1>7 DEF Undone, Valid
<1>10. FilesSafe'
  BY <1>7, <1>8, <1>9 DEF Safe, FilesSafe, LogsSafe, Newest, UpTo, MarkerSafe
<1>11. StepsSafe'
  <2>1. CASE mode' = "idle" /\ todo' = <<>>
    <3>1. Left' = {} /\ InOrder'
      BY <2>1 DEF Left, Steps, InOrder, Ordered
    <3>2. QED
      BY <1>2, <1>5, <1>7, <1>8, <2>1, <3>1
      DEF StepsSafe, OpenSafe, Resting, Beginning, RollingBack, Opening, Recovering
  <2>2. CASE mode = "recovering" /\ mode' = "undoing" /\ todo' = RollbackSteps(session)
    <3>1. ~LongRollback(session)
      BY <1>2, <1>3, <1>4, <2>2 DEF Safe, StepsSafe, Recovering, LongRollback
    <3>2. Left' = {"DropMarker", "DropPending", "DropQuarantine"} /\ InOrder'
      BY <2>2, <3>1, RollbackProgram DEF Left, InOrder
    <3>3. OpenSafe' /\ Resting' /\ Beginning'
      BY <1>8, <2>2, <3>2 DEF OpenSafe, Resting, Beginning, NeedsOpen, OfBeginning
    <3>4. RollingBack' /\ Opening' /\ Recovering'
      BY <1>2, <1>5, <1>7, <1>8, <1>9, <2>2, <3>2
      DEF RollingBack, Opening, Recovering, PutsBack
    <3>5. QED
      BY <3>2, <3>3, <3>4 DEF StepsSafe
  <2>3. QED
    BY <1>8, <2>1, <2>2
<1>12. Stutters
  BY <1>7, <1>8, <1>9, <1>10, Unmoved DEF Safe, FilesSafe
<1>13. QED
  BY <1>10, <1>11, <1>12 DEF Safe, Maps


-----------------------------------------------------------------------------
(* Until the first step throws, every step is safe.                        *)

Calm == faults \in Nat /\ (faults = 0 => Safe)

(* A log that was never checkpointed belongs to a database that can be     *)
(* opened, and no file is damaged.                                         *)
Sealed ==
  /\ Damaged = {}
  /\ \A device \in Devices0 : device[1].wal # None => device[1].main # None /\ device[2]

LEMMA InitCalm == Sealed /\ Init => Calm
<1> SUFFICES ASSUME Sealed, Init
             PROVE  Calm
  OBVIOUS
<1>1. PICK device \in Devices0 : live = device[1] /\ key = device[2]
  BY DEF Init
<1>2. live.wal # None => key /\ live.main # None
  BY <1>1 DEF Sealed
<1>3. live \in Family
  BY InitTyped DEF Typed, FilesTyped
<1>4. /\ marker = None /\ mode = "down" /\ todo = <<>> /\ ~isOpen /\ faults = 0
      /\ DOMAIN quarantine = {} /\ lastVersion = IF live.main = None THEN 0 ELSE Ledger(live)
  BY DEF Init
<1>5. ~Undone /\ ~Valid
  BY <1>4 DEF Undone, Valid
<1>6. FilesSafe
  <2>1. LogsSafe /\ MarkerSafe
    BY <1>2, <1>4, <1>5 DEF LogsSafe, MarkerSafe
  <2>2. Ledger(live) # None => Ledger(live) <= lastVersion
    <3>1. Ledger(live) # None => live.main # None /\ Ledger(live) \in Nat
      BY <1>2, <1>3, BoundsAssumption DEF Ledger, Family, Versions
    <3>2. QED
      BY <1>4, <3>1
  <2>3. QED
    BY <1>4, <2>1, <2>2 DEF FilesSafe, Newest, UpTo
<1>7. Left = {} /\ InOrder
  BY <1>4 DEF Left, Steps, InOrder, Ordered
<1>8. StepsSafe
  BY <1>4, <1>7 DEF StepsSafe, OpenSafe, Resting, Beginning, RollingBack, Opening, Recovering
<1>9. QED
  BY <1>4, <1>6, <1>8 DEF Calm, Safe

LEMMA CalmStep ==
  ASSUME Typed, Safe, Damaged = {}, Next, ~Fault, ~LeaveQuarantine
  PROVE  Safe' /\ Maps
<1>1. CASE MarkerStep
  BY <1>1, DroppingStep, PreparingStep, QuarantinedStep, ValidatedStep, DropMarkerStep
  DEF MarkerStep
<1>2. CASE FileStep
  BY <1>2, DroppingStep, MoveMainStep, MainBackStep DEF FileStep
<1>3. CASE DatabaseStep
  BY <1>3, ResolveStep, OpenDbStep, OpenFailsStep, RestoreStep DEF DatabaseStep
<1>4. CASE Kill \/ Launch \/ Commit \/ Checkpoint \/ Recover \/ Purge
  BY <1>4, UserStep
<1>5. QED
  BY <1>1, <1>2, <1>3, <1>4 DEF Next, ProcessStep

LEMMA FaultsGrow ==
  ASSUME [Next]_vars
  PROVE  \/ faults' = faults /\ ~Fault /\ ~LeaveQuarantine
         \/ faults' = faults + 1
<1>1. faults' = faults \/ (Fault \/ LeaveQuarantine)
  <2>1. CASE MarkerStep \/ FileStep
    BY <2>1 DEF MarkerStep, FileStep, WritePending, Preparing, Quarantined, Validated, DropMarker,
            DropPending, MoveMain, MoveWal, DropWal, DropMain, MainBack, WalBack, DropQuarantine,
            DropKey, Finished, Prune, PurgeAll, Publish, StepRest, counters
  <2>2. CASE DatabaseStep
    BY <2>2 DEF DatabaseStep, Resolve, OpenDb, OpenFails, Restore, counters
  <2>3. CASE Kill \/ Launch \/ Commit \/ Checkpoint \/ Recover \/ Purge
    BY <2>3 DEF Kill, Launch, Commit, Checkpoint, Recover, Purge, counters
  <2>4. CASE UNCHANGED vars
    BY <2>4 DEF vars, counters
  <2>5. QED
    BY <2>1, <2>2, <2>3, <2>4 DEF Next, ProcessStep
<1>2. Fault \/ LeaveQuarantine => faults' = faults + 1
  BY DEF Fault, LeaveQuarantine
<1>3. QED
  BY <1>1, <1>2

LEMMA NextCalm ==
  ASSUME Damaged = {}, Typed, Calm, [Next]_vars
  PROVE  /\ Calm'
         /\ \/ Durable!Next
            \/ Stutters /\ (faults > 0)' = (faults > 0)
<1>1. CASE faults' # 0
  <2>1. faults' \in Nat /\ faults' > 0
    BY <1>1, FaultsGrow DEF Calm
  <2>2. Durable!Next
    BY <2>1 DEF Durable!Next, Durable!Break
  <2>3. QED
    BY <1>1, <2>1, <2>2 DEF Calm
<1>2. CASE faults' = 0
  <2>1. faults = 0 /\ ~Fault /\ ~LeaveQuarantine /\ Safe
    BY <1>2, FaultsGrow DEF Calm
  <2>2. Safe' /\ Maps
    <3>1. CASE Next
      BY <2>1, <3>1, CalmStep
    <3>2. CASE UNCHANGED vars
      <4>1. /\ Left' = Left /\ UNCHANGED vars /\ (Valid' <=> Valid) /\ (Undone' <=> Undone)
            /\ UNCHANGED <<live, quarantine, key, marker, mode, todo, session, isOpen, finalize,
                           lastVersion>>
        BY <3>2 DEF Left, Valid, Undone, vars, files, markers, process, counters
      <4>2. MainIn(marker.session)' = MainIn(marker.session) /\ MainIn(session)' = MainIn(session)
        BY <4>1 DEF MainIn, InQuarantine
      <4>3. FilesSafe'
        BY <2>1, <4>1, <4>2 DEF Safe, FilesSafe, LogsSafe, Newest, UpTo, MarkerSafe
      <4>4. StepsSafe'
        BY <2>1, <4>1, <4>2 DEF Safe, StepsSafe, OpenSafe, Resting, Beginning, RollingBack,
                                Opening, Recovering, InOrder
      <4>5. Stutters
        BY <2>1, <4>1, <4>2, <4>3, Unmoved DEF Safe, FilesSafe
      <4>6. QED
        BY <4>3, <4>4, <4>5 DEF Safe, Maps
    <3>3. QED
      BY <3>1, <3>2
  <2>3. Calm' /\ ~(faults' > 0) /\ ~(faults > 0)
    BY <1>2, <2>1, <2>2 DEF Calm
  <2>4. CASE Stutters
    BY <2>3, <2>4
  <2>5. CASE ~Stutters
    BY <2>2, <2>3, <2>5 DEF Maps, Durable!Next
  <2>6. QED
    BY <2>3, <2>4, <2>5
<1>3. QED
  BY <1>1, <1>2

LEMMA InitMaps == Init => Durable!Init
<1> SUFFICES ASSUME Init
             PROVE  Durable!Init
  OBVIOUS
<1>1. live \in Family
  BY InitTyped DEF Typed, FilesTyped
<1>2. marker = None /\ ~isOpen /\ faults = 0
  BY DEF Init
<1>3. Recoverable = Ledger(live)
  BY <1>2 DEF Recoverable
<1>4. Recoverable \in 0 .. MaxVersion \cup {None}
  BY <1>1, <1>3, LedgerType DEF Versions
<1>5. QED
  BY <1>2, <1>4 DEF Durable!Init

(* Whatever is opened, committed, recovered, restored, rolled back, purged *)
(* and killed, at any step and any number of times: there is one ledger,   *)
(* the one the next start will find; the open database shows it and only   *)
(* a commit or a restore changes it.  It is promised until the first file  *)
(* operation throws, on a device whose files are not damaged and whose     *)
(* database, if its last commits are still in the log, can be opened.      *)
THEOREM LedgerIsDurable == Sealed => (Spec => ImplementsDurableLedger)
<1> SUFFICES ASSUME Sealed
             PROVE  Spec => ImplementsDurableLedger
  OBVIOUS
<1>1. Init => Typed /\ Calm
  BY InitTyped, InitCalm
<1>2. Typed /\ Calm /\ [Next]_vars => Typed' /\ Calm'
  BY NextTyped, NextCalm DEF Sealed
<1>3. Init => Durable!Init
  BY InitMaps
<1>4. Typed /\ Calm /\ [Next]_vars =>
        [Durable!Next]_<<Recoverable, IF isOpen THEN Ledger(live) ELSE None, faults > 0>>
  BY NextCalm DEF Sealed, Stutters, Shown
<1>5. QED
  BY <1>1, <1>2, <1>3, <1>4, PTL DEF Spec, ImplementsDurableLedger, Durable!Spec
=============================================================================
