---------------------------- MODULE RemindersProofs ----------------------------
(***************************************************************************)
(* Theorems about Reminders, for every set of bills and rules, every hash, *)
(* every cap and any number of overlapping calls.                          *)
(*                                                                         *)
(* Sound says what the map and the platform owe each other at every step   *)
(* of a call.  What a sync wants is a matter of the operators alone: the   *)
(* drafts are in due order, and no two of them get the same id.            *)
(***************************************************************************)
EXTENDS Reminders, FiniteSetTheorems, WellFoundedInduction, TLAPS

-----------------------------------------------------------------------------
(* Types.                                                                  *)

LEMMA RemindsType ==
  ASSUME NEW row, NEW day \in 0 .. MaxDay, NEW t \in 0 .. MaxTime
  PROVE  Reminds(row, day, t) \in 0 .. MaxTime
BY RemindersAssumption DEF Reminds, EveBefore, Morning, MaxTime

LEMMA DesiredType ==
  ASSUME NEW items \in [Rows -> 0 .. MaxDay \union {None}],
         NEW detailed \in BOOLEAN, NEW t \in 0 .. MaxTime
  PROVE  Desired(items, detailed, t) \in Schedules
<1> DEFINE drafts == Drafts(items, t)
           ids == IdsOf(drafts)
           Holders(id) == {row \in Wanted(items) :
                             \E i \in DOMAIN ids : ids[i] = id /\ drafts[i] = row}
           Reminder(row) == [row |-> row, when |-> Reminds(row, items[row], t),
                             details |-> detailed]
<1>1. ASSUME NEW row \in Wanted(items)
      PROVE  Reminder(row) \in Signature
  <2>1. row \in Rows /\ items[row] \in 0 .. MaxDay
    BY DEF Wanted
  <2>2. Reminds(row, items[row], t) \in 0 .. MaxTime
    BY <2>1, RemindsType
  <2>3. QED
    BY <2>1, <2>2 DEF Signature
<1>2. \A id \in Ids : Holders(id) # {} =>
        (CHOOSE row \in Holders(id) : TRUE) \in Wanted(items)
  OBVIOUS
<1>3. Desired(items, detailed, t) =
        [id \in Ids |-> IF Holders(id) = {} THEN None
                        ELSE Reminder(CHOOSE row \in Holders(id) : TRUE)]
  BY DEF Desired
<1> HIDE DEF Holders, Reminder
<1>4. QED
  BY <1>1, <1>2, <1>3 DEF Schedules

LEMMA IdleType == Idle \in Task /\ Nothing \in Schedules
BY DEF Idle, Task, Nothing, Schedules

(* The parts of the state a call changes.                                  *)
CallsTyped == tasks \in [Tasks -> Task]
LooseTyped == loose \in SUBSET Ids

Unchanged == UNCHANGED <<now, due, details, enabled, managed, platform, changes, faults>>

LEMMA UnchangedType ==
  ASSUME TypeOK, CallsTyped', LooseTyped', Unchanged
  PROVE  TypeOK'
BY DEF Unchanged, TypeOK, CallsTyped, LooseTyped

(* A call changes these parts and no clock or row.                         *)
LEMMA FrameType ==
  ASSUME TypeOK, CallsTyped', LooseTyped',
         managed' \in Schedules, platform' \in Schedules, enabled' \in BOOLEAN,
         details' \in BOOLEAN, changes' \in 0 .. MaxChanges, faults' \in 0 .. MaxFaults,
         now' = now, due' = due
  PROVE  TypeOK'
BY DEF TypeOK, CallsTyped, LooseTyped

LEMMA BeginType ==
  ASSUME TypeOK, NEW t \in Tasks, NEW goal \in {"sync", "on", "off"},
         NEW at \in {"start", "chosen"}, Begin(t, goal, at)
  PROVE  CallsTyped'
<1>1. due \in [Rows -> 0 .. MaxDay \union {None}]
  BY RemindersAssumption DEF TypeOK
<1>2. [Idle EXCEPT !.at = at, !.goal = goal, !.items = due, !.solo = AtRest] \in Task
  BY <1>1, IdleType DEF Task, AtRest
<1>3. \A u \in Tasks : [tasks[u] EXCEPT !.solo = FALSE, !.acted = {}] \in Task
  BY DEF TypeOK, Task
<1>4. QED
  BY <1>2, <1>3, IdleType DEF Begin, CallsTyped

LEMMA EndType ==
  ASSUME TypeOK, NEW t \in Tasks, NEW done \in BOOLEAN, End(t, done)
  PROVE  CallsTyped' /\ LooseTyped'
<1>1. tasks[t].acted \subseteq Ids
  BY DEF TypeOK, Task
<1>2. LooseAfter(tasks[t], done) \in SUBSET Ids
  BY <1>1 DEF LooseAfter, TypeOK
<1>3. QED
  BY <1>2, IdleType DEF End, TypeOK, CallsTyped, LooseTyped

LEMMA GoOnType ==
  ASSUME TypeOK, NEW t \in Tasks, NEW on, GoOn(t, on)
  PROVE  CallsTyped' /\ LooseTyped'
<1>1. CASE End(t, TRUE)
  BY <1>1, EndType
<1>2. CASE /\ tasks' = [tasks EXCEPT ![t] = [Idle EXCEPT !.at = "start", !.items = due,
                                                         !.solo = tasks[t].solo]]
           /\ UNCHANGED loose
  <2>1. due \in [Rows -> 0 .. MaxDay \union {None}] /\ tasks[t].solo \in BOOLEAN
    BY RemindersAssumption DEF TypeOK, Task
  <2>2. [Idle EXCEPT !.at = "start", !.items = due, !.solo = tasks[t].solo] \in Task
    BY <2>1, IdleType DEF Task
  <2>3. QED
    BY <1>2, <2>2 DEF TypeOK, CallsTyped, LooseTyped
<1>3. QED
  BY <1>1, <1>2 DEF GoOn

LEMMA PlanType ==
  ASSUME TypeOK, NEW t \in Tasks, Plan(t)
  PROVE  TypeOK'
<1> DEFINE plan == IF tasks[t].goal = "off" THEN Nothing
                   ELSE Desired(tasks[t].items, details, now)
           planned == [tasks[t] EXCEPT !.at = "calls", !.items = Idle.items, !.plan = plan,
                                       !.cancel = Gone(plan), !.put = Changed(plan)]
<1>1. plan \in Schedules
  BY DesiredType, IdleType DEF TypeOK, Task
<1>2. tasks' = [tasks EXCEPT ![t] = planned]
  BY DEF Plan
<1>3. Gone(plan) \in SUBSET Ids /\ Changed(plan) \in SUBSET Ids
  BY DEF Gone, Changed
<1>4. Idle.items \in [Rows -> 0 .. MaxDay \union {None}]
  BY DEF Idle
<1> HIDE DEF plan
<1>5. planned \in Task
  BY <1>1, <1>3, <1>4 DEF TypeOK, Task
<1> HIDE DEF planned
<1>6. UNCHANGED <<now, due, stored, platform, loose, changes, faults>>
  BY Zenon DEF Plan
<1>7. CallsTyped' /\ LooseTyped'
  BY <1>2, <1>5, <1>6 DEF TypeOK, CallsTyped, LooseTyped
<1>8. Unchanged
  BY <1>6 DEF Unchanged, stored
<1>9. QED
  BY <1>7, <1>8, UnchangedType

LEMMA CallType ==
  ASSUME TypeOK, NEW t \in Tasks, Cancel(t) \/ Put(t)
  PROVE  TypeOK'
<1>0. tasks[t] \in Task /\ tasks[t].plan \in Schedules
  BY DEF TypeOK, Task
<1> DEFINE Acted(id) == IF tasks[t].solo THEN tasks[t].acted \union {id} ELSE {}
           Cancelled(id) == [tasks[t] EXCEPT !.cancel = tasks[t].cancel \ {id}, !.acted = Acted(id)]
           Done(id) == [tasks[t] EXCEPT !.put = tasks[t].put \ {id}, !.acted = Acted(id)]
<1>1. ASSUME Cancel(t)
      PROVE  CallsTyped' /\ platform' \in Schedules
  <2>1. PICK id \in tasks[t].cancel :
          /\ platform' = [platform EXCEPT ![id] = None]
          /\ tasks' = [tasks EXCEPT ![t] = Cancelled(id)]
    BY <1>1 DEF Cancel
  <2>2. id \in Ids /\ Cancelled(id) \in Task
    BY <1>0 DEF Task
  <2>3. platform' \in Schedules
    BY <2>1 DEF TypeOK, Schedules
  <2> HIDE DEF Cancelled
  <2>4. QED
    BY <2>1, <2>2, <2>3 DEF TypeOK, CallsTyped
<1>2. ASSUME Put(t)
      PROVE  CallsTyped' /\ platform' \in Schedules
  <2>1. PICK id \in tasks[t].put :
          /\ platform' = [platform EXCEPT ![id] = tasks[t].plan[id]]
          /\ tasks' = [tasks EXCEPT ![t] = Done(id)]
    BY <1>2 DEF Put
  <2>2. id \in Ids /\ Done(id) \in Task
    BY <1>0 DEF Task
  <2>3. platform' \in Schedules
    BY <1>0, <2>1, <2>2 DEF TypeOK, Schedules
  <2> HIDE DEF Done
  <2>4. QED
    BY <2>1, <2>2, <2>3 DEF TypeOK, CallsTyped
<1>3. CallsTyped' /\ platform' \in Schedules
  BY <1>1, <1>2
<1>4. QED
  BY <1>3, FrameType DEF Cancel, Put, TypeOK, LooseTyped, stored

LEMMA ForgetType ==
  ASSUME TypeOK, NEW t \in Tasks, Forget(t)
  PROVE  TypeOK'
<1>1. [tasks[t] EXCEPT !.at = "forgot", !.acted = {}] \in Task
  BY DEF TypeOK, Task
<1>2. tasks' = [tasks EXCEPT ![t] = [tasks[t] EXCEPT !.at = "forgot", !.acted = {}]]
  BY DEF Forget
<1>3. CallsTyped' /\ LooseTyped'
  BY <1>1, <1>2 DEF Forget, TypeOK, CallsTyped, LooseTyped
<1>4. QED
  BY <1>3, IdleType, FrameType DEF Forget, TypeOK

LEMMA KillType ==
  ASSUME TypeOK, Kill
  PROVE  TypeOK'
<1>1. \A t \in Tasks : LooseAfter(tasks[t], FALSE) \subseteq Ids
  BY DEF TypeOK, Task, LooseAfter
<1>2. CallsTyped' /\ LooseTyped'
  BY <1>1, IdleType DEF Kill, CallsTyped, LooseTyped
<1>3. faults' \in 0 .. MaxFaults
  BY RemindersAssumption DEF Kill, TypeOK
<1>4. /\ now' = now /\ due' = due /\ details' = details /\ enabled' = enabled
      /\ managed' = managed /\ platform' = platform /\ changes' = changes
  BY DEF Kill, stored
<1>5. QED
  BY <1>2, <1>3, <1>4 DEF TypeOK, CallsTyped, LooseTyped

LEMMA SurroundingsType ==
  ASSUME TypeOK, Deliver \/ Tick \/ ChangeRow
  PROVE  TypeOK'
<1>1. ASSUME Deliver
      PROVE  TypeOK'
  BY <1>1 DEF Deliver, TypeOK, Schedules, stored
<1>2. ASSUME Tick
      PROVE  TypeOK'
  BY <1>2, RemindersAssumption DEF Tick, TypeOK, MaxTime, stored
<1>3. ASSUME ChangeRow
      PROVE  TypeOK'
  BY <1>3, RemindersAssumption DEF ChangeRow, TypeOK, stored
<1>4. QED
  BY <1>1, <1>2, <1>3

LEMMA StartType ==
  ASSUME TypeOK, NEW t \in Tasks,
         StartSync(t) \/ StartSwitch(t) \/ SetShowDetails(t)
  PROVE  TypeOK'
<1>1. CallsTyped'
  BY BeginType DEF StartSync, StartSwitch, SetShowDetails
<1>2. QED
  <2>1. CASE StartSync(t)
    BY <1>1, <2>1, UnchangedType DEF StartSync, Unchanged, TypeOK, LooseTyped, stored
  <2>2. CASE StartSwitch(t)
    BY <1>1, <2>2, RemindersAssumption, FrameType DEF StartSwitch, TypeOK, LooseTyped, stored
  <2>3. CASE SetShowDetails(t)
    BY <1>1, <2>3, RemindersAssumption, FrameType DEF SetShowDetails, TypeOK, LooseTyped
  <2>4. QED
    BY <2>1, <2>2, <2>3

LEMMA EndingType ==
  ASSUME TypeOK, NEW t \in Tasks,
         SyncAfterChoice(t) \/ SwitchOn(t) \/ PutTooLate(t) \/ Save(t) \/ SwitchOff(t) \/ Fail(t)
  PROVE  TypeOK'
<1>1. CallsTyped' /\ LooseTyped'
  BY EndType, GoOnType DEF SyncAfterChoice, SwitchOn, PutTooLate, Save, SwitchOff, Fail
<1>2. tasks[t].plan \in Schedules
  BY DEF TypeOK, Task
<1>3. CASE SyncAfterChoice(t) \/ PutTooLate(t)
  BY <1>1, <1>3, UnchangedType DEF SyncAfterChoice, PutTooLate, Unchanged, stored
<1>4. CASE SwitchOn(t)
  BY <1>1, <1>4, FrameType DEF SwitchOn, TypeOK
<1>5. CASE Save(t)
  BY <1>1, <1>2, <1>5, FrameType DEF Save, TypeOK
<1>6. CASE SwitchOff(t)
  BY <1>1, <1>6, FrameType DEF SwitchOff, TypeOK
<1>7. CASE Fail(t)
  BY <1>1, <1>7, RemindersAssumption, FrameType DEF Fail, TypeOK, stored
<1>8. QED
  BY <1>3, <1>4, <1>5, <1>6, <1>7

LEMMA NextType ==
  ASSUME TypeOK, [Next]_vars
  PROVE  TypeOK'
<1>1. ASSUME UNCHANGED vars
      PROVE  TypeOK'
  BY <1>1 DEF vars, stored, TypeOK
<1>2. QED
  BY <1>1, StartType, EndingType, PlanType, CallType, ForgetType, KillType, SurroundingsType
     DEF Next

LEMMA InitType == Init => TypeOK
<1>1. 0 \in 0 .. MaxTime /\ 0 \in 0 .. MaxChanges /\ 0 \in 0 .. MaxFaults
  BY RemindersAssumption DEF MaxTime
<1>2. QED
  BY <1>1, IdleType DEF Init, TypeOK

LEMMA TypeCorrect == Spec => []TypeOK
BY InitType, NextType, PTL DEF Spec

-----------------------------------------------------------------------------
(* The inductive invariant.                                                *)

(* The platform has what a map says of id, unless it delivered it.         *)
Matches(map, id) ==
  \/ platform[id] = map[id]
  \/ platform[id] = None /\ map[id] # None /\ map[id].when <= now

(* The ids of S are as the stored map says, and off means none.            *)
Settled(S) == \A id \in S : Matches(managed, id) /\ (~enabled => managed[id] = None)

(* A call that no other call has overlapped.                               *)
Lone(task) == task.at # "idle" /\ task.solo

Alone == \A t, u \in Tasks : Lone(tasks[t]) /\ u # t => tasks[u].at = "idle"

QuietTask(task) == task.at # "calls" => task.cancel = {} /\ task.put = {} /\ task.acted = {}
Quiet == \A t \in Tasks : QuietTask(tasks[t])

(* Half way, what a lone call did is as its plan says, what it has left is *)
(* no part of that, and the rest is the same in the plan and in the map.   *)
OnCourse(task) ==
  /\ Settled(Ids \ (loose \union task.acted))
  /\ task.goal = "sync" /\ task.at \in {"start", "calls"} => enabled
  /\ task.at = "calls" =>
       /\ task.acted \intersect (task.cancel \union task.put) = {}
       /\ task.cancel \intersect task.put = {}
       /\ \A id \in task.acted : Matches(task.plan, id)
       /\ \A id \in task.cancel : task.plan[id] = None
       /\ \A id \in Ids \ (task.acted \union task.cancel \union task.put) :
            managed[id] = task.plan[id]
       /\ task.goal = "off" => task.plan = Nothing
  /\ task.at = "forgot" => managed = Nothing

Sound ==
  /\ Alone
  /\ Quiet
  /\ AtRest => Settled(Ids \ loose)
  /\ \A t \in Tasks : Lone(tasks[t]) => OnCourse(tasks[t])

LEMMA InitSound == Init => Sound
<1> SUFFICES ASSUME Init
             PROVE  Sound
  OBVIOUS
<1>1. \A t \in Tasks : tasks[t] = Idle
  BY DEF Init
<1>2. Settled(Ids \ loose)
  BY DEF Init, Settled, Matches, Nothing
<1>3. QED
  BY <1>1, <1>2 DEF Sound, Alone, Quiet, QuietTask, Lone, Idle

(* A call ends: nothing more is asked if it was overlapped.                *)
LEMMA EndSound ==
  ASSUME TypeOK, Sound, NEW t \in Tasks, tasks[t].at # "idle", NEW done \in BOOLEAN,
         End(t, done), tasks[t].solo => Settled(Ids \ loose)'
  PROVE  Sound'
<1>1. \A u \in Tasks : tasks'[u] = IF u = t THEN Idle ELSE tasks[u]
  BY DEF End, TypeOK
<1>2. Idle.at = "idle" /\ QuietTask(Idle)
  BY DEF Idle, QuietTask
<1>3. \A u \in Tasks : ~Lone(tasks'[u])
  BY <1>1, <1>2 DEF Sound, Alone, Lone
<1>4. Alone'
  BY <1>3 DEF Alone
<1>5. Quiet'
  BY <1>1, <1>2 DEF Sound, Quiet
<1>6. ~tasks[t].solo => loose' = Ids
  BY DEF End, LooseAfter
<1>7. ~tasks[t].solo => Settled(Ids \ loose)'
  BY <1>6 DEF Settled
<1>8. QED
  BY <1>3, <1>4, <1>5, <1>7 DEF Sound

(* A call goes on.                                                         *)
LEMMA MoveSound ==
  ASSUME TypeOK, Sound, NEW t \in Tasks, tasks[t].at # "idle", NEW task,
         tasks' = [tasks EXCEPT ![t] = task], task.at # "idle", task.solo = tasks[t].solo,
         QuietTask(task), tasks[t].solo => OnCourse(task)'
  PROVE  Sound'
<1>1. \A u \in Tasks : tasks'[u] = IF u = t THEN task ELSE tasks[u]
  BY DEF TypeOK
<1>2. \A u \in Tasks : Lone(tasks'[u]) => u = t /\ tasks[t].solo
  BY <1>1 DEF Sound, Alone, Lone
<1>3. Alone'
  <2> SUFFICES ASSUME NEW v \in Tasks, NEW u \in Tasks, Lone(tasks'[v]), u # v
               PROVE  tasks'[u].at = "idle"
    BY DEF Alone
  <2>1. v = t /\ Lone(tasks[t])
    BY <1>2 DEF Lone
  <2>2. QED
    BY <1>1, <2>1 DEF Sound, Alone
<1>4. Quiet'
  BY <1>1 DEF Sound, Quiet
<1>5. ~AtRest'
  BY <1>1 DEF AtRest
<1>6. \A u \in Tasks : Lone(tasks'[u]) => OnCourse(tasks[u])'
  BY <1>1, <1>2
<1>7. QED
  BY <1>3, <1>4, <1>5, <1>6 DEF Sound

(* A call begins: alone, or to the doubt of all that are under way.        *)
LEMMA BeginSound ==
  ASSUME TypeOK, Sound, NEW t \in Tasks, NEW goal, NEW at, at \notin {"idle", "calls", "forgot"},
         Begin(t, goal, at), goal = "sync" /\ at = "start" => enabled,
         UNCHANGED <<now, enabled, managed, platform, loose>>
  PROVE  Sound'
<1>0. PICK new : new = [Idle EXCEPT !.at = at, !.goal = goal, !.items = due, !.solo = AtRest]
  OBVIOUS
<1>1. /\ new.at = at /\ new.goal = goal /\ new.solo = AtRest
      /\ new.acted = {} /\ new.cancel = {} /\ new.put = {}
  BY <1>0 DEF Idle
<1>2. \A u \in Tasks : tasks'[u] = IF u = t THEN new
                                   ELSE IF tasks[u].at = "idle" THEN Idle
                                   ELSE [tasks[u] EXCEPT !.solo = FALSE, !.acted = {}]
  BY <1>0 DEF Begin
<1>3. \A u \in Tasks : LET v == [tasks[u] EXCEPT !.solo = FALSE, !.acted = {}]
                       IN ~v.solo /\ (QuietTask(tasks[u]) => QuietTask(v))
  BY DEF TypeOK, Task, QuietTask
<1>4. Idle.at = "idle" /\ QuietTask(Idle)
  BY DEF Idle, QuietTask
<1>5. Quiet'
  BY <1>1, <1>2, <1>3, <1>4 DEF Sound, Quiet, QuietTask
<1>6. \A u \in Tasks : Lone(tasks'[u]) => u = t /\ AtRest
  BY <1>1, <1>2, <1>3, <1>4 DEF Lone
<1>7. Alone'
  BY <1>2, <1>4, <1>6 DEF Alone, AtRest
<1>8. ~AtRest'
  BY <1>1, <1>2 DEF AtRest
<1>9. ASSUME AtRest
      PROVE  OnCourse(new)'
  <2>1. Settled(Ids \ loose)
    BY <1>9 DEF Sound
  <2>2. Settled(Ids \ (loose \union {}))'
    BY <2>1 DEF Settled, Matches
  <2>3. QED
    BY <1>1, <2>2 DEF OnCourse
<1>10. \A u \in Tasks : Lone(tasks'[u]) => OnCourse(tasks[u])'
  BY <1>2, <1>6, <1>9
<1>11. QED
  BY <1>5, <1>7, <1>8, <1>10 DEF Sound

(* The clock moves or an alarm is delivered: what matched still matches.   *)
LEMMA CourseKept ==
  ASSUME TypeOK, UNCHANGED <<enabled, managed, loose>>,
         \A map \in Schedules, id \in Ids : Matches(map, id) => Matches(map, id)',
         NEW task \in Task, OnCourse(task)
  PROVE  OnCourse(task)'
<1>1. managed \in Schedules /\ task.plan \in Schedules /\ task.acted \subseteq Ids
  BY DEF TypeOK, Task
<1>2. Settled(Ids \ (loose \union task.acted))
  BY DEF OnCourse
<1>3. Settled(Ids \ (loose \union task.acted))'
  BY <1>1, <1>2 DEF Settled
<1>4. task.at = "calls" => \A id \in task.acted : Matches(task.plan, id)'
  BY <1>1 DEF OnCourse
<1>5. QED
  BY <1>3, <1>4 DEF OnCourse

LEMMA SurroundingsSound ==
  ASSUME TypeOK, Sound, UNCHANGED <<tasks, enabled, managed, loose>>,
         \A map \in Schedules, id \in Ids : Matches(map, id) => Matches(map, id)'
  PROVE  Sound'
<1>1. managed \in Schedules
  BY DEF TypeOK
<1>2. ASSUME NEW t \in Tasks, Lone(tasks'[t])
      PROVE  OnCourse(tasks[t])'
  <2>1. PICK task \in Task : task = tasks[t]
    BY DEF TypeOK
  <2>2. OnCourse(task)
    BY <1>2, <2>1 DEF Sound
  <2>3. OnCourse(task)'
    BY <2>2, CourseKept
  <2>4. QED
    BY <2>1, <2>3
<1>3. Alone' /\ Quiet'
  BY DEF Sound, Alone, Quiet
<1>4. AtRest' => Settled(Ids \ loose)'
  <2>1. Settled(Ids \ loose) => Settled(Ids \ loose)'
    BY <1>1 DEF Settled
  <2>2. QED
    BY <2>1 DEF Sound, AtRest
<1>5. QED
  BY <1>2, <1>3, <1>4 DEF Sound

(* The clock goes on, alarms are delivered, rows change.                   *)
LEMMA WorldSound ==
  ASSUME TypeOK, Sound, Deliver \/ Tick \/ ChangeRow
  PROVE  Sound'
<1>1. UNCHANGED <<tasks, enabled, managed, loose>>
  BY DEF Deliver, Tick, ChangeRow, stored
<1>2. ASSUME NEW map \in Schedules, NEW id \in Ids, Matches(map, id)
      PROVE  Matches(map, id)'
  <2>1. map[id] # None => map[id].when \in Int
    BY RemindersAssumption DEF Schedules, Signature, MaxTime
  <2>2. CASE Deliver
    <3>1. PICK j \in Ids : /\ platform[j] # None /\ platform[j].when <= now
                           /\ platform' = [platform EXCEPT ![j] = None]
      BY <2>2 DEF Deliver
    <3>2. now' = now
      BY <2>2 DEF Deliver
    <3>3. platform'[id] = IF id = j THEN None ELSE platform[id]
      BY <3>1 DEF TypeOK, Schedules
    <3>4. QED
      BY <1>2, <3>1, <3>2, <3>3 DEF Matches
  <2>3. CASE Tick
    <3>1. now' = now + 1 /\ platform' = platform /\ now \in Int
      BY <2>3, RemindersAssumption DEF Tick, TypeOK, MaxTime
    <3>2. QED
      BY <1>2, <2>1, <3>1 DEF Matches
  <2>4. CASE ChangeRow
    <3>1. now' = now /\ platform' = platform
      BY <2>4 DEF ChangeRow
    <3>2. QED
      BY <1>2, <3>1 DEF Matches
  <2>5. QED
    BY <2>2, <2>3, <2>4
<1>3. QED
  BY <1>1, <1>2, SurroundingsSound

(* Calls that begin.                                                       *)
LEMMA StartSound ==
  ASSUME TypeOK, Sound, NEW t \in Tasks,
         StartSync(t) \/ StartSwitch(t) \/ SetShowDetails(t)
  PROVE  Sound'
<1>1. CASE StartSync(t)
  <2>1. Begin(t, "sync", "start") /\ enabled
    BY <1>1 DEF StartSync
  <2>2. UNCHANGED <<now, enabled, managed, platform, loose>>
    BY <1>1 DEF StartSync, stored
  <2>3. QED
    BY <2>1, <2>2, BeginSound
<1>2. CASE StartSwitch(t)
  <2>1. PICK goal \in {"off", "on"} : Begin(t, goal, "start")
    BY <1>2 DEF StartSwitch
  <2>2. UNCHANGED <<now, enabled, managed, platform, loose>>
    BY <1>2 DEF StartSwitch, stored
  <2>3. QED
    BY <2>1, <2>2, BeginSound
<1>3. CASE SetShowDetails(t)
  <2>1. Begin(t, "sync", "chosen")
    BY <1>3 DEF SetShowDetails
  <2>2. UNCHANGED <<now, enabled, managed, platform, loose>>
    BY <1>3 DEF SetShowDetails
  <2>3. QED
    BY <2>1, <2>2, BeginSound
<1>4. QED
  BY <1>1, <1>2, <1>3

(* A call under way that no other overlapped is on course.                 *)
LEMMA SoloOnCourse ==
  ASSUME Sound, NEW t \in Tasks, tasks[t].at # "idle", tasks[t].solo
  PROVE  OnCourse(tasks[t])
BY DEF Sound, Lone

(* The settings screen goes on with a sync, or it is over.                 *)
LEMMA GoOnSound ==
  ASSUME TypeOK, Sound, NEW t \in Tasks, tasks[t].at \in {"start", "chosen"},
         GoOn(t, enabled'), UNCHANGED <<now, managed, platform>>, enabled => enabled'
  PROVE  Sound'
<1>1. QuietTask(tasks[t]) /\ tasks[t].acted = {}
  BY DEF Sound, Quiet, QuietTask
<1>2. tasks[t].solo => Settled(Ids \ loose)
  BY <1>1, SoloOnCourse DEF OnCourse
<1>3. CASE End(t, TRUE)
  <2>1. tasks[t].solo => loose' = loose
    BY <1>1, <1>3 DEF End, LooseAfter
  <2>2. tasks[t].solo => Settled(Ids \ loose)'
    BY <1>2, <2>1 DEF Settled, Matches
  <2>3. QED
    BY <1>3, <2>2, EndSound
<1>4. CASE /\ enabled' /\ UNCHANGED loose
           /\ tasks' = [tasks EXCEPT ![t] = [Idle EXCEPT !.at = "start", !.items = due,
                                                         !.solo = tasks[t].solo]]
  <2>1. PICK task : task = [Idle EXCEPT !.at = "start", !.items = due, !.solo = tasks[t].solo]
    OBVIOUS
  <2>2. /\ task.at = "start" /\ task.solo = tasks[t].solo
        /\ task.acted = {} /\ task.cancel = {} /\ task.put = {}
    BY <2>1 DEF Idle
  <2>3. tasks[t].solo => Settled(Ids \ (loose \union task.acted))'
    BY <1>2, <1>4, <2>2 DEF Settled, Matches
  <2>4. tasks[t].solo => OnCourse(task)'
    BY <1>4, <2>2, <2>3 DEF OnCourse
  <2>5. QuietTask(task)
    BY <2>2 DEF QuietTask
  <2>6. tasks' = [tasks EXCEPT ![t] = task]
    BY <1>4, <2>1
  <2>7. QED
    BY <2>2, <2>4, <2>5, <2>6, MoveSound
<1>5. QED
  BY <1>3, <1>4 DEF GoOn

LEMMA GoingOnSound ==
  ASSUME TypeOK, Sound, NEW t \in Tasks, SyncAfterChoice(t) \/ SwitchOn(t)
  PROVE  Sound'
<1>1. CASE SyncAfterChoice(t)
  <2>1. enabled' = enabled /\ UNCHANGED <<now, managed, platform>>
    BY <1>1 DEF SyncAfterChoice, stored
  <2>2. GoOn(t, enabled) /\ tasks[t].at = "chosen"
    BY <1>1 DEF SyncAfterChoice
  <2>3. GoOn(t, enabled')
    BY <2>1, <2>2
  <2>4. QED
    BY <2>1, <2>2, <2>3, GoOnSound
<1>2. CASE SwitchOn(t)
  <2>1. enabled => enabled'
    BY <1>2 DEF SwitchOn, TypeOK
  <2>2. QED
    BY <1>2, <2>1, GoOnSound DEF SwitchOn
<1>3. QED
  BY <1>1, <1>2

(* The plan: what is not in it goes, what differs from it is put.          *)
LEMMA PlanSound ==
  ASSUME TypeOK, Sound, NEW t \in Tasks, Plan(t)
  PROVE  Sound'
<1> DEFINE plan == IF tasks[t].goal = "off" THEN Nothing
                   ELSE Desired(tasks[t].items, details, now)
<1>1. PICK task : task = [tasks[t] EXCEPT !.at = "calls", !.items = Idle.items, !.plan = plan,
                                          !.cancel = Gone(plan), !.put = Changed(plan)]
  OBVIOUS
<1>2. tasks' = [tasks EXCEPT ![t] = task]
  BY <1>1 DEF Plan
<1>3. UNCHANGED <<now, enabled, managed, platform, loose>>
  BY DEF Plan, stored
<1>4. tasks[t].at = "start" /\ tasks[t].acted = {}
  BY DEF Plan, Sound, Quiet, QuietTask
<1>5. tasks[t].goal = "off" => plan = Nothing
  OBVIOUS
<1> HIDE DEF plan
<1>6. /\ task.at = "calls" /\ task.plan = plan /\ task.goal = tasks[t].goal
      /\ task.cancel = Gone(plan) /\ task.put = Changed(plan)
      /\ task.acted = {} /\ task.solo = tasks[t].solo
  BY <1>1, <1>4 DEF TypeOK, Task
<1>7. ASSUME tasks[t].solo
      PROVE  OnCourse(task)'
  <2>1. OnCourse(tasks[t])
    BY <1>4, <1>7, SoloOnCourse
  <2>2. Settled(Ids \ (loose \union task.acted))'
    BY <1>3, <1>4, <1>6, <2>1 DEF OnCourse, Settled, Matches
  <2>3. task.goal = "sync" => enabled'
    BY <1>3, <1>4, <1>6, <2>1 DEF OnCourse
  <2>4. /\ task.cancel \intersect task.put = {}
        /\ \A id \in task.cancel : task.plan[id] = None
        /\ \A id \in Ids \ (task.cancel \union task.put) : managed'[id] = task.plan[id]
    BY <1>3, <1>6 DEF Gone, Changed
  <2>5. QED
    BY <1>5, <1>6, <2>2, <2>3, <2>4 DEF OnCourse
<1>8. QED
  BY <1>2, <1>4, <1>6, <1>7, MoveSound DEF QuietTask

(* One call of the plugin, about id, and the call of the app after it.     *)
CallsPlugin(before, id, after) ==
  /\ \/ platform' = [platform EXCEPT ![id] = before.plan[id]]
     \/ id \in before.cancel /\ platform' = [platform EXCEPT ![id] = None]
  /\ after.at = before.at /\ after.goal = before.goal
  /\ after.plan = before.plan /\ after.solo = before.solo
  /\ after.acted = IF before.solo THEN before.acted \union {id} ELSE {}
  /\ after.cancel \subseteq before.cancel /\ after.put \subseteq before.put
  /\ before.cancel \union before.put = after.cancel \union after.put \union {id}
  /\ before.cancel \intersect before.put = {} => id \notin after.cancel \union after.put

LEMMA CallSound ==
  ASSUME TypeOK, Sound, NEW t \in Tasks, Cancel(t) \/ Put(t)
  PROVE  Sound'
<1>1. UNCHANGED <<now, enabled, managed, loose>>
  BY DEF Cancel, Put, stored
<1>2. PICK id, task :
        CallsPlugin(tasks[t], id, task) /\ tasks' = [tasks EXCEPT ![t] = task]
  <2>1. tasks[t] \in Task
    BY DEF TypeOK
  <2>2. CASE Cancel(t)
    <3>1. PICK id \in tasks[t].cancel :
            /\ platform' = [platform EXCEPT ![id] = None]
            /\ tasks' = [tasks EXCEPT ![t].cancel = @ \ {id}, ![t].acted = IF tasks[t].solo THEN @ \union {id} ELSE {}]
      BY <2>2 DEF Cancel
    <3>2. PICK task : task = [tasks[t] EXCEPT !.cancel = tasks[t].cancel \ {id},
                               !.acted = IF tasks[t].solo THEN tasks[t].acted \union {id} ELSE {}]
      OBVIOUS
    <3>3. tasks' = [tasks EXCEPT ![t] = task]
      BY <3>1, <3>2
    <3>4. /\ task.at = tasks[t].at /\ task.goal = tasks[t].goal
          /\ task.plan = tasks[t].plan /\ task.solo = tasks[t].solo
          /\ task.acted = (IF tasks[t].solo THEN tasks[t].acted \union {id} ELSE {})
          /\ task.cancel = tasks[t].cancel \ {id} /\ task.put = tasks[t].put
      BY <2>1, <3>2 DEF Task
    <3>5. CallsPlugin(tasks[t], id, task)
      BY <3>1, <3>4 DEF CallsPlugin
    <3>6. QED
      BY <3>3, <3>5
  <2>3. CASE Put(t)
    <3>1. PICK id \in tasks[t].put :
            /\ platform' = [platform EXCEPT ![id] = tasks[t].plan[id]]
            /\ tasks' = [tasks EXCEPT ![t].put = @ \ {id}, ![t].acted = IF tasks[t].solo THEN @ \union {id} ELSE {}]
      BY <2>3 DEF Put
    <3>2. PICK task : task = [tasks[t] EXCEPT !.put = tasks[t].put \ {id},
                               !.acted = IF tasks[t].solo THEN tasks[t].acted \union {id} ELSE {}]
      OBVIOUS
    <3>3. tasks' = [tasks EXCEPT ![t] = task]
      BY <3>1, <3>2
    <3>4. /\ task.at = tasks[t].at /\ task.goal = tasks[t].goal
          /\ task.plan = tasks[t].plan /\ task.solo = tasks[t].solo
          /\ task.acted = (IF tasks[t].solo THEN tasks[t].acted \union {id} ELSE {})
          /\ task.cancel = tasks[t].cancel /\ task.put = tasks[t].put \ {id}
      BY <2>1, <3>2 DEF Task
    <3>5. CallsPlugin(tasks[t], id, task)
      BY <3>1, <3>4 DEF CallsPlugin
    <3>6. QED
      BY <3>3, <3>5
  <2>4. QED
    BY <2>2, <2>3
<1>3. id \in Ids /\ tasks[t].acted \subseteq Ids
  BY <1>2 DEF CallsPlugin, TypeOK, Task
<1>4. tasks[t].at = "calls"
  BY <1>2 DEF CallsPlugin, Sound, Quiet, QuietTask
<1>5. \A j \in Ids \ {id} : platform'[j] = platform[j]
  BY <1>2 DEF CallsPlugin, TypeOK, Schedules
<1>6. ASSUME tasks[t].solo
      PROVE  OnCourse(task)'
  <2>1. OnCourse(tasks[t])
    BY <1>4, <1>6, SoloOnCourse
  <2>2. /\ task.acted = tasks[t].acted \union {id}
        /\ id \in tasks[t].cancel \union tasks[t].put
        /\ tasks[t].acted \intersect (tasks[t].cancel \union tasks[t].put) = {}
        /\ tasks[t].cancel \intersect tasks[t].put = {}
    BY <1>2, <1>4, <1>6, <2>1 DEF CallsPlugin, OnCourse
  <2>3. platform'[id] = task.plan[id]
    BY <1>2, <1>3, <1>4, <2>1 DEF CallsPlugin, OnCourse, TypeOK, Schedules
  <2>4. Settled(Ids \ (loose \union task.acted))'
    <3>1. Settled(Ids \ (loose \union tasks[t].acted))
      BY <2>1 DEF OnCourse
    <3>2. QED
      BY <1>1, <1>5, <2>2, <3>1 DEF Settled, Matches
  <2>5. \A j \in task.acted : Matches(task.plan, j)'
    <3>1. \A j \in tasks[t].acted : j # id /\ j \in Ids /\ Matches(tasks[t].plan, j)
      BY <1>3, <1>4, <2>1, <2>2 DEF OnCourse
    <3>2. QED
      BY <1>1, <1>2, <1>5, <2>2, <2>3, <3>1 DEF CallsPlugin, Matches
  <2>6. /\ task.acted \intersect (task.cancel \union task.put) = {}
        /\ task.cancel \intersect task.put = {}
    BY <1>2, <2>2 DEF CallsPlugin
  <2>7. \A j \in task.cancel : task.plan[j] = None
    BY <1>2, <1>4, <2>1 DEF CallsPlugin, OnCourse
  <2>8. \A j \in Ids \ (task.acted \union task.cancel \union task.put) :
          managed'[j] = task.plan[j]
    <3>1. \A j \in Ids \ (tasks[t].acted \union tasks[t].cancel \union tasks[t].put) :
            managed[j] = tasks[t].plan[j]
      BY <1>4, <2>1 DEF OnCourse
    <3>2. QED
      BY <1>1, <1>2, <2>2, <3>1 DEF CallsPlugin
  <2>9. /\ task.goal = "sync" => enabled'
        /\ task.goal = "off" => task.plan = Nothing
    BY <1>1, <1>2, <1>4, <2>1 DEF CallsPlugin, OnCourse
  <2>10. QED
    BY <1>2, <1>4, <2>4, <2>5, <2>6, <2>7, <2>8, <2>9 DEF CallsPlugin, OnCourse
<1>7. QED
  BY <1>2, <1>4, <1>6, MoveSound DEF CallsPlugin, QuietTask

(* Calls that end before they did all they had planned.                    *)
LEMMA CutShortSound ==
  ASSUME TypeOK, Sound, NEW t \in Tasks, PutTooLate(t) \/ Fail(t)
  PROVE  Sound'
<1>1. tasks[t].at # "idle"
  BY DEF PutTooLate, Fail, Sound, Quiet, QuietTask
<1>2. End(t, FALSE) /\ UNCHANGED <<now, enabled, managed, platform>>
  BY DEF PutTooLate, Fail, stored
<1>3. ASSUME tasks[t].solo
      PROVE  Settled(Ids \ loose)'
  <2>1. Settled(Ids \ (loose \union tasks[t].acted))
    BY <1>1, <1>3, SoloOnCourse DEF OnCourse
  <2>2. loose' = loose \union tasks[t].acted
    BY <1>2, <1>3 DEF End, LooseAfter
  <2>3. QED
    BY <1>2, <2>1, <2>2 DEF Settled, Matches
<1>4. QED
  BY <1>1, <1>2, <1>3, EndSound

(* A sync that did all it had planned: the plan becomes the map.           *)
LEMMA SaveSound ==
  ASSUME TypeOK, Sound, NEW t \in Tasks, Save(t)
  PROVE  Sound'
<1>1. /\ tasks[t].at = "calls" /\ tasks[t].goal = "sync"
      /\ tasks[t].cancel = {} /\ tasks[t].put = {}
  BY DEF Save, AllCalled
<1>2. End(t, TRUE) /\ UNCHANGED <<now, enabled, platform>> /\ managed' = tasks[t].plan
  BY DEF Save
<1>3. ASSUME tasks[t].solo
      PROVE  Settled(Ids \ loose)'
  <2>1. OnCourse(tasks[t])
    BY <1>1, <1>3, SoloOnCourse
  <2>2. loose' = loose \ tasks[t].acted
    BY <1>2, <1>3 DEF End, LooseAfter
  <2>3. ASSUME NEW id \in Ids \ loose'
        PROVE  Matches(tasks[t].plan, id)
    <3>1. CASE id \in tasks[t].acted
      BY <1>1, <2>1, <3>1 DEF OnCourse
    <3>2. CASE id \notin tasks[t].acted
      BY <1>1, <2>1, <2>2, <3>2 DEF OnCourse, Settled, Matches
    <3>3. QED
      BY <3>1, <3>2
  <2>4. enabled
    BY <1>1, <2>1 DEF OnCourse
  <2>5. QED
    BY <1>2, <2>3, <2>4 DEF Settled, Matches
<1>4. QED
  BY <1>1, <1>2, <1>3, EndSound

(* Reminders switched off: first the map is emptied, then the switch set.  *)
LEMMA ForgetSound ==
  ASSUME TypeOK, Sound, NEW t \in Tasks, Forget(t)
  PROVE  Sound'
<1>1. /\ tasks[t].at = "calls" /\ tasks[t].goal = "off"
      /\ tasks[t].cancel = {} /\ tasks[t].put = {}
  BY DEF Forget, AllCalled
<1>2. /\ UNCHANGED <<now, enabled, platform>> /\ managed' = Nothing
      /\ loose' = loose \ tasks[t].acted
  BY DEF Forget
<1>3. PICK task : task = [tasks[t] EXCEPT !.at = "forgot", !.acted = {}]
  OBVIOUS
<1>4. tasks' = [tasks EXCEPT ![t] = task]
  BY <1>3 DEF Forget
<1>5. /\ task.at = "forgot" /\ task.acted = {} /\ task.solo = tasks[t].solo
      /\ task.cancel = {} /\ task.put = {}
  BY <1>1, <1>3 DEF TypeOK, Task
<1>6. ASSUME tasks[t].solo
      PROVE  OnCourse(task)'
  <2>1. OnCourse(tasks[t]) /\ tasks[t].plan = Nothing
    BY <1>1, <1>6, SoloOnCourse DEF OnCourse
  <2>2. ASSUME NEW id \in Ids \ loose'
        PROVE  Matches(Nothing, id)
    <3>1. CASE id \in tasks[t].acted
      BY <1>1, <2>1, <3>1 DEF OnCourse
    <3>2. CASE id \notin tasks[t].acted
      BY <1>1, <1>2, <2>1, <3>2 DEF OnCourse, Settled, Matches
    <3>3. QED
      BY <3>1, <3>2
  <2>3. Settled(Ids \ (loose \union task.acted))'
    BY <1>2, <1>5, <2>2 DEF Settled, Matches, Nothing
  <2>4. QED
    BY <1>2, <1>5, <2>3 DEF OnCourse
<1>7. QED
  BY <1>1, <1>4, <1>5, <1>6, MoveSound DEF QuietTask

LEMMA SwitchOffSound ==
  ASSUME TypeOK, Sound, NEW t \in Tasks, SwitchOff(t)
  PROVE  Sound'
<1>1. tasks[t].at = "forgot" /\ tasks[t].acted = {}
  BY DEF SwitchOff, Sound, Quiet, QuietTask
<1>2. End(t, TRUE) /\ UNCHANGED <<now, managed, platform>>
  BY DEF SwitchOff
<1>3. ASSUME tasks[t].solo
      PROVE  Settled(Ids \ loose)'
  <2>1. Settled(Ids \ loose) /\ managed = Nothing
    BY <1>1, <1>3, SoloOnCourse DEF OnCourse
  <2>2. loose' = loose
    BY <1>1, <1>2, <1>3 DEF End, LooseAfter
  <2>3. QED
    BY <1>2, <2>1, <2>2 DEF Settled, Matches, Nothing
<1>4. QED
  BY <1>1, <1>2, <1>3, EndSound

(* The process dies.                                                       *)
LEMMA KillSound ==
  ASSUME TypeOK, Sound, Kill
  PROVE  Sound'
<1>1. \A u \in Tasks : tasks'[u] = Idle
  BY DEF Kill
<1>2. PICK t \in Tasks : tasks[t].at # "idle"
  BY DEF Kill, AtRest
<1>3. UNCHANGED <<now, enabled, managed, platform>>
  BY DEF Kill, stored
<1>4. LooseAfter(tasks[t], FALSE) \subseteq loose'
  BY <1>2 DEF Kill
<1>5. Settled(Ids \ loose)'
  <2>1. CASE tasks[t].solo
    <3>1. Settled(Ids \ (loose \union tasks[t].acted))
      BY <1>2, <2>1, SoloOnCourse DEF OnCourse
    <3>2. loose \union tasks[t].acted \subseteq loose'
      BY <1>4, <2>1 DEF LooseAfter
    <3>3. QED
      BY <1>3, <3>1, <3>2 DEF Settled, Matches
  <2>2. CASE ~tasks[t].solo
    BY <1>4, <2>2 DEF LooseAfter, Settled
  <2>3. QED
    BY <2>1, <2>2
<1>6. Idle.at = "idle" /\ QuietTask(Idle)
  BY DEF Idle, QuietTask
<1>7. QED
  BY <1>1, <1>5, <1>6 DEF Sound, Alone, Quiet, Lone

LEMMA NextSound == TypeOK /\ Sound /\ [Next]_vars => Sound'
<1> SUFFICES ASSUME TypeOK, Sound, [Next]_vars
             PROVE  Sound'
  OBVIOUS
<1>1. CASE UNCHANGED vars
  BY <1>1 DEF vars, stored, Sound, Alone, Quiet, AtRest, Lone, OnCourse, Settled, Matches
<1>2. ASSUME NEW t \in Tasks,
             \/ StartSync(t) \/ StartSwitch(t) \/ SetShowDetails(t) \/ SyncAfterChoice(t)
             \/ SwitchOn(t) \/ Plan(t) \/ Cancel(t) \/ Put(t) \/ PutTooLate(t)
             \/ Save(t) \/ Forget(t) \/ SwitchOff(t) \/ Fail(t)
      PROVE  Sound'
  BY <1>2, StartSound, GoingOnSound, PlanSound, CallSound, CutShortSound, SaveSound,
     ForgetSound, SwitchOffSound
<1>3. CASE Kill \/ Deliver \/ Tick \/ ChangeRow
  BY <1>3, KillSound, WorldSound
<1>4. QED
  BY <1>1, <1>2, <1>3 DEF Next

-----------------------------------------------------------------------------
(* The order of the drafts.  A row's place is how many rows come before it. *)

Before(row, S, items) == {other \in S : Precedes(other, row, items)}
Place(row, S, items) == Cardinality(Before(row, S, items))

(* Rows that have a day each.                                              *)
Dated(S, items) == S \subseteq Rows /\ \A row \in S : items[row] \in Nat

LEMMA RowsAreFinite ==
  ASSUME NEW S, S \subseteq Rows
  PROVE  S \subseteq Nat /\ IsFiniteSet(S) /\ Cardinality(S) \in Nat
<1>1. Rows \subseteq Nat /\ IsFiniteSet(Rows)
  BY RemindersAssumption DEF Rows
<1>2. IsFiniteSet(S)
  BY <1>1, FS_Subset
<1>3. QED
  BY <1>1, <1>2, FS_CardinalityType

LEMMA PlacesDiffer ==
  ASSUME NEW items, NEW S, Dated(S, items), NEW a \in S, NEW b \in S, Precedes(a, b, items)
  PROVE  Place(a, S, items) < Place(b, S, items)
<1> DEFINE A == Before(a, S, items)
           B == Before(b, S, items)
<1>1. A \subseteq B /\ A # B
  <2>1. \A x \in S : x \in Nat /\ items[x] \in Nat
    BY RowsAreFinite DEF Dated
  <2>2. a \in B /\ a \notin A
    BY <2>1 DEF Before, Precedes
  <2>3. A \subseteq B
    BY <2>1 DEF Before, Precedes
  <2>4. QED
    BY <2>2, <2>3
<1>2. A \subseteq Rows /\ B \subseteq Rows
  BY DEF Before, Dated
<1> HIDE DEF A, B
<1>3. IsFiniteSet(B) /\ Cardinality(A) \in Nat /\ Cardinality(B) \in Nat
  BY <1>2, RowsAreFinite
<1>4. Cardinality(A) <= Cardinality(B) /\ Cardinality(A) # Cardinality(B)
  BY <1>1, <1>3, FS_Subset
<1>5. QED
  BY <1>3, <1>4 DEF Place, A, B

LEMMA PlaceRange ==
  ASSUME NEW items, NEW S, Dated(S, items), NEW row \in S
  PROVE  Place(row, S, items) \in 0 .. Cardinality(S) - 1
<1> DEFINE B == Before(row, S, items)
<1>1. B \in SUBSET (S \ {row}) /\ B \subseteq Rows
  BY RowsAreFinite DEF Before, Precedes, Dated
<1> HIDE DEF B
<1>2. IsFiniteSet(S) /\ Cardinality(S) \in Nat /\ Cardinality(B) \in Nat
  BY <1>1, RowsAreFinite DEF Dated
<1>3. IsFiniteSet(S \ {row}) /\ Cardinality(S \ {row}) = Cardinality(S) - 1
  BY <1>2, FS_RemoveElement
<1>4. Cardinality(B) <= Cardinality(S \ {row})
  BY <1>1, <1>3, FS_Subset
<1>5. QED
  BY <1>2, <1>3, <1>4 DEF Place, B

(* Places tell the rows of a set apart, and none is left free.             *)
LEMMA PlacesTaken ==
  ASSUME NEW items, NEW S, Dated(S, items)
  PROVE  /\ \A a, b \in S : Place(a, S, items) = Place(b, S, items) => a = b
         /\ \A i \in 1 .. Cardinality(S) : \E row \in S : Place(row, S, items) = i - 1
<1> DEFINE n == Cardinality(S)
           f == [row \in S |-> Place(row, S, items) + 1]
<1>1. n \in Nat /\ IsFiniteSet(S) /\ S \subseteq Nat
  BY RowsAreFinite DEF Dated
<1>2. \A row \in S : Place(row, S, items) \in Int /\ Place(row, S, items) + 1 \in 1 .. n
  BY <1>1, PlaceRange
<1>3. \A a, b \in S : Place(a, S, items) = Place(b, S, items) => a = b
  <2>1. SUFFICES ASSUME NEW a \in S, NEW b \in S,
                        Place(a, S, items) = Place(b, S, items), a # b
                 PROVE  FALSE
    OBVIOUS
  <2>2. Precedes(a, b, items) \/ Precedes(b, a, items)
    BY <1>1, <2>1 DEF Precedes, Dated
  <2>3. QED
    BY <1>2, <2>1, <2>2, PlacesDiffer
<1>4. f \in Injection(S, 1 .. n)
  BY <1>2, <1>3 DEF Injection, IsInjective
<1>5. IsFiniteSet(1 .. n) /\ Cardinality(1 .. n) = n
  BY <1>1, FS_Interval
<1>6. f \in Surjection(S, 1 .. n)
  BY <1>4, <1>5, FS_Injection
<1>7. \A i \in 1 .. n : \E row \in S : f[row] = i
  BY <1>6 DEF Surjection
<1>8. QED
  BY <1>2, <1>3, <1>7

LEMMA InDueOrderLists ==
  ASSUME NEW items, NEW S, Dated(S, items)
  PROVE  LET s == InDueOrder(S, items) IN
         /\ s \in Seq(S) /\ Len(s) = Cardinality(S)
         /\ \A row \in S : s[Place(row, S, items) + 1] = row
<1> DEFINE n == Cardinality(S)
           s == InDueOrder(S, items)
           At(i) == CHOOSE row \in S : Place(row, S, items) = i - 1
<1>1. n \in Nat
  BY RowsAreFinite DEF Dated
<1>2. s = [i \in 1 .. n |-> At(i)]
  BY DEF InDueOrder, Place, Before
<1>3. \A i \in 1 .. n : At(i) \in S /\ Place(At(i), S, items) = i - 1
  BY PlacesTaken
<1> HIDE DEF s, At
<1>4. s \in [1 .. n -> S]
  BY <1>2, <1>3
<1>5. s \in Seq(S) /\ Len(s) = n
  BY <1>1, <1>4
<1>6. ASSUME NEW row \in S
      PROVE  s[Place(row, S, items) + 1] = row
  <2> DEFINE i == Place(row, S, items) + 1
  <2>1. i \in 1 .. n /\ i - 1 = Place(row, S, items)
    BY <1>1, PlaceRange
  <2> HIDE DEF i
  <2>2. At(i) \in S /\ Place(At(i), S, items) = Place(row, S, items)
    BY <1>3, <2>1
  <2>3. At(i) = row
    BY <2>2, PlacesTaken
  <2>4. QED
    BY <1>2, <2>1, <2>3 DEF i
<1>7. QED
  BY <1>5, <1>6 DEF s

LEMMA TakeIs ==
  ASSUME NEW S, NEW s \in Seq(S), NEW n \in Nat
  PROVE  /\ Take(s, n) \in Seq(S)
         /\ Len(Take(s, n)) <= n
         /\ \A i \in 1 .. Len(s) : i <= n => i \in 1 .. Len(Take(s, n)) /\ Take(s, n)[i] = s[i]
BY DEF Take

-----------------------------------------------------------------------------
(* The ids of the drafts.                                                  *)

LEMMA NatMin ==
  ASSUME NEW S \in SUBSET Nat, S # {}
  PROVE  \E x \in S : \A y \in S : x <= y
<1> DEFINE R == OpToRel(<, Nat)
<1>1. \A x, y \in Nat : <<x, y>> \in R <=> x < y
  BY DEF OpToRel
<1>2. IsWellFoundedOn(R, Nat)
  BY NatLessThanWellFounded
<1> HIDE DEF R
<1>3. PICK x \in S : \A y \in S : <<y, x>> \notin R
  BY <1>2, WFMin
<1>4. \A y \in S : x \in Nat /\ y \in Nat /\ ~ (y < x)
  BY <1>1, <1>3
<1>5. \A y \in S : x <= y
  BY <1>4
<1>6. QED
  BY <1>5

LEMMA FirstFreeIs ==
  ASSUME NEW id \in Ids, NEW used, Ids \ used # {}
  PROVE  FirstFree(id, used) \in Ids \ used
<1> DEFINE Distance(j) == IF j >= id THEN j - id ELSE j - id + (LastId - FirstId + 1)
           D == {Distance(j) : j \in Ids \ used}
<1>1. \A j \in Ids : Distance(j) \in Nat
  BY RemindersAssumption DEF Ids
<1>2. PICK d \in D : \A e \in D : d <= e
  <2>1. D \in SUBSET Nat /\ D # {}
    BY <1>1
  <2> HIDE DEF D
  <2>2. QED
    BY <2>1, NatMin
<1>3. \E j \in Ids \ used : \A k \in Ids \ used : Distance(j) <= Distance(k)
  BY <1>2
<1>4. QED
  BY <1>3 DEF FirstFree

(* The ids that the first n of the drafts take.                            *)
Probed(ids, drafts, n) ==
  /\ ids \in [1 .. n -> Ids]
  /\ \A i \in 1 .. n :
       ids[i] = FirstFree(StableId[drafts[i]], {ids[j] : j \in 1 .. i - 1})

LEMMA SomeFree ==
  ASSUME NEW n \in Nat, n < TotalCap, NEW ids \in [1 .. n -> Ids]
  PROVE  Ids \ {ids[j] : j \in 1 .. n} # {}
<1> SUFFICES ASSUME Ids \subseteq {ids[j] : j \in 1 .. n} PROVE FALSE
  OBVIOUS
<1>1. ids \in Surjection(1 .. n, Ids)
  BY DEF Surjection
<1>2. IsFiniteSet(1 .. n) /\ Cardinality(1 .. n) = n
  BY FS_Interval
<1>3. IsFiniteSet(Ids) /\ Cardinality(Ids) <= n
  BY <1>1, <1>2, FS_Surjection
<1>4. Cardinality(Ids) \in Nat
  BY <1>3, FS_CardinalityType
<1>5. QED
  BY <1>3, <1>4, RemindersAssumption

LEMMA ProbingGoesOn ==
  ASSUME NEW drafts \in Seq(Rows), NEW n \in Nat, n < Len(drafts), n < TotalCap,
         NEW ids, Probed(ids, drafts, n)
  PROVE  \E more : Probed(more, drafts, n + 1)
<1> DEFINE used == {ids[j] : j \in 1 .. n}
           id == FirstFree(StableId[drafts[n + 1]], used)
           more == [i \in 1 .. n + 1 |-> IF i = n + 1 THEN id ELSE ids[i]]
<1>1. ids \in [1 .. n -> Ids]
  BY DEF Probed
<1>2. n + 1 \in 1 .. Len(drafts) /\ drafts[n + 1] \in Rows
  OBVIOUS
<1>3. StableId[drafts[n + 1]] \in Ids
  BY <1>2, RemindersAssumption
<1>4. id \in Ids
  BY <1>1, <1>3, SomeFree, FirstFreeIs
<1>5. more \in [1 .. n + 1 -> Ids]
  <2>1. \A i \in 1 .. n + 1 : i # n + 1 => i \in 1 .. n
    OBVIOUS
  <2> HIDE DEF id
  <2>2. \A i \in 1 .. n + 1 : (IF i = n + 1 THEN id ELSE ids[i]) \in Ids
    BY <1>1, <1>4, <2>1
  <2>3. QED
    BY <2>2
<1>6. more[n + 1] = id /\ \A i \in 1 .. n : more[i] = ids[i]
  OBVIOUS
<1> HIDE DEF more
<1>7. \A i \in 1 .. n + 1 : {more[j] : j \in 1 .. i - 1} = {ids[j] : j \in 1 .. i - 1}
  <2>1. \A i \in 1 .. n + 1 : \A j \in 1 .. i - 1 : j \in 1 .. n
    OBVIOUS
  <2>2. QED
    BY <1>6, <2>1
<1>8. ASSUME NEW i \in 1 .. n + 1
      PROVE  more[i] = FirstFree(StableId[drafts[i]], {more[j] : j \in 1 .. i - 1})
  <2>1. CASE i = n + 1
    <3>1. {ids[j] : j \in 1 .. i - 1} = used
      BY <2>1
    <3>2. QED
      BY <1>6, <1>7, <2>1, <3>1
  <2>2. CASE i \in 1 .. n
    BY <1>6, <1>7, <2>2 DEF Probed
  <2>3. QED
    BY <2>1, <2>2
<1>9. QED
  BY <1>5, <1>8 DEF Probed

LEMMA ProbingEnds ==
  ASSUME NEW drafts \in Seq(Rows), Len(drafts) <= TotalCap
  PROVE  \E ids : Probed(ids, drafts, Len(drafts))
<1> DEFINE Stuck == {n \in 0 .. Len(drafts) : ~ \E ids : Probed(ids, drafts, n)}
<1> SUFFICES ASSUME Stuck # {} PROVE FALSE
  <2>1. Len(drafts) \in Nat
    OBVIOUS
  <2>2. QED
    BY <2>1
<1>1. PICK n \in Stuck : \A m \in Stuck : n <= m
  <2>1. Stuck \in SUBSET Nat
    OBVIOUS
  <2> HIDE DEF Stuck
  <2>2. QED
    BY <2>1, NatMin
<1>2. CASE n = 0
  <2>1. Probed([i \in 1 .. 0 |-> FirstId], drafts, 0)
    BY DEF Probed
  <2>2. QED
    BY <1>1, <1>2, <2>1
<1>3. CASE n # 0
  <2>1. n - 1 \in Nat /\ n - 1 < Len(drafts) /\ n - 1 < TotalCap /\ (n - 1) + 1 = n
    BY <1>1, <1>3, RemindersAssumption
  <2>2. n - 1 \notin Stuck
    BY <1>1, <2>1
  <2>3. PICK ids : Probed(ids, drafts, n - 1)
    BY <2>1, <2>2
  <2>4. \E more : Probed(more, drafts, n)
    BY <2>1, <2>3, ProbingGoesOn
  <2>5. QED
    BY <1>1, <2>4
<1>4. QED
  BY <1>2, <1>3

(* Every draft has an id of the range, and no two have the same.           *)
LEMMA IdsDiffer ==
  ASSUME NEW drafts \in Seq(Rows), Len(drafts) <= TotalCap
  PROVE  LET ids == IdsOf(drafts) IN
         /\ ids \in [DOMAIN drafts -> Ids]
         /\ \A i, j \in DOMAIN drafts : ids[i] = ids[j] => i = j
<1> DEFINE n == Len(drafts)
           ids == IdsOf(drafts)
<1>1. n \in Nat /\ DOMAIN drafts = 1 .. n
  OBVIOUS
<1>2. \E f \in [DOMAIN drafts -> Ids] :
        \A i \in DOMAIN drafts :
          f[i] = FirstFree(StableId[drafts[i]], {f[j] : j \in 1 .. i - 1})
  BY <1>1, ProbingEnds DEF Probed
<1>3. Probed(ids, drafts, n)
  BY <1>1, <1>2 DEF IdsOf, Probed
<1> HIDE DEF n, ids
<1>4. ids \in [1 .. n -> Ids]
  BY <1>3 DEF Probed
<1>5. ASSUME NEW i \in 1 .. n, NEW j \in 1 .. i - 1
      PROVE  ids[i] # ids[j]
  <2> DEFINE used == {ids[k] : k \in 1 .. i - 1}
  <2>1. i - 1 \in Nat /\ i - 1 < TotalCap /\ [k \in 1 .. i - 1 |-> ids[k]] \in [1 .. i - 1 -> Ids]
    BY <1>1, <1>4, RemindersAssumption DEF n
  <2>2. Ids \ used # {}
    <3> DEFINE g == [k \in 1 .. i - 1 |-> ids[k]]
    <3>1. {g[k] : k \in 1 .. i - 1} = used
      OBVIOUS
    <3> HIDE DEF g, used
    <3>2. g \in [1 .. i - 1 -> Ids]
      BY <2>1 DEF g
    <3>3. QED
      BY <2>1, <3>1, <3>2, SomeFree
  <2>3. StableId[drafts[i]] \in Ids
    BY <1>1, RemindersAssumption DEF n
  <2>4. ids[i] = FirstFree(StableId[drafts[i]], used)
    BY <1>3 DEF Probed
  <2> HIDE DEF used
  <2>5. ids[i] \notin used
    BY <2>2, <2>3, <2>4, FirstFreeIs
  <2>6. QED
    BY <2>5 DEF used
<1>6. \A i, j \in 1 .. n : ids[i] = ids[j] => i = j
  <2>1. SUFFICES ASSUME NEW i \in 1 .. n, NEW j \in 1 .. n, i < j, ids[i] = ids[j]
                 PROVE  FALSE
    BY <1>1
  <2>2. i \in 1 .. j - 1
    BY <1>1, <2>1
  <2>3. QED
    BY <1>5, <2>1, <2>2
<1>7. QED
  BY <1>1, <1>4, <1>6 DEF ids

-----------------------------------------------------------------------------
(* Bills that a sync reminds of.                                           *)

Upcoming(S, items, t) == {r \in S \cap Wanted(items) : Reminds(r, items[r], t) > t}
Listed(S, items, t) == InDueOrder(Upcoming(S, items, t), items)

LEMMA UpcomingDated ==
  ASSUME NEW items \in [Rows -> 1 .. MaxDay \cup {None}], NEW S, S \subseteq Rows, NEW t
  PROVE  Dated(Upcoming(S, items, t), items) /\ Upcoming(S, items, t) \subseteq S
BY RemindersAssumption DEF Dated, Upcoming, Wanted

LEMMA DraftsAre ==
  ASSUME NEW items \in [Rows -> 1 .. MaxDay \cup {None}], NEW t
  PROVE  LET bills == Listed(Bills, items, t) IN
         /\ Drafts(items, t) \in Seq(Rows)
         /\ Len(Drafts(items, t)) <= TotalCap
         /\ \A i \in 1 .. Len(bills) : i <= BillCap =>
              i \in DOMAIN Drafts(items, t) /\ Drafts(items, t)[i] = bills[i]
<1> DEFINE bills == Listed(Bills, items, t)
           rules == Listed(Rules, items, t)
           first == Take(bills, BillCap)
           all == first \o rules
           drafts == Drafts(items, t)
<1>1. drafts = Take(all, TotalCap)
  BY DEF Drafts, Listed, Upcoming
<1>2. BillCap \in Nat /\ TotalCap \in Nat /\ BillCap <= TotalCap
  BY RemindersAssumption
<1>3. Bills \subseteq Rows /\ Rules \subseteq Rows
  BY DEF Rows
<1>4. bills \in Seq(Rows) /\ rules \in Seq(Rows)
  <2>1. \A S \in {Bills, Rules} : Listed(S, items, t) \in Seq(Upcoming(S, items, t))
    BY <1>3, UpcomingDated, InDueOrderLists DEF Listed
  <2>2. \A S \in {Bills, Rules} : Upcoming(S, items, t) \subseteq Rows
    BY <1>3, UpcomingDated
  <2>3. QED
    BY <2>1, <2>2
<1> HIDE DEF bills, rules, drafts
<1>5. first \in Seq(Rows)
      /\ \A i \in 1 .. Len(bills) : i <= BillCap => i \in 1 .. Len(first) /\ first[i] = bills[i]
  BY <1>2, <1>4, TakeIs
<1> HIDE DEF first
<1>6. /\ all \in Seq(Rows)
      /\ \A i \in 1 .. Len(first) : i \in 1 .. Len(all) /\ all[i] = first[i]
  BY <1>4, <1>5
<1> HIDE DEF all
<1>7. /\ drafts \in Seq(Rows) /\ Len(drafts) <= TotalCap
      /\ \A i \in 1 .. Len(all) :
           i <= TotalCap => i \in 1 .. Len(drafts) /\ drafts[i] = all[i]
  BY <1>1, <1>2, <1>6, TakeIs
<1>8. DOMAIN drafts = 1 .. Len(drafts)
  BY <1>7
<1>9. ASSUME NEW i \in 1 .. Len(bills), i <= BillCap
      PROVE  i \in DOMAIN drafts /\ drafts[i] = bills[i]
  <2>1. i \in 1 .. Len(first) /\ first[i] = bills[i] /\ i <= TotalCap
    BY <1>2, <1>4, <1>5, <1>9
  <2>2. QED
    BY <1>6, <1>7, <1>8, <2>1
<1>10. QED
  BY <1>7, <1>9 DEF bills, drafts

(* A sync gives every draft its reminder.                                  *)
LEMMA DraftsAreDesired ==
  ASSUME NEW items \in [Rows -> 1 .. MaxDay \cup {None}], NEW detailed, NEW t,
         NEW i \in DOMAIN Drafts(items, t), Drafts(items, t)[i] \in Wanted(items)
  PROVE  LET row == Drafts(items, t)[i] IN
         \E id \in Ids : Desired(items, detailed, t)[id] =
           [row |-> row, when |-> Reminds(row, items[row], t), details |-> detailed]
<1> DEFINE drafts == Drafts(items, t)
           ids == IdsOf(drafts)
           id == ids[i]
           Holders(x) == {row \in Wanted(items) :
                            \E j \in DOMAIN ids : ids[j] = x /\ drafts[j] = row}
           Reminder(row) == [row |-> row, when |-> Reminds(row, items[row], t),
                             details |-> detailed]
<1>1. /\ ids \in [DOMAIN drafts -> Ids]
      /\ \A j, k \in DOMAIN drafts : ids[j] = ids[k] => j = k
  BY DraftsAre, IdsDiffer
<1>2. Desired(items, detailed, t) =
        [x \in Ids |-> IF Holders(x) = {} THEN None
                       ELSE Reminder(CHOOSE row \in Holders(x) : TRUE)]
  BY DEF Desired
<1>3. i \in DOMAIN drafts /\ drafts[i] \in Wanted(items)
  OBVIOUS
<1> HIDE DEF drafts, ids, Reminder
<1>4. id \in Ids /\ DOMAIN ids = DOMAIN drafts
  BY <1>1, <1>3
<1>5. Holders(id) = {drafts[i]}
  BY <1>1, <1>3, <1>4
<1> HIDE DEF Holders
<1>6. Desired(items, detailed, t)[id] = Reminder(CHOOSE row \in {drafts[i]} : TRUE)
  BY <1>2, <1>4, <1>5
<1>7. (CHOOSE row \in {drafts[i]} : TRUE) = drafts[i]
  OBVIOUS
<1>8. Desired(items, detailed, t)[id] = Reminder(drafts[i])
  BY <1>6, <1>7
<1>9. QED
  BY <1>4, <1>8 DEF Reminder, drafts

(* A bill among the first due is among the first of the drafts: what is    *)
(* before it in the list is due no later.                                  *)
LEMMA FirstIsListed ==
  ASSUME due \in [Rows -> 1 .. MaxDay \cup {None}], NEW t \in Int,
         NEW b \in Bills, due[b] # None, EveBefore(due[b]) > t, AmongFirst(b)
  PROVE  LET bills == Listed(Bills, due, t) IN
         \E i \in 1 .. Len(bills) : i <= BillCap /\ bills[i] = b
<1> DEFINE S == Upcoming(Bills, due, t)
           bills == Listed(Bills, due, t)
           earlier == {x \in Bills \ {b} : due[x] # None /\ due[x] <= due[b]}
           p == Place(b, S, due)
<1>1. Bills \subseteq Rows
  BY DEF Rows
<1>2. Dated(S, due) /\ S \subseteq Bills
  BY <1>1, UpcomingDated
<1>3. b \in S
  BY <1>1 DEF Upcoming, Wanted, Reminds
<1>4. Before(b, S, due) \in SUBSET earlier
  <2>1. \A x \in S : x \in Nat /\ due[x] \in Nat /\ x \in Bills /\ due[x] # None
    BY <1>2, RowsAreFinite DEF Dated, Upcoming, Wanted
  <2> HIDE DEF S
  <2>2. QED
    BY <1>3, <2>1 DEF Before, Precedes
<1>5. IsFiniteSet(earlier) /\ Cardinality(earlier) \in Nat
  <2>1. earlier \subseteq Rows
    BY <1>1
  <2>2. QED
    BY <2>1, RowsAreFinite
<1>6. Cardinality(earlier) < BillCap
  BY DEF AmongFirst
<1> HIDE DEF earlier, S
<1>7. p <= Cardinality(earlier)
  BY <1>4, <1>5, FS_Subset DEF Place
<1>8. p \in 0 .. Cardinality(S) - 1
  BY <1>2, <1>3, PlaceRange
<1>9. Len(bills) = Cardinality(S) /\ bills[p + 1] = b
  BY <1>2, <1>3, InDueOrderLists DEF Listed, S
<1>10. Cardinality(S) \in Nat
  BY <1>2, RowsAreFinite DEF Dated
<1> HIDE DEF p, bills
<1>11. p + 1 \in 1 .. Len(bills) /\ p + 1 <= BillCap
  BY <1>5, <1>6, <1>7, <1>8, <1>9, <1>10, RemindersAssumption
<1>12. QED
  BY <1>9, <1>11 DEF bills

LEMMA RemindedOf ==
  ASSUME TypeOK, ManagedMatchesPlatform
  PROVE  NoBillUnreminded
<1> SUFFICES ASSUME AtRest, enabled, NEW t \in 0 .. now, managed = Desired(due, details, t),
                    NEW b \in Bills, due[b] # None, EveBefore(due[b]) > now, AmongFirst(b)
             PROVE  \E id \in Ids : \/ platform[id] = EveReminder(b)
                                    \/ id \in loose /\ managed[id] = EveReminder(b)
  BY DEF NoBillUnreminded, InSync
<1>1. /\ due \in [Rows -> 1 .. MaxDay \cup {None}] /\ b \in Rows
      /\ due[b] \in 1 .. MaxDay /\ b \in Wanted(due)
      /\ now \in Nat /\ t \in Nat /\ t <= now /\ MaxDay \in Nat
  BY RemindersAssumption DEF TypeOK, MaxTime, Rows, Wanted
<1>2. EveBefore(due[b]) \in Int /\ EveBefore(due[b]) > t
  BY <1>1 DEF EveBefore
<1>3. Reminds(b, due[b], t) = EveBefore(due[b])
  BY <1>2 DEF Reminds
<1>4. PICK i \in 1 .. Len(Listed(Bills, due, t)) :
        i <= BillCap /\ Listed(Bills, due, t)[i] = b
  BY <1>1, <1>2, FirstIsListed
<1>5. i \in DOMAIN Drafts(due, t) /\ Drafts(due, t)[i] = b
  BY <1>1, <1>4, DraftsAre
<1>6. PICK id \in Ids : managed[id] = EveReminder(b)
  BY <1>1, <1>3, <1>5, DraftsAreDesired DEF EveReminder
<1>7. managed[id].when > now
  BY <1>6 DEF EveReminder
<1>8. id \in loose \/ platform[id] = managed[id]
  <2>1. ~ (managed[id].when <= now)
    BY <1>1, <1>2, <1>6 DEF EveReminder
  <2>2. QED
    BY <2>1 DEF ManagedMatchesPlatform
<1>9. QED
  BY <1>6, <1>8

-----------------------------------------------------------------------------
(* When no call is under way, the operating system has scheduled what the  *)
(* stored map says, on every id that no failed, killed or overlapped call  *)
(* has left in doubt: the diff of syncSchedules starts from the truth.     *)
THEOREM ScheduledAsRemembered == Spec => []ManagedMatchesPlatform
<1>1. Sound => ManagedMatchesPlatform
  BY DEF Sound, Settled, Matches, ManagedMatchesPlatform
<1>2. QED
  BY <1>1, InitSound, NextSound, TypeCorrect, PTL DEF Spec

(* Reminders that are off have none scheduled (same exception), although   *)
(* setEnabled forgets the map before it sets the switch.                   *)
THEOREM OffMeansNone == Spec => []OffLeavesNothing
<1>1. Sound => OffLeavesNothing
  BY DEF Sound, Settled, Matches, OffLeavesNothing
<1>2. QED
  BY <1>1, InitSound, NextSound, TypeCorrect, PTL DEF Spec

(* While reminders are on and the map is one that a sync of the present    *)
(* rows wrote, each of the first BillCap bills to come has its reminder    *)
(* for the evening before (_buildDesiredReminders, syncSchedules): bills   *)
(* whose time has passed take no place under the cap, rules push no bill   *)
(* out, ids that collide are probed apart, and an id that moved or was     *)
(* used before has the new reminder.                                       *)
THEOREM BillsAreReminded == Spec => []NoBillUnreminded
BY RemindedOf, TypeCorrect, ScheduledAsRemembered, PTL
=============================================================================
