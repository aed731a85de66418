------------------------------- MODULE Reminders -------------------------------
(***************************************************************************)
(* The reminders of LocalNotificationService: what the operating system    *)
(* has scheduled (platform), what the app remembers having scheduled       *)
(* (managed, in SharedPreferences), and the calls that bring the first in  *)
(* line with the bills and the recurring rules.  Each call of the plugin   *)
(* is awaited, so calls of syncSchedules and setEnabled overlap freely,    *)
(* fail in the middle, or end with the process.                            *)
(*                                                                         *)
(* A day has two instants: 2 * d is 8:00 of day d and 2 * d + 1 is 9:00.   *)
(* A reminder's signature is the record of what the hash is taken of.      *)
(* Bills and rules are numbers, in the order their lists give them.        *)
(***************************************************************************)
EXTENDS Integers, FiniteSets, SequencesExt

CONSTANTS Bills, Rules,       \* the rows that may want a reminder
          StableId,           \* the hash of a row's payload
          FirstId, LastId,    \* the range of ids, probed cyclically
          BillCap, TotalCap,  \* at most so many reminders (32 and 48)
          Tasks,              \* calls that may be under way at once
          None,
          MaxDay, MaxChanges, MaxFaults   \* bounds

Rows == Bills \union Rules
Ids == FirstId .. LastId
MaxTime == 2 * MaxDay

ASSUME RemindersAssumption ==
  /\ Bills \subseteq Nat /\ Rules \subseteq Nat /\ Bills \intersect Rules = {}
  /\ IsFiniteSet(Rows)
  /\ FirstId \in Nat /\ LastId \in Nat
  /\ StableId \in [Rows -> Ids]
  /\ BillCap \in Nat /\ TotalCap \in Nat /\ BillCap <= TotalCap
  /\ TotalCap <= Cardinality(Ids)
  /\ MaxDay \in Nat /\ MaxChanges \in Nat /\ MaxFaults \in Nat

VARIABLES now,       \* the device's clock
          due,       \* day of each row that is not paid, skipped or inactive
          details,   \* setShowDetails
          enabled,   \* setEnabled
          managed,   \* the stored map of ids to signatures
          platform,  \* what the operating system has scheduled
          tasks,     \* the calls under way
          loose,     \* history: ids a call may have left unlike managed
          changes, faults

stored == <<details, enabled, managed>>
vars == <<now, due, details, enabled, managed, platform, tasks, loose, changes, faults>>

Signature == [row : Rows, when : 0 .. MaxTime, details : BOOLEAN]
Schedules == [Ids -> Signature \union {None}]
Nothing == [id \in Ids |-> None]

--------------------------------------------------------------------------------
(* What a sync wants scheduled: _buildDesiredReminders.                    *)

Morning(day) == 2 * day

EveBefore(day) == 2 * (day - 1) + 1

Reminds(row, day, t) ==
  IF row \in Bills /\ EveBefore(day) > t THEN EveBefore(day) ELSE Morning(day)

(* Mutant: the rows as their list gives them.                              *)
InListOrder(S, items) == SetToSortSeq(S, LAMBDA a, b : a < b)

(* Each row at the place that the rows due before it leave it.             *)
Precedes(a, b, items) == items[a] < items[b] \/ (items[a] = items[b] /\ a < b)

InDueOrder(S, items) ==
  [i \in 1 .. Cardinality(S) |->
     CHOOSE row \in S : Cardinality({other \in S : Precedes(other, row, items)}) = i - 1]

Take(s, n) == SubSeq(s, 1, IF Len(s) < n THEN Len(s) ELSE n)

Wanted(items) == {row \in Rows : items[row] # None}

(* Rows whose reminder would be in the past are passed over before the     *)
(* caps count.                                                             *)
Drafts(items, t) ==
  LET Upcoming(S) == {r \in S \intersect Wanted(items) : Reminds(r, items[r], t) > t}
      Listed(S) == InDueOrder(Upcoming(S), items)
  IN  Take(Take(Listed(Bills), BillCap) \o Listed(Rules), TotalCap)

(* An id that is taken moves up, and from the last one to the first.       *)
FirstFree(id, used) ==
  LET Distance(j) == IF j >= id THEN j - id ELSE j - id + (LastId - FirstId + 1)
  IN  CHOOSE j \in Ids \ used : \A k \in Ids \ used : Distance(j) <= Distance(k)

(* Each draft has the first id that no draft before it took.               *)
IdsOf(drafts) ==
  CHOOSE ids \in [DOMAIN drafts -> Ids] :
    \A i \in DOMAIN drafts :
      ids[i] = FirstFree(StableId[drafts[i]], {ids[j] : j \in 1 .. i - 1})

Desired(items, detailed, t) ==
  LET drafts == Drafts(items, t)
      ids == IdsOf(drafts)
      Holders(id) == {row \in Wanted(items) :
                        \E i \in DOMAIN ids : ids[i] = id /\ drafts[i] = row}
      Reminder(row) ==
        [row |-> row, when |-> Reminds(row, items[row], t), details |-> detailed]
  IN  [id \in Ids |-> IF Holders(id) = {} THEN None
                      ELSE Reminder(CHOOSE row \in Holders(id) : TRUE)]

--------------------------------------------------------------------------------
(* A call under way.  "start": before it reads anything; "calls": it has    *)
(* calls of the plugin left; "forgot" and "chosen": a preference is         *)
(* written and the rest of the handler is to come.                          *)

Idle == [at |-> "idle", goal |-> "sync", items |-> [r \in Rows |-> None],
         plan |-> Nothing, cancel |-> {}, put |-> {}, acted |-> {}, solo |-> TRUE]

Task == [at : {"idle", "start", "calls", "forgot", "chosen"},
         goal : {"sync", "on", "off"},
         items : [Rows -> 0 .. MaxDay \union {None}],
         plan : Schedules, cancel : SUBSET Ids, put : SUBSET Ids,
         acted : SUBSET Ids, solo : BOOLEAN]

AtRest == \A t \in Tasks : tasks[t].at = "idle"

Begin(t, goal, at) ==
  /\ tasks[t].at = "idle"
  /\ tasks' = [u \in Tasks |->
       IF u = t THEN [Idle EXCEPT !.at = at, !.goal = goal, !.items = due, !.solo = AtRest]
       ELSE IF tasks[u].at = "idle" THEN Idle
       ELSE [tasks[u] EXCEPT !.solo = FALSE, !.acted = {}]]

(* What a call leaves in doubt when it is over.                            *)
LooseAfter(task, done) ==
  IF ~task.solo THEN Ids
  ELSE IF done THEN loose \ task.acted
  ELSE loose \union task.acted

End(t, done) ==
  /\ tasks' = [tasks EXCEPT ![t] = Idle]
  /\ loose' = LooseAfter(tasks[t], done)

(* The settings screen goes on with a sync, unless it is gone or the       *)
(* reminders are off.                                                      *)
GoOn(t, on) ==
  \/ /\ on
     /\ tasks' = [tasks EXCEPT ![t] = [Idle EXCEPT !.at = "start", !.items = due,
                                                   !.solo = tasks[t].solo]]
     /\ UNCHANGED loose
  \/ End(t, TRUE)

--------------------------------------------------------------------------------
(* Calls that begin.                                                       *)

StartSync(t) ==
  /\ enabled
  /\ Begin(t, "sync", "start")
  /\ UNCHANGED <<now, due, stored, platform, loose, changes, faults>>

StartSwitch(t) ==
  /\ changes < MaxChanges
  /\ Begin(t, IF enabled THEN "off" ELSE "on", "start")
  /\ changes' = changes + 1
  /\ UNCHANGED <<now, due, stored, platform, loose, faults>>

SetShowDetails(t) ==
  /\ changes < MaxChanges
  /\ Begin(t, "sync", "chosen")
  /\ details' = ~details
  /\ changes' = changes + 1
  /\ UNCHANGED <<now, due, enabled, managed, platform, loose, faults>>

SyncAfterChoice(t) ==
  /\ tasks[t].at = "chosen"
  /\ GoOn(t, enabled)
  /\ UNCHANGED <<now, due, stored, platform, changes, faults>>

(* setEnabled(true): the operating system may refuse.                      *)
SwitchOn(t) ==
  /\ tasks[t].at = "start" /\ tasks[t].goal = "on"
  /\ enabled' \in {enabled, TRUE}
  /\ GoOn(t, enabled')
  /\ UNCHANGED <<now, due, details, managed, platform, changes, faults>>

--------------------------------------------------------------------------------
(* Calls that read the stored map and then work through the plugin.        *)

(* Mutants: nothing is cancelled; a changed reminder keeps its old form.   *)
GoneNever(plan) == {}
NewOnly(plan) == {id \in Ids : plan[id] # None /\ managed[id] = None}

Gone(plan) == {id \in Ids : managed[id] # None /\ plan[id] = None}

Changed(plan) == {id \in Ids : plan[id] # None /\ managed[id] # plan[id]}

Plan(t) ==
  /\ tasks[t].at = "start" /\ tasks[t].goal \in {"sync", "off"}
  /\ LET plan == IF tasks[t].goal = "off" THEN Nothing
                 ELSE Desired(tasks[t].items, details, now)
     IN  tasks' = [tasks EXCEPT
           ![t].at = "calls",
           ![t].items = Idle.items,
           ![t].plan = plan,
           ![t].cancel = Gone(plan),
           ![t].put = Changed(plan)]
  /\ UNCHANGED <<now, due, stored, platform, loose, changes, faults>>

Cancel(t) ==
  /\ \E id \in tasks[t].cancel :
       /\ platform' = [platform EXCEPT ![id] = None]
       /\ tasks' = [tasks EXCEPT ![t].cancel = @ \ {id}, ![t].acted = IF tasks[t].solo THEN @ \union {id} ELSE {}]
  /\ UNCHANGED <<now, due, stored, loose, changes, faults>>

(* The plugin refuses a date that has passed.                              *)
Put(t) ==
  /\ tasks[t].cancel = {}
  /\ \E id \in tasks[t].put :
       /\ tasks[t].plan[id].when > now
       /\ platform' = [platform EXCEPT ![id] = tasks[t].plan[id]]
       /\ tasks' = [tasks EXCEPT ![t].put = @ \ {id}, ![t].acted = IF tasks[t].solo THEN @ \union {id} ELSE {}]
  /\ UNCHANGED <<now, due, stored, loose, changes, faults>>

PutTooLate(t) ==
  /\ tasks[t].cancel = {}
  /\ \E id \in tasks[t].put : tasks[t].plan[id].when <= now
  /\ End(t, FALSE)
  /\ UNCHANGED <<now, due, stored, platform, changes, faults>>

AllCalled(t) == tasks[t].at = "calls" /\ tasks[t].cancel = {} /\ tasks[t].put = {}

Save(t) ==
  /\ AllCalled(t) /\ tasks[t].goal = "sync"
  /\ managed' = tasks[t].plan
  /\ End(t, TRUE)
  /\ UNCHANGED <<now, due, details, enabled, platform, changes, faults>>

Forget(t) ==
  /\ AllCalled(t) /\ tasks[t].goal = "off"
  /\ managed' = Nothing
  /\ tasks' = [tasks EXCEPT ![t].at = "forgot", ![t].acted = {}]
  /\ loose' = loose \ tasks[t].acted
  /\ UNCHANGED <<now, due, details, enabled, platform, changes, faults>>

SwitchOff(t) ==
  /\ tasks[t].at = "forgot"
  /\ enabled' = FALSE
  /\ End(t, TRUE)
  /\ UNCHANGED <<now, due, details, managed, platform, changes, faults>>

--------------------------------------------------------------------------------
(* The surroundings.                                                       *)

(* A platform call throws: _syncLocalReminders swallows it, the settings   *)
(* screen shows it.  Either way the rest of the call does not happen.      *)
Fail(t) ==
  /\ faults < MaxFaults
  /\ \/ tasks[t].at = "start"
     \/ tasks[t].cancel \union tasks[t].put # {}
  /\ End(t, FALSE)
  /\ faults' = faults + 1
  /\ UNCHANGED <<now, due, stored, platform, changes>>

Kill ==
  /\ faults < MaxFaults
  /\ ~AtRest
  /\ tasks' = [t \in Tasks |-> Idle]
  /\ loose' = UNION {LooseAfter(tasks[t], FALSE) : t \in {u \in Tasks : tasks[u].at # "idle"}}
  /\ faults' = faults + 1
  /\ UNCHANGED <<now, due, stored, platform, changes>>

(* Inexact alarms are delivered some time after they are due.              *)
Deliver ==
  /\ \E id \in Ids : /\ platform[id] # None
                     /\ platform[id].when <= now
                     /\ platform' = [platform EXCEPT ![id] = None]
  /\ UNCHANGED <<now, due, stored, tasks, loose, changes, faults>>

Tick ==
  /\ now < MaxTime
  /\ now' = now + 1
  /\ UNCHANGED <<due, stored, platform, tasks, loose, changes, faults>>

(* A bill is added, paid or reopened; a rule is run, paused or resumed.    *)
ChangeRow ==
  /\ changes < MaxChanges
  /\ \E r \in Rows, day \in 1 .. MaxDay \union {None} :
       /\ day # due[r]
       /\ due' = [due EXCEPT ![r] = day]
  /\ changes' = changes + 1
  /\ UNCHANGED <<now, stored, platform, tasks, loose, faults>>

Init ==
  /\ now = 0
  /\ due \in [Rows -> 1 .. MaxDay \union {None}]
  /\ details = FALSE /\ enabled = FALSE
  /\ managed = Nothing /\ platform = Nothing
  /\ tasks = [t \in Tasks |-> Idle]
  /\ loose = {} /\ changes = 0 /\ faults = 0

Next ==
  \/ \E t \in Tasks :
       \/ StartSync(t) \/ StartSwitch(t) \/ SetShowDetails(t) \/ SyncAfterChoice(t)
       \/ SwitchOn(t) \/ Plan(t) \/ Cancel(t) \/ Put(t) \/ PutTooLate(t)
       \/ Save(t) \/ Forget(t) \/ SwitchOff(t) \/ Fail(t)
  \/ Kill \/ Deliver \/ Tick \/ ChangeRow

Spec == Init /\ [][Next]_vars
--------------------------------------------------------------------------------
(* Properties.                                                             *)

TypeOK ==
  /\ now \in 0 .. MaxTime
  /\ due \in [Rows -> 1 .. MaxDay \union {None}]
  /\ details \in BOOLEAN /\ enabled \in BOOLEAN
  /\ managed \in Schedules /\ platform \in Schedules
  /\ tasks \in [Tasks -> Task]
  /\ loose \in SUBSET Ids
  /\ changes \in 0 .. MaxChanges /\ faults \in 0 .. MaxFaults

(* When no call is under way, the operating system has scheduled what the  *)
(* stored map says, but for what is due and delivered: on every id that no *)
(* failed, killed or overlapped call has touched since a whole one did.    *)
(* The diff of syncSchedules starts from the map and is right only then.   *)
ManagedMatchesPlatform ==
  AtRest => \A id \in Ids \ loose :
              \/ platform[id] = managed[id]
              \/ platform[id] = None /\ managed[id].when <= now

(* Switching reminders off leaves none behind (same exception).            *)
OffLeavesNothing ==
  AtRest /\ ~enabled => \A id \in Ids \ loose : platform[id] = None

(* When reminders are on and the map is one a sync of the present rows     *)
(* wrote, a bill that is among the first BillCap due has its reminder for  *)
(* the evening before, whatever ids collide, move or were used before.     *)
InSync == AtRest /\ enabled /\ \E t \in 0 .. now : managed = Desired(due, details, t)

AmongFirst(bill) ==
  Cardinality({b \in Bills \ {bill} : due[b] # None /\ due[b] <= due[bill]}) < BillCap

EveReminder(bill) ==
  [row |-> bill, when |-> EveBefore(due[bill]), details |-> details]

NoBillUnreminded ==
  InSync => \A b \in Bills :
    due[b] # None /\ EveBefore(due[b]) > now /\ AmongFirst(b) =>
      \E id \in Ids : \/ platform[id] = EveReminder(b)
                      \/ id \in loose /\ managed[id] = EveReminder(b)
================================================================================
