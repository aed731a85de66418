------------------------- MODULE SchemaMigrationProofs -------------------------
(***************************************************************************)
(* Theorems about SchemaMigration, for every set of databases of the right *)
(* shape, any system names and any number of interruptions.                *)
(*                                                                         *)
(* A list of statements is applied one by one, so what is left of it,      *)
(* applied to the open transaction, is what the whole list makes of the    *)
(* database on disk.  The invariant says so, and that the rest of the      *)
(* upgrade of what is on disk is the rest of the upgrade of what was there *)
(* at the first start.                                                     *)
(***************************************************************************)
EXTENDS SchemaMigration, FiniteSetTheorems, SequenceTheorems, WellFoundedInduction, TLAPS

-----------------------------------------------------------------------------
(* Lists of statements.                                                    *)

LEMMA NatLeast ==
  ASSUME NEW S \in SUBSET Nat, S # {}
  PROVE  \E x \in S : \A y \in S : x <= y
<1> DEFINE R == OpToRel(<, Nat)
<1>1. \A x, y \in Nat : <<x, y>> \in R <=> x < y
  BY DEF OpToRel
<1>2. IsWellFoundedOn(R, Nat)
  BY NatLessThanWellFounded
<1> HIDE DEF R
<1>3. PICK x \in S : \A y \in S : <<y, x>> \notin R
  BY <1>2, WFMin
<1>4. \A y \in S : x \in Nat /\ y \in Nat /\ ~ (y < x)
  BY <1>1, <1>3
<1>5. \A y \in S : x <= y
  BY <1>4
<1>6. QED
  BY <1>5

(* The databases that a list goes through.                                 *)
Through(run, list, db) ==
  /\ DOMAIN run = 0 .. Len(list) /\ run[0] = db
  /\ \A n \in 1 .. Len(list) : run[n] = Effect(list[n], run[n - 1])

(* A run of the first n statements.                                        *)
IsRun(f, list, db, n) ==
  f = [k \in 0 .. n |-> IF k = 0 THEN db ELSE Effect(list[k], f[k - 1])]

LEMMA RunExists ==
  ASSUME NEW list, NEW db, NEW n \in Nat
  PROVE  \E f : IsRun(f, list, db, n)
<1> DEFINE Body(f, k) == IF k = 0 THEN db ELSE Effect(list[k], f[k - 1])
           Stuck == {m \in Nat : ~ \E f : IsRun(f, list, db, m)}
<1>1. SUFFICES ASSUME Stuck # {} PROVE FALSE
  OBVIOUS
<1>2. Stuck \in SUBSET Nat
  OBVIOUS
<1> HIDE DEF Stuck
<1>3. PICK m \in Stuck : \A y \in Stuck : m <= y
  BY <1>1, <1>2, NatLeast
<1> USE DEF Stuck
<1>4. CASE m = 0
  <2>1. [k \in 0 .. 0 |-> db] = [k \in 0 .. 0 |-> Body([j \in 0 .. 0 |-> db], k)]
    OBVIOUS
  <2>2. IsRun([k \in 0 .. 0 |-> db], list, db, 0)
    BY <2>1 DEF IsRun
  <2>3. QED
    BY <1>3, <1>4, <2>2
<1>5. CASE m # 0
  <2>1. m - 1 \in Nat /\ ~ (m <= m - 1)
    BY <1>5
  <2>2. m - 1 \notin Stuck
    BY <1>3, <2>1
  <2>3. PICK f : IsRun(f, list, db, m - 1)
    BY <2>1, <2>2
  <2> DEFINE g == [k \in 0 .. m |-> IF k = m THEN Effect(list[m], f[m - 1]) ELSE f[k]]
  <2>4. \A k \in 0 .. m - 1 : g[k] = f[k] /\ f[k] = Body(f, k)
    BY <2>1, <2>3 DEF IsRun
  <2>5. ASSUME NEW k \in 0 .. m PROVE g[k] = Body(g, k)
    <3>1. CASE k = m
      BY <1>5, <2>1, <2>4, <3>1
    <3>2. CASE k # m
      <4>1. k \in 0 .. m - 1 /\ (k # 0 => k - 1 \in 0 .. m - 1)
        BY <3>2
      <4>2. QED
        BY <2>4, <4>1
    <3>3. QED
      BY <3>1, <3>2
  <2>6. g = [k \in 0 .. m |-> Body(g, k)]
    BY <2>5
  <2> HIDE DEF g
  <2>7. IsRun(g, list, db, m)
    BY <2>6 DEF IsRun
  <2>8. QED
    BY <1>3, <2>7
<1>6. QED
  BY <1>4, <1>5

LEMMA RunsThrough ==
  ASSUME NEW list, Len(list) \in Nat, NEW db
  PROVE  \E run : Through(run, list, db) /\ Applied(list, db) = run[Len(list)]
<1> DEFINE L == Len(list)
           Body(f, n) == IF n = 0 THEN db ELSE Effect(list[n], f[n - 1])
           run == CHOOSE f : f = [n \in 0 .. L |-> Body(f, n)]
<1>1. Applied(list, db) = run[L]
  BY DEF Applied
<1>2. \E f : f = [n \in 0 .. L |-> Body(f, n)]
  <2>1. PICK f : IsRun(f, list, db, L)
    BY RunExists
  <2>2. f = [n \in 0 .. L |-> Body(f, n)]
    BY <2>1 DEF IsRun
  <2>3. QED
    BY <2>2
<1>3. run = [n \in 0 .. L |-> Body(run, n)]
  BY <1>2
<1> HIDE DEF run
<1>4. DOMAIN run = 0 .. L /\ \A n \in 0 .. L : run[n] = Body(run, n)
  BY <1>3
<1>5. run[0] = db /\ \A n \in 1 .. L : run[n] = Effect(list[n], run[n - 1])
  BY <1>4
<1>6. QED
  BY <1>1, <1>4, <1>5 DEF Through

LEMMA RunUnique ==
  ASSUME NEW list, Len(list) \in Nat, NEW db, NEW run, Through(run, list, db)
  PROVE  Applied(list, db) = run[Len(list)]
<1>1. PICK other : Through(other, list, db) /\ Applied(list, db) = other[Len(list)]
  BY RunsThrough
<1> DEFINE off == {n \in 0 .. Len(list) : run[n] # other[n]}
<1>2. off = {}
  <2>1. SUFFICES ASSUME off # {} PROVE FALSE
    OBVIOUS
  <2>2. off \in SUBSET Nat
    OBVIOUS
  <2> HIDE DEF off
  <2>3. PICK n \in off : \A m \in off : n <= m
    BY <2>1, <2>2, NatLeast
  <2> USE DEF off
  <2>4. n # 0
    BY <1>1 DEF Through
  <2>5. n \in 1 .. Len(list) /\ n - 1 \in 0 .. Len(list) /\ n - 1 \notin off
    BY <2>3, <2>4
  <2>6. run[n - 1] = other[n - 1]
    BY <2>5
  <2>7. QED
    BY <1>1, <2>5, <2>6 DEF Through
<1>3. QED
  BY <1>1, <1>2

LEMMA AppliedNone ==
  ASSUME NEW db
  PROVE  Applied(<<>>, db) = db
<1>1. Through([n \in 0 .. 0 |-> db], <<>>, db)
  BY DEF Through
<1>2. QED
  BY <1>1, RunUnique

(* The first statement first, and the rest to what it leaves.              *)
LEMMA AppliedHead ==
  ASSUME NEW S, NEW list \in Seq(S), list # <<>>, NEW db
  PROVE  Applied(list, db) = Applied(Tail(list), Effect(Head(list), db))
<1>1. PICK run : Through(run, list, db) /\ Applied(list, db) = run[Len(list)]
  BY RunsThrough
<1>2. /\ Len(list) \in Nat \ {0} /\ Tail(list) \in Seq(S) /\ Len(Tail(list)) = Len(list) - 1
      /\ Head(list) = list[1] /\ \A n \in 1 .. Len(list) - 1 : Tail(list)[n] = list[n + 1]
  OBVIOUS
<1> DEFINE L == Len(list) - 1
           rest == [n \in 0 .. L |-> run[n + 1]]
<1>3. L \in Nat /\ L + 1 = Len(list) /\ Len(Tail(list)) = L
  BY <1>2
<1>4. run[1] = Effect(Head(list), db)
  BY <1>1, <1>2 DEF Through
<1>5. \A n \in 1 .. L : rest[n] = Effect(Tail(list)[n], rest[n - 1])
  <2>1. TAKE n \in 1 .. L
  <2>2. n + 1 \in 1 .. Len(list) /\ n - 1 \in 0 .. L /\ (n - 1) + 1 = n /\ (n + 1) - 1 = n
    BY <1>3
  <2>3. run[n + 1] = Effect(list[n + 1], run[n])
    BY <1>1, <2>2 DEF Through
  <2>4. rest[n] = run[n + 1] /\ rest[n - 1] = run[n]
    BY <1>3, <2>2
  <2>5. QED
    BY <1>2, <2>3, <2>4
<1>6. rest[0] = run[1] /\ rest[L] = run[Len(list)] /\ DOMAIN rest = 0 .. L
  BY <1>3
<1> HIDE DEF rest
<1>7. Through(rest, Tail(list), Effect(Head(list), db))
  BY <1>3, <1>4, <1>5, <1>6 DEF Through
<1>8. QED
  BY <1>1, <1>3, <1>6, <1>7, RunUnique

(* The last statement last.                                                *)
LEMMA AppliedLast ==
  ASSUME NEW S, NEW list \in Seq(S), NEW s, NEW db
  PROVE  Applied(Append(list, s), db) = Effect(s, Applied(list, db))
<1>1. Len(list) \in Nat /\ list \in Seq(S \union {s})
  OBVIOUS
<1>2. PICK run : Through(run, list, db) /\ Applied(list, db) = run[Len(list)]
  BY <1>1, RunsThrough
<1> DEFINE L == Len(list)
           more == [n \in 0 .. L + 1 |-> IF n = L + 1 THEN Effect(s, run[L]) ELSE run[n]]
           longer == Append(list, s)
<1>3. Len(longer) = L + 1 /\ longer[L + 1] = s /\ \A n \in 1 .. L : longer[n] = list[n]
  BY <1>1
<1>4. more[0] = db
  BY <1>1, <1>2 DEF Through
<1>5. \A n \in 1 .. L : more[n] = Effect(longer[n], more[n - 1])
  <2>1. TAKE n \in 1 .. L
  <2>2. more[n] = run[n] /\ more[n - 1] = run[n - 1]
    BY <1>1
  <2>3. QED
    BY <1>2, <1>3, <2>2 DEF Through
<1>6. more[L + 1] = Effect(longer[L + 1], more[L])
  BY <1>1, <1>3
<1>7. \A n \in 1 .. L + 1 : n \in 1 .. L \/ n = L + 1
  BY <1>1
<1>8. DOMAIN more = 0 .. L + 1 /\ more[L + 1] = Effect(s, run[L]) /\ (L + 1) - 1 = L
      /\ Len(longer) \in Nat
  BY <1>1, <1>3
<1> HIDE DEF more, longer
<1>9. Through(more, longer, db)
  BY <1>3, <1>4, <1>5, <1>6, <1>7, <1>8 DEF Through
<1>10. Applied(longer, db) = more[L + 1]
  BY <1>3, <1>8, <1>9, RunUnique
<1>11. QED
  BY <1>2, <1>8, <1>10 DEF longer

-----------------------------------------------------------------------------
(* What one statement does to a database.                                  *)

IsDb(db) == db = [f \in Fields |-> db[f]]

(* What a migration needs of the rows of a database.                       *)
Sound(db) ==
  /\ IsFiniteSet(DOMAIN db.tx)
  /\ db.damaged \/ db.search \subseteq DOMAIN db.tx

RowOperations ==
  {"dedupe", "normalize", "backfill", "dates", "fill", "unlink", "releaseBills",
   "releaseOccurrences", "voidRefunds", "deleteTombstones", "deleteGroups"}

(* The statements of the migrations, but for the one that counts them.     *)
Plain ==
  UNION {{"add"} \X DOMAIN Since, {"create"} \X DOMAIN ObjectSince, {"drop"} \X SyncTables,
         RowOperations \X {None}, {"assignKey"} \X Range(SystemNames)}

(* A statement changes the fields it is about.                             *)
Kept(db, e, touched) == IsDb(e) /\ \A g \in Fields \ touched : e[g] = db[g]

Set(db, f, X) == [db EXCEPT ![f] = X]

LEMMA SetOne ==
  ASSUME NEW db, IsDb(db), NEW f \in Fields, NEW X
  PROVE  Kept(db, Set(db, f, X), {f}) /\ Set(db, f, X)[f] = X
<1>1. DOMAIN db = Fields
  BY DEF IsDb
<1>2. Set(db, f, X) = [g \in Fields |-> IF g = f THEN X ELSE db[g]]
  BY <1>1 DEF Set
<1>3. QED
  BY <1>2 DEF IsDb, Kept

LEMMA SetTwo ==
  ASSUME NEW db, IsDb(db), NEW f \in Fields, NEW g \in Fields, f # g, NEW X, NEW Y
  PROVE  LET e == Set(Set(db, f, X), g, Y) IN Kept(db, e, {f, g}) /\ e[f] = X /\ e[g] = Y
<1> DEFINE d == Set(db, f, X)
           e == Set(d, g, Y)
<1>1. Kept(db, d, {f}) /\ d[f] = X
  BY SetOne
<1> HIDE DEF d
<1>2. Kept(d, e, {g}) /\ e[g] = Y
  BY <1>1, SetOne DEF Kept
<1> HIDE DEF e
<1>3. Kept(db, e, {f, g}) /\ e[f] = X /\ e[g] = Y
  BY <1>1, <1>2 DEF Kept
<1>4. QED
  BY <1>3 DEF d, e

LEMMA PlainOperation ==
  ASSUME NEW s \in Plain
  PROVE  /\ s[1] \in {"add", "create", "drop", "assignKey"} \union RowOperations
         /\ s[1] = "add" => s[2] \in DOMAIN Since
         /\ s[1] = "create" => s[2] \in DOMAIN ObjectSince
         /\ s[1] = "drop" => s[2] \in SyncTables
BY DEF Plain, RowOperations

LEMMA ChangeColumns ==
  ASSUME NEW db, IsDb(db), NEW s, s[1] = "add"
  PROVE  /\ Kept(db, Effect(s, db), {"columns"})
         /\ Effect(s, db).columns = db.columns \union {s[2]}
<1>1. Effect(s, db) = Set(db, "columns", db.columns \union {s[2]})
  BY DEF Effect, Set
<1>2. QED
  BY <1>1, SetOne DEF Fields

LEMMA ChangeObjects ==
  ASSUME NEW db, IsDb(db), NEW s, s[1] \in {"create", "drop"}
  PROVE  /\ Kept(db, Effect(s, db), {"objects"})
         /\ Effect(s, db).objects =
              IF s[1] = "create" THEN db.objects \union {s[2]} ELSE db.objects \ {s[2]}
<1>1. Effect(s, db) = Set(db, "objects",
          IF s[1] = "create" THEN db.objects \union {s[2]} ELSE db.objects \ {s[2]})
  BY DEF Effect, Set
<1>2. QED
  BY <1>1, SetOne DEF Fields

LEMMA ChangeOccurrences ==
  ASSUME NEW db, IsDb(db), NEW s, s[1] \in {"dedupe", "normalize", "releaseOccurrences"}
  PROVE  Kept(db, Effect(s, db), {"occs"})
<1>1. CASE s[1] = "dedupe"
  <2>1. PICK X : Effect(s, db) = Set(db, "occs", X)
    BY <1>1 DEF Effect, Set, DedupeOccurrences
  <2>2. QED
    BY <2>1, SetOne DEF Fields
<1>2. CASE s[1] = "normalize"
  <2>1. PICK X : Effect(s, db) = Set(db, "occs", X)
    BY <1>2 DEF Effect, Set, NormalizeKeys
  <2>2. QED
    BY <2>1, SetOne DEF Fields
<1>3. CASE s[1] = "releaseOccurrences"
  <2>1. PICK X : Effect(s, db) = Set(db, "occs", X)
    BY <1>3 DEF Effect, Set, ReleaseOccurrences
  <2>2. QED
    BY <2>1, SetOne DEF Fields
<1>4. QED
  BY <1>1, <1>2, <1>3

LEMMA ChangeBills ==
  ASSUME NEW db, IsDb(db), NEW s, s[1] \in {"unlink", "releaseBills"}
  PROVE  Kept(db, Effect(s, db), {"bills"})
<1>1. CASE s[1] = "unlink"
  <2>1. PICK X : Effect(s, db) = Set(db, "bills", X)
    BY <1>1 DEF Effect, Set, UnlinkDuplicates
  <2>2. QED
    BY <2>1, SetOne DEF Fields
<1>2. CASE s[1] = "releaseBills"
  <2>1. PICK X : Effect(s, db) = Set(db, "bills", X)
    BY <1>2 DEF Effect, Set, ReleaseBills
  <2>2. QED
    BY <2>1, SetOne DEF Fields
<1>3. QED
  BY <1>1, <1>2

(* A leg filled in or a refund voided leaves the same entries.             *)
LEMMA ChangeEntries ==
  ASSUME NEW db, IsDb(db), NEW s, s[1] \in {"backfill", "voidRefunds"}
  PROVE  /\ Kept(db, Effect(s, db), {"tx"})
         /\ DOMAIN Effect(s, db).tx = DOMAIN db.tx
<1>1. CASE s[1] = "backfill"
  <2> DEFINE rulesOf(t) == {db.occs[i].rule : i \in {k \in DOMAIN db.occs : db.occs[k].tx = t}}
             legless(t) == /\ db.tx[t].status = "DRAFT" /\ ~db.tx[t].deleted
                           /\ db.tx[t].delta = None /\ rulesOf(t) # {}
             X == [t \in DOMAIN db.tx |->
                     IF legless(t)
                     THEN [db.tx[t] EXCEPT !.delta =
                             IF db.rules[CHOOSE r \in rulesOf(t) : TRUE].class = "ASSET"
                             THEN -1 ELSE 1]
                     ELSE db.tx[t]]
  <2>1. Effect(s, db) = Set(db, "tx", X)
    BY <1>1 DEF Effect, Set, BackfillLegs
  <2>2. DOMAIN X = DOMAIN db.tx
    OBVIOUS
  <2> HIDE DEF X
  <2>3. QED
    BY <2>1, <2>2, SetOne DEF Fields
<1>2. CASE s[1] = "voidRefunds"
  <2> DEFINE X == [t \in DOMAIN db.tx |->
                     IF db.tx[t].type = "REFUND" /\ db.tx[t].original \in Tombstones(db)
                     THEN [db.tx[t] EXCEPT !.status = "VOIDED", !.original = None] ELSE db.tx[t]]
  <2>1. Effect(s, db) = Set(db, "tx", X)
    BY <1>2 DEF Effect, Set, VoidRefunds
  <2>2. DOMAIN X = DOMAIN db.tx
    OBVIOUS
  <2> HIDE DEF X
  <2>3. QED
    BY <2>1, <2>2, SetOne DEF Fields
<1>3. QED
  BY <1>1, <1>2

LEMMA ChangeOther ==
  ASSUME NEW db, IsDb(db), NEW s
  PROVE  /\ s[1] = "dates" => Kept(db, Effect(s, db), {"rules"})
         /\ s[1] = "deleteGroups" => Kept(db, Effect(s, db), {"groups"})
         /\ s[1] = "assignKey" => Kept(db, Effect(s, db), {"categories"})
<1>1. ASSUME s[1] = "dates" PROVE Kept(db, Effect(s, db), {"rules"})
  <2>1. PICK X : Effect(s, db) = Set(db, "rules", X)
    BY <1>1 DEF Effect, Set, CalendarDates
  <2>2. QED
    BY <2>1, SetOne DEF Fields
<1>2. ASSUME s[1] = "deleteGroups" PROVE Kept(db, Effect(s, db), {"groups"})
  <2>1. PICK X : Effect(s, db) = Set(db, "groups", X)
    BY <1>2 DEF Effect, Set, DeleteEmptyGroups
  <2>2. QED
    BY <2>1, SetOne DEF Fields
<1>3. ASSUME s[1] = "assignKey" PROVE Kept(db, Effect(s, db), {"categories"})
  <2>1. PICK X : Effect(s, db) = Set(db, "categories", X)
    BY <1>3 DEF Effect, Set, AssignKey
  <2>2. QED
    BY <2>1, SetOne DEF Fields
<1>4. QED
  BY <1>1, <1>2, <1>3

LEMMA ChangeSearch ==
  ASSUME NEW db, IsDb(db), NEW e, e = FillSearch(db)
  PROVE  Kept(db, e, {"search", "damaged"}) /\ e.search = DOMAIN db.tx /\ e.damaged = FALSE
<1>1. e = Set(Set(db, "search", DOMAIN db.tx), "damaged", FALSE)
  BY DEF FillSearch, Set, IsDb, Fields
<1> DEFINE all == DOMAIN db.tx
           no == FALSE
<1> HIDE DEF all, no
<1>2. /\ Kept(db, Set(Set(db, "search", all), "damaged", no), {"search", "damaged"})
      /\ Set(Set(db, "search", all), "damaged", no)["search"] = all
      /\ Set(Set(db, "search", all), "damaged", no)["damaged"] = no
  BY SetTwo DEF Fields
<1>3. QED
  BY <1>1, <1>2 DEF all, no

LEMMA ChangeTombstones ==
  ASSUME NEW db, IsDb(db), NEW e, e = DeleteTombstones(db)
  PROVE  /\ Kept(db, e, {"tx", "search"})
         /\ e.tx = [t \in DOMAIN db.tx \ Tombstones(db) |-> db.tx[t]]
         /\ e.search = IF "searchTriggers" \in db.objects
                       THEN db.search \intersect (DOMAIN db.tx \ Tombstones(db)) ELSE db.search
<1> DEFINE left == DOMAIN db.tx \ Tombstones(db)
           S == IF "searchTriggers" \in db.objects THEN db.search \intersect left ELSE db.search
<1>1. e = Set(Set(db, "tx", [t \in left |-> db.tx[t]]), "search", S)
  BY DEF DeleteTombstones, Set, IsDb, Fields
<1> HIDE DEF S
<1>2. Kept(db, e, {"tx", "search"}) /\ e.tx = [t \in left |-> db.tx[t]] /\ e.search = S
  BY <1>1, SetTwo DEF Fields
<1>3. QED
  BY <1>2 DEF S

(* A statement keeps a database sound, adds the column or the object it    *)
(* names, and leaves the version; only 9 deletes, where the trigger is.    *)
LEMMA PlainStep ==
  ASSUME NEW db, IsDb(db), Sound(db), NEW s \in Plain,
         s[1] = "deleteTombstones" => "searchTriggers" \in db.objects
  PROVE  LET e == Effect(s, db) IN
         /\ IsDb(e) /\ Sound(e)
         /\ e.version = db.version
         /\ e.columns = db.columns \union (IF s[1] = "add" THEN {s[2]} ELSE {})
         /\ e.objects \ SyncTables
              = (db.objects \ SyncTables) \union (IF s[1] = "create" THEN {s[2]} ELSE {})
<1> DEFINE e == Effect(s, db)
<1>1. /\ s[1] \in {"add", "create", "drop", "assignKey"} \union RowOperations
      /\ s[1] = "create" => s[2] \notin SyncTables
      /\ s[1] = "drop" => s[2] \in SyncTables
  BY PlainOperation DEF SyncTables, ObjectSince
<1>2. CASE s[1] = "add"
  BY <1>2, ChangeColumns DEF Kept, Fields, Sound
<1>3. CASE s[1] \in {"create", "drop"}
  <2>1. /\ Kept(db, e, {"objects"})
        /\ e.objects = IF s[1] = "create" THEN db.objects \union {s[2]} ELSE db.objects \ {s[2]}
    BY <1>3, ChangeObjects
  <2> HIDE DEF e
  <2>2. e.version = db.version /\ e.columns = db.columns /\ Sound(e) /\ IsDb(e)
    BY <2>1 DEF Kept, Fields, Sound
  <2>3. e.objects \ SyncTables
          = (db.objects \ SyncTables) \union (IF s[1] = "create" THEN {s[2]} ELSE {})
    BY <1>1, <1>3, <2>1
  <2>4. QED
    BY <1>3, <2>2, <2>3 DEF e
<1>4. CASE s[1] \in {"dedupe", "normalize", "releaseOccurrences"}
  BY <1>4, ChangeOccurrences DEF Kept, Fields, Sound
<1>5. CASE s[1] \in {"unlink", "releaseBills"}
  BY <1>5, ChangeBills DEF Kept, Fields, Sound
<1>6. CASE s[1] \in {"backfill", "voidRefunds"}
  BY <1>6, ChangeEntries DEF Kept, Fields, Sound
<1>7. CASE s[1] \in {"dates", "deleteGroups", "assignKey"}
  BY <1>7, ChangeOther DEF Kept, Fields, Sound
<1>8. CASE s[1] = "fill"
  <2>1. Effect(s, db) = FillSearch(db)
    BY <1>8 DEF Effect
  <2> HIDE DEF e
  <2>2. Kept(db, e, {"search", "damaged"}) /\ e.search = DOMAIN db.tx /\ e.damaged = FALSE
    BY <2>1, ChangeSearch DEF e
  <2>3. QED
    BY <1>8, <2>2 DEF Kept, Fields, Sound, e
<1>9. CASE s[1] = "deleteTombstones"
  <2>1. Effect(s, db) = DeleteTombstones(db)
    BY <1>9 DEF Effect, Set
  <2> HIDE DEF e
  <2>2. /\ Kept(db, e, {"tx", "search"})
        /\ e.tx = [t \in DOMAIN db.tx \ Tombstones(db) |-> db.tx[t]]
        /\ e.search = db.search \intersect (DOMAIN db.tx \ Tombstones(db))
    BY <1>9, <2>1, ChangeTombstones DEF e
  <2>3. DOMAIN e.tx = DOMAIN db.tx \ Tombstones(db) /\ IsFiniteSet(DOMAIN e.tx)
    BY <2>2, FS_Subset DEF Sound
  <2>4. e.damaged = db.damaged /\ IsDb(e) /\ e.version = db.version
        /\ e.columns = db.columns /\ e.objects = db.objects
    BY <2>2 DEF Kept, Fields
  <2>5. QED
    BY <1>9, <2>2, <2>3, <2>4 DEF Sound, e
<1>10. QED
  BY <1>1, <1>2, <1>3, <1>4, <1>5, <1>6, <1>7, <1>8, <1>9 DEF RowOperations

-----------------------------------------------------------------------------
(* What a list of statements does.                                         *)

(* What the first n statements of an operation name.                       *)
Named(list, n, op) == {list[k][2] : k \in {j \in 1 .. n : list[j][1] = op}}

LEMMA NamedNext ==
  ASSUME NEW list, NEW n \in Nat, NEW op
  PROVE  /\ Named(list, 0, op) = {}
         /\ Named(list, n + 1, op)
              = Named(list, n, op) \union (IF list[n + 1][1] = op THEN {list[n + 1][2]} ELSE {})
<1>1. 1 .. 0 = {} /\ 1 .. n + 1 = (1 .. n) \union {n + 1}
  OBVIOUS
<1>2. Named(list, 0, op) = {}
  BY <1>1 DEF Named
<1>3. QED
  BY <1>1, <1>2 DEF Named

(* What the statements of a list, up to one, have made of a database.      *)
MadeBy(list, n, db, e) ==
  /\ IsDb(e) /\ Sound(e)
  /\ e.version = db.version
  /\ e.columns = db.columns \union Named(list, n, "add")
  /\ e.objects \ SyncTables = (db.objects \ SyncTables) \union Named(list, n, "create")

LEMMA PlainRun ==
  ASSUME NEW list \in Seq(Plain), NEW db, IsDb(db), Sound(db),
         \/ "searchTriggers" \in db.objects
         \/ \A k \in 1 .. Len(list) : list[k][1] # "deleteTombstones"
  PROVE  MadeBy(list, Len(list), db, Applied(list, db))
<1>1. Len(list) \in Nat /\ \A k \in 1 .. Len(list) : list[k] \in Plain
  OBVIOUS
<1>2. PICK run : Through(run, list, db) /\ Applied(list, db) = run[Len(list)]
  BY <1>1, RunsThrough
<1> DEFINE off == {n \in 0 .. Len(list) : ~ MadeBy(list, n, db, run[n])}
<1>3. off = {}
  <2>1. SUFFICES ASSUME off # {} PROVE FALSE
    OBVIOUS
  <2>2. off \in SUBSET Nat
    OBVIOUS
  <2> HIDE DEF off
  <2>3. PICK n \in off : \A m \in off : n <= m
    BY <2>1, <2>2, NatLeast
  <2> USE DEF off
  <2>4. n # 0
    <3>1. run[0] = db /\ Named(list, 0, "add") = {} /\ Named(list, 0, "create") = {}
      BY <1>2, NamedNext DEF Through
    <3>2. MadeBy(list, 0, db, run[0])
      BY <3>1 DEF MadeBy
    <3>3. QED
      BY <2>3, <3>2
  <2> DEFINE m == n - 1
             s == list[n]
             d == run[m]
  <2>5. n \in 1 .. Len(list) /\ m \in Nat /\ m \in 0 .. Len(list) /\ m \notin off /\ n = m + 1
    BY <2>3, <2>4
  <2>6. MadeBy(list, m, db, d)
    BY <2>5
  <2>7. run[n] = Effect(s, d) /\ s \in Plain
    BY <1>1, <1>2, <2>5 DEF Through
  <2>8. /\ Named(list, n, "add") = Named(list, m, "add") \union (IF s[1] = "add" THEN {s[2]} ELSE {})
        /\ Named(list, n, "create")
             = Named(list, m, "create") \union (IF s[1] = "create" THEN {s[2]} ELSE {})
    BY <2>5, NamedNext
  <2>9. s[1] = "deleteTombstones" => "searchTriggers" \in d.objects
    BY <2>5, <2>6 DEF MadeBy, SyncTables
  <2>10. ~ MadeBy(list, n, db, run[n])
    BY <2>3
  <2> HIDE DEF off, m, s, d
  <2>11. /\ IsDb(Effect(s, d)) /\ Sound(Effect(s, d))
         /\ Effect(s, d).version = d.version
         /\ Effect(s, d).columns = d.columns \union (IF s[1] = "add" THEN {s[2]} ELSE {})
         /\ Effect(s, d).objects \ SyncTables
              = (d.objects \ SyncTables) \union (IF s[1] = "create" THEN {s[2]} ELSE {})
    BY <2>6, <2>7, <2>9, PlainStep DEF MadeBy
  <2>12. QED
    BY <2>6, <2>7, <2>8, <2>10, <2>11 DEF MadeBy
<1>4. QED
  BY <1>1, <1>2, <1>3

LEMMA SameRun ==
  ASSUME NEW list, Len(list) \in Nat, NEW db,
         \A n \in 1 .. Len(list) : Effect(list[n], db) = db
  PROVE  Applied(list, db) = db
<1> DEFINE run == [n \in 0 .. Len(list) |-> db]
<1>1. Through(run, list, db)
  BY DEF Through
<1>2. QED
  BY <1>1, RunUnique

-----------------------------------------------------------------------------
(* The migrations.                                                         *)

LEMMA SmallLists ==
  ASSUME NEW S, NEW a \in S, NEW b \in S, NEW c \in S, NEW d \in S, NEW e \in S
  PROVE  /\ <<a>> \in Seq(S) /\ <<a, b>> \in Seq(S) /\ <<a, b, c>> \in Seq(S)
         /\ <<a, b, c, d>> \in Seq(S) /\ <<a, b, c, d, e>> \in Seq(S)
OBVIOUS

LEMMA PlainMembers ==
  /\ \A column \in DOMAIN Since : Add(column) \in Plain
  /\ \A object \in DOMAIN ObjectSince : Create(object) \in Plain
  /\ \A table \in SyncTables : <<"drop", table>> \in Plain
  /\ \A operation \in RowOperations : Do(operation) \in Plain
  /\ \A name \in Range(SystemNames) : <<"assignKey", name>> \in Plain
BY DEF Plain, Add, Create, Do

(* The statements that give the categories their keys.                     *)
KeyStatements == [n \in DOMAIN SystemNames |-> <<"assignKey", SystemNames[n]>>]

LEMMA KeyList ==
  /\ KeyStatements \in Seq(Plain)
  /\ \A n \in 1 .. Len(KeyStatements) : KeyStatements[n][1] = "assignKey"
<1>1. SystemNames \in Seq(Range(SystemNames))
  BY SchemaAssumption
<1>2. DOMAIN SystemNames = 1 .. Len(SystemNames) /\ Len(SystemNames) \in Nat
  BY <1>1
<1>3. \A n \in DOMAIN SystemNames : SystemNames[n] \in Range(SystemNames)
  BY DEF Range
<1>4. \A n \in DOMAIN SystemNames : KeyStatements[n] \in Plain
  BY <1>3, PlainMembers DEF KeyStatements
<1>5. KeyStatements \in Seq(Plain) /\ Len(KeyStatements) = Len(SystemNames)
  BY <1>2, <1>4 DEF KeyStatements
<1>6. QED
  BY <1>2, <1>5 DEF KeyStatements

(* What the list of each version names.                                    *)
Brings(list, columns, objects) ==
  /\ list \in Seq(Plain)
  /\ Named(list, Len(list), "add") = columns
  /\ Named(list, Len(list), "create") = objects

NoDelete(list) == \A k \in 1 .. Len(list) : list[k][1] # "deleteTombstones"

(* Nothing but columns, objects and keys.                                  *)
Calm(list) == \A k \in 1 .. Len(list) : list[k][1] \in {"add", "create", "assignKey"}

LEMMA Version2 == Brings(Migrations[2], {"paid"}, {}) /\ NoDelete(Migrations[2])
<1>1. Migrations[2] = <<Add("paid")>>
  BY DEF Migrations, Current
<1>2. Add("paid") \in Plain
  BY PlainMembers DEF Since
<1>3. QED
  BY <1>1, <1>2 DEF Brings, NoDelete, Named, Add

LEMMA Version3 == Brings(Migrations[3], {}, {}) /\ NoDelete(Migrations[3])
<1>1. Migrations[3] = <<<<"drop", "sync_conflicts">>, <<"drop", "sync_operations">>>>
  BY DEF Migrations, Current
<1>2. <<"drop", "sync_conflicts">> \in Plain /\ <<"drop", "sync_operations">> \in Plain
  BY PlainMembers DEF SyncTables
<1>3. QED
  BY <1>1, <1>2 DEF Brings, NoDelete, Named

LEMMA Version4 == Brings(Migrations[4], {}, {}) /\ NoDelete(Migrations[4])
<1>1. Migrations[4] = <<Do("dedupe"), Do("normalize"), Do("backfill")>>
  BY DEF Migrations, Current
<1>2. Do("dedupe") \in Plain /\ Do("normalize") \in Plain /\ Do("backfill") \in Plain
  BY PlainMembers DEF RowOperations
<1>3. QED
  BY <1>1, <1>2 DEF Brings, NoDelete, Named, Do

LEMMA Version5 == Brings(Migrations[5], {}, {}) /\ NoDelete(Migrations[5])
<1>1. Migrations[5] = <<Do("dates")>>
  BY DEF Migrations, Current
<1>2. Do("dates") \in Plain
  BY PlainMembers DEF RowOperations
<1>3. QED
  BY <1>1, <1>2 DEF Brings, NoDelete, Named, Do

LEMMA Version6 == Brings(Migrations[6], {}, {"fingerprints"}) /\ NoDelete(Migrations[6])
<1>1. Migrations[6] = <<Create("fingerprints")>>
  BY DEF Migrations, Current
<1>2. Create("fingerprints") \in Plain
  BY PlainMembers DEF ObjectSince
<1>3. QED
  BY <1>1, <1>2 DEF Brings, NoDelete, Named, Create

LEMMA Version7 ==
  Brings(Migrations[7], {}, {"search", "searchTriggers"}) /\ NoDelete(Migrations[7])
<1>1. Migrations[7] = <<Create("search"), Create("searchTriggers"), Do("fill")>>
  BY DEF Migrations, Current
<1>2. Create("search") \in Plain /\ Create("searchTriggers") \in Plain /\ Do("fill") \in Plain
  BY PlainMembers DEF ObjectSince, RowOperations
<1>3. QED
  BY <1>1, <1>2 DEF Brings, NoDelete, Named, Create, Do

LEMMA Version8 == Brings(Migrations[8], {}, {"billIndex"}) /\ NoDelete(Migrations[8])
<1>1. Migrations[8] = <<Do("unlink"), Create("billIndex")>>
  BY DEF Migrations, Current
<1>2. Do("unlink") \in Plain /\ Create("billIndex") \in Plain
  BY PlainMembers DEF ObjectSince, RowOperations
<1>3. QED
  BY <1>1, <1>2 DEF Brings, NoDelete, Named, Create, Do

LEMMA Version9 == Brings(Migrations[9], {}, {})
<1>1. Migrations[9] = <<Do("releaseBills"), Do("releaseOccurrences"), Do("voidRefunds"),
                        Do("deleteTombstones"), Do("deleteGroups")>>
  BY DEF Migrations, Current
<1>2. /\ Do("releaseBills") \in Plain /\ Do("releaseOccurrences") \in Plain
      /\ Do("voidRefunds") \in Plain /\ Do("deleteTombstones") \in Plain
      /\ Do("deleteGroups") \in Plain
  BY PlainMembers DEF RowOperations
<1>3. Migrations[9] \in Seq(Plain)
  BY <1>1, <1>2
<1>4. Len(Migrations[9]) = 5 /\ \A k \in 1 .. 5 : Migrations[9][k][1] \notin {"add", "create"}
  BY <1>1 DEF Do
<1>5. QED
  BY <1>3, <1>4 DEF Brings, Named

LEMMA Version10 ==
  /\ Brings(Migrations[10], {"accountIcon", "accountColor", "categoryIcon", "categoryColor"}, {})
  /\ NoDelete(Migrations[10])
<1> DEFINE list == Migrations[10]
<1>1. list = <<Add("accountIcon"), Add("accountColor"), Add("categoryIcon"), Add("categoryColor")>>
  BY DEF Migrations, Current
<1>2. /\ Add("accountIcon") \in Plain /\ Add("accountColor") \in Plain
      /\ Add("categoryIcon") \in Plain /\ Add("categoryColor") \in Plain
  BY PlainMembers DEF Since
<1>3. list \in Seq(Plain) /\ Len(list) = 4
  BY <1>1, <1>2
<1>4. /\ \A k \in 1 .. 4 : list[k][1] = "add"
      /\ list[1][2] = "accountIcon" /\ list[2][2] = "accountColor"
      /\ list[3][2] = "categoryIcon" /\ list[4][2] = "categoryColor"
  BY <1>1 DEF Add
<1> HIDE DEF list
<1>5. 1 .. 4 = {1, 2, 3, 4}
  OBVIOUS
<1>6. /\ {j \in 1 .. 4 : list[j][1] = "add"} = {1, 2, 3, 4}
      /\ {j \in 1 .. 4 : list[j][1] = "create"} = {}
  BY <1>4, <1>5
<1>7. /\ Named(list, 4, "add") = {"accountIcon", "accountColor", "categoryIcon", "categoryColor"}
      /\ Named(list, 4, "create") = {}
  BY <1>4, <1>6 DEF Named
<1>8. QED
  BY <1>3, <1>4, <1>7 DEF Brings, NoDelete, list

LEMMA ListBetween ==
  ASSUME NEW S, NEW a \in Seq(S), NEW b \in Seq(S), NEW c \in Seq(S), Len(a) = 1, Len(c) = 2
  PROVE  LET list == a \o b \o c IN
         /\ list \in Seq(S) /\ Len(list) = Len(b) + 3
         /\ list[1] = a[1] /\ list[Len(b) + 2] = c[1] /\ list[Len(b) + 3] = c[2]
         /\ \A k \in 2 .. Len(b) + 1 : list[k] = b[k - 1]
<1> DEFINE ab == a \o b
<1>1. /\ ab \in Seq(S) /\ Len(ab) = Len(b) + 1 /\ Len(b) \in Nat
      /\ ab[1] = a[1] /\ \A k \in 2 .. Len(b) + 1 : ab[k] = b[k - 1]
  BY ConcatProperties
<1> HIDE DEF ab
<1> DEFINE list == ab \o c
<1>2. /\ list \in Seq(S) /\ Len(list) = Len(ab) + 2
      /\ \A k \in 1 .. Len(ab) : list[k] = ab[k]
      /\ list[Len(ab) + 1] = c[1] /\ list[Len(ab) + 2] = c[2]
  <2>1. /\ list \in Seq(S) /\ Len(list) = Len(ab) + Len(c)
        /\ \A i \in 1 .. Len(ab) + Len(c) :
             list[i] = IF i <= Len(ab) THEN ab[i] ELSE c[i - Len(ab)]
    BY <1>1, ConcatProperties
  <2> HIDE DEF list
  <2>2. Len(ab) \in Nat /\ Len(c) = 2
    BY <1>1
  <2>3. (Len(ab) + 1) - Len(ab) = 1 /\ (Len(ab) + 2) - Len(ab) = 2
    BY <2>2
  <2>4. list[Len(ab) + 1] = c[1] /\ list[Len(ab) + 2] = c[2]
    BY <2>1, <2>2, <2>3
  <2>5. QED
    BY <2>1, <2>2, <2>4
<1> HIDE DEF list
<1>3. /\ list \in Seq(S) /\ Len(list) = Len(b) + 3
      /\ list[1] = a[1] /\ list[Len(b) + 2] = c[1] /\ list[Len(b) + 3] = c[2]
      /\ \A k \in 2 .. Len(b) + 1 : list[k] = b[k - 1]
  BY <1>1, <1>2
<1>4. QED
  BY <1>3 DEF list, ab

LEMMA Version11 ==
  /\ Brings(Migrations[11], {"systemKey"}, {"keyIndex", "keyTrigger"})
  /\ NoDelete(Migrations[11]) /\ Calm(Migrations[11])
<1> DEFINE list == Migrations[11]
           first == <<Add("systemKey")>>
           last == <<Create("keyIndex"), Create("keyTrigger")>>
           n == Len(KeyStatements)
<1>1. list = first \o KeyStatements \o last
  BY DEF Migrations, Current, KeyStatements
<1>2. /\ Add("systemKey") \in Plain
      /\ Create("keyIndex") \in Plain /\ Create("keyTrigger") \in Plain
  BY PlainMembers DEF Since, ObjectSince
<1>3. /\ first \in Seq(Plain) /\ last \in Seq(Plain) /\ KeyStatements \in Seq(Plain)
      /\ Len(first) = 1 /\ Len(last) = 2 /\ n \in Nat
      /\ first[1] = Add("systemKey") /\ last[1] = Create("keyIndex") /\ last[2] = Create("keyTrigger")
  BY <1>2, KeyList
<1> HIDE DEF list, first, last, n
<1>4. /\ list \in Seq(Plain) /\ Len(list) = n + 3
      /\ list[1] = Add("systemKey")
      /\ list[n + 2] = Create("keyIndex") /\ list[n + 3] = Create("keyTrigger")
      /\ \A k \in 2 .. n + 1 : list[k] = KeyStatements[k - 1]
  BY <1>1, <1>3, ListBetween DEF n
<1>5. \A k \in 2 .. n + 1 : list[k][1] = "assignKey"
  BY <1>3, <1>4, KeyList DEF n
<1>6. /\ list[1][1] = "add" /\ list[1][2] = "systemKey"
      /\ list[n + 2][1] = "create" /\ list[n + 2][2] = "keyIndex"
      /\ list[n + 3][1] = "create" /\ list[n + 3][2] = "keyTrigger"
  BY <1>4 DEF Add, Create
<1>7. \A k \in 1 .. n + 3 : k = 1 \/ k \in 2 .. n + 1 \/ k = n + 2 \/ k = n + 3
  BY <1>3
<1>8. /\ {j \in 1 .. n + 3 : list[j][1] = "add"} = {1}
      /\ {j \in 1 .. n + 3 : list[j][1] = "create"} = {n + 2, n + 3}
  BY <1>3, <1>5, <1>6, <1>7
<1>9. /\ Named(list, n + 3, "add") = {"systemKey"}
      /\ Named(list, n + 3, "create") = {"keyIndex", "keyTrigger"}
  BY <1>6, <1>8 DEF Named
<1>10. \A k \in 1 .. n + 3 : list[k][1] \in {"add", "create", "assignKey"}
  BY <1>5, <1>6, <1>7
<1>11. QED
  BY <1>4, <1>9, <1>10 DEF Brings, NoDelete, Calm, list

(* Every migration brings the columns and the objects of its version.      *)
LEMMA EveryVersion ==
  ASSUME NEW v \in 2 .. Current
  PROVE  /\ Migrations[v] \in Seq(Plain)
         /\ ColumnsAt(v)
              = ColumnsAt(v - 1) \union Named(Migrations[v], Len(Migrations[v]), "add")
         /\ ObjectsAt(v)
              = ObjectsAt(v - 1) \union Named(Migrations[v], Len(Migrations[v]), "create")
         /\ v = 9 \/ NoDelete(Migrations[v])
<1>1. \/ v = 2 \/ v = 3 \/ v = 4 \/ v = 5 \/ v = 6 \/ v = 7 \/ v = 8 \/ v = 9 \/ v = 10 \/ v = 11
  BY DEF Current
<1>2. /\ \A w \in 1 .. 11 : ColumnsAt(w) = {c \in DOMAIN Since : Since[c] =< w}
      /\ \A w \in 1 .. 11 : ObjectsAt(w) = {o \in DOMAIN ObjectSince : ObjectSince[o] =< w}
  BY DEF ColumnsAt, ObjectsAt
<1>3. CASE v = 2
  BY <1>2, <1>3, Version2 DEF Brings, Since, ObjectSince
<1>4. CASE v = 3
  BY <1>2, <1>4, Version3 DEF Brings, Since, ObjectSince
<1>5. CASE v = 4
  BY <1>2, <1>5, Version4 DEF Brings, Since, ObjectSince
<1>6. CASE v = 5
  BY <1>2, <1>6, Version5 DEF Brings, Since, ObjectSince
<1>7. CASE v = 6
  BY <1>2, <1>7, Version6 DEF Brings, Since, ObjectSince
<1>8. CASE v = 7
  BY <1>2, <1>8, Version7 DEF Brings, Since, ObjectSince
<1>9. CASE v = 8
  BY <1>2, <1>9, Version8 DEF Brings, Since, ObjectSince
<1>10. CASE v = 9
  BY <1>2, <1>10, Version9 DEF Brings, Since, ObjectSince
<1>11. CASE v = 10
  BY <1>2, <1>11, Version10 DEF Brings, Since, ObjectSince
<1>12. CASE v = 11
  BY <1>2, <1>12, Version11 DEF Brings, Since, ObjectSince
<1>13. QED
  BY <1>1, <1>3, <1>4, <1>5, <1>6, <1>7, <1>8, <1>9, <1>10, <1>11, <1>12

(* A database of a version the app knows has the shape of that version.    *)
Shaped(db) ==
  db.version \in 0 .. Current =>
    /\ db.columns = ColumnsAt(db.version)
    /\ db.objects \ SyncTables = ObjectsAt(db.version)

Whole(db) == IsDb(db) /\ Sound(db) /\ Shaped(db)

LEMMA NumberSet ==
  ASSUME NEW db, IsDb(db), NEW v
  PROVE  Kept(db, Effect(SetVersion(v), db), {"version"}) /\ Effect(SetVersion(v), db).version = v
<1>1. Effect(SetVersion(v), db) = Set(db, "version", v)
  BY DEF Effect, SetVersion, Set
<1>2. QED
  BY <1>1, SetOne DEF Fields

(* One migration makes a whole database of the next version.               *)
LEMMA MigrateOne ==
  ASSUME NEW db, Whole(db), db.version \in 1 .. Current - 1
  PROVE  LET e == Applied(MigrationTo(db.version + 1), db)
         IN Whole(e) /\ e.version = db.version + 1
<1> DEFINE v == db.version + 1
           list == Migrations[v]
           d == Applied(list, db)
           e == Applied(MigrationTo(v), db)
<1>1. v \in 2 .. Current /\ v - 1 = db.version /\ v \in 0 .. Current /\ db.version \in 0 .. Current
  BY DEF Current
<1>2. /\ list \in Seq(Plain)
      /\ ColumnsAt(v) = ColumnsAt(v - 1) \union Named(list, Len(list), "add")
      /\ ObjectsAt(v) = ObjectsAt(v - 1) \union Named(list, Len(list), "create")
      /\ v = 9 \/ NoDelete(list)
  BY <1>1, EveryVersion
<1>3. IsDb(db) /\ Sound(db)
      /\ db.columns = ColumnsAt(v - 1) /\ db.objects \ SyncTables = ObjectsAt(v - 1)
  BY <1>1 DEF Whole, Shaped
<1>4. \/ "searchTriggers" \in db.objects
      \/ \A k \in 1 .. Len(list) : list[k][1] # "deleteTombstones"
  <2>1. CASE v = 9
    <3>1. "searchTriggers" \in ObjectsAt(8)
      BY DEF ObjectsAt, ObjectSince
    <3>2. v - 1 = 8
      BY <2>1
    <3>3. QED
      BY <1>3, <3>1, <3>2
  <2>2. CASE NoDelete(list)
    BY <2>2 DEF NoDelete
  <2>3. QED
    BY <1>2, <2>1, <2>2
<1> HIDE DEF v, list
<1>5. MadeBy(list, Len(list), db, d)
  BY <1>2, <1>3, <1>4, PlainRun
<1>6. e = Effect(SetVersion(v), d)
  BY <1>2, AppliedLast DEF MigrationTo, list
<1> HIDE DEF d, e
<1>7. Kept(d, e, {"version"}) /\ e.version = v
  BY <1>5, <1>6, NumberSet DEF MadeBy
<1>8. IsDb(e) /\ Sound(e) /\ e.columns = d.columns /\ e.objects = d.objects
  BY <1>5, <1>7 DEF Kept, Fields, Sound, MadeBy
<1>9. e.columns = ColumnsAt(v) /\ e.objects \ SyncTables = ObjectsAt(v)
  BY <1>2, <1>3, <1>5, <1>8 DEF MadeBy
<1>10. Whole(e)
  BY <1>7, <1>8, <1>9 DEF Whole, Shaped
<1>11. QED
  BY <1>7, <1>10 DEF e, v

(* The statements that make a database of the current version.             *)
Creation == Append(CurrentObjects, SetVersion(Current))

LEMMA ObjectList ==
  /\ CurrentObjects # <<>> /\ Head(CurrentObjects) = Do("tables")
  /\ Len(CurrentObjects) = 7
  /\ \A k \in 2 .. 7 : CurrentObjects[k] \in {Create(o) : o \in DOMAIN ObjectSince}
  /\ Brings(Tail(CurrentObjects), {}, DOMAIN ObjectSince) /\ NoDelete(Tail(CurrentObjects))
  /\ CurrentObjects \in Seq(Plain \union {Do("tables")})
<1> DEFINE rest == <<Create("fingerprints"), Create("search"), Create("searchTriggers"),
                     Create("keyTrigger"), Create("billIndex"), Create("keyIndex")>>
<1>1. /\ CurrentObjects # <<>> /\ Head(CurrentObjects) = Do("tables")
      /\ Len(CurrentObjects) = 7 /\ Tail(CurrentObjects) = rest
  BY DEF CurrentObjects
<1>2. /\ CurrentObjects[1] = Do("tables")
      /\ CurrentObjects[2] = Create("fingerprints") /\ CurrentObjects[3] = Create("search")
      /\ CurrentObjects[4] = Create("searchTriggers") /\ CurrentObjects[5] = Create("keyTrigger")
      /\ CurrentObjects[6] = Create("billIndex") /\ CurrentObjects[7] = Create("keyIndex")
  BY DEF CurrentObjects
<1>3. DOMAIN ObjectSince = {"fingerprints", "search", "searchTriggers", "billIndex",
                            "keyIndex", "keyTrigger"}
  BY DEF ObjectSince
<1>4. \A k \in 2 .. 7 : CurrentObjects[k] \in {Create(o) : o \in DOMAIN ObjectSince}
  <2>1. \A k \in 2 .. 7 : k = 2 \/ k = 3 \/ k = 4 \/ k = 5 \/ k = 6 \/ k = 7
    OBVIOUS
  <2>2. QED
    BY <1>2, <1>3, <2>1
<1>5. /\ Create("fingerprints") \in Plain /\ Create("search") \in Plain
      /\ Create("searchTriggers") \in Plain /\ Create("keyTrigger") \in Plain
      /\ Create("billIndex") \in Plain /\ Create("keyIndex") \in Plain
  BY <1>3, PlainMembers
<1>6. rest \in Seq(Plain) /\ CurrentObjects \in Seq(Plain \union {Do("tables")})
  BY <1>5 DEF CurrentObjects
<1>7. /\ Len(rest) = 6 /\ \A k \in 1 .. 6 : rest[k][1] = "create"
      /\ rest[1][2] = "fingerprints" /\ rest[2][2] = "search" /\ rest[3][2] = "searchTriggers"
      /\ rest[4][2] = "keyTrigger" /\ rest[5][2] = "billIndex" /\ rest[6][2] = "keyIndex"
  BY DEF Create
<1> HIDE DEF rest
<1>8. 1 .. 6 = {1, 2, 3, 4, 5, 6}
  OBVIOUS
<1>9. /\ {j \in 1 .. 6 : rest[j][1] = "create"} = {1, 2, 3, 4, 5, 6}
      /\ {j \in 1 .. 6 : rest[j][1] = "add"} = {}
  BY <1>7, <1>8
<1>10. Named(rest, 6, "add") = {} /\ Named(rest, 6, "create") = DOMAIN ObjectSince
  BY <1>3, <1>7, <1>9 DEF Named
<1>11. Brings(rest, {}, DOMAIN ObjectSince) /\ NoDelete(rest)
  BY <1>6, <1>7, <1>10 DEF Brings, NoDelete
<1>12. QED
  BY <1>1, <1>4, <1>6, <1>11

(* An empty database becomes a whole one of the current version.           *)
LEMMA CreateAll ==
  ASSUME NEW db, Whole(db), db.version = 0
  PROVE  LET e == Applied(Creation, db) IN Whole(e) /\ e.version = Current
<1> DEFINE tables == Do("tables")
           d == Effect(tables, db)
           rest == Tail(CurrentObjects)
           c == Applied(rest, d)
           e == Applied(Creation, db)
<1>1. IsDb(db) /\ Sound(db) /\ db.objects \ SyncTables = {}
  BY DEF Whole, Shaped, ObjectsAt, Current
<1>2. d = Set(db, "columns", DOMAIN Since)
  BY DEF Effect, Do, Set
<1>3. Kept(db, d, {"columns"}) /\ d.columns = DOMAIN Since
  BY <1>1, <1>2, SetOne DEF Fields
<1>4. Applied(CurrentObjects, db) = c
  BY ObjectList, AppliedHead
<1>5. e = Effect(SetVersion(Current), c)
  BY <1>4, ObjectList, AppliedLast DEF Creation
<1> HIDE DEF d, rest, c, e
<1>6. IsDb(d) /\ Sound(d) /\ d.objects = db.objects
  BY <1>1, <1>3 DEF Kept, Fields, Sound
<1>7. Brings(rest, {}, DOMAIN ObjectSince) /\ NoDelete(rest)
  BY ObjectList DEF rest
<1>8. MadeBy(rest, Len(rest), d, c)
  BY <1>6, <1>7, PlainRun DEF Brings, NoDelete, c
<1>9. Kept(c, e, {"version"}) /\ e.version = Current
  BY <1>5, <1>8, NumberSet DEF MadeBy
<1>10. IsDb(e) /\ Sound(e) /\ e.columns = c.columns /\ e.objects = c.objects
  BY <1>8, <1>9 DEF Kept, Fields, Sound, MadeBy
<1>11. e.columns = DOMAIN Since /\ e.objects \ SyncTables = DOMAIN ObjectSince
  BY <1>1, <1>3, <1>6, <1>7, <1>8, <1>10 DEF MadeBy, Brings
<1>12. ColumnsAt(Current) = DOMAIN Since /\ ObjectsAt(Current) = DOMAIN ObjectSince
  BY DEF ColumnsAt, ObjectsAt, Current, Since, ObjectSince
<1>13. Whole(e)
  BY <1>9, <1>10, <1>11, <1>12 DEF Whole, Shaped
<1>14. QED
  BY <1>9, <1>13 DEF e

(* A database of the current version misses no object.                     *)
LEMMA EnsureAll ==
  ASSUME NEW db, Whole(db), db.version = Current
  PROVE  Applied(CurrentObjects, db) = db
<1>1. IsDb(db) /\ DOMAIN ObjectSince \subseteq db.objects
  <2>1. ObjectsAt(Current) = DOMAIN ObjectSince
    BY DEF ObjectsAt, Current, ObjectSince
  <2>2. db.objects \ SyncTables = DOMAIN ObjectSince
    BY <2>1 DEF Whole, Shaped, Current
  <2>3. QED
    BY <2>2 DEF Whole
<1>2. Effect(Do("tables"), db) = db
  BY DEF Effect, Do, Current
<1>3. ASSUME NEW o \in DOMAIN ObjectSince PROVE Effect(Create(o), db) = db
  <2>1. db.objects \union {o} = db.objects
    BY <1>1
  <2>2. Effect(Create(o), db) = [db EXCEPT !.objects = db.objects]
    BY <2>1 DEF Effect, Create
  <2>3. QED
    BY <1>1, <2>2 DEF IsDb, Fields
<1>4. \A k \in 1 .. 7 : k = 1 \/ k \in 2 .. 7
  OBVIOUS
<1>5. CurrentObjects[1] = Do("tables")
  BY DEF CurrentObjects
<1>6. \A k \in 1 .. 7 : Effect(CurrentObjects[k], db) = db
  BY <1>2, <1>3, <1>4, <1>5, ObjectList
<1>7. QED
  BY <1>6, ObjectList, SameRun

-----------------------------------------------------------------------------
(* One version after the other.                                            *)

(* What each version up to m makes of a database.                          *)
IsLadder(f, d, m) ==
  f = [v \in d.version .. m |-> IF v = d.version THEN d ELSE Applied(MigrationTo(v), f[v - 1])]

LEMMA LadderExists ==
  ASSUME NEW d, d.version \in Nat, NEW m \in Nat, d.version =< m
  PROVE  \E f : IsLadder(f, d, m)
<1> DEFINE low == d.version
           Step(f, v) == IF v = low THEN d ELSE Applied(MigrationTo(v), f[v - 1])
           Stuck == {n \in Nat : low =< n /\ ~ \E f : IsLadder(f, d, n)}
<1>1. SUFFICES ASSUME Stuck # {} PROVE FALSE
  OBVIOUS
<1>2. Stuck \in SUBSET Nat
  OBVIOUS
<1> HIDE DEF Stuck
<1>3. PICK n \in Stuck : \A k \in Stuck : n <= k
  BY <1>1, <1>2, NatLeast
<1> USE DEF Stuck
<1>4. CASE n = low
  <2>1. low .. low = {low}
    OBVIOUS
  <2>2. [v \in low .. low |-> d] = [v \in low .. low |-> Step([w \in low .. low |-> d], v)]
    BY <2>1
  <2>3. IsLadder([v \in low .. low |-> d], d, low)
    BY <2>2 DEF IsLadder
  <2>4. QED
    BY <1>3, <1>4, <2>3
<1>5. CASE n # low
  <2>1. n \in Nat /\ n - 1 \in Nat /\ low =< n - 1 /\ ~ (n <= n - 1)
    BY <1>3, <1>5
  <2>2. n - 1 \notin Stuck
    BY <1>3, <2>1
  <2>3. PICK f : IsLadder(f, d, n - 1)
    BY <2>1, <2>2
  <2> DEFINE g == [v \in low .. n |-> IF v = n THEN Applied(MigrationTo(n), f[n - 1]) ELSE f[v]]
  <2>4. \A v \in low .. n - 1 : g[v] = f[v] /\ f[v] = Step(f, v)
    <3>1. f = [v \in low .. n - 1 |-> Step(f, v)]
      BY <2>3 DEF IsLadder
    <3>2. \A v \in low .. n - 1 : v \in low .. n /\ v # n
      BY <2>1
    <3>3. QED
      BY <3>1, <3>2
  <2>5. ASSUME NEW v \in low .. n PROVE g[v] = Step(g, v)
    <3>1. CASE v = n
      <4>1. n - 1 \in low .. n - 1 /\ v # low
        BY <1>5, <2>1, <3>1
      <4>2. g[n - 1] = f[n - 1] /\ g[v] = Applied(MigrationTo(n), f[n - 1])
        BY <2>4, <3>1, <4>1
      <4>3. QED
        BY <3>1, <4>1, <4>2
    <3>2. CASE v # n
      <4>1. v \in low .. n - 1 /\ (v # low => v - 1 \in low .. n - 1)
        BY <2>1, <3>2
      <4>2. g[v] = f[v] /\ f[v] = Step(f, v) /\ (v # low => g[v - 1] = f[v - 1])
        BY <2>4, <4>1
      <4>3. QED
        BY <4>2
    <3>3. QED
      BY <3>1, <3>2
  <2>6. g = [v \in low .. n |-> Step(g, v)]
    BY <2>5
  <2> HIDE DEF g
  <2>7. IsLadder(g, d, n)
    BY <2>6 DEF IsLadder
  <2>8. QED
    BY <1>3, <2>7
<1>6. QED
  BY <1>4, <1>5

LEMMA LadderSteps ==
  ASSUME NEW f, NEW d, NEW m, IsLadder(f, d, m)
  PROVE  \A v \in d.version .. m :
           f[v] = IF v = d.version THEN d ELSE Applied(MigrationTo(v), f[v - 1])
<1> DEFINE Step(v) == IF v = d.version THEN d ELSE Applied(MigrationTo(v), f[v - 1])
           g == [v \in d.version .. m |-> Step(v)]
<1>1. f = g
  BY DEF IsLadder
<1>2. \A v \in d.version .. m : g[v] = Step(v)
  OBVIOUS
<1> HIDE DEF g, Step
<1>3. \A v \in d.version .. m : f[v] = Step(v)
  BY <1>1, <1>2
<1>4. QED
  BY <1>3 DEF Step

LEMMA LadderUnique ==
  ASSUME NEW d, d.version \in 0 .. Current, NEW g, IsLadder(g, d, Current)
  PROVE  Migrated(d) = g[Current]
<1> DEFINE low == d.version
           f == CHOOSE f : IsLadder(f, d, Current)
<1>1. Migrated(d) = f[Current]
  BY DEF Migrated, IsLadder
<1>2. low \in Nat /\ Current \in Nat /\ low =< Current
  BY DEF Current
<1>3. IsLadder(f, d, Current)
  BY <1>2, LadderExists
<1> HIDE DEF f
<1> DEFINE off == {v \in low .. Current : f[v] # g[v]}
<1>4. off = {}
  <2>1. SUFFICES ASSUME off # {} PROVE FALSE
    OBVIOUS
  <2>2. off \in SUBSET Nat
    BY <1>2
  <2> HIDE DEF off
  <2>3. PICK v \in off : \A w \in off : v <= w
    BY <2>1, <2>2, NatLeast
  <2> USE DEF off
  <2>4. /\ f[v] = IF v = low THEN d ELSE Applied(MigrationTo(v), f[v - 1])
        /\ g[v] = IF v = low THEN d ELSE Applied(MigrationTo(v), g[v - 1])
    BY <1>3, <2>3, LadderSteps
  <2>5. v # low /\ v \in low .. Current
    BY <2>3, <2>4
  <2>6. v - 1 \in low .. Current /\ ~ (v <= v - 1)
    BY <1>2, <2>5
  <2>7. f[v - 1] = g[v - 1]
    BY <2>3, <2>6
  <2>8. QED
    BY <2>3, <2>4, <2>7
<1>5. QED
  BY <1>1, <1>2, <1>4

LEMMA MigratedSame ==
  ASSUME NEW d, d.version = Current
  PROVE  Migrated(d) = d
<1> DEFINE g == [v \in Current .. Current |-> d]
<1>1. Current \in 0 .. Current /\ Current .. Current = {Current}
  BY DEF Current
<1>2. g = [v \in d.version .. Current |->
             IF v = d.version THEN d ELSE Applied(MigrationTo(v), g[v - 1])]
  BY <1>1
<1>3. g[Current] = d
  BY <1>1
<1> HIDE DEF g
<1>4. IsLadder(g, d, Current)
  BY <1>2 DEF IsLadder
<1>5. QED
  BY <1>1, <1>3, <1>4, LadderUnique

(* The migrations after the first do the rest.                             *)
LEMMA MigratedStep ==
  ASSUME NEW d, d.version \in 1 .. Current - 1, NEW e,
         e = Applied(MigrationTo(d.version + 1), d), e.version = d.version + 1
  PROVE  Migrated(d) = Migrated(e)
<1> DEFINE low == d.version
<1>1. low \in Nat /\ Current \in Nat /\ low + 1 =< Current /\ low \in 0 .. Current
      /\ low + 1 \in 0 .. Current /\ low =< Current
  BY DEF Current
<1>2. PICK f : IsLadder(f, d, Current)
  BY <1>1, LadderExists
<1>3. Migrated(d) = f[Current]
  BY <1>1, <1>2, LadderUnique
<1> DEFINE g == [v \in low + 1 .. Current |-> f[v]]
<1>4. \A v \in low .. Current : f[v] = IF v = low THEN d ELSE Applied(MigrationTo(v), f[v - 1])
  BY <1>2, LadderSteps
<1> HIDE DEF low
<1>5. f[low] = d /\ f[low + 1] = Applied(MigrationTo(low + 1), f[low])
  <2>1. low \in low .. Current /\ low + 1 \in low .. Current /\ low + 1 # low /\ (low + 1) - 1 = low
    BY <1>1
  <2>2. QED
    BY <1>4, <2>1
<1>6. f[low + 1] = e
  BY <1>5 DEF low
<1>7. ASSUME NEW v \in low + 1 .. Current
      PROVE  g[v] = IF v = low + 1 THEN e ELSE Applied(MigrationTo(v), g[v - 1])
  <2>1. CASE v = low + 1
    BY <1>6, <2>1
  <2>2. CASE v # low + 1
    <3>1. v \in low .. Current /\ v # low /\ v - 1 \in low + 1 .. Current
      BY <1>1, <2>2
    <3>2. g[v] = f[v] /\ g[v - 1] = f[v - 1]
      BY <3>1
    <3>3. QED
      BY <1>4, <2>2, <3>1, <3>2
  <2>3. QED
    BY <2>1, <2>2
<1>8. g = [v \in low + 1 .. Current |->
             IF v = low + 1 THEN e ELSE Applied(MigrationTo(v), g[v - 1])]
  BY <1>7
<1>9. g[Current] = f[Current]
  BY <1>1
<1> HIDE DEF g
<1>10. e.version = low + 1
  BY DEF low
<1>11. IsLadder(g, e, Current)
  BY <1>8, <1>10 DEF IsLadder
<1>12. Migrated(e) = g[Current]
  BY <1>1, <1>10, <1>11, LadderUnique
<1>13. QED
  BY <1>3, <1>9, <1>12

-----------------------------------------------------------------------------
(* What an upgrade makes of a database, at each of its stages.             *)

LEMMA UpgradedCurrent ==
  ASSUME NEW d, Whole(d), d.version = Current
  PROVE  Upgraded(d) = Searchable(d)
<1>1. Applied(CurrentObjects, Migrated(d)) = d
  BY MigratedSame, EnsureAll
<1>2. d.version \in 0 .. Current /\ d.version # 0 /\ d.version \in 1 .. Current
  BY DEF Current
<1>3. QED
  BY <1>1, <1>2 DEF Upgraded

LEMMA UpgradedCreated ==
  ASSUME NEW d, Whole(d), d.version = 0, NEW e, e = Applied(Creation, d)
  PROVE  Upgraded(d) = Upgraded(e)
<1>1. Whole(e) /\ e.version = Current
  BY CreateAll
<1>2. Upgraded(e) = Searchable(e)
  BY <1>1, UpgradedCurrent
<1>3. d.version \in 0 .. Current
  BY DEF Current
<1>4. Upgraded(d) = Searchable(e)
  BY <1>3 DEF Upgraded, Creation
<1>5. QED
  BY <1>2, <1>4

LEMMA UpgradedNext ==
  ASSUME NEW d, Whole(d), d.version \in 1 .. Current - 1,
         NEW e, e = Applied(MigrationTo(d.version + 1), d)
  PROVE  Upgraded(d) = Upgraded(e)
<1>1. Whole(e) /\ e.version = d.version + 1
  BY MigrateOne
<1>2. Migrated(d) = Migrated(e)
  BY <1>1, MigratedStep
<1>3. /\ d.version \in 0 .. Current /\ d.version # 0 /\ d.version \in 1 .. Current
      /\ e.version \in 0 .. Current /\ e.version # 0 /\ e.version \in 1 .. Current
  BY <1>1 DEF Current
<1>4. Upgraded(d) = Searchable(Applied(CurrentObjects, Migrated(d)))
  BY <1>3 DEF Upgraded
<1>5. Upgraded(e) = Searchable(Applied(CurrentObjects, Migrated(e)))
  BY <1>3 DEF Upgraded
<1>6. QED
  BY <1>2, <1>4, <1>5

LEMMA FilledSearch ==
  ASSUME NEW d, Whole(d), NEW e, e = FillSearch(d)
  PROVE  /\ Whole(e) /\ e.version = d.version
         /\ e.damaged = FALSE /\ e.search = DOMAIN e.tx
         /\ Searchable(e) = e
<1>1. Kept(d, e, {"search", "damaged"}) /\ e.search = DOMAIN d.tx /\ e.damaged = FALSE
  BY ChangeSearch DEF Whole
<1>2. /\ e.tx = d.tx /\ e.version = d.version /\ e.columns = d.columns /\ e.objects = d.objects
      /\ IsDb(e)
  BY <1>1 DEF Kept, Fields
<1>3. e.search = DOMAIN e.tx
  BY <1>1, <1>2
<1>4. Sound(e)
  BY <1>2, <1>3 DEF Sound, Whole
<1>5. Searchable(e) = e
  BY <1>1, <1>3 DEF Searchable
<1>6. QED
  BY <1>1, <1>2, <1>3, <1>4, <1>5 DEF Whole, Shaped

(* The rebuild is one statement.                                           *)
LEMMA RebuildList ==
  ASSUME NEW d
  PROVE  Applied(<<Do("fill")>>, d) = FillSearch(d)
<1> DEFINE list == <<Do("fill")>>
<1>1. list \in Seq({Do("fill")}) /\ list # <<>> /\ Tail(list) = <<>> /\ Head(list) = Do("fill")
  OBVIOUS
<1> HIDE DEF list
<1>2. Applied(list, d) = Applied(<<>>, Effect(Do("fill"), d))
  BY <1>1, AppliedHead
<1>3. Effect(Do("fill"), d) = FillSearch(d)
  BY DEF Effect, Do
<1>4. QED
  BY <1>2, <1>3, AppliedNone DEF list

-----------------------------------------------------------------------------
(* The invariant.                                                          *)

Statements == UNION {Plain, {Do("tables")}, {SetVersion(v) : v \in 1 .. Current}}

(* The statements of each transaction on a database.                       *)
ListOf(p, db) ==
  CASE p = "creating" -> Creation
    [] p = "migrating" -> MigrationTo(db.version + 1)
    [] p = "ensuring" -> CurrentObjects
    [] p = "rebuilding" -> <<Do("fill")>>

(* The version on disk at each stage of _initializeSchema, and what is     *)
(* known of the search index.                                              *)
Stage(p, db) ==
  /\ p = "creating" => db.version = 0
  /\ p = "migrating" => db.version \in 1 .. Current - 1
  /\ p \in {"ensuring", "checking", "rebuilding", "ready"} => db.version = Current
  /\ p = "rebuilding" => db.damaged \/ db.search # DOMAIN db.tx
  /\ p = "ready" => ~ db.damaged /\ db.search = DOMAIN db.tx
  /\ p = "refused" => db.version \notin 0 .. Current

(* What is left of the list makes of the transaction what all of it makes  *)
(* of the database on disk.                                                *)
Halfway ==
  /\ todo \in Seq(Statements)
  /\ Applied(todo, work) = Applied(ListOf(phase, disk), disk)

UpgradeInv ==
  /\ start \in Legacy /\ stops \in 0 .. MaxStops
  /\ phase \in {"closed", "checking", "ready", "refused"} \union Transactions
  /\ Whole(disk) /\ Stage(phase, disk)
  /\ Upgraded(disk) = Upgraded(start)
  /\ phase \notin Transactions => todo = <<>> /\ work = disk
  /\ phase \in Transactions => Halfway

LEMMA ListOfStatements ==
  ASSUME NEW p \in Transactions, NEW db, Stage(p, db)
  PROVE  ListOf(p, db) \in Seq(Statements)
<1>1. Plain \subseteq Statements /\ Do("tables") \in Statements
      /\ \A v \in 1 .. Current : SetVersion(v) \in Statements
  BY DEF Statements
<1>2. CurrentObjects \in Seq(Statements)
  <2> DEFINE S == Plain \union {Do("tables")}
  <2>1. CurrentObjects \in Seq(S) /\ S \subseteq Statements
    BY <1>1, ObjectList
  <2> HIDE DEF S
  <2>2. QED
    BY <2>1
<1>3. CASE p = "creating"
  <2>1. SetVersion(Current) \in Statements
    BY <1>1 DEF Current
  <2>2. QED
    BY <1>2, <1>3, <2>1 DEF ListOf, Creation
<1>4. CASE p = "migrating"
  <2> DEFINE v == db.version + 1
  <2>1. v \in 2 .. Current /\ v \in 1 .. Current
    BY <1>4 DEF Stage, Current
  <2>2. Migrations[v] \in Seq(Plain)
    BY <2>1, EveryVersion
  <2> HIDE DEF v
  <2>3. Migrations[v] \in Seq(Statements)
    BY <1>1, <2>2
  <2>4. MigrationTo(v) \in Seq(Statements)
    BY <1>1, <2>1, <2>3 DEF MigrationTo
  <2>5. QED
    BY <1>4, <2>4 DEF ListOf, v
<1>5. CASE p = "ensuring"
  BY <1>2, <1>5 DEF ListOf
<1>6. CASE p = "rebuilding"
  <2>1. Do("fill") \in Statements
    BY <1>1, PlainMembers DEF RowOperations
  <2>2. QED
    BY <1>6, <2>1 DEF ListOf
<1>7. QED
  BY <1>3, <1>4, <1>5, <1>6 DEF Transactions

LEMMA InvInit == Init => UpgradeInv
<1> SUFFICES ASSUME Init PROVE UpgradeInv
  OBVIOUS
<1> USE DEF Init
<1>1. /\ start = [f \in Fields |-> start[f]]
      /\ start.version \in 0 .. Current =>
           ShapeOf(start) = [columns |-> ColumnsAt(start.version), objects |-> ObjectsAt(start.version)]
      /\ IsFiniteSet(DOMAIN start.tx)
      /\ start.damaged \/ start.search \subseteq DOMAIN start.tx
  BY LegacyAssumption
<1>2. Whole(start)
  <2>1. start.version \in 0 .. Current =>
          /\ start.columns = ColumnsAt(start.version)
          /\ start.objects \ SyncTables = ObjectsAt(start.version)
    BY <1>1 DEF ShapeOf
  <2>2. QED
    BY <1>1, <2>1 DEF Whole, IsDb, Sound, Shaped
<1>3. 0 \in 0 .. MaxStops
  BY SchemaAssumption
<1>4. QED
  BY <1>2, <1>3 DEF UpgradeInv, Stage, Transactions

(* BEGIN: all of the list is left.                                         *)
LEMMA Begun ==
  ASSUME NEW p \in Transactions, Begin(p, ListOf(p, disk'), disk'),
         start' \in Legacy, stops' \in 0 .. MaxStops,
         Whole(disk'), Stage(p, disk'), Upgraded(disk') = Upgraded(start')
  PROVE  UpgradeInv'
<1>1. phase' = p /\ todo' = ListOf(p, disk') /\ work' = disk'
  BY DEF Begin
<1>2. ListOf(p, disk') \in Seq(Statements)
  BY ListOfStatements
<1>3. Halfway'
  BY <1>1, <1>2 DEF Halfway
<1>4. QED
  BY <1>1, <1>3 DEF UpgradeInv

(* Outside of a transaction.                                               *)
LEMMA Outside ==
  ASSUME phase' \in {"closed", "checking", "ready", "refused"}, todo' = <<>>, work' = disk',
         start' \in Legacy, stops' \in 0 .. MaxStops,
         Whole(disk'), Stage(phase', disk'), Upgraded(disk') = Upgraded(start')
  PROVE  UpgradeInv'
BY DEF UpgradeInv, Transactions

LEMMA Continued ==
  ASSUME Continue(disk'), disk'.version \in 1 .. Current,
         start' \in Legacy, stops' \in 0 .. MaxStops,
         Whole(disk'), Upgraded(disk') = Upgraded(start')
  PROVE  UpgradeInv'
<1>1. CASE disk'.version < Current
  <2>1. disk'.version \in 1 .. Current - 1
    BY <1>1 DEF Current
  <2>2. Begin("migrating", ListOf("migrating", disk'), disk') /\ Stage("migrating", disk')
    BY <1>1, <2>1 DEF Continue, ListOf, Stage
  <2>3. QED
    BY <2>2, Begun DEF Transactions
<1>2. CASE ~ (disk'.version < Current)
  <2>1. disk'.version = Current
    BY <1>2 DEF Current
  <2>2. Begin("ensuring", ListOf("ensuring", disk'), disk') /\ Stage("ensuring", disk')
    BY <1>2, <2>1 DEF Continue, ListOf, Stage
  <2>3. QED
    BY <2>2, Begun DEF Transactions
<1>3. QED
  BY <1>1, <1>2

LEMMA InvOpen == UpgradeInv /\ Open => UpgradeInv'
<1> SUFFICES ASSUME UpgradeInv, Open PROVE UpgradeInv'
  OBVIOUS
<1>1. /\ start' \in Legacy /\ stops' \in 0 .. MaxStops /\ disk' = disk
      /\ Whole(disk') /\ Upgraded(disk') = Upgraded(start')
      /\ todo = <<>> /\ work = disk
  BY DEF UpgradeInv, Open, Transactions
<1>2. CASE disk.version = 0
  <2>1. Begin("creating", ListOf("creating", disk'), disk') /\ Stage("creating", disk')
    BY <1>1, <1>2 DEF Open, ListOf, Creation, Stage
  <2>2. QED
    BY <1>1, <2>1, Begun DEF Transactions
<1>3. CASE disk.version \in 1 .. Current
  <2>1. Continue(disk')
    BY <1>1, <1>3 DEF Open
  <2>2. QED
    BY <1>1, <1>3, <2>1, Continued
<1>4. CASE disk.version # 0 /\ disk.version \notin 1 .. Current
  <2>1. phase' = "refused" /\ todo' = todo /\ work' = work
    BY <1>4 DEF Open
  <2>2. disk'.version \notin 0 .. Current
    BY <1>1, <1>4 DEF Current
  <2>3. Stage(phase', disk')
    BY <2>1, <2>2 DEF Stage
  <2>4. QED
    BY <1>1, <2>1, <2>3, Outside
<1>5. QED
  BY <1>2, <1>3, <1>4

(* One statement less is left, of a database one statement further.        *)
LEMMA InvExecute == UpgradeInv /\ Execute => UpgradeInv'
<1> SUFFICES ASSUME UpgradeInv, Execute PROVE UpgradeInv'
  OBVIOUS
<1>1. /\ phase \in Transactions /\ todo # <<>> /\ Halfway
      /\ work' = Effect(Head(todo), work) /\ todo' = Tail(todo)
      /\ UNCHANGED <<start, disk, phase, stops>>
  BY DEF UpgradeInv, Execute
<1>2. Applied(todo', work') = Applied(todo, work) /\ todo' \in Seq(Statements)
  BY <1>1, AppliedHead DEF Halfway
<1>3. Halfway'
  BY <1>1, <1>2 DEF Halfway
<1>4. QED
  BY <1>1, <1>3 DEF UpgradeInv

LEMMA InvCommit == UpgradeInv /\ Commit => UpgradeInv'
<1> SUFFICES ASSUME UpgradeInv, Commit PROVE UpgradeInv'
  OBVIOUS
<1>1. /\ phase \in Transactions /\ todo = <<>> /\ Halfway /\ disk' = work
      /\ start' \in Legacy /\ stops' \in 0 .. MaxStops /\ start' = start
      /\ Whole(disk) /\ Stage(phase, disk) /\ Upgraded(disk) = Upgraded(start)
  BY DEF UpgradeInv, Commit
<1>2. disk' = Applied(ListOf(phase, disk), disk)
  BY <1>1, AppliedNone DEF Halfway
<1>3. CASE phase = "creating"
  <2>1. disk' = Applied(Creation, disk) /\ disk.version = 0
    BY <1>1, <1>2, <1>3 DEF ListOf, Stage
  <2>2. Whole(disk') /\ disk'.version = Current /\ Upgraded(disk') = Upgraded(start')
    BY <1>1, <2>1, CreateAll, UpgradedCreated
  <2>3. phase' = "checking" /\ todo' = <<>> /\ work' = disk'
    BY <1>1, <1>3 DEF Commit
  <2>4. Stage(phase', disk')
    BY <2>2, <2>3 DEF Stage
  <2>5. QED
    BY <1>1, <2>2, <2>3, <2>4, Outside
<1>4. CASE phase = "migrating"
  <2>1. disk' = Applied(MigrationTo(disk.version + 1), disk) /\ disk.version \in 1 .. Current - 1
    BY <1>1, <1>2, <1>4 DEF ListOf, Stage
  <2>2. Whole(disk') /\ disk'.version = disk.version + 1 /\ Upgraded(disk') = Upgraded(start')
    BY <1>1, <2>1, MigrateOne, UpgradedNext
  <2>3. disk'.version \in 1 .. Current
    BY <2>1, <2>2 DEF Current
  <2>4. Continue(disk')
    BY <1>1, <1>4 DEF Commit
  <2>5. QED
    BY <1>1, <2>2, <2>3, <2>4, Continued
<1>5. CASE phase = "ensuring"
  <2>1. disk' = Applied(CurrentObjects, disk) /\ disk.version = Current
    BY <1>1, <1>2, <1>5 DEF ListOf, Stage
  <2>2. disk' = disk
    BY <1>1, <2>1, EnsureAll
  <2>3. phase' = "checking" /\ todo' = <<>> /\ work' = disk'
    BY <1>1, <1>5 DEF Commit
  <2>4. Stage(phase', disk')
    BY <2>1, <2>2, <2>3 DEF Stage
  <2>5. QED
    BY <1>1, <2>2, <2>3, <2>4, Outside
<1>6. CASE phase = "rebuilding"
  <2>1. /\ disk' = FillSearch(disk) /\ disk.version = Current
        /\ disk.damaged \/ disk.search # DOMAIN disk.tx
    BY <1>1, <1>2, <1>6, RebuildList DEF ListOf, Stage
  <2>2. /\ Whole(disk') /\ disk'.version = Current /\ Searchable(disk') = disk'
        /\ ~ disk'.damaged /\ disk'.search = DOMAIN disk'.tx
    BY <1>1, <2>1, FilledSearch
  <2>3. Upgraded(disk) = disk'
    BY <1>1, <2>1, UpgradedCurrent DEF Searchable
  <2>4. Upgraded(disk') = disk'
    BY <2>2, UpgradedCurrent
  <2>5. phase' = "ready" /\ todo' = <<>> /\ work' = disk'
    BY <1>1, <1>6 DEF Commit
  <2>6. Stage(phase', disk')
    BY <2>2, <2>5 DEF Stage
  <2>7. QED
    BY <1>1, <2>2, <2>3, <2>4, <2>5, <2>6, Outside
<1>7. QED
  BY <1>1, <1>3, <1>4, <1>5, <1>6 DEF Transactions

LEMMA InvCheckSearch == UpgradeInv /\ CheckSearch => UpgradeInv'
<1> SUFFICES ASSUME UpgradeInv, CheckSearch PROVE UpgradeInv'
  OBVIOUS
<1>1. /\ phase = "checking" /\ todo = <<>> /\ work = disk /\ disk' = disk
      /\ start' \in Legacy /\ stops' \in 0 .. MaxStops
      /\ Whole(disk') /\ disk'.version = Current /\ Upgraded(disk') = Upgraded(start')
  BY DEF UpgradeInv, CheckSearch, Stage, Transactions
<1>2. CASE disk.damaged \/ Cardinality(disk.search) # Cardinality(DOMAIN disk.tx)
  <2>1. Begin("rebuilding", ListOf("rebuilding", disk'), disk')
    BY <1>1, <1>2 DEF CheckSearch, ListOf
  <2>2. disk'.damaged \/ disk'.search # DOMAIN disk'.tx
    BY <1>1, <1>2
  <2>3. Stage("rebuilding", disk')
    BY <1>1, <2>2 DEF Stage
  <2>4. QED
    BY <1>1, <2>1, <2>3, Begun DEF Transactions
<1>3. CASE ~ disk.damaged /\ Cardinality(disk.search) = Cardinality(DOMAIN disk.tx)
  <2>1. phase' = "ready" /\ todo' = todo /\ work' = work
    BY <1>3 DEF CheckSearch
  <2>2. IsFiniteSet(DOMAIN disk.tx) /\ disk.search \subseteq DOMAIN disk.tx
    BY <1>1, <1>3 DEF Whole, Sound
  <2>3. disk.search = DOMAIN disk.tx
    BY <1>3, <2>2, FS_Subset
  <2>4. Stage(phase', disk')
    BY <1>1, <1>3, <2>1, <2>3 DEF Stage
  <2>5. QED
    BY <1>1, <2>1, <2>4, Outside
<1>4. QED
  BY <1>2, <1>3

LEMMA InvAbandon ==
  ASSUME UpgradeInv, Abandon, stops' \in 0 .. MaxStops
  PROVE  UpgradeInv'
<1>1. phase' = "closed" /\ todo' = <<>> /\ work' = disk' /\ disk' = disk /\ start' = start
  BY DEF Abandon
<1>2. Stage(phase', disk')
  BY <1>1 DEF Stage
<1>3. QED
  BY <1>1, <1>2, Outside DEF UpgradeInv

LEMMA InvStep == UpgradeInv /\ [Next]_vars => UpgradeInv'
<1> SUFFICES ASSUME UpgradeInv, [Next]_vars PROVE UpgradeInv'
  OBVIOUS
<1>1. stops \in 0 .. MaxStops /\ MaxStops \in Nat
  BY SchemaAssumption DEF UpgradeInv
<1>2. CASE Throw
  <2>1. stops' \in 0 .. MaxStops
    BY <1>1, <1>2 DEF Throw
  <2>2. QED
    BY <1>2, <2>1, InvAbandon DEF Throw
<1>3. CASE Kill
  <2>1. stops' \in 0 .. MaxStops
    BY <1>1, <1>3 DEF Kill
  <2>2. QED
    BY <1>3, <2>1, InvAbandon DEF Kill
<1>4. CASE UNCHANGED vars
  BY <1>4 DEF UpgradeInv, Halfway, vars
<1>5. QED
  BY <1>2, <1>3, <1>4, InvOpen, InvExecute, InvCommit, InvCheckSearch DEF Next

(* In every state of every upgrade, the invariant holds.                   *)
THEOREM UpgradeInvariant == Spec => []UpgradeInv
BY InvInit, InvStep, PTL DEF Spec

-----------------------------------------------------------------------------
(* A database on disk has the columns and objects of the version it says,  *)
(* whole, whenever the upgrade is interrupted (app_database.dart writes    *)
(* the version in the transaction of its statements).                      *)
THEOREM TypeCorrect == Spec => []TypeOK
<1>1. UpgradeInv => TypeOK
  BY DEF UpgradeInv, TypeOK, Whole, Shaped, ShapeOf
<1>2. QED
  BY <1>1, UpgradeInvariant, PTL

(* However often it is killed or finds the storage full, the upgrade ends  *)
(* with the database that an uninterrupted one makes, and a database the   *)
(* app refuses is left as it was.                                          *)
THEOREM ResumedAlways == Spec => []ResumedAsUninterrupted
<1>1. ASSUME UpgradeInv PROVE ResumedAsUninterrupted
  <2>1. CASE phase = "ready"
    <3>1. Whole(disk) /\ disk.version = Current /\ ~ disk.damaged /\ disk.search = DOMAIN disk.tx
          /\ Upgraded(disk) = Upgraded(start)
      BY <1>1, <2>1 DEF UpgradeInv, Stage
    <3>2. Upgraded(disk) = disk
      BY <3>1, UpgradedCurrent DEF Searchable
    <3>3. QED
      BY <3>1, <3>2 DEF ResumedAsUninterrupted
  <2>2. CASE phase = "refused"
    <3>1. disk.version \notin 0 .. Current /\ Upgraded(disk) = Upgraded(start)
      BY <1>1, <2>2 DEF UpgradeInv, Stage
    <3>2. disk.version # 0 /\ disk.version \notin 1 .. Current
      BY <3>1 DEF Current
    <3>3. Upgraded(disk) = disk
      BY <3>1, <3>2 DEF Upgraded
    <3>4. QED
      BY <3>1, <3>3 DEF ResumedAsUninterrupted
  <2>3. QED
    BY <2>1, <2>2 DEF ResumedAsUninterrupted
<1>2. QED
  BY <1>1, UpgradeInvariant, PTL

-----------------------------------------------------------------------------
(* The statements that leave entries, bills and markers alone.             *)

Quiet == {"add", "create", "drop", "dates", "fill", "assignKey", "deleteGroups", "tables", "version"}

SameRows(d, e) == e.tx = d.tx /\ e.bills = d.bills /\ e.occs = d.occs

LEMMA QuietStep ==
  ASSUME NEW db, IsDb(db), NEW s, s[1] \in Quiet
  PROVE  IsDb(Effect(s, db)) /\ SameRows(db, Effect(s, db))
<1> DEFINE e == Effect(s, db)
<1>1. CASE s[1] = "add"
  BY <1>1, ChangeColumns DEF SameRows, Kept, Fields
<1>2. CASE s[1] \in {"create", "drop"}
  <2>1. /\ Kept(db, e, {"objects"})
        /\ e.objects = IF s[1] = "create" THEN db.objects \union {s[2]} ELSE db.objects \ {s[2]}
    BY <1>2, ChangeObjects
  <2> HIDE DEF e
  <2>2. IsDb(e) /\ SameRows(db, e)
    BY <2>1 DEF SameRows, Kept, Fields
  <2>3. QED
    BY <2>2 DEF e
<1>3. CASE s[1] \in {"dates", "deleteGroups", "assignKey"}
  BY <1>3, ChangeOther DEF SameRows, Kept, Fields
<1>4. CASE s[1] = "fill"
  <2>1. e = FillSearch(db)
    BY <1>4 DEF Effect
  <2> HIDE DEF e
  <2>2. Kept(db, e, {"search", "damaged"})
    BY <2>1, ChangeSearch
  <2>3. QED
    BY <2>2 DEF e, SameRows, Kept, Fields
<1>5. CASE s[1] = "tables"
  <2>1. e = db \/ e = Set(db, "columns", DOMAIN Since)
    BY <1>5 DEF Effect, Set
  <2> HIDE DEF e
  <2>2. IsDb(e) /\ SameRows(db, e)
    BY <2>1, SetOne DEF SameRows, Kept, Fields
  <2>3. QED
    BY <2>2 DEF e
<1>6. CASE s[1] = "version"
  <2>1. e = Set(db, "version", s[2])
    BY <1>6 DEF Effect, Set
  <2> HIDE DEF e
  <2>2. IsDb(e) /\ SameRows(db, e)
    BY <2>1, SetOne DEF SameRows, Kept, Fields
  <2>3. QED
    BY <2>2 DEF e, SameRows, Kept, Fields
<1>7. QED
  BY <1>1, <1>2, <1>3, <1>4, <1>5, <1>6 DEF Quiet

LEMMA QuietRun ==
  ASSUME NEW list, Len(list) \in Nat, \A k \in 1 .. Len(list) : list[k][1] \in Quiet,
         NEW db, IsDb(db)
  PROVE  IsDb(Applied(list, db)) /\ SameRows(db, Applied(list, db))
<1>1. PICK run : Through(run, list, db) /\ Applied(list, db) = run[Len(list)]
  BY RunsThrough
<1> DEFINE off == {n \in 0 .. Len(list) : ~ (IsDb(run[n]) /\ SameRows(db, run[n]))}
<1>2. off = {}
  <2>1. SUFFICES ASSUME off # {} PROVE FALSE
    OBVIOUS
  <2>2. off \in SUBSET Nat
    OBVIOUS
  <2> HIDE DEF off
  <2>3. PICK n \in off : \A m \in off : n <= m
    BY <2>1, <2>2, NatLeast
  <2> USE DEF off
  <2>4. n # 0
    BY <1>1, <2>3 DEF Through, SameRows
  <2>5. n \in 1 .. Len(list) /\ n - 1 \in 0 .. Len(list) /\ n - 1 \notin off
    BY <2>3, <2>4
  <2>6. IsDb(run[n - 1]) /\ SameRows(db, run[n - 1]) /\ run[n] = Effect(list[n], run[n - 1])
    BY <1>1, <2>5 DEF Through
  <2>7. IsDb(run[n]) /\ SameRows(run[n - 1], run[n])
    BY <2>5, <2>6, QuietStep
  <2>8. QED
    BY <2>3, <2>6, <2>7 DEF SameRows
<1>3. QED
  BY <1>1, <1>2

LEMMA QuietVersions ==
  ASSUME NEW v \in {2, 3, 5, 6, 7, 10, 11}
  PROVE  \A k \in 1 .. Len(Migrations[v]) : Migrations[v][k][1] \in Quiet
<1> USE DEF Quiet
<1>1. CASE v = 2
  <2>1. Migrations[2] = <<Add("paid")>>
    BY DEF Migrations, Current
  <2>2. QED
    BY <1>1, <2>1 DEF Add
<1>2. CASE v = 3
  <2>1. Migrations[3] = <<<<"drop", "sync_conflicts">>, <<"drop", "sync_operations">>>>
    BY DEF Migrations, Current
  <2>2. QED
    BY <1>2, <2>1
<1>3. CASE v = 5
  <2>1. Migrations[5] = <<Do("dates")>>
    BY DEF Migrations, Current
  <2>2. QED
    BY <1>3, <2>1 DEF Do
<1>4. CASE v = 6
  <2>1. Migrations[6] = <<Create("fingerprints")>>
    BY DEF Migrations, Current
  <2>2. QED
    BY <1>4, <2>1 DEF Create
<1>5. CASE v = 7
  <2>1. Migrations[7] = <<Create("search"), Create("searchTriggers"), Do("fill")>>
    BY DEF Migrations, Current
  <2>2. QED
    BY <1>5, <2>1 DEF Create, Do
<1>6. CASE v = 10
  <2>1. Migrations[10] = <<Add("accountIcon"), Add("accountColor"),
                           Add("categoryIcon"), Add("categoryColor")>>
    BY DEF Migrations, Current
  <2>2. QED
    BY <1>6, <2>1 DEF Add
<1>7. CASE v = 11
  BY <1>7, Version11 DEF Calm
<1>8. QED
  BY <1>1, <1>2, <1>3, <1>4, <1>5, <1>6, <1>7

-----------------------------------------------------------------------------
(* The statements that do not.                                             *)

IsRow(r, fields) == r = [f \in fields |-> r[f]]

LEMMA SetInRow ==
  ASSUME NEW fields, NEW r, IsRow(r, fields), NEW f \in fields, NEW X
  PROVE  /\ IsRow([r EXCEPT ![f] = X], fields)
         /\ [r EXCEPT ![f] = X][f] = X
         /\ \A g \in fields \ {f} : [r EXCEPT ![f] = X][g] = r[g]
<1>1. DOMAIN r = fields
  BY DEF IsRow
<1> DEFINE q == [r EXCEPT ![f] = X]
<1>2. q = [g \in fields |-> IF g = f THEN X ELSE r[g]]
  BY <1>1
<1> HIDE DEF q
<1>3. QED
  BY <1>2 DEF IsRow, q

LEMMA UnpaidRow ==
  ASSUME NEW r, IsRow(r, BillFields)
  PROVE  IsRow(Unpaid(r), BillFields) /\ Unpaid(r).payment = None
<1>1. DOMAIN r = BillFields
  BY DEF IsRow
<1>2. Unpaid(r) = [g \in BillFields |-> IF g = "status" THEN "UPCOMING" ELSE None]
  BY <1>1 DEF Unpaid, BillFields
<1>3. QED
  BY <1>2 DEF IsRow, BillFields

LEMMA OccurrenceRow ==
  ASSUME NEW r, IsRow(r, OccurrenceFields), NEW q,
         q = [r EXCEPT !.key = "date"] \/ q = [r EXCEPT !.tx = None]
  PROVE  IsRow(q, OccurrenceFields) /\ q.rule = r.rule /\ q.date = r.date
<1>1. DOMAIN r = OccurrenceFields
  BY DEF IsRow
<1>2. \/ q = [g \in OccurrenceFields |-> IF g = "key" THEN "date" ELSE r[g]]
      \/ q = [g \in OccurrenceFields |-> IF g = "tx" THEN None ELSE r[g]]
  BY <1>1 DEF OccurrenceFields
<1>3. QED
  BY <1>2 DEF IsRow, OccurrenceFields

LEMMA VoidedRow ==
  ASSUME NEW r, IsRow(r, EntryFields), NEW q,
         q = [r EXCEPT !.status = "VOIDED", !.original = None]
  PROVE  /\ IsRow(q, EntryFields)
         /\ q.status = "VOIDED" /\ q.deleted = r.deleted
<1>1. DOMAIN r = EntryFields
  BY DEF IsRow
<1>2. q = [g \in EntryFields |->
             IF g = "status" THEN "VOIDED" ELSE IF g = "original" THEN None ELSE r[g]]
  BY <1>1 DEF EntryFields
<1>3. QED
  BY <1>2 DEF IsRow, EntryFields

(* An entry but for the leg of a draft.                                    *)
SameEntry(a, b) ==
  /\ a.type = b.type /\ a.status = b.status /\ a.deleted = b.deleted /\ a.original = b.original
  /\ a.status # "DRAFT" => a.delta = b.delta

LEMMA LegRow ==
  ASSUME NEW r, IsRow(r, EntryFields), r.status = "DRAFT", NEW X, NEW q, q = [r EXCEPT !.delta = X]
  PROVE  IsRow(q, EntryFields) /\ SameEntry(q, r)
<1>1. DOMAIN r = EntryFields
  BY DEF IsRow
<1>2. q = [g \in EntryFields |-> IF g = "delta" THEN X ELSE r[g]]
  BY <1>1 DEF EntryFields
<1>3. QED
  BY <1>2 DEF IsRow, EntryFields, SameEntry

(* The rows of a database that an upgrade is to keep.                      *)
RowsOk(d) ==
  /\ DOMAIN d.occs \subseteq Nat /\ DOMAIN d.bills \subseteq Nat /\ None \notin DOMAIN d.tx
  /\ \A t \in DOMAIN d.tx : IsRow(d.tx[t], EntryFields)
  /\ \A i \in DOMAIN d.bills : IsRow(d.bills[i], BillFields)
  /\ \A i \in DOMAIN d.occs : IsRow(d.occs[i], OccurrenceFields)

Linked(d, p) == \E i \in DOMAIN d.bills : d.bills[i].payment = p

OnePayment(d) ==
  \A i, j \in DOMAIN d.bills : i # j /\ d.bills[i].payment # None
                                 => d.bills[i].payment # d.bills[j].payment

(* 4: the first marker of each rule and date stays.                        *)
LEMMA DedupeKeeps ==
  ASSUME NEW d, IsDb(d), RowsOk(d), NEW e, e = DedupeOccurrences(d)
  PROVE  /\ IsDb(e) /\ RowsOk(e) /\ e.tx = d.tx /\ e.bills = d.bills
         /\ Markers(e) = Markers(d)
<1> DEFINE first(i) == ~\E j \in DOMAIN d.occs : /\ j < i
                                                 /\ d.occs[j].rule = d.occs[i].rule
                                                 /\ d.occs[j].date = d.occs[i].date
           X == [i \in {k \in DOMAIN d.occs : first(k)} |-> d.occs[i]]
<1>1. e = Set(d, "occs", X)
  BY DEF DedupeOccurrences, Set
<1>2. DOMAIN X = {k \in DOMAIN d.occs : first(k)} /\ \A i \in DOMAIN X : X[i] = d.occs[i]
  OBVIOUS
<1> HIDE DEF X
<1>3. Kept(d, e, {"occs"}) /\ e.occs = X
  BY <1>1, SetOne DEF Fields
<1>4. IsDb(e) /\ e.tx = d.tx /\ e.bills = d.bills
  BY <1>3 DEF Kept, Fields
<1>5. RowsOk(e)
  BY <1>2, <1>3, <1>4 DEF RowsOk
<1>6. Markers(e) \subseteq Markers(d)
  BY <1>2, <1>3 DEF Markers
<1>7. ASSUME NEW i \in DOMAIN d.occs
      PROVE  <<d.occs[i].rule, d.occs[i].date>> \in Markers(e)
  <2> DEFINE same == {j \in DOMAIN d.occs : /\ d.occs[j].rule = d.occs[i].rule
                                            /\ d.occs[j].date = d.occs[i].date}
  <2>1. same \in SUBSET Nat /\ same # {}
    BY DEF RowsOk
  <2> HIDE DEF same
  <2>2. PICK j \in same : \A k \in same : j <= k
    BY <2>1, NatLeast
  <2> USE DEF same
  <2>3. j \in Nat /\ \A k \in DOMAIN d.occs : k \in Nat
    BY <2>1 DEF RowsOk
  <2>4. first(j)
    BY <2>2, <2>3
  <2>5. j \in DOMAIN X /\ X[j] = d.occs[j]
    BY <1>2, <2>4
  <2>6. QED
    BY <1>3, <2>5 DEF Markers
<1>8. Markers(d) \subseteq Markers(e)
  BY <1>7 DEF Markers
<1>9. QED
  BY <1>4, <1>5, <1>6, <1>8

LEMMA NormalizeKeeps ==
  ASSUME NEW d, IsDb(d), RowsOk(d), NEW e, e = NormalizeKeys(d)
  PROVE  /\ IsDb(e) /\ RowsOk(e) /\ e.tx = d.tx /\ e.bills = d.bills
         /\ Markers(e) = Markers(d)
<1> DEFINE X == [i \in DOMAIN d.occs |-> [d.occs[i] EXCEPT !.key = "date"]]
<1>1. e = Set(d, "occs", X)
  BY DEF NormalizeKeys, Set
<1>2. DOMAIN X = DOMAIN d.occs /\ \A i \in DOMAIN X : X[i] = [d.occs[i] EXCEPT !.key = "date"]
  OBVIOUS
<1> HIDE DEF X
<1>3. Kept(d, e, {"occs"}) /\ e.occs = X
  BY <1>1, SetOne DEF Fields
<1>4. IsDb(e) /\ e.tx = d.tx /\ e.bills = d.bills
  BY <1>3 DEF Kept, Fields
<1>5. \A i \in DOMAIN d.occs : /\ IsRow(X[i], OccurrenceFields)
                               /\ X[i].rule = d.occs[i].rule /\ X[i].date = d.occs[i].date
  BY <1>2, OccurrenceRow DEF RowsOk
<1>6. RowsOk(e)
  BY <1>2, <1>3, <1>4, <1>5 DEF RowsOk
<1>7. Markers(e) = Markers(d)
  BY <1>2, <1>3, <1>5 DEF Markers
<1>8. QED
  BY <1>4, <1>6, <1>7

LEMMA BackfillKeeps ==
  ASSUME NEW d, IsDb(d), RowsOk(d), NEW e, e = BackfillLegs(d)
  PROVE  /\ IsDb(e) /\ RowsOk(e) /\ e.bills = d.bills /\ e.occs = d.occs
         /\ DOMAIN e.tx = DOMAIN d.tx /\ \A t \in DOMAIN d.tx : SameEntry(e.tx[t], d.tx[t])
<1> DEFINE rulesOf(t) == {d.occs[i].rule : i \in {k \in DOMAIN d.occs : d.occs[k].tx = t}}
           legless(t) == /\ d.tx[t].status = "DRAFT" /\ ~d.tx[t].deleted
                         /\ d.tx[t].delta = None /\ rulesOf(t) # {}
           leg(t) == IF d.rules[CHOOSE r \in rulesOf(t) : TRUE].class = "ASSET" THEN -1 ELSE 1
           X == [t \in DOMAIN d.tx |->
                   IF legless(t) THEN [d.tx[t] EXCEPT !.delta = leg(t)] ELSE d.tx[t]]
<1>1. e = Set(d, "tx", X)
  BY DEF BackfillLegs, Set
<1>2. DOMAIN X = DOMAIN d.tx
      /\ \A t \in DOMAIN X : \/ X[t] = d.tx[t]
                             \/ d.tx[t].status = "DRAFT" /\ X[t] = [d.tx[t] EXCEPT !.delta = leg(t)]
  OBVIOUS
<1> HIDE DEF X, leg
<1>3. Kept(d, e, {"tx"}) /\ e.tx = X
  BY <1>1, SetOne DEF Fields
<1>4. IsDb(e) /\ e.bills = d.bills /\ e.occs = d.occs
  BY <1>3 DEF Kept, Fields
<1>5. ASSUME NEW t \in DOMAIN d.tx PROVE IsRow(X[t], EntryFields) /\ SameEntry(X[t], d.tx[t])
  <2>1. IsRow(d.tx[t], EntryFields)
    BY DEF RowsOk
  <2>2. CASE X[t] = d.tx[t]
    BY <2>1, <2>2 DEF SameEntry
  <2>3. CASE d.tx[t].status = "DRAFT" /\ X[t] = [d.tx[t] EXCEPT !.delta = leg(t)]
    BY <2>1, <2>3, LegRow
  <2>4. QED
    BY <1>2, <2>2, <2>3
<1>6. RowsOk(e)
  BY <1>2, <1>3, <1>4, <1>5 DEF RowsOk
<1>7. QED
  BY <1>2, <1>3, <1>4, <1>5, <1>6

(* 8: of the bills of one payment the first keeps it.                      *)
LEMMA UnlinkKeeps ==
  ASSUME NEW d, IsDb(d), RowsOk(d), NEW e, e = UnlinkDuplicates(d)
  PROVE  /\ IsDb(e) /\ RowsOk(e) /\ e.tx = d.tx /\ e.occs = d.occs
         /\ DOMAIN e.bills = DOMAIN d.bills /\ OnePayment(e)
         /\ \A p \in DOMAIN d.tx : Linked(d, p) => Linked(e, p)
<1> DEFINE later(i) == /\ d.bills[i].payment # None
                       /\ \E j \in DOMAIN d.bills : j < i /\ d.bills[j].payment = d.bills[i].payment
           X == [i \in DOMAIN d.bills |-> IF later(i) THEN Unpaid(d.bills[i]) ELSE d.bills[i]]
<1>1. e = Set(d, "bills", X)
  BY DEF UnlinkDuplicates, Set
<1>2. DOMAIN X = DOMAIN d.bills
      /\ \A i \in DOMAIN X : X[i] = IF later(i) THEN Unpaid(d.bills[i]) ELSE d.bills[i]
  OBVIOUS
<1> HIDE DEF X
<1>3. Kept(d, e, {"bills"}) /\ e.bills = X
  BY <1>1, SetOne DEF Fields
<1>4. IsDb(e) /\ e.tx = d.tx /\ e.occs = d.occs
  BY <1>3 DEF Kept, Fields
<1>5. \A i \in DOMAIN d.bills : i \in Nat /\ IsRow(d.bills[i], BillFields)
  BY DEF RowsOk
<1>6. \A i \in DOMAIN d.bills :
        /\ IsRow(X[i], BillFields)
        /\ X[i].payment = IF later(i) THEN None ELSE d.bills[i].payment
  BY <1>2, <1>5, UnpaidRow
<1>7. RowsOk(e)
  BY <1>2, <1>3, <1>4, <1>6 DEF RowsOk
<1>8. OnePayment(e)
  <2>1. SUFFICES ASSUME NEW i \in DOMAIN d.bills, NEW j \in DOMAIN d.bills, i # j,
                        X[i].payment # None, X[i].payment = X[j].payment
                 PROVE  FALSE
    BY <1>2, <1>3 DEF OnePayment
  <2>2. ~ later(i) /\ ~ later(j) /\ d.bills[i].payment = d.bills[j].payment
        /\ d.bills[i].payment # None
    BY <1>6, <2>1
  <2>3. i < j \/ j < i
    BY <1>5, <2>1
  <2>4. QED
    BY <2>2, <2>3
<1>9. ASSUME NEW p \in DOMAIN d.tx, Linked(d, p) PROVE Linked(e, p)
  <2> DEFINE named == {i \in DOMAIN d.bills : d.bills[i].payment = p}
  <2>1. named \in SUBSET Nat /\ named # {}
    BY <1>5, <1>9 DEF Linked
  <2> HIDE DEF named
  <2>2. PICK i \in named : \A k \in named : i <= k
    BY <2>1, NatLeast
  <2> USE DEF named
  <2>3. ~ later(i)
    BY <1>5, <2>2
  <2>4. X[i].payment = p
    BY <1>6, <2>3
  <2>5. QED
    BY <1>2, <1>3, <2>4 DEF Linked
<1>10. QED
  BY <1>2, <1>3, <1>4, <1>7, <1>8, <1>9

(* 9: bills let go of tombstones.                                          *)
LEMMA ReleaseBillsKeeps ==
  ASSUME NEW d, IsDb(d), RowsOk(d), OnePayment(d), NEW e, e = ReleaseBills(d)
  PROVE  /\ IsDb(e) /\ RowsOk(e) /\ e.tx = d.tx /\ e.occs = d.occs
         /\ DOMAIN e.bills = DOMAIN d.bills /\ OnePayment(e)
         /\ \A p \in DOMAIN d.tx \ Tombstones(d) : Linked(d, p) => Linked(e, p)
<1> DEFINE gone(i) == d.bills[i].payment \in Tombstones(d)
           X == [i \in DOMAIN d.bills |-> IF gone(i) THEN Unpaid(d.bills[i]) ELSE d.bills[i]]
<1>1. e = Set(d, "bills", X)
  BY DEF ReleaseBills, Set
<1>2. DOMAIN X = DOMAIN d.bills
      /\ \A i \in DOMAIN X : X[i] = IF gone(i) THEN Unpaid(d.bills[i]) ELSE d.bills[i]
  OBVIOUS
<1> HIDE DEF X
<1>3. Kept(d, e, {"bills"}) /\ e.bills = X
  BY <1>1, SetOne DEF Fields
<1>4. IsDb(e) /\ e.tx = d.tx /\ e.occs = d.occs
  BY <1>3 DEF Kept, Fields
<1>5. \A i \in DOMAIN d.bills : IsRow(d.bills[i], BillFields)
  BY DEF RowsOk
<1>6. \A i \in DOMAIN d.bills :
        /\ IsRow(X[i], BillFields)
        /\ X[i].payment = IF gone(i) THEN None ELSE d.bills[i].payment
  BY <1>2, <1>5, UnpaidRow
<1>7. RowsOk(e)
  BY <1>2, <1>3, <1>4, <1>6 DEF RowsOk
<1>8. OnePayment(e)
  BY <1>2, <1>3, <1>6 DEF OnePayment
<1>9. ASSUME NEW p \in DOMAIN d.tx \ Tombstones(d), Linked(d, p) PROVE Linked(e, p)
  <2>1. PICK i \in DOMAIN d.bills : d.bills[i].payment = p
    BY <1>9 DEF Linked
  <2>2. X[i].payment = p
    BY <1>6, <2>1
  <2>3. QED
    BY <1>2, <1>3, <2>2 DEF Linked
<1>10. QED
  BY <1>2, <1>3, <1>4, <1>7, <1>8, <1>9

LEMMA ReleaseOccurrencesKeeps ==
  ASSUME NEW d, IsDb(d), RowsOk(d), NEW e, e = ReleaseOccurrences(d)
  PROVE  /\ IsDb(e) /\ RowsOk(e) /\ e.tx = d.tx /\ e.bills = d.bills
         /\ Markers(e) = Markers(d)
<1> DEFINE X == [i \in DOMAIN d.occs |->
                   IF d.occs[i].tx \in Tombstones(d) THEN [d.occs[i] EXCEPT !.tx = None]
                   ELSE d.occs[i]]
<1>1. e = Set(d, "occs", X)
  BY DEF ReleaseOccurrences, Set
<1>2. DOMAIN X = DOMAIN d.occs
      /\ \A i \in DOMAIN X : X[i] = d.occs[i] \/ X[i] = [d.occs[i] EXCEPT !.tx = None]
  OBVIOUS
<1> HIDE DEF X
<1>3. Kept(d, e, {"occs"}) /\ e.occs = X
  BY <1>1, SetOne DEF Fields
<1>4. IsDb(e) /\ e.tx = d.tx /\ e.bills = d.bills
  BY <1>3 DEF Kept, Fields
<1>5. ASSUME NEW i \in DOMAIN d.occs
      PROVE  /\ IsRow(X[i], OccurrenceFields)
             /\ X[i].rule = d.occs[i].rule /\ X[i].date = d.occs[i].date
  BY <1>2, OccurrenceRow DEF RowsOk
<1>6. RowsOk(e)
  BY <1>2, <1>3, <1>4, <1>5 DEF RowsOk
<1>7. Markers(e) = Markers(d)
  BY <1>2, <1>3, <1>5 DEF Markers
<1>8. QED
  BY <1>4, <1>6, <1>7

LEMMA VoidKeeps ==
  ASSUME NEW d, IsDb(d), RowsOk(d), NEW e, e = VoidRefunds(d)
  PROVE  /\ IsDb(e) /\ RowsOk(e) /\ e.bills = d.bills /\ e.occs = d.occs
         /\ DOMAIN e.tx = DOMAIN d.tx /\ Tombstones(e) = Tombstones(d)
         /\ \A t \in DOMAIN d.tx :
              IF d.tx[t].type = "REFUND" /\ d.tx[t].original \in Tombstones(d)
              THEN e.tx[t].status = "VOIDED" ELSE e.tx[t] = d.tx[t]
<1> DEFINE lost(t) == d.tx[t].type = "REFUND" /\ d.tx[t].original \in Tombstones(d)
           X == [t \in DOMAIN d.tx |->
                   IF lost(t) THEN [d.tx[t] EXCEPT !.status = "VOIDED", !.original = None]
                   ELSE d.tx[t]]
<1>1. e = Set(d, "tx", X)
  BY DEF VoidRefunds, Set
<1>2. DOMAIN X = DOMAIN d.tx
      /\ \A t \in DOMAIN X :
           X[t] = IF lost(t) THEN [d.tx[t] EXCEPT !.status = "VOIDED", !.original = None]
                  ELSE d.tx[t]
  OBVIOUS
<1> HIDE DEF X
<1>3. Kept(d, e, {"tx"}) /\ e.tx = X
  BY <1>1, SetOne DEF Fields
<1>4. IsDb(e) /\ e.bills = d.bills /\ e.occs = d.occs
  BY <1>3 DEF Kept, Fields
<1>5. ASSUME NEW t \in DOMAIN d.tx
      PROVE  /\ IsRow(X[t], EntryFields) /\ X[t].deleted = d.tx[t].deleted
             /\ IF lost(t) THEN X[t].status = "VOIDED" ELSE X[t] = d.tx[t]
  <2>1. IsRow(d.tx[t], EntryFields)
    BY DEF RowsOk
  <2>2. CASE lost(t)
    <3>1. X[t] = [d.tx[t] EXCEPT !.status = "VOIDED", !.original = None]
      BY <1>2, <2>2
    <3>2. QED
      BY <2>1, <2>2, <3>1, VoidedRow
  <2>3. CASE ~ lost(t)
    BY <1>2, <2>1, <2>3
  <2>4. QED
    BY <2>2, <2>3
<1>6. RowsOk(e)
  BY <1>2, <1>3, <1>4, <1>5 DEF RowsOk
<1>7. Tombstones(e) = Tombstones(d)
  BY <1>2, <1>3, <1>5 DEF Tombstones
<1>8. QED
  BY <1>2, <1>3, <1>4, <1>5, <1>6, <1>7

LEMMA DeleteKeeps ==
  ASSUME NEW d, IsDb(d), RowsOk(d), NEW e, e = DeleteTombstones(d)
  PROVE  /\ IsDb(e) /\ RowsOk(e) /\ e.bills = d.bills /\ e.occs = d.occs
         /\ DOMAIN e.tx = DOMAIN d.tx \ Tombstones(d)
         /\ \A t \in DOMAIN e.tx : e.tx[t] = d.tx[t]
<1>1. /\ Kept(d, e, {"tx", "search"})
      /\ e.tx = [t \in DOMAIN d.tx \ Tombstones(d) |-> d.tx[t]]
  BY ChangeTombstones
<1>2. IsDb(e) /\ e.bills = d.bills /\ e.occs = d.occs
  BY <1>1 DEF Kept, Fields
<1>3. DOMAIN e.tx = DOMAIN d.tx \ Tombstones(d) /\ \A t \in DOMAIN e.tx : e.tx[t] = d.tx[t]
  BY <1>1
<1>4. RowsOk(e)
  BY <1>2, <1>3 DEF RowsOk
<1>5. QED
  BY <1>2, <1>3, <1>4

-----------------------------------------------------------------------------
(* What a database keeps of the one of the first start.                    *)

EntriesAfter(a, d) ==
  /\ DOMAIN d.tx = DOMAIN a.tx \ Tombstones(a)
  /\ \A t \in DOMAIN d.tx :
       Counted(d, t) = IF t \in LostRefunds(a) THEN 0 ELSE Counted(a, t)

KeptFrom(a, d) ==
  /\ d.version = 0 => d = a
  /\ RowsOk(d)
  /\ DOMAIN d.bills = DOMAIN a.bills
  /\ \A p \in DOMAIN a.tx \ Tombstones(a) : Linked(a, p) => Linked(d, p)
  /\ d.version \in 8 .. Current => OnePayment(d)
  /\ Markers(d) = Markers(a)
  /\ d.version \in 1 .. 8 =>
       DOMAIN d.tx = DOMAIN a.tx /\ \A t \in DOMAIN a.tx : SameEntry(d.tx[t], a.tx[t])
  /\ d.version \in 9 .. Current => EntriesAfter(a, d)

(* Without tombstones nothing is lost.                                     *)
LEMMA NothingLost ==
  ASSUME NEW a, Tombstones(a) = {}
  PROVE  EntriesAfter(a, a)
BY DEF EntriesAfter, LostRefunds, Counted

LEMMA KeptAtFirst ==
  ASSUME NEW a \in Legacy
  PROVE  KeptFrom(a, a)
<1>1. /\ DOMAIN a.occs \subseteq Nat /\ DOMAIN a.bills \subseteq Nat /\ None \notin DOMAIN a.tx
      /\ \A t \in DOMAIN a.tx : a.tx[t] = [f \in EntryFields |-> a.tx[t][f]]
      /\ \A i \in DOMAIN a.bills : a.bills[i] = [f \in BillFields |-> a.bills[i][f]]
      /\ \A i \in DOMAIN a.occs : a.occs[i] = [f \in OccurrenceFields |-> a.occs[i][f]]
      /\ a.version \in {0} \union (9 .. Current) => Tombstones(a) = {}
      /\ a.version \in {0} \union (8 .. Current) => OnePayment(a)
  BY RowsAssumption DEF OnePayment
<1>2. RowsOk(a)
  BY <1>1 DEF RowsOk, IsRow
<1>3. a.version \in 9 .. Current => EntriesAfter(a, a)
  BY <1>1, NothingLost
<1>4. \A t \in DOMAIN a.tx : SameEntry(a.tx[t], a.tx[t])
  BY DEF SameEntry
<1>5. QED
  BY <1>1, <1>2, <1>3, <1>4 DEF KeptFrom

(* The rows stay: so does what they keep.                                  *)
LEMMA KeptSame ==
  ASSUME NEW a, NEW d, KeptFrom(a, d), NEW e, SameRows(d, e),
         e.version \in 1 .. Current, d.version \in 1 .. Current,
         e.version \in 8 .. Current => d.version \in 8 .. Current,
         e.version \in 9 .. Current <=> d.version \in 9 .. Current
  PROVE  KeptFrom(a, e)
<1>1. e.tx = d.tx /\ e.bills = d.bills /\ e.occs = d.occs
  BY DEF SameRows
<1>2. /\ RowsOk(e) <=> RowsOk(d)
      /\ OnePayment(e) <=> OnePayment(d)
      /\ Markers(e) = Markers(d)
      /\ \A p : Linked(e, p) <=> Linked(d, p)
      /\ EntriesAfter(a, e) <=> EntriesAfter(a, d)
  BY <1>1 DEF RowsOk, OnePayment, Markers, Linked, EntriesAfter, Counted, Posted
<1>3. e.version # 0 /\ (e.version \in 1 .. 8 => d.version \in 1 .. 8)
  BY DEF Current
<1>4. QED
  BY <1>1, <1>2, <1>3 DEF KeptFrom

(* Short lists                                                             *)
LEMMA AppliedTwo ==
  ASSUME NEW a, NEW b, NEW db, NEW d1, d1 = Effect(a, db), NEW d2, d2 = Effect(b, d1)
  PROVE  Applied(<<a, b>>, db) = d2
<1> DEFINE S == {a, b}
           rest == <<b>>
           list == <<a, b>>
<1>1. list \in Seq(S) /\ list # <<>> /\ Head(list) = a /\ Tail(list) = rest
      /\ rest \in Seq(S) /\ rest # <<>> /\ Head(rest) = b /\ Tail(rest) = <<>>
  OBVIOUS
<1> HIDE DEF list, rest, S
<1>2. Applied(list, db) = Applied(rest, d1)
  BY <1>1, AppliedHead
<1>3. Applied(rest, d1) = Applied(<<>>, d2)
  BY <1>1, AppliedHead
<1>4. QED
  BY <1>2, <1>3, AppliedNone DEF list

LEMMA AppliedThree ==
  ASSUME NEW a, NEW b, NEW c, NEW db,
         NEW d1, d1 = Effect(a, db), NEW d2, d2 = Effect(b, d1), NEW d3, d3 = Effect(c, d2)
  PROVE  Applied(<<a, b, c>>, db) = d3
<1> DEFINE S == {a, b, c}
           rest == <<b, c>>
           list == <<a, b, c>>
<1>1. list \in Seq(S) /\ list # <<>> /\ Head(list) = a /\ Tail(list) = rest
  OBVIOUS
<1> HIDE DEF list, S
<1>2. Applied(list, db) = Applied(rest, d1)
  BY <1>1, AppliedHead
<1>3. Applied(rest, d1) = d3
  BY AppliedTwo
<1>4. QED
  BY <1>2, <1>3 DEF list

LEMMA AppliedFive ==
  ASSUME NEW a, NEW b, NEW c, NEW x, NEW y, NEW db,
         NEW d1, d1 = Effect(a, db), NEW d2, d2 = Effect(b, d1), NEW d3, d3 = Effect(c, d2),
         NEW d4, d4 = Effect(x, d3), NEW d5, d5 = Effect(y, d4)
  PROVE  Applied(<<a, b, c, x, y>>, db) = d5
<1> DEFINE S == {a, b, c, x, y}
           rest == <<b, c, x, y>>
           last == <<c, x, y>>
           list == <<a, b, c, x, y>>
<1>1. list \in Seq(S) /\ list # <<>> /\ Head(list) = a /\ Tail(list) = rest
      /\ rest \in Seq(S) /\ rest # <<>> /\ Head(rest) = b /\ Tail(rest) = last
  OBVIOUS
<1> HIDE DEF list, rest, S
<1>2. Applied(list, db) = Applied(rest, d1)
  BY <1>1, AppliedHead
<1>3. Applied(rest, d1) = Applied(last, d2)
  BY <1>1, AppliedHead
<1>4. Applied(last, d2) = d5
  BY AppliedThree
<1>5. QED
  BY <1>2, <1>3, <1>4 DEF list

(* Counting a version leaves the rows.                                     *)
LEMMA LastStatement ==
  ASSUME NEW v \in 2 .. Current, NEW db, NEW d, d = Applied(Migrations[v], db), IsDb(d),
         NEW e, e = Applied(MigrationTo(v), db)
  PROVE  SameRows(d, e) /\ e.version = v
<1>1. Migrations[v] \in Seq(Plain)
  BY EveryVersion
<1>2. e = Effect(SetVersion(v), d)
  BY <1>1, AppliedLast DEF MigrationTo
<1>3. Kept(d, e, {"version"}) /\ e.version = v
  BY <1>2, NumberSet
<1>4. QED
  BY <1>3 DEF SameRows, Kept, Fields

LEMMA KeptQuiet ==
  ASSUME NEW a, NEW d, KeptFrom(a, d), IsDb(d), NEW v \in {2, 3, 5, 6, 7, 10, 11}, d.version = v - 1,
         NEW e, e = Applied(MigrationTo(v), d)
  PROVE  KeptFrom(a, e)
<1> DEFINE list == Migrations[v]
           c == Applied(list, d)
<1>1. v \in 2 .. Current
  BY DEF Current
<1>2. list \in Seq(Plain) /\ \A k \in 1 .. Len(list) : list[k][1] \in Quiet
  BY <1>1, EveryVersion, QuietVersions
<1> HIDE DEF list
<1>3. IsDb(c) /\ SameRows(d, c)
  BY <1>2, QuietRun
<1> HIDE DEF c
<1>4. SameRows(c, e) /\ e.version = v
  BY <1>1, <1>3, LastStatement DEF c, list
<1>5. SameRows(d, e)
  BY <1>3, <1>4 DEF SameRows
<1>6. /\ e.version \in 1 .. Current /\ d.version \in 1 .. Current
      /\ e.version \in 8 .. Current => d.version \in 8 .. Current
      /\ e.version \in 9 .. Current <=> d.version \in 9 .. Current
  BY <1>4 DEF Current
<1>7. QED
  BY <1>5, <1>6, KeptSame

LEMMA RowEffects ==
  ASSUME NEW db, NEW s
  PROVE  /\ s[1] = "dedupe" => Effect(s, db) = DedupeOccurrences(db)
         /\ s[1] = "normalize" => Effect(s, db) = NormalizeKeys(db)
         /\ s[1] = "backfill" => Effect(s, db) = BackfillLegs(db)
         /\ s[1] = "unlink" => Effect(s, db) = UnlinkDuplicates(db)
         /\ s[1] = "releaseBills" => Effect(s, db) = ReleaseBills(db)
         /\ s[1] = "releaseOccurrences" => Effect(s, db) = ReleaseOccurrences(db)
         /\ s[1] = "voidRefunds" => Effect(s, db) = VoidRefunds(db)
         /\ s[1] = "deleteTombstones" => Effect(s, db) = DeleteTombstones(db)
BY DEF Effect

LEMMA RowStatements ==
  ASSUME NEW db
  PROVE  /\ Effect(Do("dedupe"), db) = DedupeOccurrences(db)
         /\ Effect(Do("normalize"), db) = NormalizeKeys(db)
         /\ Effect(Do("backfill"), db) = BackfillLegs(db)
         /\ Effect(Do("unlink"), db) = UnlinkDuplicates(db)
         /\ Effect(Do("releaseBills"), db) = ReleaseBills(db)
         /\ Effect(Do("releaseOccurrences"), db) = ReleaseOccurrences(db)
         /\ Effect(Do("voidRefunds"), db) = VoidRefunds(db)
         /\ Effect(Do("deleteTombstones"), db) = DeleteTombstones(db)
<1>1. \A op : Do(op)[1] = op
  BY DEF Do
<1>2. QED
  BY <1>1, RowEffects

LEMMA KeptFour ==
  ASSUME NEW a, NEW d, KeptFrom(a, d), IsDb(d), d.version = 3,
         NEW e, e = Applied(MigrationTo(4), d)
  PROVE  KeptFrom(a, e)
<1> DEFINE d1 == DedupeOccurrences(d)
           d2 == NormalizeKeys(d1)
           d3 == BackfillLegs(d2)
<1>1. Migrations[4] = <<Do("dedupe"), Do("normalize"), Do("backfill")>>
  BY DEF Migrations, Current
<1>2. \A db : /\ Effect(Do("dedupe"), db) = DedupeOccurrences(db)
              /\ Effect(Do("normalize"), db) = NormalizeKeys(db)
              /\ Effect(Do("backfill"), db) = BackfillLegs(db)
  BY RowStatements
<1> HIDE DEF d1, d2, d3
<1>3. Applied(Migrations[4], d) = d3
  <2>1. /\ d1 = Effect(Do("dedupe"), d) /\ d2 = Effect(Do("normalize"), d1)
        /\ d3 = Effect(Do("backfill"), d2)
    BY <1>2 DEF d1, d2, d3
  <2>2. QED
    BY <1>1, <2>1, AppliedThree
<1>4. RowsOk(d)
  BY DEF KeptFrom
<1>5. /\ IsDb(d1) /\ RowsOk(d1) /\ d1.tx = d.tx /\ d1.bills = d.bills /\ Markers(d1) = Markers(d)
  BY <1>4, DedupeKeeps DEF d1
<1>6. IsDb(d2) /\ RowsOk(d2) /\ d2.tx = d.tx /\ d2.bills = d.bills /\ Markers(d2) = Markers(d)
  BY <1>5, NormalizeKeeps DEF d2
<1>7. /\ IsDb(d3) /\ RowsOk(d3) /\ d3.bills = d.bills /\ d3.occs = d2.occs
      /\ DOMAIN d3.tx = DOMAIN d.tx /\ \A t \in DOMAIN d.tx : SameEntry(d3.tx[t], d.tx[t])
  BY <1>6, BackfillKeeps DEF d3
<1>8. SameRows(d3, e) /\ e.version = 4
  BY <1>3, <1>7, LastStatement DEF Current
<1>9. e.tx = d3.tx /\ e.bills = d.bills /\ e.occs = d2.occs
  BY <1>7, <1>8 DEF SameRows
<1>10. RowsOk(e) /\ Markers(e) = Markers(d) /\ \A p : Linked(e, p) <=> Linked(d, p)
  BY <1>6, <1>7, <1>9 DEF RowsOk, Markers, Linked
<1>11. DOMAIN d.tx = DOMAIN a.tx /\ \A t \in DOMAIN a.tx : SameEntry(d.tx[t], a.tx[t])
  BY DEF KeptFrom
<1>12. DOMAIN e.tx = DOMAIN a.tx /\ \A t \in DOMAIN a.tx : SameEntry(e.tx[t], a.tx[t])
  BY <1>7, <1>9, <1>11 DEF SameEntry
<1>13. e.version # 0 /\ e.version \notin 8 .. Current /\ e.version \notin 9 .. Current
  BY <1>8 DEF Current
<1>14. QED
  BY <1>9, <1>10, <1>12, <1>13 DEF KeptFrom

LEMMA KeptEight ==
  ASSUME NEW a, NEW d, KeptFrom(a, d), IsDb(d), d.version = 7,
         NEW e, e = Applied(MigrationTo(8), d)
  PROVE  KeptFrom(a, e)
<1> DEFINE d1 == UnlinkDuplicates(d)
           d2 == Effect(Create("billIndex"), d1)
<1>1. Migrations[8] = <<Do("unlink"), Create("billIndex")>>
  BY DEF Migrations, Current
<1>2. Effect(Do("unlink"), d) = d1
  BY RowStatements
<1> HIDE DEF d1, d2
<1>3. Applied(Migrations[8], d) = d2
  <2>1. d1 = Effect(Do("unlink"), d) /\ d2 = Effect(Create("billIndex"), d1)
    BY <1>2 DEF d2
  <2>2. QED
    BY <1>1, <2>1, AppliedTwo
<1>4. RowsOk(d) /\ d.version \in 1 .. 8
  BY DEF KeptFrom
<1>5. /\ IsDb(d1) /\ RowsOk(d1) /\ d1.tx = d.tx /\ d1.occs = d.occs
      /\ DOMAIN d1.bills = DOMAIN d.bills /\ OnePayment(d1)
      /\ \A p \in DOMAIN d.tx : Linked(d, p) => Linked(d1, p)
  BY <1>4, UnlinkKeeps DEF d1
<1>6. IsDb(d2) /\ SameRows(d1, d2)
  BY <1>5, QuietStep DEF d2, Create, Quiet
<1>7. SameRows(d2, e) /\ e.version = 8
  BY <1>3, <1>6, LastStatement DEF Current
<1>8. e.tx = d.tx /\ e.bills = d1.bills /\ e.occs = d.occs
  BY <1>5, <1>6, <1>7 DEF SameRows
<1>9. /\ RowsOk(e) /\ OnePayment(e) /\ Markers(e) = Markers(d)
      /\ \A p : Linked(e, p) <=> Linked(d1, p)
  BY <1>5, <1>8 DEF RowsOk, OnePayment, Markers, Linked
<1>10. /\ DOMAIN d.tx = DOMAIN a.tx /\ \A t \in DOMAIN a.tx : SameEntry(d.tx[t], a.tx[t])
       /\ DOMAIN d.bills = DOMAIN a.bills /\ Markers(d) = Markers(a)
       /\ \A p \in DOMAIN a.tx \ Tombstones(a) : Linked(a, p) => Linked(d, p)
  BY <1>4 DEF KeptFrom
<1>11. \A p \in DOMAIN a.tx \ Tombstones(a) : Linked(a, p) => Linked(e, p)
  BY <1>5, <1>9, <1>10
<1>12. e.version # 0 /\ e.version \notin 9 .. Current
  BY <1>7
<1>13. QED
  BY <1>5, <1>8, <1>9, <1>10, <1>11, <1>12 DEF KeptFrom

(* 9: the tombstones go, and of the rest only their refunds change.        *)
LEMMA KeptNine ==
  ASSUME NEW a, NEW d, KeptFrom(a, d), IsDb(d), d.version = 8,
         NEW e, e = Applied(MigrationTo(9), d)
  PROVE  KeptFrom(a, e)
<1> DEFINE d1 == ReleaseBills(d)
           d2 == ReleaseOccurrences(d1)
           d3 == VoidRefunds(d2)
           d4 == DeleteTombstones(d3)
           d5 == Effect(Do("deleteGroups"), d4)
           T == Tombstones(a)
<1>1. Migrations[9] = <<Do("releaseBills"), Do("releaseOccurrences"), Do("voidRefunds"),
                        Do("deleteTombstones"), Do("deleteGroups")>>
  BY DEF Migrations, Current
<1>2. \A db : /\ Effect(Do("releaseBills"), db) = ReleaseBills(db)
              /\ Effect(Do("releaseOccurrences"), db) = ReleaseOccurrences(db)
              /\ Effect(Do("voidRefunds"), db) = VoidRefunds(db)
              /\ Effect(Do("deleteTombstones"), db) = DeleteTombstones(db)
  BY RowStatements
<1> HIDE DEF d1, d2, d3, d4, d5, T
<1>3. Applied(Migrations[9], d) = d5
  <2>1. /\ d1 = Effect(Do("releaseBills"), d) /\ d2 = Effect(Do("releaseOccurrences"), d1)
        /\ d3 = Effect(Do("voidRefunds"), d2) /\ d4 = Effect(Do("deleteTombstones"), d3)
        /\ d5 = Effect(Do("deleteGroups"), d4)
    BY <1>2 DEF d1, d2, d3, d4, d5
  <2>2. QED
    BY <1>1, <2>1, AppliedFive
<1>4. /\ RowsOk(d) /\ OnePayment(d)
      /\ DOMAIN d.tx = DOMAIN a.tx /\ \A t \in DOMAIN a.tx : SameEntry(d.tx[t], a.tx[t])
      /\ DOMAIN d.bills = DOMAIN a.bills /\ Markers(d) = Markers(a)
      /\ \A p \in DOMAIN a.tx \ T : Linked(a, p) => Linked(d, p)
  BY DEF KeptFrom, Current, T
<1>5. Tombstones(d) = T
  BY <1>4 DEF Tombstones, SameEntry, T
<1>6. /\ IsDb(d1) /\ RowsOk(d1) /\ d1.tx = d.tx /\ d1.occs = d.occs
      /\ DOMAIN d1.bills = DOMAIN d.bills /\ OnePayment(d1)
      /\ \A p \in DOMAIN d.tx \ T : Linked(d, p) => Linked(d1, p)
  BY <1>4, <1>5, ReleaseBillsKeeps DEF d1
<1>7. /\ IsDb(d2) /\ RowsOk(d2) /\ d2.tx = d.tx /\ d2.bills = d1.bills
      /\ Markers(d2) = Markers(d1)
  BY <1>6, ReleaseOccurrencesKeeps DEF d2
<1>8. Tombstones(d2) = T
  BY <1>5, <1>7 DEF Tombstones
<1>9. /\ IsDb(d3) /\ RowsOk(d3) /\ d3.bills = d2.bills /\ d3.occs = d2.occs
      /\ DOMAIN d3.tx = DOMAIN d.tx /\ Tombstones(d3) = T
      /\ \A t \in DOMAIN d.tx :
           IF d.tx[t].type = "REFUND" /\ d.tx[t].original \in T
           THEN d3.tx[t].status = "VOIDED" ELSE d3.tx[t] = d.tx[t]
  BY <1>7, <1>8, VoidKeeps DEF d3
<1>10. /\ IsDb(d4) /\ RowsOk(d4) /\ d4.bills = d3.bills /\ d4.occs = d3.occs
       /\ DOMAIN d4.tx = DOMAIN d.tx \ T /\ \A t \in DOMAIN d4.tx : d4.tx[t] = d3.tx[t]
  BY <1>9, DeleteKeeps DEF d4
<1>11. IsDb(d5) /\ SameRows(d4, d5)
  BY <1>10, QuietStep DEF d5, Do, Quiet
<1>12. SameRows(d5, e) /\ e.version = 9
  BY <1>3, <1>11, LastStatement DEF Current
<1>13. e.tx = d4.tx /\ e.bills = d1.bills /\ e.occs = d2.occs
  BY <1>7, <1>9, <1>10, <1>11, <1>12 DEF SameRows
<1>14. RowsOk(e)
  BY <1>6, <1>7, <1>9, <1>10, <1>13 DEF RowsOk
<1>15. OnePayment(e) /\ \A p : Linked(e, p) <=> Linked(d1, p)
  BY <1>6, <1>13 DEF OnePayment, Linked
<1>16. Markers(e) = Markers(a)
  BY <1>4, <1>6, <1>7, <1>13 DEF Markers
<1>17. ASSUME NEW t \in DOMAIN e.tx
       PROVE  Counted(e, t) = IF t \in LostRefunds(a) THEN 0 ELSE Counted(a, t)
  <2>1. t \in DOMAIN a.tx /\ t \notin T /\ t \in DOMAIN d.tx /\ e.tx[t] = d3.tx[t]
    BY <1>4, <1>10, <1>13
  <2>2. ~ a.tx[t].deleted /\ SameEntry(d.tx[t], a.tx[t])
    BY <1>4, <2>1 DEF Tombstones, T
  <2>3. CASE a.tx[t].type = "REFUND" /\ a.tx[t].original \in T
    <3>1. d.tx[t].type = "REFUND" /\ d.tx[t].original \in T
      BY <2>2, <2>3 DEF SameEntry
    <3>2. e.tx[t].status = "VOIDED"
      BY <1>9, <2>1, <3>1
    <3>3. Counted(e, t) = 0
      BY <3>2 DEF Counted, Posted
    <3>4. t \notin LostRefunds(a) => ~ Posted(a, t)
      BY <2>1, <2>3 DEF LostRefunds, T
    <3>5. QED
      BY <3>3, <3>4 DEF Counted
  <2>4. CASE ~ (a.tx[t].type = "REFUND" /\ a.tx[t].original \in T)
    <3>1. ~ (d.tx[t].type = "REFUND" /\ d.tx[t].original \in T)
      BY <2>2, <2>4 DEF SameEntry
    <3>2. e.tx[t] = d.tx[t]
      BY <1>9, <2>1, <3>1
    <3>3. t \notin LostRefunds(a)
      BY <2>4 DEF LostRefunds, T
    <3>4. Posted(e, t) <=> Posted(a, t)
      BY <2>1, <2>2, <3>2 DEF Posted, SameEntry
    <3>5. Posted(a, t) => e.tx[t].delta = a.tx[t].delta
      BY <2>2, <3>2 DEF Posted, SameEntry
    <3>6. QED
      BY <3>3, <3>4, <3>5 DEF Counted
  <2>5. QED
    BY <2>3, <2>4
<1>18. EntriesAfter(a, e)
  BY <1>4, <1>10, <1>13, <1>17 DEF EntriesAfter, T
<1>19. \A p \in DOMAIN a.tx \ T : Linked(a, p) => Linked(e, p)
  BY <1>4, <1>6, <1>15
<1>20. DOMAIN e.bills = DOMAIN a.bills /\ e.version # 0 /\ e.version \notin 1 .. 8
  BY <1>4, <1>6, <1>12, <1>13
<1>21. QED
  BY <1>14, <1>15, <1>16, <1>18, <1>19, <1>20 DEF KeptFrom, T

LEMMA Appended ==
  ASSUME NEW S, NEW list \in Seq(S), NEW s
  PROVE  /\ Len(Append(list, s)) = Len(list) + 1 /\ Append(list, s)[Len(list) + 1] = s
         /\ \A k \in 1 .. Len(list) : Append(list, s)[k] = list[k]
<1> DEFINE L == Len(list)
           longer == Append(list, s)
<1>1. L \in Nat /\ list \in Seq(S \union {s})
  OBVIOUS
<1>2. Len(longer) = L + 1 /\ longer[L + 1] = s /\ \A n \in 1 .. L : longer[n] = list[n]
  BY <1>1
<1>3. QED
  BY <1>2

(* A new database has no rows to lose.                                     *)
LEMMA KeptCreated ==
  ASSUME NEW a \in Legacy, NEW d, KeptFrom(a, d), Whole(d), d.version = 0,
         NEW e, e = Applied(Creation, d)
  PROVE  KeptFrom(a, e)
<1>1. d = a /\ Tombstones(a) = {} /\ OnePayment(a)
  BY RowsAssumption DEF KeptFrom, OnePayment
<1>2. Len(Creation) = 8 /\ \A k \in 1 .. 8 : Creation[k][1] \in Quiet
  <2>1. /\ Len(CurrentObjects) = 7 /\ CurrentObjects[1] = Do("tables")
        /\ \A k \in 2 .. 7 : CurrentObjects[k] \in {Create(o) : o \in DOMAIN ObjectSince}
        /\ CurrentObjects \in Seq(Plain \union {Do("tables")})
    BY ObjectList DEF CurrentObjects
  <2>2. \A k \in 1 .. 7 : CurrentObjects[k][1] \in Quiet
    <3>1. \A k \in 1 .. 7 : k = 1 \/ k \in 2 .. 7
      OBVIOUS
    <3>2. QED
      BY <2>1, <3>1 DEF Do, Create, Quiet
  <2>3. SetVersion(Current)[1] \in Quiet
    BY DEF SetVersion, Quiet
  <2> DEFINE S == Plain \union {Do("tables")}
             list == CurrentObjects
             s == SetVersion(Current)
  <2>4. list \in Seq(S) /\ Len(list) = 7
    BY <2>1
  <2> HIDE DEF S, list, s
  <2>5. /\ Len(Append(list, s)) = 8 /\ Append(list, s)[8] = s
        /\ \A k \in 1 .. 7 : Append(list, s)[k] = list[k]
    <3>1. /\ Len(Append(list, s)) = Len(list) + 1 /\ Append(list, s)[Len(list) + 1] = s
          /\ \A k \in 1 .. Len(list) : Append(list, s)[k] = list[k]
      <4>1. list \in Seq(S)
        BY <2>4
      <4>2. QED
        BY <4>1, Appended, Zenon
    <3> DEFINE longer == Append(list, s)
               n == Len(list)
    <3> HIDE DEF longer, n
    <3>2. n = 7 /\ Len(longer) = n + 1 /\ longer[n + 1] = s /\ \A k \in 1 .. n : longer[k] = list[k]
      BY <2>4, <3>1 DEF longer, n
    <3>3. QED
      BY <3>2 DEF longer
  <2>6. \A k \in 1 .. 8 : k \in 1 .. 7 \/ k = 8
    OBVIOUS
  <2>7. QED
    BY <2>2, <2>3, <2>5, <2>6 DEF Creation, list, s
<1>3. SameRows(d, e)
  <2> DEFINE list == Creation
  <2>1. Len(list) \in Nat /\ \A k \in 1 .. Len(list) : list[k][1] \in Quiet
    BY <1>2
  <2> HIDE DEF list
  <2>2. IsDb(d)
    BY DEF Whole
  <2>3. SameRows(d, Applied(list, d))
    BY <2>1, <2>2, QuietRun
  <2>4. QED
    BY <2>3 DEF list
<1>4. e.version = Current
  BY CreateAll
<1>5. e.tx = a.tx /\ e.bills = a.bills /\ e.occs = a.occs
  BY <1>1, <1>3 DEF SameRows
<1>6. RowsOk(a) /\ EntriesAfter(a, a)
  BY <1>1, NothingLost DEF KeptFrom
<1>7. RowsOk(e) /\ OnePayment(e) /\ Markers(e) = Markers(a) /\ EntriesAfter(a, e)
      /\ \A p : Linked(e, p) <=> Linked(a, p)
  BY <1>1, <1>5, <1>6
     DEF RowsOk, OnePayment, Markers, EntriesAfter, Counted, Posted, Linked
<1>8. e.version # 0 /\ e.version \notin 1 .. 8
  BY <1>4 DEF Current
<1>9. QED
  BY <1>5, <1>7, <1>8 DEF KeptFrom

LEMMA KeptMigrated ==
  ASSUME NEW a, NEW d, KeptFrom(a, d), Whole(d), d.version \in 1 .. Current - 1,
         NEW e, e = Applied(MigrationTo(d.version + 1), d)
  PROVE  KeptFrom(a, e)
<1>1. IsDb(d) /\ d.version \in 1 .. 10
  BY DEF Whole, Current
<1>2. CASE d.version = 3
  BY <1>1, <1>2, KeptFour
<1>3. CASE d.version = 7
  BY <1>1, <1>3, KeptEight
<1>4. CASE d.version = 8
  BY <1>1, <1>4, KeptNine
<1>5. CASE d.version \notin {3, 7, 8}
  <2> DEFINE v == d.version + 1
  <2>1. v \in {2, 3, 5, 6, 7, 10, 11} /\ d.version = v - 1
    BY <1>1, <1>5
  <2> HIDE DEF v
  <2>2. e = Applied(MigrationTo(v), d)
    BY DEF v
  <2>3. QED
    BY <1>1, <2>1, <2>2, KeptQuiet
<1>6. QED
  BY <1>2, <1>3, <1>4, <1>5

LEMMA KeptStep ==
  ASSUME UpgradeInv, KeptFrom(start, disk), [Next]_vars
  PROVE  KeptFrom(start, disk)'
<1>1. start' = start
  BY DEF Next, Open, Execute, Commit, CheckSearch, Throw, Kill, Abandon, vars
<1>2. CASE Commit
  <2>1. /\ phase \in Transactions /\ todo = <<>> /\ Halfway /\ disk' = work
        /\ start \in Legacy /\ Whole(disk) /\ Stage(phase, disk)
    BY <1>2 DEF UpgradeInv, Commit
  <2>2. disk' = Applied(ListOf(phase, disk), disk)
    BY <2>1, AppliedNone DEF Halfway
  <2>3. CASE phase = "creating"
    <3>1. disk' = Applied(Creation, disk) /\ disk.version = 0
      BY <2>1, <2>2, <2>3 DEF ListOf, Stage
    <3>2. QED
      BY <1>1, <2>1, <3>1, KeptCreated
  <2>4. CASE phase = "migrating"
    <3>1. disk' = Applied(MigrationTo(disk.version + 1), disk) /\ disk.version \in 1 .. Current - 1
      BY <2>1, <2>2, <2>4 DEF ListOf, Stage
    <3>2. QED
      BY <1>1, <2>1, <3>1, KeptMigrated
  <2>5. CASE phase = "ensuring"
    <3>1. disk' = Applied(CurrentObjects, disk) /\ disk.version = Current
      BY <2>1, <2>2, <2>5 DEF ListOf, Stage
    <3>2. disk' = disk
      BY <2>1, <3>1, EnsureAll
    <3>3. QED
      BY <1>1, <3>2
  <2>6. CASE phase = "rebuilding"
    <3>1. disk' = FillSearch(disk) /\ disk.version = Current
      BY <2>1, <2>2, <2>6, RebuildList DEF ListOf, Stage
    <3>2. Kept(disk, disk', {"search", "damaged"})
      BY <2>1, <3>1, ChangeSearch DEF Whole
    <3>3. SameRows(disk, disk') /\ disk'.version = Current
      BY <3>1, <3>2 DEF Kept, Fields, SameRows
    <3>4. Current \in 1 .. Current
      BY DEF Current
    <3>5. QED
      BY <1>1, <3>1, <3>3, <3>4, KeptSame
  <2>7. QED
    BY <2>1, <2>3, <2>4, <2>5, <2>6 DEF Transactions
<1>3. CASE ~ Commit
  <2>1. disk' = disk
    BY <1>3 DEF Next, Open, Execute, CheckSearch, Throw, Kill, Abandon, vars
  <2>2. QED
    BY <1>1, <2>1
<1>4. QED
  BY <1>2, <1>3

(* Every database on the way keeps what the first one had.                 *)
THEOREM KeptInvariant == Spec => []KeptFrom(start, disk)
<1>1. Init => KeptFrom(start, disk)
  BY KeptAtFirst DEF Init
<1>2. QED
  BY <1>1, KeptStep, UpgradeInvariant, PTL DEF Spec

(* Of the entries, the bills, their payments and the markers of the        *)
(* recurring rules, an upgrade loses none but the tombstones and their     *)
(* refunds.                                                                *)
THEOREM EntriesKeptAlways == Spec => []EntriesKept
<1>1. ASSUME UpgradeInv, KeptFrom(start, disk) PROVE EntriesKept
  <2>1. SUFFICES ASSUME phase = "ready" PROVE EntriesKept
    BY DEF EntriesKept
  <2>2. disk.version = Current
    BY <1>1, <2>1 DEF UpgradeInv, Stage
  <2>3. Current \in 8 .. Current /\ Current \in 9 .. Current
    BY DEF Current
  <2>4. /\ EntriesAfter(start, disk) /\ OnePayment(disk) /\ RowsOk(disk)
        /\ DOMAIN disk.bills = DOMAIN start.bills /\ Markers(disk) = Markers(start)
        /\ \A p \in DOMAIN start.tx \ Tombstones(start) : Linked(start, p) => Linked(disk, p)
    BY <1>1, <2>2, <2>3 DEF KeptFrom
  <2>5. ASSUME NEW i \in DOMAIN start.bills, start.bills[i].payment \in DOMAIN disk.tx
        PROVE  Cardinality({j \in DOMAIN disk.bills :
                              disk.bills[j].payment = start.bills[i].payment}) = 1
    <3> DEFINE p == start.bills[i].payment
               named == {j \in DOMAIN disk.bills : disk.bills[j].payment = p}
    <3>1. p \in DOMAIN start.tx \ Tombstones(start) /\ Linked(start, p) /\ p # None
      BY <2>4, <2>5 DEF EntriesAfter, Linked, RowsOk
    <3>2. PICK j \in DOMAIN disk.bills : disk.bills[j].payment = p
      BY <2>4, <3>1 DEF Linked
    <3>3. \A k \in DOMAIN disk.bills : disk.bills[k].payment = p => k = j
      BY <2>4, <3>1, <3>2 DEF OnePayment
    <3>4. named = {j}
      BY <3>2, <3>3
    <3> HIDE DEF named
    <3>5. Cardinality(named) = 1
      BY <3>4, FS_Singleton
    <3>6. QED
      BY <3>5 DEF named
  <2>6. QED
    BY <2>4, <2>5 DEF EntriesKept, EntriesAfter
<1>2. QED
  BY <1>1, UpgradeInvariant, KeptInvariant, PTL

=============================================================================
