---------------------------- MODULE CsvImportProofs ----------------------------
(***************************************************************************)
(* Theorems about CsvImport, for any accounts, contents and files, any     *)
(* number of waiting dialogs and of imports.                               *)
(*                                                                         *)
(* Remembered says what the fingerprints have to know: every line that was *)
(* imported, read in the zone of that day, has one, and it leads to the    *)
(* transaction of the line.  A dialog waits with drafts of distinct        *)
(* fingerprints, however old they are by then.                             *)
(***************************************************************************)
EXTENDS CsvImport, FiniteSetTheorems, SequenceTheorems, WellFoundedInduction, TLAPS

(* The fingerprint of a line that is read in a zone.                       *)
PrintIn(line, z) ==
  IF line.id # None THEN <<"id", line.id>>
  ELSE <<IF line.utc THEN line.time ELSE line.time - z, line.type, line.name, line.content>>

Made(i) == i \in 1 .. MaxIds => i =< ids

(* What waits in a dialog.                                                 *)
Distinct(drafts) ==
  \A m, n \in DOMAIN drafts : drafts[m].print = drafts[n].print => m = n

WellRead(d) ==
  /\ d.print = PrintIn(d.line, d.zone) /\ d.line.id = d.id
  /\ d.id \in (Nat \ {0}) \union {None} /\ Made(d.id)

Listed(drafts) ==
  /\ DOMAIN drafts \subseteq Nat \ {0} /\ DOMAIN drafts # {}
  /\ IsFiniteSet(DOMAIN drafts)
  /\ \A n \in DOMAIN drafts : WellRead(drafts[n])
  /\ Distinct(drafts)

Waiting == (\E S : dialogs \in Seq(S)) /\ \A k \in 1 .. Len(dialogs) : Listed(dialogs[k])

Numbered ==
  /\ ids \in Nat
  /\ DOMAIN tx \subseteq Nat \ {0} /\ IsFiniteSet(DOMAIN tx)
  /\ \A i \in DOMAIN tx : Made(i)

Remembered ==
  \A j \in DOMAIN origin :
    LET p == PrintIn(origin[j][1], origin[j][2]) IN p \in DOMAIN prints /\ prints[p] = j

Held == \A p \in DOMAIN prints : prints[p] \in DOMAIN tx

(* The file of the last export, and what it lists.                         *)
LineOf(i, row) ==
  Line(i, row.type, NameOf[row.account], HasDestination(row), row.content, row.instant, TRUE)

Copied ==
  /\ DOMAIN copy \subseteq Nat \ {0} /\ IsFiniteSet(DOMAIN copy)
  /\ exported = [i \in DOMAIN copy |-> LineOf(i, copy[i])]

Tabled == tx = [i \in DOMAIN tx |-> tx[i]]

ImportInv == Numbered /\ Held /\ Remembered /\ Waiting /\ Copied

--------------------------------------------------------------------------------
(* Files and previews.                                                     *)

LEMMA PrintHere == \A line : Fingerprint(line) = PrintIn(line, zone)
BY DEF Fingerprint, PrintIn, Instant

LEMMA AddValue ==
  ASSUME NEW table, NEW new
  PROVE  /\ DOMAIN Add(table, new) = DOMAIN table \union DOMAIN new
         /\ \A i \in DOMAIN new : Add(table, new)[i] = new[i]
         /\ \A i \in DOMAIN table \ DOMAIN new : Add(table, new)[i] = table[i]
BY DEF Add

(* What a preview lists has distinct fingerprints, of lines of the file.   *)
LEMMA PreviewLists ==
  ASSUME NEW file, DOMAIN file \subseteq Nat \ {0}, IsFiniteSet(DOMAIN file),
         \A n \in DOMAIN file : file[n].id \in (Nat \ {0}) \union {None} /\ Made(file[n].id),
         DOMAIN Importable(file) # {}
  PROVE  Listed(Importable(file))
<1> DEFINE D == Importable(file)
           listed == {n \in DOMAIN file : /\ Valid(file[n])
                                          /\ FirstOfItsKind(file, n)
                                          /\ Fingerprint(file[n]) \notin DOMAIN prints}
<1>1. D = [n \in listed |-> Draft(file[n])]
  BY DEF Importable
<1>2. DOMAIN D = listed /\ listed \subseteq DOMAIN file
  BY <1>1
<1>3. \A n \in listed : /\ D[n].print = Fingerprint(file[n])
                        /\ D[n].line = file[n] /\ D[n].zone = zone /\ D[n].id = file[n].id
  BY <1>1 DEF Draft
<1>4. \A n \in listed : FirstOfItsKind(file, n)
  OBVIOUS
<1> HIDE DEF D, listed
<1>5. \A n \in listed : WellRead(D[n])
  BY <1>2, <1>3, PrintHere DEF WellRead
<1>6. Distinct(D)
  <2>1. SUFFICES ASSUME NEW m \in listed, NEW n \in listed, m < n
                 PROVE  D[m].print # D[n].print
    BY <1>2 DEF Distinct
  <2>2. QED
    BY <1>2, <1>3, <1>4, <2>1 DEF FirstOfItsKind
<1>7. IsFiniteSet(listed)
  BY <1>2, FS_Subset
<1>8. QED
  BY <1>2, <1>5, <1>6, <1>7 DEF Listed, D

(* Both kinds of file are fit to be previewed.                             *)
LEMMA FileRead ==
  ASSUME Copied, NEW file \in ForeignFiles \union {exported}
  PROVE  /\ DOMAIN file \subseteq Nat \ {0} /\ IsFiniteSet(DOMAIN file)
         /\ \A n \in DOMAIN file : file[n].id \in (Nat \ {0}) \union {None}
<1>1. CASE file \in ForeignFiles
  BY <1>1, CsvAssumption
<1>2. CASE file = exported
  <2>1. \A i \in DOMAIN copy : LineOf(i, copy[i]).id = i
    BY DEF LineOf, Line
  <2>2. DOMAIN exported = DOMAIN copy /\ \A i \in DOMAIN copy : exported[i] = LineOf(i, copy[i])
    BY DEF Copied
  <2>3. QED
    BY <1>2, <2>1, <2>2 DEF Copied
<1>3. QED
  BY <1>1, <1>2

--------------------------------------------------------------------------------
(* The ids an import gives.                                                *)

Unnumbered(drafts) == {m \in Inserted(drafts) : drafts[m].id = None}

UpTo(drafts, n) == {m \in Inserted(drafts) : m =< n /\ drafts[m].id = None}

LEMMA UpToFinite ==
  ASSUME NEW drafts, Listed(drafts), NEW n
  PROVE  /\ IsFiniteSet(UpTo(drafts, n)) /\ IsFiniteSet(Inserted(drafts))
         /\ IsFiniteSet(Unnumbered(drafts))
         /\ Cardinality(UpTo(drafts, n)) \in Nat /\ Cardinality(Unnumbered(drafts)) \in Nat
         /\ Cardinality(UpTo(drafts, n)) =< Cardinality(Unnumbered(drafts))
<1>1. Inserted(drafts) \subseteq DOMAIN drafts /\ IsFiniteSet(DOMAIN drafts)
  BY DEF Inserted, Listed
<1>2. IsFiniteSet(Inserted(drafts))
  BY <1>1, FS_Subset
<1>3. Unnumbered(drafts) \subseteq Inserted(drafts) /\ UpTo(drafts, n) \subseteq Unnumbered(drafts)
  BY DEF Unnumbered, UpTo
<1>4. IsFiniteSet(Unnumbered(drafts))
  BY <1>2, <1>3, FS_Subset
<1>5. QED
  BY <1>2, <1>3, <1>4, FS_Subset, FS_CardinalityType

LEMMA UpToGrows ==
  ASSUME NEW drafts, Listed(drafts), NEW m \in Nat, NEW n \in Unnumbered(drafts), m < n
  PROVE  Cardinality(UpTo(drafts, m)) + 1 =< Cardinality(UpTo(drafts, n))
<1>1. n \in Nat /\ Inserted(drafts) \subseteq Nat
  BY DEF Unnumbered, Inserted, Listed
<1>2. UpTo(drafts, m) \union {n} \subseteq UpTo(drafts, n) /\ n \notin UpTo(drafts, m)
  BY <1>1 DEF UpTo, Unnumbered
<1>3. IsFiniteSet(UpTo(drafts, m)) /\ IsFiniteSet(UpTo(drafts, n))
  BY UpToFinite
<1>4. Cardinality(UpTo(drafts, m) \union {n}) = Cardinality(UpTo(drafts, m)) + 1
  BY <1>2, <1>3, FS_AddElement
<1>5. QED
  BY <1>2, <1>3, <1>4, FS_Subset

LEMMA NewIdOf ==
  ASSUME NEW drafts, NEW n
  PROVE  NewId(drafts, n) = IF drafts[n].id # None THEN drafts[n].id
                            ELSE ids + Cardinality(UpTo(drafts, n))
BY DEF NewId, UpTo

(* A new id is above all that were made.                                   *)
LEMMA NewIdAbove ==
  ASSUME Numbered, NEW drafts, Listed(drafts), NEW n \in Unnumbered(drafts),
         ids + Cardinality(Unnumbered(drafts)) =< MaxIds
  PROVE  /\ NewId(drafts, n) \in 1 .. MaxIds /\ NewId(drafts, n) > ids
         /\ NewId(drafts, n) =< ids + Cardinality(Unnumbered(drafts))
<1>1. n \in UpTo(drafts, n)
  BY DEF Unnumbered, UpTo, Inserted, Listed
<1>2. Cardinality(UpTo(drafts, n)) # 0 /\ Cardinality(UpTo(drafts, n)) \in Nat
  BY <1>1, UpToFinite, FS_EmptySet
<1>3. NewId(drafts, n) = ids + Cardinality(UpTo(drafts, n))
  BY NewIdOf DEF Unnumbered
<1>4. QED
  BY <1>2, <1>3, UpToFinite, CsvAssumption DEF Numbered

LEMMA NewIdKinds ==
  ASSUME NEW drafts, NEW n \in Inserted(drafts)
  PROVE  \/ n \in Unnumbered(drafts)
         \/ drafts[n].id # None /\ NewId(drafts, n) = drafts[n].id
BY NewIdOf DEF Unnumbered

(* No transaction has it yet, and it is made now.                          *)
LEMMA NewIdFresh ==
  ASSUME Numbered, NEW drafts, Listed(drafts), NEW n \in Inserted(drafts),
         ids + Cardinality(Unnumbered(drafts)) =< MaxIds
  PROVE  /\ NewId(drafts, n) \in Nat \ {0} /\ NewId(drafts, n) \notin DOMAIN tx
         /\ NewId(drafts, n) \in 1 .. MaxIds =>
              NewId(drafts, n) =< ids + Cardinality(Unnumbered(drafts))
<1>1. Cardinality(Unnumbered(drafts)) \in Nat /\ MaxIds \in Nat /\ ids \in Nat
  BY UpToFinite, CsvAssumption DEF Numbered
<1>2. CASE n \in Unnumbered(drafts)
  BY <1>1, <1>2, NewIdAbove DEF Numbered, Made
<1>3. CASE drafts[n].id # None /\ NewId(drafts, n) = drafts[n].id
  <2>1. WellRead(drafts[n]) /\ drafts[n].id \notin DOMAIN tx
    BY DEF Listed, Inserted, There
  <2>2. QED
    BY <1>1, <1>3, <2>1 DEF WellRead, Made
<1>4. QED
  BY <1>2, <1>3, NewIdKinds

(* No two rows of an import get the same id.                               *)
LEMMA NewIdInjective ==
  ASSUME Numbered, NEW drafts, Listed(drafts),
         NEW m \in Inserted(drafts), NEW n \in Inserted(drafts),
         ids + Cardinality(Unnumbered(drafts)) =< MaxIds,
         NewId(drafts, m) = NewId(drafts, n)
  PROVE  m = n
<1> DEFINE Kept(k) == drafts[k].id # None /\ NewId(drafts, k) = drafts[k].id
<1>1. WellRead(drafts[m]) /\ WellRead(drafts[n]) /\ m \in DOMAIN drafts /\ n \in DOMAIN drafts
      /\ m \in Nat /\ n \in Nat
  BY DEF Listed, Inserted
<1>2. CASE m \in Unnumbered(drafts) /\ n \in Unnumbered(drafts)
  <2>1. Cardinality(UpTo(drafts, m)) = Cardinality(UpTo(drafts, n))
    BY <1>2, NewIdOf, UpToFinite DEF Unnumbered, Numbered
  <2>2. ~ (m < n) /\ ~ (n < m)
    BY <1>1, <1>2, <2>1, UpToGrows, UpToFinite
  <2>3. QED
    BY <1>1, <2>2
<1>3. CASE Kept(m) /\ Kept(n)
  <2>1. drafts[m].print = drafts[n].print
    BY <1>1, <1>3 DEF WellRead, PrintIn
  <2>2. QED
    BY <1>1, <2>1 DEF Listed, Distinct
<1>4. ASSUME NEW k \in Unnumbered(drafts), NEW l \in Inserted(drafts), Kept(l),
             NewId(drafts, k) = NewId(drafts, l)
      PROVE  FALSE
  <2>1. NewId(drafts, k) \in 1 .. MaxIds /\ NewId(drafts, k) > ids
    BY NewIdAbove
  <2>2. WellRead(drafts[l])
    BY DEF Listed, Inserted
  <2>3. QED
    BY <1>4, <2>1, <2>2 DEF WellRead, Made, Numbered
<1>5. QED
  BY <1>2, <1>3, <1>4, NewIdKinds

--------------------------------------------------------------------------------
(* What an import leaves.                                                  *)

NewIds(drafts) == {NewId(drafts, n) : n \in Inserted(drafts)}

LEMMA Imported ==
  ASSUME Numbered, NEW drafts, Listed(drafts),
         ids + Cardinality(Unnumbered(drafts)) =< MaxIds
  PROVE  /\ DOMAIN Import(drafts).tx = DOMAIN tx \union NewIds(drafts)
         /\ \A i \in DOMAIN tx : Import(drafts).tx[i] = tx[i]
         /\ \A n \in Inserted(drafts) :
              Import(drafts).tx[NewId(drafts, n)] = DraftRow(drafts[n])
         /\ DOMAIN Import(drafts).origin = DOMAIN origin \union NewIds(drafts)
         /\ \A n \in Inserted(drafts) :
              Import(drafts).origin[NewId(drafts, n)] = <<drafts[n].line, drafts[n].zone>>
         /\ \A j \in DOMAIN origin \ NewIds(drafts) : Import(drafts).origin[j] = origin[j]
         /\ DOMAIN Import(drafts).prints
              = DOMAIN prints \union {drafts[n].print : n \in Inserted(drafts)}
         /\ \A p \in DOMAIN prints : Import(drafts).prints[p] = prints[p]
         /\ \A n \in Inserted(drafts) :
              Import(drafts).prints[drafts[n].print] = NewId(drafts, n)
<1> DEFINE In == Inserted(drafts)
           index == [i \in NewIds(drafts) |-> CHOOSE n \in In : NewId(drafts, n) = i]
           rows == [i \in NewIds(drafts) |-> DraftRow(drafts[index[i]])]
           lines == [i \in NewIds(drafts) |-> <<drafts[index[i]].line, drafts[index[i]].zone>>]
           Of(p) == CHOOSE n \in In : drafts[n].print = p
           known == [p \in DOMAIN prints \union {drafts[n].print : n \in In} |->
                       IF p \in DOMAIN prints THEN prints[p] ELSE NewId(drafts, Of(p))]
<1>1. Import(drafts) = [tx |-> Add(tx, rows), prints |-> known, origin |-> Add(origin, lines)]
  BY DEF Import, NewIds
<1>2. \A n \in In : /\ NewId(drafts, n) \in NewIds(drafts) /\ NewId(drafts, n) \notin DOMAIN tx
                    /\ index[NewId(drafts, n)] = n
  <2>1. TAKE n \in In
  <2>2. NewId(drafts, n) \in NewIds(drafts)
    BY DEF NewIds
  <2>3. index[NewId(drafts, n)] \in In
        /\ NewId(drafts, index[NewId(drafts, n)]) = NewId(drafts, n)
    BY <2>2
  <2>4. QED
    BY <2>2, <2>3, NewIdInjective, NewIdFresh
<1>3. \A n \in In : drafts[n].print \notin DOMAIN prints /\ Of(drafts[n].print) = n
  <2>1. TAKE n \in In
  <2>2. Of(drafts[n].print) \in In /\ drafts[Of(drafts[n].print)].print = drafts[n].print
    OBVIOUS
  <2>3. In \subseteq DOMAIN drafts
    BY DEF Inserted
  <2>4. Of(drafts[n].print) = n
    BY <2>2, <2>3 DEF Listed, Distinct
  <2>5. QED
    BY <2>4 DEF Inserted, Known
<1> HIDE DEF index, Of, In
<1>4. DOMAIN rows = NewIds(drafts) /\ \A n \in In : rows[NewId(drafts, n)] = DraftRow(drafts[n])
  BY <1>2
<1>5. /\ DOMAIN lines = NewIds(drafts)
      /\ \A n \in In : lines[NewId(drafts, n)] = <<drafts[n].line, drafts[n].zone>>
  BY <1>2
<1>6. /\ DOMAIN known = DOMAIN prints \union {drafts[n].print : n \in In}
      /\ \A p \in DOMAIN prints : known[p] = prints[p]
      /\ \A n \in In : known[drafts[n].print] = NewId(drafts, n)
  BY <1>3
<1>7. DOMAIN tx \intersect NewIds(drafts) = {}
  BY <1>2 DEF NewIds, In
<1> HIDE DEF rows, lines, known
<1>8. /\ DOMAIN Add(tx, rows) = DOMAIN tx \union NewIds(drafts)
      /\ \A i \in DOMAIN tx : Add(tx, rows)[i] = tx[i]
      /\ \A n \in In : Add(tx, rows)[NewId(drafts, n)] = DraftRow(drafts[n])
  <2>1. /\ DOMAIN Add(tx, rows) = DOMAIN tx \union DOMAIN rows
        /\ \A i \in DOMAIN rows : Add(tx, rows)[i] = rows[i]
        /\ \A i \in DOMAIN tx \ DOMAIN rows : Add(tx, rows)[i] = tx[i]
    BY AddValue
  <2>2. QED
    BY <1>2, <1>4, <1>7, <2>1
<1>9. /\ DOMAIN Add(origin, lines) = DOMAIN origin \union NewIds(drafts)
      /\ \A n \in In : Add(origin, lines)[NewId(drafts, n)] = <<drafts[n].line, drafts[n].zone>>
      /\ \A j \in DOMAIN origin \ NewIds(drafts) : Add(origin, lines)[j] = origin[j]
  <2>1. /\ DOMAIN Add(origin, lines) = DOMAIN origin \union DOMAIN lines
        /\ \A i \in DOMAIN lines : Add(origin, lines)[i] = lines[i]
        /\ \A i \in DOMAIN origin \ DOMAIN lines : Add(origin, lines)[i] = origin[i]
    BY AddValue
  <2>2. QED
    BY <1>2, <1>5, <2>1
<1>10. /\ Import(drafts).tx = Add(tx, rows) /\ Import(drafts).origin = Add(origin, lines)
       /\ Import(drafts).prints = known
  BY <1>1
<1>11. QED
  BY <1>6, <1>8, <1>9, <1>10 DEF In

--------------------------------------------------------------------------------
(* Every step keeps the invariant.                                         *)

LEMMA MadeStays ==
  ASSUME ids \in Nat, ids' \in Nat, ids =< ids'
  PROVE  \A i : Made(i) => Made(i)'
BY DEF Made

LEMMA ListedStays ==
  ASSUME ids \in Nat, ids' \in Nat, ids =< ids'
  PROVE  \A drafts : Listed(drafts) => Listed(drafts)'
<1>1. \A d : WellRead(d) => WellRead(d)'
  BY MadeStays DEF WellRead
<1>2. QED
  BY <1>1 DEF Listed, Distinct

LEMMA FrontKeepsWaiting ==
  ASSUME Waiting, dialogs # <<>>, dialogs' = Front(dialogs),
         ids \in Nat, ids' \in Nat, ids =< ids'
  PROVE  Waiting'
<1>1. PICK S : dialogs \in Seq(S)
  BY DEF Waiting
<1>2. Front(dialogs) = SubSeq(dialogs, 1, Len(dialogs) - 1)
  BY DEF Front
<1>3. /\ Len(dialogs) \in Nat \ {0} /\ Front(dialogs) \in Seq(S)
      /\ Len(Front(dialogs)) = Len(dialogs) - 1
      /\ \A k \in 1 .. Len(dialogs) - 1 : Front(dialogs)[k] = dialogs[k]
  <2>1. Len(dialogs) \in Nat \ {0}
    BY <1>1
  <2>2. DEFINE n == Len(dialogs) - 1
  <2>3. n \in Nat /\ 1 \in Int /\ n \in Int /\ \A k \in 1 .. n : dialogs[k] \in S
    BY <1>1, <2>1
  <2>4. n = Len(dialogs) - 1 /\ Front(dialogs) = SubSeq(dialogs, 1, n)
    BY <1>2
  <2> HIDE DEF n
  <2>5. /\ SubSeq(dialogs, 1, n) \in Seq(S)
        /\ Len(SubSeq(dialogs, 1, n)) = IF 1 <= n THEN n - 1 + 1 ELSE 0
        /\ \A k \in 1 .. n - 1 + 1 : SubSeq(dialogs, 1, n)[k] = dialogs[1 + k - 1]
    BY <2>3, SubSeqProperties
  <2>6. n - 1 + 1 = n /\ \A k \in 1 .. n : 1 + k - 1 = k
    BY <2>3
  <2>7. QED
    BY <2>1, <2>3, <2>4, <2>5, <2>6
<1>4. \A k \in 1 .. Len(dialogs) - 1 : Listed(Front(dialogs)[k])
  BY <1>3 DEF Waiting
<1>5. QED
  BY <1>3, <1>4, ListedStays DEF Waiting

(* Steps that leave the transactions and the dialogs alone.                *)
LEMMA DialogsStay ==
  ASSUME Waiting, dialogs' = dialogs, ids \in Nat, ids' \in Nat, ids =< ids'
  PROVE  Waiting'
BY ListedStays DEF Waiting

LEMMA QuietStep ==
  ASSUME ImportInv, UNCHANGED <<prints, origin, dialogs, ids, exported, copy>>,
         DOMAIN tx' = DOMAIN tx
  PROVE  ImportInv'
<1>1. Numbered' /\ Held' /\ Remembered' /\ Copied'
  BY DEF ImportInv, Numbered, Made, Held, Remembered, Copied, LineOf, HasDestination, Line
<1>2. Waiting'
  BY DialogsStay DEF ImportInv, Numbered
<1>3. QED
  BY <1>1, <1>2 DEF ImportInv

LEMMA EnterStep ==
  ASSUME ImportInv, NEW type, NEW status, NEW a, NEW content, NEW instant,
         Enter(type, status, a, content, instant)
  PROVE  ImportInv'
<1> DEFINE new == [i \in {ids + 1} |-> Row(type, status, a, content, instant)]
<1>1. /\ tx' = Add(tx, new) /\ ids' = ids + 1 /\ ids \in Nat
      /\ UNCHANGED <<prints, exported, copy, dialogs, origin>>
  BY DEF Enter, ImportInv, Numbered
<1>2. DOMAIN tx' = DOMAIN tx \union {ids + 1}
  BY <1>1, AddValue
<1>3. Numbered'
  <2>1. IsFiniteSet(DOMAIN tx')
    BY <1>2, FS_AddElement DEF ImportInv, Numbered
  <2>2. QED
    BY <1>1, <1>2, <2>1, MadeStays DEF ImportInv, Numbered, Made
<1>4. Held' /\ Remembered' /\ Copied'
  BY <1>1, <1>2 DEF ImportInv, Held, Remembered, Copied, LineOf, HasDestination, Line
<1>5. Waiting'
  BY <1>1, DialogsStay DEF ImportInv, Numbered
<1>6. QED
  BY <1>3, <1>4, <1>5 DEF ImportInv

LEMMA DeleteStep ==
  ASSUME ImportInv, NEW i \in DOMAIN tx, Delete(i)
  PROVE  ImportInv'
<1>1. /\ tx' = [j \in DOMAIN tx \ {i} |-> tx[j]]
      /\ prints' = [p \in {q \in DOMAIN prints : prints[q] # i} |-> prints[p]]
      /\ origin' = [j \in DOMAIN origin \ {i} |-> origin[j]]
      /\ UNCHANGED <<exported, copy, dialogs, ids>>
  BY DEF Delete
<1>2. Numbered'
  <2>1. IsFiniteSet(DOMAIN tx \ {i})
    BY FS_RemoveElement DEF ImportInv, Numbered
  <2>2. QED
    BY <1>1, <2>1 DEF ImportInv, Numbered, Made
<1>3. Held' /\ Remembered'
  BY <1>1 DEF ImportInv, Held, Remembered
<1>4. Copied' /\ Waiting'
  BY <1>1, DialogsStay DEF ImportInv, Numbered, Copied, LineOf, HasDestination, Line
<1>5. QED
  BY <1>2, <1>3, <1>4 DEF ImportInv

LEMMA WipeStep ==
  ASSUME ImportInv, Wipe
  PROVE  ImportInv'
<1>1. /\ DOMAIN tx' = {} /\ DOMAIN prints' = {} /\ DOMAIN origin' = {}
      /\ UNCHANGED <<exported, copy, dialogs, ids>>
  BY DEF Wipe, Empty
<1>2. Numbered' /\ Held' /\ Remembered'
  BY <1>1, FS_EmptySet DEF ImportInv, Numbered, Held, Remembered
<1>3. Copied' /\ Waiting'
  BY <1>1, DialogsStay DEF ImportInv, Numbered, Copied, LineOf, HasDestination, Line
<1>4. QED
  BY <1>2, <1>3 DEF ImportInv

LEMMA ExportStep ==
  ASSUME ImportInv, Export
  PROVE  ImportInv'
<1>1. /\ exported' = [i \in DOMAIN tx |-> ExportLine(i)] /\ copy' = tx
      /\ UNCHANGED <<tx, prints, dialogs, origin, ids>>
  BY DEF Export
<1>2. \A i : ExportLine(i) = LineOf(i, tx[i])
  BY DEF ExportLine, LineOf
<1>3. Copied'
  BY <1>1, <1>2 DEF ImportInv, Numbered, Copied, LineOf, HasDestination, Line
<1>4. Numbered' /\ Held' /\ Remembered'
  BY <1>1 DEF ImportInv, Numbered, Made, Held, Remembered
<1>5. Waiting'
  BY <1>1, DialogsStay DEF ImportInv, Numbered
<1>6. QED
  BY <1>3, <1>4, <1>5 DEF ImportInv

LEMMA PreviewStep ==
  ASSUME ImportInv, NEW file \in ForeignFiles \union {exported}, Preview(file)
  PROVE  ImportInv'
<1> DEFINE D == Importable(file)
<1>1. /\ dialogs' = Append(dialogs, D) /\ DOMAIN D # {}
      /\ UNCHANGED <<tx, prints, exported, copy, origin, ids>>
      /\ \A n \in DOMAIN file : Made(file[n].id)
  BY DEF Preview, Made
<1>2. Listed(D)
  BY <1>1, FileRead, PreviewLists DEF ImportInv
<1>3. Numbered' /\ Held' /\ Remembered' /\ Copied'
  BY <1>1 DEF ImportInv, Numbered, Made, Held, Remembered, Copied, LineOf, HasDestination, Line
<1> HIDE DEF D
<1>4. Waiting'
  <2>1. PICK S : dialogs \in Seq(S)
    BY DEF ImportInv, Waiting
  <2>2. dialogs \in Seq(S \union {D}) /\ D \in S \union {D}
    BY <2>1
  <2>3. /\ dialogs' \in Seq(S \union {D}) /\ Len(dialogs') = Len(dialogs) + 1
        /\ Len(dialogs) \in Nat
        /\ \A k \in 1 .. Len(dialogs) : dialogs'[k] = dialogs[k]
        /\ dialogs'[Len(dialogs) + 1] = D
    BY <1>1, <2>2
  <2>4. \A k \in 1 .. Len(dialogs') : Listed(dialogs'[k])
    BY <1>2, <2>3 DEF ImportInv, Waiting
  <2>5. ids \in Nat /\ ids' = ids
    BY <1>1 DEF ImportInv, Numbered
  <2>6. \A k \in 1 .. Len(dialogs') : Listed(dialogs[k])'
    BY <2>4, <2>5, ListedStays
  <2>7. QED
    BY <2>3, <2>6 DEF Waiting
<1>5. QED
  BY <1>3, <1>4 DEF ImportInv

LEMMA CancelStep ==
  ASSUME ImportInv, Cancel
  PROVE  ImportInv'
<1>1. /\ dialogs # <<>> /\ dialogs' = Front(dialogs) /\ ids \in Nat
      /\ UNCHANGED <<tx, prints, exported, copy, origin, ids>>
  BY DEF Cancel, ImportInv, Numbered
<1>2. Numbered' /\ Held' /\ Remembered' /\ Copied'
  BY <1>1 DEF ImportInv, Numbered, Made, Held, Remembered, Copied, LineOf, HasDestination, Line
<1>3. Waiting'
  BY <1>1, FrontKeepsWaiting DEF ImportInv
<1>4. QED
  BY <1>2, <1>3 DEF ImportInv

(* The draft on top is listed, and there are ids enough for it.            *)
LEMMA CommitReads ==
  ASSUME ImportInv, Commit
  PROVE  /\ Listed(Last(dialogs))
         /\ ids' = ids + Cardinality(Unnumbered(Last(dialogs))) /\ ids' =< MaxIds
         /\ ids' \in Nat /\ ids =< ids'
<1>1. PICK S : dialogs \in Seq(S)
  BY DEF ImportInv, Waiting
<1>2. Len(dialogs) \in 1 .. Len(dialogs) /\ Last(dialogs) = dialogs[Len(dialogs)]
  BY <1>1 DEF Commit, Last
<1>3. Listed(Last(dialogs))
  BY <1>2 DEF ImportInv, Waiting
<1>4. ids' = ids + Cardinality(Unnumbered(Last(dialogs))) /\ ids' =< MaxIds
  BY DEF Commit, Unnumbered
<1>5. Cardinality(Unnumbered(Last(dialogs))) \in Nat /\ ids \in Nat
  BY <1>3, UpToFinite DEF ImportInv, Numbered
<1>6. QED
  BY <1>3, <1>4, <1>5

LEMMA CommitStep ==
  ASSUME ImportInv, Commit
  PROVE  ImportInv'
<1> DEFINE D == Last(dialogs)
           In == Inserted(D)
<1>1. /\ tx' = Import(D).tx /\ prints' = Import(D).prints /\ origin' = Import(D).origin
      /\ dialogs # <<>> /\ dialogs' = Front(dialogs)
      /\ UNCHANGED <<zone, exported, copy>>
  BY DEF Commit
<1>2. /\ Listed(D) /\ ids' = ids + Cardinality(Unnumbered(D)) /\ ids' =< MaxIds
      /\ ids' \in Nat /\ ids =< ids'
  BY CommitReads
<1> HIDE DEF D
<1>3. \A n \in In : /\ NewId(D, n) \in NewIds(D) /\ NewId(D, n) \notin DOMAIN tx
                    /\ NewId(D, n) \in Nat \ {0}
                    /\ NewId(D, n) \in 1 .. MaxIds => NewId(D, n) =< ids'
  BY <1>2, NewIdFresh DEF ImportInv, NewIds
<1>4. /\ DOMAIN tx' = DOMAIN tx \union NewIds(D)
      /\ DOMAIN origin' = DOMAIN origin \union NewIds(D)
      /\ \A n \in In : origin'[NewId(D, n)] = <<D[n].line, D[n].zone>>
      /\ \A j \in DOMAIN origin \ NewIds(D) : origin'[j] = origin[j]
      /\ DOMAIN prints' = DOMAIN prints \union {D[n].print : n \in In}
      /\ \A p \in DOMAIN prints : prints'[p] = prints[p]
      /\ \A n \in In : prints'[D[n].print] = NewId(D, n)
  BY <1>1, <1>2, Imported DEF ImportInv
<1>5. \A i \in NewIds(D) : i \in Nat \ {0} /\ Made(i)'
  BY <1>3 DEF NewIds, Made
<1>6. Numbered'
  <2>1. IsFiniteSet(NewIds(D))
    <3>1. IsFiniteSet(In)
      BY <1>2, UpToFinite
    <3>2. [n \in In |-> NewId(D, n)] \in Surjection(In, NewIds(D))
      BY DEF Surjection, NewIds
    <3>3. QED
      BY <3>1, <3>2, FS_Surjection
  <2>2. IsFiniteSet(DOMAIN tx')
    <3>1. IsFiniteSet(DOMAIN tx)
      BY DEF ImportInv, Numbered
    <3>2. IsFiniteSet(DOMAIN tx \union NewIds(D))
      BY <2>1, <3>1, FS_Union
    <3>3. QED
      BY <1>4, <3>2
  <2>3. ids \in Nat /\ \A i \in DOMAIN tx : Made(i)'
    BY <1>2, MadeStays DEF ImportInv, Numbered
  <2>4. QED
    BY <1>2, <1>4, <1>5, <2>2, <2>3 DEF ImportInv, Numbered
<1>7. Held'
  BY <1>3, <1>4 DEF ImportInv, Held
<1>8. Remembered'
  <2>1. ASSUME NEW n \in In
        PROVE  /\ D[n].print = PrintIn(D[n].line, D[n].zone)
               /\ origin'[NewId(D, n)] = <<D[n].line, D[n].zone>>
               /\ D[n].print \in DOMAIN prints' /\ prints'[D[n].print] = NewId(D, n)
    BY <1>2, <1>4 DEF Listed, WellRead, Inserted
  <2>2. \A i \in NewIds(D) :
          LET p == PrintIn(origin'[i][1], origin'[i][2]) IN p \in DOMAIN prints' /\ prints'[p] = i
    BY <2>1 DEF NewIds
  <2>3. \A j \in DOMAIN origin \ NewIds(D) :
          LET p == PrintIn(origin'[j][1], origin'[j][2]) IN p \in DOMAIN prints' /\ prints'[p] = j
    BY <1>4 DEF ImportInv, Remembered
  <2>4. QED
    BY <1>4, <2>2, <2>3 DEF Remembered
<1>9. Copied'
  BY <1>1 DEF ImportInv, Copied, LineOf, HasDestination, Line
<1>10. Waiting'
  BY <1>1, <1>2, FrontKeepsWaiting DEF ImportInv, Numbered
<1>11. QED
  BY <1>6, <1>7, <1>8, <1>9, <1>10 DEF ImportInv

LEMMA ImportInvInit ==
  ASSUME Init
  PROVE  ImportInv
<1>1. /\ DOMAIN tx = {} /\ DOMAIN prints = {} /\ DOMAIN origin = {} /\ DOMAIN copy = {}
      /\ exported = Empty /\ copy = Empty /\ dialogs = <<>> /\ ids = 0
  BY DEF Init, Empty
<1>2. Numbered /\ Held /\ Remembered
  BY <1>1, FS_EmptySet DEF Numbered, Held, Remembered
<1>3. Copied
  <2>1. exported = [i \in DOMAIN copy |-> LineOf(i, copy[i])]
    BY <1>1 DEF Empty
  <2>2. QED
    BY <1>1, <2>1, FS_EmptySet DEF Copied
<1>4. Waiting
  BY <1>1 DEF Waiting
<1>5. QED
  BY <1>2, <1>3, <1>4 DEF ImportInv

LEMMA ImportInvStep ==
  ASSUME ImportInv, [Next]_vars
  PROVE  ImportInv'
<1>1. CASE Record
  BY <1>1, EnterStep DEF Record
<1>2. CASE MakeDraft
  BY <1>2, EnterStep DEF MakeDraft
<1>3. CASE CreateAccount \/ ArchiveAccount \/ CreateCategory
  BY <1>3, QuietStep DEF CreateAccount, ArchiveAccount, CreateCategory
<1>4. CASE ChangeZone
  BY <1>4, QuietStep DEF ChangeZone
<1>5. CASE Wipe \/ Export \/ Cancel \/ Commit
  BY <1>5, WipeStep, ExportStep, CancelStep, CommitStep
<1>6. ASSUME NEW i \in DOMAIN tx, Update(i)
      PROVE  ImportInv'
  <2>1. DOMAIN tx' = DOMAIN tx
    BY <1>6 DEF Update
  <2>2. QED
    BY <1>6, <2>1, QuietStep DEF Update
<1>7. ASSUME NEW i \in DOMAIN tx, NEW from, NEW to, SetStatus(i, from, to)
      PROVE  ImportInv'
  <2>1. DOMAIN tx' = DOMAIN tx
    BY <1>7 DEF SetStatus
  <2>2. QED
    BY <1>7, <2>1, QuietStep DEF SetStatus
<1>8. ASSUME NEW i \in DOMAIN tx, Delete(i)
      PROVE  ImportInv'
  BY <1>8, DeleteStep
<1>9. ASSUME NEW file \in ForeignFiles \union {exported}, Preview(file)
      PROVE  ImportInv'
  BY <1>9, PreviewStep
<1>10. CASE UNCHANGED vars
  BY <1>10, QuietStep DEF vars
<1>11. QED
  BY <1>1, <1>2, <1>3, <1>4, <1>5, <1>6, <1>7, <1>8, <1>9, <1>10 DEF Next

LEMMA TabledStep ==
  ASSUME Tabled, [Next]_vars
  PROVE  Tabled'
<1>1. \A type, status, a, content, instant :
        Enter(type, status, a, content, instant) => Tabled'
  BY DEF Enter, Add, Tabled
<1>2. CASE Record \/ MakeDraft
  BY <1>1, <1>2 DEF Record, MakeDraft
<1>3. CASE \/ CreateAccount \/ ArchiveAccount \/ CreateCategory
           \/ ChangeZone \/ Export \/ Cancel \/ UNCHANGED vars
  BY <1>3 DEF CreateAccount, ArchiveAccount, CreateCategory, ChangeZone, Export, Cancel, vars, Tabled
<1>4. CASE Wipe
  BY <1>4 DEF Wipe, Empty, Tabled
<1>5. CASE Commit
  <2>1. Import(Last(dialogs)).tx = [i \in DOMAIN Import(Last(dialogs)).tx |->
                                      Import(Last(dialogs)).tx[i]]
    BY DEF Import, Add
  <2>2. QED
    BY <1>5, <2>1 DEF Commit, Tabled
<1>6. ASSUME NEW i \in DOMAIN tx, Update(i)
      PROVE  Tabled'
  BY <1>6 DEF Update, Tabled
<1>7. ASSUME NEW i \in DOMAIN tx, NEW from, NEW to, SetStatus(i, from, to)
      PROVE  Tabled'
  BY <1>7 DEF SetStatus, Tabled
<1>8. ASSUME NEW i \in DOMAIN tx, Delete(i)
      PROVE  Tabled'
  BY <1>8 DEF Delete, Tabled
<1>9. ASSUME NEW file \in ForeignFiles \union {exported}, Preview(file)
      PROVE  Tabled'
  BY <1>9 DEF Preview, Tabled
<1>10. QED
  BY <1>2, <1>3, <1>4, <1>5, <1>6, <1>7, <1>8, <1>9 DEF Next

(* What the theorems below rest on: ids, fingerprints, waiting previews and *)
(* the last export (importSimpleTransactionsAtomically).                   *)
THEOREM ImportInvariant == Spec => [](ImportInv /\ Tabled)
<1>1. Init => ImportInv /\ Tabled
  BY ImportInvInit DEF Init, Empty, Tabled
<1>2. ImportInv /\ Tabled /\ [Next]_vars => ImportInv' /\ Tabled'
  BY ImportInvStep, TabledStep
<1>3. QED
  BY <1>1, <1>2, PTL DEF Spec

(* However often and from however many dialogs files are imported, no line *)
(* that was read in one zone stands for two transactions                   *)
(* (importSimpleTransactionsAtomically looks its fingerprint up again).    *)
THEOREM ImportedOnceAlways == Spec => []ImportedOnce
<1>1. ImportInv => ImportedOnce
  BY DEF ImportInv, Remembered, ImportedOnce
<1>2. QED
  BY <1>1, ImportInvariant, PTL

--------------------------------------------------------------------------------
(* What comes back from an export.                                         *)

LEMMA ExpensesComeBackStep ==
  ASSUME ImportInv, Commit, tx = Empty, Last(dialogs) = Importable(exported)
  PROVE  /\ DOMAIN tx' = Returning
         /\ \A i \in Returning : /\ tx'[i].content = copy[i].content
                                 /\ tx'[i].instant = copy[i].instant
<1> DEFINE D == Importable(exported)
           back == Returning
           listed == {n \in DOMAIN exported : /\ Valid(exported[n])
                                              /\ FirstOfItsKind(exported, n)
                                              /\ Fingerprint(exported[n]) \notin DOMAIN prints}
<1>1. DOMAIN prints = {} /\ DOMAIN tx = {}
  BY DEF ImportInv, Held, Empty
<1>2. /\ DOMAIN exported = DOMAIN copy /\ DOMAIN copy \subseteq Nat \ {0}
      /\ \A i \in DOMAIN copy :
           /\ exported[i].id = i /\ exported[i].utc
           /\ exported[i].type = copy[i].type /\ exported[i].name = NameOf[copy[i].account]
           /\ exported[i].content = copy[i].content /\ exported[i].time = copy[i].instant
           /\ exported[i].destination <=> HasDestination(copy[i])
  BY DEF ImportInv, Copied, LineOf, Line
<1>3. \A i \in DOMAIN copy : i # None
  BY <1>2, CsvAssumption
<1>4. \A i \in DOMAIN copy : Fingerprint(exported[i]) = <<"id", i>>
  BY <1>2, <1>3 DEF Fingerprint
<1>5. \A i \in DOMAIN copy : FirstOfItsKind(exported, i)
  BY <1>2, <1>4 DEF FirstOfItsKind
<1>6. \A i \in DOMAIN copy : Valid(exported[i]) <=> i \in back
  BY <1>2 DEF Valid, HasDestination, Returning
<1>7. listed = back
  BY <1>1, <1>2, <1>5, <1>6 DEF Returning
<1>8. D = [n \in listed |-> Draft(exported[n])]
  BY DEF Importable
<1>9. DOMAIN D = back /\ \A i \in back : D[i] = Draft(exported[i])
  BY <1>7, <1>8
<1>10. back \subseteq DOMAIN copy
  BY DEF Returning
<1>11. Last(dialogs) = D
  OBVIOUS
<1> HIDE DEF D, listed, back
<1>12. \A i \in back : D[i].id = i /\ D[i].content = copy[i].content
                                   /\ D[i].instant = copy[i].instant
  <2>1. \A i \in back : Instant(exported[i]) = copy[i].instant
    BY <1>2, <1>10 DEF Instant
  <2>2. \A i \in back : /\ D[i].id = exported[i].id /\ D[i].content = exported[i].content
                        /\ D[i].instant = Instant(exported[i])
    BY <1>9 DEF Draft
  <2>3. QED
    BY <1>2, <1>10, <2>1, <2>2
<1>13. Inserted(D) = back
  BY <1>1, <1>9 DEF Inserted, There, Known
<1>14. \A i \in back : NewId(D, i) = i
  BY <1>3, <1>12, <1>10, NewIdOf
<1>15. NewIds(D) = back
  BY <1>13, <1>14 DEF NewIds
<1>16. Numbered /\ Listed(D) /\ ids + Cardinality(Unnumbered(D)) =< MaxIds
       /\ tx' = Import(D).tx
  BY <1>11, CommitReads DEF ImportInv, Commit
<1>17. DOMAIN tx' = back /\ \A i \in back : tx'[i] = DraftRow(D[i])
  BY <1>1, <1>13, <1>14, <1>15, <1>16, Imported
<1>18. \A i \in back : tx'[i].content = copy[i].content /\ tx'[i].instant = copy[i].instant
  BY <1>12, <1>17 DEF DraftRow, Row
<1>19. QED
  BY <1>17, <1>18 DEF back

(* Of an export that is imported into an emptied ledger, the expenses of   *)
(* asset accounts come back with their ids, contents and instants, if      *)
(* their account and category are there by name, and nothing else does,    *)
(* for any transactions and categories and in any zone.                    *)
THEOREM ExpensesComeBackAlways == Spec => ExpensesComeBack
<1>1. ImportInv /\ [Next]_vars =>
        (Commit /\ tx = Empty /\ Last(dialogs) = Importable(exported) =>
           /\ DOMAIN tx' = Returning
           /\ \A i \in Returning : /\ tx'[i].content = copy[i].content
                                   /\ tx'[i].instant = copy[i].instant)
  BY ExpensesComeBackStep
<1>2. QED
  BY <1>1, ImportInvariant, PTL DEF Spec, ExpensesComeBack

--------------------------------------------------------------------------------
(* An import, and the reference that goes row by row.                      *)

LEMMA NatLeast ==
  ASSUME NEW S \in SUBSET Nat, S # {}
  PROVE  \E x \in S : \A y \in S : x <= y
<1> DEFINE R == OpToRel(<, Nat)
<1>1. \A x, y \in Nat : <<x, y>> \in R <=> x < y
  BY DEF OpToRel
<1>2. IsWellFoundedOn(R, Nat)
  BY NatLessThanWellFounded
<1> HIDE DEF R
<1>3. PICK x \in S : \A y \in S : <<y, x>> \notin R
  BY <1>2, WFMin
<1>4. \A y \in S : x \in Nat /\ y \in Nat /\ ~ (y < x)
  BY <1>1, <1>3
<1>5. \A y \in S : x <= y
  BY <1>4
<1>6. QED
  BY <1>5

LEMMA LastLine ==
  ASSUME NEW S \in SUBSET Nat, IsFiniteSet(S), S # {}
  PROVE  Max(S) \in S /\ \A x \in S : x =< Max(S)
<1> DEFINE Above(x) == {y \in S : x < y}
           sizes == {Cardinality(Above(x)) : x \in S}
<1>1. \A x \in S : IsFiniteSet(Above(x)) /\ Cardinality(Above(x)) \in Nat
  BY FS_Subset, FS_CardinalityType
<1>2. PICK x \in S : \A y \in S : Cardinality(Above(x)) <= Cardinality(Above(y))
  <2>1. sizes \in SUBSET Nat /\ sizes # {}
    BY <1>1
  <2> HIDE DEF sizes
  <2>2. PICK least \in sizes : \A size \in sizes : least <= size
    BY <2>1, NatLeast
  <2> USE DEF sizes
  <2>3. QED
    BY <2>2
<1>3. ASSUME NEW y \in S, x < y PROVE FALSE
  <2>1. Above(y) \subseteq Above(x) /\ y \in Above(x) /\ y \notin Above(y)
    <3>1. x \in Nat /\ y \in Nat /\ \A z \in S : z \in Nat
      OBVIOUS
    <3>2. \A z \in S : y < z => x < z
      BY <1>3, <3>1
    <3>3. ~ (y < y)
      BY <3>1
    <3>4. QED
      BY <1>3, <3>2, <3>3
  <2>2. Cardinality(Above(y)) <= Cardinality(Above(x)) /\ Above(y) # Above(x)
    BY <1>1, <2>1, FS_Subset
  <2>3. Cardinality(Above(y)) = Cardinality(Above(x))
    BY <1>1, <1>2, <2>2
  <2>4. QED
    BY <1>1, <2>1, <2>2, <2>3, FS_Subset
<1>4. \A y \in S : x >= y
  BY <1>3
<1>5. QED
  BY <1>4 DEF Max

(* Where the reference is after a number of lines.                         *)
RowsUpTo(drafts, n) ==
  [i \in {NewId(drafts, m) : m \in {k \in Inserted(drafts) : k =< n}} |->
     DraftRow(drafts[CHOOSE m \in Inserted(drafts) : NewId(drafts, m) = i])]

After(drafts, n) ==
  [ok |-> TRUE, tx |-> Add(tx, RowsUpTo(drafts, n)),
   prints |-> DOMAIN prints \union {drafts[m].print : m \in {k \in Inserted(drafts) : k =< n}},
   ids |-> ids + Cardinality(UpTo(drafts, n))]

(* What an import has to meet to go through.                               *)
Passing(drafts) ==
  /\ Numbered /\ Tabled /\ Listed(drafts) /\ Accepted(drafts)
  /\ ids + Cardinality(Unnumbered(drafts)) =< MaxIds

LEMMA RowsUpToValue ==
  ASSUME NEW drafts, Passing(drafts), NEW n \in Nat
  PROVE  /\ DOMAIN RowsUpTo(drafts, n) = {NewId(drafts, m) : m \in {k \in Inserted(drafts) : k =< n}}
         /\ \A m \in Inserted(drafts) :
              m =< n => RowsUpTo(drafts, n)[NewId(drafts, m)] = DraftRow(drafts[m])
         /\ DOMAIN RowsUpTo(drafts, n) \intersect DOMAIN tx = {}
<1> DEFINE In == Inserted(drafts)
           Of(i) == CHOOSE m \in In : NewId(drafts, m) = i
           some == {NewId(drafts, m) : m \in {k \in In : k =< n}}
<1>1. RowsUpTo(drafts, n) = [i \in some |-> DraftRow(drafts[Of(i)])]
  BY DEF RowsUpTo
<1>2. \A m \in In : Of(NewId(drafts, m)) = m
  BY NewIdInjective DEF Passing
<1>3. \A m \in In : m =< n => NewId(drafts, m) \in some
  OBVIOUS
<1>4. \A m \in In : NewId(drafts, m) \notin DOMAIN tx
  BY NewIdFresh DEF Passing
<1>5. some \intersect DOMAIN tx = {}
  BY <1>4
<1> HIDE DEF Of, some, In
<1>6. QED
  BY <1>1, <1>2, <1>3, <1>5 DEF some, In

(* At a line that holds no draft, or one that is there or known.           *)
LEMMA AfterSkips ==
  ASSUME NEW drafts, Passing(drafts), NEW n \in Nat \ {0}, n \notin Inserted(drafts)
  PROVE  After(drafts, n) = After(drafts, n - 1)
<1>1. Inserted(drafts) \subseteq Nat
  BY DEF Inserted, Passing, Listed
<1>2. {k \in Inserted(drafts) : k =< n} = {k \in Inserted(drafts) : k =< n - 1}
  BY <1>1
<1>3. UpTo(drafts, n) = UpTo(drafts, n - 1)
  BY <1>1 DEF UpTo
<1>4. RowsUpTo(drafts, n) = RowsUpTo(drafts, n - 1)
  BY <1>2 DEF RowsUpTo
<1>5. QED
  BY <1>2, <1>3, <1>4 DEF After

(* At a line whose draft is inserted.                                      *)
LEMMA AfterInserts ==
  ASSUME NEW drafts, Passing(drafts), NEW n \in Inserted(drafts)
  PROVE  LET last == After(drafts, n - 1)
             i == IF drafts[n].id = None THEN last.ids + 1 ELSE drafts[n].id
         IN After(drafts, n) =
              [ok |-> TRUE, tx |-> Add(last.tx, [j \in {i} |-> DraftRow(drafts[n])]),
               prints |-> last.prints \union {drafts[n].print},
               ids |-> IF drafts[n].id = None THEN i ELSE last.ids]
<1> DEFINE In == Inserted(drafts)
           last == After(drafts, n - 1)
           i == IF drafts[n].id = None THEN last.ids + 1 ELSE drafts[n].id
           row == [j \in {i} |-> DraftRow(drafts[n])]
<1>1. In \subseteq Nat \ {0} /\ n \in Nat \ {0} /\ n - 1 \in Nat
  BY DEF Inserted, Passing, Listed
<1>2. {k \in In : k =< n} = {k \in In : k =< n - 1} \union {n}
  BY <1>1
<1>3. /\ last.prints = DOMAIN prints \union {drafts[m].print : m \in {k \in In : k =< n - 1}}
      /\ last.tx = Add(tx, RowsUpTo(drafts, n - 1))
      /\ last.ids = ids + Cardinality(UpTo(drafts, n - 1))
  BY DEF After
<1>4. Cardinality(UpTo(drafts, n)) = Cardinality(UpTo(drafts, n - 1))
                                       + (IF drafts[n].id = None THEN 1 ELSE 0)
      /\ Cardinality(UpTo(drafts, n - 1)) \in Nat
  <2>1. UpTo(drafts, n) = IF drafts[n].id = None THEN UpTo(drafts, n - 1) \union {n}
                          ELSE UpTo(drafts, n - 1)
    BY <1>1 DEF UpTo
  <2>2. n \notin UpTo(drafts, n - 1)
    BY <1>1 DEF UpTo
  <2>3. IsFiniteSet(UpTo(drafts, n - 1)) /\ Cardinality(UpTo(drafts, n - 1)) \in Nat
    BY UpToFinite DEF Passing
  <2>4. Cardinality(UpTo(drafts, n - 1) \union {n}) = Cardinality(UpTo(drafts, n - 1)) + 1
    BY <2>2, <2>3, FS_AddElement
  <2>5. QED
    BY <2>1, <2>3, <2>4
<1>5. ids \in Nat
  BY DEF Passing, Numbered
<1>6. NewId(drafts, n) = i
  BY <1>3, <1>4, <1>5, NewIdOf
<1>7. Add(tx, RowsUpTo(drafts, n)) = Add(last.tx, row)
  <2>1. /\ DOMAIN RowsUpTo(drafts, n)
             = {NewId(drafts, m) : m \in {k \in In : k =< n}}
        /\ DOMAIN RowsUpTo(drafts, n - 1)
             = {NewId(drafts, m) : m \in {k \in In : k =< n - 1}}
        /\ \A m \in In : m =< n => RowsUpTo(drafts, n)[NewId(drafts, m)] = DraftRow(drafts[m])
        /\ \A m \in In : m =< n - 1 =>
             RowsUpTo(drafts, n - 1)[NewId(drafts, m)] = DraftRow(drafts[m])
    BY <1>1, RowsUpToValue
  <2>2. DOMAIN RowsUpTo(drafts, n) = DOMAIN RowsUpTo(drafts, n - 1) \union {i}
    BY <1>2, <1>6, <2>1
  <2>3. \A j \in DOMAIN RowsUpTo(drafts, n - 1) :
          RowsUpTo(drafts, n)[j] = RowsUpTo(drafts, n - 1)[j]
    BY <1>1, <2>1
  <2>4. RowsUpTo(drafts, n)[i] = DraftRow(drafts[n]) /\ i \notin DOMAIN RowsUpTo(drafts, n - 1)
    <3>1. ASSUME NEW m \in In, m =< n - 1, NewId(drafts, m) = i
          PROVE  FALSE
      <4>1. m = n
        BY <1>6, <3>1, NewIdInjective DEF Passing
      <4>2. QED
        BY <1>1, <3>1, <4>1
    <3>2. QED
      BY <1>1, <1>6, <2>1, <3>1
  <2> HIDE DEF i, last
  <2>5. DOMAIN row = {i} /\ row[i] = DraftRow(drafts[n])
    OBVIOUS
  <2> HIDE DEF row
  <2>6. QED
    BY <1>3, <2>2, <2>3, <2>4, <2>5 DEF Add
<1>8. DOMAIN prints \union {drafts[m].print : m \in {k \in In : k =< n}}
        = last.prints \union {drafts[n].print}
  BY <1>2, <1>3
<1>9. ids + Cardinality(UpTo(drafts, n)) = IF drafts[n].id = None THEN i ELSE last.ids
  BY <1>3, <1>4, <1>5
<1>10. After(drafts, n) = [ok |-> TRUE, tx |-> Add(tx, RowsUpTo(drafts, n)),
          prints |-> DOMAIN prints \union {drafts[m].print : m \in {k \in In : k =< n}},
          ids |-> ids + Cardinality(UpTo(drafts, n))]
  BY DEF After
<1> HIDE DEF In, last, i, row
<1>11. After(drafts, n) = [ok |-> TRUE, tx |-> Add(last.tx, row),
          prints |-> last.prints \union {drafts[n].print},
          ids |-> IF drafts[n].id = None THEN i ELSE last.ids]
  BY <1>7, <1>8, <1>9, <1>10
<1>12. QED
  BY <1>11 DEF last, i, row

(* Row by row, the reference comes through the same places.                *)
LEMMA NextAfter ==
  ASSUME NEW drafts, Passing(drafts), NEW n \in DOMAIN drafts
  PROVE  NextRow(After(drafts, n - 1), drafts[n]) = After(drafts, n)
<1> DEFINE last == After(drafts, n - 1)
           d == drafts[n]
<1>1. n \in Nat \ {0} /\ n - 1 \in Nat
  BY DEF Passing, Listed
<1>2. /\ last.ok = TRUE /\ last.tx = Add(tx, RowsUpTo(drafts, n - 1))
      /\ last.prints
           = DOMAIN prints \union {drafts[m].print : m \in {k \in Inserted(drafts) : k =< n - 1}}
      /\ DOMAIN last = {"ok", "tx", "prints", "ids"}
  BY DEF After
<1>3. /\ DOMAIN last.tx = DOMAIN tx \union
           {NewId(drafts, m) : m \in {k \in Inserted(drafts) : k =< n - 1}}
      /\ \A i \in DOMAIN tx : last.tx[i] = tx[i]
  <2>1. /\ DOMAIN RowsUpTo(drafts, n - 1)
             = {NewId(drafts, m) : m \in {k \in Inserted(drafts) : k =< n - 1}}
        /\ DOMAIN RowsUpTo(drafts, n - 1) \intersect DOMAIN tx = {}
    BY <1>1, RowsUpToValue
  <2>2. /\ DOMAIN last.tx = DOMAIN tx \union DOMAIN RowsUpTo(drafts, n - 1)
        /\ \A i \in DOMAIN tx \ DOMAIN RowsUpTo(drafts, n - 1) : last.tx[i] = tx[i]
    <3>1. /\ DOMAIN Add(tx, RowsUpTo(drafts, n - 1)) = DOMAIN tx \union DOMAIN RowsUpTo(drafts, n - 1)
          /\ \A i \in DOMAIN tx \ DOMAIN RowsUpTo(drafts, n - 1) :
               Add(tx, RowsUpTo(drafts, n - 1))[i] = tx[i]
      BY AddValue
    <3>2. last.tx = Add(tx, RowsUpTo(drafts, n - 1))
      BY <1>2
    <3> HIDE DEF last
    <3>3. QED
      BY <3>1, <3>2
  <2>3. QED
    BY <2>1, <2>2
<1>4. /\ WellRead(d) /\ Distinct(drafts)
      /\ \A m \in DOMAIN drafts : WellRead(drafts[m])
      /\ Inserted(drafts) \subseteq DOMAIN drafts
  BY DEF Passing, Listed, Inserted
(* No row before this one has its id.                                      *)
<1>5. d.id \in DOMAIN last.tx <=> There(d)
  <2>1. ASSUME NEW m \in Inserted(drafts), m =< n - 1, NewId(drafts, m) = d.id
        PROVE  FALSE
    <3>1. m \in Nat /\ m # n /\ m \in DOMAIN drafts
      BY <1>1, <1>4, <2>1 DEF Passing, Listed
    <3>2. CASE drafts[m].id # None /\ NewId(drafts, m) = drafts[m].id
      <4>1. drafts[m].print = d.print
        BY <1>4, <2>1, <3>1, <3>2 DEF WellRead, PrintIn
      <4>2. QED
        BY <1>4, <3>1, <4>1 DEF Distinct
    <3>3. CASE m \in Unnumbered(drafts)
      <4>1. NewId(drafts, m) \in 1 .. MaxIds /\ NewId(drafts, m) > ids
        BY <3>3, NewIdAbove DEF Passing
      <4>2. QED
        BY <1>4, <2>1, <4>1 DEF WellRead, Made, Passing, Numbered
    <3>4. QED
      BY <3>2, <3>3, NewIdKinds
  <2>2. QED
    BY <1>3, <2>1 DEF There
<1>6. d.print \in last.prints <=> Known(d)
  <2>1. ASSUME NEW m \in Inserted(drafts), m =< n - 1, drafts[m].print = d.print
        PROVE  FALSE
    BY <1>1, <1>4, <2>1 DEF Distinct
  <2>2. QED
    BY <1>2, <2>1 DEF Known
<1> DEFINE i == IF d.id = None THEN last.ids + 1 ELSE d.id
           put == [ok |-> TRUE, tx |-> Add(last.tx, [j \in {i} |-> DraftRow(d)]),
                   prints |-> last.prints \union {d.print},
                   ids |-> IF d.id = None THEN i ELSE last.ids]
<1>7. CASE There(d)
  <2>1. Same(d)
    BY <1>7 DEF Passing, Accepted
  <2>2. last.tx[d.id] = tx[d.id]
    BY <1>3, <1>7 DEF There
  <2> DEFINE r == last.tx[d.id]
             same == <<r.type, r.status, r.content, r.instant>>
                       = <<d.type, "POSTED", d.content, d.instant>>
  <2>3. same = TRUE
    BY <2>1, <2>2 DEF Same
  <2>4. NextRow(last, d) = [last EXCEPT !.ok = same]
    BY <1>5, <1>7 DEF NextRow
  <2> HIDE DEF same
  <2>5. NextRow(last, d) = [last EXCEPT !.ok = TRUE]
    BY <2>3, <2>4
  <2>6. last = [ok |-> TRUE, tx |-> last.tx, prints |-> last.prints, ids |-> last.ids]
    BY DEF After
  <2> HIDE DEF last
  <2>7. NextRow(last, d) = last
    BY <2>5, <2>6
  <2>8. n \notin Inserted(drafts)
    BY <1>7 DEF Inserted
  <2> USE DEF last
  <2>9. QED
    BY <1>1, <2>7, <2>8, AfterSkips
<1>8. CASE ~ There(d) /\ Known(d)
  <2>1. NextRow(last, d) = last
    BY <1>5, <1>6, <1>8 DEF NextRow
  <2>2. n \notin Inserted(drafts)
    BY <1>8 DEF Inserted
  <2>3. QED
    BY <1>1, <2>1, <2>2, AfterSkips
<1>9. CASE ~ There(d) /\ ~ Known(d)
  <2>1. n \in Inserted(drafts)
    BY <1>9 DEF Inserted
  <2>2. After(drafts, n) = put
    BY <2>1, AfterInserts
  <2> HIDE DEF last
  <2>3. NextRow(last, d) = put
    BY <1>5, <1>6, <1>9 DEF NextRow
  <2>4. QED
    BY <2>2, <2>3 DEF last
<1>10. QED
  BY <1>7, <1>8, <1>9

LEMMA ReferenceIs ==
  ASSUME NEW drafts, Passing(drafts)
  PROVE  /\ Reference(drafts) = After(drafts, Max(DOMAIN drafts))
         /\ {k \in Inserted(drafts) : k =< Max(DOMAIN drafts)} = Inserted(drafts)
         /\ Max(DOMAIN drafts) \in Nat
<1> DEFINE M == Max(DOMAIN drafts)
           before == [ok |-> TRUE, tx |-> tx, prints |-> DOMAIN prints, ids |-> ids]
           Body(f, n) == IF n = 0 THEN before
                         ELSE IF n \in DOMAIN drafts /\ f[n - 1].ok
                              THEN NextRow(f[n - 1], drafts[n])
                         ELSE f[n - 1]
           done == CHOOSE f : f = [n \in 0 .. M |-> Body(f, n)]
           through == [n \in 0 .. M |-> After(drafts, n)]
<1>1. DOMAIN drafts \in SUBSET (Nat \ {0}) /\ IsFiniteSet(DOMAIN drafts) /\ DOMAIN drafts # {}
  BY DEF Passing, Listed
<1>2. M \in DOMAIN drafts /\ \A n \in DOMAIN drafts : n =< M
  BY <1>1, LastLine
<1>3. M \in Nat
  BY <1>1, <1>2
<1>4. {k \in Inserted(drafts) : k =< M} = Inserted(drafts)
  BY <1>2 DEF Inserted
<1>5. Reference(drafts) = done[M]
  BY DEF Reference
<1>6. After(drafts, 0) = before
  <2>1. Inserted(drafts) \subseteq Nat \ {0}
    BY <1>1 DEF Inserted
  <2>2. {k \in Inserted(drafts) : k =< 0} = {} /\ UpTo(drafts, 0) = {}
    BY <2>1 DEF UpTo
  <2>3. DOMAIN RowsUpTo(drafts, 0) = {}
    BY <2>2 DEF RowsUpTo
  <2>4. Add(tx, RowsUpTo(drafts, 0)) = tx
    <3>1. Add(tx, RowsUpTo(drafts, 0)) = [i \in DOMAIN tx |-> tx[i]]
      BY <2>3 DEF Add
    <3>2. QED
      BY <3>1 DEF Passing, Tabled
  <2>5. Cardinality(UpTo(drafts, 0)) = 0 /\ ids \in Nat
    BY <2>2, FS_EmptySet DEF Passing, Numbered
  <2>6. DOMAIN prints \union {drafts[m].print : m \in {k \in Inserted(drafts) : k =< 0}}
          = DOMAIN prints
    BY <2>2
  <2>7. ids + Cardinality(UpTo(drafts, 0)) = ids
    BY <2>5
  <2>8. QED
    BY <2>4, <2>6, <2>7 DEF After
<1>7. ASSUME NEW n \in 1 .. M
      PROVE  After(drafts, n) = IF n \in DOMAIN drafts /\ After(drafts, n - 1).ok
                                THEN NextRow(After(drafts, n - 1), drafts[n])
                                ELSE After(drafts, n - 1)
  <2>1. After(drafts, n - 1).ok
    BY DEF After
  <2>2. CASE n \in DOMAIN drafts
    BY <2>1, <2>2, NextAfter
  <2>3. CASE n \notin DOMAIN drafts
    BY <1>3, <2>3, AfterSkips DEF Inserted
  <2>4. QED
    BY <2>2, <2>3
<1> HIDE DEF M, before
<1>8. through = [n \in 0 .. M |-> Body(through, n)]
  <2>1. \A n \in 1 .. M : n - 1 \in 0 .. M /\ through[n - 1] = After(drafts, n - 1)
    BY <1>3
  <2>2. \A n \in 0 .. M : n = 0 \/ n \in 1 .. M
    BY <1>3
  <2>3. \A n \in 0 .. M : After(drafts, n) = Body(through, n)
    BY <1>6, <1>7, <2>1, <2>2
  <2>4. QED
    BY <2>3
<1> HIDE DEF through
<1>9. done = [n \in 0 .. M |-> Body(done, n)]
  BY <1>8
<1> HIDE DEF done
<1>10. \A n \in 0 .. M : done[n] = After(drafts, n)
  <2> DEFINE off == {n \in 0 .. M : done[n] # After(drafts, n)}
  <2>1. SUFFICES ASSUME off # {} PROVE FALSE
    OBVIOUS
  <2>2. off \in SUBSET Nat
    OBVIOUS
  <2> HIDE DEF off
  <2>3. PICK n \in off : \A m \in off : n <= m
    BY <2>1, <2>2, NatLeast
  <2> USE DEF off
  <2>4. n \in 0 .. M /\ done[n] # After(drafts, n) /\ done[n] = Body(done, n)
    BY <1>9, <2>3
  <2>5. CASE n = 0
    BY <1>6, <2>4, <2>5
  <2>6. CASE n \in 1 .. M
    <3>1. n - 1 \in 0 .. M /\ n - 1 \notin off
      BY <1>3, <2>3, <2>6
    <3>2. done[n - 1] = After(drafts, n - 1)
      BY <3>1
    <3>3. QED
      BY <1>7, <2>4, <2>6, <3>2
  <2>7. QED
    BY <1>3, <2>4, <2>5, <2>6
<1>11. QED
  BY <1>3, <1>4, <1>5, <1>10 DEF M

LEMMA AsReferenceStep ==
  ASSUME ImportInv, Tabled, Commit
  PROVE  AsReference
<1> DEFINE D == Last(dialogs)
<1>1. Passing(D)
  BY CommitReads DEF Passing, Commit, ImportInv
<1>2. tx' = Import(D).tx /\ prints' = Import(D).prints
  BY DEF Commit
<1> HIDE DEF D
<1>3. /\ Reference(D) = After(D, Max(DOMAIN D))
      /\ {k \in Inserted(D) : k =< Max(DOMAIN D)} = Inserted(D)
  BY <1>1, ReferenceIs
<1>4. RowsUpTo(D, Max(DOMAIN D)) = [i \in NewIds(D) |->
        DraftRow(D[CHOOSE n \in Inserted(D) : NewId(D, n) = i])]
  BY <1>3 DEF RowsUpTo, NewIds
<1>5. /\ Reference(D).ok /\ Reference(D).tx = Add(tx, RowsUpTo(D, Max(DOMAIN D)))
      /\ Reference(D).prints = DOMAIN prints \union {D[m].print : m \in Inserted(D)}
  BY <1>3 DEF After
<1>6. Import(D).tx = Add(tx, RowsUpTo(D, Max(DOMAIN D)))
  <2> DEFINE index == [i \in NewIds(D) |-> CHOOSE n \in Inserted(D) : NewId(D, n) = i]
  <2>1. Import(D).tx = Add(tx, [i \in DOMAIN index |-> DraftRow(D[index[i]])])
    BY DEF Import, NewIds
  <2>2. [i \in DOMAIN index |-> DraftRow(D[index[i]])] = RowsUpTo(D, Max(DOMAIN D))
    BY <1>4
  <2>3. QED
    BY <2>1, <2>2
<1>7. DOMAIN Import(D).prints = DOMAIN prints \union {D[m].print : m \in Inserted(D)}
  BY <1>1, Imported DEF Passing
<1>8. QED
  BY <1>2, <1>5, <1>6, <1>7 DEF AsReference, D

(* importSimpleTransactionsAtomically asks all its questions of the ledger *)
(* as it was before the first row, and numbers new rows one after another. *)
(* For drafts of any number it leaves what the reference of                *)
(* reference_csv_import_audit leaves, which looks each row up among those  *)
(* before it, and it goes through only if no row conflicts.                *)
THEOREM ImportsAsReferenceAlways == Spec => ImportsAsReference
<1>1. ImportInv /\ Tabled /\ [Next]_vars => (Commit => AsReference)
  BY AsReferenceStep
<1>2. QED
  BY <1>1, ImportInvariant, PTL DEF Spec, ImportsAsReference

================================================================================
