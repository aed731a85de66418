-------------------------- MODULE ReleaseGatesProofs --------------------------
(***************************************************************************)
(* Theorems about ReleaseGates and the shells of NativeShell, for any      *)
(* modes, partial copies, hand-edited files and bounds.                    *)
(*                                                                         *)
(* The argument is one about order.  Led and NoneAfter say of the steps    *)
(* that are left which must come before which; a script of a gate has its  *)
(* order when it begins, and the rest of a script keeps it.  So at every   *)
(* step a thing has either still to be done before the next build or       *)
(* evidence, or is done, and nothing that a gate runs undoes it:           *)
(*   Typed   every step is one its action can take, and what builds or     *)
(*           takes evidence is a gate, which has a lock;                   *)
(*   Traced  the Flutter is accepted, and what is built is of the source,  *)
(*           the lock and the Flutter that are there;                      *)
(*   Marks   a shell with icons has its name and splash, because icons     *)
(*           come last in the bootstrap;                                   *)
(*   Ships   the files are hardened, the icons audited and the signing     *)
(*           verified before the build that needs it;                      *)
(*   Undisturbed  nothing a script without disturbance comes to fails:     *)
(*           what a step needs is done, or has its step before it.         *)
(***************************************************************************)
EXTENDS ReleaseGates, SequenceTheorems, TLAPS

-----------------------------------------------------------------------------
(* Files as bags of marks.                                                 *)

Once(c) == \A m \in DOMAIN c : c[m] = 1

LEMMA HasIs ==
  ASSUME NEW c, NEW m
  PROVE  Has(c, m) <=> m \in DOMAIN c
BY DEF Has, BagIn, BagToSet

LEMMA MarkedIs ==
  ASSUME NEW marks
  PROVE  DOMAIN Marked(marks) = marks /\ Once(Marked(marks))
BY DEF Marked, SetToBag, Once

LEMMA AbsentIs ==
  /\ DOMAIN Absent = {"absent"} /\ Once(Absent)
  /\ DOMAIN Emptied = {} /\ Once(Emptied)
  /\ Absent # Emptied
BY DEF Absent, Emptied, EmptyBag, SetToBag, Once

LEMMA InsertIs ==
  ASSUME NEW c, NEW marks, Once(c)
  PROVE  DOMAIN Insert(c, marks) = DOMAIN c \cup marks /\ Once(Insert(c, marks))
<1> DEFINE new == {m \in marks : ~ Has(c, m)}
<1>1. new = {m \in marks : m \notin DOMAIN c}
  BY HasIs
<1>2. DOMAIN Marked(new) = new /\ \A m \in new : Marked(new)[m] = 1
  BY MarkedIs DEF Once
<1>3. Insert(c, marks) = c (+) Marked(new)
  BY DEF Insert
<1> HIDE DEF new
<1>4. DOMAIN Insert(c, marks) = DOMAIN c \cup new
  BY <1>2, <1>3 DEF (+)
<1>5. Once(Insert(c, marks))
  BY <1>1, <1>2, <1>3 DEF (+), Once
<1>6. QED
  BY <1>1, <1>4, <1>5

LEMMA SignIs ==
  ASSUME NEW c, Once(c)
  PROVE  Once(Sign(c))
<1> DEFINE rest == c (-) Marked({"debugSigning"})
<1>1. Marked({"debugSigning"}) = [m \in {"debugSigning"} |-> 1]
  BY DEF Marked, SetToBag
<1>2. Once(rest)
  BY <1>1 DEF (-), Once
<1>3. QED
  BY <1>2, InsertIs DEF Sign

(* The files each tool is run on.                                          *)
FilesFor(tool) ==
  CASE tool = "hardening" -> {"manifest", "rules", "gradle", "activity", "styles", "v31",
                              "plist", "project"}
    [] tool = "v49" -> {"activity"}
    [] tool = "branding" -> {"manifest", "plist"}
    [] tool = "splash" -> {"drawables", "styles", "v31", "launchScreen"}
    [] tool = "icon" -> {"launcher", "appIcon"}
    [] tool = "signing" -> {"gradle"}

(* The marks that say something other than that a file was hardened.       *)
OtherMarks == {"absent", "template", "icons", "debugSigning"}

(* Files that are hardened only as far as they have their structure.       *)
Fragile == {"gradle", "styles", "project"}

Grown(c, d, marks) ==
  /\ Once(d) /\ d # Absent
  /\ DOMAIN c \subseteq DOMAIN d /\ marks \subseteq DOMAIN d
  /\ (DOMAIN d \ DOMAIN c) \subseteq marks

LEMMA InsertGrows ==
  ASSUME NEW c, Once(c), NEW marks, NEW m \in marks, m # "absent"
  PROVE  /\ Grown(c, Insert(c, marks), marks)
         /\ Once(Marked(marks)) /\ DOMAIN Marked(marks) = marks /\ Marked(marks) # Absent
<1>1. /\ DOMAIN Insert(c, marks) = DOMAIN c \cup marks /\ Once(Insert(c, marks))
      /\ DOMAIN Marked(marks) = marks /\ Once(Marked(marks))
  BY InsertIs, MarkedIs
<1>2. m \notin DOMAIN Absent
  BY AbsentIs
<1>3. QED
  BY <1>1, <1>2 DEF Grown

LEMMA HardenIs ==
  ASSUME NEW c, Once(c), NEW f \in FilesFor("hardening")
  PROVE  LET d == Harden(f, c) IN
         /\ Once(d)
         /\ f \notin {"rules", "activity"} => DOMAIN c \subseteq DOMAIN d
         /\ f \notin {"rules", "activity"} => (DOMAIN d \ DOMAIN c) \cap OtherMarks = {}
         /\ f # "v31" /\ (f \in Fragile => Structured(c)) => HardeningMarks[f] \subseteq DOMAIN d
         /\ c # Absent \/ f = "rules" => d # Absent
         /\ f = "v31" => d = c
<1>1. CASE f = "manifest"
  <2> DEFINE marks == {"permissions", "backupOff", "receivers"}
  <2>1. Harden(f, c) = Insert(c, marks) /\ HardeningMarks[f] = marks
    BY <1>1 DEF Harden, HardeningMarks
  <2>2. marks \cap OtherMarks = {} /\ "permissions" \in marks
    BY DEF OtherMarks
  <2> HIDE DEF marks
  <2>3. Grown(c, Harden(f, c), marks)
    BY <2>1, <2>2, InsertGrows DEF OtherMarks
  <2>4. QED
    BY <1>1, <2>1, <2>2, <2>3 DEF Grown
<1>2. CASE f = "rules"
  <2>1. Harden(f, c) = Marked({"exclusions"}) /\ HardeningMarks[f] = {"exclusions"}
    BY <1>2 DEF Harden, HardeningMarks
  <2>2. QED
    BY <1>2, <2>1, InsertGrows
<1>3. CASE f = "gradle"
  <2> DEFINE all == {"sdk36", "java17", "dependencies"}
             marks == IF Structured(c) THEN all ELSE {"dependencies"}
  <2>1. Harden(f, c) = Insert(c, marks) /\ HardeningMarks[f] = all
    BY <1>3 DEF Harden, HardeningMarks
  <2>2. marks \cap OtherMarks = {} /\ "dependencies" \in marks
    BY DEF OtherMarks
  <2>3. f \in Fragile /\ (Structured(c) => marks = all)
    BY <1>3 DEF Fragile
  <2> HIDE DEF marks, all
  <2>4. Grown(c, Harden(f, c), marks)
    BY <2>1, <2>2, InsertGrows DEF OtherMarks
  <2>5. QED
    BY <1>3, <2>1, <2>2, <2>3, <2>4 DEF Grown
<1>4. CASE f = "activity"
  <2>1. Harden(f, c) = Marked({"template", "imports", "channel", "deviceLock"})
    BY <1>4 DEF Harden, Activity
  <2>2. HardeningMarks[f] = {"channel", "deviceLock"}
    BY <1>4 DEF HardeningMarks
  <2>3. "template" # "absent"
    OBVIOUS
  <2>4. Once(Harden(f, c)) /\ Harden(f, c) # Absent
        /\ DOMAIN Harden(f, c) = {"template", "imports", "channel", "deviceLock"}
    BY <2>1, <2>3, InsertGrows
  <2>5. QED
    BY <1>4, <2>2, <2>4
<1>5. CASE f = "styles"
  <2>1. Harden(f, c) = (IF Structured(c) THEN Insert(c, {"appCompat"}) ELSE c)
        /\ HardeningMarks[f] = {"appCompat"}
    BY <1>5 DEF Harden, HardeningMarks
  <2>2. "appCompat" \notin OtherMarks /\ f \in Fragile
    BY <1>5 DEF OtherMarks, Fragile
  <2>3. CASE Structured(c)
    <3>1. Grown(c, Harden(f, c), {"appCompat"})
      BY <2>1, <2>2, <2>3, InsertGrows DEF OtherMarks
    <3>2. QED
      BY <1>5, <2>1, <2>2, <3>1 DEF Grown
  <2>4. CASE ~ Structured(c)
    BY <1>5, <2>1, <2>2, <2>4
  <2>5. QED
    BY <2>3, <2>4
<1>6. CASE f = "v31"
  BY <1>6 DEF Harden
<1>7. CASE f = "plist"
  <2>1. Harden(f, c) = Insert(c, {"faceId"}) /\ HardeningMarks[f] = {"faceId"}
    BY <1>7 DEF Harden, HardeningMarks
  <2>2. "faceId" \notin OtherMarks
    BY DEF OtherMarks
  <2>3. Grown(c, Harden(f, c), {"faceId"})
    BY <2>1, <2>2, InsertGrows DEF OtherMarks
  <2>4. QED
    BY <1>7, <2>1, <2>2, <2>3 DEF Grown
<1>8. CASE f = "project"
  <2>1. Harden(f, c) = (IF Structured(c) THEN Insert(c, {"ios15"}) ELSE c)
        /\ HardeningMarks[f] = {"ios15"}
    BY <1>8 DEF Harden, HardeningMarks
  <2>2. "ios15" \notin OtherMarks /\ f \in Fragile
    BY <1>8 DEF OtherMarks, Fragile
  <2>3. CASE Structured(c)
    <3>1. Grown(c, Harden(f, c), {"ios15"})
      BY <2>1, <2>2, <2>3, InsertGrows DEF OtherMarks
    <3>2. QED
      BY <1>8, <2>1, <2>2, <3>1 DEF Grown
  <2>4. CASE ~ Structured(c)
    BY <1>8, <2>1, <2>2, <2>4
  <2>5. QED
    BY <2>3, <2>4
<1>9. QED
  BY <1>1, <1>2, <1>3, <1>4, <1>5, <1>6, <1>7, <1>8 DEF FilesFor

LEMMA PatchIs ==
  ASSUME NEW c, Once(c), NEW tool \in Tools \cup {"signing"}, NEW f \in FilesFor(tool)
  PROVE  Once(Patch(tool, f, c))
<1>1. \A marks : Once(Insert(c, marks)) /\ Once(Marked(marks))
  BY InsertIs, MarkedIs
<1>2. CASE tool = "hardening"
  BY <1>2, HardenIs DEF Patch
<1>3. CASE tool = "v49"
  BY <1>1, <1>3 DEF Patch, AddDeviceLock
<1>4. CASE tool = "branding"
  BY <1>1, <1>4 DEF Patch, Brand
<1>5. CASE tool = "splash"
  BY <1>1, <1>5 DEF Patch, Splash, FilesFor
<1>6. CASE tool = "icon"
  BY <1>1, <1>6 DEF Patch, Icon
<1>7. CASE tool = "signing"
  BY <1>7, SignIs DEF Patch
<1>8. QED
  BY <1>2, <1>3, <1>4, <1>5, <1>6, <1>7 DEF Tools

(* A shell in which no file has a text twice.                              *)
Clean(sh) == DOMAIN sh = Files /\ \A f \in Files : Once(sh[f])

LEMMA FilesAre ==
  ASSUME NEW tool \in Tools \cup {"signing"}
  PROVE  FilesFor(tool) \subseteq Files
BY DEF FilesFor, Files, AndroidFiles, IosFiles, Tools

LEMMA PatchedClean ==
  ASSUME NEW sh, Clean(sh), NEW tool \in Tools \cup {"signing"}, NEW f \in FilesFor(tool)
  PROVE  /\ Clean(Patched(tool, f, sh))
         /\ Patched(tool, f, sh)[f] = (IF Reaches(tool, f, sh) THEN Patch(tool, f, sh[f]) ELSE sh[f])
         /\ \A g \in Files \ {f} : Patched(tool, f, sh)[g] = sh[g]
<1>1. f \in Files /\ Once(sh[f])
  BY FilesAre DEF Clean
<1>2. Once(Patch(tool, f, sh[f]))
  BY <1>1, PatchIs
<1>3. QED
  BY <1>1, <1>2 DEF Patched, Clean

-----------------------------------------------------------------------------
(* Scripts as sequences of steps.                                          *)

Mentions(s, Y) == \E n \in DOMAIN s : s[n] \in Y

(* Before each step of Y there is one of X.                                *)
Led(s, X, Y) == \A n \in DOMAIN s : s[n] \in Y => \E m \in 1 .. n - 1 : s[m] \in X

(* After a step of X there is none of Y.                                   *)
NoneAfter(s, X, Y) ==
  \A n \in DOMAIN s, m \in DOMAIN s : n < m /\ s[n] \in X => s[m] \notin Y

LEMMA TailIs ==
  ASSUME NEW S, NEW s \in Seq(S), s # <<>>
  PROVE  /\ Tail(s) \in Seq(S) /\ Head(s) \in S
         /\ Len(s) \in Nat \ {0} /\ (Len(s) = 1 <=> Tail(s) = <<>>)
         /\ \A Y : Mentions(Tail(s), Y) => Mentions(s, Y)
         /\ \A Y : Head(s) \in Y => Mentions(s, Y)
         /\ \A X, Y : Led(s, X, Y) =>
              Head(s) \notin Y /\ (Head(s) \notin X => Led(Tail(s), X, Y))
         /\ \A X, Y : NoneAfter(s, X, Y) =>
              NoneAfter(Tail(s), X, Y) /\ (Head(s) \in X => ~ Mentions(Tail(s), Y))
<1> DEFINE t == Tail(s)
<1>1. /\ Len(s) \in Nat \ {0} /\ DOMAIN s = 1 .. Len(s) /\ Head(s) = s[1]
      /\ t \in Seq(S) /\ Head(s) \in S
      /\ Len(t) = Len(s) - 1 /\ DOMAIN t = 1 .. Len(s) - 1
      /\ \A n \in 1 .. Len(s) - 1 : t[n] = s[n + 1]
  OBVIOUS
<1>2. Len(s) = 1 <=> t = <<>>
  <2>1. t = <<>> <=> Len(t) = 0
    BY <1>1, EmptySeq, LenProperties
  <2>2. QED
    BY <1>1, <2>1
<1> HIDE DEF t
<1>3. \A Y : Mentions(t, Y) => Mentions(s, Y)
  <2>1. \A n \in DOMAIN t : n + 1 \in DOMAIN s /\ t[n] = s[n + 1]
    BY <1>1
  <2>2. QED
    BY <2>1 DEF Mentions
<1>4. \A Y : Head(s) \in Y => Mentions(s, Y)
  BY <1>1 DEF Mentions
<1>5. ASSUME NEW X, NEW Y, Led(s, X, Y)
      PROVE  Head(s) \notin Y /\ (Head(s) \notin X => Led(t, X, Y))
  <2>1. Head(s) \notin Y
    BY <1>1, <1>5 DEF Led
  <2>2. ASSUME Head(s) \notin X, NEW n \in DOMAIN t, t[n] \in Y
        PROVE  \E m \in 1 .. n - 1 : t[m] \in X
    <3>1. n + 1 \in DOMAIN s /\ s[n + 1] \in Y
      BY <1>1, <2>2
    <3>2. PICK m \in 1 .. n : s[m] \in X
      BY <1>1, <1>5, <3>1 DEF Led
    <3>3. m # 1
      BY <1>1, <2>2, <3>2
    <3>4. m - 1 \in 1 .. n - 1 /\ m - 1 \in 1 .. Len(s) - 1 /\ t[m - 1] = s[m]
      BY <1>1, <2>2, <3>2, <3>3
    <3>5. QED
      BY <3>2, <3>4
  <2>3. QED
    BY <2>1, <2>2 DEF Led
<1>6. ASSUME NEW X, NEW Y, NoneAfter(s, X, Y)
      PROVE  NoneAfter(t, X, Y) /\ (Head(s) \in X => ~ Mentions(t, Y))
  <2>1. \A n \in DOMAIN t : n + 1 \in DOMAIN s /\ t[n] = s[n + 1]
    BY <1>1
  <2>2. NoneAfter(t, X, Y)
    BY <1>1, <1>6, <2>1 DEF NoneAfter
  <2>3. Head(s) \in X => ~ Mentions(t, Y)
    BY <1>1, <1>6, <2>1 DEF NoneAfter, Mentions
  <2>4. QED
    BY <2>2, <2>3
<1>7. QED
  BY <1>1, <1>2, <1>3, <1>4, <1>5, <1>6 DEF t

LEMMA ConcatIs ==
  ASSUME NEW S, NEW s \in Seq(S), NEW t \in Seq(S)
  PROVE  /\ s \o t \in Seq(S)
         /\ \A Y : Mentions(s, Y) => Mentions(s \o t, Y)
         /\ \A Y : Mentions(s \o t, Y) => Mentions(s, Y) \/ Mentions(t, Y)
         /\ \A X, Y : Led(s, X, Y) /\ (Led(t, X, Y) \/ Mentions(s, X)) => Led(s \o t, X, Y)
         /\ \A X, Y : /\ NoneAfter(s, X, Y) /\ NoneAfter(t, X, Y)
                      /\ ~ (Mentions(s, X) /\ Mentions(t, Y))
                      => NoneAfter(s \o t, X, Y)
<1> DEFINE u == s \o t
<1>1. /\ u \in Seq(S) /\ Len(s) \in Nat /\ Len(t) \in Nat
      /\ DOMAIN s = 1 .. Len(s) /\ DOMAIN t = 1 .. Len(t)
      /\ DOMAIN u = 1 .. Len(s) + Len(t)
      /\ \A n \in 1 .. Len(s) : u[n] = s[n]
      /\ \A n \in 1 .. Len(t) : u[n + Len(s)] = t[n]
  OBVIOUS
<1> HIDE DEF u
<1>2. \A n \in DOMAIN u : \/ n \in DOMAIN s /\ u[n] = s[n]
                          \/ n - Len(s) \in DOMAIN t /\ u[n] = t[n - Len(s)] /\ n > Len(s)
  <2>1. \A n \in DOMAIN u : n \notin DOMAIN s => n - Len(s) \in 1 .. Len(t) /\ n = (n - Len(s)) + Len(s)
    BY <1>1
  <2>2. QED
    BY <1>1, <2>1
<1>3. \A Y : Mentions(s, Y) => Mentions(u, Y)
  BY <1>1 DEF Mentions
<1>4. \A Y : Mentions(u, Y) => Mentions(s, Y) \/ Mentions(t, Y)
  BY <1>2 DEF Mentions
<1>5. ASSUME NEW X, NEW Y, Led(s, X, Y), Led(t, X, Y) \/ Mentions(s, X)
      PROVE  Led(u, X, Y)
  <2>1. SUFFICES ASSUME NEW n \in DOMAIN u, u[n] \in Y
                 PROVE  \E m \in 1 .. n - 1 : u[m] \in X
    BY DEF Led
  <2>2. CASE n \in DOMAIN s
    <3>1. PICK m \in 1 .. n - 1 : s[m] \in X
      BY <1>1, <1>5, <2>1, <2>2 DEF Led
    <3>2. m \in 1 .. Len(s)
      BY <1>1, <2>2
    <3>3. QED
      BY <1>1, <3>1, <3>2
  <2>3. CASE n \notin DOMAIN s
    <3>1. n - Len(s) \in DOMAIN t /\ t[n - Len(s)] \in Y /\ n > Len(s)
      BY <1>2, <2>1, <2>3
    <3>2. CASE Mentions(s, X)
      <4>1. PICK m \in DOMAIN s : s[m] \in X
        BY <3>2 DEF Mentions
      <4>2. m \in 1 .. n - 1 /\ u[m] \in X
        BY <1>1, <3>1, <4>1
      <4>3. QED
        BY <4>2
    <3>3. CASE Led(t, X, Y)
      <4>1. PICK m \in 1 .. (n - Len(s)) - 1 : t[m] \in X
        BY <3>1, <3>3 DEF Led
      <4>2. m + Len(s) \in 1 .. n - 1 /\ m \in 1 .. Len(t)
        BY <1>1, <3>1, <4>1
      <4>3. u[m + Len(s)] \in X
        BY <1>1, <4>1, <4>2
      <4>4. QED
        BY <4>2, <4>3
    <3>4. QED
      BY <1>5, <3>2, <3>3
  <2>4. QED
    BY <2>2, <2>3
<1>6. ASSUME NEW X, NEW Y, NoneAfter(s, X, Y), NoneAfter(t, X, Y),
             ~ (Mentions(s, X) /\ Mentions(t, Y))
      PROVE  NoneAfter(u, X, Y)
  <2>1. SUFFICES ASSUME NEW n \in DOMAIN u, NEW m \in DOMAIN u, n < m, u[n] \in X, u[m] \in Y
                 PROVE  FALSE
    BY DEF NoneAfter
  <2>2. n \in Nat /\ m \in Nat
    BY <1>1
  <2>3. CASE n \in DOMAIN s /\ m \in DOMAIN s
    BY <1>1, <1>6, <2>1, <2>3 DEF NoneAfter
  <2>4. CASE n \in DOMAIN s /\ m \notin DOMAIN s
    BY <1>1, <1>2, <1>6, <2>1, <2>4 DEF Mentions
  <2>5. CASE n \notin DOMAIN s
    <3>1. m \notin DOMAIN s
      BY <1>1, <2>1, <2>5
    <3>2. /\ n - Len(s) \in DOMAIN t /\ t[n - Len(s)] \in X
          /\ m - Len(s) \in DOMAIN t /\ t[m - Len(s)] \in Y
      BY <1>2, <2>1, <2>5, <3>1
    <3>3. n - Len(s) < m - Len(s)
      BY <1>1, <2>1, <2>2
    <3>4. QED
      BY <1>6, <3>2, <3>3 DEF NoneAfter
  <2>6. QED
    BY <2>3, <2>4, <2>5
<1>7. QED
  BY <1>1, <1>3, <1>4, <1>5, <1>6 DEF u

LEMMA ToolIs ==
  ASSUME NEW tool, NEW A, NEW files \in Seq(A)
  PROVE  /\ Tool(tool, files) \in Seq({tool} \X A)
         /\ DOMAIN Tool(tool, files) = DOMAIN files
         /\ \A n \in DOMAIN files : Tool(tool, files)[n] = <<tool, files[n]>>
<1>1. Len(files) \in Nat /\ DOMAIN files = 1 .. Len(files)
      /\ \A n \in 1 .. Len(files) : files[n] \in A
  OBVIOUS
<1>2. Tool(tool, files) \in [1 .. Len(files) -> {tool} \X A]
  BY <1>1 DEF Tool
<1>3. Tool(tool, files) \in Seq({tool} \X A)
  BY <1>1, <1>2, SeqDef
<1>4. QED
  BY <1>1, <1>3 DEF Tool

-----------------------------------------------------------------------------
(* The steps scripts are made of.                                          *)

SdkOps == {"sdkRemove", "sdkFetch", "sdkMove"}

ArgsOf(op) ==
  CASE op = "preflight" -> {"bootstrap", "android", "ios", "all"}
    [] op = "copy" -> {"android", "ios"}
    [] op \in Tools -> FilesFor(op)
    [] op = "signing" -> {"verify", "gradle"}
    [] op = "build" -> Paths
    [] op = "capture" -> Kinds
    [] op \in SdkOps -> Archives
    [] OTHER -> {"shells", "run", "resolve", "enforce", "sourcePass", "check"}

GateOps == {"preflight", "hardening", "v49", "pubGet", "audits", "tests", "build", "capture",
            "iosContract", "signing", "report"}
FreeOps == {"preflight", "remove", "copy", "hardening", "v49", "branding", "splash", "icon",
            "pubGet", "audits", "tests", "signing", "report", "manifest"} \cup SdkOps

StepsOf(ops) == UNION {{op} \X ArgsOf(op) : op \in ops}
GateSteps == StepsOf(GateOps) \ {<<"signing", "gradle">>}
FreeSteps == StepsOf(FreeOps)
Steps == GateSteps \cup FreeSteps

LEMMA ArgsAre ==
  /\ ArgsOf("preflight") = {"bootstrap", "android", "ios", "all"}
  /\ ArgsOf("copy") = {"android", "ios"}
  /\ \A tool \in Tools : ArgsOf(tool) = FilesFor(tool)
  /\ ArgsOf("signing") = {"verify", "gradle"}
  /\ ArgsOf("build") = Paths /\ ArgsOf("capture") = Kinds
  /\ \A op \in SdkOps : ArgsOf(op) = Archives
  /\ \A op \in {"remove", "audits", "pubGet", "tests", "report", "iosContract", "manifest"} :
       ArgsOf(op) = {"shells", "run", "resolve", "enforce", "sourcePass", "check"}
<1>1. \A tool \in Tools : ArgsOf(tool) = FilesFor(tool)
  BY DEF ArgsOf, Tools, SdkOps
<1>2. \A op \in SdkOps : ArgsOf(op) = Archives
  BY DEF ArgsOf, Tools, SdkOps
<1>3. \A op \in {"remove", "audits", "pubGet", "tests", "report", "iosContract", "manifest"} :
         ArgsOf(op) = {"shells", "run", "resolve", "enforce", "sourcePass", "check"}
  BY DEF ArgsOf, Tools, SdkOps
<1>4. /\ ArgsOf("preflight") = {"bootstrap", "android", "ios", "all"}
      /\ ArgsOf("copy") = {"android", "ios"}
      /\ ArgsOf("signing") = {"verify", "gradle"}
      /\ ArgsOf("build") = Paths /\ ArgsOf("capture") = Kinds
  BY DEF ArgsOf, Tools, SdkOps
<1>5. QED
  BY <1>1, <1>2, <1>3, <1>4

LEMMA StepIs ==
  ASSUME NEW ops, NEW s \in StepsOf(ops)
  PROVE  s[1] \in ops /\ s[2] \in ArgsOf(s[1]) /\ s = <<s[1], s[2]>>
BY DEF StepsOf

LEMMA StepIn ==
  ASSUME NEW ops, NEW op \in ops, NEW arg \in ArgsOf(op)
  PROVE  <<op, arg>> \in StepsOf(ops)
BY DEF StepsOf

LEMMA GateStepIs ==
  ASSUME NEW s \in GateSteps
  PROVE  s[1] \in GateOps /\ s[2] \in ArgsOf(s[1]) /\ s = <<s[1], s[2]>> /\ s # <<"signing", "gradle">>
BY StepIs DEF GateSteps

LEMMA FreeStepIs ==
  ASSUME NEW s \in FreeSteps
  PROVE  s[1] \in FreeOps /\ s[2] \in ArgsOf(s[1]) /\ s = <<s[1], s[2]>>
BY StepIs DEF FreeSteps

LEMMA GateStepIn ==
  ASSUME NEW op \in GateOps, NEW arg \in ArgsOf(op), op # "signing" \/ arg # "gradle"
  PROVE  <<op, arg>> \in GateSteps
<1>1. <<op, arg>> \in StepsOf(GateOps)
  BY StepIn
<1>2. <<op, arg>> # <<"signing", "gradle">>
  OBVIOUS
<1>3. QED
  BY <1>1, <1>2 DEF GateSteps

LEMMA FreeStepIn ==
  ASSUME NEW op \in FreeOps, NEW arg \in ArgsOf(op)
  PROVE  <<op, arg>> \in FreeSteps
BY StepIn DEF FreeSteps

(* The lists of files of the tools.                                        *)
LEMMA FileListsAre ==
  /\ HardeningFiles \in Seq(FilesFor("hardening"))
  /\ BrandingFiles \in Seq(FilesFor("branding"))
  /\ SplashFiles \in Seq(FilesFor("splash"))
  /\ IconFiles \in Seq(FilesFor("icon"))
  /\ \A f \in FilesFor("hardening") : \E n \in DOMAIN HardeningFiles : HardeningFiles[n] = f
  /\ \A f \in FilesFor("branding") : \E n \in DOMAIN BrandingFiles : BrandingFiles[n] = f
  /\ \A f \in FilesFor("splash") : \E n \in DOMAIN SplashFiles : SplashFiles[n] = f
<1>1. /\ FilesFor("hardening") = {"manifest", "rules", "gradle", "activity", "styles", "v31",
                                  "plist", "project"}
      /\ FilesFor("branding") = {"manifest", "plist"}
      /\ FilesFor("splash") = {"drawables", "styles", "v31", "launchScreen"}
      /\ FilesFor("icon") = {"launcher", "appIcon"}
  BY DEF FilesFor
<1>2. HardeningFiles \in Seq(FilesFor("hardening"))
  BY <1>1 DEF HardeningFiles
<1>3. BrandingFiles \in Seq(FilesFor("branding")) /\ IconFiles \in Seq(FilesFor("icon"))
  BY <1>1 DEF BrandingFiles, IconFiles
<1>4. SplashFiles \in Seq(FilesFor("splash"))
  BY <1>1 DEF SplashFiles
<1>5. \A f \in FilesFor("hardening") : \E n \in DOMAIN HardeningFiles : HardeningFiles[n] = f
  <2>1. DOMAIN HardeningFiles = 1 .. 8
    BY DEF HardeningFiles
  <2>2. /\ HardeningFiles[1] = "manifest" /\ HardeningFiles[2] = "rules"
        /\ HardeningFiles[3] = "gradle" /\ HardeningFiles[4] = "activity"
        /\ HardeningFiles[5] = "styles" /\ HardeningFiles[6] = "v31"
        /\ HardeningFiles[7] = "plist" /\ HardeningFiles[8] = "project"
    BY DEF HardeningFiles
  <2>3. {1, 2, 3, 4, 5, 6, 7, 8} \subseteq DOMAIN HardeningFiles
    BY <2>1
  <2>4. QED
    BY <1>1, <2>2, <2>3
<1>6. \A f \in FilesFor("branding") : \E n \in DOMAIN BrandingFiles : BrandingFiles[n] = f
  <2>1. {1, 2} \subseteq DOMAIN BrandingFiles /\ BrandingFiles[1] = "manifest"
        /\ BrandingFiles[2] = "plist"
    BY DEF BrandingFiles
  <2>2. QED
    BY <1>1, <2>1
<1>7. \A f \in FilesFor("splash") : \E n \in DOMAIN SplashFiles : SplashFiles[n] = f
  <2>1. {1, 2, 3, 4} \subseteq DOMAIN SplashFiles
        /\ SplashFiles[1] = "drawables" /\ SplashFiles[2] = "styles"
        /\ SplashFiles[3] = "v31" /\ SplashFiles[4] = "launchScreen"
    BY DEF SplashFiles
  <2>2. QED
    BY <1>1, <2>1
<1>8. QED
  BY <1>2, <1>3, <1>4, <1>5, <1>6, <1>7

(* The steps of a tool: all of its files and nothing else.                 *)
LEMMA ToolStepsAre ==
  ASSUME NEW tool \in {"hardening", "branding", "splash", "icon"},
         NEW files \in Seq(FilesFor(tool))
  PROVE  /\ Tool(tool, files) \in Seq(FreeSteps)
         /\ tool = "hardening" => Tool(tool, files) \in Seq(GateSteps)
         /\ \A n \in DOMAIN Tool(tool, files) :
              Tool(tool, files)[n] = <<tool, Tool(tool, files)[n][2]>>
         /\ \A f : (\E n \in DOMAIN files : files[n] = f) =>
                   Mentions(Tool(tool, files), {<<tool, f>>})
<1>2. /\ Tool(tool, files) \in Seq({tool} \X FilesFor(tool))
      /\ DOMAIN Tool(tool, files) = DOMAIN files
      /\ \A n \in DOMAIN files : Tool(tool, files)[n] = <<tool, files[n]>>
  BY ToolIs
<1>3. tool \in FreeOps /\ tool \in Tools /\ (tool = "hardening" => tool \in GateOps)
  BY DEF FreeOps, Tools, GateOps
<1>4. ArgsOf(tool) = FilesFor(tool)
  BY <1>3, ArgsAre
<1>5. {tool} \X FilesFor(tool) \subseteq FreeSteps
  BY <1>3, <1>4, FreeStepIn
<1>6. tool = "hardening" => {tool} \X FilesFor(tool) \subseteq GateSteps
  BY <1>3, <1>4, GateStepIn
<1>7. Tool(tool, files) \in Seq(FreeSteps)
      /\ (tool = "hardening" => Tool(tool, files) \in Seq(GateSteps))
  BY <1>2, <1>5, <1>6, SeqMonotonic
<1>8. \A n \in DOMAIN Tool(tool, files) : Tool(tool, files)[n] = <<tool, Tool(tool, files)[n][2]>>
  BY <1>2
<1>9. ASSUME NEW n \in DOMAIN files
      PROVE  Mentions(Tool(tool, files), {<<tool, files[n]>>})
  <2>1. n \in DOMAIN Tool(tool, files) /\ Tool(tool, files)[n] = <<tool, files[n]>>
    BY <1>2, <1>9
  <2> HIDE <1>2
  <2>2. QED
    BY <2>1 DEF Mentions
<1>10. QED
  BY <1>7, <1>8, <1>9

-----------------------------------------------------------------------------
(* The order of the steps in each script.                                  *)

CopySteps == {"copy"} \X {"android", "ios"}
BrandSteps == ({"branding"} \X FilesFor("branding")) \cup ({"splash"} \X FilesFor("splash"))
IconSteps == {"icon"} \X FilesFor("icon")
Preflights == {"preflight"} \X {"bootstrap", "android", "ios", "all"}
AuditSteps == {<<"audits", "run">>}
Builds == {"build"} \X Paths
Captures == {"capture"} \X Kinds
Replacing == SdkOps \X {"replaced"}

OpsIn(s, ops) == \A n \in DOMAIN s : s[n][1] \in ops

GateShape(g) ==
  /\ g \in Seq(GateSteps) /\ g # <<>>
  /\ Led(g, Preflights, Captures)
  /\ \A f \in FilesFor("hardening") : Led(g, {<<"hardening", f>>}, Builds)
  /\ Led(g, AuditSteps, Builds)
  /\ \A k \in Kinds : Led(g, {<<"build", PathOf(k)>>}, {<<"capture", k>>})

FreeShape(s) ==
  /\ s \in Seq(FreeSteps)
  /\ Led(s, {<<"remove", "shells">>}, CopySteps \cup BrandSteps)
  /\ NoneAfter(s, BrandSteps, CopySteps)
  /\ NoneAfter(s, IconSteps, CopySteps \cup BrandSteps)
  /\ \A b \in BrandSteps : Led(s, {b}, IconSteps)
  /\ ~ Mentions(s, Replacing)

LEMMA NotMentioned ==
  ASSUME NEW s, NEW Y, ~ Mentions(s, Y)
  PROVE  /\ \A X : Led(s, X, Y) /\ NoneAfter(s, X, Y) /\ NoneAfter(s, Y, X)
         /\ \A Z \in SUBSET Y : ~ Mentions(s, Z) /\ \A X : Led(s, X, Z)
BY DEF Mentions, Led, NoneAfter

LEMMA OtherOps ==
  ASSUME NEW s, NEW ops, OpsIn(s, ops), NEW Y, \A y \in Y : y[1] \notin ops
  PROVE  ~ Mentions(s, Y)
BY DEF Mentions, OpsIn

LEMMA ConcatOps ==
  ASSUME NEW S, NEW s \in Seq(S), NEW t \in Seq(S), NEW ops, OpsIn(s, ops), OpsIn(t, ops)
  PROVE  OpsIn(s \o t, ops)
<1>1. \A n \in DOMAIN (s \o t) : \/ n \in DOMAIN s /\ (s \o t)[n] = s[n]
                                 \/ n - Len(s) \in DOMAIN t /\ (s \o t)[n] = t[n - Len(s)]
  OBVIOUS
<1>2. QED
  BY <1>1 DEF OpsIn

LEMMA MentionsLater ==
  ASSUME NEW S, NEW s \in Seq(S), NEW t \in Seq(S), NEW Y, Mentions(t, Y)
  PROVE  Mentions(s \o t, Y)
<1>1. \A n \in DOMAIN t : n + Len(s) \in DOMAIN (s \o t) /\ (s \o t)[n + Len(s)] = t[n]
  OBVIOUS
<1>2. QED
  BY <1>1 DEF Mentions

LEMMA StepSets ==
  /\ \A b \in BrandSteps : b[1] \in {"branding", "splash"}
  /\ \A b \in CopySteps : b[1] = "copy"
  /\ \A b \in IconSteps : b[1] = "icon"
  /\ \A b \in Builds : b[1] = "build"
  /\ \A b \in Captures : b[1] = "capture"
  /\ \A b \in Replacing : b[1] \in {"sdkRemove", "sdkFetch", "sdkMove"}
BY DEF Replacing, SdkOps, BrandSteps, CopySteps, IconSteps, Builds, Captures

(* A gate copies and brands nothing; the other scripts build nothing.      *)
LEMMA GatesOnlyGate ==
  ASSUME NEW s \in Seq(GateSteps)
  PROVE  ~ Mentions(s, CopySteps \cup BrandSteps \cup IconSteps \cup Replacing)
<1>1. OpsIn(s, GateOps)
  <2>1. \A n \in DOMAIN s : s[n] \in GateSteps
    OBVIOUS
  <2>2. QED
    BY <2>1, GateStepIs DEF OpsIn
<1>2. \A y \in CopySteps \cup BrandSteps \cup IconSteps \cup Replacing : y[1] \notin GateOps
  BY StepSets DEF GateOps
<1>3. QED
  BY <1>1, <1>2, OtherOps

LEMMA FreeScriptsBuildNothing ==
  ASSUME NEW s \in Seq(FreeSteps)
  PROVE  ~ Mentions(s, Builds \cup Captures)
<1>1. OpsIn(s, FreeOps)
  <2>1. \A n \in DOMAIN s : s[n] \in FreeSteps
    OBVIOUS
  <2>2. QED
    BY <2>1, FreeStepIs DEF OpsIn
<1>2. \A y \in Builds \cup Captures : y[1] \notin FreeOps
  BY StepSets DEF FreeOps, SdkOps
<1>3. QED
  BY <1>1, <1>2, OtherOps

LEMMA NotEmpty ==
  ASSUME NEW s, NEW Y, Mentions(s, Y)
  PROVE  s # <<>>
BY DEF Mentions

PreludeOps == {"preflight", "hardening", "v49", "pubGet", "audits", "tests"}

LEMMA GateHasShape ==
  ASSUME NEW p \in Seq(GateSteps), NEW a \in Seq(GateSteps), NEW i \in Seq(GateSteps),
         NEW r \in Seq(GateSteps), OpsIn(p, PreludeOps), OpsIn(r, {"report"}),
         Mentions(p, Preflights), Mentions(p, AuditSteps),
         \A f \in FilesFor("hardening") : Mentions(p, {<<"hardening", f>>}),
         \A k \in Kinds : /\ Led(a, {<<"build", PathOf(k)>>}, {<<"capture", k>>})
                          /\ Led(i, {<<"build", PathOf(k)>>}, {<<"capture", k>>})
  PROVE  GateShape(p \o a \o i \o r)
<1>1. p \o a \in Seq(GateSteps) /\ p \o a \o i \in Seq(GateSteps)
      /\ p \o a \o i \o r \in Seq(GateSteps)
  BY ConcatProperties
<1>2. ~ Mentions(p, Builds) /\ ~ Mentions(p, Captures)
  <2>1. (\A y \in Builds : y[1] \notin PreludeOps) /\ \A y \in Captures : y[1] \notin PreludeOps
    BY StepSets DEF PreludeOps
  <2>2. QED
    BY <2>1, OtherOps
<1>3. ASSUME NEW X, NEW Y, Mentions(p, X), ~ Mentions(p, Y)
      PROVE  Led(p \o a \o i \o r, X, Y) /\ p \o a \o i \o r # <<>>
  <2>1. Led(p, X, Y)
    BY <1>3, NotMentioned
  <2>2. Led(p \o a, X, Y) /\ Mentions(p \o a, X)
    BY <1>3, <2>1, ConcatIs
  <2>3. Led(p \o a \o i, X, Y) /\ Mentions(p \o a \o i, X)
    BY <1>1, <2>2, ConcatIs
  <2>4. Led(p \o a \o i \o r, X, Y) /\ Mentions(p \o a \o i \o r, X)
    BY <1>1, <2>3, ConcatIs
  <2>5. QED
    BY <2>4, NotEmpty
<1>4. ASSUME NEW k \in Kinds
      PROVE  Led(p \o a \o i \o r, {<<"build", PathOf(k)>>}, {<<"capture", k>>})
  <2> DEFINE X == {<<"build", PathOf(k)>>}
             Y == {<<"capture", k>>}
  <2>1. Y \in SUBSET Captures
    BY DEF Captures
  <2>2. ~ Mentions(r, Y)
    BY <2>1, OtherOps, StepSets
  <2>3. Led(p, X, Y) /\ Led(a, X, Y) /\ Led(i, X, Y) /\ Led(r, X, Y)
    BY <1>2, <2>1, <2>2, NotMentioned
  <2> HIDE DEF X, Y
  <2>4. Led(p \o a, X, Y)
    BY <2>3, ConcatIs
  <2>5. Led(p \o a \o i, X, Y)
    BY <1>1, <2>3, <2>4, ConcatIs
  <2>6. Led(p \o a \o i \o r, X, Y)
    BY <1>1, <2>3, <2>5, ConcatIs
  <2>7. QED
    BY <2>6 DEF X, Y
<1>5. QED
  BY <1>1, <1>2, <1>3, <1>4 DEF GateShape

LEMMA HardeningSteps ==
  /\ HardenSteps \in Seq(FreeSteps) /\ HardenSteps \in Seq(GateSteps)
  /\ OpsIn(HardenSteps, {"hardening"})
  /\ \A f \in FilesFor("hardening") : Mentions(HardenSteps, {<<"hardening", f>>})
<1>1. HardeningFiles \in Seq(FilesFor("hardening"))
      /\ \A f \in FilesFor("hardening") : \E n \in DOMAIN HardeningFiles : HardeningFiles[n] = f
  BY FileListsAre
<1>2. HardenSteps = Tool("hardening", HardeningFiles)
  BY DEF HardenSteps
<1>3. /\ HardenSteps \in Seq(FreeSteps) /\ HardenSteps \in Seq(GateSteps)
      /\ \A n \in DOMAIN HardenSteps : HardenSteps[n] = <<"hardening", HardenSteps[n][2]>>
      /\ \A f : (\E n \in DOMAIN HardeningFiles : HardeningFiles[n] = f) =>
                Mentions(HardenSteps, {<<"hardening", f>>})
  BY <1>1, <1>2, ToolStepsAre
<1>4. OpsIn(HardenSteps, {"hardening"})
  BY <1>3 DEF OpsIn
<1>5. QED
  BY <1>1, <1>3, <1>4

(* The steps a gate takes before it builds.                                *)
LEMMA GatePieces ==
  ASSUME NEW mode \in {"android", "ios", "all"}
  PROVE  /\ <<<<"preflight", mode>>>> \in Seq(GateSteps)
         /\ OpsIn(<<<<"preflight", mode>>>>, {"preflight"})
         /\ Mentions(<<<<"preflight", mode>>>>, Preflights)
         /\ <<<<"v49", "activity">>>> \in Seq(GateSteps)
         /\ OpsIn(<<<<"v49", "activity">>>>, {"v49"})
         /\ LET checks == <<<<"pubGet", "enforce">>, <<"audits", "run">>, <<"tests", "run">>>> IN
            /\ checks \in Seq(GateSteps) /\ OpsIn(checks, PreludeOps)
            /\ Mentions(checks, AuditSteps)
         /\ Reporting \in Seq(GateSteps) /\ OpsIn(Reporting, {"report"})
<1>1. /\ <<"preflight", mode>> \in GateSteps /\ <<"v49", "activity">> \in GateSteps
      /\ <<"pubGet", "enforce">> \in GateSteps /\ <<"audits", "run">> \in GateSteps
      /\ <<"tests", "run">> \in GateSteps /\ <<"report", "sourcePass">> \in GateSteps
  <2>1. /\ mode \in ArgsOf("preflight") /\ "activity" \in ArgsOf("v49")
        /\ "enforce" \in ArgsOf("pubGet") /\ "run" \in ArgsOf("audits")
        /\ "run" \in ArgsOf("tests") /\ "sourcePass" \in ArgsOf("report")
    BY ArgsAre DEF Tools, FilesFor
  <2>2. {"preflight", "v49", "pubGet", "audits", "tests", "report"} \subseteq GateOps
    BY DEF GateOps
  <2>3. QED
    BY <2>1, <2>2, GateStepIn
<1>2. /\ <<<<"preflight", mode>>>> \in Seq(GateSteps)
      /\ OpsIn(<<<<"preflight", mode>>>>, {"preflight"})
  BY <1>1 DEF OpsIn
<1>3. Mentions(<<<<"preflight", mode>>>>, Preflights)
  <2>1. <<"preflight", mode>> \in Preflights
    BY DEF Preflights
  <2>2. QED
    BY <2>1 DEF Mentions
<1>4. <<<<"v49", "activity">>>> \in Seq(GateSteps) /\ OpsIn(<<<<"v49", "activity">>>>, {"v49"})
  BY <1>1 DEF OpsIn
<1>5. Reporting \in Seq(GateSteps) /\ OpsIn(Reporting, {"report"})
  BY <1>1 DEF OpsIn, Reporting
<1> DEFINE checks == <<<<"pubGet", "enforce">>, <<"audits", "run">>, <<"tests", "run">>>>
<1>6. checks \in Seq(GateSteps)
  BY <1>1
<1>7. OpsIn(checks, PreludeOps) /\ Mentions(checks, AuditSteps)
  <2>1. DOMAIN checks = 1 .. 3 /\ checks[1][1] = "pubGet" /\ checks[2] = <<"audits", "run">>
        /\ checks[2][1] = "audits" /\ checks[3][1] = "tests"
    OBVIOUS
  <2> HIDE DEF checks
  <2>2. OpsIn(checks, PreludeOps)
    BY <2>1 DEF OpsIn, PreludeOps
  <2>3. Mentions(checks, AuditSteps)
    BY <2>1 DEF Mentions, AuditSteps
  <2>4. QED
    BY <2>2, <2>3
<1>8. QED
  BY <1>2, <1>3, <1>4, <1>5, <1>6, <1>7

LEMMA ConcatPrelude ==
  ASSUME NEW s \in Seq(GateSteps), NEW t \in Seq(GateSteps),
         OpsIn(s, PreludeOps), OpsIn(t, PreludeOps)
  PROVE  /\ s \o t \in Seq(GateSteps) /\ OpsIn(s \o t, PreludeOps)
         /\ \A Y : Mentions(s, Y) \/ Mentions(t, Y) => Mentions(s \o t, Y)
<1>1. \A n \in DOMAIN t : n + Len(s) \in DOMAIN (s \o t) /\ (s \o t)[n + Len(s)] = t[n]
  OBVIOUS
<1>2. \A Y : Mentions(t, Y) => Mentions(s \o t, Y)
  BY <1>1 DEF Mentions
<1>3. QED
  BY <1>2, ConcatIs, ConcatOps

LEMMA WiderOps ==
  ASSUME NEW s, NEW ops, NEW more, ops \subseteq more, OpsIn(s, ops)
  PROVE  OpsIn(s, more)
BY DEF OpsIn

(* The builds of a gate, each with its evidence after it.                  *)
LEMMA NoPiece ==
  /\ <<>> \in Seq(GateSteps) /\ \A X, Y : Led(<<>>, X, Y)
  /\ \A Y : ~ Mentions(<<>>, Y)
BY DEF Led, Mentions

PieceIs(s) ==
  /\ s \in Seq(GateSteps)
  /\ \A k \in Kinds : Led(s, {<<"build", PathOf(k)>>}, {<<"capture", k>>})

LEMMA BuildPieces ==
  /\ PieceIs(<<<<"build", "aab">>, <<"capture", "android-compile">>>>)
  /\ PieceIs(<<<<"build", "app">>, <<"iosContract", "check">>, <<"capture", "ios-compile">>>>)
  /\ PieceIs(<<<<"signing", "verify">>, <<"build", "aab">>, <<"capture", "android-release">>>>)
  /\ PieceIs(<<<<"build", "ipa">>, <<"iosContract", "check">>, <<"capture", "ios-release">>>>)
<1>1. /\ \A path \in Paths : <<"build", path>> \in GateSteps
      /\ \A k \in Kinds : <<"capture", k>> \in GateSteps
      /\ <<"iosContract", "check">> \in GateSteps /\ <<"signing", "verify">> \in GateSteps
  <2>1. ArgsOf("build") = Paths /\ ArgsOf("capture") = Kinds
        /\ "check" \in ArgsOf("iosContract") /\ "verify" \in ArgsOf("signing")
    BY ArgsAre
  <2>2. {"build", "capture", "iosContract", "signing"} \subseteq GateOps
    BY DEF GateOps
  <2>3. QED
    BY <2>1, <2>2, GateStepIn
<1>2. {"aab", "app", "ipa"} \subseteq Paths
      /\ {"android-compile", "ios-compile", "android-release", "ios-release"} \subseteq Kinds
  BY DEF Paths, Kinds
<1>3. PieceIs(<<<<"build", "aab">>, <<"capture", "android-compile">>>>)
  <2> DEFINE s == <<<<"build", "aab">>, <<"capture", "android-compile">>>>
  <2>1. /\ s \in Seq(GateSteps) /\ DOMAIN s = 1 .. 2
        /\ s[1] = <<"build", "aab">> /\ s[2] = <<"capture", "android-compile">>
    BY <1>1, <1>2
  <2> HIDE DEF s
  <2>2. ASSUME NEW k \in Kinds
        PROVE  Led(s, {<<"build", PathOf(k)>>}, {<<"capture", k>>})
    BY <2>1, <2>2 DEF Led, PathOf
  <2>3. QED
    BY <2>1, <2>2 DEF PieceIs, s
<1>4. PieceIs(<<<<"build", "app">>, <<"iosContract", "check">>, <<"capture", "ios-compile">>>>)
  <2> DEFINE s == <<<<"build", "app">>, <<"iosContract", "check">>, <<"capture", "ios-compile">>>>
  <2>1. /\ s \in Seq(GateSteps) /\ DOMAIN s = 1 .. 3
        /\ s[1] = <<"build", "app">> /\ s[2] = <<"iosContract", "check">>
        /\ s[3] = <<"capture", "ios-compile">>
    BY <1>1, <1>2
  <2> HIDE DEF s
  <2>2. ASSUME NEW k \in Kinds
        PROVE  Led(s, {<<"build", PathOf(k)>>}, {<<"capture", k>>})
    BY <2>1, <2>2 DEF Led, PathOf
  <2>3. QED
    BY <2>1, <2>2 DEF PieceIs, s
<1>5. PieceIs(<<<<"signing", "verify">>, <<"build", "aab">>, <<"capture", "android-release">>>>)
  <2> DEFINE s == <<<<"signing", "verify">>, <<"build", "aab">>, <<"capture", "android-release">>>>
  <2>1. /\ s \in Seq(GateSteps) /\ DOMAIN s = 1 .. 3
        /\ s[1] = <<"signing", "verify">> /\ s[2] = <<"build", "aab">>
        /\ s[3] = <<"capture", "android-release">>
    BY <1>1, <1>2
  <2> HIDE DEF s
  <2>2. ASSUME NEW k \in Kinds
        PROVE  Led(s, {<<"build", PathOf(k)>>}, {<<"capture", k>>})
    BY <2>1, <2>2 DEF Led, PathOf
  <2>3. QED
    BY <2>1, <2>2 DEF PieceIs, s
<1>6. PieceIs(<<<<"build", "ipa">>, <<"iosContract", "check">>, <<"capture", "ios-release">>>>)
  <2> DEFINE s == <<<<"build", "ipa">>, <<"iosContract", "check">>, <<"capture", "ios-release">>>>
  <2>1. /\ s \in Seq(GateSteps) /\ DOMAIN s = 1 .. 3
        /\ s[1] = <<"build", "ipa">> /\ s[2] = <<"iosContract", "check">>
        /\ s[3] = <<"capture", "ios-release">>
    BY <1>1, <1>2
  <2> HIDE DEF s
  <2>2. ASSUME NEW k \in Kinds
        PROVE  Led(s, {<<"build", PathOf(k)>>}, {<<"capture", k>>})
    BY <2>1, <2>2 DEF Led, PathOf
  <2>3. QED
    BY <2>1, <2>2 DEF PieceIs, s
<1>7. QED
  BY <1>3, <1>4, <1>5, <1>6


LEMMA CompileGateIs ==
  ASSUME NEW mode \in {"android", "ios", "all"}
  PROVE  /\ GateShape(CompileGate(mode))
         /\ ~ Mentions(CompileGate(mode), {<<"capture", "android-release">>})
<1> DEFINE start == <<<<"preflight", mode>>>>
           lifecycle == <<<<"v49", "activity">>>>
           checks == <<<<"pubGet", "enforce">>, <<"audits", "run">>, <<"tests", "run">>>>
           a == IF "android" \in Platforms(mode)
                THEN <<<<"build", "aab">>, <<"capture", "android-compile">>>> ELSE <<>>
           i == IF "ios" \in Platforms(mode)
                THEN <<<<"build", "app">>, <<"iosContract", "check">>, <<"capture", "ios-compile">>>>
                ELSE <<>>
           p == start \o HardenSteps \o lifecycle \o checks
<1>1. /\ start \in Seq(GateSteps) /\ OpsIn(start, PreludeOps) /\ Mentions(start, Preflights)
      /\ lifecycle \in Seq(GateSteps) /\ OpsIn(lifecycle, PreludeOps)
      /\ checks \in Seq(GateSteps) /\ OpsIn(checks, PreludeOps) /\ Mentions(checks, AuditSteps)
      /\ Reporting \in Seq(GateSteps) /\ OpsIn(Reporting, {"report"})
      /\ HardenSteps \in Seq(GateSteps) /\ OpsIn(HardenSteps, PreludeOps)
      /\ \A f \in FilesFor("hardening") : Mentions(HardenSteps, {<<"hardening", f>>})
  <2>1. {"preflight"} \subseteq PreludeOps /\ {"v49"} \subseteq PreludeOps
        /\ {"hardening"} \subseteq PreludeOps
    BY DEF PreludeOps
  <2>2. /\ start \in Seq(GateSteps) /\ OpsIn(start, {"preflight"}) /\ Mentions(start, Preflights)
        /\ lifecycle \in Seq(GateSteps) /\ OpsIn(lifecycle, {"v49"})
        /\ checks \in Seq(GateSteps) /\ OpsIn(checks, PreludeOps) /\ Mentions(checks, AuditSteps)
        /\ Reporting \in Seq(GateSteps) /\ OpsIn(Reporting, {"report"})
    BY GatePieces
  <2>3. /\ HardenSteps \in Seq(GateSteps) /\ OpsIn(HardenSteps, {"hardening"})
        /\ \A f \in FilesFor("hardening") : Mentions(HardenSteps, {<<"hardening", f>>})
    BY HardeningSteps
  <2>4. QED
    BY <2>1, <2>2, <2>3, WiderOps
<1>2. PieceIs(a) /\ PieceIs(i)
  BY BuildPieces, NoPiece DEF PieceIs
<1>3. ~ Mentions(a, {<<"capture", "android-release">>}) /\ ~ Mentions(i, {<<"capture", "android-release">>})
  <2>1. ~ Mentions(<<<<"build", "aab">>, <<"capture", "android-compile">>>>,
                   {<<"capture", "android-release">>})
    BY DEF Mentions
  <2>2. ~ Mentions(<<<<"build", "app">>, <<"iosContract", "check">>, <<"capture", "ios-compile">>>>,
                   {<<"capture", "android-release">>})
    BY DEF Mentions
  <2>3. QED
    BY <2>1, <2>2, NoPiece
<1>4. CompileGate(mode) = p \o a \o i \o Reporting
  BY DEF CompileGate
<1> HIDE DEF start, lifecycle, checks, a, i
<1>5. /\ p \in Seq(GateSteps) /\ OpsIn(p, PreludeOps) /\ Mentions(p, Preflights)
      /\ Mentions(p, AuditSteps)
      /\ \A f \in FilesFor("hardening") : Mentions(p, {<<"hardening", f>>})
  <2>1. /\ start \o HardenSteps \in Seq(GateSteps) /\ OpsIn(start \o HardenSteps, PreludeOps)
        /\ \A Y : Mentions(start, Y) \/ Mentions(HardenSteps, Y)
                  => Mentions(start \o HardenSteps, Y)
    BY <1>1, ConcatPrelude
  <2> DEFINE q == start \o HardenSteps
  <2> HIDE DEF q
  <2>2. /\ q \o lifecycle \in Seq(GateSteps) /\ OpsIn(q \o lifecycle, PreludeOps)
        /\ \A Y : Mentions(q, Y) => Mentions(q \o lifecycle, Y)
    BY <1>1, <2>1, ConcatPrelude DEF q
  <2> DEFINE w == q \o lifecycle
  <2> HIDE DEF w
  <2>3. /\ w \o checks \in Seq(GateSteps) /\ OpsIn(w \o checks, PreludeOps)
        /\ \A Y : Mentions(w, Y) \/ Mentions(checks, Y) => Mentions(w \o checks, Y)
    BY <1>1, <2>2, ConcatPrelude DEF w
  <2>4. p = w \o checks
    BY DEF p, w, q
  <2>5. Mentions(w, Preflights) /\ \A f \in FilesFor("hardening") : Mentions(w, {<<"hardening", f>>})
    BY <1>1, <2>1, <2>2 DEF q, w
  <2>6. QED
    BY <1>1, <2>3, <2>4, <2>5
<1> HIDE DEF p
<1>6. GateShape(p \o a \o i \o Reporting)
  BY <1>1, <1>2, <1>5, GateHasShape DEF PieceIs
<1>7. ~ Mentions(p \o a \o i \o Reporting, {<<"capture", "android-release">>})
  <2> DEFINE Y == {<<"capture", "android-release">>}
  <2>9. ~ Mentions(a, Y) /\ ~ Mentions(i, Y)
    BY <1>3
  <2>0. (\A y \in Y : y[1] \notin PreludeOps) /\ (\A y \in Y : y[1] \notin {"report"})
    BY DEF PreludeOps
  <2> HIDE DEF Y
  <2>1. ~ Mentions(p, Y) /\ ~ Mentions(Reporting, Y)
    BY <1>1, <1>5, <2>0, OtherOps
  <2>2. ~ Mentions(p \o a, Y) /\ p \o a \in Seq(GateSteps)
    BY <1>2, <1>5, <2>1, <2>9, ConcatIs DEF PieceIs
  <2>3. ~ Mentions(p \o a \o i, Y) /\ p \o a \o i \in Seq(GateSteps)
    BY <1>2, <2>2, <2>9, ConcatIs DEF PieceIs
  <2>4. ~ Mentions(p \o a \o i \o Reporting, Y)
    BY <1>1, <2>1, <2>3, ConcatIs
  <2>5. QED
    BY <2>4 DEF Y
<1>8. QED
  BY <1>4, <1>6, <1>7

LEMMA ReleaseGateIs ==
  ASSUME NEW mode \in {"android", "ios", "all"}
  PROVE  /\ GateShape(ReleaseGate(mode))
         /\ Led(ReleaseGate(mode), {<<"signing", "verify">>}, {<<"build", "aab">>})
<1> DEFINE start == <<<<"preflight", mode>>>>
           checks == <<<<"pubGet", "enforce">>, <<"audits", "run">>, <<"tests", "run">>>>
           a == IF "android" \in Platforms(mode)
                THEN <<<<"signing", "verify">>, <<"build", "aab">>, <<"capture", "android-release">>>>
                ELSE <<>>
           i == IF "ios" \in Platforms(mode)
                THEN <<<<"build", "ipa">>, <<"iosContract", "check">>, <<"capture", "ios-release">>>>
                ELSE <<>>
           p == start \o HardenSteps \o checks
           X == {<<"signing", "verify">>}
           Y == {<<"build", "aab">>}
<1>1. /\ start \in Seq(GateSteps) /\ OpsIn(start, PreludeOps) /\ Mentions(start, Preflights)
      /\ checks \in Seq(GateSteps) /\ OpsIn(checks, PreludeOps) /\ Mentions(checks, AuditSteps)
      /\ Reporting \in Seq(GateSteps) /\ OpsIn(Reporting, {"report"})
      /\ HardenSteps \in Seq(GateSteps) /\ OpsIn(HardenSteps, PreludeOps)
      /\ \A f \in FilesFor("hardening") : Mentions(HardenSteps, {<<"hardening", f>>})
  <2>1. {"preflight"} \subseteq PreludeOps /\ {"hardening"} \subseteq PreludeOps
    BY DEF PreludeOps
  <2>2. /\ start \in Seq(GateSteps) /\ OpsIn(start, {"preflight"}) /\ Mentions(start, Preflights)
        /\ checks \in Seq(GateSteps) /\ OpsIn(checks, PreludeOps) /\ Mentions(checks, AuditSteps)
        /\ Reporting \in Seq(GateSteps) /\ OpsIn(Reporting, {"report"})
    BY GatePieces
  <2>3. /\ HardenSteps \in Seq(GateSteps) /\ OpsIn(HardenSteps, {"hardening"})
        /\ \A f \in FilesFor("hardening") : Mentions(HardenSteps, {<<"hardening", f>>})
    BY HardeningSteps
  <2>4. QED
    BY <2>1, <2>2, <2>3, WiderOps
<1>2. PieceIs(a) /\ PieceIs(i)
  BY BuildPieces, NoPiece DEF PieceIs
<1>3. Led(a, X, Y) /\ Led(i, X, Y)
  <2>1. Led(<<<<"signing", "verify">>, <<"build", "aab">>, <<"capture", "android-release">>>>, X, Y)
    <3> DEFINE s == <<<<"signing", "verify">>, <<"build", "aab">>, <<"capture", "android-release">>>>
    <3>1. DOMAIN s = 1 .. 3 /\ s[1] = <<"signing", "verify">> /\ s[2] = <<"build", "aab">>
          /\ s[3] = <<"capture", "android-release">>
      OBVIOUS
    <3> HIDE DEF s
    <3>2. Led(s, X, Y)
      BY <3>1 DEF Led
    <3>3. QED
      BY <3>2 DEF s
  <2>2. ~ Mentions(<<<<"build", "ipa">>, <<"iosContract", "check">>, <<"capture", "ios-release">>>>, Y)
    BY DEF Mentions
  <2>3. QED
    BY <2>1, <2>2, NoPiece, NotMentioned
<1>4. ReleaseGate(mode) = p \o a \o i \o Reporting
  BY DEF ReleaseGate
<1> HIDE DEF start, checks, a, i
<1>5. /\ p \in Seq(GateSteps) /\ OpsIn(p, PreludeOps) /\ Mentions(p, Preflights)
      /\ Mentions(p, AuditSteps)
      /\ \A f \in FilesFor("hardening") : Mentions(p, {<<"hardening", f>>})
  <2>1. /\ start \o HardenSteps \in Seq(GateSteps) /\ OpsIn(start \o HardenSteps, PreludeOps)
        /\ \A Z : Mentions(start, Z) \/ Mentions(HardenSteps, Z)
                  => Mentions(start \o HardenSteps, Z)
    BY <1>1, ConcatPrelude
  <2> DEFINE w == start \o HardenSteps
  <2> HIDE DEF w
  <2>2. /\ w \o checks \in Seq(GateSteps) /\ OpsIn(w \o checks, PreludeOps)
        /\ \A Z : Mentions(w, Z) \/ Mentions(checks, Z) => Mentions(w \o checks, Z)
    BY <1>1, <2>1, ConcatPrelude DEF w
  <2>3. p = w \o checks
    BY DEF p, w
  <2>4. QED
    BY <1>1, <2>1, <2>2, <2>3 DEF w
<1> HIDE DEF p
<1>6. GateShape(p \o a \o i \o Reporting)
  BY <1>1, <1>2, <1>5, GateHasShape DEF PieceIs
<1>7. Led(p \o a \o i \o Reporting, X, Y)
  <2>0. (\A y \in Y : y[1] \notin PreludeOps) /\ (\A y \in Y : y[1] \notin {"report"})
    BY DEF PreludeOps
  <2> HIDE DEF Y
  <2>1. ~ Mentions(p, Y) /\ ~ Mentions(Reporting, Y)
    BY <1>1, <1>5, <2>0, OtherOps
  <2>2. Led(p, X, Y) /\ Led(Reporting, X, Y)
    BY <2>1, NotMentioned
  <2> HIDE DEF X
  <2>3. Led(p \o a, X, Y) /\ p \o a \in Seq(GateSteps)
    BY <1>2, <1>3, <1>5, <2>2, ConcatIs DEF PieceIs
  <2>4. Led(p \o a \o i, X, Y) /\ p \o a \o i \in Seq(GateSteps)
    BY <1>2, <1>3, <2>3, ConcatIs DEF PieceIs
  <2>5. QED
    BY <1>1, <2>2, <2>4, ConcatIs
<1>8. QED
  BY <1>4, <1>6, <1>7

(* A part of the bootstrap that only copies, or never does.                *)
LEMMA FreePieces ==
  /\ <<"preflight", "bootstrap">> \in FreeSteps /\ <<"remove", "shells">> \in FreeSteps
  /\ <<"copy", "android">> \in FreeSteps /\ <<"copy", "ios">> \in FreeSteps
  /\ <<"v49", "activity">> \in FreeSteps /\ <<"audits", "run">> \in FreeSteps
  /\ <<"pubGet", "resolve">> \in FreeSteps /\ <<"tests", "run">> \in FreeSteps
  /\ <<"report", "sourcePass">> \in FreeSteps /\ <<"manifest", "check">> \in FreeSteps
  /\ <<"signing", "gradle">> \in FreeSteps
<1>1. /\ "bootstrap" \in ArgsOf("preflight") /\ "shells" \in ArgsOf("remove")
      /\ "android" \in ArgsOf("copy") /\ "ios" \in ArgsOf("copy") /\ "run" \in ArgsOf("audits")
      /\ "resolve" \in ArgsOf("pubGet") /\ "run" \in ArgsOf("tests")
      /\ "sourcePass" \in ArgsOf("report") /\ "check" \in ArgsOf("manifest")
      /\ "gradle" \in ArgsOf("signing")
  BY ArgsAre
<1>2. "activity" \in ArgsOf("v49")
  BY ArgsAre DEF Tools, FilesFor
<1>3. {"preflight", "remove", "copy", "v49", "audits", "pubGet", "tests", "report", "manifest",
       "signing"} \subseteq FreeOps
  BY DEF FreeOps
<1>4. QED
  BY <1>1, <1>2, <1>3, FreeStepIn

(* What the order of the bootstrap comes to, part after part.              *)
Copying(s) ==
  /\ s \in Seq(FreeSteps)
  /\ Led(s, {<<"remove", "shells">>}, CopySteps \cup BrandSteps)
  /\ Mentions(s, {<<"remove", "shells">>})
  /\ NoneAfter(s, BrandSteps, CopySteps)
  /\ ~ Mentions(s, Replacing)

LEMMA CopyingGoesOn ==
  ASSUME NEW s, Copying(s), NEW t \in Seq(FreeSteps), ~ Mentions(t, CopySteps),
         ~ Mentions(t, Replacing)
  PROVE  Copying(s \o t) /\ \A Y : Mentions(s, Y) => Mentions(s \o t, Y)
<1>1. NoneAfter(t, BrandSteps, CopySteps)
  BY NotMentioned
<1>2. QED
  BY <1>1, ConcatIs DEF Copying

LEMMA BootstrapIs == FreeShape(Bootstrap) /\ Bootstrap # <<>>
<1> DEFINE start == <<<<"preflight", "bootstrap">>, <<"remove", "shells">>, <<"copy", "android">>,
                      <<"copy", "ios">>>>
           lifecycle == <<<<"v49", "activity">>>>
           branding == Tool("branding", BrandingFiles)
           splash == Tool("splash", SplashFiles)
           icon == Tool("icon", IconFiles)
           rest == <<<<"audits", "run">>, <<"pubGet", "resolve">>, <<"tests", "run">>>>
           before == {"preflight", "remove", "copy", "hardening", "v49", "branding", "splash"}
           after == {"icon", "audits", "pubGet", "tests"}
<1>1. Bootstrap = start \o HardenSteps \o lifecycle \o branding \o splash \o icon \o rest
  BY DEF Bootstrap
<1>2. /\ branding \in Seq(FreeSteps) /\ OpsIn(branding, {"branding"})
      /\ splash \in Seq(FreeSteps) /\ OpsIn(splash, {"splash"})
      /\ icon \in Seq(FreeSteps) /\ OpsIn(icon, {"icon"})
      /\ \A f \in FilesFor("branding") : Mentions(branding, {<<"branding", f>>})
      /\ \A f \in FilesFor("splash") : Mentions(splash, {<<"splash", f>>})
  <2>1. /\ BrandingFiles \in Seq(FilesFor("branding"))
        /\ \A f \in FilesFor("branding") : \E n \in DOMAIN BrandingFiles : BrandingFiles[n] = f
        /\ SplashFiles \in Seq(FilesFor("splash"))
        /\ \A f \in FilesFor("splash") : \E n \in DOMAIN SplashFiles : SplashFiles[n] = f
        /\ IconFiles \in Seq(FilesFor("icon"))
    BY FileListsAre
  <2>2. /\ branding \in Seq(FreeSteps)
        /\ \A n \in DOMAIN branding : branding[n] = <<"branding", branding[n][2]>>
        /\ \A f \in FilesFor("branding") : Mentions(branding, {<<"branding", f>>})
    BY <2>1, ToolStepsAre
  <2>3. /\ splash \in Seq(FreeSteps)
        /\ \A n \in DOMAIN splash : splash[n] = <<"splash", splash[n][2]>>
        /\ \A f \in FilesFor("splash") : Mentions(splash, {<<"splash", f>>})
    BY <2>1, ToolStepsAre
  <2>4. /\ icon \in Seq(FreeSteps)
        /\ \A n \in DOMAIN icon : icon[n] = <<"icon", icon[n][2]>>
    BY <2>1, ToolStepsAre
  <2> HIDE DEF branding, splash, icon
  <2>5. OpsIn(branding, {"branding"}) /\ OpsIn(splash, {"splash"}) /\ OpsIn(icon, {"icon"})
    BY <2>2, <2>3, <2>4 DEF OpsIn
  <2>6. QED
    BY <2>2, <2>3, <2>4, <2>5
<1>3. /\ start \in Seq(FreeSteps) /\ OpsIn(start, {"preflight", "remove", "copy"})
      /\ lifecycle \in Seq(FreeSteps) /\ OpsIn(lifecycle, {"v49"})
      /\ rest \in Seq(FreeSteps) /\ OpsIn(rest, after)
      /\ HardenSteps \in Seq(FreeSteps) /\ OpsIn(HardenSteps, {"hardening"})
  <2>1. start \in Seq(FreeSteps) /\ DOMAIN start = 1 .. 4
        /\ start[1][1] = "preflight" /\ start[2][1] = "remove" /\ start[3][1] = "copy"
        /\ start[4][1] = "copy"
    BY FreePieces
  <2>2. rest \in Seq(FreeSteps) /\ DOMAIN rest = 1 .. 3
        /\ rest[1][1] = "audits" /\ rest[2][1] = "pubGet" /\ rest[3][1] = "tests"
    BY FreePieces
  <2>3. lifecycle \in Seq(FreeSteps) /\ DOMAIN lifecycle = 1 .. 1 /\ lifecycle[1][1] = "v49"
    BY FreePieces
  <2> HIDE DEF start, rest, lifecycle
  <2>4. OpsIn(start, {"preflight", "remove", "copy"}) /\ OpsIn(rest, after)
        /\ OpsIn(lifecycle, {"v49"})
    BY <2>1, <2>2, <2>3 DEF OpsIn
  <2>5. QED
    BY <2>1, <2>2, <2>3, <2>4, HardeningSteps
<1>4. Copying(start)
  <2>1. DOMAIN start = 1 .. 4 /\ start[1] = <<"preflight", "bootstrap">>
        /\ start[2] = <<"remove", "shells">> /\ start[3] = <<"copy", "android">>
        /\ start[4] = <<"copy", "ios">>
    OBVIOUS
  <2> HIDE DEF start
  <2>2. \A y \in BrandSteps : y[1] \notin {"preflight", "remove", "copy"}
    BY StepSets
  <2>3. ~ Mentions(start, BrandSteps)
    BY <1>3, <2>2, OtherOps
  <2>4. Mentions(start, {<<"remove", "shells">>})
    BY <2>1 DEF Mentions
  <2>5. start[1] \notin CopySteps \cup BrandSteps /\ start[2] \notin CopySteps \cup BrandSteps
    BY <2>1, StepSets
  <2>6. Led(start, {<<"remove", "shells">>}, CopySteps \cup BrandSteps)
    <3>1. SUFFICES ASSUME NEW n \in DOMAIN start, start[n] \in CopySteps \cup BrandSteps
                   PROVE  \E m \in 1 .. n - 1 : start[m] \in {<<"remove", "shells">>}
      BY DEF Led
    <3>2. n \in {3, 4}
      BY <2>1, <2>5, <3>1
    <3>3. 2 \in 1 .. n - 1 /\ start[2] \in {<<"remove", "shells">>}
      BY <2>1, <3>2
    <3>4. QED
      BY <3>3
  <2>7. NoneAfter(start, BrandSteps, CopySteps)
    BY <2>3, NotMentioned
  <2>9. ~ Mentions(start, Replacing)
    <3>1. \A y \in Replacing : y[1] \notin {"preflight", "remove", "copy"}
      BY StepSets
    <3>2. QED
      BY <1>3, <3>1, OtherOps
  <2>8. QED
    BY <1>3, <2>4, <2>6, <2>7, <2>9 DEF Copying
<1>5. \A Y \in {CopySteps, Replacing} :
        /\ ~ Mentions(HardenSteps, Y) /\ ~ Mentions(lifecycle, Y)
        /\ ~ Mentions(branding, Y) /\ ~ Mentions(splash, Y)
        /\ ~ Mentions(icon, Y) /\ ~ Mentions(rest, Y)
  <2>1. \A y \in CopySteps \cup Replacing :
          /\ y[1] \notin {"hardening"} /\ y[1] \notin {"v49"}
          /\ y[1] \notin {"branding"} /\ y[1] \notin {"splash"}
          /\ y[1] \notin {"icon"} /\ y[1] \notin after
    BY StepSets
  <2> HIDE DEF start, lifecycle, branding, splash, icon, rest, before, after
  <2>2. SUFFICES ASSUME NEW Y \in {CopySteps, Replacing}
                 PROVE  /\ ~ Mentions(HardenSteps, Y) /\ ~ Mentions(lifecycle, Y)
                        /\ ~ Mentions(branding, Y) /\ ~ Mentions(splash, Y)
                        /\ ~ Mentions(icon, Y) /\ ~ Mentions(rest, Y)
    OBVIOUS
  <2>3. \A y \in Y : y \in CopySteps \cup Replacing
    BY <2>2
  <2>4. ~ Mentions(HardenSteps, Y) /\ ~ Mentions(lifecycle, Y)
    BY <1>3, <2>1, <2>3, OtherOps
  <2>5. ~ Mentions(branding, Y) /\ ~ Mentions(splash, Y)
    BY <1>2, <2>1, <2>3, OtherOps
  <2>6. ~ Mentions(icon, Y) /\ ~ Mentions(rest, Y)
    BY <1>2, <1>3, <2>1, <2>3, OtherOps
  <2>7. QED
    BY <2>4, <2>5, <2>6
<1>6. /\ OpsIn(start, before) /\ OpsIn(HardenSteps, before) /\ OpsIn(lifecycle, before)
      /\ OpsIn(branding, before) /\ OpsIn(splash, before) /\ OpsIn(icon, after)
  BY <1>2, <1>3 DEF OpsIn
<1> DEFINE s1 == start \o HardenSteps
           s2 == s1 \o lifecycle
           s3 == s2 \o branding
           s4 == s3 \o splash
           s5 == s4 \o icon
<1> HIDE DEF start, lifecycle, branding, splash, icon, rest, before, after
<1>7. Copying(s1) /\ OpsIn(s1, before)
  BY <1>3, <1>4, <1>5, <1>6, CopyingGoesOn, ConcatOps
<1> HIDE DEF s1
<1>8. Copying(s2) /\ OpsIn(s2, before)
  BY <1>3, <1>5, <1>6, <1>7, CopyingGoesOn, ConcatOps DEF Copying
<1> HIDE DEF s2
<1>9. /\ Copying(s3) /\ OpsIn(s3, before)
      /\ \A f \in FilesFor("branding") : Mentions(s3, {<<"branding", f>>})
  <2>1. Copying(s3) /\ OpsIn(s3, before)
    BY <1>2, <1>5, <1>6, <1>8, CopyingGoesOn, ConcatOps DEF Copying
  <2>2. \A Y : Mentions(branding, Y) => Mentions(s3, Y)
    BY <1>2, <1>8, MentionsLater DEF Copying
  <2>3. QED
    BY <1>2, <2>1, <2>2
<1> HIDE DEF s3
<1>10. /\ Copying(s4) /\ OpsIn(s4, before)
       /\ \A b \in BrandSteps : Mentions(s4, {b})
  <2>1. Copying(s4) /\ OpsIn(s4, before) /\ \A Y : Mentions(s3, Y) => Mentions(s4, Y)
    BY <1>2, <1>5, <1>6, <1>9, CopyingGoesOn, ConcatOps DEF Copying
  <2>2. \A Y : Mentions(splash, Y) => Mentions(s4, Y)
    BY <1>2, <1>9, MentionsLater DEF Copying
  <2>3. QED
    BY <1>2, <1>9, <2>1, <2>2 DEF BrandSteps
<1> HIDE DEF s4
<1>11. ~ Mentions(s4, IconSteps)
  BY <1>10, OtherOps, StepSets DEF before
<1>12. ~ Mentions(icon, CopySteps \cup BrandSteps) /\ ~ Mentions(rest, CopySteps \cup BrandSteps)
       /\ ~ Mentions(rest, IconSteps)
  <2>1. (\A y \in CopySteps \cup BrandSteps : y[1] \notin after) /\ \A y \in IconSteps : y[1] \notin {"audits", "pubGet", "tests"}
    BY StepSets DEF after
  <2>2. OpsIn(rest, {"audits", "pubGet", "tests"})
    BY DEF rest, OpsIn
  <2>3. QED
    BY <1>3, <1>6, <2>1, <2>2, OtherOps
<1>13. /\ Copying(s5) /\ NoneAfter(s5, IconSteps, CopySteps \cup BrandSteps)
       /\ \A b \in BrandSteps : Led(s5, {b}, IconSteps) /\ Mentions(s5, {b})
  <2>1. Copying(s5) /\ \A Y : Mentions(s4, Y) => Mentions(s5, Y)
    BY <1>2, <1>5, <1>10, CopyingGoesOn
  <2>2. NoneAfter(s4, IconSteps, CopySteps \cup BrandSteps)
        /\ NoneAfter(icon, IconSteps, CopySteps \cup BrandSteps)
        /\ \A b \in BrandSteps : Led(s4, {b}, IconSteps)
    BY <1>11, <1>12, NotMentioned
  <2>3. NoneAfter(s5, IconSteps, CopySteps \cup BrandSteps)
    BY <1>2, <1>10, <1>11, <2>2, ConcatIs DEF Copying
  <2>4. \A b \in BrandSteps : Led(s5, {b}, IconSteps)
    BY <1>2, <1>10, <2>2, ConcatIs DEF Copying
  <2>5. QED
    BY <1>10, <2>1, <2>3, <2>4
<1> HIDE DEF s5
<1>14. Copying(s5 \o rest)
  BY <1>3, <1>5, <1>13, CopyingGoesOn
<1>15. NoneAfter(s5 \o rest, IconSteps, CopySteps \cup BrandSteps)
  <2>1. NoneAfter(rest, IconSteps, CopySteps \cup BrandSteps)
    BY <1>12, NotMentioned
  <2>2. QED
    BY <1>3, <1>12, <1>13, <2>1, ConcatIs DEF Copying
<1>16. \A b \in BrandSteps : Led(s5 \o rest, {b}, IconSteps)
  BY <1>3, <1>13, ConcatIs DEF Copying
<1>17. Bootstrap = s5 \o rest
  BY <1>1 DEF s5, s4, s3, s2, s1
<1>18. QED
  BY <1>14, <1>15, <1>16, <1>17, NotEmpty DEF FreeShape, Copying

(* The other scripts copy nothing.                                         *)
LEMMA PlainIsFree ==
  ASSUME NEW s \in Seq(FreeSteps),
         ~ Mentions(s, CopySteps \cup BrandSteps \cup IconSteps \cup Replacing)
  PROVE  FreeShape(s)
<1>1. ~ Mentions(s, CopySteps \cup BrandSteps) /\ ~ Mentions(s, IconSteps)
      /\ ~ Mentions(s, CopySteps) /\ ~ Mentions(s, Replacing)
  BY NotMentioned
<1>2. QED
  BY <1>1, NotMentioned DEF FreeShape

LEMMA PlainScripts ==
  /\ FreeShape(SourceCheck) /\ FreeShape(Installer) /\ FreeShape(ConfigureSigning)
  /\ SourceCheck # <<>> /\ Installer # <<>> /\ ConfigureSigning # <<>>
<1>1. /\ <<<<"audits", "run">>>> \in Seq(FreeSteps) /\ OpsIn(<<<<"audits", "run">>>>, {"audits", "report"})
      /\ Reporting \in Seq(FreeSteps) /\ OpsIn(Reporting, {"audits", "report"})
      /\ Installer \in Seq(FreeSteps) /\ OpsIn(Installer, {"manifest"})
      /\ ConfigureSigning \in Seq(FreeSteps) /\ OpsIn(ConfigureSigning, {"signing"})
  BY FreePieces DEF OpsIn, Installer, ConfigureSigning, Reporting
<1>2. SourceCheck \in Seq(FreeSteps) /\ OpsIn(SourceCheck, {"audits", "report"})
  BY <1>1, ConcatIs, ConcatOps DEF SourceCheck
<1>4. \A y \in CopySteps \cup BrandSteps \cup IconSteps \cup Replacing :
        y[1] \notin {"audits", "report", "manifest", "signing"}
  BY StepSets
<1>5. /\ ~ Mentions(SourceCheck, CopySteps \cup BrandSteps \cup IconSteps \cup Replacing)
      /\ ~ Mentions(Installer, CopySteps \cup BrandSteps \cup IconSteps \cup Replacing)
      /\ ~ Mentions(ConfigureSigning, CopySteps \cup BrandSteps \cup IconSteps \cup Replacing)
  BY <1>1, <1>2, <1>4, OtherOps
<1>6. SourceCheck # <<>> /\ Installer # <<>> /\ ConfigureSigning # <<>>
  <2>1. Mentions(<<<<"audits", "run">>>>, {<<"audits", "run">>})
    BY DEF Mentions
  <2> DEFINE first == <<<<"audits", "run">>>>
             Y == {<<"audits", "run">>}
  <2>2. SourceCheck = first \o Reporting
    BY DEF SourceCheck
  <2>3. first \in Seq(FreeSteps) /\ Mentions(first, Y)
    BY <1>1, <2>1
  <2> HIDE DEF first, Y
  <2>4. Mentions(SourceCheck, Y)
    BY <1>1, <2>2, <2>3, ConcatIs
  <2>5. SourceCheck # <<>>
    BY <2>4, NotEmpty
  <2>6. QED
    BY <2>5 DEF Installer, ConfigureSigning
<1>7. QED
  BY <1>1, <1>2, <1>5, <1>6, PlainIsFree

-----------------------------------------------------------------------------
(* Types: every step of a script is one its action can take, and the       *)
(* scripts that build keep to the steps of a gate, and have a lock.        *)

Outcomes == {"none", "running", "passed", "failed", "killed"}

Types ==
  /\ host \in {"linux", "macos"}
  /\ src \in 0 .. MaxEdits /\ head \in 0 .. MaxEdits
  /\ lock \in 0 .. MaxEdits \cup {None} /\ lockHead \in 0 .. MaxEdits \cup {None}
  /\ sdk \in Archives \cup {"none", "partial", "older"}
  /\ dirs \subseteq {"android", "ios"}
  /\ key \in {"none", "usable", "wrongAlias"}
  /\ probe \in BOOLEAN /\ moved \subseteq Paths /\ leftover \in BOOLEAN
  /\ calm \in BOOLEAN /\ touched \in BOOLEAN /\ rewritten \in BOOLEAN

Ran == outcome \in Outcomes /\ (outcome = "running" <=> todo # <<>>)
Scripted == todo \in Seq(FreeSteps) \/ (todo \in Seq(GateSteps) /\ lock # None)
Typed == Types /\ Ran /\ Scripted /\ Clean(shell)

LEMMA TypedIsTypeOK == Typed => TypeOK
<1> SUFFICES ASSUME Typed PROVE TypeOK
  OBVIOUS
<1>1. \A f \in Files : \A m \in DOMAIN shell[f] : Copies(shell[f], m) = 1
  BY HasIs DEF Typed, Clean, Once, Copies
<1>2. QED
  BY <1>1 DEF Typed, Types, Ran, Outcomes, TypeOK, Idle

LEMMA HeadIs ==
  ASSUME Typed, todo # <<>>
  PROVE  /\ Head(todo)[1] \in GateOps \cup FreeOps
         /\ Arg \in ArgsOf(Head(todo)[1])
         /\ Head(todo) = <<Head(todo)[1], Arg>>
         /\ Head(todo)[1] \in {"build", "capture"} => todo \in Seq(GateSteps) /\ lock # None
         /\ Head(todo)[1] \notin GateOps \/ Head(todo) = <<"signing", "gradle">>
              => todo \in Seq(FreeSteps)
<1>1. CASE todo \in Seq(FreeSteps)
  <2>1. Head(todo) \in FreeSteps
    BY <1>1
  <2>2. {"build", "capture"} \cap FreeOps = {}
    BY DEF FreeOps, SdkOps
  <2>3. QED
    BY <1>1, <2>1, <2>2, FreeStepIs DEF Arg
<1>2. CASE todo \in Seq(GateSteps) /\ lock # None
  <2>1. Head(todo) \in GateSteps
    BY <1>2
  <2>2. QED
    BY <1>2, <2>1, GateStepIs DEF Arg
<1>3. QED
  BY <1>1, <1>2 DEF Typed, Scripted

LEMMA ScriptGoesOn ==
  ASSUME Typed, todo # <<>>, Goes \/ Stops, lock' = lock \/ lock' # None
  PROVE  Scripted' /\ Ran'
<1>1. CASE Stops
  BY <1>1 DEF Stops, Scripted, Ran, Outcomes
<1>2. CASE Goes
  <2>1. \A S : todo \in Seq(S) => Tail(todo) \in Seq(S) /\ (Len(todo) = 1 <=> Tail(todo) = <<>>)
    BY TailIs
  <2>2. outcome = "running"
    BY DEF Typed, Ran
  <2>3. Len(todo) = 1 <=> Tail(todo) = <<>>
    BY <2>1 DEF Typed, Scripted
  <2>4. Ran'
    BY <1>2, <2>2, <2>3 DEF Goes, Ran, Outcomes
  <2>5. Scripted'
    BY <1>2, <2>1 DEF Goes, Typed, Scripted
  <2>6. QED
    BY <2>4, <2>5
<1>3. QED
  BY <1>1, <1>2

LEMMA FilesTyped ==
  /\ Clean(NoFiles) /\ \A f \in Files : Once(Template[f])
  /\ DOMAIN Template = Files
<1>1. Clean(NoFiles)
  BY AbsentIs DEF Clean, NoFiles
<1>2. ASSUME NEW f \in Files PROVE Once(Template[f])
  <2>1. Template[f] \in {Absent, Marked({"template", "debugSigning"}), Marked({"template"})}
    BY <1>2 DEF Template
  <2>2. QED
    BY <2>1, AbsentIs, MarkedIs
<1>3. QED
  BY <1>1, <1>2 DEF Template

LEMMA InitTyped == ASSUME Init PROVE Typed
<1>1. Types
  <2>1. 0 \in 0 .. MaxEdits
    BY GatesAssumption
  <2>2. QED
    BY <2>1 DEF Init, Types, Archives, Paths
<1>2. Ran /\ Scripted
  BY DEF Init, Ran, Scripted, Outcomes
<1>3. QED
  BY <1>1, <1>2, FilesTyped DEF Init, Typed

(* What the start of a script changes.                                     *)
Started(script) ==
  /\ Idle /\ todo' = script /\ outcome' = "running"
  /\ moved' = {} /\ leftover' = FALSE /\ rewritten' = FALSE /\ calm' \in BOOLEAN
  /\ UNCHANGED <<host, checkout, sdk, native, device, probe, proof, touched>>

ScriptShape(script) ==
  \/ FreeShape(script)
  \/ /\ GateShape(script) /\ lock # None
     /\ \/ ~ Mentions(script, {<<"capture", "android-release">>})
        \/ Led(script, {<<"signing", "verify">>}, {<<"build", "aab">>})

LEMMA BeginStarts ==
  ASSUME Begin
  PROVE  \E script : Started(script) /\ ScriptShape(script) /\ script # <<>>
<1>1. CASE StartBootstrap
  <2>1. Started(Bootstrap)
    BY <1>1 DEF StartBootstrap, Start, Started, BootstrapReady, trace, hand
  <2>2. QED
    BY <2>1, BootstrapIs DEF ScriptShape
<1>2. CASE StartSourceCheck
  <2>1. Started(SourceCheck)
    BY <1>2 DEF StartSourceCheck, Start, Started, trace, hand
  <2>2. QED
    BY <2>1, PlainScripts DEF ScriptShape
<1>3. CASE StartInstaller
  <2>1. Started(Installer)
    BY <1>3 DEF StartInstaller, Start, Started, trace, hand
  <2>2. QED
    BY <2>1, PlainScripts DEF ScriptShape
<1>4. CASE StartConfigureSigning
  <2>1. Started(ConfigureSigning)
    BY <1>4 DEF StartConfigureSigning, Start, Started, trace, hand
  <2>2. QED
    BY <2>1, PlainScripts DEF ScriptShape
<1>5. ASSUME NEW mode \in Modes, StartCompileGate(mode)
      PROVE  \E script : Started(script) /\ ScriptShape(script) /\ script # <<>>
  <2>1. Started(CompileGate(mode)) /\ lock # None
    BY <1>5 DEF StartCompileGate, Start, Started, CompileGateReady, GateOpens, trace, hand
  <2>2. mode \in {"android", "ios", "all"}
    BY GatesAssumption
  <2>3. QED
    BY <2>1, <2>2, CompileGateIs DEF ScriptShape, GateShape
<1>6. ASSUME NEW mode \in Modes, StartReleaseGate(mode)
      PROVE  \E script : Started(script) /\ ScriptShape(script) /\ script # <<>>
  <2>1. Started(ReleaseGate(mode)) /\ lock # None
    BY <1>6 DEF StartReleaseGate, Start, Started, GateOpens, trace, hand
  <2>2. mode \in {"android", "ios", "all"}
    BY GatesAssumption
  <2>3. QED
    BY <2>1, <2>2, ReleaseGateIs DEF ScriptShape, GateShape
<1>7. QED
  BY <1>1, <1>2, <1>3, <1>4, <1>5, <1>6 DEF Begin

LEMMA BeginTyped == ASSUME Typed, Begin PROVE Typed'
<1>1. PICK script : Started(script) /\ ScriptShape(script) /\ script # <<>>
  BY BeginStarts
<1>2. Types'
  BY <1>1 DEF Started, Typed, Types, checkout, native
<1>3. Ran' /\ Scripted'
  BY <1>1 DEF Started, checkout, Ran, Scripted, Outcomes, ScriptShape, FreeShape, GateShape
<1>4. Clean(shell')
  BY <1>1 DEF Started, native, Typed
<1>5. QED
  BY <1>2, <1>3, <1>4 DEF Typed

LEMMA ToolTyped ==
  ASSUME Typed, todo # <<>>, NEW tool \in Tools \cup {"signing"}, NEW f \in FilesFor(tool),
         RunTool(tool, f)
  PROVE  (Goes \/ Stops) /\ Clean(shell')
<1>1. Clean(Patched(tool, f, shell))
  BY PatchedClean DEF Typed
<1>2. QED
  BY <1>1 DEF RunTool, Typed

LEMMA ToolAt ==
  ASSUME Typed, NEW tool \in Tools, At(tool)
  PROVE  Arg \in FilesFor(tool)
BY HeadIs, ArgsAre DEF At

LEMMA BuildTyped == ASSUME Typed, Build PROVE Typed'
<1>1. todo # <<>> /\ (Goes \/ Stops) /\ lock' = lock
  BY DEF Build, At, checkout
<1>2. Scripted' /\ Ran'
  BY <1>1, ScriptGoesOn
<1>3. Clean(shell')
  <2>1. \/ shell' = shell
        \/ shell' = [shell EXCEPT !["plist"] = Insert(@, {"scene"})]
    BY DEF Build, Compiled
  <2>2. Once(Insert(shell["plist"], {"scene"}))
    BY InsertIs DEF Typed, Clean, Files, IosFiles
  <2>3. QED
    BY <2>1, <2>2 DEF Typed, Clean, Files, IosFiles
<1>4. /\ calm' \in BOOLEAN /\ leftover' \in BOOLEAN /\ moved' \subseteq Paths
      /\ UNCHANGED <<host, checkout, sdk, dirs, key, probe, hand>>
  BY DEF Build, Replaces, Typed, Types, trace
<1>5. Types'
  BY <1>4 DEF Build, Typed, Types, checkout, trace, hand
<1>6. QED
  BY <1>2, <1>3, <1>5 DEF Typed

LEMMA CopyTyped == ASSUME Typed, CopyShell PROVE Typed'
<1>1. todo # <<>> /\ Goes /\ lock' = lock
  BY DEF CopyShell, At, checkout
<1>2. Scripted' /\ Ran'
  BY <1>1, ScriptGoesOn
<1>3. Clean(shell')
  BY FilesTyped DEF CopyShell, Typed, Clean
<1>4. Arg \in {"android", "ios"}
  BY HeadIs, ArgsAre DEF CopyShell, At
<1>5. Types'
  BY <1>4 DEF CopyShell, Typed, Types, checkout, trace, hand
<1>6. QED
  BY <1>2, <1>3, <1>5 DEF Typed

LEMMA ManifestTyped == ASSUME Typed, Manifest PROVE Typed'
<1>1. Types' /\ Clean(shell') /\ todo # <<>> /\ lock' = lock
  BY DEF Manifest, At, Typed, Types, checkout, native, trace, hand
<1>2. Scripted' /\ Ran'
  <2>1. CASE Stops
    BY <1>1, <2>1, ScriptGoesOn
  <2>2. ASSUME NEW sum \in Archives, UNCHANGED outcome,
               todo' = [n \in 1 .. 3 |-> <<<<"sdkRemove", "sdkFetch", "sdkMove">>[n], sum>>]
        PROVE  Scripted' /\ Ran'
    <3>1. \A n \in 1 .. 3 : todo'[n] \in FreeSteps
      <4>1. \A n \in 1 .. 3 : <<"sdkRemove", "sdkFetch", "sdkMove">>[n] \in SdkOps
        BY DEF SdkOps
      <4>2. \A op \in SdkOps : <<op, sum>> \in FreeSteps
        BY <2>2, ArgsAre, FreeStepIn DEF FreeOps
      <4>3. QED
        BY <2>2, <4>1, <4>2
    <3>2. todo' \in [1 .. 3 -> FreeSteps]
      BY <2>2, <3>1
    <3>3. todo' \in Seq(FreeSteps)
      BY <3>2, SeqDef
    <3>4. 1 \in DOMAIN todo'
      BY <2>2
    <3>5. todo' # <<>>
      BY <3>4
    <3>6. QED
      BY <1>1, <2>2, <3>3, <3>5 DEF Scripted, Ran, Typed
  <2>3. QED
    BY <2>1, <2>2 DEF Manifest
<1>3. QED
  BY <1>1, <1>2 DEF Typed

LEMMA StepTyped == ASSUME Typed, Step PROVE Typed'
<1>1. CASE Preflight \/ Audits \/ IosContractCheck \/ Capture \/ Report
  <2>1. todo # <<>> /\ (Goes \/ Stops) /\ lock' = lock
    BY <1>1 DEF Preflight, Audits, IosContractCheck, Capture, Report, At, checkout
  <2>2. Types' /\ Clean(shell')
    BY <1>1 DEF Preflight, Audits, IosContractCheck, Capture, Report, checkout, native, Typed, Types, trace, hand
  <2>3. QED
    BY <2>1, <2>2, ScriptGoesOn DEF Typed
<1>2. CASE DeleteShells
  <2>1. todo # <<>> /\ Goes /\ lock' = lock
    BY <1>2 DEF DeleteShells, At, checkout
  <2>2. Types' /\ Clean(shell')
    BY <1>2, FilesTyped DEF DeleteShells, RemoveShells, checkout, Typed, Types, trace, hand
  <2>3. QED
    BY <2>1, <2>2, ScriptGoesOn DEF Typed
<1>3. CASE CopyShell
  BY <1>3, CopyTyped
<1>4. CASE PatchShell
  <2>1. PICK tool \in Tools : At(tool) /\ RunTool(tool, Arg)
    BY <1>4 DEF PatchShell
  <2>2. (Goes \/ Stops) /\ Clean(shell') /\ todo # <<>>
    BY <2>1, ToolAt, ToolTyped DEF At
  <2>3. Types' /\ lock' = lock
    BY <1>4 DEF PatchShell, checkout, Typed, Types, trace, hand
  <2>4. QED
    BY <2>2, <2>3, ScriptGoesOn DEF Typed
<1>5. CASE PubGet \/ Tests
  <2>1. todo # <<>> /\ (Goes \/ Stops) /\ (lock' = lock \/ lock' # None)
    BY <1>5, GatesAssumption DEF PubGet, Tests, At, checkout, Typed, Types
  <2>2. Types' /\ Clean(shell')
    BY <1>5 DEF PubGet, Tests, checkout, native, Typed, Types, trace, hand
  <2>3. QED
    BY <2>1, <2>2, ScriptGoesOn DEF Typed
<1>6. CASE Signing
  <2>1. todo # <<>> /\ lock' = lock /\ Types'
    BY <1>6 DEF Signing, At, checkout, Typed, Types, trace, hand
  <2>2. (Goes \/ Stops) /\ Clean(shell')
    <3>1. CASE Arg = "gradle"
      BY <1>6, <2>1, <3>1, ToolTyped DEF Signing, FilesFor, Tools
    <3>2. CASE Arg # "gradle"
      BY <1>6, <3>2 DEF Signing, Typed
    <3>3. QED
      BY <3>1, <3>2
  <2>3. QED
    BY <2>1, <2>2, ScriptGoesOn DEF Typed
<1>7. CASE Build
  BY <1>7, BuildTyped
<1>8. CASE Manifest
  BY <1>8, ManifestTyped
<1>9. CASE InstallStep
  <2>1. todo # <<>> /\ (Goes \/ Stops) /\ lock' = lock /\ Clean(shell')
    BY <1>9 DEF InstallStep, At, checkout, native, Typed
  <2>2. At("sdkMove") => Arg \in Archives
    BY HeadIs, ArgsAre DEF At, SdkOps
  <2>3. Types'
    BY <1>9, <2>2 DEF InstallStep, At, checkout, native, Typed, Types, trace, hand
  <2>4. QED
    BY <2>1, <2>3, ScriptGoesOn DEF Typed
<1>10. QED
  BY <1>1, <1>2, <1>3, <1>4, <1>5, <1>6, <1>7, <1>8, <1>9 DEF Step

LEMMA KillTyped == ASSUME Typed, Kill PROVE Typed'
<1>1. Scripted' /\ Ran'
  BY DEF Kill, Scripted, Ran, Outcomes
<1>2. /\ Clean(shell') /\ sdk' \in Archives \cup {"none", "partial", "older"}
      /\ dirs' \subseteq {"android", "ios"} /\ probe' \in BOOLEAN
  <2>1. CASE \E tool \in Tools \union {"signing"} :
               /\ At(tool) /\ Arg # "verify" /\ shell' = KilledPatch(tool)
               /\ UNCHANGED <<sdk, dirs, probe, evidence>>
    <3>1. PICK tool \in Tools \union {"signing"} :
            /\ At(tool) /\ Arg # "verify" /\ shell' = KilledPatch(tool)
            /\ UNCHANGED <<sdk, dirs, probe, evidence>>
      BY <2>1
    <3>2. shell' = shell \/ shell' = [shell EXCEPT ![Arg] = Emptied]
      BY <3>1 DEF KilledPatch, Arg
    <3>3. QED
      BY <3>1, <3>2, AbsentIs DEF Typed, Types, Clean
  <2>2. CASE /\ At("remove")
             /\ \E kept \in PartialCopies :
                  shell' = [f \in Files |-> IF f \in kept THEN shell[f] ELSE Absent]
             /\ UNCHANGED <<sdk, dirs, probe, evidence>>
    BY <2>2, AbsentIs DEF Typed, Types, Clean
  <2>3. CASE /\ At("copy")
             /\ \E done \in PartialCopies :
                  shell' = [f \in Files |-> IF f \in FilesOf(Arg) \intersect done
                                            THEN Template[f] ELSE shell[f]]
             /\ dirs' = dirs \union {Arg}
             /\ UNCHANGED <<sdk, probe, evidence>>
    <3>1. Arg \in {"android", "ios"}
      BY <2>3, HeadIs, ArgsAre DEF At
    <3>2. QED
      BY <2>3, <3>1, FilesTyped DEF Typed, Types, Clean
  <2>4. CASE \/ At("capture") /\ evidence' = [evidence EXCEPT ![Arg] = Torn]
                /\ UNCHANGED <<sdk, shell, dirs, probe>>
             \/ At("audits") /\ probe' = TRUE /\ UNCHANGED <<sdk, shell, dirs, evidence>>
             \/ At("sdkMove") /\ sdk' = "partial" /\ UNCHANGED <<shell, dirs, probe, evidence>>
             \/ UNCHANGED <<sdk, shell, dirs, probe, evidence>>
    BY <2>4 DEF Typed, Types
  <2>5. QED
    BY <2>1, <2>2, <2>3, <2>4 DEF Kill, KillEffect
<1>3. Types'
  BY <1>2 DEF Kill, checkout, Typed, Types, trace, hand
<1>4. QED
  BY <1>1, <1>2, <1>3 DEF Typed

LEMMA DeveloperTyped == ASSUME Typed, Developer PROVE Typed'
<1>1. todo' = todo /\ outcome' = outcome
  BY DEF Developer, Edit, Resolve, Commit, EditShell, PutKey, TidyUp, Disturbs, Moves, trace, hand
<1>2. Types'
  <2>1. CASE Edit
    <3>1. src + 1 \in 0 .. MaxEdits
      BY <2>1, GatesAssumption DEF Edit, Typed, Types
    <3>2. QED
      BY <2>1, <3>1 DEF Edit, Disturbs, native, Typed, Types, Moves, trace, hand
  <2>2. CASE Resolve
    BY <2>2 DEF Resolve, Disturbs, native, Typed, Types, Moves, trace, hand
  <2>3. CASE Commit
    BY <2>3 DEF Commit, Disturbs, native, Typed, Types, Moves, trace, hand
  <2>4. CASE EditShell
    <3>1. rewritten' \in BOOLEAN /\ calm' \in BOOLEAN
      BY <2>4 DEF EditShell, Disturbs, Typed, Types
    <3>2. QED
      BY <2>4, <3>1 DEF EditShell, Disturbs, checkout, Typed, Types
  <2>5. CASE PutKey
    BY <2>5 DEF PutKey, Disturbs, checkout, Typed, Types, trace, hand
  <2>6. CASE TidyUp
    BY <2>6 DEF TidyUp, checkout, Typed, Types, trace, hand
  <2>7. QED
    BY <2>1, <2>2, <2>3, <2>4, <2>5, <2>6 DEF Developer
<1>3. Clean(shell')
  <2>1. CASE EditShell
    BY <2>1, FilesTyped DEF EditShell, Typed, Clean
  <2>2. CASE ~ EditShell
    BY <2>2 DEF Developer, Edit, Resolve, Commit, PutKey, TidyUp, native, Typed
  <2>3. QED
    BY <2>1, <2>2
<1>4. lock' = lock \/ lock' # None
  BY GatesAssumption DEF Developer, Edit, Resolve, Commit, EditShell, PutKey, TidyUp, checkout, Typed, Types
<1>5. QED
  BY <1>1, <1>2, <1>3, <1>4 DEF Typed, Scripted, Ran

(* Unchanged variables keep everything that is said of the state.          *)
LEMMA StutterTyped == ASSUME Typed, UNCHANGED vars PROVE Typed'
BY DEF vars, checkout, native, Typed, Types, Ran, Scripted, Clean, trace, hand

LEMMA NextTyped == Typed /\ [Next]_vars => Typed'
BY BeginTyped, StepTyped, KillTyped, DeveloperTyped, StutterTyped DEF Next

(* The parts of the state have their types, and however often the tools    *)
(* run over a shell, and wherever they are killed, no text is in a file    *)
(* twice (tool/native_hardening.py and the other tools that patch it).     *)
THEOREM TypesHold == Spec => []TypeOK
<1>1. Init => Typed
  BY InitTyped
<1>2. QED
  BY <1>1, NextTyped, TypedIsTypeOK, PTL DEF Spec

-----------------------------------------------------------------------------
(* Evidence: a gate takes no evidence before the preflight accepted the    *)
(* Flutter and the build is done, and what it built is still that of the   *)
(* source, lock and Flutter that are there, unless something moved.        *)

Fresh(path) ==
  artifacts[path] # None =>
    /\ artifacts[path].canonical = CanonicalIdentity
    /\ artifacts[path].lock = lock /\ artifacts[path].sdk = sdk

(* The artifact may be of another source, or be another one.               *)
Excused(path) == path \in moved \/ (path = "ipa" /\ leftover)

SdkKnown == host = "linux" => sdk # "replaced" /\ ~ Mentions(todo, Replacing)
Preflighted == Led(todo, Preflights, Captures) \/ sdk \in Archives
BuiltFirst ==
  \A k \in Kinds :
    Led(todo, {<<"build", PathOf(k)>>}, {<<"capture", k>>}) \/ Excused(PathOf(k)) \/ Fresh(PathOf(k))

LeftoverIsIpa == \A k \in Kinds : Recorded(k) /\ evidence[k].leftover => k = "ios-release"

Traced ==
  /\ DOMAIN evidence = Kinds /\ DOMAIN artifacts = Paths
  /\ SdkKnown /\ Preflighted /\ BuiltFirst /\ EvidenceNamesWhatWasBuilt /\ LeftoverIsIpa

LEMMA TodoGoesOn ==
  ASSUME Typed, todo # <<>>, Goes \/ Stops
  PROVE  /\ \A X, Y : Led(todo, X, Y) /\ (Head(todo) \notin X \/ Stops) => Led(todo', X, Y)
         /\ \A X, Y : Led(todo, X, Y) => Head(todo) \notin Y
         /\ \A Y : ~ Mentions(todo, Y) => ~ Mentions(todo', Y) /\ Head(todo) \notin Y
         /\ \A X, Y : NoneAfter(todo, X, Y) =>
              NoneAfter(todo', X, Y) /\ (Head(todo) \in X => ~ Mentions(todo', Y))
<1>1. PICK S : todo \in Seq(S)
  BY DEF Typed, Scripted
<1>2. /\ \A Y : Mentions(Tail(todo), Y) => Mentions(todo, Y)
      /\ \A Y : Head(todo) \in Y => Mentions(todo, Y)
      /\ \A X, Y : Led(todo, X, Y) =>
           Head(todo) \notin Y /\ (Head(todo) \notin X => Led(Tail(todo), X, Y))
      /\ \A X, Y : NoneAfter(todo, X, Y) =>
           NoneAfter(Tail(todo), X, Y) /\ (Head(todo) \in X => ~ Mentions(Tail(todo), Y))
  BY <1>1, TailIs
<1>3. \A X, Y : Led(<<>>, X, Y) /\ ~ Mentions(<<>>, Y) /\ NoneAfter(<<>>, X, Y)
  BY DEF Led, Mentions, NoneAfter
<1>4. todo' = Tail(todo) \/ todo' = <<>>
  BY DEF Goes, Stops
<1>5. Stops => todo' = <<>>
  BY DEF Stops
<1>6. QED
  BY <1>2, <1>3, <1>4, <1>5

LEMMA IdentityStays ==
  ASSUME src' = src, lock' = lock, lockHead' = lockHead
  PROVE  CanonicalIdentity' = CanonicalIdentity
BY DEF CanonicalIdentity, CheckoutFiles

LEMMA FreeIsVacuous ==
  ASSUME todo \in Seq(FreeSteps)
  PROVE  /\ Led(todo, Preflights, Captures)
         /\ \A k \in Kinds : Led(todo, {<<"build", PathOf(k)>>}, {<<"capture", k>>})
<1>1. ~ Mentions(todo, Builds \cup Captures)
  BY FreeScriptsBuildNothing
<1>2. \A k \in Kinds : {<<"capture", k>>} \in SUBSET (Builds \cup Captures)
  BY DEF Captures
<1>3. Captures \in SUBSET (Builds \cup Captures)
  OBVIOUS
<1> HIDE DEF Captures, Builds, Kinds, Preflights
<1>4. QED
  BY <1>1, <1>2, <1>3, NotMentioned

(* Steps that neither build nor look at the Flutter.                       *)
LEMMA QuietTraced ==
  ASSUME Typed, Traced, todo # <<>>, Goes \/ Stops,
         Head(todo)[1] \notin {"preflight", "build"},
         UNCHANGED <<host, checkout, sdk, moved, leftover, artifacts, evidence>>
  PROVE  Traced'
<1>1. Head(todo) \notin Preflights /\ \A k \in Kinds : Head(todo) \notin {<<"build", PathOf(k)>>}
  BY DEF Preflights
<1>2. CanonicalIdentity' = CanonicalIdentity
  BY IdentityStays DEF checkout
<1>3. \A p : Fresh(p) => Fresh(p)'
  BY <1>2 DEF Fresh, checkout
<1>4. SdkKnown'
  BY TodoGoesOn DEF Traced, SdkKnown
<1>5. Preflighted'
  BY <1>1, TodoGoesOn DEF Traced, Preflighted
<1>6. BuiltFirst'
  BY <1>1, <1>3, TodoGoesOn DEF Traced, BuiltFirst, Excused
<1>7. EvidenceNamesWhatWasBuilt' /\ LeftoverIsIpa'
  BY DEF Traced, EvidenceNamesWhatWasBuilt, LeftoverIsIpa, Recorded
<1>8. QED
  BY <1>4, <1>5, <1>6, <1>7 DEF Traced

LEMMA BeginTraced == ASSUME Typed, Traced, Begin PROVE Traced'
<1>1. PICK script : Started(script) /\ ScriptShape(script)
  BY BeginStarts
<1>2. /\ Led(todo', Preflights, Captures) /\ ~ Mentions(todo', Replacing)
      /\ \A k \in Kinds : Led(todo', {<<"build", PathOf(k)>>}, {<<"capture", k>>})
  <2>1. todo' = script
    BY <1>1 DEF Started
  <2>2. CASE FreeShape(script)
    <3>1. script \in Seq(FreeSteps) /\ ~ Mentions(script, Replacing)
      BY <2>2 DEF FreeShape
    <3>2. ~ Mentions(script, Builds \cup Captures)
      BY <3>1, FreeScriptsBuildNothing
    <3>3. \A k \in Kinds : {<<"capture", k>>} \in SUBSET (Builds \cup Captures)
      BY DEF Captures
    <3>4. Captures \in SUBSET (Builds \cup Captures)
      OBVIOUS
    <3>5. Led(script, Preflights, Captures)
          /\ \A k \in Kinds : Led(script, {<<"build", PathOf(k)>>}, {<<"capture", k>>})
      BY <3>2, <3>3, <3>4, NotMentioned
    <3>6. QED
      BY <2>1, <3>1, <3>5
  <2>3. CASE GateShape(script)
    <3>1. ~ Mentions(script, CopySteps \cup BrandSteps \cup IconSteps \cup Replacing)
      BY <2>3, GatesOnlyGate DEF GateShape
    <3>2. Replacing \in SUBSET (CopySteps \cup BrandSteps \cup IconSteps \cup Replacing)
      OBVIOUS
    <3>3. ~ Mentions(script, Replacing)
      BY <3>1, <3>2, NotMentioned
    <3>4. QED
      BY <2>1, <2>3, <3>3 DEF GateShape
  <2>4. QED
    BY <1>1, <2>2, <2>3 DEF ScriptShape
<1>3. EvidenceNamesWhatWasBuilt' /\ LeftoverIsIpa' /\ DOMAIN evidence' = Kinds /\ DOMAIN artifacts' = Paths
  BY <1>1 DEF Started, proof, Traced, EvidenceNamesWhatWasBuilt, LeftoverIsIpa, Recorded
<1>4. SdkKnown'
  BY <1>1, <1>2 DEF Started, Traced, SdkKnown
<1>5. QED
  BY <1>2, <1>3, <1>4 DEF Traced, Preflighted, BuiltFirst, Excused

LEMMA BuildTraced == ASSUME Typed, Traced, Build PROVE Traced'
<1>1. todo # <<>> /\ (Goes \/ Stops) /\ Head(todo)[1] = "build" /\ Arg \in Paths
      /\ UNCHANGED <<host, checkout, sdk, evidence>>
  BY HeadIs, ArgsAre DEF Build, At
<1>2. Head(todo) = <<"build", Arg>> /\ Head(todo) \notin Preflights
  BY <1>1, HeadIs DEF Preflights
<1>3. CanonicalIdentity' = CanonicalIdentity /\ lock' = lock
  BY <1>1, IdentityStays DEF checkout
<1>4. SdkKnown'
  BY <1>1, TodoGoesOn DEF Traced, SdkKnown
<1>5. Preflighted'
  BY <1>1, <1>2, TodoGoesOn DEF Traced, Preflighted
<1>6. EvidenceNamesWhatWasBuilt' /\ LeftoverIsIpa'
  BY <1>1 DEF Traced, EvidenceNamesWhatWasBuilt, LeftoverIsIpa, Recorded
<1>7. DOMAIN artifacts' = Paths
  BY DEF Build, Replaces, Traced
<1>8. BuiltFirst'
  <2>1. CASE Stops
    BY <2>1, NoPiece DEF Stops, BuiltFirst, Excused
  <2>2. CASE Goes /\ moved' = moved \ {Arg} /\ Replaces(Arg)
    <3> PICK path \in Paths : path = Arg
      BY <1>1
    <3>1. artifacts'[path] = Built(path)
          /\ \A p \in Paths : p # path => artifacts'[p] = artifacts[p]
      BY <2>2 DEF Traced, Replaces
    <3>2. Fresh(path)'
      BY <1>1, <1>3, <3>1 DEF Fresh, Built, checkout
    <3>3. \A p \in Paths : p # path /\ Fresh(p) => Fresh(p)'
      BY <1>1, <1>3, <3>1 DEF Fresh, checkout
    <3>4. \A p \in Paths : p # path /\ Excused(p) => Excused(p)'
      BY <2>2 DEF Excused, Replaces
    <3>5. SUFFICES ASSUME NEW k \in Kinds, PathOf(k) # path
                   PROVE  Led(todo', {<<"build", PathOf(k)>>}, {<<"capture", k>>})
                          \/ Excused(PathOf(k))' \/ Fresh(PathOf(k))'
      BY <3>2 DEF BuiltFirst
    <3>6. PathOf(k) \in Paths /\ Head(todo) \notin {<<"build", PathOf(k)>>}
      BY <1>2, <3>5 DEF PathOf, Paths
    <3>7. QED
      BY <1>1, <3>3, <3>4, <3>5, <3>6, TodoGoesOn DEF Traced, BuiltFirst
  <2>3. CASE /\ Goes /\ moved' = moved \ {Arg}
             /\ Arg = "ipa" /\ leftover' = TRUE /\ artifacts' = artifacts
    <3>1. SUFFICES ASSUME NEW k \in Kinds, PathOf(k) # "ipa"
                   PROVE  Led(todo', {<<"build", PathOf(k)>>}, {<<"capture", k>>})
                          \/ Excused(PathOf(k))' \/ Fresh(PathOf(k))'
      BY <2>3 DEF BuiltFirst, Excused
    <3>2. \A p \in Paths : Fresh(p) => Fresh(p)'
      BY <1>1, <1>3, <2>3 DEF Fresh, checkout
    <3>3. Excused(PathOf(k)) => Excused(PathOf(k))'
      BY <2>3, <3>1 DEF Excused
    <3>4. PathOf(k) \in Paths /\ Head(todo) \notin {<<"build", PathOf(k)>>}
      BY <1>2, <2>3, <3>1 DEF PathOf, Paths
    <3>5. QED
      BY <1>1, <3>1, <3>2, <3>3, <3>4, TodoGoesOn DEF Traced, BuiltFirst
  <2>4. QED
    BY <2>1, <2>2, <2>3 DEF Build
<1>9. QED
  BY <1>1, <1>4, <1>5, <1>6, <1>7, <1>8 DEF Traced

LEMMA CaptureTraced == ASSUME Typed, Traced, Capture PROVE Traced'
<1>1. /\ todo # <<>> /\ (Goes \/ Stops) /\ Head(todo) = <<"capture", Arg>> /\ Arg \in Kinds
      /\ UNCHANGED <<host, checkout, sdk, moved, leftover, artifacts>>
  BY HeadIs, ArgsAre DEF Capture, At, trace, hand
<1>2. CASE UNCHANGED evidence
  BY <1>1, <1>2, QuietTraced
<1>3. CASE /\ Goes /\ artifacts[PathOf(Arg)] # None
           /\ evidence' = [evidence EXCEPT ![Arg] = Record(Arg)]
  <2>1. CanonicalIdentity' = CanonicalIdentity
    BY <1>1, IdentityStays DEF checkout
  <2>2. Head(todo) \notin Preflights /\ \A k \in Kinds : Head(todo) \notin {<<"build", PathOf(k)>>}
    BY <1>1 DEF Preflights
  <2>3. SdkKnown'
    BY <1>1, TodoGoesOn DEF Traced, SdkKnown
  <2>4. Preflighted'
    BY <1>1, <2>2, TodoGoesOn DEF Traced, Preflighted
  <2>5. \A p : Fresh(p) => Fresh(p)'
    BY <1>1, <2>1 DEF Fresh, checkout
  <2>6. BuiltFirst'
    BY <1>1, <2>2, <2>5, TodoGoesOn DEF Traced, BuiltFirst, Excused
  <2>7. sdk \in Archives /\ (host = "linux" => sdk = "pinned")
    <3>1. Head(todo) \in Captures
      BY <1>1 DEF Captures
    <3>2. sdk \in Archives
      BY <1>1, <3>1, TodoGoesOn DEF Traced, Preflighted
    <3>3. QED
      BY <3>2 DEF Traced, SdkKnown, Archives
  <2>8. Excused(PathOf(Arg)) \/ Fresh(PathOf(Arg))
    <3>1. Head(todo) \in {<<"capture", Arg>>}
      BY <1>1
    <3>2. ~ Led(todo, {<<"build", PathOf(Arg)>>}, {<<"capture", Arg>>})
      BY <1>1, <3>1, TodoGoesOn
    <3>3. QED
      BY <1>1, <3>2 DEF Traced, BuiltFirst, Excused
  <2>9. EvidenceNamesWhatWasBuilt' /\ LeftoverIsIpa'
    <3>1. \A k \in Kinds : k # Arg => evidence'[k] = evidence[k]
      BY <1>1, <1>3 DEF Traced
    <3>2. evidence'[Arg] = Record(Arg)
      BY <1>1, <1>3 DEF Traced
    <3>3. PathOf(Arg) = "ipa" => Arg = "ios-release"
      BY <1>1 DEF PathOf, Kinds
    <3>4. /\ Record(Arg).moved = (PathOf(Arg) \in moved)
          /\ Record(Arg).leftover = (Arg = "ios-release" /\ leftover)
          /\ Record(Arg).artifact = artifacts[PathOf(Arg)]
          /\ Record(Arg).canonical = CanonicalIdentity
          /\ Record(Arg).lock = lock /\ Record(Arg).sdk = sdk
      BY DEF Record
    <3>5. \/ Record(Arg).moved \/ Record(Arg).leftover
          \/ <<Record(Arg).artifact.canonical, Record(Arg).artifact.lock, Record(Arg).artifact.sdk>>
                = <<Record(Arg).canonical, Record(Arg).lock, Record(Arg).sdk>>
      BY <1>3, <2>8, <3>3, <3>4 DEF Excused, Fresh
    <3>6. /\ Record(Arg).sdk \in Archives /\ (host = "linux" => Record(Arg).sdk = "pinned")
          /\ Record(Arg).leftover => Arg = "ios-release"
      BY <2>7, <3>4
    <3>7. host' = host
      BY <1>1
    <3>8. QED
      BY <3>1, <3>2, <3>5, <3>6, <3>7 DEF Traced, EvidenceNamesWhatWasBuilt, LeftoverIsIpa, Recorded
  <2>10. DOMAIN evidence' = Kinds /\ DOMAIN artifacts' = Paths
    BY <1>1, <1>3 DEF Traced
  <2>11. QED
    BY <2>3, <2>4, <2>6, <2>9, <2>10 DEF Traced
<1>4. QED
  BY <1>2, <1>3 DEF Capture

LEMMA InstallTraced == ASSUME Typed, Traced, Manifest \/ InstallStep PROVE Traced'
<1>1. todo # <<>> /\ Head(todo)[1] \in SdkOps \cup {"manifest"}
      /\ UNCHANGED <<host, checkout, moved, leftover, artifacts, evidence>>
  BY DEF Manifest, InstallStep, At, SdkOps, proof, trace, hand
<1>2. todo \in Seq(FreeSteps)
  BY <1>1, HeadIs DEF GateOps, SdkOps
<1>3. todo' \in Seq(FreeSteps) /\ SdkKnown'
  <2>1. CASE Goes \/ Stops
    <3>1. lock' = lock
      BY <1>1 DEF checkout
    <3>2. todo' = <<>> \/ todo' = Tail(todo)
      BY <2>1 DEF Goes, Stops
    <3>3. todo' \in Seq(FreeSteps)
      <4>1. Tail(todo) \in Seq(FreeSteps) /\ <<>> \in Seq(FreeSteps)
        BY <1>1, <1>2, TailIs
      <4>2. QED
        BY <3>2, <4>1
    <3>4. host = "linux" => ~ Mentions(todo', Replacing) /\ Head(todo) \notin Replacing
      BY <1>1, <2>1, TodoGoesOn DEF Traced, SdkKnown
    <3>5. host = "linux" => sdk' # "replaced"
      <4>1. CASE At("sdkMove") /\ sdk' = Arg
        <5>1. Arg = "replaced" => Head(todo) \in Replacing
          BY <1>1, <4>1, HeadIs DEF At, Replacing, SdkOps
        <5>2. QED
          BY <3>4, <4>1, <5>1
      <4>2. CASE ~ (At("sdkMove") /\ sdk' = Arg)
        BY <4>2 DEF Manifest, InstallStep, Traced, SdkKnown
      <4>3. QED
        BY <4>1, <4>2
    <3>6. QED
      BY <1>1, <3>3, <3>4, <3>5 DEF SdkKnown
  <2>2. ASSUME NEW release, NEW sum \in Archives, host = "linux" => sum = "pinned",
               todo' = [n \in 1 .. 3 |-> <<<<"sdkRemove", "sdkFetch", "sdkMove">>[n], sum>>],
               sdk' = sdk
        PROVE  todo' \in Seq(FreeSteps) /\ SdkKnown'
    <3>1. \A n \in 1 .. 3 : todo'[n] \in FreeSteps
      <4>1. \A n \in 1 .. 3 : <<"sdkRemove", "sdkFetch", "sdkMove">>[n] \in SdkOps
        BY DEF SdkOps
      <4>2. \A op \in SdkOps : <<op, sum>> \in FreeSteps
        BY <2>2, ArgsAre, FreeStepIn DEF FreeOps
      <4>3. QED
        BY <2>2, <4>1, <4>2
    <3>2. todo' \in [1 .. 3 -> FreeSteps]
      BY <2>2, <3>1
    <3>3. todo' \in Seq(FreeSteps)
      BY <3>2, SeqDef
    <3>4. sum # "replaced" => ~ Mentions(todo', Replacing)
      BY <2>2 DEF Mentions, Replacing
    <3>5. QED
      BY <1>1, <2>2, <3>3, <3>4 DEF SdkKnown, Traced
  <2>3. QED
    <3>1. CASE InstallStep
      BY <2>1, <3>1 DEF InstallStep
    <3>2. CASE Manifest
      BY <2>1, <2>2, <3>2 DEF Manifest, ReleaseAccepted
    <3>3. QED
      BY <3>1, <3>2
<1>4. Led(todo', Preflights, Captures)
      /\ \A k \in Kinds : Led(todo', {<<"build", PathOf(k)>>}, {<<"capture", k>>})
  <2>1. ~ Mentions(todo', Builds \cup Captures)
    BY <1>3, FreeScriptsBuildNothing
  <2>2. \A k \in Kinds : {<<"capture", k>>} \in SUBSET (Builds \cup Captures)
    BY DEF Captures
  <2>3. Captures \in SUBSET (Builds \cup Captures)
    OBVIOUS
  <2> HIDE DEF Captures, Builds
  <2>4. QED
    BY <2>1, <2>2, <2>3, NotMentioned
<1>5. EvidenceNamesWhatWasBuilt' /\ LeftoverIsIpa'
  BY <1>1 DEF Traced, EvidenceNamesWhatWasBuilt, LeftoverIsIpa, Recorded
<1>6. QED
  BY <1>1, <1>3, <1>4, <1>5 DEF Traced, Preflighted, BuiltFirst, Excused

LEMMA StepTraced == ASSUME Typed, Traced, Step PROVE Traced'
<1>1. CASE Preflight
  <2>1. /\ todo # <<>> /\ (Goes \/ Stops) /\ Head(todo)[1] = "preflight"
        /\ UNCHANGED <<host, checkout, sdk, moved, leftover, artifacts, evidence>>
    BY <1>1 DEF Preflight, At, proof, trace, hand
  <2>2. CASE Stops
    <3>1. CanonicalIdentity' = CanonicalIdentity
      BY <2>1, IdentityStays DEF checkout
    <3>2. SdkKnown' /\ Preflighted' /\ BuiltFirst'
      BY <2>1, <2>2, TodoGoesOn, NoPiece DEF Stops, SdkKnown, Preflighted, BuiltFirst, Excused, Traced
    <3>3. EvidenceNamesWhatWasBuilt' /\ LeftoverIsIpa'
      BY <2>1 DEF Traced, EvidenceNamesWhatWasBuilt, LeftoverIsIpa, Recorded
    <3>4. QED
      BY <2>1, <3>2, <3>3 DEF Traced
  <2>3. CASE Goes /\ sdk \in Archives
    <3>1. CanonicalIdentity' = CanonicalIdentity
      BY <2>1, IdentityStays DEF checkout
    <3>2. \A p : Fresh(p) => Fresh(p)'
      BY <2>1, <3>1 DEF Fresh, checkout
    <3>3. \A k \in Kinds : Head(todo) \notin {<<"build", PathOf(k)>>}
      BY <2>1
    <3>4. SdkKnown' /\ Preflighted'
      BY <2>1, <2>3, TodoGoesOn DEF SdkKnown, Preflighted, Traced
    <3>5. BuiltFirst'
      BY <2>1, <3>2, <3>3, TodoGoesOn DEF BuiltFirst, Excused, Traced
    <3>6. EvidenceNamesWhatWasBuilt' /\ LeftoverIsIpa'
      BY <2>1 DEF Traced, EvidenceNamesWhatWasBuilt, LeftoverIsIpa, Recorded
    <3>7. QED
      BY <2>1, <3>4, <3>5, <3>6 DEF Traced
  <2>4. QED
    BY <1>1, <2>2, <2>3 DEF Preflight, ToolchainAccepted
<1>2. CASE DeleteShells \/ CopyShell \/ Audits \/ Tests \/ IosContractCheck \/ Report
  <2>1. /\ todo # <<>> /\ (Goes \/ Stops) /\ Head(todo)[1] \notin {"preflight", "build"}
        /\ UNCHANGED <<host, checkout, sdk, moved, leftover, artifacts, evidence>>
    BY <1>2 DEF DeleteShells, CopyShell, Audits, Tests, IosContractCheck, Report, At, proof, trace, hand
  <2>2. QED
    BY <2>1, QuietTraced
<1>3. CASE PatchShell \/ Signing
  <2>1. /\ todo # <<>> /\ (Goes \/ Stops) /\ Head(todo)[1] \notin {"preflight", "build"}
        /\ UNCHANGED <<host, checkout, sdk, moved, leftover, artifacts, evidence>>
    BY <1>3 DEF PatchShell, Signing, RunTool, At, Tools, proof, trace, hand
  <2>2. QED
    BY <2>1, QuietTraced
<1>4. CASE PubGet
  <2>1. /\ todo # <<>> /\ (Goes \/ Stops) /\ Head(todo)[1] = "pubGet"
        /\ UNCHANGED <<host, src, head, lockHead, sdk, moved, leftover, artifacts, evidence>>
    BY <1>4 DEF PubGet, At, proof, trace, hand
  <2>2. CASE lock' = lock
    BY <2>1, <2>2, QuietTraced DEF checkout
  <2>3. CASE lock' # lock
    <3>1. lock = None
      BY <1>4, <2>3 DEF PubGet
    <3>2. todo \in Seq(FreeSteps)
      BY <3>1 DEF Typed, Scripted
    <3>3. /\ Led(todo, Preflights, Captures)
          /\ \A k \in Kinds : Led(todo, {<<"build", PathOf(k)>>}, {<<"capture", k>>})
      BY <3>2, FreeIsVacuous
    <3>4. Head(todo) \notin Preflights /\ \A k \in Kinds : Head(todo) \notin {<<"build", PathOf(k)>>}
      BY <2>1 DEF Preflights
    <3>5. SdkKnown' /\ Preflighted' /\ BuiltFirst'
      BY <2>1, <3>3, <3>4, TodoGoesOn DEF SdkKnown, Preflighted, BuiltFirst, Excused, Traced
    <3>6. EvidenceNamesWhatWasBuilt' /\ LeftoverIsIpa'
      BY <2>1 DEF Traced, EvidenceNamesWhatWasBuilt, LeftoverIsIpa, Recorded
    <3>7. QED
      BY <2>1, <3>5, <3>6 DEF Traced
  <2>4. QED
    BY <2>2, <2>3
<1>5. CASE Build
  BY <1>5, BuildTraced
<1>6. CASE Capture
  BY <1>6, CaptureTraced
<1>7. CASE Manifest \/ InstallStep
  BY <1>7, InstallTraced
<1>8. QED
  BY <1>1, <1>2, <1>3, <1>4, <1>5, <1>6, <1>7 DEF Step

LEMMA KillTraced == ASSUME Typed, Traced, Kill PROVE Traced'
<1>1. todo' = <<>> /\ UNCHANGED <<host, artifacts, moved, leftover>>
  BY DEF Kill, trace, hand
<1>2. sdk' = sdk \/ sdk' = "partial"
  BY DEF Kill, KillEffect
<1>3. \/ evidence' = evidence
      \/ At("capture") /\ evidence' = [evidence EXCEPT ![Arg] = Torn]
  BY DEF Kill, KillEffect
<1>4. DOMAIN evidence' = Kinds /\ \A k \in Kinds : evidence'[k] \in {evidence[k], Torn}
  BY <1>3 DEF Traced
<1>5. EvidenceNamesWhatWasBuilt' /\ LeftoverIsIpa'
  BY <1>1, <1>4 DEF Traced, EvidenceNamesWhatWasBuilt, LeftoverIsIpa, Recorded
<1>6. SdkKnown' /\ Preflighted' /\ BuiltFirst'
  BY <1>1, <1>2, NoPiece DEF Traced, SdkKnown, Preflighted, BuiltFirst, Excused
<1>7. QED
  BY <1>1, <1>4, <1>5, <1>6 DEF Traced

(* An edit, a new lock or a commit under a running script counts as moved; *)
(* between scripts nothing is left to do.                                  *)
LEMMA DeveloperTraced == ASSUME Typed, Traced, Developer PROVE Traced'
<1>1. todo' = todo /\ UNCHANGED <<host, sdk>>
  BY DEF Developer, Edit, Resolve, Commit, EditShell, PutKey, TidyUp, Disturbs, Moves, trace, hand
<1>2. SdkKnown' /\ Preflighted'
  BY <1>1 DEF Traced, SdkKnown, Preflighted
<1>3. /\ DOMAIN evidence' = Kinds /\ DOMAIN artifacts' = Paths
      /\ \A k \in Kinds : evidence'[k] \in {evidence[k], None}
  BY DEF Developer, Edit, Resolve, Commit, EditShell, PutKey, TidyUp, Disturbs, Traced, Moves, trace, hand
<1>4. EvidenceNamesWhatWasBuilt' /\ LeftoverIsIpa'
  BY <1>1, <1>3 DEF Traced, EvidenceNamesWhatWasBuilt, LeftoverIsIpa, Recorded
<1>5. BuiltFirst'
  <2>1. CASE Idle
    BY <1>1, <2>1, NoPiece DEF Idle, BuiltFirst, Excused
  <2>2. CASE Edit \/ Resolve \/ Commit
    <3>1. moved' = IF Idle THEN moved ELSE Paths
      BY <2>2 DEF Edit, Resolve, Commit, Moves
    <3>2. \A k \in Kinds : PathOf(k) \in Paths
      BY DEF PathOf, Paths
    <3>3. QED
      BY <2>1, <3>1, <3>2 DEF BuiltFirst, Excused
  <2>3. CASE EditShell \/ PutKey
    <3>1. UNCHANGED <<checkout, moved, leftover, artifacts>>
      BY <2>3 DEF EditShell, PutKey, Disturbs, trace
    <3>2. CanonicalIdentity' = CanonicalIdentity
      BY <3>1, IdentityStays DEF checkout
    <3>3. QED
      BY <1>1, <3>1, <3>2 DEF Traced, BuiltFirst, Excused, Fresh, checkout
  <2>4. TidyUp => Idle
    BY DEF TidyUp
  <2>5. QED
    BY <2>1, <2>2, <2>3, <2>4 DEF Developer
<1>6. QED
  BY <1>2, <1>3, <1>4, <1>5 DEF Traced

LEMMA StutterTraced == ASSUME Traced, UNCHANGED vars PROVE Traced'
<1>1. CanonicalIdentity' = CanonicalIdentity
  BY IdentityStays DEF vars, checkout
<1>2. QED
  BY <1>1 DEF vars, checkout, proof, trace, Traced, SdkKnown, Preflighted, BuiltFirst, Excused, Fresh,
              EvidenceNamesWhatWasBuilt, LeftoverIsIpa, Recorded

LEMMA InitTraced == ASSUME Init PROVE Traced
BY NoPiece DEF Init, Traced, SdkKnown, Preflighted, BuiltFirst, Excused, EvidenceNamesWhatWasBuilt, LeftoverIsIpa, Recorded

LEMMA NextTraced == Typed /\ Traced /\ [Next]_vars => Traced'
BY BeginTraced, StepTraced, KillTraced, DeveloperTraced, StutterTraced DEF Next

(* No gate records an artifact that an earlier build left behind           *)
(* (tool/native_compile_gate.sh, tool/native_release_gate.sh,              *)
(* tool/capture_native_evidence.py): evidence names the source, the lock   *)
(* and the Flutter the artifact was made of, unless the source moved       *)
(* between that build and the capture, or the store gate's build left      *)
(* another .ipa for the gate to find.  Evidence of any artifact is of an   *)
(* accepted Flutter, and on Linux its checksum is pinned.                  *)
THEOREM EvidenceIsOfTheBuild == Spec => []EvidenceNamesWhatWasBuilt
<1>1. Init => Typed /\ Traced
  BY InitTyped, InitTraced
<1>2. Typed /\ Traced /\ [Next]_vars => (Typed /\ Traced)'
  BY NextTyped, NextTraced
<1>3. Traced => EvidenceNamesWhatWasBuilt
  BY DEF Traced
<1>4. QED
  BY <1>1, <1>2, <1>3, PTL DEF Spec

(* The readiness report says READY_FOR_DEVICE only when both platforms     *)
(* were built of the source and the lock that are there, and the two       *)
(* records pass verify_ci_native_evidence as well                          *)
(* (tool/release_readiness_report.py).                                     *)
THEOREM ReadinessIsEarned == Spec => ReadyIsEarned
<1> DEFINE Earned ==
      At("report") /\ outcome' = "passed" /\ report'.overall = "READY_FOR_DEVICE" =>
        /\ SameBuild(evidence["android-compile"], evidence["ios-compile"])
        /\ \A k \in CompileKinds :
             ~ evidence[k].moved => /\ evidence[k].artifact.canonical = CanonicalIdentity
                                    /\ evidence[k].artifact.lock = lock
<1>1. ASSUME Typed, Traced, [Next]_vars PROVE [Earned]_vars
  <2>1. SUFFICES ASSUME Next, At("report"), outcome' = "passed",
                        report'.overall = "READY_FOR_DEVICE"
                 PROVE  Earned
    BY <1>1
  <2>2. Report
    <3>1. outcome = "running"
      BY <1>1, <2>1 DEF At, Typed, Ran
    <3>2. CASE Begin
      BY <2>1, <3>2, BeginStarts DEF Started
    <3>3. CASE Kill
      BY <2>1, <3>3 DEF Kill
    <3>4. CASE Developer
      BY <2>1, <3>1, <3>4 DEF Developer, Edit, Resolve, Commit, EditShell, PutKey, TidyUp, Disturbs, Moves, trace, hand
    <3>5. CASE Step
      BY <2>1, <3>5 DEF Step, Preflight, DeleteShells, CopyShell, PatchShell, Audits, PubGet, Tests,
                        Signing, Build, IosContractCheck, Capture, Manifest, InstallStep, At, Tools
    <3>6. QED
      BY <2>1, <3>2, <3>3, <3>4, <3>5 DEF Next
  <2>3. report' = Readiness
    BY <2>1, <2>2 DEF Report, Stops
  <2>4. Proved(CompileKinds)
    BY <2>1, <2>3 DEF Readiness
  <2>5. ASSUME NEW k \in CompileKinds
        PROVE  /\ Recorded(k) /\ evidence[k].canonical = CanonicalIdentity
               /\ evidence[k].lock = lock /\ evidence[k].sdk \in Archives
    <3>1. EvidenceState(k) = "PASS"
      BY <2>4, <2>5 DEF Proved
    <3>2. QED
      BY <3>1 DEF EvidenceState, Recorded
  <2>6. SameBuild(evidence["android-compile"], evidence["ios-compile"])
    BY <2>5 DEF SameBuild, CompileKinds
  <2>7. \A k \in CompileKinds :
          ~ evidence[k].moved => /\ evidence[k].artifact.canonical = CanonicalIdentity
                                 /\ evidence[k].artifact.lock = lock
    <3>1. SUFFICES ASSUME NEW k \in CompileKinds, ~ evidence[k].moved
                   PROVE  /\ evidence[k].artifact.canonical = CanonicalIdentity
                          /\ evidence[k].artifact.lock = lock
      OBVIOUS
    <3>2. k \in Kinds /\ k # "ios-release" /\ Recorded(k)
      BY <2>5, <3>1 DEF CompileKinds, Kinds
    <3>3. ~ evidence[k].leftover
      BY <1>1, <3>2 DEF Traced, LeftoverIsIpa
    <3>4. <<evidence[k].artifact.canonical, evidence[k].artifact.lock, evidence[k].artifact.sdk>>
            = <<evidence[k].canonical, evidence[k].lock, evidence[k].sdk>>
      BY <1>1, <3>1, <3>2, <3>3 DEF Traced, EvidenceNamesWhatWasBuilt
    <3>5. QED
      BY <2>5, <3>1, <3>4
  <2>8. QED
    BY <2>6, <2>7
<1>2. Init => Typed /\ Traced
  BY InitTyped, InitTraced
<1>3. Typed /\ Traced /\ [Next]_vars => (Typed /\ Traced)'
  BY NextTyped, NextTraced
<1>4. QED
  BY <1>1, <1>2, <1>3, PTL DEF Spec, ReadyIsEarned

-----------------------------------------------------------------------------
(* What the tools do to a shell that is hardened or branded.               *)

Hardened(sh, f) ==
  /\ sh[f] # Absent
  /\ f \in AndroidFiles => sh["manifest"] # Absent
  /\ f \in Fragile => Structured(sh[f])
  => HardeningMarks[f] \subseteq DOMAIN sh[f]

BrandFiles == {"manifest", "plist", "drawables", "styles", "v31", "launchScreen"}
Structural == {"manifest", "plist", "styles", "v31"}

Branded(sh, f) ==
  sh[f] # Absent /\ (f \in Structural => Structured(sh[f])) => IdentityMarks[f] \subseteq DOMAIN sh[f]

Icons(sh) == "icons" \in DOMAIN sh["launcher"] \/ "icons" \in DOMAIN sh["appIcon"]

Identified(sh) ==
  /\ sh["styles"] # Absent => "icons" \in DOMAIN sh["launcher"]
  /\ sh["appIcon"] # Absent => "icons" \in DOMAIN sh["appIcon"]

LEMMA HardeningDomain ==
  DOMAIN HardeningMarks = {"manifest", "rules", "gradle", "activity", "styles", "plist", "project"}
BY DEF HardeningMarks

(* A hardening step hardens its file, and undoes nothing.                  *)
LEMMA HardeningHardens ==
  ASSUME NEW sh, Clean(sh), NEW f \in FilesFor("hardening")
  PROVE  LET sh2 == Patched("hardening", f, sh) IN
         /\ f # "v31" => Hardened(sh2, f)
         /\ \A g \in DOMAIN HardeningMarks : Hardened(sh, g) => Hardened(sh2, g)
         /\ \A g \in BrandFiles : Branded(sh, g) => Branded(sh2, g)
         /\ sh2["launcher"] = sh["launcher"] /\ sh2["appIcon"] = sh["appIcon"]
         /\ sh2["styles"] # Absent => sh["styles"] # Absent
         /\ \A key_ : SigningVerified(key_, sh["gradle"]) => SigningVerified(key_, sh2["gradle"])
<1> DEFINE sh2 == Patched("hardening", f, sh)
           c == sh[f]
           d == Harden(f, c)
<1>1. /\ Once(c) /\ sh2[f] = (IF Reaches("hardening", f, sh) THEN d ELSE c)
      /\ \A g \in Files \ {f} : sh2[g] = sh[g]
  <2>1. "hardening" \in Tools \cup {"signing"} /\ f \in Files
    BY FilesAre DEF Tools
  <2>2. Patch("hardening", f, c) = d
    BY DEF Patch
  <2>3. QED
    BY <2>1, <2>2, PatchedClean DEF Clean
<1>2. /\ Once(d)
      /\ f \notin {"rules", "activity"} => DOMAIN c \subseteq DOMAIN d
      /\ f \notin {"rules", "activity"} => (DOMAIN d \ DOMAIN c) \cap OtherMarks = {}
      /\ f # "v31" /\ (f \in Fragile => Structured(c)) => HardeningMarks[f] \subseteq DOMAIN d
      /\ c # Absent \/ f = "rules" => d # Absent
      /\ f = "v31" => d = c
  BY <1>1, HardenIs
<1>3. /\ f \in AndroidFiles /\ sh["manifest"] = Absent => ~ Reaches("hardening", f, sh)
      /\ c = Absent /\ f # "rules" => ~ Reaches("hardening", f, sh)
      /\ c # Absent /\ (f \in AndroidFiles => sh["manifest"] # Absent) => Reaches("hardening", f, sh)
  BY DEF Reaches, Makes
<1>4. \A m \in OtherMarks : f \notin {"rules", "activity"} /\ m \in DOMAIN d => m \in DOMAIN c
  BY <1>2
<1>5. f \in Files /\ {"launcher", "appIcon", "styles", "gradle", "manifest"} \subseteq Files
      /\ f \notin {"launcher", "appIcon"} /\ BrandFiles \subseteq Files
      /\ DOMAIN HardeningMarks \subseteq Files
  BY HardeningDomain DEF FilesFor, Files, AndroidFiles, IosFiles, BrandFiles
<1>6. sh2["manifest"] # Absent => sh["manifest"] # Absent
  BY <1>1, <1>3, <1>5
<1> HIDE DEF sh2, c, d
<1>7. f # "v31" => Hardened(sh2, f)
  <2>1. SUFFICES ASSUME f # "v31", sh2[f] # Absent, f \in AndroidFiles => sh2["manifest"] # Absent,
                        f \in Fragile => Structured(sh2[f])
                 PROVE  HardeningMarks[f] \subseteq DOMAIN sh2[f]
    BY DEF Hardened
  <2>2. CASE Reaches("hardening", f, sh)
    <3>1. sh2[f] = d
      BY <1>1, <2>2
    <3>2. f \in Fragile => Structured(c)
      BY <1>4, <2>1, <3>1, HasIs DEF Structured, OtherMarks, Fragile
    <3>3. QED
      BY <1>2, <2>1, <3>1, <3>2
  <2>3. CASE ~ Reaches("hardening", f, sh)
    BY <1>1, <1>3, <1>6, <2>1, <2>3 DEF c
  <2>4. QED
    BY <2>2, <2>3
<1>8. ASSUME NEW g \in DOMAIN HardeningMarks, Hardened(sh, g) PROVE Hardened(sh2, g)
  <2>1. CASE g = f
    BY <1>7, <2>1, <1>8, HardeningDomain
  <2>2. CASE g # f
    BY <1>1, <1>5, <1>6, <1>8, <2>2 DEF Hardened
  <2>3. QED
    BY <2>1, <2>2
<1>9. ASSUME NEW g \in BrandFiles, Branded(sh, g) PROVE Branded(sh2, g)
  <2>1. CASE g # f
    BY <1>1, <1>5, <1>9, <2>1 DEF Branded
  <2>2. CASE g = f /\ Reaches("hardening", f, sh)
    <3>1. f \in Structural /\ f \notin {"rules", "activity"}
      BY <1>9, <2>2 DEF BrandFiles, Structural, FilesFor
    <3>2. Structured(d) => Structured(c)
      BY <1>4, <3>1, HasIs DEF Structured, OtherMarks
    <3>3. sh2[f] = d /\ c # Absent
      BY <1>1, <1>3, <2>2, <3>1
    <3>4. QED
      BY <1>2, <1>9, <2>2, <3>1, <3>2, <3>3 DEF Branded, c
  <2>3. CASE g = f /\ ~ Reaches("hardening", f, sh)
    BY <1>1, <1>9, <2>3 DEF Branded, c
  <2>4. QED
    BY <2>1, <2>2, <2>3
<1>10. sh2["launcher"] = sh["launcher"] /\ sh2["appIcon"] = sh["appIcon"]
  BY <1>1, <1>5
<1>11. sh2["styles"] # Absent => sh["styles"] # Absent
  BY <1>1, <1>3, <1>5 DEF c
<1>12. ASSUME NEW key_, SigningVerified(key_, sh["gradle"])
       PROVE  SigningVerified(key_, sh2["gradle"])
  <2>1. CASE f = "gradle"
    <3>1. DOMAIN c \subseteq DOMAIN d /\ ("debugSigning" \in DOMAIN d => "debugSigning" \in DOMAIN c)
      BY <1>2, <1>4, <2>1 DEF OtherMarks
    <3>2. sh2["gradle"] \in {c, d} /\ c = sh["gradle"]
      BY <1>1, <2>1 DEF c
    <3>3. QED
      BY <1>12, <3>1, <3>2, HasIs DEF SigningVerified
  <2>2. CASE f # "gradle"
    BY <1>1, <1>5, <1>12, <2>2
  <2>3. QED
    BY <2>1, <2>2
<1>13. QED
  BY <1>7, <1>8, <1>9, <1>10, <1>11, <1>12 DEF sh2

(* Files a build or the v49 patch touches gain marks and no structure.     *)
LEMMA GrowthKeeps ==
  ASSUME NEW sh, Clean(sh), NEW f \in {"activity", "plist"}, NEW marks, NEW m \in marks, m # "absent",
         "template" \notin marks, sh[f] # Absent
  PROVE  LET sh2 == [sh EXCEPT ![f] = Insert(@, marks)] IN
         /\ \A g \in DOMAIN HardeningMarks : Hardened(sh, g) => Hardened(sh2, g)
         /\ \A g \in BrandFiles : Branded(sh, g) => Branded(sh2, g)
         /\ sh2["launcher"] = sh["launcher"] /\ sh2["appIcon"] = sh["appIcon"]
         /\ sh2["styles"] = sh["styles"] /\ sh2["gradle"] = sh["gradle"]
<1> DEFINE sh2 == [sh EXCEPT ![f] = Insert(@, marks)]
<1>1. Grown(sh[f], Insert(sh[f], marks), marks)
  BY InsertGrows DEF Clean, Files, AndroidFiles, IosFiles
<1>2. /\ f \in Files /\ {"launcher", "appIcon", "styles", "gradle", "manifest"} \subseteq Files \ {f}
      /\ BrandFiles \subseteq Files /\ DOMAIN HardeningMarks \subseteq Files /\ f \notin Fragile
  BY HardeningDomain DEF Files, AndroidFiles, IosFiles, BrandFiles, Fragile
<1>3. sh2[f] = Insert(sh[f], marks) /\ \A g \in Files \ {f} : sh2[g] = sh[g]
  BY <1>2 DEF Clean
<1> HIDE DEF sh2
<1>4. /\ DOMAIN sh[f] \subseteq DOMAIN sh2[f]
      /\ Structured(sh2[f]) => Structured(sh[f])
  BY <1>1, <1>3, HasIs DEF Grown, Structured
<1>5. \A g \in DOMAIN HardeningMarks : Hardened(sh, g) => Hardened(sh2, g)
  BY <1>2, <1>3, <1>4 DEF Hardened
<1>6. \A g \in BrandFiles : Branded(sh, g) => Branded(sh2, g)
  BY <1>2, <1>3, <1>4 DEF Branded
<1>7. QED
  BY <1>2, <1>3, <1>5, <1>6 DEF sh2

LEMMA LifecycleKeeps ==
  ASSUME NEW sh, Clean(sh)
  PROVE  LET sh2 == Patched("v49", "activity", sh) IN
         /\ \A g \in DOMAIN HardeningMarks : Hardened(sh, g) => Hardened(sh2, g)
         /\ \A g \in BrandFiles : Branded(sh, g) => Branded(sh2, g)
         /\ sh2["launcher"] = sh["launcher"] /\ sh2["appIcon"] = sh["appIcon"]
         /\ sh2["styles"] = sh["styles"] /\ sh2["gradle"] = sh["gradle"]
<1>1. CASE Reaches("v49", "activity", sh)
  <2>1. sh["activity"] # Absent
    BY <1>1 DEF Reaches, Makes
  <2>2. Patched("v49", "activity", sh) = [sh EXCEPT !["activity"] = Insert(@, {"imports", "deviceLock"})]
    BY <1>1 DEF Patched, Patch, AddDeviceLock
  <2> DEFINE marks == {"imports", "deviceLock"}
  <2>3. "imports" \in marks /\ "template" \notin marks
    OBVIOUS
  <2> HIDE DEF marks
  <2>4. "activity" \in {"activity", "plist"} /\ "imports" # "absent"
    OBVIOUS
  <2> DEFINE sh2 == [sh EXCEPT !["activity"] = Insert(@, marks)]
  <2>5. /\ \A g \in DOMAIN HardeningMarks : Hardened(sh, g) => Hardened(sh2, g)
        /\ \A g \in BrandFiles : Branded(sh, g) => Branded(sh2, g)
        /\ sh2["launcher"] = sh["launcher"] /\ sh2["appIcon"] = sh["appIcon"]
        /\ sh2["styles"] = sh["styles"] /\ sh2["gradle"] = sh["gradle"]
    BY <2>1, <2>3, <2>4, GrowthKeeps
  <2> HIDE DEF sh2
  <2>6. Patched("v49", "activity", sh) = sh2
    BY <2>2 DEF sh2, marks
  <2>7. QED
    BY <2>5, <2>6
<1>2. CASE ~ Reaches("v49", "activity", sh)
  BY <1>2 DEF Patched
<1>3. QED
  BY <1>1, <1>2

(* A branding or splash step gives its file the identity, and touches no   *)
(* other file.                                                             *)
LEMMA BrandingBrands ==
  ASSUME NEW sh, Clean(sh), NEW tool \in {"branding", "splash"}, NEW f \in FilesFor(tool)
  PROVE  LET sh2 == Patched(tool, f, sh) IN
         /\ Branded(sh2, f) /\ f \in BrandFiles
         /\ \A g \in Files \ {f} : sh2[g] = sh[g]
<1> DEFINE sh2 == Patched(tool, f, sh)
           c == sh[f]
           d == Patch(tool, f, c)
<1>1. /\ Once(c) /\ sh2[f] = (IF Reaches(tool, f, sh) THEN d ELSE c)
      /\ \A g \in Files \ {f} : sh2[g] = sh[g]
  <2>1. tool \in Tools \cup {"signing"} /\ f \in Files
    BY FilesAre DEF Tools
  <2>2. QED
    BY <2>1, PatchedClean DEF Clean
<1>2. f \in BrandFiles
  BY DEF FilesFor, BrandFiles
<1>3. CASE ~ Reaches(tool, f, sh)
  <2>1. c = Absent
    BY <1>3 DEF Reaches
  <2>2. QED
    BY <1>1, <1>2, <1>3, <2>1 DEF Branded
<1>4. CASE Reaches(tool, f, sh)
  <2>1. sh2[f] = d
    BY <1>1, <1>4
  <2>2. IdentityMarks[f] \subseteq DOMAIN d
    <3>1. \A marks : DOMAIN Insert(c, marks) = DOMAIN c \cup marks /\ DOMAIN Marked(marks) = marks
      BY <1>1, InsertIs, MarkedIs
    <3>2. CASE tool = "branding" /\ f = "manifest"
      <4>1. d = Insert(c, {"label", "icon"}) /\ IdentityMarks[f] = {"label", "icon"}
        BY <3>2 DEF Patch, Brand, IdentityMarks
      <4>2. QED
        BY <3>1, <4>1
    <3>3. CASE tool = "branding" /\ f = "plist"
      <4>1. d = Insert(c, {"label", "faceId"}) /\ IdentityMarks[f] = {"label"}
        BY <3>3 DEF Patch, Brand, IdentityMarks
      <4>2. QED
        BY <3>1, <4>1
    <3>4. CASE tool = "splash" /\ f \in {"drawables", "launchScreen"}
      <4>1. d = Marked({"splash"}) /\ IdentityMarks[f] = {"splash"}
        BY <3>4 DEF Patch, Splash, IdentityMarks
      <4>2. QED
        BY <3>1, <4>1
    <3>5. CASE tool = "splash" /\ f = "styles"
      <4>1. d = Insert(c, {"splash"}) /\ IdentityMarks[f] = {"splash"}
        BY <3>5 DEF Patch, Splash, IdentityMarks
      <4>2. QED
        BY <3>1, <4>1
    <3>6. CASE tool = "splash" /\ f = "v31"
      <4>1. d \in {Marked({"template", "appCompat", "splash"}), Insert(c, {"splash"})}
            /\ IdentityMarks[f] = {"splash"}
        BY <3>6 DEF Patch, Splash, IdentityMarks
      <4>2. QED
        BY <3>1, <4>1
    <3>7. QED
      BY <3>2, <3>3, <3>4, <3>5, <3>6 DEF FilesFor
  <2>3. QED
    BY <1>1, <1>2, <2>1, <2>2 DEF Branded
<1>5. QED
  BY <1>3, <1>4

LEMMA OtherFilesStay ==
  ASSUME NEW sh, NEW sh2, NEW f, \A g \in Files \ {f} : sh2[g] = sh[g]
  PROVE  /\ \A g \in BrandFiles \ {f} : Branded(sh, g) => Branded(sh2, g)
         /\ f \notin {"launcher", "appIcon"} => (Icons(sh2) <=> Icons(sh))
BY DEF BrandFiles, Files, AndroidFiles, IosFiles, Branded, Icons

(* What is compiled has all its files, and with them all their marks.      *)
LEMMA HardenedCarries ==
  ASSUME NEW sh, \A f \in DOMAIN HardeningMarks : Hardened(sh, f),
         NEW platform \in {"android", "ios"}, Buildable(sh, platform)
  PROVE  Carries(sh, platform, HardeningMarks)
<1>1. SUFFICES ASSUME NEW f \in DOMAIN HardeningMarks \cap FilesOf(platform)
               PROVE  \A m \in HardeningMarks[f] : Has(sh[f], m)
  BY DEF Carries
<1>2. sh[f] # Absent /\ (f \in Fragile => Structured(sh[f]))
  BY <1>1 DEF Buildable, Fragile
<1>3. f \in AndroidFiles => sh["manifest"] # Absent
  BY <1>1 DEF FilesOf, AndroidFiles, IosFiles, Buildable
<1>4. HardeningMarks[f] \subseteq DOMAIN sh[f]
  BY <1>1, <1>2, <1>3 DEF Hardened
<1>5. QED
  BY <1>4, HasIs

LEMMA BrandedCarries ==
  ASSUME NEW sh, Icons(sh) => \A f \in BrandFiles : Branded(sh, f), Identified(sh),
         NEW platform \in {"android", "ios"}, Buildable(sh, platform)
  PROVE  Carries(sh, platform, IdentityMarks)
<1>1. SUFFICES ASSUME NEW f \in DOMAIN IdentityMarks \cap FilesOf(platform)
               PROVE  \A m \in IdentityMarks[f] : Has(sh[f], m)
  BY DEF Carries
<1>2. \A g \in FilesOf(platform) : sh[g] # Absent /\ (g \in Structural => Structured(sh[g]))
  BY DEF Buildable, Structural
<1>3. /\ platform = "android" => "icons" \in DOMAIN sh["launcher"]
      /\ platform = "ios" => "icons" \in DOMAIN sh["appIcon"]
  BY <1>2 DEF Identified, FilesOf, AndroidFiles, IosFiles
<1>4. \A g \in BrandFiles : Branded(sh, g)
  BY <1>3 DEF Icons
<1>5. CASE f \in BrandFiles
  BY <1>1, <1>2, <1>4, <1>5, HasIs DEF Branded
<1>6. CASE f \notin BrandFiles
  <2>1. f \in {"launcher", "appIcon"} /\ IdentityMarks[f] = {"icons"}
    BY <1>1, <1>6 DEF IdentityMarks, BrandFiles
  <2>2. f = "launcher" => platform = "android"
    BY <1>1 DEF FilesOf, AndroidFiles, IosFiles
  <2>3. f = "appIcon" => platform = "ios"
    BY <1>1 DEF FilesOf, AndroidFiles, IosFiles
  <2>4. QED
    BY <1>3, <2>1, <2>2, <2>3, HasIs
<1>7. QED
  BY <1>5, <1>6

(* A build leaves the shell, or puts the scene into the plist.             *)
LEMMA BuildShell ==
  ASSUME Typed, Build
  PROVE  /\ \A g \in DOMAIN HardeningMarks : Hardened(shell, g) => Hardened(shell', g)
         /\ \A g \in BrandFiles : Branded(shell, g) => Branded(shell', g)
         /\ shell'["launcher"] = shell["launcher"] /\ shell'["appIcon"] = shell["appIcon"]
         /\ shell'["styles"] = shell["styles"] /\ shell'["gradle"] = shell["gradle"]
<1>1. CASE shell' = shell
  BY <1>1
<1>2. CASE /\ Compiles(Arg) /\ Arg # "aab"
           /\ shell' = [shell EXCEPT !["plist"] = Insert(@, {"scene"})]
  <2>1. shell["plist"] # Absent
    BY <1>2 DEF Compiles, PlatformOf, Buildable, FilesOf, IosFiles
  <2> DEFINE marks == {"scene"}
  <2>2. "scene" \in marks /\ "template" \notin marks
    OBVIOUS
  <2> HIDE DEF marks
  <2>3. shell' = [shell EXCEPT !["plist"] = Insert(@, marks)]
    BY <1>2 DEF marks
  <2>4. Clean(shell) /\ "plist" \in {"activity", "plist"} /\ "scene" # "absent"
    BY DEF Typed
  <2> DEFINE sh2 == [shell EXCEPT !["plist"] = Insert(@, marks)]
  <2>5. /\ \A g \in DOMAIN HardeningMarks : Hardened(shell, g) => Hardened(sh2, g)
        /\ \A g \in BrandFiles : Branded(shell, g) => Branded(sh2, g)
        /\ sh2["launcher"] = shell["launcher"] /\ sh2["appIcon"] = shell["appIcon"]
        /\ sh2["styles"] = shell["styles"] /\ sh2["gradle"] = shell["gradle"]
    BY <2>1, <2>2, <2>4, GrowthKeeps
  <2> HIDE DEF sh2
  <2>6. shell' = sh2
    BY <2>3 DEF sh2
  <2>7. QED
    BY <2>5, <2>6
<1>3. QED
  BY <1>1, <1>2 DEF Build, Compiled

-----------------------------------------------------------------------------
(* The identity of the app: icons come last in the bootstrap, so a shell   *)
(* that has them has its name and splash, unless it was edited by hand.    *)

WithIcons == touched \/ ~ Icons(shell) \/ \A f \in BrandFiles : Branded(shell, f)
CopiedFirst ==
  touched \/ Led(todo, {<<"remove", "shells">>}, CopySteps \cup BrandSteps) \/ ~ Icons(shell)
BrandedFirst ==
  \A b \in BrandSteps :
    \/ touched \/ Led(todo, {b}, IconSteps)
    \/ Branded(shell, b[2]) /\ ~ Mentions(todo, CopySteps)
InOrder ==
  NoneAfter(todo, BrandSteps, CopySteps) /\ NoneAfter(todo, IconSteps, CopySteps \cup BrandSteps)

Marks == WithIcons /\ CopiedFirst /\ BrandedFirst /\ InOrder

Copyings == CopySteps \cup BrandSteps \cup IconSteps

LEMMA NoCopyings ==
  ASSUME NEW s, ~ Mentions(s, Copyings)
  PROVE  /\ Led(s, {<<"remove", "shells">>}, CopySteps \cup BrandSteps)
         /\ \A b \in BrandSteps : Led(s, {b}, IconSteps)
         /\ NoneAfter(s, BrandSteps, CopySteps)
         /\ NoneAfter(s, IconSteps, CopySteps \cup BrandSteps)
<1>1. /\ CopySteps \cup BrandSteps \in SUBSET Copyings /\ IconSteps \in SUBSET Copyings
      /\ CopySteps \in SUBSET Copyings
  BY DEF Copyings
<1> HIDE DEF Copyings, CopySteps, BrandSteps, IconSteps
<1>2. ~ Mentions(s, CopySteps \cup BrandSteps) /\ ~ Mentions(s, IconSteps) /\ ~ Mentions(s, CopySteps)
  BY <1>1, NotMentioned
<1>3. QED
  BY <1>2, NotMentioned

LEMMA GateHasNoCopyings ==
  ASSUME NEW s \in Seq(GateSteps)
  PROVE  ~ Mentions(s, Copyings)
<1>1. Copyings \in SUBSET (CopySteps \cup BrandSteps \cup IconSteps \cup Replacing)
  BY DEF Copyings
<1>2. QED
  BY <1>1, GatesOnlyGate, NotMentioned

LEMMA OverMarks ==
  ASSUME ~ Mentions(todo', Copyings), WithIcons'
  PROVE  Marks'
BY NoCopyings DEF Marks, CopiedFirst, BrandedFirst, InOrder

Keeping(sh, sh2) ==
  (Icons(sh2) => Icons(sh)) /\ \A g \in BrandFiles : Branded(sh, g) => Branded(sh2, g)

LEMMA BrandStepIs ==
  ASSUME NEW b \in BrandSteps
  PROVE  b[2] \in BrandFiles /\ b[1] \in {"branding", "splash"} /\ b[2] \in FilesFor(b[1])
         /\ b = <<b[1], b[2]>>
BY DEF BrandSteps, FilesFor, BrandFiles

LEMMA EachHasItsStep ==
  ASSUME NEW f \in BrandFiles
  PROVE  \E b \in BrandSteps : b[2] = f
<1>1. /\ <<"branding", "manifest">> \in BrandSteps /\ <<"branding", "plist">> \in BrandSteps
      /\ <<"splash", "drawables">> \in BrandSteps /\ <<"splash", "styles">> \in BrandSteps
      /\ <<"splash", "v31">> \in BrandSteps /\ <<"splash", "launchScreen">> \in BrandSteps
  BY DEF BrandSteps, FilesFor
<1>2. CASE f = "manifest"
  BY <1>1, <1>2
<1>3. CASE f = "plist"
  BY <1>1, <1>3
<1>4. CASE f = "drawables"
  BY <1>1, <1>4
<1>5. CASE f = "styles"
  BY <1>1, <1>5
<1>6. CASE f = "v31"
  BY <1>1, <1>6
<1>7. CASE f = "launchScreen"
  BY <1>1, <1>7
<1>8. QED
  BY <1>2, <1>3, <1>4, <1>5, <1>6, <1>7 DEF BrandFiles

(* Steps that take no identity away.                                       *)
LEMMA KeepingMarks ==
  ASSUME Typed, Marks, todo # <<>>, Goes \/ Stops, touched' = touched,
         Head(todo)[1] \notin {"remove", "branding", "splash"}, Keeping(shell, shell')
  PROVE  Marks'
<1>1. Head(todo) \notin {<<"remove", "shells">>} /\ \A b \in BrandSteps : Head(todo) \notin {b}
  BY BrandStepIs
<1>2. WithIcons'
  BY DEF Marks, WithIcons, Keeping
<1>3. CopiedFirst'
  BY <1>1, TodoGoesOn DEF Marks, CopiedFirst, Keeping
<1>4. InOrder'
  BY TodoGoesOn DEF Marks, InOrder
<1>5. BrandedFirst'
  <2>1. SUFFICES ASSUME NEW b \in BrandSteps, ~ touched, ~ Led(todo', {b}, IconSteps)
                 PROVE  Branded(shell', b[2]) /\ ~ Mentions(todo', CopySteps)
    BY DEF BrandedFirst
  <2>2. ~ Led(todo, {b}, IconSteps)
    BY <1>1, <2>1, TodoGoesOn
  <2>3. Branded(shell, b[2]) /\ ~ Mentions(todo, CopySteps)
    BY <2>1, <2>2 DEF Marks, BrandedFirst
  <2>4. QED
    BY <2>3, BrandStepIs, TodoGoesOn DEF Keeping
<1>6. QED
  BY <1>2, <1>3, <1>4, <1>5 DEF Marks

LEMMA SameIsKept ==
  ASSUME shell' = shell
  PROVE  Keeping(shell, shell')
BY DEF Keeping

LEMMA BeginMarks == ASSUME Typed, Marks, Begin PROVE Marks'
<1>1. PICK script : Started(script) /\ ScriptShape(script)
  BY BeginStarts
<1>2. todo' = script /\ shell' = shell /\ touched' = touched
  BY <1>1 DEF Started, native
<1>3. WithIcons'
  BY <1>2 DEF Marks, WithIcons
<1>4. CASE GateShape(script)
  BY <1>2, <1>3, <1>4, GateHasNoCopyings, OverMarks DEF GateShape
<1>5. CASE FreeShape(script)
  BY <1>2, <1>3, <1>5 DEF FreeShape, Marks, CopiedFirst, BrandedFirst, InOrder
<1>6. QED
  BY <1>1, <1>4, <1>5 DEF ScriptShape

LEMMA NoFilesAre ==
  /\ ~ Icons(NoFiles) /\ \A f \in BrandFiles : Branded(NoFiles, f)
  /\ "icons" \notin DOMAIN Absent /\ "icons" \notin DOMAIN Emptied
  /\ \A f \in {"launcher", "appIcon"} : "icons" \notin DOMAIN Template[f]
<1>1. "icons" \notin DOMAIN Absent /\ "icons" \notin DOMAIN Emptied
  BY AbsentIs
<1>2. \A f \in Files : NoFiles[f] = Absent
  BY DEF NoFiles
<1>3. {"launcher", "appIcon"} \subseteq Files /\ BrandFiles \subseteq Files
  BY DEF BrandFiles, Files, AndroidFiles, IosFiles
<1>4. \A f \in {"launcher", "appIcon"} : Template[f] = Marked({"template"})
  BY <1>3 DEF Template
<1>5. QED
  BY <1>1, <1>2, <1>3, <1>4, MarkedIs DEF Icons, Branded

LEMMA DeleteMarks == ASSUME Typed, Marks, DeleteShells PROVE Marks'
<1>1. todo # <<>> /\ Goes /\ shell' = NoFiles /\ touched' = touched /\ Head(todo)[1] = "remove"
  BY DEF DeleteShells, RemoveShells, At, trace, hand
<1>2. WithIcons' /\ CopiedFirst'
  BY <1>1, NoFilesAre DEF WithIcons, CopiedFirst
<1>3. InOrder'
  BY <1>1, TodoGoesOn DEF Marks, InOrder
<1>4. BrandedFirst'
  <2>1. SUFFICES ASSUME NEW b \in BrandSteps, ~ touched, ~ Led(todo', {b}, IconSteps)
                 PROVE  Branded(shell', b[2]) /\ ~ Mentions(todo', CopySteps)
    BY <1>1 DEF BrandedFirst
  <2>2. Head(todo) \notin {b}
    BY <1>1, BrandStepIs
  <2>3. ~ Led(todo, {b}, IconSteps)
    BY <1>1, <2>1, <2>2, TodoGoesOn
  <2>4. ~ Mentions(todo', CopySteps)
    BY <1>1, <2>1, <2>3, TodoGoesOn DEF Marks, BrandedFirst
  <2>5. QED
    BY <1>1, <2>4, BrandStepIs, NoFilesAre
<1>5. QED
  BY <1>2, <1>3, <1>4 DEF Marks

LEMMA CopyMarks == ASSUME Typed, Marks, CopyShell PROVE Marks'
<1>1. todo # <<>> /\ Goes /\ touched' = touched /\ Head(todo) \in CopySteps
      /\ shell' = [f \in Files |-> IF f \in FilesOf(Arg) /\ shell[f] = Absent
                                   THEN Template[f] ELSE shell[f]]
  BY HeadIs, ArgsAre DEF CopyShell, At, CopySteps, trace, hand
<1>2. touched \/ ~ Icons(shell)
  BY <1>1, TodoGoesOn DEF Marks, CopiedFirst
<1>3. {"launcher", "appIcon"} \subseteq Files
  BY DEF Files, AndroidFiles, IosFiles
<1>4. ~ Icons(shell) => ~ Icons(shell')
  BY <1>1, <1>3, NoFilesAre DEF Icons
<1>5. WithIcons' /\ CopiedFirst'
  BY <1>1, <1>2, <1>4 DEF WithIcons, CopiedFirst
<1>6. InOrder'
  BY <1>1, TodoGoesOn DEF Marks, InOrder
<1>7. BrandedFirst'
  <2>1. SUFFICES ASSUME NEW b \in BrandSteps, ~ touched
                 PROVE  Led(todo', {b}, IconSteps)
    BY <1>1 DEF BrandedFirst
  <2>2. Head(todo) \notin {b}
    BY <1>1, StepSets
  <2>3. Mentions(todo, CopySteps)
    BY <1>1, TodoGoesOn
  <2>4. Led(todo, {b}, IconSteps)
    BY <2>1, <2>3 DEF Marks, BrandedFirst
  <2>5. QED
    BY <1>1, <2>2, <2>4, TodoGoesOn
<1>8. QED
  BY <1>5, <1>6, <1>7 DEF Marks

LEMMA BrandMarks ==
  ASSUME Typed, Marks, todo # <<>>, touched' = touched,
         NEW tool \in {"branding", "splash"}, Head(todo)[1] = tool, RunTool(tool, Arg)
  PROVE  Marks'
<1> PICK f : f = Arg
  OBVIOUS
<1>1. f \in FilesFor(tool) /\ Head(todo) = <<tool, f>> /\ Head(todo) \in BrandSteps
  <2>1. tool \in Tools
    BY DEF Tools
  <2>2. f \in FilesFor(tool) /\ Head(todo) = <<tool, f>>
    BY <2>1, HeadIs, ArgsAre
  <2>3. QED
    BY <2>2 DEF BrandSteps
<1>2. touched \/ ~ Icons(shell)
  BY <1>1, TodoGoesOn, ToolTyped DEF Marks, CopiedFirst, RunTool
<1>3. CASE Stops /\ UNCHANGED shell
  <2>1. ~ Mentions(todo', Copyings)
    BY <1>3, NoPiece DEF Stops
  <2>2. WithIcons'
    BY <1>3 DEF Marks, WithIcons
  <2>3. QED
    BY <2>1, <2>2, OverMarks
<1>4. CASE Goes /\ shell' = Patched(tool, f, shell)
  <2>1. /\ Branded(shell', f) /\ f \in BrandFiles
        /\ \A g \in Files \ {f} : shell'[g] = shell[g]
    BY <1>1, <1>4, BrandingBrands DEF Typed
  <2>2. f \notin {"launcher", "appIcon"}
    BY <2>1 DEF BrandFiles
  <2>3. /\ \A g \in BrandFiles \ {f} : Branded(shell, g) => Branded(shell', g)
        /\ Icons(shell') <=> Icons(shell)
    BY <2>1, <2>2, OtherFilesStay
  <2>4. WithIcons' /\ CopiedFirst'
    BY <1>2, <2>3 DEF WithIcons, CopiedFirst
  <2>5. InOrder' /\ ~ Mentions(todo', CopySteps)
    BY <1>1, <1>4, TodoGoesOn DEF Marks, InOrder
  <2>6. BrandedFirst'
    <3>1. SUFFICES ASSUME NEW b \in BrandSteps, ~ touched, ~ Led(todo', {b}, IconSteps)
                   PROVE  Branded(shell', b[2])
      BY <2>5 DEF BrandedFirst
    <3>2. CASE b[2] = f
      BY <2>1, <3>2
    <3>3. CASE b[2] # f
      <4>1. Head(todo) \notin {b}
        BY <1>1, <3>3
      <4>2. ~ Led(todo, {b}, IconSteps)
        BY <1>4, <3>1, <4>1, TodoGoesOn
      <4>3. Branded(shell, b[2])
        BY <3>1, <4>2 DEF Marks, BrandedFirst
      <4>4. QED
        BY <2>3, <3>3, <4>3, BrandStepIs
    <3>4. QED
      BY <3>2, <3>3
  <2>7. QED
    BY <2>4, <2>5, <2>6 DEF Marks
<1>5. QED
  BY <1>3, <1>4 DEF RunTool

LEMMA IconMarks ==
  ASSUME Typed, Marks, todo # <<>>, touched' = touched,
         Head(todo)[1] = "icon", RunTool("icon", Arg)
  PROVE  Marks'
<1> PICK f : f = Arg
  OBVIOUS
<1>1. f \in FilesFor("icon") /\ Head(todo) = <<"icon", f>> /\ Head(todo) \in IconSteps
  BY HeadIs, ArgsAre DEF Tools, IconSteps
<1>2. Goes \/ Stops
  BY DEF RunTool
<1>3. \A b \in BrandSteps : touched \/ (Branded(shell, b[2]) /\ ~ Mentions(todo, CopySteps))
  BY <1>1, <1>2, TodoGoesOn DEF Marks, BrandedFirst
<1>4. \A g \in BrandFiles : Branded(shell, g) => Branded(shell', g)
  <2>1. CASE UNCHANGED shell
    BY <2>1
  <2>2. CASE shell' = Patched("icon", f, shell)
    <3>1. \A g \in Files \ {f} : shell'[g] = shell[g]
      BY <1>1, <2>2, PatchedClean DEF Typed, Tools
    <3>2. f \notin BrandFiles
      BY <1>1 DEF FilesFor, BrandFiles
    <3>3. QED
      BY <3>1, <3>2, OtherFilesStay
  <2>3. QED
    BY <2>1, <2>2 DEF RunTool
<1>5. WithIcons'
  BY <1>3, <1>4, EachHasItsStep DEF WithIcons
<1>6. InOrder' /\ ~ Mentions(todo', CopySteps \cup BrandSteps)
  BY <1>1, <1>2, TodoGoesOn DEF Marks, InOrder
<1>7. CopiedFirst'
  BY <1>6, NotMentioned DEF CopiedFirst
<1>8. BrandedFirst'
  BY <1>2, <1>3, <1>4, BrandStepIs, TodoGoesOn DEF BrandedFirst
<1>9. QED
  BY <1>5, <1>6, <1>7, <1>8 DEF Marks

LEMMA StepMarks == ASSUME Typed, Marks, Step PROVE Marks'
<1>1. CASE DeleteShells
  BY <1>1, DeleteMarks
<1>2. CASE CopyShell
  BY <1>2, CopyMarks
<1>3. CASE PatchShell
  <2>1. PICK tool \in Tools : At(tool) /\ RunTool(tool, Arg)
    BY <1>3 DEF PatchShell
  <2>2. todo # <<>> /\ Head(todo)[1] = tool /\ touched' = touched /\ (Goes \/ Stops)
    BY <1>3, <2>1 DEF PatchShell, At, RunTool, trace, hand
  <2>3. CASE tool \in {"branding", "splash"}
    BY <2>1, <2>2, <2>3, BrandMarks
  <2>4. CASE tool = "icon"
    BY <2>1, <2>2, <2>4, IconMarks
  <2>5. CASE tool \in {"hardening", "v49"}
    <3> PICK f : f = Arg
      OBVIOUS
    <3>1. f \in FilesFor(tool)
      BY <2>1, ToolAt
    <3>2. Keeping(shell, shell')
      <4>1. CASE shell' = shell
        BY <4>1, SameIsKept
      <4>2. CASE tool = "hardening" /\ shell' = Patched("hardening", f, shell)
        BY <3>1, <4>2, HardeningHardens DEF Typed, Keeping, Icons
      <4>3. CASE tool = "v49" /\ shell' = Patched("v49", f, shell)
        <5>1. f = "activity"
          BY <3>1, <4>3 DEF FilesFor
        <5>2. QED
          BY <4>3, <5>1, LifecycleKeeps DEF Typed, Keeping, Icons
      <4>4. QED
        BY <2>1, <2>5, <4>1, <4>2, <4>3 DEF RunTool
    <3>3. QED
      BY <2>2, <2>5, <3>2, KeepingMarks
  <2>6. QED
    BY <2>3, <2>4, <2>5 DEF Tools
<1>4. CASE Preflight \/ Audits \/ PubGet \/ Tests \/ IosContractCheck \/ Capture \/ Report \/ InstallStep
  <2>1. /\ todo # <<>> /\ (Goes \/ Stops) /\ touched' = touched /\ shell' = shell
        /\ Head(todo)[1] \notin {"remove", "branding", "splash"}
    BY <1>4 DEF Preflight, Audits, PubGet, Tests, IosContractCheck, Capture, Report, InstallStep, At, native, trace, hand
  <2>2. QED
    BY <2>1, SameIsKept, KeepingMarks
<1>5. CASE Signing
  <2>1. /\ todo # <<>> /\ touched' = touched /\ Head(todo)[1] = "signing"
    BY <1>5 DEF Signing, At, trace, hand
  <2>2. (Goes \/ Stops) /\ Keeping(shell, shell')
    <3>1. CASE Arg = "gradle"
      <4>1. (Goes \/ Stops) /\ (shell' = shell \/ shell' = Patched("signing", "gradle", shell))
        BY <1>5, <3>1 DEF Signing, RunTool
      <4>2. "gradle" \in FilesFor("signing")
        BY DEF FilesFor
      <4>3. \A g \in Files \ {"gradle"} : shell'[g] = shell[g]
        BY <4>1, <4>2, PatchedClean DEF Typed
      <4>4. "gradle" \notin BrandFiles
        BY DEF BrandFiles
      <4>5. /\ \A g \in BrandFiles \ {"gradle"} : Branded(shell, g) => Branded(shell', g)
            /\ Icons(shell') <=> Icons(shell)
        BY <4>3, OtherFilesStay
      <4>6. QED
        BY <4>1, <4>4, <4>5 DEF Keeping
    <3>2. CASE Arg # "gradle"
      BY <1>5, <3>2, SameIsKept DEF Signing
    <3>3. QED
      BY <3>1, <3>2
  <2>3. QED
    BY <2>1, <2>2, KeepingMarks
<1>6. CASE Build
  <2>1. todo # <<>> /\ (Goes \/ Stops) /\ touched' = touched /\ Head(todo)[1] = "build"
    BY <1>6 DEF Build, At, trace, hand
  <2>2. Keeping(shell, shell')
    BY <1>6, BuildShell DEF Keeping, Icons
  <2>3. QED
    BY <2>1, <2>2, KeepingMarks
<1>7. CASE Manifest
  <2>1. /\ touched' = touched /\ shell' = shell
    BY <1>7 DEF Manifest, native, trace, hand
  <2>2. ~ Mentions(todo', Copyings)
    <3>1. CASE Stops
      BY <3>1, NoPiece DEF Stops
    <3>2. ASSUME NEW sum, todo' = [n \in 1 .. 3 |-> <<<<"sdkRemove", "sdkFetch", "sdkMove">>[n], sum>>]
          PROVE  ~ Mentions(todo', Copyings)
      <4>1. \A n \in 1 .. 3 : <<"sdkRemove", "sdkFetch", "sdkMove">>[n] \in SdkOps
        BY DEF SdkOps
      <4>2. OpsIn(todo', SdkOps)
        BY <3>2, <4>1 DEF OpsIn
      <4>3. \A y \in Copyings : y[1] \notin SdkOps
        BY StepSets DEF Copyings, SdkOps
      <4>4. QED
        BY <4>2, <4>3, OtherOps
    <3>3. QED
      BY <1>7, <3>1, <3>2 DEF Manifest
  <2>3. WithIcons'
    BY <2>1 DEF Marks, WithIcons
  <2>4. QED
    BY <2>2, <2>3, OverMarks
<1>8. QED
  BY <1>1, <1>2, <1>3, <1>4, <1>5, <1>6, <1>7 DEF Step

(* A kill in the middle of a step: a file emptied, the shells partly       *)
(* removed or partly copied.                                               *)
LEMMA KillMarks == ASSUME Typed, Marks, Kill PROVE Marks'
<1>1. todo # <<>> /\ todo' = <<>> /\ touched' = touched
  BY DEF Kill, Idle, trace, hand
<1>2. \A X, Y : Led(todo, X, Y) => Head(todo) \notin Y
  BY <1>1, TailIs DEF Typed, Scripted
<1>3. Head(todo) \in CopySteps \cup BrandSteps => touched \/ ~ Icons(shell)
  BY <1>2 DEF Marks, CopiedFirst
<1>4. {"launcher", "appIcon"} \subseteq Files /\ BrandFiles \subseteq Files
  BY DEF Files, AndroidFiles, IosFiles, BrandFiles
<1>5. WithIcons'
  <2>1. SUFFICES ASSUME ~ touched, Icons(shell')
                 PROVE  \A g \in BrandFiles : Branded(shell', g)
    BY <1>1 DEF WithIcons
  <2>2. CASE shell' = shell
    BY <2>1, <2>2 DEF Marks, WithIcons
  <2>3. ASSUME NEW tool \in Tools \cup {"signing"}, At(tool), Arg # "verify", shell' # shell,
               shell' = KilledPatch(tool)
        PROVE  \A g \in BrandFiles : Branded(shell', g)
    <3> PICK f : f = Arg
      OBVIOUS
    <3>1. f \in FilesFor(tool) /\ f \in Files
      <4>1. tool \in Tools => f \in FilesFor(tool)
        BY <2>3, ToolAt
      <4>2. tool = "signing" => f \in FilesFor(tool)
        BY <2>3, HeadIs, ArgsAre DEF At, FilesFor
      <4>3. QED
        BY <4>1, <4>2, FilesAre
    <3>2. shell' = [shell EXCEPT ![f] = Emptied]
      BY <2>3 DEF KilledPatch, Arg
    <3>3. shell'[f] = Emptied /\ \A g \in Files \ {f} : shell'[g] = shell[g]
      BY <3>1, <3>2 DEF Typed, Clean
    <3>4. Icons(shell)
      BY <1>4, <2>1, <3>3, NoFilesAre DEF Icons
    <3>5. \A g \in BrandFiles : Branded(shell, g)
      BY <2>1, <3>4 DEF Marks, WithIcons
    <3>6. \A g \in BrandFiles \ {f} : Branded(shell', g)
      BY <3>3, <3>5, OtherFilesStay
    <3>7. CASE f \in BrandFiles
      <4>1. Head(todo) \notin BrandSteps
        BY <1>3, <2>1, <3>4
      <4>2. tool \notin {"branding", "splash"}
        <5>1. Head(todo) = <<tool, f>>
          BY <1>1, <2>3, HeadIs DEF At
        <5>2. QED
          BY <3>1, <4>1, <5>1 DEF BrandSteps
      <4>3. f \in Structural
        BY <3>1, <3>7, <4>2 DEF FilesFor, BrandFiles, Structural, Tools
      <4>4. ~ Structured(shell'[f])
        BY <3>3, AbsentIs, HasIs DEF Structured
      <4>5. QED
        BY <3>6, <4>3, <4>4 DEF Branded
    <3>8. QED
      BY <3>6, <3>7
  <2>4. ASSUME NEW kept, shell' = [f \in Files |-> IF f \in kept THEN shell[f] ELSE Absent]
        PROVE  \A g \in BrandFiles : Branded(shell', g)
    <3>1. Icons(shell)
      BY <1>4, <2>1, <2>4, NoFilesAre DEF Icons
    <3>2. \A g \in BrandFiles : Branded(shell, g)
      BY <2>1, <3>1 DEF Marks, WithIcons
    <3>3. QED
      BY <1>4, <2>4, <3>2 DEF Branded
  <2>5. ASSUME NEW done, At("copy"),
               shell' = [f \in Files |-> IF f \in FilesOf(Arg) \intersect done
                                         THEN Template[f] ELSE shell[f]]
        PROVE  FALSE
    <3>1. Head(todo) \in CopySteps
      BY <2>5, HeadIs, ArgsAre DEF At, CopySteps
    <3>2. ~ Icons(shell)
      BY <1>3, <2>1, <3>1
    <3>3. QED
      BY <1>4, <2>1, <2>5, <3>2, NoFilesAre DEF Icons
  <2>6. QED
    BY <2>2, <2>3, <2>4, <2>5 DEF Kill, KillEffect
<1>6. QED
  BY <1>1, <1>5, NoPiece, OverMarks

LEMMA DeveloperMarks == ASSUME Typed, Marks, Developer PROVE Marks'
<1>1. todo' = todo
  BY DEF Developer, Edit, Resolve, Commit, EditShell, PutKey, TidyUp, Disturbs, Moves, trace, hand
<1>2. CASE EditShell
  BY <1>1, <1>2 DEF EditShell, Marks, WithIcons, CopiedFirst, BrandedFirst, InOrder
<1>3. CASE ~ EditShell
  <2>1. shell' = shell /\ touched' = touched
    BY <1>3 DEF Developer, Edit, Resolve, Commit, PutKey, TidyUp, Disturbs, native, Moves, trace, hand
  <2>2. QED
    BY <1>1, <2>1 DEF Marks, WithIcons, CopiedFirst, BrandedFirst, InOrder
<1>4. QED
  BY <1>2, <1>3

LEMMA InitMarks == ASSUME Init PROVE Marks
BY NoFilesAre, NoPiece DEF Init, Marks, WithIcons, CopiedFirst, BrandedFirst, InOrder, NoneAfter

LEMMA NextMarks == Typed /\ Marks /\ [Next]_vars => Marks'
<1>1. Marks /\ UNCHANGED vars => Marks'
  BY DEF vars, native, Marks, WithIcons, CopiedFirst, BrandedFirst, InOrder, trace, hand
<1>2. QED
  BY <1>1, BeginMarks, StepMarks, KillMarks, DeveloperMarks DEF Next

-----------------------------------------------------------------------------
(* What is built: before its first build a gate hardens every file and     *)
(* audits the icons, and before an Android build it will take store        *)
(* evidence of it verifies the signing.                                    *)

HardenedFirst ==
  \A f \in DOMAIN HardeningMarks :
    rewritten \/ Led(todo, {<<"hardening", f>>}, Builds) \/ Hardened(shell, f)
AuditedFirst == touched \/ Led(todo, AuditSteps, Builds) \/ Identified(shell)
VerifiedFirst ==
  \/ rewritten \/ Led(todo, {<<"signing", "verify">>}, {<<"build", "aab">>})
  \/ ~ Mentions(todo, {<<"capture", "android-release">>})
  \/ SigningVerified(key, shell["gradle"])
SignedFirst ==
  \/ Led(todo, {<<"build", "aab">>}, {<<"capture", "android-release">>})
  \/ artifacts["aab"] # None => artifacts["aab"].rewritten \/ artifacts["aab"].signed
Complete ==
  \A p \in Paths :
    artifacts[p] # None =>
      /\ artifacts[p].rewritten \/ artifacts[p].hardened
      /\ artifacts[p].touched \/ artifacts[p].branded
      /\ p = "ipa" => artifacts[p].signed

Pending == HardenedFirst /\ AuditedFirst /\ VerifiedFirst /\ SignedFirst
Ships == Pending /\ Complete /\ ShipsHardened

LEMMA FreePending ==
  ASSUME todo' \in Seq(FreeSteps)
  PROVE  Pending'
<1>1. ~ Mentions(todo', Builds \cup Captures)
  BY FreeScriptsBuildNothing
<1>2. /\ Builds \in SUBSET (Builds \cup Captures)
      /\ {<<"build", "aab">>} \in SUBSET (Builds \cup Captures)
      /\ {<<"capture", "android-release">>} \in SUBSET (Builds \cup Captures)
  BY DEF Builds, Captures, Paths, Kinds
<1> HIDE DEF Builds, Captures
<1>3. QED
  BY <1>1, <1>2, NotMentioned DEF Pending, HardenedFirst, AuditedFirst, VerifiedFirst, SignedFirst

LEMMA StoppedPending ==
  ASSUME todo' = <<>>
  PROVE  Pending'
<1>1. todo' \in Seq(FreeSteps)
  OBVIOUS
<1>2. QED
  BY <1>1, FreePending

LEMMA FreeGoesOn ==
  ASSUME todo # <<>>, todo \in Seq(FreeSteps), Goes \/ Stops
  PROVE  Pending'
<1>1. Tail(todo) \in Seq(FreeSteps) /\ <<>> \in Seq(FreeSteps)
  BY TailIs
<1>2. todo' \in Seq(FreeSteps)
  BY <1>1 DEF Goes, Stops
<1>3. QED
  BY <1>2, FreePending

LEMMA SameShipped ==
  ASSUME Ships, UNCHANGED <<artifacts, evidence>>
  PROVE  Complete' /\ ShipsHardened'
BY DEF Ships, Complete, ShipsHardened, Recorded

(* A step that takes nothing from the shell, and leaves behind what its    *)
(* name promises.                                                          *)
LEMMA PendingGoesOn ==
  ASSUME Typed, Ships, todo # <<>>, Goes \/ Stops,
         UNCHANGED <<touched, rewritten, key, artifacts, evidence>>,
         Head(todo)[1] # "build",
         \A f \in DOMAIN HardeningMarks : Hardened(shell, f) => Hardened(shell', f),
         Identified(shell) => Identified(shell'),
         SigningVerified(key, shell["gradle"]) => SigningVerified(key, shell'["gradle"]),
         Goes => \A f \in DOMAIN HardeningMarks :
                   Head(todo) = <<"hardening", f>> => Hardened(shell', f),
         Goes /\ Head(todo)[1] = "audits" => Identified(shell'),
         Goes /\ Head(todo)[1] = "signing" => SigningVerified(key, shell'["gradle"])
  PROVE  Ships'
<1>1. HardenedFirst'
  BY TodoGoesOn DEF Ships, Pending, HardenedFirst
<1>2. AuditedFirst'
  BY TodoGoesOn DEF Ships, Pending, AuditedFirst, AuditSteps
<1>3. VerifiedFirst'
  BY TodoGoesOn DEF Ships, Pending, VerifiedFirst
<1>4. SignedFirst'
  <2>1. Head(todo) \notin {<<"build", "aab">>}
    OBVIOUS
  <2>2. QED
    BY <2>1, TodoGoesOn DEF Ships, Pending, SignedFirst
<1>5. QED
  BY <1>1, <1>2, <1>3, <1>4, SameShipped DEF Ships, Pending

LEMMA BeginShips == ASSUME Typed, Ships, Begin PROVE Ships'
<1>1. PICK script : Started(script) /\ ScriptShape(script)
  BY BeginStarts
<1>2. todo' = script /\ UNCHANGED <<artifacts, evidence>>
  BY <1>1 DEF Started, proof
<1>3. CASE FreeShape(script)
  BY <1>2, <1>3, FreePending, SameShipped DEF FreeShape, Ships
<1>4. CASE /\ GateShape(script)
           /\ \/ ~ Mentions(script, {<<"capture", "android-release">>})
              \/ Led(script, {<<"signing", "verify">>}, {<<"build", "aab">>})
  <2>1. HardenedFirst'
    <3>1. DOMAIN HardeningMarks \subseteq FilesFor("hardening")
      BY HardeningDomain DEF FilesFor
    <3>2. QED
      BY <1>2, <1>4, <3>1 DEF GateShape, HardenedFirst
  <2>2. AuditedFirst' /\ VerifiedFirst'
    BY <1>2, <1>4 DEF GateShape, AuditedFirst, VerifiedFirst
  <2>3. SignedFirst'
    <3>1. "android-release" \in Kinds /\ PathOf("android-release") = "aab"
      BY DEF Kinds, PathOf
    <3>2. QED
      BY <1>2, <1>4, <3>1 DEF GateShape, SignedFirst
  <2>4. QED
    BY <1>2, <2>1, <2>2, <2>3, SameShipped DEF Ships, Pending
<1>5. QED
  BY <1>1, <1>3, <1>4 DEF ScriptShape

(* The tools a gate runs: the hardening and the v49 patch.                 *)
LEMMA PatchShips == ASSUME Typed, Ships, PatchShell PROVE Ships'
<1>1. PICK tool \in Tools : At(tool) /\ RunTool(tool, Arg)
  BY DEF PatchShell
<1>2. /\ todo # <<>> /\ Head(todo) = <<tool, Arg>> /\ (Goes \/ Stops)
      /\ UNCHANGED <<touched, rewritten, key, artifacts, evidence>>
  BY <1>1, HeadIs DEF PatchShell, At, RunTool, proof, trace, hand
<1> PICK f : f = Arg
  OBVIOUS
<1>3. f \in FilesFor(tool)
  BY <1>1, ToolAt
<1>4. CASE tool \in {"branding", "splash", "icon"}
  <2>1. todo \in Seq(FreeSteps)
    BY <1>2, <1>4, HeadIs DEF GateOps
  <2>2. QED
    BY <1>2, <2>1, FreeGoesOn, SameShipped DEF Ships
<1>5. CASE Stops
  BY <1>2, <1>5, StoppedPending, SameShipped DEF Ships, Stops
<1>6. CASE tool = "hardening" /\ Goes /\ shell' = Patched("hardening", f, shell)
  <2>1. /\ f # "v31" => Hardened(shell', f)
        /\ \A g \in DOMAIN HardeningMarks : Hardened(shell, g) => Hardened(shell', g)
        /\ shell'["launcher"] = shell["launcher"] /\ shell'["appIcon"] = shell["appIcon"]
        /\ shell'["styles"] # Absent => shell["styles"] # Absent
        /\ \A key_ : SigningVerified(key_, shell["gradle"]) => SigningVerified(key_, shell'["gradle"])
    BY <1>3, <1>6, HardeningHardens DEF Typed
  <2>2. Identified(shell) => Identified(shell')
    BY <2>1 DEF Identified
  <2>3. \A g \in DOMAIN HardeningMarks : Head(todo) = <<"hardening", g>> => Hardened(shell', g)
    BY <1>2, <2>1, HardeningDomain
  <2>4. Head(todo)[1] = "hardening"
    BY <1>2, <1>6
  <2>5. QED
    BY <1>2, <2>1, <2>2, <2>3, <2>4, PendingGoesOn
<1>7. CASE tool = "v49" /\ Goes /\ shell' = Patched("v49", f, shell)
  <2>1. f = "activity"
    BY <1>3, <1>7 DEF FilesFor
  <2>2. /\ \A g \in DOMAIN HardeningMarks : Hardened(shell, g) => Hardened(shell', g)
        /\ shell'["launcher"] = shell["launcher"] /\ shell'["appIcon"] = shell["appIcon"]
        /\ shell'["styles"] = shell["styles"] /\ shell'["gradle"] = shell["gradle"]
    BY <1>7, <2>1, LifecycleKeeps DEF Typed
  <2>3. Identified(shell) => Identified(shell')
    BY <2>2 DEF Identified
  <2>4. Head(todo)[1] = "v49" /\ \A g : Head(todo) # <<"hardening", g>>
    BY <1>2, <1>7
  <2>5. QED
    BY <1>2, <2>2, <2>3, <2>4, PendingGoesOn
<1>8. QED
  BY <1>1, <1>4, <1>5, <1>6, <1>7 DEF Tools, RunTool

(* The other steps: they only look at the shell.                           *)
LEMMA LookShips ==
  ASSUME Typed, Ships,
         Preflight \/ Audits \/ PubGet \/ Tests \/ IosContractCheck \/ Report \/ Signing
  PROVE  Ships'
<1>1. CASE Signing /\ Arg = "gradle"
  <2>1. todo # <<>> /\ (Goes \/ Stops) /\ UNCHANGED <<artifacts, evidence>>
        /\ Head(todo) = <<"signing", "gradle">>
    BY <1>1, HeadIs DEF Signing, At, RunTool, proof
  <2>2. todo \in Seq(FreeSteps)
    BY <2>1, HeadIs
  <2>3. QED
    BY <2>1, <2>2, FreeGoesOn, SameShipped DEF Ships
<1>2. CASE ~ (Signing /\ Arg = "gradle")
  <2>1. /\ todo # <<>> /\ (Goes \/ Stops)
        /\ UNCHANGED <<touched, rewritten, key, shell, artifacts, evidence>>
        /\ Head(todo)[1] \in {"preflight", "audits", "pubGet", "tests", "iosContract", "report", "signing"}
    BY <1>2 DEF Preflight, Audits, PubGet, Tests, IosContractCheck, Report, Signing, At, native, proof, trace, hand
  <2>2. Goes /\ Head(todo)[1] = "audits" => Identified(shell)
    <3>1. SUFFICES ASSUME Goes, Head(todo)[1] = "audits" PROVE Identified(shell)
      OBVIOUS
    <3>2. Audits /\ ~ Stops
      <4>1. Audits
        BY <1>2, <3>1 DEF Preflight, PubGet, Tests, IosContractCheck, Report, Signing, At
      <4>2. outcome = "running"
        BY <2>1 DEF Typed, Ran
      <4>3. QED
        BY <3>1, <4>1, <4>2 DEF Goes, Stops
    <3>3. IconAudit(shell)
      BY <3>2 DEF Audits, Refusals
    <3>4. QED
      BY <3>3, HasIs DEF IconAudit, Identified
  <2>3. Goes /\ Head(todo)[1] = "signing" => SigningVerified(key, shell["gradle"])
    <3>1. SUFFICES ASSUME Goes, Head(todo)[1] = "signing" PROVE SigningVerified(key, shell["gradle"])
      OBVIOUS
    <3>2. Signing /\ ~ Stops
      <4>1. Signing
        BY <1>2, <3>1 DEF Preflight, Audits, PubGet, Tests, IosContractCheck, Report, At
      <4>2. outcome = "running"
        BY <2>1 DEF Typed, Ran
      <4>3. QED
        BY <3>1, <4>1, <4>2 DEF Goes, Stops
    <3>3. QED
      BY <1>2, <3>2 DEF Signing
  <2>4. \A f : Head(todo) # <<"hardening", f>>
    BY <2>1
  <2>5. QED
    BY <2>1, <2>2, <2>3, <2>4, PendingGoesOn
<1>3. QED
  BY <1>1, <1>2

(* A build finds the whole shell hardened, and identified unless it was    *)
(* edited by hand; what it compiles has all its files.                     *)
LEMMA BuildShips == ASSUME Typed, Traced, Marks, Ships, Build PROVE Ships'
<1>1. /\ todo # <<>> /\ (Goes \/ Stops) /\ Head(todo) = <<"build", Arg>> /\ Arg \in Paths
      /\ UNCHANGED <<touched, rewritten, key, evidence>>
  BY HeadIs, ArgsAre DEF Build, At, trace, hand
<1> PICK path \in Paths : path = Arg
  BY <1>1
<1>2. ShipsHardened'
  BY <1>1 DEF Ships, ShipsHardened, Recorded
<1>3. CASE Stops /\ UNCHANGED artifacts
  BY <1>1, <1>3, StoppedPending, SameShipped DEF Ships, Stops
<1>4. CASE /\ Goes /\ Compiles(path)
           /\ \/ artifacts' = [artifacts EXCEPT ![path] = Built(path)]
              \/ path = "ipa" /\ artifacts' = artifacts
  <2>1. /\ \A g \in DOMAIN HardeningMarks : Hardened(shell, g) => Hardened(shell', g)
        /\ shell'["launcher"] = shell["launcher"] /\ shell'["appIcon"] = shell["appIcon"]
        /\ shell'["styles"] = shell["styles"] /\ shell'["gradle"] = shell["gradle"]
    BY BuildShell
  <2>2. Identified(shell) => Identified(shell')
    BY <2>1 DEF Identified
  <2>3. Head(todo) \in Builds
    BY <1>1 DEF Builds
  <2>4. rewritten \/ \A g \in DOMAIN HardeningMarks : Hardened(shell, g)
    BY <1>1, <2>3, TodoGoesOn DEF Ships, Pending, HardenedFirst
  <2>5. touched \/ Identified(shell)
    BY <1>1, <2>3, TodoGoesOn DEF Ships, Pending, AuditedFirst
  <2>6. PlatformOf(path) \in {"android", "ios"} /\ Buildable(shell, PlatformOf(path))
    BY <1>4 DEF Compiles, PlatformOf
  <2>7. rewritten \/ Carries(shell, PlatformOf(path), HardeningMarks)
    BY <2>4, <2>6, HardenedCarries
  <2>8. touched \/ Carries(shell, PlatformOf(path), IdentityMarks)
    BY <2>5, <2>6, BrandedCarries DEF Marks, WithIcons
  <2>9. /\ artifacts'[path] = Built(path) \/ (path = "ipa" /\ artifacts'[path] = artifacts[path])
        /\ \A p \in Paths \ {path} : artifacts'[p] = artifacts[p]
    BY <1>4 DEF Traced
  <2>10. Complete'
    <3>1. /\ Built(path).rewritten \/ Built(path).hardened
          /\ Built(path).touched \/ Built(path).branded
          /\ path = "ipa" => Built(path).signed
      BY <2>7, <2>8 DEF Built
    <3>2. SUFFICES ASSUME NEW p \in Paths, artifacts'[p] # None
                   PROVE  /\ artifacts'[p].rewritten \/ artifacts'[p].hardened
                          /\ artifacts'[p].touched \/ artifacts'[p].branded
                          /\ p = "ipa" => artifacts'[p].signed
      BY DEF Complete
    <3>3. CASE p = path
      BY <2>9, <3>1, <3>2, <3>3 DEF Ships, Complete
    <3>4. CASE p # path
      BY <2>9, <3>2, <3>4 DEF Ships, Complete
    <3>5. QED
      BY <3>3, <3>4
  <2>11. HardenedFirst' /\ AuditedFirst'
    BY <1>1, <2>1, <2>2, <2>4, <2>5 DEF HardenedFirst, AuditedFirst
  <2>12. VerifiedFirst'
    <3>1. Head(todo) \notin {<<"signing", "verify">>}
      BY <1>1
    <3>2. QED
      BY <1>1, <2>1, <3>1, TodoGoesOn DEF Ships, Pending, VerifiedFirst
  <2>13. SignedFirst'
    <3>1. CASE path = "aab"
      <4>1. Head(todo) \in {<<"build", "aab">>}
        BY <1>1, <3>1
      <4>2. \/ rewritten \/ ~ Mentions(todo, {<<"capture", "android-release">>})
            \/ SigningVerified(key, shell["gradle"])
        BY <1>1, <4>1, TodoGoesOn DEF Ships, Pending, VerifiedFirst
      <4>3. CASE ~ Mentions(todo, {<<"capture", "android-release">>})
        <5>1. ~ Mentions(todo', {<<"capture", "android-release">>})
          BY <1>1, <4>3, TodoGoesOn
        <5>2. QED
          BY <5>1, NotMentioned DEF SignedFirst
      <4>4. CASE rewritten \/ SigningVerified(key, shell["gradle"])
        <5>1. Built(path).rewritten \/ Built(path).signed
          BY <3>1, <4>4 DEF Built
        <5>2. QED
          BY <2>9, <3>1, <5>1 DEF SignedFirst
      <4>5. QED
        BY <4>2, <4>3, <4>4
    <3>2. CASE path # "aab"
      <4>1. Head(todo) \notin {<<"build", "aab">>}
        BY <1>1, <3>2
      <4>2. artifacts'["aab"] = artifacts["aab"]
        BY <2>9, <3>2 DEF Paths
      <4>3. QED
        BY <1>1, <4>1, <4>2, TodoGoesOn DEF Ships, Pending, SignedFirst
    <3>3. QED
      BY <3>1, <3>2
  <2>14. QED
    BY <1>2, <2>10, <2>11, <2>12, <2>13 DEF Ships, Pending
<1>5. QED
  BY <1>3, <1>4 DEF Build, Replaces

LEMMA CaptureShips == ASSUME Typed, Traced, Ships, Capture PROVE Ships'
<1>1. /\ todo # <<>> /\ (Goes \/ Stops) /\ Head(todo) = <<"capture", Arg>> /\ Arg \in Kinds
      /\ UNCHANGED <<touched, rewritten, key, shell, artifacts>>
  BY HeadIs, ArgsAre DEF Capture, At, native, trace, hand
<1> PICK kind \in Kinds : kind = Arg
  BY <1>1
<1>2. Pending'
  <2>1. /\ \A f : Head(todo) \notin {<<"hardening", f>>}
        /\ Head(todo) \notin AuditSteps /\ Head(todo) \notin {<<"signing", "verify">>}
        /\ Head(todo) \notin {<<"build", "aab">>}
    BY <1>1 DEF AuditSteps
  <2>2. HardenedFirst' /\ AuditedFirst' /\ VerifiedFirst' /\ SignedFirst'
    BY <1>1, <2>1, TodoGoesOn
       DEF Ships, Pending, HardenedFirst, AuditedFirst, VerifiedFirst, SignedFirst
  <2>3. QED
    BY <2>2 DEF Pending
<1>3. Complete'
  BY <1>1 DEF Ships, Complete
<1>4. CASE UNCHANGED evidence
  BY <1>1, <1>2, <1>4, SameShipped DEF Ships
<1>5. CASE artifacts[PathOf(kind)] # None /\ evidence' = [evidence EXCEPT ![kind] = Record(kind)]
  <2>1. PathOf(kind) \in Paths /\ (kind = "ios-release" => PathOf(kind) = "ipa")
        /\ (kind = "android-release" => PathOf(kind) = "aab")
    BY DEF Paths, PathOf, Kinds
  <2>2. /\ artifacts[PathOf(kind)].rewritten \/ artifacts[PathOf(kind)].hardened
        /\ artifacts[PathOf(kind)].touched \/ artifacts[PathOf(kind)].branded
        /\ kind = "ios-release" => artifacts[PathOf(kind)].signed
    BY <1>5, <2>1 DEF Ships, Complete
  <2>3. kind = "android-release" =>
          artifacts[PathOf(kind)].rewritten \/ artifacts[PathOf(kind)].signed
    <3>1. SUFFICES ASSUME kind = "android-release"
                   PROVE  artifacts["aab"].rewritten \/ artifacts["aab"].signed
      BY <2>1
    <3>2. Head(todo) \in {<<"capture", "android-release">>}
      BY <1>1, <3>1
    <3>3. ~ Led(todo, {<<"build", "aab">>}, {<<"capture", "android-release">>})
      BY <1>1, <3>2, TodoGoesOn
    <3>4. QED
      BY <1>5, <2>1, <3>1, <3>3 DEF Ships, Pending, SignedFirst
  <2>4. evidence'[kind] = Record(kind) /\ \A k \in Kinds \ {kind} : evidence'[k] = evidence[k]
    BY <1>5 DEF Traced
  <2>5. Record(kind).artifact = artifacts[PathOf(kind)]
    BY DEF Record
  <2>6. ShipsHardened'
    <3>1. SUFFICES ASSUME NEW k \in Kinds, evidence'[k] \notin {None, Torn}
                   PROVE  /\ \/ evidence'[k].artifact.rewritten
                             \/ /\ evidence'[k].artifact.hardened
                                /\ k \in StoreKinds => evidence'[k].artifact.signed
                          /\ evidence'[k].artifact.touched \/ evidence'[k].artifact.branded
      BY DEF ShipsHardened, Recorded
    <3>2. CASE k = kind
      BY <2>2, <2>3, <2>4, <2>5, <3>2 DEF StoreKinds
    <3>3. CASE k # kind
      BY <2>4, <3>1, <3>3 DEF Ships, ShipsHardened, Recorded
    <3>4. QED
      BY <3>2, <3>3
  <2>7. QED
    BY <1>2, <1>3, <2>6 DEF Ships
<1>6. QED
  BY <1>4, <1>5 DEF Capture

(* What only the bootstrap, the source check and the installer do.         *)
LEMMA FreeShips ==
  ASSUME Typed, Ships, DeleteShells \/ CopyShell \/ Manifest \/ InstallStep
  PROVE  Ships'
<1>1. /\ todo # <<>> /\ UNCHANGED <<artifacts, evidence>>
      /\ Head(todo)[1] \in {"remove", "copy", "manifest"} \cup SdkOps
  BY DEF DeleteShells, CopyShell, Manifest, InstallStep, At, SdkOps, proof
<1>2. todo \in Seq(FreeSteps)
  BY <1>1, HeadIs DEF GateOps, SdkOps
<1>3. CASE Goes \/ Stops
  BY <1>1, <1>2, <1>3, FreeGoesOn, SameShipped DEF Ships
<1>4. CASE \E sum \in Archives :
             todo' = [n \in 1 .. 3 |-> <<<<"sdkRemove", "sdkFetch", "sdkMove">>[n], sum>>]
  <2>1. PICK sum \in Archives :
          todo' = [n \in 1 .. 3 |-> <<<<"sdkRemove", "sdkFetch", "sdkMove">>[n], sum>>]
    BY <1>4
  <2>2. \A n \in 1 .. 3 : <<"sdkRemove", "sdkFetch", "sdkMove">>[n] \in SdkOps
    BY DEF SdkOps
  <2>3. \A op \in SdkOps : <<op, sum>> \in FreeSteps
    BY ArgsAre, FreeStepIn DEF FreeOps
  <2>4. todo' \in [1 .. 3 -> FreeSteps]
    BY <2>1, <2>2, <2>3
  <2>5. todo' \in Seq(FreeSteps)
    BY <2>4, SeqDef
  <2>6. QED
    BY <1>1, <2>5, FreePending, SameShipped DEF Ships
<1>5. QED
  BY <1>3, <1>4 DEF DeleteShells, CopyShell, Manifest, InstallStep

LEMMA StepShips == ASSUME Typed, Traced, Marks, Ships, Step PROVE Ships'
BY FreeShips, PatchShips, LookShips, BuildShips, CaptureShips DEF Step

LEMMA KillShips == ASSUME Typed, Traced, Ships, Kill PROVE Ships'
<1>1. todo' = <<>> /\ UNCHANGED artifacts
      /\ (evidence' = evidence \/ evidence' = [evidence EXCEPT ![Arg] = Torn])
  BY DEF Kill, KillEffect
<1>2. \A k \in Kinds : evidence'[k] \in {evidence[k], Torn}
  BY <1>1 DEF Traced
<1>3. Complete' /\ ShipsHardened'
  BY <1>1, <1>2 DEF Ships, Complete, ShipsHardened, Recorded
<1>4. QED
  BY <1>1, <1>3, StoppedPending DEF Ships

(* A shell file rewritten under a running script is remembered; a key is   *)
(* only put where there was none.                                          *)
LEMMA DeveloperShips == ASSUME Typed, Traced, Ships, Developer PROVE Ships'
<1>1. todo' = todo
  BY DEF Developer, Edit, Resolve, Commit, EditShell, PutKey, TidyUp, Disturbs, Moves, trace, hand
<1>2. CASE Idle
  <2>1. /\ artifacts' = artifacts \/ artifacts' = [p \in Paths |-> None]
        /\ evidence' = evidence \/ evidence' = [k \in Kinds |-> None]
    BY DEF Developer, Edit, Resolve, Commit, EditShell, PutKey, TidyUp, Disturbs, Moves, trace, hand
  <2>2. Complete' /\ ShipsHardened'
    BY <2>1 DEF Ships, Complete, ShipsHardened, Recorded
  <2>3. QED
    BY <1>1, <1>2, <2>2, StoppedPending DEF Idle, Ships
<1>3. CASE EditShell /\ ~ Idle
  <2>1. rewritten' = TRUE /\ touched' = TRUE /\ UNCHANGED <<artifacts, evidence>>
    BY <1>3 DEF EditShell, Disturbs
  <2>2. Pending'
    BY <1>1, <2>1 DEF Ships, Pending, HardenedFirst, AuditedFirst, VerifiedFirst, SignedFirst
  <2>3. QED
    BY <2>1, <2>2, SameShipped DEF Ships
<1>4. CASE ~ EditShell /\ ~ Idle
  <2>1. /\ UNCHANGED <<shell, touched, rewritten, artifacts, evidence>>
        /\ key' = key \/ key = "none"
    BY <1>4 DEF Developer, Edit, Resolve, Commit, PutKey, TidyUp, Disturbs, native, Moves, hand
  <2>2. Pending'
    BY <1>1, <2>1 DEF Ships, Pending, HardenedFirst, AuditedFirst, VerifiedFirst, SignedFirst,
                      SigningVerified
  <2>3. QED
    BY <2>1, <2>2, SameShipped DEF Ships
<1>5. QED
  BY <1>2, <1>3, <1>4

LEMMA InitShips == ASSUME Init PROVE Ships
BY NoPiece DEF Init, Ships, Pending, HardenedFirst, AuditedFirst, VerifiedFirst, SignedFirst,
               Complete, ShipsHardened, Recorded

LEMMA StutterShips == ASSUME Ships, UNCHANGED vars PROVE Ships'
BY DEF vars, native, proof, hand, Ships, Pending, HardenedFirst, AuditedFirst, VerifiedFirst,
       SignedFirst, Complete, ShipsHardened, Recorded

LEMMA NextShips == Typed /\ Traced /\ Marks /\ Ships /\ [Next]_vars => Ships'
BY BeginShips, StepShips, KillShips, DeveloperShips, StutterShips DEF Next

(* Every artifact with evidence carries all of the hardening, the device   *)
(* lock included, and a store artifact is signed with the release key,     *)
(* unless a shell file was edited by hand under the gate that built it;    *)
(* and it has the name, splash and icons of the app unless one was edited  *)
(* by hand at all; wherever a bootstrap or a gate was killed               *)
(* (tool/bootstrap.sh, tool/native_compile_gate.sh,                        *)
(* tool/native_release_gate.sh, tool/native_hardening.py).                 *)
THEOREM ArtifactsShipHardened == Spec => []ShipsHardened
<1>1. Init => Typed /\ Traced /\ Marks /\ Ships
  BY InitTyped, InitTraced, InitMarks, InitShips
<1>2. Typed /\ Traced /\ Marks /\ Ships /\ [Next]_vars => (Typed /\ Traced /\ Marks /\ Ships)'
  BY NextTyped, NextTraced, NextMarks, NextShips
<1>3. Ships => ShipsHardened
  BY DEF Ships
<1>4. QED
  BY <1>1, <1>2, <1>3, PTL DEF Spec

-----------------------------------------------------------------------------
(* The audits run the tools and the verifiers on fixtures of their own.     *)

LEMMA HardeningAuditHolds == HardeningAudit
<1>1. SUFFICES ASSUME NEW f \in DOMAIN HardeningFixture, NEW m \in HardeningMarks[f] \ {"deviceLock"}
               PROVE  Copies(Harden(f, Harden(f, HardeningFixture[f])), m) = 1
  BY DEF HardeningAudit
<1> DEFINE c == HardeningFixture[f]
           d == Harden(f, c)
           e == Harden(f, d)
<1>2. f \in {"manifest", "gradle", "activity", "styles", "plist", "project"}
      /\ c = Marked({"template"})
  BY DEF HardeningFixture
<1>3. f \in FilesFor("hardening") /\ f # "v31" /\ f # "rules" /\ (f \in Fragile => f # "activity")
  BY <1>2 DEF FilesFor, Fragile
<1>4. Once(c) /\ Structured(c)
  BY <1>2, MarkedIs, HasIs DEF Structured
<1> HIDE DEF c
<1>5. Once(d) /\ (f \notin {"rules", "activity"} => DOMAIN c \subseteq DOMAIN d)
  BY <1>3, <1>4, HardenIs
<1>6. f \in Fragile => Structured(d)
  BY <1>3, <1>4, <1>5, HasIs DEF Structured
<1> HIDE DEF d
<1>7. Once(e) /\ HardeningMarks[f] \subseteq DOMAIN e
  BY <1>3, <1>5, <1>6, HardenIs
<1> HIDE DEF e
<1>8. Copies(e, m) = 1
  BY <1>1, <1>7, HasIs DEF Copies, Once
<1>9. QED
  BY <1>8 DEF e, d, c

LEMMA SignDomain ==
  ASSUME NEW c, Once(c)
  PROVE  /\ Once(Sign(c))
         /\ DOMAIN Sign(c) = (DOMAIN c \ {"debugSigning"})
                             \cup {"loader", "releaseConfig", "releaseSigning"}
<1> DEFINE rest == c (-) Marked({"debugSigning"})
<1>1. Marked({"debugSigning"}) = [m \in {"debugSigning"} |-> 1]
  BY DEF Marked, SetToBag
<1>2. Once(rest) /\ DOMAIN rest = DOMAIN c \ {"debugSigning"}
  BY <1>1 DEF (-), Once
<1>3. QED
  BY <1>2, InsertIs DEF Sign

LEMMA SigningAuditHolds == SigningAudit
<1> DEFINE fixture == Marked({"template", "debugSigning"})
           once == Sign(fixture)
           twice == Sign(once)
<1>1. Once(fixture)
  BY MarkedIs
<1> HIDE DEF fixture
<1>2. Once(once)
  BY <1>1, SignDomain
<1> HIDE DEF once
<1>3. /\ Once(twice) /\ {"loader", "releaseConfig", "releaseSigning"} \subseteq DOMAIN twice
      /\ "debugSigning" \notin DOMAIN twice
  <2>1. /\ Once(twice)
        /\ DOMAIN twice = (DOMAIN once \ {"debugSigning"})
                          \cup {"loader", "releaseConfig", "releaseSigning"}
    BY <1>2, SignDomain
  <2> HIDE DEF twice
  <2>2. QED
    BY <2>1
<1> HIDE DEF twice
<1>4. /\ \A m \in {"loader", "releaseConfig", "releaseSigning"} : Copies(twice, m) = 1
      /\ Has(twice, "releaseConfig") /\ Has(twice, "releaseSigning")
      /\ ~ Has(twice, "debugSigning")
  BY <1>3, HasIs DEF Copies, Once
<1>5. QED
  BY <1>4 DEF SigningAudit, SigningVerified, twice, once, fixture

LEMMA IosContractAuditHolds == IosContractAudit
<1> DEFINE plist(marks) == Marked({"template"} \union marks)
           fixture(marks) == [plist |-> plist(marks), project |-> Marked({"template", "ios15"})]
<1>1. DOMAIN plist({"scene", "faceId"}) = {"template", "scene", "faceId"}
      /\ DOMAIN plist({"faceId"}) = {"template", "faceId"}
      /\ DOMAIN Marked({"template", "ios15"}) = {"template", "ios15"}
  BY MarkedIs
<1> HIDE DEF plist
<1>2. IosContract(fixture({"scene", "faceId"})) /\ ~ IosContract(fixture({"faceId"}))
  BY <1>1, HasIs DEF IosContract
<1>3. QED
  BY <1>2 DEF IosContractAudit, plist

LEMMA PreflightAuditHolds == PreflightAudit
BY DEF PreflightAudit, ToolchainAccepted, Archives

LEMMA HandoffAuditHolds == HandoffAudit
BY DEF HandoffAudit, SameBuild, Archives

LEMMA InstallerAuditHolds == InstallerAudit
BY DEF InstallerAudit, ReleaseAccepted, ArchiveAccepted

LEMMA PinAuditHolds == PinAudit
<1> DEFINE pins == [action \in {"checkout", "cache"} |-> <<"commit", "version">>]
           used == [action : DOMAIN pins, commit : {"commit"}, version : {"version"}]
           tagged == [action |-> "checkout", commit |-> "version", version |-> "version"]
<1>1. PinsAccepted(used, pins)
  <2>1. \A use \in used : use.action \in DOMAIN pins /\ <<use.commit, use.version>> = pins[use.action]
    OBVIOUS
  <2>2. ASSUME NEW a \in DOMAIN pins PROVE a \in {use.action : use \in used}
    <3>1. [action |-> a, commit |-> "commit", version |-> "version"] \in used
      OBVIOUS
    <3>2. QED
      BY <3>1
  <2>3. QED
    BY <2>1, <2>2 DEF PinsAccepted
<1>2. ~ PinsAccepted({tagged} \union {use \in used : use.action # "checkout"}, pins)
  <2>1. tagged \in {tagged} \union {use \in used : use.action # "checkout"}
    OBVIOUS
  <2>2. "checkout" \in DOMAIN pins /\ pins["checkout"] = <<"commit", "version">>
    OBVIOUS
  <2>3. <<tagged.commit, tagged.version>> # pins[tagged.action]
    BY <2>2
  <2>4. QED
    BY <2>1, <2>3 DEF PinsAccepted
<1>3. QED
  BY <1>1, <1>2 DEF PinAudit

LEMMA UatAuditHolds == UatAudit
<1> DEFINE fixture == [apk |-> "built", sha |-> "built", signing |-> "report"]
           tampered == [fixture EXCEPT !.apk = "tampered"]
<1>1. /\ DOMAIN fixture = {"apk", "sha", "signing"} /\ fixture.apk = "built"
      /\ fixture.sha = "built" /\ fixture.signing = "report"
  OBVIOUS
<1>2. None \notin Range(fixture)
  <2> HIDE DEF fixture
  <2>1. Range(fixture) \subseteq {"built", "report"}
    BY <1>1 DEF Range
  <2>2. QED
    BY <2>1, NoneAssumption
<1>3. UatAccepted(fixture) /\ ~ UatAccepted(tampered)
  BY <1>2 DEF UatAccepted
<1>4. QED
  BY <1>3 DEF UatAudit

LEMMA EvidenceAuditHolds == EvidenceAudit
<1> DEFINE app == File("main.dart", "canonical", "app")
           deps == File("pubspec.lock", "canonical", "lock")
           info == File("Info.plist", "shell", "plist")
           secret(k) == [File("key.properties", "shell", k) EXCEPT !.secret = TRUE]
           Fixture(k) == {app, deps, info, secret(k)}
<1>1. /\ app.place = "canonical" /\ deps.place = "canonical" /\ info.place = "shell"
      /\ ~ app.secret /\ ~ deps.secret /\ ~ info.secret
      /\ \A k : secret(k).secret
      /\ app.content = "app" /\ deps.content = "lock" /\ info.content = "plist"
  BY DEF File
<1> HIDE DEF app, deps, info, secret
<1>2. \A k : CanonicalFiles(Fixture(k), FALSE) = {app, deps} /\ ShellFiles(Fixture(k)) = {info}
  BY <1>1 DEF CanonicalFiles, ShellFiles
<1>3. \A k : SourceManifest(Fixture(k), FALSE, TRUE) = Digest({app, deps} \cup {info})
  BY <1>2 DEF SourceManifest
<1>4. \A entry \in Digest({app, deps} \cup {info}) : entry[2] # "a"
  BY <1>1 DEF Digest
<1>5. QED
  BY <1>3, <1>4 DEF EvidenceAudit, app, deps, info, secret

LEMMA ResidueAuditHolds == ResidueAudit
<1> DEFINE probed == [File("docs", "canonical", "probe") EXCEPT !.tracked = FALSE]
<1>1. ~ probed.tracked
  BY DEF File
<1> HIDE DEF probed
<1>2. CanonicalFiles(CheckoutFiles \union {probed}, TRUE) = CanonicalFiles(CheckoutFiles, TRUE)
  BY <1>1 DEF CanonicalFiles
<1>3. SourceManifest(CheckoutFiles \union {probed}, TRUE, FALSE) = CanonicalIdentity
  BY <1>2 DEF SourceManifest, CanonicalIdentity
<1>4. QED
  BY <1>3 DEF ResidueAudit, probed

(* The fixtures of the audits pass, whatever the state of the checkout.    *)
LEMMA FixturesAlwaysPass == FixturesPass
BY HardeningAuditHolds, SigningAuditHolds, IosContractAuditHolds, PreflightAuditHolds,
   EvidenceAuditHolds, HandoffAuditHolds, InstallerAuditHolds, PinAuditHolds, UatAuditHolds,
   ResidueAuditHolds DEF FixturesPass

-----------------------------------------------------------------------------
(* Undisturbed runs: a file keeps its structure and what it shows under    *)
(* the tools, and no tool chokes on a shell that has its structure.        *)

(* Files the tools search for their place in, and those they write whole.  *)
Solid == {"manifest", "gradle", "activity", "styles", "v31", "plist", "project"}
Written == {"rules", "drawables", "launchScreen", "launcher", "appIcon"}

(* No file of a shell has lost its structure.                              *)
Fit(sh) == \A f \in Solid : sh[f] = Absent \/ Structured(sh[f])

(* Everything that flutter create makes is there.                          *)
Full(sh) == \A f \in Files \ {"rules", "v31"} : sh[f] # Absent

Shown(sh, f) == IdentityMarks[f] \subseteq DOMAIN sh[f]
Channel(sh) == "channel" \in DOMAIN sh["activity"]

(* What the audits of name, splash and icons look for.                     *)
Dressed(sh) ==
  /\ {"label", "icon"} \subseteq DOMAIN sh["manifest"]
  /\ sh["drawables"] \notin {Absent, Template["drawables"]}
  /\ "splash" \in DOMAIN sh["v31"] /\ "splash" \in DOMAIN sh["launchScreen"]
  /\ "icons" \in DOMAIN sh["launcher"] /\ "icons" \in DOMAIN sh["appIcon"]

Compilable(sh) ==
  /\ Buildable(sh, "android") /\ Buildable(sh, "ios")
  /\ "releaseSigning" \notin DOMAIN sh["gradle"]

LEMMA SolidAre ==
  /\ Solid \subseteq Files /\ Written \subseteq Files /\ Files = Solid \cup Written
  /\ Solid \cap Written = {}
  /\ DOMAIN IdentityMarks = (BrandFiles \cup {"launcher", "appIcon"})
  /\ DOMAIN IdentityMarks \subseteq Files
BY DEF Solid, Written, Files, AndroidFiles, IosFiles, IdentityMarks, BrandFiles

(* A file with its structure keeps it, and all its marks, under a tool;    *)
(* only the class of the activity is replaced.                             *)
Grows(c, d, marks) ==
  /\ Once(d) /\ DOMAIN c \subseteq DOMAIN d /\ DOMAIN d \subseteq DOMAIN c \cup marks

LEMMA InsertAdds ==
  ASSUME NEW c, Once(c), NEW marks
  PROVE  Grows(c, Insert(c, marks), marks)
BY InsertIs DEF Grows

ToolMarks == {"permissions", "backupOff", "receivers", "sdk36", "java17", "dependencies",
              "appCompat", "faceId", "ios15", "imports", "deviceLock", "label", "icon", "splash"}

LEMMA SolidGrows ==
  ASSUME NEW c, Once(c), Structured(c), NEW tool \in Tools, NEW f \in FilesFor(tool) \cap Solid,
         ~ (tool = "hardening" /\ f = "activity")
  PROVE  Grows(c, Patch(tool, f, c), ToolMarks)
<1>1. ASSUME NEW marks \in SUBSET ToolMarks
      PROVE  Grows(c, Insert(c, marks), ToolMarks)
  BY <1>1, InsertAdds DEF Grows
<1>2. Grows(c, c, ToolMarks) /\ c # Absent
  BY AbsentIs, HasIs DEF Grows, Structured
<1>3. CASE tool = "hardening"
  <2>1. Patch(tool, f, c) = Harden(f, c)
    BY <1>3 DEF Patch
  <2>2. /\ {"permissions", "backupOff", "receivers"} \in SUBSET ToolMarks
        /\ {"sdk36", "java17", "dependencies"} \in SUBSET ToolMarks
        /\ {"appCompat"} \in SUBSET ToolMarks /\ {"faceId"} \in SUBSET ToolMarks
        /\ {"ios15"} \in SUBSET ToolMarks
    BY DEF ToolMarks
  <2>3. \/ Harden(f, c) = Insert(c, {"permissions", "backupOff", "receivers"})
        \/ Harden(f, c) = Insert(c, {"sdk36", "java17", "dependencies"})
        \/ Harden(f, c) = Insert(c, {"appCompat"}) \/ Harden(f, c) = Insert(c, {"faceId"})
        \/ Harden(f, c) = Insert(c, {"ios15"}) \/ Harden(f, c) = c
    BY <1>3 DEF Harden, Solid
  <2>4. QED
    BY <1>1, <1>2, <2>1, <2>2, <2>3
<1>4. CASE tool = "v49"
  <2>1. Patch(tool, f, c) = Insert(c, {"imports", "deviceLock"})
    BY <1>4 DEF Patch, AddDeviceLock
  <2>2. QED
    BY <1>1, <2>1 DEF ToolMarks
<1>5. CASE tool = "branding"
  <2>1. Patch(tool, f, c) = Insert(c, {"label", "icon"}) \/ Patch(tool, f, c) = Insert(c, {"label", "faceId"})
    BY <1>5 DEF Patch, Brand
  <2>2. QED
    BY <1>1, <2>1 DEF ToolMarks
<1>6. CASE tool = "splash"
  <2>1. f \in {"styles", "v31"}
    BY <1>6 DEF FilesFor, Solid
  <2>2. Patch(tool, f, c) = Insert(c, {"splash"})
    BY <1>2, <1>6, <2>1 DEF Patch, Splash
  <2>3. QED
    BY <1>1, <2>2 DEF ToolMarks
<1>7. CASE tool = "icon"
  BY <1>7 DEF FilesFor, Solid
<1>8. QED
  BY <1>3, <1>4, <1>5, <1>6, <1>7 DEF Tools

(* The files that are written whole, and the activity and values-v31 when  *)
(* they are.                                                               *)
LEMMA WholeIs ==
  ASSUME NEW c, NEW tool \in Tools, NEW f \in FilesFor(tool)
  PROVE  LET d == Patch(tool, f, c) IN
         /\ f \in Written => d \notin {Absent, Emptied}
         /\ f \in Written \cap DOMAIN IdentityMarks => IdentityMarks[f] \subseteq DOMAIN d
         /\ tool = "hardening" /\ f = "activity" => {"template", "channel"} \subseteq DOMAIN d
         /\ tool = "splash" /\ f = "v31" /\ c = Absent => {"template", "splash"} \subseteq DOMAIN d
<1>1. \A marks : DOMAIN Marked(marks) = marks
  BY MarkedIs
<1>2. \A marks, m : m \in marks /\ m # "absent" => Marked(marks) \notin {Absent, Emptied}
  BY <1>1, AbsentIs
<1>3. CASE tool = "hardening" /\ f = "rules"
  <2>1. Patch(tool, f, c) = Marked({"exclusions"}) /\ f \notin DOMAIN IdentityMarks
    BY <1>3, SolidAre DEF Patch, Harden, BrandFiles
  <2>2. "exclusions" \in {"exclusions"} /\ "exclusions" # "absent"
    OBVIOUS
  <2>3. Marked({"exclusions"}) \notin {Absent, Emptied}
    BY <1>2, <2>2
  <2>4. QED
    BY <1>3, <2>1, <2>3
<1>4. CASE tool = "hardening" /\ f = "activity"
  <2>1. Patch(tool, f, c) = Marked({"template", "imports", "channel", "deviceLock"})
    BY <1>4 DEF Patch, Harden, Activity
  <2>2. QED
    BY <1>1, <1>4, <2>1 DEF Written
<1>5. CASE tool = "splash" /\ f \in {"drawables", "launchScreen"}
  <2>1. Patch(tool, f, c) = Marked({"splash"}) /\ IdentityMarks[f] = {"splash"}
    BY <1>5 DEF Patch, Splash, IdentityMarks
  <2>2. "splash" \in {"splash"} /\ "splash" # "absent"
    OBVIOUS
  <2>3. Marked({"splash"}) \notin {Absent, Emptied}
    BY <1>2, <2>2
  <2>4. QED
    BY <1>1, <1>5, <2>1, <2>3
<1>6. CASE tool = "icon"
  <2>1. Patch(tool, f, c) = Marked({"icons"}) /\ IdentityMarks[f] = {"icons"}
        /\ f \in {"launcher", "appIcon"}
    BY <1>6 DEF Patch, Icon, FilesFor, IdentityMarks
  <2>2. "icons" \in {"icons"} /\ "icons" # "absent"
    OBVIOUS
  <2>3. Marked({"icons"}) \notin {Absent, Emptied}
    BY <1>2, <2>2
  <2>4. QED
    BY <1>1, <1>6, <2>1, <2>3
<1>7. CASE tool = "splash" /\ f = "v31"
  <2>1. c = Absent => Patch(tool, f, c) = Marked({"template", "appCompat", "splash"})
    BY <1>7 DEF Patch, Splash
  <2>2. QED
    BY <1>1, <1>7, <2>1 DEF Written
<1>8. CASE f \notin Written /\ ~ (tool = "hardening" /\ f = "activity") /\ ~ (tool = "splash" /\ f = "v31")
  BY <1>8
<1>9. QED
  BY <1>3, <1>4, <1>5, <1>6, <1>7, <1>8 DEF Tools, FilesFor, Written

(* No tool of the bootstrap chokes on a shell that has its structure.      *)
LEMMA NothingChokes ==
  ASSUME NEW sh, Fit(sh), NEW tool \in Tools, NEW f \in FilesFor(tool),
         tool = "v49" => Channel(sh)
  PROVE  ~ Chokes(tool, f, sh)
<1>1. CASE tool = "v49"
  <2>1. f = "activity" /\ Has(sh[f], "channel")
    BY <1>1, HasIs DEF FilesFor, Channel
  <2>2. QED
    BY <1>1, <2>1 DEF Chokes
<1>2. CASE tool # "v49"
  <2>1. /\ tool = "hardening" /\ f \in {"manifest", "activity", "plist"} => f \in Solid
        /\ tool = "branding" => f \in Solid
        /\ tool = "splash" /\ f \in {"styles", "v31"} => f \in Solid
        /\ tool # "signing"
    BY DEF FilesFor, Solid, Tools
  <2>2. QED
    BY <1>2, <2>1 DEF Chokes, Fit
<1>3. QED
  BY <1>1, <1>2

MarkSteps == BrandSteps \cup IconSteps

(* What becomes of the file a tool reaches.                                *)
LEMMA ReachedIs ==
  ASSUME NEW sh, Clean(sh), Fit(sh), NEW tool \in Tools, NEW f \in FilesFor(tool),
         Reaches(tool, f, sh)
  PROVE  LET c == sh[f]
             d == Patch(tool, f, sh[f])
         IN /\ f \in Written => d \notin {Absent, Emptied}
            /\ f \in Solid => Structured(d)
            /\ f \in Solid \ {"activity"} /\ c # Absent => Grows(c, d, ToolMarks)
            /\ f \in DOMAIN IdentityMarks /\ IdentityMarks[f] \subseteq DOMAIN c
                 => IdentityMarks[f] \subseteq DOMAIN d
            /\ f = "activity" /\ (tool = "hardening" \/ "channel" \in DOMAIN c)
                 => "channel" \in DOMAIN d
<1> DEFINE c == sh[f]
           d == Patch(tool, f, sh[f])
<1>1. Once(c) /\ f \in Files
  BY FilesAre DEF Clean
<1>2. /\ f \in Written => d \notin {Absent, Emptied}
      /\ f \in Written \cap DOMAIN IdentityMarks => IdentityMarks[f] \subseteq DOMAIN d
      /\ tool = "hardening" /\ f = "activity" => {"template", "channel"} \subseteq DOMAIN d
      /\ tool = "splash" /\ f = "v31" /\ c = Absent => {"template", "splash"} \subseteq DOMAIN d
  BY WholeIs
<1> HIDE DEF d
<1>3. CASE f \in Written
  BY <1>2, <1>3, SolidAre DEF d, Solid
<1>4. CASE f = "activity" /\ tool = "hardening"
  BY <1>2, <1>4, SolidAre, HasIs DEF Structured, d, BrandFiles, Written
<1>5. CASE f \in Solid /\ c # Absent /\ ~ (f = "activity" /\ tool = "hardening")
  <2>1. Structured(c)
    BY <1>5 DEF Fit
  <2>2. Grows(c, d, ToolMarks)
    BY <1>1, <1>5, <2>1, SolidGrows DEF d
  <2>3. DOMAIN c \subseteq DOMAIN d /\ Structured(d)
    BY <2>1, <2>2, HasIs DEF Grows, Structured
  <2>4. QED
    BY <1>5, <2>2, <2>3, SolidAre DEF d
<1>6. CASE f \in Solid /\ c = Absent
  <2>1. tool = "splash" /\ f = "v31"
    BY <1>6, SolidAre DEF Reaches, Makes, Solid
  <2>2. {"template", "splash"} \subseteq DOMAIN d /\ IdentityMarks[f] = {"splash"}
    BY <1>2, <1>6, <2>1 DEF IdentityMarks
  <2>3. Structured(d)
    BY <2>2, HasIs DEF Structured
  <2>4. QED
    BY <1>6, <2>1, <2>2, <2>3, SolidAre DEF d
<1>7. QED
  BY <1>1, <1>3, <1>4, <1>5, <1>6, SolidAre

LEMMA ToolKeeps ==
  ASSUME NEW sh, Clean(sh), Fit(sh), NEW tool \in Tools, NEW f \in FilesFor(tool)
  PROVE  LET sh2 == Patched(tool, f, sh) IN
         /\ Clean(sh2) /\ Fit(sh2)
         /\ \A g \in Files : sh[g] # Absent => sh2[g] # Absent
         /\ \A g \in Solid : Structured(sh[g]) => Structured(sh2[g])
         /\ \A g \in Solid \ {"activity"} : sh[g] # Absent => Grows(sh[g], sh2[g], ToolMarks)
         /\ \A g \in DOMAIN IdentityMarks : Shown(sh, g) => Shown(sh2, g)
         /\ Channel(sh) => Channel(sh2)
         /\ \A g \in Files \ {f} : sh2[g] = sh[g]
         /\ f \in Written => sh2[f] = sh[f] \/ sh2[f] \notin {Absent, Emptied}
<1> DEFINE sh2 == Patched(tool, f, sh)
           c == sh[f]
           d == Patch(tool, f, c)
<1>1. /\ Clean(sh2) /\ f \in Files /\ Once(c) /\ \A g \in Files : Once(sh[g])
      /\ sh2[f] = (IF Reaches(tool, f, sh) THEN d ELSE c)
      /\ \A g \in Files \ {f} : sh2[g] = sh[g]
  BY PatchedClean, FilesAre DEF Clean
<1>2. \A g \in Files : Grows(sh[g], sh[g], ToolMarks)
  BY <1>1 DEF Grows
<1>3. CASE ~ Reaches(tool, f, sh)
  <2> HIDE DEF sh2, d
  <2>1. \A g \in Files : sh2[g] = sh[g]
    BY <1>1, <1>3 DEF c
  <2>2. "activity" \in Files /\ Solid \subseteq Files /\ DOMAIN IdentityMarks \subseteq Files
    BY SolidAre DEF Solid
  <2>3. QED
    BY <1>1, <1>2, <2>1, <2>2 DEF Fit, Shown, Channel, sh2
<1>4. CASE Reaches(tool, f, sh)
  <2>1. /\ f \in Written => d \notin {Absent, Emptied}
        /\ f \in Solid => Structured(d)
        /\ f \in Solid \ {"activity"} /\ c # Absent => Grows(c, d, ToolMarks)
        /\ f \in DOMAIN IdentityMarks /\ IdentityMarks[f] \subseteq DOMAIN c
             => IdentityMarks[f] \subseteq DOMAIN d
        /\ f = "activity" /\ (tool = "hardening" \/ "channel" \in DOMAIN c)
             => "channel" \in DOMAIN d
    BY <1>4, ReachedIs
  <2> HIDE DEF sh2, d
  <2>2. sh2[f] = d
    BY <1>1, <1>4
  <2>3. f \in Solid => d # Absent
    BY <2>1, AbsentIs, HasIs DEF Structured
  <2>4. "activity" \in Solid /\ f \in Solid \cup Written
    BY <1>1, SolidAre DEF Solid
  <2>5. Fit(sh2) /\ \A g \in Solid : Structured(sh[g]) => Structured(sh2[g])
    BY <1>1, <2>1, <2>2, SolidAre DEF Fit
  <2>6. \A g \in Files : sh[g] # Absent => sh2[g] # Absent
    BY <1>1, <2>1, <2>2, <2>3, <2>4
  <2>7. \A g \in Solid \ {"activity"} : sh[g] # Absent => Grows(sh[g], sh2[g], ToolMarks)
    BY <1>1, <1>2, <2>1, <2>2, SolidAre DEF c
  <2>8. \A g \in DOMAIN IdentityMarks : Shown(sh, g) => Shown(sh2, g)
    BY <1>1, <2>1, <2>2, SolidAre DEF Shown, c
  <2>9. Channel(sh) => Channel(sh2)
    BY <1>1, <2>1, <2>2, <2>4, SolidAre DEF Channel, c
  <2>10. QED
    BY <1>1, <2>1, <2>2, <2>5, <2>6, <2>7, <2>8, <2>9 DEF sh2
<1>5. QED
  BY <1>3, <1>4

(* On a full shell a step does what its name promises.                     *)
LEMMA ToolDoes ==
  ASSUME NEW sh, Clean(sh), Fit(sh), Full(sh), NEW tool \in Tools, NEW f \in FilesFor(tool)
  PROVE  LET sh2 == Patched(tool, f, sh) IN
         /\ tool = "hardening" /\ f = "activity" => Channel(sh2)
         /\ <<tool, f>> \in MarkSteps => Shown(sh2, f)
<1> DEFINE sh2 == Patched(tool, f, sh)
           c == sh[f]
           d == Patch(tool, f, c)
<1>1. /\ f \in Files /\ sh2[f] = (IF Reaches(tool, f, sh) THEN d ELSE c)
  BY PatchedClean, FilesAre
<1>2. {"manifest", "styles", "activity"} \subseteq Files \ {"rules", "v31"}
  BY DEF Files, AndroidFiles
<1>3. ASSUME tool = "hardening", f = "activity" PROVE Channel(sh2)
  <2>1. Reaches(tool, f, sh)
    BY <1>2, <1>3 DEF Reaches, Full
  <2>2. "channel" \in DOMAIN d
    BY <1>3, <2>1, ReachedIs
  <2>3. QED
    BY <1>1, <1>3, <2>1, <2>2 DEF Channel
<1>4. ASSUME <<tool, f>> \in MarkSteps PROVE Shown(sh2, f)
  <2>1. tool \in {"branding", "splash", "icon"} /\ f # "rules"
    BY <1>4 DEF MarkSteps, BrandSteps, IconSteps, FilesFor
  <2>2. Reaches(tool, f, sh)
    <3>1. CASE f # "v31"
      BY <1>1, <2>1, <3>1 DEF Reaches, Full
    <3>2. CASE f = "v31"
      <4>1. tool = "splash"
        BY <2>1, <3>2 DEF FilesFor
      <4>2. QED
        BY <1>2, <3>2, <4>1 DEF Reaches, Makes, Full
    <3>3. QED
      BY <3>1, <3>2
  <2>3. sh2[f] = d
    BY <1>1, <2>2
  <2>4. CASE tool = "icon"
    <3>1. f \in Written \cap DOMAIN IdentityMarks
      BY <2>4, SolidAre DEF FilesFor, Written
    <3>2. IdentityMarks[f] \subseteq DOMAIN d
      BY <3>1, WholeIs
    <3>3. QED
      BY <2>3, <3>2 DEF Shown
  <2>5. CASE tool \in {"branding", "splash"}
    <3>1. Branded(sh2, f) /\ f \in BrandFiles
      BY <2>5, BrandingBrands
    <3>2. Fit(sh2)
      BY ToolKeeps
    <3> HIDE DEF sh2
    <3>3. sh2[f] # Absent
      <4>1. f \in Written => d \notin {Absent, Emptied}
        BY <2>2, ReachedIs
      <4>2. f \in Solid => Structured(d)
        BY <2>2, ReachedIs
      <4> HIDE DEF d
      <4>3. QED
        BY <1>1, <2>3, <4>1, <4>2, SolidAre, AbsentIs, HasIs DEF Structured
    <3>4. Structural \subseteq Solid
      BY DEF Structural, Solid
    <3>5. QED
      BY <3>1, <3>2, <3>3, <3>4 DEF Branded, Fit, Shown, sh2
  <2>6. QED
    BY <2>1, <2>4, <2>5
<1>5. QED
  BY <1>3, <1>4

-----------------------------------------------------------------------------
(* The order of the steps of the bootstrap and of the compile gate.        *)

LEMMA IconFilesAre == \A f \in FilesFor("icon") : \E n \in DOMAIN IconFiles : IconFiles[n] = f
<1>1. DOMAIN IconFiles = 1 .. 2 /\ IconFiles[1] = "launcher" /\ IconFiles[2] = "appIcon"
  BY DEF IconFiles
<1>2. {1, 2} \subseteq DOMAIN IconFiles
  BY <1>1
<1>3. QED
  BY <1>1, <1>2 DEF FilesFor

(* The parts of the bootstrap.                                             *)
Fetching == <<<<"preflight", "bootstrap">>, <<"remove", "shells">>, <<"copy", "android">>,
              <<"copy", "ios">>>>
Lifecycle == <<<<"v49", "activity">>>>
Branding == Tool("branding", BrandingFiles)
Splashing == Tool("splash", SplashFiles)
IconPart == Tool("icon", IconFiles)
Checking == <<<<"audits", "run">>, <<"pubGet", "resolve">>, <<"tests", "run">>>>

PartIs(s, ops) == s \in Seq(FreeSteps) /\ OpsIn(s, ops)

LEMMA BootstrapParts ==
  /\ Bootstrap = Fetching \o HardenSteps \o Lifecycle \o Branding \o Splashing \o IconPart \o Checking
  /\ PartIs(Fetching, {"preflight", "remove", "copy"}) /\ PartIs(HardenSteps, {"hardening"})
  /\ PartIs(Lifecycle, {"v49"}) /\ PartIs(Branding, {"branding"}) /\ PartIs(Splashing, {"splash"})
  /\ PartIs(IconPart, {"icon"}) /\ PartIs(Checking, {"audits", "pubGet", "tests"})
  /\ \A f \in FilesFor("branding") : Mentions(Branding, {<<"branding", f>>})
  /\ \A f \in FilesFor("splash") : Mentions(Splashing, {<<"splash", f>>})
  /\ \A f \in FilesFor("icon") : Mentions(IconPart, {<<"icon", f>>})
<1>1. Bootstrap = Fetching \o HardenSteps \o Lifecycle \o Branding \o Splashing \o IconPart \o Checking
  BY DEF Bootstrap, Fetching, Lifecycle, Branding, Splashing, IconPart, Checking
<1>2. ASSUME NEW tool \in {"hardening", "branding", "splash", "icon"},
             NEW files \in Seq(FilesFor(tool)),
             \A f \in FilesFor(tool) : \E n \in DOMAIN files : files[n] = f
      PROVE  /\ PartIs(Tool(tool, files), {tool})
             /\ \A f \in FilesFor(tool) : Mentions(Tool(tool, files), {<<tool, f>>})
  <2> DEFINE t == Tool(tool, files)
  <2>1. /\ t \in Seq(FreeSteps) /\ \A n \in DOMAIN t : t[n] = <<tool, t[n][2]>>
        /\ \A f : (\E n \in DOMAIN files : files[n] = f) => Mentions(t, {<<tool, f>>})
    BY ToolStepsAre
  <2> HIDE DEF t
  <2>2. OpsIn(t, {tool})
    BY <2>1 DEF OpsIn
  <2>3. QED
    BY <1>2, <2>1, <2>2 DEF PartIs, t
<1>3. /\ PartIs(Branding, {"branding"}) /\ PartIs(Splashing, {"splash"}) /\ PartIs(IconPart, {"icon"})
      /\ \A f \in FilesFor("branding") : Mentions(Branding, {<<"branding", f>>})
      /\ \A f \in FilesFor("splash") : Mentions(Splashing, {<<"splash", f>>})
      /\ \A f \in FilesFor("icon") : Mentions(IconPart, {<<"icon", f>>})
  BY <1>2, FileListsAre, IconFilesAre DEF Branding, Splashing, IconPart
<1>4. PartIs(Fetching, {"preflight", "remove", "copy"})
  <2>1. Fetching \in Seq(FreeSteps) /\ DOMAIN Fetching = 1 .. 4
        /\ Fetching[1][1] = "preflight" /\ Fetching[2][1] = "remove" /\ Fetching[3][1] = "copy"
        /\ Fetching[4][1] = "copy"
    BY FreePieces DEF Fetching
  <2>2. QED
    BY <2>1 DEF PartIs, OpsIn
<1>5. PartIs(Checking, {"audits", "pubGet", "tests"})
  <2>1. Checking \in Seq(FreeSteps) /\ DOMAIN Checking = 1 .. 3
        /\ Checking[1][1] = "audits" /\ Checking[2][1] = "pubGet" /\ Checking[3][1] = "tests"
    BY FreePieces DEF Checking
  <2>2. QED
    BY <2>1 DEF PartIs, OpsIn
<1>6. PartIs(Lifecycle, {"v49"})
  <2>1. Lifecycle \in Seq(FreeSteps) /\ DOMAIN Lifecycle = 1 .. 1 /\ Lifecycle[1][1] = "v49"
    BY FreePieces DEF Lifecycle
  <2>2. QED
    BY <2>1 DEF PartIs, OpsIn
<1>7. PartIs(HardenSteps, {"hardening"})
  BY HardeningSteps DEF PartIs
<1>8. QED
  BY <1>1, <1>3, <1>4, <1>5, <1>6, <1>7

-----------------------------------------------------------------------------
Removal == StepsOf({"remove"})
Patches == StepsOf(Tools)
CheckSteps == StepsOf({"audits"})
ContractSteps == StepsOf({"iosContract"})
ReportSteps == StepsOf({"report"})
LockSteps == StepsOf({"v49"})
LockFirst == {<<"hardening", "activity">>}
MacPreflights == {"preflight"} \X {"ios", "all"}

BootOps == {"preflight", "remove", "copy", "hardening", "v49", "branding", "splash", "icon",
            "audits", "pubGet", "tests"}
CompileOps == {"preflight", "hardening", "v49", "pubGet", "audits", "tests", "build",
               "iosContract", "capture", "report"}

Leads(s, X, Y) == Mentions(s, X) /\ Led(s, X, Y)

LEMMA Apart ==
  ASSUME NEW s, NEW ops, OpsIn(s, ops), NEW others, ops \cap others = {}
  PROVE  ~ Mentions(s, StepsOf(others))
<1>1. \A y \in StepsOf(others) : y[1] \in others
  BY StepIs
<1>2. \A y \in StepsOf(others) : y[1] \notin ops
  BY <1>1
<1>3. QED
  BY <1>2, OtherOps

LEMMA ApartOne ==
  ASSUME NEW s, NEW ops, OpsIn(s, ops), NEW op, op \notin ops
  PROVE  ~ Mentions(s, StepsOf({op}))
<1>1. ops \cap {op} = {}
  OBVIOUS
<1>2. QED
  BY <1>1, Apart

LEMMA LeadsOn ==
  ASSUME NEW S, NEW s \in Seq(S), NEW t \in Seq(S)
  PROVE  /\ \A X, Y : Leads(s, X, Y) => Leads(s \o t, X, Y)
         /\ \A X, Y : ~ Mentions(s, Y) /\ Mentions(s, X) => Leads(s \o t, X, Y)
         /\ \A X, Y : ~ Mentions(s, Y) /\ ~ Mentions(t, Y) => ~ Mentions(s \o t, Y)
         /\ \A X : Mentions(s, X) \/ Mentions(t, X) => Mentions(s \o t, X)
<1>1. \A X, Y : Leads(s, X, Y) => Leads(s \o t, X, Y)
  BY ConcatIs DEF Leads
<1>2. \A X, Y : ~ Mentions(s, Y) /\ Mentions(s, X) => Leads(s, X, Y)
  BY NotMentioned DEF Leads
<1>3. \A X : Mentions(t, X) => Mentions(s \o t, X)
  BY MentionsLater
<1>4. QED
  BY <1>1, <1>2, <1>3, ConcatIs

(* After its first steps the bootstrap goes over nothing it removed.       *)
Fetched(s) ==
  /\ s \in Seq(FreeSteps) /\ OpsIn(s, BootOps)
  /\ NoneAfter(s, Removal, Removal)
  /\ Leads(s, Removal, CopySteps \cup Patches \cup CheckSteps)
  /\ \A p \in {"android", "ios"} : Leads(s, {<<"copy", p>>}, Patches)
  /\ ~ Mentions(s, MacPreflights)

LEMMA FetchedGoesOn ==
  ASSUME NEW s, Fetched(s), NEW t \in Seq(FreeSteps), OpsIn(t, BootOps \ {"preflight", "remove"})
  PROVE  Fetched(s \o t)
<1>1. s \in Seq(FreeSteps) /\ s \o t \in Seq(FreeSteps)
  BY ConcatIs DEF Fetched
<1>2. OpsIn(s \o t, BootOps)
  <2>1. BootOps \ {"preflight", "remove"} \subseteq BootOps
    OBVIOUS
  <2>3. OpsIn(t, BootOps)
    BY <2>1, WiderOps
  <2>2. QED
    BY <1>1, <2>3, ConcatOps DEF Fetched
<1>3. ~ Mentions(t, Removal)
  <2>1. "remove" \notin BootOps \ {"preflight", "remove"}
    OBVIOUS
  <2>2. QED
    BY <2>1, ApartOne DEF Removal
<1>4. ~ Mentions(t, MacPreflights)
  <2>1. \A y \in MacPreflights : y[1] \notin BootOps \ {"preflight", "remove"}
    BY DEF MacPreflights
  <2>2. QED
    BY <2>1, OtherOps
<1>5. NoneAfter(s \o t, Removal, Removal)
  <2>1. NoneAfter(t, Removal, Removal)
    BY <1>3, NotMentioned
  <2>2. QED
    BY <1>1, <1>3, <2>1, ConcatIs DEF Fetched
<1>6. Leads(s \o t, Removal, CopySteps \cup Patches \cup CheckSteps)
  BY <1>1, LeadsOn DEF Fetched
<1>7. \A p \in {"android", "ios"} : Leads(s \o t, {<<"copy", p>>}, Patches)
  BY <1>1, LeadsOn DEF Fetched
<1>8. ~ Mentions(s \o t, MacPreflights)
  BY <1>1, <1>4, LeadsOn DEF Fetched
<1>9. QED
  BY <1>1, <1>2, <1>5, <1>6, <1>7, <1>8 DEF Fetched

LEMMA FetchingIs == Fetched(Fetching)
<1>1. /\ Fetching \in Seq(FreeSteps) /\ OpsIn(Fetching, {"preflight", "remove", "copy"})
  BY BootstrapParts DEF PartIs
<1>2. /\ DOMAIN Fetching = 1 .. 4 /\ Fetching[1] = <<"preflight", "bootstrap">>
      /\ Fetching[2] = <<"remove", "shells">> /\ Fetching[3] = <<"copy", "android">>
      /\ Fetching[4] = <<"copy", "ios">>
  BY DEF Fetching
<1>3. OpsIn(Fetching, BootOps)
  <2>1. {"preflight", "remove", "copy"} \subseteq BootOps
    BY DEF BootOps
  <2>2. QED
    BY <1>1, <2>1, WiderOps
<1>4. ~ Mentions(Fetching, Patches) /\ ~ Mentions(Fetching, CheckSteps)
  <2>1. {"preflight", "remove", "copy"} \cap Tools = {}
    BY DEF Tools
  <2>2. ~ Mentions(Fetching, Patches)
    BY <1>1, <2>1, Apart DEF Patches
  <2>3. ~ Mentions(Fetching, CheckSteps)
    BY <1>1, ApartOne DEF CheckSteps
  <2>4. QED
    BY <2>2, <2>3
<1>5. \A n \in {1, 3, 4} : Fetching[n] \notin Removal
  <2>1. \A y \in Removal : y[1] = "remove"
    BY StepIs DEF Removal
  <2>2. QED
    BY <1>2, <2>1
<1>6. Fetching[2] \in Removal
  BY <1>2, ArgsAre, StepIn DEF Removal
<1>7. NoneAfter(Fetching, Removal, Removal)
  BY <1>2, <1>5 DEF NoneAfter
<1>8. Leads(Fetching, Removal, CopySteps \cup Patches \cup CheckSteps)
  <2>1. Mentions(Fetching, Removal)
    BY <1>2, <1>6 DEF Mentions
  <2>2. ASSUME NEW n \in DOMAIN Fetching, Fetching[n] \in CopySteps \cup Patches \cup CheckSteps
        PROVE  \E m \in 1 .. n - 1 : Fetching[m] \in Removal
    <3>1. Fetching[n] \in CopySteps
      BY <1>4, <2>2 DEF Mentions
    <3>2. n \in {3, 4}
      BY <1>2, <3>1, StepSets
    <3>3. 2 \in 1 .. n - 1
      BY <3>2
    <3>4. QED
      BY <1>6, <3>3
  <2>3. QED
    BY <2>1, <2>2 DEF Leads, Led
<1>9. ASSUME NEW p \in {"android", "ios"} PROVE Leads(Fetching, {<<"copy", p>>}, Patches)
  <2>1. Mentions(Fetching, {<<"copy", p>>})
    BY <1>2 DEF Mentions
  <2>2. QED
    BY <1>4, <2>1, NotMentioned DEF Leads
<1>10. ~ Mentions(Fetching, MacPreflights)
  BY <1>2 DEF Mentions, MacPreflights
<1>11. QED
  BY <1>1, <1>3, <1>7, <1>8, <1>9, <1>10 DEF Fetched

(* What is left of a bootstrap copies, hardens and marks before its audit. *)
BootOrder(s) ==
  /\ \A p \in {"android", "ios"} : Led(s, {<<"copy", p>>}, Patches)
  /\ Led(s, LockFirst, LockSteps)
  /\ \A b \in MarkSteps : Led(s, {b}, CheckSteps)

LEMMA MarkStepIs ==
  ASSUME NEW b \in MarkSteps
  PROVE  /\ b[1] \in {"branding", "splash", "icon"} /\ b[2] \in FilesFor(b[1]) /\ b = <<b[1], b[2]>>
         /\ b[2] \in DOMAIN IdentityMarks
<1>1. CASE b \in BrandSteps
  BY <1>1, BrandStepIs, SolidAre
<1>2. CASE b \in IconSteps
  BY <1>2, SolidAre DEF IconSteps, FilesFor
<1>3. QED
  BY <1>1, <1>2 DEF MarkSteps

LEMMA BootstrapOrder ==
  /\ OpsIn(Bootstrap, BootOps) /\ NoneAfter(Bootstrap, Removal, Removal)
  /\ Mentions(Bootstrap, Removal)
  /\ Led(Bootstrap, Removal, CopySteps \cup Patches \cup CheckSteps)
  /\ BootOrder(Bootstrap)
  /\ ~ Mentions(Bootstrap, MacPreflights)
<1> DEFINE s1 == Fetching \o HardenSteps
           s2 == s1 \o Lifecycle
           s3 == s2 \o Branding
           s4 == s3 \o Splashing
           s5 == s4 \o IconPart
           s6 == s5 \o Checking
           NoCheck(s) == Fetched(s) /\ ~ Mentions(s, CheckSteps)
<1>1. /\ PartIs(Fetching, {"preflight", "remove", "copy"}) /\ PartIs(HardenSteps, {"hardening"})
      /\ PartIs(Lifecycle, {"v49"}) /\ PartIs(Branding, {"branding"})
      /\ PartIs(Splashing, {"splash"}) /\ PartIs(IconPart, {"icon"})
      /\ PartIs(Checking, {"audits", "pubGet", "tests"})
      /\ Bootstrap = s6
  BY BootstrapParts
<1>2. ASSUME NEW s, NoCheck(s), NEW t, NEW op \in {"hardening", "v49", "branding", "splash", "icon"},
             PartIs(t, {op})
      PROVE  /\ NoCheck(s \o t) /\ s \in Seq(FreeSteps) /\ t \in Seq(FreeSteps)
             /\ \A X : Mentions(s, X) \/ Mentions(t, X) => Mentions(s \o t, X)
             /\ \A X, Y : Leads(s, X, Y) => Leads(s \o t, X, Y)
  <2>1. s \in Seq(FreeSteps) /\ t \in Seq(FreeSteps)
    BY <1>2 DEF Fetched, PartIs
  <2>2. OpsIn(t, BootOps \ {"preflight", "remove"})
    <3>1. {op} \subseteq BootOps \ {"preflight", "remove"}
      BY DEF BootOps
    <3>2. OpsIn(t, {op})
      BY <1>2 DEF PartIs
    <3>3. QED
      BY <3>1, <3>2, WiderOps
  <2>3. ~ Mentions(t, CheckSteps)
    <3>1. OpsIn(t, {op}) /\ "audits" \notin {op}
      BY <1>2 DEF PartIs
    <3>2. QED
      BY <3>1, ApartOne DEF CheckSteps
  <2>4. Fetched(s \o t)
    BY <1>2, <2>1, <2>2, FetchedGoesOn
  <2>5. QED
    BY <1>2, <2>1, <2>3, <2>4, LeadsOn
<1>3. NoCheck(Fetching)
  <2>1. ~ Mentions(Fetching, CheckSteps)
    <3>1. OpsIn(Fetching, {"preflight", "remove", "copy"})
      BY <1>1 DEF PartIs
    <3>2. "audits" \notin {"preflight", "remove", "copy"}
      OBVIOUS
    <3>3. QED
      BY <3>1, <3>2, ApartOne DEF CheckSteps
  <2>2. QED
    BY <2>1, FetchingIs
<1> HIDE DEF NoCheck, s1, s2, s3, s4, s5, s6
<1>4. NoCheck(s1) /\ Mentions(s1, LockFirst) /\ ~ Mentions(s1, LockSteps)
  <2>1. Mentions(HardenSteps, LockFirst)
    BY HardeningSteps DEF LockFirst, FilesFor
  <2>2. ~ Mentions(Fetching, LockSteps) /\ ~ Mentions(HardenSteps, LockSteps)
    <3>1. OpsIn(Fetching, {"preflight", "remove", "copy"}) /\ OpsIn(HardenSteps, {"hardening"})
      BY <1>1 DEF PartIs
    <3>2. "v49" \notin {"preflight", "remove", "copy"} /\ "v49" \notin {"hardening"}
      OBVIOUS
    <3>3. QED
      BY <3>1, <3>2, ApartOne DEF LockSteps
  <2>3. QED
    BY <1>1, <1>2, <1>3, <2>1, <2>2, LeadsOn DEF s1
<1>5. NoCheck(s2) /\ Leads(s2, LockFirst, LockSteps)
  <2>1. NoCheck(s2) /\ s1 \in Seq(FreeSteps) /\ Lifecycle \in Seq(FreeSteps)
    BY <1>1, <1>2, <1>4 DEF s2
  <2>2. QED
    BY <1>4, <2>1, LeadsOn DEF s2
<1>6. /\ NoCheck(s3) /\ Leads(s3, LockFirst, LockSteps)
      /\ \A f \in FilesFor("branding") : Mentions(s3, {<<"branding", f>>})
  BY <1>1, <1>2, <1>5, BootstrapParts DEF s3
<1>7. /\ NoCheck(s4) /\ Leads(s4, LockFirst, LockSteps)
      /\ \A f \in FilesFor("branding") : Mentions(s4, {<<"branding", f>>})
      /\ \A f \in FilesFor("splash") : Mentions(s4, {<<"splash", f>>})
  BY <1>1, <1>2, <1>6, BootstrapParts DEF s4
<1>8. NoCheck(s5) /\ Leads(s5, LockFirst, LockSteps) /\ \A b \in MarkSteps : Mentions(s5, {b})
  <2>1. /\ NoCheck(s5) /\ Leads(s5, LockFirst, LockSteps)
        /\ \A f \in FilesFor("branding") : Mentions(s5, {<<"branding", f>>})
        /\ \A f \in FilesFor("splash") : Mentions(s5, {<<"splash", f>>})
        /\ \A f \in FilesFor("icon") : Mentions(s5, {<<"icon", f>>})
    BY <1>1, <1>2, <1>7, BootstrapParts DEF s5
  <2>2. ASSUME NEW b \in MarkSteps PROVE Mentions(s5, {b})
    <3>1. /\ b[1] \in {"branding", "splash", "icon"} /\ b[2] \in FilesFor(b[1])
          /\ b = <<b[1], b[2]>>
      BY MarkStepIs
    <3>2. /\ b[1] = "branding" => b = <<"branding", b[2]>> /\ b[2] \in FilesFor("branding")
          /\ b[1] = "splash" => b = <<"splash", b[2]>> /\ b[2] \in FilesFor("splash")
          /\ b[1] = "icon" => b = <<"icon", b[2]>> /\ b[2] \in FilesFor("icon")
      BY <3>1
    <3>3. QED
      BY <2>1, <3>1, <3>2
  <2>3. QED
    BY <2>1, <2>2
<1>9. Fetched(s6)
  <2>1. OpsIn(Checking, BootOps \ {"preflight", "remove"})
    <3>1. {"audits", "pubGet", "tests"} \subseteq BootOps \ {"preflight", "remove"}
      BY DEF BootOps
    <3>2. OpsIn(Checking, {"audits", "pubGet", "tests"})
      BY <1>1 DEF PartIs
    <3>3. QED
      BY <3>1, <3>2, WiderOps
  <2>2. QED
    BY <1>1, <1>8, <2>1, FetchedGoesOn DEF PartIs, NoCheck, s6
<1>10. Leads(s6, LockFirst, LockSteps) /\ \A b \in MarkSteps : Leads(s6, {b}, CheckSteps)
  <2>1. s5 \in Seq(FreeSteps) /\ Checking \in Seq(FreeSteps) /\ ~ Mentions(s5, CheckSteps)
    BY <1>1, <1>8 DEF PartIs, NoCheck, Fetched
  <2>2. QED
    BY <1>8, <2>1, LeadsOn DEF s6
<1>11. QED
  BY <1>1, <1>9, <1>10 DEF Fetched, Leads, BootOrder

(* A compile gate hardens before the v49 patch, builds for iOS before it   *)
(* checks the contract, and takes evidence before it reports.              *)
LEMMA CompileGateOrder ==
  ASSUME NEW mode \in {"android", "ios", "all"}
  PROVE  LET g == CompileGate(mode) IN
         /\ OpsIn(g, CompileOps)
         /\ Led(g, LockFirst, LockSteps)
         /\ Led(g, {<<"build", "app">>}, ContractSteps)
         /\ \A k \in Kinds : Led(g, {<<"build", PathOf(k)>>}, {<<"capture", k>>})
         /\ Led(g, Captures, ReportSteps)
         /\ mode = "android" => ~ Mentions(g, MacPreflights)
<1> DEFINE start == <<<<"preflight", mode>>>>
           checks == <<<<"pubGet", "enforce">>, <<"audits", "run">>, <<"tests", "run">>>>
           aab == <<<<"build", "aab">>, <<"capture", "android-compile">>>>
           app == <<<<"build", "app">>, <<"iosContract", "check">>, <<"capture", "ios-compile">>>>
           a == IF "android" \in Platforms(mode) THEN aab ELSE <<>>
           i == IF "ios" \in Platforms(mode) THEN app ELSE <<>>
           s1 == start \o HardenSteps
           s2 == s1 \o Lifecycle
           s3 == s2 \o checks
           s4 == s3 \o a
           s5 == s4 \o i
           s6 == s5 \o Reporting
<1>1. CompileGate(mode) = s6
  BY DEF CompileGate, Lifecycle
<1>2. /\ start \in Seq(GateSteps) /\ OpsIn(start, {"preflight"})
      /\ HardenSteps \in Seq(GateSteps) /\ OpsIn(HardenSteps, {"hardening"})
      /\ Lifecycle \in Seq(GateSteps) /\ OpsIn(Lifecycle, {"v49"})
      /\ checks \in Seq(GateSteps) /\ OpsIn(checks, {"pubGet", "audits", "tests"})
      /\ Reporting \in Seq(GateSteps) /\ OpsIn(Reporting, {"report"})
  <2>1. OpsIn(checks, {"pubGet", "audits", "tests"})
    <3>1. DOMAIN checks = 1 .. 3 /\ checks[1][1] = "pubGet" /\ checks[2][1] = "audits"
          /\ checks[3][1] = "tests"
      OBVIOUS
    <3> HIDE DEF checks
    <3>2. QED
      BY <3>1 DEF OpsIn
  <2>2. QED
    BY <2>1, GatePieces, HardeningSteps DEF Lifecycle
<1>3. /\ a \in Seq(GateSteps) /\ i \in Seq(GateSteps)
      /\ OpsIn(a, {"build", "capture"}) /\ OpsIn(i, {"build", "iosContract", "capture"})
      /\ Led(i, {<<"build", "app">>}, ContractSteps)
      /\ Mentions(a, Captures) \/ Mentions(i, Captures)
  <2>1. /\ aab \in Seq(GateSteps) /\ DOMAIN aab = 1 .. 2 /\ aab[1][1] = "build"
        /\ aab[2] = <<"capture", "android-compile">> /\ aab[2][1] = "capture"
    BY BuildPieces DEF PieceIs
  <2>2. /\ app \in Seq(GateSteps) /\ DOMAIN app = 1 .. 3 /\ app[1] = <<"build", "app">>
        /\ app[1][1] = "build" /\ app[2][1] = "iosContract"
        /\ app[3] = <<"capture", "ios-compile">> /\ app[3][1] = "capture"
    BY BuildPieces DEF PieceIs
  <2> HIDE DEF aab, app
  <2>3. OpsIn(aab, {"build", "capture"}) /\ Mentions(aab, Captures)
    BY <2>1 DEF OpsIn, Mentions, Captures, Kinds
  <2>4. OpsIn(app, {"build", "iosContract", "capture"}) /\ Mentions(app, Captures)
    <3>1. 3 \in DOMAIN app /\ app[3] \in Captures
      BY <2>2 DEF Captures, Kinds
    <3>2. QED
      BY <2>2, <3>1 DEF OpsIn, Mentions
  <2>5. Led(app, {<<"build", "app">>}, ContractSteps)
    <3>1. \A y \in ContractSteps : y[1] \in {"iosContract"}
      BY StepIs DEF ContractSteps
    <3>2. app[1] \notin ContractSteps /\ app[3] \notin ContractSteps
      BY <2>2, <3>1
    <3>3. QED
      BY <2>2, <3>2 DEF Led
  <2>6. "android" \in Platforms(mode) \/ "ios" \in Platforms(mode)
    BY DEF Platforms
  <2>7. OpsIn(<<>>, {"build", "capture"}) /\ OpsIn(<<>>, {"build", "iosContract", "capture"})
    BY DEF OpsIn
  <2>8. QED
    BY <2>1, <2>2, <2>3, <2>4, <2>5, <2>6, <2>7, NoPiece
<1>4. mode = "android" => ~ Mentions(start, MacPreflights)
  BY DEF Mentions, MacPreflights
<1> HIDE DEF start, checks, a, i
<1>5. /\ s1 \in Seq(GateSteps) /\ s2 \in Seq(GateSteps) /\ s3 \in Seq(GateSteps)
      /\ s4 \in Seq(GateSteps) /\ s5 \in Seq(GateSteps) /\ s6 \in Seq(GateSteps)
  BY <1>2, <1>3, ConcatProperties
<1> HIDE DEF s1, s2, s3, s4, s5, s6
<1>6. OpsIn(s3, CompileOps \ {"build", "iosContract", "capture", "report"})
      /\ OpsIn(s5, CompileOps \ {"report"}) /\ OpsIn(s6, CompileOps)
  <2> DEFINE early == CompileOps \ {"build", "iosContract", "capture", "report"}
             later == CompileOps \ {"report"}
  <2>0. /\ {"preflight"} \subseteq early /\ {"hardening"} \subseteq early /\ {"v49"} \subseteq early
        /\ {"pubGet", "audits", "tests"} \subseteq early /\ {"build", "capture"} \subseteq later
        /\ {"build", "iosContract", "capture"} \subseteq later /\ {"report"} \subseteq CompileOps
        /\ early \subseteq later /\ later \subseteq CompileOps
    BY DEF CompileOps
  <2> HIDE DEF early, later
  <2>1. /\ OpsIn(start, early) /\ OpsIn(HardenSteps, early) /\ OpsIn(Lifecycle, early)
        /\ OpsIn(checks, early) /\ OpsIn(a, later) /\ OpsIn(i, later) /\ OpsIn(Reporting, CompileOps)
    <3>1. OpsIn(start, early) /\ OpsIn(HardenSteps, early) /\ OpsIn(Lifecycle, early)
      BY <1>2, <2>0, WiderOps
    <3>2. OpsIn(checks, early)
      <4>1. OpsIn(checks, {"pubGet", "audits", "tests"})
        BY <1>2
      <4>2. {"pubGet", "audits", "tests"} \subseteq early
        BY <2>0
      <4>3. QED
        BY <4>1, <4>2, WiderOps
    <3>5. OpsIn(a, later)
      BY <1>3, <2>0, WiderOps
    <3>3. OpsIn(i, later) /\ OpsIn(Reporting, CompileOps)
      BY <1>2, <1>3, <2>0, WiderOps
    <3>4. QED
      BY <3>1, <3>2, <3>3, <3>5
  <2>2. OpsIn(s1, early)
    BY <1>2, <2>1, ConcatOps DEF s1
  <2>3. OpsIn(s2, early)
    BY <1>2, <1>5, <2>1, <2>2, ConcatOps DEF s2
  <2>4. OpsIn(s3, early)
    BY <1>2, <1>5, <2>1, <2>3, ConcatOps DEF s3
  <2>5. OpsIn(s3, later)
    BY <2>0, <2>4, WiderOps
  <2>6. OpsIn(s4, later)
    BY <1>3, <1>5, <2>1, <2>5, ConcatOps DEF s4
  <2>7. OpsIn(s5, later)
    BY <1>3, <1>5, <2>1, <2>6, ConcatOps DEF s5
  <2>8. OpsIn(s5, CompileOps)
    BY <2>0, <2>7, WiderOps
  <2>9. OpsIn(s6, CompileOps)
    BY <1>2, <1>5, <2>1, <2>8, ConcatOps DEF s6
  <2>10. QED
    BY <2>4, <2>7, <2>9 DEF early, later
<1>7. Led(s6, LockFirst, LockSteps)
  <2>1. ~ Mentions(start, LockSteps) /\ ~ Mentions(HardenSteps, LockSteps)
    BY <1>2, ApartOne DEF LockSteps
  <2>2. Mentions(HardenSteps, LockFirst)
    BY HardeningSteps DEF LockFirst, FilesFor
  <2>3. ~ Mentions(s1, LockSteps) /\ Mentions(s1, LockFirst)
    BY <1>2, <2>1, <2>2, LeadsOn DEF s1
  <2>4. Leads(s2, LockFirst, LockSteps)
    BY <1>2, <1>5, <2>3, LeadsOn DEF s2
  <2>5. Leads(s3, LockFirst, LockSteps)
    BY <1>2, <1>5, <2>4, LeadsOn DEF s3
  <2>6. Leads(s4, LockFirst, LockSteps)
    BY <1>3, <1>5, <2>5, LeadsOn DEF s4
  <2>7. Leads(s5, LockFirst, LockSteps)
    BY <1>3, <1>5, <2>6, LeadsOn DEF s5
  <2>8. Leads(s6, LockFirst, LockSteps)
    BY <1>2, <1>5, <2>7, LeadsOn DEF s6
  <2>9. QED
    BY <2>8 DEF Leads
<1>8. Led(s6, {<<"build", "app">>}, ContractSteps)
  <2>1. ~ Mentions(s3, ContractSteps) /\ ~ Mentions(a, ContractSteps) /\ ~ Mentions(Reporting, ContractSteps)
    <3>1. "iosContract" \notin CompileOps \ {"build", "iosContract", "capture", "report"}
      OBVIOUS
    <3>2. QED
      BY <1>2, <1>3, <1>6, <3>1, ApartOne DEF ContractSteps
  <2>2. ~ Mentions(s4, ContractSteps)
    BY <1>3, <1>5, <2>1, LeadsOn DEF s4
  <2>3. Led(s4, {<<"build", "app">>}, ContractSteps) /\ Led(Reporting, {<<"build", "app">>}, ContractSteps)
    BY <2>1, <2>2, NotMentioned
  <2>4. Led(s5, {<<"build", "app">>}, ContractSteps)
    BY <1>3, <1>5, <2>3, ConcatIs DEF s5
  <2>5. QED
    BY <1>2, <1>5, <2>3, <2>4, ConcatIs DEF s6
<1>9. Led(s6, Captures, ReportSteps)
  <2>1. ~ Mentions(s5, ReportSteps)
    <3>1. "report" \notin CompileOps \ {"report"}
      OBVIOUS
    <3>2. QED
      BY <1>6, <3>1, ApartOne DEF ReportSteps
  <2>2. Mentions(s5, Captures)
    <3>1. Mentions(s4, Captures) \/ Mentions(i, Captures)
      BY <1>3, <1>5, LeadsOn DEF s4
    <3>2. QED
      BY <1>3, <1>5, <3>1, LeadsOn DEF s5
  <2>3. Leads(s6, Captures, ReportSteps)
    BY <1>2, <1>5, <2>1, <2>2, LeadsOn DEF s6
  <2>4. QED
    BY <2>3 DEF Leads
<1>10. mode = "android" => ~ Mentions(s6, MacPreflights)
  <2>1. SUFFICES ASSUME mode = "android" PROVE ~ Mentions(s6, MacPreflights)
    OBVIOUS
  <2>2. \A y \in MacPreflights : y[1] = "preflight"
    BY DEF MacPreflights
  <2>3. /\ ~ Mentions(HardenSteps, MacPreflights) /\ ~ Mentions(Lifecycle, MacPreflights)
        /\ ~ Mentions(checks, MacPreflights) /\ ~ Mentions(a, MacPreflights)
        /\ ~ Mentions(i, MacPreflights) /\ ~ Mentions(Reporting, MacPreflights)
    <3>1. /\ \A y \in MacPreflights : y[1] \notin {"hardening"}
          /\ \A y \in MacPreflights : y[1] \notin {"v49"}
          /\ \A y \in MacPreflights : y[1] \notin {"pubGet", "audits", "tests"}
          /\ \A y \in MacPreflights : y[1] \notin {"build", "capture"}
          /\ \A y \in MacPreflights : y[1] \notin {"build", "iosContract", "capture"}
          /\ \A y \in MacPreflights : y[1] \notin {"report"}
      BY <2>2
    <3>2. ~ Mentions(HardenSteps, MacPreflights) /\ ~ Mentions(Lifecycle, MacPreflights)
      BY <1>2, <3>1, OtherOps
    <3>3. ~ Mentions(checks, MacPreflights) /\ ~ Mentions(a, MacPreflights)
      BY <1>2, <1>3, <3>1, OtherOps
    <3>4. ~ Mentions(i, MacPreflights) /\ ~ Mentions(Reporting, MacPreflights)
      BY <1>2, <1>3, <3>1, OtherOps
    <3>5. QED
      BY <3>2, <3>3, <3>4
  <2>4. ~ Mentions(s1, MacPreflights)
    BY <1>2, <1>4, <2>1, <2>3, LeadsOn DEF s1
  <2>5. ~ Mentions(s2, MacPreflights)
    BY <1>2, <1>5, <2>3, <2>4, LeadsOn DEF s2
  <2>6. ~ Mentions(s3, MacPreflights)
    BY <1>2, <1>5, <2>3, <2>5, LeadsOn DEF s3
  <2>7. ~ Mentions(s4, MacPreflights)
    BY <1>3, <1>5, <2>3, <2>6, LeadsOn DEF s4
  <2>8. ~ Mentions(s5, MacPreflights)
    BY <1>3, <1>5, <2>3, <2>7, LeadsOn DEF s5
  <2>9. QED
    BY <1>2, <1>5, <2>3, <2>8, LeadsOn DEF s6
<1>11. QED
  BY <1>1, <1>6, <1>7, <1>8, <1>9, <1>10, CompileGateIs DEF GateShape

-----------------------------------------------------------------------------
(* What holds while an undisturbed script runs.                            *)

(* Nothing outside the shells stands in the way of the run.                *)
Steady == sdk = "pinned" /\ TreeClean /\ device = None /\ ~ probe /\ ~ rewritten
Welcome == Mentions(todo, MacPreflights) => host = "macos"

(* What the steps left of a bootstrap have still to do, or is done.        *)
Copied(p, sh) == \A f \in FilesOf(p) \ {"rules", "v31"} : sh[f] # Absent
Duties(s, sh) ==
  /\ \A p \in {"android", "ios"} : Led(s, {<<"copy", p>>}, Patches) \/ Copied(p, sh)
  /\ Led(s, LockFirst, LockSteps) \/ Channel(sh)
  /\ \A b \in MarkSteps : Led(s, {b}, CheckSteps) \/ Shown(sh, b[2])

CalmBoot ==
  /\ OpsIn(todo, BootOps) /\ NoneAfter(todo, Removal, Removal)
  /\ Mentions(todo, Removal) =>
       BootOrder(todo) /\ Led(todo, Removal, CopySteps \cup Patches \cup CheckSteps)
  /\ ~ Mentions(todo, Removal) => key = "none" /\ Fit(shell) /\ Duties(todo, shell)

(* What a record and an artifact are, that None is not one of.             *)
Identity == SUBSET ({"source", "pubspec.lock"} \X Nat)
SdkStates == {"pinned", "replaced", "none", "partial", "older"}
ArtifactRecords ==
  [canonical : Identity, lock : Nat, sdk : SdkStates, hardened : BOOLEAN,
   branded : BOOLEAN, signed : BOOLEAN, touched : BOOLEAN, rewritten : BOOLEAN]
EvidenceRecords ==
  [canonical : Identity, lock : Nat, sdk : SdkStates, artifact : ArtifactRecords,
   moved : BOOLEAN, leftover : BOOLEAN]

CalmGate ==
  /\ OpsIn(todo, CompileOps)
  /\ key = "none" /\ lock # None
  /\ Compilable(shell) /\ Dressed(shell)
  /\ Led(todo, LockFirst, LockSteps) \/ Channel(shell)
  /\ Led(todo, {<<"build", "app">>}, ContractSteps) \/ IosContract(shell)
  /\ \A k \in Kinds : Led(todo, {<<"build", PathOf(k)>>}, {<<"capture", k>>})
                      \/ artifacts[PathOf(k)] \in ArtifactRecords
  /\ Led(todo, Captures, ReportSteps) \/ EvidenceDirectory

CalmRun == Steady /\ Welcome /\ (CalmBoot \/ CalmGate)
Undisturbed == calm => outcome # "failed" /\ (todo # <<>> => CalmRun)

-----------------------------------------------------------------------------
(* The steps of an undisturbed bootstrap.                                  *)

(* The rest of a script after a step that went on.                         *)
LEMMA TodoPassesOn ==
  ASSUME Typed, todo # <<>>, Goes
  PROVE  /\ \A ops : OpsIn(todo, ops) => OpsIn(todo', ops) /\ Head(todo)[1] \in ops
         /\ \A Y : Mentions(todo', Y) => Mentions(todo, Y)
         /\ \A Y : Mentions(todo, Y) /\ Head(todo) \notin Y => Mentions(todo', Y)
         /\ \A Y : Head(todo) \in Y => Mentions(todo, Y)
         /\ outcome' # "failed"
<1>1. PICK S : todo \in Seq(S)
  BY DEF Typed, Scripted
<1>2. todo' = Tail(todo)
  BY DEF Goes
<1>3. /\ Len(todo) \in Nat \ {0} /\ DOMAIN todo = 1 .. Len(todo) /\ Head(todo) = todo[1]
      /\ DOMAIN todo' = 1 .. Len(todo) - 1
      /\ \A n \in 1 .. Len(todo) - 1 : todo'[n] = todo[n + 1]
  BY <1>1, <1>2
<1>4. \A n \in DOMAIN todo' : n + 1 \in DOMAIN todo /\ todo'[n] = todo[n + 1]
  BY <1>3
<1>5. \A n \in DOMAIN todo : n = 1 \/ (n - 1 \in DOMAIN todo' /\ todo'[n - 1] = todo[n])
  BY <1>3
<1>6. ASSUME NEW ops, OpsIn(todo, ops) PROVE OpsIn(todo', ops) /\ Head(todo)[1] \in ops
  BY <1>3, <1>4, <1>6 DEF OpsIn
<1>7. ASSUME NEW Y, Mentions(todo', Y) PROVE Mentions(todo, Y)
  BY <1>4, <1>7 DEF Mentions
<1>8. ASSUME NEW Y, Mentions(todo, Y), Head(todo) \notin Y PROVE Mentions(todo', Y)
  BY <1>3, <1>5, <1>8 DEF Mentions
<1>9. ASSUME NEW Y, Head(todo) \in Y PROVE Mentions(todo, Y)
  BY <1>3, <1>9 DEF Mentions
<1>10. outcome' # "failed"
  BY DEF Goes, Typed, Ran
<1>11. QED
  BY <1>6, <1>7, <1>8, <1>9, <1>10

(* What a duty is done by, it stays done by.                               *)
LEMMA DutiesGoOn ==
  ASSUME Typed, todo # <<>>, Goes, Duties(todo, shell), NEW sh,
         \A p \in {"android", "ios"} :
           Copied(p, shell) \/ Head(todo) = <<"copy", p>> => Copied(p, sh),
         Channel(shell) \/ Head(todo) \in LockFirst => Channel(sh),
         \A b \in MarkSteps : Shown(shell, b[2]) \/ Head(todo) = b => Shown(sh, b[2])
  PROVE  Duties(todo', sh)
<1>1. \A X, Y : Led(todo, X, Y) /\ Head(todo) \notin X => Led(todo', X, Y)
  BY TodoGoesOn
<1>2. \A p \in {"android", "ios"} : Led(todo', {<<"copy", p>>}, Patches) \/ Copied(p, sh)
  BY <1>1 DEF Duties
<1>3. Led(todo', LockFirst, LockSteps) \/ Channel(sh)
  BY <1>1 DEF Duties
<1>4. \A b \in MarkSteps : Led(todo', {b}, CheckSteps) \/ Shown(sh, b[2])
  BY <1>1 DEF Duties
<1>5. QED
  BY <1>2, <1>3, <1>4 DEF Duties

LEMMA HeadIn ==
  ASSUME Typed, todo # <<>>, NEW ops, Head(todo)[1] \in ops
  PROVE  Head(todo) \in StepsOf(ops)
<1>1. Arg \in ArgsOf(Head(todo)[1]) /\ Head(todo) = <<Head(todo)[1], Arg>>
  BY HeadIs
<1>2. QED
  BY <1>1, StepIn

(* The toolchain is the pinned one, and a Mac where iOS wants it.          *)
LEMMA WelcomeGoesOn ==
  ASSUME Typed, todo # <<>>, Welcome, Goes, host' = host
  PROVE  Welcome'
BY TodoPassesOn DEF Welcome

LEMMA PreflightPasses ==
  ASSUME Typed, Steady, Welcome, At("preflight")
  PROVE  ToolchainAccepted(sdk, host, Arg)
<1>1. todo # <<>> /\ Head(todo) = <<"preflight", Arg>>
  BY HeadIs DEF At
<1>2. Arg \in {"ios", "all"} => Head(todo) \in MacPreflights
  BY <1>1 DEF MacPreflights
<1>3. ASSUME NEW Y, Head(todo) \in Y PROVE Mentions(todo, Y)
  <2>1. \A S : todo \in Seq(S) => Mentions(todo, Y)
    BY <1>1, <1>3, TailIs
  <2>2. QED
    BY <2>1 DEF Typed, Scripted
<1>4. QED
  BY <1>2, <1>3 DEF Steady, Welcome, ToolchainAccepted, Archives

(* A step that looks and leaves the shells alone.                          *)
LEMMA BootLooks ==
  ASSUME Typed, Steady', Welcome, CalmBoot, todo # <<>>, Goes, host' = host,
         shell' = shell, key' = key, Head(todo)[1] \in {"preflight", "audits", "pubGet", "tests"}
  PROVE  CalmRun'
<1>1. /\ \A y \in Removal : y[1] \in {"remove"}
      /\ \A b \in MarkSteps : b[1] \in {"branding", "splash", "icon"}
  BY StepIs, MarkStepIs DEF Removal
<1>2. /\ Head(todo) \notin Removal /\ Head(todo) \notin LockFirst
      /\ \A p \in {"android", "ios"} : Head(todo) # <<"copy", p>>
      /\ \A b \in MarkSteps : Head(todo) # b
  BY <1>1 DEF LockFirst
<1>3. OpsIn(todo', BootOps) /\ NoneAfter(todo', Removal, Removal)
  BY TodoPassesOn, TodoGoesOn DEF CalmBoot
<1>4. Mentions(todo', Removal) <=> Mentions(todo, Removal)
  BY <1>2, TodoPassesOn
<1>5. \A X, Y : Led(todo, X, Y) /\ Head(todo) \notin X => Led(todo', X, Y)
  BY TodoGoesOn
<1>6. ASSUME Mentions(todo, Removal)
      PROVE  BootOrder(todo') /\ Led(todo', Removal, CopySteps \cup Patches \cup CheckSteps)
  <2>1. BootOrder(todo) /\ Led(todo, Removal, CopySteps \cup Patches \cup CheckSteps)
    BY <1>6 DEF CalmBoot
  <2>2. \A b \in MarkSteps : Led(todo', {b}, CheckSteps)
    BY <1>2, <1>5, <2>1 DEF BootOrder
  <2>3. QED
    BY <1>2, <1>5, <2>1, <2>2 DEF BootOrder
<1>7. ASSUME ~ Mentions(todo, Removal)
      PROVE  key' = "none" /\ Fit(shell') /\ Duties(todo', shell')
  BY <1>2, <1>7, DutiesGoOn DEF CalmBoot
<1>8. CalmBoot'
  BY <1>3, <1>4, <1>6, <1>7 DEF CalmBoot
<1>9. QED
  BY <1>8, WelcomeGoesOn DEF CalmRun

LEMMA NothingLeftOver ==
  /\ Fit(NoFiles) /\ \A f \in Files : NoFiles[f] = Absent /\ Once(NoFiles[f])
  /\ \A f \in Solid : Template[f] = Absent \/ Structured(Template[f])
  /\ \A f \in Files \ {"rules", "v31"} : Template[f] # Absent
  /\ "channel" \notin DOMAIN Absent
  /\ \A f \in DOMAIN IdentityMarks : ~ (IdentityMarks[f] \subseteq DOMAIN Absent)
<1>1. Fit(NoFiles) /\ \A f \in Files : NoFiles[f] = Absent /\ Once(NoFiles[f])
  BY SolidAre, AbsentIs DEF NoFiles, Fit
<1>2. ASSUME NEW f \in Files
      PROVE  \/ f \in {"rules", "v31"} /\ Template[f] = Absent
             \/ f \notin {"rules", "v31"} /\ "template" \in DOMAIN Template[f]
  <2>1. CASE f \in {"rules", "v31"}
    BY <1>2, <2>1 DEF Template
  <2>2. CASE f = "gradle"
    BY <1>2, <2>2, MarkedIs DEF Template
  <2>3. CASE f \notin {"rules", "v31", "gradle"}
    BY <1>2, <2>3, MarkedIs DEF Template
  <2>4. QED
    BY <2>1, <2>2, <2>3
<1>3. "template" \notin DOMAIN Absent /\ "channel" \notin DOMAIN Absent
  BY AbsentIs
<1>4. \A f \in DOMAIN IdentityMarks : ~ (IdentityMarks[f] \subseteq DOMAIN Absent)
  <2>1. \A f \in DOMAIN IdentityMarks : IdentityMarks[f] \cap {"label", "splash", "icons"} # {}
    BY DEF IdentityMarks
  <2>2. QED
    BY <2>1, AbsentIs
<1>5. QED
  BY <1>1, <1>2, <1>3, <1>4, SolidAre, HasIs DEF Structured

LEMMA BootDeletes ==
  ASSUME Typed, CalmRun, CalmBoot, DeleteShells
  PROVE  CalmRun' /\ outcome' # "failed"
<1>1. /\ todo # <<>> /\ Goes /\ Head(todo)[1] = "remove"
      /\ shell' = NoFiles /\ key' = "none"
      /\ UNCHANGED <<host, checkout, sdk, device, probe, rewritten>>
  BY DEF DeleteShells, RemoveShells, At, hand
<1>2. Steady' /\ Welcome'
  BY <1>1, WelcomeGoesOn DEF CalmRun, Steady, TreeClean, checkout
<1>3. Head(todo) \in Removal
  BY <1>1, HeadIn DEF Removal
<1>4. Mentions(todo, Removal) /\ BootOrder(todo)
  BY <1>1, <1>3, TodoPassesOn DEF CalmBoot
<1>5. OpsIn(todo', BootOps) /\ NoneAfter(todo', Removal, Removal) /\ ~ Mentions(todo', Removal)
  BY <1>1, <1>3, TodoPassesOn, TodoGoesOn DEF CalmBoot
<1>6. Duties(todo', shell')
  <2>1. \A X, Y : Led(todo, X, Y) /\ Head(todo) \notin X => Led(todo', X, Y)
    BY <1>1, TodoGoesOn
  <2>2. \A b \in MarkSteps : b[1] \in {"branding", "splash", "icon"}
    BY MarkStepIs
  <2>3. /\ Head(todo) \notin LockFirst
        /\ \A p \in {"android", "ios"} : Head(todo) # <<"copy", p>>
        /\ \A b \in MarkSteps : Head(todo) # b
    BY <1>1, <2>2 DEF LockFirst
  <2>4. \A b \in MarkSteps : Led(todo', {b}, CheckSteps)
    BY <1>4, <2>1, <2>3 DEF BootOrder
  <2>5. QED
    BY <1>4, <2>1, <2>3, <2>4 DEF BootOrder, Duties
<1>7. CalmBoot'
  BY <1>1, <1>5, <1>6, NothingLeftOver DEF CalmBoot
<1>8. QED
  BY <1>1, <1>2, <1>7, TodoPassesOn DEF CalmRun

(* What a shell has keeps its place when others are copied beside it.      *)
LEMMA BootCopies ==
  ASSUME Typed, CalmRun, CalmBoot, CopyShell
  PROVE  CalmRun' /\ outcome' # "failed"
<1>1. /\ todo # <<>> /\ Goes /\ Head(todo)[1] = "copy" /\ key' = key
      /\ UNCHANGED <<host, checkout, sdk, device, probe, rewritten>>
      /\ shell' = [f \in Files |-> IF f \in FilesOf(Arg) /\ shell[f] = Absent
                                   THEN Template[f] ELSE shell[f]]
  BY DEF CopyShell, At, hand
<1>2. Steady' /\ Welcome'
  BY <1>1, WelcomeGoesOn DEF CalmRun, Steady, TreeClean, checkout
<1>3. Head(todo) = <<"copy", Arg>> /\ Arg \in {"android", "ios"}
  BY <1>1, HeadIs, ArgsAre
<1>4. ~ Mentions(todo, Removal)
  <2>1. Head(todo) \in CopySteps
    BY <1>3 DEF CopySteps
  <2>2. QED
    BY <1>1, <2>1, TodoGoesOn DEF CalmBoot
<1>5. key = "none" /\ Fit(shell) /\ Duties(todo, shell)
  BY <1>4 DEF CalmBoot
<1>6. OpsIn(todo', BootOps) /\ NoneAfter(todo', Removal, Removal) /\ ~ Mentions(todo', Removal)
  BY <1>1, <1>4, TodoPassesOn, TodoGoesOn DEF CalmBoot
<1>7. /\ \A f \in Files : shell[f] # Absent => shell'[f] = shell[f]
      /\ \A f \in Files : shell[f] = Absent => shell'[f] \in {Absent, Template[f]}
      /\ \A f \in FilesOf(Arg) : shell[f] = Absent => shell'[f] = Template[f]
  BY <1>1, <1>3 DEF FilesOf, Files
<1>8. Fit(shell')
  BY <1>5, <1>7, SolidAre, NothingLeftOver DEF Fit
<1>9. \A p \in {"android", "ios"} :
        Copied(p, shell) \/ Head(todo) = <<"copy", p>> => Copied(p, shell')
  <2>1. \A p \in {"android", "ios"} : FilesOf(p) \subseteq Files
    BY DEF FilesOf, Files
  <2>2. QED
    BY <1>3, <1>7, <2>1, NothingLeftOver DEF Copied
<1>10. Channel(shell) => Channel(shell')
  <2>1. "activity" \in Files
    BY DEF Files, AndroidFiles
  <2>2. QED
    BY <1>7, <2>1, NothingLeftOver DEF Channel
<1>11. \A b \in MarkSteps : Shown(shell, b[2]) => Shown(shell', b[2])
  BY <1>7, SolidAre, MarkStepIs, NothingLeftOver DEF Shown
<1>12. Head(todo) \notin LockFirst /\ \A b \in MarkSteps : Head(todo) # b
  BY <1>1, MarkStepIs DEF LockFirst
<1>13. Duties(todo', shell')
  BY <1>1, <1>5, <1>9, <1>10, <1>11, <1>12, DutiesGoOn
<1>14. CalmBoot'
  BY <1>1, <1>5, <1>6, <1>8, <1>13 DEF CalmBoot
<1>15. QED
  BY <1>1, <1>2, <1>14, TodoPassesOn DEF CalmRun

LEMMA BootPatches ==
  ASSUME Typed, CalmRun, CalmBoot, PatchShell
  PROVE  CalmRun' /\ outcome' # "failed"
<1>1. PICK tool \in Tools : At(tool) /\ RunTool(tool, Arg)
  BY DEF PatchShell
<1> PICK f : f = Arg
  OBVIOUS
<1>2. /\ todo # <<>> /\ Head(todo)[1] = tool /\ f \in FilesFor(tool) /\ Head(todo) = <<tool, f>>
      /\ UNCHANGED <<host, checkout, sdk, key, device, probe, rewritten>>
  BY <1>1, ToolAt, HeadIs DEF At, PatchShell, hand
<1>3. Head(todo) \in Patches
  BY <1>2, HeadIn DEF Patches
<1>4. \A X, Y : Led(todo, X, Y) => Head(todo) \notin Y
  <2>1. \A S : todo \in Seq(S) => \A X, Y : Led(todo, X, Y) => Head(todo) \notin Y
    BY <1>2, TailIs
  <2>2. QED
    BY <2>1 DEF Typed, Scripted
<1>5. key = "none" /\ Fit(shell) /\ Duties(todo, shell) /\ ~ Mentions(todo, Removal)
  BY <1>3, <1>4 DEF CalmBoot
<1>6. Full(shell)
  <2>1. Copied("android", shell) /\ Copied("ios", shell)
    BY <1>3, <1>4, <1>5 DEF Duties
  <2>2. QED
    BY <2>1 DEF Copied, Full, Files, FilesOf
<1>7. tool = "v49" => Channel(shell)
  <2>1. tool = "v49" => Head(todo) \in LockSteps
    BY <1>2, HeadIn DEF LockSteps
  <2>2. QED
    BY <1>4, <1>5, <2>1 DEF Duties
<1>8. Goes /\ shell' = Patched(tool, f, shell)
  <2>1. ~ Chokes(tool, f, shell)
    BY <1>2, <1>5, <1>7, NothingChokes
  <2>2. QED
    BY <1>1, <2>1 DEF RunTool
<1>9. Steady' /\ Welcome'
  BY <1>2, <1>8, WelcomeGoesOn DEF CalmRun, Steady, TreeClean, checkout
<1>10. OpsIn(todo', BootOps) /\ NoneAfter(todo', Removal, Removal) /\ ~ Mentions(todo', Removal)
  BY <1>2, <1>5, <1>8, TodoPassesOn, TodoGoesOn DEF CalmBoot
<1> DEFINE sh2 == Patched(tool, f, shell)
<1>11. /\ Fit(sh2)
       /\ \A g \in Files : shell[g] # Absent => sh2[g] # Absent
       /\ \A g \in DOMAIN IdentityMarks : Shown(shell, g) => Shown(sh2, g)
       /\ Channel(shell) => Channel(sh2)
  BY <1>2, <1>5, ToolKeeps DEF Typed
<1>12. /\ tool = "hardening" /\ f = "activity" => Channel(sh2)
       /\ <<tool, f>> \in MarkSteps => Shown(sh2, f)
  BY <1>2, <1>5, <1>6, ToolDoes DEF Typed
<1> HIDE DEF sh2
<1>13. Duties(todo', sh2)
  <2>1. \A p \in {"android", "ios"} : Copied(p, shell) => Copied(p, sh2)
    <3>1. \A p \in {"android", "ios"} : FilesOf(p) \subseteq Files
      BY DEF FilesOf, Files
    <3>2. QED
      BY <1>11, <3>1 DEF Copied
  <2>2. \A p \in {"android", "ios"} : Head(todo) # <<"copy", p>>
    BY <1>2 DEF Tools
  <2>3. Channel(shell) \/ Head(todo) \in LockFirst => Channel(sh2)
    BY <1>2, <1>11, <1>12 DEF LockFirst
  <2>4. \A b \in MarkSteps : Shown(shell, b[2]) \/ Head(todo) = b => Shown(sh2, b[2])
    BY <1>2, <1>11, <1>12, MarkStepIs
  <2>5. QED
    BY <1>2, <1>5, <1>8, <2>1, <2>2, <2>3, <2>4, DutiesGoOn
<1>14. CalmBoot'
  <2>1. shell' = sh2
    BY <1>8 DEF sh2
  <2>2. QED
    BY <1>2, <1>5, <1>10, <1>11, <1>13, <2>1 DEF CalmBoot
<1>15. QED
  BY <1>2, <1>8, <1>9, <1>14, TodoPassesOn DEF CalmRun

(* A shell that shows all there is to show passes the audits.              *)
LEMMA AllShown ==
  ASSUME NEW sh, \A b \in MarkSteps : Shown(sh, b[2])
  PROVE  Dressed(sh)
<1>1. \A g \in BrandFiles \cup {"launcher", "appIcon"} : Shown(sh, g)
  <2>1. \A g \in BrandFiles : Shown(sh, g)
    <3>1. \A g \in BrandFiles : \E b \in BrandSteps : b[2] = g
      BY EachHasItsStep
    <3>2. QED
      BY <3>1 DEF MarkSteps
  <2>2. Shown(sh, "launcher") /\ Shown(sh, "appIcon")
    <3>1. <<"icon", "launcher">> \in MarkSteps /\ <<"icon", "appIcon">> \in MarkSteps
      BY DEF MarkSteps, IconSteps, FilesFor
    <3>2. QED
      BY <3>1
  <2>3. QED
    BY <2>1, <2>2
<1>2. /\ {"label", "icon"} \subseteq DOMAIN sh["manifest"] /\ {"splash"} \subseteq DOMAIN sh["drawables"]
      /\ {"splash"} \subseteq DOMAIN sh["v31"] /\ {"splash"} \subseteq DOMAIN sh["launchScreen"]
      /\ {"icons"} \subseteq DOMAIN sh["launcher"] /\ {"icons"} \subseteq DOMAIN sh["appIcon"]
  BY <1>1 DEF Shown, BrandFiles, IdentityMarks
<1>3. "splash" \notin DOMAIN Absent /\ "splash" \notin DOMAIN Template["drawables"]
  <2>1. Template["drawables"] = Marked({"template"})
    BY DEF Template, Files, AndroidFiles
  <2>2. QED
    BY <2>1, AbsentIs, MarkedIs
<1>4. QED
  BY <1>2, <1>3 DEF Dressed

LEMMA DressedPasses ==
  ASSUME Steady, key = "none", Dressed(shell)
  PROVE  Refusals = {}
<1>1. BrandingAudit(shell) /\ SplashAudit(shell) /\ IconAudit(shell)
  BY HasIs DEF Dressed, BrandingAudit, SplashAudit, IconAudit
<1>2. QED
  BY <1>1, FixturesAlwaysPass
     DEF Refusals, BundleRefusals, ReadinessRefusals, ProbeRefusals, Steady

LEMMA AuditsPass ==
  ASSUME Typed, CalmRun, At("audits")
  PROVE  Refusals = {}
<1>1. todo # <<>> /\ Head(todo) \in CheckSteps
  BY HeadIn DEF At, CheckSteps
<1>2. \A X, Y : Led(todo, X, Y) => Head(todo) \notin Y
  <2>1. \A S : todo \in Seq(S) => \A X, Y : Led(todo, X, Y) => Head(todo) \notin Y
    BY <1>1, TailIs
  <2>2. QED
    BY <2>1 DEF Typed, Scripted
<1>3. CASE CalmBoot
  <2>1. ~ Mentions(todo, Removal)
    BY <1>1, <1>2, <1>3 DEF CalmBoot
  <2>2. key = "none" /\ \A b \in MarkSteps : Shown(shell, b[2])
    BY <1>1, <1>2, <1>3, <2>1 DEF CalmBoot, Duties
  <2>3. QED
    BY <2>2, AllShown, DressedPasses DEF CalmRun
<1>4. CASE CalmGate
  BY <1>4, DressedPasses DEF CalmRun, CalmGate
<1>5. QED
  BY <1>3, <1>4 DEF CalmRun

-----------------------------------------------------------------------------
(* The steps of an undisturbed compile gate.                               *)

LEMMA GateGoesOn ==
  ASSUME Typed, CalmGate, Welcome, todo # <<>>, Goes, host' = host, key' = key, lock' = lock,
         Steady', Compilable(shell'), Dressed(shell'),
         Channel(shell) \/ Head(todo) \in LockFirst => Channel(shell'),
         IosContract(shell) \/ Head(todo) = <<"build", "app">> => IosContract(shell'),
         \A k \in Kinds :
           artifacts[PathOf(k)] \in ArtifactRecords \/ Head(todo) = <<"build", PathOf(k)>>
             => artifacts'[PathOf(k)] \in ArtifactRecords,
         EvidenceDirectory \/ Head(todo) \in Captures => EvidenceDirectory'
  PROVE  CalmRun'
<1>1. \A X, Y : Led(todo, X, Y) /\ Head(todo) \notin X => Led(todo', X, Y)
  BY TodoGoesOn
<1>2. OpsIn(todo', CompileOps)
  BY TodoPassesOn DEF CalmGate
<1>3. Led(todo', LockFirst, LockSteps) \/ Channel(shell')
  BY <1>1 DEF CalmGate
<1>4. Led(todo', {<<"build", "app">>}, ContractSteps) \/ IosContract(shell')
  BY <1>1 DEF CalmGate
<1>5. \A k \in Kinds : Led(todo', {<<"build", PathOf(k)>>}, {<<"capture", k>>})
                       \/ artifacts'[PathOf(k)] \in ArtifactRecords
  BY <1>1 DEF CalmGate
<1>6. Led(todo', Captures, ReportSteps) \/ EvidenceDirectory'
  BY <1>1 DEF CalmGate
<1>7. CalmGate'
  BY <1>2, <1>3, <1>4, <1>5, <1>6 DEF CalmGate
<1>8. QED
  BY <1>7, WelcomeGoesOn DEF CalmRun

LEMMA GateLooks ==
  ASSUME Typed, CalmGate, Welcome, todo # <<>>, Goes, Steady',
         Head(todo)[1] \in {"preflight", "audits", "pubGet", "tests", "iosContract", "report"},
         UNCHANGED <<host, key, lock, shell, device, artifacts, evidence>>
  PROVE  CalmRun'
<1>1. /\ Head(todo) \notin LockFirst /\ Head(todo) # <<"build", "app">>
      /\ \A k \in Kinds : Head(todo) # <<"build", PathOf(k)>>
      /\ Head(todo) \notin Captures
  BY StepSets DEF LockFirst
<1>2. EvidenceDirectory' = EvidenceDirectory
  BY DEF EvidenceDirectory
<1>3. Compilable(shell') /\ Dressed(shell')
  BY DEF CalmGate
<1>4. QED
  BY <1>1, <1>2, <1>3, GateGoesOn

(* A compilable shell has everything, and its tools find their places.     *)
LEMMA CompilableIs ==
  ASSUME NEW sh, Compilable(sh)
  PROVE  /\ \A f \in Files : sh[f] \notin {Absent, Emptied}
         /\ \A f \in Solid : Structured(sh[f])
         /\ Fit(sh) /\ Full(sh)
<1>1. /\ \A f \in AndroidFiles \cup IosFiles : sh[f] \notin {Absent, Emptied}
      /\ \A f \in AndroidFiles \cup IosFiles : f \in Solid => Structured(sh[f])
  BY DEF Compilable, Buildable, FilesOf, Solid
<1>2. QED
  BY <1>1, SolidAre DEF Files, Fit, Full

LEMMA MakesCompilable ==
  ASSUME NEW sh, \A f \in Files : sh[f] \notin {Absent, Emptied},
         \A f \in Solid : Structured(sh[f]), "releaseSigning" \notin DOMAIN sh["gradle"]
  PROVE  Compilable(sh)
BY DEF Compilable, Buildable, FilesOf, Files, Solid

(* The hardening and the v49 patch of a gate leave a shell what it was.    *)
LEMMA GateToolKeeps ==
  ASSUME NEW sh, Clean(sh), Compilable(sh), Dressed(sh),
         NEW tool \in {"hardening", "v49"}, NEW f \in FilesFor(tool)
  PROVE  LET sh2 == Patched(tool, f, sh) IN
         /\ Compilable(sh2) /\ Dressed(sh2) /\ (IosContract(sh) => IosContract(sh2))
         /\ Channel(sh) => Channel(sh2)
         /\ tool = "hardening" /\ f = "activity" => Channel(sh2)
<1> DEFINE sh2 == Patched(tool, f, sh)
<1>1. tool \in Tools /\ f # "drawables" /\ f \in Files
  BY FilesAre DEF Tools, FilesFor
<1>2. /\ \A g \in Files : sh[g] \notin {Absent, Emptied}
      /\ \A g \in Solid : Structured(sh[g])
      /\ Fit(sh) /\ Full(sh)
  BY CompilableIs
<1>3. /\ \A g \in Files : sh[g] # Absent => sh2[g] # Absent
      /\ \A g \in Solid : Structured(sh[g]) => Structured(sh2[g])
      /\ \A g \in Solid \ {"activity"} : sh[g] # Absent => Grows(sh[g], sh2[g], ToolMarks)
      /\ \A g \in DOMAIN IdentityMarks : Shown(sh, g) => Shown(sh2, g)
      /\ Channel(sh) => Channel(sh2)
      /\ \A g \in Files \ {f} : sh2[g] = sh[g]
      /\ f \in Written => sh2[f] = sh[f] \/ sh2[f] \notin {Absent, Emptied}
  BY <1>1, <1>2, ToolKeeps
<1>4. tool = "hardening" /\ f = "activity" => Channel(sh2)
  BY <1>1, <1>2, ToolDoes
<1> HIDE DEF sh2
<1>5. \A g \in Solid : Structured(sh2[g]) /\ sh2[g] # Emptied
  BY <1>2, <1>3, AbsentIs, HasIs DEF Structured
<1>6. \A g \in Files : sh2[g] \notin {Absent, Emptied}
  <2>1. ASSUME NEW g \in Files PROVE sh2[g] # Emptied
    <3>1. CASE g \in Solid
      BY <1>5, <3>1
    <3>2. CASE g \in Written
      BY <1>2, <1>3, <3>2
    <3>3. QED
      BY <3>1, <3>2, SolidAre
  <2>2. QED
    BY <1>2, <1>3, <2>1
<1>7. {"gradle", "plist", "project", "manifest"} \subseteq Solid \ {"activity"}
      /\ {"gradle", "plist", "project", "manifest"} \subseteq Files
  BY SolidAre DEF Solid
<1>8. "releaseSigning" \notin DOMAIN sh2["gradle"]
  <2>1. Grows(sh["gradle"], sh2["gradle"], ToolMarks)
    BY <1>2, <1>3, <1>7
  <2>2. QED
    BY <2>1 DEF Grows, ToolMarks, Compilable
<1>9. Compilable(sh2)
  BY <1>5, <1>6, <1>8, MakesCompilable
<1>10. Dressed(sh2)
  <2>1. /\ {"manifest", "v31", "launchScreen", "launcher", "appIcon"} \subseteq DOMAIN IdentityMarks
        /\ IdentityMarks["manifest"] = {"label", "icon"} /\ IdentityMarks["v31"] = {"splash"}
        /\ IdentityMarks["launchScreen"] = {"splash"} /\ IdentityMarks["launcher"] = {"icons"}
        /\ IdentityMarks["appIcon"] = {"icons"}
    BY DEF IdentityMarks
  <2>2. Shown(sh2, "manifest") /\ Shown(sh2, "v31") /\ Shown(sh2, "launchScreen")
        /\ Shown(sh2, "launcher") /\ Shown(sh2, "appIcon")
    BY <1>3, <2>1 DEF Dressed, Shown
  <2>3. sh2["drawables"] = sh["drawables"]
    BY <1>1, <1>3 DEF Files, AndroidFiles
  <2>4. QED
    BY <2>1, <2>2, <2>3 DEF Dressed, Shown
<1>11. IosContract(sh) => IosContract(sh2)
  <2>1. DOMAIN sh["plist"] \subseteq DOMAIN sh2["plist"] /\ DOMAIN sh["project"] \subseteq DOMAIN sh2["project"]
    BY <1>2, <1>3, <1>7 DEF Grows
  <2>2. QED
    BY <2>1, HasIs DEF IosContract
<1>12. QED
  BY <1>3, <1>4, <1>9, <1>10, <1>11 DEF sh2

LEMMA GatePatches ==
  ASSUME Typed, CalmRun, CalmGate, PatchShell
  PROVE  CalmRun' /\ outcome' # "failed"
<1>1. PICK tool \in Tools : At(tool) /\ RunTool(tool, Arg)
  BY DEF PatchShell
<1> PICK f : f = Arg
  OBVIOUS
<1>2. /\ todo # <<>> /\ Head(todo)[1] = tool /\ f \in FilesFor(tool) /\ Head(todo) = <<tool, f>>
      /\ UNCHANGED <<host, checkout, sdk, key, device, probe, artifacts, evidence, rewritten>>
  BY <1>1, ToolAt, HeadIs DEF At, PatchShell, proof, hand
<1>3. tool \in {"hardening", "v49"}
  <2>1. \A S : todo \in Seq(S) => todo[1] = Head(todo) /\ 1 \in DOMAIN todo
    BY <1>2
  <2>2. Head(todo)[1] \in CompileOps
    BY <2>1 DEF Typed, Scripted, CalmGate, OpsIn
  <2>3. QED
    BY <1>2, <2>2 DEF CompileOps, Tools
<1>4. tool = "v49" => Channel(shell)
  <2>1. tool = "v49" => Head(todo) \in LockSteps
    BY <1>2, HeadIn DEF LockSteps
  <2>2. \A S : todo \in Seq(S) => \A X, Y : Led(todo, X, Y) => Head(todo) \notin Y
    BY <1>2, TailIs
  <2>3. QED
    BY <2>1, <2>2 DEF Typed, Scripted, CalmGate
<1>5. Goes /\ shell' = Patched(tool, f, shell)
  <2>1. Fit(shell)
    BY CompilableIs DEF CalmGate
  <2>2. ~ Chokes(tool, f, shell)
    BY <1>2, <1>4, <2>1, NothingChokes
  <2>3. QED
    BY <1>1, <2>2 DEF RunTool
<1> DEFINE sh2 == Patched(tool, f, shell)
<1>6. /\ Compilable(sh2) /\ Dressed(sh2) /\ (IosContract(shell) => IosContract(sh2))
      /\ Channel(shell) => Channel(sh2)
      /\ tool = "hardening" /\ f = "activity" => Channel(sh2)
  BY <1>2, <1>3, GateToolKeeps DEF Typed, CalmGate
<1>7. shell' = sh2
  BY <1>5
<1> HIDE DEF sh2
<1>8. /\ Head(todo) # <<"build", "app">> /\ Head(todo) \notin Captures
      /\ \A k \in Kinds : Head(todo) # <<"build", PathOf(k)>>
      /\ Head(todo) \in LockFirst => tool = "hardening" /\ f = "activity"
  BY <1>2, <1>3, StepSets DEF LockFirst
<1>9. Steady' /\ Welcome /\ EvidenceDirectory' = EvidenceDirectory
  BY <1>2 DEF CalmRun, Steady, TreeClean, checkout, EvidenceDirectory
<1>10. CalmRun'
  <2>1. Compilable(shell') /\ Dressed(shell')
    BY <1>6, <1>7
  <2>2. Channel(shell) \/ Head(todo) \in LockFirst => Channel(shell')
    BY <1>6, <1>7, <1>8
  <2>3. IosContract(shell) \/ Head(todo) = <<"build", "app">> => IosContract(shell')
    BY <1>6, <1>7, <1>8
  <2>4. UNCHANGED <<host, key, lock, artifacts>>
    BY <1>2 DEF checkout
  <2>5. QED
    BY <1>2, <1>5, <1>8, <1>9, <2>1, <2>2, <2>3, <2>4, GateGoesOn
<1>11. QED
  BY <1>2, <1>5, <1>10, TodoPassesOn

(* What a build and a capture write down is a record, and no record is None. *)
LEMMA IdentityIs ==
  ASSUME Typed
  PROVE  CanonicalIdentity \in Identity
<1>1. src \in Nat /\ (lock = None \/ lock \in Nat)
  BY DEF Typed, Types
<1>2. \A f \in CheckoutFiles : f.path \in {"source", "pubspec.lock"} /\ f.content \in Nat
  <2>1. ASSUME NEW f \in CheckoutFiles
        PROVE  f.path \in {"source", "pubspec.lock"} /\ f.content \in Nat
    <3>1. CASE f = File("source", "canonical", src)
      BY <1>1, <3>1 DEF File
    <3>2. CASE \E l \in {lock} \ {None} :
                 f = [File("pubspec.lock", "canonical", lock) EXCEPT !.tracked = (lockHead # None)]
      BY <1>1, <3>2 DEF File
    <3>3. QED
      BY <2>1, <3>1, <3>2 DEF CheckoutFiles
  <2>2. QED
    BY <2>1
<1>3. CanonicalIdentity = Digest(CanonicalFiles(CheckoutFiles, TRUE))
  BY DEF CanonicalIdentity, SourceManifest
<1>4. CanonicalFiles(CheckoutFiles, TRUE) \subseteq CheckoutFiles
  BY DEF CanonicalFiles
<1>5. \A f \in CanonicalFiles(CheckoutFiles, TRUE) :
        <<f.path, f.content>> \in {"source", "pubspec.lock"} \X Nat
  BY <1>2, <1>4
<1>6. CanonicalIdentity \subseteq {"source", "pubspec.lock"} \X Nat
  BY <1>3, <1>5 DEF Digest
<1>7. QED
  BY <1>6 DEF Identity

LEMMA BuiltIs ==
  ASSUME Typed, lock # None, NEW path
  PROVE  Built(path) \in ArtifactRecords
<1>1. /\ CanonicalIdentity \in Identity /\ lock \in Nat /\ sdk \in SdkStates
      /\ touched \in BOOLEAN /\ rewritten \in BOOLEAN
  BY IdentityIs DEF Typed, Types, SdkStates, Archives
<1>2. /\ Carries(shell, PlatformOf(path), HardeningMarks) \in BOOLEAN
      /\ Carries(shell, PlatformOf(path), IdentityMarks) \in BOOLEAN
  BY DEF Carries
<1>3. QED
  BY <1>1, <1>2 DEF Built, ArtifactRecords

LEMMA RecordIs ==
  ASSUME Typed, lock # None, NEW kind, artifacts[PathOf(kind)] \in ArtifactRecords
  PROVE  Record(kind) \in EvidenceRecords
<1>1. /\ CanonicalIdentity \in Identity /\ lock \in Nat /\ sdk \in SdkStates
      /\ leftover \in BOOLEAN
  BY IdentityIs DEF Typed, Types, SdkStates, Archives
<1>2. QED
  BY <1>1 DEF Record, EvidenceRecords

LEMMA NoneIsNoRecord == None \notin ArtifactRecords /\ None \notin EvidenceRecords
BY NoneAssumption DEF ArtifactRecords, EvidenceRecords, Identity, SdkStates

LEMMA HeadNotLed ==
  ASSUME Typed, todo # <<>>
  PROVE  /\ \A X, Y : Led(todo, X, Y) => Head(todo) \notin Y
         /\ \A ops : OpsIn(todo, ops) => Head(todo)[1] \in ops
<1>1. \A S : todo \in Seq(S) => \A X, Y : Led(todo, X, Y) => Head(todo) \notin Y
  BY TailIs
<1>2. \A S : todo \in Seq(S) => todo[1] = Head(todo) /\ 1 \in DOMAIN todo
  OBVIOUS
<1>3. QED
  BY <1>1, <1>2 DEF Typed, Scripted, OpsIn

(* A build of hardened shells gives the iOS one its scene manifest.        *)
LEMMA GateBuilds ==
  ASSUME Typed, Ships, Traced, CalmRun, CalmGate, Build
  PROVE  calm' => CalmRun' /\ outcome' # "failed"
<1>1. /\ todo # <<>> /\ Head(todo)[1] = "build" /\ Arg \in Paths /\ Head(todo) = <<"build", Arg>>
      /\ UNCHANGED <<host, checkout, sdk, key, device, probe, evidence, rewritten>>
  BY HeadIs, ArgsAre DEF Build, At, hand
<1>2. Compiles(Arg)
  BY <1>1, HasIs DEF CalmGate, Compilable, Compiles, PlatformOf, Paths
<1>3. SUFFICES ASSUME calm' PROVE CalmRun' /\ outcome' # "failed"
  OBVIOUS
<1>4. /\ Goes /\ artifacts' = [artifacts EXCEPT ![Arg] = Built(Arg)]
      /\ shell' = IF Arg = "aab" THEN shell
                  ELSE [shell EXCEPT !["plist"] = Insert(@, {"scene"})]
  BY <1>2, <1>3 DEF Build, Compiled, Replaces
<1>5. /\ \A f \in Files : shell[f] \notin {Absent, Emptied} /\ Once(shell[f])
      /\ \A f \in Solid : Structured(shell[f])
      /\ DOMAIN shell = Files
  BY CompilableIs DEF CalmGate, Typed, Clean
<1>6. {"plist", "project", "gradle"} \subseteq Solid /\ Solid \subseteq Files
  BY SolidAre DEF Solid
<1> DEFINE d == Insert(shell["plist"], {"scene"})
<1>7. DOMAIN d = DOMAIN shell["plist"] \cup {"scene"} /\ Once(d)
  BY <1>5, <1>6, InsertIs
<1>8. "template" \in DOMAIN d
  BY <1>5, <1>6, <1>7, HasIs DEF Structured
<1> HIDE DEF d
<1>9. \/ Arg = "aab" /\ shell' = shell
      \/ Arg # "aab" /\ shell'["plist"] = d /\ \A f \in Files \ {"plist"} : shell'[f] = shell[f]
  BY <1>4, <1>5, <1>6 DEF d
<1>10. Compilable(shell')
  <2>1. CASE shell' = shell
    BY <2>1 DEF CalmGate
  <2>2. CASE shell'["plist"] = d /\ \A f \in Files \ {"plist"} : shell'[f] = shell[f]
    <3>1. Structured(d) /\ d \notin {Absent, Emptied}
      BY <1>8, AbsentIs, HasIs DEF Structured
    <3>2. "releaseSigning" \notin DOMAIN shell'["gradle"]
      BY <1>6, <2>2 DEF CalmGate, Compilable
    <3>3. QED
      BY <1>5, <1>6, <2>2, <3>1, <3>2, MakesCompilable
  <2>3. QED
    BY <1>9, <2>1, <2>2
<1>11. Dressed(shell') /\ (Channel(shell) => Channel(shell'))
  <2>1. {"manifest", "drawables", "v31", "launchScreen", "launcher", "appIcon", "activity"}
          \subseteq Files \ {"plist"}
    BY DEF Files, AndroidFiles, IosFiles
  <2>2. QED
    BY <1>9, <2>1 DEF CalmGate, Dressed, Channel
<1>12. IosContract(shell) \/ Head(todo) = <<"build", "app">> => IosContract(shell')
  <2>1. DOMAIN shell["plist"] \subseteq DOMAIN shell'["plist"]
        /\ DOMAIN shell["project"] \subseteq DOMAIN shell'["project"]
    BY <1>6, <1>7, <1>9
  <2>2. IosContract(shell) => IosContract(shell')
    BY <2>1, HasIs DEF IosContract
  <2>3. ASSUME Head(todo) = <<"build", "app">> PROVE IosContract(shell')
    <3>1. Head(todo) \in Builds
      BY <1>1 DEF Builds
    <3>2. {"plist", "project"} \subseteq DOMAIN HardeningMarks
      BY HardeningDomain
    <3>3. Hardened(shell, "plist") /\ Hardened(shell, "project")
      BY <1>1, <3>1, <3>2, HeadNotLed DEF Ships, Pending, HardenedFirst, CalmRun, Steady
    <3>4. "faceId" \in DOMAIN shell["plist"] /\ "ios15" \in DOMAIN shell["project"]
      <4>1. HardeningMarks["plist"] = {"faceId"} /\ HardeningMarks["project"] = {"ios15"}
        BY DEF HardeningMarks
      <4>2. "plist" \notin AndroidFiles /\ "project" \notin AndroidFiles /\ "plist" \notin Fragile
        BY DEF AndroidFiles, Fragile
      <4>3. QED
        BY <1>5, <1>6, <3>3, <4>1, <4>2 DEF Hardened
    <3>5. "scene" \in DOMAIN shell'["plist"]
      BY <1>1, <1>7, <1>9, <2>3
    <3>6. QED
      BY <2>1, <3>4, <3>5, HasIs DEF IosContract
  <2>4. QED
    BY <2>2, <2>3
<1>13. \A k \in Kinds :
         artifacts[PathOf(k)] \in ArtifactRecords \/ Head(todo) = <<"build", PathOf(k)>>
           => artifacts'[PathOf(k)] \in ArtifactRecords
  <2>1. Built(Arg) \in ArtifactRecords
    BY BuiltIs DEF CalmGate
  <2>2. DOMAIN artifacts = Paths
    BY DEF Traced
  <2>3. \A k \in Kinds : PathOf(k) \in Paths
    BY DEF Kinds, PathOf, Paths
  <2>4. QED
    BY <1>1, <1>4, <2>1, <2>2, <2>3
<1>14. Steady' /\ Welcome /\ EvidenceDirectory' = EvidenceDirectory /\ UNCHANGED <<host, key, lock>>
  BY <1>1 DEF CalmRun, Steady, TreeClean, checkout, EvidenceDirectory
<1>15. Head(todo) \notin LockFirst /\ Head(todo) \notin Captures
  BY <1>1, StepSets DEF LockFirst
<1>16. QED
  BY <1>1, <1>4, <1>10, <1>11, <1>12, <1>13, <1>14, <1>15, GateGoesOn, TodoPassesOn

LEMMA GateCaptures ==
  ASSUME Typed, Traced, CalmRun, CalmGate, Capture
  PROVE  CalmRun' /\ outcome' # "failed"
<1>1. /\ todo # <<>> /\ Head(todo)[1] = "capture" /\ Arg \in Kinds /\ Head(todo) = <<"capture", Arg>>
      /\ UNCHANGED <<host, checkout, sdk, shell, key, device, probe, artifacts, rewritten>>
  BY HeadIs, ArgsAre DEF Capture, At, native, hand
<1>2. artifacts[PathOf(Arg)] \in ArtifactRecords
  BY <1>1, HeadNotLed DEF CalmGate
<1>3. lock # None
  BY DEF CalmGate
<1>4. Goes /\ evidence' = [evidence EXCEPT ![Arg] = Record(Arg)]
  BY <1>2, <1>3, NoneIsNoRecord DEF Capture
<1>5. evidence'[Arg] # None
  <2>1. DOMAIN evidence = Kinds
    BY DEF Traced
  <2>2. Record(Arg) # None
    BY <1>2, <1>3, RecordIs, NoneIsNoRecord
  <2>3. QED
    BY <1>1, <1>4, <2>1, <2>2
<1>6. EvidenceDirectory'
  BY <1>1, <1>5 DEF EvidenceDirectory
<1>7. Steady' /\ Welcome /\ Compilable(shell') /\ Dressed(shell') /\ UNCHANGED <<host, key, lock, shell>>
  BY <1>1 DEF CalmRun, CalmGate, Steady, TreeClean, checkout
<1>8. /\ Head(todo) \notin LockFirst /\ Head(todo) # <<"build", "app">>
      /\ \A k \in Kinds : Head(todo) # <<"build", PathOf(k)>>
  BY <1>1 DEF LockFirst
<1>9. CalmRun'
  BY <1>1, <1>4, <1>6, <1>7, <1>8, GateGoesOn
<1>10. QED
  BY <1>1, <1>4, <1>9, TodoPassesOn

(* The steps that leave the shells and the artifacts alone.                *)
LEMMA RunLooks ==
  ASSUME Typed, CalmRun,
         Preflight \/ Audits \/ PubGet \/ Tests \/ IosContractCheck \/ Report
  PROVE  calm' => CalmRun' /\ outcome' # "failed"
<1>1. SUFFICES ASSUME calm' PROVE CalmRun' /\ outcome' # "failed"
  OBVIOUS
<1>2. /\ todo # <<>>
      /\ Head(todo)[1] \in {"preflight", "audits", "pubGet", "tests", "iosContract", "report"}
      /\ UNCHANGED <<host, src, head, lockHead, sdk, key, shell, device, probe, rewritten>>
      /\ UNCHANGED <<artifacts, evidence>>
      /\ (lock' = lock \/ lock = None)
  BY DEF Preflight, Audits, PubGet, Tests, IosContractCheck, Report, At, native, checkout, proof, hand
<1>3. /\ \A X, Y : Led(todo, X, Y) => Head(todo) \notin Y
      /\ \A ops : OpsIn(todo, ops) => Head(todo)[1] \in ops
  BY <1>2, HeadNotLed
<1>4. Goes
  <2>1. CASE Preflight
    BY <2>1, PreflightPasses DEF Preflight, CalmRun
  <2>2. CASE Audits
    BY <2>2, AuditsPass DEF Audits
  <2>3. CASE PubGet
    BY <1>1, <2>3 DEF PubGet
  <2>4. CASE Tests
    BY <1>1, <2>4 DEF Tests
  <2>5. CASE IosContractCheck
    <3>1. CalmGate
      BY <1>3, <2>5 DEF IosContractCheck, At, CalmRun, CalmBoot, BootOps
    <3>2. Head(todo) \in ContractSteps
      BY <2>5, HeadIn DEF IosContractCheck, At, ContractSteps
    <3>3. QED
      BY <1>3, <2>5, <3>1, <3>2 DEF IosContractCheck, CalmGate
  <2>6. CASE Report
    <3>1. CalmGate
      BY <1>3, <2>6 DEF Report, At, CalmRun, CalmBoot, BootOps
    <3>2. Head(todo) \in ReportSteps
      BY <2>6, HeadIn DEF Report, At, ReportSteps
    <3>3. QED
      BY <1>3, <2>6, <3>1, <3>2 DEF Report, CalmGate
  <2>7. QED
    BY <2>1, <2>2, <2>3, <2>4, <2>5, <2>6
<1>5. Steady'
  BY <1>2 DEF CalmRun, Steady, TreeClean
<1>6. CASE CalmBoot
  <2>1. Head(todo)[1] \in BootOps
    BY <1>3, <1>6 DEF CalmBoot
  <2>2. Head(todo)[1] \in {"preflight", "audits", "pubGet", "tests"}
    BY <1>2, <2>1 DEF BootOps
  <2>3. QED
    BY <1>2, <1>4, <1>5, <1>6, <2>2, BootLooks, TodoPassesOn DEF CalmRun
<1>7. CASE CalmGate
  <2>1. lock' = lock
    BY <1>2, <1>7 DEF CalmGate
  <2>2. QED
    BY <1>2, <1>4, <1>5, <1>7, <2>1, GateLooks, TodoPassesOn DEF CalmRun
<1>8. QED
  BY <1>6, <1>7 DEF CalmRun

-----------------------------------------------------------------------------
(* An undisturbed script begins in order and goes on in order.             *)

LEMMA BootstrapUndisturbed ==
  ASSUME Typed, StartBootstrap, calm'
  PROVE  CalmRun' /\ outcome' # "failed"
<1>1. /\ todo' = Bootstrap /\ BootstrapReady /\ outcome' = "running"
      /\ UNCHANGED <<host, checkout, sdk, native, device, probe>> /\ rewritten' = FALSE
  BY DEF StartBootstrap, Start
<1>2. Steady'
  BY <1>1 DEF BootstrapReady, Steady, TreeClean, checkout
<1>3. Welcome' /\ CalmBoot'
  BY <1>1, BootstrapOrder DEF Welcome, CalmBoot
<1>4. QED
  BY <1>1, <1>2, <1>3 DEF CalmRun

LEMMA CompileGateUndisturbed ==
  ASSUME Typed, NEW mode \in Modes, StartCompileGate(mode), calm'
  PROVE  CalmRun' /\ outcome' # "failed"
<1>1. /\ todo' = CompileGate(mode) /\ CompileGateReady(mode) /\ lock # None /\ outcome' = "running"
      /\ UNCHANGED <<host, checkout, sdk, native, device, probe, artifacts, evidence>> /\ rewritten' = FALSE
  BY DEF StartCompileGate, GateOpens, Start, proof
<1>2. mode \in {"android", "ios", "all"}
  BY GatesAssumption
<1>3. Steady'
  BY <1>1 DEF CompileGateReady, BootstrapReady, Steady, TreeClean, checkout
<1>4. key = "none" /\ BrandingAudit(shell) /\ SplashAudit(shell) /\ IconAudit(shell)
  BY <1>1 DEF CompileGateReady, Refusals, BundleRefusals
<1>5. Compiles("aab") /\ Compiles("app")
  BY <1>1 DEF CompileGateReady, Paths
<1>6. Compilable(shell)
  BY <1>4, <1>5, HasIs DEF Compiles, PlatformOf, Compilable
<1>7. Dressed(shell)
  <2>1. \A f \in Files : shell[f] # Absent
    BY <1>6, CompilableIs
  <2>2. {"manifest", "styles", "plist", "appIcon"} \subseteq Files
    BY DEF Files, AndroidFiles, IosFiles
  <2>3. QED
    BY <1>4, <2>1, <2>2, HasIs DEF BrandingAudit, SplashAudit, IconAudit, Dressed
<1> DEFINE g == CompileGate(mode)
<1>8. /\ OpsIn(g, CompileOps) /\ Led(g, LockFirst, LockSteps)
      /\ Led(g, {<<"build", "app">>}, ContractSteps)
      /\ \A k \in Kinds : Led(g, {<<"build", PathOf(k)>>}, {<<"capture", k>>})
      /\ Led(g, Captures, ReportSteps)
      /\ mode = "android" => ~ Mentions(g, MacPreflights)
  BY <1>2, CompileGateOrder
<1> HIDE DEF g
<1>9. todo' = g
  BY <1>1 DEF g
<1>10. CalmGate'
  BY <1>1, <1>4, <1>6, <1>7, <1>8, <1>9 DEF CalmGate, native, checkout
<1>11. Welcome'
  BY <1>1, <1>8, <1>9 DEF Welcome, CompileGateReady
<1>12. QED
  BY <1>1, <1>3, <1>10, <1>11 DEF CalmRun

LEMMA BeginUndisturbed == ASSUME Typed, Begin PROVE Undisturbed'
<1>1. CASE StartBootstrap
  BY <1>1, BootstrapUndisturbed DEF Undisturbed
<1>2. CASE \E mode \in Modes : StartCompileGate(mode)
  BY <1>2, CompileGateUndisturbed DEF Undisturbed
<1>3. CASE StartSourceCheck \/ StartInstaller \/ StartConfigureSigning
  BY <1>3 DEF StartSourceCheck, StartInstaller, StartConfigureSigning, Start, Undisturbed
<1>4. CASE \E mode \in Modes : StartReleaseGate(mode)
  BY <1>4 DEF StartReleaseGate, Start, Undisturbed
<1>5. QED
  BY <1>1, <1>2, <1>3, <1>4 DEF Begin

LEMMA StepUndisturbed == ASSUME Typed, Traced, Ships, Undisturbed, Step PROVE Undisturbed'
<1>1. SUFFICES ASSUME calm' PROVE outcome' # "failed" /\ (todo' # <<>> => CalmRun')
  BY DEF Undisturbed
<1>2. todo # <<>>
  BY DEF Step, Preflight, DeleteShells, CopyShell, PatchShell, Audits, PubGet, Tests, Signing,
         Build, IosContractCheck, Capture, Report, Manifest, InstallStep, At
<1>3. calm
  BY <1>1 DEF Step, Preflight, DeleteShells, CopyShell, PatchShell, Audits, PubGet, Tests,
              Signing, Build, IosContractCheck, Capture, Report, Manifest, InstallStep
<1>4. CalmRun
  BY <1>2, <1>3 DEF Undisturbed
<1>5. Head(todo)[1] \in BootOps \cup CompileOps
      /\ (CalmBoot => Head(todo)[1] \in BootOps) /\ (CalmGate => Head(todo)[1] \in CompileOps)
  BY <1>2, <1>4, HeadNotLed DEF CalmRun, CalmBoot, CalmGate
<1>6. CASE Preflight \/ Audits \/ PubGet \/ Tests \/ IosContractCheck \/ Report
  BY <1>1, <1>4, <1>6, RunLooks
<1>7. CASE DeleteShells
  <2>1. CalmBoot
    BY <1>4, <1>5, <1>7 DEF DeleteShells, At, CalmRun, CompileOps
  <2>2. QED
    BY <1>4, <1>7, <2>1, BootDeletes
<1>8. CASE CopyShell
  <2>1. CalmBoot
    BY <1>4, <1>5, <1>8 DEF CopyShell, At, CalmRun, CompileOps
  <2>2. QED
    BY <1>4, <1>8, <2>1, BootCopies
<1>9. CASE PatchShell
  BY <1>4, <1>9, BootPatches, GatePatches DEF CalmRun
<1>10. CASE Build
  <2>1. CalmGate
    BY <1>4, <1>5, <1>10 DEF Build, At, CalmRun, BootOps
  <2>2. QED
    BY <1>1, <1>4, <1>10, <2>1, GateBuilds
<1>11. CASE Capture
  <2>1. CalmGate
    BY <1>4, <1>5, <1>11 DEF Capture, At, CalmRun, BootOps
  <2>2. QED
    BY <1>4, <1>11, <2>1, GateCaptures
<1>12. CASE Signing \/ Manifest \/ InstallStep
  BY <1>5, <1>12 DEF Signing, Manifest, InstallStep, At, BootOps, CompileOps
<1>13. QED
  BY <1>6, <1>7, <1>8, <1>9, <1>10, <1>11, <1>12 DEF Step

LEMMA DeveloperUndisturbed == ASSUME Undisturbed, Developer PROVE Undisturbed'
<1>1. todo' = todo /\ outcome' = outcome
  BY DEF Developer, Edit, Resolve, Commit, EditShell, PutKey, TidyUp, Disturbs, Moves, trace, hand
<1>2. CASE TidyUp
  BY <1>1, <1>2 DEF TidyUp, Undisturbed, Idle
<1>3. CASE ~ TidyUp
  <2>1. calm' = (calm /\ Idle)
    BY <1>3 DEF Developer, Edit, Resolve, Commit, EditShell, PutKey, Disturbs, Moves, trace, hand
  <2>2. QED
    BY <1>1, <2>1 DEF Undisturbed, Idle
<1>4. QED
  BY <1>2, <1>3

LEMMA StutterUndisturbed == ASSUME Undisturbed, UNCHANGED vars PROVE Undisturbed'
<1>1. /\ UNCHANGED <<host, src, head, lock, lockHead, sdk, shell, key, device, probe, todo, outcome,
                     artifacts, evidence, calm, rewritten>>
  BY DEF vars, checkout, native, proof, hand
<1>2. Steady' = Steady /\ Welcome' = Welcome /\ CalmBoot' = CalmBoot /\ CalmGate' = CalmGate
  BY <1>1 DEF Steady, TreeClean, Welcome, CalmBoot, CalmGate, EvidenceDirectory
<1>3. QED
  BY <1>1, <1>2 DEF Undisturbed, CalmRun

LEMMA NextUndisturbed == Typed /\ Traced /\ Ships /\ Undisturbed /\ [Next]_vars => Undisturbed'
<1>1. Kill => Undisturbed'
  BY DEF Kill, Undisturbed
<1>2. QED
  BY <1>1, BeginUndisturbed, StepUndisturbed, DeveloperUndisturbed, StutterUndisturbed DEF Next

(* A bootstrap of a clean checkout with the pinned Flutter, and a compile  *)
(* gate on complete shells, fail only in pub get, analyze, the tests or    *)
(* the build, whatever a killed run left in android/ and ios/: the files   *)
(* are copied before they are patched, hardened before the v49 patch and   *)
(* branded before the audit (tool/bootstrap.sh,                            *)
(* tool/native_compile_gate.sh).                                           *)
THEOREM UndisturbedRunsPass == Spec => []CalmRunsPass
<1>1. Init => Typed /\ Traced /\ Marks /\ Ships /\ Undisturbed
  <2>1. Init => Undisturbed
    BY DEF Init, Undisturbed
  <2>2. QED
    BY <2>1, InitTyped, InitTraced, InitMarks, InitShips
<1>2. Typed /\ Traced /\ Marks /\ Ships /\ Undisturbed /\ [Next]_vars
        => (Typed /\ Traced /\ Marks /\ Ships /\ Undisturbed)'
  BY NextTyped, NextTraced, NextMarks, NextShips, NextUndisturbed
<1>3. Undisturbed => CalmRunsPass
  BY DEF Undisturbed, CalmRunsPass
<1>4. QED
  BY <1>1, <1>2, <1>3, PTL DEF Spec

===============================================================================
