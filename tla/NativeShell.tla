------------------------------ MODULE NativeShell ------------------------------
(***************************************************************************)
(* The generated android/ and ios/ shells and the tools that patch them:   *)
(* tool/native_hardening.py, v49_lifecycle_native_patch.py,                *)
(* native_branding.py, native_splash.py, native_app_icon.py and            *)
(* configure_android_release_signing.py, with the audits of what they      *)
(* generate and the fixtures those audits run the tools on.                *)
(*                                                                         *)
(* A file, or a group of files one tool writes, is a bag of marks: what    *)
(* flutter create put there ("template": the structure the tools search    *)
(* for) and one mark for each thing a tool sets or inserts, with how many  *)
(* times it is there.  A killed write leaves a file empty.                 *)
(***************************************************************************)
EXTENDS Naturals, Sequences, FiniteSets, Bags

AndroidFiles == {"manifest", "rules", "gradle", "activity", "styles", "v31",
                 "drawables", "launcher"}
IosFiles == {"plist", "project", "launchScreen", "appIcon"}
Files == AndroidFiles \union IosFiles

Absent == SetToBag({"absent"})
Emptied == EmptyBag
Marked(marks) == SetToBag(marks)

Has(c, mark) == BagIn(mark, c)
Copies(c, mark) == IF Has(c, mark) THEN c[mark] ELSE 0
Structured(c) == Has(c, "template")
NoFiles == [f \in Files |-> Absent]

(* What flutter create makes: no backup rules, no values-v31, and a        *)
(* release build signed with the debug key.                                *)
Template ==
  [f \in Files |->
     CASE f \in {"rules", "v31"} -> Absent
       [] f = "gradle" -> Marked({"template", "debugSigning"})
       [] OTHER -> Marked({"template"})]

(* Mutant: the text is inserted every time.                                *)
InsertAgain(c, marks) == c (+) Marked(marks)

(* An attribute set to a value, or a text inserted unless it is there.     *)
Insert(c, marks) == c (+) Marked({m \in marks : ~ Has(c, m)})

--------------------------------------------------------------------------------
(* The tools: the files each writes, in order, and what becomes of a file. *)

(* Mutant: the class template of before the device lock was added.         *)
ActivityWithoutLock == Marked({"template", "imports", "channel"})

(* The whole class is replaced; package and imports stay.                  *)
Activity == Marked({"template", "imports", "channel", "deviceLock"})

HardeningFiles == <<"manifest", "rules", "gradle", "activity", "styles", "v31",
                    "plist", "project">>

Harden(f, c) ==
  CASE f = "manifest" -> Insert(c, {"permissions", "backupOff", "receivers"})
    [] f = "rules" -> Marked({"exclusions"})
    [] f = "gradle" -> Insert(c, IF Structured(c) THEN {"sdk36", "java17", "dependencies"}
                                                  ELSE {"dependencies"})
    [] f = "activity" -> Activity
    [] f = "styles" -> IF Structured(c) THEN Insert(c, {"appCompat"}) ELSE c
    [] f = "v31" -> c
    [] f = "plist" -> Insert(c, {"faceId"})
    [] f = "project" -> IF Structured(c) THEN Insert(c, {"ios15"}) ELSE c

(* main of v49_lifecycle_native_patch: nothing when the case is there, an  *)
(* error when there is no channel to put it in.                            *)
AddDeviceLock(c) == Insert(c, {"imports", "deviceLock"})

BrandingFiles == <<"manifest", "plist">>

Brand(f, c) == Insert(c, IF f = "manifest" THEN {"label", "icon"}
                                           ELSE {"label", "faceId"})

SplashFiles == <<"drawables", "styles", "v31", "launchScreen">>

Splash(f, c) ==
  CASE f \in {"drawables", "launchScreen"} -> Marked({"splash"})
    [] f = "styles" -> Insert(c, {"splash"})
    [] f = "v31" -> IF c = Absent THEN Marked({"template", "appCompat", "splash"})
                                  ELSE Insert(c, {"splash"})

IconFiles == <<"launcher", "appIcon">>

Icon(f, c) == Marked({"icons"})

(* configure_android_release_signing: the debug key of the release block   *)
(* is replaced.                                                            *)
Sign(c) == Insert(c (-) Marked({"debugSigning"}),
                  {"loader", "releaseConfig", "releaseSigning"})

Patch(tool, f, c) ==
  CASE tool = "hardening" -> Harden(f, c)
    [] tool = "v49" -> AddDeviceLock(c)
    [] tool = "branding" -> Brand(f, c)
    [] tool = "splash" -> Splash(f, c)
    [] tool = "icon" -> Icon(f, c)
    [] tool = "signing" -> Sign(c)

(* A tool that finds no file returns or passes over it, unless the file is *)
(* one it makes: then the directory above must be there.                   *)
Makes(tool, f, shell) ==
  \/ tool = "hardening" /\ f = "rules" /\ shell["manifest"] # Absent
  \/ tool = "splash" /\ f \in {"drawables", "v31"} /\ shell["styles"] # Absent
  \/ tool = "splash" /\ f = "launchScreen" /\ shell["plist"] # Absent
  \/ tool = "icon" /\ f = "launcher" /\ shell["styles"] # Absent

(* patch_android of the hardening does nothing without a manifest.         *)
Reaches(tool, f, shell) ==
  /\ shell[f] # Absent \/ Makes(tool, f, shell)
  /\ tool = "hardening" /\ f \in AndroidFiles => shell["manifest"] # Absent

(* android/app/src/main, which the Gradle file is outside of               *)
SourceDirectory(shell) == \E f \in AndroidFiles \ {"gradle"} : shell[f] # Absent

(* A tool that cannot find its place in a file raises before it writes.    *)
Chokes(tool, f, shell) ==
  LET c == shell[f] IN
  \/ /\ c # Absent /\ ~ Structured(c)
     /\ \/ tool = "hardening" /\ f \in {"manifest", "activity", "plist"}
        \/ tool \in {"branding", "signing"}
        \/ tool = "splash" /\ f \in {"styles", "v31"}
  \/ /\ tool = "v49" /\ SourceDirectory(shell)
     /\ ~ Has(c, "channel") /\ ~ Has(c, "deviceLock")
  \/ tool = "signing" /\ c = Absent

Patched(tool, f, shell) ==
  IF Reaches(tool, f, shell) THEN [shell EXCEPT ![f] = Patch(tool, f, @)] ELSE shell

--------------------------------------------------------------------------------
(* What a build has to carry, and what the checks look at.                 *)

HardeningMarks ==
  [manifest |-> {"permissions", "backupOff", "receivers"}, rules |-> {"exclusions"},
   gradle |-> {"sdk36", "java17", "dependencies"},
   activity |-> {"channel", "deviceLock"}, styles |-> {"appCompat"},
   plist |-> {"faceId"}, project |-> {"ios15"}]

IdentityMarks ==
  [manifest |-> {"label", "icon"}, drawables |-> {"splash"}, styles |-> {"splash"},
   v31 |-> {"splash"}, launcher |-> {"icons"},
   plist |-> {"label"}, launchScreen |-> {"splash"}, appIcon |-> {"icons"}]

FilesOf(platform) == IF platform = "android" THEN AndroidFiles ELSE IosFiles

Carries(shell, platform, marks) ==
  \A f \in DOMAIN marks \intersect FilesOf(platform) :
    \A m \in marks[f] : Has(shell[f], m)

(* A compiler accepts no missing and no empty file.                        *)
Buildable(shell, platform) ==
  \A f \in FilesOf(platform) : shell[f] \notin {Absent, Emptied} /\
    (f \in {"manifest", "gradle", "activity", "styles", "v31", "plist", "project"} =>
       Structured(shell[f]))

(* deep_mine_v38_native_branding_audit, of the generated manifest          *)
BrandingAudit(shell) ==
  shell["manifest"] # Absent =>
    Has(shell["manifest"], "label") /\ Has(shell["manifest"], "icon")

(* deep_mine_v39_native_splash_audit, of the generated shells              *)
SplashAudit(shell) ==
  /\ shell["styles"] # Absent =>
       /\ shell["drawables"] \notin {Absent, Template["drawables"]}
       /\ Has(shell["v31"], "splash")
  /\ shell["plist"] # Absent => Has(shell["launchScreen"], "splash")

(* deep_mine_v40_native_app_icon_audit, of the generated shells            *)
IconAudit(shell) ==
  /\ shell["styles"] # Absent =>
       Has(shell["launcher"], "icons") /\ Has(shell["manifest"], "icon")
  /\ shell["appIcon"] # Absent => Has(shell["appIcon"], "icons")

(* reference_native_hardening_audit: a fixture hardened twice carries      *)
(* every mark the audit counts exactly once.                               *)
HardeningFixture ==
  [manifest |-> Marked({"template"}), gradle |-> Marked({"template"}),
   activity |-> Marked({"template"}), styles |-> Marked({"template"}),
   plist |-> Marked({"template"}), project |-> Marked({"template"})]

HardeningAudit ==
  \A f \in DOMAIN HardeningFixture :
    LET twice == Harden(f, Harden(f, HardeningFixture[f]))
        asserted == HardeningMarks[f] \ {"deviceLock"}
    IN \A m \in asserted : Copies(twice, m) = 1

(* verify_android_release_signing: the properties file, the keystore its   *)
(* alias opens, and the Gradle file.                                       *)
SigningVerified(key, gradle) ==
  /\ key = "usable"
  /\ Has(gradle, "releaseConfig") /\ Has(gradle, "releaseSigning")
  /\ ~ Has(gradle, "debugSigning")

(* reference_android_signing_audit                                         *)
SigningAudit ==
  LET fixture == Marked({"template", "debugSigning"})
      twice == Sign(Sign(fixture))
  IN /\ \A m \in {"loader", "releaseConfig", "releaseSigning"} : Copies(twice, m) = 1
     /\ ~ Has(twice, "debugSigning")
     /\ SigningVerified("usable", twice)
     /\ ~ SigningVerified("wrongAlias", twice)
     /\ ~ SigningVerified("none", twice)

(* verify_ios_modern_contract: the scene manifest comes from the build.    *)
IosContract(shell) ==
  /\ Has(shell["plist"], "scene") /\ Has(shell["plist"], "faceId")
  /\ Has(shell["project"], "ios15")

(* reference_v17_native_execution_audit, of that verifier                  *)
IosContractAudit ==
  LET fixture(marks) == [plist |-> Marked({"template"} \union marks),
                         project |-> Marked({"template", "ios15"})]
  IN IosContract(fixture({"scene", "faceId"})) /\ ~ IosContract(fixture({"faceId"}))
================================================================================
