----------------------------- MODULE ReleaseGates -----------------------------
(***************************************************************************)
(* The release scripts on one checkout: bootstrap.sh,                      *)
(* tool/install_pinned_flutter_ci.py, native_compile_gate.sh,              *)
(* native_release_gate.sh and release_orchestrator.sh, the evidence        *)
(* capture_native_evidence.py writes and the readiness report that reads   *)
(* it.  A script is a sequence of steps; one runs at a time, and stops at  *)
(* the first step that fails (set -e).  Meanwhile the developer edits and  *)
(* commits, changes files of the shells, puts signing keys and device      *)
(* evidence in place, and may kill the script in the middle of a step.     *)
(*                                                                         *)
(* The source is a number that grows with each edit; the lock says which   *)
(* dependencies were resolved.  An artifact records what it was built of.  *)
(***************************************************************************)
EXTENDS NativeShell, SequencesExt

CONSTANTS None, Torn,
          Modes,           \* of {"android", "ios", "all"}, those the gates run in
          PartialCopies,   \* the files there may be after a killed copy
          EditedFiles,     \* the files of the shells that are edited by hand
          MaxScripts, MaxEdits, MaxKills, MaxShellEdits   \* bounds

ASSUME GatesAssumption ==
  /\ Modes \subseteq {"android", "ios", "all"}
  /\ PartialCopies \subseteq SUBSET Files /\ EditedFiles \subseteq Files
  /\ {MaxScripts, MaxEdits, MaxKills, MaxShellEdits} \subseteq Nat
  /\ None \notin Nat

(* None is no number, no package, no record of an artifact or of evidence. *)
ASSUME NoneAssumption ==
  LET Identity == SUBSET ({"source", "pubspec.lock"} \X Nat)
      Sdk == {"pinned", "replaced", "none", "partial", "older"}
      Artifact == [canonical : Identity, lock : Nat, sdk : Sdk, hardened : BOOLEAN,
                   branded : BOOLEAN, signed : BOOLEAN, touched : BOOLEAN, rewritten : BOOLEAN]
      Evidence == [canonical : Identity, lock : Nat, sdk : Sdk, artifact : Artifact,
                   moved : BOOLEAN, leftover : BOOLEAN]
  IN None \notin {"built", "report"} \union Artifact \union Evidence

VARIABLES host,      \* "linux" or "macos"
          src, head, \* the tracked files, and those of the last commit
          lock, lockHead,  \* pubspec.lock, and the committed one
          sdk,       \* the Flutter the PATH leads to
          shell,     \* the files of android/ and ios/
          dirs,      \* which of the two directories there are
          key,       \* android/key.properties and its keystore
          device,    \* device-validation.json: the identity it names
          probe,     \* the file reference_v42 puts into docs/ for a moment
          todo,      \* the steps left of the script that runs
          outcome,   \* how the last script ended
          artifacts, \* what the builds left, by path
          evidence,  \* build/arus_evidence/<kind>.json
          report,    \* release-readiness.json
          moved,     \* history: the artifacts since whose build by the running
                     \* script, or since its start, source or lock changed
          leftover,  \* history: its build made no .ipa, or not the one it takes
          calm,      \* history: this run has no reason to fail
          touched,   \* history: shell files were edited by hand
          rewritten, \* history: ... under the running script
          scripts, shellEdits, kills

checkout == <<src, head, lock, lockHead>>
native == <<shell, dirs, key>>
proof == <<artifacts, evidence, report>>
trace == <<moved, leftover>>
hand == <<touched, rewritten>>
bounds == <<scripts, shellEdits, kills>>
vars == <<host, checkout, sdk, native, device, probe, todo, outcome, proof,
          trace, calm, hand, bounds>>

--------------------------------------------------------------------------------
(* Identities                                                              *)

Kinds == {"android-compile", "ios-compile", "android-release", "ios-release"}
Paths == {"aab", "app", "ipa"}
PathOf(kind) == IF kind \in {"android-compile", "android-release"} THEN "aab"
                ELSE IF kind = "ios-compile" THEN "app" ELSE "ipa"
PlatformOf(path) == IF path = "aab" THEN "android" ELSE "ios"
Platforms(mode) == IF mode = "all" THEN {"android", "ios"} ELSE {mode}

(* A digest tells two sets of files apart by their paths and contents.     *)
Digest(files) == {<<f.path, f.content>> : f \in files}

(* The files an identity is made of: under the canonical roots, or in the  *)
(* shells.  None holds a key.  Git lists the tracked ones; a copy without  *)
(* git has them all.                                                       *)
CanonicalFiles(files, git) ==
  {f \in files : f.place = "canonical" /\ ~ f.secret /\ (git => f.tracked)}

ShellFiles(files) == {f \in files : f.place = "shell" /\ ~ f.secret}

(* source_manifest_hash                                                    *)
SourceManifest(files, git, includeNative) ==
  Digest(CanonicalFiles(files, git) \union (IF includeNative THEN ShellFiles(files) ELSE {}))

File(path, place, content) ==
  [path |-> path, place |-> place, content |-> content, tracked |-> TRUE, secret |-> FALSE]

(* The checkout, as far as an identity without the shells can see it: the  *)
(* lock counts once it is committed.                                       *)
CheckoutFiles ==
  {File("source", "canonical", src)}
  \union {[File("pubspec.lock", "canonical", lock) EXCEPT !.tracked = (lockHead # None)]
          : l \in {lock} \ {None}}

CanonicalIdentity == SourceManifest(CheckoutFiles, TRUE, FALSE)

(* reference_v17_native_execution_audit, of the evidence: another key      *)
(* changes nothing, and no record names one                                *)
EvidenceAudit ==
  LET Fixture(signingKey) ==
        {File("main.dart", "canonical", "app"), File("pubspec.lock", "canonical", "lock"),
         File("Info.plist", "shell", "plist"),
         [File("key.properties", "shell", signingKey) EXCEPT !.secret = TRUE]}
      FixtureManifest(signingKey) == SourceManifest(Fixture(signingKey), FALSE, TRUE)
  IN /\ FixtureManifest("a") = FixtureManifest("b")
     /\ \A entry \in FixtureManifest("a") : entry[2] # "a"

(* reference_v42_uat_artifact_audit, of the identity: a file git does not  *)
(* track is no part of it                                                  *)
ResidueAudit ==
  LET probed == [File("docs", "canonical", "probe") EXCEPT !.tracked = FALSE]
  IN SourceManifest(CheckoutFiles \union {probed}, TRUE, FALSE) = CanonicalIdentity

(* git diff --quiet of create_git_bootstrap_bundle                         *)
TreeClean == src = head /\ (lockHead = None \/ lock = lockHead)

(* The Flutter archives that pass for the pinned release.                  *)
Archives == {"pinned", "replaced"}

(* native_toolchain_preflight: exactly the pinned Flutter, and a Mac with  *)
(* Xcode for iOS.                                                          *)
ToolchainAccepted(flutter, machine, mode) ==
  flutter \in Archives /\ (mode \in {"ios", "all"} => machine = "macos")

(* reference_v17_native_execution_audit, of the preflight                  *)
PreflightAudit ==
  /\ \A mode \in {"bootstrap", "android", "ios"} : ToolchainAccepted("pinned", "macos", mode)
  /\ ~ ToolchainAccepted("older", "macos", "bootstrap")

(* verify_ci_native_evidence: two records of one source, one lock and the  *)
(* pinned Flutter.                                                         *)
SameBuild(android, ios) ==
  /\ android.lock = ios.lock /\ android.canonical = ios.canonical
  /\ {android.sdk, ios.sdk} \subseteq Archives

(* reference_v25_ci_handoff_audit, of that verifier                        *)
HandoffAudit ==
  LET base == [canonical |-> 1, lock |-> 3, sdk |-> "pinned"]
  IN SameBuild(base, base) /\ ~ SameBuild(base, [base EXCEPT !.lock = 7])

(* install_pinned_flutter_ci, of the entry it finds for the version and    *)
(* the host: the pinned commit and Dart, and the checksum, which is pinned *)
(* for x64 Linux only and not for a manifest given as a file.              *)
ReleaseAccepted(release, machine, offline) ==
  /\ release.commit = "pinned" /\ release.dart = "pinned"
  /\ ~ offline /\ machine = "linux" => release.sum = "pinned"

ArchiveAccepted(sum, archive) == archive = sum

(* reference_v25_ci_handoff_audit, of the installer: a release made for    *)
(* the occasion, one of another commit, and one with another checksum      *)
InstallerAudit ==
  LET fixture == [commit |-> "pinned", dart |-> "pinned", sum |-> "fixture"]
      Installs(release) == ReleaseAccepted(release, "linux", TRUE)
                           /\ ArchiveAccepted(release.sum, "fixture")
  IN /\ Installs(fixture)
     /\ ~ Installs([fixture EXCEPT !.commit = "other"])
     /\ ~ Installs([fixture EXCEPT !.sum = "other"])

(* verify_device_uat_artifact: the package, its checksum and the signing   *)
(* report, of which only the presence counts                               *)
UatAccepted(files) == None \notin Range(files) /\ files.apk = files.sha

(* reference_v42_uat_artifact_audit, of that verifier                      *)
UatAudit ==
  LET fixture == [apk |-> "built", sha |-> "built", signing |-> "report"]
  IN UatAccepted(fixture) /\ ~ UatAccepted([fixture EXCEPT !.apk = "tampered"])

(* verify_ci_action_pins: every action the workflows use, at the commit    *)
(* and under the version of its pin, and no pin without a use              *)
PinsAccepted(uses, pins) ==
  /\ \A use \in uses :
       use.action \in DOMAIN pins /\ <<use.commit, use.version>> = pins[use.action]
  /\ DOMAIN pins \subseteq {use.action : use \in uses}

(* reference_v26_release_orchestration_audit, of the pins: a tag in the    *)
(* place of a commit                                                       *)
PinAudit ==
  LET pins == [action \in {"checkout", "cache"} |-> <<"commit", "version">>]
      used == [action : DOMAIN pins, commit : {"commit"}, version : {"version"}]
      tagged == [action |-> "checkout", commit |-> "version", version |-> "version"]
  IN /\ PinsAccepted(used, pins)
     /\ ~ PinsAccepted({tagged} \union {use \in used : use.action # "checkout"}, pins)

FixturesPass ==
  /\ HardeningAudit /\ SigningAudit /\ IosContractAudit
  /\ PreflightAudit /\ EvidenceAudit /\ HandoffAudit /\ InstallerAudit
  /\ PinAudit /\ UatAudit /\ ResidueAudit

(* reference_v27_git_bootstrap_audit makes a bundle of the checkout, which *)
(* has to be clean and without keys; reference_v26 wants no device         *)
(* evidence, and reference_v42 a place for its probe.                      *)
BundleRefusals ==
  (IF TreeClean THEN {} ELSE {"tree"}) \union (IF key = "none" THEN {} ELSE {"key"})

ReadinessRefusals == IF device = None THEN {} ELSE {"device"}
ProbeRefusals == IF probe THEN {"probe"} ELSE {}

(* The reasons for which run_all_audits refuses the checkout.              *)
Refusals ==
  (IF FixturesPass THEN {} ELSE {"fixtures"})
  \union (IF BrandingAudit(shell) THEN {} ELSE {"branding"})
  \union (IF SplashAudit(shell) THEN {} ELSE {"splash"})
  \union (IF IconAudit(shell) THEN {} ELSE {"icons"})
  \union BundleRefusals \union ReadinessRefusals \union ProbeRefusals

--------------------------------------------------------------------------------
(* The scripts, as sequences of steps <<operation, argument>>              *)

Tool(tool, files) == [i \in DOMAIN files |-> <<tool, files[i]>>]
HardenSteps == Tool("hardening", HardeningFiles)

Bootstrap ==
  <<<<"preflight", "bootstrap">>, <<"remove", "shells">>, <<"copy", "android">>,
    <<"copy", "ios">>>>
  \o HardenSteps \o <<<<"v49", "activity">>>> \o Tool("branding", BrandingFiles)
  \o Tool("splash", SplashFiles) \o Tool("icon", IconFiles)
  \o <<<<"audits", "run">>, <<"pubGet", "resolve">>, <<"tests", "run">>>>

Reporting == <<<<"report", "sourcePass">>>>

CompileGate(mode) ==
  <<<<"preflight", mode>>>> \o HardenSteps \o <<<<"v49", "activity">>>>
  \o <<<<"pubGet", "enforce">>, <<"audits", "run">>, <<"tests", "run">>>>
  \o (IF "android" \in Platforms(mode)
      THEN <<<<"build", "aab">>, <<"capture", "android-compile">>>> ELSE <<>>)
  \o (IF "ios" \in Platforms(mode)
      THEN <<<<"build", "app">>, <<"iosContract", "check">>, <<"capture", "ios-compile">>>>
      ELSE <<>>)
  \o Reporting

ReleaseGate(mode) ==
  <<<<"preflight", mode>>>> \o HardenSteps
  \o <<<<"pubGet", "enforce">>, <<"audits", "run">>, <<"tests", "run">>>>
  \o (IF "android" \in Platforms(mode)
      THEN <<<<"signing", "verify">>, <<"build", "aab">>, <<"capture", "android-release">>>>
      ELSE <<>>)
  \o (IF "ios" \in Platforms(mode)
      THEN <<<<"build", "ipa">>, <<"iosContract", "check">>, <<"capture", "ios-release">>>>
      ELSE <<>>)
  \o Reporting

SourceCheck == <<<<"audits", "run">>>> \o Reporting
Installer == <<<<"manifest", "check">>>>
ConfigureSigning == <<<<"signing", "gradle">>>>

Idle == todo = <<>>

(* What a gate looks for before its first step.                            *)
GateOpens(mode) ==
  /\ lock # None
  /\ Platforms(mode) \subseteq dirs

(* Gradle refuses a release configuration without its keystore.            *)
Compiles(path) ==
  /\ Buildable(shell, PlatformOf(path))
  /\ path = "aab" /\ Has(shell["gradle"], "releaseSigning") => key = "usable"

(* Nothing in the state makes an undisturbed bootstrap fail: the keys go   *)
(* with the directory they are in.                                         *)
BootstrapReady ==
  /\ sdk = "pinned" /\ TreeClean /\ device = None /\ ~ probe

(* Nor an undisturbed compile gate, when the shells are as bootstrap left  *)
(* them and the host can build for the platforms.  A gate for Android      *)
(* hardens the iOS shell as well.                                          *)
CompileGateReady(mode) ==
  /\ BootstrapReady /\ Refusals = {}
  /\ mode # "android" => host = "macos"
  /\ \A path \in Paths : Compiles(path)

Start(script, ready) ==
  /\ Idle /\ scripts < MaxScripts
  /\ scripts' = scripts + 1
  /\ todo' = script
  /\ moved' = {} /\ leftover' = FALSE /\ rewritten' = FALSE
  /\ calm' = ready
  /\ outcome' = "running"
  /\ UNCHANGED <<host, checkout, sdk, native, device, probe, proof, touched,
                 shellEdits, kills>>

(* ARUS_REGENERATE_NATIVE=1 is needed when there is a shell.               *)
StartBootstrap == Start(Bootstrap, BootstrapReady)
StartCompileGate(mode) == GateOpens(mode) /\ Start(CompileGate(mode), CompileGateReady(mode))
StartReleaseGate(mode) ==
  /\ GateOpens(mode)
  /\ mode = "all" => host = "macos"
  /\ Start(ReleaseGate(mode), FALSE)
StartSourceCheck == Start(SourceCheck, FALSE)
StartInstaller == Start(Installer, FALSE)
StartConfigureSigning == Start(ConfigureSigning, FALSE)

--------------------------------------------------------------------------------
(* The end of a step: go on, or stop the script.                           *)

Goes == todo' = Tail(todo) /\ outcome' = IF Len(todo) = 1 THEN "passed" ELSE outcome

Stops == todo' = <<>> /\ outcome' = "failed"

At(op) == todo # <<>> /\ Head(todo)[1] = op
Arg == Head(todo)[2]

Preflight ==
  /\ At("preflight")
  /\ IF ToolchainAccepted(sdk, host, Arg) THEN Goes ELSE Stops
  /\ UNCHANGED <<host, checkout, sdk, native, device, probe, proof, trace, calm,
                 hand, bounds>>

(* Mutant: the copy goes over what is there.                               *)
KeepShells == UNCHANGED native

RemoveShells ==
  /\ shell' = NoFiles /\ dirs' = {} /\ key' = "none"

DeleteShells ==
  /\ At("remove")
  /\ RemoveShells
  /\ Goes
  /\ UNCHANGED <<host, checkout, sdk, device, probe, proof, trace, calm, hand, bounds>>

CopyShell ==
  /\ At("copy")
  /\ dirs' = dirs \union {Arg}
  /\ shell' = [f \in Files |-> IF f \in FilesOf(Arg) /\ shell[f] = Absent
                               THEN Template[f] ELSE shell[f]]
  /\ Goes
  /\ UNCHANGED <<host, checkout, sdk, key, device, probe, proof, trace, calm,
                 hand, bounds>>

Tools == {"hardening", "v49", "branding", "splash", "icon"}

RunTool(tool, f) ==
  IF Chokes(tool, f, shell) THEN Stops /\ UNCHANGED shell
  ELSE Goes /\ shell' = Patched(tool, f, shell)

PatchShell ==
  /\ \E tool \in Tools : At(tool) /\ RunTool(tool, Arg)
  /\ UNCHANGED <<host, checkout, sdk, dirs, key, device, probe, proof, trace, calm,
                 hand, bounds>>

(* run_all_audits                                                          *)
Audits ==
  /\ At("audits")
  /\ IF Refusals = {} THEN Goes ELSE Stops
  /\ UNCHANGED <<host, checkout, sdk, native, device, probe, proof, trace, calm,
                 hand, bounds>>

(* flutter pub get: without a lock the resolver writes one, or fails.      *)
(* With --enforce-lockfile it fails when the lock does not fit the pubspec. *)
PubGet ==
  /\ At("pubGet")
  /\ \/ Goes /\ UNCHANGED calm /\ lock' = IF lock = None THEN src ELSE lock
     \/ Stops /\ calm' = FALSE /\ UNCHANGED lock
  /\ UNCHANGED <<host, src, head, lockHead, sdk, native, device, probe, proof, trace,
                 hand, bounds>>

(* flutter analyze and flutter test                                        *)
Tests ==
  /\ At("tests")
  /\ \/ Goes /\ UNCHANGED calm
     \/ Stops /\ calm' = FALSE
  /\ UNCHANGED <<host, checkout, sdk, native, device, probe, proof, trace, hand, bounds>>

(* configure_android_release_signing, and verify_android_release_signing   *)
Signing ==
  /\ At("signing")
  /\ IF Arg = "gradle" THEN RunTool("signing", "gradle")
     ELSE /\ IF SigningVerified(key, shell["gradle"]) THEN Goes ELSE Stops
          /\ UNCHANGED shell
  /\ UNCHANGED <<host, checkout, sdk, dirs, key, device, probe, proof, trace, calm,
                 hand, bounds>>

--------------------------------------------------------------------------------
(* Builds and evidence                                                     *)

Built(path) ==
  [canonical |-> CanonicalIdentity, lock |-> lock, sdk |-> sdk,
   hardened |-> Carries(shell, PlatformOf(path), HardeningMarks),
   branded |-> Carries(shell, PlatformOf(path), IdentityMarks),
   signed |-> path = "ipa" \/ (path = "aab" /\ SigningVerified(key, shell["gradle"])),
   touched |-> touched, rewritten |-> rewritten]

(* The build of an iOS app puts the scene manifest into the plist.         *)
Compiled ==
  shell' = IF Arg = "aab" THEN shell ELSE [shell EXCEPT !["plist"] = Insert(@, {"scene"})]

Replaces(path) ==
  /\ artifacts' = [artifacts EXCEPT ![path] = Built(path)]
  /\ leftover' = (leftover /\ path # "ipa")

(* Mutant: a script without set -e.                                        *)
BuildGoesOn ==
  /\ At("build")
  /\ Goes
  /\ moved' = moved \ {Arg}
  /\ \/ Compiles(Arg) /\ Compiled /\ Replaces(Arg)
     \/ UNCHANGED <<artifacts, shell, leftover>>
  /\ UNCHANGED <<host, checkout, sdk, dirs, key, device, probe, evidence, report,
                 calm, hand, bounds>>

(* A failed build leaves what the last one made.  One that succeeds puts   *)
(* its artifact at a path of its own, but for the .ipa: the store gate     *)
(* takes the first by name of those it finds, which may be an older one,   *)
(* or the only one, when the export failed and the command did not.        *)
Build ==
  /\ At("build")
  /\ \/ /\ Compiles(Arg) /\ Goes /\ Compiled
        /\ moved' = moved \ {Arg}
        /\ \/ Replaces(Arg) /\ UNCHANGED calm
           \/ Arg = "ipa" /\ leftover' = TRUE /\ calm' = FALSE /\ UNCHANGED artifacts
     \/ /\ Stops /\ calm' = (calm /\ ~ Compiles(Arg))
        /\ UNCHANGED <<artifacts, shell, trace>>
  /\ UNCHANGED <<host, checkout, sdk, dirs, key, device, probe, evidence, report,
                 hand, bounds>>

IosContractCheck ==
  /\ At("iosContract")
  /\ IF IosContract(shell) THEN Goes ELSE Stops
  /\ UNCHANGED <<host, checkout, sdk, native, device, probe, proof, trace, calm,
                 hand, bounds>>

(* main of capture_native_evidence                                         *)
Record(kind) ==
  [canonical |-> CanonicalIdentity, lock |-> lock, sdk |-> sdk,
   artifact |-> artifacts[PathOf(kind)], moved |-> PathOf(kind) \in moved,
   leftover |-> kind = "ios-release" /\ leftover]

Capture ==
  /\ At("capture")
  /\ IF artifacts[PathOf(Arg)] = None \/ lock = None
     THEN Stops /\ UNCHANGED evidence
     ELSE Goes /\ evidence' = [evidence EXCEPT ![Arg] = Record(Arg)]
  /\ UNCHANGED <<host, checkout, sdk, native, device, probe, artifacts, report, trace,
                 calm, hand, bounds>>

(* Mutant: the source of the evidence is not compared.                     *)
EvidenceStateOfAnySource(kind) ==
  IF evidence[kind] = None THEN "UNPROVEN"
  ELSE IF evidence[kind] = Torn THEN "FAIL" ELSE "PASS"

(* evidence_state of release_readiness_report                              *)
EvidenceState(kind) ==
  LET e == evidence[kind] IN
  CASE e = None -> "UNPROVEN"
    [] e = Torn -> "FAIL"
    [] OTHER -> IF e.canonical # CanonicalIdentity THEN "STALE"
                ELSE IF lock = None \/ e.lock # lock THEN "STALE"
                ELSE IF e.sdk \notin Archives THEN "FAIL"
                ELSE "PASS"

Proved(kinds) == \A k \in kinds : EvidenceState(k) = "PASS"
CompileKinds == {"android-compile", "ios-compile"}
StoreKinds == {"android-release", "ios-release"}

DeviceState ==
  IF device = None THEN "UNPROVEN"
  ELSE IF device = <<CanonicalIdentity, lock>> THEN "PASS" ELSE "FAIL"

Readiness ==
  [overall |-> IF Proved(CompileKinds) THEN "READY_FOR_DEVICE"
               ELSE IF lock # None THEN "READY_FOR_NATIVE_COMPILE" ELSE "PRE_NATIVE",
   device |-> DeviceState,
   store |-> Proved(StoreKinds)]

(* The report goes into the directory the evidence is in, and makes none.  *)
EvidenceDirectory == device # None \/ \E k \in Kinds : evidence[k] # None

Report ==
  /\ At("report")
  /\ IF EvidenceDirectory THEN Goes /\ report' = Readiness
                          ELSE Stops /\ UNCHANGED report
  /\ UNCHANGED <<host, checkout, sdk, native, device, probe, artifacts, evidence, trace,
                 calm, hand, bounds>>

--------------------------------------------------------------------------------
(* install_pinned_flutter_ci                                               *)

(* Of the manifest one entry may fit, or none, or several.                 *)
Manifest ==
  /\ At("manifest")
  /\ \/ \E release \in [commit : {"pinned", "other"}, dart : {"pinned", "other"}, sum : Archives] :
          IF ReleaseAccepted(release, host, FALSE)
          THEN /\ todo' = [n \in 1 .. 3 |-> <<<<"sdkRemove", "sdkFetch", "sdkMove">>[n], release.sum>>]
               /\ UNCHANGED outcome
          ELSE Stops
     \/ Stops
  /\ UNCHANGED <<host, checkout, sdk, native, device, probe, proof, trace, calm,
                 hand, bounds>>

(* The old SDK goes before the new one is there.                           *)
InstallStep ==
  /\ \/ At("sdkRemove") /\ sdk' = "none" /\ Goes
     \/ /\ At("sdkFetch") /\ UNCHANGED sdk
        /\ \E archive \in Archives \union {"torn"} :
             IF ArchiveAccepted(Arg, archive) THEN Goes ELSE Stops
     \/ At("sdkMove") /\ sdk' = Arg /\ Goes
  /\ UNCHANGED <<host, checkout, native, device, probe, proof, trace, calm, hand, bounds>>

--------------------------------------------------------------------------------
(* Kills, and what the developer does meanwhile                            *)

KilledPatch(tool) ==
  LET f == Head(todo)[2] IN
  IF Reaches(tool, f, shell) /\ ~ Chokes(tool, f, shell)
  THEN [shell EXCEPT ![f] = Emptied] ELSE shell

(* The file under way is left empty, a directory partly copied or removed, *)
(* an evidence file cut short, the probe of reference_v42 in docs/.        *)
KillEffect ==
  \/ /\ \E tool \in Tools \union {"signing"} :
          /\ At(tool) /\ Arg # "verify"
          /\ shell' = KilledPatch(tool)
     /\ UNCHANGED <<sdk, dirs, probe, evidence>>
  \/ /\ At("remove")
     /\ \E kept \in PartialCopies :
          shell' = [f \in Files |-> IF f \in kept THEN shell[f] ELSE Absent]
     /\ UNCHANGED <<sdk, dirs, probe, evidence>>
  \/ /\ At("copy")
     /\ \E done \in PartialCopies :
          shell' = [f \in Files |-> IF f \in FilesOf(Arg) \intersect done
                                    THEN Template[f] ELSE shell[f]]
     /\ dirs' = dirs \union {Arg}
     /\ UNCHANGED <<sdk, probe, evidence>>
  \/ /\ At("capture") /\ evidence' = [evidence EXCEPT ![Arg] = Torn]
     /\ UNCHANGED <<sdk, shell, dirs, probe>>
  \/ At("audits") /\ probe' = TRUE /\ UNCHANGED <<sdk, shell, dirs, evidence>>
  \/ At("sdkMove") /\ sdk' = "partial" /\ UNCHANGED <<shell, dirs, probe, evidence>>
  \/ UNCHANGED <<sdk, shell, dirs, probe, evidence>>

Kill ==
  /\ ~ Idle /\ kills < MaxKills
  /\ kills' = kills + 1
  /\ KillEffect
  /\ todo' = <<>> /\ outcome' = "killed" /\ calm' = FALSE
  /\ UNCHANGED <<host, checkout, key, device, artifacts, report, trace, hand,
                 scripts, shellEdits>>

(* The steps that read what the developer changes; a change made while a   *)
(* tool patches a shell commutes with it.                                  *)
ReadingSteps == {"audits", "pubGet", "tests", "signing", "build", "capture", "report"}
MayChange == Idle \/ \E op \in ReadingSteps : At(op)

Disturbs ==
  /\ MayChange
  /\ calm' = (calm /\ Idle)
  /\ UNCHANGED <<host, sdk, artifacts, todo, outcome, leftover, scripts, kills>>

Moves ==
  /\ Disturbs
  /\ moved' = IF Idle THEN moved ELSE Paths
  /\ UNCHANGED <<hand, shellEdits>>

Edit ==
  /\ src < MaxEdits
  /\ src' = src + 1
  /\ Moves
  /\ UNCHANGED <<head, lock, lockHead, native, device, probe, evidence, report>>

Resolve ==
  /\ lock \notin {None, src}
  /\ lock' = src
  /\ Moves
  /\ UNCHANGED <<src, head, lockHead, native, device, probe, evidence, report>>

Commit ==
  /\ src # head \/ lock # lockHead
  /\ head' = src /\ lockHead' = lock
  /\ Moves
  /\ UNCHANGED <<src, lock, native, device, probe, evidence, report>>

(* A file is put back to what flutter create makes.                        *)
EditShell ==
  /\ shellEdits < MaxShellEdits
  /\ shellEdits' = shellEdits + 1
  /\ \E f \in EditedFiles :
       /\ shell[f] \notin {Absent, Template[f]}
       /\ shell' = [shell EXCEPT ![f] = Template[f]]
  /\ touched' = TRUE /\ rewritten' = (rewritten \/ ~ Idle)
  /\ Disturbs
  /\ UNCHANGED <<checkout, dirs, key, device, probe, evidence, report, moved>>

PutKey ==
  /\ "android" \in dirs /\ key = "none"
  /\ key' \in {"usable", "wrongAlias"}
  /\ Disturbs
  /\ UNCHANGED <<checkout, shell, dirs, device, probe, evidence, report, moved, hand,
                 shellEdits>>

(* Between scripts: the keys are taken away, the devices are validated,    *)
(* the probe is deleted, or flutter clean deletes build/.                  *)
TidyUp ==
  /\ Idle
  /\ \/ key # "none" /\ key' = "none" /\ UNCHANGED <<device, probe, artifacts, evidence, report>>
     \/ /\ Proved(CompileKinds) /\ device' = <<CanonicalIdentity, lock>> /\ device' # device
        /\ UNCHANGED <<key, probe, artifacts, evidence, report>>
     \/ probe /\ probe' = FALSE /\ UNCHANGED <<key, device, artifacts, evidence, report>>
     \/ /\ EvidenceDirectory
        /\ device' = None /\ report' = None
        /\ artifacts' = [p \in Paths |-> None]
        /\ evidence' = [k \in Kinds |-> None]
        /\ UNCHANGED <<key, probe>>
  /\ UNCHANGED <<host, checkout, sdk, shell, dirs, todo, outcome, trace, calm, hand, bounds>>

--------------------------------------------------------------------------------
Init ==
  /\ host \in {"linux", "macos"}
  /\ src = 0 /\ head = 0
  /\ lock \in {None, 0} /\ lockHead = lock
  /\ sdk \in {"older", "pinned"}
  /\ shell = NoFiles /\ dirs = {} /\ key = "none"
  /\ device = None /\ probe = FALSE
  /\ todo = <<>> /\ outcome = "none"
  /\ artifacts = [p \in Paths |-> None]
  /\ evidence = [k \in Kinds |-> None]
  /\ report = None
  /\ moved = {} /\ leftover = FALSE /\ calm = FALSE /\ touched = FALSE /\ rewritten = FALSE
  /\ scripts = 0 /\ shellEdits = 0 /\ kills = 0

Begin ==
  \/ StartBootstrap \/ StartSourceCheck \/ StartInstaller \/ StartConfigureSigning
  \/ \E mode \in Modes : StartCompileGate(mode) \/ StartReleaseGate(mode)

Step ==
  \/ Preflight \/ DeleteShells \/ CopyShell \/ PatchShell \/ Audits \/ PubGet \/ Tests \/ Signing
  \/ Build \/ IosContractCheck \/ Capture \/ Report \/ Manifest \/ InstallStep

Developer == Edit \/ Resolve \/ Commit \/ EditShell \/ PutKey \/ TidyUp

Next == Begin \/ Step \/ Kill \/ Developer

Spec == Init /\ [][Next]_vars

--------------------------------------------------------------------------------
(* Properties                                                              *)

Recorded(k) == evidence[k] \notin {None, Torn}

(* The parts of the state have their types, and however often the tools    *)
(* run over a shell, no text is in a file twice.                           *)
TypeOK ==
  /\ host \in {"linux", "macos"}
  /\ {src, head} \subseteq 0 .. MaxEdits
  /\ {lock, lockHead} \subseteq 0 .. MaxEdits \union {None}
  /\ sdk \in Archives \union {"none", "partial", "older"}
  /\ dirs \subseteq {"android", "ios"}
  /\ key \in {"none", "usable", "wrongAlias"}
  /\ {probe, leftover, calm, touched, rewritten} \subseteq BOOLEAN /\ moved \subseteq Paths
  /\ outcome \in {"none", "running", "passed", "failed", "killed"}
  /\ outcome = "running" <=> ~ Idle
  /\ \A f \in Files : \A m \in DOMAIN shell[f] : Copies(shell[f], m) = 1

(* Evidence names the source, the lock and the Flutter the artifact in     *)
(* build/ was made of (native_compile_gate, capture_native_evidence): no   *)
(* gate records an artifact that an earlier build left behind.  Excepted   *)
(* are a source that changes between the build and the capture, and the    *)
(* .ipa of a build that left another one to be found: the store gate does  *)
(* not notice.  On Linux the Flutter is the one whose checksum is pinned.  *)
EvidenceNamesWhatWasBuilt ==
  \A k \in Kinds :
    LET e == evidence[k] IN
    Recorded(k) =>
      /\ e.moved \/ e.leftover \/ <<e.artifact.canonical, e.artifact.lock, e.artifact.sdk>>
                                     = <<e.canonical, e.lock, e.sdk>>
      /\ e.sdk \in Archives /\ (host = "linux" => e.sdk = "pinned")

(* An artifact with evidence carries all that the hardening puts into the  *)
(* shell, the device lock included, and the name, splash and icons of the  *)
(* app: a bootstrap that was killed half way reaches no evidence, nor does *)
(* the store gate, which never runs the v49 patch, lose the lock.  A store *)
(* artifact is signed with the release key.  A shell file the developer    *)
(* rewrote may lose the icons or the splash, the rest only when he did it  *)
(* under the gate, between its checks and its build.                       *)
ShipsHardened ==
  \A k \in Kinds :
    LET a == evidence[k].artifact IN
    Recorded(k) =>
      /\ a.rewritten \/ (a.hardened /\ (k \in StoreKinds => a.signed))
      /\ a.touched \/ a.branded

(* A bootstrap of a clean checkout with the pinned Flutter, and a compile  *)
(* gate on the shells it made, that nobody disturbs, fail only where pub   *)
(* get, analyze, the tests or the build do: whatever an earlier bootstrap, *)
(* killed at any step, left in android/ and ios/.                          *)
CalmRunsPass == calm => outcome # "failed"

(* The report says READY_FOR_DEVICE only when both platforms were built of *)
(* the source and the lock that are there now, and the verifier that CI    *)
(* runs on the two records finds no fault in them either.                  *)
ReadyIsEarned ==
  [][At("report") /\ outcome' = "passed" /\ report'.overall = "READY_FOR_DEVICE" =>
       /\ SameBuild(evidence["android-compile"], evidence["ios-compile"])
       /\ \A k \in CompileKinds :
            ~ evidence[k].moved => /\ evidence[k].artifact.canonical = CanonicalIdentity
                                   /\ evidence[k].artifact.lock = lock]_vars
================================================================================
