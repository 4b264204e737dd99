------------------------------ MODULE Instance ------------------------------
(***************************************************************************)
(* A server instance on disk and the bootstrap commands that build it:     *)
(* rom-bootstrap setup, prepare, generate, install-local and run.  Every   *)
(* file is replaced the same way (a synced temporary file, then the old    *)
(* file is removed and the new one renamed into place), so a kill between  *)
(* the last two leaves the file missing.  Commands run one at a time; a    *)
(* kill, a failed download or build, a file lost by the user and a newly   *)
(* published official artifact are the faults.                             *)
(*                                                                         *)
(* A digest stands for the content it was computed from; the pack of an    *)
(* artifact is known by its source and by the packet report it used.       *)
(***************************************************************************)
EXTENDS Naturals

CONSTANTS
  Artifacts,    \* the official server artifacts that may be published
  Builtin,      \* the one whose SHA-1 the built-in profile records
  Reports,      \* packet reports, the built-in one included
  CoreReport,   \* the built-in one
  Conforming,   \* those that have every core packet at its built-in ID
  Missing,      \* a file that is not there, or an absent record
  MaxFaults     \* bound on the faults of a behaviour

ASSUME InstanceAssumption ==
  /\ Builtin \in Artifacts
  /\ CoreReport \in Conforming
  /\ Conforming \subseteq Reports
  /\ MaxFaults \in Nat

VARIABLES
  official,     \* the artifact that the official metadata names
  files,        \* what each file of the instance holds
  cmd,          \* the command that runs, or the last one that ended
  faults        \* how many faults have happened

vars == <<official, files, cmd, faults>>

Names == {"jar", "eula", "config", "manifest", "pack", "binary", "report"}

Packs == [source : Artifacts, report : Reports]

\* BootstrapManifest: its stage says whether pack is there.
Manifests == [source : Artifacts, pack : Packs \cup {Missing}]

\* What a file may hold.
Values(name) ==
  CASE name = "jar" -> Artifacts
    [] name = "eula" -> {"accepted"}
    [] name = "config" -> {"default", "edited"}
    [] name = "manifest" -> Manifests
    [] name = "pack" -> Packs
    [] name = "binary" -> {"server"}
    [] name = "report" -> Reports

\* Neither content nor a replacement of a file is the absence of it.
ASSUME MissingAssumption ==
  \A name \in Names :
    /\ Missing \notin Values(name)
    /\ \A value \in Values(name) : Missing # [name |-> name, value |-> value]

Kinds == {"setup", "prepare", "generate", "install", "run"}

----------------------------------------------------------------------------
(* What the checks of status, doctor, generate and run look at.            *)

Manifest == files["manifest"]

\* official_source_verified: the cached jar is the one the manifest records.
SourceVerified ==
  /\ Manifest # Missing
  /\ files["jar"] = Manifest.source

\* validate_against_builtin_profile: the recorded artifact and the core packets.
ProfileAccepts(source, report) == source = Builtin /\ report \in Conforming

\* verify_version_pack_record.
PackVerified ==
  /\ Manifest # Missing
  /\ Manifest.pack # Missing
  /\ files["pack"] = Manifest.pack
  /\ files["pack"].source = Manifest.source
  /\ ProfileAccepts(files["pack"].source, files["pack"].report)

\* doctor_instance, and the checks of run_instance.
Ready ==
  /\ files["eula"] # Missing
  /\ SourceVerified
  /\ PackVerified
  /\ files["binary"] # Missing
  /\ files["config"] # Missing

\* resolve_packet_catalog: the report the user names, else the one found in
\* the instance, else the built-in one.
PacketCatalog(requested) ==
  IF requested # Missing THEN requested
  ELSE IF files["report"] # Missing THEN files["report"] ELSE CoreReport

\* What extraction makes of the game jar in an artifact, and of a report.
Extract(source, report) == [source |-> source, report |-> report]

----------------------------------------------------------------------------
Idle == [kind |-> "run", force |-> FALSE, report |-> Missing, at |-> "idle",
         existing |-> Missing, source |-> Missing, write |-> Missing,
         undisturbed |-> FALSE, steady |-> FALSE]

\* at names the next step; write is the replacement of a file that is underway.
\* undisturbed and steady are history: no fault since a start with good inputs,
\* and a start that had nothing to do.
Init ==
  /\ official \in Artifacts
  /\ files = [f \in Names |-> Missing]
  /\ cmd = Idle
  /\ faults = 0

HasEnded == cmd.at \in {"idle", "done", "failed"} /\ cmd.write = Missing

Entry == [setup |-> "existing", prepare |-> "resolve", generate |-> "check",
          install |-> "install", run |-> "run"]

\* A command is given; force stands for --force-download and --force-generate.
Start(kind, force, report) ==
  /\ HasEnded
  /\ cmd' = [Idle EXCEPT !.kind = kind, !.force = force, !.report = report,
                         !.at = Entry[kind],
                         !.undisturbed = /\ official = Builtin
                                         /\ PacketCatalog(report) \in Conforming,
                         !.steady = /\ kind = "setup"
                                    /\ ~force
                                    /\ Ready
                                    /\ official = Builtin]
  /\ UNCHANGED <<official, files, faults>>

Goto(at) ==
  /\ cmd' = [cmd EXCEPT !.at = at]
  /\ UNCHANGED <<official, files, faults>>

At(at) == cmd.at = at /\ cmd.write = Missing

\* The temporary file is complete and synced; what is left is to put it in place.
Replace(name, value, at) ==
  /\ cmd' = [cmd EXCEPT !.at = at, !.write = [name |-> name, value |-> value]]
  /\ UNCHANGED <<official, files, faults>>

RemoveOld ==
  /\ cmd.write # Missing
  /\ files[cmd.write.name] # Missing
  /\ files' = [files EXCEPT ![cmd.write.name] = Missing]
  /\ UNCHANGED <<official, cmd, faults>>

RenameNew ==
  /\ cmd.write # Missing
  /\ files[cmd.write.name] = Missing
  /\ files' = [files EXCEPT ![cmd.write.name] = cmd.write.value]
  /\ cmd' = [cmd EXCEPT !.write = Missing]
  /\ UNCHANGED <<official, faults>>

\* The step after the last one of prepare and of generate.
After(kind, at) == IF cmd.kind = kind THEN "done" ELSE at

----------------------------------------------------------------------------
(* setup, prepare.                                                         *)

\* Mutant of ReadExistingManifest: the manifest is read too late, prepare has reset it.
ForgetExistingManifest ==
  /\ At("existing")
  /\ cmd' = [cmd EXCEPT !.existing = Missing, !.at = "resolve"]
  /\ UNCHANGED <<official, files, faults>>

\* setup_instance keeps the manifest of the last setup, for its pack record.
ReadExistingManifest ==
  /\ At("existing")
  /\ cmd' = [cmd EXCEPT !.existing = Manifest, !.at = "resolve"]
  /\ UNCHANGED <<official, files, faults>>

ResolveOfficialServerArtifact ==
  /\ At("resolve")
  /\ cmd' = [cmd EXCEPT !.source = official, !.at = "jar"]
  /\ UNCHANGED <<official, files, faults>>

\* Mutant of ReuseCachedJar: a cached jar is not compared with the metadata.
ReuseAnyJar ==
  /\ At("jar")
  /\ ~cmd.force
  /\ files["jar"] # Missing
  /\ Goto("eula")

ReuseCachedJar ==
  /\ At("jar")
  /\ ~cmd.force
  /\ files["jar"] = cmd.source
  /\ Goto("eula")

\* The download is verified against the metadata before it replaces the jar.
DownloadVerifiedArtifact ==
  /\ At("jar")
  /\ cmd.force \/ files["jar"] # cmd.source
  /\ Replace("jar", cmd.source, "eula")

WriteEula == At("eula") /\ Replace("eula", "accepted", "config")

\* write_if_missing: the user's configuration stays.
WriteConfig ==
  /\ At("config")
  /\ \/ files["config"] = Missing /\ Replace("config", "default", "manifest")
     \/ files["config"] # Missing /\ Goto("manifest")

\* The manifest of a prepared instance has no pack.
WriteManifest ==
  /\ At("manifest")
  /\ Replace("manifest", [source |-> cmd.source, pack |-> Missing],
             After("prepare", "restore"))

\* Mutant of CanRestore: a record is restored whatever the source.
CanRestoreAny == cmd.existing # Missing /\ cmd.existing.pack # Missing

\* manifests_share_source, over the manifest that prepare has just written.
CanRestore ==
  /\ cmd.existing # Missing
  /\ cmd.existing.pack # Missing
  /\ cmd.existing.source = Manifest.source

RestoreCompatiblePackRecord ==
  /\ At("restore")
  /\ \/ /\ CanRestore
        /\ Replace("manifest", [Manifest EXCEPT !.pack = cmd.existing.pack], "check")
     \/ ~CanRestore /\ Goto("check")

----------------------------------------------------------------------------
(* generate.                                                               *)

\* The manifest is there, the EULA accepted and the jar verified, or it fails.
CheckPrepared ==
  /\ At("check")
  /\ Goto(IF files["eula"] # Missing /\ SourceVerified THEN "reuse" ELSE "failed")

ReusePack ==
  /\ At("reuse")
  /\ ~cmd.force
  /\ PackVerified
  /\ Goto(After("generate", "install"))

\* Extraction, validation against the built-in profile and write_rompack.
GeneratePack ==
  /\ At("reuse")
  /\ cmd.force \/ ~PackVerified
  /\ ProfileAccepts(Manifest.source, PacketCatalog(cmd.report))
  /\ Replace("pack", Extract(Manifest.source, PacketCatalog(cmd.report)), "record")

RejectExtraction ==
  /\ At("reuse")
  /\ cmd.force \/ ~PackVerified
  /\ ~ProfileAccepts(Manifest.source, PacketCatalog(cmd.report))
  /\ Goto("failed")

\* The record is of the pack that was written; no other command runs.
RecordPack ==
  /\ At("record")
  /\ Replace("manifest", [Manifest EXCEPT !.pack = files["pack"]],
             After("generate", "install"))

----------------------------------------------------------------------------
(* install-local, doctor, run.                                             *)

InstallLocalServer ==
  /\ At("install")
  /\ IF files["eula"] # Missing /\ SourceVerified
       THEN Replace("binary", "server", After("install", "doctor"))
       ELSE Goto("failed")

DoctorInstance == At("doctor") /\ Goto(IF Ready THEN "done" ELSE "failed")

\* run_instance: the server is started with the configuration and the pack.
RunInstance == At("run") /\ Goto(IF Ready THEN "done" ELSE "failed")

Step ==
  \/ RemoveOld \/ RenameNew
  \/ ReadExistingManifest \/ ResolveOfficialServerArtifact
  \/ ReuseCachedJar \/ DownloadVerifiedArtifact
  \/ WriteEula \/ WriteConfig \/ WriteManifest \/ RestoreCompatiblePackRecord
  \/ CheckPrepared \/ ReusePack \/ GeneratePack \/ RejectExtraction \/ RecordPack
  \/ InstallLocalServer \/ DoctorInstance \/ RunInstance

----------------------------------------------------------------------------
(* Faults, and the user.                                                   *)

Fault ==
  /\ faults < MaxFaults
  /\ faults' = faults + 1

Disturbed(at) ==
  cmd' = [cmd EXCEPT !.at = at, !.write = Missing, !.undisturbed = FALSE, !.steady = FALSE]

\* A kill; what is left of a temporary file is removed by the next write.
Kill ==
  /\ Fault
  /\ ~HasEnded
  /\ Disturbed("failed")
  /\ UNCHANGED <<official, files>>

\* Metadata, a download or the build of the server fails: no file is replaced.
ExternalFails ==
  /\ Fault
  /\ At("resolve") \/ At("install") \/ (At("jar") /\ (cmd.force \/ files["jar"] # cmd.source))
  /\ Disturbed("failed")
  /\ UNCHANGED <<official, files>>

\* The user loses or damages a file: a damaged one is found out, as a missing one.
Lose(name) ==
  /\ Fault
  /\ HasEnded
  /\ files[name] # Missing
  /\ files' = [files EXCEPT ![name] = Missing]
  /\ Disturbed(cmd.at)
  /\ UNCHANGED official

Publish(artifact) ==
  /\ Fault
  /\ official # artifact
  /\ official' = artifact
  /\ Disturbed(cmd.at)
  /\ cmd.write = Missing
  /\ UNCHANGED files

EditConfig ==
  /\ files["config"] = "default"
  /\ HasEnded
  /\ files' = [files EXCEPT !["config"] = "edited"]
  /\ UNCHANGED <<official, cmd, faults>>

\* The user generates a report into one of the standard places.
PlaceReport(report) ==
  /\ HasEnded
  /\ files["report"] = Missing
  /\ files' = [files EXCEPT !["report"] = report]
  /\ UNCHANGED <<official, cmd, faults>>

Next ==
  \/ \E k \in Kinds, f \in BOOLEAN, r \in Reports \cup {Missing} : Start(k, f, r)
  \/ Step
  \/ Kill \/ ExternalFails
  \/ \E f \in Names : Lose(f)
  \/ \E a \in Artifacts : Publish(a)
  \/ EditConfig
  \/ \E r \in Reports : PlaceReport(r)

Spec == Init /\ [][Next]_vars

----------------------------------------------------------------------------
\* Every file holds something of its kind, and a finished command writes nothing.
InstanceTypeOK ==
  /\ official \in Artifacts
  /\ \A f \in Names : files[f] \in Values(f) \cup {Missing}
  /\ cmd.kind \in Kinds
  /\ cmd.write # Missing => cmd.write.value \in Values(cmd.write.name)
  /\ faults \in 0 .. MaxFaults

\* A manifest never vouches for a pack that was extracted from another
\* artifact than the one it records, whatever was killed in between.
RecordMatchesSource ==
  Manifest # Missing /\ Manifest.pack # Missing =>
    /\ Manifest.pack.source = Manifest.source
    /\ ProfileAccepts(Manifest.pack.source, Manifest.pack.report)

\* A setup that nothing disturbs ends with an instance that is ready to run,
\* whatever earlier commands, kills and losses left on disk.
SetupRepairs ==
  cmd.kind = "setup" /\ cmd.undisturbed =>
    /\ cmd.at # "failed"
    /\ cmd.at = "done" => Ready

\* Setup is idempotent: on a ready instance, without force and with the same
\* official artifact, it replaces neither the jar nor the pack (README.md:74).
SetupIsIdempotent ==
  [][cmd.steady /\ ~HasEnded =>
       /\ files'["jar"] = files["jar"]
       /\ files'["pack"] = files["pack"]]_files
===========================================================================
