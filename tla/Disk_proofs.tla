--------------------------- MODULE Disk_proofs ---------------------------
(***************************************************************************)
(* Proofs about what is on disk when the server starts: the artifacts of   *)
(* the installer, the profile pack with the numbers of its packets, and    *)
(* the world: its regions, its snapshot, and the packets made of it.       *)
(***************************************************************************)
EXTENDS Instance, WorldData, VersionPack, FiniteSetTheorems, WellFoundedInduction, TLAPS

(***************************************************************************)
(* The bootstrap installer, for any manifests and artifacts: what the      *)
(* records say is what the files hold, a setup that succeeds has repaired  *)
(* what was damaged, and one of an instance that is ready changes nothing. *)
(***************************************************************************)

\* The files as they will be once the replacement underway is in place.
Settled ==
  IF cmd.write = Missing THEN files
  ELSE [files EXCEPT ![cmd.write.name] = cmd.write.value]

Files(S) ==
  /\ S = [f \in Names |-> S[f]]
  /\ \A f \in Names : S[f] \in Values(f) \cup {Missing}

\* The steps of a setup, from each of them on.
FromDoctor == {"doctor"}
FromInstall == {"install"} \cup FromDoctor
FromCheck == {"check", "reuse", "record"} \cup FromInstall
FromRestore == {"restore"} \cup FromCheck
FromManifest == {"manifest"} \cup FromRestore
FromConfig == {"config"} \cup FromManifest
FromEula == {"eula"} \cup FromConfig
FromJar == {"jar"} \cup FromEula
FromResolve == {"resolve"} \cup FromJar
SetupSteps == {"existing"} \cup FromResolve
Steps == {"run"} \cup SetupSteps
Ended == {"idle", "done", "failed"}

Writes(w) ==
  /\ w = [name |-> w.name, value |-> w.value]
  /\ w.name \in Names /\ w.value \in Values(w.name)

CommandOK(c) ==
  /\ c = [kind |-> c.kind, force |-> c.force, report |-> c.report, at |-> c.at,
          existing |-> c.existing, source |-> c.source, write |-> c.write,
          undisturbed |-> c.undisturbed, steady |-> c.steady]
  /\ c.kind \in Kinds /\ c.force \in BOOLEAN /\ c.report \in Reports \cup {Missing}
  /\ c.at \in Steps \cup Ended
  /\ c.existing \in Manifests \cup {Missing} /\ c.source \in Artifacts \cup {Missing}
  /\ c.undisturbed \in BOOLEAN /\ c.steady \in BOOLEAN
  /\ c.write # Missing => Writes(c.write) /\ c.at \notin {"idle", "failed"}

\* A manifest that does not vouch for another artifact's pack.
Vouches(m) ==
  m # Missing /\ m.pack # Missing =>
    m.pack.source = m.source /\ ProfileAccepts(m.pack.source, m.pack.report)

OnDisk ==
  /\ official \in Artifacts /\ faults \in 0 .. MaxFaults
  /\ Files(files) /\ CommandOK(cmd)
  /\ Vouches(files["manifest"]) /\ Vouches(cmd.existing)

\* SourceVerified, PackVerified, Ready and PacketCatalog of the files S.
SourceIn(S) == S["manifest"] # Missing /\ S["jar"] = S["manifest"].source
AcceptedIn(S) ==
  S["pack"] # Missing /\ ProfileAccepts(S["pack"].source, S["pack"].report)
VerifiedIn(S) ==
  /\ S["manifest"] # Missing /\ S["manifest"].pack = S["pack"]
  /\ AcceptedIn(S) /\ S["pack"].source = S["manifest"].source
ReadyIn(S) ==
  /\ S["eula"] # Missing /\ S["binary"] # Missing /\ S["config"] # Missing
  /\ SourceIn(S) /\ VerifiedIn(S)
CatalogIn(S, requested) ==
  IF requested # Missing THEN requested
  ELSE IF S["report"] # Missing THEN S["report"] ELSE CoreReport

\* What a step of any command relies on.
Fits(c, S) ==
  /\ c.at \in {"jar", "eula", "config", "manifest"} => c.source \in Artifacts
  /\ c.at \in {"restore", "reuse", "record"} => S["manifest"] # Missing
  /\ c.at = "record" => AcceptedIn(S) /\ S["pack"].source = S["manifest"].source

\* What an undisturbed setup has repaired so far.
Repaired(c, S, o) ==
  c.kind = "setup" /\ c.undisturbed =>
    /\ c.at \in SetupSteps \cup {"done"} /\ o = Builtin
    /\ c.at = "done" => c.write = Missing /\ ReadyIn(S)
    /\ c.at # "done" => CatalogIn(S, c.report) \in Conforming
    /\ c.at \in FromJar => c.source = Builtin
    /\ c.at \in FromEula => S["jar"] = Builtin
    /\ c.at \in FromConfig => S["eula"] # Missing
    /\ c.at \in FromManifest => S["config"] # Missing
    /\ c.at \in FromRestore => S["manifest"] # Missing /\ S["manifest"].source = Builtin
    /\ c.at \in FromInstall => VerifiedIn(S)
    /\ c.at \in FromDoctor => S["binary"] # Missing

\* A setup that has nothing to do has the pack and knows the record of it.
Kept(c, S, o) ==
  c.steady =>
    /\ c.kind = "setup" /\ c.at \in SetupSteps \cup Ended
    /\ c.at = "done" => c.write = Missing
    /\ c.at \in SetupSteps =>
         /\ ~c.force /\ o = Builtin /\ c.at # "record"
         /\ S["jar"] = Builtin /\ AcceptedIn(S) /\ S["pack"].source = Builtin
         /\ c.write # Missing => c.write.name \notin {"jar", "pack"}
         /\ c.at = "existing" => VerifiedIn(S)
         /\ c.at \in FromResolve =>
              c.existing # Missing /\ c.existing.source = Builtin /\ c.existing.pack = S["pack"]
         /\ c.at \in FromJar => c.source = Builtin
         /\ c.at \in FromRestore => S["manifest"] # Missing /\ S["manifest"].source = Builtin
         /\ c.at \in FromCheck => S["manifest"].pack = S["pack"]

Sound(c, S, o) == Vouches(S["manifest"]) /\ Fits(c, S) /\ Repaired(c, S, o) /\ Kept(c, S, o)

InstanceInvariant == OnDisk /\ Sound(cmd, Settled, official)

----------------------------------------------------------------------------
LEMMA ValuesOf ==
  /\ Values("jar") = Artifacts /\ Values("eula") = {"accepted"}
  /\ Values("config") = {"default", "edited"} /\ Values("manifest") = Manifests
  /\ Values("pack") = Packs /\ Values("binary") = {"server"} /\ Values("report") = Reports
  BY DEF Values

\* What the files, when no replacement is underway, are to the checks.
LEMMA ChecksOf ==
  ASSUME OnDisk
  PROVE  /\ SourceVerified <=> SourceIn(files)
         /\ PackVerified <=> VerifiedIn(files)
         /\ Ready <=> ReadyIn(files)
         /\ \A r : PacketCatalog(r) = CatalogIn(files, r)
<1>1. SourceVerified <=> SourceIn(files)
  BY DEF SourceVerified, SourceIn, Manifest
<1>2. PackVerified <=> VerifiedIn(files)
  BY DEF PackVerified, VerifiedIn, AcceptedIn, Manifest
<1>3. Ready <=> ReadyIn(files)
  BY <1>1, <1>2 DEF Ready, ReadyIn
<1> QED BY <1>1, <1>2, <1>3 DEF PacketCatalog, CatalogIn

\* What the files hold, if they hold something.
LEMMA FilesHold ==
  ASSUME OnDisk
  PROVE  /\ files["jar"] \in Artifacts \cup {Missing}
         /\ files["manifest"] \in Manifests \cup {Missing}
         /\ files["pack"] \in Packs \cup {Missing}
         /\ Missing \notin Artifacts /\ Missing \notin Manifests /\ Missing \notin Packs
         /\ Missing # "accepted" /\ Missing # "default" /\ Missing # "server"
<1>1. \A f \in Names : files[f] \in Values(f) \cup {Missing} /\ Missing \notin Values(f)
  BY MissingAssumption DEF OnDisk, Files
<1>2. "jar" \in Names /\ "manifest" \in Names /\ "pack" \in Names
      /\ "eula" \in Names /\ "config" \in Names /\ "binary" \in Names
  BY DEF Names
<1> QED BY <1>1, <1>2, ValuesOf

\* A step of a sound command that goes on without a file to replace, and one
\* that replaces file n by v.
Moves(c, d, x, y) ==
  /\ Sound(c, files, official) /\ UNCHANGED official /\ OnDisk'
  /\ d.kind = c.kind /\ d.force = c.force /\ d.report = c.report
  /\ c.at = x /\ d.at = y /\ d.existing = c.existing /\ d.source = c.source
  /\ c.write = Missing /\ d.undisturbed = c.undisturbed /\ d.steady = c.steady

Goes(x, y) ==
  Moves(cmd, cmd', x, y) /\ cmd'.write = Missing /\ Settled' = files

Replaces(x, n, v, y) ==
  /\ Moves(cmd, cmd', x, y) /\ cmd'.write # Missing /\ cmd'.write.name = n
  /\ Settled'[n] = v /\ \A f \in Names \ {n} : Settled'[f] = files[f]

USE DEF Steps, SetupSteps, FromResolve, FromJar, FromEula, FromConfig, FromManifest,
        FromRestore, FromCheck, FromInstall, FromDoctor, Ended

LEMMA Going ==
  ASSUME InstanceInvariant, NEW x, At(x), NEW y \in Steps \cup Ended, Goto(y)
  PROVE  Goes(x, y)
<1>1. /\ cmd' = [cmd EXCEPT !.at = y] /\ UNCHANGED <<official, files, faults>>
      /\ cmd.at = x /\ cmd.write = Missing
  BY DEF Goto, At
<1>2. CommandOK(cmd) /\ OnDisk /\ Sound(cmd, Settled, official)
  BY DEF OnDisk, InstanceInvariant
<1>3. cmd' = [kind |-> cmd.kind, force |-> cmd.force, report |-> cmd.report, at |-> y,
              existing |-> cmd.existing, source |-> cmd.source, write |-> Missing,
              undisturbed |-> cmd.undisturbed, steady |-> cmd.steady]
  BY <1>1, <1>2 DEF CommandOK
<1>4. CommandOK(cmd')
  BY <1>2, <1>3 DEF CommandOK
<1>5. OnDisk'
  BY <1>1, <1>2, <1>3, <1>4 DEF OnDisk
<1>6. Settled = files /\ Settled' = files
  BY <1>1, <1>3 DEF Settled
<1> QED BY <1>1, <1>2, <1>3, <1>5, <1>6 DEF Goes, Moves

LEMMA Replacing ==
  ASSUME InstanceInvariant, NEW x, At(x), NEW y \in Steps \cup {"done"},
         NEW n \in Names, NEW v \in Values(n), Replace(n, v, y)
  PROVE  Replaces(x, n, v, y) /\ v # Missing
<1>1. PICK w : w = [name |-> n, value |-> v]
  OBVIOUS
<1>2. /\ cmd' = [cmd EXCEPT !.at = y, !.write = w] /\ UNCHANGED <<official, files, faults>>
      /\ cmd.at = x /\ cmd.write = Missing
  BY <1>1 DEF Replace, At
<1>3. CommandOK(cmd) /\ Files(files) /\ OnDisk /\ Sound(cmd, Settled, official)
  BY DEF OnDisk, InstanceInvariant
<1>4. cmd' = [kind |-> cmd.kind, force |-> cmd.force, report |-> cmd.report, at |-> y,
              existing |-> cmd.existing, source |-> cmd.source, write |-> w,
              undisturbed |-> cmd.undisturbed, steady |-> cmd.steady]
  BY <1>2, <1>3 DEF CommandOK
<1>5. w # Missing /\ w.name = n /\ w.value = v /\ Writes(w) /\ v # Missing
  BY <1>1, MissingAssumption DEF Writes
<1>6. CommandOK(cmd')
  BY <1>3, <1>4, <1>5 DEF CommandOK
<1>7. OnDisk'
  BY <1>2, <1>3, <1>4, <1>6 DEF OnDisk
<1>8. Settled = files /\ Settled' = [files EXCEPT ![n] = v]
  BY <1>2, <1>4, <1>5 DEF Settled
<1>9. Settled'[n] = v /\ \A f \in Names \ {n} : Settled'[f] = files[f]
  BY <1>3, <1>8 DEF Files
<1> QED BY <1>2, <1>3, <1>4, <1>5, <1>7, <1>8, <1>9 DEF Replaces, Moves

\* What is left to show of the two kinds of steps.
LEMMA Gone ==
  ASSUME NEW x, NEW y, Goes(x, y), Sound(cmd', files, official)
  PROVE  InstanceInvariant'
  BY DEF Goes, Moves, InstanceInvariant

LEMMA WasReplaced ==
  ASSUME NEW x, NEW n, NEW v, NEW y, Replaces(x, n, v, y), Sound(cmd', Settled', official)
  PROVE  InstanceInvariant'
  BY DEF Replaces, Moves, InstanceInvariant

LEMMA FileNames ==
  Names = {"jar", "eula", "config", "manifest", "pack", "binary", "report"}
  BY DEF Names

----------------------------------------------------------------------------
(* setup and prepare.                                                      *)

LEMMA ExistingRead ==
  ASSUME InstanceInvariant, ReadExistingManifest
  PROVE  InstanceInvariant'
<1>1. OnDisk /\ Sound(cmd, Settled, official)
  BY DEF InstanceInvariant
<1>2. PICK m : m = files["manifest"]
  OBVIOUS
<1>3. /\ cmd' = [cmd EXCEPT !.existing = m, !.at = "resolve"]
      /\ cmd.at = "existing" /\ cmd.write = Missing /\ UNCHANGED <<official, files, faults>>
  BY <1>2 DEF ReadExistingManifest, At, Manifest
<1>4. CommandOK(cmd)
  BY <1>1 DEF OnDisk
<1>5. cmd' = [kind |-> cmd.kind, force |-> cmd.force, report |-> cmd.report, at |-> "resolve",
              existing |-> m, source |-> cmd.source, write |-> Missing,
              undisturbed |-> cmd.undisturbed, steady |-> cmd.steady]
  BY <1>3, <1>4 DEF CommandOK
<1>6. CommandOK(cmd')
  <2>1. m \in Manifests \cup {Missing}
    BY <1>1, <1>2, FilesHold
  <2>2. "resolve" \in Steps
    OBVIOUS
  <2> QED BY <1>4, <1>5, <2>1, <2>2 DEF CommandOK
<1>7. OnDisk'
  BY <1>1, <1>2, <1>3, <1>5, <1>6 DEF OnDisk
<1>8. Settled = files /\ Settled' = files
  BY <1>3, <1>5 DEF Settled
<1>9. Sound(cmd, files, official) /\ Vouches(files["manifest"]) /\ Fits(cmd', files)
  BY <1>1, <1>5, <1>8 DEF Sound, Fits
<1>10. Repaired(cmd', files, official)
  BY <1>3, <1>5, <1>9 DEF Sound, Repaired
<1>11. Kept(cmd', files, official)
  BY <1>2, <1>3, <1>5, <1>9 DEF Sound, Kept, VerifiedIn, Ended
<1> QED BY <1>3, <1>7, <1>8, <1>9, <1>10, <1>11 DEF InstanceInvariant, Sound

LEMMA ArtifactResolved ==
  ASSUME InstanceInvariant, ResolveOfficialServerArtifact
  PROVE  InstanceInvariant'
<1>1. OnDisk /\ Sound(cmd, Settled, official)
  BY DEF InstanceInvariant
<1>2. /\ cmd' = [cmd EXCEPT !.source = official, !.at = "jar"]
      /\ cmd.at = "resolve" /\ cmd.write = Missing /\ UNCHANGED <<official, files, faults>>
  BY DEF ResolveOfficialServerArtifact, At
<1>3. CommandOK(cmd) /\ official \in Artifacts
  BY <1>1 DEF OnDisk
<1>4. cmd' = [kind |-> cmd.kind, force |-> cmd.force, report |-> cmd.report, at |-> "jar",
              existing |-> cmd.existing, source |-> official, write |-> Missing,
              undisturbed |-> cmd.undisturbed, steady |-> cmd.steady]
  BY <1>2, <1>3 DEF CommandOK
<1>5. CommandOK(cmd')
  <2>1. "jar" \in Steps
    OBVIOUS
  <2> QED BY <1>3, <1>4, <2>1 DEF CommandOK
<1>6. OnDisk'
  BY <1>1, <1>2, <1>4, <1>5 DEF OnDisk
<1>7. Settled = files /\ Settled' = files
  BY <1>2, <1>4 DEF Settled
<1>8. Sound(cmd, files, official) /\ Vouches(files["manifest"]) /\ Fits(cmd', files)
  BY <1>1, <1>3, <1>4, <1>7 DEF Sound, Fits
<1>9. Repaired(cmd', files, official)
  BY <1>2, <1>4, <1>8 DEF Sound, Repaired
<1>10. Kept(cmd', files, official)
  BY <1>2, <1>4, <1>8 DEF Sound, Kept, Ended
<1> QED BY <1>2, <1>6, <1>7, <1>8, <1>9, <1>10 DEF InstanceInvariant, Sound

LEMMA JarReused ==
  ASSUME InstanceInvariant, ReuseCachedJar
  PROVE  InstanceInvariant'
<1>1. Goes("jar", "eula") /\ files["jar"] = cmd.source
  BY Going DEF ReuseCachedJar
<1>2. Sound(cmd', files, official)
  BY <1>1 DEF Goes, Moves, Sound, Fits, Repaired, Kept
<1> QED BY <1>1, <1>2, Gone

LEMMA ArtifactDownloaded ==
  ASSUME InstanceInvariant, DownloadVerifiedArtifact
  PROVE  InstanceInvariant'
<1>1. At("jar") /\ (cmd.force \/ files["jar"] # cmd.source) /\ Replace("jar", cmd.source, "eula")
  BY DEF DownloadVerifiedArtifact
<1>2. cmd.source \in Values("jar")
  BY <1>1, ValuesOf DEF InstanceInvariant, Sound, Fits, At
<1>3. Replaces("jar", "jar", cmd.source, "eula")
  BY <1>1, <1>2, FileNames, Replacing
<1>4. Sound(cmd', Settled', official)
  BY <1>1, <1>3, FileNames
     DEF Replaces, Moves, Sound, Fits, Repaired, Kept, CatalogIn, AcceptedIn, VerifiedIn
<1> QED BY <1>3, <1>4, WasReplaced

LEMMA EulaWritten ==
  ASSUME InstanceInvariant, WriteEula
  PROVE  InstanceInvariant'
<1>1. Replaces("eula", "eula", "accepted", "config") /\ "accepted" # Missing
  BY FileNames, ValuesOf, Replacing DEF WriteEula
<1>2. Sound(cmd', Settled', official)
  BY <1>1, FileNames
     DEF Replaces, Moves, Sound, Fits, Repaired, Kept, CatalogIn, AcceptedIn, VerifiedIn
<1> QED BY <1>1, <1>2, WasReplaced

LEMMA ConfigWritten ==
  ASSUME InstanceInvariant, WriteConfig
  PROVE  InstanceInvariant'
<1>1. CASE files["config"] = Missing
  <2>1. Replaces("config", "config", "default", "manifest") /\ "default" # Missing
    BY <1>1, FileNames, ValuesOf, Replacing DEF WriteConfig
  <2>2. Sound(cmd', Settled', official)
    BY <2>1, FileNames
       DEF Replaces, Moves, Sound, Fits, Repaired, Kept, CatalogIn, AcceptedIn, VerifiedIn
  <2> QED BY <2>1, <2>2, WasReplaced
<1>2. CASE files["config"] # Missing
  <2>1. Goes("config", "manifest")
    BY <1>2, Going DEF WriteConfig
  <2>2. Sound(cmd', files, official)
    BY <1>2, <2>1 DEF Goes, Moves, Sound, Fits, Repaired, Kept
  <2> QED BY <2>1, <2>2, Gone
<1> QED BY <1>1, <1>2

LEMMA ManifestWritten ==
  ASSUME InstanceInvariant, WriteManifest
  PROVE  InstanceInvariant'
<1>1. PICK y \in {"done", "restore"} : y = After("prepare", "restore")
  BY DEF After
<1>2. PICK m : m = [source |-> cmd.source, pack |-> Missing]
  OBVIOUS
<1>3. At("manifest") /\ Replace("manifest", m, y) /\ m \in Values("manifest")
  BY <1>1, <1>2, ValuesOf DEF WriteManifest, InstanceInvariant, Sound, Fits, At, Manifests
<1>4. Replaces("manifest", "manifest", m, y) /\ m # Missing
  BY <1>3, FileNames, Replacing
<1>5. y = "done" <=> cmd.kind = "prepare"
  BY <1>1 DEF After
<1>6. Sound(cmd', Settled', official)
  BY <1>2, <1>4, <1>5, FileNames
     DEF Replaces, Moves, Sound, Vouches, Fits, Repaired, Kept, CatalogIn, AcceptedIn, VerifiedIn
<1> QED BY <1>4, <1>6, WasReplaced

LEMMA RecordRestored ==
  ASSUME InstanceInvariant, RestoreCompatiblePackRecord
  PROVE  InstanceInvariant'
<1>1. files["manifest"] \in Manifests /\ cmd.existing \in Manifests \cup {Missing}
  <2>1. cmd.at = "restore" /\ Settled = files
    BY DEF RestoreCompatiblePackRecord, At, Settled
  <2>2. files["manifest"] # Missing /\ OnDisk
    BY <2>1 DEF InstanceInvariant, Sound, Fits
  <2> QED BY <2>2, FilesHold DEF OnDisk, CommandOK
<1>2. CASE CanRestore
  <2>1. PICK m : m = [files["manifest"] EXCEPT !.pack = cmd.existing.pack]
    OBVIOUS
  <2>2. cmd.existing # Missing /\ cmd.existing.pack # Missing
        /\ cmd.existing.source = files["manifest"].source
    BY <1>2 DEF CanRestore, Manifest
  <2>3. /\ m \in Manifests /\ m.pack = cmd.existing.pack
        /\ m.source = files["manifest"].source
    BY <1>1, <2>1, <2>2 DEF Manifests
  <2>4. At("restore") /\ Replace("manifest", m, "check")
    BY <1>2, <2>1 DEF RestoreCompatiblePackRecord, Manifest
  <2>5. Replaces("restore", "manifest", m, "check") /\ m # Missing
    BY <2>3, <2>4, FileNames, ValuesOf, Replacing
  <2>6. Vouches(m)
    BY <2>2, <2>3 DEF InstanceInvariant, OnDisk, Vouches
  <2>7. Sound(cmd', Settled', official)
    BY <2>2, <2>3, <2>5, <2>6, FileNames
       DEF Replaces, Moves, Sound, Fits, Repaired, Kept, CatalogIn, AcceptedIn
  <2> QED BY <2>5, <2>7, WasReplaced
<1>3. CASE ~CanRestore
  <2>1. Goes("restore", "check")
    BY <1>3, Going DEF RestoreCompatiblePackRecord
  <2>2. Sound(cmd', files, official)
    BY <1>3, <2>1
       DEF Goes, Moves, Sound, Fits, Repaired, Kept, AcceptedIn, CanRestore, Manifest
  <2> QED BY <2>1, <2>2, Gone
<1> QED BY <1>2, <1>3

----------------------------------------------------------------------------
(* generate.                                                               *)

LEMMA PreparedChecked ==
  ASSUME InstanceInvariant, CheckPrepared
  PROVE  InstanceInvariant'
<1>1. SourceVerified <=> SourceIn(files)
  BY ChecksOf DEF InstanceInvariant
<1>2. CASE files["eula"] # Missing /\ SourceIn(files)
  <2>1. Goes("check", "reuse")
    BY <1>1, <1>2, Going DEF CheckPrepared
  <2>2. Sound(cmd', files, official)
    BY <1>2, <2>1 DEF Goes, Moves, Sound, Fits, Repaired, Kept, SourceIn
  <2> QED BY <2>1, <2>2, Gone
<1>3. CASE ~(files["eula"] # Missing /\ SourceIn(files))
  <2>1. Goes("check", "failed")
    BY <1>1, <1>3, Going DEF CheckPrepared
  <2>2. Sound(cmd', files, official)
    BY <1>3, <2>1 DEF Goes, Moves, Sound, Fits, Repaired, Kept, SourceIn
  <2> QED BY <2>1, <2>2, Gone
<1> QED BY <1>2, <1>3

LEMMA PackReused ==
  ASSUME InstanceInvariant, ReusePack
  PROVE  InstanceInvariant'
<1>1. PICK y \in {"done", "install"} : y = After("generate", "install")
  BY DEF After
<1>2. Goes("reuse", y) /\ VerifiedIn(files)
  BY <1>1, Going, ChecksOf DEF ReusePack, InstanceInvariant
<1>3. y = "done" <=> cmd.kind = "generate"
  BY <1>1 DEF After
<1>4. Sound(cmd', files, official)
  BY <1>2, <1>3 DEF Goes, Moves, Sound, Fits, Repaired, Kept
<1> QED BY <1>2, <1>4, Gone

\* The pack of the artifact that the manifest records, with a conforming report.
LEMMA PackGenerated ==
  ASSUME InstanceInvariant, GeneratePack
  PROVE  InstanceInvariant'
<1>1. At("reuse") /\ (cmd.force \/ ~VerifiedIn(files)) /\ cmd.at = "reuse" /\ Settled = files
  BY ChecksOf DEF GeneratePack, InstanceInvariant, At, Settled
<1>2. files["manifest"] \in Manifests
  BY <1>1, FilesHold DEF InstanceInvariant, Sound, Fits
<1>3. PICK a, report : a = Manifest.source /\ report = PacketCatalog(cmd.report)
  OBVIOUS
<1>4. a = files["manifest"].source /\ a \in Artifacts /\ ProfileAccepts(a, report)
  BY <1>2, <1>3 DEF Manifest, Manifests, GeneratePack
<1>5. PICK p : p = Extract(a, report)
  OBVIOUS
<1>6. p \in Packs /\ p.source = a /\ p.report = report
  BY <1>4, <1>5, InstanceAssumption DEF Extract, Packs, ProfileAccepts
<1>7. Replaces("reuse", "pack", p, "record") /\ p # Missing
  BY <1>1, <1>3, <1>5, <1>6, FileNames, ValuesOf, Replacing DEF GeneratePack
<1>8. Sound(cmd', Settled', official)
  BY <1>1, <1>4, <1>6, <1>7, FileNames
     DEF Replaces, Moves, Sound, Fits, Repaired, Kept, CatalogIn, AcceptedIn, VerifiedIn
<1> QED BY <1>7, <1>8, WasReplaced

LEMMA ExtractionRejected ==
  ASSUME InstanceInvariant, RejectExtraction
  PROVE  InstanceInvariant'
<1>1. Goes("reuse", "failed")
  BY Going DEF RejectExtraction
<1>2. /\ cmd.force \/ ~VerifiedIn(files)
      /\ ~ProfileAccepts(files["manifest"].source, CatalogIn(files, cmd.report))
  BY ChecksOf DEF RejectExtraction, InstanceInvariant, Manifest
<1>3. Sound(cmd', files, official)
  BY <1>1, <1>2
     DEF Goes, Moves, Sound, Fits, Repaired, Kept, ProfileAccepts, VerifiedIn
<1> QED BY <1>1, <1>3, Gone

LEMMA PackRecorded ==
  ASSUME InstanceInvariant, RecordPack
  PROVE  InstanceInvariant'
<1>1. PICK y \in {"done", "install"} : y = After("generate", "install")
  BY DEF After
<1>2. cmd.at = "record" /\ Settled = files /\ At("record")
  BY DEF RecordPack, At, Settled
<1>3. /\ files["manifest"] \in Manifests /\ files["pack"] \in Packs
      /\ AcceptedIn(files) /\ files["pack"].source = files["manifest"].source
  BY <1>2, FilesHold DEF InstanceInvariant, Sound, Fits, AcceptedIn
<1>4. PICK m : m = [files["manifest"] EXCEPT !.pack = files["pack"]]
  OBVIOUS
<1>5. m \in Manifests /\ m.pack = files["pack"] /\ m.source = files["manifest"].source
  BY <1>3, <1>4 DEF Manifests
<1>6. Replaces("record", "manifest", m, y) /\ m # Missing
  BY <1>1, <1>2, <1>4, <1>5, FileNames, ValuesOf, Replacing DEF RecordPack, Manifest
<1>7. y = "done" <=> cmd.kind = "generate"
  BY <1>1 DEF After
<1>8. Sound(cmd', Settled', official)
  BY <1>3, <1>5, <1>6, <1>7, FileNames
     DEF Replaces, Moves, Sound, Vouches, Fits, Repaired, Kept, CatalogIn, AcceptedIn, VerifiedIn
<1> QED BY <1>6, <1>8, WasReplaced

----------------------------------------------------------------------------
(* install-local, doctor and run.                                          *)

LEMMA ServerInstalled ==
  ASSUME InstanceInvariant, InstallLocalServer
  PROVE  InstanceInvariant'
<1>1. SourceVerified <=> SourceIn(files)
  BY ChecksOf DEF InstanceInvariant
<1>2. CASE files["eula"] # Missing /\ SourceIn(files)
  <2>1. PICK y \in {"done", "doctor"} : y = After("install", "doctor")
    BY DEF After
  <2>2. Replaces("install", "binary", "server", y) /\ "server" # Missing
    BY <1>1, <1>2, <2>1, FileNames, ValuesOf, Replacing DEF InstallLocalServer
  <2>3. y = "done" <=> cmd.kind = "install"
    BY <2>1 DEF After
  <2>4. Sound(cmd', Settled', official)
    BY <2>2, <2>3, FileNames
       DEF Replaces, Moves, Sound, Fits, Repaired, Kept, CatalogIn, AcceptedIn, VerifiedIn
  <2> QED BY <2>2, <2>4, WasReplaced
<1>3. CASE ~(files["eula"] # Missing /\ SourceIn(files))
  <2>1. Goes("install", "failed")
    BY <1>1, <1>3, Going DEF InstallLocalServer
  <2>2. Sound(cmd', files, official)
    BY <1>3, <2>1 DEF Goes, Moves, Sound, Fits, Repaired, Kept, SourceIn
  <2> QED BY <2>1, <2>2, Gone
<1> QED BY <1>2, <1>3

LEMMA DoctorAnswers ==
  ASSUME InstanceInvariant, DoctorInstance \/ RunInstance
  PROVE  InstanceInvariant'
<1>1. PICK x \in {"doctor", "run"}, y \in {"done", "failed"} :
        /\ At(x) /\ Goto(y) /\ (y = "done" <=> ReadyIn(files))
  BY ChecksOf DEF DoctorInstance, RunInstance, InstanceInvariant
<1>2. Goes(x, y)
  BY <1>1, Going
<1>3. Sound(cmd', files, official)
  BY <1>1, <1>2 DEF Goes, Moves, Sound, Fits, Repaired, Kept, ReadyIn, SourceIn
<1> QED BY <1>2, <1>3, Gone

----------------------------------------------------------------------------
(* Putting files in place, commands, faults and the user.                  *)

\* RemoveOld and RenameNew change nothing of what the files will be.
LEMMA FilePlaced ==
  ASSUME InstanceInvariant, RemoveOld \/ RenameNew
  PROVE  InstanceInvariant' /\ \A f \in Names : f # cmd.write.name => files'[f] = files[f]
<1>1. OnDisk /\ Sound(cmd, Settled, official) /\ Files(files) /\ CommandOK(cmd)
  BY DEF InstanceInvariant, OnDisk
<1>2. PICK w : w = cmd.write
  OBVIOUS
<1>3. /\ w # Missing /\ w.name \in Names /\ w.value \in Values(w.name)
      /\ UNCHANGED <<official, faults>>
  BY <1>1, <1>2 DEF RemoveOld, RenameNew, CommandOK, Writes
<1>4. PICK n, v : n \in Names /\ v \in Values(n) /\ n = w.name /\ v = w.value
  BY <1>3
<1>5. Settled = [files EXCEPT ![n] = v]
  BY <1>2, <1>3, <1>4 DEF Settled
<1>6. CASE RemoveOld
  <2>1. files' = [files EXCEPT ![n] = Missing] /\ cmd' = cmd
    BY <1>2, <1>4, <1>6 DEF RemoveOld
  <2>2. Files(files') /\ \A f \in Names : f # n => files'[f] = files[f]
    BY <1>1, <2>1 DEF Files
  <2>3. Settled' = Settled
    BY <1>1, <1>2, <1>3, <1>4, <1>5, <2>1 DEF Settled, Files
  <2>4. Vouches(files'["manifest"])
    BY <1>1, <2>1, FileNames DEF OnDisk, Files, Vouches
  <2>5. OnDisk'
    BY <1>1, <1>3, <2>1, <2>2, <2>4 DEF OnDisk
  <2> QED BY <1>1, <1>2, <1>3, <1>4, <2>1, <2>2, <2>3, <2>5 DEF InstanceInvariant
<1>7. CASE RenameNew
  <2>1. files' = [files EXCEPT ![n] = v] /\ cmd' = [cmd EXCEPT !.write = Missing]
    BY <1>2, <1>4, <1>7 DEF RenameNew
  <2>2. Files(files') /\ \A f \in Names : f # n => files'[f] = files[f]
    BY <1>1, <1>4, <2>1 DEF Files
  <2>3. cmd' = [kind |-> cmd.kind, force |-> cmd.force, report |-> cmd.report, at |-> cmd.at,
                existing |-> cmd.existing, source |-> cmd.source, write |-> Missing,
                undisturbed |-> cmd.undisturbed, steady |-> cmd.steady]
    BY <1>1, <2>1 DEF CommandOK
  <2>4. Settled' = Settled /\ Settled = files'
    BY <1>5, <2>1, <2>3 DEF Settled
  <2>5. CommandOK(cmd')
    BY <1>1, <2>3 DEF CommandOK
  <2>6. Vouches(files'["manifest"])
    BY <1>1, <2>4 DEF Sound
  <2>7. OnDisk'
    BY <1>1, <1>3, <2>2, <2>3, <2>5, <2>6 DEF OnDisk
  <2>8. Sound(cmd', Settled, official)
    BY <1>1, <2>3 DEF Sound, Fits, Repaired, Kept
  <2> QED BY <1>2, <1>3, <1>4, <2>2, <2>4, <2>7, <2>8 DEF InstanceInvariant
<1> QED BY <1>6, <1>7

LEMMA CommandStarts ==
  ASSUME InstanceInvariant, NEW k \in Kinds, NEW f \in BOOLEAN, NEW r \in Reports \cup {Missing},
         Start(k, f, r)
  PROVE  InstanceInvariant'
<1>1. OnDisk /\ Sound(cmd, Settled, official) /\ Settled = files
  BY DEF InstanceInvariant, Start, HasEnded, Settled
<1>2. PICK u \in BOOLEAN : u = (official = Builtin /\ PacketCatalog(r) \in Conforming)
  OBVIOUS
<1>3. PICK s \in BOOLEAN : s = (k = "setup" /\ ~f /\ Ready /\ official = Builtin)
  OBVIOUS
<1>4. PICK at \in {"existing", "resolve", "check", "install", "run"} :
        at = Entry[k] /\ (k = "setup" => at = "existing")
  BY DEF Entry, Kinds
<1>5. /\ cmd' = [kind |-> k, force |-> f, report |-> r, at |-> at,
                 existing |-> Missing, source |-> Missing, write |-> Missing,
                 undisturbed |-> u, steady |-> s]
      /\ UNCHANGED <<official, files, faults>>
  BY <1>2, <1>3, <1>4 DEF Start, Idle
<1>6. CommandOK(cmd')
  BY <1>5 DEF CommandOK
<1>7. OnDisk' /\ Settled' = files
  BY <1>1, <1>5, <1>6 DEF OnDisk, Vouches, Settled
<1>8. Vouches(files["manifest"]) /\ Fits(cmd', files)
  BY <1>1, <1>4, <1>5 DEF OnDisk, Fits
<1>9. Repaired(cmd', files, official)
  <2>1. PacketCatalog(r) = CatalogIn(files, r)
    BY <1>1, ChecksOf
  <2> QED BY <1>2, <1>4, <1>5, <2>1 DEF Repaired
<1>10. Kept(cmd', files, official)
  <2>1. s => ReadyIn(files) /\ official = Builtin /\ k = "setup" /\ f = FALSE
    BY <1>1, <1>3, ChecksOf
  <2> QED BY <1>4, <1>5, <2>1
         DEF Kept, ReadyIn, SourceIn, VerifiedIn, AcceptedIn, ProfileAccepts
<1> QED BY <1>5, <1>7, <1>8, <1>9, <1>10 DEF InstanceInvariant, Sound

\* After a fault nothing is claimed of the command; what the files vouch for
\* stays true.
LEMMA FaultKeeps ==
  ASSUME InstanceInvariant, NEW at, (cmd.at = at /\ cmd.write = Missing) \/ at = "failed",
         Disturbed(at), Fault, Files(files'), official' \in Artifacts,
         files' = files \/ HasEnded, \A f \in Names : files'[f] \in {files[f], Missing}
  PROVE  InstanceInvariant'
<1>1. OnDisk /\ Sound(cmd, Settled, official) /\ CommandOK(cmd)
  BY DEF InstanceInvariant, OnDisk
<1>2. at \in Steps \cup Ended
  BY <1>1 DEF CommandOK
<1>3. cmd' = [kind |-> cmd.kind, force |-> cmd.force, report |-> cmd.report, at |-> at,
              existing |-> cmd.existing, source |-> cmd.source, write |-> Missing,
              undisturbed |-> FALSE, steady |-> FALSE]
  BY <1>1 DEF Disturbed, CommandOK
<1>4. CommandOK(cmd')
  BY <1>1, <1>2, <1>3 DEF CommandOK
<1>5. Vouches(files'["manifest"])
  <2>1. files'["manifest"] \in {files["manifest"], Missing}
    BY FileNames
  <2> QED BY <1>1, <2>1 DEF OnDisk, Vouches
<1>6. faults' \in 0 .. MaxFaults
  BY <1>1, InstanceAssumption DEF Fault, OnDisk
<1>7. OnDisk' /\ Settled' = files'
  BY <1>1, <1>3, <1>4, <1>5, <1>6 DEF OnDisk, Settled
<1>8. Fits(cmd', files')
  <2>1. CASE at = "failed"
    BY <1>3, <2>1 DEF Fits
  <2>2. CASE at # "failed"
    <3>1. cmd.at = at /\ Settled = files
      BY <2>2 DEF Settled
    <3>2. CASE files' = files
      BY <1>1, <1>3, <3>1, <3>2 DEF Sound, Fits
    <3>3. CASE HasEnded
      BY <1>3, <3>1, <3>3 DEF HasEnded, Fits
    <3> QED BY <3>2, <3>3
  <2> QED BY <2>1, <2>2
<1>9. Repaired(cmd', files', official') /\ Kept(cmd', files', official')
  BY <1>3 DEF Repaired, Kept
<1> QED BY <1>5, <1>7, <1>8, <1>9 DEF InstanceInvariant, Sound

LEMMA Faults ==
  ASSUME InstanceInvariant,
         \/ Kill \/ ExternalFails
         \/ \E f \in Names : Lose(f)
         \/ \E a \in Artifacts : Publish(a)
  PROVE  InstanceInvariant'
<1>1. Files(files) /\ official \in Artifacts
  BY DEF InstanceInvariant, OnDisk
<1>2. CASE Kill \/ ExternalFails
  <2>1. Disturbed("failed") /\ Fault /\ files' = files /\ official' = official
    BY <1>2 DEF Kill, ExternalFails
  <2> QED BY <1>1, <2>1, FaultKeeps
<1>3. ASSUME NEW f \in Names, Lose(f) PROVE InstanceInvariant'
  <2>1. /\ Disturbed(cmd.at) /\ Fault /\ HasEnded /\ official' = official
        /\ files' = [files EXCEPT ![f] = Missing] /\ cmd.write = Missing
    BY <1>3 DEF Lose, HasEnded
  <2>2. Files(files') /\ \A g \in Names : files'[g] \in {files[g], Missing}
    BY <1>1, <2>1 DEF Files
  <2> QED BY <1>1, <2>1, <2>2, FaultKeeps
<1>4. ASSUME NEW a \in Artifacts, Publish(a) PROVE InstanceInvariant'
  <2>1. /\ Disturbed(cmd.at) /\ Fault /\ official' = a /\ files' = files
        /\ cmd.write = Missing
    BY <1>4 DEF Publish
  <2> QED BY <1>1, <2>1, FaultKeeps
<1> QED BY <1>2, <1>3, <1>4

LEMMA UserEdits ==
  ASSUME InstanceInvariant, EditConfig \/ \E r \in Reports : PlaceReport(r)
  PROVE  InstanceInvariant'
<1>1. OnDisk /\ Sound(cmd, Settled, official) /\ Files(files) /\ HasEnded
  BY DEF InstanceInvariant, OnDisk, EditConfig, PlaceReport
<1>2. PICK n, v :
        /\ n \in {"config", "report"} /\ v \in Values(n)
        /\ files' = [files EXCEPT ![n] = v] /\ UNCHANGED <<official, cmd, faults>>
  BY ValuesOf DEF EditConfig, PlaceReport
<1>3. Settled = files /\ Settled' = files' /\ cmd.at \in Ended
  BY <1>1, <1>2 DEF Settled, HasEnded
<1>4. n \in Names /\ v # Missing
  <2>1. n \in Names
    BY <1>2, FileNames
  <2> QED BY <1>2, <2>1, MissingAssumption
<1>5. Files(files') /\ files'[n] = v /\ \A f \in Names \ {n} : files'[f] = files[f]
  BY <1>1, <1>2, <1>4 DEF Files
<1>6. OnDisk'
  BY <1>1, <1>2, <1>5, FileNames DEF OnDisk
<1>7. /\ files'["jar"] = files["jar"] /\ files'["eula"] = files["eula"]
      /\ files'["manifest"] = files["manifest"] /\ files'["pack"] = files["pack"]
      /\ files'["binary"] = files["binary"]
      /\ files["config"] # Missing => files'["config"] # Missing
  BY <1>2, <1>4, <1>5, FileNames
<1>8. Sound(cmd, files', official)
  BY <1>1, <1>3, <1>7
     DEF Sound, Fits, Repaired, Kept, ReadyIn, SourceIn, VerifiedIn, AcceptedIn
<1> QED BY <1>2, <1>3, <1>6, <1>8 DEF InstanceInvariant

----------------------------------------------------------------------------
LEMMA InstanceStart == Init => InstanceInvariant
<1> SUFFICES ASSUME Init PROVE InstanceInvariant
  OBVIOUS
<1>1. Settled = files
  BY DEF Init, Idle, Settled
<1>2. CommandOK(cmd)
  BY DEF Init, Idle, CommandOK, Kinds
<1>3. Files(files) /\ files["manifest"] = Missing
  BY DEF Init, Files, Names
<1>4. OnDisk
  BY <1>2, <1>3, InstanceAssumption DEF Init, Idle, OnDisk, Vouches
<1>5. Sound(cmd, files, official)
  BY <1>3 DEF Init, Idle, Sound, Vouches, Fits, Repaired, Kept
<1> QED BY <1>1, <1>4, <1>5 DEF InstanceInvariant

LEMMA InstanceStep == InstanceInvariant /\ [Next]_vars => InstanceInvariant'
<1> SUFFICES ASSUME InstanceInvariant, [Next]_vars PROVE InstanceInvariant'
  OBVIOUS
<1>1. CASE UNCHANGED vars
  BY <1>1 DEF vars, InstanceInvariant, OnDisk, Settled
<1>2. CASE \E k \in Kinds, f \in BOOLEAN, r \in Reports \cup {Missing} : Start(k, f, r)
  BY <1>2, CommandStarts
<1>3. CASE Step
  BY <1>3, FilePlaced, ExistingRead, ArtifactResolved, JarReused, ArtifactDownloaded,
     EulaWritten, ConfigWritten, ManifestWritten, RecordRestored, PreparedChecked, PackReused,
     PackGenerated, ExtractionRejected, PackRecorded, ServerInstalled, DoctorAnswers DEF Step
<1>4. CASE \/ Kill \/ ExternalFails
           \/ \E f \in Names : Lose(f)
           \/ \E a \in Artifacts : Publish(a)
  BY <1>4, Faults
<1>5. CASE EditConfig \/ \E r \in Reports : PlaceReport(r)
  BY <1>5, UserEdits
<1> QED BY <1>1, <1>2, <1>3, <1>4, <1>5 DEF Next

\* Every file of an instance holds something of its kind, whatever was killed.
THEOREM InstanceTypeCorrect == Spec => []InstanceTypeOK
<1>1. InstanceInvariant => InstanceTypeOK
  BY DEF InstanceInvariant, OnDisk, Files, CommandOK, Writes, InstanceTypeOK
<1> QED BY <1>1, InstanceStart, InstanceStep, PTL DEF Spec

\* No manifest vouches for the pack of another artifact: the record that a
\* setup keeps from the one before is restored only for the same source, and
\* the one that generate writes is of the pack it has put in place.
THEOREM RecordsMatch == Spec => []RecordMatchesSource
<1>1. InstanceInvariant => RecordMatchesSource
  BY DEF InstanceInvariant, OnDisk, Vouches, RecordMatchesSource, Manifest
<1> QED BY <1>1, InstanceStart, InstanceStep, PTL DEF Spec

\* Whatever kills and losses left on disk, a setup that nothing disturbs does
\* not fail, and ends with an instance that is ready.
THEOREM SetupAlwaysRepairs == Spec => []SetupRepairs
<1>1. ASSUME InstanceInvariant PROVE SetupRepairs
  <2> SUFFICES ASSUME cmd.kind = "setup", cmd.undisturbed
               PROVE  cmd.at # "failed" /\ (cmd.at = "done" => Ready)
    BY DEF SetupRepairs
  <2>1. Repaired(cmd, Settled, official)
    BY <1>1 DEF InstanceInvariant, Sound
  <2>2. cmd.at # "failed"
    BY <2>1 DEF Repaired
  <2>3. cmd.at = "done" => Settled = files /\ ReadyIn(Settled)
    BY <2>1 DEF Repaired, Settled
  <2>4. cmd.at = "done" => Ready
    BY <1>1, <2>3, ChecksOf DEF InstanceInvariant
  <2> QED BY <2>2, <2>4
<1> QED BY <1>1, InstanceStart, InstanceStep, PTL DEF Spec

\* A setup of an instance that is ready replaces neither the jar nor the pack.
THEOREM SetupKeepsWhatIsReady == Spec => SetupIsIdempotent
<1>1. ASSUME InstanceInvariant, [Next]_vars
      PROVE  [cmd.steady /\ ~HasEnded =>
                /\ files'["jar"] = files["jar"]
                /\ files'["pack"] = files["pack"]]_files
  <2> SUFFICES ASSUME cmd.steady, ~HasEnded, files' # files
               PROVE  files'["jar"] = files["jar"] /\ files'["pack"] = files["pack"]
    OBVIOUS
  <2>1. Kept(cmd, Settled, official) /\ CommandOK(cmd)
    BY <1>1 DEF InstanceInvariant, Sound, OnDisk
  <2>2. cmd.at \in SetupSteps
    BY <2>1 DEF Kept, HasEnded, CommandOK
  <2>3. RemoveOld \/ RenameNew
    BY <1>1 DEF Next, vars, Step, Start, HasEnded, Goto, Replace, ReadExistingManifest,
        ResolveOfficialServerArtifact, ReuseCachedJar, DownloadVerifiedArtifact, WriteEula,
        WriteConfig, WriteManifest, RestoreCompatiblePackRecord, CheckPrepared, ReusePack,
        GeneratePack, RejectExtraction, RecordPack, InstallLocalServer, DoctorInstance,
        RunInstance, Kill, ExternalFails, Lose, Publish, EditConfig, PlaceReport
  <2>4. cmd.write.name \notin {"jar", "pack"}
    BY <2>1, <2>2, <2>3 DEF Kept, RemoveOld, RenameNew
  <2> QED BY <1>1, <2>3, <2>4, FilePlaced, FileNames
<1> QED BY <1>1, InstanceStart, InstanceStep, PTL DEF Spec, SetupIsIdempotent

(***************************************************************************)
(* The version pack, from the reports to a server that runs.               *)
(***************************************************************************)

\* A pack that nobody edited is the one that generate made and checked.
GeneratedIsValid ==
  ~edited /\ pack # NoPack =>
    /\ pack = GeneratedPack /\ ReportsCanBeRead
    /\ MatchesBuiltinProfile(pack.packets) /\ ValidPack(pack)

LoadedFromPack ==
  /\ pack # NoPack /\ ServerAccepts(pack)
  /\ loaded = [packets |-> pack.packets, items |-> pack.items, entities |-> pack.entities]

LoadedFromConfiguration ==
  /\ ValidTable(ConfiguredTable(config))
  /\ loaded = [packets |-> ConfiguredTable(config), items |-> {}, entities |-> {}]

ReplicationSupported == SupportsReplication(loaded.packets, loaded.entities, loaded.items)

\* Where what the server works with comes from, and what became of its checks.
StartIsSound ==
  /\ start \in {"loaded", "running", "unsupported"} => LoadedFromPack \/ LoadedFromConfiguration
  /\ start = "running" => ReplicationSupported
  /\ start = "unsupported" => ~ReplicationSupported
  /\ start = "rejected" => ~(HasProfile(config) /\ pack # NoPack /\ ~edited)

VersionPackInvariant ==
  /\ packetReport \in PacketReports \cup {NoReport} /\ config \in Configurations
  /\ GeneratedIsValid /\ StartIsSound

----------------------------------------------------------------------------
\* Reports and configuration stay, and with them what is made of them.
LEMMA GivenStays ==
  ASSUME UNCHANGED Given
  PROVE  /\ GeneratedPack' = GeneratedPack /\ ReportsCanBeRead' = ReportsCanBeRead
         /\ UNCHANGED <<packetReport, registryReport, config>>
         /\ ConfiguredTable(config)' = ConfiguredTable(config)
         /\ HasProfile(config)' = HasProfile(config)
         /\ \A p : ServerAccepts(p)' = ServerAccepts(p)
<1>1. UNCHANGED <<packetReport, registryReport, config>>
  BY DEF Given
<1> QED BY <1>1
       DEF GeneratedPack, Catalog, ReportsCanBeRead, ConfiguredTable, HasProfile, ServerAccepts

\* With the pack and what is loaded unchanged the invariant only needs the start.
LEMMA StartMoves ==
  ASSUME VersionPackInvariant, UNCHANGED Given, UNCHANGED <<pack, edited>>, StartIsSound'
  PROVE  VersionPackInvariant'
  BY GivenStays DEF VersionPackInvariant, GeneratedIsValid

\* The server accepts the pack that rom-bootstrap generated.
LEMMA GeneratedIsAccepted ==
  ASSUME GeneratedIsValid, ~edited, pack # NoPack, HasProfile(config)
  PROVE  ServerAccepts(pack) /\ ValidTable(BuiltinIds)
<1>1. /\ pack = GeneratedPack /\ MatchesBuiltinProfile(pack.packets) /\ ValidPack(pack)
      /\ \A k \in DOMAIN BuiltinIds : k \in DOMAIN pack.packets /\ pack.packets[k] = BuiltinIds[k]
  BY DEF GeneratedIsValid, MatchesBuiltinProfile
<1>2. pack.intact = TRUE /\ pack.registries = "builtin"
  BY <1>1 DEF GeneratedPack
<1>3. Core \subseteq DOMAIN pack.packets
  BY <1>1, VersionPackAssumption
<1>4. ValidTable(pack.packets)
  BY <1>1 DEF ValidPack, PacketsMatchCatalog
<1>5. ValidTable(BuiltinIds)
  BY <1>1, <1>4 DEF ValidTable
<1> QED BY <1>1, <1>2, <1>3, <1>5 DEF ServerAccepts, DecodesPack

LEMMA PackIsGenerated ==
  ASSUME VersionPackInvariant, Generate
  PROVE  VersionPackInvariant'
<1>1. UNCHANGED Given /\ UNCHANGED <<edited, loaded>> /\ start = "prepared" /\ pack = NoPack
  BY DEF Generate
<1>2. start' \in {"prepared", "not generated"}
  BY <1>1 DEF Generate
<1>3. StartIsSound'
  BY <1>2 DEF StartIsSound
<1>4. \/ pack' = NoPack
      \/ /\ pack' = GeneratedPack /\ ReportsCanBeRead
         /\ MatchesBuiltinProfile(TypedTable(Catalog)) /\ ValidPack(GeneratedPack)
  BY <1>1 DEF Generate
<1>5. GeneratedPack.packets = TypedTable(Catalog)
  BY DEF GeneratedPack
<1>6. GeneratedIsValid'
  BY <1>1, <1>4, <1>5, GivenStays DEF GeneratedIsValid
<1> QED BY <1>1, <1>3, <1>6, GivenStays DEF VersionPackInvariant

LEMMA PackIsEdited ==
  ASSUME VersionPackInvariant, EditPack
  PROVE  VersionPackInvariant'
<1>1. UNCHANGED Given /\ edited' = TRUE /\ start' = "prepared"
  BY DEF EditPack
<1>2. StartIsSound' /\ GeneratedIsValid'
  BY <1>1 DEF StartIsSound, GeneratedIsValid
<1> QED BY <1>1, <1>2, GivenStays DEF VersionPackInvariant

LEMMA PackIsLoaded ==
  ASSUME VersionPackInvariant, LoadVersionPack
  PROVE  VersionPackInvariant'
<1>1. UNCHANGED Given /\ UNCHANGED <<pack, edited>> /\ pack # NoPack
  BY DEF LoadVersionPack
<1>2. CASE ServerAccepts(pack)
  <2>1. /\ loaded' = [packets |-> pack.packets, items |-> pack.items, entities |-> pack.entities]
        /\ start' = "loaded"
    BY <1>2 DEF LoadVersionPack
  <2>2. LoadedFromPack'
    BY <1>1, <1>2, <2>1, GivenStays DEF LoadedFromPack
  <2>3. StartIsSound'
    BY <2>1, <2>2 DEF StartIsSound
  <2> QED BY <1>1, <2>3, StartMoves
<1>3. CASE ~ServerAccepts(pack)
  <2>1. start' = "rejected"
    BY <1>3 DEF LoadVersionPack
  <2>2. ~(HasProfile(config) /\ pack # NoPack /\ ~edited)
    BY <1>3, GeneratedIsAccepted DEF VersionPackInvariant
  <2>3. StartIsSound'
    BY <1>1, <2>1, <2>2, GivenStays DEF StartIsSound
  <2> QED BY <1>1, <2>3, StartMoves
<1> QED BY <1>2, <1>3

LEMMA ProfileIsUsed ==
  ASSUME VersionPackInvariant, UseConfiguredProfile
  PROVE  VersionPackInvariant'
<1>1. UNCHANGED Given /\ UNCHANGED <<pack, edited>>
  BY DEF UseConfiguredProfile
<1>2. CASE ValidTable(ConfiguredTable(config))
  <2>1. /\ loaded' = [packets |-> ConfiguredTable(config), items |-> {}, entities |-> {}]
        /\ start' = "loaded"
    BY <1>2 DEF UseConfiguredProfile, Nothing
  <2>2. LoadedFromConfiguration'
    BY <1>1, <1>2, <2>1, GivenStays DEF LoadedFromConfiguration
  <2>3. StartIsSound'
    BY <2>1, <2>2 DEF StartIsSound
  <2> QED BY <1>1, <2>3, StartMoves
<1>3. CASE ~ValidTable(ConfiguredTable(config))
  <2>1. start' = "rejected"
    BY <1>3 DEF UseConfiguredProfile
  <2>2. ~(HasProfile(config) /\ pack # NoPack /\ ~edited)
    BY <1>3, GeneratedIsAccepted DEF VersionPackInvariant, ConfiguredTable
  <2>3. StartIsSound'
    BY <1>1, <2>1, <2>2, GivenStays DEF StartIsSound
  <2> QED BY <1>1, <2>3, StartMoves
<1> QED BY <1>2, <1>3

LEMMA SupportIsChecked ==
  ASSUME VersionPackInvariant, CheckReplicationSupport
  PROVE  VersionPackInvariant'
<1>1. /\ UNCHANGED Given /\ UNCHANGED <<pack, edited, loaded>> /\ start = "loaded"
      /\ start' = IF ReplicationSupported THEN "running" ELSE "unsupported"
  BY DEF CheckReplicationSupport, ReplicationSupported
<1>2. ReplicationSupported' = ReplicationSupported
  BY <1>1 DEF ReplicationSupported
<1>3. LoadedFromPack' \/ LoadedFromConfiguration'
  BY <1>1, GivenStays
     DEF VersionPackInvariant, StartIsSound, LoadedFromPack, LoadedFromConfiguration
<1>4. StartIsSound'
  BY <1>1, <1>2, <1>3 DEF StartIsSound
<1> QED BY <1>1, <1>4, StartMoves

LEMMA StartOver ==
  ASSUME VersionPackInvariant, ReadConfiguration \/ StartAgain
  PROVE  VersionPackInvariant'
<1>1. /\ UNCHANGED Given /\ UNCHANGED <<pack, edited>>
      /\ start' \in {"prepared", "configured", "misconfigured"}
  BY DEF ReadConfiguration, StartAgain
<1>2. StartIsSound'
  BY <1>1 DEF StartIsSound
<1> QED BY <1>1, <1>2, StartMoves

LEMMA VersionPackStart == VersionPackInit => VersionPackInvariant
  BY DEF VersionPackInit, VersionPackInvariant, GeneratedIsValid, StartIsSound

LEMMA VersionPackStep ==
  VersionPackInvariant /\ [VersionPackNext]_versionPackVars => VersionPackInvariant'
<1> SUFFICES ASSUME VersionPackInvariant, [VersionPackNext]_versionPackVars
             PROVE  VersionPackInvariant'
  OBVIOUS
<1>1. CASE UNCHANGED versionPackVars
  <2>1. UNCHANGED Given /\ UNCHANGED <<pack, edited, start, loaded>>
    BY <1>1 DEF versionPackVars, Given
  <2>2. StartIsSound'
    BY <2>1, GivenStays DEF VersionPackInvariant, StartIsSound, LoadedFromPack,
       LoadedFromConfiguration, ReplicationSupported
  <2> QED BY <2>1, <2>2, StartMoves
<1>2. CASE VersionPackNext
  BY <1>2, PackIsGenerated, PackIsEdited, PackIsLoaded, ProfileIsUsed, SupportIsChecked,
     StartOver DEF VersionPackNext
<1> QED BY <1>1, <1>2

----------------------------------------------------------------------------
\* A table without two packets of one ID resolves an ID to its packet.
LEMMA ResolvesToOne ==
  ASSUME NEW table, ValidTable(table), NEW k \in DOMAIN table
  PROVE  Resolve(table, PhaseOf[k], DirectionOf[k], table[k]) = {k}
  BY DEF ValidTable, Resolve, Place

\* The [protocol] section has no keys for the packets that replication needs, so
\* a server that runs has a profile.
LEMMA RunsWithProfile ==
  ASSUME VersionPackInvariant, start = "running"
  PROVE  /\ HasProfile(config)
         /\ LoadedFromPack \/ loaded = [packets |-> BuiltinIds, items |-> {}, entities |-> {}]
         /\ ValidTable(loaded.packets) /\ Core \cup Vitals \subseteq DOMAIN loaded.packets
<1>1. /\ ReplicationSupported /\ (LoadedFromPack \/ LoadedFromConfiguration)
      /\ config \in Configurations
  BY DEF VersionPackInvariant, StartIsSound
<1>2. Vitals \subseteq DOMAIN loaded.packets
  BY <1>1 DEF ReplicationSupported, SupportsReplication
<1>3. CASE LoadedFromPack
  BY <1>2, <1>3
     DEF LoadedFromPack, ServerAccepts, DecodesPack, ValidPack, PacketsMatchCatalog
<1>4. CASE LoadedFromConfiguration
  <2>1. HasProfile(config)
    <3> SUFFICES ASSUME ~HasProfile(config) PROVE FALSE
      OBVIOUS
    <3>1. DOMAIN loaded.packets = DOMAIN DefaultIds \cup DOMAIN config.ids
      BY <1>4 DEF LoadedFromConfiguration, ConfiguredTable
    <3> QED BY <1>1, <1>2, <3>1, VersionPackAssumption
  <2>2. loaded.packets = BuiltinIds /\ ValidTable(BuiltinIds)
    BY <1>4, <2>1 DEF LoadedFromConfiguration, ConfiguredTable
  <2> QED BY <1>4, <2>1, <2>2, VersionPackAssumption DEF LoadedFromConfiguration, ConfiguredTable
<1> QED BY <1>1, <1>3, <1>4

\* What a truthful report, or the built-in catalog, says of a packet.
LEMMA CatalogIsRight ==
  ASSUME packetReport \in PacketReports \cup {NoReport}, Honest, NEW k \in PacketKinds,
         NEW d \in Catalog, k \in KnownKinds(d)
  PROVE  d.id = OfficialIds[k]
<1>1. CASE packetReport = NoReport
  <2>1. PICK j \in DOMAIN BuiltinIds :
          d = [phase |-> PhaseOf[j], direction |-> DirectionOf[j], path |-> CanonicalPath[j],
               bare |-> FALSE, id |-> BuiltinIds[j]]
    BY <1>1 DEF Catalog, BuiltinCatalog
  <2>2. /\ PhaseOf[k] = PhaseOf[j] /\ DirectionOf[k] = DirectionOf[j]
        /\ CanonicalPath[j] \in PathsOf[k] /\ j \in PacketKinds
    BY <2>1, VersionPackAssumption DEF KnownKinds, Place
  <2>3. j = k
    BY <2>2, PathsAssumption
  <2> QED BY <2>1, <2>3, ProfileAssumption
<1>2. CASE packetReport # NoReport
  <2>1. PICK r \in packetReport : d = Normalized(r)
    BY <1>2 DEF Catalog
  <2>2. DOMAIN r = {"phase", "direction", "path", "bare", "id"}
    BY <1>2, PathsAssumption
  <2>3. d.phase = r.phase /\ d.direction = r.direction /\ d.path = r.path /\ d.id = r.id
    BY <2>1, <2>2 DEF Normalized
  <2>4. k \in KnownKinds(r)
    BY <2>3 DEF KnownKinds
  <2> QED BY <1>2, <2>3, <2>4 DEF Honest
<1> QED BY <1>1, <1>2

\* The packets of an unedited pack are the client's, as far as the report is
\* right or the built-in profile knows them.
LEMMA PackIsRight ==
  ASSUME VersionPackInvariant, ~edited, pack # NoPack, NEW k \in DOMAIN pack.packets,
         Honest \/ k \in DOMAIN BuiltinIds
  PROVE  pack.packets[k] = OfficialIds[k]
<1>1. /\ pack = GeneratedPack /\ MatchesBuiltinProfile(pack.packets)
      /\ packetReport \in PacketReports \cup {NoReport}
  BY DEF VersionPackInvariant, GeneratedIsValid
<1>2. CASE k \in DOMAIN BuiltinIds
  BY <1>1, <1>2, ProfileAssumption DEF MatchesBuiltinProfile
<1>3. CASE Honest
  <2>1. pack.packets = TypedTable(Catalog)
    BY <1>1 DEF GeneratedPack
  <2>2. k \in Typed(Catalog) /\ pack.packets[k] = (CHOOSE d \in Catalog : k \in KnownKinds(d)).id
    BY <2>1 DEF TypedTable
  <2>3. \E d \in Catalog : k \in KnownKinds(d)
    BY <2>2 DEF Typed
  <2>4. PICK d \in Catalog : k \in KnownKinds(d) /\ pack.packets[k] = d.id
    BY <2>2, <2>3
  <2>5. k \in PacketKinds
    BY <2>4 DEF KnownKinds
  <2> QED BY <1>1, <1>3, <2>4, <2>5, CatalogIsRight
<1> QED BY <1>2, <1>3

\* A server that runs has every packet that a session or replication will ask
\* its table for, but for the list entry where no player entities are registered,
\* and reads and writes the client's IDs unless someone edited the pack or a
\* wrong report named a packet that the profile does not know.
THEOREM RunningServersHavePackets == VersionPackSpec => []RunningHasItsPackets
<1>1. ASSUME VersionPackInvariant PROVE RunningHasItsPackets
  <2> SUFFICES ASSUME start = "running"
               PROVE  /\ PacketsInUse \ DOMAIN loaded.packets \subseteq
                           IF Player \in NamesIn(loaded.entities) THEN {} ELSE {PlayerInfo}
                      /\ \A k \in DOMAIN loaded.packets :
                           /\ Resolve(loaded.packets, PhaseOf[k], DirectionOf[k],
                                      loaded.packets[k]) = {k}
                           /\ ~edited /\ (Honest \/ k \in DOMAIN BuiltinIds)
                                => loaded.packets[k] = OfficialIds[k]
    BY DEF RunningHasItsPackets
  <2>1. /\ LoadedFromPack \/ loaded = [packets |-> BuiltinIds, items |-> {}, entities |-> {}]
        /\ ValidTable(loaded.packets) /\ Core \cup Vitals \subseteq DOMAIN loaded.packets
    BY <1>1, RunsWithProfile
  <2>2. ReplicationSupported
    BY <1>1 DEF VersionPackInvariant, StartIsSound
  <2>3. PacketsInUse \ DOMAIN loaded.packets \subseteq
          IF Player \in NamesIn(loaded.entities) THEN {} ELSE {PlayerInfo}
    BY <2>1, <2>2, VersionPackAssumption
       DEF PacketsInUse, ReplicationSupported, SupportsReplication
  <2>4. ASSUME NEW k \in DOMAIN loaded.packets, ~edited, Honest \/ k \in DOMAIN BuiltinIds
        PROVE  loaded.packets[k] = OfficialIds[k]
    <3>1. CASE LoadedFromPack
      BY <1>1, <2>4, <3>1, PackIsRight DEF LoadedFromPack
    <3>2. CASE loaded = [packets |-> BuiltinIds, items |-> {}, entities |-> {}]
      BY <2>4, <3>2, ProfileAssumption
    <3> QED BY <2>1, <3>1, <3>2
  <2> QED BY <2>1, <2>3, <2>4, ResolvesToOne
<1> QED BY <1>1, VersionPackStart, VersionPackStep, PTL DEF VersionPackSpec

\* The checks of the two programs agree: what rom-bootstrap generated and
\* nobody edited is loaded, and runs unless it lists items without the packets
\* for them.
THEOREM GeneratedPacksStart == VersionPackSpec => []GeneratedPackStarts
<1>1. ASSUME VersionPackInvariant PROVE GeneratedPackStarts
  <2> SUFFICES ASSUME HasProfile(config), pack # NoPack, ~edited
               PROVE  /\ start # "rejected"
                      /\ start = "unsupported" =>
                           /\ pack.items # {}
                           /\ ~(PlayerEntities \cup {Equipment} \subseteq DOMAIN pack.packets)
    BY DEF GeneratedPackStarts
  <2>1. start # "rejected"
    BY <1>1 DEF VersionPackInvariant, StartIsSound
  <2>2. ASSUME start = "unsupported"
        PROVE  /\ pack.items # {}
               /\ ~(PlayerEntities \cup {Equipment} \subseteq DOMAIN pack.packets)
    <3>1. ~ReplicationSupported /\ (LoadedFromPack \/ LoadedFromConfiguration)
      BY <1>1, <2>2 DEF VersionPackInvariant, StartIsSound
    <3>2. ~LoadedFromConfiguration
      BY <3>1, VersionPackAssumption
         DEF LoadedFromConfiguration, ConfiguredTable, ReplicationSupported, SupportsReplication,
             NamesIn
    <3>3. /\ loaded.packets = pack.packets /\ loaded.items = pack.items
          /\ loaded.entities = pack.entities
      BY <3>1, <3>2 DEF LoadedFromPack
    <3>4. /\ pack = GeneratedPack /\ ReportsCanBeRead /\ MatchesBuiltinProfile(pack.packets)
      BY <1>1 DEF VersionPackInvariant, GeneratedIsValid
    <3>5. Vitals \subseteq DOMAIN pack.packets
      BY <3>4, VersionPackAssumption DEF MatchesBuiltinProfile
    <3>6. pack.items = {} => pack.entities = {}
      BY <3>4 DEF GeneratedPack, ReportsCanBeRead, ValidRegistryReport
    <3> QED BY <3>1, <3>3, <3>5, <3>6 DEF ReplicationSupported, SupportsReplication, NamesIn
  <2> QED BY <2>1, <2>2
<1> QED BY <1>1, VersionPackStart, VersionPackStep, PTL DEF VersionPackSpec

----------------------------------------------------------------------------
(* Arithmetic that the packing of values rests on.                         *)

\* A set of numbers that is not empty has a smallest one.
LEMMA SmallestExists ==
  ASSUME NEW T \in SUBSET Nat, T # {}
  PROVE  \E n \in T : \A m \in T : ~(m < n)
<1>1. PICK n \in T : \A m \in T : ~(<<m, n>> \in OpToRel(<, Nat))
  BY NatLessThanWellFounded, WFMin
<1>2. ASSUME NEW m \in T, m < n PROVE FALSE
  <2>1. m \in Nat /\ n \in Nat /\ <<m, n>> \notin OpToRel(<, Nat)
    BY <1>1
  <2> QED BY <1>2, <2>1, Zenon DEF OpToRel
<1> QED BY <1>2

\* A set of numbers with 0 and with the successor of each of its members has
\* them all.
LEMMA AllNumbers ==
  ASSUME NEW T, 0 \in T, \A n \in Nat : n \in T => n + 1 \in T
  PROVE  \A n \in Nat : n \in T
<1> DEFINE Out == {n \in Nat : n \notin T}
<1>1. SUFFICES ASSUME Out # {} PROVE FALSE
  OBVIOUS
<1>2. PICK n \in Out : \A m \in Out : ~(m < n)
  BY <1>1, SmallestExists
<1>3. n \in Nat /\ n # 0
  BY <1>2
<1>4. n - 1 \in Nat /\ n - 1 < n /\ (n - 1) + 1 = n
  BY <1>3
<1>5. n - 1 \in T
  BY <1>2, <1>4
<1>6. n \in T
  BY <1>4, <1>5
<1> QED BY <1>2, <1>6

\* The powers of two.
LEMMA PowerIsNatural ==
  ASSUME NEW n \in Nat
  PROVE  2^n \in Nat
<1>1. IsFiniteSet(1 .. n) /\ Cardinality(1 .. n) = n
  BY FS_Interval
<1>2. IsFiniteSet(SUBSET (1 .. n)) /\ Cardinality(SUBSET (1 .. n)) = 2^n
  BY <1>1, FS_SUBSET
<1> QED BY <1>2, FS_CardinalityType

\* Nothing has one subset.
LEMMA PowerOfZero == 2^0 = 1
<1>1. IsFiniteSet({}) /\ Cardinality({}) = 0
  BY FS_EmptySet
<1>2. Cardinality(SUBSET {}) = 2^0
  BY <1>1, FS_SUBSET
<1>3. SUBSET {} = {{}}
  OBVIOUS
<1>4. Cardinality({{}}) = 1
  BY FS_Singleton
<1> QED BY <1>2, <1>3, <1>4

\* The subsets of a larger set are those of the smaller one, once without the
\* new element and once with it.
LEMMA NextPower ==
  ASSUME NEW n \in Nat
  PROVE  2^(n + 1) = 2 * 2^n
<1> DEFINE S == 1 .. n
           Without == SUBSET S
           With == {T \cup {n + 1} : T \in SUBSET S}
<1>1. /\ IsFiniteSet(S) /\ Cardinality(S) = n
      /\ IsFiniteSet(1 .. n + 1) /\ Cardinality(1 .. n + 1) = n + 1
  BY FS_Interval
<1>2. IsFiniteSet(Without) /\ Cardinality(Without) = 2^n
  BY <1>1, FS_SUBSET
<1>3. Cardinality(SUBSET (1 .. n + 1)) = 2^(n + 1)
  BY <1>1, FS_SUBSET
<1>4. n + 1 \notin S
  OBVIOUS
<1>5. IsFiniteSet(With) /\ Cardinality(With) = Cardinality(Without)
  <2> DEFINE f == [T \in Without |-> T \cup {n + 1}]
  <2>1. f \in [Without -> With]
    OBVIOUS
  <2>2. ASSUME NEW T \in Without, NEW U \in Without, T \cup {n + 1} = U \cup {n + 1} PROVE T = U
    BY <1>4, <2>2
  <2>3. f \in Injection(Without, With)
    BY <2>1, <2>2 DEF Injection, IsInjective
  <2>4. f \in Surjection(Without, With)
    BY <2>1 DEF Surjection
  <2>5. f \in Bijection(Without, With)
    BY <2>3, <2>4 DEF Bijection
  <2> HIDE DEF f
  <2> QED BY <1>2, <2>5, FS_Bijection DEF ExistsBijection
<1>6. SUBSET (1 .. n + 1) = Without \cup With
  <2>1. 1 .. n + 1 = S \cup {n + 1}
    OBVIOUS
  <2>2. ASSUME NEW T \in SUBSET (S \cup {n + 1}) PROVE T \in Without \cup With
    <3>1. n + 1 \in T => T = (T \ {n + 1}) \cup {n + 1} /\ T \ {n + 1} \in SUBSET S
      BY <2>2
    <3>2. n + 1 \notin T => T \in Without
      BY <2>2
    <3> QED BY <3>1, <3>2
  <2>3. Without \cup With \subseteq SUBSET (S \cup {n + 1})
    OBVIOUS
  <2> QED BY <2>1, <2>2, <2>3
<1>7. Without \cap With = {}
  BY <1>4
<1>8. Cardinality(Without \cup With)
        = Cardinality(Without) + Cardinality(With) - Cardinality(Without \cap With)
  <2> HIDE DEF With, Without
  <2> QED BY <1>2, <1>5, FS_Union
<1>9. Cardinality(Without \cap With) = 0
  BY <1>7, FS_EmptySet
<1>10. 2^n \in Nat
  BY PowerIsNatural
<1>11. Cardinality(Without \cup With) = 2^n + 2^n - 0
  BY <1>2, <1>5, <1>8, <1>9
<1>12. 2^(n + 1) = 2^n + 2^n - 0
  BY <1>3, <1>6, <1>11
<1> HIDE DEF With, Without, S
<1> QED BY <1>10, <1>12

\* A power of a sum is a product of powers.
LEMMA PowerOfSum ==
  ASSUME NEW m \in Nat, NEW n \in Nat
  PROVE  2^(m + n) = 2^m * 2^n
<1> DEFINE T == {k \in Nat : 2^(m + k) = 2^m * 2^k}
<1>1. 2^m \in Nat
  BY PowerIsNatural
<1>2. 0 \in T
  <2>1. m + 0 = m /\ 2^m * 1 = 2^m
    BY <1>1
  <2> QED BY <2>1, PowerOfZero
<1>3. ASSUME NEW k \in Nat, k \in T PROVE k + 1 \in T
  <2>1. 2^(m + k) = 2^m * 2^k /\ 2^k \in Nat
    BY <1>3, PowerIsNatural
  <2>2. 2^(k + 1) = 2 * 2^k /\ 2^(m + k + 1) = 2 * 2^(m + k)
    BY NextPower
  <2>3. m + (k + 1) = m + k + 1
    OBVIOUS
  <2>4. PICK x, y, z : x = 2^m /\ y = 2^k /\ z = 2^(m + k)
    OBVIOUS
  <2>5. 2 * (x * y) = x * (2 * y)
    BY <1>1, <2>1, <2>4
  <2>6. 2^(m + (k + 1)) = 2^m * 2^(k + 1)
    BY <2>1, <2>2, <2>3, <2>4, <2>5
  <2> QED BY <2>6
<1> HIDE DEF T
<1>4. n \in T
  BY <1>2, <1>3, AllNumbers
<1> QED BY <1>4 DEF T

\* Powers of two are positive, and
LEMMA PowerIsPositive ==
  ASSUME NEW n \in Nat
  PROVE  2^n \in Nat /\ 2^n >= 1
<1> DEFINE T == {k \in Nat : 2^k >= 1}
<1>1. 0 \in T
  BY PowerOfZero
<1>2. ASSUME NEW k \in Nat, k \in T PROVE k + 1 \in T
  <2>1. 2^k \in Nat /\ 2^k >= 1 /\ 2^(k + 1) = 2 * 2^k
    BY <1>2, PowerIsNatural, NextPower
  <2>2. 2^(k + 1) >= 1
    BY <2>1
  <2> QED BY <2>2
<1> HIDE DEF T
<1>3. n \in T
  BY <1>1, <1>2, AllNumbers
<1> QED BY <1>3, PowerIsNatural DEF T

\* Products keep an order.
LEMMA ProductOrder ==
  ASSUME NEW a \in Int, NEW b \in Int, a <= b, NEW d \in Nat
  PROVE  a * d <= b * d
<1>1. (b - a) * d >= 0
  OBVIOUS
<1>2. (b - a) * d = b * d - a * d
  OBVIOUS
<1>3. a * d \in Int /\ b * d \in Int
  OBVIOUS
<1> QED BY <1>1, <1>2, <1>3

\* larger for a larger exponent.
LEMMA PowerOrder ==
  ASSUME NEW m \in Nat, NEW n \in Nat, m <= n
  PROVE  2^m <= 2^n
<1>1. n - m \in Nat /\ m + (n - m) = n
  OBVIOUS
<1>2. 2^n = 2^m * 2^(n - m)
  BY <1>1, PowerOfSum
<1>3. PICK x, y : x = 2^m /\ y = 2^(n - m)
  OBVIOUS
<1>4. x \in Nat /\ y \in Nat /\ 1 <= y
  BY <1>1, <1>3, PowerIsPositive
<1>5. 1 * x <= y * x
  BY <1>4, ProductOrder
<1>6. 1 * x = x /\ y * x = x * y
  BY <1>4
<1> QED BY <1>2, <1>3, <1>5, <1>6

\* Division with a remainder, and that there is only one.
LEMMA DivisionFacts ==
  ASSUME NEW a \in Int, NEW d \in Nat, d > 0
  PROVE  /\ a \div d \in Int /\ a % d \in 0 .. d - 1
         /\ a = (a \div d) * d + (a % d)
OBVIOUS

\* A quotient and a remainder are unique, so that
LEMMA DivisionIsUnique ==
  ASSUME NEW d \in Nat, NEW q \in Int, NEW p \in Int, NEW r \in 0 .. d - 1, NEW s \in 0 .. d - 1,
         q * d + r = p * d + s
  PROVE  q = p /\ r = s
<1>1. q * d \in Int /\ p * d \in Int /\ d > 0
  OBVIOUS
<1>2. CASE q < p
  <2>1. (q + 1) * d <= p * d
    BY <1>2, ProductOrder
  <2>2. (q + 1) * d = q * d + d
    OBVIOUS
  <2> QED BY <1>1, <2>1, <2>2
<1>3. CASE p < q
  <2>1. (p + 1) * d <= q * d
    BY <1>3, ProductOrder
  <2>2. (p + 1) * d = p * d + d
    OBVIOUS
  <2> QED BY <1>1, <2>1, <2>2
<1>4. CASE q = p
  BY <1>1, <1>4
<1> QED BY <1>2, <1>3, <1>4

\* a product and a rest are divided into what they were made of.
LEMMA DivisionIs ==
  ASSUME NEW d \in Nat, NEW q \in Int, NEW r \in 0 .. d - 1
  PROVE  (q * d + r) \div d = q /\ (q * d + r) % d = r
<1>1. PICK a : a = q * d + r
  OBVIOUS
<1>2. a \in Int /\ d > 0
  BY <1>1
<1>3. PICK p, s : p = a \div d /\ s = a % d
  OBVIOUS
<1>4. p \in Int /\ s \in 0 .. d - 1 /\ a = p * d + s
  BY <1>2, <1>3, DivisionFacts
<1>5. p = q /\ s = r
  BY <1>1, <1>4, DivisionIsUnique
<1> QED BY <1>1, <1>3, <1>5

\* How many bits a number has.
LEMMA BitLengthFacts ==
  ASSUME NEW value \in 0 .. 2^WordBits - 1
  PROVE  /\ BitLength(value) \in 0 .. WordBits
         /\ value < 2^BitLength(value)
         /\ BitLength(value) = 0 \/ value >= 2^(BitLength(value) - 1)
<1> DEFINE T == {b \in Nat : value < 2^b}
<1>1. WordBits \in Nat /\ 2^WordBits \in Nat
  BY WorldDataAssumption, PowerIsNatural
<1>2. WordBits \in T
  BY <1>1
<1>3. PICK b \in T : \A c \in T : ~(c < b)
  BY <1>2, SmallestExists
<1>4. b \in 0 .. WordBits /\ value < 2^b
  BY <1>1, <1>2, <1>3
<1>5. ASSUME b # 0 PROVE value >= 2^(b - 1)
  <2>1. b - 1 \in Nat /\ b - 1 < b
    BY <1>4, <1>5
  <2>2. b - 1 \notin T
    BY <1>3, <2>1
  <2> QED BY <2>1, <2>2, PowerIsNatural
<1>6. \E c \in 0 .. WordBits : value < 2^c /\ (c = 0 \/ value >= 2^(c - 1))
  BY <1>4, <1>5
<1> QED BY <1>6 DEF BitLength

\* What a loop computes, turn by turn: it exists, and stays in R.
Loops(h, N, base, turn) == h[0] = base /\ \A n \in 1 .. N : h[n] = turn[<<n, h[n - 1]>>]
\* A loop over a set that its turns stay in computes something.
LEMMA LoopExists ==
  ASSUME NEW N \in Nat, NEW R, NEW base \in R, NEW turn \in [(1 .. N) \X R -> R]
  PROVE  \E h \in [0 .. N -> R] : Loops(h, N, base, turn)
<1> DEFINE Upto(h, m) == h[0] = base /\ \A n \in 1 .. N : n <= m => h[n] = turn[<<n, h[n - 1]>>]
           T == {m \in Nat : \E h \in [0 .. N -> R] : Upto(h, m)}
<1>1. 0 \in T
  <2> DEFINE h == [n \in 0 .. N |-> base]
  <2>1. h \in [0 .. N -> R] /\ Upto(h, 0)
    OBVIOUS
  <2> QED BY <2>1
<1>2. ASSUME NEW m \in Nat, m \in T PROVE m + 1 \in T
  <2>1. PICK g \in [0 .. N -> R] : Upto(g, m)
    BY <1>2
  <2>2. CASE m + 1 \in 1 .. N
    <3> DEFINE next == turn[<<m + 1, g[m]>>]
               h == [g EXCEPT ![m + 1] = next]
    <3>1. g[m] \in R /\ next \in R
      BY <2>2
    <3>2. h \in [0 .. N -> R]
      BY <2>2, <3>1
    <3>3. \A n \in 0 .. N : h[n] = IF n = m + 1 THEN next ELSE g[n]
      OBVIOUS
    <3> HIDE DEF h
    <3>4. h[0] = base
      BY <2>1, <3>3
    <3>5. ASSUME NEW n \in 1 .. N, n <= m + 1 PROVE h[n] = turn[<<n, h[n - 1]>>]
      <4>1. n - 1 \in 0 .. N /\ n - 1 # m + 1 /\ h[n - 1] = g[n - 1]
        BY <3>3, <3>5
      <4>2. CASE n = m + 1
        <5>1. n - 1 = m /\ h[n] = next
          BY <3>3, <4>2
        <5> QED BY <4>1, <4>2, <5>1
      <4>3. CASE n # m + 1
        BY <2>1, <3>3, <3>5, <4>1, <4>3
      <4> QED BY <4>2, <4>3
    <3> QED BY <3>2, <3>4, <3>5
  <2>3. CASE m + 1 \notin 1 .. N
    <3>1. Upto(g, m + 1)
      BY <2>1, <2>3
    <3> QED BY <3>1
  <2> QED BY <2>2, <2>3
<1> HIDE DEF T
<1>3. N \in T
  BY <1>1, <1>2, AllNumbers
<1>4. PICK h \in [0 .. N -> R] : Upto(h, N)
  BY <1>3 DEF T
<1> QED BY <1>4 DEF Loops

\* A sum of terms, as a loop that adds them up.
Sums(word, N, term) == word = [n \in 0 .. N |-> IF n = 0 THEN 0 ELSE word[n - 1] + term[n]]

\* So does one that adds up terms,
LEMMA SumExists ==
  ASSUME NEW N \in Nat, NEW term, \A n \in 1 .. N : term[n] \in Nat
  PROVE  \E word : Sums(word, N, term)
<1> DEFINE turn == [p \in (1 .. N) \X Nat |-> p[2] + term[p[1]]]
<1>1. turn \in [(1 .. N) \X Nat -> Nat] /\ \A n \in 1 .. N, x \in Nat : turn[<<n, x>>] = x + term[n]
  OBVIOUS
<1>2. PICK h \in [0 .. N -> Nat] : Loops(h, N, 0, turn)
  <2> HIDE DEF turn
  <2>1. 0 \in Nat
    OBVIOUS
  <2> QED BY <1>1, <2>1, LoopExists
<1>3. \A n \in 1 .. N : h[n] = h[n - 1] + term[n]
  <2> HIDE DEF turn
  <2> SUFFICES ASSUME NEW n \in 1 .. N PROVE h[n] = h[n - 1] + term[n]
    OBVIOUS
  <2>1. n - 1 \in 0 .. N
    OBVIOUS
  <2>2. h[n - 1] \in Nat
    BY <2>1
  <2>3. turn[<<n, h[n - 1]>>] = h[n - 1] + term[n]
    BY <1>1, <2>2
  <2> QED BY <1>2, <2>2, <2>3 DEF Loops
<1>4. \A n \in 0 .. N : h[n] = IF n = 0 THEN 0 ELSE h[n - 1] + term[n]
  BY <1>2, <1>3 DEF Loops
<1>5. Sums(h, N, term)
  BY <1>4 DEF Sums
<1> QED BY <1>5

\* and that is their sum.
LEMMA SumFacts ==
  ASSUME NEW N \in Nat, NEW term, \A n \in 1 .. N : term[n] \in Nat, NEW word, Sums(word, N, term)
  PROVE  /\ word \in [0 .. N -> Nat] /\ word[0] = 0
         /\ \A n \in 1 .. N : word[n] = word[n - 1] + term[n]
<1>1. word[0] = 0 /\ \A n \in 1 .. N : word[n] = word[n - 1] + term[n]
  BY DEF Sums
<1>2. word \in [0 .. N -> Nat]
  <2> DEFINE T == {n \in Nat : n <= N => word[n] \in Nat}
  <2>1. 0 \in T
    BY <1>1
  <2>2. ASSUME NEW n \in Nat, n \in T PROVE n + 1 \in T
    <3>1. n + 1 <= N => word[n + 1] = word[n] + term[n + 1] /\ term[n + 1] \in Nat
      BY <1>1
    <3> QED BY <2>2, <3>1
  <2> HIDE DEF T
  <2>3. \A n \in Nat : n \in T
    BY <2>1, <2>2, AllNumbers
  <2>4. \A n \in 0 .. N : word[n] \in Nat
    BY <2>3 DEF T
  <2> QED BY <2>4 DEF Sums
<1> QED BY <1>1, <1>2

\* A word holds its values one above the other.
Stacked(word, N, bits, digit) ==
  /\ word \in [0 .. N -> Nat] /\ word[0] = 0
  /\ \A n \in 1 .. N : word[n] = word[n - 1] + digit[n] * 2^((n - 1) * bits)
Digits(digit, N, bits) == \A n \in 1 .. N : digit[n] \in 0 .. 2^bits - 1

\* The powers at which the values begin.
LEMMA NextPlace ==
  ASSUME NEW n \in Nat, NEW bits \in Nat
  PROVE  /\ n * bits \in Nat /\ 2^(n * bits) \in Nat /\ 2^(n * bits) >= 1
         /\ 2^((n + 1) * bits) = 2^bits * 2^(n * bits)
<1>1. n * bits \in Nat
  OBVIOUS
<1>2. (n + 1) * bits = bits + n * bits
  OBVIOUS
<1>3. 2^(bits + n * bits) = 2^bits * 2^(n * bits)
  BY <1>1, PowerOfSum
<1> QED BY <1>1, <1>2, <1>3, PowerIsPositive

\* The first values of a word stay below the place of the next one.
LEMMA WordIsBounded ==
  ASSUME NEW N \in Nat, NEW bits \in Nat, NEW digit, NEW word,
         Digits(digit, N, bits), Stacked(word, N, bits, digit), NEW n \in 0 .. N
  PROVE  word[n] < 2^(n * bits)
<1> DEFINE T == {m \in Nat : m <= N => word[m] < 2^(m * bits)}
<1>1. 0 \in T
  <2>1. 0 * bits = 0 /\ word[0] = 0
    BY DEF Stacked
  <2>2. 2^(0 * bits) = 1
    BY <2>1, PowerOfZero
  <2>3. word[0] < 2^(0 * bits)
    BY <2>1, <2>2
  <2> QED BY <2>3
<1>2. ASSUME NEW m \in Nat, m \in T, m + 1 <= N PROVE word[m + 1] < 2^((m + 1) * bits)
  <2>1. PICK p, b, d, w : p = 2^(m * bits) /\ b = 2^bits /\ d = digit[m + 1] /\ w = word[m]
    OBVIOUS
  <2>2. p \in Nat /\ 2^((m + 1) * bits) = b * p /\ b \in Nat
    BY <2>1, NextPlace, PowerIsNatural
  <2>3. m + 1 \in 1 .. N /\ (m + 1) - 1 = m /\ m \in 0 .. N
    BY <1>2
  <2>4. word[m + 1] = w + d * p /\ w \in Nat
    BY <2>1, <2>3 DEF Stacked
  <2>5. d \in 0 .. b - 1
    BY <2>1, <2>3 DEF Digits
  <2>6. w < p
    BY <1>2, <2>1
  <2>7. d * p <= (b - 1) * p
    BY <2>2, <2>5, ProductOrder
  <2>8. (b - 1) * p = b * p - p /\ d * p \in Int /\ b * p \in Int
    BY <2>2, <2>5
  <2>9. w + d * p < b * p
    BY <2>2, <2>4, <2>6, <2>7, <2>8
  <2> QED BY <2>2, <2>4, <2>9
<1>3. \A m \in Nat : m \in T => m + 1 \in T
  BY <1>2
<1> HIDE DEF T
<1>4. n \in T
  BY <1>1, <1>3, AllNumbers
<1> QED BY <1>4 DEF T

\* What is stacked above a value is a multiple of the next place.
LEMMA WordAbove ==
  ASSUME NEW N \in Nat, NEW bits \in Nat, NEW digit, NEW word,
         Digits(digit, N, bits), Stacked(word, N, bits, digit), NEW k \in 1 .. N
  PROVE  \E above \in Nat : word[N] = word[k] + above * 2^(k * bits)
<1> DEFINE T == {m \in Nat : k + m <= N =>
                   \E above \in Nat : word[k + m] = word[k] + above * 2^(k * bits)}
<1>1. 0 \in T
  <2>1. word[k] \in Nat /\ 2^(k * bits) \in Nat
    BY NextPlace DEF Stacked
  <2>2. word[k + 0] = word[k] + 0 * 2^(k * bits)
    BY <2>1
  <2> QED BY <2>2
<1>2. ASSUME NEW m \in Nat, m \in T, k + m + 1 <= N
      PROVE  \E above \in Nat : word[k + (m + 1)] = word[k] + above * 2^(k * bits)
  <2>1. PICK above \in Nat : word[k + m] = word[k] + above * 2^(k * bits)
    BY <1>2
  <2>2. PICK p, q, d, w :
          p = 2^(k * bits) /\ q = 2^(m * bits) /\ d = digit[k + m + 1] /\ w = word[k]
    OBVIOUS
  <2>3. p \in Nat /\ q \in Nat
    BY <2>2, NextPlace
  <2>4. 2^((k + m) * bits) = p * q
    <3>1. (k + m) * bits = k * bits + m * bits /\ k * bits \in Nat /\ m * bits \in Nat
      OBVIOUS
    <3> QED BY <2>2, <3>1, PowerOfSum
  <2>5. k + m + 1 \in 1 .. N /\ (k + m + 1) - 1 = k + m /\ k + (m + 1) = k + m + 1
    BY <1>2
  <2>6. word[k + m + 1] = word[k + m] + d * (p * q)
    BY <2>2, <2>4, <2>5 DEF Stacked
  <2>7. d \in Nat /\ w \in Nat
    <3>1. 2^bits \in Nat
      BY PowerIsNatural
    <3> QED BY <2>2, <2>5, <3>1 DEF Digits, Stacked
  <2>8. d * (p * q) = (d * q) * p /\ d * q \in Nat
    BY <2>3, <2>7
  <2>9. above * p + (d * q) * p = (above + d * q) * p
    BY <2>3, <2>8
  <2>10. above * p \in Nat /\ (d * q) * p \in Nat
    BY <2>3, <2>8
  <2>11. word[k + m + 1] = w + (above + d * q) * p
    <3>1. PICK x, y : x = above * p /\ y = (d * q) * p
      OBVIOUS
    <3>2. word[k + m] = w + x
      BY <2>1, <2>2, <3>1
    <3>3. word[k + m + 1] = (w + x) + y
      BY <2>6, <2>8, <3>1, <3>2
    <3>4. (w + x) + y = w + (x + y)
      BY <2>7, <2>10, <3>1
    <3> QED BY <2>9, <3>1, <3>3, <3>4
  <2>12. above + d * q \in Nat
    BY <2>8
  <2> QED BY <2>2, <2>5, <2>11, <2>12
<1>3. ASSUME NEW m \in Nat, m \in T PROVE m + 1 \in T
  <2>1. k + (m + 1) <= N => k + m + 1 <= N
    OBVIOUS
  <2>2. k + (m + 1) <= N => \E above \in Nat : word[k + (m + 1)] = word[k] + above * 2^(k * bits)
    BY <1>2, <1>3, <2>1
  <2> QED BY <2>2
<1> HIDE DEF T
<1>4. N - k \in T
  <2>1. N - k \in Nat
    OBVIOUS
  <2> QED BY <1>1, <1>3, <2>1, AllNumbers
<1>5. k + (N - k) = N /\ N <= N
  OBVIOUS
<1> QED BY <1>4, <1>5 DEF T

\* A value is read where it was written.
LEMMA DigitIsRead ==
  ASSUME NEW N \in Nat, NEW bits \in Nat, NEW digit, NEW word,
         Digits(digit, N, bits), Stacked(word, N, bits, digit), NEW k \in 1 .. N
  PROVE  (word[N] \div 2^((k - 1) * bits)) % 2^bits = digit[k]
<1>1. PICK above \in Nat : word[N] = word[k] + above * 2^(k * bits)
  BY WordAbove
<1>2. PICK p, b, d, w : p = 2^((k - 1) * bits) /\ b = 2^bits /\ d = digit[k] /\ w = word[k - 1]
  OBVIOUS
<1>3. k - 1 \in Nat /\ (k - 1) + 1 = k /\ k - 1 \in 0 .. N
  OBVIOUS
<1>4. p \in Nat /\ b \in Nat /\ 2^(k * bits) = b * p
  BY <1>2, <1>3, NextPlace, PowerIsNatural
<1>5. word[k] = w + d * p /\ w \in Nat
  BY <1>2, <1>3 DEF Stacked
<1>6. w < p
  BY <1>2, <1>3, WordIsBounded
<1>7. d \in 0 .. b - 1
  BY <1>2 DEF Digits
<1>8. d * p + above * (b * p) = (above * b + d) * p
  BY <1>4, <1>7
<1>9. /\ d * p \in Nat /\ above * (b * p) \in Nat
      /\ above * b + d \in Int /\ (above * b + d) * p \in Int
  BY <1>4, <1>7
<1>10. word[N] = (above * b + d) * p + w
  <2>1. PICK x, y : x = d * p /\ y = above * (b * p)
    OBVIOUS
  <2>2. word[N] = (w + x) + y
    BY <1>1, <1>4, <1>5, <2>1
  <2>3. (w + x) + y = (x + y) + w
    BY <1>5, <1>9, <2>1
  <2> QED BY <1>8, <2>1, <2>2, <2>3
<1>11. w \in 0 .. p - 1
  BY <1>4, <1>5, <1>6
<1>12. word[N] \div p = above * b + d
  BY <1>4, <1>9, <1>10, <1>11, DivisionIs
<1>13. (above * b + d) % b = d
  BY <1>4, <1>7, DivisionIs
<1> QED BY <1>2, <1>12, <1>13

\* What is put into a word: the value of a cell, and nothing behind the last one.
DigitOf(values, bits, w) ==
  [n \in 1 .. ValuesPerWord(bits) |->
    IF w * ValuesPerWord(bits) + n - 1 \in Cells
      THEN values[w * ValuesPerWord(bits) + n - 1] ELSE 0]

\* A packed word holds the values of its cells, and zeros in the places to spare.
LEMMA WordIsStacked ==
  ASSUME NEW values, NEW bits \in Nat, \A i \in Cells : values[i] \in 0 .. 2^bits - 1,
         NEW w \in Nat, ValuesPerWord(bits) \in Nat
  PROVE  LET N == ValuesPerWord(bits)
             digit == DigitOf(values, bits, w)
         IN  /\ Digits(digit, N, bits)
             /\ \E word : Stacked(word, N, bits, digit) /\ PackWord(values, bits, w) = word[N]
<1>1. PICK N : N = ValuesPerWord(bits)
  OBVIOUS
<1>2. PICK digit : digit = DigitOf(values, bits, w)
  OBVIOUS
<1>3. \A n \in 1 .. N : digit[n] = IF w * N + n - 1 \in Cells THEN values[w * N + n - 1] ELSE 0
  BY <1>1, <1>2 DEF DigitOf
<1>4. \A n \in 1 .. N : digit[n] \in 0 .. 2^bits - 1
  <2>1. 0 \in 0 .. 2^bits - 1
    BY PowerIsPositive
  <2> QED BY <1>3, <2>1
<1>5. PICK term : term = [n \in 1 .. N |-> digit[n] * 2^((n - 1) * bits)]
  OBVIOUS
<1>6. \A n \in 1 .. N : term[n] \in Nat /\ term[n] = digit[n] * 2^((n - 1) * bits)
  <2> SUFFICES ASSUME NEW n \in 1 .. N
               PROVE  term[n] \in Nat /\ term[n] = digit[n] * 2^((n - 1) * bits)
    OBVIOUS
  <2>1. n - 1 \in Nat
    BY <1>1
  <2>2. 2^((n - 1) * bits) \in Nat
    BY <2>1, NextPlace
  <2>3. digit[n] \in Nat
    BY <1>4
  <2> QED BY <1>5, <2>2, <2>3
<1>7. ASSUME NEW h
      PROVE  Sums(h, N, term) <=>
               h = [n \in 0 .. N |-> IF n = 0 THEN 0
                      ELSE h[n - 1] + (IF w * N + n - 1 \in Cells
                                         THEN values[w * N + n - 1] * 2^((n - 1) * bits) ELSE 0)]
  <2>1. ASSUME NEW n \in 0 .. N, n # 0
        PROVE  term[n] = IF w * N + n - 1 \in Cells
                           THEN values[w * N + n - 1] * 2^((n - 1) * bits) ELSE 0
    <3>1. n \in 1 .. N /\ n - 1 \in Nat
      BY <1>1, <2>1
    <3>2. 2^((n - 1) * bits) \in Nat
      BY <3>1, NextPlace
    <3>3. 0 * 2^((n - 1) * bits) = 0
      BY <3>2
    <3> QED BY <1>3, <1>6, <3>1, <3>3
  <2>2. [n \in 0 .. N |-> IF n = 0 THEN 0 ELSE h[n - 1] + term[n]]
          = [n \in 0 .. N |-> IF n = 0 THEN 0
              ELSE h[n - 1] + (IF w * N + n - 1 \in Cells
                                 THEN values[w * N + n - 1] * 2^((n - 1) * bits) ELSE 0)]
    BY <2>1
  <2> QED BY <2>2 DEF Sums
<1>8. PICK word : word = CHOOSE h :
        h = [n \in 0 .. N |-> IF n = 0 THEN 0
               ELSE h[n - 1] + (IF w * N + n - 1 \in Cells
                                  THEN values[w * N + n - 1] * 2^((n - 1) * bits) ELSE 0)]
  OBVIOUS
<1>9. PackWord(values, bits, w) = word[N]
  BY <1>1, <1>8 DEF PackWord
<1>10. Sums(word, N, term)
  <2>1. \E h : Sums(h, N, term)
    BY <1>1, <1>6, SumExists
  <2> QED BY <1>7, <1>8, <2>1
<1>11. Stacked(word, N, bits, digit)
  <2>1. word \in [0 .. N -> Nat] /\ word[0] = 0 /\ \A n \in 1 .. N : word[n] = word[n - 1] + term[n]
    BY <1>1, <1>6, <1>10, SumFacts
  <2> QED BY <1>6, <2>1 DEF Stacked
<1> QED BY <1>1, <1>2, <1>4, <1>9, <1>11 DEF Digits

\* Where the value of a cell is.
LEMMA CellPlace ==
  ASSUME NEW per \in Nat, per > 0, NEW i \in Cells
  PROVE  /\ i \div per \in Nat /\ (i % per) + 1 \in 1 .. per
         /\ (i \div per) * per + ((i % per) + 1) - 1 = i
         /\ i \div per + 1 \in 1 .. (Edge * Edge + per - 1) \div per
<1>1. PICK e : e = Edge * Edge
  OBVIOUS
<1>2. e \in Nat /\ i \in 0 .. e - 1
  BY <1>1, WorldDataAssumption DEF Cells
<1>3. PICK q, r : q = i \div per /\ r = i % per
  OBVIOUS
<1>4. q \in Int /\ r \in 0 .. per - 1 /\ i = q * per + r
  BY <1>2, <1>3, DivisionFacts
<1>5. q >= 0
  <2>1. SUFFICES ASSUME q <= 0 - 1 PROVE FALSE
    BY <1>4
  <2>2. q * per <= (0 - 1) * per
    BY <1>4, <2>1, ProductOrder
  <2>3. q * per \in Int /\ (0 - 1) * per = 0 - per
    BY <1>4
  <2> QED BY <1>2, <1>4, <2>2, <2>3
<1>6. PICK m, s : m = (e + per - 1) \div per /\ s = (e + per - 1) % per
  OBVIOUS
<1>7. m \in Int /\ s \in 0 .. per - 1 /\ e + per - 1 = m * per + s
  BY <1>2, <1>6, DivisionFacts
<1>8. q + 1 <= m
  <2>1. SUFFICES ASSUME m <= q PROVE FALSE
    BY <1>4, <1>7
  <2>2. m * per <= q * per
    BY <1>4, <1>7, <2>1, ProductOrder
  <2>3. q * per \in Int /\ m * per \in Int
    BY <1>4, <1>7
  <2> QED BY <1>2, <1>4, <1>7, <2>2, <2>3
<1>9. q \in Nat /\ r + 1 \in 1 .. per /\ q * per + (r + 1) - 1 = i /\ q + 1 \in 1 .. m
  <2>1. q * per \in Int
    BY <1>4
  <2> QED BY <1>4, <1>5, <1>7, <1>8, <2>1
<1> QED BY <1>1, <1>3, <1>6, <1>9

\* Packed values are read as they were.
LEMMA UnpackedIsPacked ==
  ASSUME NEW values, NEW bits \in 1 .. WordBits, \A i \in Cells : values[i] \in 0 .. 2^bits - 1,
         NEW i \in Cells
  PROVE  UnpackValue(PackValues(values, bits), bits, i) = values[i]
<1>1. PICK per : per = ValuesPerWord(bits)
  OBVIOUS
<1>2. WordBits \in Nat /\ bits \in Nat
  BY WorldDataAssumption
<1>3. per \in Nat /\ per > 0
  <2>1. per = WordBits \div bits
    BY <1>1 DEF ValuesPerWord
  <2>2. /\ per \in Int /\ WordBits % bits \in 0 .. bits - 1
        /\ WordBits = per * bits + (WordBits % bits)
    BY <1>2, <2>1, DivisionFacts
  <2>3. SUFFICES ASSUME per <= 0 PROVE FALSE
    BY <2>2
  <2>4. per * bits <= 0 * bits
    BY <1>2, <2>2, <2>3, ProductOrder
  <2>5. 0 * bits = 0 /\ per * bits \in Int
    BY <1>2, <2>2
  <2> QED BY <1>2, <2>2, <2>4, <2>5
<1>4. PICK w, k : w = i \div per /\ k = (i % per) + 1
  OBVIOUS
<1>5. /\ w \in Nat /\ k \in 1 .. per /\ w * per + k - 1 = i
      /\ w + 1 \in 1 .. (Edge * Edge + per - 1) \div per
  BY <1>3, <1>4, CellPlace
<1>6. PICK digit : digit = DigitOf(values, bits, w)
  OBVIOUS
<1>7. Digits(digit, per, bits)
  BY <1>1, <1>2, <1>3, <1>5, <1>6, WordIsStacked
<1>8. PICK word : Stacked(word, per, bits, digit) /\ PackWord(values, bits, w) = word[per]
  BY <1>1, <1>2, <1>3, <1>5, <1>6, WordIsStacked
<1>9. digit[k] = values[i]
  BY <1>1, <1>5, <1>6 DEF DigitOf
<1>10. PackValues(values, bits)[w + 1] = word[per]
  <2>1. (w + 1) - 1 = w
    BY <1>5
  <2>2. PackValues(values, bits)[w + 1] = PackWord(values, bits, (w + 1) - 1)
    BY <1>1, <1>5 DEF PackValues
  <2> QED BY <1>8, <2>1, <2>2
<1>11. (word[per] \div 2^((k - 1) * bits)) % 2^bits = digit[k]
  BY <1>2, <1>3, <1>5, <1>7, <1>8, DigitIsRead
<1>12. k - 1 = i % per
  <2>1. i % per \in 0 .. per - 1
    <3>1. i \in Int
      BY WorldDataAssumption DEF Cells
    <3> QED BY <1>3, <3>1, DivisionFacts
  <2> QED BY <1>4, <2>1
<1>13. UnpackValue(PackValues(values, bits), bits, i)
         = (PackValues(values, bits)[w + 1] \div 2^((i % per) * bits)) % 2^bits
  BY <1>1, <1>4 DEF UnpackValue
<1> QED BY <1>9, <1>10, <1>11, <1>12, <1>13

----------------------------------------------------------------------------
(* Palettes.                                                               *)

\* A palette of the first n values: each of them once.
PaletteFor(palette, values, n, V) ==
  /\ palette \in Seq(V) /\ Len(palette) <= n
  /\ \A k, l \in 1 .. Len(palette) : palette[k] = palette[l] => k = l
  /\ \A i \in 0 .. n - 1 : \E k \in 1 .. Len(palette) : palette[k] = values[i]

\* One more value.
LEMMA ValueAdded ==
  ASSUME NEW values, NEW V, NEW n \in Nat, NEW palette, PaletteFor(palette, values, n, V),
         values[n] \in V
  PROVE  PaletteFor(WithValue(palette, values[n]), values, n + 1, V)
<1>1. PICK v, m : v = values[n] /\ m = Len(palette)
  OBVIOUS
<1>2. palette \in Seq(V) /\ m \in Nat /\ DOMAIN palette = 1 .. m /\ m <= n
  BY <1>1 DEF PaletteFor
<1>3. \A i \in 0 .. (n + 1) - 1 : i \in 0 .. n - 1 \/ i = n
  OBVIOUS
<1>4. CASE \E k \in 1 .. m : palette[k] = v
  <2>1. WithValue(palette, v) = palette
    BY <1>2, <1>4 DEF WithValue
  <2>2. \A i \in 0 .. (n + 1) - 1 : \E k \in 1 .. m : palette[k] = values[i]
    BY <1>1, <1>3, <1>4 DEF PaletteFor
  <2>3. m <= n + 1
    BY <1>2
  <2> QED BY <1>1, <2>1, <2>2, <2>3 DEF PaletteFor
<1>5. CASE ~\E k \in 1 .. m : palette[k] = v
  <2>1. PICK q : q = Append(palette, v)
    OBVIOUS
  <2>2. WithValue(palette, v) = q
    BY <1>2, <1>5, <2>1 DEF WithValue
  <2>3. /\ q \in Seq(V) /\ Len(q) = m + 1
        /\ \A k \in 1 .. m : q[k] = palette[k]
        /\ q[m + 1] = v
    BY <1>1, <1>2, <2>1
  <2>4. ASSUME NEW k \in 1 .. m + 1, NEW l \in 1 .. m + 1, q[k] = q[l] PROVE k = l
    <3>1. CASE k \in 1 .. m /\ l \in 1 .. m
      BY <1>1, <2>3, <2>4, <3>1 DEF PaletteFor
    <3>2. CASE k = m + 1 /\ l \in 1 .. m
      BY <1>5, <2>3, <2>4, <3>2
    <3>3. CASE k \in 1 .. m /\ l = m + 1
      BY <1>5, <2>3, <2>4, <3>3
    <3> QED BY <1>2, <3>1, <3>2, <3>3
  <2>5. ASSUME NEW i \in 0 .. (n + 1) - 1 PROVE \E k \in 1 .. m + 1 : q[k] = values[i]
    <3>1. CASE i = n
      <4>1. m + 1 \in 1 .. m + 1
        BY <1>2
      <4> QED BY <1>1, <2>3, <3>1, <4>1
    <3>2. CASE i \in 0 .. n - 1
      <4>1. PICK k \in 1 .. m : palette[k] = values[i]
        BY <1>1, <3>2 DEF PaletteFor
      <4>2. k \in 1 .. m + 1
        BY <1>2, <4>1
      <4> QED BY <2>3, <4>1, <4>2
    <3> QED BY <1>3, <3>1, <3>2
  <2>6. m + 1 <= n + 1
    BY <1>2
  <2> QED BY <1>1, <2>2, <2>3, <2>4, <2>5, <2>6 DEF PaletteFor
<1> QED BY <1>1, <1>2, <1>4, <1>5

\* The number of cells.
LEMMA Area ==
  /\ Edge * Edge \in Nat /\ Edge * Edge >= 1 /\ Cells = 0 .. Edge * Edge - 1
  /\ Cells = {n - 1 : n \in 1 .. Edge * Edge}
<1>1. Edge \in Nat /\ Edge >= 1
  BY WorldDataAssumption
<1>2. 1 * Edge <= Edge * Edge
  BY <1>1, ProductOrder
<1>3. PICK e : e = Edge * Edge
  OBVIOUS
<1>4. e \in Nat /\ e >= 1
  BY <1>1, <1>2, <1>3
<1>5. \A i \in 0 .. e - 1 : i + 1 \in 1 .. e /\ i = (i + 1) - 1
  BY <1>4
<1>6. \A n \in 1 .. e : n - 1 \in 0 .. e - 1
  BY <1>4
<1>7. 0 .. e - 1 = {n - 1 : n \in 1 .. e}
  BY <1>5, <1>6
<1> QED BY <1>3, <1>4, <1>7 DEF Cells

\* The palette of all values.
LEMMA PaletteFacts ==
  ASSUME NEW values, NEW V, \A i \in Cells : values[i] \in V
  PROVE  PaletteFor(PaletteOf(values), values, Edge * Edge, V)
<1>1. PICK N : N = Edge * Edge
  OBVIOUS
<1>2. N \in Nat /\ \A n \in 1 .. N : n - 1 \in Cells
  BY <1>1, Area
<1> DEFINE turn == [p \in (1 .. N) \X Seq(V) |-> WithValue(p[2], values[p[1] - 1])]
           Body(h) == [n \in 0 .. N |-> IF n = 0 THEN <<>> ELSE WithValue(h[n - 1], values[n - 1])]
<1>3. ASSUME NEW n \in 1 .. N, NEW q \in Seq(V) PROVE WithValue(q, values[n - 1]) \in Seq(V)
  <2>1. PICK v : v = values[n - 1]
    OBVIOUS
  <2>2. v \in V
    BY <1>2, <2>1
  <2>3. Append(q, v) \in Seq(V)
    BY <2>2
  <2> QED BY <2>1, <2>3 DEF WithValue
<1>4. /\ turn \in [(1 .. N) \X Seq(V) -> Seq(V)]
      /\ \A n \in 1 .. N, q \in Seq(V) : turn[<<n, q>>] = WithValue(q, values[n - 1])
  BY <1>3
<1>5. \E h : h = Body(h)
  <2>1. PICK h \in [0 .. N -> Seq(V)] : Loops(h, N, <<>>, turn)
    <3> HIDE DEF turn
    <3>1. <<>> \in Seq(V)
      OBVIOUS
    <3> QED BY <1>2, <1>4, <3>1, LoopExists
  <2>2. ASSUME NEW n \in 1 .. N PROVE h[n] = WithValue(h[n - 1], values[n - 1])
    <3> HIDE DEF turn
    <3>1. h[n - 1] \in Seq(V)
      BY <1>2
    <3> QED BY <1>4, <2>1, <3>1 DEF Loops
  <2>3. \A n \in 0 .. N : h[n] = IF n = 0 THEN <<>> ELSE WithValue(h[n - 1], values[n - 1])
    BY <2>1, <2>2 DEF Loops
  <2>4. h = Body(h)
    BY <2>3
  <2> QED BY <2>4
<1>6. PICK h : h = CHOOSE x : x = Body(x)
  OBVIOUS
<1>7. h = Body(h)
  BY <1>5, <1>6
<1>8. PaletteOf(values) = h[N]
  BY <1>1, <1>6 DEF PaletteOf
<1>9. h[0] = <<>> /\ \A n \in 1 .. N : h[n] = WithValue(h[n - 1], values[n - 1])
  BY <1>2, <1>7
<1> DEFINE T == {n \in Nat : n <= N => PaletteFor(h[n], values, n, V)}
<1>10. 0 \in T
  <2>1. h[0] \in Seq(V) /\ Len(h[0]) = 0
    BY <1>9
  <2>2. PaletteFor(h[0], values, 0, V)
    BY <2>1 DEF PaletteFor
  <2> QED BY <2>2
<1>11. ASSUME NEW n \in Nat, n \in T, n + 1 <= N PROVE PaletteFor(h[n + 1], values, n + 1, V)
  <2>1. n + 1 \in 1 .. N /\ (n + 1) - 1 = n
    BY <1>2, <1>11
  <2>2. PaletteFor(h[n], values, n, V)
    BY <1>2, <1>11
  <2>3. h[n + 1] = WithValue(h[n], values[n]) /\ values[n] \in V
    BY <1>2, <1>9, <2>1
  <2> QED BY <2>2, <2>3, ValueAdded
<1>12. \A n \in Nat : n \in T => n + 1 \in T
  BY <1>11
<1> HIDE DEF T
<1>13. N \in T
  BY <1>2, <1>10, <1>12, AllNumbers
<1>14. PaletteFor(h[N], values, N, V)
  BY <1>2, <1>13 DEF T
<1> QED BY <1>1, <1>8, <1>14

\* Where a value is in its palette.
LEMMA IndexFacts ==
  ASSUME NEW values, NEW V, NEW palette, PaletteFor(palette, values, Edge * Edge, V),
         NEW i \in Cells
  PROVE  /\ IndexIn(palette, values[i]) \in 0 .. Len(palette) - 1
         /\ palette[IndexIn(palette, values[i]) + 1] = values[i]
<1>1. PICK m : m = Len(palette)
  OBVIOUS
<1>2. m \in Nat /\ DOMAIN palette = 1 .. m
  BY <1>1 DEF PaletteFor
<1>3. i \in 0 .. Edge * Edge - 1
  BY Area
<1>4. \E k \in 1 .. m : palette[k] = values[i]
  BY <1>1, <1>3 DEF PaletteFor
<1>5. PICK k : k = CHOOSE x \in DOMAIN palette : palette[x] = values[i]
  OBVIOUS
<1>6. k \in 1 .. m /\ palette[k] = values[i]
  BY <1>2, <1>4, <1>5
<1>7. IndexIn(palette, values[i]) = k - 1
  BY <1>5 DEF IndexIn
<1>8. (k - 1) + 1 = k /\ k - 1 \in 0 .. m - 1
  BY <1>2, <1>6
<1> QED BY <1>1, <1>6, <1>7, <1>8

\* The bits of a palette index, when there is something to tell apart.
LEMMA PaletteBits ==
  ASSUME NEW m \in Nat, 1 < m, m <= Edge * Edge
  PROVE  LET bits == BitsPerPaletteValue(m) IN
           /\ bits \in 1 .. WordBits /\ m - 1 < 2^bits
           /\ bits <= MinBits \/ 2^(bits - 1) < m
<1>1. m - 1 \in 0 .. 2^WordBits - 1
  <2>1. PICK p, e : p = 2^WordBits /\ e = Edge * Edge
    OBVIOUS
  <2>2. p \in Nat /\ e \in Nat /\ e <= p
    BY <2>1, Area, StatesAssumption, WorldDataAssumption, PowerIsNatural
  <2> QED BY <2>1, <2>2
<1>2. PICK b : b = BitLength(m - 1)
  OBVIOUS
<1>3. b \in 0 .. WordBits /\ m - 1 < 2^b /\ (b = 0 \/ m - 1 >= 2^(b - 1))
  BY <1>1, <1>2, BitLengthFacts
<1>4. b # 0
  <2>1. SUFFICES ASSUME b = 0 PROVE FALSE
    OBVIOUS
  <2>2. m - 1 < 1
    BY <1>3, <2>1, PowerOfZero
  <2> QED BY <2>2
<1>5. MinBits \in 1 .. WordBits /\ WordBits \in Nat
  BY WorldDataAssumption
<1>6. CASE b < MinBits
  <2>1. BitsPerPaletteValue(m) = MinBits
    BY <1>2, <1>6 DEF BitsPerPaletteValue
  <2>2. 2^b <= 2^MinBits
    BY <1>3, <1>5, <1>6, PowerOrder
  <2>3. 2^b \in Nat /\ 2^MinBits \in Nat
    BY <1>3, <1>5, PowerIsNatural
  <2>4. m - 1 < 2^MinBits
    BY <1>3, <2>2, <2>3
  <2> QED BY <1>5, <2>1, <2>4
<1>7. CASE ~(b < MinBits)
  <2>1. BitsPerPaletteValue(m) = b
    BY <1>2, <1>7 DEF BitsPerPaletteValue
  <2>2. 2^(b - 1) \in Nat
    BY <1>3, <1>4, PowerIsNatural
  <2>3. 2^(b - 1) < m
    BY <1>3, <1>4, <2>2
  <2> QED BY <1>3, <1>4, <2>1, <2>3
<1> QED BY <1>6, <1>7

\* The indices of a palette, packed, lead back to the values.
LEMMA IndicesAreRead ==
  ASSUME NEW values, NEW V, NEW palette, PaletteFor(palette, values, Edge * Edge, V),
         1 < Len(palette), NEW i \in Cells
  PROVE  LET bits == BitsPerPaletteValue(Len(palette))
             words == PackValues([j \in Cells |-> IndexIn(palette, values[j])], bits)
         IN  palette[UnpackValue(words, bits, i) + 1] = values[i]
<1>1. PICK m, bits : m = Len(palette) /\ bits = BitsPerPaletteValue(m)
  OBVIOUS
<1>2. m \in Nat /\ 1 < m /\ m <= Edge * Edge
  BY <1>1 DEF PaletteFor
<1>3. bits \in 1 .. WordBits /\ m - 1 < 2^bits
  BY <1>1, <1>2, PaletteBits
<1>4. PICK indices : indices = [j \in Cells |-> IndexIn(palette, values[j])]
  OBVIOUS
<1>5. \A j \in Cells : indices[j] \in 0 .. 2^bits - 1
  <2> SUFFICES ASSUME NEW j \in Cells PROVE indices[j] \in 0 .. 2^bits - 1
    OBVIOUS
  <2>1. indices[j] \in 0 .. m - 1
    BY <1>1, <1>4, IndexFacts
  <2>2. 2^bits \in Nat
    BY <1>3, PowerIsNatural
  <2> QED BY <1>2, <1>3, <2>1, <2>2
<1>6. UnpackValue(PackValues(indices, bits), bits, i) = indices[i]
  BY <1>3, <1>5, UnpackedIsPacked
<1>7. palette[indices[i] + 1] = values[i]
  BY <1>4, IndexFacts
<1> QED BY <1>1, <1>4, <1>6, <1>7

\* A palette of one value is that of every cell.
LEMMA SingleValue ==
  ASSUME NEW values, NEW V, NEW palette, PaletteFor(palette, values, Edge * Edge, V),
         Len(palette) = 1, NEW i \in Cells
  PROVE  palette[1] = values[i]
<1>1. i \in 0 .. Edge * Edge - 1
  BY Area
<1>2. PICK k \in 1 .. 1 : palette[k] = values[i]
  BY <1>1 DEF PaletteFor
<1>3. k = 1
  BY <1>2
<1> QED BY <1>2, <1>3

\* There are cells, so there is a value.
LEMMA PaletteIsNotEmpty ==
  ASSUME NEW values, NEW V, NEW palette, PaletteFor(palette, values, Edge * Edge, V)
  PROVE  Len(palette) \in Nat /\ Len(palette) >= 1
<1>1. 0 \in 0 .. Edge * Edge - 1
  BY Area
<1>2. PICK k \in 1 .. Len(palette) : palette[k] = values[0]
  BY <1>1 DEF PaletteFor
<1>3. Len(palette) \in Nat
  BY DEF PaletteFor
<1> QED BY <1>2, <1>3

\* Values below a bound are not more than the bound.
LEMMA PaletteIsBounded ==
  ASSUME NEW values, NEW V, NEW palette, PaletteFor(palette, values, Edge * Edge, V),
         NEW n \in Nat, V \subseteq 0 .. n - 1
  PROVE  Len(palette) <= n
<1>1. PICK m : m = Len(palette)
  OBVIOUS
<1>2. m \in Nat /\ palette \in [1 .. m -> 0 .. n - 1]
  <2>1. palette \in Seq(V)
    BY DEF PaletteFor
  <2>2. m \in Nat /\ palette \in [1 .. m -> V]
    BY <1>1, <2>1
  <2> QED BY <2>2
<1>3. palette \in Injection(1 .. m, 0 .. n - 1)
  <2>1. \A k, l \in 1 .. m : palette[k] = palette[l] => k = l
    BY <1>1 DEF PaletteFor
  <2>2. DOMAIN palette = 1 .. m
    BY <1>2
  <2> QED BY <1>2, <2>1, <2>2 DEF Injection, IsInjective
<1>4. IsFiniteSet(1 .. m) /\ Cardinality(1 .. m) = m
  BY <1>2, FS_Interval
<1>5. n - 1 \in Int /\ IsFiniteSet(0 .. n - 1) /\ Cardinality(0 .. n - 1) = n
  <2>1. n - 1 \in Int /\ 0 \in Int
    OBVIOUS
  <2>2. /\ IsFiniteSet(0 .. n - 1)
        /\ Cardinality(0 .. n - 1) = IF 0 > n - 1 THEN 0 ELSE (n - 1) - 0 + 1
    BY <2>1, FS_Interval
  <2> QED BY <2>1, <2>2
<1>6. Cardinality(1 .. m) <= Cardinality(0 .. n - 1)
  BY <1>3, <1>5, FS_Injection DEF ExistsInjection
<1> QED BY <1>1, <1>4, <1>5, <1>6

\* The largest value of a container.
LEMMA LargestValue ==
  ASSUME NEW values, NEW n \in Nat, \A i \in Cells : values[i] \in 0 .. n - 1
  PROVE  LET largest == Max({values[i] : i \in Cells}) IN
           largest \in 0 .. n - 1 /\ \A i \in Cells : values[i] <= largest
<1> DEFINE S == {values[i] : i \in Cells}
           T == {m \in Nat : n - m \in S}
<1>1. \A i \in Cells : n - values[i] \in Nat /\ n - (n - values[i]) = values[i]
  OBVIOUS
<1>2. 0 \in Cells
  BY Area
<1>3. n - values[0] \in T
  BY <1>1, <1>2
<1>4. PICK k \in T : \A m \in T : ~(m < k)
  BY <1>3, SmallestExists
<1>5. n - k \in S
  BY <1>4
<1>6. ASSUME NEW y \in S PROVE n - k >= y
  <2>1. y \in 0 .. n - 1 /\ n - y \in Nat /\ n - (n - y) = y
    BY <1>6
  <2>2. n - y \in T
    BY <1>6, <2>1
  <2>3. ~(n - y < k)
    BY <1>4, <2>2
  <2> QED BY <1>4, <2>1, <2>3
<1>7. PICK l : l = Max(S)
  OBVIOUS
<1>8. l \in S /\ \A y \in S : l >= y
  <2>1. \E x \in S : \A y \in S : x >= y
    BY <1>5, <1>6
  <2> QED BY <1>7, <2>1 DEF Max
<1>9. l \in 0 .. n - 1
  BY <1>8
<1>10. ASSUME NEW i \in Cells PROVE values[i] <= l
  <2>1. values[i] \in S
    OBVIOUS
  <2> QED BY <1>8, <1>9, <2>1
<1> QED BY <1>7, <1>9, <1>10

\* What a client reads from a container is what was put into it, whether the
\* container has one value, a palette, or the values themselves.
LEMMA ContainerIsRead ==
  ASSUME NEW values, values = [i \in Cells |-> values[i]],
         \A i \in Cells : values[i] \in KnownStates
  PROVE  ReadContainer(EncodeContainer(values)) = values
<1>1. PICK palette, m, bits :
        palette = PaletteOf(values) /\ m = Len(palette) /\ bits = BitsPerPaletteValue(m)
  OBVIOUS
<1>2. PaletteFor(palette, values, Edge * Edge, KnownStates)
  BY <1>1, PaletteFacts
<1>3. m \in Nat /\ m >= 1 /\ m <= Edge * Edge
  BY <1>1, <1>2, PaletteIsNotEmpty DEF PaletteFor
<1>4. PICK limit : limit = 2^WordBits
  OBVIOUS
<1>5. limit \in Nat /\ \A i \in Cells : values[i] \in 0 .. limit - 1
  BY <1>4, StatesAssumption, WorldDataAssumption, PowerIsNatural
<1>6. PICK largest, highest, global :
        /\ largest = Max({values[i] : i \in Cells}) /\ highest = BitLength(largest)
        /\ global = IF highest = 0 THEN 1 ELSE highest
  OBVIOUS
<1>7. largest \in 0 .. limit - 1 /\ \A i \in Cells : values[i] <= largest
  BY <1>5, <1>6, LargestValue
<1>8. highest \in 0 .. WordBits /\ largest < 2^highest
  BY <1>4, <1>6, <1>7, BitLengthFacts
<1>9. PICK indices : indices = [i \in Cells |-> IndexIn(palette, values[i])]
  OBVIOUS
<1>10. EncodeContainer(values)
         = IF m = 1 THEN [bits |-> 0, palette |-> palette, words |-> <<>>]
           ELSE IF bits <= MaxIndirectBits
             THEN [bits |-> bits, palette |-> palette, words |-> PackValues(indices, bits)]
           ELSE [bits |-> global, palette |-> <<>>, words |-> PackValues(values, global)]
  BY <1>1, <1>6, <1>9 DEF EncodeContainer
<1>11. MaxIndirectBits \in Nat /\ 1 <= MinBits /\ MinBits <= MaxIndirectBits /\ MinBits \in Nat
       /\ WordBits \in Nat
  BY WorldDataAssumption
<1>12. PICK c : c = EncodeContainer(values)
  OBVIOUS
<1>13. CASE m = 1
  <2>1. c = [bits |-> 0, palette |-> palette, words |-> <<>>]
    BY <1>10, <1>12, <1>13
  <2>2. ASSUME NEW i \in Cells PROVE c.palette[1] = values[i]
    BY <1>1, <1>2, <1>13, <2>1, SingleValue
  <2>3. ReadContainer(c) = [i \in Cells |-> c.palette[1]]
    BY <2>1, <1>11 DEF ReadContainer
  <2>4. ReadContainer(c) = [i \in Cells |-> values[i]]
    BY <2>2, <2>3
  <2> QED BY <1>12, <2>4
<1>14. CASE m # 1 /\ bits <= MaxIndirectBits
  <2>1. c = [bits |-> bits, palette |-> palette, words |-> PackValues(indices, bits)]
    BY <1>10, <1>12, <1>14
  <2>2. 1 < m
    BY <1>3, <1>14
  <2>3. bits \in 1 .. MaxIndirectBits
    BY <1>1, <1>3, <1>11, <1>14, <2>2, PaletteBits
  <2>4. ASSUME NEW i \in Cells
        PROVE  palette[UnpackValue(PackValues(indices, bits), bits, i) + 1] = values[i]
    BY <1>1, <1>2, <1>9, <2>2, IndicesAreRead
  <2>5. c.bits = bits /\ c.palette = palette /\ c.words = PackValues(indices, bits) /\ bits # 0
    BY <2>1, <2>3
  <2>6. ReadContainer(c)
          = [i \in Cells |-> palette[UnpackValue(PackValues(indices, bits), bits, i) + 1]]
    BY <2>3, <2>5 DEF ReadContainer
  <2>7. ReadContainer(c) = [i \in Cells |-> values[i]]
    BY <2>4, <2>6
  <2> QED BY <1>12, <2>7
<1>15. CASE m # 1 /\ ~(bits <= MaxIndirectBits)
  <2>1. 1 < m
    BY <1>3, <1>15
  <2>2. bits \in 1 .. WordBits /\ (bits <= MinBits \/ 2^(bits - 1) < m)
    BY <1>1, <1>3, <2>1, PaletteBits
  <2>3. 2^(bits - 1) < m /\ bits - 1 \in Nat /\ MaxIndirectBits <= bits - 1
    BY <1>11, <1>15, <2>2
  <2>4. 2^MaxIndirectBits < m /\ 2^MaxIndirectBits \in Nat
    <3>1. 2^MaxIndirectBits <= 2^(bits - 1)
      BY <1>11, <2>3, PowerOrder
    <3>2. 2^MaxIndirectBits \in Nat /\ 2^(bits - 1) \in Nat
      BY <1>11, <2>3, PowerIsNatural
    <3> QED BY <1>3, <2>3, <3>1, <3>2
  <2>5. highest > MaxIndirectBits
    <3>1. SUFFICES ASSUME highest <= MaxIndirectBits PROVE FALSE
      BY <1>8, <1>11
    <3>2. 2^highest <= 2^MaxIndirectBits /\ 2^highest \in Nat
      BY <1>8, <1>11, <3>1, PowerOrder, PowerIsNatural
    <3>3. \A i \in Cells : values[i] \in 0 .. 2^MaxIndirectBits - 1
      BY <1>5, <1>7, <1>8, <2>4, <3>2
    <3>4. PICK V : V = 0 .. 2^MaxIndirectBits - 1
      OBVIOUS
    <3>5. PaletteFor(palette, values, Edge * Edge, V)
      BY <1>1, <3>3, <3>4, PaletteFacts
    <3>6. m <= 2^MaxIndirectBits
      BY <1>1, <2>4, <3>4, <3>5, PaletteIsBounded
    <3> QED BY <1>3, <2>4, <3>6
  <2>6. global = highest /\ global \in 1 .. WordBits /\ global \notin 0 .. MaxIndirectBits
    BY <1>6, <1>8, <1>11, <2>5
  <2>7. c = [bits |-> global, palette |-> <<>>, words |-> PackValues(values, global)]
    BY <1>10, <1>12, <1>15
  <2>8. \A i \in Cells : values[i] \in 0 .. 2^global - 1
    <3>1. 2^global \in Nat
      BY <2>6, PowerIsNatural
    <3> QED BY <1>5, <1>7, <1>8, <2>6, <3>1
  <2>9. ASSUME NEW i \in Cells PROVE UnpackValue(PackValues(values, global), global, i) = values[i]
    BY <2>6, <2>8, UnpackedIsPacked
  <2>10. c.bits = global /\ c.words = PackValues(values, global)
    BY <2>7
  <2>11. ReadContainer(c) = [i \in Cells |-> UnpackValue(PackValues(values, global), global, i)]
    BY <2>6, <2>10, <1>11 DEF ReadContainer
  <2>12. ReadContainer(c) = [i \in Cells |-> values[i]]
    BY <2>9, <2>11
  <2> QED BY <1>12, <2>12
<1> QED BY <1>13, <1>14, <1>15

\* A section of a region file is read as it was meant.
LEMMA WrittenIsRead ==
  ASSUME NEW section
  PROVE  PalettedValues(Written(section)) = [i \in Cells |-> section.names[i]]
<1>1. PICK names, palette, m, bits :
        names = section.names /\ palette = PaletteOf(names) /\ m = Len(palette)
        /\ bits = BitsPerPaletteValue(m)
  OBVIOUS
<1>2. PICK V : V = {names[i] : i \in Cells}
  OBVIOUS
<1>3. PaletteFor(palette, names, Edge * Edge, V)
  BY <1>1, <1>2, PaletteFacts
<1>4. m \in Nat /\ m >= 1
  BY <1>1, <1>3, PaletteIsNotEmpty
<1>5. PICK words : words = PackValues([i \in Cells |-> IndexIn(palette, names[i])], bits)
  OBVIOUS
<1>6. PICK w : w = Written(section)
  OBVIOUS
<1>7. w.palette = palette /\ w.data = IF m = 1 THEN <<>> ELSE words
  BY <1>1, <1>5, <1>6 DEF Written
<1>8. PalettedValues(w) = [i \in Cells |-> IF m = 1 THEN palette[1]
                                           ELSE palette[UnpackValue(w.data, bits, i) + 1]]
  BY <1>1, <1>7 DEF PalettedValues
<1>9. ASSUME NEW i \in Cells
      PROVE  (IF m = 1 THEN palette[1] ELSE palette[UnpackValue(w.data, bits, i) + 1]) = names[i]
  <2>1. CASE m = 1
    <3>1. Len(palette) = 1
      BY <1>1, <2>1
    <3>2. palette[1] = names[i]
      BY <1>3, <3>1, SingleValue
    <3> QED BY <2>1, <3>2
  <2>2. CASE m # 1
    <3>1. 1 < m
      BY <1>4, <2>2
    <3>2. palette[UnpackValue(words, bits, i) + 1] = names[i]
      BY <1>1, <1>3, <1>5, <3>1, IndicesAreRead
    <3>3. w.data = words
      BY <1>7, <2>2
    <3> QED BY <2>2, <3>2, <3>3
  <2> QED BY <2>1, <2>2
<1>10. PalettedValues(w) = [i \in Cells |-> names[i]]
  BY <1>8, <1>9
<1> QED BY <1>1, <1>6, <1>10

(***************************************************************************)
(* The world and its snapshot.                                             *)
(***************************************************************************)

\* Sections of known blocks that know how many of them are not air.
Counted(section) ==
  /\ section = [cells |-> section.cells, count |-> NonEmpty(section.cells)]
  /\ section.cells \in [Cells -> KnownStates]

ChunkOK(chunk) ==
  /\ chunk = [min |-> chunk.min, sections |-> [k \in DOMAIN chunk.sections |-> chunk.sections[k]]]
  /\ \A k \in DOMAIN chunk.sections : Counted(chunk.sections[k])

StoreOK(s) ==
  /\ s = [pos \in DOMAIN s |-> s[pos]]
  /\ \A pos \in DOMAIN s : ChunkOK(s[pos])

\* A store that the server starts with again.
Restartable(s) == StoreOK(s) /\ (GoodSeed => ValidStore(s))

WorldDataInvariant ==
  /\ phase = "up" => Restartable(store)
  /\ file # NoFile => \E s : Restartable(s) /\ file = Capture(s)
  /\ GoodSeed => phase # "rejected"

----------------------------------------------------------------------------
\* A section has finitely many cells.
LEMMA CellsAreFinite == IsFiniteSet(Cells)
<1>1. IsFiniteSet(0 .. Edge * Edge - 1)
  <2>1. Edge * Edge - 1 \in Int
    BY WorldDataAssumption
  <2> QED BY <2>1, FS_Interval
<1> QED BY <1>1 DEF Cells

\* Setting a cell keeps the count right.
LEMMA CellSet ==
  ASSUME NEW section, Counted(section), NEW i \in Cells, NEW state \in KnownStates
  PROVE  Counted(SetCell(section, i, state))
<1> DEFINE filled == {j \in Cells : section.cells[j] # Air}
           after == [section.cells EXCEPT ![i] = state]
           refilled == {j \in Cells : after[j] # Air}
<1>1. section.cells = [j \in Cells |-> section.cells[j]] /\ section.count = Cardinality(filled)
  BY DEF Counted, NonEmpty
<1>2. /\ after \in [Cells -> KnownStates]
      /\ \A j \in Cells : after[j] = IF j = i THEN state ELSE section.cells[j]
  BY DEF Counted
<1>3. IsFiniteSet(filled)
  <2>1. filled \subseteq Cells
    OBVIOUS
  <2> QED BY <2>1, CellsAreFinite, FS_Subset
<1>4. refilled = IF state # Air THEN filled \cup {i} ELSE filled \ {i}
  BY <1>2
<1>5. Cardinality(filled) \in Nat
  BY <1>3, FS_CardinalityType
<1>6. Cardinality(refilled) =
        CASE section.cells[i] = Air /\ state # Air -> section.count + 1
          [] section.cells[i] # Air /\ state = Air -> section.count - 1
          [] OTHER -> section.count
  <2>1. i \in filled <=> section.cells[i] # Air
    OBVIOUS
  <2>2. /\ Cardinality(filled \cup {i})
             = IF i \in filled THEN Cardinality(filled) ELSE Cardinality(filled) + 1
        /\ Cardinality(filled \ {i})
             = IF i \in filled THEN Cardinality(filled) - 1 ELSE Cardinality(filled)
    BY <1>3, FS_AddElement, FS_RemoveElement
  <2> HIDE DEF filled, refilled
  <2> QED BY <1>1, <1>4, <2>1, <2>2
<1>7. SetCell(section, i, state) = [cells |-> after, count |-> Cardinality(refilled)]
  <2> HIDE DEF filled, refilled
  <2> QED BY <1>6 DEF SetCell
<1>8. NonEmpty(after) = Cardinality(refilled)
  BY DEF NonEmpty
<1> HIDE DEF after, refilled
<1> QED BY <1>2, <1>7, <1>8 DEF Counted

\* Each block of a section has a cell.
LEMMA CellIndex ==
  ASSUME NEW x \in Int, NEW y \in Int
  PROVE  (y % Edge) * Edge + (x % Edge) \in Cells
<1>1. Edge \in Nat /\ Edge > 0
  BY WorldDataAssumption
<1>2. PICK a, b : a = y % Edge /\ b = x % Edge
  OBVIOUS
<1>3. a \in 0 .. Edge - 1 /\ b \in 0 .. Edge - 1
  BY <1>1, <1>2
<1>4. a * Edge <= (Edge - 1) * Edge /\ a * Edge >= 0 /\ a * Edge \in Int
  BY <1>1, <1>3
<1>5. (Edge - 1) * Edge = Edge * Edge - Edge /\ Edge * Edge \in Int
  BY <1>1
<1>6. a * Edge + b \in 0 .. Edge * Edge - 1
  BY <1>1, <1>3, <1>4, <1>5
<1> QED BY <1>2, <1>6 DEF Cells

\* Setting a block in a chunk that has it.
LEMMA BlockSet ==
  ASSUME NEW chunk, ChunkOK(chunk), NEW x \in Int, NEW y \in Int,
         NEW state \in KnownStates,
         HasSection(chunk, y \div Edge)
  PROVE  LET changed == SetBlockAt(chunk, x % Edge, y, state) IN
           ChunkOK(changed) /\ (FitsProfile(chunk) => FitsProfile(changed))
<1>1. PICK k : k = SectionIndex(chunk, y \div Edge)
  OBVIOUS
<1>2. PICK section : section = SetCell(chunk.sections[k], (y % Edge) * Edge + (x % Edge), state)
  OBVIOUS
<1>3. k \in DOMAIN chunk.sections
  BY <1>1 DEF HasSection
<1>4. Counted(section)
  BY <1>2, <1>3, CellIndex, CellSet DEF ChunkOK
<1>5. PICK sections : sections = [chunk.sections EXCEPT ![k] = section]
  OBVIOUS
<1>6. /\ chunk = [min |-> chunk.min, sections |-> chunk.sections]
      /\ chunk.sections = [j \in DOMAIN chunk.sections |-> chunk.sections[j]]
  BY DEF ChunkOK
<1>7. SetBlockAt(chunk, x % Edge, y, state) = [min |-> chunk.min, sections |-> sections]
  BY <1>1, <1>2, <1>5, <1>6 DEF SetBlockAt
<1>8. /\ sections = [j \in DOMAIN chunk.sections |-> IF j = k THEN section ELSE chunk.sections[j]]
  BY <1>5, <1>6
<1>9. ChunkOK([min |-> chunk.min, sections |-> sections])
  BY <1>4, <1>8 DEF ChunkOK
<1>10. Len(sections) = Len(chunk.sections)
  BY <1>8
<1> QED BY <1>7, <1>9, <1>10 DEF FitsProfile

----------------------------------------------------------------------------
\* What a snapshot keeps is enough to have the store again.
LEMMA CaptureRestores ==
  ASSUME NEW s, StoreOK(s)
  PROVE  Restore(Capture(s)) = s
<1>1. PICK c : c = Capture(s)
  OBVIOUS
<1>2. /\ DOMAIN c = DOMAIN s
      /\ \A pos \in DOMAIN s :
           /\ c[pos].min = s[pos].min
           /\ c[pos].sections = [k \in DOMAIN s[pos].sections |-> s[pos].sections[k].cells]
  BY <1>1 DEF Capture
<1>3. ASSUME NEW pos \in DOMAIN s
      PROVE  Restore(c)[pos] = s[pos]
  <2>1. Restore(c)[pos] =
          [min |-> c[pos].min,
           sections |-> [k \in DOMAIN c[pos].sections |->
             [cells |-> c[pos].sections[k], count |-> NonEmpty(c[pos].sections[k])]]]
    BY <1>2, <1>3 DEF Restore
  <2>2. PICK sections : sections = s[pos].sections
    OBVIOUS
  <2>3. /\ s[pos] = [min |-> s[pos].min, sections |-> sections]
        /\ sections = [k \in DOMAIN sections |-> sections[k]]
        /\ \A k \in DOMAIN sections : Counted(sections[k])
    BY <1>3, <2>2 DEF StoreOK, ChunkOK
  <2>4. \A k \in DOMAIN sections :
          sections[k] = [cells |-> sections[k].cells, count |-> NonEmpty(sections[k].cells)]
    BY <2>3 DEF Counted
  <2>5. c[pos].sections = [k \in DOMAIN sections |-> sections[k].cells]
    BY <1>2, <1>3, <2>2
  <2>6. [k \in DOMAIN c[pos].sections |->
           [cells |-> c[pos].sections[k], count |-> NonEmpty(c[pos].sections[k])]]
          = [k \in DOMAIN sections |-> sections[k]]
    BY <2>4, <2>5
  <2> QED BY <1>2, <1>3, <2>1, <2>3, <2>6
<1>4. Restore(c) = [pos \in DOMAIN c |-> Restore(c)[pos]]
  BY DEF Restore
<1>5. s = [pos \in DOMAIN s |-> s[pos]]
  BY DEF StoreOK
<1> QED BY <1>1, <1>2, <1>3, <1>4, <1>5

\* The height of a cell of the profile's sections.
LEMMA HeightInProfile ==
  ASSUME NEW k \in 1 .. ProfileCount, NEW i \in Cells
  PROVE  (ProfileMin + k - 1) * Edge + i \div Edge \in DOMAIN FlatLayers
<1>1. Edge \in Nat /\ Edge > 0 /\ ProfileMin \in Int /\ ProfileCount \in Nat
  BY WorldDataAssumption, StatesAssumption
<1>2. PICK y, q : y = ProfileMin + k - 1 /\ q = i \div Edge
  OBVIOUS
<1>3. y \in Int /\ ProfileMin <= y /\ y + 1 <= ProfileMin + ProfileCount
  BY <1>1, <1>2
<1>4. q \in 0 .. Edge - 1
  <2>1. q \in Nat
    BY <1>1, <1>2, CellPlace
  <2>2. i \in Int /\ Edge * Edge \in Int /\ i < Edge * Edge
    BY <1>1 DEF Cells
  <2>3. i % Edge \in 0 .. Edge - 1 /\ i = q * Edge + (i % Edge)
    BY <1>1, <1>2, <2>2, DivisionFacts
  <2>4. SUFFICES ASSUME Edge <= q PROVE FALSE
    BY <1>1, <2>1
  <2>5. Edge * Edge <= q * Edge /\ q * Edge \in Int
    BY <1>1, <2>1, <2>4, ProductOrder
  <2> QED BY <1>1, <2>2, <2>3, <2>5
<1>5. ProfileMin * Edge <= y * Edge /\ (y + 1) * Edge <= (ProfileMin + ProfileCount) * Edge
  BY <1>1, <1>3, ProductOrder
<1>6. /\ (y + 1) * Edge = y * Edge + Edge /\ y * Edge \in Int /\ ProfileMin * Edge \in Int
      /\ (ProfileMin + ProfileCount) * Edge \in Int
  BY <1>1, <1>3
<1>7. y * Edge + q \in ProfileMin * Edge .. (ProfileMin + ProfileCount) * Edge - 1
  BY <1>1, <1>4, <1>5, <1>6
<1> QED BY <1>2, <1>7, StatesAssumption

\* A flat chunk has the range of the profile.
LEMMA FlatIsOK == ChunkOK(FlatChunk) /\ FitsProfile(FlatChunk)
<1>1. ASSUME NEW k \in 1 .. ProfileCount, NEW y, y = ProfileMin + k - 1
      PROVE  Counted([cells |-> FlatCells(y), count |-> NonEmpty(FlatCells(y))])
  <2>1. ASSUME NEW i \in Cells PROVE FlatLayers[y * Edge + i \div Edge] \in KnownStates
    <3>1. y * Edge + i \div Edge \in DOMAIN FlatLayers
      BY <1>1, HeightInProfile
    <3> QED BY <3>1 DEF KnownStates, Range
  <2>2. FlatCells(y) \in [Cells -> KnownStates]
    BY <2>1 DEF FlatCells
  <2> QED BY <2>2 DEF Counted
<1>2. PICK sections : sections = [k \in 1 .. ProfileCount |->
                                   [cells |-> FlatCells(ProfileMin + k - 1),
                                    count |-> NonEmpty(FlatCells(ProfileMin + k - 1))]]
  OBVIOUS
<1>3. FlatChunk = [min |-> ProfileMin, sections |-> sections]
  BY <1>2 DEF FlatChunk
<1>4. \A k \in DOMAIN sections : Counted(sections[k])
  BY <1>1, <1>2
<1>5. ChunkOK(FlatChunk)
  BY <1>2, <1>3, <1>4 DEF ChunkOK
<1>6. Len(sections) = ProfileCount
  BY <1>2, WorldDataAssumption
<1> QED BY <1>3, <1>5, <1>6 DEF FitsProfile

\* A height that is not listed has no blocks.
LEMMA EmptySectionIsOK == Counted(EmptySection)
<1>1. \A i \in Cells : EmptySection.cells[i] = Air
  BY DEF EmptySection
<1>2. PICK none : none = {i \in Cells : EmptySection.cells[i] # Air}
  OBVIOUS
<1>3. none = {}
  BY <1>1, <1>2
<1>4. Cardinality(none) = 0
  BY <1>3, FS_EmptySet
<1>5. NonEmpty(EmptySection.cells) = 0
  BY <1>2, <1>4 DEF NonEmpty
<1>6. EmptySection.cells \in [Cells -> KnownStates]
  BY DEF EmptySection, KnownStates
<1> QED BY <1>5, <1>6 DEF Counted, EmptySection

\* A name becomes a state that is known.
LEMMA StateIsKnown ==
  ASSUME NEW name
  PROVE  StateOf(name) \in KnownStates
BY DEF StateOf, KnownStates, Range

\* A chunk that is read from a region.
LEMMA AnvilIsOK ==
  ASSUME NEW listed
  PROVE  ChunkOK(ChunkFromAnvil(listed))
<1>1. ASSUME NEW written
      PROVE  Counted(ApplyBlockStates(written))
  <2>1. ApplyBlockStates(written).cells \in [Cells -> KnownStates]
    BY StateIsKnown DEF ApplyBlockStates
  <2> QED BY <2>1 DEF Counted, ApplyBlockStates
<1>2. PICK low, number : low = Min(Ys(listed)) /\ number = Cardinality(SectionRange(listed))
  OBVIOUS
<1>3. PICK sections : sections = [k \in 1 .. number |->
         IF low + k - 1 \in Ys(listed)
           THEN ApplyBlockStates(Written(CHOOSE s \in listed : s.y = low + k - 1))
           ELSE EmptySection]
  OBVIOUS
<1>4. ChunkFromAnvil(listed) = [min |-> low, sections |-> sections]
  BY <1>2, <1>3 DEF ChunkFromAnvil
<1>5. \A k \in DOMAIN sections : Counted(sections[k])
  BY <1>1, <1>3, EmptySectionIsOK
<1>6. sections = [k \in DOMAIN sections |-> sections[k]]
  BY <1>3
<1>7. ChunkOK([min |-> low, sections |-> sections])
  BY <1>5, <1>6 DEF ChunkOK
<1> QED BY <1>4, <1>7

\* The store of a directory of regions.
LEMMA DirectoryIsOK ==
  ASSUME NEW regions
  PROVE  StoreOK(DirectoryStore(regions))
<1>1. PICK stores : stores = [f \in Readable(regions) |-> RegionStore(f)]
  OBVIOUS
<1>2. PICK positions : positions = UNION {DOMAIN stores[f] : f \in Readable(regions)}
  OBVIOUS
<1>3. DirectoryStore(regions) =
        [pos \in positions |->
          stores[CHOOSE f \in Readable(regions) : pos \in DOMAIN stores[f]][pos]]
  BY <1>1, <1>2 DEF DirectoryStore
<1>4. ASSUME NEW f \in Readable(regions), NEW pos \in DOMAIN stores[f]
      PROVE  ChunkOK(stores[f][pos])
  <2>1. stores[f] = RegionStore(f)
    BY <1>1, <1>4
  <2>2. stores[f][pos] = ChunkFromAnvil(PayloadAt(f, pos).sections)
    BY <1>4, <2>1 DEF RegionStore
  <2> QED BY <2>2, AnvilIsOK
<1>5. ASSUME NEW pos \in positions
      PROVE  ChunkOK(stores[CHOOSE f \in Readable(regions) : pos \in DOMAIN stores[f]][pos])
  <2>1. \E f \in Readable(regions) : pos \in DOMAIN stores[f]
    BY <1>2, <1>5
  <2>2. PICK g : g = CHOOSE f \in Readable(regions) : pos \in DOMAIN stores[f]
    OBVIOUS
  <2>3. g \in Readable(regions) /\ pos \in DOMAIN stores[g]
    BY <2>1, <2>2
  <2> QED BY <1>4, <2>2, <2>3
<1> QED BY <1>3, <1>5 DEF StoreOK

----------------------------------------------------------------------------
(* Each action keeps a restartable world.                                  *)

\* What a good seed is depends on the configuration alone.
LEMMA SeedStays ==
  ASSUME UNCHANGED source
  PROVE  GoodSeed' <=> GoodSeed
  BY DEF GoodSeed

\* A snapshot that was saved is restored as it was.
LEMMA StartsFromSnapshot ==
  ASSUME WorldDataInvariant, StartFromSnapshot
  PROVE  WorldDataInvariant'
<1>1. PICK s : Restartable(s) /\ file = Capture(s)
  BY DEF WorldDataInvariant, StartFromSnapshot
<1>2. Restore(file) = s
  BY <1>1, CaptureRestores DEF Restartable
<1>3. UNCHANGED source /\ (GoodSeed' <=> GoodSeed)
  BY SeedStays DEF StartFromSnapshot
<1>4. IF ValidStore(s) THEN store' = s /\ phase' = "up" ELSE phase' = "rejected"
  BY <1>2 DEF StartFromSnapshot, Up
<1>5. \A t : Restartable(t)' <=> Restartable(t)
  BY <1>3 DEF Restartable
<1>6. GoodSeed => ValidStore(s)
  BY <1>1 DEF Restartable
<1>7. file' = file
  BY DEF StartFromSnapshot
<1> QED BY <1>1, <1>3, <1>4, <1>5, <1>6, <1>7 DEF WorldDataInvariant

\* The other ways up, and the changes: the new store has to be restartable.
LEMMA StaysUp ==
  ASSUME WorldDataInvariant, UNCHANGED <<source, file>>, phase' = "up",
         StoreOK(store'), GoodSeed => ValidStore(store')
  PROVE  WorldDataInvariant'
<1>1. GoodSeed' <=> GoodSeed
  BY SeedStays
<1>2. PICK t : t = store'
  OBVIOUS
<1>3. Restartable(store)'
  BY <1>1, <1>2 DEF Restartable
<1>4. \A s : Restartable(s)' <=> Restartable(s)
  BY <1>1 DEF Restartable
<1>5. (file # NoFile => \E s : Restartable(s) /\ file = Capture(s))'
  BY <1>4 DEF WorldDataInvariant
<1> QED BY <1>3, <1>5 DEF WorldDataInvariant

\* Regions are a good seed, or the server does not start.
LEMMA StartsFromRegions ==
  ASSUME WorldDataInvariant, StartFromRegions
  PROVE  WorldDataInvariant'
<1>1. CASE Seeds(source)
  <2>1. UNCHANGED <<source, file>> /\ phase' = "up" /\ store' = DirectoryStore(source)
    BY <1>1 DEF StartFromRegions, Up
  <2>2. GoodSeed => ValidStore(store')
    BY <2>1 DEF GoodSeed, StartFromRegions
  <2> QED BY <2>1, <2>2, DirectoryIsOK, StaysUp
<1>2. CASE ~Seeds(source)
  <2>1. UNCHANGED <<source, file>> /\ phase' = "unseeded"
    BY <1>2 DEF StartFromRegions
  <2>2. GoodSeed' <=> GoodSeed
    BY <2>1, SeedStays
  <2>3. file = NoFile
    BY DEF StartFromRegions
  <2> QED BY <2>1, <2>2, <2>3 DEF WorldDataInvariant
<1> QED BY <1>1, <1>2

\* The flat world has the range of the profile.
LEMMA StartsFlat ==
  ASSUME WorldDataInvariant, StartFlat
  PROVE  WorldDataInvariant'
<1>1. /\ UNCHANGED <<source, file>>
      /\ phase' = "up"
      /\ store' = [pos \in {0} |-> FlatChunk]
  BY DEF StartFlat, Up
<1>2. StoreOK([pos \in {0} |-> FlatChunk])
  BY FlatIsOK DEF StoreOK
<1>3. ValidStore([pos \in {0} |-> FlatChunk])
  BY FlatIsOK DEF ValidStore
<1> QED BY <1>1, <1>2, <1>3, StaysUp

\* Missing chunks are flat ones.
LEMMA Loads ==
  ASSUME WorldDataInvariant, NEW pos \in Visited, EnsureLoaded(pos)
  PROVE  WorldDataInvariant'
<1>1. PICK t : t = [p \in DOMAIN store \cup {pos} |-> IF p = pos THEN FlatChunk ELSE store[p]]
  OBVIOUS
<1>2. /\ UNCHANGED <<source, file, phase>>
      /\ phase = "up"
      /\ store' = t
  BY <1>1 DEF EnsureLoaded
<1>3. StoreOK(store) /\ (GoodSeed => ValidStore(store))
  BY <1>2 DEF WorldDataInvariant, Restartable
<1>4. StoreOK(t)
  BY <1>1, <1>3, FlatIsOK DEF StoreOK
<1>5. GoodSeed => ValidStore(t)
  BY <1>1, <1>3, FlatIsOK DEF ValidStore
<1> QED BY <1>2, <1>4, <1>5, StaysUp

\* A block is set in a chunk that has it.
LEMMA Mutates ==
  ASSUME WorldDataInvariant,
         NEW x \in Blocks, NEW y \in Heights, NEW state \in States,
         ApplyBlockMutation(x, y, state)
  PROVE  WorldDataInvariant'
<1>1. x \in Int /\ y \in Int
  <2>1. PICK pos \in Visited, dx \in 0 .. Edge - 1 : x = pos * Edge + dx
    BY DEF Blocks
  <2> QED BY <2>1, WorldDataAssumption DEF Heights
<1>2. PICK pos : pos = x \div Edge
  OBVIOUS
<1>3. PICK changed : changed = SetBlockAt(store[pos], x % Edge, y, state)
  OBVIOUS
<1>4. PICK t : t = [store EXCEPT ![pos] = changed]
  OBVIOUS
<1>5. /\ UNCHANGED <<source, file, phase>>
      /\ phase = "up"
      /\ pos \in DOMAIN store
      /\ HasSection(store[pos], y \div Edge)
      /\ store' = t
  BY <1>2, <1>3, <1>4 DEF ApplyBlockMutation
<1>6. StoreOK(store) /\ (GoodSeed => ValidStore(store))
  BY <1>5 DEF WorldDataInvariant, Restartable
<1>7. ChunkOK(changed) /\ (FitsProfile(store[pos]) => FitsProfile(changed))
  <2>1. state \in KnownStates
    BY DEF KnownStates
  <2> QED BY <1>1, <1>3, <1>5, <1>6, <2>1, BlockSet DEF StoreOK
<1>8. t = [p \in DOMAIN store |-> IF p = pos THEN changed ELSE store[p]]
  BY <1>4, <1>6 DEF StoreOK
<1>9. StoreOK(t)
  BY <1>6, <1>7, <1>8 DEF StoreOK
<1>10. GoodSeed => ValidStore(t)
  BY <1>5, <1>6, <1>7, <1>8 DEF ValidStore
<1> QED BY <1>5, <1>9, <1>10, StaysUp

\* Every step keeps a restartable world.
LEMMA WorldDataStep ==
  ASSUME WorldDataInvariant, [WorldDataNext]_worldDataVars
  PROVE  WorldDataInvariant'
<1>1. CASE StartFromSnapshot
  BY <1>1, StartsFromSnapshot
<1>2. CASE StartFromRegions
  BY <1>2, StartsFromRegions
<1>3. CASE StartFlat
  BY <1>3, StartsFlat
<1>4. CASE \E pos \in Visited : EnsureLoaded(pos)
  BY <1>4, Loads
<1>5. CASE \E x \in Blocks, y \in Heights, state \in States : ApplyBlockMutation(x, y, state)
  BY <1>5, Mutates
<1>6. CASE SaveWorldState \/ Shutdown
  <2>1. /\ UNCHANGED <<source, store>>
        /\ phase = "up"
        /\ phase' \in {"up", "down"}
        /\ file' = Capture(store)
    BY <1>6 DEF SaveWorldState, Shutdown
  <2>2. GoodSeed' <=> GoodSeed
    BY <2>1, SeedStays
  <2>3. Restartable(store)
    BY <2>1 DEF WorldDataInvariant
  <2>4. \A s : Restartable(s)' <=> Restartable(s)
    BY <2>2 DEF Restartable
  <2>5. Restartable(store)'
    BY <2>1, <2>2, <2>3 DEF Restartable
  <2> QED BY <2>1, <2>2, <2>3, <2>4, <2>5 DEF WorldDataInvariant
<1>7. CASE KillServer \/ TryAgain \/ UNCHANGED worldDataVars
  <2>1. /\ UNCHANGED <<source, store, file>>
        /\ phase' = phase \/ phase' = "down"
    BY <1>7 DEF KillServer, TryAgain, worldDataVars
  <2>2. GoodSeed' <=> GoodSeed
    BY <2>1, SeedStays
  <2>3. \A s : Restartable(s)' <=> Restartable(s)
    BY <2>2 DEF Restartable
  <2>4. Restartable(store)' <=> Restartable(store)
    BY <2>1, <2>2 DEF Restartable
  <2> QED BY <2>1, <2>2, <2>3, <2>4 DEF WorldDataInvariant
<1> QED BY <1>1, <1>2, <1>3, <1>4, <1>5, <1>6, <1>7 DEF WorldDataNext

----------------------------------------------------------------------------
\* The invariant holds of the first state, of every step, and so always.
LEMMA WorldDataIsInvariant == WorldDataSpec => []WorldDataInvariant
<1>1. WorldDataInit => WorldDataInvariant
  BY DEF WorldDataInit, WorldDataInvariant
<1>2. WorldDataInvariant /\ [WorldDataNext]_worldDataVars => WorldDataInvariant'
  BY WorldDataStep
<1> QED BY <1>1, <1>2, PTL DEF WorldDataSpec

\* A world that the server saved is a world that it starts with again, as it
\* was.
THEOREM SavedWorldsLoad == WorldDataSpec => []SavedWorldLoads
<1>1. WorldDataInvariant => SavedWorldLoads
  BY CaptureRestores DEF WorldDataInvariant, Restartable, SavedWorldLoads
<1> QED BY <1>1, WorldDataIsInvariant, PTL

\* The packet of any chunk is read back as the chunk.
THEOREM ClientsReadTheChunks == WorldDataSpec => []ClientReadsChunks
<1>1. ASSUME WorldDataInvariant, phase = "up",
             NEW pos \in DOMAIN store, NEW k \in DOMAIN store[pos].sections
      PROVE  LET section == store[pos].sections[k]
                 sent == EncodeSection(section)
             IN  /\ ReadContainer(sent.container) = section.cells
                 /\ sent.count = NonEmpty(section.cells)
  <2>1. PICK section : section = store[pos].sections[k]
    OBVIOUS
  <2>2. Counted(section)
    BY <1>1, <2>1 DEF WorldDataInvariant, Restartable, StoreOK, ChunkOK
  <2>3. section.count = NonEmpty(section.cells) /\ section.cells \in [Cells -> KnownStates]
    BY <2>2 DEF Counted
  <2>4. PICK cells : cells = section.cells
    OBVIOUS
  <2>5. cells = [i \in Cells |-> cells[i]] /\ \A i \in Cells : cells[i] \in KnownStates
    BY <2>3, <2>4
  <2>6. ReadContainer(EncodeContainer(cells)) = cells
    BY <2>5, ContainerIsRead
  <2>7. PICK container : container = EncodeContainer(cells)
    OBVIOUS
  <2>8. EncodeSection(section) = [count |-> section.count, container |-> container]
    BY <2>4, <2>7 DEF EncodeSection
  <2> QED BY <2>1, <2>3, <2>4, <2>6, <2>7, <2>8
<1>2. WorldDataInvariant => ClientReadsChunks
  BY <1>1 DEF ClientReadsChunks
<1> QED BY <1>2, WorldDataIsInvariant, PTL

----------------------------------------------------------------------------
(* The seed.                                                               *)

\* Finitely many integers have a bound.
LEMMA BoundExists ==
  ASSUME NEW n \in Nat, NEW f \in [1 .. n -> Int]
  PROVE  \E b \in Nat : \A i \in 1 .. n : -b <= f[i] /\ f[i] <= b
<1> DEFINE T == {m \in Nat : m <= n => \E b \in Nat : \A i \in 1 .. m : -b <= f[i] /\ f[i] <= b}
<1>1. 0 \in T
  OBVIOUS
<1>2. ASSUME NEW m \in Nat, m \in T, m + 1 <= n
      PROVE  \E b \in Nat : \A i \in 1 .. m + 1 : -b <= f[i] /\ f[i] <= b
  <2>1. PICK b \in Nat : \A i \in 1 .. m : -b <= f[i] /\ f[i] <= b
    BY <1>2
  <2>2. PICK x : x = f[m + 1]
    OBVIOUS
  <2>3. x \in Int
    BY <1>2, <2>2
  <2>4. PICK c \in Nat : -c <= x /\ x <= c
    BY <2>3
  <2>5. ASSUME NEW i \in 1 .. m + 1 PROVE -(b + c) <= f[i] /\ f[i] <= b + c
    <3>1. CASE i = m + 1
      BY <2>2, <2>3, <2>4, <3>1
    <3>2. CASE i \in 1 .. m
      <4>1. -b <= f[i] /\ f[i] <= b /\ f[i] \in Int
        BY <1>2, <2>1, <3>2
      <4> QED BY <4>1
    <3> QED BY <3>1, <3>2
  <2>6. b + c \in Nat
    OBVIOUS
  <2> QED BY <2>5, <2>6
<1>3. ASSUME NEW m \in Nat, m \in T PROVE m + 1 \in T
  <2>1. m + 1 <= n => \E b \in Nat : \A i \in 1 .. m + 1 : -b <= f[i] /\ f[i] <= b
    BY <1>2, <1>3
  <2>2. m + 1 \in Nat
    OBVIOUS
  <2> QED BY <2>1, <2>2
<1> HIDE DEF T
<1>4. n \in T
  BY <1>1, <1>3, AllNumbers
<1> QED BY <1>4 DEF T

\* A finite set of integers has a lowest and a highest member.
LEMMA LowestAndHighest ==
  ASSUME NEW S \in SUBSET Int, IsFiniteSet(S), S # {}
  PROVE  /\ Min(S) \in S /\ Max(S) \in S
         /\ \A y \in S : Min(S) <= y /\ y <= Max(S)
<1>1. PICK n \in Nat : ExistsBijection(1 .. n, S)
  BY FS_NatBijection
<1>2. PICK f \in Bijection(1 .. n, S) : TRUE
  BY <1>1 DEF ExistsBijection
<1>3. f \in [1 .. n -> Int] /\ \A y \in S : \E i \in 1 .. n : f[i] = y
  BY <1>2 DEF Bijection, Surjection
<1>4. PICK b \in Nat : \A i \in 1 .. n : -b <= f[i] /\ f[i] <= b
  BY <1>3, BoundExists
<1>5. \A y \in S : -b <= y /\ y <= b
  BY <1>3, <1>4
<1> DEFINE Above == {m \in Nat : m - b \in S}
           Below == {m \in Nat : b - m \in S}
<1>6. PICK z \in S : TRUE
  OBVIOUS
<1>7. z + b \in Above /\ b - z \in Below
  BY <1>5
<1>8. PICK k \in Above : \A m \in Above : ~(m < k)
  BY <1>7, SmallestExists
<1>9. PICK h \in Below : \A m \in Below : ~(m < h)
  BY <1>7, SmallestExists
<1>10. ASSUME NEW y \in S PROVE k - b <= y /\ y <= b - h
  <2>1. y + b \in Above /\ b - y \in Below
    BY <1>5
  <2>2. ~(y + b < k) /\ ~(b - y < h)
    BY <1>8, <1>9, <2>1
  <2> QED BY <2>2
<1>11. k - b \in S /\ b - h \in S
  BY <1>8, <1>9
<1>12. PICK low : low = Min(S)
  OBVIOUS
<1>13. low \in S /\ \A y \in S : low <= y
  <2>1. \E x \in S : \A y \in S : x <= y
    BY <1>10, <1>11
  <2> QED BY <1>12, <2>1 DEF Min
<1>14. PICK high : high = Max(S)
  OBVIOUS
<1>15. high \in S /\ \A y \in S : high >= y
  <2>1. \E x \in S : \A y \in S : x >= y
    BY <1>10, <1>11
  <2> QED BY <1>14, <2>1 DEF Max
<1>16. \A y \in S : y <= high
  BY <1>15
<1> QED BY <1>12, <1>13, <1>14, <1>15, <1>16

\* A section that a region lists is in the chunk, at its height.
LEMMA SectionIsRead ==
  ASSUME NEW sections, Listed(sections), NEW s \in sections
  PROVE  LET chunk == ChunkFromAnvil(sections) IN
           chunk.sections[s.y - chunk.min + 1].cells = [i \in Cells |-> StateOf(s.names[i])]
<1>1. PICK low, high, number :
        low = Min(Ys(sections)) /\ high = Max(Ys(sections))
        /\ number = Cardinality(SectionRange(sections))
  OBVIOUS
<1>2. s.y \in Ys(sections) /\ Ys(sections) \subseteq Int
  BY DEF Ys, Listed
<1>3. IsFiniteSet(Ys(sections))
  <2>1. PICK height : height = [t \in sections |-> t.y]
    OBVIOUS
  <2>2. height \in Surjection(sections, Ys(sections))
    BY <2>1 DEF Surjection, Ys
  <2> QED BY <2>2, FS_Surjection DEF Listed
<1>4. low \in Int /\ high \in Int /\ low <= s.y /\ s.y <= high
  BY <1>1, <1>2, <1>3, LowestAndHighest
<1>5. number = high - low + 1
  <2>1. SectionRange(sections) = low .. high
    BY <1>1 DEF SectionRange
  <2>2. Cardinality(low .. high) = IF low > high THEN 0 ELSE high - low + 1
    BY <1>4, FS_Interval
  <2>3. s.y \in Int
    BY <1>2
  <2> QED BY <1>1, <1>4, <2>1, <2>2, <2>3
<1>6. PICK k : k = s.y - low + 1
  OBVIOUS
<1>7. k \in 1 .. number /\ low + k - 1 = s.y
  BY <1>2, <1>4, <1>5, <1>6
<1>8. (CHOOSE t \in sections : t.y = s.y) = s
  BY DEF Listed
<1>9. PICK written : written = Written(s)
  OBVIOUS
<1>10. PICK list : list = [j \in 1 .. number |->
         IF low + j - 1 \in Ys(sections)
           THEN ApplyBlockStates(Written(CHOOSE t \in sections : t.y = low + j - 1))
           ELSE EmptySection]
  OBVIOUS
<1>11. ChunkFromAnvil(sections) = [min |-> low, sections |-> list]
  BY <1>1, <1>10 DEF ChunkFromAnvil
<1>12. list[k] = ApplyBlockStates(written)
  BY <1>2, <1>7, <1>8, <1>9, <1>10
<1>13. PalettedValues(written) = [i \in Cells |-> s.names[i]]
  BY <1>9, WrittenIsRead
<1>14. ApplyBlockStates(written).cells = [i \in Cells |-> StateOf(PalettedValues(written)[i])]
  BY DEF ApplyBlockStates
<1>15. ApplyBlockStates(written).cells = [i \in Cells |-> StateOf(s.names[i])]
  BY <1>13, <1>14
<1> QED BY <1>6, <1>11, <1>12, <1>15

\* The place of a chunk in a region gives its position, and the position gives
\* both.
LEMMA PlaceOf ==
  ASSUME NEW region \in Int, NEW l \in 0 .. RegionEdge - 1
  PROVE  /\ RegionOf(RegionChunkPos(region, l)) = region
         /\ LocalChunk(RegionChunkPos(region, l)) = l
<1>1. RegionEdge \in Nat
  BY WorldDataAssumption
<1> QED BY <1>1, DivisionIs DEF RegionOf, LocalChunk, RegionChunkPos

\* What a client of the region format finds in slot l of a file.
Meant(f, l) ==
  /\ ~IsAbsent(f.locations[l])
  /\ Decodes(f, f.locations[l])
  /\ f.payloads[f.locations[l].offset].pos = RegionChunkPos(f.region, l)

\* A chunk is loaded from its slot.
LEMMA SlotIsLoaded ==
  ASSUME NEW f, f.region \in Int, NEW l \in 0 .. RegionEdge - 1
  PROVE  /\ RegionChunkPos(f.region, l) \in DOMAIN RegionStore(f) <=> Meant(f, l)
         /\ Meant(f, l) =>
              RegionStore(f)[RegionChunkPos(f.region, l)]
                = ChunkFromAnvil(f.payloads[f.locations[l].offset].sections)
<1>1. PICK pos : pos = RegionChunkPos(f.region, l)
  OBVIOUS
<1>2. LocalChunk(pos) = l
  BY <1>1, PlaceOf
<1>3. LoadsAt(f, pos) <=> Meant(f, l)
  BY <1>1, <1>2 DEF LoadsAt, ClaimsItsPlace, PayloadAt, Meant
<1>4. pos \in {RegionChunkPos(f.region, k) : k \in 0 .. RegionEdge - 1}
  BY <1>1
<1>5. pos \in DOMAIN RegionStore(f) <=> LoadsAt(f, pos)
  BY <1>4 DEF RegionStore
<1>6. pos \in DOMAIN RegionStore(f) =>
        RegionStore(f)[pos] = ChunkFromAnvil(PayloadAt(f, pos).sections)
  BY DEF RegionStore
<1>7. PayloadAt(f, pos) = f.payloads[f.locations[l].offset]
  BY <1>2 DEF PayloadAt
<1> QED BY <1>1, <1>3, <1>5, <1>6, <1>7

\* A region has chunks of its own region alone.
LEMMA RegionHasItsOwn ==
  ASSUME NEW f, f.region \in Int, NEW pos \in DOMAIN RegionStore(f)
  PROVE  RegionOf(pos) = f.region
<1>1. PICK l \in 0 .. RegionEdge - 1 : pos = RegionChunkPos(f.region, l)
  BY DEF RegionStore
<1> QED BY <1>1, PlaceOf

\* A directory has the chunks of its files, each from the file of its region.
LEMMA DirectoryHasItsFiles ==
  ASSUME NEW regions \in Sources \ {NoFile}, NEW f \in Readable(regions), NEW pos,
         RegionOf(pos) = f.region
  PROVE  /\ pos \in DOMAIN DirectoryStore(regions) <=> pos \in DOMAIN RegionStore(f)
         /\ pos \in DOMAIN RegionStore(f) => DirectoryStore(regions)[pos] = RegionStore(f)[pos]
<1>1. PICK stores : stores = [g \in Readable(regions) |-> RegionStore(g)]
  OBVIOUS
<1>2. PICK positions : positions = UNION {DOMAIN stores[g] : g \in Readable(regions)}
  OBVIOUS
<1>3. DirectoryStore(regions) =
        [p \in positions |->
          stores[CHOOSE g \in Readable(regions) : p \in DOMAIN stores[g]][p]]
  BY <1>1, <1>2 DEF DirectoryStore
<1>4. ASSUME NEW g \in Readable(regions), pos \in DOMAIN stores[g] PROVE g = f
  <2>1. g.region \in Int /\ pos \in DOMAIN RegionStore(g)
    BY <1>1, <1>4, SourcesAssumption
  <2>2. RegionOf(pos) = g.region
    BY <2>1, RegionHasItsOwn
  <2> QED BY <2>2, SourcesAssumption
<1>5. pos \in positions <=> pos \in DOMAIN stores[f]
  BY <1>2, <1>4
<1>6. stores[f] = RegionStore(f)
  BY <1>1
<1>7. pos \in DOMAIN stores[f] => (CHOOSE g \in Readable(regions) : pos \in DOMAIN stores[g]) = f
  BY <1>4
<1> QED BY <1>3, <1>5, <1>6, <1>7

\* What the store of a directory is.
HasTheRegions(chunks, regions) ==
  /\ \A f \in Readable(regions) :
     \A l \in {k \in 0 .. RegionEdge - 1 : ~IsAbsent(f.locations[k])} :
       LET pos == f.region * RegionEdge + l IN
       IF Decodes(f, f.locations[l]) /\ f.payloads[f.locations[l].offset].pos = pos
         THEN /\ pos \in DOMAIN chunks
              /\ \A s \in f.payloads[f.locations[l].offset].sections :
                   chunks[pos].sections[s.y - chunks[pos].min + 1].cells
                     = [i \in Cells |-> StateOf(s.names[i])]
         ELSE pos \notin DOMAIN chunks
  /\ \A pos \in DOMAIN chunks : \E f \in Readable(regions) : RegionOf(pos) = f.region

\* A directory has what was meant to be in its files, and nothing else.
LEMMA DirectoryHasTheRegions ==
  ASSUME NEW regions \in Sources \ {NoFile}
  PROVE  HasTheRegions(DirectoryStore(regions), regions)
<1>1. PICK chunks : chunks = DirectoryStore(regions)
  OBVIOUS
<1>2. ASSUME NEW f \in Readable(regions), NEW l \in 0 .. RegionEdge - 1, ~IsAbsent(f.locations[l]),
             NEW pos, pos = f.region * RegionEdge + l
      PROVE  IF Decodes(f, f.locations[l]) /\ f.payloads[f.locations[l].offset].pos = pos
               THEN /\ pos \in DOMAIN chunks
                    /\ \A s \in f.payloads[f.locations[l].offset].sections :
                         chunks[pos].sections[s.y - chunks[pos].min + 1].cells
                           = [i \in Cells |-> StateOf(s.names[i])]
               ELSE pos \notin DOMAIN chunks
  <2>1. f.region \in Int
    BY SourcesAssumption
  <2>2. pos = RegionChunkPos(f.region, l)
    BY <1>2 DEF RegionChunkPos
  <2>3. RegionOf(pos) = f.region
    BY <2>1, <2>2, PlaceOf
  <2>4. /\ pos \in DOMAIN chunks <=> pos \in DOMAIN RegionStore(f)
        /\ pos \in DOMAIN RegionStore(f) => chunks[pos] = RegionStore(f)[pos]
    BY <1>1, <2>3, DirectoryHasItsFiles
  <2>5. PICK sections : sections = f.payloads[f.locations[l].offset].sections
    OBVIOUS
  <2>6. /\ pos \in DOMAIN RegionStore(f) <=> Meant(f, l)
        /\ Meant(f, l) => RegionStore(f)[pos] = ChunkFromAnvil(sections)
    BY <2>1, <2>2, <2>5, SlotIsLoaded
  <2>7. Meant(f, l)
          <=> Decodes(f, f.locations[l]) /\ f.payloads[f.locations[l].offset].pos = pos
    BY <1>2, <2>2 DEF Meant
  <2>8. CASE Meant(f, l)
    <3>1. pos \in DOMAIN chunks /\ chunks[pos] = ChunkFromAnvil(sections)
      BY <2>4, <2>6, <2>8
    <3>2. Listed(sections)
      <4>1. PICK at : at = f.locations[l].offset
        OBVIOUS
      <4>2. at \in DOMAIN f.payloads /\ f.payloads[at].nbt
        BY <2>8, <4>1 DEF Meant, Decodes, GoodPayload
      <4> QED BY <2>5, <4>1, <4>2, SourcesAssumption
    <3>3. ASSUME NEW s \in sections
          PROVE  chunks[pos].sections[s.y - chunks[pos].min + 1].cells
                   = [i \in Cells |-> StateOf(s.names[i])]
      BY <3>1, <3>2, <3>3, SectionIsRead
    <3> QED BY <2>5, <2>7, <2>8, <3>1, <3>3
  <2>9. CASE ~Meant(f, l)
    BY <2>4, <2>6, <2>7, <2>9
  <2> QED BY <2>8, <2>9
<1>3. ASSUME NEW pos \in DOMAIN chunks PROVE \E f \in Readable(regions) : RegionOf(pos) = f.region
  <2>1. PICK f \in Readable(regions) : pos \in DOMAIN RegionStore(f)
    BY <1>1, <1>3 DEF DirectoryStore
  <2>2. f.region \in Int
    BY SourcesAssumption
  <2> QED BY <2>1, <2>2, RegionHasItsOwn
<1> HIDE DEF HasTheRegions
<1>4. HasTheRegions(chunks, regions)
  BY <1>2, <1>3 DEF HasTheRegions
<1> QED BY <1>1, <1>4

\* Until something changes it, a store that was read from regions is theirs.
SeedInvariant ==
  /\ source \in Sources
  /\ seeded => source # NoFile /\ store = DirectoryStore(source)

\* A server that starts with regions has the chunks that were meant, and no
\* others.
THEOREM SeedsAreTheRegions == WorldDataSpec => []SeedIsTheRegions
<1>1. WorldDataInit => SeedInvariant
  BY DEF WorldDataInit, SeedInvariant
<1>2. SeedInvariant /\ [WorldDataNext]_worldDataVars => SeedInvariant'
  <2> SUFFICES ASSUME SeedInvariant, [WorldDataNext]_worldDataVars PROVE SeedInvariant'
    OBVIOUS
  <2>1. CASE StartFromRegions
    <3>1. CASE Seeds(source)
      BY <2>1, <3>1 DEF StartFromRegions, Up, SeedInvariant
    <3>2. CASE ~Seeds(source)
      BY <2>1, <3>2 DEF StartFromRegions, SeedInvariant
    <3> QED BY <3>1, <3>2
  <2>2. CASE \/ StartFromSnapshot \/ StartFlat \/ \E pos \in Visited : EnsureLoaded(pos)
             \/ \E x \in Blocks, y \in Heights, state \in States : ApplyBlockMutation(x, y, state)
             \/ Shutdown \/ KillServer
    <3>1. source' = source /\ seeded' = FALSE
      BY <2>2 DEF StartFromSnapshot, StartFlat, EnsureLoaded, ApplyBlockMutation, Shutdown,
                  KillServer
    <3> QED BY <3>1 DEF SeedInvariant
  <2>3. CASE SaveWorldState \/ TryAgain \/ UNCHANGED worldDataVars
    <3>1. UNCHANGED <<source, seeded, store>>
      BY <2>3 DEF SaveWorldState, TryAgain, worldDataVars
    <3> QED BY <3>1 DEF SeedInvariant
  <2> QED BY <2>1, <2>2, <2>3 DEF WorldDataNext
<1>3. SeedInvariant => SeedIsTheRegions
  <2> SUFFICES ASSUME SeedInvariant, seeded PROVE SeedIsTheRegions
    BY DEF SeedIsTheRegions
  <2>1. source \in Sources \ {NoFile} /\ store = DirectoryStore(source)
    BY DEF SeedInvariant
  <2>2. HasTheRegions(store, source)
    BY <2>1, DirectoryHasTheRegions
  <2> QED BY <2>2 DEF HasTheRegions, SeedIsTheRegions
<1> QED BY <1>1, <1>2, <1>3, PTL DEF WorldDataSpec
=============================================================================
