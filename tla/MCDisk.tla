------------------------------- MODULE MCDisk -------------------------------
(***************************************************************************)
(* What ends up on disk and what a server makes of it: either a bootstrap  *)
(* command builds an instance, or a version pack is generated and loaded,  *)
(* or a server starts, changes its world and stops.                        *)
(***************************************************************************)
EXTENDS Instance, WorldData, VersionPack

CONSTANTS builtin, republished, coreReport, oldReport

MCArtifacts == {builtin, republished}
MCReports == {coreReport, oldReport}
MCConforming == {coreReport}

\* Three block names that the profile knows.
MCBlockStates == ("air" :> 0) @@ ("stone" :> 1) @@ ("glass" :> 5)
MCFlatLayers == [y \in -2 .. 1 |-> IF y = -2 THEN 5 ELSE IF y = -1 THEN 1 ELSE 0]
MCVisited == {-1, 0}
MCStates == {0, 1, 5}
MCProfileMin == -1

Filled(name) == [i \in Cells |-> name]
Mixed == [i \in Cells |-> CASE i = 0 -> "stone" [] i = 3 -> "glass" [] OTHER -> "air"]
Strange == [i \in Cells |-> IF i = 2 THEN "strange" ELSE "stone"]
Payload(pos, sections) ==
  [length |-> 4, compression |-> 2, bytes |-> 2, nbt |-> TRUE, pos |-> pos, sections |-> sections]
Full(pos, low, high) == Payload(pos, {[y |-> -1, names |-> low], [y |-> 0, names |-> high]})

\* A region with a chunk in each of its two slots, each in a sector.
Sector(offset) == [offset |-> offset, count |-> 1]
NoChunk == [offset |-> 0, count |-> 0]
Region(region, first, second) ==
  [name |-> "region", region |-> region, size |-> 4,
   locations |-> (0 :> Sector(2)) @@ (1 :> Sector(3)), payloads |-> (2 :> first) @@ (3 :> second)]
Origin == Region(0, Full(0, Mixed, Strange), Full(1, Filled("stone"), Filled("air")))
West == Region(-1, Full(-2, Mixed, Filled("air")), Full(-1, Strange, Mixed))

\* Every way in which one of two chunks is not loaded, and in which its file is
\* not.
DamagedChunk == {
  [Origin EXCEPT !.locations[0] = NoChunk],
  [Origin EXCEPT !.locations[1].count = 2],
  [Origin EXCEPT !.payloads[2].length = 0],
  [Origin EXCEPT !.payloads[2].length = 5],
  [Origin EXCEPT !.payloads[3].compression = 4],
  [Origin EXCEPT !.payloads[3].bytes = 3],
  [Origin EXCEPT !.payloads[2].nbt = FALSE],
  [Origin EXCEPT !.payloads[2].pos = 1],
  [Origin EXCEPT !.locations[1].offset = 2]}
DamagedFile == {
  [Origin EXCEPT !.locations[0].offset = 1],
  [Origin EXCEPT !.locations[0].count = 0],
  [Origin EXCEPT !.size = 1],
  [Origin EXCEPT !.name = "other"],
  [Origin EXCEPT !.name = "malformed"]}

MCSources ==
  {NoFile, {West, Origin}, {[Origin EXCEPT !.size = 1]}}
  \cup {{f} : f \in DamagedChunk} \cup {{West, f} : f \in DamagedFile}
  \cup {\* no chunk that can be loaded
        {[Origin EXCEPT !.payloads[2].nbt = FALSE, !.payloads[3].nbt = FALSE]},
        \* chunks of another height, with a gap in one of them
        {Region(0, Payload(0, {[y |-> -1, names |-> Mixed], [y |-> 1, names |-> Strange]}),
                   Payload(1, {[y |-> 0, names |-> Mixed]}))}}

----------------------------------------------------------------------------
Varied == {"LoginDisconnect", "KeepAliveRequest", "KeepAliveResponse",
           "SetHealth", "PlayerInfoUpdate", "AddEntity", "SetEquipment"}
MCPacketKinds == Varied \cup {"LoginStart", "LoginSuccess", "FinishConfiguration"}
MCPhaseOf == [k \in MCPacketKinds |->
  CASE k \in {"LoginStart", "LoginDisconnect", "LoginSuccess"} -> "login"
    [] k = "FinishConfiguration" -> "configuration"
    [] OTHER -> "play"]
MCDirectionOf == [k \in MCPacketKinds |->
  IF k \in {"LoginStart", "KeepAliveResponse"} THEN "serverbound" ELSE "clientbound"]
MCPathsOf == [k \in MCPacketKinds |->
  CASE k = "LoginStart" -> {"hello", "login_start"}
    [] k = "LoginDisconnect" -> {"login_disconnect", "disconnect"}
    [] k \in {"KeepAliveRequest", "KeepAliveResponse"} -> {"keep_alive"}
    [] OTHER -> {k}]
MCCanonicalPath == [k \in MCPacketKinds |->
  CASE k = "LoginStart" -> "hello"
    [] k = "LoginDisconnect" -> "login_disconnect"
    [] k \in {"KeepAliveRequest", "KeepAliveResponse"} -> "keep_alive"
    [] OTHER -> k]
MCCore == {"LoginStart", "LoginDisconnect", "LoginSuccess", "KeepAliveRequest", "KeepAliveResponse",
           "FinishConfiguration"}
MCOfficialIds == [k \in MCPacketKinds |->
  CASE k \in {"LoginStart", "LoginDisconnect", "FinishConfiguration"} -> 0
    [] k = "KeepAliveRequest" -> 1 [] k = "KeepAliveResponse" -> 1
    [] k \in {"LoginSuccess", "SetHealth"} -> 2 [] k = "AddEntity" -> 3 [] k = "SetEquipment" -> 4
    [] k = "PlayerInfoUpdate" -> 6]
MCBuiltinIds == [k \in MCCore \cup {"SetHealth"} |-> MCOfficialIds[k]]
MCConfigurable == {"LoginStart", "LoginDisconnect", "LoginSuccess", "FinishConfiguration"}
MCDefaultIds == [k \in MCConfigurable \ {"FinishConfiguration"} |-> MCOfficialIds[k]]

MCPlain == [profile |-> "builtin", overrides |-> FALSE, ids |-> <<>>, configures |-> TRUE,
            world |-> {}, inRange |-> TRUE]
MCConfigurations ==
  {MCPlain, [MCPlain EXCEPT !.inRange = FALSE], [MCPlain EXCEPT !.configures = FALSE]}
  \cup {[MCPlain EXCEPT !.world = w] : w \in SUBSET {"file", "dir", "x", "z"}}
  \cup {[MCPlain EXCEPT !.profile = p, !.overrides = o, !.ids = i, !.configures = c] :
          p \in {"none", "builtin", "other"}, o, c \in BOOLEAN,
          i \in {<<>>, "FinishConfiguration" :> 0, "LoginSuccess" :> 0,
                 [k \in MCConfigurable |-> MCOfficialIds[k]]}}

Descriptor(kind, path, bare, id) ==
  [phase |-> MCPhaseOf[kind], direction |-> MCDirectionOf[kind], path |-> path,
   bare |-> bare, id |-> id]

\* The login and the end of the configuration, and every set of these: what the
\* client has, and a second name of a packet, a name without its namespace,
\* wrong IDs and an ID that is taken.
MCPacketReports == {
  reported \cup {Descriptor("LoginStart", "hello", FALSE, 0),
                Descriptor("LoginSuccess", "LoginSuccess", FALSE, 2),
                Descriptor("FinishConfiguration", "FinishConfiguration", FALSE, 0)} :
  reported \in SUBSET
  ({Descriptor(k, MCCanonicalPath[k], FALSE, MCOfficialIds[k]) : k \in Varied}
   \cup {Descriptor("LoginDisconnect", "disconnect", FALSE, 5),
         Descriptor("KeepAliveRequest", "keep_alive", TRUE, 1),
         Descriptor("KeepAliveResponse", "keep_alive", FALSE, 5),
         Descriptor("AddEntity", "AddEntity", FALSE, 5),
         Descriptor("AddEntity", "unknown", FALSE, 4)})}

Record(name, id) == [name |-> name, id |-> id]
MCRegistryReports == {
  [items |-> {Record("stone", 1)}, entities |-> {Record("player", 1), Record("pig", 2)}],
  [items |-> {Record("stone", 1), Record("dirt", 1)}, entities |-> {Record("player", 1)}],
  [items |-> {Record("stone", 1)}, entities |-> {Record("pig", 2)}]}

----------------------------------------------------------------------------
NoWorld ==
  /\ source = NoFile /\ file = NoFile /\ store = <<>>
  /\ phase = "off" /\ changes = 0 /\ seeded = FALSE

NoStart ==
  /\ packetReport = NoReport /\ registryReport = NoReport /\ config = MCPlain
  /\ pack = NoPack /\ edited = FALSE /\ start = "off" /\ loaded = Nothing

DiskInit ==
  /\ Init
  /\ \/ NoWorld /\ NoStart
     \/ WorldDataInit /\ NoStart
     \/ NoWorld /\ VersionPackInit

DiskNext ==
  \/ phase = "off" /\ start = "off" /\ Next /\ UNCHANGED <<worldDataVars, versionPackVars>>
  \/ WorldDataNext /\ UNCHANGED <<vars, versionPackVars>>
  \/ VersionPackNext /\ UNCHANGED <<vars, worldDataVars>>

DiskSpec == DiskInit /\ [][DiskNext]_<<vars, worldDataVars, versionPackVars>>
=============================================================================
