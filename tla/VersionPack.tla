----------------------------- MODULE VersionPack -----------------------------
(***************************************************************************)
(* From Mojang's reports to packet IDs: rom-bootstrap turns a packet       *)
(* report and a registry report into a version pack, and ferrum-server     *)
(* builds its protocol profile from a pack, from the built-in profile or   *)
(* from the [protocol] section of its configuration, checks that it can    *)
(* replicate players with it, and only then listens.  The two programs     *)
(* check a pack with code of their own.                                    *)
(*                                                                         *)
(* A name is a path that is written with or without its namespace; sorting *)
(* is what the order of a pack's records says of the pack as a whole.  The *)
(* artifact is the verified built-in one (module Instance), so its world   *)
(* and its synchronized registries are those of the built-in profile       *)
(* unless somebody edits the pack.                                         *)
(***************************************************************************)
EXTENDS Integers

CONSTANTS
  PacketKinds,      \* PacketKind
  PhaseOf, DirectionOf,   \* where a kind belongs
  PathsOf,          \* the paths that name a kind
  CanonicalPath,    \* the one that the built-in catalog uses
  Core,             \* PacketKind::CORE
  BuiltinIds,       \* the packets of the built-in profile, with their IDs
  DefaultIds,       \* those that a server without a profile has
  Configurable,     \* the kinds that [protocol] has a key for
  Handshaking,      \* those of [protocol] that the configuration phase needs
  Configurations,   \* server configurations, among them
  PlainConfiguration,
  OfficialIds,      \* the IDs that the 26.1.2 client uses
  Vitals,           \* packets of health, damage, death and respawn
  PlayerEntities,   \* packets of player entities and the tab list, among them
  PlayerInfo,       \* PlayerInfoUpdate
  Equipment,        \* SetEquipment
  Player,           \* minecraft:player
  PacketReports,    \* sets of [phase, direction, path, bare, id]
  RegistryReports,  \* [items, entities : sets of [name, id]]
  NoReport, NoPack

ConfigurationKeys == {"profile", "overrides", "ids", "configures", "world", "inRange"}

ASSUME VersionPackAssumption ==
  /\ PlainConfiguration \in Configurations
  /\ \A c \in Configurations : DOMAIN c = ConfigurationKeys /\ DOMAIN c.ids \subseteq Configurable
  /\ Core \cup Vitals \subseteq DOMAIN BuiltinIds /\ DOMAIN BuiltinIds \subseteq PacketKinds
  /\ DOMAIN DefaultIds \cup Handshaking \subseteq Configurable
  /\ Configurable \subseteq PacketKinds \ Vitals /\ Vitals # {}
  /\ PlayerInfo \in PlayerEntities

\* A path names one kind of a phase and direction (known_packet_kind).
ASSUME PathsAssumption ==
  /\ \A k \in PacketKinds : CanonicalPath[k] \in PathsOf[k]
  /\ \A j, k \in PacketKinds :
       j # k /\ PhaseOf[j] = PhaseOf[k] /\ DirectionOf[j] = DirectionOf[k] =>
         PathsOf[j] \cap PathsOf[k] = {}
  /\ \A report \in PacketReports : \A d \in report :
       DOMAIN d = {"phase", "direction", "path", "bare", "id"}

\* What the built-in profile says of the client is right.
ASSUME ProfileAssumption == \A k \in DOMAIN BuiltinIds : BuiltinIds[k] = OfficialIds[k]

VARIABLES
  packetReport, registryReport,   \* what generate finds, or NoReport
  config,           \* the server's configuration
  pack,             \* the version pack on disk
  edited,           \* somebody changed it since it was generated
  start,            \* how far the instance is
  loaded            \* the table and the registries that the server works with

versionPackVars ==
  <<packetReport, registryReport, config, pack, edited, start, loaded>>

----------------------------------------------------------------------------
(* Packet catalogs and tables.                                             *)

\* PacketKind::phase and direction.
Place(k) == <<PhaseOf[k], DirectionOf[k]>>

\* normalize_packet_name.
Normalized(d) == [d EXCEPT !.bare = FALSE]

\* known_packet_kind: the kinds that a descriptor may stand for.
KnownKinds(d) ==
  {k \in PacketKinds : Place(k) = <<d.phase, d.direction>> /\ d.path \in PathsOf[k]}

SameState(a, b) == a.phase = b.phase /\ a.direction = b.direction

\* PacketCatalog::new: names are compared after normalize_packet_name.
ValidCatalog(entries) ==
  /\ \A d \in entries : d.id >= 0
  /\ \A a, b \in entries : a # b /\ SameState(a, b) => a.path # b.path /\ a.id # b.id

\* typed_table fails on two entries of the same kind.
KindsAreUnique(entries) ==
  \A a, b \in entries : a # b => KnownKinds(a) \cap KnownKinds(b) = {}

Typed(entries) == UNION {KnownKinds(d) : d \in entries}

TypedTable(entries) ==
  [k \in Typed(entries) |-> (CHOOSE d \in entries : k \in KnownKinds(d)).id]

BuiltinCatalog ==
  {[phase |-> PhaseOf[k], direction |-> DirectionOf[k], path |-> CanonicalPath[k],
    bare |-> FALSE, id |-> BuiltinIds[k]] : k \in DOMAIN BuiltinIds}

\* PacketTable::insert: no two packets of a phase and direction share an ID.
ValidTable(table) ==
  \A j, k \in DOMAIN table :
    j # k /\ Place(j) = Place(k) => table[j] # table[k]

\* PacketTable::resolve.
Resolve(table, phase, direction, id) ==
  {k \in DOMAIN table : Place(k) = <<phase, direction>> /\ table[k] = id}

\* parse_registry, and the same checks of a pack's items and entity types.
ValidRegistry(records) ==
  /\ \A r \in records : r.id >= 0
  /\ \A a, b \in records : a # b => a.name # b.name /\ a.id # b.id

\* parse_registry refuses a registry without entries.
ValidRegistryReport(report) ==
  \A records \in {report.items, report.entities} : records # {} /\ ValidRegistry(records)

NamesIn(records) == {r.name : r \in records}

----------------------------------------------------------------------------
(* Server configurations: server.profile ("none", "builtin" or another     *)
(* name), whether version_name or protocol are given, the packet IDs of    *)
(* [protocol], whether the configuration phase is enabled, the keys of     *)
(* [world], and whether the [play] and player limits are in range.         *)

HasProfile(c) == c.profile = "builtin"

\* A profile has its own version and packets.
ProfileIsAlone(c) == HasProfile(c) => ~c.overrides /\ c.ids = <<>>

\* One region file, with or without a position of its own, or a directory.
WorldKeysFit(c) == c.world \in {{}, {"dir"}, {"file"}, {"file", "x", "z"}}

CanConfigure(c) ==
  c.configures /\ c.profile = "none" => Handshaking \subseteq DOMAIN c.ids

\* ServerConfig::from_file
Parses(c) ==
  /\ c.profile \in {"none", "builtin"}
  /\ ProfileIsAlone(c) /\ c.inRange /\ WorldKeysFit(c) /\ CanConfigure(c)

\* ServerConfig::protocol_profile
ConfiguredTable(c) ==
  IF HasProfile(c) THEN BuiltinIds
  ELSE [k \in DOMAIN DefaultIds \cup DOMAIN c.ids |->
         IF k \in DOMAIN c.ids THEN c.ids[k] ELSE DefaultIds[k]]

----------------------------------------------------------------------------
(* Version packs.                                                          *)

\* The heights, the floor and the block states of the world fit together.
PossibleWorld(p) == p.world # "impossible"

\* The typed packets are those of a canonical catalog.
PacketsMatchCatalog(p) ==
  /\ DOMAIN p.packets # {} /\ p.catalog # {}
  /\ \A d \in p.catalog : Normalized(d) = d
  /\ ValidCatalog(p.catalog) /\ KindsAreUnique(p.catalog)
  /\ DOMAIN p.packets \subseteq Typed(p.catalog)
  /\ \A k \in DOMAIN p.packets : p.packets[k] = TypedTable(p.catalog)[k]
  /\ ValidTable(p.packets)

PalettesAreValid(p) ==
  /\ ValidRegistry(p.items) /\ ValidRegistry(p.entities)
  /\ p.entities # {} => Player \in NamesIn(p.entities)

\* validate_rompack.
ValidPack(p) ==
  /\ PossibleWorld(p)
  /\ PacketsMatchCatalog(p)
  /\ PalettesAreValid(p)
  /\ p.sorted

\* decode_rompack: magic, schema, length and digest, then the same checks.
DecodesPack(p) == p.intact /\ ValidPack(p)

\* A mutated form: only the packets that are there are compared.
AgreesWhereKnown(packets) ==
  \A k \in DOMAIN BuiltinIds \cap DOMAIN packets : packets[k] = BuiltinIds[k]

\* validate_against_builtin_profile.
MatchesBuiltinProfile(packets) ==
  \A k \in DOMAIN BuiltinIds : k \in DOMAIN packets /\ packets[k] = BuiltinIds[k]

\* validate_builtin_26_1_2_pack and protocol_profile_from_packets: the server
\* asks for the kinds of the core, and not for their IDs.
ServerAccepts(p) ==
  /\ DecodesPack(p)
  /\ HasProfile(config)
  /\ p.registries = "builtin"
  /\ Core \subseteq DOMAIN p.packets

\* A mutated form: the registries of the pack are not looked at.
SupportsVitals(table, entities, items) == Vitals \subseteq DOMAIN table

\* validate_replication_packet_support.
SupportsReplication(table, entities, items) ==
  /\ Vitals \subseteq DOMAIN table
  /\ Player \in NamesIn(entities) => PlayerEntities \subseteq DOMAIN table
  /\ items # {} => Equipment \in DOMAIN table

----------------------------------------------------------------------------
Nothing == [packets |-> <<>>, items |-> {}, entities |-> {}]

VersionPackInit ==
  /\ packetReport \in PacketReports \cup {NoReport}
  /\ registryReport \in RegistryReports \cup {NoReport}
  /\ config \in Configurations
  /\ config # PlainConfiguration => packetReport = NoReport   \* bound
  /\ pack = NoPack
  /\ edited = FALSE
  /\ start = "prepared"
  /\ loaded = Nothing

Given == <<packetReport, registryReport, config>>

\* generate reads both reports before it builds anything.
ReportsCanBeRead ==
  /\ packetReport # NoReport =>
       /\ packetReport # {}
       /\ ValidCatalog(packetReport)
  /\ registryReport # NoReport => ValidRegistryReport(registryReport)

\* resolve_packet_catalog.
Catalog ==
  IF packetReport = NoReport THEN BuiltinCatalog ELSE {Normalized(d) : d \in packetReport}

GeneratedPack ==
  [packets |-> TypedTable(Catalog), catalog |-> Catalog,
   items |-> IF registryReport = NoReport THEN {} ELSE registryReport.items,
   entities |-> IF registryReport = NoReport THEN {} ELSE registryReport.entities,
   sorted |-> TRUE, intact |-> TRUE, registries |-> "builtin", world |-> "builtin"]

\* generate_instance; what it refuses leaves no pack.
Generate ==
  /\ start = "prepared"
  /\ pack = NoPack
  /\ IF /\ ReportsCanBeRead
        /\ KindsAreUnique(Catalog)
        /\ MatchesBuiltinProfile(TypedTable(Catalog))
        /\ ValidPack(GeneratedPack)
       THEN pack' = GeneratedPack /\ start' = start
       ELSE pack' = pack /\ start' = "not generated"
  /\ UNCHANGED <<Given, edited, loaded>>

\* The file is damaged, or written again by another tool: with a packet less,
\* with another ID, in another order, with other registries or another world.
EditPack ==
  /\ start = "prepared"
  /\ pack # NoPack /\ ~edited
  /\ edited' = TRUE
  /\ \/ pack' = [pack EXCEPT !.intact = FALSE]
     \/ pack' = [pack EXCEPT !.sorted = FALSE]
     \/ pack' = [pack EXCEPT !.registries = "other"]
     \/ \E world \in {"other", "impossible"} : pack' = [pack EXCEPT !.world = world]
     \/ \E k \in DOMAIN pack.packets :
          pack' = [pack EXCEPT !.packets = [j \in DOMAIN pack.packets \ {k} |-> pack.packets[j]]]
     \/ \E k, j \in DOMAIN pack.packets :
          pack' = [pack EXCEPT !.packets[k] = pack.packets[j],
                     !.catalog = {IF k \in KnownKinds(d) THEN [d EXCEPT !.id = pack.packets[j]]
                                  ELSE d : d \in @}]
  /\ UNCHANGED <<Given, start, loaded>>

\* run reads the configuration before anything else.
ReadConfiguration ==
  /\ start = "prepared"
  /\ start' = IF Parses(config) THEN "configured" ELSE "misconfigured"
  /\ UNCHANGED <<Given, pack, edited, loaded>>

\* load_version_pack.
LoadVersionPack ==
  /\ start = "configured"
  /\ pack # NoPack
  /\ IF ServerAccepts(pack)
       THEN /\ loaded' = [packets |-> pack.packets, items |-> pack.items,
                          entities |-> pack.entities]
            /\ start' = "loaded"
       ELSE start' = "rejected" /\ loaded' = loaded
  /\ UNCHANGED <<Given, pack, edited>>

\* A server that runs without a pack.
UseConfiguredProfile ==
  /\ start = "configured"
  /\ IF ValidTable(ConfiguredTable(config))
       THEN start' = "loaded" /\ loaded' = [Nothing EXCEPT !.packets = ConfiguredTable(config)]
       ELSE start' = "rejected" /\ loaded' = loaded
  /\ UNCHANGED <<Given, pack, edited>>

\* validate_replication_packet_support, in run.
CheckReplicationSupport ==
  /\ start = "loaded"
  /\ start' = IF SupportsReplication(loaded.packets, loaded.entities, loaded.items)
                THEN "running" ELSE "unsupported"
  /\ UNCHANGED <<Given, pack, edited, loaded>>

\* Whatever happened, the commands can be given again.
StartAgain ==
  /\ start \in {"not generated", "misconfigured", "rejected", "unsupported", "running"}
  /\ start' = "prepared"
  /\ loaded' = Nothing
  /\ UNCHANGED <<Given, pack, edited>>

VersionPackNext ==
  \/ Generate \/ EditPack \/ ReadConfiguration \/ LoadVersionPack \/ UseConfiguredProfile
  \/ CheckReplicationSupport \/ StartAgain

VersionPackSpec == VersionPackInit /\ [][VersionPackNext]_versionPackVars

----------------------------------------------------------------------------
\* The packets that a running server asks its table for: those of the phases
\* before Play and of the Play loop, the list entry of the session's own player,
\* which activation queues whatever the registries are, and what replication
\* sends with the registries it was given.  The writer of a live session ends
\* it at a packet without an ID.
PacketsInUse ==
  Core \cup Vitals \cup {PlayerInfo}
    \cup (IF Player \in NamesIn(loaded.entities) THEN PlayerEntities ELSE {})
    \cup (IF Player \in NamesIn(loaded.entities) /\ loaded.items # {} THEN {Equipment} ELSE {})

\* "Packet kinds required by the current native server core" and what comes with
\* the registries are there when the server runs, so that a live session is not
\* ended for the want of one.  The code does not keep to it: the check at the
\* start asks for the list entry only where player entities are registered, and
\* a server that runs on the built-in profile, or on the pack generated without
\* reports, has none.
LiveSessionsHaveTheirPackets ==
  start = "running" => PacketsInUse \subseteq DOMAIN loaded.packets

\* A report that tells the truth of the packets it names.
Honest ==
  packetReport # NoReport =>
    \A d \in packetReport : \A k \in KnownKinds(d) : d.id = OfficialIds[k]

\* A running server lacks no packet that it will need but the list entry, and
\* that one only where no player entities are registered; and an ID that it
\* reads or writes stands for one packet only: for the client's, if nobody
\* edited the pack, for all packets if the report was right and for the built-in
\* ones in any case.
RunningHasItsPackets ==
  start = "running" =>
    /\ PacketsInUse \ DOMAIN loaded.packets \subseteq
         IF Player \in NamesIn(loaded.entities) THEN {} ELSE {PlayerInfo}
    /\ \A k \in DOMAIN loaded.packets :
         /\ Resolve(loaded.packets, PhaseOf[k], DirectionOf[k], loaded.packets[k]) = {k}
         /\ ~edited /\ (Honest \/ k \in DOMAIN BuiltinIds)
              => loaded.packets[k] = OfficialIds[k]

\* A pack that rom-bootstrap generated and nobody edited is one that the
\* server starts with, unless it lists entity types or items without the
\* packets for them: the checks of the two programs agree that far.
GeneratedPackStarts ==
  HasProfile(config) /\ pack # NoPack /\ ~edited =>
    /\ start # "rejected"
    /\ start = "unsupported" =>
         pack.items # {} /\ ~(PlayerEntities \cup {Equipment} \subseteq DOMAIN pack.packets)
=============================================================================
