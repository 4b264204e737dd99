------------------------------ MODULE WorldData ------------------------------
(***************************************************************************)
(* The block data of the world: where a world comes from when the server   *)
(* starts (its own snapshot, configured Anvil regions, or a flat world),   *)
(* how players change it, how it is put into chunk packets and how it is   *)
(* saved.  Positions have one horizontal axis, and a section is Edge x     *)
(* Edge cells: cell (y, x) has index y * Edge + x.  Block containers stand *)
(* for the biome containers as well, which go the same ways with other     *)
(* limits.                                                                 *)
(***************************************************************************)
EXTENDS Integers, FiniteSets, FiniteSetsExt, SequencesExt

CONSTANTS
  Edge,             \* blocks along the edge of a section
  RegionEdge,       \* chunks along the edge of a region
  WordBits,         \* bits of a packed word
  MinBits,          \* fewest bits of a palette index
  MaxIndirectBits,  \* most bits of a palette index in a chunk packet
  Air,              \* the block state that does not count
  BlockStates,      \* the block states that the profile knows by name
  UnknownState,     \* what any other name becomes
  FlatLayers,       \* block state of the flat world at each height
  ProfileMin, ProfileCount,   \* the section range of the version pack
  Sources,          \* what may be configured as world source
  Visited,          \* chunk positions that players look at
  States,           \* block states that players set
  MaxChanges,       \* bound on the blocks set in a behaviour
  SectorBytes,      \* bytes of a sector of a region file
  MaxDecompressed,  \* most bytes of a decompressed chunk
  NoFile            \* there is no snapshot

ASSUME WorldDataAssumption ==
  /\ {SectorBytes, MaxDecompressed} \subseteq Nat
  /\ {Edge, RegionEdge, WordBits, MinBits, MaxIndirectBits, ProfileCount} \subseteq Nat \ {0}
  /\ MinBits <= MaxIndirectBits /\ MaxIndirectBits <= WordBits
  /\ Visited \cup DOMAIN FlatLayers \subseteq Int

\* What a block may be.  Any of these fits into a packed word, as does an index
\* into the palette of a section.  The flat world has the heights of the profile.
KnownStates == {Air, UnknownState} \cup Range(BlockStates) \cup Range(FlatLayers) \cup States
ASSUME StatesAssumption ==
  /\ KnownStates \subseteq 0 .. 2^WordBits - 1 /\ Edge * Edge <= 2^WordBits
  /\ ProfileMin \in Int
  /\ ProfileMin * Edge .. (ProfileMin + ProfileCount) * Edge - 1 \subseteq DOMAIN FlatLayers

VARIABLES
  source,   \* the configured regions, or NoFile when there are none
  file,     \* world-state.json
  store,    \* the chunks in memory, by position
  phase,    \* down, up, rejected (its snapshot) or unseeded (its regions)
  changes,  \* how many blocks were set
  seeded    \* history: the store is what was read from the regions

worldDataVars == <<source, file, store, phase, changes, seeded>>

Cells == 0 .. Edge * Edge - 1

\* Mutated forms of definitions below, for the properties at the end.
SetCellForgetsRemoval(section, i, state) ==
  [cells |-> [section.cells EXCEPT ![i] = state],
   count |-> IF section.cells[i] = Air /\ state # Air THEN section.count + 1 ELSE section.count]

LoadsAnyClaim(file_, pos) == TRUE

RestoreUncounted(snapshot) ==
  [pos \in DOMAIN snapshot |->
    [min |-> snapshot[pos].min,
     sections |-> [k \in DOMAIN snapshot[pos].sections |->
       [cells |-> snapshot[pos].sections[k], count |-> Edge * Edge]]]]

----------------------------------------------------------------------------
(* Palettes and packed words, shared by region files and chunk packets.    *)

\* usize::BITS - leading_zeros: how many bits value has.
BitLength(value) == CHOOSE b \in 0 .. WordBits : value < 2^b /\ (b = 0 \/ value >= 2^(b - 1))

\* The values of a container in the order they first occur in.
WithValue(palette, value) ==
  IF \E k \in DOMAIN palette : palette[k] = value THEN palette ELSE Append(palette, value)
PaletteOf(values) ==
  LET palette[n \in 0 .. Edge * Edge] ==
        IF n = 0 THEN <<>> ELSE WithValue(palette[n - 1], values[n - 1])
  IN  palette[Edge * Edge]

IndexIn(palette, value) == (CHOOSE k \in DOMAIN palette : palette[k] = value) - 1

\* Values do not straddle words.  The last word may have places to spare.
ValuesPerWord(bits) == WordBits \div bits
PackWord(values, bits, w) ==
  LET first == w * ValuesPerWord(bits)
      word[n \in 0 .. ValuesPerWord(bits)] ==
        IF n = 0 THEN 0
        ELSE word[n - 1]
               + (IF first + n - 1 \in Cells THEN values[first + n - 1] * 2^((n - 1) * bits) ELSE 0)
  IN  word[ValuesPerWord(bits)]
PackValues(values, bits) ==
  [w \in 1 .. (Edge * Edge + ValuesPerWord(bits) - 1) \div ValuesPerWord(bits) |->
    PackWord(values, bits, w - 1)]

UnpackValue(words, bits, i) ==
  (words[i \div ValuesPerWord(bits) + 1] \div 2^((i % ValuesPerWord(bits)) * bits)) % 2^bits

BitsPerPaletteValue(length) ==
  IF length <= 1 THEN 0
  ELSE IF BitLength(length - 1) < MinBits THEN MinBits ELSE BitLength(length - 1)

----------------------------------------------------------------------------
(* Chunks in memory.                                                       *)

NonEmpty(cells) == Cardinality({i \in Cells : cells[i] # Air})

EmptySection == [cells |-> [i \in Cells |-> Air], count |-> 0]

EmptyChunk(min, count) == [min |-> min, sections |-> [k \in 1 .. count |-> EmptySection]]

\* ChunkSection::set_block keeps the count of blocks that are not air.
SetCell(section, i, state) ==
  [cells |-> [section.cells EXCEPT ![i] = state],
   count |-> CASE section.cells[i] = Air /\ state # Air -> section.count + 1
               [] section.cells[i] # Air /\ state = Air -> section.count - 1
               [] OTHER -> section.count]

SectionIndex(chunk, y) == y - chunk.min + 1

HasSection(chunk, y) == SectionIndex(chunk, y) \in DOMAIN chunk.sections

\* StaticChunk::set_block: heights are split by Euclidean division.
SetBlockAt(chunk, x, y, state) ==
  [chunk EXCEPT !.sections[SectionIndex(chunk, y \div Edge)] =
     SetCell(@, (y % Edge) * Edge + x, state)]

FlatCells(y) == [i \in Cells |-> FlatLayers[y * Edge + i \div Edge]]

FlatChunk ==
  [min |-> ProfileMin,
   sections |-> [k \in 1 .. ProfileCount |->
     LET cells == FlatCells(ProfileMin + k - 1) IN
     [cells |-> cells, count |-> NonEmpty(cells)]]]

----------------------------------------------------------------------------
(* Anvil regions.  A region file has a name, a size in sectors, for each   *)
(* slot a location (where its sectors begin and how many there are), and   *)
(* payloads by the sector they begin at.  A payload has a declared length, *)
(* a compression, the bytes it decompresses to, whether those are a chunk  *)
(* in NBT, the position it claims and, for each section, its height and    *)
(* the block names that were meant.                                        *)

\* The vanilla writer.
Written(section) ==
  LET palette == PaletteOf(section.names) IN
  [y |-> section.y, palette |-> palette,
   data |-> IF Len(palette) = 1 THEN <<>>
            ELSE PackValues([i \in Cells |-> IndexIn(palette, section.names[i])],
                            BitsPerPaletteValue(Len(palette)))]

\* block_state_palette_entry.
StateOf(name) == IF name \in DOMAIN BlockStates THEN BlockStates[name] ELSE UnknownState

\* paletted_values of a section.
PalettedValues(written) ==
  [i \in Cells |->
    LET length == Len(written.palette) IN
    IF length = 1 THEN written.palette[1]
    ELSE written.palette[UnpackValue(written.data, BitsPerPaletteValue(length), i) + 1]]

\* apply_block_states: air is what the section has already.
ApplyBlockStates(written) ==
  LET names == PalettedValues(written)
      cells == [i \in Cells |-> StateOf(names[i])]
  IN  [cells |-> cells, count |-> NonEmpty(cells)]

\* section_y_range: from the lowest to the highest section listed.
Ys(sections) == {s.y : s \in sections}
SectionRange(sections) == Min(Ys(sections)) .. Max(Ys(sections))

\* chunk_from_anvil_nbt: a height that is not listed is air.
ChunkFromAnvil(sections) ==
  LET low == Min(Ys(sections))
  IN  [min |-> low,
       sections |-> [k \in 1 .. Cardinality(SectionRange(sections)) |->
         IF low + k - 1 \in Ys(sections)
           THEN ApplyBlockStates(Written(CHOOSE s \in sections : s.y = low + k - 1))
           ELSE EmptySection]]

RegionChunkPos(region, local) == region * RegionEdge + local

LocalChunk(pos) == pos % RegionEdge

HeaderSectors == 2

IsAbsent(location) == location.offset = 0 /\ location.count = 0

\* RegionHeader: one bad location and the file is not read at all.
GoodHeader(file_) ==
  /\ file_.size >= HeaderSectors
  /\ \A l \in DOMAIN file_.locations :
       LET location == file_.locations[l] IN
       IsAbsent(location) \/ (location.offset >= HeaderSectors /\ location.count > 0)

\* The compressions of CompressionType; later games have others.
Supported(compression) == compression \in {1, 2, 3}

Decompresses(payload) ==
  Supported(payload.compression) /\ payload.bytes <= MaxDecompressed

\* decode_chunk_sector: the length counts the compression and the data.
GoodPayload(payload, count) ==
  /\ payload.length \in 1 .. count * SectorBytes - 4
  /\ Decompresses(payload)
  /\ payload.nbt

\* read_chunk_nbt_at: the sectors must be in the file.
Decodes(file_, location) ==
  /\ location.offset + location.count <= file_.size
  /\ location.offset \in DOMAIN file_.payloads
  /\ GoodPayload(file_.payloads[location.offset], location.count)

PayloadAt(file_, pos) == file_.payloads[file_.locations[LocalChunk(pos)].offset]

\* A chunk that claims another position than that of its slot is skipped.
ClaimsItsPlace(file_, pos) == PayloadAt(file_, pos).pos = pos

\* load_chunk_from_region
LoadsAt(file_, pos) ==
  LET location == file_.locations[LocalChunk(pos)] IN
  /\ ~IsAbsent(location)
  /\ Decodes(file_, location)
  /\ ClaimsItsPlace(file_, pos)

\* load_chunk_store_from_region_lenient.
RegionStore(file_) ==
  LET positions == {pos \in {RegionChunkPos(file_.region, l) : l \in 0 .. RegionEdge - 1} :
                      LoadsAt(file_, pos)}
  IN  [pos \in positions |-> ChunkFromAnvil(PayloadAt(file_, pos).sections)]

\* region_pos_from_file_name: a file that is not named as a region does not
\* count, and one that is named r. and .mca without numbers is an error.
Misnamed(files) == \E f \in files : f.name = "malformed"

\* load_anvil_region_directory: a region that cannot be read is skipped.
\* One configured file is a directory with that file in it.
Readable(files) == {f \in files : f.name = "region" /\ GoodHeader(f)}
Seeds(files) == Readable(files) # {} /\ ~Misnamed(files)

\* What a writer of regions keeps to: a chunk has sections (section_y_range wants
\* one) and lists each height once, and no two files are named for one region.
Listed(sections) ==
  /\ IsFiniteSet(sections) /\ sections # {}
  /\ \A s \in sections : s.y \in Int /\ s.names = [i \in Cells |-> s.names[i]]
  /\ \A s, t \in sections : s.y = t.y => s = t
ASSUME SourcesAssumption ==
  \A files \in Sources \ {NoFile} :
    /\ \A f \in Readable(files) :
         /\ f.region \in Int /\ DOMAIN f.locations = 0 .. RegionEdge - 1
         /\ \A at \in DOMAIN f.payloads :
              f.payloads[at].nbt => Listed(f.payloads[at].sections)
    /\ \A f, g \in Readable(files) : f.region = g.region => f = g

RegionOf(pos) == pos \div RegionEdge

DirectoryStore(files) ==
  LET stores == [f \in Readable(files) |-> RegionStore(f)]
      positions == UNION {DOMAIN stores[f] : f \in Readable(files)}
  IN  [pos \in positions |->
        stores[CHOOSE f \in Readable(files) : pos \in DOMAIN stores[f]][pos]]

----------------------------------------------------------------------------
(* Snapshots.                                                              *)

\* WorldSnapshot::capture leaves the counts out.
Capture(chunks) ==
  [pos \in DOMAIN chunks |->
    [min |-> chunks[pos].min,
     sections |-> [k \in DOMAIN chunks[pos].sections |-> chunks[pos].sections[k].cells]]]

\* WorldSnapshot::restore counts again.
Restore(snapshot) ==
  [pos \in DOMAIN snapshot |->
    [min |-> snapshot[pos].min,
     sections |-> [k \in DOMAIN snapshot[pos].sections |->
       [cells |-> snapshot[pos].sections[k], count |-> NonEmpty(snapshot[pos].sections[k])]]]]

FitsProfile(chunk) == chunk.min = ProfileMin /\ Len(chunk.sections) = ProfileCount

\* validate_store_profile.
ValidStore(chunks) ==
  /\ DOMAIN chunks # {}
  /\ \A pos \in DOMAIN chunks : FitsProfile(chunks[pos])

----------------------------------------------------------------------------
(* Chunk packets.                                                          *)

\* encode_paletted_container.
EncodeContainer(values) ==
  LET palette == PaletteOf(values)
      bits == BitsPerPaletteValue(Len(palette))
      highest == BitLength(Max({values[i] : i \in Cells}))
      global == IF highest = 0 THEN 1 ELSE highest
  IN  IF Len(palette) = 1
        THEN [bits |-> 0, palette |-> palette, words |-> <<>>]
      ELSE IF bits <= MaxIndirectBits
        THEN [bits |-> bits, palette |-> palette,
              words |-> PackValues([i \in Cells |-> IndexIn(palette, values[i])], bits)]
      ELSE [bits |-> global, palette |-> <<>>, words |-> PackValues(values, global)]

\* encode_chunk_section.
EncodeSection(section) ==
  [count |-> section.count, container |-> EncodeContainer(section.cells)]

\* The client takes a palette or not by the number of bits.
ReadContainer(c) ==
  [i \in Cells |->
    CASE c.bits = 0 -> c.palette[1]
      [] c.bits \in 1 .. MaxIndirectBits -> c.palette[UnpackValue(c.words, c.bits, i) + 1]
      [] OTHER -> UnpackValue(c.words, c.bits, i)]

----------------------------------------------------------------------------
Up(chunks) ==
  /\ store' = chunks
  /\ phase' = "up"

WorldDataInit ==
  /\ source \in Sources
  /\ file = NoFile
  /\ store = <<>>
  /\ phase = "down"
  /\ changes = 0
  /\ seeded = FALSE

\* load_world_state: the snapshot comes before the configured regions.
StartFromSnapshot ==
  /\ phase = "down"
  /\ file # NoFile
  /\ IF ValidStore(Restore(file))
       THEN Up(Restore(file))
       ELSE phase' = "rejected" /\ store' = store
  /\ seeded' = FALSE
  /\ UNCHANGED <<source, file, changes>>

\* load_configured_world_chunks.
StartFromRegions ==
  /\ phase = "down"
  /\ file = NoFile
  /\ source # NoFile
  /\ IF Seeds(source)
       THEN Up(DirectoryStore(source))
       ELSE phase' = "unseeded" /\ store' = store
  /\ seeded' = Seeds(source)
  /\ UNCHANGED <<source, file, changes>>

\* SharedWorld::new_with_policy: a flat square around the spawn chunk.
StartFlat ==
  /\ phase = "down"
  /\ file = NoFile
  /\ source = NoFile
  /\ Up([pos \in {0} |-> FlatChunk])
  /\ seeded' = FALSE
  /\ UNCHANGED <<source, file, changes>>

\* ensure_chunks_loaded: what a player looks at and is not there is flat.
EnsureLoaded(pos) ==
  /\ phase = "up"
  /\ pos \notin DOMAIN store
  /\ store' = [p \in DOMAIN store \cup {pos} |-> IF p = pos THEN FlatChunk ELSE store[p]]
  /\ seeded' = FALSE
  /\ UNCHANGED <<source, file, phase, changes>>

\* ChunkStore::apply_block_mutation: a chunk or a section that is not there
\* is an error, and nothing changes.
ApplyBlockMutation(x, y, state) ==
  LET pos == x \div Edge IN
  /\ phase = "up"
  /\ changes < MaxChanges
  /\ pos \in DOMAIN store
  /\ HasSection(store[pos], y \div Edge)
  /\ store' = [store EXCEPT ![pos] = SetBlockAt(@, x % Edge, y, state)]
  /\ changes' = changes + 1
  /\ seeded' = FALSE
  /\ UNCHANGED <<source, file, phase>>

SaveWorldState ==
  /\ phase = "up"
  /\ file' = Capture(store)
  /\ UNCHANGED <<source, store, phase, changes, seeded>>

\* Shutdown saves; a kill does not.
Shutdown ==
  /\ phase = "up"
  /\ file' = Capture(store)
  /\ phase' = "down"
  /\ seeded' = FALSE
  /\ UNCHANGED <<source, store, changes>>

KillServer ==
  /\ phase = "up"
  /\ phase' = "down"
  /\ seeded' = FALSE
  /\ UNCHANGED <<source, file, store, changes>>

\* The server that did not start exits, and can be started again.
TryAgain ==
  /\ phase \in {"rejected", "unseeded"}
  /\ phase' = "down"
  /\ UNCHANGED <<source, file, store, changes, seeded>>

Blocks == {pos * Edge + dx : pos \in Visited, dx \in 0 .. Edge - 1}

Heights == DOMAIN FlatLayers

WorldDataNext ==
  \/ StartFromSnapshot \/ StartFromRegions \/ StartFlat
  \/ \E pos \in Visited : EnsureLoaded(pos)
  \/ \E x \in Blocks, y \in Heights, state \in States : ApplyBlockMutation(x, y, state)
  \/ SaveWorldState \/ Shutdown \/ KillServer \/ TryAgain

WorldDataSpec == WorldDataInit /\ [][WorldDataNext]_worldDataVars

----------------------------------------------------------------------------
\* What a client reads from the packet of any chunk is what the chunk holds,
\* and the number of blocks it is told is right: whatever the palette, the
\* source of the chunk and the changes since.
ClientReadsChunks ==
  phase = "up" =>
    \A pos \in DOMAIN store : \A k \in DOMAIN store[pos].sections :
      LET section == store[pos].sections[k]
          sent == EncodeSection(section)
      IN  /\ ReadContainer(sent.container) = section.cells
          /\ sent.count = NonEmpty(section.cells)

\* The chunks that were meant to be in the regions are there, at the
\* positions of their slots, and no others: a chunk is lost only if its own
\* sectors are damaged or out of place, or the header of its file is.
SeedIsTheRegions ==
  seeded =>
    /\ \A f \in Readable(source) :
       \A l \in {k \in 0 .. RegionEdge - 1 : ~IsAbsent(f.locations[k])} :
         LET pos == f.region * RegionEdge + l IN
         IF Decodes(f, f.locations[l]) /\ f.payloads[f.locations[l].offset].pos = pos
           THEN /\ pos \in DOMAIN store
                /\ \A s \in f.payloads[f.locations[l].offset].sections :
                     store[pos].sections[s.y - store[pos].min + 1].cells
                       = [i \in Cells |-> StateOf(s.names[i])]
           ELSE pos \notin DOMAIN store
    /\ \A pos \in DOMAIN store : \E f \in Readable(source) : RegionOf(pos) = f.region

\* A seed that the server accepts although it would reject a snapshot of it.
GoodSeed == source = NoFile \/ ValidStore(DirectoryStore(source))

\* A world that the server saved is a world that it starts with again, as it
\* was: unless its regions have chunks of another height, or none at all.
SavedWorldLoads ==
  GoodSeed =>
    /\ phase # "rejected"
    /\ phase = "up" => Restore(Capture(store)) = store
=============================================================================
