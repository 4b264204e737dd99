--------------------------- MODULE GameState_proofs ---------------------------
(***************************************************************************)
(* Proofs about the game: its registries and their snapshot, and what the  *)
(* clients know of the players' movements and items.                       *)
(***************************************************************************)
EXTENDS GameState, EntityMotion, ItemOutputs, WellFoundedInduction,
        SequenceTheorems, TLAPS

(***************************************************************************)
(* The registries of players and entities agree, and every state can be    *)
(* saved and restored, for any players, names, positions, modes and        *)
(* limits.                                                                 *)
(***************************************************************************)

\* The tables are functions, and their values have their types.
Typed ==
  /\ GameTypeOK
  /\ players \in [DOMAIN players -> Record]
  /\ names = [k \in DOMAIN names |-> names[k]]
  /\ entities \in [DOMAIN entities -> EntityRecord]

\* Two players never share a name, and a player who is away has no entity.
NamesAreOfOnePlayer ==
  \A p, q \in DOMAIN players : Key[players[p].name] = Key[players[q].name] => p = q
AwayHasNoEntity ==
  \A p \in DOMAIN players : ~players[p].connected => players[p].entity = NoEntity

GameInvariant ==
  /\ Typed
  /\ NamesIndexPlayers
  /\ EntitiesStandForPlayers
  /\ NamesAreOfOnePlayer
  /\ AwayHasNoEntity

---------------------------------------------------------------------------
\* A set of numbers up to a bound has a largest one.
LEMMA LargestExists ==
  ASSUME NEW bound \in Nat, NEW S \in SUBSET (0 .. bound), S # {}
  PROVE  \E m \in S : \A i \in S : i <= m
  <1> DEFINE T == {bound - i : i \in S}
  <1>1. T \subseteq Nat /\ T # {}
    <2>1. \A i \in S : bound - i \in Nat
      OBVIOUS
    <2> QED
      BY <2>1
  <1>2. PICK x \in T : \A y \in T : ~(<<y, x>> \in OpToRel(<, Nat))
    BY <1>1, NatLessThanWellFounded, WFMin
  <1>3. \A y \in T : x <= y
    <2> HIDE DEF T
    <2>1. ASSUME NEW y \in T PROVE ~(y < x)
      <3>1. x \in Nat /\ y \in Nat
        BY <1>1
      <3>2. <<y, x>> \notin OpToRel(<, Nat)
        BY <1>2
      <3> QED
        BY <3>1, <3>2, Zenon DEF OpToRel
    <2> QED
      BY <1>1, <2>1
  <1>4. PICK m \in S : x = bound - m
    OBVIOUS
  <1>5. \A i \in S : i <= m
    <2> TAKE i \in S
    <2>1. x <= bound - i
      BY <1>3
    <2> QED
      BY <1>4, <2>1
  <1> QED
    BY <1>5

LEMMA NextIdIsFree ==
  ASSUME NEW file, Saved(file), Restorable(file)
  PROVE  RestoredNextId(file) \in 1..LastId
  <1> DEFINE S == Captured(file) \cup {0}
  <1>1. LastId \in Nat \ {0}
    BY GameStateAssumption
  <1>2. S \in SUBSET (0 .. LastId) /\ S # {} /\ \A i \in S : i < LastId
    BY <1>1 DEF Saved, Restorable
  <1> DEFINE largest == CHOOSE m \in S : \A i \in Captured(file) : i <= m
  <1>3. \E m \in S : \A i \in Captured(file) : i <= m
    <2>1. \E m \in S : \A i \in S : i <= m
      BY <1>1, <1>2, LargestExists
    <2> QED
      BY <2>1
  <1>4. largest \in S
    BY <1>3
  <1>5. RestoredNextId(file) = 1 + largest
    BY DEF RestoredNextId
  <1> HIDE DEF largest
  <1> QED
    BY <1>1, <1>2, <1>4, <1>5

---------------------------------------------------------------------------
\* What a start makes of a file that it accepts.

LEMMA NothingIsLeft ==
  ASSUME NEW file, Saved(file), Restorable(file)
  PROVE  Captured(file) \ {file.players[p].entity :
            p \in {q \in DOMAIN file.players : file.players[q].connected}} = {}
  BY DEF Saved, Restorable, Captured

LEMMA DisconnectedRecord ==
  ASSUME NEW r \in Record
  PROVE  /\ Disconnected(r) \in Record
         /\ Disconnected(r).name = r.name
         /\ ~Disconnected(r).connected
         /\ Disconnected(r).entity = NoEntity
         /\ ~r.connected /\ r.entity = NoEntity => Disconnected(r) = r
  <1>1. LastId \in Nat \ {0}
    BY GameStateAssumption
  <1>2. /\ Disconnected(r) \in Record
        /\ Disconnected(r).name = r.name
        /\ ~Disconnected(r).connected
        /\ Disconnected(r).entity = NoEntity
    <2>1. [r EXCEPT !.connected = FALSE] \in Record
      BY DEF Record
    <2>2. ASSUME NEW s \in Record PROVE [s EXCEPT !.entity = 0] \in Record
      BY <1>1 DEF Record
    <2>3. Disconnected(r) = [[r EXCEPT !.connected = FALSE] EXCEPT !.entity = 0]
      BY DEF Disconnected, NoEntity
    <2> QED
      BY <2>1, <2>2, <2>3 DEF Record, Disconnected, NoEntity
  <1>3. ~r.connected /\ r.entity = NoEntity => Disconnected(r) = r
    BY DEF Disconnected, Record, NoEntity
  <1> QED
    BY <1>2, <1>3

LEMMA LoadedPlayers ==
  ASSUME NEW file, Saved(file), Restorable(file)
  PROVE  /\ Load(file).players \in [DOMAIN file.players -> Record]
         /\ \A p \in DOMAIN file.players :
              /\ Load(file).players[p] = Disconnected(file.players[p])
              /\ Load(file).players[p].name = file.players[p].name
              /\ ~Load(file).players[p].connected
              /\ Load(file).players[p].entity = NoEntity
  <1>2. \A p \in DOMAIN file.players : file.players[p] \in Record
    BY DEF Saved
  <1>3. \A p \in DOMAIN file.players :
          ~file.players[p].connected => file.players[p].entity = NoEntity
    BY DEF Restorable
  <1>4. Load(file).players =
          [p \in DOMAIN file.players |->
             IF file.players[p].connected THEN Disconnected(file.players[p])
                                          ELSE file.players[p]]
    BY DEF Load
  <1> QED
    BY <1>2, <1>3, <1>4, DisconnectedRecord

LEMMA LoadedNames ==
  ASSUME NEW file, Saved(file), Restorable(file)
  PROVE  /\ Load(file).names = [k \in DOMAIN Load(file).names |-> Load(file).names[k]]
         /\ DOMAIN Load(file).names =
              {Key[file.players[p].name] : p \in DOMAIN file.players}
         /\ \A p \in DOMAIN file.players :
              Load(file).names[Key[file.players[p].name]] = p
  <1> DEFINE keys == {Key[file.players[p].name] : p \in DOMAIN file.players}
             found(k) == CHOOSE p \in DOMAIN file.players : Key[file.players[p].name] = k
  <1>1. Load(file).names = [k \in keys |-> found(k)]
    BY DEF Load
  <1>2. ASSUME NEW p \in DOMAIN file.players
        PROVE  found(Key[file.players[p].name]) = p
    BY <1>2 DEF Restorable
  <1> HIDE DEF found
  <1> QED
    BY <1>1, <1>2

LEMMA LoadedEntities ==
  ASSUME NEW file, Saved(file), Restorable(file)
  PROVE  /\ DOMAIN Load(file).entities = {} /\ DOMAIN Load(file).uuids = {}
         /\ Load(file).entities \in [{} -> EntityRecord]
         /\ Load(file).uuids \in [{} -> {}]
         /\ Load(file).nextId \in 1..LastId
  BY NothingIsLeft, NextIdIsFree DEF Load, Restrict, Captured

IsLoaded(file) ==
  /\ players = Load(file).players /\ names = Load(file).names
  /\ entities = Load(file).entities /\ uuids = Load(file).uuids
  /\ nextId = Load(file).nextId

LEMMA LoadedIsCorrect ==
  ASSUME NEW file, Saved(file), Restorable(file), IsLoaded(file)
  PROVE  GameInvariant
  <1> USE DEF IsLoaded
  <1>1. DOMAIN players = DOMAIN file.players
    BY LoadedPlayers
  <1>2. Typed
    BY <1>1, LoadedPlayers, LoadedNames, LoadedEntities, GameStateAssumption
    DEF Typed, GameTypeOK, Saved, Record
  <1>3. NamesIndexPlayers
    <2>1. \A p \in DOMAIN players : players[p].name = file.players[p].name
      BY <1>1, LoadedPlayers
    <2>2. DOMAIN names = {Key[players[p].name] : p \in DOMAIN players}
      <3>1. {Key[players[p].name] : p \in DOMAIN players}
              = {Key[file.players[p].name] : p \in DOMAIN file.players}
        BY <1>1, <2>1
      <3> QED
        BY <3>1, LoadedNames
    <2>3. \A p \in DOMAIN players : names[Key[players[p].name]] = p
      BY <1>1, <2>1, LoadedNames
    <2> QED
      BY <2>2, <2>3 DEF NamesIndexPlayers
  <1>4. EntitiesStandForPlayers
    BY <1>1, LoadedPlayers, LoadedEntities DEF EntitiesStandForPlayers
  <1>5. NamesAreOfOnePlayer /\ AwayHasNoEntity
    BY <1>1, LoadedPlayers DEF NamesAreOfOnePlayer, AwayHasNoEntity, Restorable
  <1> QED
    BY <1>2, <1>3, <1>4, <1>5 DEF GameInvariant

LEMMA LoadEstablishes ==
  ASSUME NEW file, Saved(file), Restorable(file)
  PROVE  (IsLoaded(file) => GameInvariant) /\ (IsLoaded(file)' => GameInvariant')
  <1>1. IsLoaded(file) => GameInvariant
    BY LoadedIsCorrect
  <1>2. (IsLoaded(file) => GameInvariant)'
    BY <1>1, PTL
  <1> QED
    BY <1>1, <1>2

---------------------------------------------------------------------------
\* Steps that leave names, ids and connections as they are.

LEMMA SameStory ==
  ASSUME GameInvariant,
         players' \in [DOMAIN players -> Record],
         \A p \in DOMAIN players : /\ players'[p].name = players[p].name
                                   /\ players'[p].entity = players[p].entity
                                   /\ players'[p].connected = players[p].connected,
         entities' \in [DOMAIN entities -> EntityRecord],
         \A i \in DOMAIN entities : entities'[i].player = entities[i].player,
         UNCHANGED <<names, uuids, nextId>>
  PROVE  GameInvariant'
  <1>1. DOMAIN players' = DOMAIN players /\ DOMAIN entities' = DOMAIN entities
    OBVIOUS
  <1>2. Typed'
    BY <1>1 DEF GameInvariant, Typed, GameTypeOK
  <1>3. NamesIndexPlayers'
    <2>1. {Key[players'[p].name] : p \in DOMAIN players'}
            = {Key[players[p].name] : p \in DOMAIN players}
      BY <1>1
    <2> QED
      BY <1>1, <2>1 DEF GameInvariant, NamesIndexPlayers
  <1>4. EntitiesStandForPlayers'
    <2>1. {p \in DOMAIN players' : players'[p].connected}
            = {p \in DOMAIN players : players[p].connected}
      BY <1>1
    <2>2. \A p \in DOMAIN uuids : p \in DOMAIN players
      BY DEF GameInvariant, EntitiesStandForPlayers
    <2> QED
      BY <1>1, <2>1, <2>2 DEF GameInvariant, EntitiesStandForPlayers
  <1>5. NamesAreOfOnePlayer' /\ AwayHasNoEntity'
    BY <1>1 DEF GameInvariant, NamesAreOfOnePlayer, AwayHasNoEntity
  <1> QED
    BY <1>2, <1>3, <1>4, <1>5 DEF GameInvariant

LEMMA MovedToKeeps ==
  ASSUME GameInvariant, NEW p \in Players, NEW position \in Positions, NEW kind,
         MovedTo(p, position, kind)
  PROVE  GameInvariant'
  <1>1. /\ entities' \in [DOMAIN entities -> EntityRecord]
        /\ \A i \in DOMAIN entities : entities'[i].player = entities[i].player
    BY DEF GameInvariant, Typed, MovedTo, EntityRecord
  <1>2. players' = players /\ players \in [DOMAIN players -> Record]
    BY DEF GameInvariant, Typed, MovedTo
  <1> QED
    BY <1>1, <1>2, SameStory DEF MovedTo

LEMMA SetGameModeKeeps ==
  ASSUME GameInvariant, NEW p \in Players, NEW mode \in Modes, SetGameMode(p, mode)
  PROVE  GameInvariant'
  <1>1. players \in [DOMAIN players -> Record] /\ p \in DOMAIN players
    BY DEF GameInvariant, Typed, SetGameMode
  <1>2. ASSUME NEW r \in Record
        PROVE  LET s == [[r EXCEPT !.mode = mode] EXCEPT !.previousMode = r.mode] IN
               /\ s \in Record /\ s.name = r.name
               /\ s.entity = r.entity /\ s.connected = r.connected
    <2>1. [r EXCEPT !.mode = mode] \in Record
      BY DEF Record
    <2>2. ASSUME NEW q \in Record PROVE [q EXCEPT !.previousMode = r.mode] \in Record
      BY DEF Record
    <2> QED
      BY <2>1, <2>2 DEF Record
  <1>3. players' = [players EXCEPT ![p] = [[players[p] EXCEPT !.mode = mode]
                                             EXCEPT !.previousMode = players[p].mode]]
    <2> DEFINE changed == [players EXCEPT ![p].mode = mode]
    <2>1. players' = [changed EXCEPT ![p].previousMode = players[p].mode]
      BY DEF SetGameMode
    <2> QED
      BY <1>1, <2>1
  <1>4. /\ players' \in [DOMAIN players -> Record]
        /\ \A q \in DOMAIN players : /\ players'[q].name = players[q].name
                                     /\ players'[q].entity = players[q].entity
                                     /\ players'[q].connected = players[q].connected
    BY <1>1, <1>2, <1>3
  <1> QED
    BY <1>4, SameStory DEF SetGameMode, GameInvariant, Typed

LEMMA HealthOfRecord ==
  ASSUME NEW p \in DOMAIN players, NEW health \in 0..MaxHealth,
         players \in [DOMAIN players -> Record],
         players' = [players EXCEPT ![p].health = health]
  PROVE  /\ players' \in [DOMAIN players -> Record]
         /\ \A q \in DOMAIN players : /\ players'[q].name = players[q].name
                                      /\ players'[q].entity = players[q].entity
                                      /\ players'[q].connected = players[q].connected
  <1>1. ASSUME NEW r \in Record
        PROVE  /\ [r EXCEPT !.health = health] \in Record
               /\ [r EXCEPT !.health = health].name = r.name
               /\ [r EXCEPT !.health = health].entity = r.entity
               /\ [r EXCEPT !.health = health].connected = r.connected
    BY DEF Record
  <1>2. players' = [players EXCEPT ![p] = [players[p] EXCEPT !.health = health]]
    OBVIOUS
  <1> QED
    BY <1>1, <1>2

LEMMA WithHealthKeeps ==
  ASSUME GameInvariant, NEW p \in DOMAIN players, NEW health \in 0..MaxHealth, NEW told,
         WithHealth(p, health, told)
  PROVE  GameInvariant'
  BY HealthOfRecord, SameStory DEF WithHealth, GameInvariant, Typed

LEMMA DamageKeeps ==
  ASSUME GameInvariant, NEW p \in Players, NEW amount \in Amounts,
         Damage(p, amount) \/ Heal(p, amount) \/ Kill(p)
  PROVE  GameInvariant'
  <1>1. p \in DOMAIN players
    BY DEF Damage, Heal, Kill, Connected
  <1>2. players[p].health \in 0..MaxHealth /\ amount \in Nat /\ MaxHealth \in Nat
    BY <1>1, GameStateAssumption DEF GameInvariant, Typed, Record
  <1>3. Hurt(players[p].health, amount) \in 0..MaxHealth
    BY <1>2 DEF Hurt
  <1>4. Healed(players[p].health, amount) \in 0..MaxHealth
    BY <1>2 DEF Healed
  <1>5. 0 \in 0..MaxHealth
    BY <1>2
  <1> QED
    BY <1>1, <1>3, <1>4, <1>5, WithHealthKeeps DEF Damage, Heal, Kill

LEMMA RespawnKeeps ==
  ASSUME GameInvariant, NEW p \in Players, Respawn(p)
  PROVE  GameInvariant'
  <1>1. p \in DOMAIN players /\ MaxHealth \in 0..MaxHealth
    BY GameStateAssumption DEF Respawn, Connected
  <1>2. /\ players' \in [DOMAIN players -> Record]
        /\ \A q \in DOMAIN players : /\ players'[q].name = players[q].name
                                     /\ players'[q].entity = players[q].entity
                                     /\ players'[q].connected = players[q].connected
    BY <1>1, HealthOfRecord DEF Respawn, GameInvariant, Typed
  <1>3. /\ entities' \in [DOMAIN entities -> EntityRecord]
        /\ \A i \in DOMAIN entities : entities'[i].player = entities[i].player
    BY GameStateAssumption DEF GameInvariant, Typed, Respawn, EntityRecord
  <1> QED
    BY <1>2, <1>3, SameStory DEF Respawn

---------------------------------------------------------------------------
\* Joining and leaving.

\* The names after a join: every other player keeps its own.
LEMMA NamesAfterJoin ==
  ASSUME GameInvariant, NEW p \in Players, NEW name \in Names,
         ~NameTaken(p, name),
         names' = NamesAfter(p, name),
         DOMAIN players' = DOMAIN players \cup {p},
         players'[p].name = name,
         \A q \in DOMAIN players : q # p => players'[q] = players[q]
  PROVE  NamesIndexPlayers' /\ NamesAreOfOnePlayer' /\ DOMAIN names' \subseteq Keys
         /\ names' = [k \in DOMAIN names' |-> names'[k]]
  <1> DEFINE new == Key[name]
             old == Key[players[p].name]
             renamed == p \in DOMAIN players /\ old # new
             kept == IF renamed THEN Without(names, old) ELSE names
  <1>1. new \in Keys /\ names' = With(kept, new, p)
    BY GameStateAssumption DEF NamesAfter
  <1>2. /\ \A q \in DOMAIN players : /\ Key[players[q].name] \in DOMAIN names
                                     /\ names[Key[players[q].name]] = q
        /\ \A k \in DOMAIN names : /\ names[k] \in DOMAIN players
                                   /\ Key[players[names[k]].name] = k
        /\ DOMAIN names \subseteq Keys
    BY DEF GameInvariant, NamesIndexPlayers, NamesAreOfOnePlayer, Typed, GameTypeOK
  <1>3. /\ DOMAIN kept = IF renamed THEN DOMAIN names \ {old} ELSE DOMAIN names
        /\ \A k \in DOMAIN kept : kept[k] = names[k]
    BY DEF Without, Restrict
  <1>4. \A k \in DOMAIN kept : k # new => names[k] \in DOMAIN players /\ names[k] # p
    BY <1>2, <1>3
  <1>5. \A q \in DOMAIN players : q # p =>
          Key[players[q].name] \in DOMAIN kept /\ Key[players[q].name] # new
    BY <1>2, <1>3 DEF NameTaken
  <1> HIDE DEF new, kept
  <1>6. /\ DOMAIN names' = DOMAIN kept \cup {new}
        /\ names'[new] = p
        /\ \A k \in DOMAIN kept : k # new => names'[k] = kept[k]
    BY <1>1 DEF With
  <1>7. /\ \A q \in DOMAIN players' : Key[players'[q].name] \in DOMAIN names'
        /\ \A k \in DOMAIN names' :
             names'[k] \in DOMAIN players' /\ Key[players'[names'[k]].name] = k
    BY <1>2, <1>3, <1>4, <1>5, <1>6 DEF new
  <1>8. NamesIndexPlayers'
    <2>1. DOMAIN names' = {Key[players'[q].name] : q \in DOMAIN players'}
      <3>1. ASSUME NEW k \in DOMAIN names'
            PROVE  \E q \in DOMAIN players' : k = Key[players'[q].name]
        BY <1>7
      <3>2. ASSUME NEW q \in DOMAIN players' PROVE Key[players'[q].name] \in DOMAIN names'
        BY <1>7
      <3> QED
        BY <3>1, <3>2
    <2> QED
      BY <1>7, <2>1 DEF NamesIndexPlayers
  <1>9. NamesAreOfOnePlayer'
    BY <1>5 DEF NamesAreOfOnePlayer, GameInvariant, new
  <1>10. DOMAIN names' \subseteq Keys
    BY <1>1, <1>2, <1>3, <1>6
  <1>11. names' = [k \in DOMAIN names' |-> names'[k]]
    BY <1>1 DEF With
  <1> QED
    BY <1>8, <1>9, <1>10, <1>11

LEMMA ConnectKeeps ==
  ASSUME GameInvariant, NEW p \in Players, NEW name \in Names, Connect(p, name)
  PROVE  GameInvariant'
  <1> DEFINE joined == IF p \in DOMAIN players
                         THEN [players[p] EXCEPT !.name = name, !.entity = nextId,
                                                 !.connected = TRUE]
                         ELSE NewPlayer(name, nextId)
             entity == [player |-> p, position |-> Spawn]
  <1>1. nextId \in 1..LastId /\ nextId < LastId /\ LastId \in Nat
    BY GameStateAssumption DEF Connect, CanSpawn, GameInvariant, Typed, GameTypeOK
  <1>2. /\ joined \in Record /\ joined.name = name
        /\ joined.entity = nextId /\ joined.connected
    <2>1. CASE p \in DOMAIN players
      <3>1. players[p] \in Record
        BY <2>1 DEF GameInvariant, Typed
      <3>2. ASSUME NEW r \in Record PROVE [r EXCEPT !.name = name] \in Record
        BY DEF Record
      <3>3. ASSUME NEW r \in Record PROVE [r EXCEPT !.entity = nextId] \in Record
        BY <1>1 DEF Record
      <3>4. ASSUME NEW r \in Record PROVE [r EXCEPT !.connected = TRUE] \in Record
        BY DEF Record
      <3>5. joined = [[[players[p] EXCEPT !.name = name] EXCEPT !.entity = nextId]
                        EXCEPT !.connected = TRUE]
        BY <2>1
      <3>6. joined \in Record
        <4> HIDE DEF joined
        <4> QED
          BY <3>1, <3>2, <3>3, <3>4, <3>5
      <3> QED
        BY <2>1, <3>1, <3>6 DEF Record
    <2>2. CASE p \notin DOMAIN players
      BY <1>1, <2>2, GameStateAssumption DEF NewPlayer, Record
    <2> QED
      BY <2>1, <2>2
  <1>3. players' = With(players, p, joined)
    BY DEF Connect
  <1> HIDE DEF joined
  <1>4. /\ DOMAIN players' = DOMAIN players \cup {p}
        /\ players'[p] = joined
        /\ \A q \in DOMAIN players : q # p => players'[q] = players[q]
    BY <1>3 DEF With
  <1>5. /\ entities' = With(entities, nextId, entity)
        /\ uuids' = With(uuids, p, nextId)
        /\ nextId' = nextId + 1
        /\ p \notin DOMAIN uuids /\ ~Connected(p)
    BY DEF Connect, Spawned, CanSpawn
  <1>6. /\ DOMAIN entities' = DOMAIN entities \cup {nextId}
        /\ entities'[nextId] = entity
        /\ \A i \in DOMAIN entities : i # nextId => entities'[i] = entities[i]
    BY <1>5 DEF With
  <1>7. /\ DOMAIN uuids' = DOMAIN uuids \cup {p}
        /\ uuids'[p] = nextId
        /\ \A q \in DOMAIN uuids : q # p => uuids'[q] = uuids[q]
    BY <1>5 DEF With
  <1>8. /\ NamesIndexPlayers' /\ NamesAreOfOnePlayer' /\ DOMAIN names' \subseteq Keys
        /\ names' = [k \in DOMAIN names' |-> names'[k]]
    BY <1>2, <1>4, NamesAfterJoin DEF Connect
  <1>9. Typed'
    <2>1. entity \in EntityRecord
      BY GameStateAssumption DEF EntityRecord
    <2>2. players' \in [DOMAIN players' -> Record]
      BY <1>2, <1>3, <1>4 DEF With, GameInvariant, Typed
    <2>3. entities' \in [DOMAIN entities' -> EntityRecord]
      BY <1>5, <1>6, <2>1 DEF With, GameInvariant, Typed
    <2> QED
      BY <1>1, <1>4, <1>5, <1>6, <1>7, <1>8, <2>2, <2>3
      DEF GameInvariant, Typed, GameTypeOK
  <1>10. EntitiesStandForPlayers'
    <2>1. {q \in DOMAIN players' : players'[q].connected}
            = {q \in DOMAIN players : players[q].connected} \cup {p}
      BY <1>2, <1>4
    <2>2. \A q \in DOMAIN uuids : q \in DOMAIN players /\ uuids[q] # nextId
      BY <1>1 DEF GameInvariant, EntitiesStandForPlayers, Typed, GameTypeOK
    <2>3. \A i \in DOMAIN entities : i # nextId /\ i < nextId'
      BY <1>1, <1>5 DEF GameInvariant, EntitiesStandForPlayers, Typed, GameTypeOK
    <2>4. entity.player = p /\ nextId < nextId'
      BY <1>1, <1>5
    <2> HIDE DEF entity
    <2>5. DOMAIN uuids' = {q \in DOMAIN players' : players'[q].connected}
      BY <1>7, <2>1 DEF GameInvariant, EntitiesStandForPlayers
    <2>6. ASSUME NEW q \in DOMAIN uuids'
          PROVE  /\ uuids'[q] = players'[q].entity
                 /\ uuids'[q] \in DOMAIN entities'
                 /\ entities'[uuids'[q]].player = q
      <3>1. CASE q = p
        BY <3>1, <1>2, <1>4, <1>6, <1>7, <2>4
      <3>2. CASE q # p
        BY <3>2, <1>4, <1>6, <1>7, <2>2 DEF GameInvariant, EntitiesStandForPlayers
      <3> QED
        BY <3>1, <3>2
    <2>7. ASSUME NEW i \in DOMAIN entities'
          PROVE  /\ entities'[i].player \in DOMAIN uuids'
                 /\ uuids'[entities'[i].player] = i
                 /\ i < nextId'
      <3>1. CASE i = nextId
        BY <3>1, <1>6, <1>7, <2>4
      <3>2. CASE i # nextId
        BY <3>2, <1>5, <1>6, <1>7, <2>3 DEF GameInvariant, EntitiesStandForPlayers
      <3> QED
        BY <3>1, <3>2
    <2> QED
      BY <2>5, <2>6, <2>7 DEF EntitiesStandForPlayers
  <1>11. AwayHasNoEntity'
    BY <1>2, <1>4 DEF AwayHasNoEntity, GameInvariant
  <1> QED
    BY <1>8, <1>9, <1>10, <1>11 DEF GameInvariant

LEMMA DisconnectKeeps ==
  ASSUME GameInvariant, NEW p \in Players, Disconnect(p)
  PROVE  GameInvariant'
  <1> DEFINE id == players[p].entity
             away == Disconnected(players[p])
  <1>1. p \in DOMAIN players /\ players[p].connected /\ players[p] \in Record
    BY DEF Disconnect, Connected, GameInvariant, Typed
  <1>2. /\ away \in Record /\ away.name = players[p].name
        /\ ~away.connected /\ away.entity = NoEntity
    BY <1>1, DisconnectedRecord
  <1>3. players' = [players EXCEPT ![p] = away]
    BY DEF Disconnect
  <1>4. p \in DOMAIN uuids /\ uuids[p] = id /\ id \in DOMAIN entities
        /\ entities[id].player = p
    BY <1>1 DEF GameInvariant, EntitiesStandForPlayers
  <1>5. /\ entities' = Without(entities, id)
        /\ uuids' = Without(uuids, p)
        /\ names' = names /\ nextId' = nextId
    BY <1>4 DEF Disconnect, Despawned
  <1> HIDE DEF away
  <1>6. /\ DOMAIN players' = DOMAIN players
        /\ players'[p] = away
        /\ \A q \in DOMAIN players : q # p => players'[q] = players[q]
        /\ players' \in [DOMAIN players -> Record]
    BY <1>1, <1>2, <1>3 DEF GameInvariant, Typed
  <1>7. /\ DOMAIN entities' = DOMAIN entities \ {id}
        /\ \A i \in DOMAIN entities' : entities'[i] = entities[i]
        /\ DOMAIN uuids' = DOMAIN uuids \ {p}
        /\ \A q \in DOMAIN uuids' : uuids'[q] = uuids[q]
    BY <1>5 DEF Without, Restrict
  <1>8. Typed'
    <2>1. entities' \in [DOMAIN entities' -> EntityRecord]
      BY <1>5, <1>7 DEF Without, Restrict, GameInvariant, Typed
    <2> QED
      BY <1>5, <1>6, <1>7, <2>1 DEF GameInvariant, Typed, GameTypeOK
  <1>9. \A q \in DOMAIN players : players'[q].name = players[q].name
    BY <1>2, <1>6
  <1>10. NamesIndexPlayers' /\ NamesAreOfOnePlayer'
    <2>1. {Key[players'[q].name] : q \in DOMAIN players'}
            = {Key[players[q].name] : q \in DOMAIN players}
      BY <1>6, <1>9
    <2> QED
      BY <1>5, <1>6, <1>9, <2>1 DEF GameInvariant, NamesIndexPlayers, NamesAreOfOnePlayer
  <1>11. EntitiesStandForPlayers'
    <2>1. {q \in DOMAIN players' : players'[q].connected}
            = {q \in DOMAIN players : players[q].connected} \ {p}
      BY <1>2, <1>6
    <2>2. \A q \in DOMAIN uuids : q \in DOMAIN players
      BY DEF GameInvariant, EntitiesStandForPlayers
    <2> QED
      BY <1>4, <1>5, <1>6, <1>7, <2>1, <2>2 DEF GameInvariant, EntitiesStandForPlayers
  <1>12. AwayHasNoEntity'
    BY <1>2, <1>6 DEF GameInvariant, AwayHasNoEntity
  <1> QED
    BY <1>8, <1>10, <1>11, <1>12 DEF GameInvariant

---------------------------------------------------------------------------
\* Saving and starting.

LEMMA CaptureCanBeLoaded ==
  ASSUME GameInvariant
  PROVE  Saved(Capture) /\ Restorable(Capture)
  <1>1. Capture.players = players /\ Capture.entities = entities
    BY DEF Capture
  <1>2. Saved(Capture)
    BY <1>1 DEF Saved, Captured, GameInvariant, Typed, GameTypeOK, EntitiesStandForPlayers
  <1>3. Restorable(Capture)
    <2>1. \A i \in DOMAIN entities : i < LastId
      BY GameStateAssumption DEF GameInvariant, Typed, GameTypeOK, EntitiesStandForPlayers
    <2>2. \A i, j \in DOMAIN entities : entities[i].player = entities[j].player => i = j
      BY DEF GameInvariant, EntitiesStandForPlayers
    <2>3. \A p \in DOMAIN players :
            IF players[p].connected
              THEN players[p].entity \in DOMAIN entities
                   /\ entities[players[p].entity].player = p
              ELSE players[p].entity = NoEntity
      BY DEF GameInvariant, EntitiesStandForPlayers, AwayHasNoEntity
    <2> QED
      BY <1>1, <2>1, <2>2, <2>3
      DEF Restorable, Captured, GameInvariant, NamesAreOfOnePlayer
  <1> QED
    BY <1>2, <1>3

LEMMA CaptureRestores ==
  ASSUME GameInvariant
  PROVE  SnapshotRestores
  <1>1. Saved(Capture) /\ Restorable(Capture)
    BY CaptureCanBeLoaded
  <1>2. Capture.players = players
    BY DEF Capture
  <1>3. \A f : \A S : f \in [{} -> S] => f = None
    <2> TAKE f
    <2> TAKE S
    <2> HAVE f \in [{} -> S]
    <2>1. f \in Seq(S) /\ Len(f) = 0
      <3>1. 1..0 = {}
        OBVIOUS
      <3>2. f \in [1..0 -> S]
        BY <3>1
      <3> QED
        BY <3>2
    <2> QED
      BY <2>1, EmptySeq DEF None
  <1>4. Load(Capture).entities = None
    BY <1>1, <1>3, LoadedEntities
  <1>5. Load(Capture).uuids = None
    BY <1>1, <1>3, LoadedEntities
  <1>6. Load(Capture).names = names
    <2> DEFINE file == Capture
    <2>1. /\ DOMAIN Load(file).names
               = {Key[file.players[p].name] : p \in DOMAIN file.players}
          /\ \A p \in DOMAIN file.players :
               Load(file).names[Key[file.players[p].name]] = p
      BY <1>1, LoadedNames
    <2>2. /\ DOMAIN Load(file).names = DOMAIN names
          /\ \A k \in DOMAIN names : Load(file).names[k] = names[k]
      BY <1>2, <2>1 DEF GameInvariant, NamesIndexPlayers
    <2>3. Load(Capture).names
            = [k \in DOMAIN Load(Capture).names |-> Load(Capture).names[k]]
      BY <1>1, LoadedNames
    <2>4. names = [k \in DOMAIN names |-> names[k]]
      BY DEF GameInvariant, Typed
    <2> QED
      BY <2>2, <2>3, <2>4
  <1>7. \A p \in DOMAIN players : Load(Capture).players[p] = Disconnected(players[p])
    BY <1>1, <1>2, LoadedPlayers
  <1> QED
    BY <1>1, <1>4, <1>5, <1>6, <1>7 DEF SnapshotRestores

LEMMA RestartKeeps ==
  ASSUME GameInvariant, Restart
  PROVE  GameInvariant'
  <1>1. PICK file : file = Capture
    OBVIOUS
  <1>2. Saved(file) /\ Restorable(file)
    BY <1>1, CaptureCanBeLoaded
  <1>3. IsLoaded(file)'
    BY <1>1 DEF Restart, IsLoaded
  <1> QED
    BY <1>2, <1>3, LoadEstablishes

---------------------------------------------------------------------------
\* Every step.

LEMMA CommandKeeps ==
  ASSUME GameInvariant, NEW source, NEW order \in Orders, Command(source, order)
  PROVE  GameInvariant'
  <1>1. CASE Announce
    <2>1. players' = players /\ entities' = entities /\ UNCHANGED <<names, uuids, nextId>>
      BY <1>1 DEF Announce
    <2> QED
      BY <2>1, SameStory DEF GameInvariant, Typed
  <1>2. ASSUME NEW p, order.verb = "gamemode", SetGameMode(p, order.mode)
        PROVE  GameInvariant'
    <2>1. order.mode \in Modes
      BY <1>2 DEF Orders
    <2>2. p \in Players
      BY <1>2 DEF SetGameMode, GameInvariant, Typed, GameTypeOK
    <2> QED
      BY <1>2, <2>1, <2>2, SetGameModeKeeps
  <1>3. ASSUME NEW p, order.verb = "tp", MovedTo(p, order.position, "teleported")
        PROVE  GameInvariant'
    <2>1. order.position \in Positions
      BY <1>3 DEF Orders
    <2>2. p \in Players
      BY <1>3 DEF MovedTo, Connected, GameInvariant, Typed, GameTypeOK
    <2> QED
      BY <1>3, <2>1, <2>2, MovedToKeeps
  <1>4. ASSUME NEW p, Kill(p) PROVE GameInvariant'
    <2>1. p \in DOMAIN players /\ 0 \in 0..MaxHealth
      BY <1>4, GameStateAssumption DEF Kill, Connected
    <2> QED
      BY <1>4, <2>1, WithHealthKeeps DEF Kill
  <1> QED
    BY <1>1, <1>2, <1>3, <1>4 DEF Command

LEMMA GameInvariantHolds == Spec => []GameInvariant
  <1>1. Init => GameInvariant
    <2> SUFFICES ASSUME NEW file \in InitialFiles, Restorable(file),
                        players = Load(file).players, names = Load(file).names,
                        entities = Load(file).entities, uuids = Load(file).uuids,
                        nextId = Load(file).nextId
                 PROVE  GameInvariant
      BY DEF Init
    <2> QED
      BY InitialFilesAssumption, LoadEstablishes DEF IsLoaded
  <1>2. GameInvariant /\ [Next]_vars => GameInvariant'
    <2> SUFFICES ASSUME GameInvariant, [Next]_vars PROVE GameInvariant'
      OBVIOUS
    <2>1. ASSUME NEW p \in Players, NEW name \in Names, Connect(p, name)
          PROVE  GameInvariant'
      BY <2>1, ConnectKeeps
    <2>2. ASSUME NEW p \in Players, Disconnect(p) PROVE GameInvariant'
      BY <2>2, DisconnectKeeps
    <2>3. ASSUME NEW p \in Players, NEW position \in Positions, Move(p, position)
          PROVE  GameInvariant'
      BY <2>3, MovedToKeeps DEF Move
    <2>4. ASSUME NEW p \in Players, NEW amount \in Amounts,
                 Damage(p, amount) \/ Heal(p, amount)
          PROVE  GameInvariant'
      BY <2>4, DamageKeeps
    <2>5. ASSUME NEW p \in Players, Respawn(p) PROVE GameInvariant'
      BY <2>5, RespawnKeeps
    <2>6. ASSUME NEW source, NEW order \in Orders, Command(source, order)
          PROVE  GameInvariant'
      BY <2>6, CommandKeeps
    <2>7. CASE Restart
      BY <2>7, RestartKeeps
    <2>8. CASE UNCHANGED vars
      <3>1. players' = players /\ entities' = entities /\ UNCHANGED <<names, uuids, nextId>>
        BY <2>8 DEF vars
      <3> QED
        BY <3>1, SameStory DEF GameInvariant, Typed
    <2> QED
      BY <2>1, <2>2, <2>3, <2>4, <2>5, <2>6, <2>7, <2>8 DEF Next
  <1> QED
    BY <1>1, <1>2, PTL DEF Spec

\* In every state the name index finds exactly the player who bears the name,
\* and exactly the connected players have an entity, whatever the order of
\* joins under old and new names, leaves, deaths, respawns and restarts
\* (GameState::connect_player, disconnect_player and load_game_state).
THEOREM RegistriesStayInAgreement == Spec => []RegistriesAgree
  <1>1. GameInvariant => RegistriesAgree
    BY DEF GameInvariant, RegistriesAgree
  <1> QED
    BY <1>1, GameInvariantHolds, PTL

\* What GameSnapshot::capture takes of any reachable state is accepted by
\* GameSnapshot::restore, and the players come back as they were, disconnected.
THEOREM SavesCanBeLoaded == Spec => []SnapshotRestores
  <1>1. GameInvariant => SnapshotRestores
    BY CaptureRestores
  <1> QED
    BY <1>1, GameInvariantHolds, PTL

---------------------------------------------------------------------------
(* What the events of a step tell of a player.                             *)

Told(p) ==
  Connected(p) /\ p \in DOMAIN players' /\ players'[p].connected =>
    LET r == players[p] s == players'[p] IN
    /\ Tells("killed", p) <=> (~Dead(r) /\ Dead(s))
    /\ Tells("respawned", p) <=> (Dead(r) /\ ~Dead(s))
    /\ r.health # s.health =>
         \E i \in DOMAIN events' : events'[i] = VitalsEvent(p, s.health)[1]
    /\ r.mode # s.mode =>
         Tells("mode", p) /\ s.previousMode = r.mode
    /\ Position(p) # Position(p)' =>
         Tells("moved", p) \/ Tells("teleported", p) \/ Tells("respawned", p)

\* Nobody is said to have died or to live again, or it is another player.
Silent(p) ==
  \A i \in DOMAIN events' :
    events'[i].kind \in {"killed", "respawned"} => events'[i].player # p

\* The step is none of this player's.
LEMMA ToldOfOthers ==
  ASSUME NEW p, Silent(p),
         Connected(p) => players'[p] = players[p] /\ Position(p)' = Position(p)
  PROVE  Told(p)
  BY DEF Told, Silent, Tells

\* The entity of a connected player is where the registries say, and no other
\* connected player has it.
LEMMA OwnEntity ==
  ASSUME GameInvariant, NEW p, Connected(p)
  PROVE  /\ players[p].entity \in DOMAIN entities
         /\ players[p].entity < nextId
         /\ entities[players[p].entity].player = p
  BY DEF GameInvariant, EntitiesStandForPlayers, Connected

LEMMA TwoEvents ==
  ASSUME NEW a, NEW b
  PROVE  /\ DOMAIN (<<a>> \o <<b>>) = {1, 2}
         /\ (<<a>> \o <<b>>)[1] = a /\ (<<a>> \o <<b>>)[2] = b
  OBVIOUS

LEMMA OneEvent ==
  ASSUME NEW a
  PROVE  /\ DOMAIN <<a>> = {1} /\ <<a>>[1] = a
         /\ <<a>> \o <<>> = <<a>>
  OBVIOUS

LEMMA ConnectTells ==
  ASSUME GameInvariant, NEW q \in Players, NEW name \in Names, Connect(q, name), NEW p
  PROVE  Told(p)
<1>1. DOMAIN events' = {1} /\ events'[1].kind = "connected"
  BY DEF Connect
<1>2. CASE p = q
  BY <1>2 DEF Connect, Told
<1>3. ASSUME p # q, Connected(p)
      PROVE  players'[p] = players[p] /\ Position(p)' = Position(p)
  <2>1. players'[p] = players[p]
    BY <1>3 DEF Connect, With, Connected
  <2>2. players[p].entity \in DOMAIN entities /\ players[p].entity # nextId
    BY <1>3, OwnEntity DEF GameInvariant, Typed, GameTypeOK
  <2>3. entities'[players[p].entity] = entities[players[p].entity]
    BY <2>2 DEF Connect, Spawned, With
  <2> QED BY <2>1, <2>3 DEF Position
<1> QED BY <1>1, <1>2, <1>3, ToldOfOthers DEF Silent

LEMMA DisconnectTells ==
  ASSUME GameInvariant, NEW q \in Players, Disconnect(q), NEW p
  PROVE  Told(p)
<1>1. DOMAIN events' = {1} /\ events'[1].kind = "disconnected"
  BY DEF Disconnect
<1>2. PICK away : away = Disconnected(players[q])
  OBVIOUS
<1>3. q \in DOMAIN players /\ Connected(q) /\ players' = [players EXCEPT ![q] = away]
  BY <1>2 DEF Disconnect, Connected
<1>4. ~away.connected
  BY <1>2, <1>3, DisconnectedRecord DEF GameInvariant, Typed
<1>5. CASE p = q
  BY <1>3, <1>4, <1>5 DEF Told
<1>6. ASSUME p # q, Connected(p)
      PROVE  players'[p] = players[p] /\ Position(p)' = Position(p)
  <2>1. players'[p] = players[p]
    BY <1>3, <1>6 DEF Connected
  <2>2. /\ players[p].entity \in DOMAIN entities
        /\ players[p].entity # players[q].entity
    BY <1>3, <1>6, OwnEntity
  <2>3. entities' = Without(entities, players[q].entity)
    BY <1>3, OwnEntity DEF Disconnect, Despawned
  <2>4. entities'[players[p].entity] = entities[players[p].entity]
    BY <2>2, <2>3 DEF Without, Restrict
  <2> QED BY <2>1, <2>4 DEF Position
<1> QED BY <1>1, <1>5, <1>6, ToldOfOthers DEF Silent

\* An entity put elsewhere is another player's, or the events tell of it.
LEMMA OtherEntityStays ==
  ASSUME GameInvariant, NEW q, Connected(q), NEW p, Connected(p), p # q, NEW position,
         entities' = [entities EXCEPT ![players[q].entity].position = position],
         players'[p] = players[p]
  PROVE  Position(p)' = Position(p)
<1>1. players[p].entity # players[q].entity /\ players[p].entity \in DOMAIN entities
  BY OwnEntity
<1>2. entities'[players[p].entity] = entities[players[p].entity]
  BY <1>1
<1> QED BY <1>2 DEF Position

LEMMA MovedToTells ==
  ASSUME GameInvariant, NEW q, NEW position, NEW kind \in {"moved", "teleported"},
         MovedTo(q, position, kind), NEW p
  PROVE  Told(p)
<1>1. /\ DOMAIN events' = {1} /\ events'[1].kind = kind /\ events'[1].player = q
      /\ players' = players /\ Connected(q)
      /\ entities' = [entities EXCEPT ![players[q].entity].position = position]
  BY DEF MovedTo
<1>2. Silent(p)
  BY <1>1 DEF Silent
<1>3. CASE p = q
  BY <1>1, <1>2, <1>3 DEF Told, Silent, Tells
<1>4. ASSUME p # q, Connected(p)
      PROVE  Position(p)' = Position(p)
  BY <1>1, <1>4, OtherEntityStays
<1> QED BY <1>1, <1>2, <1>3, <1>4, ToldOfOthers

LEMMA SetGameModeTells ==
  ASSUME GameInvariant, NEW q, NEW mode, SetGameMode(q, mode), NEW p
  PROVE  Told(p)
<1>1. PICK r : r = [players[q] EXCEPT !.mode = mode, !.previousMode = players[q].mode]
  OBVIOUS
<1>2. /\ DOMAIN events' = {1} /\ events'[1].kind = "mode" /\ events'[1].player = q
      /\ entities' = entities /\ q \in DOMAIN players
      /\ players' = [players EXCEPT ![q] = r]
  <2>1. players = [x \in DOMAIN players |-> players[x]] /\ q \in DOMAIN players
    BY DEF GameInvariant, Typed, SetGameMode
  <2>2. players' = [players EXCEPT ![q] = r]
    BY <1>1, <2>1 DEF SetGameMode
  <2>3. events' = <<[kind |-> "mode", player |-> q, mode |-> mode]>> /\ entities' = entities
    BY DEF SetGameMode
  <2> QED BY <2>1, <2>2, <2>3
<1>3. players[q] \in Record
  BY <1>2 DEF GameInvariant, Typed
<1>4. /\ r.entity = players[q].entity /\ r.health = players[q].health
      /\ r.previousMode = players[q].mode
  BY <1>1, <1>3 DEF Record
<1>5. Silent(p)
  BY <1>2 DEF Silent
<1>6. CASE p = q
  <2>1. Position(p)' = Position(p)
    BY <1>2, <1>4, <1>6 DEF Position
  <2>2. Tells("mode", p)
    BY <1>2, <1>6 DEF Tells
  <2>3. Dead(players'[p]) <=> Dead(players[p])
    BY <1>2, <1>4, <1>6 DEF Dead
  <2> QED BY <1>2, <1>4, <1>5, <1>6, <2>1, <2>2, <2>3 DEF Told, Silent, Tells
<1>7. ASSUME p # q, Connected(p)
      PROVE  players'[p] = players[p] /\ Position(p)' = Position(p)
  <2>1. players'[p] = players[p]
    BY <1>2, <1>7 DEF Connected
  <2> QED BY <1>2, <2>1 DEF Position
<1> QED BY <1>5, <1>6, <1>7, ToldOfOthers

\* A change of health: who dies is named, and nobody lives again.
LEMMA WithHealthTells ==
  ASSUME GameInvariant, NEW q, Connected(q), ~Dead(players[q]), NEW health,
         players' = [players EXCEPT ![q].health = health], entities' = entities,
         \E i \in DOMAIN events' : events'[i] = VitalsEvent(q, health)[1],
         \A i \in DOMAIN events' :
           events'[i] = VitalsEvent(q, health)[1] \/ events'[i] = KilledEvent(q)[1],
         (\E i \in DOMAIN events' : events'[i] = KilledEvent(q)[1]) <=> health = 0,
         NEW p
  PROVE  Told(p)
<1>1. PICK r : r = [players[q] EXCEPT !.health = health]
  OBVIOUS
<1>2. q \in DOMAIN players /\ players[q] \in Record /\ players' = [players EXCEPT ![q] = r]
  BY <1>1 DEF Connected, GameInvariant, Typed
<1>3. /\ r.entity = players[q].entity /\ r.health = health
      /\ r.mode = players[q].mode
  BY <1>1, <1>2 DEF Record
<1>4. /\ VitalsEvent(q, health)[1].kind = "vitals"
      /\ KilledEvent(q)[1].kind = "killed" /\ KilledEvent(q)[1].player = q
  BY DEF VitalsEvent, KilledEvent
<1>5. \A i \in DOMAIN events' :
        /\ events'[i].kind # "respawned"
        /\ events'[i].kind = "killed" => events'[i] = KilledEvent(q)[1] /\ events'[i].player = q
  BY <1>4
<1>6. CASE p = q
  <2>1. Position(p)' = Position(p)
    BY <1>2, <1>3, <1>6 DEF Position
  <2>2. players'[p] = r
    BY <1>2, <1>6
  <2>3. Tells("killed", p) <=> health = 0
    BY <1>4, <1>5, <1>6 DEF Tells
  <2>4. ~Tells("respawned", p)
    BY <1>5 DEF Tells
  <2> QED BY <1>3, <1>6, <2>1, <2>2, <2>3, <2>4 DEF Told, Dead
<1>7. ASSUME p # q, Connected(p)
      PROVE  players'[p] = players[p] /\ Position(p)' = Position(p)
  <2>1. players'[p] = players[p]
    BY <1>2, <1>7 DEF Connected
  <2> QED BY <2>1 DEF Position
<1>8. CASE p # q
  <2>1. Silent(p)
    BY <1>5, <1>8 DEF Silent
  <2> QED BY <1>7, <1>8, <2>1, ToldOfOthers
<1> QED BY <1>6, <1>8

LEMMA DamageTells ==
  ASSUME GameInvariant, NEW q, NEW amount \in Amounts, Damage(q, amount) \/ Heal(q, amount),
         NEW p
  PROVE  Told(p)
<1>1. PICK v, k : v = [kind |-> "vitals", player |-> q,
                       health |-> Hurt(players[q].health, amount)]
                  /\ k = [kind |-> "killed", player |-> q]
  OBVIOUS
<1>2. v # k /\ KilledEvent(q)[1] = k /\ v.kind # "killed" /\ k.kind = "killed"
  BY <1>1 DEF KilledEvent
<1>3. CASE Damage(q, amount)
  <2>1. PICK left : left = Hurt(players[q].health, amount)
    OBVIOUS
  <2>2. VitalsEvent(q, left) = <<v>> /\ KilledEvent(q) = <<k>>
    BY <1>1, <2>1 DEF VitalsEvent, KilledEvent
  <2>3. events' = <<v>> \o (IF left = 0 THEN <<k>> ELSE <<>>)
    BY <1>3, <2>1, <2>2 DEF Damage, WithHealth
  <2>4. /\ Connected(q) /\ ~Dead(players[q]) /\ entities' = entities
        /\ players' = [players EXCEPT ![q].health = left]
    BY <1>3, <2>1 DEF Damage, WithHealth
  <2>5. /\ left = 0 => DOMAIN events' = {1, 2} /\ events'[1] = v /\ events'[2] = k
        /\ left # 0 => DOMAIN events' = {1} /\ events'[1] = v
    BY <2>3, OneEvent, TwoEvents
  <2>6. VitalsEvent(q, left)[1] = v
    BY <2>2
  <2> QED BY <1>2, <2>4, <2>5, <2>6, WithHealthTells
<1>4. CASE Heal(q, amount)
  <2>1. PICK health : health = Healed(players[q].health, amount)
    OBVIOUS
  <2>2. PICK w : w = [kind |-> "vitals", player |-> q, health |-> health]
    OBVIOUS
  <2>3. /\ Connected(q) /\ ~Dead(players[q]) /\ entities' = entities
        /\ players' = [players EXCEPT ![q].health = health]
        /\ events' = <<w>>
    BY <1>4, <2>1, <2>2 DEF Heal, WithHealth, VitalsEvent
  <2>4. health # 0
    <3>1. players[q].health \in Nat /\ players[q].health # 0
      BY <2>3 DEF Dead, Connected, GameInvariant, Typed, Record
    <3> QED BY <2>1, <3>1, GameStateAssumption DEF Healed
  <2>5. VitalsEvent(q, health)[1] = w /\ w.kind # "killed"
    BY <2>2 DEF VitalsEvent
  <2>6. DOMAIN events' = {1} /\ events'[1] = w
    BY <2>3
  <2> QED BY <1>2, <2>3, <2>4, <2>5, <2>6, WithHealthTells
<1> QED BY <1>3, <1>4

LEMMA KillTells ==
  ASSUME GameInvariant, NEW q, Kill(q), NEW p
  PROVE  Told(p)
<1>1. PICK v, k : v = VitalsEvent(q, 0)[1] /\ k = KilledEvent(q)[1]
  OBVIOUS
<1>2. VitalsEvent(q, 0) = <<v>> /\ KilledEvent(q) = <<k>>
  BY <1>1 DEF VitalsEvent, KilledEvent
<1>3. /\ Connected(q) /\ ~Dead(players[q]) /\ entities' = entities
      /\ players' = [players EXCEPT ![q].health = 0]
      /\ events' = <<v>> \o <<k>>
  BY <1>2 DEF Kill, WithHealth
<1>4. DOMAIN events' = {1, 2} /\ events'[1] = v /\ events'[2] = k
  BY <1>3, TwoEvents
<1>5. /\ \E i \in DOMAIN events' : events'[i] = VitalsEvent(q, 0)[1]
      /\ \E i \in DOMAIN events' : events'[i] = KilledEvent(q)[1]
      /\ \A i \in DOMAIN events' :
           events'[i] = VitalsEvent(q, 0)[1] \/ events'[i] = KilledEvent(q)[1]
  BY <1>1, <1>4
<1> QED BY <1>3, <1>5, WithHealthTells

LEMMA RespawnTells ==
  ASSUME GameInvariant, NEW q, Respawn(q), NEW p
  PROVE  Told(p)
<1>1. PICK r, e, v : /\ r = [players[q] EXCEPT !.health = MaxHealth]
                     /\ e = [kind |-> "respawned", player |-> q, position |-> Spawn]
                     /\ v = [kind |-> "vitals", player |-> q, health |-> MaxHealth]
  OBVIOUS
<1>2. /\ Connected(q) /\ Dead(players[q]) /\ q \in DOMAIN players
      /\ players' = [players EXCEPT ![q] = r]
      /\ entities' = [entities EXCEPT ![players[q].entity].position = Spawn]
      /\ events' = <<e>> \o <<v>>
  BY <1>1 DEF Respawn, Connected, VitalsEvent
<1>3. DOMAIN events' = {1, 2} /\ events'[1] = e /\ events'[2] = v
  BY <1>2, TwoEvents
<1>4. players[q] \in Record
  BY <1>2 DEF GameInvariant, Typed
<1>5. r.mode = players[q].mode /\ r.health = MaxHealth
  BY <1>1, <1>4 DEF Record
<1>6. e.kind = "respawned" /\ e.player = q /\ v.kind = "vitals"
  BY <1>1
<1>7. CASE p = q
  <2>1. players'[p] = r
    BY <1>2, <1>7
  <2>2. Tells("respawned", p) /\ ~Tells("killed", p)
    BY <1>3, <1>6, <1>7 DEF Tells
  <2>3. VitalsEvent(p, MaxHealth)[1] = events'[2]
    BY <1>1, <1>3, <1>7 DEF VitalsEvent
  <2>4. MaxHealth # 0
    BY GameStateAssumption
  <2> QED BY <1>2, <1>3, <1>5, <1>7, <2>1, <2>2, <2>3, <2>4 DEF Told, Dead
<1>8. CASE p # q
  <2>1. Silent(p)
    BY <1>3, <1>6, <1>8 DEF Silent
  <2>2. Connected(p) => players'[p] = players[p]
    BY <1>2, <1>8 DEF Connected
  <2>3. Connected(p) => Position(p)' = Position(p)
    BY <1>2, <1>8, <2>2, OtherEntityStays
  <2> QED BY <2>1, <2>2, <2>3, ToldOfOthers
<1> QED BY <1>7, <1>8

\* Nobody is connected after a start.
LEMMA RestartTells ==
  ASSUME GameInvariant, Restart, NEW p
  PROVE  Told(p)
<1>1. PICK file : file = Capture
  OBVIOUS
<1>2. Saved(file) /\ Restorable(file) /\ file.players = players
  BY <1>1, CaptureCanBeLoaded DEF Capture
<1>3. players' = Load(file).players
  BY <1>1 DEF Restart
<1>4. \A q \in DOMAIN players' : ~players'[q].connected
  BY <1>2, <1>3, LoadedPlayers
<1> QED BY <1>4 DEF Told

LEMMA CommandTells ==
  ASSUME GameInvariant, NEW source, NEW order \in Orders, Command(source, order), NEW p
  PROVE  Told(p)
<1>1. CASE Announce
  <2>1. /\ DOMAIN events' = {1} /\ events'[1].kind = "announced"
        /\ players' = players /\ entities' = entities
    BY <1>1 DEF Announce
  <2>2. Position(p)' = Position(p)
    BY <2>1 DEF Position
  <2> QED BY <2>1, <2>2, ToldOfOthers DEF Silent
<1>2. ASSUME NEW q, SetGameMode(q, order.mode)
      PROVE  Told(p)
  BY <1>2, SetGameModeTells
<1>3. ASSUME NEW q, MovedTo(q, order.position, "teleported")
      PROVE  Told(p)
  BY <1>3, MovedToTells
<1>4. ASSUME NEW q, Kill(q) PROVE Told(p)
  BY <1>4, KillTells
<1> QED BY <1>1, <1>2, <1>3, <1>4 DEF Command

\* A connected player dies only by an event that says so and lives again only
\* by a respawn, and every change of place, mode or health is in the events of
\* the operation that made it.
THEOREM OperationsTellTheirChanges == Spec => EventsTellChanges
<1>1. GameInvariant /\ [Next]_vars => [\A p \in Players : Told(p)]_vars
  <2> SUFFICES ASSUME GameInvariant, Next, NEW p \in Players PROVE Told(p)
    OBVIOUS
  <2>1. ASSUME NEW q \in Players, NEW name \in Names, Connect(q, name) PROVE Told(p)
    BY <2>1, ConnectTells
  <2>2. ASSUME NEW q \in Players, Disconnect(q) PROVE Told(p)
    BY <2>2, DisconnectTells
  <2>3. ASSUME NEW q \in Players, NEW position \in Positions, Move(q, position) PROVE Told(p)
    BY <2>3, MovedToTells DEF Move
  <2>4. ASSUME NEW q \in Players, NEW amount \in Amounts, Damage(q, amount) \/ Heal(q, amount)
        PROVE  Told(p)
    BY <2>4, DamageTells
  <2>5. ASSUME NEW q \in Players, Respawn(q) PROVE Told(p)
    BY <2>5, RespawnTells
  <2>6. ASSUME NEW source, NEW order \in Orders, Command(source, order) PROVE Told(p)
    BY <2>6, CommandTells
  <2>7. ASSUME Restart PROVE Told(p)
    BY <2>7, RestartTells
  <2> QED BY <2>1, <2>2, <2>3, <2>4, <2>5, <2>6, <2>7 DEF Next
<1>2. [\A p \in Players : Told(p)]_vars <=>
        [\A p \in Players :
           Connected(p) /\ p \in DOMAIN players' /\ players'[p].connected =>
             LET r == players[p] s == players'[p] IN
             /\ Tells("killed", p) <=> (~Dead(r) /\ Dead(s))
             /\ Tells("respawned", p) <=> (Dead(r) /\ ~Dead(s))
             /\ r.health # s.health =>
                  \E i \in DOMAIN events' : events'[i] = VitalsEvent(p, s.health)[1]
             /\ r.mode # s.mode =>
                  Tells("mode", p) /\ s.previousMode = r.mode
             /\ Position(p) # Position(p)' =>
                  Tells("moved", p) \/ Tells("teleported", p) \/ Tells("respawned", p)]_vars
  BY DEF Told
<1> QED BY <1>1, <1>2, GameInvariantHolds, PTL DEF Spec, EventsTellChanges

(***************************************************************************)
(* Errors of relative movements do not add up, whatever the sizes of a     *)
(* packet coordinate and of a packet angle, whichever way the client       *)
(* rounds, and however far the replication thread lags behind. A client    *)
(* never has a player outside the packet coordinate that the connection    *)
(* tracked last and the end of it (Within): a step carries it from one     *)
(* such interval into the next, which is why nothing accumulates.          *)
(***************************************************************************)

Pictures == [place : Int, turn : Int, head : Int]
Movements == [kind : {"moved", "teleported"}, to : Transforms]

Within(x, place) ==
  /\ PacketCoordinate(place) * CellSize <= x
  /\ x <= (PacketCoordinate(place) + 1) * CellSize

\* What a client has made of a player at a transform, before and after the
\* packet for its head.
Follows(picture, at) ==
  /\ picture \in Pictures
  /\ picture.turn = PackDegrees(at.yaw)
  /\ Within(picture.place, at.place)
Shows(picture, at) == Follows(picture, at) /\ picture.head = PackDegrees(at.yaw)

MotionTypeOK ==
  /\ body \in Transforms
  /\ moves \in Seq(Movements)
  /\ rounds \in BOOLEAN

MotionInvariant ==
  /\ MotionTypeOK
  /\ tracked # Unseen => tracked \in Transforms /\ Shows(seen, tracked)
  /\ IF moves = <<>> THEN tracked \in {Unseen, body}
                     ELSE moves[Len(moves)].to = body

----------------------------------------------------------------------------
\* Arithmetic of coordinates.

LEMMA CoordinateHolds ==
  ASSUME NEW x \in Int
  PROVE  /\ PacketCoordinate(x) \in Int
         /\ PacketCoordinate(x) * CellSize <= x
         /\ x < (PacketCoordinate(x) + 1) * CellSize
  <1>1. CellSize \in Nat \ {0}
    BY EntityMotionAssumption
  <1>2. \A n \in Nat \ {0} : x \div n \in Int /\ (x \div n) * n <= x /\ x < (x \div n + 1) * n
    OBVIOUS
  <1> QED
    BY <1>1, <1>2 DEF PacketCoordinate

\* The client has the coordinate of the place, or the next one.
LEMMA ClientCoordinateNear ==
  ASSUME NEW x \in Int, NEW place \in Int, Within(x, place), rounds \in BOOLEAN
  PROVE  ClientCoordinate(x) \in {PacketCoordinate(place), PacketCoordinate(place) + 1}
  <1> DEFINE n == CellSize
             q == PacketCoordinate(place)
             y == IF rounds THEN x + (n \div 2) ELSE x
             c == PacketCoordinate(y)
  <1>1. n \in Nat \ {0}
    BY EntityMotionAssumption
  <1>2. q \in Int /\ q * n <= x /\ x <= (q + 1) * n
    BY CoordinateHolds DEF Within
  <1>3. n \div 2 \in Nat /\ n \div 2 < n
    BY <1>1
  <1>4. y \in Int /\ x <= y /\ y < x + n
    BY <1>1, <1>3
  <1>5. c \in Int /\ c * n <= y /\ y < (c + 1) * n
    BY <1>4, CoordinateHolds
  <1>6. ClientCoordinate(x) = c
    BY DEF ClientCoordinate
  <1> HIDE DEF n, q, y, c
  <1>7. q * n < (c + 1) * n /\ c * n < (q + 2) * n
    <2>1. (q + 1) * n + n = (q + 2) * n
      BY <1>1, <1>2
    <2>2. q * n \in Int /\ (q + 1) * n \in Int /\ c * n \in Int /\ (c + 1) * n \in Int
      BY <1>1, <1>2, <1>5
    <2> QED
      BY <1>1, <1>2, <1>4, <1>5, <2>1, <2>2
  <1>8. \A a, b \in Int : a * n < b * n => a < b
    BY <1>1
  <1>9. q < c + 1 /\ c < q + 2
    BY <1>2, <1>5, <1>7, <1>8
  <1>10. c = q \/ c = q + 1
    BY <1>2, <1>5, <1>9
  <1> QED
    BY <1>6, <1>10 DEF q

LEMMA StepLandsWithin ==
  ASSUME NEW x \in Int, NEW from \in Int, NEW to \in Int,
         Within(x, from), rounds \in BOOLEAN
  PROVE  /\ Stepped(x, RelativeDelta(from, to)) \in Int
         /\ Within(Stepped(x, RelativeDelta(from, to)), to)
  <1> DEFINE q == PacketCoordinate(from)
             r == PacketCoordinate(to)
             c == ClientCoordinate(x)
  <1>1. CellSize \in Nat \ {0}
    BY EntityMotionAssumption
  <1>2. q \in Int /\ r \in Int
    BY CoordinateHolds
  <1>3. c \in {q, q + 1}
    BY ClientCoordinateNear
  <1> HIDE DEF c
  <1>4. CASE r - q = 0
    BY <1>2, <1>4 DEF Stepped, RelativeDelta, Within
  <1>5. CASE r - q # 0
    <2>1. Stepped(x, RelativeDelta(from, to)) = (c + (r - q)) * CellSize
      BY <1>5 DEF Stepped, RelativeDelta, c
    <2>2. c + (r - q) = r \/ c + (r - q) = r + 1
      BY <1>2, <1>3
    <2>3. r * CellSize <= (r + 1) * CellSize
      BY <1>1, <1>2
    <2>4. r * CellSize \in Int /\ (r + 1) * CellSize \in Int
      BY <1>1, <1>2
    <2> QED
      BY <2>1, <2>2, <2>3, <2>4 DEF Within
  <1> QED
    BY <1>2, <1>4, <1>5

LEMMA WithinIsNear ==
  ASSUME NEW x \in Int, NEW place \in Int, Within(x, place)
  PROVE  Near(x, place)
  <1> DEFINE q == PacketCoordinate(place)
  <1>1. CellSize \in Nat \ {0}
    BY EntityMotionAssumption
  <1>2. q \in Int /\ q * CellSize <= place /\ place < (q + 1) * CellSize
    BY CoordinateHolds
  <1>3. q * CellSize <= x /\ x <= (q + 1) * CellSize
    BY DEF Within
  <1> HIDE DEF q
  <1>4. (q + 1) * CellSize = q * CellSize + CellSize /\ q * CellSize \in Int
    BY <1>1, <1>2
  <1> QED
    BY <1>1, <1>2, <1>3, <1>4 DEF Near

LEMMA OwnPlaceIsWithin ==
  ASSUME NEW place \in Int
  PROVE  Within(place, place)
  <1>1. CellSize \in Nat
    BY EntityMotionAssumption
  <1> QED
    BY <1>1, CoordinateHolds DEF Within

LEMMA TurnType ==
  ASSUME NEW angle \in Int
  PROVE  PackDegrees(angle) \in Int
  <1>1. AngleSize \in Nat \ {0} /\ FullTurn \in Nat \ {0}
    BY EntityMotionAssumption
  <1>2. angle \div AngleSize \in Int
    BY <1>1
  <1> QED
    BY <1>1, <1>2 DEF PackDegrees

----------------------------------------------------------------------------
\* Packets.

LEMMA TransformTypes ==
  ASSUME NEW at \in Transforms
  PROVE  at.place \in Int /\ at.yaw \in Int /\ PackDegrees(at.yaw) \in Int
  <1>1. at.place \in Int /\ at.yaw \in Int
    BY EntityMotionAssumption DEF Transforms
  <1> QED
    BY <1>1, TurnType

LEMMA ChangedPicture ==
  ASSUME NEW picture \in Pictures, NEW x \in Int, NEW t \in Int
  PROVE  /\ [picture EXCEPT !.place = x] \in Pictures
         /\ [picture EXCEPT !.turn = t] \in Pictures
         /\ [picture EXCEPT !.head = t] \in Pictures
  BY DEF Pictures

Placed(picture, x, turn) == [picture EXCEPT !.place = x, !.turn = turn]

LEMMA PlacedPicture ==
  ASSUME NEW picture \in Pictures, NEW x \in Int, NEW t \in Int
  PROVE  /\ Placed(picture, x, t) \in Pictures
         /\ Placed(picture, x, t).place = x
         /\ Placed(picture, x, t).turn = t
         /\ Placed(picture, x, t).head = picture.head
  <1>1. [picture EXCEPT !.place = x] \in Pictures
    BY DEF Pictures
  <1>2. ASSUME NEW p \in Pictures PROVE [p EXCEPT !.turn = t] \in Pictures
    BY DEF Pictures
  <1>3. Placed(picture, x, t) = [[picture EXCEPT !.place = x] EXCEPT !.turn = t]
    BY DEF Placed
  <1>4. Placed(picture, x, t) \in Pictures
    BY <1>1, <1>2, <1>3
  <1> QED
    BY <1>1, <1>4 DEF Pictures, Placed

\* A client that shows one transform and follows the packet of a movement to
\* another, if there is one, is there but for its head.
LEMMA MovementFollowed ==
  ASSUME NEW from \in Transforms, NEW to \in Transforms, NEW picture,
         Follows(picture, from), rounds \in BOOLEAN
  PROVE  \/ /\ EncodeMovement(from, to) = <<>>
            /\ Follows(picture, to)
         \/ \E packet :
              /\ EncodeMovement(from, to) = <<packet>>
              /\ Follows(Followed(picture, packet), to)
              /\ Followed(picture, packet).head = picture.head
  <1> DEFINE turned == PackDegrees(from.yaw) # PackDegrees(to.yaw)
             moved == from.place # to.place
             delta == RelativeDelta(from.place, to.place)
             turn == PackDegrees(to.yaw)
  <1>1. /\ from.place \in Int /\ to.place \in Int /\ turn \in Int
        /\ picture \in Pictures /\ picture.place \in Int /\ picture.head \in Int
    BY TransformTypes DEF Follows, Pictures
  <1>2. /\ Stepped(picture.place, delta) \in Int
        /\ Within(Stepped(picture.place, delta), to.place)
    BY <1>1, StepLandsWithin DEF Follows
  <1>3. CASE ~moved /\ ~turned
    <2>1. EncodeMovement(from, to) = <<>>
      BY <1>3 DEF EncodeMovement
    <2> QED
      BY <1>3, <2>1 DEF Follows
  <1>4. CASE ~moved /\ turned
    <2> DEFINE packet == [kind |-> "rotation", to |-> to]
    <2>1. EncodeMovement(from, to) = <<packet>>
      BY <1>4 DEF EncodeMovement
    <2>2. Followed(picture, packet) = [picture EXCEPT !.turn = turn]
      BY DEF Followed
    <2> HIDE DEF packet
    <2>3. Followed(picture, packet) \in Pictures
      BY <1>1, <2>2, ChangedPicture
    <2> QED
      BY <1>1, <1>4, <2>1, <2>2, <2>3 DEF Follows, Pictures
  <1>5. CASE moved /\ IsShort(delta) /\ ~turned
    <2> DEFINE packet == [kind |-> "position", by |-> delta, to |-> to]
    <2>1. EncodeMovement(from, to) = <<packet>>
      BY <1>5 DEF EncodeMovement
    <2>2. Followed(picture, packet) = [picture EXCEPT !.place = Stepped(picture.place, delta)]
      BY DEF Followed
    <2> HIDE DEF packet, delta
    <2>3. Followed(picture, packet) \in Pictures
      BY <1>1, <1>2, <2>2, ChangedPicture
    <2> QED
      BY <1>1, <1>2, <1>5, <2>1, <2>2, <2>3 DEF Follows, Pictures
  <1>6. CASE moved /\ IsShort(delta) /\ turned
    <2> DEFINE packet == [kind |-> "position rotation", by |-> delta, to |-> to]
               y == Stepped(picture.place, delta)
    <2>1. EncodeMovement(from, to) = <<packet>>
      BY <1>6 DEF EncodeMovement
    <2>2. Followed(picture, packet) = Placed(picture, y, turn)
      BY DEF Followed, Placed
    <2> HIDE DEF packet, delta, y
    <2>3. y \in Int /\ Within(y, to.place)
      BY <1>2 DEF y
    <2>4. Followed(picture, packet) \in Pictures
      BY <1>1, <2>2, <2>3, PlacedPicture
    <2>5. /\ Followed(picture, packet).place = y
          /\ Followed(picture, packet).turn = turn
          /\ Followed(picture, packet).head = picture.head
      BY <1>1, <2>2, <2>3, PlacedPicture
    <2> QED
      BY <2>1, <2>3, <2>4, <2>5 DEF Follows
  <1>7. CASE moved /\ ~IsShort(delta)
    <2> DEFINE packet == EncodeTeleport(to)
    <2>1. EncodeMovement(from, to) = <<packet>>
      BY <1>7 DEF EncodeMovement
    <2>2. Followed(picture, packet) = Placed(picture, to.place, turn)
      BY DEF Followed, EncodeTeleport, Placed
    <2> HIDE DEF packet
    <2>3. Followed(picture, packet) \in Pictures
      BY <1>1, <2>2, PlacedPicture
    <2>4. /\ Followed(picture, packet).place = to.place
          /\ Followed(picture, packet).turn = turn
          /\ Followed(picture, packet).head = picture.head
      BY <1>1, <2>2, <2>3, PlacedPicture
    <2> QED
      BY <1>1, <2>1, <2>3, <2>4, OwnPlaceIsWithin DEF Follows
  <1> QED
    BY <1>3, <1>4, <1>5, <1>6, <1>7

\* The same for a teleport.
LEMMA TeleportFollowed ==
  ASSUME NEW to \in Transforms, NEW picture \in Pictures
  PROVE  /\ Follows(Followed(picture, EncodeTeleport(to)), to)
         /\ Followed(picture, EncodeTeleport(to)).head = picture.head
  <1>1. to.place \in Int /\ PackDegrees(to.yaw) \in Int
    BY TransformTypes
  <1>2. Followed(picture, EncodeTeleport(to))
          = Placed(picture, to.place, PackDegrees(to.yaw))
    BY DEF Followed, EncodeTeleport, Placed
  <1>3. Followed(picture, EncodeTeleport(to)) \in Pictures
    BY <1>1, <1>2, PlacedPicture
  <1>4. /\ Followed(picture, EncodeTeleport(to)).place = to.place
        /\ Followed(picture, EncodeTeleport(to)).turn = PackDegrees(to.yaw)
        /\ Followed(picture, EncodeTeleport(to)).head = picture.head
    BY <1>1, <1>2, PlacedPicture
  <1> QED
    BY <1>1, <1>3, <1>4, OwnPlaceIsWithin DEF Follows

\* The packet for the head comes last and completes the picture.
LEMMA HeadFollowed ==
  ASSUME NEW from \in Transforms, NEW to \in Transforms, NEW picture,
         Follows(picture, to), picture.head = PackDegrees(from.yaw)
  PROVE  \/ HeadTurn(from, to) = <<>> /\ Shows(picture, to)
         \/ \E packet : /\ HeadTurn(from, to) = <<packet>>
                        /\ Shows(Followed(picture, packet), to)
  <1>1. CASE from.yaw = to.yaw
    BY <1>1 DEF HeadTurn, Shows
  <1>2. CASE from.yaw # to.yaw
    <2> DEFINE packet == [kind |-> "head", to |-> to]
    <2>1. HeadTurn(from, to) = <<packet>>
      BY <1>2 DEF HeadTurn
    <2>2. Followed(picture, packet) = [picture EXCEPT !.head = PackDegrees(to.yaw)]
      BY DEF Followed
    <2> HIDE DEF packet
    <2>3. picture \in Pictures /\ PackDegrees(to.yaw) \in Int
      BY TransformTypes DEF Follows
    <2>4. Followed(picture, packet) \in Pictures
      BY <2>2, <2>3, ChangedPicture
    <2> QED
      BY <2>1, <2>2, <2>3, <2>4 DEF Shows, Follows, Pictures
  <1> QED
    BY <1>1, <1>2

LEMMA FollowedTwo ==
  ASSUME NEW picture, NEW a, NEW b, NEW packets, NEW turn,
         packets = <<a>>, turn = <<b>>
  PROVE  FollowedAll(picture, packets \o turn) = Followed(Followed(picture, a), b)
  <1>1. packets \in Seq({a, b}) /\ turn \in Seq({a, b})
    OBVIOUS
  <1>2. Len(packets) = 1 /\ Len(turn) = 1 /\ packets[1] = a /\ turn[1] = b
    OBVIOUS
  <1> DEFINE both == packets \o turn
  <1>3. Len(both) = 2 /\ both[1] = a /\ both[2] = b
    BY <1>1, <1>2
  <1> HIDE DEF both
  <1> QED
    BY <1>3 DEF FollowedAll, both

LEMMA FollowedFirst ==
  ASSUME NEW picture, NEW a, NEW packets, NEW turn, packets = <<a>>, turn = <<>>
  PROVE  FollowedAll(picture, packets \o turn) = Followed(picture, a)
  <1>1. packets \in Seq({a}) /\ turn \in Seq({a})
    OBVIOUS
  <1>2. Len(packets) = 1 /\ Len(turn) = 0 /\ packets[1] = a
    OBVIOUS
  <1> DEFINE both == packets \o turn
  <1>3. Len(both) = 1 /\ both[1] = a
    BY <1>1, <1>2
  <1> HIDE DEF both
  <1> QED
    BY <1>3 DEF FollowedAll, both

LEMMA FollowedLast ==
  ASSUME NEW picture, NEW a, NEW packets, NEW turn, packets = <<>>, turn = <<a>>
  PROVE  FollowedAll(picture, packets \o turn) = Followed(picture, a)
  <1>1. packets \in Seq({a}) /\ turn \in Seq({a})
    OBVIOUS
  <1>2. Len(packets) = 0 /\ Len(turn) = 1 /\ turn[1] = a
    OBVIOUS
  <1> DEFINE both == packets \o turn
  <1>3. Len(both) = 1 /\ both[1] = a
    BY <1>1, <1>2
  <1> HIDE DEF both
  <1> QED
    BY <1>3 DEF FollowedAll, both

LEMMA FollowedNone ==
  ASSUME NEW picture, NEW packets, NEW turn, packets = <<>>, turn = <<>>
  PROVE  FollowedAll(picture, packets \o turn) = picture
  <1>1. packets \in Seq({}) /\ turn \in Seq({}) /\ Len(packets) = 0 /\ Len(turn) = 0
    OBVIOUS
  <1> DEFINE both == packets \o turn
  <1>2. Len(both) = 0
    BY <1>1
  <1> HIDE DEF both
  <1> QED
    BY <1>2 DEF FollowedAll, both

----------------------------------------------------------------------------
\* Steps.

ShownAt(at) == tracked' = at /\ Shows(seen', at)

LEMMA NowSeenShows ==
  ASSUME body \in Transforms, NowSeen
  PROVE  ShownAt(body)
  <1>1. body.place \in Int /\ PackDegrees(body.yaw) \in Int
    BY TransformTypes
  <1> QED
    BY <1>1, OwnPlaceIsWithin DEF NowSeen, ShownAt, Shows, Follows, Pictures

LEMMA SentShows ==
  ASSUME NEW to \in Transforms, NEW packets, tracked \in Transforms,
         Shows(seen, tracked), rounds \in BOOLEAN,
         packets \in {EncodeMovement(tracked, to), <<EncodeTeleport(to)>>},
         Sent(packets \o HeadTurn(tracked, to), to)
  PROVE  ShownAt(to)
  <1>1. Follows(seen, tracked) /\ seen \in Pictures /\ seen.head = PackDegrees(tracked.yaw)
    BY DEF Shows, Follows
  <1>2. \/ packets = <<>> /\ Follows(seen, to)
        \/ \E packet : /\ packets = <<packet>>
                       /\ Follows(Followed(seen, packet), to)
                       /\ Followed(seen, packet).head = seen.head
    <2>1. CASE packets = EncodeMovement(tracked, to)
      BY <1>1, <2>1, MovementFollowed
    <2>2. CASE packets = <<EncodeTeleport(to)>>
      BY <1>1, <2>2, TeleportFollowed
    <2> QED
      BY <2>1, <2>2
  <1>3. tracked' = to /\ seen' = FollowedAll(seen, packets \o HeadTurn(tracked, to))
    BY DEF Sent
  <1>4. CASE packets = <<>> /\ Follows(seen, to)
    <2>1. \/ HeadTurn(tracked, to) = <<>> /\ Shows(seen, to)
          \/ \E h : HeadTurn(tracked, to) = <<h>> /\ Shows(Followed(seen, h), to)
      BY <1>1, <1>4, HeadFollowed
    <2>2. CASE HeadTurn(tracked, to) = <<>> /\ Shows(seen, to)
      <3>1. seen' = seen
        BY <1>3, <1>4, <2>2, FollowedNone
      <3> QED
        BY <1>3, <2>2, <3>1 DEF ShownAt
    <2>3. ASSUME NEW h, HeadTurn(tracked, to) = <<h>>, Shows(Followed(seen, h), to)
          PROVE  ShownAt(to)
      <3>1. seen' = Followed(seen, h)
        BY <1>3, <1>4, <2>3, FollowedLast
      <3> QED
        BY <1>3, <2>3, <3>1 DEF ShownAt
    <2> QED
      BY <2>1, <2>2, <2>3
  <1>5. ASSUME NEW m, packets = <<m>>, Follows(Followed(seen, m), to),
               Followed(seen, m).head = seen.head
        PROVE  ShownAt(to)
    <2>1. \/ HeadTurn(tracked, to) = <<>> /\ Shows(Followed(seen, m), to)
          \/ \E h : /\ HeadTurn(tracked, to) = <<h>>
                    /\ Shows(Followed(Followed(seen, m), h), to)
      BY <1>1, <1>5, HeadFollowed
    <2>2. CASE HeadTurn(tracked, to) = <<>> /\ Shows(Followed(seen, m), to)
      <3>1. seen' = Followed(seen, m)
        BY <1>3, <1>5, <2>2, FollowedFirst
      <3> QED
        BY <1>3, <2>2, <3>1 DEF ShownAt
    <2>3. ASSUME NEW h, HeadTurn(tracked, to) = <<h>>,
                 Shows(Followed(Followed(seen, m), h), to)
          PROVE  ShownAt(to)
      <3>1. seen' = Followed(Followed(seen, m), h)
        BY <1>3, <1>5, <2>3, FollowedTwo
      <3> QED
        BY <1>3, <2>3, <3>1 DEF ShownAt
    <2> QED
      BY <2>1, <2>2, <2>3
  <1> QED
    BY <1>2, <1>4, <1>5

\* A dispatched movement leaves the client at it, or, when it is only now
\* shown the player, where the player is.
LEMMA DispatchKeeps ==
  ASSUME MotionInvariant, DispatchMovement \/ DispatchTeleport
  PROVE  MotionInvariant'
  <1> DEFINE to == Head(moves).to
  <1>1. /\ moves \in Seq(Movements) /\ moves # <<>> /\ body \in Transforms
        /\ rounds \in BOOLEAN /\ moves[Len(moves)].to = body
    BY DEF MotionInvariant, MotionTypeOK, DispatchMovement, DispatchTeleport
  <1>2. to \in Transforms
    <2>1. Head(moves) \in Movements
      BY <1>1
    <2> QED
      BY <2>1 DEF Movements
  <1>3. moves' = Tail(moves) /\ body' = body /\ rounds' = rounds
    BY DEF DispatchMovement, DispatchTeleport
  <1>4. ShownAt(body) \/ ShownAt(to)
    <2>1. CASE tracked = Unseen
      BY <1>1, <2>1, NowSeenShows DEF DispatchMovement, DispatchTeleport
    <2>2. CASE tracked # Unseen
      <3>1. tracked \in Transforms /\ Shows(seen, tracked)
        BY <2>2 DEF MotionInvariant
      <3>2. \/ Sent(EncodeMovement(tracked, to) \o HeadTurn(tracked, to), to)
            \/ Sent(<<EncodeTeleport(to)>> \o HeadTurn(tracked, to), to)
        BY <2>2 DEF DispatchMovement, DispatchTeleport
      <3> HIDE DEF to
      <3> QED
        BY <1>1, <1>2, <3>1, <3>2, SentShows
    <2> QED
      BY <2>1, <2>2
  <1>5. MotionTypeOK'
    BY <1>1, <1>3 DEF MotionTypeOK
  <1>6. tracked' \in Transforms /\ Shows(seen, tracked)'
    BY <1>1, <1>2, <1>4 DEF ShownAt
  <1>7. IF moves' = <<>> THEN tracked' \in {Unseen, body'}
                         ELSE moves'[Len(moves')].to = body'
    <2>1. CASE Len(moves) = 1
      <3>1. to = body /\ moves' = <<>>
        BY <1>1, <1>3, <2>1
      <3> QED
        BY <1>3, <1>4, <3>1 DEF ShownAt
    <2>2. CASE Len(moves) # 1
      <3>1. moves' # <<>> /\ Len(moves') = Len(moves) - 1
            /\ moves'[Len(moves')] = moves[Len(moves)]
        <4>1. Len(moves) \in Nat /\ Len(moves) > 1
          <5>1. Len(moves) \in Nat \ {0}
            BY <1>1, EmptySeq
          <5> QED
            BY <2>2, <5>1
        <4>2. /\ Len(Tail(moves)) = Len(moves) - 1
              /\ \A i \in 1 .. Len(moves) - 1 : Tail(moves)[i] = moves[i + 1]
          BY <1>1
        <4>3. Tail(moves)[Len(moves) - 1] = moves[Len(moves)]
          BY <4>1, <4>2
        <4> QED
          BY <1>3, <4>1, <4>2, <4>3
      <3> QED
        BY <1>1, <1>3, <3>1
    <2> QED
      BY <2>1, <2>2
  <1> QED
    BY <1>5, <1>6, <1>7 DEF MotionInvariant

LEMMA MoveBodyKeeps ==
  ASSUME MotionInvariant, NEW kind \in {"moved", "teleported"}, MoveBody(kind)
  PROVE  MotionInvariant'
  <1>1. PICK to \in Transforms :
          body' = to /\ moves' = Append(moves, [kind |-> kind, to |-> to])
    BY DEF MoveBody
  <1>2. tracked' = tracked /\ seen' = seen /\ rounds' = rounds
    BY DEF MoveBody
  <1>3. [kind |-> kind, to |-> to] \in Movements /\ moves \in Seq(Movements)
    BY DEF Movements, MotionInvariant, MotionTypeOK
  <1>4. moves' \in Seq(Movements) /\ moves' # <<>> /\ moves'[Len(moves')].to = body'
    BY <1>1, <1>3
  <1> QED
    BY <1>1, <1>2, <1>4 DEF MotionInvariant, MotionTypeOK, Shows, Follows, Within,
      PacketCoordinate

\* However many steps a player makes, and whatever is lost of each in its
\* encoding, a client that sees it has it within one packet coordinate of its
\* place and turned as it is (relative_deltas, queue_player_movement).
THEOREM ErrorsDoNotAddUp == MotionSpec => []MovementsAddUp
  <1>1. MotionInit => MotionInvariant
    <2> SUFFICES ASSUME MotionInit PROVE MotionInvariant
      OBVIOUS
    <2>1. moves \in Seq(Movements) /\ moves = <<>>
      BY DEF MotionInit
    <2> QED
      BY <2>1 DEF MotionInit, MotionInvariant, MotionTypeOK
  <1>2. MotionInvariant /\ [MotionNext]_motionVars => MotionInvariant'
    <2> SUFFICES ASSUME MotionInvariant, [MotionNext]_motionVars PROVE MotionInvariant'
      OBVIOUS
    <2>1. CASE MoveBody("moved") \/ MoveBody("teleported")
      BY <2>1, MoveBodyKeeps
    <2>2. CASE SpawnBody
      <3>1. body \in Transforms /\ UNCHANGED <<body, moves, rounds>> /\ NowSeen
        BY <2>2 DEF SpawnBody, MotionInvariant, MotionTypeOK
      <3>2. tracked' = body' /\ Shows(seen, tracked)'
        BY <3>1, NowSeenShows DEF ShownAt
      <3> QED
        BY <3>1, <3>2 DEF MotionInvariant, MotionTypeOK
    <2>3. CASE RemoveBody
      BY <2>3 DEF RemoveBody, MotionInvariant, MotionTypeOK
    <2>4. CASE DispatchMovement \/ DispatchTeleport
      BY <2>4, DispatchKeeps
    <2>5. CASE UNCHANGED motionVars
      BY <2>5 DEF motionVars, MotionInvariant, MotionTypeOK, Shows, Follows, Within,
        PacketCoordinate
    <2> QED
      BY <2>1, <2>2, <2>3, <2>4, <2>5 DEF MotionNext
  <1>3. MotionInvariant => MovementsAddUp
    <2> SUFFICES ASSUME MotionInvariant, moves = <<>>, tracked # Unseen
                 PROVE  /\ Near(seen.place, body.place)
                        /\ seen.turn = PackDegrees(body.yaw)
                        /\ seen.head = PackDegrees(body.yaw)
      BY DEF MovementsAddUp
    <2>1. tracked = body /\ Shows(seen, body) /\ body \in Transforms
      BY DEF MotionInvariant
    <2>2. body.place \in Int /\ seen.place \in Int
      BY <2>1, TransformTypes DEF Shows, Follows, Pictures
    <2> QED
      BY <2>1, <2>2, WithinIsNear DEF Shows, Follows
  <1> QED
    BY <1>1, <1>2, <1>3, PTL DEF MotionSpec

(***************************************************************************)
(* Clients know the items of a player, for any slots and stacks. Of the    *)
(* changes that wait for the replication thread only the last that         *)
(* concerns a slot counts, and it holds what the slot holds; a slot that   *)
(* none of them concerns is as the client knows it.                        *)
(***************************************************************************)

Changes ==
  [kind : {"slot"}, slot : InventorySlots, stack : Contents]
  \cup [kind : {"content"}, slots : [InventorySlots -> Contents]]
  \cup [kind : {"hotbar"}, current : HotbarSlots]

\* The last message of q that is in M is in G; none is in M.
LastIn(q, M, G) ==
  \A i \in 1 .. Len(q) :
    q[i] \in M /\ (\A j \in (i + 1) .. Len(q) : q[j] \notin M) => q[i] \in G
NoneIn(q, M) == \A i \in 1 .. Len(q) : q[i] \notin M

\* Changes that concern a slot of the player's own client, and of others; and
\* those that hold v for it.
OfSlot(s) == {m \in Changes : m.kind = "slot" /\ m.slot = s}
Contentful == {m \in Changes : m.kind = "content"}
Selecting == {m \in Changes : m.kind = "hotbar"}
Holding(s, v) ==
  {m \in Changes : /\ m.kind = "slot" => m.stack = v
                   /\ m.kind = "content" => m.slots[s] = v}
Concerning(s) == OfSlot(s) \cup Contentful

ItemsTypeOK ==
  /\ slots \in [InventorySlots -> Contents]
  /\ selection \in HotbarSlots
  /\ changes \in Seq(Changes)
  /\ own \in [InventorySlots -> Contents]
  /\ worn \in [EquipmentSlots -> Contents] \cup {NotSeen}

LastHold(q, f) ==
  \A s \in InventorySlots :
    /\ LastIn(q, Concerning(s), Holding(s, f[s]))
    /\ LastIn(q, OfSlot(s), Holding(s, f[s]))

LastChangesHold == LastHold(changes, slots)

OwnClientKnows ==
  "own" \notin missed =>
    \A s \in InventorySlots : NoneIn(changes, Concerning(s)) => own[s] = slots[s]

\* The main hand also waits for the changes of the selection.
OtherClientSees ==
  worn # NotSeen /\ "other" \notin missed =>
    \A e \in EquipmentSlots :
      /\ NoneIn(changes, OfSlot(InventoryIndex(e)))
      /\ e = MainHand => NoneIn(changes, Selecting)
      => worn[e] = slots[InventoryIndex(e)]

ItemsInvariant == ItemsTypeOK /\ LastChangesHold /\ OwnClientKnows /\ OtherClientSees

----------------------------------------------------------------------------
LEMMA ChangeAppended ==
  ASSUME NEW q \in Seq(Changes), NEW m \in Changes, NEW M, NEW G
  PROVE  /\ m \in M /\ m \in G => LastIn(Append(q, m), M, G)
         /\ m \notin M /\ LastIn(q, M, G) => LastIn(Append(q, m), M, G)
         /\ NoneIn(Append(q, m), M) => NoneIn(q, M) /\ m \notin M
         /\ Append(q, m) \in Seq(Changes)
<1> DEFINE r == Append(q, m)
<1>1. /\ r \in Seq(Changes) /\ Len(r) = Len(q) + 1 /\ Len(q) \in Nat
      /\ r[Len(q) + 1] = m /\ \A i \in 1 .. Len(q) : r[i] = q[i]
  OBVIOUS
<1> HIDE DEF r
<1>2. /\ \A i \in 1 .. Len(r) : i = Len(q) + 1 \/ i \in 1 .. Len(q)
      /\ Len(q) + 1 \in 1 .. Len(r) /\ \A i \in 1 .. Len(q) : i \in 1 .. Len(r)
  BY <1>1
<1>3. ASSUME m \in M, m \in G PROVE LastIn(r, M, G)
  <2> SUFFICES ASSUME NEW i \in 1 .. Len(r), r[i] \in M,
                      \A j \in (i + 1) .. Len(r) : r[j] \notin M
               PROVE  r[i] \in G
    BY DEF LastIn
  <2>1. i \in 1 .. Len(q) => Len(q) + 1 \in (i + 1) .. Len(r)
    BY <1>1
  <2> QED BY <1>1, <1>2, <1>3, <2>1
<1>4. ASSUME m \notin M, LastIn(q, M, G) PROVE LastIn(r, M, G)
  <2> SUFFICES ASSUME NEW i \in 1 .. Len(r), r[i] \in M,
                      \A j \in (i + 1) .. Len(r) : r[j] \notin M
               PROVE  r[i] \in G
    BY DEF LastIn
  <2>1. i \in 1 .. Len(q)
    BY <1>1, <1>2, <1>4
  <2>2. \A j \in (i + 1) .. Len(q) : j \in (i + 1) .. Len(r) /\ r[j] = q[j]
    BY <1>1, <2>1
  <2>3. \A j \in (i + 1) .. Len(q) : q[j] \notin M
    BY <2>2
  <2> QED BY <1>1, <1>4, <2>1, <2>3 DEF LastIn
<1>5. NoneIn(r, M) => NoneIn(q, M) /\ m \notin M
  BY <1>1, <1>2 DEF NoneIn
<1> QED BY <1>1, <1>3, <1>4, <1>5 DEF r

LEMMA ChangeTaken ==
  ASSUME NEW q \in Seq(Changes), q # <<>>, NEW M, NEW G
  PROVE  /\ Head(q) \in Changes /\ Tail(q) \in Seq(Changes)
         /\ LastIn(q, M, G) => LastIn(Tail(q), M, G)
         /\ NoneIn(Tail(q), M) /\ Head(q) \notin M => NoneIn(q, M)
         /\ NoneIn(Tail(q), M) /\ Head(q) \in M /\ LastIn(q, M, G) => Head(q) \in G
<1> DEFINE r == Tail(q)
<1>1. /\ Len(q) \in Nat \ {0} /\ Head(q) = q[1] /\ Head(q) \in Changes
      /\ r \in Seq(Changes) /\ Len(r) = Len(q) - 1
      /\ \A i \in 1 .. Len(r) : r[i] = q[i + 1] /\ i + 1 \in 1 .. Len(q)
  BY EmptySeq, HeadTailProperties
<1> HIDE DEF r
<1>2. 1 \in 1 .. Len(q) /\ \A i \in 1 .. Len(q) : i # 1 => i - 1 \in 1 .. Len(r) /\ q[i] = r[i - 1]
  BY <1>1
<1>3. ASSUME LastIn(q, M, G) PROVE LastIn(r, M, G)
  <2> SUFFICES ASSUME NEW i \in 1 .. Len(r), r[i] \in M,
                      \A j \in (i + 1) .. Len(r) : r[j] \notin M
               PROVE  r[i] \in G
    BY DEF LastIn
  <2>1. \A j \in (i + 2) .. Len(q) : j - 1 \in (i + 1) .. Len(r) /\ q[j] = r[j - 1]
    BY <1>1, <1>2
  <2>2. \A j \in (i + 1 + 1) .. Len(q) : q[j] \notin M
    BY <2>1
  <2> QED BY <1>1, <1>3, <2>2 DEF LastIn
<1>4. NoneIn(r, M) /\ Head(q) \notin M => NoneIn(q, M)
  BY <1>1, <1>2 DEF NoneIn
<1>5. ASSUME NoneIn(r, M), Head(q) \in M, LastIn(q, M, G) PROVE Head(q) \in G
  <2>1. \A j \in (1 + 1) .. Len(q) : j - 1 \in 1 .. Len(r) /\ q[j] = r[j - 1]
    BY <1>1, <1>2
  <2>2. \A j \in (1 + 1) .. Len(q) : q[j] \notin M
    BY <1>5, <2>1 DEF NoneIn
  <2> QED BY <1>1, <1>2, <1>5, <2>2 DEF LastIn
<1> QED BY <1>1, <1>3, <1>4, <1>5 DEF r

\* Each change is about one thing.
LEMMA ChangeKinds ==
  /\ \A s \in InventorySlots, v \in Contents :
       LET m == [kind |-> "slot", slot |-> s, stack |-> v] IN
         /\ m \in Changes
         /\ \A t : m \in Concerning(t) <=> t = s
         /\ \A t : m \in OfSlot(t) <=> t = s
         /\ m \in Holding(s, v)
  /\ \A f \in [InventorySlots -> Contents] :
       LET m == [kind |-> "content", slots |-> f] IN
         /\ m \in Changes
         /\ \A t : m \in Concerning(t) /\ m \notin OfSlot(t) /\ m \in Holding(t, f[t])
  /\ \A h \in HotbarSlots :
       LET m == [kind |-> "hotbar", current |-> h] IN
         /\ m \in Changes /\ m \in Selecting
         /\ \A t : m \notin Concerning(t) /\ m \notin OfSlot(t)
<1> USE DEF Changes, Concerning, OfSlot, Contentful, Selecting, Holding
<1>1. ASSUME NEW s \in InventorySlots, NEW v \in Contents
      PROVE  LET m == [kind |-> "slot", slot |-> s, stack |-> v] IN
               /\ m \in Changes
               /\ \A t : m \in Concerning(t) <=> t = s
               /\ \A t : m \in OfSlot(t) <=> t = s
               /\ m \in Holding(s, v)
  OBVIOUS
<1>2. ASSUME NEW f \in [InventorySlots -> Contents]
      PROVE  LET m == [kind |-> "content", slots |-> f] IN
               /\ m \in Changes
               /\ \A t : m \in Concerning(t) /\ m \notin OfSlot(t) /\ m \in Holding(t, f[t])
  OBVIOUS
<1>3. ASSUME NEW h \in HotbarSlots
      PROVE  LET m == [kind |-> "hotbar", current |-> h] IN
               /\ m \in Changes /\ m \in Selecting
               /\ \A t : m \notin Concerning(t) /\ m \notin OfSlot(t)
  OBVIOUS
<1> QED BY <1>1, <1>2, <1>3

\* Which equipment a slot is.
LEMMA EquipmentTyped ==
  ASSUME selection \in HotbarSlots, slots \in [InventorySlots -> Contents]
  PROVE  /\ \A e \in EquipmentSlots : InventoryIndex(e) \in InventorySlots
         /\ \A e \in EquipmentSlots : e # MainHand => InventoryIndex(e) = e
         /\ Equipment \in [EquipmentSlots -> Contents]
         /\ \A e \in EquipmentSlots : Equipment[e] = slots[InventoryIndex(e)]
         /\ \A t : \A e \in EquipmentSlots : e \in EquipmentSlotFor(t) <=> InventoryIndex(e) = t
         /\ MainHand \in EquipmentSlots
  BY ItemOutputsAssumption
     DEF InventoryIndex, InventorySlots, EquipmentSlots, Equipment, EquipmentSlotFor

SlotChange(s, v) == [kind |-> "slot", slot |-> s, stack |-> v]
ContentChange(f) == [kind |-> "content", slots |-> f]
HotbarChange(h) == [kind |-> "hotbar", current |-> h]
Put(f, s, v) == [f EXCEPT ![s] = v]

\* What r does not concern q did not, and it is none of the slots S.
Waiting(r, q, S) ==
  /\ r \in Seq(Changes)
  /\ \A t : NoneIn(r, Concerning(t)) => NoneIn(q, Concerning(t)) /\ t \notin S
  /\ \A t : NoneIn(r, OfSlot(t)) => NoneIn(q, OfSlot(t)) /\ t \notin S
  /\ NoneIn(r, Selecting) => NoneIn(q, Selecting)

\* A change to a slot, and one of the other two kinds, appended.
LEMMA SlotAppended ==
  ASSUME NEW q \in Seq(Changes), NEW f \in [InventorySlots -> Contents],
         NEW s \in InventorySlots, NEW v \in Contents, LastHold(q, f)
  PROVE  /\ LastHold(Append(q, SlotChange(s, v)), Put(f, s, v))
         /\ Waiting(Append(q, SlotChange(s, v)), q, {s})
         /\ Put(f, s, v) \in [InventorySlots -> Contents]
<1>1. PICK m : m = SlotChange(s, v)
  OBVIOUS
<1>2. PICK r : r = Append(q, m)
  OBVIOUS
<1>3. PICK g : g = Put(f, s, v)
  OBVIOUS
<1>4. /\ m \in Changes /\ m \in Holding(s, v)
      /\ \A t : m \in Concerning(t) <=> t = s
      /\ \A t : m \in OfSlot(t) <=> t = s
  BY <1>1, ChangeKinds DEF SlotChange
<1>5. g \in [InventorySlots -> Contents]
  BY <1>3 DEF Put
<1>6. \A t \in InventorySlots : g[t] = IF t = s THEN v ELSE f[t]
  BY <1>3 DEF Put
<1>7. \A M, G : m \in M /\ m \in G => LastIn(r, M, G)
  BY <1>2, <1>4, ChangeAppended
<1>8. \A M, G : m \notin M /\ LastIn(q, M, G) => LastIn(r, M, G)
  BY <1>2, <1>4, ChangeAppended
<1>9. r \in Seq(Changes) /\ \A M : NoneIn(r, M) => NoneIn(q, M) /\ m \notin M
  BY <1>2, <1>4, ChangeAppended
<1>10. ASSUME NEW t \in InventorySlots
       PROVE  LastIn(r, Concerning(t), Holding(t, g[t])) /\ LastIn(r, OfSlot(t), Holding(t, g[t]))
  <2>1. CASE t = s
    <3>1. g[t] = v /\ m \in Concerning(t) /\ m \in OfSlot(t)
      BY <1>4, <1>6, <2>1
    <3> QED BY <1>4, <1>7, <2>1, <3>1
  <2>2. CASE t # s
    <3>1. m \notin Concerning(t) /\ m \notin OfSlot(t) /\ g[t] = f[t]
      BY <1>4, <1>6, <2>2
    <3>2. LastIn(q, Concerning(t), Holding(t, f[t])) /\ LastIn(q, OfSlot(t), Holding(t, f[t]))
      BY DEF LastHold
    <3> QED BY <1>8, <3>1, <3>2
  <2> QED BY <2>1, <2>2
<1>11. LastHold(r, g)
  BY <1>10 DEF LastHold
<1>12. Waiting(r, q, {s})
  BY <1>4, <1>9 DEF Waiting
<1> QED BY <1>1, <1>2, <1>3, <1>5, <1>11, <1>12

LEMMA OtherAppended ==
  ASSUME NEW q \in Seq(Changes), NEW f, NEW m \in Changes, LastHold(q, f),
         \A t : m \notin OfSlot(t),
         \A t : m \in Concerning(t) => m \in Holding(t, f[t])
  PROVE  LastHold(Append(q, m), f) /\ Waiting(Append(q, m), q, {})
<1>1. PICK r : r = Append(q, m)
  OBVIOUS
<1>2. \A M, G : m \in M /\ m \in G => LastIn(r, M, G)
  BY <1>1, ChangeAppended
<1>3. \A M, G : m \notin M /\ LastIn(q, M, G) => LastIn(r, M, G)
  BY <1>1, ChangeAppended
<1>4. r \in Seq(Changes) /\ \A M : NoneIn(r, M) => NoneIn(q, M)
  BY <1>1, ChangeAppended
<1>5. ASSUME NEW t \in InventorySlots
      PROVE  LastIn(r, Concerning(t), Holding(t, f[t])) /\ LastIn(r, OfSlot(t), Holding(t, f[t]))
  <2>1. LastIn(q, Concerning(t), Holding(t, f[t])) /\ LastIn(q, OfSlot(t), Holding(t, f[t]))
    BY DEF LastHold
  <2> QED BY <1>2, <1>3, <2>1
<1>6. LastHold(r, f) /\ Waiting(r, q, {})
  BY <1>4, <1>5 DEF LastHold, Waiting
<1> QED BY <1>1, <1>6

LEMMA ContentAppended ==
  ASSUME NEW q \in Seq(Changes), NEW f \in [InventorySlots -> Contents], LastHold(q, f)
  PROVE  LastHold(Append(q, ContentChange(f)), f) /\ Waiting(Append(q, ContentChange(f)), q, {})
<1>1. PICK m : m = ContentChange(f)
  OBVIOUS
<1>2. m \in Changes /\ \A t : m \notin OfSlot(t) /\ m \in Holding(t, f[t])
  BY <1>1, ChangeKinds DEF ContentChange
<1>3. LastHold(Append(q, m), f) /\ Waiting(Append(q, m), q, {})
  BY <1>2, OtherAppended
<1> QED BY <1>1, <1>3

LEMMA HotbarAppended ==
  ASSUME NEW q \in Seq(Changes), NEW f, NEW h \in HotbarSlots, LastHold(q, f)
  PROVE  /\ LastHold(Append(q, HotbarChange(h)), f)
         /\ Waiting(Append(q, HotbarChange(h)), q, {})
         /\ ~ NoneIn(Append(q, HotbarChange(h)), Selecting)
<1>1. PICK m : m = HotbarChange(h)
  OBVIOUS
<1>2. m \in Changes /\ m \in Selecting /\ \A t : m \notin OfSlot(t) /\ m \notin Concerning(t)
  BY <1>1, ChangeKinds DEF HotbarChange
<1>3. LastHold(Append(q, m), f) /\ Waiting(Append(q, m), q, {})
  BY <1>2, OtherAppended
<1>4. ~ NoneIn(Append(q, m), Selecting)
  BY <1>2, ChangeAppended
<1> QED BY <1>1, <1>3, <1>4

----------------------------------------------------------------------------
(* The players' changes.                                                   *)

\* After a change of the slots S that is announced, what the clients know of
\* the others is as it was.
LEMMA SlotsChange ==
  ASSUME ItemsInvariant, UNCHANGED <<selection, own, worn, missed>>,
         slots' \in [InventorySlots -> Contents],
         NEW S, \A t \in InventorySlots : t \notin S => slots'[t] = slots[t],
         Waiting(changes', changes, S), LastHold(changes', slots')
  PROVE  ItemsInvariant'
<1>1. ItemsTypeOK /\ LastChangesHold /\ OwnClientKnows /\ OtherClientSees
  BY DEF ItemsInvariant
<1>2. slots \in [InventorySlots -> Contents] /\ selection \in HotbarSlots
  BY <1>1 DEF ItemsTypeOK
<1>3. ItemsTypeOK' /\ LastChangesHold'
  BY <1>1 DEF ItemsTypeOK, LastChangesHold, Waiting
<1>4. OwnClientKnows'
  BY <1>1 DEF OwnClientKnows, Waiting
<1>5. OtherClientSees'
  <2>1. \A e \in EquipmentSlots : InventoryIndex(e) \in InventorySlots
    BY <1>2, EquipmentTyped
  <2>2. \A e : InventoryIndex(e)' = InventoryIndex(e)
    BY DEF InventoryIndex
  <2> QED BY <1>1, <2>1, <2>2 DEF OtherClientSees, Waiting
<1> QED BY <1>3, <1>4, <1>5 DEF ItemsInvariant

LEMMA SlotChanges ==
  ASSUME ItemsInvariant, ChangeSlot
  PROVE  ItemsInvariant'
<1>1. PICK s \in InventorySlots, v \in Contents :
        /\ slots' = [slots EXCEPT ![s] = v]
        /\ changes' = Append(changes, [kind |-> "slot", slot |-> s, stack |-> v])
        /\ UNCHANGED <<selection, own, worn, missed>>
  BY DEF ChangeSlot, Unsent
<1>2. slots' = Put(slots, s, v) /\ changes' = Append(changes, SlotChange(s, v))
  BY <1>1 DEF Put, SlotChange
<1>3. changes \in Seq(Changes) /\ slots \in [InventorySlots -> Contents] /\ LastHold(changes, slots)
  BY DEF ItemsInvariant, ItemsTypeOK, LastChangesHold
<1>4. /\ LastHold(changes', slots') /\ Waiting(changes', changes, {s})
      /\ slots' \in [InventorySlots -> Contents]
  BY <1>2, <1>3, SlotAppended
<1>5. \A t \in InventorySlots : t \notin {s} => slots'[t] = slots[t]
  BY <1>1, <1>3
<1> QED BY <1>1, <1>4, <1>5, SlotsChange

LEMMA SlotsSwap ==
  ASSUME ItemsInvariant, SwapSlots
  PROVE  ItemsInvariant'
<1>1. PICK s \in InventorySlots, t \in InventorySlots :
        /\ slots[s] # slots[t]
        /\ slots' = [slots EXCEPT ![s] = slots[t], ![t] = slots[s]]
        /\ changes' = changes \o
             <<[kind |-> "slot", slot |-> s, stack |-> slots[t]],
               [kind |-> "slot", slot |-> t, stack |-> slots[s]],
               [kind |-> "content", slots |-> slots']>>
        /\ UNCHANGED <<selection, own, worn, missed>>
  BY DEF SwapSlots, Unsent
<1>2. changes \in Seq(Changes) /\ slots \in [InventorySlots -> Contents] /\ LastHold(changes, slots)
  BY DEF ItemsInvariant, ItemsTypeOK, LastChangesHold
<1>3. PICK v \in Contents, w \in Contents : v = slots[t] /\ w = slots[s]
  BY <1>2
<1>4. PICK f : f = Put(slots, s, v)
  OBVIOUS
<1>5. PICK q : q = Append(changes, SlotChange(s, v))
  OBVIOUS
<1>6. PICK r : r = Append(q, SlotChange(t, w))
  OBVIOUS
<1>7. slots' = Put(f, t, w)
  BY <1>1, <1>2, <1>3, <1>4 DEF Put
<1>8. LastHold(q, f) /\ Waiting(q, changes, {s}) /\ f \in [InventorySlots -> Contents]
  BY <1>2, <1>4, <1>5, SlotAppended
<1>9. q \in Seq(Changes)
  BY <1>8 DEF Waiting
<1>10. LastHold(r, slots') /\ Waiting(r, q, {t}) /\ slots' \in [InventorySlots -> Contents]
  BY <1>6, <1>7, <1>8, <1>9, SlotAppended
<1>11. r \in Seq(Changes)
  BY <1>10 DEF Waiting
<1>12. changes' = Append(r, ContentChange(slots'))
  <2>1. changes' = changes \o <<SlotChange(s, v), SlotChange(t, w), ContentChange(slots')>>
    BY <1>1, <1>3 DEF SlotChange, ContentChange
  <2>2. /\ SlotChange(s, v) \in Changes /\ SlotChange(t, w) \in Changes
        /\ ContentChange(slots') \in Changes
    BY <1>10, ChangeKinds DEF SlotChange, ContentChange
  <2>3. \A x, y, z \in Changes :
          changes \o <<x, y, z>> = Append(Append(Append(changes, x), y), z)
    BY <1>2
  <2> QED BY <1>5, <1>6, <2>1, <2>2, <2>3
<1>13. LastHold(changes', slots') /\ Waiting(changes', r, {})
  BY <1>10, <1>11, <1>12, ContentAppended
<1>14. Waiting(changes', changes, {s, t})
  BY <1>8, <1>10, <1>13 DEF Waiting
<1>15. \A u \in InventorySlots : u \notin {s, t} => slots'[u] = slots[u]
  BY <1>1, <1>2
<1> QED BY <1>1, <1>10, <1>13, <1>14, <1>15, SlotsChange

LEMMA SelectionChanges ==
  ASSUME ItemsInvariant, SelectSlot
  PROVE  ItemsInvariant'
<1>1. PICK s \in HotbarSlots :
        /\ selection' = s
        /\ changes' = Append(changes, [kind |-> "hotbar", current |-> s])
        /\ UNCHANGED <<slots, own, worn, missed>>
  BY DEF SelectSlot, Unsent
<1>2. ItemsTypeOK /\ LastChangesHold /\ OwnClientKnows /\ OtherClientSees
  BY DEF ItemsInvariant
<1>3. changes \in Seq(Changes) /\ LastHold(changes, slots)
  BY <1>2 DEF ItemsTypeOK, LastChangesHold
<1>4. changes' = Append(changes, HotbarChange(s))
  BY <1>1 DEF HotbarChange
<1>5. LastHold(changes', slots) /\ Waiting(changes', changes, {}) /\ ~ NoneIn(changes', Selecting)
  BY <1>3, <1>4, HotbarAppended
<1>6. ItemsTypeOK' /\ LastChangesHold'
  BY <1>1, <1>2, <1>5 DEF ItemsTypeOK, LastChangesHold, Waiting
<1>7. OwnClientKnows'
  BY <1>1, <1>2, <1>5 DEF OwnClientKnows, Waiting
<1>8. OtherClientSees'
  <2>1. \A e : e # MainHand => InventoryIndex(e)' = InventoryIndex(e)
    BY DEF InventoryIndex
  <2> QED BY <1>1, <1>2, <1>5, <2>1 DEF OtherClientSees, Waiting
<1> QED BY <1>6, <1>7, <1>8 DEF ItemsInvariant

----------------------------------------------------------------------------
(* What the replication thread sends.                                      *)

LEMMA InventoriesSync ==
  ASSUME ItemsInvariant, SyncInventory
  PROVE  ItemsInvariant'
<1>1. ItemsTypeOK /\ LastChangesHold /\ OwnClientKnows /\ OtherClientSees
  BY DEF ItemsInvariant
<1>2. /\ \/ own' = slots /\ missed' = missed \ {"own"}
         \/ missed' = missed \cup {"own"} /\ UNCHANGED own
      /\ UNCHANGED <<slots, selection, changes, worn>>
  BY DEF SyncInventory, SendContent
<1>3. ItemsTypeOK' /\ LastChangesHold'
  BY <1>1, <1>2 DEF ItemsTypeOK, LastChangesHold
<1>4. OwnClientKnows'
  BY <1>1, <1>2 DEF OwnClientKnows
<1>5. OtherClientSees'
  <2>1. \A e : InventoryIndex(e)' = InventoryIndex(e)
    BY <1>2 DEF InventoryIndex
  <2> QED BY <1>1, <1>2, <2>1 DEF OtherClientSees
<1> QED BY <1>3, <1>4, <1>5 DEF ItemsInvariant

LEMMA EquipmentSpawns ==
  ASSUME ItemsInvariant, SpawnWithEquipment \/ RemoveEquipped
  PROVE  ItemsInvariant'
<1>1. ItemsTypeOK /\ LastChangesHold /\ OwnClientKnows /\ OtherClientSees
  BY DEF ItemsInvariant
<1>2. /\ \/ worn' = Equipment /\ missed' = missed \ {"other"}
         \/ worn' = [e \in EquipmentSlots |-> NoStack] /\ missed' = missed \cup {"other"}
         \/ worn' = NotSeen /\ UNCHANGED missed
      /\ UNCHANGED <<slots, selection, changes, own>>
  BY DEF SpawnWithEquipment, RemoveEquipped
<1>3. /\ Equipment \in [EquipmentSlots -> Contents]
      /\ \A e \in EquipmentSlots : Equipment[e] = slots[InventoryIndex(e)]
  BY <1>1, EquipmentTyped DEF ItemsTypeOK
<1>4. [e \in EquipmentSlots |-> NoStack] \in [EquipmentSlots -> Contents]
  BY DEF Contents
<1>5. ItemsTypeOK' /\ LastChangesHold'
  BY <1>1, <1>2, <1>3, <1>4 DEF ItemsTypeOK, LastChangesHold
<1>6. OwnClientKnows'
  BY <1>1, <1>2 DEF OwnClientKnows
<1>7. OtherClientSees'
  <2>1. \A e : InventoryIndex(e)' = InventoryIndex(e)
    BY <1>2 DEF InventoryIndex
  <2>2. worn' # NotSeen /\ "other" \notin missed' => worn' = Equipment
    BY <1>2
  <2> QED BY <1>2, <1>3, <2>1, <2>2 DEF OtherClientSees
<1> QED BY <1>5, <1>6, <1>7 DEF ItemsInvariant

\* A change is taken: if no later one concerns a slot, it holds what is there.
LEMMA ChangeDispatched ==
  ASSUME ItemsInvariant, Taken
  PROVE  /\ Change \in Changes /\ changes' \in Seq(Changes) /\ LastHold(changes', slots)
         /\ UNCHANGED <<slots, selection>>
         /\ \A M : NoneIn(changes', M) /\ Change \notin M => NoneIn(changes, M)
         /\ \A t \in InventorySlots :
              NoneIn(changes', Concerning(t)) /\ Change \in Concerning(t) =>
                Change \in Holding(t, slots[t])
         /\ \A t \in InventorySlots :
              NoneIn(changes', OfSlot(t)) /\ Change \in OfSlot(t) =>
                Change \in Holding(t, slots[t])
<1>1. /\ changes \in Seq(Changes) /\ changes # <<>> /\ LastHold(changes, slots)
      /\ UNCHANGED <<slots, selection>>
  BY DEF ItemsInvariant, ItemsTypeOK, LastChangesHold, Taken
<1>2. PICK m : m = Head(changes)
  OBVIOUS
<1>3. PICK r : r = Tail(changes)
  OBVIOUS
<1>4. /\ m \in Changes /\ r \in Seq(Changes)
      /\ \A M, G : LastIn(changes, M, G) => LastIn(r, M, G)
      /\ \A M : NoneIn(r, M) /\ m \notin M => NoneIn(changes, M)
      /\ \A M, G : NoneIn(r, M) /\ m \in M /\ LastIn(changes, M, G) => m \in G
  BY <1>1, <1>2, <1>3, ChangeTaken
<1>5. LastHold(r, slots)
  BY <1>1, <1>4 DEF LastHold
<1>6. ASSUME NEW t \in InventorySlots
      PROVE  /\ NoneIn(r, Concerning(t)) /\ m \in Concerning(t) => m \in Holding(t, slots[t])
             /\ NoneIn(r, OfSlot(t)) /\ m \in OfSlot(t) => m \in Holding(t, slots[t])
  <2>1. /\ LastIn(changes, Concerning(t), Holding(t, slots[t]))
        /\ LastIn(changes, OfSlot(t), Holding(t, slots[t]))
    BY <1>1 DEF LastHold
  <2> QED BY <1>4, <2>1
<1>7. Change = m /\ changes' = r
  BY <1>2, <1>3 DEF Change, Taken
<1> QED BY <1>1, <1>4, <1>5, <1>6, <1>7

LEMMA SlotDispatched ==
  ASSUME ItemsInvariant, DispatchSlot
  PROVE  ItemsInvariant'
<1>1. ItemsTypeOK /\ LastChangesHold /\ OwnClientKnows /\ OtherClientSees
  BY DEF ItemsInvariant
<1>2. Taken /\ Change.kind = "slot"
  BY DEF DispatchSlot
<1>3. PICK m : m = Change
  OBVIOUS
<1>4. PICK s \in InventorySlots, v \in Contents : m = SlotChange(s, v)
  BY <1>2, <1>3, ChangeDispatched DEF Changes, SlotChange
<1>5. /\ m.slot = s /\ m.stack = v
      /\ \A t : m \in Concerning(t) <=> t = s
      /\ \A t : m \in OfSlot(t) <=> t = s
      /\ m \notin Selecting
      /\ \A w : m \in Holding(s, w) => v = w
  <2>1. m.slot = s /\ m.stack = v /\ m.kind = "slot"
    BY <1>4 DEF SlotChange
  <2>2. (\A t : m \in Concerning(t) <=> t = s) /\ \A t : m \in OfSlot(t) <=> t = s
    BY <1>4, ChangeKinds DEF SlotChange
  <2> QED BY <2>1, <2>2 DEF Selecting, Holding
<1>6. /\ changes' \in Seq(Changes) /\ LastHold(changes', slots)
      /\ UNCHANGED <<slots, selection>>
      /\ \A M : NoneIn(changes', M) /\ m \notin M => NoneIn(changes, M)
      /\ \A t \in InventorySlots :
           NoneIn(changes', Concerning(t)) /\ m \in Concerning(t) => m \in Holding(t, slots[t])
      /\ \A t \in InventorySlots :
           NoneIn(changes', OfSlot(t)) /\ m \in OfSlot(t) => m \in Holding(t, slots[t])
  BY <1>2, <1>3, ChangeDispatched
<1>7. /\ \A t \in InventorySlots : t # s /\ NoneIn(changes', Concerning(t)) =>
           NoneIn(changes, Concerning(t))
      /\ \A t \in InventorySlots : t # s /\ NoneIn(changes', OfSlot(t)) =>
           NoneIn(changes, OfSlot(t))
      /\ NoneIn(changes', Concerning(s)) => v = slots[s]
      /\ NoneIn(changes', OfSlot(s)) => v = slots[s]
      /\ NoneIn(changes', Selecting) => NoneIn(changes, Selecting)
  BY <1>5, <1>6
<1>8. PICK shown : shown = IF worn = NotSeen THEN {} ELSE EquipmentSlotFor(s)
  OBVIOUS
<1>9. /\ \/ /\ own' = [own EXCEPT ![s] = v]
            /\ worn' = IF shown = {} THEN worn
                       ELSE [e \in EquipmentSlots |-> IF e \in shown THEN v ELSE worn[e]]
            /\ UNCHANGED missed
         \/ /\ missed' = missed \cup {"own"} \cup (IF shown = {} THEN {} ELSE {"other"})
            /\ UNCHANGED <<own, worn>>
  BY <1>3, <1>5, <1>8 DEF DispatchSlot
<1>10. /\ slots \in [InventorySlots -> Contents] /\ selection \in HotbarSlots
       /\ own \in [InventorySlots -> Contents]
       /\ worn \in [EquipmentSlots -> Contents] \/ worn = NotSeen
  BY <1>1 DEF ItemsTypeOK
<1>11. /\ \A e \in EquipmentSlots : InventoryIndex(e) \in InventorySlots
       /\ \A e \in EquipmentSlots : e \in EquipmentSlotFor(s) <=> InventoryIndex(e) = s
       /\ EquipmentSlotFor(s) \subseteq EquipmentSlots
  BY <1>10, EquipmentTyped DEF EquipmentSlotFor
<1>12. \A e : InventoryIndex(e)' = InventoryIndex(e)
  BY <1>6 DEF InventoryIndex
<1>13. /\ own' \in [InventorySlots -> Contents]
       /\ worn' \in [EquipmentSlots -> Contents] \/ worn' = NotSeen
  <2>1. own' \in [InventorySlots -> Contents]
    BY <1>9, <1>10
  <2>2. shown # {} => worn # NotSeen
    BY <1>8
  <2>3. worn' \in [EquipmentSlots -> Contents] \/ worn' = NotSeen
    BY <1>9, <1>10, <2>2
  <2> QED BY <2>1, <2>3
<1>14. ItemsTypeOK' /\ LastChangesHold'
  BY <1>6, <1>10, <1>13 DEF ItemsTypeOK, LastChangesHold
<1>15. OwnClientKnows'
  <2> SUFFICES ASSUME "own" \notin missed', NEW t \in InventorySlots,
                      NoneIn(changes', Concerning(t))
               PROVE  own'[t] = slots[t]
    BY <1>6 DEF OwnClientKnows
  <2>1. own' = [own EXCEPT ![s] = v] /\ "own" \notin missed
    BY <1>9
  <2>2. CASE t = s
    BY <1>7, <1>10, <2>1, <2>2
  <2>3. CASE t # s
    BY <1>1, <1>7, <1>10, <2>1, <2>3 DEF OwnClientKnows
  <2> QED BY <2>2, <2>3
<1>16. OtherClientSees'
  <2> SUFFICES ASSUME worn' # NotSeen, "other" \notin missed', NEW e \in EquipmentSlots,
                      NoneIn(changes', OfSlot(InventoryIndex(e))),
                      e = MainHand => NoneIn(changes', Selecting)
               PROVE  worn'[e] = slots[InventoryIndex(e)]
    BY <1>6, <1>12 DEF OtherClientSees
  <2>1. worn # NotSeen /\ "other" \notin missed /\ InventoryIndex(e) \in InventorySlots
    <3>1. worn = NotSeen => worn' = NotSeen
      BY <1>8, <1>9
    <3> QED BY <1>9, <1>11, <3>1
  <2>2. shown = EquipmentSlotFor(s)
    BY <1>8, <2>1
  <2>3. CASE InventoryIndex(e) = s
    <3>1. e \in shown /\ v = slots[s]
      BY <1>7, <1>11, <2>2, <2>3
    <3>2. worn'[e] = v
      BY <1>9, <3>1
    <3> QED BY <2>3, <3>1, <3>2
  <2>4. CASE InventoryIndex(e) # s
    <3>1. e \notin shown /\ NoneIn(changes, OfSlot(InventoryIndex(e)))
      BY <1>7, <1>11, <2>1, <2>2, <2>4
    <3>2. worn'[e] = worn[e]
      BY <1>9, <3>1
    <3>3. e = MainHand => NoneIn(changes, Selecting)
      BY <1>7
    <3>4. worn[e] = slots[InventoryIndex(e)]
      BY <1>1, <2>1, <3>1, <3>3 DEF OtherClientSees
    <3> QED BY <3>2, <3>4
  <2> QED BY <2>3, <2>4
<1> QED BY <1>14, <1>15, <1>16 DEF ItemsInvariant

LEMMA ContentDispatched ==
  ASSUME ItemsInvariant, DispatchContent
  PROVE  ItemsInvariant'
<1>1. ItemsTypeOK /\ LastChangesHold /\ OwnClientKnows /\ OtherClientSees
  BY DEF ItemsInvariant
<1>2. Taken /\ Change.kind = "content"
  BY DEF DispatchContent
<1>3. PICK m : m = Change
  OBVIOUS
<1>4. PICK f \in [InventorySlots -> Contents] : m = ContentChange(f)
  BY <1>2, <1>3, ChangeDispatched DEF Changes, ContentChange
<1>5. /\ m.slots = f
      /\ \A t : m \in Concerning(t) /\ m \notin OfSlot(t)
      /\ m \notin Selecting
      /\ \A t, w : m \in Holding(t, w) => f[t] = w
  <2>1. m.slots = f /\ m.kind = "content"
    BY <1>4 DEF ContentChange
  <2>2. \A t : m \in Concerning(t) /\ m \notin OfSlot(t)
    BY <1>4, ChangeKinds DEF ContentChange
  <2> QED BY <2>1, <2>2 DEF Selecting, Holding
<1>6. /\ changes' \in Seq(Changes) /\ LastHold(changes', slots)
      /\ UNCHANGED <<slots, selection>>
      /\ \A M : NoneIn(changes', M) /\ m \notin M => NoneIn(changes, M)
      /\ \A t \in InventorySlots :
           NoneIn(changes', Concerning(t)) /\ m \in Concerning(t) => m \in Holding(t, slots[t])
  BY <1>2, <1>3, ChangeDispatched
<1>7. /\ \/ own' = f /\ missed' = missed \ {"own"}
         \/ missed' = missed \cup {"own"} /\ UNCHANGED own
      /\ UNCHANGED worn
  BY <1>3, <1>5 DEF DispatchContent, SendContent
<1>8. ItemsTypeOK' /\ LastChangesHold'
  BY <1>1, <1>6, <1>7 DEF ItemsTypeOK, LastChangesHold
<1>9. OwnClientKnows'
  BY <1>5, <1>6, <1>7 DEF OwnClientKnows
<1>10. OtherClientSees'
  <2>1. \A e : InventoryIndex(e)' = InventoryIndex(e)
    BY <1>6 DEF InventoryIndex
  <2>2. "other" \in missed' <=> "other" \in missed
    BY <1>7
  <2> QED BY <1>1, <1>5, <1>6, <1>7, <2>1, <2>2 DEF OtherClientSees
<1> QED BY <1>8, <1>9, <1>10 DEF ItemsInvariant

LEMMA SelectionDispatched ==
  ASSUME ItemsInvariant, DispatchSelection
  PROVE  ItemsInvariant'
<1>1. ItemsTypeOK /\ LastChangesHold /\ OwnClientKnows /\ OtherClientSees
  BY DEF ItemsInvariant
<1>2. Taken /\ Change.kind = "hotbar" /\ UNCHANGED own
  BY DEF DispatchSelection
<1>3. PICK m : m = Change
  OBVIOUS
<1>4. \A t : m \notin Concerning(t) /\ m \notin OfSlot(t)
  BY <1>2, <1>3 DEF Concerning, OfSlot, Contentful
<1>5. /\ changes' \in Seq(Changes) /\ LastHold(changes', slots)
      /\ UNCHANGED <<slots, selection>>
      /\ \A M : NoneIn(changes', M) /\ m \notin M => NoneIn(changes, M)
  BY <1>2, <1>3, ChangeDispatched
<1>6. slots \in [InventorySlots -> Contents] /\ selection \in HotbarSlots
  BY <1>1 DEF ItemsTypeOK
<1>7. /\ \A e \in EquipmentSlots : InventoryIndex(e) \in InventorySlots
      /\ Equipment \in [EquipmentSlots -> Contents]
      /\ Equipment[MainHand] = slots[InventoryIndex(MainHand)]
      /\ MainHand \in EquipmentSlots
  BY <1>6, EquipmentTyped
<1>8. PICK v \in Contents : v = Equipment[MainHand]
  BY <1>7
<1>9. \/ UNCHANGED <<worn, missed>> /\ worn = NotSeen
      \/ /\ worn' = [e \in EquipmentSlots |-> IF e = MainHand THEN v ELSE worn[e]]
         /\ UNCHANGED missed /\ worn # NotSeen
      \/ missed' = missed \cup {"other"} /\ UNCHANGED worn
  <2>1. PICK entries : entries = [e \in {MainHand} |-> Equipment[e]]
    OBVIOUS
  <2>2. DOMAIN entries = {MainHand} /\ entries[MainHand] = v
    BY <1>8, <2>1
  <2>3. worn # NotSeen => SendEquipment(entries)
    BY <2>1 DEF DispatchSelection
  <2>4. worn = NotSeen => UNCHANGED <<worn, missed>>
    BY DEF DispatchSelection
  <2>5. [e \in EquipmentSlots |-> IF e \in DOMAIN entries THEN entries[e] ELSE worn[e]]
          = [e \in EquipmentSlots |-> IF e = MainHand THEN v ELSE worn[e]]
    BY <2>2
  <2> QED BY <2>3, <2>4, <2>5 DEF SendEquipment
<1>10. worn' \in [EquipmentSlots -> Contents] \cup {NotSeen}
  <2>1. worn \in [EquipmentSlots -> Contents] \cup {NotSeen}
    BY <1>1 DEF ItemsTypeOK
  <2> QED BY <1>9, <2>1
<1>11. ItemsTypeOK' /\ LastChangesHold'
  BY <1>1, <1>2, <1>5, <1>10 DEF ItemsTypeOK, LastChangesHold
<1>12. OwnClientKnows'
  <2>1. "own" \in missed' <=> "own" \in missed
    BY <1>9
  <2> QED BY <1>1, <1>2, <1>4, <1>5, <2>1 DEF OwnClientKnows
<1>13. OtherClientSees'
  <2>1. \A e : InventoryIndex(e)' = InventoryIndex(e)
    BY <1>5 DEF InventoryIndex
  <2> SUFFICES ASSUME worn' # NotSeen, "other" \notin missed', NEW e \in EquipmentSlots,
                      NoneIn(changes', OfSlot(InventoryIndex(e)))
               PROVE  worn'[e] = slots[InventoryIndex(e)]
    BY <1>5, <2>1 DEF OtherClientSees
  <2>2. /\ worn' = [x \in EquipmentSlots |-> IF x = MainHand THEN v ELSE worn[x]]
        /\ UNCHANGED missed /\ worn # NotSeen
    BY <1>9
  <2>3. CASE e = MainHand
    BY <1>7, <1>8, <2>2, <2>3
  <2>4. CASE e # MainHand
    BY <1>1, <1>4, <1>5, <2>2, <2>4 DEF OtherClientSees
  <2> QED BY <2>3, <2>4
<1> QED BY <1>11, <1>12, <1>13 DEF ItemsInvariant

----------------------------------------------------------------------------
LEMMA ItemsStart == ItemsInit => ItemsInvariant
<1> SUFFICES ASSUME ItemsInit PROVE ItemsInvariant
  OBVIOUS
<1>1. /\ slots = NoItems /\ selection \in HotbarSlots /\ changes = <<>>
      /\ own = NoItems /\ worn = NotSeen
  BY ItemOutputsAssumption DEF ItemsInit
<1>2. NoItems \in [InventorySlots -> Contents] /\ <<>> \in Seq(Changes)
  BY DEF NoItems, Contents
<1>3. ItemsTypeOK /\ OwnClientKnows /\ OtherClientSees
  BY <1>1, <1>2 DEF ItemsTypeOK, OwnClientKnows, OtherClientSees
<1>4. LastChangesHold
  BY <1>1 DEF LastChangesHold, LastHold, LastIn
<1> QED BY <1>3, <1>4 DEF ItemsInvariant

LEMMA ItemsStep == ItemsInvariant /\ [ItemsNext]_itemVars => ItemsInvariant'
<1> SUFFICES ASSUME ItemsInvariant, [ItemsNext]_itemVars PROVE ItemsInvariant'
  OBVIOUS
<1>1. CASE UNCHANGED itemVars
  BY <1>1 DEF itemVars, ItemsInvariant, ItemsTypeOK, LastChangesHold, OwnClientKnows,
              OtherClientSees, InventoryIndex
<1>2. CASE ItemsNext
  BY <1>2, SlotChanges, SlotsSwap, SelectionChanges, InventoriesSync, EquipmentSpawns,
     SlotDispatched, ContentDispatched, SelectionDispatched DEF ItemsNext
<1> QED BY <1>1, <1>2

LEMMA CurrentItems == ItemsInvariant => ItemsAreCurrent
<1> SUFFICES ASSUME ItemsInvariant, changes = <<>>
             PROVE  /\ "own" \notin missed => own = slots
                    /\ worn # NotSeen /\ "other" \notin missed => worn = Equipment
  BY DEF ItemsAreCurrent
<1>1. /\ slots \in [InventorySlots -> Contents] /\ selection \in HotbarSlots
      /\ own \in [InventorySlots -> Contents]
      /\ worn \in [EquipmentSlots -> Contents] \cup {NotSeen}
  BY DEF ItemsInvariant, ItemsTypeOK
<1>2. \A M : NoneIn(changes, M)
  BY DEF NoneIn
<1>3. "own" \notin missed => own = slots
  BY <1>1, <1>2 DEF ItemsInvariant, OwnClientKnows
<1>4. ASSUME worn # NotSeen, "other" \notin missed PROVE worn = Equipment
  <2>1. \A e \in EquipmentSlots : worn[e] = slots[InventoryIndex(e)]
    BY <1>2, <1>4 DEF ItemsInvariant, OtherClientSees
  <2>2. /\ Equipment \in [EquipmentSlots -> Contents]
        /\ \A e \in EquipmentSlots : Equipment[e] = slots[InventoryIndex(e)]
    BY <1>1, EquipmentTyped
  <2> QED BY <1>1, <1>4, <2>1, <2>2
<1> QED BY <1>3, <1>4

\* Whatever changes of slots, swaps and selections wait for the replication
\* thread, and whenever the inventory is sent as a whole or the player comes
\* into another's view: once all is dispatched, a client that missed no output
\* knows the items as they are (game_replication.rs).
THEOREM ClientsKnowTheItems == ItemsSpec => []ItemsAreCurrent
<1> QED BY ItemsStart, ItemsStep, CurrentItems, PTL DEF ItemsSpec
=============================================================================
