---------------------------- MODULE GameState ----------------------------
(***************************************************************************)
(* The players of the server and the entities that stand for them: the     *)
(* state behind SharedGameRuntime.  Every operation takes the write lock,  *)
(* changes the state and publishes what it returns, so an operation is one *)
(* action and `events' is what the last one published.                     *)
(*                                                                         *)
(* Players are UUIDs and keep their record when they leave; an entity      *)
(* exists only while its player is connected.  A name is compared in lower *)
(* case (Key).  Inventories are in module Containers.  A stop or a crash   *)
(* and the start that follows is one step that loads the current capture:  *)
(* what is restored depends on the captured state alone, so a start from   *)
(* an older capture reaches no state this step does not.                   *)
(***************************************************************************)
EXTENDS Integers, FiniteSets, Sequences, Functions

CONSTANTS
  Players, Names, Keys,
  Key,            \* name -> its lower-case form, by which it is found
  Positions, Spawn,
  Modes, Survival, InvulnerableModes, NoMode,
  MaxHealth,      \* 20 in the code
  Amounts,        \* bound: amounts of damage and healing
  LastId,         \* the largest entity id (2^32 - 1 in the code)
  InitialFiles,   \* snapshots the first start may find
  NoPlayer

ASSUME GameStateAssumption ==
  /\ Key \in [Names -> Keys]
  /\ Spawn \in Positions
  /\ Survival \in Modes \ InvulnerableModes /\ NoMode \notin Modes
  /\ MaxHealth \in Nat \ {0} /\ Amounts \subseteq Nat
  /\ LastId \in Nat \ {0}
  /\ NoPlayer \notin Players

VARIABLES
  players,    \* GameState.players: player -> record, for all that ever joined
  names,      \* GameState.player_names: key -> player
  entities,   \* EntityStore.entities: id -> the player it stands for and where
  uuids,      \* EntityStore.uuids: player -> id
  nextId,     \* EntityStore.next_id
  events      \* what the last operation published

vars == <<players, names, entities, uuids, nextId, events>>

---------------------------------------------------------------------------
\* Entities.  An operation that fails leaves the state as it is.

EntityRecord == [player : Players, position : Positions]

NoEntity == 0
None == <<>>      \* the function with the empty domain
With(f, k, v) == [x \in DOMAIN f \cup {k} |-> IF x = k THEN v ELSE f[x]]
Without(f, k) == Restrict(f, DOMAIN f \ {k})

\* The id is taken only when there is a next one.
\* Mutant: the last id is handed out too.
CanSpawnLast(p) == p \notin DOMAIN uuids /\ nextId <= LastId
CanSpawn(p) == p \notin DOMAIN uuids /\ nextId < LastId

Spawned(p, position) ==
  /\ entities' = With(entities, nextId, [player |-> p, position |-> position])
  /\ uuids' = With(uuids, p, nextId)
  /\ nextId' = nextId + 1

Despawned(id) ==
  IF id \in DOMAIN entities
    THEN /\ entities' = Without(entities, id)
         /\ uuids' = Without(uuids, entities[id].player)
    ELSE UNCHANGED <<entities, uuids>>

---------------------------------------------------------------------------
\* Connections

Record ==
  [name : Names, entity : 0..LastId, mode : Modes, previousMode : Modes \cup {NoMode},
   health : 0..MaxHealth, level : 0..4, connected : BOOLEAN]

NewPlayer(name, id) ==
  [name |-> name, entity |-> id, mode |-> Survival, previousMode |-> NoMode,
   health |-> MaxHealth, level |-> 0, connected |-> TRUE]

Disconnected(r) == [r EXCEPT !.connected = FALSE, !.entity = NoEntity]
Connected(p) == p \in DOMAIN players /\ players[p].connected
Dead(r) == r.health = 0

NameTaken(p, name) == Key[name] \in DOMAIN names /\ names[Key[name]] # p

\* A name the player used before is given up when its key differs.
\* Mutant: the old name stays taken.
KeepOldName(p, name) == With(names, Key[name], p)
NamesAfter(p, name) ==
  LET kept == IF p \in DOMAIN players /\ Key[players[p].name] # Key[name]
                THEN Without(names, Key[players[p].name]) ELSE names
  IN With(kept, Key[name], p)

Connect(p, name) ==
  /\ ~NameTaken(p, name) /\ ~Connected(p) /\ CanSpawn(p)
  /\ Spawned(p, Spawn)
  /\ players' = With(players, p,
       IF p \in DOMAIN players
         THEN [players[p] EXCEPT !.name = name, !.entity = nextId, !.connected = TRUE]
         ELSE NewPlayer(name, nextId))
  /\ names' = NamesAfter(p, name)
  /\ events' = <<[kind |-> "connected", player |-> p]>>

Disconnect(p) ==
  /\ Connected(p)
  /\ Despawned(players[p].entity)
  /\ players' = [players EXCEPT ![p] = Disconnected(@)]
  /\ events' = <<[kind |-> "disconnected", player |-> p]>>
  /\ UNCHANGED <<names, nextId>>

---------------------------------------------------------------------------
\* Position, mode and vitals

MovedTo(p, position, kind) ==
  /\ Connected(p) /\ players[p].entity \in DOMAIN entities
  /\ entities' = [entities EXCEPT ![players[p].entity].position = position]
  /\ events' = <<[kind |-> kind, player |-> p, position |-> position]>>
  /\ UNCHANGED <<players, names, uuids, nextId>>

Move(p, position) == MovedTo(p, position, "moved")

\* Known players only; one who is not connected is changed too.
SetGameMode(p, mode) ==
  /\ p \in DOMAIN players /\ players[p].mode # mode
  /\ players' = [players EXCEPT ![p].mode = mode, ![p].previousMode = players[p].mode]
  /\ events' = <<[kind |-> "mode", player |-> p, mode |-> mode]>>
  /\ UNCHANGED <<names, entities, uuids, nextId>>

VitalsEvent(p, health) == <<[kind |-> "vitals", player |-> p, health |-> health]>>
KilledEvent(p) == <<[kind |-> "killed", player |-> p]>>

WithHealth(p, health, told) ==
  /\ players' = [players EXCEPT ![p].health = health]
  /\ events' = told
  /\ UNCHANGED <<names, entities, uuids, nextId>>

\* Vitals::damage and Vitals::heal
Hurt(health, amount) == IF amount < health THEN health - amount ELSE 0
Healed(health, amount) ==
  IF health + amount < MaxHealth THEN health + amount ELSE MaxHealth

\* Abilities::for_game_mode
Invulnerable(mode) == mode \in InvulnerableModes

\* A blow that changes nothing tells nothing.
Damage(p, amount) ==
  LET left == Hurt(players[p].health, amount)
  IN /\ Connected(p)
     /\ ~Invulnerable(players[p].mode) /\ ~Dead(players[p])
     /\ left # players[p].health
     /\ WithHealth(p, left, VitalsEvent(p, left)
                            \o (IF left = 0 THEN KilledEvent(p) ELSE <<>>))

\* Mutant: healing revives.
HealTheDead(p, amount) ==
  LET health == Healed(players[p].health, amount)
  IN /\ Connected(p) /\ health # players[p].health
     /\ WithHealth(p, health, VitalsEvent(p, health))
Heal(p, amount) ==
  LET health == Healed(players[p].health, amount)
  IN /\ Connected(p) /\ ~Dead(players[p]) /\ health # players[p].health
     /\ WithHealth(p, health, VitalsEvent(p, health))

\* Killing asks for no vulnerable mode.
Kill(p) ==
  /\ Connected(p) /\ ~Dead(players[p])
  /\ WithHealth(p, 0, VitalsEvent(p, 0) \o KilledEvent(p))

\* The session has seen the player dead under an earlier lock; a player who
\* has respawned since is refused.
Respawn(p) ==
  /\ Connected(p) /\ Dead(players[p]) /\ players[p].entity \in DOMAIN entities
  /\ players' = [players EXCEPT ![p].health = MaxHealth]
  /\ entities' = [entities EXCEPT ![players[p].entity].position = Spawn]
  /\ events' = <<[kind |-> "respawned", player |-> p, position |-> Spawn]>>
               \o VitalsEvent(p, MaxHealth)
  /\ UNCHANGED <<names, uuids, nextId>>

---------------------------------------------------------------------------
\* Commands.  The console has level 4 and no player; a player's level comes
\* with the record.

Level(source) == IF source = NoPlayer THEN 4 ELSE players[source].level
Permitted(source, required) == Level(source) >= required

\* A name finds a player, connected or not; without one the source is meant.
Target(source, name) ==
  IF name \in Names
    THEN IF Key[name] \in DOMAIN names THEN names[Key[name]] ELSE NoPlayer
    ELSE source

\* What parse_command makes of a line.  "help" and "list" change nothing;
\* "give" is in module Containers; the time, the difficulty and the rules are
\* not kept here.
Orders ==
  [verb : {"say", "save-all", "stop"}]
    \cup [verb : {"gamemode"}, mode : Modes, target : Names \cup {NoPlayer}]
    \cup [verb : {"tp"}, position : Positions, target : Names \cup {NoPlayer}]
    \cup [verb : {"kill"}, target : Names \cup {NoPlayer}]

RequiredLevel(verb) ==
  CASE verb = "say" -> 1
    [] verb \in {"gamemode", "tp", "kill"} -> 2
    [] verb \in {"save-all", "stop"} -> 4

\* A line for everyone, or a wish to save or to stop, that the rest of the
\* server acts on.
Announce ==
  /\ events' = <<[kind |-> "announced"]>>
  /\ UNCHANGED <<players, names, entities, uuids, nextId>>

Command(source, order) ==
  /\ Permitted(source, RequiredLevel(order.verb))
  /\ \/ order.verb \in {"say", "save-all", "stop"} /\ Announce
     \/ /\ order.verb \in {"gamemode", "tp", "kill"}
        /\ LET target == Target(source, order.target) IN
           /\ target # NoPlayer
           /\ \/ order.verb = "gamemode" /\ SetGameMode(target, order.mode)
              \/ order.verb = "tp" /\ MovedTo(target, order.position, "teleported")
              \/ order.verb = "kill" /\ Kill(target)

---------------------------------------------------------------------------
\* Snapshots

Capture == [players |-> players, entities |-> entities]
Captured(file) == DOMAIN file.entities

\* GameSnapshot::restore refuses what it cannot bind.
Restorable(file) ==
  /\ \A i \in Captured(file) : i < LastId
  /\ \A i, j \in Captured(file) :
       file.entities[i].player = file.entities[j].player => i = j
  /\ \A p, q \in DOMAIN file.players :
       Key[file.players[p].name] = Key[file.players[q].name] => p = q
  /\ \A p \in DOMAIN file.players :
       LET r == file.players[p] IN
       IF r.connected
         THEN r.entity \in Captured(file) /\ file.entities[r.entity].player = p
         ELSE r.entity = NoEntity

RestoredNextId(file) ==
  1 + (CHOOSE m \in Captured(file) \cup {0} :
         \A i \in Captured(file) : i <= m)

\* load_game_state: restore, then detach_all_connections, which removes the
\* entities of the players that were connected and no other.
Load(file) ==
  LET bound == {file.players[p].entity :
                  p \in {q \in DOMAIN file.players : file.players[q].connected}}
      left == Captured(file) \ bound
  IN [players |-> [p \in DOMAIN file.players |->
                     IF file.players[p].connected THEN Disconnected(file.players[p])
                                                  ELSE file.players[p]],
      names |-> [k \in {Key[file.players[p].name] : p \in DOMAIN file.players} |->
                   CHOOSE p \in DOMAIN file.players : Key[file.players[p].name] = k],
      entities |-> Restrict(file.entities, left),
      uuids |-> [p \in {file.entities[i].player : i \in left} |->
                   CHOOSE i \in left : file.entities[i].player = p],
      nextId |-> RestoredNextId(file)]

\* What a save writes: every entity is one of a connected player.
Saved(file) ==
  /\ DOMAIN file.players \subseteq Players
  /\ file.players \in [DOMAIN file.players -> Record]
  /\ Captured(file) \subseteq 1..LastId
  /\ file.entities \in [Captured(file) -> EntityRecord]
  /\ \A i \in Captured(file) :
       LET p == file.entities[i].player IN
       p \in DOMAIN file.players /\ file.players[p].connected

ASSUME InitialFilesAssumption == \A file \in InitialFiles : Saved(file)

Restart ==
  LET loaded == Load(Capture) IN
  /\ Restorable(Capture)
  /\ players' = loaded.players /\ names' = loaded.names
  /\ entities' = loaded.entities /\ uuids' = loaded.uuids
  /\ nextId' = loaded.nextId /\ events' = <<[kind |-> "restarted"]>>

---------------------------------------------------------------------------
Init ==
  \E file \in InitialFiles :
    LET loaded == Load(file) IN
    /\ Restorable(file)
    /\ players = loaded.players /\ names = loaded.names
    /\ entities = loaded.entities /\ uuids = loaded.uuids
    /\ nextId = loaded.nextId /\ events = <<[kind |-> "restarted"]>>

Next ==
  \/ \E p \in Players :
       \/ \E name \in Names : Connect(p, name)
       \/ Disconnect(p)
       \/ \E position \in Positions : Move(p, position)
       \/ \E amount \in Amounts : Damage(p, amount) \/ Heal(p, amount)
       \/ Respawn(p)
  \/ \E source \in DOMAIN players \cup {NoPlayer}, order \in Orders :
       (source = NoPlayer \/ Connected(source)) /\ Command(source, order)
  \/ Restart

Spec == Init /\ [][Next]_vars

---------------------------------------------------------------------------
\* Properties

GameTypeOK ==
  /\ DOMAIN players \subseteq Players
  /\ \A p \in DOMAIN players : players[p] \in Record
  /\ DOMAIN names \subseteq Keys
  /\ DOMAIN entities \subseteq 1..LastId
  /\ \A i \in DOMAIN entities : entities[i] \in EntityRecord
  /\ DOMAIN uuids \subseteq Players
  /\ nextId \in 1..LastId

NamesIndexPlayers ==
  /\ DOMAIN names = {Key[players[p].name] : p \in DOMAIN players}
  /\ \A k \in DOMAIN names :
       names[k] \in DOMAIN players /\ Key[players[names[k]].name] = k

EntitiesStandForPlayers ==
  /\ DOMAIN uuids = {p \in DOMAIN players : players[p].connected}
  /\ \A p \in DOMAIN uuids : /\ uuids[p] = players[p].entity
                             /\ uuids[p] \in DOMAIN entities
                             /\ entities[uuids[p]].player = p
  /\ \A i \in DOMAIN entities : /\ entities[i].player \in DOMAIN uuids
                                /\ uuids[entities[i].player] = i
                                /\ i < nextId

\* The four tables tell one story whatever the order of joining under another
\* name, leaving, dying, respawning and restarting: a name finds exactly the
\* player who bears it, and exactly the connected players have an entity.
RegistriesAgree == NamesIndexPlayers /\ EntitiesStandForPlayers

\* What a save writes, a start can read: no capture of a reachable state is
\* refused by GameSnapshot::restore, and the players come back as they were.
SnapshotRestores ==
  /\ Restorable(Capture)
  /\ LET loaded == Load(Capture) IN
     /\ loaded.entities = None /\ loaded.uuids = None /\ loaded.names = names
     /\ \A p \in DOMAIN players : loaded.players[p] = Disconnected(players[p])

Tells(kind, p) == \E i \in DOMAIN events' : /\ events'[i].kind = kind
                                            /\ events'[i].player = p
Position(p) == entities[players[p].entity].position

\* A connected player dies only by an event that says so and lives again only
\* by a respawn, and every change of place, mode or health that the
\* connections replicate is in the events of the operation that made it.
EventsTellChanges ==
  [][\A p \in Players :
       Connected(p) /\ p \in DOMAIN players' /\ players'[p].connected =>
         LET r == players[p] s == players'[p] IN
         /\ Tells("killed", p) <=> (~Dead(r) /\ Dead(s))
         /\ Tells("respawned", p) <=> (Dead(r) /\ ~Dead(s))
         /\ r.health # s.health =>
              \E i \in DOMAIN events' : events'[i] = VitalsEvent(p, s.health)[1]
         /\ r.mode # s.mode =>
              Tells("mode", p) /\ s.previousMode = r.mode
         /\ Position(p) # Position(p)' =>
              Tells("moved", p) \/ Tells("teleported", p) \/ Tells("respawned", p)
    ]_vars
===========================================================================
