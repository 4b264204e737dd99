--------------------------- MODULE Replication_proofs ---------------------------
(***************************************************************************)
(* Proofs about Replication: what a client shows of the other players is   *)
(* what the game has, and a player in the game is served or disconnected.  *)
(***************************************************************************)
EXTENDS Replication, FiniteSetTheorems, WellFoundedInduction, TLAPS

\* Functions on part of a set.
Maps(D, R) == UNION {[E -> R] : E \in SUBSET D}

Tracked == [id : Nat \ {0}, at : Nat]
Seen == [at : Int, held : Slot]

IsConnection(c, u) ==
  /\ c \in [session : Session, active : BOOLEAN, healthy : BOOLEAN,
            pending : 0 .. PendingLimit, entities : Maps(Player \ {u}, Tracked),
            picture : Maps(Nat, Seen)]
  /\ Owner[c.session] = u

LEMMA MapFacts ==
  ASSUME NEW D, NEW R
  PROVE  /\ \A f \in Maps(D, R) : f \in [DOMAIN f -> R] /\ DOMAIN f \subseteq D
         /\ \A f : DOMAIN f \subseteq D /\ f \in [DOMAIN f -> R] => f \in Maps(D, R)
         /\ Empty \in Maps(D, R) /\ DOMAIN Empty = {}
  BY DEF Maps, Empty

LEMMA WithoutType ==
  ASSUME NEW D, NEW R, NEW f \in Maps(D, R), NEW x
  PROVE  Without(f, x) \in Maps(D, R) /\ DOMAIN Without(f, x) = DOMAIN f \ {x}
  BY MapFacts DEF Without, Restrict

LEMMA WithoutValue ==
  ASSUME NEW f, NEW x, NEW y \in DOMAIN f \ {x}
  PROVE  Without(f, x)[y] = f[y]
  BY DEF Without, Restrict

---------------------------------------------------------------------------
\* What a client makes of each kind of output.
Adds(seen, p, id, h) ==
  /\ p \in Maps(Nat, Seen) /\ DOMAIN p = DOMAIN seen \cup {id}
  /\ p[id].held = h
  /\ \A x \in DOMAIN seen \ {id} : p[x] = seen[x]

LEMMA ApplyAdd ==
  ASSUME NEW seen \in Maps(Nat, Seen), NEW id \in Nat, NEW t \in Nat, NEW h \in Slot,
         NEW p, p = Apply(seen, [op |-> "add", id |-> id, at |-> t, held |-> h])
  PROVE  Adds(seen, p, id, h)
  <1>1. p = [x \in DOMAIN seen \cup {id} |-> IF x = id THEN [at |-> t, held |-> h] ELSE seen[x]]
    BY DEF Apply
  <1>2. seen \in [DOMAIN seen -> Seen] /\ DOMAIN seen \subseteq Nat
    BY MapFacts
  <1>3. [at |-> t, held |-> h] \in Seen
    BY DEF Seen
  <1>4. DOMAIN p \subseteq Nat /\ p \in [DOMAIN p -> Seen]
    BY <1>1, <1>2, <1>3
  <1> QED
    BY <1>1, <1>4, MapFacts DEF Adds

LEMMA ApplyRemove ==
  ASSUME NEW seen \in Maps(Nat, Seen), NEW id,
         NEW p, p = Apply(seen, [op |-> "remove", id |-> id])
  PROVE  /\ p \in Maps(Nat, Seen) /\ DOMAIN p = DOMAIN seen \ {id}
         /\ \A x \in DOMAIN seen \ {id} : p[x] = seen[x]
  <1>1. p = Without(seen, id)
    BY DEF Apply
  <1>2. Without(seen, id) \in Maps(Nat, Seen) /\ DOMAIN Without(seen, id) = DOMAIN seen \ {id}
    BY WithoutType
  <1>3. \A x \in DOMAIN seen \ {id} : p[x] = seen[x]
    BY <1>1, WithoutValue
  <1> QED
    BY <1>1, <1>2, <1>3

\* A movement keeps what the client shows, but for the position of one entity.
Shifts(seen, p, id) ==
  /\ p \in Maps(Nat, Seen) /\ DOMAIN p = DOMAIN seen
  /\ \A x \in DOMAIN seen \ {id} : p[x] = seen[x]
  /\ id \in DOMAIN seen => p[id].held = seen[id].held

LEMMA ApplyMove ==
  ASSUME NEW seen \in Maps(Nat, Seen), NEW id, NEW by \in Int,
         NEW p, p = Apply(seen, [op |-> "move", id |-> id, by |-> by])
  PROVE  Shifts(seen, p, id)
  <1>1. CASE id \notin DOMAIN seen
    <2>1. p = seen
      BY <1>1 DEF Apply
    <2> QED
      BY <1>1, <2>1 DEF Shifts
  <1>2. CASE id \in DOMAIN seen
    <2>1. p = [seen EXCEPT ![id].at = @ + by]
      BY <1>2 DEF Apply
    <2>2. seen \in [DOMAIN seen -> Seen] /\ DOMAIN seen \subseteq Nat
      BY MapFacts
    <2>3. p[id] = [seen[id] EXCEPT !.at = seen[id].at + by]
      BY <1>2, <2>1, <2>2
    <2>4. seen[id] \in Seen
      BY <1>2, <2>2
    <2>5. p[id] \in Seen /\ p[id].held = seen[id].held
      BY <2>3, <2>4 DEF Seen
    <2>6. DOMAIN p = DOMAIN seen /\ \A x \in DOMAIN seen \ {id} : p[x] = seen[x]
      BY <1>2, <2>1, <2>2
    <2>7. p = [x \in DOMAIN seen |-> p[x]]
      BY <1>2, <2>1, <2>2
    <2>8. p \in [DOMAIN p -> Seen]
      BY <2>2, <2>5, <2>6, <2>7
    <2> QED
      BY <2>2, <2>5, <2>6, <2>8, MapFacts DEF Shifts
  <1> QED
    BY <1>1, <1>2

LEMMA ApplyTeleport ==
  ASSUME NEW seen \in Maps(Nat, Seen), NEW id, NEW to \in Nat,
         NEW p, p = Apply(seen, [op |-> "teleport", id |-> id, to |-> to])
  PROVE  Shifts(seen, p, id)
  <1>1. CASE id \notin DOMAIN seen
    <2>1. p = seen
      BY <1>1 DEF Apply
    <2> QED
      BY <1>1, <2>1 DEF Shifts
  <1>2. CASE id \in DOMAIN seen
    <2>1. p = [seen EXCEPT ![id].at = to]
      BY <1>2 DEF Apply
    <2>2. seen \in [DOMAIN seen -> Seen] /\ DOMAIN seen \subseteq Nat
      BY MapFacts
    <2>3. p[id] = [seen[id] EXCEPT !.at = to]
      BY <1>2, <2>1, <2>2
    <2>4. seen[id] \in Seen
      BY <1>2, <2>2
    <2>5. p[id] \in Seen /\ p[id].held = seen[id].held
      BY <2>3, <2>4 DEF Seen
    <2>6. DOMAIN p = DOMAIN seen /\ \A x \in DOMAIN seen \ {id} : p[x] = seen[x]
      BY <1>2, <2>1, <2>2
    <2>7. p = [x \in DOMAIN seen |-> p[x]]
      BY <1>2, <2>1, <2>2
    <2>8. p \in [DOMAIN p -> Seen]
      BY <2>2, <2>5, <2>6, <2>7
    <2> QED
      BY <2>2, <2>5, <2>6, <2>8, MapFacts DEF Shifts
  <1> QED
    BY <1>1, <1>2

Equips(seen, p, id, h) ==
  /\ p \in Maps(Nat, Seen) /\ DOMAIN p = DOMAIN seen
  /\ \A x \in DOMAIN seen \ {id} : p[x] = seen[x]
  /\ id \in DOMAIN seen => p[id].held = h

LEMMA ApplyEquip ==
  ASSUME NEW seen \in Maps(Nat, Seen), NEW id, NEW h \in Slot,
         NEW p, p = Apply(seen, [op |-> "equip", id |-> id, held |-> h])
  PROVE  Equips(seen, p, id, h)
  <1>1. CASE id \notin DOMAIN seen
    <2>1. p = seen
      BY <1>1 DEF Apply
    <2> QED
      BY <1>1, <2>1 DEF Equips
  <1>2. CASE id \in DOMAIN seen
    <2>1. p = [seen EXCEPT ![id].held = h]
      BY <1>2 DEF Apply
    <2>2. seen \in [DOMAIN seen -> Seen] /\ DOMAIN seen \subseteq Nat
      BY MapFacts
    <2>3. p[id] = [seen[id] EXCEPT !.held = h]
      BY <1>2, <2>1, <2>2
    <2>4. seen[id] \in Seen
      BY <1>2, <2>2
    <2>5. p[id] \in Seen /\ p[id].held = h
      BY <2>3, <2>4 DEF Seen
    <2>6. DOMAIN p = DOMAIN seen /\ \A x \in DOMAIN seen \ {id} : p[x] = seen[x]
      BY <1>2, <2>1, <2>2
    <2>7. p = [x \in DOMAIN seen |-> p[x]]
      BY <1>2, <2>1, <2>2
    <2>8. p \in [DOMAIN p -> Seen]
      BY <2>2, <2>5, <2>6, <2>7
    <2> QED
      BY <2>2, <2>5, <2>6, <2>8, MapFacts DEF Equips
  <1> QED
    BY <1>1, <1>2

---------------------------------------------------------------------------
\* An output is queued, or ignored, or empties the queue of the connection.
Queued(c, d, o) ==
  /\ d.session = c.session /\ d.active = c.active
  /\ (~c.active \/ ~c.healthy) => d = c
  /\ c.healthy /\ ~d.healthy => d.entities = Empty /\ d.picture = Empty
  /\ c.active /\ d.healthy =>
       c.healthy /\ d.entities = c.entities /\ d.picture = Apply(c.picture, o)

LEMMA QueueFacts ==
  ASSUME NEW u, NEW c, IsConnection(c, u), NEW o, NEW d, d = Queue(c, o),
         c.active /\ c.healthy => Apply(c.picture, o) \in Maps(Nat, Seen)
  PROVE  IsConnection(d, u) /\ Queued(c, d, o)
  <1> USE DEF IsConnection, Queued
  <1>1. CASE ~c.active \/ ~c.healthy
    <2>1. d = c
      BY <1>1 DEF Queue
    <2> QED
      BY <1>1, <2>1
  <1>2. CASE c.active /\ c.healthy /\ c.pending >= PendingLimit
    <2>1. d = [c EXCEPT !.pending = 0, !.entities = Empty, !.picture = Empty,
                        !.healthy = FALSE]
      BY <1>2 DEF Queue
    <2>2. Empty \in Maps(Player \ {u}, Tracked) /\ Empty \in Maps(Nat, Seen)
      BY MapFacts
    <2>3. 0 \in 0 .. PendingLimit
      BY ReplicationAssumption
    <2>4. d = [session |-> c.session, active |-> c.active, healthy |-> FALSE,
               pending |-> 0, entities |-> Empty, picture |-> Empty]
      BY <2>1
    <2> QED
      BY <1>2, <2>2, <2>3, <2>4
  <1>3. CASE c.active /\ c.healthy /\ ~(c.pending >= PendingLimit)
    <2>1. d = [c EXCEPT !.pending = c.pending + 1, !.picture = Apply(c.picture, o)]
      BY <1>3 DEF Queue
    <2>2. c.pending + 1 \in 0 .. PendingLimit
      BY <1>3, ReplicationAssumption
    <2>3. d = [session |-> c.session, active |-> c.active, healthy |-> c.healthy,
               pending |-> c.pending + 1, entities |-> c.entities,
               picture |-> Apply(c.picture, o)]
      BY <2>1
    <2> QED
      BY <1>3, <2>2, <2>3
  <1> HIDE DEF IsConnection, Queued
  <1> QED
    BY <1>1, <1>2, <1>3

---------------------------------------------------------------------------
(***************************************************************************)
(* own gives every id that was handed out its player.  A connection is     *)
(* sane when its picture has exactly the ids of the entities it tracks.    *)
(***************************************************************************)
OwnedBy(own, id, w) == id \in DOMAIN own /\ own[id] = w

Sane(c, own) ==
  /\ \A w \in DOMAIN c.entities :
       OwnedBy(own, c.entities[w].id, w) /\ c.entities[w].id \in DOMAIN c.picture
  /\ \A i \in DOMAIN c.picture :
       own[i] \in DOMAIN c.entities /\ c.entities[own[i]].id = i
  /\ ~c.active \/ ~c.healthy => DOMAIN c.entities = {}

\* What no operation on a connection changes.
Carries(c, d) ==
  /\ d.session = c.session /\ d.active = c.active
  /\ d.healthy => c.healthy
  /\ ~c.active => d.healthy = c.healthy

\* What an operation on another player leaves of player x.
Same(c, d, x) == c.active /\ d.healthy =>
  /\ x \in DOMAIN d.entities <=> x \in DOMAIN c.entities
  /\ x \in DOMAIN c.entities =>
       /\ d.entities[x] = c.entities[x]
       /\ d.picture[c.entities[x].id] = c.picture[c.entities[x].id]

\* What every operation on player w does to a connection of player u.
Step(c, d, u, own, w) ==
  /\ IsConnection(d, u) /\ Sane(d, own) /\ Carries(c, d)
  /\ \A x \in Player \ {w} : Same(c, d, x)

LEMMA Fields ==
  ASSUME NEW u, NEW c, IsConnection(c, u)
  PROVE  /\ c.active \in BOOLEAN /\ c.healthy \in BOOLEAN
         /\ c.entities \in Maps(Player \ {u}, Tracked) /\ c.picture \in Maps(Nat, Seen)
         /\ DOMAIN c.entities \subseteq Player \ {u} /\ DOMAIN c.picture \subseteq Nat
         /\ \A x \in DOMAIN c.entities : c.entities[x] \in Tracked
  <1>1. /\ c.active \in BOOLEAN /\ c.healthy \in BOOLEAN
        /\ c.entities \in Maps(Player \ {u}, Tracked) /\ c.picture \in Maps(Nat, Seen)
    BY DEF IsConnection
  <1>2. DOMAIN c.entities \subseteq Player \ {u} /\ DOMAIN c.picture \subseteq Nat
    BY <1>1, MapFacts
  <1>3. c.entities \in [DOMAIN c.entities -> Tracked]
    BY <1>1, MapFacts
  <1>4. \A x \in DOMAIN c.entities : c.entities[x] \in Tracked
    BY <1>3
  <1> QED
    BY <1>1, <1>2, <1>4

\* Operations follow one another.
LEMMA StepsFollow ==
  ASSUME NEW u, NEW own, NEW w, NEW c, NEW d, NEW e, IsConnection(c, u),
         Step(c, d, u, own, w), Step(d, e, u, own, w)
  PROVE  Step(c, e, u, own, w)
  <1>1. Carries(c, e)
    <2>1. Carries(c, d) /\ Carries(d, e)
      BY DEF Step
    <2> QED
      BY <2>1 DEF Carries
  <1>2. ASSUME NEW x \in Player \ {w} PROVE Same(c, e, x)
    <2>1. Same(c, d, x) /\ Same(d, e, x) /\ Carries(c, d) /\ Carries(d, e)
      BY DEF Step
    <2>2. SUFFICES ASSUME c.active, e.healthy
                   PROVE  /\ x \in DOMAIN e.entities <=> x \in DOMAIN c.entities
                          /\ x \in DOMAIN c.entities =>
                               /\ e.entities[x] = c.entities[x]
                               /\ e.picture[c.entities[x].id] = c.picture[c.entities[x].id]
      BY DEF Same
    <2>3. d.active /\ d.healthy
      BY <2>1, <2>2 DEF Carries
    <2> QED
      BY <2>1, <2>2, <2>3 DEF Same
  <1> QED
    BY <1>1, <1>2 DEF Step

\* Chat, health and inventory are no part of the picture.
LEMMA OtherKeeps ==
  ASSUME NEW u, NEW own, NEW w, NEW c, IsConnection(c, u), Sane(c, own),
         NEW d, d = Queue(c, Other)
  PROVE  Step(c, d, u, own, w) /\ Same(c, d, w)
  <1>1. Apply(c.picture, Other) = c.picture
    BY DEF Apply, Other
  <1>2. IsConnection(d, u) /\ Queued(c, d, Other)
    BY <1>1, Fields, QueueFacts
  <1>3. CASE ~c.active \/ ~c.healthy
    <2>1. d = c
      BY <1>2, <1>3 DEF Queued
    <2> QED
      BY <1>2, <2>1 DEF Step, Carries, Same
  <1>4. CASE c.active /\ c.healthy /\ ~d.healthy
    <2>1. d.entities = Empty /\ d.picture = Empty /\ d.session = c.session /\ d.active
      BY <1>2, <1>4 DEF Queued
    <2>2. DOMAIN d.entities = {} /\ DOMAIN d.picture = {}
      BY <2>1, MapFacts
    <2> QED
      BY <1>2, <1>4, <2>1, <2>2 DEF Step, Carries, Same, Sane
  <1>5. CASE c.active /\ c.healthy /\ d.healthy
    <2>1. d.entities = c.entities /\ d.picture = c.picture /\ d.session = c.session /\ d.active
      BY <1>1, <1>2, <1>5 DEF Queued
    <2> QED
      BY <1>2, <1>5, <2>1 DEF Step, Carries, Same, Sane
  <1> QED
    BY <1>3, <1>4, <1>5

\* An entity that is removed is neither tracked nor shown.
LEMMA RemoveForgets ==
  ASSUME NEW u, NEW own, NEW w, NEW c, IsConnection(c, u), Sane(c, own),
         NEW fallback, fallback = 0 \/ OwnedBy(own, fallback, w),
         NEW d, d = RemoveEntity(c, w, fallback)
  PROVE  Step(c, d, u, own, w) /\ w \notin DOMAIN d.entities
  <1> DEFINE id   == IF w \in DOMAIN c.entities THEN c.entities[w].id ELSE fallback
             rest == [c EXCEPT !.entities = Without(c.entities, w)]
             o    == [op |-> "remove", id |-> id]
  <1>1. d = IF id = 0 THEN rest ELSE Queue(rest, o)
    BY DEF RemoveEntity
  <1>2. /\ Without(c.entities, w) \in Maps(Player \ {u}, Tracked)
        /\ DOMAIN Without(c.entities, w) = DOMAIN c.entities \ {w}
    <2>1. c.entities \in Maps(Player \ {u}, Tracked)
      BY Fields
    <2>2. PICK m : m = c.entities
      OBVIOUS
    <2>3. PICK D : D = Player \ {u}
      OBVIOUS
    <2>4. m \in Maps(D, Tracked)
      BY <2>1, <2>2, <2>3
    <2>5. Without(m, w) \in Maps(D, Tracked) /\ DOMAIN Without(m, w) = DOMAIN m \ {w}
      BY <2>4, WithoutType
    <2> QED
      BY <2>2, <2>3, <2>5
  <1>3. PICK r : r = rest
    OBVIOUS
  <1>4. /\ r.session = c.session /\ r.active = c.active /\ r.healthy = c.healthy
        /\ r.picture = c.picture /\ r.entities = Without(c.entities, w)
        /\ IsConnection(r, u)
    BY <1>2, <1>3 DEF IsConnection
  <1>5. \A x \in DOMAIN c.entities \ {w} : r.entities[x] = c.entities[x]
    BY <1>4, WithoutValue
  <1>6. DOMAIN r.entities = DOMAIN c.entities \ {w}
    BY <1>2, <1>4
  <1>7. id # 0 => OwnedBy(own, id, w)
    BY DEF Sane
  <1>8. w \in DOMAIN c.entities => id # 0
    BY Fields DEF Tracked
  <1>9. CASE id = 0
    <2>1. d = r
      BY <1>1, <1>3, <1>9
    <2>2. w \notin DOMAIN c.entities
      BY <1>8, <1>9
    <2>3. Sane(d, own)
      BY <1>4, <1>5, <1>6, <2>1, <2>2 DEF Sane
    <2> QED
      BY <1>4, <1>5, <1>6, <2>1, <2>2, <2>3 DEF Step, Carries, Same
  <1>10. CASE id # 0
    <2>1. d = Queue(r, o)
      BY <1>1, <1>3, <1>10
    <2> DEFINE p == Apply(r.picture, o)
    <2>2. /\ p \in Maps(Nat, Seen) /\ DOMAIN p = DOMAIN c.picture \ {id}
          /\ \A i \in DOMAIN c.picture \ {id} : p[i] = c.picture[i]
      <3>1. r.picture \in Maps(Nat, Seen) /\ r.picture = c.picture
        BY <1>4, Fields
      <3>2. PICK q : q = c.picture
        OBVIOUS
      <3>3. PICK i : i = id
        OBVIOUS
      <3>4. PICK a : a = Apply(q, [op |-> "remove", id |-> i])
        OBVIOUS
      <3>5. /\ a \in Maps(Nat, Seen) /\ DOMAIN a = DOMAIN q \ {i}
            /\ \A x \in DOMAIN q \ {i} : a[x] = q[x]
        BY <3>1, <3>2, <3>4, ApplyRemove
      <3>6. p = a
        BY <3>1, <3>2, <3>3, <3>4
      <3> QED
        BY <3>2, <3>3, <3>5, <3>6
    <2> HIDE DEF p, o, id, rest
    <2>3. IsConnection(d, u) /\ Queued(r, d, o)
      BY <1>4, <2>1, <2>2, QueueFacts DEF p
    <2>4. CASE ~c.active \/ ~c.healthy
      <3>1. d = r
        BY <1>4, <2>3, <2>4 DEF Queued
      <3>2. DOMAIN c.entities = {} /\ DOMAIN c.picture = {}
        BY <2>4 DEF Sane
      <3>3. Sane(d, own)
        BY <1>4, <1>6, <3>1, <3>2 DEF Sane
      <3> QED
        BY <1>4, <1>5, <1>6, <2>4, <3>1, <3>2, <3>3 DEF Step, Carries, Same
    <2>5. CASE c.active /\ c.healthy /\ ~d.healthy
      <3>1. d.entities = Empty /\ d.picture = Empty /\ d.session = c.session /\ d.active
        BY <1>4, <2>3, <2>5 DEF Queued
      <3>2. DOMAIN d.entities = {} /\ DOMAIN d.picture = {}
        BY <3>1, MapFacts
      <3>3. Sane(d, own)
        BY <3>2 DEF Sane
      <3> QED
        BY <2>3, <2>5, <3>1, <3>2, <3>3 DEF Step, Carries, Same
    <2>6. CASE c.active /\ c.healthy /\ d.healthy
      <3>1. d.entities = r.entities /\ d.picture = p /\ d.session = c.session /\ d.active
        BY <1>4, <2>3, <2>6 DEF Queued, p
      <3>2. OwnedBy(own, id, w)
        BY <1>7, <1>10
      <3>3. ASSUME NEW x \in DOMAIN d.entities
            PROVE  /\ OwnedBy(own, d.entities[x].id, x) /\ d.entities[x].id \in DOMAIN d.picture
                   /\ d.entities[x].id # id
        <4>1. x \in DOMAIN c.entities \ {w} /\ d.entities[x] = c.entities[x]
          BY <1>5, <1>6, <3>1
        <4>2. OwnedBy(own, c.entities[x].id, x) /\ c.entities[x].id \in DOMAIN c.picture
          BY <4>1 DEF Sane
        <4> QED
          BY <2>2, <3>1, <3>2, <4>1, <4>2 DEF OwnedBy
      <3>4. ASSUME NEW i \in DOMAIN d.picture
            PROVE  own[i] \in DOMAIN d.entities /\ d.entities[own[i]].id = i
        <4>1. i \in DOMAIN c.picture /\ i # id
          BY <2>2, <3>1
        <4>2. own[i] \in DOMAIN c.entities /\ c.entities[own[i]].id = i
          BY <4>1 DEF Sane
        <4>3. own[i] # w
          BY <4>1, <4>2 DEF id
        <4> QED
          BY <1>5, <1>6, <3>1, <4>2, <4>3
      <3>5. Sane(d, own)
        BY <2>6, <3>1, <3>3, <3>4 DEF Sane
      <3>6. ASSUME NEW x \in Player \ {w} PROVE Same(c, d, x)
        <4>1. x \in DOMAIN d.entities <=> x \in DOMAIN c.entities
          BY <1>6, <3>1
        <4>2. ASSUME x \in DOMAIN c.entities
              PROVE  /\ d.entities[x] = c.entities[x]
                     /\ d.picture[c.entities[x].id] = c.picture[c.entities[x].id]
          <5>1. d.entities[x] = c.entities[x] /\ x \in DOMAIN d.entities
            BY <1>5, <1>6, <3>1, <4>2
          <5>2. c.entities[x].id \in DOMAIN c.picture \ {id}
            BY <3>3, <4>2, <5>1 DEF Sane
          <5> QED
            BY <2>2, <3>1, <5>1, <5>2
        <4> QED
          BY <4>1, <4>2 DEF Same
      <3> QED
        BY <1>6, <2>3, <2>6, <3>1, <3>5, <3>6 DEF Step, Carries
    <2> QED
      BY <1>4, <2>4, <2>5, <2>6
  <1> QED
    BY <1>9, <1>10

---------------------------------------------------------------------------
\* A player that is online, and what the game has of it.
Known(own, w) ==
  /\ Online(w) /\ entity[w] \in Nat /\ OwnedBy(own, entity[w], w)
  /\ at[w] \in Nat /\ held[w] \in Slot

\* Player w is tracked as the game has it.
Fresh(d, w) == w \in DOMAIN d.entities /\ d.entities[w] = Snapshot(w)

\* The client shows what player w holds, if it shows its present entity.
Holds(c, w) ==
  c.active /\ c.healthy /\ w \in DOMAIN c.entities /\ c.entities[w].id = entity[w]
    => c.picture[entity[w]].held = held[w]

\* Putting an entity among the tracked ones.
Track(c, w, t) == [c EXCEPT !.entities =
  [x \in DOMAIN c.entities \cup {w} |-> IF x = w THEN t ELSE c.entities[x]]]

Retracked(c, d, w, t) ==
  /\ d.session = c.session /\ d.active = c.active
  /\ d.healthy = c.healthy /\ d.picture = c.picture
  /\ DOMAIN d.entities = DOMAIN c.entities \cup {w} /\ d.entities[w] = t
  /\ \A x \in DOMAIN c.entities \ {w} : d.entities[x] = c.entities[x]

LEMMA TrackFacts ==
  ASSUME NEW u, NEW w \in Player \ {u}, NEW c, IsConnection(c, u), NEW t \in Tracked,
         NEW d, d = Track(c, w, t)
  PROVE  IsConnection(d, u) /\ Retracked(c, d, w, t)
  <1> DEFINE m == [x \in DOMAIN c.entities \cup {w} |-> IF x = w THEN t ELSE c.entities[x]]
  <1>1. c.entities \in [DOMAIN c.entities -> Tracked] /\ DOMAIN c.entities \subseteq Player \ {u}
    BY Fields, MapFacts
  <1>2. DOMAIN m \subseteq Player \ {u} /\ m \in [DOMAIN m -> Tracked]
    BY <1>1
  <1>3. m \in Maps(Player \ {u}, Tracked)
    BY <1>2, MapFacts
  <1>4. c \in [session : Session, active : BOOLEAN, healthy : BOOLEAN,
               pending : 0 .. PendingLimit, entities : Maps(Player \ {u}, Tracked),
               picture : Maps(Nat, Seen)] /\ Owner[c.session] = u
    BY DEF IsConnection
  <1>5. d = [c EXCEPT !.entities = m]
    BY DEF Track
  <1>6. d.entities = m
    BY <1>4, <1>5
  <1>7. /\ IsConnection(d, u) /\ d.session = c.session /\ d.active = c.active
        /\ d.healthy = c.healthy /\ d.picture = c.picture
    <2> HIDE DEF m
    <2> QED
      BY <1>3, <1>4, <1>5 DEF IsConnection
  <1> QED
    BY <1>6, <1>7 DEF Retracked

LEMMA TrackAgain ==
  ASSUME NEW u, NEW c, IsConnection(c, u), NEW w \in DOMAIN c.entities, NEW t \in Tracked
  PROVE  [c EXCEPT !.entities[w] = t] = Track(c, w, t)
  <1> DEFINE m == [x \in DOMAIN c.entities \cup {w} |-> IF x = w THEN t ELSE c.entities[x]]
  <1>1. c.entities \in [DOMAIN c.entities -> Tracked]
    <2>1. c.entities \in Maps(Player \ {u}, Tracked)
      BY Fields
    <2> QED
      BY <2>1, MapFacts
  <1>2. [c.entities EXCEPT ![w] = t] = m
    BY <1>1
  <1>3. c \in [session : Session, active : BOOLEAN, healthy : BOOLEAN,
               pending : 0 .. PendingLimit, entities : Maps(Player \ {u}, Tracked),
               picture : Maps(Nat, Seen)]
    BY DEF IsConnection
  <1>4. [c EXCEPT !.entities[w] = t] = [c EXCEPT !.entities = [c.entities EXCEPT ![w] = t]]
    BY <1>3
  <1> QED
    BY <1>2, <1>4 DEF Track

\* A player that is spawned is tracked as it is, and shown with what it holds.
LEMMA SpawnShows ==
  ASSUME NEW u, NEW own, NEW w \in Player \ {u}, NEW c, IsConnection(c, u), Sane(c, own),
         Known(own, w), NEW d, d = SpawnPlayer(c, w)
  PROVE  /\ Step(c, d, u, own, w)
         /\ c.active /\ d.healthy => Fresh(d, w)
         /\ Holds(c, w) => Holds(d, w)
         /\ DOMAIN d.entities \subseteq DOMAIN c.entities \cup {w}
  <1> DEFINE t == Snapshot(w)
  <1>1. t = [id |-> entity[w], at |-> at[w]] /\ t \in Tracked /\ t.id = entity[w]
    BY DEF Snapshot, Known, Tracked, Online
  <1> HIDE DEF t
  <1>2. CASE ~c.active \/ ~c.healthy
    <2>1. d = c
      BY <1>2 DEF SpawnPlayer
    <2> QED
      BY <1>2, <2>1 DEF Step, Carries, Same
  <1>3. CASE /\ c.active /\ c.healthy
             /\ w \in DOMAIN c.entities /\ c.entities[w].id = entity[w]
    <2>1. d = Track(c, w, t)
      <3>1. d = [c EXCEPT !.entities[w] = t]
        BY <1>3 DEF SpawnPlayer, t
      <3> QED
        BY <1>1, <1>3, <3>1, TrackAgain
    <2>2. IsConnection(d, u) /\ Retracked(c, d, w, t)
      BY <1>1, <2>1, TrackFacts
    <2>7. DOMAIN d.entities = DOMAIN c.entities
      BY <1>3, <2>2 DEF Retracked
    <2>3. \A x \in DOMAIN c.entities : d.entities[x].id = c.entities[x].id
      BY <1>1, <1>3, <2>2 DEF Retracked
    <2>4. Sane(d, own)
      BY <1>3, <2>2, <2>3, <2>7 DEF Sane, Retracked
    <2>5. Fresh(d, w)
      BY <1>3, <2>2 DEF Fresh, t, Retracked
    <2>6. Holds(c, w) => Holds(d, w)
      BY <1>3, <2>2 DEF Holds, Retracked
    <2> QED
      BY <2>2, <2>4, <2>5, <2>6, <2>7 DEF Retracked, Step, Carries, Same
  <1>4. CASE /\ c.active /\ c.healthy
             /\ ~(w \in DOMAIN c.entities /\ c.entities[w].id = entity[w])
    <2> DEFINE o == AddEntity(w)
    <2>1. PICK r : r = RemoveEntity(c, w, 0)
      OBVIOUS
    <2>2. Step(c, r, u, own, w) /\ w \notin DOMAIN r.entities
      BY <2>1, RemoveForgets
    <2>3. IsConnection(r, u) /\ Sane(r, own) /\ r.session = c.session /\ r.active
      BY <1>4, <2>2 DEF Step, Carries
    <2>4. PICK p : p = Apply(r.picture, o)
      OBVIOUS
    <2>5. Adds(r.picture, p, entity[w], held[w])
      <3>1. r.picture \in Maps(Nat, Seen)
        BY <2>3, Fields
      <3>2. entity[w] \in Nat /\ at[w] \in Nat /\ held[w] \in Slot
        BY DEF Known
      <3>3. p = Apply(r.picture, [op |-> "add", id |-> entity[w], at |-> at[w],
                                  held |-> held[w]])
        BY <2>4 DEF AddEntity
      <3> QED
        BY <3>1, <3>2, <3>3, ApplyAdd
    <2>6. PICK q : q = Queue(r, o)
      OBVIOUS
    <2> HIDE DEF o
    <2>7. IsConnection(q, u) /\ Queued(r, q, o)
      BY <2>3, <2>4, <2>5, <2>6, QueueFacts DEF Adds
    <2>8. d = IF q.healthy
              THEN [q EXCEPT !.entities = [x \in DOMAIN @ \cup {w} |->
                                             IF x = w THEN t ELSE @[x]]]
              ELSE q
      BY <1>4, <2>1, <2>6 DEF SpawnPlayer, o, t
    <2>9. CASE ~q.healthy
      <3>1. d = q
        BY <2>8, <2>9
      <3>2. Carries(r, q) /\ DOMAIN q.entities = {} /\ Sane(q, own)
        <4>1. CASE ~r.healthy
          <5>1. q = r
            BY <2>3, <2>7, <4>1 DEF Queued
          <5> QED
            BY <2>3, <4>1, <5>1 DEF Carries, Sane
        <4>2. CASE r.healthy
          <5>1. q.entities = Empty /\ q.picture = Empty /\ q.session = r.session /\ q.active
            BY <2>3, <2>7, <2>9, <4>2 DEF Queued
          <5>2. DOMAIN q.entities = {} /\ DOMAIN q.picture = {}
            BY <5>1, MapFacts
          <5> QED
            BY <2>3, <2>9, <5>1, <5>2 DEF Sane, Carries
        <4> QED
          BY <4>1, <4>2, <2>3, <2>7, Fields
      <3>3. Step(r, q, u, own, w)
        BY <2>7, <2>9, <3>2 DEF Step, Same
      <3>4. Step(c, d, u, own, w)
        BY <2>2, <3>1, <3>3, StepsFollow
      <3> QED
        BY <2>9, <3>1, <3>2, <3>4 DEF Holds
    <2>10. CASE q.healthy
      <3>1. r.healthy /\ q.entities = r.entities /\ q.picture = p /\ q.session = r.session
              /\ q.active
        BY <2>3, <2>4, <2>7, <2>10 DEF Queued
      <3>2. IsConnection(d, u) /\ Retracked(q, d, w, t)
        <4>1. d = Track(q, w, t)
          BY <2>8, <2>10 DEF Track
        <4> QED
          BY <1>1, <2>7, <4>1, TrackFacts
      <3>3. OwnedBy(own, entity[w], w)
        BY DEF Known
      <3>4. ASSUME NEW x \in DOMAIN r.entities
            PROVE  /\ x # w /\ x \in DOMAIN d.entities /\ d.entities[x] = r.entities[x]
                   /\ OwnedBy(own, r.entities[x].id, x)
                   /\ r.entities[x].id \in DOMAIN r.picture
                   /\ r.entities[x].id # entity[w]
        <4>1. OwnedBy(own, r.entities[x].id, x) /\ r.entities[x].id \in DOMAIN r.picture
          BY <2>3 DEF Sane
        <4>2. x # w
          BY <2>2
        <4> QED
          BY <3>1, <3>2, <3>3, <4>1, <4>2 DEF OwnedBy, Retracked
      <3>5. ASSUME NEW x \in DOMAIN d.entities
            PROVE  OwnedBy(own, d.entities[x].id, x) /\ d.entities[x].id \in DOMAIN d.picture
        <4>1. CASE x = w
          BY <1>1, <2>5, <3>1, <3>2, <3>3, <4>1 DEF Adds, Retracked
        <4>2. CASE x # w
          <5>1. x \in DOMAIN r.entities
            BY <3>1, <3>2, <4>2 DEF Retracked
          <5> QED
            BY <2>5, <3>1, <3>2, <3>4, <5>1 DEF Adds, Retracked
        <4> QED
          BY <4>1, <4>2
      <3>6. ASSUME NEW i \in DOMAIN d.picture
            PROVE  own[i] \in DOMAIN d.entities /\ d.entities[own[i]].id = i
        <4>1. CASE i = entity[w]
          BY <1>1, <3>2, <3>3, <4>1 DEF OwnedBy, Retracked
        <4>2. CASE i # entity[w]
          <5>1. i \in DOMAIN r.picture
            BY <2>5, <3>1, <3>2, <4>2 DEF Adds, Retracked
          <5>2. own[i] \in DOMAIN r.entities /\ r.entities[own[i]].id = i
            BY <2>3, <5>1 DEF Sane
          <5> QED
            BY <3>4, <5>2
        <4> QED
          BY <4>1, <4>2
      <3>7. Sane(d, own)
        BY <2>10, <3>1, <3>2, <3>5, <3>6 DEF Sane, Retracked
      <3>8. ASSUME NEW x \in Player \ {w} PROVE Same(r, d, x)
        <4>1. x \in DOMAIN d.entities <=> x \in DOMAIN r.entities
          BY <3>1, <3>2 DEF Retracked
        <4>2. ASSUME x \in DOMAIN r.entities
              PROVE  /\ d.entities[x] = r.entities[x]
                     /\ d.picture[r.entities[x].id] = r.picture[r.entities[x].id]
          BY <2>5, <3>1, <3>2, <3>4, <4>2 DEF Adds, Retracked
        <4> QED
          BY <4>1, <4>2 DEF Same
      <3>9. Carries(r, d)
        BY <2>3, <2>10, <3>1, <3>2 DEF Carries, Retracked
      <3>10. Step(r, d, u, own, w)
        BY <3>2, <3>7, <3>8, <3>9 DEF Step, Retracked
      <3>11. Step(c, d, u, own, w)
        BY <2>2, <3>10, StepsFollow
      <3>12. Fresh(d, w)
        BY <3>2 DEF Fresh, t, Retracked
      <3>13. Holds(d, w)
        BY <2>5, <3>1, <3>2 DEF Holds, Adds, Retracked
      <3>14. DOMAIN r.entities \subseteq DOMAIN c.entities
        <4>1. c.active /\ r.healthy /\ \A x \in Player \ {w} : Same(c, r, x)
          BY <1>4, <2>2, <3>1 DEF Step
        <4>2. DOMAIN r.entities \subseteq Player \ {w}
          BY <2>2, <2>3, Fields
        <4> QED
          BY <4>1, <4>2 DEF Same
      <3> QED
        BY <3>1, <3>2, <3>11, <3>12, <3>13, <3>14 DEF Retracked
    <2> QED
      BY <2>9, <2>10
  <1> QED
    BY <1>2, <1>3, <1>4

---------------------------------------------------------------------------
\* An entity that is tracked goes to a place, and holds what it held.
Moves(c, d, w, to) == c.active /\ d.healthy =>
  /\ w \in DOMAIN d.entities /\ d.entities[w].id = c.entities[w].id
  /\ d.entities[w].at = to
  /\ d.picture[c.entities[w].id].held = c.picture[c.entities[w].id].held

LEMMA TrackPlace ==
  ASSUME NEW u, NEW q, IsConnection(q, u), NEW w \in DOMAIN q.entities, NEW to \in Nat
  PROVE  \E t \in Tracked : /\ t.id = q.entities[w].id /\ t.at = to
                            /\ [q EXCEPT !.entities[w].at = to] = Track(q, w, t)
  <1> DEFINE t == [q.entities[w] EXCEPT !.at = to]
  <1>1. q.entities[w] \in Tracked
    BY Fields
  <1>2. t \in Tracked /\ t.id = q.entities[w].id /\ t.at = to
    BY <1>1 DEF Tracked
  <1>3. [q EXCEPT !.entities[w].at = to] = [q EXCEPT !.entities[w] = t]
    OBVIOUS
  <1>4. [q EXCEPT !.entities[w] = t] = Track(q, w, t)
    <2> HIDE DEF t
    <2> QED
      BY <1>2, TrackAgain
  <1> HIDE DEF t
  <1> QED
    BY <1>2, <1>3, <1>4

\* The tracked place is brought forward after the output, if there was one.
LEMMA ShiftMoves ==
  ASSUME NEW u, NEW own, NEW w \in Player \ {u}, NEW c, IsConnection(c, u), Sane(c, own),
         w \in DOMAIN c.entities, NEW to \in Nat, NEW o, NEW q,
         \/ q = c
         \/ /\ Shifts(c.picture, Apply(c.picture, o), c.entities[w].id)
            /\ q = Queue(c, o),
         NEW d, d = IF w \in DOMAIN q.entities
                    THEN [q EXCEPT !.entities[w].at = to] ELSE q
  PROVE  Step(c, d, u, own, w) /\ Moves(c, d, w, to)
  <1>1. c.active /\ c.healthy
    BY Fields DEF Sane
  <1>2. /\ IsConnection(q, u) /\ q.session = c.session /\ q.active
        /\ ~q.healthy => q.entities = Empty /\ q.picture = Empty
        /\ q.healthy => /\ q.entities = c.entities
                        /\ Shifts(c.picture, q.picture, c.entities[w].id)
    <2>1. CASE q = c
      <3>1. Shifts(c.picture, c.picture, c.entities[w].id)
        BY Fields DEF Shifts
      <3> QED
        BY <1>1, <2>1, <3>1
    <2>2. CASE /\ Shifts(c.picture, Apply(c.picture, o), c.entities[w].id)
               /\ q = Queue(c, o)
      <3>1. Apply(c.picture, o) \in Maps(Nat, Seen)
        BY <2>2 DEF Shifts
      <3>2. IsConnection(q, u) /\ Queued(c, q, o)
        BY <2>2, <3>1, QueueFacts
      <3> QED
        BY <1>1, <2>2, <3>2 DEF Queued
    <2> QED
      BY <2>1, <2>2
  <1>3. CASE ~q.healthy
    <2>1. DOMAIN q.entities = {} /\ DOMAIN q.picture = {}
      BY <1>2, <1>3, MapFacts
    <2>2. d = q
      BY <2>1
    <2>3. Sane(d, own)
      BY <2>1, <2>2 DEF Sane
    <2> QED
      BY <1>1, <1>2, <1>3, <2>2, <2>3 DEF Step, Carries, Same, Moves
  <1>4. CASE q.healthy
    <2>1. q.entities = c.entities /\ Shifts(c.picture, q.picture, c.entities[w].id)
      BY <1>2, <1>4
    <2>2. w \in DOMAIN q.entities
      BY <2>1
    <2>3. PICK t \in Tracked : t.id = q.entities[w].id /\ t.at = to /\ d = Track(q, w, t)
      <3>1. d = [q EXCEPT !.entities[w].at = to]
        BY <2>2
      <3> QED
        BY <1>2, <2>2, <3>1, TrackPlace
    <2>4. IsConnection(d, u) /\ Retracked(q, d, w, t)
      BY <1>2, <2>3, TrackFacts
    <2>5. /\ DOMAIN d.entities = DOMAIN c.entities /\ DOMAIN d.picture = DOMAIN c.picture
          /\ \A x \in DOMAIN c.entities : d.entities[x].id = c.entities[x].id
      BY <2>1, <2>2, <2>3, <2>4 DEF Retracked, Shifts
    <2>6. Sane(d, own)
      BY <1>1, <1>2, <1>4, <2>4, <2>5 DEF Sane, Retracked
    <2>7. OwnedBy(own, c.entities[w].id, w) /\ c.entities[w].id \in DOMAIN c.picture
      BY DEF Sane
    <2>8. ASSUME NEW x \in Player \ {w} PROVE Same(c, d, x)
      <3>1. ASSUME x \in DOMAIN c.entities
            PROVE  /\ d.entities[x] = c.entities[x]
                   /\ d.picture[c.entities[x].id] = c.picture[c.entities[x].id]
        <4>1. d.entities[x] = c.entities[x]
          BY <2>1, <2>4, <3>1 DEF Retracked
        <4>2. OwnedBy(own, c.entities[x].id, x) /\ c.entities[x].id \in DOMAIN c.picture
          BY <3>1 DEF Sane
        <4>3. c.entities[x].id # c.entities[w].id
          BY <2>7, <4>2 DEF OwnedBy
        <4> QED
          BY <2>1, <2>4, <4>1, <4>2, <4>3 DEF Retracked, Shifts
      <3> QED
        BY <2>5, <3>1 DEF Same
    <2>9. Moves(c, d, w, to)
      BY <2>1, <2>2, <2>3, <2>4, <2>5, <2>7 DEF Moves, Retracked, Shifts
    <2> QED
      BY <1>1, <1>2, <1>4, <2>4, <2>6, <2>8, <2>9 DEF Step, Carries, Retracked
  <1> QED
    BY <1>3, <1>4, <1>2, Fields

LEMMA MoveFollows ==
  ASSUME NEW u, NEW own, NEW w \in Player \ {u}, NEW c, IsConnection(c, u), Sane(c, own),
         w \in DOMAIN c.entities, NEW to \in Nat,
         NEW d, d = MoveEntity(c, w, to) \/ d = TeleportEntity(c, w, to)
  PROVE  Step(c, d, u, own, w) /\ Moves(c, d, w, to)
  <1>1. c.entities[w] \in Tracked /\ c.picture \in Maps(Nat, Seen)
    BY Fields
  <1>2. PICK id : id = c.entities[w].id
    OBVIOUS
  <1>3. PICK seen : seen = c.picture
    OBVIOUS
  <1>4. CASE d = TeleportEntity(c, w, to)
    <2>1. PICK o : o = [op |-> "teleport", id |-> id, to |-> to]
      OBVIOUS
    <2>2. Shifts(seen, Apply(seen, o), id)
      BY <1>1, <1>3, <2>1, ApplyTeleport
    <2>3. d = LET q == Queue(c, o) IN
                IF w \in DOMAIN q.entities THEN [q EXCEPT !.entities[w].at = to] ELSE q
      BY <1>2, <1>4, <2>1 DEF TeleportEntity
    <2>4. PICK q : q = Queue(c, o)
      OBVIOUS
    <2>5. d = IF w \in DOMAIN q.entities THEN [q EXCEPT !.entities[w].at = to] ELSE q
      BY <2>3, <2>4
    <2> QED
      BY <1>2, <1>3, <2>2, <2>4, <2>5, ShiftMoves
  <1>5. CASE d = MoveEntity(c, w, to)
    <2>1. PICK o : o = Movement(c.entities[w], to)
      OBVIOUS
    <2>2. Shifts(seen, Apply(seen, o), id)
      <3>1. c.entities[w].at \in Nat
        BY <1>1 DEF Tracked
      <3>2. PICK by \in Int : by = to - c.entities[w].at
        BY <3>1
      <3>3. \/ o = [op |-> "move", id |-> id, by |-> by]
            \/ o = [op |-> "teleport", id |-> id, to |-> to]
        BY <1>2, <2>1, <3>2 DEF Movement
      <3> QED
        BY <1>1, <1>3, <3>3, ApplyMove, ApplyTeleport
    <2>3. PICK q : q = IF to = c.entities[w].at THEN c ELSE Queue(c, o)
      OBVIOUS
    <2>4. d = IF w \in DOMAIN q.entities THEN [q EXCEPT !.entities[w].at = to] ELSE q
      BY <1>5, <2>1, <2>3 DEF MoveEntity
    <2> QED
      BY <1>2, <1>3, <2>2, <2>3, <2>4, ShiftMoves
  <1> QED
    BY <1>4, <1>5

\* A client that is told what a player holds shows it.
LEMMA EquipShows ==
  ASSUME NEW u, NEW own, NEW w \in Player \ {u}, NEW c, IsConnection(c, u), Sane(c, own),
         Known(own, w), w \in DOMAIN c.entities,
         NEW d, d = Queue(c, [op |-> "equip", id |-> entity[w], held |-> held[w]])
  PROVE  /\ Step(c, d, u, own, w) /\ Holds(d, w)
         /\ c.active /\ d.healthy => d.entities = c.entities
  <1>1. PICK o : o = [op |-> "equip", id |-> entity[w], held |-> held[w]]
    OBVIOUS
  <1>2. PICK p : p = Apply(c.picture, o)
    OBVIOUS
  <1>3. PICK seen : seen = c.picture
    OBVIOUS
  <1>4. seen \in Maps(Nat, Seen) /\ held[w] \in Slot
    BY <1>3, Fields DEF Known
  <1>5. Equips(seen, p, entity[w], held[w])
    BY <1>1, <1>2, <1>3, <1>4, ApplyEquip
  <1>6. IsConnection(d, u) /\ Queued(c, d, o)
    BY <1>1, <1>2, <1>5, QueueFacts DEF Equips
  <1>7. c.active /\ c.healthy
    BY Fields DEF Sane
  <1>8. CASE ~d.healthy
    <2>1. d.entities = Empty /\ d.picture = Empty /\ d.session = c.session /\ d.active
      BY <1>6, <1>7, <1>8 DEF Queued
    <2>2. DOMAIN d.entities = {} /\ DOMAIN d.picture = {}
      BY <2>1, MapFacts
    <2> QED
      BY <1>6, <1>7, <1>8, <2>1, <2>2 DEF Step, Carries, Same, Sane, Holds
  <1>9. CASE d.healthy
    <2>1. d.entities = c.entities /\ d.picture = p /\ d.session = c.session /\ d.active
      BY <1>2, <1>6, <1>7, <1>9 DEF Queued
    <2>2. DOMAIN p = DOMAIN seen
      BY <1>5 DEF Equips
    <2>3. Sane(d, own)
      BY <1>3, <1>7, <1>9, <2>1, <2>2 DEF Sane
    <2>4. ASSUME NEW x \in Player \ {w} PROVE Same(c, d, x)
      <3>1. ASSUME x \in DOMAIN c.entities
            PROVE  p[c.entities[x].id] = seen[c.entities[x].id]
        <4>1. OwnedBy(own, c.entities[x].id, x) /\ c.entities[x].id \in DOMAIN seen
          BY <1>3, <3>1 DEF Sane
        <4>2. c.entities[x].id # entity[w]
          BY <4>1 DEF OwnedBy, Known
        <4> QED
          BY <1>5, <4>1, <4>2 DEF Equips
      <3> QED
        BY <1>3, <2>1, <3>1 DEF Same
    <2>5. Holds(d, w)
      <3>1. ASSUME c.entities[w].id = entity[w] PROVE p[entity[w]].held = held[w]
        BY <1>3, <1>5, <3>1 DEF Equips, Sane
      <3> QED
        BY <2>1, <3>1 DEF Holds
    <2> QED
      BY <1>6, <1>7, <1>9, <2>1, <2>3, <2>4, <2>5 DEF Step, Carries
  <1> QED
    BY <1>6, <1>8, <1>9, Fields

---------------------------------------------------------------------------
\* What a connection makes of the events.
LEMMA SpawnIfOnlineShows ==
  ASSUME NEW u, NEW own, NEW w \in Player \ {u}, NEW c, IsConnection(c, u), Sane(c, own),
         Online(w) => Known(own, w), NEW d, d = SpawnIfOnline(c, w)
  PROVE  /\ Step(c, d, u, own, w) /\ (Holds(c, w) => Holds(d, w))
         /\ Online(w) /\ c.active /\ d.healthy => Fresh(d, w)
         /\ ~Online(w) => d = c
  <1>1. CASE Online(w)
    <2>1. d = SpawnPlayer(c, w)
      BY <1>1 DEF SpawnIfOnline
    <2> QED
      BY <1>1, <2>1, SpawnShows
  <1>2. CASE ~Online(w)
    <2>1. d = c
      BY <1>2 DEF SpawnIfOnline
    <2> QED
      BY <1>2, <2>1 DEF Step, Carries, Same
  <1> QED
    BY <1>1, <1>2

Follows(c, d, w, e) == c.active /\ d.healthy =>
  /\ Online(w) => w \in DOMAIN d.entities
  /\ w \in DOMAIN d.entities =>
       \/ Online(w) /\ Fresh(d, w)
       \/ /\ w \in DOMAIN c.entities /\ c.entities[w].id = e.id
          /\ d.entities[w].id = e.id /\ d.entities[w].at = e.to

LEMMA FollowFacts ==
  ASSUME NEW u, NEW own, NEW e, e.uuid \in Player \ {u}, e.to \in Nat,
         NEW c, IsConnection(c, u), Sane(c, own), Online(e.uuid) => Known(own, e.uuid),
         NEW d, \/ d = Follow(c, e, MoveEntity(c, e.uuid, e.to))
                \/ d = Follow(c, e, TeleportEntity(c, e.uuid, e.to))
  PROVE  /\ Step(c, d, u, own, e.uuid) /\ Follows(c, d, e.uuid, e)
         /\ Holds(c, e.uuid) => Holds(d, e.uuid)
  <1> DEFINE w == e.uuid
  <1>1. CASE w \notin DOMAIN c.entities
    <2>1. d = SpawnIfOnline(c, w)
      BY <1>1 DEF Follow
    <2>2. /\ Step(c, d, u, own, w) /\ (Holds(c, w) => Holds(d, w))
          /\ Online(w) /\ c.active /\ d.healthy => Fresh(d, w)
          /\ ~Online(w) => d = c
      BY <2>1, SpawnIfOnlineShows
    <2> QED
      BY <1>1, <2>2 DEF Follows, Fresh
  <1>2. CASE w \in DOMAIN c.entities /\ c.entities[w].id = e.id
    <2>1. d = MoveEntity(c, w, e.to) \/ d = TeleportEntity(c, w, e.to)
      BY <1>2 DEF Follow
    <2>2. Step(c, d, u, own, w) /\ Moves(c, d, w, e.to)
      BY <1>2, <2>1, MoveFollows
    <2>3. Carries(c, d)
      BY <2>2 DEF Step
    <2> QED
      BY <1>2, <2>2, <2>3 DEF Follows, Moves, Holds, Carries
  <1>3. CASE w \in DOMAIN c.entities /\ c.entities[w].id # e.id
    <2>1. PICK r : r = RemoveEntity(c, w, 0)
      OBVIOUS
    <2>2. PICK q : q = Queue(r, Other)
      OBVIOUS
    <2>3. d = SpawnIfOnline(q, w)
      BY <1>3, <2>1, <2>2 DEF Follow
    <2>4. Step(c, r, u, own, w) /\ w \notin DOMAIN r.entities
      BY <2>1, RemoveForgets
    <2>5. Step(r, q, u, own, w) /\ Same(r, q, w)
      BY <2>2, <2>4, OtherKeeps DEF Step
    <2>6. /\ Step(q, d, u, own, w) /\ (Holds(q, w) => Holds(d, w))
          /\ Online(w) /\ q.active /\ d.healthy => Fresh(d, w)
          /\ ~Online(w) => d = q
      BY <2>3, <2>5, SpawnIfOnlineShows DEF Step
    <2>7. Step(c, q, u, own, w)
      BY <2>4, <2>5, StepsFollow
    <2>8. Step(c, d, u, own, w)
      BY <2>6, <2>7, StepsFollow
    <2>9. Carries(c, r) /\ Carries(r, q) /\ Carries(q, d)
      BY <2>4, <2>5, <2>6 DEF Step
    <2>10. q.active /\ q.healthy => w \notin DOMAIN q.entities
      BY <2>4, <2>5, <2>9 DEF Same, Carries
    <2>11. Holds(q, w)
      BY <2>10 DEF Holds
    <2>12. Follows(c, d, w, e)
      BY <2>6, <2>9, <2>10 DEF Follows, Fresh, Carries
    <2> QED
      BY <2>6, <2>8, <2>11, <2>12
  <1> QED
    BY <1>1, <1>2, <1>3

Lives == {"Connected", "Disconnected"}
Fates == Lives \cup {"Killed", "Respawned"}
Places == Fates \cup {"Moved", "Teleported"}
Hands == {"HotbarChanged"}

Event ==
  [kind : Fates, uuid : Player, id : Nat]
    \cup [kind : Places \ Fates, uuid : Player, id : Nat, to : Position]
    \cup [kind : Hands, uuid : Player, current : Slot]

LEMMA EventFields ==
  ASSUME NEW e \in Event
  PROVE  /\ e.uuid \in Player /\ e.kind \in Places \cup Hands
         /\ e.kind \in {"Moved", "Teleported"} => e.to \in Nat
  BY ReplicationAssumption DEF Event, Places, Fates, Lives, Hands

\* What the dispatch of event e does to the connection of another player.
Effect(c, d, e) == LET w == e.uuid IN c.active /\ d.healthy =>
  /\ e.kind = "Connected" => Online(w) /\ Fresh(d, w)
  /\ e.kind \in {"Disconnected", "Killed"} => w \notin DOMAIN d.entities
  /\ e.kind = "Respawned" /\ Online(w) => Fresh(d, w)
  /\ e.kind = "Respawned" /\ ~Online(w) => d = c
  /\ e.kind \in {"Moved", "Teleported"} => Follows(c, d, w, e)
  /\ e.kind = "HotbarChanged" => d.entities = c.entities /\ Holds(d, w)

\* The players that are online own their entities; so do the ones that left or died.
Owners(own) == \A w \in Player : Online(w) => Known(own, w)
OwnsItsId(own, e) ==
  e.kind \in {"Disconnected", "Killed"} => e.id = 0 \/ OwnedBy(own, e.id, e.uuid)

\* What the loop of the dispatch of event e makes of one connection.
Handled(c, e) == LET w == e.uuid IN
  CASE e.kind = "Connected" -> Queue(SpawnPlayer(c, w), Other)
    [] e.kind = "Disconnected" -> Queue(Queue(RemoveEntity(c, w, e.id), Other), Other)
    [] e.kind = "Moved" -> Follow(c, e, MoveEntity(c, w, e.to))
    [] e.kind = "Teleported" -> Follow(c, e, TeleportEntity(c, w, e.to))
    [] e.kind = "Killed" -> RemoveEntity(c, w, e.id)
    [] e.kind = "Respawned" -> SpawnIfOnline(c, w)
    [] e.kind = "HotbarChanged" ->
         IF Online(w) /\ w \in DOMAIN c.entities
         THEN Queue(c, [op |-> "equip", id |-> entity[w], held |-> held[w]]) ELSE c

LEMMA HandledFacts ==
  ASSUME NEW u, NEW own, NEW e \in Event, e.uuid # u, OwnsItsId(own, e),
         NEW c, IsConnection(c, u), Sane(c, own), Owners(own),
         e.kind = "Connected" => Online(e.uuid),
         NEW d, d = Handled(c, e)
  PROVE  /\ Step(c, d, u, own, e.uuid) /\ Effect(c, d, e)
         /\ Holds(c, e.uuid) => Holds(d, e.uuid)
  <1> DEFINE w == e.uuid
  <1>1. w \in Player \ {u} /\ (Online(w) => Known(own, w))
    BY EventFields DEF Owners
  <1>2. CASE e.kind = "Connected"
    <2>1. PICK r : r = SpawnPlayer(c, w)
      OBVIOUS
    <2>2. /\ Step(c, r, u, own, w) /\ (c.active /\ r.healthy => Fresh(r, w))
          /\ Holds(c, w) => Holds(r, w)
      BY <1>1, <1>2, <2>1, SpawnShows
    <2>3. d = Queue(r, Other)
      BY <1>2, <2>1 DEF Handled
    <2>4. Step(r, d, u, own, w) /\ Same(r, d, w)
      BY <2>2, <2>3, OtherKeeps DEF Step
    <2>5. Step(c, d, u, own, w)
      BY <2>2, <2>4, StepsFollow
    <2>6. Carries(c, r) /\ Carries(r, d)
      BY <2>2, <2>4 DEF Step
    <2>7. Effect(c, d, e)
      BY <1>2, <2>2, <2>4, <2>6 DEF Effect, Fresh, Same, Carries
    <2>8. Holds(r, w) => Holds(d, w)
      BY <2>4, <2>6 DEF Holds, Same, Carries
    <2> QED
      BY <2>2, <2>5, <2>7, <2>8
  <1>3. CASE e.kind = "Disconnected"
    <2>1. PICK r : r = RemoveEntity(c, w, e.id)
      OBVIOUS
    <2>2. PICK q : q = Queue(r, Other)
      OBVIOUS
    <2>3. d = Queue(q, Other)
      BY <1>3, <2>1, <2>2 DEF Handled
    <2>4. Step(c, r, u, own, w) /\ w \notin DOMAIN r.entities
      BY <1>1, <1>3, <2>1, RemoveForgets DEF OwnsItsId
    <2>5. Step(r, q, u, own, w) /\ Same(r, q, w)
      BY <2>2, <2>4, OtherKeeps DEF Step
    <2>6. Step(q, d, u, own, w) /\ Same(q, d, w)
      BY <2>3, <2>5, OtherKeeps DEF Step
    <2>7. Step(c, q, u, own, w)
      BY <2>4, <2>5, StepsFollow
    <2>8. Step(c, d, u, own, w)
      BY <2>6, <2>7, StepsFollow
    <2>9. Carries(c, r) /\ Carries(r, q) /\ Carries(q, d)
      BY <2>4, <2>5, <2>6 DEF Step
    <2>10. c.active /\ d.healthy => w \notin DOMAIN d.entities
      BY <2>4, <2>5, <2>6, <2>9 DEF Same, Carries
    <2> QED
      BY <1>3, <2>8, <2>9, <2>10 DEF Effect, Holds, Carries
  <1>4. CASE e.kind = "Killed"
    <2>1. d = RemoveEntity(c, w, e.id)
      BY <1>4 DEF Handled
    <2>2. Step(c, d, u, own, w) /\ w \notin DOMAIN d.entities
      BY <1>1, <1>4, <2>1, RemoveForgets DEF OwnsItsId
    <2> QED
      BY <1>4, <2>2 DEF Effect, Holds
  <1>5. CASE e.kind = "Respawned"
    <2>1. d = SpawnIfOnline(c, w)
      BY <1>5 DEF Handled
    <2> QED
      BY <1>1, <1>5, <2>1, SpawnIfOnlineShows DEF Effect
  <1>6. CASE e.kind \in {"Moved", "Teleported"}
    <2>1. \/ d = Follow(c, e, MoveEntity(c, e.uuid, e.to))
          \/ d = Follow(c, e, TeleportEntity(c, e.uuid, e.to))
      BY <1>6 DEF Handled
    <2>2. e.to \in Nat
      BY <1>6, EventFields
    <2> QED
      BY <1>1, <1>6, <2>1, <2>2, FollowFacts DEF Effect
  <1>7. CASE e.kind = "HotbarChanged"
    <2>1. CASE Online(w) /\ w \in DOMAIN c.entities
      <3>1. d = Queue(c, [op |-> "equip", id |-> entity[w], held |-> held[w]])
        BY <1>7, <2>1 DEF Handled
      <3> QED
        BY <1>1, <1>7, <2>1, <3>1, EquipShows DEF Effect
    <2>2. CASE ~(Online(w) /\ w \in DOMAIN c.entities)
      <3>1. d = c
        BY <1>7, <2>2 DEF Handled
      <3>2. Step(c, d, u, own, w)
        BY <3>1 DEF Step, Carries, Same
      <3>3. Holds(d, w)
        <4>1. CASE w \notin DOMAIN c.entities
          BY <3>1, <4>1 DEF Holds
        <4>2. CASE w \in DOMAIN c.entities
          <5>1. c.entities[w].id # 0 /\ entity[w] = 0
            BY <2>2, <4>2, Fields DEF Tracked, Online
          <5> QED
            BY <3>1, <5>1 DEF Holds
        <4> QED
          BY <4>1, <4>2
      <3> QED
        BY <1>7, <3>1, <3>2, <3>3 DEF Effect
    <2> QED
      BY <2>1, <2>2
  <1> QED
    BY <1>2, <1>3, <1>4, <1>5, <1>6, <1>7, EventFields DEF Places, Fates, Lives, Hands

---------------------------------------------------------------------------
\* A set of numbers that is not empty has a smallest one.
LEMMA SmallestExists ==
  ASSUME NEW T \in SUBSET Nat, T # {}
  PROVE  \E n \in T : \A m \in T : ~(m < n)
  <1>1. PICK n \in T : \A m \in T : ~(<<m, n>> \in OpToRel(<, Nat))
    BY NatLessThanWellFounded, WFMin
  <1>2. ASSUME NEW m \in T, m < n PROVE FALSE
    <2>1. m \in Nat /\ n \in Nat /\ <<m, n>> \notin OpToRel(<, Nat)
      BY <1>1
    <2> QED
      BY <1>2, <2>1, Zenon DEF OpToRel
  <1> QED
    BY <1>2

\* The recursion of the fold that spawns a set of players one after another.
Pick(s) == CHOOSE w \in s : TRUE
Unfolded(f, base, s) == IF s = {} THEN base ELSE SpawnPlayer(f[s \ {Pick(s)}], Pick(s))

LEMMA PickFacts ==
  ASSUME NEW S, IsFiniteSet(S), NEW s \in SUBSET S, s # {}
  PROVE  /\ Pick(s) \in s /\ s \ {Pick(s)} \in SUBSET S
         /\ IsFiniteSet(s) /\ IsFiniteSet(s \ {Pick(s)})
         /\ Cardinality(s) \in Nat /\ Cardinality(s \ {Pick(s)}) = Cardinality(s) - 1
  <1>1. Pick(s) \in s
    BY DEF Pick
  <1>2. IsFiniteSet(s)
    BY FS_Subset
  <1>3. IsFiniteSet(s \ {Pick(s)}) /\ Cardinality(s \ {Pick(s)}) = Cardinality(s) - 1
    BY <1>1, <1>2, FS_RemoveElement
  <1> QED
    BY <1>1, <1>2, <1>3, FS_CardinalityType

LEMMA UnfoldingExists ==
  ASSUME NEW base, NEW S, IsFiniteSet(S)
  PROVE  \E f : f = [s \in SUBSET S |-> Unfolded(f, base, s)]
  <1> DEFINE Upto(f, n) == \A s \in SUBSET S :
               Cardinality(s) <= n => f[s] = Unfolded(f, base, s)
             T == {n \in Nat : ~\E f : Upto(f, n)}
  <1>1. \A s \in SUBSET S : IsFiniteSet(s) /\ Cardinality(s) \in Nat
                            /\ Cardinality(s) <= Cardinality(S)
    BY FS_Subset, FS_CardinalityType
  <1>2. 0 \notin T
    <2> DEFINE f == [s \in SUBSET S |-> base]
    <2>1. ASSUME NEW s \in SUBSET S, Cardinality(s) <= 0 PROVE f[s] = Unfolded(f, base, s)
      <3>1. s = {}
        BY <1>1, <2>1, FS_EmptySet
      <3> QED
        BY <3>1 DEF Unfolded
    <2>2. Upto(f, 0)
      BY <2>1
    <2> QED
      BY <2>2
  <1>3. ASSUME NEW n \in Nat, n \notin T PROVE n + 1 \notin T
    <2>1. PICK g : Upto(g, n)
      BY <1>3
    <2> DEFINE f == [s \in SUBSET S |-> Unfolded(g, base, s)]
    <2>2. ASSUME NEW s \in SUBSET S, Cardinality(s) <= n + 1
          PROVE  f[s] = Unfolded(f, base, s)
      <3>1. CASE s = {}
        BY <3>1 DEF Unfolded
      <3>2. CASE s # {}
        <4> DEFINE t == s \ {Pick(s)}
        <4>1. t \in SUBSET S /\ Cardinality(t) = Cardinality(s) - 1 /\ Cardinality(s) \in Nat
          BY <3>2, PickFacts
        <4>2. Cardinality(t) <= n
          BY <2>2, <4>1
        <4>3. g[t] = Unfolded(g, base, t)
          BY <2>1, <4>1, <4>2
        <4>4. f[t] = g[t]
          BY <4>1, <4>3
        <4>5. f[s] = Unfolded(g, base, s)
          OBVIOUS
        <4>6. Unfolded(g, base, s) = SpawnPlayer(g[t], Pick(s))
          BY <3>2 DEF Unfolded
        <4>7. Unfolded(f, base, s) = SpawnPlayer(f[t], Pick(s))
          <5> HIDE DEF f
          <5> QED
            BY <3>2 DEF Unfolded
        <4> QED
          BY <4>4, <4>5, <4>6, <4>7
      <3> QED
        BY <3>1, <3>2
    <2> HIDE DEF f
    <2>3. Upto(f, n + 1)
      BY <2>2
    <2> QED
      BY <2>3
  <1>4. T = {}
    <2> HIDE DEF T
    <2>1. SUFFICES ASSUME T # {} PROVE FALSE
      OBVIOUS
    <2>2. T \in SUBSET Nat
      BY DEF T
    <2>3. PICK n \in T : \A m \in T : ~(m < n)
      BY <2>1, <2>2, SmallestExists
    <2>4. n \in Nat /\ n # 0
      BY <1>2, <2>2
    <2>5. n - 1 \in Nat /\ n - 1 < n
      BY <2>4
    <2>6. n - 1 \notin T
      BY <2>3, <2>5
    <2>7. (n - 1) + 1 \notin T
      BY <1>3, <2>5, <2>6
    <2> QED
      BY <2>3, <2>4, <2>7
  <1>5. Cardinality(S) \in Nat
    BY FS_CardinalityType
  <1>6. PICK g : Upto(g, Cardinality(S))
    BY <1>4, <1>5
  <1> DEFINE f == [s \in SUBSET S |-> g[s]]
  <1>7. ASSUME NEW s \in SUBSET S PROVE g[s] = Unfolded(f, base, s)
    <2>1. g[s] = Unfolded(g, base, s)
      BY <1>1, <1>6
    <2>2. CASE s = {}
      BY <2>1, <2>2 DEF Unfolded
    <2>3. CASE s # {}
      <3>1. f[s \ {Pick(s)}] = g[s \ {Pick(s)}]
        BY <2>3, PickFacts
      <3> HIDE DEF f
      <3> QED
        BY <2>1, <2>3, <3>1 DEF Unfolded
    <2> QED
      BY <2>2, <2>3
  <1>8. f = [s \in SUBSET S |-> Unfolded(f, base, s)]
    <2>1. \A s \in SUBSET S : g[s] = Unfolded(f, base, s)
      BY <1>7
    <2> QED
      BY <2>1
  <1> QED
    BY <1>8

LEMMA FoldUnfolds ==
  ASSUME NEW base, NEW S, IsFiniteSet(S)
  PROVE  \E f : /\ f = [s \in SUBSET S |-> Unfolded(f, base, s)]
                /\ FoldSet(LAMBDA w, c : SpawnPlayer(c, w), base, S) = f[S]
  <1> DEFINE f == CHOOSE h : h = [s \in SUBSET S |->
                    IF s = {} THEN base
                    ELSE SpawnPlayer(h[s \ {CHOOSE x \in s : TRUE}], CHOOSE x \in s : TRUE)]
  <1>1. \E h : h = [s \in SUBSET S |->
                    IF s = {} THEN base
                    ELSE SpawnPlayer(h[s \ {CHOOSE x \in s : TRUE}], CHOOSE x \in s : TRUE)]
    <2>1. PICK h : h = [s \in SUBSET S |-> Unfolded(h, base, s)]
      BY UnfoldingExists
    <2>2. h = [s \in SUBSET S |->
                 IF s = {} THEN base
                 ELSE SpawnPlayer(h[s \ {CHOOSE x \in s : TRUE}], CHOOSE x \in s : TRUE)]
      BY <2>1 DEF Unfolded, Pick
    <2> QED
      BY <2>2
  <1>2. f = [s \in SUBSET S |->
                    IF s = {} THEN base
                    ELSE SpawnPlayer(f[s \ {CHOOSE x \in s : TRUE}], CHOOSE x \in s : TRUE)]
    BY <1>1
  <1>3. FoldSet(LAMBDA w, c : SpawnPlayer(c, w), base, S) = f[S]
    BY DEF FoldSet, MapThenFoldSet
  <1> HIDE DEF f
  <1>4. f = [s \in SUBSET S |-> Unfolded(f, base, s)]
    BY <1>2 DEF Unfolded, Pick
  <1> QED
    BY <1>3, <1>4

\* Player w of those in s is tracked and shown as the game has it.
Spawned(d, s) == \A w \in s : Fresh(d, w) /\ Holds(d, w)

\* The connection that is activated tracks and shows all that are online.
LEMMA ActivatedFacts ==
  ASSUME NEW own, Owners(own), NEW u \in Player, NEW c, c = connections[u],
         IsConnection(c, u), Sane(c, own), ~c.active, c.healthy,
         NEW d, d = Activated(u)
  PROVE  /\ IsConnection(d, u) /\ Sane(d, own) /\ d.session = c.session /\ d.active
         /\ d.healthy => /\ DOMAIN d.entities \subseteq {w \in Player \ {u} : Online(w)}
                         /\ Spawned(d, {w \in Player \ {u} : Online(w)})
  <1> DEFINE S    == {w \in Player \ {u} : Online(w)}
             a    == [c EXCEPT !.active = TRUE]
             base == Queue(a, Other)
  <1>1. /\ IsConnection(a, u) /\ a.session = c.session /\ a.active /\ a.healthy
        /\ a.entities = c.entities /\ a.picture = c.picture
    BY DEF IsConnection
  <1>2. DOMAIN c.entities = {} /\ DOMAIN c.picture = {}
    BY DEF Sane
  <1>3. Sane(a, own)
    BY <1>1, <1>2 DEF Sane
  <1> HIDE DEF a
  <1>4. Step(a, base, u, own, u) /\ Same(a, base, u)
    BY <1>1, <1>3, OtherKeeps
  <1>5. /\ IsConnection(base, u) /\ Sane(base, own) /\ base.session = c.session
        /\ base.active
    BY <1>1, <1>4 DEF Step, Carries
  <1>6. DOMAIN base.entities = {}
    <2>1. CASE base.healthy
      <3>1. \A x \in Player : Same(a, base, x)
        BY <1>4 DEF Step
      <3>2. \A x \in Player : x \notin DOMAIN base.entities
        BY <1>1, <1>2, <2>1, <3>1 DEF Same
      <3>3. DOMAIN base.entities \subseteq Player
        BY <1>5, Fields
      <3> QED
        BY <3>2, <3>3
    <2>2. CASE ~base.healthy
      BY <1>5, <2>2 DEF Sane
    <2> QED
      BY <2>1, <2>2
  <1>7. IsFiniteSet(S)
    BY ReplicationAssumption, FS_Subset
  <1>8. PICK f : f = [s \in SUBSET S |-> Unfolded(f, base, s)] /\ d = f[S]
    <2>1. PICK b : b = base
      OBVIOUS
    <2>2. d = FoldSet(LAMBDA w, x : SpawnPlayer(x, w), b, S)
      BY <2>1 DEF Activated, a
    <2> HIDE DEF S, base
    <2>3. PICK f : /\ f = [s \in SUBSET S |-> Unfolded(f, b, s)]
                   /\ FoldSet(LAMBDA w, x : SpawnPlayer(x, w), b, S) = f[S]
      BY <1>7, FoldUnfolds
    <2>4. d = f[S]
      BY <2>2, <2>3
    <2> QED
      BY <2>1, <2>3, <2>4
  <1> DEFINE Good(s) == LET e == f[s] IN
               /\ IsConnection(e, u) /\ Sane(e, own) /\ e.session = c.session /\ e.active
               /\ DOMAIN e.entities \subseteq s
               /\ e.healthy => Spawned(e, s)
             T == {n \in Nat : \E s \in SUBSET S : Cardinality(s) = n /\ ~Good(s)}
  <1> HIDE DEF base
  <1>9. ASSUME NEW s \in SUBSET S, s # {}, Good(s \ {Pick(s)}) PROVE Good(s)
    <2> DEFINE w == Pick(s)
               t == s \ {Pick(s)}
    <2>1. w \in s /\ t \in SUBSET S /\ s = t \cup {w} /\ w \notin t
      <3> HIDE DEF S
      <3>1. Pick(s) \in s /\ s \ {Pick(s)} \in SUBSET S
        BY <1>7, <1>9, PickFacts
      <3> QED
        BY <3>1
    <2>2. PICK e : e = f[t]
      OBVIOUS
    <2>3. PICK g : g = f[s]
      OBVIOUS
    <2>4. g = SpawnPlayer(e, w)
      <3>1. g = Unfolded(f, base, s)
        BY <1>8, <2>3
      <3> QED
        BY <1>9, <2>2, <3>1 DEF Unfolded
    <2>5. w \in Player \ {u} /\ Known(own, w)
      BY <2>1 DEF Owners
    <2>6. /\ IsConnection(e, u) /\ Sane(e, own) /\ e.session = c.session /\ e.active
          /\ DOMAIN e.entities \subseteq t /\ (e.healthy => Spawned(e, t))
      BY <1>9, <2>2
    <2> HIDE DEF w, t, S
    <2>7. /\ Step(e, g, u, own, w) /\ (e.active /\ g.healthy => Fresh(g, w))
          /\ Holds(e, w) => Holds(g, w)
          /\ DOMAIN g.entities \subseteq DOMAIN e.entities \cup {w}
      BY <2>4, <2>5, <2>6, SpawnShows
    <2>8. Carries(e, g) /\ IsConnection(g, u) /\ Sane(g, own)
      BY <2>7 DEF Step
    <2>9. DOMAIN g.entities \subseteq s
      BY <2>1, <2>6, <2>7
    <2>10. ASSUME g.healthy, NEW x \in s PROVE Fresh(g, x) /\ Holds(g, x)
      <3>1. e.active /\ e.healthy
        BY <2>6, <2>8, <2>10 DEF Carries
      <3>2. CASE x = w
        <4>1. Holds(e, w)
          BY <2>1, <2>6 DEF Holds
        <4> QED
          BY <2>7, <2>10, <3>1, <3>2, <4>1
      <3>3. CASE x # w
        <4>1. x \in t /\ x \in Player \ {w}
          BY <2>1, <3>3, <2>10 DEF S
        <4>2. Fresh(e, x) /\ Holds(e, x) /\ Same(e, g, x)
          BY <2>6, <2>7, <3>1, <4>1 DEF Spawned, Step
        <4> QED
          BY <2>10, <3>1, <4>2 DEF Fresh, Holds, Same
      <3> QED
        BY <3>2, <3>3
    <2>11. g.healthy => Spawned(g, s)
      BY <2>10 DEF Spawned
    <2> QED
      BY <2>3, <2>6, <2>8, <2>9, <2>11 DEF Carries
  <1>10. Good({})
    <2>1. f[{}] = base
      BY <1>8 DEF Unfolded
    <2> QED
      BY <1>5, <1>6, <2>1 DEF Spawned
  <1>11. T = {}
    <2>1. SUFFICES ASSUME T # {} PROVE FALSE
      OBVIOUS
    <2>2. PICK n \in T : \A m \in T : ~(m < n)
      BY <2>1, SmallestExists
    <2>3. PICK s \in SUBSET S : Cardinality(s) = n /\ ~Good(s)
      BY <2>2
    <2> HIDE DEF Good, S
    <2>4. s # {}
      BY <1>10, <2>3
    <2>5. /\ s \ {Pick(s)} \in SUBSET S /\ n \in Nat /\ Cardinality(s \ {Pick(s)}) = n - 1
          /\ IsFiniteSet(s \ {Pick(s)})
      BY <1>7, <2>3, <2>4, PickFacts
    <2>6. ~Good(s \ {Pick(s)})
      BY <1>9, <2>3, <2>4
    <2>7. n - 1 \in Nat /\ n - 1 < n
      BY <2>5, FS_CardinalityType
    <2>8. n - 1 \in T
      BY <2>5, <2>6, <2>7
    <2> QED
      BY <2>2, <2>7, <2>8
  <1>12. Good(S)
    <2>1. Cardinality(S) \in Nat
      BY <1>7, FS_CardinalityType
    <2> HIDE DEF Good, S
    <2>2. S \in SUBSET S
      OBVIOUS
    <2> QED
      BY <1>11, <2>1, <2>2
  <1> QED
    BY <1>8, <1>12

---------------------------------------------------------------------------
(***************************************************************************)
(* Events wait in two queues: those of the operations that have not        *)
(* published yet, and behind them those of the subscription.               *)
(***************************************************************************)
IsOf(e, w, K) == e.uuid = w /\ e.kind \in K
NoneIn(q, w, K) == \A i \in 1 .. Len(q) : ~IsOf(q[i], w, K)
LastOf(q, w, K, e) == \E i \in 1 .. Len(q) :
  /\ q[i] = e /\ IsOf(q[i], w, K)
  /\ \A j \in i + 1 .. Len(q) : ~IsOf(q[j], w, K)

\* The last event about w, of the kinds K, that has not been dispatched.
Final(q, m, w, K, e) == LastOf(m, w, K, e) \/ (NoneIn(m, w, K) /\ LastOf(q, w, K, e))

LEMMA FinalIsOf ==
  ASSUME NEW q, NEW m, NEW w, NEW K, NEW e, Final(q, m, w, K, e)
  PROVE  IsOf(e, w, K)
  BY DEF Final, LastOf

LEMMA AppendFinal ==
  ASSUME NEW m \in Seq(Event), NEW x \in Event, NEW q, NEW w, NEW K, NEW r, r = Append(m, x)
  PROVE  /\ NoneIn(r, w, K) => NoneIn(m, w, K) /\ ~IsOf(x, w, K)
         /\ \A e : Final(q, r, w, K, e) =>
              IF IsOf(x, w, K) THEN e = x ELSE Final(q, m, w, K, e)
  <1>1. /\ Len(r) = Len(m) + 1 /\ r[Len(m) + 1] = x /\ Len(m) \in Nat
        /\ \A i \in 1 .. Len(m) : r[i] = m[i]
    OBVIOUS
  <1>2. NoneIn(r, w, K) => NoneIn(m, w, K) /\ ~IsOf(x, w, K)
    <2>1. ASSUME NoneIn(r, w, K) PROVE NoneIn(m, w, K) /\ ~IsOf(x, w, K)
      <3>1. \A i \in 1 .. Len(m) : i \in 1 .. Len(r)
        BY <1>1
      <3>2. Len(m) + 1 \in 1 .. Len(r)
        BY <1>1
      <3> QED
        BY <1>1, <2>1, <3>1, <3>2 DEF NoneIn
    <2> QED
      BY <2>1
  <1>3. ASSUME NEW e, LastOf(r, w, K, e)
        PROVE  IF IsOf(x, w, K) THEN e = x ELSE LastOf(m, w, K, e)
    <2>1. PICK i \in 1 .. Len(r) : /\ r[i] = e /\ IsOf(r[i], w, K)
                                   /\ \A j \in i + 1 .. Len(r) : ~IsOf(r[j], w, K)
      BY <1>3 DEF LastOf
    <2>2. CASE i = Len(m) + 1
      BY <1>1, <2>1, <2>2
    <2>3. CASE i \in 1 .. Len(m)
      <3>1. Len(m) + 1 \in i + 1 .. Len(r)
        BY <1>1, <2>3
      <3>2. ~IsOf(x, w, K)
        BY <1>1, <2>1, <3>1
      <3>3. \A j \in i + 1 .. Len(m) : j \in i + 1 .. Len(r) /\ r[j] = m[j]
        BY <1>1, <2>3
      <3>4. m[i] = e /\ IsOf(m[i], w, K) /\ \A j \in i + 1 .. Len(m) : ~IsOf(m[j], w, K)
        BY <1>1, <2>1, <2>3, <3>3
      <3> QED
        BY <2>3, <3>2, <3>4 DEF LastOf
    <2> QED
      BY <1>1, <2>1, <2>2, <2>3
  <1>4. ASSUME NEW e, Final(q, r, w, K, e)
        PROVE  IF IsOf(x, w, K) THEN e = x ELSE Final(q, m, w, K, e)
    <2>1. CASE LastOf(r, w, K, e)
      BY <1>3, <2>1 DEF Final
    <2>2. CASE NoneIn(r, w, K) /\ LastOf(q, w, K, e)
      BY <1>2, <2>2 DEF Final
    <2> QED
      BY <1>4, <2>1, <2>2 DEF Final
  <1> QED
    BY <1>2, <1>4

LEMMA TailFinal ==
  ASSUME NEW q \in Seq(Event), q # <<>>, NEW m, NEW w, NEW K, NEW r, r = Tail(q)
  PROVE  /\ NoneIn(r, w, K) /\ ~IsOf(Head(q), w, K) => NoneIn(q, w, K)
         /\ \A e : Final(r, m, w, K, e) => Final(q, m, w, K, e)
         /\ NoneIn(r, w, K) /\ NoneIn(m, w, K) /\ IsOf(Head(q), w, K)
              => Final(q, m, w, K, Head(q))
  <1>1. /\ Len(r) = Len(q) - 1 /\ Head(q) = q[1] /\ Len(q) \in Nat /\ Len(q) >= 1
        /\ \A i \in 1 .. Len(r) : r[i] = q[i + 1]
    OBVIOUS
  <1>2. ASSUME NEW i \in 2 .. Len(q) PROVE i - 1 \in 1 .. Len(r) /\ r[i - 1] = q[i]
    <2>1. i - 1 \in 1 .. Len(r) /\ (i - 1) + 1 = i
      BY <1>1
    <2> QED
      BY <1>1, <2>1
  <1>3. ASSUME NoneIn(r, w, K) PROVE \A i \in 2 .. Len(q) : ~IsOf(q[i], w, K)
    BY <1>2, <1>3 DEF NoneIn
  <1>4. NoneIn(r, w, K) /\ ~IsOf(Head(q), w, K) => NoneIn(q, w, K)
    <2>1. ASSUME NoneIn(r, w, K), ~IsOf(Head(q), w, K), NEW i \in 1 .. Len(q)
          PROVE  ~IsOf(q[i], w, K)
      <3>1. CASE i = 1
        BY <1>1, <2>1, <3>1
      <3>2. CASE i \in 2 .. Len(q)
        BY <1>3, <2>1, <3>2
      <3> QED
        BY <1>1, <3>1, <3>2
    <2> QED
      BY <2>1 DEF NoneIn
  <1>5. ASSUME NEW e, LastOf(r, w, K, e) PROVE LastOf(q, w, K, e)
    <2>1. PICK i \in 1 .. Len(r) : /\ r[i] = e /\ IsOf(r[i], w, K)
                                   /\ \A j \in i + 1 .. Len(r) : ~IsOf(r[j], w, K)
      BY <1>5 DEF LastOf
    <2>2. i + 1 \in 1 .. Len(q) /\ q[i + 1] = e /\ IsOf(q[i + 1], w, K)
      BY <1>1, <2>1
    <2>3. ASSUME NEW j \in (i + 1) + 1 .. Len(q) PROVE ~IsOf(q[j], w, K)
      <3>1. j \in 2 .. Len(q) /\ j - 1 \in i + 1 .. Len(r)
        BY <1>1, <2>1
      <3> QED
        BY <1>2, <2>1, <3>1
    <2> QED
      BY <2>2, <2>3 DEF LastOf
  <1>6. ASSUME NoneIn(r, w, K), NoneIn(m, w, K), IsOf(Head(q), w, K)
        PROVE  Final(q, m, w, K, Head(q))
    <2>1. 1 \in 1 .. Len(q) /\ 1 + 1 = 2 /\ q[1] = Head(q) /\ IsOf(q[1], w, K)
      BY <1>1, <1>6
    <2>2. \A j \in 1 + 1 .. Len(q) : ~IsOf(q[j], w, K)
      BY <1>3, <1>6, <2>1
    <2>3. LastOf(q, w, K, Head(q))
      BY <2>1, <2>2 DEF LastOf
    <2> QED
      BY <1>6, <2>3 DEF Final
  <1> QED
    BY <1>4, <1>5, <1>6 DEF Final

\* r is m without its i-th element.
Shortened(m, r, i) ==
  /\ Len(r) = Len(m) - 1
  /\ \A k \in 1 .. Len(r) : r[k] = IF k < i THEN m[k] ELSE m[k + 1]

LEMMA RemoveFacts ==
  ASSUME NEW R, NEW m \in Seq(R), NEW i \in 1 .. Len(m), NEW r, r = RemoveAt(m, i)
  PROVE  r \in Seq(R) /\ Shortened(m, r, i)
  <1> DEFINE a == SubSeq(m, 1, i - 1)
             b == SubSeq(m, i + 1, Len(m))
  <1>1. a \in Seq(R) /\ Len(a) = i - 1 /\ \A k \in 1 .. i - 1 : a[k] = m[k]
    OBVIOUS
  <1>2. b \in Seq(R) /\ Len(b) = Len(m) - i /\ \A k \in 1 .. Len(m) - i : b[k] = m[i + k]
    OBVIOUS
  <1>3. r = a \o b
    BY DEF RemoveAt
  <1> HIDE DEF a, b
  <1>4. r \in Seq(R) /\ Len(r) = Len(m) - 1
    <2>1. r \in Seq(R) /\ Len(r) = Len(a) + Len(b)
      <3>1. PICK x : x = a
        OBVIOUS
      <3>2. PICK y : y = b
        OBVIOUS
      <3>3. x \in Seq(R) /\ y \in Seq(R) /\ r = x \o y
        BY <1>1, <1>2, <1>3, <3>1, <3>2
      <3>4. x \o y \in Seq(R)
        BY <3>3
      <3>5. Len(x \o y) = Len(x) + Len(y)
        BY <3>3
      <3> QED
        BY <3>1, <3>2, <3>3, <3>4, <3>5
    <2>2. Len(m) \in Nat
      OBVIOUS
    <2> QED
      BY <1>1, <1>2, <2>1, <2>2
  <1>5. ASSUME NEW k \in 1 .. Len(r) PROVE r[k] = IF k < i THEN m[k] ELSE m[k + 1]
    <2>1. CASE k < i
      BY <1>1, <1>2, <1>3, <1>4, <2>1
    <2>2. CASE ~(k < i)
      <3>1. k - (i - 1) \in 1 .. Len(m) - i /\ i + (k - (i - 1)) = k + 1
        BY <1>4, <2>2
      <3>2. r[k] = b[k - (i - 1)]
        <4>1. PICK x \in Seq(R), y \in Seq(R) : x = a /\ y = b
          BY <1>1, <1>2
        <4>2. k \in 1 .. Len(x) + Len(y) /\ ~(k <= Len(x)) /\ Len(x) = i - 1
          BY <1>1, <1>2, <1>4, <2>2, <4>1
        <4>3. (x \o y)[k] = y[k - Len(x)]
          BY <4>2
        <4> QED
          BY <1>3, <4>1, <4>2, <4>3
      <3> QED
        BY <1>2, <2>2, <3>1, <3>2
    <2> QED
      BY <2>1, <2>2
  <1> QED
    BY <1>4, <1>5 DEF Shortened

\* Publishing an event keeps the order of those about one player, unless it
\* overtakes an older one of its player.
LEMMA PublishFinal ==
  ASSUME NEW q \in Seq(Event), NEW m \in Seq(Event), NEW i \in 1 .. Len(m),
         \A j \in 1 .. i - 1 : m[j].uuid # m[i].uuid,
         NEW r, r = RemoveAt(m, i), NEW p, p = Append(q, m[i]), NEW w, NEW K
  PROVE  /\ NoneIn(p, w, K) /\ NoneIn(r, w, K) => NoneIn(q, w, K) /\ NoneIn(m, w, K)
         /\ \A e : Final(p, r, w, K, e) => Final(q, m, w, K, e)
  <1>1. /\ r \in Seq(Event) /\ Len(r) = Len(m) - 1 /\ Len(m) \in Nat
        /\ \A k \in 1 .. Len(r) : r[k] = IF k < i THEN m[k] ELSE m[k + 1]
    <2>1. r \in Seq(Event) /\ Shortened(m, r, i)
      BY RemoveFacts
    <2>2. Len(m) \in Nat
      OBVIOUS
    <2> QED
      BY <2>1, <2>2 DEF Shortened
  <1>2. m[i] \in Event
    OBVIOUS
  <1>3. ASSUME NEW j \in 1 .. Len(m), j # i
        PROVE  \E k \in 1 .. Len(r) : r[k] = m[j] /\ k = IF j < i THEN j ELSE j - 1
    <2>1. CASE j < i
      <3>1. j \in 1 .. Len(r)
        BY <1>1, <2>1
      <3>2. r[j] = m[j]
        BY <1>1, <2>1, <3>1
      <3> QED
        BY <2>1, <3>1, <3>2
    <2>2. CASE j > i
      <3>1. j - 1 \in 1 .. Len(r) /\ ~(j - 1 < i) /\ (j - 1) + 1 = j /\ ~(j < i)
        BY <1>1, <2>2
      <3>2. r[j - 1] = m[j]
        BY <1>1, <3>1
      <3> QED
        BY <3>1, <3>2
    <2> QED
      BY <1>3, <2>1, <2>2
  <1>4. NoneIn(r, w, K) /\ ~IsOf(m[i], w, K) => NoneIn(m, w, K)
    BY <1>3 DEF NoneIn
  <1>5. NoneIn(p, w, K) => NoneIn(q, w, K) /\ ~IsOf(m[i], w, K)
    BY <1>2, AppendFinal
  <1>6. ASSUME NEW e, LastOf(r, w, K, e) PROVE LastOf(m, w, K, e)
    <2>1. PICK k \in 1 .. Len(r) : /\ r[k] = e /\ IsOf(r[k], w, K)
                                   /\ \A j \in k + 1 .. Len(r) : ~IsOf(r[j], w, K)
      BY <1>6 DEF LastOf
    <2>2. PICK n \in 1 .. Len(m) : m[n] = e /\ n # i /\ k = IF n < i THEN n ELSE n - 1
      <3>1. CASE k < i
        BY <1>1, <2>1, <3>1
      <3>2. CASE ~(k < i)
        <4>1. k + 1 \in 1 .. Len(m) /\ k + 1 # i /\ ~(k + 1 < i) /\ (k + 1) - 1 = k
          BY <1>1, <3>2
        <4>2. m[k + 1] = e
          BY <1>1, <2>1, <3>2
        <4> QED
          BY <4>1, <4>2
      <3> QED
        BY <3>1, <3>2
    <2>3. ASSUME NEW j \in n + 1 .. Len(m) PROVE ~IsOf(m[j], w, K)
      <3>1. CASE j = i
        <4>1. n \in 1 .. i - 1
          BY <2>2, <3>1
        <4>2. m[n].uuid = w
          BY <2>1, <2>2 DEF IsOf
        <4> QED
          BY <3>1, <4>1, <4>2 DEF IsOf
      <3>2. CASE j # i
        <4>1. j \in 1 .. Len(m)
          BY <2>2
        <4>2. PICK l \in 1 .. Len(r) : r[l] = m[j] /\ l = IF j < i THEN j ELSE j - 1
          BY <1>3, <3>2, <4>1
        <4>3. l \in k + 1 .. Len(r)
          BY <2>2, <3>2, <4>2
        <4> QED
          BY <2>1, <4>2, <4>3
      <3> QED
        BY <3>1, <3>2
    <2>4. IsOf(m[n], w, K)
      BY <2>1, <2>2
    <2> QED
      BY <2>2, <2>3, <2>4 DEF LastOf
  <1>7. ASSUME NEW e, NoneIn(r, w, K), LastOf(p, w, K, e) PROVE Final(q, m, w, K, e)
    <2>1. \A f : Final(<<>>, p, w, K, f) =>
            IF IsOf(m[i], w, K) THEN f = m[i] ELSE Final(<<>>, q, w, K, f)
      BY <1>2, AppendFinal
    <2>2. IF IsOf(m[i], w, K) THEN e = m[i] ELSE Final(<<>>, q, w, K, e)
      BY <1>7, <2>1 DEF Final
    <2>3. CASE IsOf(m[i], w, K)
      <3>1. ASSUME NEW j \in i + 1 .. Len(m) PROVE ~IsOf(m[j], w, K)
        <4>1. j \in 1 .. Len(m) /\ j # i
          BY <1>1
        <4> QED
          BY <1>3, <1>7, <4>1 DEF NoneIn
      <3> QED
        BY <2>2, <2>3, <3>1 DEF Final, LastOf
    <2>4. CASE ~IsOf(m[i], w, K)
      <3>1. NoneIn(m, w, K)
        BY <1>4, <1>7, <2>4
      <3>2. ~LastOf(<<>>, w, K, e)
        BY DEF LastOf
      <3> QED
        BY <2>2, <2>4, <3>1, <3>2 DEF Final
    <2> QED
      BY <2>3, <2>4
  <1> QED
    BY <1>4, <1>5, <1>6, <1>7 DEF Final

---------------------------------------------------------------------------
(***************************************************************************)
(* The inductive invariant.                                                *)
(***************************************************************************)
Made == [i \in 1 .. Len(unpublished) |-> unpublished[i].event]
Quiet(w, K) == NoneIn(events, w, K) /\ NoneIn(Made, w, K)

Unpublished == [thread : Session \cup {Console}, event : Event]
Stages == Calling \cup {"connecting", "playing", "disconnecting", "gone"}

GameTyped ==
  /\ entity \in [Player -> Nat] /\ at \in [Player -> Position]
  /\ held \in [Player -> Slot] /\ dead \in [Player -> BOOLEAN]
  /\ nextId \in Nat \ {0}

QueuesTyped ==
  /\ events \in Seq(Event) /\ Len(events) <= EventCapacity
  /\ unpublished \in Seq(Unpublished)

Typed ==
  /\ GameTyped /\ QueuesTyped
  /\ session \in [Session -> Stages]
  /\ cut \subseteq [session : Session, taken : BOOLEAN]
  /\ disturbed \in BOOLEAN

\* Every id is of one player: the ones in use, in events and tracked.
Ids == 1 .. nextId - 1
Owning(own) ==
  /\ own \in [Ids -> Player]
  /\ Owners(own)
  /\ \A i \in 1 .. Len(events) : OwnsItsId(own, events[i])
  /\ \A i \in 1 .. Len(Made) : OwnsItsId(own, Made[i])

Connected(own) ==
  /\ DOMAIN connections \subseteq Player
  /\ \A u \in DOMAIN connections : IsConnection(connections[u], u) /\ Sane(connections[u], own)

\* What the last event about a player tells of it still holds.
Tells(e) == LET w == e.uuid IN
  /\ e.kind = "Disconnected" => ~Online(w)
  /\ e.kind = "Killed" => dead[w]
  /\ e.kind \in {"Moved", "Teleported"} => e.id = entity[w] /\ e.to = at[w]

Telling == \A w \in Player : \A e \in Event :
  Final(events, Made, w, Fates, e) \/ Final(events, Made, w, Places, e) => Tells(e)

\* What a client tracks of player w is right, unless an event is to come.
TracksRight(c, w) ==
  w \in DOMAIN c.entities => Online(w) /\ c.entities[w].id = entity[w]
TracksLiving(c, w) == Online(w) /\ ~dead[w] => w \in DOMAIN c.entities
TracksPlace(c, w) ==
  Online(w) /\ ~dead[w] => w \in DOMAIN c.entities /\ c.entities[w].at = at[w]

Tracks(c, w) == c.active /\ c.healthy =>
  /\ Quiet(w, Lives) => TracksRight(c, w)
  /\ Quiet(w, Fates) => TracksLiving(c, w)
  /\ Quiet(w, Places) => TracksPlace(c, w)
  /\ Quiet(w, Hands) => Holds(c, w)

Tracking ==
  \A u \in DOMAIN connections : \A w \in Player \ {u} : Tracks(connections[u], w)

Undisturbed == Running /\ ~disturbed => Telling /\ Tracking

PictureInvariant ==
  /\ Typed
  /\ \E own : Owning(own) /\ Connected(own)
  /\ Undisturbed

LEMMA MadeFacts ==
  ASSUME unpublished \in Seq(Unpublished)
  PROVE  /\ Made \in Seq(Event) /\ Len(Made) = Len(unpublished)
         /\ \A i \in 1 .. Len(unpublished) : Made[i] = unpublished[i].event
  <1>1. Len(unpublished) \in Nat
    OBVIOUS
  <1>2. ASSUME NEW i \in 1 .. Len(unpublished) PROVE unpublished[i].event \in Event
    <2>1. unpublished[i] \in Unpublished
      OBVIOUS
    <2> QED
      BY <2>1 DEF Unpublished
  <1>3. Made \in [1 .. Len(unpublished) -> Event]
    BY <1>2 DEF Made
  <1>4. Made \in Seq(Event) /\ Len(Made) = Len(unpublished)
    BY <1>1, <1>3
  <1> QED
    BY <1>4 DEF Made

LEMMA PlacesAreFates ==
  ASSUME NEW w, NEW K, NEW L, K \subseteq L, Quiet(w, L)
  PROVE  Quiet(w, K)
  BY DEF Quiet, NoneIn, IsOf

\* An operation on one player that produces the event x.
Produced(x) ==
  /\ x \in Event /\ Made' = Append(Made, x)
  /\ UNCHANGED <<events, loop, connections, disturbed>>
  /\ \A w \in Player \ {x.uuid} :
       entity'[w] = entity[w] /\ at'[w] = at[w] /\ held'[w] = held[w] /\ dead'[w] = dead[w]
  /\ LET w == x.uuid IN
     /\ x.kind \notin Lives => entity'[w] = entity[w]
     /\ entity'[w] \in {0, nextId, entity[w]}
     /\ x.kind \notin Fates => dead'[w] = dead[w]
     /\ x.kind \notin Places => at'[w] = at[w]
     /\ x.kind \notin Hands => held'[w] = held[w]
     /\ x.kind = "Disconnected" => entity'[w] = 0
     /\ x.kind = "Killed" => dead'[w]
     /\ x.kind \in {"Moved", "Teleported"} => x.id = entity'[w] /\ x.to = at'[w]

LEMMA ProducedTells ==
  ASSUME NEW x, Produced(x), QueuesTyped, Telling
  PROVE  Telling'
  <1> SUFFICES ASSUME NEW w \in Player, NEW e \in Event, NEW K \in {Fates, Places},
                      Final(events, Made, w, K, e)'
               PROVE  Tells(e)'
    BY DEF Telling
  <1>1. x \in Event /\ Made' = Append(Made, x) /\ events' = events /\ Made \in Seq(Event)
    BY MadeFacts DEF Produced, QueuesTyped
  <1>2. Final(events, Append(Made, x), w, K, e)
    BY <1>1
  <1>3. IF IsOf(x, w, K) THEN e = x ELSE Final(events, Made, w, K, e)
    BY <1>1, <1>2, AppendFinal
  <1>4. IsOf(e, w, K)
    BY <1>2, FinalIsOf
  <1>5. CASE IsOf(x, w, K)
    <2>1. e = x
      BY <1>3, <1>5
    <2>2. /\ x.kind = "Disconnected" => entity'[x.uuid] = 0
          /\ x.kind = "Killed" => dead'[x.uuid]
          /\ x.kind \in {"Moved", "Teleported"} => x.id = entity'[x.uuid] /\ x.to = at'[x.uuid]
      BY DEF Produced
    <2> QED
      BY <2>1, <2>2 DEF Tells, Online
  <1>6. CASE ~IsOf(x, w, K)
    <2>1. Tells(e)
      BY <1>3, <1>6 DEF Telling
    <2>2. e.uuid = w /\ e.kind \in K
      BY <1>4 DEF IsOf
    <2>3. CASE x.uuid # w
      <3>1. entity'[w] = entity[w] /\ at'[w] = at[w] /\ dead'[w] = dead[w]
        BY <2>3 DEF Produced
      <3> QED
        BY <2>1, <2>2, <3>1 DEF Tells, Online
    <2>4. CASE x.uuid = w
      <3>1. x.kind \notin K /\ x.kind \notin Fates
        BY <1>6, <2>4 DEF IsOf, Places
      <3>2. entity'[w] = entity[w] /\ dead'[w] = dead[w]
        BY <2>4, <3>1 DEF Produced, Fates
      <3>3. CASE K = Places
        <4>1. at'[w] = at[w]
          BY <2>4, <3>1, <3>3 DEF Produced
        <4> QED
          BY <2>1, <2>2, <3>2, <4>1 DEF Tells, Online
      <3>4. CASE K = Fates
        BY <2>1, <2>2, <3>2, <3>4 DEF Tells, Online, Fates, Lives
      <3> QED
        BY <3>3, <3>4
    <2> QED
      BY <2>3, <2>4
  <1> QED
    BY <1>5, <1>6

LEMMA ProducedTracks ==
  ASSUME NEW x, Produced(x), QueuesTyped, nextId \in Nat, NEW own, own \in [Ids -> Player],
         Connected(own), Tracking
  PROVE  Tracking'
  <1> SUFFICES ASSUME NEW u \in DOMAIN connections, NEW w \in Player \ {u}
               PROVE  Tracks(connections[u], w)'
    BY DEF Tracking, Produced
  <1>1. x \in Event /\ Made' = Append(Made, x) /\ events' = events /\ Made \in Seq(Event)
        /\ connections' = connections
    BY MadeFacts DEF Produced, QueuesTyped
  <1>2. PICK c : c = connections[u]
    OBVIOUS
  <1>3. Tracks(c, w) /\ IsConnection(c, u) /\ Sane(c, own)
    BY <1>2 DEF Tracking, Connected
  <1>4. SUFFICES ASSUME c.active, c.healthy
                 PROVE  /\ Quiet(w, Lives)' => TracksRight(c, w)'
                        /\ Quiet(w, Fates)' => TracksLiving(c, w)'
                        /\ Quiet(w, Places)' => TracksPlace(c, w)'
                        /\ Quiet(w, Hands)' => Holds(c, w)'
    BY <1>1, <1>2 DEF Tracks
  <1>5. ASSUME NEW K, Quiet(w, K)' PROVE Quiet(w, K) /\ (x.uuid = w => x.kind \notin K)
    <2>1. NoneIn(events, w, K) /\ NoneIn(Append(Made, x), w, K)
      BY <1>1, <1>5 DEF Quiet
    <2>2. NoneIn(Made, w, K) /\ ~IsOf(x, w, K)
      BY <1>1, <2>1, AppendFinal
    <2> QED
      BY <2>1, <2>2 DEF Quiet, IsOf
  <1>6. x.kind \notin Lives \/ x.uuid # w => entity'[w] = entity[w]
    BY DEF Produced
  <1>7. x.kind \notin Fates \/ x.uuid # w => dead'[w] = dead[w]
    BY DEF Produced
  <1>8. x.kind \notin Places \/ x.uuid # w => at'[w] = at[w]
    BY DEF Produced
  <1>9. x.kind \notin Hands \/ x.uuid # w => held'[w] = held[w]
    BY DEF Produced
  <1>10. ASSUME Quiet(w, Lives)' PROVE TracksRight(c, w)'
    <2>1. Quiet(w, Lives) /\ entity'[w] = entity[w]
      BY <1>5, <1>6, <1>10
    <2> QED
      BY <1>3, <1>4, <2>1 DEF Tracks, TracksRight, Online
  <1>11. ASSUME Quiet(w, Fates)' PROVE TracksLiving(c, w)'
    <2>1. Quiet(w, Fates) /\ (x.uuid = w => x.kind \notin Fates)
      BY <1>5, <1>11
    <2>2. entity'[w] = entity[w] /\ dead'[w] = dead[w]
      BY <1>6, <1>7, <2>1 DEF Fates
    <2> QED
      BY <1>3, <1>4, <2>1, <2>2 DEF Tracks, TracksLiving, Online
  <1>12. ASSUME Quiet(w, Places)' PROVE TracksPlace(c, w)'
    <2>1. Quiet(w, Places) /\ (x.uuid = w => x.kind \notin Places)
      BY <1>5, <1>12
    <2>2. entity'[w] = entity[w] /\ dead'[w] = dead[w] /\ at'[w] = at[w]
      BY <1>6, <1>7, <1>8, <2>1 DEF Places, Fates
    <2> QED
      BY <1>3, <1>4, <2>1, <2>2 DEF Tracks, TracksPlace, Online
  <1>13. ASSUME Quiet(w, Hands)' PROVE Holds(c, w)'
    <2>1. Quiet(w, Hands) /\ held'[w] = held[w]
      BY <1>5, <1>9, <1>13
    <2>2. Holds(c, w)
      BY <1>3, <1>4, <2>1 DEF Tracks
    <2>3. entity'[w] \in {0, nextId, entity[w]}
      BY DEF Produced
    <2>4. ASSUME w \in DOMAIN c.entities PROVE c.entities[w].id \notin {0, nextId}
      <3>1. c.entities[w].id \in Ids
        BY <1>3, <2>4 DEF Sane, OwnedBy
      <3> QED
        BY <3>1 DEF Ids
    <2> QED
      BY <2>1, <2>2, <2>3, <2>4 DEF Holds
  <1> QED
    BY <1>10, <1>11, <1>12, <1>13

---------------------------------------------------------------------------
\* Publishing keeps what the waiting events tell, unless it disturbs.
LEMMA PublishMoves ==
  ASSUME NEW t, Publish(t), QueuesTyped, Running, ~disturbed'
  PROVE  \E i \in 1 .. Len(Made) :
           /\ Made' = RemoveAt(Made, i) /\ events' = Append(events, Made[i])
           /\ \A j \in 1 .. i - 1 : Made[j].uuid # Made[i].uuid
           /\ Len(events) < EventCapacity
  <1>1. PICK i \in 1 .. Len(unpublished) :
          /\ unpublished' = RemoveAt(unpublished, i)
          /\ events' = IF Running /\ Len(events) < EventCapacity
                       THEN Append(events, unpublished[i].event) ELSE events
          /\ disturbed' = (disturbed \/ ~(Len(events) < EventCapacity)
               \/ \E j \in 1 .. i - 1 : unpublished[j].event.uuid = unpublished[i].event.uuid)
    BY DEF Publish
  <1>2. /\ Len(Made) = Len(unpublished) /\ Made \in Seq(Event)
        /\ \A j \in 1 .. Len(unpublished) : Made[j] = unpublished[j].event
    BY MadeFacts DEF QueuesTyped
  <1>3. Len(events) < EventCapacity
    BY <1>1
  <1>4. events' = Append(events, Made[i])
    BY <1>1, <1>2, <1>3
  <1>5. \A j \in 1 .. i - 1 : Made[j].uuid # Made[i].uuid
    <2>1. \A j \in 1 .. i - 1 : j \in 1 .. Len(unpublished)
      OBVIOUS
    <2> QED
      BY <1>1, <1>2, <2>1
  <1>6. Made' = RemoveAt(Made, i)
    <2>1. PICK v : v = unpublished'
      OBVIOUS
    <2>2. /\ v \in Seq(Unpublished) /\ Len(v) = Len(unpublished) - 1
          /\ \A k \in 1 .. Len(v) : v[k] = IF k < i THEN unpublished[k] ELSE unpublished[k + 1]
      <3>1. v \in Seq(Unpublished) /\ Shortened(unpublished, v, i)
        BY <1>1, <2>1, RemoveFacts DEF QueuesTyped
      <3> QED
        BY <3>1 DEF Shortened
    <2>3. PICK r : r = RemoveAt(Made, i)
      OBVIOUS
    <2>4. /\ r \in Seq(Event) /\ Len(r) = Len(Made) - 1
          /\ \A k \in 1 .. Len(r) : r[k] = IF k < i THEN Made[k] ELSE Made[k + 1]
      <3>1. i \in 1 .. Len(Made)
        BY <1>2
      <3>2. r \in Seq(Event) /\ Shortened(Made, r, i)
        BY <1>2, <2>3, <3>1, RemoveFacts
      <3> QED
        BY <3>2 DEF Shortened
    <2>5. Made' = [k \in 1 .. Len(v) |-> v[k].event]
      BY <2>1 DEF Made
    <2>6. ASSUME NEW k \in 1 .. Len(v) PROVE v[k].event = r[k]
      <3>1. Len(unpublished) \in Nat /\ k \in 1 .. Len(unpublished)
              /\ k + 1 \in 1 .. Len(unpublished) /\ k \in 1 .. Len(r)
        BY <1>2, <2>2, <2>4 DEF QueuesTyped
      <3> QED
        BY <1>2, <2>2, <2>4, <3>1
    <2>7. r = [k \in 1 .. Len(v) |-> r[k]]
      BY <1>2, <2>2, <2>4
    <2> QED
      BY <2>3, <2>5, <2>6, <2>7
  <1> QED
    BY <1>2, <1>3, <1>4, <1>5, <1>6

LEMMA PublishKeeps ==
  ASSUME NEW t, Publish(t), QueuesTyped, Running, ~disturbed', Telling, Tracking
  PROVE  Telling' /\ Tracking'
  <1>1. PICK i \in 1 .. Len(Made) :
           /\ Made' = RemoveAt(Made, i) /\ events' = Append(events, Made[i])
           /\ \A j \in 1 .. i - 1 : Made[j].uuid # Made[i].uuid
    BY PublishMoves
  <1>2. Made \in Seq(Event) /\ events \in Seq(Event)
    BY MadeFacts DEF QueuesTyped
  <1>3. UNCHANGED <<game, connections>>
    BY DEF Publish
  <1>4. ASSUME NEW w, NEW K
        PROVE  /\ Quiet(w, K)' => Quiet(w, K)
               /\ \A e : Final(events, Made, w, K, e)' => Final(events, Made, w, K, e)
    <2>1. PICK p : p = Append(events, Made[i])
      OBVIOUS
    <2>2. PICK r : r = RemoveAt(Made, i)
      OBVIOUS
    <2>3. /\ NoneIn(p, w, K) /\ NoneIn(r, w, K) => NoneIn(events, w, K) /\ NoneIn(Made, w, K)
          /\ \A e : Final(p, r, w, K, e) => Final(events, Made, w, K, e)
      BY <1>1, <1>2, <2>1, <2>2, PublishFinal
    <2>4. Quiet(w, K)' <=> NoneIn(p, w, K) /\ NoneIn(r, w, K)
      BY <1>1, <2>1, <2>2 DEF Quiet
    <2>5. ASSUME NEW e, Final(events, Made, w, K, e)' PROVE Final(p, r, w, K, e)
      BY <1>1, <2>1, <2>2, <2>5
    <2> QED
      BY <2>3, <2>4, <2>5 DEF Quiet
  <1>5. Telling'
    <2> SUFFICES ASSUME NEW w \in Player, NEW e \in Event, NEW K \in {Fates, Places},
                        Final(events, Made, w, K, e)'
                 PROVE  Tells(e)'
      BY DEF Telling
    <2>1. Tells(e)
      BY <1>4 DEF Telling
    <2> QED
      BY <1>3, <2>1 DEF Tells, Online, game
  <1>6. Tracking'
    <2> SUFFICES ASSUME NEW u \in DOMAIN connections, NEW w \in Player \ {u}
                 PROVE  Tracks(connections[u], w)'
      BY <1>3 DEF Tracking
    <2>1. PICK c : c = connections[u]
      OBVIOUS
    <2>2. Tracks(c, w)
      BY <2>1 DEF Tracking
    <2>3. Tracks(c, w)'
      <3>1. /\ TracksRight(c, w)' <=> TracksRight(c, w)
            /\ TracksLiving(c, w)' <=> TracksLiving(c, w)
            /\ TracksPlace(c, w)' <=> TracksPlace(c, w)
            /\ Holds(c, w)' <=> Holds(c, w)
        BY <1>3 DEF TracksRight, TracksLiving, TracksPlace, Holds, Online, game
      <3> QED
        BY <1>4, <2>2, <3>1 DEF Tracks
    <2> QED
      BY <1>3, <2>1, <2>3
  <1> QED
    BY <1>5, <1>6

---------------------------------------------------------------------------
\* What a dispatch of event e does to the connection of player u.
Taken(c, d, u, e) ==
  IF u = e.uuid THEN d \in {c, Queue(c, Other)} ELSE d = Handled(c, e)

LEMMA DispatchTakes ==
  ASSUME NEW e, NEW u \in DOMAIN connections,
         \/ e.kind = "Connected" /\ DispatchConnected(e)
         \/ e.kind = "Disconnected" /\ DispatchDisconnected(e)
         \/ e.kind = "Moved" /\ DispatchMoved(e)
         \/ e.kind = "Teleported" /\ DispatchTeleported(e)
         \/ e.kind = "Killed" /\ DispatchKilled(e)
         \/ e.kind = "Respawned" /\ DispatchRespawned(e)
         \/ e.kind = "HotbarChanged" /\ DispatchHotbar(e)
  PROVE  DOMAIN connections' = DOMAIN connections
         /\ Taken(connections[u], connections'[u], u, e)
  <1>1. ASSUME e.kind = "Connected", DispatchConnected(e)
        PROVE  DOMAIN connections' = DOMAIN connections
               /\ Taken(connections[u], connections'[u], u, e)
    BY <1>1 DEF DispatchConnected, ButFor, Handled, Taken
  <1>2. ASSUME e.kind = "Disconnected", DispatchDisconnected(e)
        PROVE  DOMAIN connections' = DOMAIN connections
               /\ Taken(connections[u], connections'[u], u, e)
    BY <1>2 DEF DispatchDisconnected, ButFor, Handled, Taken
  <1>3. ASSUME e.kind = "Moved", DispatchMoved(e)
        PROVE  DOMAIN connections' = DOMAIN connections
               /\ Taken(connections[u], connections'[u], u, e)
    BY <1>3 DEF DispatchMoved, ButFor, Handled, Taken
  <1>4. ASSUME e.kind = "Teleported", DispatchTeleported(e)
        PROVE  DOMAIN connections' = DOMAIN connections
               /\ Taken(connections[u], connections'[u], u, e)
    BY <1>4 DEF DispatchTeleported, ButFor, ToSubject, Handled, Taken
  <1>5. ASSUME e.kind = "Killed", DispatchKilled(e)
        PROVE  DOMAIN connections' = DOMAIN connections
               /\ Taken(connections[u], connections'[u], u, e)
    BY <1>5 DEF DispatchKilled, ButFor, ToSubject, Handled, Taken
  <1>6. ASSUME e.kind = "Respawned", DispatchRespawned(e)
        PROVE  DOMAIN connections' = DOMAIN connections
               /\ Taken(connections[u], connections'[u], u, e)
    BY <1>6 DEF DispatchRespawned, ButFor, ToSubject, Handled, Taken
  <1>7. ASSUME e.kind = "HotbarChanged", DispatchHotbar(e)
        PROVE  DOMAIN connections' = DOMAIN connections
               /\ Taken(connections[u], connections'[u], u, e)
    BY <1>7 DEF DispatchHotbar, ButFor, Handled, Taken
  <1> QED
    BY <1>1, <1>2, <1>3, <1>4, <1>5, <1>6, <1>7

LEMMA NobodyTakes ==
  ASSUME NEW e,
         \/ DispatchConnected(e) \/ DispatchDisconnected(e) \/ DispatchMoved(e)
         \/ DispatchTeleported(e) \/ DispatchKilled(e) \/ DispatchRespawned(e)
         \/ DispatchHotbar(e)
  PROVE  DOMAIN connections' = DOMAIN connections
  BY DEF DispatchConnected, DispatchDisconnected, DispatchMoved, DispatchTeleported,
         DispatchKilled, DispatchRespawned, DispatchHotbar, ButFor, ToSubject

\* A dispatch handles the event for every connection but that of its player,
\* which may be sent something of its own.
LEMMA DispatchMakes ==
  ASSUME Dispatch, QueuesTyped, NEW e, e = Head(events)
  PROVE  /\ e \in Event /\ events # <<>> /\ events' = Tail(events)
         /\ e.kind = "Connected" => Online(e.uuid)
         /\ DOMAIN connections' = DOMAIN connections
         /\ \A u \in DOMAIN connections : Taken(connections[u], connections'[u], u, e)
         /\ UNCHANGED <<game, unpublished, disturbed, session, usurped>>
  <1>1. events # <<>> /\ events' = Tail(events)
    BY DEF Dispatch
  <1>2. e \in Event
    BY <1>1 DEF QueuesTyped
  <1>3. UNCHANGED <<game, unpublished, disturbed, session, usurped>>
    BY DEF Dispatch, histories
  <1>4. \/ e.kind = "Connected" /\ Online(e.uuid) /\ DispatchConnected(e)
        \/ e.kind = "Disconnected" /\ DispatchDisconnected(e)
        \/ e.kind = "Moved" /\ DispatchMoved(e)
        \/ e.kind = "Teleported" /\ DispatchTeleported(e)
        \/ e.kind = "Killed" /\ DispatchKilled(e)
        \/ e.kind = "Respawned" /\ DispatchRespawned(e)
        \/ e.kind = "HotbarChanged" /\ DispatchHotbar(e)
    BY DEF Dispatch
  <1>5. e.kind = "Connected" => Online(e.uuid)
    BY <1>4
  <1>6. DOMAIN connections' = DOMAIN connections
    BY <1>4, NobodyTakes
  <1>7. ASSUME NEW u \in DOMAIN connections
        PROVE  Taken(connections[u], connections'[u], u, e)
    BY <1>4, DispatchTakes
  <1> QED
    BY <1>1, <1>2, <1>3, <1>5, <1>6, <1>7

LEMMA TakenFacts ==
  ASSUME NEW own, Owners(own), NEW u, NEW c, IsConnection(c, u), Sane(c, own),
         NEW e \in Event, OwnsItsId(own, e), e.kind = "Connected" => Online(e.uuid),
         NEW d, Taken(c, d, u, e)
  PROVE  /\ Step(c, d, u, own, e.uuid)
         /\ u # e.uuid => Effect(c, d, e) /\ (Holds(c, e.uuid) => Holds(d, e.uuid))
  <1>1. CASE u # e.uuid
    <2>1. d = Handled(c, e)
      BY <1>1 DEF Taken
    <2> QED
      BY <1>1, <2>1, HandledFacts
  <1>2. CASE u = e.uuid /\ d = c
    BY <1>2 DEF Step, Carries, Same
  <1>3. CASE u = e.uuid /\ d = Queue(c, Other)
    BY <1>3, OtherKeeps
  <1> QED
    BY <1>1, <1>2, <1>3 DEF Taken

\* An event that is dispatched is told of no more: what it tells now holds.
LEMMA DispatchedTells ==
  ASSUME QueuesTyped, Telling, events # <<>>, NEW e, e = Head(events), events' = Tail(events),
         UNCHANGED unpublished, NEW w \in Player, NEW K, Quiet(w, K)'
  PROVE  /\ ~IsOf(e, w, K) => Quiet(w, K)
         /\ IsOf(e, w, K) /\ K \in {Fates, Places} => Tells(e)
  <1>1. PICK r : r = Tail(events)
    OBVIOUS
  <1>2. NoneIn(r, w, K) /\ NoneIn(Made, w, K)
    BY <1>1 DEF Quiet, Made
  <1>3. events \in Seq(Event) /\ e \in Event
    BY DEF QueuesTyped
  <1>4. /\ NoneIn(r, w, K) /\ ~IsOf(Head(events), w, K) => NoneIn(events, w, K)
        /\ NoneIn(r, w, K) /\ NoneIn(Made, w, K) /\ IsOf(Head(events), w, K)
             => Final(events, Made, w, K, Head(events))
    BY <1>1, <1>3, TailFinal
  <1> QED
    BY <1>2, <1>3, <1>4 DEF Quiet, Telling

LEMMA TakenTracksOthers ==
  ASSUME NEW c, NEW d, NEW w, Same(c, d, w), Carries(c, d), Tracks(c, w),
         UNCHANGED game, \A K : Quiet(w, K)' => Quiet(w, K)
  PROVE  Tracks(d, w)'
  <1> SUFFICES ASSUME d.active, d.healthy
               PROVE  /\ Quiet(w, Lives) => TracksRight(d, w)'
                      /\ Quiet(w, Fates) => TracksLiving(d, w)'
                      /\ Quiet(w, Places) => TracksPlace(d, w)'
                      /\ Quiet(w, Hands) => Holds(d, w)'
    BY DEF Tracks
  <1>1. /\ c.active /\ c.healthy /\ (w \in DOMAIN d.entities <=> w \in DOMAIN c.entities)
        /\ w \in DOMAIN c.entities =>
             /\ d.entities[w] = c.entities[w]
             /\ d.picture[c.entities[w].id] = c.picture[c.entities[w].id]
    BY DEF Carries, Same
  <1>2. /\ Quiet(w, Lives) => TracksRight(c, w)
        /\ Quiet(w, Fates) => TracksLiving(c, w)
        /\ Quiet(w, Places) => TracksPlace(c, w)
        /\ Quiet(w, Hands) => Holds(c, w)
    BY <1>1 DEF Tracks
  <1>3. entity' = entity /\ at' = at /\ held' = held /\ dead' = dead
    BY DEF game
  <1>4. TracksRight(c, w) => TracksRight(d, w)'
    BY <1>1, <1>3 DEF TracksRight, Online
  <1>5. TracksLiving(c, w) => TracksLiving(d, w)'
    BY <1>1, <1>3 DEF TracksLiving, Online
  <1>6. TracksPlace(c, w) => TracksPlace(d, w)'
    BY <1>1, <1>3 DEF TracksPlace, Online
  <1>7. Holds(c, w) => Holds(d, w)'
    BY <1>1, <1>3 DEF Holds
  <1> QED
    BY <1>2, <1>4, <1>5, <1>6, <1>7

LEMMA TakenTracksSubject ==
  ASSUME NEW c, NEW d, NEW e \in Event, Effect(c, d, e), Carries(c, d),
         Holds(c, e.uuid) => Holds(d, e.uuid), Tracks(c, e.uuid), UNCHANGED game,
         \A K : Quiet(e.uuid, K)' =>
           /\ e.kind \notin K => Quiet(e.uuid, K)
           /\ e.kind \in K /\ K \in {Fates, Places} => Tells(e)
  PROVE  Tracks(d, e.uuid)'
  <1>1. PICK w : w = e.uuid
    OBVIOUS
  <1>2. SUFFICES ASSUME d.active, d.healthy
                 PROVE  /\ Quiet(w, Lives)' => TracksRight(d, w)'
                        /\ Quiet(w, Fates)' => TracksLiving(d, w)'
                        /\ Quiet(w, Places)' => TracksPlace(d, w)'
                        /\ Quiet(w, Hands)' => Holds(d, w)'
    BY <1>1 DEF Tracks
  <1>3. entity' = entity /\ at' = at /\ held' = held /\ dead' = dead
    BY DEF game
  <1>4. c.active /\ c.healthy
    BY <1>2 DEF Carries
  <1>5. /\ Quiet(w, Lives) => TracksRight(c, w)
        /\ Quiet(w, Fates) => TracksLiving(c, w)
        /\ Quiet(w, Places) => TracksPlace(c, w)
        /\ Quiet(w, Hands) => Holds(c, w)
    BY <1>1, <1>4 DEF Tracks
  <1>6. /\ e.kind = "Connected" => Online(w) /\ Fresh(d, w)
        /\ e.kind \in {"Disconnected", "Killed"} => w \notin DOMAIN d.entities
        /\ e.kind = "Respawned" /\ Online(w) => Fresh(d, w)
        /\ e.kind = "Respawned" /\ ~Online(w) => d = c
        /\ e.kind \in {"Moved", "Teleported"} => Follows(c, d, w, e)
        /\ e.kind = "HotbarChanged" => d.entities = c.entities /\ Holds(d, w)
    BY <1>1, <1>2, <1>4 DEF Effect
  <1>7. Follows(c, d, w, e) =>
          /\ Online(w) => w \in DOMAIN d.entities
          /\ w \in DOMAIN d.entities =>
               \/ Online(w) /\ Fresh(d, w)
               \/ /\ w \in DOMAIN c.entities /\ c.entities[w].id = e.id
                  /\ d.entities[w].id = e.id /\ d.entities[w].at = e.to
    BY <1>2, <1>4 DEF Follows
  <1>8. Fresh(d, w) =>
          w \in DOMAIN d.entities /\ d.entities[w].id = entity[w] /\ d.entities[w].at = at[w]
    BY DEF Fresh, Snapshot
  <1>9. e.kind \in Places \cup Hands
    BY EventFields
  <1>10. ASSUME Quiet(w, Lives)' PROVE TracksRight(d, w)'
    <2>1. e.kind \notin Lives => TracksRight(c, w)
      BY <1>1, <1>5, <1>10
    <2>2. TracksRight(d, w)
      BY <1>6, <1>7, <1>8, <1>9, <2>1 DEF TracksRight, Places, Fates, Lives, Hands
    <2> QED
      BY <1>3, <2>2 DEF TracksRight, Online
  <1>11. ASSUME Quiet(w, Fates)' PROVE TracksLiving(d, w)'
    <2>1. e.kind \notin Fates => TracksLiving(c, w)
      BY <1>1, <1>5, <1>11
    <2>2. e.kind \in Fates => Tells(e)
      BY <1>1, <1>11
    <2>3. TracksLiving(d, w)
      BY <1>1, <1>6, <1>7, <1>8, <1>9, <2>1, <2>2
      DEF TracksLiving, Tells, Places, Fates, Lives, Hands
    <2> QED
      BY <1>3, <2>3 DEF TracksLiving, Online
  <1>12. ASSUME Quiet(w, Places)' PROVE TracksPlace(d, w)'
    <2>1. e.kind \notin Places => TracksPlace(c, w)
      BY <1>1, <1>5, <1>12
    <2>2. e.kind \in Places => Tells(e)
      BY <1>1, <1>12
    <2>3. TracksPlace(d, w)
      BY <1>1, <1>6, <1>7, <1>8, <1>9, <2>1, <2>2
      DEF TracksPlace, Tells, Places, Fates, Lives, Hands
    <2> QED
      BY <1>3, <2>3 DEF TracksPlace, Online
  <1>13. ASSUME Quiet(w, Hands)' PROVE Holds(d, w)'
    <2>1. e.kind \notin Hands => Holds(c, w)
      BY <1>1, <1>5, <1>13
    <2>2. Holds(d, w)
      BY <1>1, <1>6, <2>1 DEF Hands
    <2> QED
      BY <1>3, <2>2 DEF Holds
  <1> QED
    BY <1>10, <1>11, <1>12, <1>13

LEMMA TailOwns ==
  ASSUME NEW own, QueuesTyped, events # <<>>, events' = Tail(events), UNCHANGED unpublished,
         UNCHANGED game, Owning(own)
  PROVE  Owning(own)'
  <1>1. entity' = entity /\ at' = at /\ held' = held /\ nextId' = nextId
    BY DEF game
  <1>2. Made' = Made
    BY DEF Made
  <1>3. Owners(own)' <=> Owners(own)
    BY <1>1 DEF Owners, Known, Online
  <1>4. ASSUME NEW i \in 1 .. Len(events') PROVE OwnsItsId(own, events'[i])
    <2>1. i + 1 \in 1 .. Len(events) /\ events'[i] = events[i + 1]
      BY DEF QueuesTyped
    <2> QED
      BY <2>1 DEF Owning
  <1> QED
    BY <1>1, <1>2, <1>3, <1>4 DEF Owning, Ids

\* A dispatch keeps every connection sane.
LEMMA DispatchConnects ==
  ASSUME NEW own, Dispatch, Typed, Owning(own), Connected(own), NEW e, e = Head(events)
  PROVE  /\ Connected(own)' /\ DOMAIN connections' = DOMAIN connections
         /\ \A u \in DOMAIN connections :
              /\ Step(connections[u], connections'[u], u, own, e.uuid)
              /\ u # e.uuid => /\ Effect(connections[u], connections'[u], e)
                               /\ Holds(connections[u], e.uuid)
                                    => Holds(connections'[u], e.uuid)
  <1>1. /\ e \in Event /\ events # <<>> /\ (e.kind = "Connected" => Online(e.uuid))
        /\ DOMAIN connections' = DOMAIN connections
        /\ \A u \in DOMAIN connections : Taken(connections[u], connections'[u], u, e)
    BY DispatchMakes DEF Typed
  <1>2. OwnsItsId(own, e)
    <2>1. 1 \in 1 .. Len(events) /\ e = events[1]
      BY <1>1 DEF Typed, QueuesTyped
    <2> QED
      BY <2>1 DEF Owning
  <1>3. ASSUME NEW u \in DOMAIN connections
        PROVE  /\ Step(connections[u], connections'[u], u, own, e.uuid)
               /\ u # e.uuid => /\ Effect(connections[u], connections'[u], e)
                                /\ Holds(connections[u], e.uuid)
                                     => Holds(connections'[u], e.uuid)
    <2>1. PICK c : c = connections[u]
      OBVIOUS
    <2>2. PICK d : d = connections'[u]
      OBVIOUS
    <2>3. IsConnection(c, u) /\ Sane(c, own) /\ Taken(c, d, u, e) /\ Owners(own)
      BY <1>1, <2>1, <2>2 DEF Connected, Owning
    <2>4. /\ Step(c, d, u, own, e.uuid)
          /\ u # e.uuid => Effect(c, d, e) /\ (Holds(c, e.uuid) => Holds(d, e.uuid))
      BY <1>1, <1>2, <2>3, TakenFacts
    <2> QED
      BY <2>1, <2>2, <2>4
  <1>4. Connected(own)'
    BY <1>1, <1>3 DEF Connected, Step
  <1> QED
    BY <1>1, <1>3, <1>4

\* Dispatching an event makes what is tracked of its player as the event tells.
LEMMA DispatchKeeps ==
  ASSUME NEW own, Dispatch, Typed, Owning(own), Connected(own), Telling, Tracking
  PROVE  Telling' /\ Tracking'
  <1>1. PICK e : e = Head(events)
    OBVIOUS
  <1>2. /\ e \in Event /\ events # <<>> /\ events' = Tail(events)
        /\ UNCHANGED <<game, unpublished>> /\ QueuesTyped
    BY <1>1, DispatchMakes DEF Typed
  <1>3. Telling'
    <2> SUFFICES ASSUME NEW w \in Player, NEW f \in Event, NEW K \in {Fates, Places},
                        Final(events, Made, w, K, f)'
                 PROVE  Tells(f)'
      BY DEF Telling
    <2>1. Made' = Made
      BY <1>2 DEF Made
    <2>2. PICK r : r = Tail(events)
      OBVIOUS
    <2>3. Final(r, Made, w, K, f)
      BY <1>2, <2>1, <2>2
    <2>4. events \in Seq(Event)
      BY <1>2 DEF QueuesTyped
    <2>5. Final(events, Made, w, K, f)
      BY <1>2, <2>2, <2>3, <2>4, TailFinal
    <2>6. Tells(f)
      BY <2>5 DEF Telling
    <2> QED
      BY <1>2, <2>6 DEF Tells, Online, game
  <1>4. DOMAIN connections' = DOMAIN connections
    BY <1>1, DispatchConnects
  <1>5. ASSUME NEW u \in DOMAIN connections, NEW w \in Player \ {u}
        PROVE  Tracks(connections[u], w)'
    <2>1. PICK c : c = connections[u]
      OBVIOUS
    <2>2. PICK d : d = connections'[u]
      OBVIOUS
    <2>3. /\ Step(c, d, u, own, e.uuid)
          /\ u # e.uuid => Effect(c, d, e) /\ (Holds(c, e.uuid) => Holds(d, e.uuid))
      BY <1>1, <2>1, <2>2, DispatchConnects
    <2>4. Carries(c, d) /\ Tracks(c, w)
      BY <2>1, <2>3 DEF Step, Tracking
    <2>5. ASSUME NEW K, Quiet(w, K)'
          PROVE  /\ ~IsOf(e, w, K) => Quiet(w, K)
                 /\ IsOf(e, w, K) /\ K \in {Fates, Places} => Tells(e)
      BY <1>1, <1>2, <2>5, DispatchedTells
    <2>6. CASE w # e.uuid
      <3>1. Same(c, d, w)
        BY <2>3, <2>6 DEF Step
      <3>2. ASSUME NEW K, Quiet(w, K)' PROVE Quiet(w, K)
        BY <2>5, <2>6, <3>2 DEF IsOf
      <3>3. Tracks(d, w)'
        BY <1>2, <2>4, <3>1, <3>2, TakenTracksOthers
      <3> QED
        BY <2>2, <3>3
    <2>7. CASE w = e.uuid
      <3>1. Effect(c, d, e) /\ (Holds(c, e.uuid) => Holds(d, e.uuid)) /\ Tracks(c, e.uuid)
        BY <2>3, <2>4, <2>7
      <3>2. ASSUME NEW K, Quiet(e.uuid, K)'
            PROVE  /\ e.kind \notin K => Quiet(e.uuid, K)
                   /\ e.kind \in K /\ K \in {Fates, Places} => Tells(e)
        BY <2>5, <2>7, <3>2 DEF IsOf
      <3>3. Tracks(d, e.uuid)'
        BY <1>2, <2>4, <3>1, <3>2, TakenTracksSubject
      <3> QED
        BY <2>2, <2>7, <3>3
    <2> QED
      BY <2>6, <2>7
  <1>6. Tracking'
    BY <1>4, <1>5 DEF Tracking
  <1> QED
    BY <1>3, <1>6

---------------------------------------------------------------------------
\* The operations on the game state.
LEMMA ProduceMakes ==
  ASSUME QueuesTyped, NEW t \in Session \cup {Console}, NEW x \in Event, Produce(t, x),
         UNCHANGED events
  PROVE  QueuesTyped' /\ Made' = Append(Made, x)
  <1>1. PICK v : v = unpublished'
    OBVIOUS
  <1>2. [thread |-> t, event |-> x] \in Unpublished
    BY DEF Unpublished
  <1>3. /\ v \in Seq(Unpublished) /\ Len(v) = Len(unpublished) + 1
        /\ v[Len(unpublished) + 1].event = x
        /\ \A i \in 1 .. Len(unpublished) : v[i] = unpublished[i]
    BY <1>1, <1>2 DEF Produce, QueuesTyped
  <1>4. /\ Made \in Seq(Event) /\ Len(Made) = Len(unpublished)
        /\ \A i \in 1 .. Len(unpublished) : Made[i] = unpublished[i].event
    BY MadeFacts DEF QueuesTyped
  <1>5. PICK m : m = Append(Made, x)
    OBVIOUS
  <1>6. /\ m \in Seq(Event) /\ Len(m) = Len(unpublished) + 1 /\ m[Len(unpublished) + 1] = x
        /\ \A i \in 1 .. Len(unpublished) : m[i] = unpublished[i].event
    BY <1>4, <1>5
  <1>7. Made' = [i \in 1 .. Len(v) |-> v[i].event]
    BY <1>1 DEF Made
  <1>8. ASSUME NEW i \in 1 .. Len(v) PROVE v[i].event = m[i]
    <2>1. i = Len(unpublished) + 1 \/ i \in 1 .. Len(unpublished)
      BY <1>3
    <2> QED
      BY <1>3, <1>6, <2>1
  <1>9. m = [i \in 1 .. Len(v) |-> m[i]]
    BY <1>3, <1>6
  <1>10. Made' = m
    BY <1>7, <1>8, <1>9
  <1> QED
    BY <1>1, <1>3, <1>5, <1>10 DEF QueuesTyped

\* An operation other than a connect hands out no id.
Operated(own, x) ==
  /\ Produced(x) /\ OwnsItsId(own, x) /\ Typed' /\ UNCHANGED nextId
  /\ \A w \in Player : entity'[w] \in {0, entity[w]}

LEMMA DisconnectOperates ==
  ASSUME NEW own, Typed, Owning(own), NEW s \in Session, DisconnectPlayer(s)
  PROVE  \E x : Operated(own, x)
  <1>1. PICK u : u = Owner[s] /\ u \in Player
    BY ReplicationAssumption
  <1>2. PICK x : x = [kind |-> "Disconnected", uuid |-> u, id |-> entity[u]]
    OBVIOUS
  <1>3. /\ x.kind = "Disconnected" /\ x.uuid = u /\ x.id = entity[u] /\ x \in Event
    BY <1>1, <1>2 DEF Event, Fates, Lives, Typed, GameTyped
  <1>4. /\ entity' = [entity EXCEPT ![u] = 0] /\ at' = [at EXCEPT ![u] = 0]
        /\ Produce(s, x) /\ session' = [session EXCEPT ![s] = "gone"]
        /\ UNCHANGED <<held, dead, nextId, events, loop, connections, cut, disturbed>>
    BY <1>1, <1>2 DEF DisconnectPlayer, histories
  <1>5. QueuesTyped' /\ Made' = Append(Made, x)
    BY <1>3, <1>4, ProduceMakes DEF Typed
  <1>6. GameTyped'
    BY <1>4, ReplicationAssumption DEF Typed, GameTyped
  <1>7. Typed'
    BY <1>4, <1>5, <1>6 DEF Typed, Stages
  <1>8. Produced(x)
    BY <1>1, <1>3, <1>4, <1>5
    DEF Produced, Typed, GameTyped, Places, Fates, Lives, Hands
  <1>9. OwnsItsId(own, x)
    <2>1. Online(u) => OwnedBy(own, entity[u], u)
      BY <1>1 DEF Owning, Owners, Known
    <2> QED
      BY <1>3, <2>1 DEF OwnsItsId, Online
  <1>10. \A w \in Player : entity'[w] \in {0, entity[w]}
    BY <1>4 DEF Typed, GameTyped
  <1> QED
    BY <1>4, <1>7, <1>8, <1>9, <1>10 DEF Operated

LEMMA MoveOperates ==
  ASSUME NEW own, Typed, NEW s \in Session, MovePlayer(s)
  PROVE  \E x : Operated(own, x)
  <1>1. PICK u : u = Owner[s] /\ u \in Player
    BY ReplicationAssumption
  <1>2. PICK p \in Position :
          /\ at' = [at EXCEPT ![u] = p]
          /\ Produce(s, [kind |-> "Moved", uuid |-> u, id |-> entity[u], to |-> p])
    BY <1>1 DEF MovePlayer
  <1>3. PICK x : x = [kind |-> "Moved", uuid |-> u, id |-> entity[u], to |-> p]
    OBVIOUS
  <1>4. x.kind = "Moved" /\ x.uuid = u /\ x.id = entity[u] /\ x.to = p /\ x \in Event
    BY <1>1, <1>3 DEF Event, Places, Fates, Lives, Typed, GameTyped
  <1>5. /\ Produce(s, x)
        /\ UNCHANGED <<entity, held, dead, nextId, session, events, loop, connections, cut,
                       disturbed>>
    BY <1>2, <1>3 DEF MovePlayer, Untouched
  <1>6. QueuesTyped' /\ Made' = Append(Made, x)
    BY <1>4, <1>5, ProduceMakes DEF Typed
  <1>7. Typed'
    BY <1>2, <1>5, <1>6 DEF Typed, GameTyped
  <1>8. Produced(x)
    BY <1>1, <1>2, <1>4, <1>5, <1>6
    DEF Produced, Typed, GameTyped, Places, Fates, Lives, Hands
  <1>9. OwnsItsId(own, x)
    BY <1>4 DEF OwnsItsId
  <1> QED
    BY <1>5, <1>7, <1>8, <1>9 DEF Operated

LEMMA HotbarOperates ==
  ASSUME NEW own, Typed, NEW s \in Session, SelectHotbar(s)
  PROVE  \E x : Operated(own, x)
  <1>1. PICK u : u = Owner[s] /\ u \in Player
    BY ReplicationAssumption
  <1>2. PICK h \in Slot :
          /\ held' = [held EXCEPT ![u] = h]
          /\ Produce(s, [kind |-> "HotbarChanged", uuid |-> u, current |-> h])
    BY <1>1 DEF SelectHotbar
  <1>3. PICK x : x = [kind |-> "HotbarChanged", uuid |-> u, current |-> h]
    OBVIOUS
  <1>4. x.kind = "HotbarChanged" /\ x.uuid = u /\ x \in Event
    BY <1>1, <1>3 DEF Event, Hands
  <1>5. /\ Produce(s, x)
        /\ UNCHANGED <<entity, at, dead, nextId, session, events, loop, connections, cut,
                       disturbed>>
    BY <1>2, <1>3 DEF SelectHotbar, Untouched
  <1>6. QueuesTyped' /\ Made' = Append(Made, x)
    BY <1>4, <1>5, ProduceMakes DEF Typed
  <1>7. Typed'
    BY <1>2, <1>5, <1>6 DEF Typed, GameTyped
  <1>8. Produced(x)
    BY <1>1, <1>2, <1>4, <1>5, <1>6
    DEF Produced, Typed, GameTyped, Places, Fates, Lives, Hands
  <1>9. OwnsItsId(own, x)
    BY <1>4 DEF OwnsItsId
  <1> QED
    BY <1>5, <1>7, <1>8, <1>9 DEF Operated

LEMMA RespawnOperates ==
  ASSUME NEW own, Typed, NEW s \in Session, RespawnPlayer(s)
  PROVE  \E x : Operated(own, x)
  <1>1. PICK u : u = Owner[s] /\ u \in Player
    BY ReplicationAssumption
  <1>2. PICK x : x = [kind |-> "Respawned", uuid |-> u, id |-> entity[u]]
    OBVIOUS
  <1>3. x.kind = "Respawned" /\ x.uuid = u /\ x \in Event
    BY <1>1, <1>2 DEF Event, Fates, Typed, GameTyped
  <1>4. /\ dead' = [dead EXCEPT ![u] = FALSE] /\ at' = [at EXCEPT ![u] = 0]
        /\ Produce(s, x)
        /\ UNCHANGED <<entity, held, nextId, session, events, loop, connections, cut,
                       disturbed>>
    BY <1>1, <1>2 DEF RespawnPlayer, Untouched
  <1>5. QueuesTyped' /\ Made' = Append(Made, x)
    BY <1>3, <1>4, ProduceMakes DEF Typed
  <1>6. Typed'
    BY <1>4, <1>5, ReplicationAssumption DEF Typed, GameTyped
  <1>7. Produced(x)
    BY <1>1, <1>3, <1>4, <1>5 DEF Produced, Typed, GameTyped, Places, Fates, Lives, Hands
  <1>8. OwnsItsId(own, x)
    BY <1>3 DEF OwnsItsId
  <1> QED
    BY <1>4, <1>6, <1>7, <1>8 DEF Operated

LEMMA TeleportOperates ==
  ASSUME NEW own, Typed, NEW u \in Player, TeleportPlayer(u)
  PROVE  \E x : Operated(own, x)
  <1>1. PICK p \in Position :
          /\ at' = [at EXCEPT ![u] = p]
          /\ Produce(Console, [kind |-> "Teleported", uuid |-> u, id |-> entity[u], to |-> p])
    BY DEF TeleportPlayer
  <1>2. PICK x : x = [kind |-> "Teleported", uuid |-> u, id |-> entity[u], to |-> p]
    OBVIOUS
  <1>3. x.kind = "Teleported" /\ x.uuid = u /\ x.id = entity[u] /\ x.to = p /\ x \in Event
    BY <1>2 DEF Event, Places, Fates, Lives, Typed, GameTyped
  <1>4. /\ Produce(Console, x)
        /\ UNCHANGED <<entity, held, dead, nextId, session, events, loop, connections, cut,
                       disturbed>>
    BY <1>1, <1>2 DEF TeleportPlayer, Untouched
  <1>5. QueuesTyped' /\ Made' = Append(Made, x)
    BY <1>3, <1>4, ProduceMakes DEF Typed
  <1>6. Typed'
    BY <1>1, <1>4, <1>5 DEF Typed, GameTyped
  <1>7. Produced(x)
    BY <1>1, <1>3, <1>4, <1>5 DEF Produced, Typed, GameTyped, Places, Fates, Lives, Hands
  <1>8. OwnsItsId(own, x)
    BY <1>3 DEF OwnsItsId
  <1> QED
    BY <1>4, <1>6, <1>7, <1>8 DEF Operated

LEMMA KillOperates ==
  ASSUME NEW own, Typed, Owning(own), NEW u \in Player, KillPlayer(u)
  PROVE  \E x : Operated(own, x)
  <1>1. PICK x : x = [kind |-> "Killed", uuid |-> u, id |-> entity[u]]
    OBVIOUS
  <1>2. x.kind = "Killed" /\ x.uuid = u /\ x.id = entity[u] /\ x \in Event
    BY <1>1 DEF Event, Fates, Typed, GameTyped
  <1>3. /\ dead' = [dead EXCEPT ![u] = TRUE] /\ Produce(Console, x) /\ Online(u)
        /\ UNCHANGED <<entity, at, held, nextId, session, events, loop, connections, cut,
                       disturbed>>
    BY <1>1 DEF KillPlayer, Untouched
  <1>4. QueuesTyped' /\ Made' = Append(Made, x)
    BY <1>2, <1>3, ProduceMakes DEF Typed
  <1>5. Typed'
    BY <1>3, <1>4 DEF Typed, GameTyped
  <1>6. Produced(x)
    BY <1>2, <1>3, <1>4 DEF Produced, Typed, GameTyped, Places, Fates, Lives, Hands
  <1>7. OwnsItsId(own, x)
    BY <1>2, <1>3 DEF OwnsItsId, Owning, Owners, Known
  <1> QED
    BY <1>3, <1>5, <1>6, <1>7 DEF Operated

LEMMA AppendOwns ==
  ASSUME NEW own, QueuesTyped, NEW x \in Event, Made' = Append(Made, x), UNCHANGED events,
         OwnsItsId(own, x),
         \A i \in 1 .. Len(events) : OwnsItsId(own, events[i]),
         \A i \in 1 .. Len(Made) : OwnsItsId(own, Made[i])
  PROVE  /\ \A i \in 1 .. Len(events') : OwnsItsId(own, events'[i])
         /\ \A i \in 1 .. Len(Made') : OwnsItsId(own, Made'[i])
  <1>1. Made \in Seq(Event)
    BY MadeFacts DEF QueuesTyped
  <1>2. PICK m : m = Append(Made, x)
    OBVIOUS
  <1>3. /\ Len(m) = Len(Made) + 1 /\ m[Len(Made) + 1] = x
        /\ \A i \in 1 .. Len(Made) : m[i] = Made[i]
    BY <1>1, <1>2
  <1>4. \A i \in 1 .. Len(m) : i \in 1 .. Len(Made) \/ i = Len(Made) + 1
    BY <1>1, <1>3
  <1>5. \A i \in 1 .. Len(m) : OwnsItsId(own, m[i])
    BY <1>3, <1>4
  <1> QED
    BY <1>2, <1>5

LEMMA OperatedOwns ==
  ASSUME NEW own, NEW x, Operated(own, x), Typed, Owning(own), Connected(own)
  PROVE  Owning(own)' /\ Connected(own)'
  <1>1. /\ Produced(x) /\ OwnsItsId(own, x) /\ Typed' /\ nextId' = nextId
        /\ \A w \in Player : entity'[w] \in {0, entity[w]}
    BY DEF Operated
  <1>2. /\ x \in Event /\ Made' = Append(Made, x) /\ events' = events
        /\ connections' = connections
    BY <1>1 DEF Produced
  <1>3. Owners(own)'
    <2> SUFFICES ASSUME NEW w \in Player, Online(w)' PROVE Known(own, w)'
      BY DEF Owners
    <2>1. entity'[w] = entity[w] /\ Online(w)
      BY <1>1 DEF Online
    <2>2. Known(own, w)
      BY <2>1 DEF Owning, Owners
    <2>3. at'[w] \in Nat /\ held'[w] \in Slot
      BY <1>1, ReplicationAssumption DEF Typed, GameTyped
    <2> QED
      BY <2>1, <2>2, <2>3 DEF Known, Online
  <1>4. /\ \A i \in 1 .. Len(events') : OwnsItsId(own, events'[i])
        /\ \A i \in 1 .. Len(Made') : OwnsItsId(own, Made'[i])
    BY <1>1, <1>2, AppendOwns DEF Owning, Typed
  <1>5. Owning(own)'
    BY <1>1, <1>3, <1>4 DEF Owning, Ids
  <1>6. Connected(own)'
    BY <1>2 DEF Connected
  <1> QED
    BY <1>5, <1>6

\* A connect gives its player an id that no one has had.
Extends(own, next) == \A i \in DOMAIN own : i \in DOMAIN next /\ next[i] = own[i]

LEMMA ExtendedOwner ==
  ASSUME NEW own, NEW next, Extends(own, next), NEW i, NEW w, OwnedBy(own, i, w)
  PROVE  OwnedBy(next, i, w)
  BY DEF Extends, OwnedBy

LEMMA ExtendedOwnsItsId ==
  ASSUME NEW own, NEW next, Extends(own, next), NEW e, OwnsItsId(own, e)
  PROVE  OwnsItsId(next, e)
  BY ExtendedOwner DEF OwnsItsId

LEMMA ExtendedSane ==
  ASSUME NEW own, NEW next, Extends(own, next), NEW c, Sane(c, own)
  PROVE  Sane(c, next)
  <1>1. ASSUME NEW i \in DOMAIN c.picture PROVE next[i] = own[i]
    <2>1. own[i] \in DOMAIN c.entities /\ c.entities[own[i]].id = i
      BY DEF Sane
    <2>2. OwnedBy(own, i, own[i])
      BY <2>1 DEF Sane
    <2> QED
      BY <2>2 DEF OwnedBy, Extends
  <1>2. \A w \in DOMAIN c.entities : OwnedBy(next, c.entities[w].id, w)
    BY ExtendedOwner DEF Sane
  <1> QED
    BY <1>1, <1>2 DEF Sane

LEMMA ConnectOperates ==
  ASSUME NEW own, Typed, Owning(own), Connected(own), NEW s \in Session, ConnectPlayer(s)
  PROVE  \E x, next : Produced(x) /\ Typed' /\ Owning(next)' /\ Connected(next)'
  <1>1. PICK u : u = Owner[s] /\ u \in Player
    BY ReplicationAssumption
  <1>2. PICK x : x = [kind |-> "Connected", uuid |-> u, id |-> nextId]
    OBVIOUS
  <1>3. x.kind = "Connected" /\ x.uuid = u /\ x \in Event
    BY <1>1, <1>2 DEF Event, Fates, Lives, Typed, GameTyped
  <1>4. /\ entity' = [entity EXCEPT ![u] = nextId] /\ nextId' = nextId + 1
        /\ Produce(s, x) /\ session' = [session EXCEPT ![s] = "activating"] /\ ~Online(u)
        /\ UNCHANGED <<at, held, dead, events, loop, connections, cut, disturbed>>
    BY <1>1, <1>2 DEF ConnectPlayer
  <1>5. QueuesTyped' /\ Made' = Append(Made, x)
    BY <1>3, <1>4, ProduceMakes DEF Typed
  <1>6. GameTyped'
    <2>1. nextId \in Nat \ {0} /\ nextId' \in Nat \ {0}
      BY <1>4 DEF Typed, GameTyped
    <2>2. entity' \in [Player -> Nat]
      BY <1>4, <2>1 DEF Typed, GameTyped
    <2> QED
      BY <1>4, <2>1, <2>2 DEF Typed, GameTyped
  <1>7. Typed'
    BY <1>4, <1>5, <1>6 DEF Typed, Stages, Calling
  <1>8. Produced(x)
    BY <1>1, <1>3, <1>4, <1>5 DEF Produced, Typed, GameTyped, Places, Fates, Lives, Hands
  <1>9. PICK next : next = [i \in 1 .. nextId |-> IF i = nextId THEN u ELSE own[i]]
    OBVIOUS
  <1>10. nextId \in Nat \ {0} /\ Ids' = 1 .. nextId /\ own \in [1 .. nextId - 1 -> Player]
    BY <1>4 DEF Typed, GameTyped, Ids, Owning
  <1>11. next \in [Ids' -> Player] /\ Extends(own, next) /\ OwnedBy(next, nextId, u)
    <2>1. \A i \in 1 .. nextId : i # nextId => i \in 1 .. nextId - 1
      BY <1>10
    <2>2. \A i \in 1 .. nextId - 1 : i \in 1 .. nextId /\ i # nextId
      BY <1>10
    <2>3. nextId \in 1 .. nextId
      BY <1>10
    <2>4. \A i \in 1 .. nextId : next[i] \in Player
      BY <1>1, <1>9, <1>10, <2>1
    <2>5. next \in [1 .. nextId -> Player]
      BY <1>9, <2>4
    <2> QED
      BY <1>9, <1>10, <2>2, <2>3, <2>5 DEF Extends, OwnedBy
  <1>12. Owners(next)'
    <2> SUFFICES ASSUME NEW w \in Player, Online(w)' PROVE Known(next, w)'
      BY DEF Owners
    <2>1. at'[w] \in Nat /\ held'[w] \in Slot /\ entity'[w] \in Nat
      BY <1>6, ReplicationAssumption DEF GameTyped
    <2>2. OwnedBy(next, entity'[w], w)
      <3>1. CASE w = u
        <4>1. entity'[w] = nextId
          BY <1>4, <3>1 DEF Typed, GameTyped
        <4> QED
          BY <1>11, <3>1, <4>1
      <3>2. CASE w # u
        <4>1. entity'[w] = entity[w] /\ Online(w)
          BY <1>4, <3>2 DEF Typed, GameTyped, Online
        <4>2. OwnedBy(own, entity[w], w)
          BY <4>1 DEF Owning, Owners, Known
        <4> QED
          BY <1>11, <4>1, <4>2, ExtendedOwner
      <3> QED
        BY <3>1, <3>2
    <2> QED
      BY <2>1, <2>2 DEF Known
  <1>13. /\ \A i \in 1 .. Len(events) : OwnsItsId(next, events[i])
         /\ \A i \in 1 .. Len(Made) : OwnsItsId(next, Made[i])
    BY <1>11, ExtendedOwnsItsId DEF Owning
  <1>14. OwnsItsId(next, x)
    BY <1>3 DEF OwnsItsId
  <1>15. /\ \A i \in 1 .. Len(events') : OwnsItsId(next, events'[i])
         /\ \A i \in 1 .. Len(Made') : OwnsItsId(next, Made'[i])
    BY <1>3, <1>4, <1>5, <1>13, <1>14, AppendOwns DEF Typed
  <1>16. Owning(next)'
    BY <1>11, <1>12, <1>15 DEF Owning
  <1>17. Connected(next)'
    BY <1>4, <1>11, ExtendedSane DEF Connected
  <1> QED
    BY <1>7, <1>8, <1>16, <1>17

\* An operation keeps the invariant.
LEMMA OperationKeeps ==
  ASSUME PictureInvariant,
         \/ \E s \in Session : \/ ConnectPlayer(s) \/ DisconnectPlayer(s) \/ MovePlayer(s)
                               \/ SelectHotbar(s) \/ RespawnPlayer(s)
         \/ \E u \in Player : TeleportPlayer(u) \/ KillPlayer(u)
  PROVE  PictureInvariant'
  <1>1. PICK own : Typed /\ Owning(own) /\ Connected(own) /\ Undisturbed
    BY DEF PictureInvariant
  <1>2. \E x, next : Produced(x) /\ Typed' /\ Owning(next)' /\ Connected(next)'
    <2>1. CASE \E x : Operated(own, x)
      BY <1>1, <2>1, OperatedOwns DEF Operated
    <2>2. CASE \E s \in Session : ConnectPlayer(s)
      BY <1>1, <2>2, ConnectOperates
    <2> QED
      BY <1>1, <2>1, <2>2, DisconnectOperates, MoveOperates, HotbarOperates,
         RespawnOperates, TeleportOperates, KillOperates
  <1>3. PICK x, next : Produced(x) /\ Typed' /\ Owning(next)' /\ Connected(next)'
    BY <1>2
  <1>4. Undisturbed'
    <2>1. SUFFICES ASSUME Running', ~disturbed' PROVE Telling' /\ Tracking'
      BY DEF Undisturbed
    <2>2. Telling /\ Tracking
      BY <1>1, <1>3, <2>1 DEF Undisturbed, Running, Produced
    <2>3. Telling'
      BY <1>1, <1>3, <2>2, ProducedTells DEF Typed
    <2>4. Tracking'
      BY <1>1, <1>3, <2>2, ProducedTracks DEF Typed, GameTyped, Owning
    <2> QED
      BY <2>3, <2>4
  <1> QED
    BY <1>3, <1>4 DEF PictureInvariant

---------------------------------------------------------------------------
(***************************************************************************)
(* The control calls and the flush change connections and nothing that is  *)
(* replicated.                                                             *)
(***************************************************************************)
Good(own, c, u) ==
  /\ IsConnection(c, u) /\ Sane(c, own)
  /\ Running /\ ~disturbed => \A w \in Player \ {u} : Tracks(c, w)

LEMMA TracksIsStable ==
  ASSUME UNCHANGED <<game, unpublished, events>>
  PROVE  /\ \A c, w : Tracks(c, w)' <=> Tracks(c, w)
         /\ Telling => Telling'
         /\ \A own : Owning(own) => Owning(own)'
  <1>1. /\ entity' = entity /\ at' = at /\ held' = held /\ dead' = dead /\ nextId' = nextId
        /\ events' = events /\ Made' = Made
    BY DEF game, Made
  <1>2. \A c, w : Tracks(c, w)' <=> Tracks(c, w)
    <2> TAKE c, w
    <2>1. \A K : Quiet(w, K)' <=> Quiet(w, K)
      BY <1>1 DEF Quiet
    <2>2. /\ TracksRight(c, w)' <=> TracksRight(c, w)
          /\ TracksLiving(c, w)' <=> TracksLiving(c, w)
          /\ TracksPlace(c, w)' <=> TracksPlace(c, w)
          /\ Holds(c, w)' <=> Holds(c, w)
      BY <1>1 DEF TracksRight, TracksLiving, TracksPlace, Holds, Online
    <2> QED
      BY <2>1, <2>2 DEF Tracks
  <1>3. Telling => Telling'
    <2>1. \A e : Tells(e)' <=> Tells(e)
      BY <1>1 DEF Tells, Online
    <2>2. \A w, K, e : Final(events, Made, w, K, e)' <=> Final(events, Made, w, K, e)
      BY <1>1
    <2> QED
      BY <2>1, <2>2 DEF Telling
  <1>4. \A own : Owning(own) => Owning(own)'
    <2> TAKE own
    <2>1. Owners(own)' <=> Owners(own)
      BY <1>1 DEF Owners, Known, Online
    <2> QED
      BY <1>1, <2>1 DEF Owning, Ids
  <1> QED
    BY <1>2, <1>3, <1>4

LEMMA GoodKeeps ==
  ASSUME NEW own, Typed, Owning(own), Undisturbed, Typed',
         UNCHANGED <<game, unpublished, events, disturbed>>, Running' => Running,
         DOMAIN connections' \subseteq Player,
         \A u \in DOMAIN connections' : Good(own, connections'[u], u)
  PROVE  PictureInvariant'
  <1>1. Owning(own)'
    BY TracksIsStable
  <1>2. Connected(own)'
    BY DEF Connected, Good
  <1>3. Undisturbed'
    <2>1. SUFFICES ASSUME Running', ~disturbed' PROVE Telling' /\ Tracking'
      BY DEF Undisturbed
    <2>2. Running /\ ~disturbed /\ Telling /\ Tracking
      BY <2>1 DEF Undisturbed
    <2>3. Telling'
      BY <2>2, TracksIsStable
    <2>4. Tracking'
      <3> SUFFICES ASSUME NEW u \in DOMAIN connections', NEW w \in Player \ {u}
                   PROVE  Tracks(connections[u], w)'
        BY DEF Tracking
      <3>1. PICK d : d = connections'[u]
        OBVIOUS
      <3>2. Tracks(d, w)
        BY <2>2, <3>1 DEF Good
      <3>3. Tracks(d, w)'
        BY <3>2, TracksIsStable
      <3> QED
        BY <3>1, <3>3
    <2> QED
      BY <2>3, <2>4
  <1> QED
    BY <1>1, <1>2, <1>3 DEF PictureInvariant

\* The connections that are there are good.
LEMMA ConnectedGood ==
  ASSUME NEW own, Connected(own), Undisturbed, NEW u \in DOMAIN connections
  PROVE  Good(own, connections[u], u)
  BY DEF Connected, Undisturbed, Tracking, Good

LEMMA SameGood ==
  ASSUME NEW own, NEW u, NEW c, Good(own, c, u), NEW d, IsConnection(d, u), Sane(d, own),
         Carries(c, d), \A w \in Player : Same(c, d, w)
  PROVE  Good(own, d, u)
  <1>1. ASSUME NEW w \in Player \ {u}, Tracks(c, w), d.active, d.healthy
        PROVE  /\ Quiet(w, Lives) => TracksRight(d, w)
               /\ Quiet(w, Fates) => TracksLiving(d, w)
               /\ Quiet(w, Places) => TracksPlace(d, w)
               /\ Quiet(w, Hands) => Holds(d, w)
    <2>1. c.active /\ c.healthy
      BY <1>1 DEF Carries
    <2>2. /\ w \in DOMAIN d.entities <=> w \in DOMAIN c.entities
          /\ w \in DOMAIN c.entities =>
               /\ d.entities[w] = c.entities[w]
               /\ d.picture[c.entities[w].id] = c.picture[c.entities[w].id]
      BY <1>1, <2>1 DEF Same
    <2>3. TracksRight(c, w) => TracksRight(d, w)
      BY <2>2 DEF TracksRight
    <2>4. TracksLiving(c, w) => TracksLiving(d, w)
      BY <2>2 DEF TracksLiving
    <2>5. TracksPlace(c, w) => TracksPlace(d, w)
      BY <2>2 DEF TracksPlace
    <2>6. Holds(c, w) => Holds(d, w)
      BY <2>1, <2>2 DEF Holds
    <2> QED
      BY <1>1, <2>1, <2>3, <2>4, <2>5, <2>6 DEF Tracks
  <1>2. ASSUME NEW w \in Player \ {u}, Tracks(c, w) PROVE Tracks(d, w)
    BY <1>1, <1>2 DEF Tracks
  <1> QED
    BY <1>2 DEF Good

LEMMA NewGood ==
  ASSUME NEW own, NEW s \in Session, NEW c, c = NewConnection(s)
  PROVE  Good(own, c, Owner[s])
  <1>1. c = [session |-> s, active |-> FALSE, healthy |-> TRUE, pending |-> 0,
             entities |-> Empty, picture |-> Empty]
    BY DEF NewConnection
  <1>2. IsConnection(c, Owner[s])
    BY <1>1, MapFacts, ReplicationAssumption DEF IsConnection
  <1>3. DOMAIN c.entities = {} /\ DOMAIN c.picture = {} /\ ~c.active
    BY <1>1, MapFacts
  <1> QED
    BY <1>2, <1>3 DEF Good, Sane, Tracks

\* An activation tracks all that are online as they are.
LEMMA ActivatedGood ==
  ASSUME NEW own, Owners(own), NEW u \in Player, NEW c, c = connections[u],
         IsConnection(c, u), Sane(c, own), ~c.active, c.healthy, NEW d, d = Activated(u)
  PROVE  Good(own, d, u)
  <1>1. /\ IsConnection(d, u) /\ Sane(d, own) /\ d.active
        /\ d.healthy => /\ DOMAIN d.entities \subseteq {w \in Player \ {u} : Online(w)}
                        /\ Spawned(d, {w \in Player \ {u} : Online(w)})
    BY ActivatedFacts
  <1>2. ASSUME NEW w \in Player \ {u} PROVE Tracks(d, w)
    <2>1. SUFFICES ASSUME d.healthy
                   PROVE  TracksRight(d, w) /\ TracksLiving(d, w) /\ TracksPlace(d, w)
                            /\ Holds(d, w)
      BY DEF Tracks
    <2>2. CASE Online(w)
      <3>1. Fresh(d, w) /\ Holds(d, w)
        BY <1>1, <2>1, <2>2 DEF Spawned
      <3>2. w \in DOMAIN d.entities /\ d.entities[w].id = entity[w] /\ d.entities[w].at = at[w]
        BY <3>1 DEF Fresh, Snapshot
      <3> QED
        BY <2>2, <3>1, <3>2 DEF TracksRight, TracksLiving, TracksPlace
    <2>3. CASE ~Online(w)
      <3>1. w \notin DOMAIN d.entities
        BY <1>1, <2>1, <2>3
      <3> QED
        BY <2>3, <3>1 DEF TracksRight, TracksLiving, TracksPlace, Holds
    <2> QED
      BY <2>2, <2>3
  <1> QED
    BY <1>1, <1>2 DEF Good

LEMMA HandlingFacts ==
  ASSUME Handling, Typed, NEW s \in Session, NEW next \in Stages, Answer(s, next)
  PROVE  Typed' /\ UNCHANGED <<game, unpublished, events, disturbed, loop, cut>> /\ Running
  BY DEF Handling, Answer, Typed, GameTyped, QueuesTyped, game, Running

\* The control calls keep the invariant.
LEMMA RegisterKeeps ==
  ASSUME NEW own, Typed, Owning(own), Connected(own), Undisturbed,
         NEW s \in Session, HandleRegister(s)
  PROVE  PictureInvariant'
  <1>1. PICK u : u = Owner[s] /\ u \in Player
    BY ReplicationAssumption
  <1>2. Typed' /\ UNCHANGED <<game, unpublished, events, disturbed, loop, cut>>
    BY HandlingFacts DEF HandleRegister, Stages
  <1>3. CASE u \in DOMAIN connections
    <2>1. connections' = connections
      BY <1>1, <1>3 DEF HandleRegister
    <2> QED
      BY <1>2, <2>1, ConnectedGood, GoodKeeps DEF Connected, Running
  <1>4. CASE u \notin DOMAIN connections
    <2>1. connections' = [v \in DOMAIN connections \cup {u} |->
                            IF v = u THEN NewConnection(s) ELSE connections[v]]
      BY <1>1, <1>4 DEF HandleRegister
    <2>2. DOMAIN connections' \subseteq Player
      BY <1>1, <2>1 DEF Connected
    <2>3. ASSUME NEW v \in DOMAIN connections' PROVE Good(own, connections'[v], v)
      BY <1>1, <2>1, NewGood, ConnectedGood
    <2> QED
      BY <1>2, <2>2, <2>3, GoodKeeps DEF Running
  <1> QED
    BY <1>3, <1>4

LEMMA WithoutKeeps ==
  ASSUME NEW own, Typed, Owning(own), Connected(own), Undisturbed, Typed',
         UNCHANGED <<game, unpublished, events, disturbed, loop>>,
         NEW u, connections' = Without(connections, u)
  PROVE  PictureInvariant'
  <1>1. DOMAIN connections' = DOMAIN connections \ {u}
    BY DEF Without, Restrict
  <1>2. ASSUME NEW v \in DOMAIN connections' PROVE Good(own, connections'[v], v)
    <2>1. connections'[v] = connections[v]
      BY <1>1, WithoutValue
    <2> QED
      BY <1>1, <2>1, ConnectedGood
  <1> QED
    BY <1>1, <1>2, GoodKeeps DEF Connected, Running

LEMMA ReplacedKeeps ==
  ASSUME NEW own, Typed, Owning(own), Connected(own), Undisturbed, Typed',
         UNCHANGED <<game, unpublished, events, disturbed, loop>>,
         NEW u, NEW d, connections' = [connections EXCEPT ![u] = d],
         u \in DOMAIN connections => Good(own, d, u)
  PROVE  PictureInvariant'
  <1>1. DOMAIN connections' = DOMAIN connections
    OBVIOUS
  <1>2. ASSUME NEW v \in DOMAIN connections' PROVE Good(own, connections'[v], v)
    BY <1>1, ConnectedGood
  <1> QED
    BY <1>1, <1>2, GoodKeeps DEF Connected, Running

LEMMA ActivateKeeps ==
  ASSUME NEW own, Typed, Owning(own), Connected(own), Undisturbed,
         NEW s \in Session, HandleActivate(s)
  PROVE  PictureInvariant'
  <1>1. PICK u : u = Owner[s] /\ u \in Player
    BY ReplicationAssumption
  <1>2. Typed' /\ UNCHANGED <<game, unpublished, events, disturbed, loop, cut>>
    BY HandlingFacts DEF HandleActivate, Stages, Calling
  <1>3. PICK d : d = Activated(u)
    OBVIOUS
  <1>4. \/ /\ u \in DOMAIN connections /\ ~connections[u].active /\ connections[u].healthy
           /\ connections' = [connections EXCEPT ![u] = d]
        \/ connections' = Without(connections, u)
    BY <1>1, <1>3 DEF HandleActivate
  <1>5. CASE /\ u \in DOMAIN connections /\ ~connections[u].active /\ connections[u].healthy
             /\ connections' = [connections EXCEPT ![u] = d]
    <2>1. PICK c : c = connections[u]
      OBVIOUS
    <2>2. Good(own, d, u)
      BY <1>1, <1>3, <1>5, <2>1, ActivatedGood DEF Connected, Owning
    <2> QED
      BY <1>2, <1>5, <2>2, ReplacedKeeps
  <1>6. CASE connections' = Without(connections, u)
    BY <1>2, <1>6, WithoutKeeps
  <1> QED
    BY <1>4, <1>5, <1>6

LEMMA SyncKeeps ==
  ASSUME NEW own, Typed, Owning(own), Connected(own), Undisturbed,
         NEW s \in Session, HandleSyncInventory(s)
  PROVE  PictureInvariant'
  <1>1. PICK u : u = Owner[s] /\ u \in Player
    BY ReplicationAssumption
  <1>2. Typed' /\ UNCHANGED <<game, unpublished, events, disturbed, loop, cut>>
    <2>1. Answer(s, "playing") \/ Answer(s, "unregistering")
      BY DEF HandleSyncInventory
    <2> QED
      BY <2>1, HandlingFacts DEF HandleSyncInventory, Stages, Calling
  <1>3. \/ /\ u \in DOMAIN connections
           /\ connections' = [connections EXCEPT ![u] = Queue(connections[u], Other)]
        \/ connections' = connections
    BY <1>1 DEF HandleSyncInventory
  <1>4. CASE /\ u \in DOMAIN connections
             /\ connections' = [connections EXCEPT ![u] = Queue(connections[u], Other)]
    <2>1. PICK c : c = connections[u]
      OBVIOUS
    <2>2. PICK d : d = Queue(c, Other)
      OBVIOUS
    <2>3. IsConnection(c, u) /\ Sane(c, own) /\ Good(own, c, u)
      BY <1>4, <2>1, ConnectedGood DEF Connected
    <2>4. \A w : Step(c, d, u, own, w) /\ Same(c, d, w)
      BY <2>2, <2>3, OtherKeeps
    <2>5. Good(own, d, u)
      <3>1. IsConnection(d, u) /\ Sane(d, own) /\ Carries(c, d)
        BY <2>4 DEF Step
      <3> QED
        BY <2>3, <2>4, <3>1, SameGood
    <2> QED
      BY <1>2, <1>4, <2>1, <2>2, <2>5, ReplacedKeeps
  <1>5. CASE connections' = connections
    BY <1>2, <1>5, ConnectedGood, GoodKeeps DEF Connected, Running
  <1> QED
    BY <1>3, <1>4, <1>5

LEMMA UnregisterKeeps ==
  ASSUME NEW own, Typed, Owning(own), Connected(own), Undisturbed,
         NEW s \in Session, HandleUnregister(s)
  PROVE  PictureInvariant'
  <1>1. Typed' /\ UNCHANGED <<game, unpublished, events, disturbed, loop, cut>>
    <2>1. Answer(s, "gone") \/ Answer(s, "disconnecting")
      BY DEF HandleUnregister
    <2> QED
      BY <2>1, HandlingFacts DEF HandleUnregister, Stages
  <1>2. connections' = Without(connections, Owner[s])
    BY DEF HandleUnregister
  <1> QED
    BY <1>1, <1>2, WithoutKeeps

\* A flush empties queues: what was queued, a client has made its picture of.
LEMMA FlushKeeps ==
  ASSUME NEW own, Typed, Owning(own), Connected(own), Undisturbed, Flush
  PROVE  PictureInvariant'
  <1>1. PICK room \in [DOMAIN connections -> Room] :
          connections' = [u \in {v \in DOMAIN room : connections[v].healthy} |->
            [connections[u] EXCEPT
               !.pending = IF @ > room[u] THEN @ - room[u] ELSE 0]]
    BY DEF Flush
  <1>2. UNCHANGED <<game, unpublished, events, disturbed, session, cut>> /\ Running
    BY DEF Flush, histories
  <1>3. Typed'
    BY <1>2 DEF Typed, GameTyped, QueuesTyped, game
  <1>4. DOMAIN connections' \subseteq DOMAIN connections
    BY <1>1
  <1>5. ASSUME NEW u \in DOMAIN connections' PROVE Good(own, connections'[u], u)
    <2>1. PICK c : c = connections[u]
      OBVIOUS
    <2>2. PICK d : d = connections'[u]
      OBVIOUS
    <2>3. PICK n \in Nat : n = room[u]
      BY <1>1, <1>4, ReplicationAssumption
    <2>4. d = [c EXCEPT !.pending = IF c.pending > n THEN c.pending - n ELSE 0]
      BY <1>1, <2>1, <2>2, <2>3
    <2>5. IsConnection(c, u) /\ Sane(c, own) /\ Good(own, c, u)
      BY <1>4, <2>1, ConnectedGood DEF Connected
    <2>6. (IF c.pending > n THEN c.pending - n ELSE 0) \in 0 .. PendingLimit
      <3>1. c.pending \in 0 .. PendingLimit /\ PendingLimit \in Nat
        BY <2>5, ReplicationAssumption DEF IsConnection
      <3> QED
        BY <3>1
    <2>7. d = [session |-> c.session, active |-> c.active, healthy |-> c.healthy,
               pending |-> IF c.pending > n THEN c.pending - n ELSE 0,
               entities |-> c.entities, picture |-> c.picture]
      BY <2>4, <2>5 DEF IsConnection
    <2>8. IsConnection(d, u)
      BY <2>5, <2>6, <2>7 DEF IsConnection
    <2>9. /\ d.session = c.session /\ d.active = c.active /\ d.healthy = c.healthy
          /\ d.entities = c.entities /\ d.picture = c.picture
      BY <2>7
    <2>10. Sane(d, own) /\ Carries(c, d) /\ \A w \in Player : Same(c, d, w)
      BY <2>5, <2>9 DEF Sane, Carries, Same
    <2> QED
      BY <2>2, <2>5, <2>8, <2>10, SameGood
  <1> QED
    BY <1>2, <1>3, <1>4, <1>5, GoodKeeps DEF Connected

\* The end of the replication thread, and of its connections with it.
LEMMA EndKeeps ==
  ASSUME NEW own, Typed, Owning(own), DispatchFails \/ Shutdown
  PROVE  PictureInvariant'
  <1>1. /\ UNCHANGED <<game, session, unpublished, cut, disturbed>>
        /\ events' = <<>> /\ connections' = Empty /\ loop' \in {"failed", "stopped"}
    BY DEF DispatchFails, Shutdown, histories
  <1>2. Typed'
    <2>1. GameTyped'
      BY <1>1 DEF Typed, GameTyped, game
    <2>2. Len(<<>>) <= EventCapacity
      BY ReplicationAssumption
    <2>3. QueuesTyped'
      BY <1>1, <2>2 DEF Typed, QueuesTyped
    <2> QED
      BY <1>1, <2>1, <2>3 DEF Typed
  <1>3. Owning(own)'
    <2>1. entity' = entity /\ at' = at /\ held' = held /\ nextId' = nextId /\ Made' = Made
      BY <1>1 DEF game, Made
    <2>2. Owners(own)' <=> Owners(own)
      BY <2>1 DEF Owners, Known, Online
    <2>3. ASSUME NEW i \in 1 .. Len(events') PROVE OwnsItsId(own, events'[i])
      BY <1>1
    <2> QED
      BY <2>1, <2>2, <2>3 DEF Owning, Ids
  <1>4. Connected(own)'
    BY <1>1, MapFacts DEF Connected
  <1>5. Undisturbed'
    BY <1>1 DEF Undisturbed, Running
  <1> QED
    BY <1>2, <1>3, <1>4, <1>5 DEF PictureInvariant

\* Steps of the sessions alone.
LEMMA SessionKeeps ==
  ASSUME NEW own, Typed, Owning(own), Connected(own), Undisturbed,
         UNCHANGED <<game, unpublished, events, loop, connections, cut, disturbed>>,
         session' \in [Session -> Stages]
  PROVE  PictureInvariant'
  <1>1. Typed'
    BY DEF Typed, GameTyped, QueuesTyped, game
  <1> QED
    BY <1>1, ConnectedGood, GoodKeeps DEF Connected, Running

LEMMA PublishInvariant ==
  ASSUME NEW own, Typed, Owning(own), Connected(own), Undisturbed, NEW t, Publish(t)
  PROVE  PictureInvariant'
  <1>1. PICK i \in 1 .. Len(unpublished) :
          /\ unpublished' = RemoveAt(unpublished, i)
          /\ events' = IF Running /\ Len(events) < EventCapacity
                       THEN Append(events, unpublished[i].event) ELSE events
    BY DEF Publish
  <1>2. /\ UNCHANGED <<game, session, loop, connections, cut>> /\ disturbed' \in BOOLEAN
        /\ (disturbed => disturbed')
    BY DEF Publish, Typed
  <1>3. /\ Len(Made) = Len(unpublished) /\ Made \in Seq(Event)
        /\ \A j \in 1 .. Len(unpublished) : Made[j] = unpublished[j].event
    BY MadeFacts DEF Typed, QueuesTyped
  <1>4. unpublished' \in Seq(Unpublished) /\ Shortened(unpublished, unpublished', i)
    BY <1>1, RemoveFacts DEF Typed, QueuesTyped
  <1>5. PICK x : x = unpublished[i].event
    OBVIOUS
  <1>6. x \in Event /\ OwnsItsId(own, x)
    BY <1>3, <1>5 DEF Owning
  <1>7. PICK p : p = Append(events, x)
    OBVIOUS
  <1>8. /\ p \in Seq(Event) /\ Len(p) = Len(events) + 1 /\ p[Len(events) + 1] = x
        /\ \A j \in 1 .. Len(events) : p[j] = events[j]
    BY <1>6, <1>7 DEF Typed, QueuesTyped
  <1>9. events' = events \/ (Len(events) < EventCapacity /\ events' = p)
    BY <1>1, <1>5, <1>7
  <1>10. QueuesTyped'
    <2>1. events' \in Seq(Event) /\ Len(events') <= EventCapacity
      BY <1>8, <1>9, ReplicationAssumption DEF Typed, QueuesTyped
    <2> QED
      BY <1>4, <2>1 DEF QueuesTyped
  <1>11. Typed'
    BY <1>2, <1>10 DEF Typed, GameTyped, game
  <1>12. Owning(own)'
    <2>1. entity' = entity /\ at' = at /\ held' = held /\ nextId' = nextId
      BY <1>2 DEF game
    <2>2. Owners(own)' <=> Owners(own)
      BY <2>1 DEF Owners, Known, Online
    <2>3. ASSUME NEW j \in 1 .. Len(events') PROVE OwnsItsId(own, events'[j])
      <3>1. CASE events' = events
        BY <2>3, <3>1 DEF Owning
      <3>2. CASE events' = p
        <4>1. j \in 1 .. Len(events) \/ j = Len(events) + 1
          BY <1>8, <2>3, <3>2 DEF Typed, QueuesTyped
        <4> QED
          BY <1>6, <1>8, <3>2, <4>1 DEF Owning
      <3> QED
        BY <1>9, <3>1, <3>2
    <2>4. PICK v : v = unpublished'
      OBVIOUS
    <2>5. Made' = [k \in 1 .. Len(v) |-> v[k].event]
      BY <2>4 DEF Made
    <2>6. Len(v) \in Nat /\ Len(v) = Len(unpublished) - 1 /\ Len(unpublished) \in Nat
      BY <1>4, <2>4 DEF Shortened, Typed, QueuesTyped
    <2>7. Len(Made') = Len(v)
      BY <2>5, <2>6
    <2>8. ASSUME NEW j \in 1 .. Len(v)
          PROVE  OwnsItsId(own, v[j].event)
      <3>1. v[j] = unpublished[j] \/ v[j] = unpublished[j + 1]
        BY <1>4, <2>4 DEF Shortened
      <3>2. j \in 1 .. Len(unpublished) /\ j + 1 \in 1 .. Len(unpublished)
        BY <2>6
      <3> QED
        BY <1>3, <3>1, <3>2 DEF Owning
    <2>9. \A j \in 1 .. Len(Made') : OwnsItsId(own, Made'[j])
      BY <2>5, <2>7, <2>8
    <2> QED
      BY <2>1, <2>2, <2>3, <2>9 DEF Owning, Ids
  <1>13. Connected(own)'
    BY <1>2 DEF Connected
  <1>14. Undisturbed'
    <2>1. SUFFICES ASSUME Running', ~disturbed' PROVE Telling' /\ Tracking'
      BY DEF Undisturbed
    <2>2. Running /\ ~disturbed /\ Telling /\ Tracking
      BY <1>2, <2>1 DEF Undisturbed, Running, Typed
    <2> QED
      BY <2>1, <2>2, PublishKeeps DEF Typed
  <1> QED
    BY <1>11, <1>12, <1>13, <1>14 DEF PictureInvariant

LEMMA DispatchInvariant ==
  ASSUME NEW own, Typed, Owning(own), Connected(own), Undisturbed, Dispatch
  PROVE  PictureInvariant'
  <1>1. PICK e : e = Head(events)
    OBVIOUS
  <1>2. /\ events # <<>> /\ events' = Tail(events)
        /\ UNCHANGED <<game, unpublished, disturbed, session, usurped>>
    BY <1>1, DispatchMakes DEF Typed
  <1>3. Running /\ Connected(own)' /\ DOMAIN connections' = DOMAIN connections
    BY <1>1, DispatchConnects DEF Dispatch
  <1>4. Owning(own)'
    BY <1>2, TailOwns DEF Typed
  <1>5. QueuesTyped'
    <2>1. PICK r : r = Tail(events)
      OBVIOUS
    <2>2. r \in Seq(Event) /\ Len(r) = Len(events) - 1
      BY <1>2, <2>1 DEF Typed, QueuesTyped
    <2>3. Len(r) <= EventCapacity
      BY <2>2, ReplicationAssumption DEF Typed, QueuesTyped
    <2>4. events' \in Seq(Event) /\ Len(events') <= EventCapacity
      BY <1>2, <2>1, <2>2, <2>3
    <2>5. unpublished' \in Seq(Unpublished)
      BY <1>2 DEF Typed, QueuesTyped
    <2> QED
      BY <2>4, <2>5 DEF QueuesTyped
  <1>6. cut' \subseteq [session : Session, taken : BOOLEAN]
    <2>1. PICK taken \in [Overflowed -> BOOLEAN] :
            cut' = cut \cup {[session |-> connections[u].session, taken |-> taken[u]] :
                               u \in Overflowed}
      BY DEF Dispatch, TryDisconnect
    <2>2. \A u \in Overflowed : u \in DOMAIN connections
      BY DEF Overflowed
    <2>3. \A u \in DOMAIN connections : connections[u].session \in Session
      BY DEF Connected, IsConnection
    <2> QED
      BY <2>1, <2>2, <2>3 DEF Typed
  <1>7. Typed'
    BY <1>2, <1>5, <1>6 DEF Typed, GameTyped, game
  <1>8. Undisturbed'
    BY <1>2, <1>3, DispatchKeeps DEF Undisturbed
  <1> QED
    BY <1>3, <1>4, <1>7, <1>8 DEF PictureInvariant

---------------------------------------------------------------------------
LEMMA PictureInitially == ReplicationInit => PictureInvariant
  <1> SUFFICES ASSUME ReplicationInit PROVE PictureInvariant
    OBVIOUS
  <1> USE ReplicationAssumption DEF ReplicationInit
  <1>1. GameTyped
    BY DEF GameTyped
  <1>2. QueuesTyped
    <2>1. Len(<<>>) <= EventCapacity
      OBVIOUS
    <2> QED
      BY <2>1 DEF QueuesTyped
  <1>3. Typed
    BY <1>1, <1>2 DEF Typed, Stages, Calling
  <1>4. PICK own : own = [i \in Ids |-> CHOOSE w \in Player : TRUE]
    OBVIOUS
  <1>5. Ids = {} /\ Len(Made) = 0 /\ Made = <<>>
    BY DEF Ids, Made
  <1>6. own \in [Ids -> Player]
    BY <1>4, <1>5
  <1>7. Owners(own)
    BY DEF Owners, Online
  <1>8. Owning(own)
    BY <1>5, <1>6, <1>7 DEF Owning
  <1>9. DOMAIN connections = {}
    BY MapFacts
  <1>10. Connected(own) /\ Tracking
    BY <1>9 DEF Connected, Tracking
  <1>11. Telling
    BY <1>5 DEF Telling, Final, LastOf
  <1> QED
    BY <1>3, <1>8, <1>10, <1>11 DEF PictureInvariant, Undisturbed

LEMMA PictureInductive == PictureInvariant /\ [ReplicationNext]_vars => PictureInvariant'
  <1> SUFFICES ASSUME PictureInvariant, [ReplicationNext]_vars PROVE PictureInvariant'
    OBVIOUS
  <1>1. PICK own : Typed /\ Owning(own) /\ Connected(own) /\ Undisturbed
    BY DEF PictureInvariant
  <1>2. CASE \/ \E s \in Session : \/ ConnectPlayer(s) \/ DisconnectPlayer(s)
                                   \/ MovePlayer(s) \/ SelectHotbar(s) \/ RespawnPlayer(s)
             \/ \E u \in Player : TeleportPlayer(u) \/ KillPlayer(u)
    BY <1>2, OperationKeeps
  <1>3. ASSUME NEW s \in Session, ConnectRefused(s) \/ Leave(s) \/ CallFails(s)
        PROVE  PictureInvariant'
    <2>1. UNCHANGED <<game, unpublished, events, loop, connections, cut, disturbed>>
      BY <1>3 DEF ConnectRefused, Leave, CallFails, histories
    <2>2. \E next \in Stages : session' = [session EXCEPT ![s] = next]
      BY <1>3 DEF ConnectRefused, Leave, CallFails, Answer, Stages, Calling
    <2>3. session' \in [Session -> Stages]
      BY <1>1, <2>2 DEF Typed
    <2> QED
      BY <1>1, <2>1, <2>3, SessionKeeps
  <1>4. ASSUME NEW s \in Session, Handle(s) PROVE PictureInvariant'
    BY <1>1, <1>4, RegisterKeeps, ActivateKeeps, SyncKeeps, UnregisterKeeps DEF Handle
  <1>5. CASE \E t \in Session \cup {Console} : Publish(t)
    BY <1>1, <1>5, PublishInvariant
  <1>6. CASE Dispatch
    BY <1>1, <1>6, DispatchInvariant
  <1>7. CASE DispatchFails \/ Shutdown
    BY <1>1, <1>7, EndKeeps
  <1>8. CASE Flush
    BY <1>1, <1>8, FlushKeeps
  <1>9. CASE UNCHANGED vars
    BY <1>1, <1>9, SessionKeeps DEF vars, histories, Typed
  <1> QED
    BY <1>2, <1>3, <1>4, <1>5, <1>6, <1>7, <1>8, <1>9 DEF ReplicationNext

LEMMA PictureImplies == PictureInvariant => PictureIsCurrent
  <1> SUFFICES ASSUME PictureInvariant, NEW u \in DOMAIN connections, connections[u].healthy
      PROVE LET tracked == connections[u].entities
                picture == connections[u].picture
            IN /\ DOMAIN picture = {tracked[w].id : w \in DOMAIN tracked}
               /\ Faithful /\ connections[u].active =>
                    /\ \A w \in DOMAIN tracked : Online(w) /\ tracked[w].id = entity[w]
                    /\ \A w \in Player \ {u} : Online(w) /\ ~dead[w] =>
                         /\ w \in DOMAIN tracked /\ tracked[w].at = at[w]
                         /\ picture[entity[w]].held = held[w]
    BY DEF PictureIsCurrent
  <1>1. PICK own : Typed /\ Owning(own) /\ Connected(own) /\ Undisturbed
    BY DEF PictureInvariant
  <1>2. PICK c : c = connections[u]
    OBVIOUS
  <1>3. IsConnection(c, u) /\ Sane(c, own) /\ DOMAIN c.entities \subseteq Player \ {u}
    BY <1>1, <1>2, Fields DEF Connected
  <1>4. DOMAIN c.picture = {c.entities[w].id : w \in DOMAIN c.entities}
    <2>1. \A i \in DOMAIN c.picture : \E w \in DOMAIN c.entities : i = c.entities[w].id
      BY <1>3 DEF Sane
    <2>2. \A w \in DOMAIN c.entities : c.entities[w].id \in DOMAIN c.picture
      BY <1>3 DEF Sane
    <2> QED
      BY <2>1, <2>2
  <1>5. ASSUME Faithful, c.active, NEW w \in Player \ {u}
        PROVE  TracksRight(c, w) /\ TracksPlace(c, w) /\ Holds(c, w)
    <2>1. Len(events) = 0 /\ Len(Made) = 0
      <3>1. events = <<>> /\ unpublished = <<>>
        BY <1>5 DEF Faithful
      <3>2. Made = <<>>
        BY <3>1 DEF Made
      <3> QED
        BY <3>1, <3>2
    <2>2. \A K : Quiet(w, K)
      BY <2>1 DEF Quiet, NoneIn
    <2>3. Tracks(c, w)
      BY <1>1, <1>2, <1>5 DEF Undisturbed, Tracking, Faithful
    <2> QED
      BY <1>2, <1>5, <2>2, <2>3 DEF Tracks
  <1>6. ASSUME Faithful, c.active, NEW w \in DOMAIN c.entities
        PROVE  Online(w) /\ c.entities[w].id = entity[w]
    BY <1>3, <1>5, <1>6 DEF TracksRight
  <1>7. ASSUME Faithful, c.active, NEW w \in Player \ {u}, Online(w), ~dead[w]
        PROVE  /\ w \in DOMAIN c.entities /\ c.entities[w].at = at[w]
               /\ c.picture[entity[w]].held = held[w]
    <2>1. TracksRight(c, w) /\ TracksPlace(c, w) /\ Holds(c, w)
      BY <1>5, <1>7
    <2> QED
      BY <1>2, <1>7, <2>1 DEF TracksRight, TracksPlace, Holds
  <1> QED
    BY <1>2, <1>4, <1>6, <1>7

\* The entities of a client's picture are those its connection tracks; when
\* nothing is under way, and no event was lost or overtook an older one of its
\* player, they are the players that are online, where they are and with what
\* they hold, and all that are alive are among them.
THEOREM PicturesAreCurrent == ReplicationSpec => []PictureIsCurrent
  <1>1. ReplicationInit => PictureInvariant
    BY PictureInitially
  <1>2. PictureInvariant /\ [ReplicationNext]_vars => PictureInvariant'
    BY PictureInductive
  <1>3. PictureInvariant => PictureIsCurrent
    BY PictureImplies
  <1> QED
    BY <1>1, <1>2, <1>3, PTL DEF ReplicationSpec

LEMMA PictureTypes == PictureInvariant => ReplicationTypeOK
  <1> SUFFICES ASSUME PictureInvariant PROVE ReplicationTypeOK
    OBVIOUS
  <1>1. PICK own : Typed /\ Owning(own) /\ Connected(own)
    BY DEF PictureInvariant
  <1>2. ASSUME NEW w \in Player, Online(w)
        PROVE  entity[w] \in Ids /\ own[entity[w]] = w
    BY <1>1, <1>2 DEF Owning, Owners, Known, OwnedBy
  <1>3. entity \in [Player -> 0 .. nextId - 1]
    <2>1. ASSUME NEW w \in Player PROVE entity[w] \in 0 .. nextId - 1
      <3>1. entity[w] = 0 \/ entity[w] \in Ids
        BY <1>2 DEF Online
      <3> QED
        BY <1>1, <3>1 DEF Ids, Typed, GameTyped
    <2> QED
      BY <1>1, <2>1 DEF Typed, GameTyped
  <1>4. \A u, v \in Player : u # v /\ Online(u) => entity[u] # entity[v]
    BY <1>2 DEF Online
  <1>5. ASSUME NEW u \in DOMAIN connections
        PROVE  /\ Owner[connections[u].session] = u
               /\ connections[u].pending \in 0 .. PendingLimit
               /\ DOMAIN connections[u].entities \subseteq Player \ {u}
    <2>1. PICK c : c = connections[u]
      OBVIOUS
    <2>2. IsConnection(c, u)
      BY <1>1, <2>1 DEF Connected
    <2> QED
      BY <2>1, <2>2, Fields DEF IsConnection
  <1> QED
    BY <1>1, <1>3, <1>4, <1>5
    DEF ReplicationTypeOK, Connected, Typed, GameTyped, QueuesTyped

\* The state of the game, the queues and the connections are well formed, and
\* no entity id is of two players.
THEOREM ReplicationTypeCorrect == ReplicationSpec => []ReplicationTypeOK
  <1>1. ReplicationInit => PictureInvariant
    BY PictureInitially
  <1>2. PictureInvariant /\ [ReplicationNext]_vars => PictureInvariant'
    BY PictureInductive
  <1>3. PictureInvariant => ReplicationTypeOK
    BY PictureTypes
  <1> QED
    BY <1>1, <1>2, <1>3, PTL DEF ReplicationSpec

---------------------------------------------------------------------------
(***************************************************************************)
(* Who is served.  A session that has registered finds its connection as   *)
(* it left it, until it activates; from then on it is served or given up.  *)
(***************************************************************************)
Waits(s) == LET u == Owner[s] IN
  /\ u \in DOMAIN connections /\ connections[u].session = s
  /\ connections[u].healthy /\ ~connections[u].active

Accounted(s) == Running /\ s \notin usurped =>
  /\ session[s] \in {"connecting", "activating"} => Waits(s)
  /\ session[s] \in {"syncing", "playing"} => Served(s) \/ GivenUp(s)

\* A session has one connection and loses it for good, so that it is given up at
\* most once, and not before it has registered.
Settled ==
  /\ \A d \in cut : session[d.session] # "registering"
  /\ \A d, e \in cut : d.session = e.session => d = e
  /\ \A u \in DOMAIN connections :
       /\ session[connections[u].session] # "registering"
       /\ connections[u].healthy => ~GivenUp(connections[u].session)

ServedInvariant ==
  /\ PictureInvariant /\ Settled
  /\ \A s \in Session : Accounted(s)

\* A step that neither moves the session nor touches its connection.
LEMMA AsideAccounted ==
  ASSUME NEW s \in Session, Accounted(s), Running' => Running, cut \subseteq cut',
         usurped \subseteq usurped',
         \/ session'[s] = session[s]
         \/ session[s] = "connecting" /\ session'[s] = "activating"
         \/ session'[s] \notin {"connecting", "activating", "syncing", "playing"},
         Owner[s] \in DOMAIN connections =>
           /\ Owner[s] \in DOMAIN connections'
           /\ connections'[Owner[s]] = connections[Owner[s]]
  PROVE  Accounted(s)'
  <1>1. Waits(s) => Waits(s)'
    BY DEF Waits
  <1>2. (Served(s) => Served(s)') /\ (GivenUp(s) => GivenUp(s)')
    BY DEF Served, GivenUp
  <1> QED
    BY <1>1, <1>2 DEF Accounted

\* A connection that is activated still serves its session.
LEMMA ActivatedServes ==
  ASSUME NEW own, Owners(own), NEW u \in Player, NEW c, c = connections[u],
         IsConnection(c, u), Sane(c, own), ~c.active, c.healthy,
         NEW d, d = Activated(u)
  PROVE  d.session = c.session /\ d.active
  BY ActivatedFacts

\* A call on the connection of a player: the one that is not the caller's has
\* been called for.
LEMMA CalledAccounted ==
  ASSUME NEW r \in Session, Calls(r), NEW s \in Session \ {r}, Accounted(s), Running' => Running,
         UNCHANGED cut, session'[s] = session[s],
         \A u \in DOMAIN connections \ {Owner[r]} :
           u \in DOMAIN connections' /\ connections'[u] = connections[u]
  PROVE  Accounted(s)'
  <1>1. usurped \subseteq usurped'
    BY DEF Calls
  <1>2. CASE Owner[s] # Owner[r]
    BY <1>1, <1>2, AsideAccounted
  <1>3. CASE Owner[s] = Owner[r]
    <2>1. SUFFICES ASSUME Running', s \notin usurped'
                   PROVE  /\ session[s] \notin {"connecting", "activating"}
                          /\ session[s] \in {"syncing", "playing"} => GivenUp(s)
      BY DEF Accounted, GivenUp
    <2>2. Running /\ s \notin usurped
      BY <1>1, <2>1
    <2>3. ~(Owner[s] \in DOMAIN connections /\ connections[Owner[s]].session = s)
      BY <1>3, <2>1 DEF Calls
    <2>4. ~Waits(s) /\ ~Served(s)
      BY <2>3 DEF Waits, Served
    <2> QED
      BY <2>2, <2>4 DEF Accounted
  <1> QED
    BY <1>2, <1>3

LEMMA RegisterAccounts ==
  ASSUME ServedInvariant, NEW r \in Session, HandleRegister(r), NEW s \in Session
  PROVE  Accounted(s)'
  <1>1. PICK u : u = Owner[r]
    OBVIOUS
  <1>2. /\ UNCHANGED <<loop, cut, usurped>> /\ Accounted(s) /\ session \in [Session -> Stages]
    BY DEF HandleRegister, Handling, ServedInvariant, PictureInvariant, Typed
  <1>3. CASE u \in DOMAIN connections
    <2>1. connections' = connections /\ session' = [session EXCEPT ![r] = "gone"]
      BY <1>1, <1>3 DEF HandleRegister, Answer
    <2> QED
      BY <1>2, <2>1, AsideAccounted DEF Running
  <1>4. CASE u \notin DOMAIN connections
    <2>1. /\ connections' = [v \in DOMAIN connections \cup {u} |->
                               IF v = u THEN NewConnection(r) ELSE connections[v]]
          /\ session' = [session EXCEPT ![r] = "connecting"]
      BY <1>1, <1>4 DEF HandleRegister, Answer
    <2>2. CASE s = r
      <3>1. connections'[u] = NewConnection(r) /\ u \in DOMAIN connections'
        BY <2>1
      <3>2. Waits(r)'
        BY <1>1, <3>1 DEF Waits, NewConnection
      <3>3. session'[r] = "connecting"
        BY <1>2, <2>1
      <3> QED
        BY <2>2, <3>2, <3>3 DEF Accounted
    <2>3. CASE s # r
      <3>1. session'[s] = session[s]
        BY <2>1, <2>3
      <3>2. Owner[s] \in DOMAIN connections =>
              /\ Owner[s] \in DOMAIN connections'
              /\ connections'[Owner[s]] = connections[Owner[s]]
        BY <1>4, <2>1
      <3> QED
        BY <1>2, <3>1, <3>2, AsideAccounted DEF Running
    <2> QED
      BY <2>2, <2>3
  <1> QED
    BY <1>3, <1>4

LEMMA ActivateAccounts ==
  ASSUME ServedInvariant, NEW r \in Session, HandleActivate(r), NEW s \in Session
  PROVE  Accounted(s)'
  <1>1. PICK u : u = Owner[r] /\ u \in Player
    BY ReplicationAssumption
  <1>2. PICK d : d = Activated(u)
    OBVIOUS
  <1>3. /\ UNCHANGED <<loop, cut>> /\ Calls(r) /\ Accounted(s) /\ Accounted(r)
        /\ session[r] = "activating" /\ session \in [Session -> Stages]
    BY DEF HandleActivate, Handling, ServedInvariant, PictureInvariant, Typed
  <1>4. \/ /\ u \in DOMAIN connections /\ ~connections[u].active /\ connections[u].healthy
           /\ d.healthy /\ connections' = [connections EXCEPT ![u] = d]
           /\ session' = [session EXCEPT ![r] = "syncing"]
        \/ /\ connections' = Without(connections, u)
           /\ session' = [session EXCEPT ![r] = "unregistering"]
    BY <1>1, <1>2 DEF HandleActivate, Answer
  <1>5. CASE s # r
    <2>1. session'[s] = session[s]
      BY <1>3, <1>4, <1>5
    <2>2. ASSUME NEW v \in DOMAIN connections \ {u}
          PROVE  v \in DOMAIN connections' /\ connections'[v] = connections[v]
      BY <1>4, WithoutValue DEF Without, Restrict
    <2> QED
      BY <1>1, <1>3, <1>5, <2>1, <2>2, CalledAccounted DEF Running
  <1>6. CASE s = r /\ session' = [session EXCEPT ![r] = "unregistering"]
    BY <1>3, <1>6 DEF Accounted
  <1>7. CASE /\ s = r /\ session' = [session EXCEPT ![r] = "syncing"]
             /\ u \in DOMAIN connections /\ ~connections[u].active /\ connections[u].healthy
             /\ d.healthy /\ connections' = [connections EXCEPT ![u] = d]
    <2>1. PICK own : Typed /\ Owning(own) /\ Connected(own)
      BY DEF ServedInvariant, PictureInvariant
    <2>2. PICK c : c = connections[u]
      OBVIOUS
    <2>3. d.session = c.session /\ d.active
      <3>1. Owners(own) /\ IsConnection(c, u) /\ Sane(c, own) /\ ~c.active /\ c.healthy
        BY <1>7, <2>1, <2>2 DEF Owning, Connected
      <3> QED
        BY <1>1, <1>2, <2>2, <3>1, ActivatedServes
    <2>4. SUFFICES ASSUME Running', r \notin usurped' PROVE Served(r)'
      BY <1>3, <1>7 DEF Accounted
    <2>5. Running /\ r \notin usurped
      BY <1>3, <2>4 DEF Running, Calls
    <2>6. c.session = r
      BY <1>1, <1>3, <2>2, <2>5 DEF Accounted, Waits
    <2>7. connections'[u] = d /\ u \in DOMAIN connections'
      BY <1>7
    <2> QED
      BY <1>1, <1>7, <2>3, <2>6, <2>7 DEF Served
  <1> QED
    BY <1>4, <1>5, <1>6, <1>7

LEMMA SyncAccounts ==
  ASSUME ServedInvariant, NEW r \in Session, HandleSyncInventory(r), NEW s \in Session
  PROVE  Accounted(s)'
  <1>1. PICK u : u = Owner[r] /\ u \in Player
    BY ReplicationAssumption
  <1>2. PICK c : c = connections[u]
    OBVIOUS
  <1>3. PICK d : d = Queue(c, Other)
    OBVIOUS
  <1>4. /\ UNCHANGED <<loop, cut>> /\ Calls(r) /\ Accounted(s) /\ Accounted(r)
        /\ session[r] = "syncing" /\ session \in [Session -> Stages]
    BY DEF HandleSyncInventory, Handling, ServedInvariant, PictureInvariant, Typed
  <1>5. \/ /\ u \in DOMAIN connections /\ c.active
           /\ connections' = [connections EXCEPT ![u] = d]
           /\ session' = [session EXCEPT ![r] = IF d.healthy THEN "playing"
                                                ELSE "unregistering"]
        \/ /\ connections' = connections
           /\ session' = [session EXCEPT ![r] = "unregistering"]
    BY <1>1, <1>2, <1>3 DEF HandleSyncInventory, Answer
  <1>6. CASE s # r
    <2>1. session'[s] = session[s]
      BY <1>4, <1>5, <1>6
    <2>2. ASSUME NEW v \in DOMAIN connections \ {u}
          PROVE  v \in DOMAIN connections' /\ connections'[v] = connections[v]
      BY <1>5
    <2> QED
      BY <1>1, <1>4, <1>6, <2>1, <2>2, CalledAccounted DEF Running
  <1>7. CASE s = r /\ session'[r] = "unregistering"
    BY <1>7 DEF Accounted
  <1>8. CASE /\ s = r /\ u \in DOMAIN connections /\ c.active /\ d.healthy
             /\ connections' = [connections EXCEPT ![u] = d]
             /\ session'[r] = "playing"
    <2>1. PICK own : Typed /\ Owning(own) /\ Connected(own)
      BY DEF ServedInvariant, PictureInvariant
    <2>2. Step(c, d, u, own, u)
      BY <1>2, <1>3, <1>8, <2>1, OtherKeeps DEF Connected
    <2>3. d.session = c.session /\ d.active
      BY <1>8, <2>2 DEF Step, Carries
    <2>4. SUFFICES ASSUME Running', r \notin usurped' PROVE Served(r)' \/ GivenUp(r)'
      BY <1>4, <1>8 DEF Accounted
    <2>5. Running /\ r \notin usurped
      BY <1>4, <2>4 DEF Running, Calls
    <2>6. Served(r) \/ GivenUp(r)'
      BY <1>4, <2>5 DEF Accounted, GivenUp
    <2>7. connections'[u] = d /\ u \in DOMAIN connections'
      BY <1>8
    <2> QED
      BY <1>1, <1>2, <1>8, <2>3, <2>6, <2>7 DEF Served
  <1> QED
    BY <1>4, <1>5, <1>6, <1>7, <1>8

LEMMA UnregisterAccounts ==
  ASSUME ServedInvariant, NEW r \in Session, HandleUnregister(r), NEW s \in Session
  PROVE  Accounted(s)'
  <1>1. /\ UNCHANGED <<loop, cut>> /\ Calls(r) /\ Accounted(s)
        /\ connections' = Without(connections, Owner[r]) /\ session \in [Session -> Stages]
        /\ \E next \in {"gone", "disconnecting"} : session' = [session EXCEPT ![r] = next]
    BY DEF HandleUnregister, Handling, Answer, ServedInvariant, PictureInvariant, Typed
  <1>2. CASE s # r
    <2>1. session'[s] = session[s]
      BY <1>1, <1>2
    <2>2. ASSUME NEW v \in DOMAIN connections \ {Owner[r]}
          PROVE  v \in DOMAIN connections' /\ connections'[v] = connections[v]
      BY <1>1, WithoutValue DEF Without, Restrict
    <2> QED
      BY <1>1, <1>2, <2>1, <2>2, CalledAccounted DEF Running
  <1>3. CASE s = r
    BY <1>1, <1>3 DEF Accounted
  <1> QED
    BY <1>2, <1>3

\* The sessions that a dispatch gives up.
LEMMA DispatchGivesUp ==
  ASSUME Dispatch
  PROVE  /\ cut \subseteq cut'
         /\ \A u \in Overflowed : \E d \in cut' : d.session = connections[u].session
         /\ \A d \in cut' \ cut : \E u \in Overflowed : d.session = connections[u].session
         /\ \A d, e \in cut' \ cut : d # e =>
              \E u, v \in Overflowed : /\ u # v /\ d.session = connections[u].session
                                       /\ e.session = connections[v].session
  <1>1. PICK taken \in [Overflowed -> BOOLEAN] :
          cut' = cut \cup {[session |-> connections[u].session, taken |-> taken[u]] :
                             u \in Overflowed}
    BY DEF Dispatch, TryDisconnect
  <1>2. ASSUME NEW u \in Overflowed PROVE \E d \in cut' : d.session = connections[u].session
    <2>1. [session |-> connections[u].session, taken |-> taken[u]] \in cut'
      BY <1>1
    <2> QED
      BY <2>1
  <1>3. ASSUME NEW d \in cut' \ cut
        PROVE  \E u \in Overflowed : d = [session |-> connections[u].session, taken |-> taken[u]]
    BY <1>1
  <1>4. ASSUME NEW d \in cut' \ cut, NEW e \in cut' \ cut, d # e
        PROVE  \E u, v \in Overflowed : /\ u # v /\ d.session = connections[u].session
                                        /\ e.session = connections[v].session
    <2>1. PICK u \in Overflowed : d = [session |-> connections[u].session, taken |-> taken[u]]
      BY <1>3
    <2>2. PICK v \in Overflowed : e = [session |-> connections[v].session, taken |-> taken[v]]
      BY <1>3
    <2> QED
      BY <1>4, <2>1, <2>2
  <1> QED
    BY <1>1, <1>2, <1>3, <1>4

\* A connection that a dispatch loses is given up.
LEMMA DispatchAccounts ==
  ASSUME ServedInvariant, Dispatch, NEW s \in Session
  PROVE  Accounted(s)'
  <1>1. PICK own : Typed /\ Owning(own) /\ Connected(own)
    BY DEF ServedInvariant, PictureInvariant
  <1>2. PICK e : e = Head(events)
    OBVIOUS
  <1>3. /\ UNCHANGED <<session, usurped>> /\ Accounted(s) /\ Running
        /\ GivenUp(s) => GivenUp(s)'
    BY DispatchGivesUp DEF Dispatch, histories, ServedInvariant, GivenUp
  <1>4. /\ DOMAIN connections' = DOMAIN connections
        /\ \A u \in DOMAIN connections : Carries(connections[u], connections'[u])
    BY <1>1, <1>2, DispatchConnects DEF Step
  <1>5. Waits(s) => Waits(s)'
    BY <1>4 DEF Waits, Carries
  <1>6. Served(s) => Served(s)' \/ GivenUp(s)'
    <2>1. SUFFICES ASSUME Served(s), ~Served(s)' PROVE GivenUp(s)'
      OBVIOUS
    <2>2. Owner[s] \in DOMAIN connections /\ connections[Owner[s]].session = s
      BY <2>1 DEF Served
    <2>3. Owner[s] \in Overflowed
      BY <1>4, <2>1, <2>2 DEF Served, Overflowed, Carries
    <2> QED
      BY <2>2, <2>3, DispatchGivesUp DEF GivenUp
  <1> QED
    BY <1>3, <1>5, <1>6 DEF Accounted

\* It was healthy until then, and connections of two players are of two sessions.
LEMMA DispatchSettles ==
  ASSUME ServedInvariant, Dispatch
  PROVE  Settled'
  <1>1. PICK own : Typed /\ Owning(own) /\ Connected(own)
    BY DEF ServedInvariant, PictureInvariant
  <1>2. PICK e : e = Head(events)
    OBVIOUS
  <1>3. UNCHANGED session /\ Settled
    BY DEF Dispatch, ServedInvariant
  <1>4. /\ DOMAIN connections' = DOMAIN connections
        /\ \A u \in DOMAIN connections : Carries(connections[u], connections'[u])
    BY <1>1, <1>2, DispatchConnects DEF Step
  <1>5. \A u \in DOMAIN connections : Owner[connections[u].session] = u
    BY <1>1 DEF Connected, IsConnection
  <1>6. ASSUME NEW u \in Overflowed
        PROVE  /\ u \in DOMAIN connections /\ connections[u].healthy /\ ~connections'[u].healthy
               /\ \A d \in cut : d.session # connections[u].session
               /\ session[connections[u].session] # "registering"
    BY <1>3 DEF Overflowed, Settled, GivenUp
  <1>7. ASSUME NEW d \in cut' PROVE session[d.session] # "registering"
    BY <1>3, <1>6, DispatchGivesUp DEF Settled
  <1>8. ASSUME NEW d \in cut', NEW f \in cut', d.session = f.session PROVE d = f
    <2>1. CASE d \in cut /\ f \in cut
      BY <1>3, <1>8, <2>1 DEF Settled
    <2>2. CASE d \in cut <=> f \notin cut
      BY <1>6, <1>8, <2>2, DispatchGivesUp
    <2>3. CASE d \notin cut /\ f \notin cut
      <3> SUFFICES ASSUME d # f PROVE FALSE
        OBVIOUS
      <3>1. PICK u \in Overflowed, v \in Overflowed :
              u # v /\ d.session = connections[u].session /\ f.session = connections[v].session
        BY <2>3, DispatchGivesUp
      <3>2. Owner[d.session] = u /\ Owner[f.session] = v
        BY <1>5, <1>6, <3>1
      <3> QED
        BY <1>8, <3>1, <3>2
    <2> QED
      BY <2>1, <2>2, <2>3
  <1>9. ASSUME NEW u \in DOMAIN connections
        PROVE  /\ session[connections'[u].session] # "registering"
               /\ connections'[u].healthy =>
                    \A d \in cut' : d.session # connections'[u].session
    <2>1. /\ connections'[u].session = connections[u].session
          /\ connections'[u].healthy => connections[u].healthy
      BY <1>4 DEF Carries
    <2>2. ASSUME connections'[u].healthy, NEW d \in cut', d.session = connections'[u].session
          PROVE  FALSE
      <3>1. d \notin cut
        BY <1>3, <2>1, <2>2 DEF Settled, GivenUp
      <3>2. PICK v \in Overflowed : d.session = connections[v].session
        BY <3>1, DispatchGivesUp
      <3>3. Owner[connections[v].session] = v /\ Owner[connections[u].session] = u
        BY <1>5, <1>6, <1>9, <3>2
      <3>4. v = u
        BY <2>1, <2>2, <3>2, <3>3
      <3> QED
        BY <1>6, <2>2, <3>4
    <2> QED
      BY <1>3, <2>1, <2>2 DEF Settled
  <1> QED
    BY <1>3, <1>4, <1>7, <1>8, <1>9 DEF Settled, GivenUp

\* Where nothing is given up, connections keep their sessions, and an unhealthy
\* one is not healthy again.
LEMMA AsideSettles ==
  ASSUME Settled, UNCHANGED cut,
         \A s : session[s] # "registering" => session'[s] # "registering",
         \A u \in DOMAIN connections' :
           /\ u \in DOMAIN connections /\ connections'[u].session = connections[u].session
           /\ connections'[u].healthy => connections[u].healthy
  PROVE  Settled'
  BY DEF Settled, GivenUp

\* The other steps of the replication thread.
LEMMA HandlingSettles ==
  ASSUME ServedInvariant, NEW r \in Session, Handle(r)
  PROVE  Settled'
  <1>1. /\ Settled /\ UNCHANGED cut /\ session \in [Session -> Stages]
        /\ \E next \in Stages \ {"registering"} : session' = [session EXCEPT ![r] = next]
    BY DEF Handle, HandleRegister, HandleActivate, HandleSyncInventory, HandleUnregister,
           Handling, Answer, ServedInvariant, PictureInvariant, Typed, Stages, Calling
  <1>2. \A s : session[s] # "registering" => session'[s] # "registering"
    BY <1>1
  <1>3. PICK u : u = Owner[r] /\ u \in Player
    BY ReplicationAssumption
  <1>4. PICK own : Typed /\ Owning(own) /\ Connected(own)
    BY DEF ServedInvariant, PictureInvariant
  <1>5. PICK c : c = connections[u]
    OBVIOUS
  <1>6. CASE HandleRegister(r)
    <2>1. CASE connections' = connections
      BY <1>1, <1>2, <2>1, AsideSettles
    <2>2. CASE /\ u \notin DOMAIN connections
               /\ connections' = [v \in DOMAIN connections \cup {u} |->
                                    IF v = u THEN NewConnection(r) ELSE connections[v]]
      <3>1. connections'[u].session = r /\ session'[r] # "registering"
        BY <1>1, <2>2 DEF NewConnection
      <3>2. ~GivenUp(r)'
        BY <1>1, <1>6 DEF HandleRegister, Settled, GivenUp
      <3>3. \A v \in DOMAIN connections' \ {u} :
              v \in DOMAIN connections /\ connections'[v] = connections[v]
        BY <2>2
      <3> QED
        BY <1>1, <1>2, <3>1, <3>2, <3>3 DEF Settled, GivenUp
    <2> QED
      BY <1>3, <1>6, <2>1, <2>2 DEF HandleRegister
  <1>7. CASE connections' = Without(connections, u)
    <2>1. \A v \in DOMAIN connections' :
            v \in DOMAIN connections /\ connections'[v] = connections[v]
      BY <1>7 DEF Without, Restrict
    <2> QED
      BY <1>1, <1>2, <2>1, AsideSettles
  <1>8. ASSUME NEW d, u \in DOMAIN connections, connections' = [connections EXCEPT ![u] = d],
               d.session = c.session, d.healthy => c.healthy
        PROVE  Settled'
    BY <1>1, <1>2, <1>5, <1>8, AsideSettles
  <1>9. CASE HandleActivate(r)
    <2>1. PICK d : d = Activated(u)
      OBVIOUS
    <2>2. CASE /\ u \in DOMAIN connections /\ ~c.active /\ c.healthy
               /\ connections' = [connections EXCEPT ![u] = d]
      <3>1. Owners(own) /\ IsConnection(c, u) /\ Sane(c, own)
        BY <1>4, <1>5, <2>2 DEF Owning, Connected
      <3>2. d.session = c.session
        BY <1>3, <1>5, <2>1, <2>2, <3>1, ActivatedServes
      <3> QED
        BY <1>8, <2>2, <3>2
    <2> QED
      BY <1>3, <1>5, <1>7, <1>9, <2>1, <2>2 DEF HandleActivate
  <1>10. CASE HandleSyncInventory(r)
    <2>1. PICK d : d = Queue(c, Other)
      OBVIOUS
    <2>2. CASE connections' = connections
      BY <1>1, <1>2, <2>2, AsideSettles
    <2>3. CASE u \in DOMAIN connections /\ connections' = [connections EXCEPT ![u] = d]
      <3>1. Step(c, d, u, own, u)
        BY <1>4, <1>5, <2>1, <2>3, OtherKeeps DEF Connected
      <3>2. d.session = c.session /\ (d.healthy => c.healthy)
        BY <3>1 DEF Step, Carries
      <3> QED
        BY <1>8, <2>3, <3>2
    <2> QED
      BY <1>3, <1>5, <1>10, <2>1, <2>2, <2>3 DEF HandleSyncInventory
  <1> QED
    BY <1>3, <1>6, <1>7, <1>9, <1>10 DEF Handle, HandleUnregister

\* A flush forgets the unhealthy connections and keeps the others.
LEMMA FlushRetains ==
  ASSUME ServedInvariant, Flush
  PROVE  /\ DOMAIN connections' = {u \in DOMAIN connections : connections[u].healthy}
         /\ \A u \in DOMAIN connections' :
              /\ connections'[u].session = connections[u].session
              /\ connections'[u].active = connections[u].active
              /\ connections'[u].healthy
  <1>1. PICK own : Connected(own)
    BY DEF ServedInvariant, PictureInvariant
  <1>2. PICK room \in [DOMAIN connections -> Room] :
          connections' = [u \in {v \in DOMAIN room : connections[v].healthy} |->
            [connections[u] EXCEPT
               !.pending = IF @ > room[u] THEN @ - room[u] ELSE 0]]
    BY DEF Flush
  <1>3. ASSUME NEW u \in DOMAIN connections, connections[u].healthy
        PROVE  /\ u \in DOMAIN connections' /\ connections'[u].session = connections[u].session
               /\ connections'[u].active = connections[u].active
               /\ connections'[u].healthy
    <2>1. PICK c : c = connections[u]
      OBVIOUS
    <2>2. IsConnection(c, u)
      BY <1>1, <2>1 DEF Connected
    <2>3. u \in DOMAIN connections'
      BY <1>2, <1>3
    <2>4. connections'[u] = [c EXCEPT
            !.pending = IF c.pending > room[u] THEN c.pending - room[u] ELSE 0]
      BY <1>2, <1>3, <2>1
    <2>5. connections'[u] = [session |-> c.session, active |-> c.active,
            healthy |-> c.healthy, entities |-> c.entities, picture |-> c.picture,
            pending |-> IF c.pending > room[u] THEN c.pending - room[u] ELSE 0]
      BY <2>2, <2>4 DEF IsConnection
    <2> QED
      BY <1>3, <2>1, <2>3, <2>5
  <1>4. DOMAIN connections' = {u \in DOMAIN connections : connections[u].healthy}
    BY <1>2
  <1> QED
    BY <1>3, <1>4

LEMMA FlushAccounts ==
  ASSUME ServedInvariant, Flush, NEW s \in Session
  PROVE  Accounted(s)'
  <1>1. /\ UNCHANGED <<session, usurped, cut>> /\ Accounted(s) /\ Running
    BY DEF Flush, histories, ServedInvariant
  <1>2. (Waits(s) => Waits(s)') /\ (Served(s) => Served(s)')
    <2>1. PICK u : u = Owner[s]
      OBVIOUS
    <2>2. ASSUME u \in DOMAIN connections, connections[u].healthy
          PROVE  /\ u \in DOMAIN connections' /\ connections'[u].session = connections[u].session
                 /\ connections'[u].active = connections[u].active
                 /\ connections'[u].healthy
      BY <2>2, FlushRetains
    <2> QED
      BY <2>1, <2>2 DEF Waits, Served
  <1> QED
    BY <1>1, <1>2 DEF Accounted, GivenUp

\* The steps of the sessions and of the game, and a publication.
LEMMA OthersAccount ==
  ASSUME ServedInvariant, NEW s \in Session,
         \/ \E r \in Session :
              \/ ConnectPlayer(r) \/ ConnectRefused(r) \/ Leave(r) \/ DisconnectPlayer(r)
              \/ CallFails(r) \/ MovePlayer(r) \/ SelectHotbar(r) \/ RespawnPlayer(r)
         \/ \E u \in Player : TeleportPlayer(u) \/ KillPlayer(u)
         \/ \E t \in Session \cup {Console} : Publish(t)
         \/ UNCHANGED vars
  PROVE  Accounted(s)'
  <1>1. Accounted(s) /\ session \in [Session -> Stages]
    BY DEF ServedInvariant, PictureInvariant, Typed
  <1>2. ASSUME NEW r \in Session, ConnectPlayer(r) PROVE Accounted(s)'
    <2>1. /\ session[r] = "connecting" /\ session' = [session EXCEPT ![r] = "activating"]
          /\ UNCHANGED <<loop, connections, cut, usurped>>
      BY <1>2 DEF ConnectPlayer
    <2>2. \/ session'[s] = session[s]
          \/ session[s] = "connecting" /\ session'[s] = "activating"
      BY <1>1, <2>1
    <2> QED
      BY <1>1, <2>1, <2>2, AsideAccounted DEF Running
  <1>3. ASSUME NEW r \in Session, ConnectRefused(r) \/ Leave(r) \/ DisconnectPlayer(r)
        PROVE  Accounted(s)'
    <2>1. /\ \E next \in {"backing out", "unregistering", "gone"} :
               session' = [session EXCEPT ![r] = next]
          /\ UNCHANGED <<loop, connections, cut, usurped>>
      BY <1>3 DEF ConnectRefused, Leave, DisconnectPlayer, histories
    <2>2. session'[s] = session[s] \/ session'[s] \in {"backing out", "unregistering", "gone"}
      BY <1>1, <2>1
    <2> QED
      BY <1>1, <2>1, <2>2, AsideAccounted DEF Running
  <1>4. ASSUME NEW r \in Session, CallFails(r) PROVE Accounted(s)'
    BY <1>4 DEF CallFails, Accounted, Running
  <1>5. ASSUME UNCHANGED <<session, loop, connections, cut, usurped>> PROVE Accounted(s)'
    BY <1>1, <1>5, AsideAccounted DEF Running
  <1>6. ASSUME NEW r \in Session, MovePlayer(r) \/ SelectHotbar(r) \/ RespawnPlayer(r)
        PROVE  Accounted(s)'
    BY <1>5, <1>6 DEF MovePlayer, SelectHotbar, RespawnPlayer, Untouched
  <1>7. ASSUME NEW u \in Player, TeleportPlayer(u) \/ KillPlayer(u) PROVE Accounted(s)'
    BY <1>5, <1>7 DEF TeleportPlayer, KillPlayer, Untouched
  <1>8. ASSUME NEW t, Publish(t) PROVE Accounted(s)'
    BY <1>5, <1>8 DEF Publish
  <1>9. CASE UNCHANGED vars
    BY <1>5, <1>9 DEF vars, histories
  <1> QED
    BY <1>2, <1>3, <1>4, <1>6, <1>7, <1>8, <1>9

LEMMA OthersSettle ==
  ASSUME ServedInvariant,
         \/ \E r \in Session :
              \/ ConnectPlayer(r) \/ ConnectRefused(r) \/ Leave(r) \/ DisconnectPlayer(r)
              \/ CallFails(r) \/ MovePlayer(r) \/ SelectHotbar(r) \/ RespawnPlayer(r)
         \/ \E u \in Player : TeleportPlayer(u) \/ KillPlayer(u)
         \/ \E t \in Session \cup {Console} : Publish(t)
         \/ DispatchFails \/ Flush \/ Shutdown \/ UNCHANGED vars
  PROVE  Settled'
  <1>1. Settled /\ session \in [Session -> Stages]
    BY DEF ServedInvariant, PictureInvariant, Typed
  <1>2. UNCHANGED cut
    BY DEF ConnectPlayer, ConnectRefused, Leave, DisconnectPlayer, CallFails, MovePlayer,
           SelectHotbar, RespawnPlayer, TeleportPlayer, KillPlayer, Untouched, Publish,
           DispatchFails, Flush, Shutdown, vars
  <1>3. \/ UNCHANGED session
        \/ \E r \in Session, next \in Stages \ {"registering"} :
             session' = [session EXCEPT ![r] = next]
    <2>1. ASSUME NEW r \in Session,
                 ConnectPlayer(r) \/ ConnectRefused(r) \/ Leave(r) \/ DisconnectPlayer(r)
          PROVE  \E next \in Stages \ {"registering"} : session' = [session EXCEPT ![r] = next]
      BY <2>1 DEF ConnectPlayer, ConnectRefused, Leave, DisconnectPlayer, Stages, Calling
    <2>2. ASSUME NEW r \in Session, CallFails(r)
          PROVE  \E next \in Stages \ {"registering"} : session' = [session EXCEPT ![r] = next]
      <3>1. session[r] \in Calling
        BY <2>2 DEF CallFails
      <3>2. \E next \in {"gone", "unregistering", "disconnecting"} :
              session' = [session EXCEPT ![r] = next]
        BY <2>2, <3>1 DEF CallFails, Answer, Calling
      <3> QED
        BY <3>2 DEF Stages, Calling
    <2> QED
      BY <2>1, <2>2
         DEF MovePlayer, SelectHotbar, RespawnPlayer, TeleportPlayer, KillPlayer, Untouched,
             Publish, DispatchFails, Flush, Shutdown, vars
  <1>4. \A s : session[s] # "registering" => session'[s] # "registering"
    <2>1. CASE UNCHANGED session
      BY <2>1
    <2>2. ASSUME NEW r \in Session, NEW next \in Stages \ {"registering"},
                 session' = [session EXCEPT ![r] = next]
          PROVE  \A s : session[s] # "registering" => session'[s] # "registering"
      BY <1>1, <2>2
    <2> QED
      BY <1>3, <2>1, <2>2
  <1>5. \A u \in DOMAIN connections' :
          /\ u \in DOMAIN connections /\ connections'[u].session = connections[u].session
          /\ connections'[u].healthy => connections[u].healthy
    <2>1. CASE UNCHANGED connections
      BY <2>1
    <2>2. CASE connections' = Empty
      BY <2>2 DEF Empty
    <2>3. CASE Flush
      <3>1. ASSUME NEW u \in DOMAIN connections'
            PROVE  /\ u \in DOMAIN connections /\ connections[u].healthy
                   /\ connections'[u].session = connections[u].session
        BY <2>3, FlushRetains
      <3> QED
        BY <3>1
    <2> QED
      BY <2>1, <2>2, <2>3
         DEF ConnectPlayer, ConnectRefused, Leave, DisconnectPlayer, CallFails, MovePlayer,
             SelectHotbar, RespawnPlayer, TeleportPlayer, KillPlayer, Untouched, Publish,
             DispatchFails, Shutdown, vars
  <1> QED
    BY <1>1, <1>2, <1>4, <1>5, AsideSettles

LEMMA ServedInductive == ServedInvariant /\ [ReplicationNext]_vars => ServedInvariant'
  <1> SUFFICES ASSUME ServedInvariant, [ReplicationNext]_vars PROVE ServedInvariant'
    OBVIOUS
  <1>1. PictureInvariant'
    BY PictureInductive DEF ServedInvariant
  <1>2. ASSUME NEW s \in Session PROVE Accounted(s)'
    <2>1. ASSUME NEW r \in Session, Handle(r) PROVE Accounted(s)'
      BY <2>1, RegisterAccounts, ActivateAccounts, SyncAccounts, UnregisterAccounts
      DEF Handle
    <2>2. CASE Dispatch
      BY <2>2, DispatchAccounts
    <2>3. CASE DispatchFails \/ Shutdown
      BY <2>3 DEF DispatchFails, Shutdown, Accounted, Running
    <2>4. CASE Flush
      BY <2>4, FlushAccounts
    <2> QED
      BY <2>1, <2>2, <2>3, <2>4, OthersAccount DEF ReplicationNext
  <1>3. Settled'
    BY HandlingSettles, DispatchSettles, OthersSettle DEF ReplicationNext
  <1> QED
    BY <1>1, <1>2, <1>3 DEF ServedInvariant

\* However full the runtime's channel is: a player in the game is served through
\* the connection of its own session, or the replication thread has given that
\* connection up, unless another session of it has called for the connection;
\* a session is given up once, and is not served from then on.
THEOREM PlayersAreServed == ReplicationSpec => []ServedOrGivenUp
  <1>1. ReplicationInit => ServedInvariant
    <2> SUFFICES ASSUME ReplicationInit PROVE ServedInvariant
      OBVIOUS
    <2>1. /\ \A s \in Session : session[s] = "registering"
          /\ cut = {} /\ DOMAIN connections = {}
      BY DEF ReplicationInit, Empty
    <2> QED
      BY <2>1, PictureInitially DEF ServedInvariant, Accounted, Settled
  <1>2. ServedInvariant /\ [ReplicationNext]_vars => ServedInvariant'
    BY ServedInductive
  <1>3. ServedInvariant => ServedOrGivenUp
    BY DEF ServedInvariant, Settled, Accounted, ServedOrGivenUp, Served
  <1> QED
    BY <1>1, <1>2, <1>3, PTL DEF ReplicationSpec

===============================================================================
