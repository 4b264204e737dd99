--------------------------- MODULE SharedWorld_proofs ---------------------------
(***************************************************************************)
(* Proofs about the world that connections share and about the threads     *)
(* that save it and the game.                                              *)
(***************************************************************************)
EXTENDS SharedWorld, SnapshotService, SequenceTheorems, TLAPS

(***************************************************************************)
(* The shared world, for any number of connections, positions and chunks   *)
(* and any limits of the queues: the queues keep their bound and one       *)
(* update for a position, and every client sees the world or has the       *)
(* update queued that will show it.                                        *)
(***************************************************************************)

Updates == [position : Position, current : {Air, Stone}]

Distinct(q) == \A i, j \in 1 .. Len(q) : q[i].position = q[j].position => i = j

(* A queue as PendingWorldUpdates keeps it.                                *)
IsQueue(q) == q \in Seq(Updates) /\ Len(q) <= QueueLimit /\ Distinct(q)

TypesOK ==
  /\ world \in [Position -> Block]
  /\ pending \in [Connection -> Seq(Updates)]
  /\ loop \in [Connection -> {"gone", "show", "read", "checked", "drain"}]
  /\ target \in [Connection -> Updates]
  /\ shown \in [Connection -> SUBSET Chunk] /\ todo \in [Connection -> SUBSET Chunk]
  /\ view \in [Connection -> [Position -> Block \cup {Unknown}]]
  /\ stale \in [Connection -> SUBSET Position]

QueuesOK == \A c \in Connection : IsQueue(pending[c])

(* What waits in a queue is the world's last word on its position, whether *)
(* or not the client has the chunk: a chunk shown later relies on it.      *)
QueuesAreCurrent ==
  \A c \in Subscribed : \A p \in Position \ stale[c] :
    p \in PositionsIn(pending[c]) => Update(p, world[p]) \in Range(pending[c])

(* What no update is queued for is seen as it is.                          *)
ViewsAreCurrent ==
  \A c \in Subscribed : \A p \in Position \ stale[c] :
    ChunkOf[p] \in shown[c] /\ p \notin PositionsIn(pending[c]) => view[c][p] = world[p]

(* A client knows every block of the chunks it has: it ignores an update   *)
(* only for the others.                                                    *)
ShownIsKnown ==
  \A c \in Connection : \A p \in Position :
    ChunkOf[p] \in shown[c] => view[c][p] # Unknown

(* Who is not subscribed has nothing.                                      *)
Vacant ==
  \A c \in Connection : loop[c] = "gone" => pending[c] = <<>> /\ shown[c] = {}

WorldInv ==
  /\ TypesOK /\ QueuesOK /\ Vacant
  /\ QueuesAreCurrent /\ ViewsAreCurrent /\ ShownIsKnown

-----------------------------------------------------------------------------
(* What is in a queue, by the places of its updates.                       *)
LEMMA QueueContents ==
  ASSUME NEW q \in Seq(Updates)
  PROVE  /\ Len(q) \in Nat /\ DOMAIN q = 1 .. Len(q)
         /\ \A i \in 1 .. Len(q) : q[i] \in Updates
         /\ \A p : p \in PositionsIn(q) <=> \E i \in 1 .. Len(q) : q[i].position = p
         /\ \A v : v \in Range(q) <=> \E i \in 1 .. Len(q) : q[i] = v
BY DEF PositionsIn, Range

(* Two updates of a position in one queue are the same one.                *)
LEMMA OneUpdate ==
  ASSUME NEW q \in Seq(Updates), Distinct(q), NEW v \in Range(q), NEW w \in Range(q),
         v.position = w.position
  PROVE  v = w
BY QueueContents DEF Distinct

(* A position that waits is in an update.                                  *)
LEMMA PositionHasUpdate ==
  ASSUME NEW q \in Seq(Updates), NEW p
  PROVE  p \in PositionsIn(q) <=> \E v \in Range(q) : v.position = p
BY QueueContents

(* Making room takes at most the front update away.                        *)
LEMMA RoomIsMade ==
  ASSUME NEW q, IsQueue(q)
  PROVE  /\ MakeRoom(q) \in Seq(Updates) /\ Len(MakeRoom(q)) < QueueLimit
         /\ Distinct(MakeRoom(q))
         /\ Range(MakeRoom(q)) \subseteq Range(q)
<1> USE SharedWorldAssumption DEF IsQueue
<1>1. CASE Len(q) = QueueLimit
  <2>1. q # <<>> /\ MakeRoom(q) = Tail(q) /\ Len(q) \in Nat
    BY <1>1 DEF MakeRoom
  <2>2. /\ Tail(q) \in Seq(Updates) /\ Len(Tail(q)) = Len(q) - 1
        /\ \A i \in 1 .. Len(Tail(q)) : Tail(q)[i] = q[i + 1]
    BY <2>1, HeadTailProperties
  <2>3. Distinct(Tail(q))
    BY <2>1, <2>2 DEF Distinct
  <2>4. Range(Tail(q)) \subseteq Range(q)
    <3> SUFFICES ASSUME NEW v \in Range(Tail(q)) PROVE v \in Range(q)
      OBVIOUS
    <3>0. PICK t \in Seq(Updates) : t = Tail(q)
      BY <2>2
    <3>1. PICK i \in 1 .. Len(t) : t[i] = v
      BY <3>0, QueueContents
    <3>2. i + 1 \in 1 .. Len(q) /\ q[i + 1] = v
      BY <2>1, <2>2, <3>0, <3>1
    <3> QED BY <3>2, QueueContents
  <2> QED BY <1>1, <2>1, <2>2, <2>3, <2>4
<1>2. CASE Len(q) # QueueLimit
  BY <1>2, QueueContents DEF MakeRoom
<1> QED BY <1>1, <1>2

(* A push keeps the queue's shape.  Its own update is in the queue, and of *)
(* the others only the front one may be lost, to a full queue.             *)
LEMMA Pushed ==
  ASSUME NEW q, IsQueue(q), NEW u \in Updates
  PROVE  /\ IsQueue(PushUpdate(q, u))
         /\ u \in Range(PushUpdate(q, u))
         /\ \A v \in Range(PushUpdate(q, u)) : v = u \/ v \in Range(q)
         /\ \A v \in Range(q) : v.position # u.position
              /\ v.position \in PositionsIn(PushUpdate(q, u)) => v \in Range(PushUpdate(q, u))
<1> DEFINE r == PushUpdate(q, u)
<1>0. q \in Seq(Updates) /\ Len(q) <= QueueLimit /\ Distinct(q)
  BY DEF IsQueue
<1>1. CASE u.position \in PositionsIn(q)
  <2>1. r = [i \in 1 .. Len(q) |-> IF q[i].position = u.position THEN u ELSE q[i]]
    BY <1>0, <1>1, QueueContents DEF PushUpdate, Replace
  <2>2. /\ Len(q) \in Nat
        /\ \A i \in 1 .. Len(q) : r[i] = IF q[i].position = u.position THEN u ELSE q[i]
        /\ \A i \in 1 .. Len(q) : r[i] \in Updates /\ r[i].position = q[i].position
    BY <1>0, <2>1, QueueContents
  <2>3. r \in Seq(Updates) /\ Len(r) = Len(q)
    BY <2>1, <2>2, SeqDef
  <2>4. IsQueue(r)
    BY <1>0, <2>2, <2>3 DEF IsQueue, Distinct
  <2>5. u \in Range(r)
    BY <1>0, <1>1, <2>2, <2>3, QueueContents
  <2>6. \A v \in Range(r) : v = u \/ v \in Range(q)
    BY <1>0, <2>2, <2>3, QueueContents
  <2>7. \A v \in Range(q) : v.position # u.position => v \in Range(r)
    BY <1>0, <2>2, <2>3, QueueContents
  <2> QED BY <2>4, <2>5, <2>6, <2>7
<1>2. CASE u.position \notin PositionsIn(q)
  <2> DEFINE m == MakeRoom(q)
  <2>1. r = Append(m, u)
    BY <1>2 DEF PushUpdate
  <2>2. /\ m \in Seq(Updates) /\ Len(m) < QueueLimit /\ Distinct(m)
        /\ Range(m) \subseteq Range(q) /\ Len(m) \in Nat
    BY RoomIsMade, QueueContents
  <2> HIDE DEF m
  <2>3. /\ r \in Seq(Updates) /\ Len(r) = Len(m) + 1 /\ r[Len(m) + 1] = u
        /\ \A i \in 1 .. Len(m) : r[i] = m[i]
    BY <2>1, <2>2
  <2>4. \A v \in Range(r) : v = u \/ v \in Range(m)
    BY <2>2, <2>3, QueueContents
  <2>5. u \in Range(r) /\ Range(m) \subseteq Range(r)
    BY <2>2, <2>3, QueueContents
  <2>6. \A i \in 1 .. Len(m) : m[i].position # u.position
    BY <1>0, <1>2, <2>2, QueueContents
  <2>7. IsQueue(r)
    BY <2>2, <2>3, <2>6, SharedWorldAssumption DEF IsQueue, Distinct
  <2>8. ASSUME NEW v \in Range(q), v.position # u.position, v.position \in PositionsIn(r)
        PROVE  v \in Range(r)
    <3>1. PICK w \in Range(r) : w.position = v.position
      BY <2>3, <2>8, PositionHasUpdate
    <3>2. w \in Range(q)
      BY <2>2, <2>4, <2>8, <3>1
    <3> QED BY <1>0, <3>1, <3>2, OneUpdate
  <2> QED BY <2>2, <2>4, <2>5, <2>7, <2>8
<1> QED BY <1>1, <1>2

(* A client that has the chunk sees what the handled update says.          *)
LEMMA ShownUpdate ==
  ASSUME NEW c \in Connection, NEW q \in Seq(Updates), Distinct(q), NEW p \in Position,
         view[c][p] # Unknown, NEW b, Update(p, b) \in Range(q)
  PROVE  Shown(c, q)[p] = b
<1> DEFINE place == CHOOSE i \in DOMAIN q : q[i].position = p
<1>1. PICK i \in 1 .. Len(q) : q[i] = Update(p, b)
  BY QueueContents
<1>2. p \in PositionsIn(q)
  BY <1>1, QueueContents DEF Update
<1>3. place \in 1 .. Len(q) /\ q[place].position = p
  BY <1>1, QueueContents DEF Update
<1>4. q[place] = q[i]
  BY <1>1, <1>3 DEF Update, Distinct
<1>5. Shown(c, q)[p] = q[place].current
  BY <1>2 DEF Shown
<1> QED BY <1>1, <1>4, <1>5 DEF Update

(* It keeps what it has of the positions that are not told of, and learns  *)
(* nothing of chunks it does not have.                                     *)
LEMMA ShownRest ==
  ASSUME TypesOK, NEW c \in Connection, NEW q \in Seq(Updates)
  PROVE  /\ Shown(c, q) \in [Position -> Block \cup {Unknown}]
         /\ \A p \in Position : p \notin PositionsIn(q) => Shown(c, q)[p] = view[c][p]
         /\ \A p \in Position : view[c][p] # Unknown => Shown(c, q)[p] # Unknown
<1>1. ASSUME NEW p \in Position, view[c][p] # Unknown, p \in PositionsIn(q)
      PROVE  Shown(c, q)[p] \in Block
  <2> DEFINE place == CHOOSE i \in DOMAIN q : q[i].position = p
  <2>1. place \in 1 .. Len(q)
    BY <1>1, QueueContents
  <2>2. q[place] \in Updates /\ Shown(c, q)[p] = q[place].current
    BY <1>1, <2>1, QueueContents DEF Shown
  <2> QED BY <2>2 DEF Updates, Block
<1>2. \A p \in Position : ~(view[c][p] # Unknown /\ p \in PositionsIn(q)) =>
        Shown(c, q)[p] = view[c][p]
  BY DEF Shown
<1>3. \A p \in Position : view[c][p] \in Block \cup {Unknown}
  BY DEF TypesOK
<1>4. Shown(c, q) = [p \in Position |-> Shown(c, q)[p]]
  BY DEF Shown
<1> QED BY <1>1, <1>2, <1>3, <1>4, SharedWorldAssumption

-----------------------------------------------------------------------------
(* Nobody is subscribed at first.                                          *)
LEMMA InitWorld == WorldInit => WorldInv
<1> SUFFICES ASSUME WorldInit PROVE WorldInv
  OBVIOUS
<1> USE SharedWorldAssumption DEF WorldInit
<1>1. NoTarget \in Updates
  BY DEF NoTarget, Update, Updates
<1>2. TypesOK
  BY <1>1 DEF TypesOK
<1>3. QueuesOK /\ Vacant
  BY DEF QueuesOK, IsQueue, Distinct, Vacant
<1>4. Subscribed = {}
  BY DEF Subscribed
<1>5. QueuesAreCurrent /\ ViewsAreCurrent /\ ShownIsKnown
  BY <1>4 DEF QueuesAreCurrent, ViewsAreCurrent, ShownIsKnown
<1> QED BY <1>2, <1>3, <1>5 DEF WorldInv

(* Steps that move the loop on, and leave the world, the queue and the     *)
(* client as they are.                                                     *)
LEMMA LoopPreserves ==
  ASSUME WorldInv, UNCHANGED <<world, pending, shown, view, stale>>,
         loop' \in [Connection -> {"gone", "show", "read", "checked", "drain"}],
         target' \in [Connection -> Updates], todo' \in [Connection -> SUBSET Chunk],
         \A c \in Connection : loop'[c] = "gone" => loop[c] = "gone"
  PROVE  WorldInv'
<1>1. TypesOK' /\ QueuesOK' /\ Vacant' /\ ShownIsKnown'
  BY DEF WorldInv, TypesOK, QueuesOK, Vacant, ShownIsKnown
<1>2. ASSUME NEW c \in Connection
      PROVE  loop[c] = "gone" => pending[c] = <<>> /\ shown[c] = {}
  BY DEF WorldInv, Vacant
<1>3. QueuesAreCurrent' /\ ViewsAreCurrent'
  BY <1>2 DEF WorldInv, QueuesAreCurrent, ViewsAreCurrent, Subscribed, PositionsIn
<1> QED BY <1>1, <1>3 DEF WorldInv

(* The steps of the loop for which that is so.                             *)
LEMMA QuietPreserves ==
  ASSUME WorldInv, NEW c \in Connection,
         \/ Subscribe(c) \/ AllShown(c) \/ ReadOther(c)
         \/ \E p \in Position : Interact(c, p)
  PROVE  WorldInv'
<1> USE SharedWorldAssumption
<1>1. CASE Subscribe(c)
  BY <1>1, LoopPreserves DEF Subscribe, WorldInv, TypesOK
<1>2. CASE AllShown(c) \/ ReadOther(c)
  BY <1>2, LoopPreserves DEF AllShown, ReadOther, WorldInv, TypesOK
<1>3. ASSUME NEW p \in Position, Interact(c, p) PROVE WorldInv'
  <2>1. Update(p, Air) \in Updates /\ Update(p, Stone) \in Updates
    BY DEF Update, Updates
  <2>2. /\ UNCHANGED <<world, pending, shown, view, stale, todo>>
        /\ loop' \in [Connection -> {"gone", "show", "read", "checked", "drain"}]
        /\ target' \in [Connection -> Updates]
        /\ \A d \in Connection : loop'[d] = "gone" => loop[d] = "gone"
    <3>1. /\ loop[c] = "read" /\ UNCHANGED <<world, pending, shown, view, stale, todo>>
          /\ loop' = [loop EXCEPT ![c] = "checked"] \/ loop' = [loop EXCEPT ![c] = "drain"]
          /\ \/ target' = target
             \/ target' = [target EXCEPT ![c] = Update(p, Air)]
             \/ target' = [target EXCEPT ![c] = Update(p, Stone)]
      BY <1>3 DEF Interact
    <3>2. /\ loop \in [Connection -> {"gone", "show", "read", "checked", "drain"}]
          /\ target \in [Connection -> Updates]
      BY DEF WorldInv, TypesOK
    <3>3. target' \in [Connection -> Updates]
      BY <2>1, <3>1, <3>2
    <3>4. loop' \in [Connection -> {"gone", "show", "read", "checked", "drain"}]
      BY <3>1, <3>2
    <3>5. \A d \in Connection : loop'[d] = "gone" => loop[d] = "gone"
      BY <3>1, <3>2
    <3> QED BY <3>1, <3>3, <3>4, <3>5
  <2> QED BY <2>2, LoopPreserves DEF WorldInv, TypesOK
<1> QED BY <1>1, <1>2, <1>3

(* A loop that ends takes its queue and its picture with it.               *)
LEMMA UnsubscribePreserves ==
  ASSUME WorldInv, NEW c \in Connection, Unsubscribe(c)
  PROVE  WorldInv'
<1> USE DEF Unsubscribe, WorldInv
<1>1. TypesOK' /\ Vacant'
  BY DEF TypesOK, Vacant
<1>2. QueuesOK'
  <2>1. IsQueue(<<>>)
    BY SharedWorldAssumption DEF IsQueue, Distinct
  <2> QED BY <2>1 DEF QueuesOK, TypesOK
<1>3. /\ \A d \in Connection : d # c => /\ pending'[d] = pending[d] /\ shown'[d] = shown[d]
                                       /\ view'[d] = view[d] /\ stale'[d] = stale[d]
      /\ Subscribed' = Subscribed \ {c} /\ shown'[c] = {}
  BY DEF TypesOK, QueuesOK, Subscribed
<1>4. QueuesAreCurrent' /\ ViewsAreCurrent'
  BY <1>3 DEF QueuesAreCurrent, ViewsAreCurrent, Subscribed
<1>5. ShownIsKnown'
  BY <1>3 DEF ShownIsKnown
<1> QED BY <1>1, <1>2, <1>4, <1>5

(* What is forgotten is neither shown nor known.                           *)
LEMMA RecenterPreserves ==
  ASSUME WorldInv, NEW c \in Connection, NEW centre \in Chunk, Recenter(c, centre)
  PROVE  WorldInv'
<1> USE DEF Recenter, WorldInv
<1>1. TypesOK'
  <2>1. view' \in [Connection -> [Position -> Block \cup {Unknown}]]
    BY DEF TypesOK
  <2> QED BY <2>1, SharedWorldAssumption DEF TypesOK
<1>2. QueuesOK' /\ Vacant'
  BY DEF QueuesOK, Vacant, TypesOK
<1>3. /\ UNCHANGED <<world, pending, stale>> /\ Subscribed' = Subscribed
      /\ \A d \in Connection : \A p \in Position : ChunkOf[p] \in shown'[d] =>
           ChunkOf[p] \in shown[d] /\ view'[d][p] = view[d][p]
  BY DEF TypesOK, Subscribed
<1>4. QueuesAreCurrent' /\ ViewsAreCurrent' /\ ShownIsKnown'
  BY <1>3 DEF QueuesAreCurrent, ViewsAreCurrent, ShownIsKnown, Subscribed, PositionsIn
<1> QED BY <1>1, <1>2, <1>4

(* A chunk is shown as the world is; a position of it is no longer behind, *)
(* unless an older update of it is still queued.                           *)
LEMMA ShowChunkPreserves ==
  ASSUME WorldInv, NEW c \in Connection, ShowChunk(c)
  PROVE  WorldInv'
<1> USE DEF WorldInv
<1>1. PICK k \in todo[c] :
       /\ todo' = [todo EXCEPT ![c] = @ \ {k}]
       /\ shown' = [shown EXCEPT ![c] = @ \cup {k}]
       /\ view' = [view EXCEPT ![c] =
            [p \in Position |-> IF ChunkOf[p] = k THEN world[p] ELSE @[p]]]
       /\ stale' = [stale EXCEPT ![c] =
            {p \in @ : ChunkOf[p] # k \/ p \in PositionsIn(pending[c])}]
  BY DEF ShowChunk
<1>2. loop[c] = "show" /\ UNCHANGED <<world, pending, loop, target>> /\ Subscribed' = Subscribed
  BY DEF ShowChunk, Subscribed
<1>3. TypesOK'
  <2>1. k \in Chunk
    BY DEF TypesOK
  <2>2. view' \in [Connection -> [Position -> Block \cup {Unknown}]]
    BY <1>1 DEF TypesOK
  <2>3. stale' \in [Connection -> SUBSET Position]
    BY <1>1 DEF TypesOK
  <2> QED BY <1>1, <1>2, <2>1, <2>2, <2>3 DEF TypesOK
<1>4. QueuesOK' /\ Vacant'
  BY <1>1, <1>2 DEF QueuesOK, Vacant, TypesOK
<1>5. /\ \A d \in Connection : d # c =>
           /\ shown'[d] = shown[d] /\ view'[d] = view[d] /\ stale'[d] = stale[d]
      /\ shown'[c] = shown[c] \cup {k}
      /\ \A p \in Position : view'[c][p] = IF ChunkOf[p] = k THEN world[p] ELSE view[c][p]
      /\ stale'[c] = {p \in stale[c] : ChunkOf[p] # k \/ p \in PositionsIn(pending[c])}
  BY <1>1 DEF TypesOK
<1>6. QueuesAreCurrent'
  BY <1>2, <1>5 DEF QueuesAreCurrent, Subscribed, PositionsIn
<1>7. ViewsAreCurrent'
  <2> SUFFICES ASSUME NEW d \in Subscribed, NEW p \in Position, p \notin stale'[d],
                      ChunkOf[p] \in shown'[d], p \notin PositionsIn(pending[d])
               PROVE  view'[d][p] = world[p]
    BY <1>2 DEF ViewsAreCurrent, PositionsIn
  <2> QED BY <1>5 DEF ViewsAreCurrent, Subscribed
<1>8. ShownIsKnown'
  <2> SUFFICES ASSUME NEW d \in Connection, NEW p \in Position, ChunkOf[p] \in shown'[d]
               PROVE  view'[d][p] # Unknown
    BY DEF ShownIsKnown
  <2>1. world[p] # Unknown
    BY SharedWorldAssumption DEF TypesOK
  <2> QED BY <1>5, <2>1 DEF ShownIsKnown
<1> QED BY <1>3, <1>4, <1>6, <1>7, <1>8

(* What a mutation does to a queue it is told of.                          *)
LEMMA ToldOf ==
  ASSUME WorldInv, NEW d \in Subscribed, NEW u \in Updates,
         world' = [world EXCEPT ![u.position] = u.current],
         pending'[d] = PushUpdate(pending[d], u), stale'[d] = StaleAfterPush(d, u),
         shown'[d] = shown[d], view'[d] = view[d]
  PROVE  /\ \A p \in Position \ stale'[d] :
              p \in PositionsIn(pending'[d]) => Update(p, world'[p]) \in Range(pending'[d])
         /\ \A p \in Position \ stale'[d] :
              ChunkOf[p] \in shown'[d] /\ p \notin PositionsIn(pending'[d]) =>
                view'[d][p] = world'[p]
<1> DEFINE q == pending[d]
           r == PushUpdate(q, u)
<1>1. IsQueue(q) /\ d \in Connection
  BY DEF WorldInv, QueuesOK, Subscribed
<1>2. q \in Seq(Updates) /\ r \in Seq(Updates)
  BY <1>1, Pushed DEF IsQueue
<1>3. u = Update(u.position, world'[u.position]) /\ u.position \in Position
      /\ \A p \in Position : p # u.position => world'[p] = world[p]
  BY DEF Updates, Update, WorldInv, TypesOK
<1>4. stale'[d] = (stale[d] \ {u.position}) \cup (PositionsIn(q) \ PositionsIn(r))
  BY DEF StaleAfterPush
<1>5. u.position \in PositionsIn(r) /\ u \in Range(r)
  BY <1>1, <1>2, Pushed, PositionHasUpdate
<1>6. ASSUME NEW p \in Position, p # u.position, p \notin stale'[d], p \in PositionsIn(r)
      PROVE  Update(p, world'[p]) \in Range(r)
  <2>1. p \in PositionsIn(q)
    BY <1>1, <1>2, <1>6, Pushed, PositionHasUpdate
  <2>2. Update(p, world[p]) \in Range(q)
    BY <1>4, <1>6, <2>1 DEF WorldInv, QueuesAreCurrent
  <2>3. Update(p, world[p]).position = p
    BY DEF Update
  <2> QED BY <1>1, <1>3, <1>6, <2>2, <2>3, Pushed
<1>7. ASSUME NEW p \in Position, p \notin stale'[d], p \notin PositionsIn(r),
             ChunkOf[p] \in shown[d]
      PROVE  view[d][p] = world'[p]
  <2>1. p # u.position /\ p \notin PositionsIn(q) /\ p \notin stale[d]
    BY <1>4, <1>5, <1>7
  <2> QED BY <1>3, <1>7, <2>1 DEF WorldInv, ViewsAreCurrent
<1> HIDE DEF q, r
<1>8. pending'[d] = r
  BY DEF q, r
<1> QED BY <1>3, <1>5, <1>6, <1>7, <1>8

(* Only positions go stale.                                               *)
LEMMA StaleIsTyped ==
  ASSUME WorldInv, NEW d \in Connection, NEW u
  PROVE  StaleAfterPush(d, u) \subseteq Position
<1>1. pending[d] \in Seq(Updates) /\ stale[d] \subseteq Position
  BY DEF WorldInv, TypesOK
<1>2. PositionsIn(pending[d]) \subseteq Position
  <2>1. ASSUME NEW p \in PositionsIn(pending[d]) PROVE p \in Position
    <3>1. PICK i \in 1 .. Len(pending[d]) : pending[d][i].position = p
      BY <1>1, QueueContents
    <3>2. pending[d][i] \in Updates
      BY <1>1, QueueContents
    <3> QED BY <3>1, <3>2 DEF Updates
  <2> QED BY <2>1
<1> QED BY <1>1, <1>2 DEF StaleAfterPush

(* The types and the shape of the queues survive a mutation.               *)
LEMMA MutateShapes ==
  ASSUME WorldInv, NEW u \in Updates, Mutate(u, Subscribed) \/ \E c : Mutate(u, Subscribed \ {c})
  PROVE  /\ world' \in [Position -> Block]
         /\ pending' \in [Connection -> Seq(Updates)]
         /\ QueuesOK'
<1>1. PICK others \in SUBSET Subscribed : Mutate(u, others)
  OBVIOUS
<1>2. world' \in [Position -> Block]
  BY <1>1 DEF Mutate, WorldInv, TypesOK, Updates, Block
<1>3. \A d \in Connection : IsQueue(pending[d]) /\ IsQueue(PushUpdate(pending[d], u))
  BY Pushed DEF WorldInv, QueuesOK
<1>4. /\ pending' = [d \in Connection |-> pending'[d]]
      /\ \A d \in Connection : IsQueue(pending'[d])
  BY <1>1, <1>3 DEF Mutate
<1> QED BY <1>2, <1>4 DEF QueuesOK, IsQueue

(* The player's own change: its client is told at once, the others' queues *)
(* are told.                                                               *)
LEMMA ApplyPreserves ==
  ASSUME WorldInv, NEW c \in Connection, Apply(c)
  PROVE  WorldInv'
<1> DEFINE u == target[c]
<1>1. /\ loop[c] = "checked" /\ Mutate(u, Subscribed \ {c})
      /\ view' = [view EXCEPT ![c] = Shown(c, <<u>>)]
      /\ stale' = [d \in Connection |->
           CASE d = c -> IF u.position \in PositionsIn(pending[c])
                         THEN stale[c] \cup {u.position} ELSE stale[c] \ {u.position}
             [] d \in Subscribed \ {c} -> StaleAfterPush(d, u)
             [] OTHER -> stale[d]]
      /\ loop' = [loop EXCEPT ![c] = "drain"]
      /\ target' = [target EXCEPT ![c] = NoTarget]
      /\ UNCHANGED <<shown, todo>>
  BY DEF Apply
<1>2. /\ u \in Updates /\ u.position \in Position
      /\ NoTarget \in Updates /\ <<u>> \in Seq(Updates)
  BY SharedWorldAssumption DEF WorldInv, TypesOK, Updates, NoTarget, Update
<1> HIDE DEF u
<1>3. /\ Distinct(<<u>>) /\ Range(<<u>>) = {u} /\ PositionsIn(<<u>>) = {u.position}
  BY DEF Distinct, Range, PositionsIn
<1>4. /\ world' \in [Position -> Block] /\ pending' \in [Connection -> Seq(Updates)]
      /\ QueuesOK'
  BY <1>1, <1>2, MutateShapes
<1>5. /\ Shown(c, <<u>>) \in [Position -> Block \cup {Unknown}]
      /\ \A p \in Position : p # u.position => Shown(c, <<u>>)[p] = view[c][p]
      /\ \A p \in Position : view[c][p] # Unknown => Shown(c, <<u>>)[p] # Unknown
  BY <1>2, <1>3, ShownRest DEF WorldInv
<1>6. Subscribed' = Subscribed /\ c \in Subscribed
  BY <1>1 DEF Subscribed, WorldInv, TypesOK
<1>7. stale' \in [Connection -> SUBSET Position]
  <2>1. \A d \in Connection : StaleAfterPush(d, u) \subseteq Position
    BY StaleIsTyped
  <2>2. \A d \in Connection : stale[d] \subseteq Position
    BY DEF WorldInv, TypesOK
  <2> QED BY <1>1, <1>2, <2>1, <2>2
<1>8. TypesOK'
  BY <1>1, <1>2, <1>4, <1>5, <1>7 DEF WorldInv, TypesOK
<1>9. /\ world' = [world EXCEPT ![u.position] = u.current]
      /\ \A d \in Connection : pending'[d] =
           IF d \in Subscribed \ {c} THEN PushUpdate(pending[d], u) ELSE pending[d]
      /\ \A d \in Connection : view'[d] = IF d = c THEN Shown(c, <<u>>) ELSE view[d]
      /\ \A d \in Subscribed : d # c => stale'[d] = StaleAfterPush(d, u)
      /\ stale'[c] = IF u.position \in PositionsIn(pending[c])
                     THEN stale[c] \cup {u.position} ELSE stale[c] \ {u.position}
      /\ shown' = shown
  BY <1>1 DEF Mutate, WorldInv, TypesOK, Subscribed
<1>10. Vacant'
  BY <1>1, <1>9 DEF Vacant, WorldInv, TypesOK, Subscribed
<1>11. ShownIsKnown'
  BY <1>5, <1>9 DEF ShownIsKnown, WorldInv
<1>12. ASSUME NEW d \in Subscribed, d # c
       PROVE  /\ \A p \in Position \ stale'[d] :
                   p \in PositionsIn(pending'[d]) => Update(p, world'[p]) \in Range(pending'[d])
              /\ \A p \in Position \ stale'[d] :
                   ChunkOf[p] \in shown'[d] /\ p \notin PositionsIn(pending'[d]) =>
                     view'[d][p] = world'[p]
  BY <1>2, <1>9, <1>12, ToldOf DEF Subscribed
<1>13. ASSUME NEW p \in Position, p \notin stale'[c]
       PROVE  /\ p \in PositionsIn(pending'[c]) => Update(p, world'[p]) \in Range(pending'[c])
              /\ ChunkOf[p] \in shown'[c] /\ p \notin PositionsIn(pending'[c]) =>
                   view'[c][p] = world'[p]
  <2>1. pending'[c] = pending[c]
    BY <1>9
  <2>2. CASE p = u.position
    <3>1. p \notin PositionsIn(pending[c]) /\ world'[p] = u.current
      BY <1>2, <1>9, <1>13, <2>2 DEF WorldInv, TypesOK
    <3>2. Update(p, u.current) \in Range(<<u>>)
      BY <1>2, <1>3, <2>2 DEF Update, Updates
    <3>3. ChunkOf[p] \in shown'[c] => view'[c][p] = u.current
      <4> SUFFICES ASSUME ChunkOf[p] \in shown[c] PROVE Shown(c, <<u>>)[p] = u.current
        BY <1>9
      <4>1. view[c][p] # Unknown
        BY DEF WorldInv, ShownIsKnown
      <4> QED BY <1>2, <1>3, <3>2, <4>1, ShownUpdate
    <3> QED BY <2>1, <3>1, <3>3
  <2>3. CASE p # u.position
    <3>1. p \notin stale[c] /\ world'[p] = world[p] /\ view'[c][p] = view[c][p]
      BY <1>2, <1>5, <1>9, <1>13, <2>3 DEF WorldInv, TypesOK
    <3> QED BY <1>6, <1>9, <2>1, <3>1 DEF WorldInv, QueuesAreCurrent, ViewsAreCurrent
  <2> QED BY <2>2, <2>3
<1>14. QueuesAreCurrent' /\ ViewsAreCurrent'
  BY <1>6, <1>12, <1>13 DEF QueuesAreCurrent, ViewsAreCurrent
<1> QED BY <1>4, <1>8, <1>10, <1>11, <1>14 DEF WorldInv

(* A change by a connection that is not followed is told to all.           *)
LEMMA PeerAppliesPreserves ==
  ASSUME WorldInv, NEW p \in Position, NEW b \in {Air, Stone}, PeerApplies(p, b)
  PROVE  WorldInv'
<1> DEFINE u == Update(p, b)
<1>1. /\ Mutate(u, Subscribed)
      /\ stale' = [d \in Connection |->
           IF d \in Subscribed THEN StaleAfterPush(d, u) ELSE stale[d]]
      /\ UNCHANGED <<loop, target, shown, todo, view>>
  BY DEF PeerApplies
<1>2. u \in Updates /\ u.position \in Position
  BY DEF Updates, Update
<1> HIDE DEF u
<1>3. /\ world' \in [Position -> Block] /\ pending' \in [Connection -> Seq(Updates)]
      /\ QueuesOK'
  BY <1>1, <1>2, MutateShapes
<1>4. Subscribed' = Subscribed
  BY <1>1 DEF Subscribed
<1>5. stale' \in [Connection -> SUBSET Position]
  <2>1. \A d \in Connection : StaleAfterPush(d, u) \subseteq Position
    BY StaleIsTyped
  <2> QED BY <1>1, <2>1 DEF WorldInv, TypesOK
<1>6. TypesOK' /\ ShownIsKnown'
  BY <1>1, <1>3, <1>5 DEF WorldInv, TypesOK, ShownIsKnown
<1>7. /\ world' = [world EXCEPT ![u.position] = u.current]
      /\ \A d \in Connection : pending'[d] =
           IF d \in Subscribed THEN PushUpdate(pending[d], u) ELSE pending[d]
      /\ \A d \in Subscribed : stale'[d] = StaleAfterPush(d, u)
  BY <1>1 DEF Mutate, Subscribed
<1>8. Vacant'
  BY <1>1, <1>7 DEF Vacant, WorldInv, Subscribed
<1>9. ASSUME NEW d \in Subscribed
      PROVE  /\ \A x \in Position \ stale'[d] :
                  x \in PositionsIn(pending'[d]) => Update(x, world'[x]) \in Range(pending'[d])
             /\ \A x \in Position \ stale'[d] :
                  ChunkOf[x] \in shown'[d] /\ x \notin PositionsIn(pending'[d]) =>
                    view'[d][x] = world'[x]
  BY <1>1, <1>2, <1>7, ToldOf DEF Subscribed
<1>10. QueuesAreCurrent' /\ ViewsAreCurrent'
  BY <1>4, <1>9 DEF QueuesAreCurrent, ViewsAreCurrent
<1> QED BY <1>3, <1>6, <1>8, <1>10 DEF WorldInv

(* A drain handles the front of the queue: what stays is as it was, and    *)
(* what was handled is seen.                                               *)
LEMMA DrainPreserves ==
  ASSUME WorldInv, NEW c \in Connection, DrainUpdates(c)
  PROVE  WorldInv'
<1> DEFINE q == pending[c]
           count == IF Len(q) < DrainLimit THEN Len(q) ELSE DrainLimit
           front == SubSeq(q, 1, count)
           back == SubSeq(q, count + 1, Len(q))
<1>1. /\ loop[c] = "drain" /\ loop' = [loop EXCEPT ![c] = "read"]
      /\ view' = [view EXCEPT ![c] = Shown(c, front)]
      /\ pending' = [pending EXCEPT ![c] = back]
      /\ UNCHANGED <<world, target, shown, todo, stale>>
  BY DEF DrainUpdates, WorldInv, TypesOK
<1>2. q \in Seq(Updates) /\ Len(q) \in Nat /\ Len(q) <= QueueLimit /\ Distinct(q)
  BY DEF WorldInv, QueuesOK, IsQueue
<1>3. count \in 0 .. Len(q)
  BY <1>2, SharedWorldAssumption
<1> HIDE DEF count, q
<1>4. /\ front \in Seq(Updates) /\ Len(front) = count
      /\ \A i \in 1 .. count : front[i] = q[i]
      /\ back \in Seq(Updates) /\ Len(back) = Len(q) - count
      /\ \A i \in 1 .. Len(q) - count : back[i] = q[count + i]
  <2>1. \A i \in 1 .. Len(q) : q[i] \in Updates
    BY <1>2, QueueContents
  <2>2. /\ front \in Seq(Updates) /\ Len(front) = IF 1 <= count THEN count - 1 + 1 ELSE 0
        /\ \A i \in 1 .. count - 1 + 1 : front[i] = q[1 + i - 1]
    BY <1>3, <2>1, <1>2, SubSeqProperties
  <2>3. /\ back \in Seq(Updates)
        /\ Len(back) = IF count + 1 <= Len(q) THEN Len(q) - (count + 1) + 1 ELSE 0
        /\ \A i \in 1 .. Len(q) - (count + 1) + 1 : back[i] = q[count + 1 + i - 1]
    BY <1>3, <2>1, <1>2, SubSeqProperties
  <2> QED BY <1>2, <1>3, <2>2, <2>3
<1> HIDE DEF front, back
<1>5. IsQueue(back) /\ Distinct(front)
  <2>1. Len(back) <= QueueLimit
    BY <1>2, <1>3, <1>4, SharedWorldAssumption
  <2>2. \A i \in 1 .. Len(back) : count + i \in 1 .. Len(q)
    BY <1>2, <1>3, <1>4
  <2>3. Distinct(back)
    BY <1>2, <1>3, <1>4, <2>2 DEF Distinct
  <2>4. Distinct(front)
    <3>1. \A i \in 1 .. Len(front) : i \in 1 .. Len(q) /\ front[i] = q[i]
      BY <1>2, <1>3, <1>4
    <3> QED BY <1>2, <3>1 DEF Distinct
  <2> QED BY <1>4, <2>1, <2>3, <2>4 DEF IsQueue
<1>6. \A v \in Range(q) : v \in Range(front) \/ v \in Range(back)
  <2> SUFFICES ASSUME NEW v \in Range(q) PROVE v \in Range(front) \/ v \in Range(back)
    OBVIOUS
  <2>1. PICK i \in 1 .. Len(q) : q[i] = v
    BY <1>2, QueueContents
  <2>2. CASE i <= count
    BY <1>3, <1>4, <2>1, <2>2, QueueContents
  <2>3. CASE i > count
    <3>1. i - count \in 1 .. Len(back) /\ back[i - count] = v
      BY <1>2, <1>3, <1>4, <2>1, <2>3
    <3> QED BY <1>4, <3>1, QueueContents
  <2> QED BY <1>3, <2>2, <2>3
<1>7. \A v \in Range(front) \cup Range(back) : v \in Range(q)
  <2>1. ASSUME NEW i \in 1 .. Len(back) PROVE back[i] \in Range(q)
    <3>1. count + i \in 1 .. Len(q) /\ back[i] = q[count + i]
      BY <1>2, <1>3, <1>4
    <3> QED BY <1>2, <3>1, QueueContents
  <2>2. ASSUME NEW i \in 1 .. Len(front) PROVE front[i] \in Range(q)
    <3>1. i \in 1 .. Len(q) /\ front[i] = q[i]
      BY <1>2, <1>3, <1>4
    <3> QED BY <1>2, <3>1, QueueContents
  <2> SUFFICES ASSUME NEW v, v \in Range(front) \/ v \in Range(back) PROVE v \in Range(q)
    OBVIOUS
  <2>3. CASE v \in Range(front)
    <3>1. PICK i \in 1 .. Len(front) : front[i] = v
      BY <1>4, <2>3, QueueContents
    <3> QED BY <2>2, <3>1
  <2>4. CASE v \in Range(back)
    <3>1. PICK i \in 1 .. Len(back) : back[i] = v
      BY <1>4, <2>4, QueueContents
    <3> QED BY <2>1, <3>1
  <2> QED BY <2>3, <2>4
<1>8. /\ Shown(c, front) \in [Position -> Block \cup {Unknown}]
      /\ \A p \in Position : p \notin PositionsIn(front) => Shown(c, front)[p] = view[c][p]
      /\ \A p \in Position : view[c][p] # Unknown => Shown(c, front)[p] # Unknown
  BY <1>4, ShownRest DEF WorldInv
<1>9. TypesOK' /\ QueuesOK' /\ Vacant' /\ Subscribed' = Subscribed /\ c \in Subscribed
  BY <1>1, <1>4, <1>5, <1>8 DEF WorldInv, TypesOK, QueuesOK, Vacant, Subscribed
<1>10. /\ \A d \in Connection : d # c => pending'[d] = pending[d] /\ view'[d] = view[d]
       /\ pending'[c] = back /\ view'[c] = Shown(c, front)
  BY <1>1 DEF WorldInv, TypesOK
<1>11. ShownIsKnown'
  BY <1>1, <1>8, <1>10 DEF WorldInv, ShownIsKnown
<1>12. ASSUME NEW p \in Position, p \notin stale[c], p \in PositionsIn(back)
       PROVE  Update(p, world[p]) \in Range(back)
  <2>1. PICK w \in Range(back) : w.position = p
    BY <1>4, <1>12, PositionHasUpdate
  <2>2. p \in PositionsIn(q)
    BY <1>2, <1>7, <2>1, PositionHasUpdate
  <2>3. Update(p, world[p]) \in Range(q)
    BY <1>9, <1>12, <2>2 DEF WorldInv, QueuesAreCurrent, q
  <2>4. Update(p, world[p]) = w
    BY <1>2, <1>7, <2>1, <2>3, OneUpdate DEF Update
  <2> QED BY <2>1, <2>4
<1>13. ASSUME NEW p \in Position, p \notin stale[c], p \notin PositionsIn(back),
              ChunkOf[p] \in shown[c]
       PROVE  Shown(c, front)[p] = world[p]
  <2>1. view[c][p] # Unknown
    BY <1>13 DEF WorldInv, ShownIsKnown
  <2>2. CASE p \in PositionsIn(q)
    <3>1. Update(p, world[p]) \in Range(q)
      BY <1>9, <1>13, <2>2 DEF WorldInv, QueuesAreCurrent, q
    <3>2. Update(p, world[p]) \notin Range(back)
      BY <1>4, <1>13, PositionHasUpdate DEF Update
    <3> QED BY <1>4, <1>5, <1>6, <2>1, <3>1, <3>2, ShownUpdate
  <2>3. CASE p \notin PositionsIn(q)
    <3>1. p \notin PositionsIn(front)
      BY <1>2, <1>4, <1>7, <2>3, PositionHasUpdate
    <3> QED BY <1>8, <1>9, <1>13, <2>3, <3>1 DEF WorldInv, ViewsAreCurrent, q
  <2> QED BY <2>2, <2>3
<1>14. QueuesAreCurrent' /\ ViewsAreCurrent'
  <2>1. QueuesAreCurrent'
    BY <1>1, <1>9, <1>10, <1>12 DEF QueuesAreCurrent, WorldInv, Subscribed
  <2>2. ViewsAreCurrent'
    BY <1>1, <1>9, <1>10, <1>13 DEF ViewsAreCurrent, WorldInv, Subscribed
  <2> QED BY <2>1, <2>2
<1> QED BY <1>9, <1>11, <1>14 DEF WorldInv

-----------------------------------------------------------------------------
(* Every step of the Play loops and of the others keeps the invariant.     *)
LEMMA WorldStep == WorldInv /\ [WorldNext]_worldVars => WorldInv'
<1> SUFFICES ASSUME WorldInv, [WorldNext]_worldVars PROVE WorldInv'
  OBVIOUS
<1>1. CASE UNCHANGED worldVars
  BY <1>1, LoopPreserves DEF worldVars, WorldInv, TypesOK
<1>2. CASE WorldNext
  BY <1>2, QuietPreserves, UnsubscribePreserves, RecenterPreserves, ShowChunkPreserves,
     ApplyPreserves, DrainPreserves, PeerAppliesPreserves DEF WorldNext, LoopStep
<1> QED BY <1>1, <1>2

THEOREM WorldInvariant == WorldSpec => []WorldInv
BY InitWorld, WorldStep, PTL DEF WorldSpec

(* What a client sees is the world, or the update that will make it so is  *)
(* queued, whatever falls between the check of an interaction and its      *)
(* application, the chunk snapshots and the drains (play_runtime.rs).      *)
THEOREM ClientsSeeTheWorld == WorldSpec => []ViewTracksWorld
<1>1. WorldInv => ViewTracksWorld
  BY DEF WorldInv, QueuesAreCurrent, ViewsAreCurrent, ViewTracksWorld
<1> QED BY <1>1, WorldInvariant, PTL

(* PendingWorldUpdates never exceeds its limit and holds one update for a  *)
(* position, and the state keeps its types.                                *)
THEOREM WorldTypeCorrect == WorldSpec => []WorldTypeOK
<1>1. WorldInv => WorldTypeOK
  <2> SUFFICES ASSUME WorldInv PROVE WorldTypeOK
    OBVIOUS
  <2>1. ASSUME NEW c \in Connection
        PROVE  Len(pending[c]) <= QueueLimit /\ IsInjective(
                 [i \in DOMAIN pending[c] |-> pending[c][i].position])
    <3>1. IsQueue(pending[c]) /\ DOMAIN pending[c] = 1 .. Len(pending[c])
      BY QueueContents DEF WorldInv, QueuesOK, IsQueue
    <3> QED BY <3>1 DEF IsQueue, Distinct, IsInjective
  <2> QED BY <2>1 DEF WorldTypeOK, WorldInv, TypesOK, Updates
<1> QED BY <1>1, WorldInvariant, PTL

(***************************************************************************)
(* The snapshot services, for any number of callers, changes and starts:   *)
(* what a caller was told is saved is on disk, outside the window in which *)
(* write_atomic has removed the old file.                                  *)
(***************************************************************************)

Saving == pc \in {"create", "write", "remove", "rename"}

(* Every request in the channel and the one being served belong to callers *)
(* that wait, one request each.                                            *)
Requests ==
  /\ \A i \in 1 .. Len(commands) :
       commands[i] \in Caller => asOf[commands[i]] # Idle /\ commands[i] # purpose
  /\ \A i, j \in 1 .. Len(commands) :
       i # j /\ commands[i] \in Caller => commands[i] # commands[j]
  /\ purpose \in Caller => asOf[purpose] # Idle

(* While the process runs, everybody's idea of the state is behind it.     *)
Behind ==
  phase # "down" =>
    /\ acked <= state
    /\ \A r \in Caller : asOf[r] <= state
    /\ phase = "closing" => owed <= state

(* Only a closing process tells its thread to stop, and a process that is  *)
(* down holds nothing.                                                     *)
Phases ==
  /\ phase = "running" =>
       /\ \A i \in 1 .. Len(commands) : commands[i] # Shutdown
       /\ purpose # Shutdown /\ pc # "stopped"
  /\ phase = "down" =>
       /\ commands = <<>> /\ purpose = "none" /\ pc = "stopped"
       /\ asOf = [r \in Caller |-> Idle]

(* The snapshot in the making covers whatever its success will stand for.  *)
Covers ==
  /\ Saving =>
       /\ acked <= captured
       /\ purpose \in Caller => asOf[purpose] <= captured
       /\ purpose = Shutdown => owed <= captured
  /\ pc \in {"remove", "rename"} => temporary = captured
  /\ pc = "stopped" /\ phase = "closing" => owed <= Load

SaveInv ==
  SnapshotTypeOK /\ Requests /\ Behind /\ Phases /\ Covers /\ AcknowledgedOnDisk

(* What the tokens of the channel can be taken for.                        *)
LEMMA Tokens ==
  /\ Shutdown \notin Caller /\ "none" \notin Caller /\ "autosave" \notin Caller
  /\ Version \subseteq Nat /\ 0 \in Version
BY SnapshotAssumption DEF Shutdown, Version

(* The invariant holds when the process first starts.                      *)
LEMMA InitSaves == SnapshotInit => SaveInv
<1> SUFFICES ASSUME SnapshotInit PROVE SaveInv
  OBVIOUS
<1> USE SnapshotAssumption, Tokens DEF SnapshotInit
<1>0. /\ commands \in Seq(Caller \cup {Shutdown}) /\ Len(commands) = 0
      /\ CommandCapacity \in Nat /\ MaxStarts \in Nat
  OBVIOUS
<1>1. SnapshotTypeOK
  <2>1. asOf \in [Caller -> Version \cup {Idle}]
    OBVIOUS
  <2>2. starts \in 0 .. MaxStarts + 1 /\ Len(commands) <= CommandCapacity
    BY <1>0
  <2> QED BY <1>0, <2>1, <2>2 DEF SnapshotTypeOK
<1>2. Requests /\ Phases
  BY <1>0 DEF Requests, Phases, Shutdown
<1>3. Behind /\ Covers /\ AcknowledgedOnDisk
  BY DEF Behind, Covers, AcknowledgedOnDisk, Saving, Load, Absent, Idle
<1> QED BY <1>1, <1>2, <1>3 DEF SaveInv

(* A caller's request waits with the state's version of that moment.       *)
LEMMA SaveNowPreserves ==
  ASSUME SaveInv, NEW r \in Caller, SaveNow(r)
  PROVE  SaveInv'
<1> USE SnapshotAssumption, Tokens
<1>0. SnapshotTypeOK /\ Requests /\ Behind /\ Phases /\ Covers /\ AcknowledgedOnDisk
  BY DEF SaveInv
<1>1. /\ phase # "down" /\ pc \notin {"stopped", "failed"} /\ asOf[r] = Idle
      /\ Len(commands) < CommandCapacity
      /\ commands' = Append(commands, r) /\ asOf' = [asOf EXCEPT ![r] = state]
      /\ UNCHANGED <<state, file, temporary, pc, captured, purpose, phase, owed, acked,
                     broken, starts>>
  BY DEF SaveNow, disk, saving, history
<1>2. /\ commands \in Seq(Caller \cup {Shutdown}) /\ state \in Version /\ state # Idle
      /\ asOf \in [Caller -> Version \cup {Idle}]
  BY <1>0 DEF SnapshotTypeOK, Idle, Version
<1>3. /\ Len(commands') = Len(commands) + 1 /\ commands'[Len(commands) + 1] = r
      /\ \A i \in 1 .. Len(commands) : commands'[i] = commands[i]
      /\ commands' \in Seq(Caller \cup {Shutdown}) /\ Len(commands) \in Nat
  BY <1>1, <1>2
<1>4. \A i \in 1 .. Len(commands) : commands[i] # r
  BY <1>0, <1>1 DEF Requests
<1>5. SnapshotTypeOK'
  BY <1>0, <1>1, <1>2, <1>3 DEF SnapshotTypeOK
<1>6. Requests'
  <2>1. purpose # r
    BY <1>0, <1>1 DEF Requests
  <2>2. purpose \in Caller => asOf'[purpose] # Idle
    BY <1>0, <1>1, <1>2, <2>1 DEF Requests
  <2>3. ASSUME NEW i \in 1 .. Len(commands'), commands'[i] \in Caller
        PROVE  asOf'[commands'[i]] # Idle /\ commands'[i] # purpose
    BY <1>0, <1>1, <1>2, <1>3, <2>1, <2>3 DEF Requests
  <2>4. ASSUME NEW i \in 1 .. Len(commands'), NEW j \in 1 .. Len(commands'), i # j,
               commands'[i] \in Caller
        PROVE  commands'[i] # commands'[j]
    BY <1>0, <1>3, <1>4, <2>4 DEF Requests
  <2> QED BY <1>1, <2>2, <2>3, <2>4 DEF Requests
<1>7. Behind'
  BY <1>0, <1>1, <1>2 DEF Behind
<1>8. Phases'
  BY <1>0, <1>1, <1>3 DEF Phases
<1>9. Covers'
  <2>1. purpose \in Caller => asOf'[purpose] = asOf[purpose]
    BY <1>0, <1>1, <1>2 DEF Requests
  <2> QED BY <1>0, <1>1, <2>1 DEF Covers, Saving, Load
<1>10. AcknowledgedOnDisk'
  BY <1>0, <1>1 DEF AcknowledgedOnDisk, Load
<1> QED BY <1>5, <1>6, <1>7, <1>8, <1>9, <1>10 DEF SaveInv

(* Steps that leave the thread, the channel and the disk as they are.      *)
LEMMA ChangePreserves ==
  ASSUME SaveInv, Change
  PROVE  SaveInv'
<1> USE SnapshotAssumption, Tokens
<1>0. SnapshotTypeOK /\ Requests /\ Behind /\ Phases /\ Covers /\ AcknowledgedOnDisk
  BY DEF SaveInv
<1>1. /\ state < MaxVersion /\ state' = state + 1
      /\ UNCHANGED <<file, temporary, pc, captured, purpose, commands, asOf, phase, owed,
                     acked, broken, starts>>
  BY DEF Change, disk, saving, history
<1>2. SnapshotTypeOK'
  BY <1>0, <1>1 DEF SnapshotTypeOK, Version
<1>3. Requests' /\ Phases' /\ Covers' /\ AcknowledgedOnDisk'
  BY <1>0, <1>1 DEF Requests, Phases, Covers, AcknowledgedOnDisk, Saving, Load
<1>4. Behind'
  BY <1>0, <1>1 DEF Behind, SnapshotTypeOK, Version, Idle
<1> QED BY <1>2, <1>3, <1>4 DEF SaveInv

(* The process begins to close: the thread has not stopped before.         *)
LEMMA BeginShutdownPreserves ==
  ASSUME SaveInv, BeginShutdown
  PROVE  SaveInv'
<1> USE SnapshotAssumption, Tokens
<1>0. SnapshotTypeOK /\ Requests /\ Behind /\ Phases /\ Covers /\ AcknowledgedOnDisk
  BY DEF SaveInv
<1>1. /\ phase = "running" /\ phase' = "closing" /\ owed' = state
      /\ UNCHANGED <<state, file, temporary, pc, captured, purpose, asOf, acked, broken, starts>>
      /\ \/ commands' = commands
         \/ commands' = Append(commands, Shutdown) /\ Len(commands) < CommandCapacity
  BY DEF BeginShutdown, disk, saving, history
<1>2. commands \in Seq(Caller \cup {Shutdown}) /\ state \in Version
  BY <1>0 DEF SnapshotTypeOK
<1>3. /\ commands' \in Seq(Caller \cup {Shutdown}) /\ Len(commands') <= CommandCapacity
      /\ \A i \in 1 .. Len(commands') : commands'[i] # Shutdown =>
           i \in 1 .. Len(commands) /\ commands'[i] = commands[i]
  <2>1. CASE commands' = commands
    BY <1>0, <1>2, <2>1 DEF SnapshotTypeOK
  <2>2. CASE commands' = Append(commands, Shutdown) /\ Len(commands) < CommandCapacity
    BY <1>2, <2>2
  <2> QED BY <1>1, <2>1, <2>2
<1>4. SnapshotTypeOK'
  BY <1>0, <1>1, <1>3 DEF SnapshotTypeOK
<1>5. Requests'
  <2>1. ASSUME NEW i \in 1 .. Len(commands'), commands'[i] \in Caller
        PROVE  asOf'[commands'[i]] # Idle /\ commands'[i] # purpose'
    BY <1>0, <1>1, <1>3, <2>1 DEF Requests
  <2>2. ASSUME NEW i \in 1 .. Len(commands'), NEW j \in 1 .. Len(commands'), i # j,
               commands'[i] \in Caller
        PROVE  commands'[i] # commands'[j]
    <3>1. CASE commands'[j] = Shutdown
      BY <2>2, <3>1
    <3>2. CASE commands'[j] # Shutdown
      BY <1>0, <1>3, <2>2, <3>2 DEF Requests
    <3> QED BY <3>1, <3>2
  <2> QED BY <1>0, <1>1, <2>1, <2>2 DEF Requests
<1>6. Behind'
  BY <1>0, <1>1, <1>2 DEF Behind, Version
<1>7. Phases'
  BY <1>1 DEF Phases
<1>8. Covers'
  BY <1>0, <1>1 DEF Covers, Phases, Saving
<1>9. AcknowledgedOnDisk'
  BY <1>0, <1>1 DEF AcknowledgedOnDisk, Load
<1> QED BY <1>4, <1>5, <1>6, <1>7, <1>8, <1>9 DEF SaveInv

(* The process ends, cleanly or not: only a final save that succeeded      *)
(* raises what has been acknowledged.                                      *)
LEMMA VanishPreserves ==
  ASSUME SaveInv, Vanish,
         \/ UNCHANGED broken /\ pc # "rename" /\ acked' \in Version
              /\ (acked' = acked \/ (acked <= acked' /\ (broken \/ acked' <= Load)))
         \/ acked' = acked /\ broken' = (broken \/ pc = "rename")
  PROVE  SaveInv'
<1> USE SnapshotAssumption, Tokens
<1>0. SnapshotTypeOK /\ AcknowledgedOnDisk
  BY DEF SaveInv
<1>1. /\ phase' = "down" /\ pc' = "stopped" /\ commands' = <<>>
      /\ asOf' = [r \in Caller |-> Idle] /\ captured' = 0 /\ purpose' = "none"
      /\ UNCHANGED <<state, file, temporary, owed, starts>>
  BY DEF Vanish, disk
<1>2. acked' \in Version /\ broken' \in BOOLEAN
  BY <1>0 DEF SnapshotTypeOK
<1>3. SnapshotTypeOK'
  BY <1>0, <1>1, <1>2 DEF SnapshotTypeOK
<1>4. Requests' /\ Behind' /\ Phases' /\ Covers'
  BY <1>1 DEF Requests, Behind, Phases, Covers, Saving
<1>5. AcknowledgedOnDisk'
  BY <1>0, <1>1 DEF AcknowledgedOnDisk, Load
<1> QED BY <1>3, <1>4, <1>5 DEF SaveInv

(* A start finds what the file holds and acknowledges no more than that.   *)
LEMMA RestartPreserves ==
  ASSUME SaveInv, Restart
  PROVE  SaveInv'
<1> USE SnapshotAssumption, Tokens
<1>0. SnapshotTypeOK /\ Phases
  BY DEF SaveInv
<1>1. /\ phase = "down" /\ starts < MaxStarts /\ starts' = starts + 1
      /\ phase' = "running" /\ pc' = "idle" /\ state' = Load
      /\ acked' = IF Load < acked THEN Load ELSE acked
      /\ broken' = FALSE /\ owed' = 0
      /\ UNCHANGED <<file, temporary, captured, purpose, commands, asOf>>
  BY DEF Restart, disk, saving
<1>2. Load \in Version /\ Load' = Load /\ acked \in Version
  BY <1>0, <1>1 DEF Load, SnapshotTypeOK
<1>3. acked' \in Version /\ acked' <= Load
  BY <1>1, <1>2 DEF Version
<1>4. commands' = <<>> /\ purpose' = "none" /\ asOf' = [r \in Caller |-> Idle]
  BY <1>0, <1>1 DEF Phases
<1>5. SnapshotTypeOK'
  <2>1. starts' \in 0 .. MaxStarts + 1 /\ owed' \in Version /\ state' \in Version
    BY <1>0, <1>1, <1>2 DEF SnapshotTypeOK
  <2> QED BY <1>0, <1>1, <1>3, <2>1 DEF SnapshotTypeOK
<1>6. Requests' /\ Phases' /\ Covers'
  BY <1>1, <1>4 DEF Requests, Phases, Covers, Saving, Shutdown
<1>7. Behind' /\ AcknowledgedOnDisk'
  BY <1>1, <1>2, <1>3, <1>4 DEF Behind, AcknowledgedOnDisk, Version, Idle
<1> QED BY <1>5, <1>6, <1>7 DEF SaveInv

(* A command leaves the channel.                                           *)
LEMMA TailOfCommands ==
  ASSUME SnapshotTypeOK, commands # <<>>
  PROVE  /\ Tail(commands) \in Seq(Caller \cup {Shutdown})
         /\ Len(Tail(commands)) = Len(commands) - 1
         /\ Len(commands) \in Nat \ {0} /\ Head(commands) = commands[1]
         /\ \A i \in 1 .. Len(Tail(commands)) :
              i + 1 \in 1 .. Len(commands) /\ Tail(commands)[i] = commands[i + 1]
<1>1. commands \in Seq(Caller \cup {Shutdown})
  BY DEF SnapshotTypeOK
<1> QED BY <1>1, HeadTailProperties, EmptySeq

(* A save begins: the state it captures is ahead of all it stands for.     *)
LEMMA BeginSavePreserves ==
  ASSUME SaveInv, Ready, UNCHANGED <<state, asOf, phase, owed, starts>>,
         NEW for \in Caller \cup {"autosave", Shutdown}, BeginSave(for),
         \/ commands # <<>> /\ for = Head(commands) /\ commands' = Tail(commands)
         \/ for = "autosave" /\ commands' = commands
  PROVE  SaveInv'
<1> USE SnapshotAssumption, Tokens
<1>0. SnapshotTypeOK /\ Requests /\ Behind /\ Phases /\ Covers /\ AcknowledgedOnDisk
  BY DEF SaveInv
<1>1. /\ phase # "down" /\ pc = "idle" /\ pc' = "create"
      /\ captured' = state /\ purpose' = for
      /\ UNCHANGED <<file, temporary, acked, broken>>
  BY DEF Ready, BeginSave, disk, history
<1>2. commands \in Seq(Caller \cup {Shutdown}) /\ Len(commands) \in Nat
  BY <1>0 DEF SnapshotTypeOK
<1>3. /\ commands' \in Seq(Caller \cup {Shutdown}) /\ Len(commands') <= CommandCapacity
      /\ \E k \in {0, 1} :
           /\ \A i \in 1 .. Len(commands') :
                i + k \in 1 .. Len(commands) /\ commands'[i] = commands[i + k]
           /\ k = 1 => for = commands[1] /\ 1 \in 1 .. Len(commands)
           /\ k = 0 => for = "autosave"
  <2>1. CASE commands # <<>> /\ for = Head(commands) /\ commands' = Tail(commands)
    BY <1>0, <1>2, <2>1, TailOfCommands DEF SnapshotTypeOK
  <2>2. CASE for = "autosave" /\ commands' = commands
    <3>1. \A i \in 1 .. Len(commands') :
            i + 0 \in 1 .. Len(commands) /\ commands'[i] = commands[i + 0]
      BY <1>2, <2>2
    <3> QED BY <1>0, <1>2, <2>2, <3>1 DEF SnapshotTypeOK
  <2> QED BY <2>1, <2>2
<1>4. PICK k \in {0, 1} :
        /\ \A i \in 1 .. Len(commands') :
             i + k \in 1 .. Len(commands) /\ commands'[i] = commands[i + k]
        /\ k = 1 => for = commands[1] /\ 1 \in 1 .. Len(commands)
        /\ k = 0 => for = "autosave"
  BY <1>3
<1>5. SnapshotTypeOK'
  BY <1>0, <1>1, <1>3 DEF SnapshotTypeOK, Shutdown
<1>6. for \in Caller => asOf[for] # Idle /\ asOf[for] <= state
  BY <1>0, <1>1, <1>4 DEF Requests, Behind
<1>7. for = Shutdown => phase = "closing" /\ owed <= state
  <2>1. for = Shutdown => phase # "running"
    BY <1>0, <1>4 DEF Phases, Shutdown
  <2> QED BY <1>0, <1>1, <2>1 DEF Behind, SnapshotTypeOK
<1>8. Requests'
  <2>1. ASSUME NEW i \in 1 .. Len(commands'), commands'[i] \in Caller
        PROVE  asOf'[commands'[i]] # Idle /\ commands'[i] # purpose'
    <3>1. i + k \in 1 .. Len(commands) /\ commands'[i] = commands[i + k] /\ i \in Nat \ {0}
      BY <1>4
    <3>2. asOf[commands[i + k]] # Idle
      BY <1>0, <2>1, <3>1 DEF Requests
    <3>3. commands[i + k] # for
      <4>1. CASE k = 0
        BY <1>4, <2>1, <3>1, <4>1
      <4>2. CASE k = 1
        <5>1. i + k # 1
          BY <3>1, <4>2
        <5> QED BY <1>0, <1>4, <2>1, <3>1, <4>2, <5>1 DEF Requests
      <4> QED BY <4>1, <4>2
    <3> QED BY <1>1, <3>1, <3>2, <3>3
  <2>2. ASSUME NEW i \in 1 .. Len(commands'), NEW j \in 1 .. Len(commands'), i # j,
               commands'[i] \in Caller
        PROVE  commands'[i] # commands'[j]
    <3>1. /\ i + k \in 1 .. Len(commands) /\ commands'[i] = commands[i + k]
          /\ j + k \in 1 .. Len(commands) /\ commands'[j] = commands[j + k] /\ i + k # j + k
      BY <1>4, <2>2
    <3> QED BY <1>0, <2>2, <3>1 DEF Requests
  <2> QED BY <1>1, <1>6, <2>1, <2>2 DEF Requests
<1>9. Behind'
  BY <1>0, <1>1 DEF Behind
<1>10. Phases'
  BY <1>0, <1>1, <1>4, <1>7 DEF Phases, Shutdown
<1>11. Covers'
  BY <1>0, <1>1, <1>6, <1>7 DEF Covers, Saving, Behind
<1>12. AcknowledgedOnDisk'
  BY <1>0, <1>1 DEF AcknowledgedOnDisk, Load
<1> QED BY <1>5, <1>8, <1>9, <1>10, <1>11, <1>12 DEF SaveInv

(* A save ends: with success the file holds what it captured; otherwise    *)
(* nothing new is acknowledged.                                            *)
LEMMA ConcludePreserves ==
  ASSUME SaveInv, Saving, phase # "down", UNCHANGED <<state, phase, owed, starts>>,
         NEW ok \in BOOLEAN, Conclude(ok),
         temporary' \in Version \cup {Absent, Partial},
         ok => pc = "rename" /\ file' = temporary /\ broken' = FALSE,
         ~ok => file' = file /\ broken' = (broken \/ pc = "rename")
  PROVE  SaveInv'
<1> USE SnapshotAssumption, Tokens
<1>0. SnapshotTypeOK /\ Requests /\ Behind /\ Phases /\ Covers /\ AcknowledgedOnDisk
  BY DEF SaveInv
<1>1. captured' = 0 /\ purpose' = "none"
  BY DEF Conclude
<1>2. /\ acked \in Version /\ captured \in Version /\ state \in Version /\ acked <= captured
      /\ asOf \in [Caller -> Version \cup {Idle}]
      /\ commands \in Seq(Caller \cup {Shutdown}) /\ Len(commands) \in Nat
      /\ Version \subseteq Nat /\ file \in Version \cup {Absent} /\ broken \in BOOLEAN
  BY <1>0 DEF SnapshotTypeOK, Covers
<1>3. /\ acked' \in Version /\ acked <= acked' /\ acked' <= captured /\ acked' <= state
      /\ ~ok => acked' = acked
  <2>1. acked <= state
    BY <1>0 DEF Behind
  <2>2. CASE acked' = acked
    BY <1>2, <2>1, <2>2 DEF Version
  <2>3. CASE purpose \in Caller /\ ok /\ acked' = Greater(acked, asOf[purpose])
    <3>1. asOf[purpose] \in Version /\ asOf[purpose] <= captured /\ asOf[purpose] <= state
      BY <1>0, <1>2, <2>3 DEF Requests, Covers, Behind
    <3> QED BY <1>2, <2>1, <2>3, <3>1 DEF Greater, Version
  <2> QED BY <2>2, <2>3 DEF Conclude
<1>4. /\ pc' \in {"idle", "stopped", "failed"}
      /\ pc' = "stopped" => ok /\ purpose = Shutdown
  BY DEF Conclude, Shutdown
<1>5. \/ /\ commands' = commands
         /\ \A r \in Caller : r # purpose => asOf'[r] = asOf[r]
         /\ \A r \in Caller : asOf'[r] \in {asOf[r], Idle}
         /\ asOf' \in [Caller -> Version \cup {Idle}]
      \/ commands' = <<>> /\ asOf' = [r \in Caller |-> Idle]
  <2>1. CASE asOf' = [asOf EXCEPT ![purpose] = Idle] /\ commands' = commands
    BY <1>2, <2>1
  <2>2. CASE UNCHANGED <<asOf, commands>>
    BY <1>2, <2>2
  <2> QED BY <2>1, <2>2 DEF Conclude, Unanswered
<1>6. /\ asOf' \in [Caller -> Version \cup {Idle}]
      /\ \A r \in Caller : asOf'[r] \in {asOf[r], Idle}
  BY <1>2, <1>5
<1>7. \/ commands' = commands
      \/ commands' = <<>> /\ Len(commands') = 0
  BY <1>5
<1>8. ok => file' = captured /\ file' \in Version
  BY <1>0, <1>2 DEF Covers
<1>9. SnapshotTypeOK'
  <2>1. commands' \in Seq(Caller \cup {Shutdown}) /\ Len(commands') <= CommandCapacity
    <3>1. CASE commands' = commands
      BY <1>0, <1>2, <3>1 DEF SnapshotTypeOK
    <3>2. CASE commands' = <<>> /\ Len(commands') = 0
      <4>1. commands' \in Seq(Caller \cup {Shutdown})
        BY <3>2
      <4>2. CommandCapacity \in Nat
        OBVIOUS
      <4> QED BY <3>2, <4>1, <4>2
    <3> QED BY <1>7, <3>1, <3>2
  <2>2. file' \in Version \cup {Absent}
    BY <1>2, <1>8
  <2>3. broken' \in BOOLEAN
    BY <1>2, ok \in BOOLEAN, Zenon
  <2>4. pc' \in {"idle", "create", "write", "remove", "rename", "stopped", "failed"}
    BY <1>4
  <2> QED BY <1>0, <1>1, <1>3, <1>6, <2>1, <2>2, <2>3, <2>4 DEF SnapshotTypeOK
<1>10. Requests'
  <2>1. CASE commands' = commands
    <3>1. ASSUME NEW i \in 1 .. Len(commands'), commands'[i] \in Caller
          PROVE  asOf'[commands'[i]] # Idle /\ commands'[i] # "none"
      <4>1. CASE commands' = <<>>
        BY <3>1, <4>1
      <4>2. CASE commands' # <<>>
        BY <1>0, <1>5, <2>1, <3>1, <4>2 DEF Requests
      <4> QED BY <4>1, <4>2
    <3> QED BY <1>0, <1>1, <2>1, <3>1 DEF Requests
  <2>2. CASE commands' = <<>> /\ Len(commands') = 0
    BY <1>1, <2>2 DEF Requests
  <2> QED BY <1>7, <2>1, <2>2
<1>11. Behind'
  <2>1. \A r \in Caller : asOf'[r] <= state
    BY <1>0, <1>2, <1>6 DEF Behind, Idle
  <2> QED BY <1>0, <1>3, <2>1 DEF Behind
<1>12. Phases'
  <2>1. phase = "running" => purpose # Shutdown
    BY <1>0 DEF Phases
  <2>2. phase = "running" => \A i \in 1 .. Len(commands') : commands'[i] # Shutdown
    BY <1>0, <1>7 DEF Phases
  <2> QED BY <1>1, <1>4, <2>1, <2>2 DEF Phases, Shutdown
<1>13. Covers'
  <2>1. ~Saving' /\ pc' \notin {"remove", "rename"}
    BY <1>4 DEF Saving
  <2>2. pc' = "stopped" => owed <= Load'
    <3>1. ASSUME pc' = "stopped" PROVE file' = captured /\ file' \in Version /\ owed <= captured
      BY <1>0, <1>4, <1>8, <3>1 DEF Covers
    <3> QED BY <3>1 DEF Load, Absent
  <2> QED BY <2>1, <2>2 DEF Covers
<1>14. AcknowledgedOnDisk'
  <2>1. CASE ok
    BY <1>3, <1>8, <2>1 DEF AcknowledgedOnDisk, Load, Absent
  <2>2. CASE ~ok
    BY <1>0, <1>2, <1>3, <2>2 DEF AcknowledgedOnDisk, Load
  <2> QED BY <2>1, <2>2
<1> QED BY <1>9, <1>10, <1>11, <1>12, <1>13, <1>14 DEF SaveInv

(* The file operations before the last one touch no acknowledgement.       *)
LEMMA FileStepPreserves ==
  ASSUME SaveInv, phase # "down", UNCHANGED <<state, phase, owed, starts>>,
         Create \/ Write \/ RemoveOld
  PROVE  SaveInv'
<1> USE SnapshotAssumption, Tokens
<1>0. SnapshotTypeOK /\ Requests /\ Behind /\ Phases /\ Covers /\ AcknowledgedOnDisk
  BY DEF SaveInv
<1>1. /\ UNCHANGED <<captured, purpose, commands, asOf, acked, broken>>
      /\ pc \in {"create", "write", "remove"} /\ pc' \in {"write", "remove", "rename"}
  BY DEF Create, Write, RemoveOld, AfterWrite, saving, history
<1>2. /\ acked \in Version /\ captured \in Version /\ acked <= captured
      /\ temporary \in Version \cup {Absent, Partial} /\ file \in Version \cup {Absent}
  BY <1>0, <1>1 DEF SnapshotTypeOK, Covers, Saving
<1>3. /\ temporary' \in {temporary, Partial, captured} /\ file' \in {file, Absent}
      /\ pc' \in {"remove", "rename"} => temporary' = captured
      /\ pc' # "rename" => file' = file
  <2>1. CASE Create
    BY <2>1 DEF Create
  <2>2. CASE Write
    BY <2>2 DEF Write, AfterWrite
  <2>3. CASE RemoveOld
    BY <1>0, <2>3 DEF RemoveOld, Covers
  <2> QED BY <2>1, <2>2, <2>3
<1>4. SnapshotTypeOK'
  BY <1>0, <1>1, <1>2, <1>3 DEF SnapshotTypeOK
<1>5. Requests' /\ Behind' /\ Phases'
  BY <1>0, <1>1 DEF Requests, Behind, Phases
<1>6. Covers'
  BY <1>0, <1>1, <1>3 DEF Covers, Saving
<1>7. AcknowledgedOnDisk'
  <2>1. CASE pc' = "rename"
    BY <1>1, <1>2, <1>3, <2>1 DEF AcknowledgedOnDisk
  <2>2. CASE pc' # "rename"
    BY <1>0, <1>1, <1>3, <2>2 DEF AcknowledgedOnDisk, Load
  <2> QED BY <2>1, <2>2
<1> QED BY <1>4, <1>5, <1>6, <1>7 DEF SaveInv

(* Every step of the thread preserves the invariant.                       *)
LEMMA ServiceStepPreserves ==
  ASSUME SaveInv, ServiceStep
  PROVE  SaveInv'
<1> USE SnapshotAssumption, Tokens
<1>0. SnapshotTypeOK /\ Covers
  BY DEF SaveInv
<1>1. phase # "down" /\ UNCHANGED <<state, phase, owed, starts>>
  BY DEF ServiceStep
<1>2. ASSUME NEW r \in Caller, TakeSaveNow(r), UNCHANGED asOf
      PROVE  SaveInv'
  BY <1>1, <1>2, BeginSavePreserves DEF TakeSaveNow
<1>3. CASE TakeShutdown
  BY <1>1, <1>3, BeginSavePreserves DEF TakeShutdown, Shutdown
<1>4. CASE Autosave
  BY <1>1, <1>4, BeginSavePreserves DEF Autosave
<1>5. CASE Create \/ Write \/ RemoveOld
  BY <1>1, <1>5, FileStepPreserves
<1>6. CASE Rename
  <2>1. Saving /\ pc = "rename" /\ Conclude(TRUE) /\ file' = temporary
        /\ temporary' = Absent /\ broken' = FALSE
    BY <1>6 DEF Rename, Saving
  <2> QED BY <1>1, <2>1, ConcludePreserves
<1>7. CASE Fail
  <2>1. Saving /\ Conclude(FALSE) /\ file' = file /\ broken' = (broken \/ pc = "rename")
    BY <1>7 DEF Fail, Saving
  <2>2. temporary' \in Version \cup {Absent, Partial}
    BY <1>0, <1>7 DEF Fail, SnapshotTypeOK
  <2> QED BY <1>1, <2>1, <2>2, ConcludePreserves
<1> QED BY <1>2, <1>3, <1>4, <1>5, <1>6, <1>7 DEF ServiceStep

(* SaveInv is an inductive invariant of the service.                       *)
LEMMA SavesInductive == SnapshotSpec => []SaveInv
<1>1. SaveInv /\ [SnapshotNext]_vars => SaveInv'
  <2> SUFFICES ASSUME SaveInv, [SnapshotNext]_vars PROVE SaveInv'
    OBVIOUS
  <2>0. SnapshotTypeOK /\ Covers /\ Behind
    BY DEF SaveInv
  <2>1. CASE Join
    <3>1. Vanish /\ UNCHANGED broken /\ phase = "closing" /\ pc \in {"stopped", "failed"}
      BY <2>1 DEF Join
    <3>2. CASE pc = "failed"
      <4>1. acked' = acked /\ acked \in Version /\ pc # "rename"
        BY <2>0, <2>1, <3>2 DEF Join, SnapshotTypeOK
      <4> QED BY <3>1, <4>1, VanishPreserves
    <3>3. CASE pc = "stopped"
      <4>1. acked' = Greater(acked, owed) /\ owed <= Load
        BY <2>0, <2>1, <3>1, <3>3 DEF Join, Covers
      <4>2. acked \in Version /\ owed \in Version
        BY <2>0 DEF SnapshotTypeOK
      <4>3. acked' \in Version /\ acked <= acked' /\ acked' \in {acked, owed}
        BY <4>1, <4>2, Tokens DEF Greater
      <4>4. acked <= Load \/ broken
        BY <3>3, <4>2 DEF SaveInv, AcknowledgedOnDisk
      <4> QED BY <3>1, <3>3, <4>1, <4>3, <4>4, VanishPreserves
    <3> QED BY <3>1, <3>2, <3>3
  <2>2. CASE Crash
    BY <2>2, VanishPreserves DEF Crash
  <2>3. CASE UNCHANGED vars
    BY <2>3 DEF vars, disk, saving, history, SaveInv, SnapshotTypeOK, Requests, Behind, Phases,
                Covers, AcknowledgedOnDisk, Saving, Load
  <2> QED BY <2>1, <2>2, <2>3, SaveNowPreserves, ChangePreserves, BeginShutdownPreserves,
             RestartPreserves, ServiceStepPreserves DEF SnapshotNext
<1> QED BY <1>1, InitSaves, PTL DEF SnapshotSpec

(* The snapshot file is never one that was written in part, and every      *)
(* variable keeps its type, for any callers, changes and starts.           *)
THEOREM SnapshotTypeCorrect == SnapshotSpec => []SnapshotTypeOK
<1>1. SaveInv => SnapshotTypeOK
  BY DEF SaveInv
<1> QED BY <1>1, SavesInductive, PTL

(* Whatever fails and whenever the process is killed, a save reported to a *)
(* caller and a clean shutdown are on disk outside the window of           *)
(* write_atomic (game_service.rs:286, world_service.rs:301).               *)
THEOREM SavesAreOnDisk == SnapshotSpec => []AcknowledgedOnDisk
<1>1. SaveInv => AcknowledgedOnDisk
  BY DEF SaveInv
<1> QED BY <1>1, SavesInductive, PTL
=============================================================================
