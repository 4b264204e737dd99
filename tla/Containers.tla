---------------------------- MODULE Containers ----------------------------
(***************************************************************************)
(* A player's inventory and its container session: the slots, the stack on *)
(* the cursor, an open container, a drag over slots (quick craft) and the  *)
(* state number a click must name.  One action per operation of GameState  *)
(* on them, each with all the clicks the decoder lets through.             *)
(*                                                                         *)
(* Slots keep the order of the code (crafting and armour, main inventory,  *)
(* hotbar, offhand) with a few slots per range.  A stack is an item and a  *)
(* count; the item stands for the name, the components and the maximum     *)
(* count that two stacks must share to merge.                              *)
(***************************************************************************)
EXTENDS Integers, FiniteSets, SequencesExt

CONSTANTS
  Items, NoItem,
  MaxCount,          \* the largest count of a stack of each item
  MainStart, HotbarStart, HotbarEnd,   \* the offhand slot follows the hotbar
  ContainerIds,      \* containers that may be opened; 0 is the player's own
  ChestSlots,        \* slots of an open container
  StateIdLimit,      \* state numbers wrap here (2^31 in the code)
  MaxItems,          \* bound: items ever in play
  MaxDragSlots,      \* bound: slots of one drag
  GiveCounts         \* bound: counts given or removed by a command

ASSUME ContainersAssumption ==
  /\ NoItem \notin Items
  /\ MaxCount \in [Items -> Nat \ {0}]
  /\ {MainStart, HotbarStart, HotbarEnd, ChestSlots, StateIdLimit} \subseteq Nat
  /\ MainStart < HotbarStart /\ HotbarStart <= HotbarEnd
  /\ ContainerIds \subseteq Nat \ {0} /\ GiveCounts \subseteq Nat
  /\ StateIdLimit > 1

VARIABLES
  stacks,      \* slot -> stack, of the player and of the open container
  carried,     \* the stack on the cursor
  open,        \* the open container, or 0
  drag,        \* the drag in progress, or NoDrag
  stateId,     \* InventorySession.state_id
  creative,    \* the player is in creative mode
  announced,   \* what the events published so far say of the inventory
  ground,      \* history: items reported as dropped
  supply       \* history: items there should be

containerVars == <<stacks, carried, open, drag, stateId, creative, announced, ground, supply>>

---------------------------------------------------------------------------
\* Stacks

Empty == [item |-> NoItem, count |-> 0]
Stack == {Empty} \cup UNION {[item : {i}, count : 1..MaxCount[i]] : i \in Items}
NoDrag == [button |-> -1, slots |-> <<>>]
Least(a, b) == IF a < b THEN a ELSE b

CanMerge(a, b) == a # Empty /\ a.item = b.item
Room(s) == MaxCount[s.item] - s.count
WithCount(s, n) == IF n = 0 THEN Empty ELSE [s EXCEPT !.count = n]

---------------------------------------------------------------------------
\* Slots

Outside == -999
NoRef == <<"none", 0>>
OffhandSlot == HotbarEnd + 1
PlayerCells(first, last) == [k \in 1..(last - first + 1) |-> <<"player", first + k - 1>>]
ChestCells == [k \in 1..ChestSlots |-> <<"external", k - 1>>]
Main == PlayerCells(MainStart, HotbarStart - 1)
Hotbar == PlayerCells(HotbarStart, HotbarEnd)
Storage == PlayerCells(MainStart, HotbarEnd)
PlayerRefs == ToSet(PlayerCells(0, OffhandSlot))
Refs == PlayerRefs \cup ToSet(ChestCells)

Resolve(slot) ==
  LET behind == MainStart + slot - ChestSlots IN
  CASE open = 0 /\ slot \in 0..OffhandSlot                     -> <<"player", slot>>
    [] open # 0 /\ slot \in 0..(ChestSlots - 1)                -> <<"external", slot>>
    [] open # 0 /\ slot >= ChestSlots /\ behind <= OffhandSlot -> <<"player", behind>>
    [] OTHER                                                   -> NoRef

\* The slots a snapshot shows, in their order.
View == IF open = 0 THEN PlayerCells(0, OffhandSlot)
        ELSE ChestCells \o PlayerCells(MainStart, OffhandSlot)

---------------------------------------------------------------------------
\* Inserting a stack: first on top of stacks it merges with, then into empty
\* slots.  r.rest is what has no place yet, r.changed the slots changed.

\* Mutant: a merged slot is not reported as changed.
MergeUnreported(r, cell) ==
  LET here == r.stacks[cell]
      moved == IF CanMerge(here, r.rest) THEN Least(Room(here), r.rest.count) ELSE 0
  IN [r EXCEPT !.stacks[cell] = WithCount(here, here.count + moved),
               !.rest = WithCount(r.rest, r.rest.count - moved)]

MergeAt(r, cell) ==
  LET here == r.stacks[cell]
      moved == IF CanMerge(here, r.rest) THEN Least(Room(here), r.rest.count) ELSE 0
  IN IF moved = 0 THEN r
     ELSE [stacks  |-> [r.stacks EXCEPT ![cell] = WithCount(here, here.count + moved)],
           rest    |-> WithCount(r.rest, r.rest.count - moved),
           changed |-> r.changed \cup {cell}]

FillAt(r, cell) ==
  IF r.rest = Empty \/ r.stacks[cell] # Empty THEN r
  ELSE [stacks  |-> [r.stacks EXCEPT ![cell] = r.rest],
        rest    |-> Empty,
        changed |-> r.changed \cup {cell}]

Insert(into, stack, cells) ==
  LET merged == FoldLeft(MergeAt, [stacks |-> into, rest |-> stack, changed |-> {}], cells)
  IN FoldLeft(FillAt, merged, cells)

---------------------------------------------------------------------------
\* Clicks.  An outcome is the state the click leaves and what it dropped; a
\* click that fails keeps whatever it had changed before the failure.

Keep == [stacks |-> stacks, carried |-> carried, drag |-> drag,
         dropped |-> Empty, ok |-> TRUE]
Fail == [Keep EXCEPT !.ok = FALSE]

Pickup(slot, button) ==
  LET ref  == Resolve(slot)
      here == stacks[ref]
      half == IF button = 0 THEN here.count ELSE (here.count + 1) \div 2
      put  == IF button = 0 THEN carried.count ELSE Least(1, carried.count)
      fits == Least(put, Room(here))
  IN CASE button \notin {0, 1} -> Fail
       [] button \in {0, 1} /\ slot = Outside ->
            [Keep EXCEPT !.carried = WithCount(carried, carried.count - put),
                         !.dropped = WithCount(carried, put)]
       [] button \in {0, 1} /\ slot # Outside /\ ref = NoRef -> Fail
       [] OTHER ->
            CASE carried = Empty ->
                   [Keep EXCEPT !.stacks[ref] = WithCount(here, here.count - half),
                                !.carried = WithCount(here, half)]
              [] carried # Empty /\ here = Empty ->
                   [Keep EXCEPT !.stacks[ref] = WithCount(carried, put),
                                !.carried = WithCount(carried, carried.count - put)]
              [] carried # Empty /\ CanMerge(here, carried) /\ Room(here) > 0 ->
                   [Keep EXCEPT !.stacks[ref] = WithCount(here, here.count + fits),
                                !.carried = WithCount(carried, carried.count - fits)]
              [] OTHER -> [Keep EXCEPT !.stacks[ref] = carried, !.carried = here]

\* Where a quick move puts the stack of a slot.
QuickMoveTarget(ref) ==
  CASE ref[1] = "external"                              -> Storage
    [] ref[1] = "player" /\ open # 0                    -> ChestCells
    [] open = 0 /\ ref \in ToSet(Main)                  -> Hotbar
    [] open = 0 /\ ref \in ToSet(Hotbar)                -> Main
    [] OTHER                                            -> Storage

QuickMove(slot) ==
  LET ref == Resolve(slot)
      moved == Insert(stacks, stacks[ref], QuickMoveTarget(ref))
  IN CASE ref = NoRef                             -> Fail
       [] ref # NoRef /\ stacks[ref] = Empty      -> Keep
       [] OTHER -> [Keep EXCEPT !.stacks = [moved.stacks EXCEPT ![ref] = moved.rest]]

SwapButtons == 0..(HotbarEnd - HotbarStart) \cup {40}

Swap(slot, button) ==
  LET ref == Resolve(slot)
      other == <<"player", IF button = 40 THEN OffhandSlot ELSE HotbarStart + button>>
  IN IF ref = NoRef \/ button \notin SwapButtons THEN Fail
     ELSE [Keep EXCEPT !.stacks = [stacks EXCEPT ![ref] = stacks[other], ![other] = stacks[ref]]]

CloneStack(slot) ==
  LET ref == Resolve(slot)
      here == stacks[ref]
  IN IF ~creative \/ ref = NoRef THEN Fail
     ELSE [Keep EXCEPT !.carried = IF here = Empty THEN Empty
                                   ELSE WithCount(here, MaxCount[here.item])]

\* Mutant: a thrown item also stays in its slot.
ThrowCopies(slot, button) ==
  LET ref  == Resolve(slot)
      here == stacks[ref]
      n    == IF button = 1 THEN here.count ELSE Least(1, here.count)
  IN IF button \notin {0, 1} \/ ref = NoRef THEN Fail
     ELSE [Keep EXCEPT !.dropped = WithCount(here, n)]

Throw(slot, button) ==
  LET ref  == Resolve(slot)
      here == stacks[ref]
      n    == IF button = 1 THEN here.count ELSE Least(1, here.count)
  IN IF button \notin {0, 1} \/ ref = NoRef THEN Fail
     ELSE [Keep EXCEPT !.stacks[ref] = WithCount(here, here.count - n),
                       !.dropped = WithCount(here, n)]

\* One slot of a finished drag takes its share of what is left.
SpreadAt(r, slot) ==
  LET ref  == Resolve(slot)
      here == r.stacks[ref]
      room == CASE here = Empty            -> MaxCount[carried.item]
                [] CanMerge(here, carried) -> Room(here)
                [] OTHER                   -> 0
      n    == Least(r.each, Least(room, r.left))
  IN CASE ~r.ok \/ r.left = 0  -> r
       [] r.ok /\ r.left # 0 /\ ref = NoRef -> [r EXCEPT !.ok = FALSE]
       [] OTHER -> [r EXCEPT !.stacks[ref] = IF n = 0 THEN here
                                             ELSE WithCount(carried, here.count + n),
                             !.left = r.left - n]

\* One slot of a finished creative drag gets a full stack.
StampAt(r, slot) ==
  CASE ~r.ok                        -> r
    [] r.ok /\ Resolve(slot) = NoRef -> [r EXCEPT !.ok = FALSE]
    [] OTHER -> [r EXCEPT !.stacks[Resolve(slot)] = WithCount(carried, MaxCount[carried.item])]

FinishQuickCraft ==
  LET n     == Len(drag.slots)
      share == IF carried.count \div n > 1 THEN carried.count \div n ELSE 1
      start == [stacks |-> stacks, left |-> carried.count, ok |-> TRUE,
                each |-> IF drag.button = 1 THEN 1 ELSE share]
      spread == FoldLeft(SpreadAt, start, drag.slots)
      stamp  == FoldLeft(StampAt, start, drag.slots)
      done   == [Keep EXCEPT !.drag = NoDrag]
  IN CASE carried = Empty \/ drag.slots = <<>> -> done
       [] carried # Empty /\ drag.slots # <<>> /\ drag.button = 2 ->
            IF creative THEN [done EXCEPT !.stacks = stamp.stacks, !.ok = stamp.ok]
            ELSE [done EXCEPT !.ok = FALSE]
       [] OTHER ->
            [done EXCEPT !.stacks = spread.stacks, !.ok = spread.ok,
                         !.carried = IF spread.ok THEN WithCount(carried, spread.left)
                                     ELSE carried]

QuickCraft(slot, button) ==
  LET stage == button % 4
      kind == button \div 4
  IN CASE button < 0 \/ stage = 3 -> Fail
       [] button >= 0 /\ stage = 0 ->
            IF carried = Empty \/ kind > 2 \/ (kind = 2 /\ ~creative)
            THEN [Fail EXCEPT !.drag = NoDrag]
            ELSE [Keep EXCEPT !.drag = [button |-> kind, slots |-> <<>>]]
       [] button >= 0 /\ stage = 1 ->
            IF Resolve(slot) = NoRef \/ drag = NoDrag THEN Fail
            ELSE [Keep EXCEPT !.drag.slots = IF Contains(@, slot) THEN @ ELSE Append(@, slot)]
       [] OTHER -> IF drag = NoDrag THEN Fail ELSE FinishQuickCraft

\* One visible slot gives what the cursor still has room for.
GatherAt(r, ref) ==
  LET here == r.stacks[ref]
      n == IF CanMerge(here, r.carried) THEN Least(Room(r.carried), here.count) ELSE 0
  IN [stacks  |-> [r.stacks EXCEPT ![ref] = WithCount(here, here.count - n)],
      carried |-> WithCount(r.carried, r.carried.count + n)]

PickupAll ==
  LET all == FoldLeft(GatherAt, [stacks |-> stacks, carried |-> carried], View)
  IN IF carried = Empty THEN Keep
     ELSE [Keep EXCEPT !.stacks = all.stacks, !.carried = all.carried]

Outcome(click) ==
  CASE click.kind = "Pickup"     -> Pickup(click.slot, click.button)
    [] click.kind = "QuickMove"  -> QuickMove(click.slot)
    [] click.kind = "Swap"       -> Swap(click.slot, click.button)
    [] click.kind = "Clone"      -> CloneStack(click.slot)
    [] click.kind = "Throw"      -> Throw(click.slot, click.button)
    [] click.kind = "QuickCraft" -> QuickCraft(click.slot, click.button)
    [] click.kind = "PickupAll"  -> PickupAll

\* The clicks worth telling apart: a slot only where the kind reads it, and
\* of each field one value that is out of range.
ClickSlots == {Outside} \cup 0..(OffhandSlot + ChestSlots)
Clicks ==
  [kind : {"Pickup", "Throw"}, slot : ClickSlots, button : {0, 1}]
    \cup [kind : {"Swap"}, slot : ClickSlots, button : SwapButtons]
    \cup [kind : {"QuickMove", "Clone"}, slot : ClickSlots, button : {0}]
    \cup [kind : {"QuickCraft"}, slot : ClickSlots, button : {1}]
    \cup [kind : {"QuickCraft"}, slot : {0}, button : {-1, 0, 2, 3, 4, 8, 12}]
    \cup [kind : {"PickupAll"}, slot : {0}, button : {0}]
    \cup [kind : {"Pickup", "Swap", "Throw"}, slot : {0}, button : {41}]

---------------------------------------------------------------------------
\* The books and the published events

\* The single items of kind i that lie in the cells.
Units(cells, i) ==
  {u \in (DOMAIN cells) \X (1..MaxCount[i]) : cells[u[1]].item = i /\ u[2] <= cells[u[1]].count}
CountIn(cells, cursor) ==
  [i \in Items |-> Cardinality(Units(cells, i)) + IF cursor.item = i THEN cursor.count ELSE 0]
Held == CountIn(stacks, carried)

AnnounceSlots(slots, cursor, id) ==
  announced' = [slots   |-> [ref \in PlayerRefs |->
                               IF ref \in slots THEN stacks'[ref] ELSE announced.slots[ref]],
                carried |-> cursor,
                stateId |-> id]
ChangedSlots == {ref \in PlayerRefs : stacks'[ref] # stacks[ref]}
DropToGround(stackset) ==
  ground' = [i \in Items |-> ground[i] + CountIn(stackset, Empty)[i]]

\* The operations that may create or destroy items keep the books.
Settle ==
  /\ supply' = [i \in Items |-> CountIn(stacks', carried')[i] + ground'[i]]
  /\ SumFunction(supply') <= MaxItems

BumpState == stateId' = (stateId + 1) % StateIdLimit

---------------------------------------------------------------------------
\* Operations

ContainersInit ==
  /\ stacks = [ref \in Refs |-> Empty]
  /\ carried = Empty
  /\ open = 0
  /\ drag = NoDrag
  /\ stateId = 0
  /\ creative = FALSE
  /\ announced = [slots |-> [ref \in PlayerRefs |-> Empty], carried |-> Empty, stateId |-> 0]
  /\ ground = [i \in Items |-> 0]
  /\ supply = [i \in Items |-> 0]

\* A click that names another container or an old state: nothing happens but
\* a snapshot for the client.
RejectClick(container, id) ==
  /\ container # open \/ id # stateId
  /\ AnnounceSlots({}, carried, stateId)
  /\ UNCHANGED <<stacks, carried, open, drag, stateId, creative, ground, supply>>

\* Cloning and a creative drag are the clicks that create items.
CreativeClick(click) ==
  click.kind = "Clone" \/ (click.kind = "QuickCraft" /\ drag.button = 2)

PerformClick(click) ==
  LET o == Outcome(click) IN
  /\ stacks' = o.stacks
  /\ carried' = o.carried
  /\ drag' = o.drag
  /\ Len(drag'.slots) <= MaxDragSlots
  /\ IF o.ok
     THEN /\ BumpState /\ AnnounceSlots(ChangedSlots, carried', stateId')
          /\ DropToGround([d \in {0} |-> o.dropped])
     ELSE AnnounceSlots({}, carried', stateId) /\ UNCHANGED <<stateId, ground>>
  /\ IF o.ok /\ CreativeClick(click) THEN Settle ELSE UNCHANGED supply
  /\ UNCHANGED <<open, creative>>

ClickContainer ==
  \/ \E container \in ContainerIds \cup {0}, id \in 0..(StateIdLimit - 1) :
       RejectClick(container, id)
  \/ \E click \in Clicks : PerformClick(click)

\* Mutant: a drag survives the container it was begun in.
KeepDrag == UNCHANGED drag
\* Slots of a drag are only good for the container they were named in.
EndDrag == drag' = NoDrag

\* The cursor goes back into the inventory, what finds no place is dropped,
\* and what the open container holds is forgotten.
CloseContainer ==
  LET r == Insert(stacks, carried, Storage) IN
  /\ stacks' = [ref \in Refs |-> IF ref \in PlayerRefs THEN r.stacks[ref] ELSE Empty]
  /\ carried' = Empty
  /\ open' = 0
  /\ EndDrag
  /\ BumpState
  /\ AnnounceSlots(ChangedSlots, Empty, stateId')
  /\ DropToGround([d \in {0} |-> r.rest])
  /\ IF \E ref \in ToSet(ChestCells) : stacks[ref] # Empty THEN Settle ELSE UNCHANGED supply
  /\ UNCHANGED creative

\* An open container replaces the one that was open before.
OpenContainer ==
  \E id \in ContainerIds, contents \in [ToSet(ChestCells) -> Stack] :
    /\ stacks' = [ref \in Refs |-> IF ref \in PlayerRefs THEN stacks[ref] ELSE contents[ref]]
    /\ open' = id
    /\ EndDrag
    /\ BumpState
    /\ AnnounceSlots({}, carried, stateId')
    /\ UNCHANGED <<carried, creative, ground>>
    /\ Settle

SetCreativeSlot ==
  \E slot \in 0..(OffhandSlot + 1), stack \in Stack :
    IF creative /\ slot <= OffhandSlot
    THEN /\ stacks' = [stacks EXCEPT ![<<"player", slot>>] = stack]
         /\ BumpState
         /\ AnnounceSlots(ChangedSlots, carried, stateId')
         /\ UNCHANGED <<carried, open, drag, creative, ground>>
         /\ Settle
    ELSE /\ AnnounceSlots({}, carried, stateId)
         /\ UNCHANGED <<stacks, carried, open, drag, stateId, creative, ground, supply>>

\* The give command: batches of at most a full stack, until one does not fit.
GiveBatch(r, batch) ==
  IF r.rest # Empty THEN r
  ELSE LET s == Insert(r.stacks, batch, Storage)
       IN [s EXCEPT !.changed = s.changed \cup r.changed]
Batches(item, count) ==
  LET full == MaxCount[item]
      n == (count + full - 1) \div full
  IN [k \in 1..n |-> [item |-> item, count |-> IF k < n THEN full ELSE count - (n - 1) * full]]

Give ==
  \E item \in Items, count \in GiveCounts :
    LET r == FoldLeft(GiveBatch, [stacks |-> stacks, rest |-> Empty, changed |-> {}],
                      Batches(item, count))
    IN /\ stacks' = r.stacks
       /\ AnnounceSlots(r.changed, announced.carried, announced.stateId)
       /\ UNCHANGED <<carried, open, drag, stateId, creative, ground>>
       /\ Settle

\* Operations on the slots alone: the events are the slots that differ.
OnSlots ==
  /\ AnnounceSlots(ChangedSlots, carried, stateId)
  /\ UNCHANGED <<carried, open, drag, stateId, creative, ground>>

ClearInventory ==
  /\ stacks' = [ref \in Refs |-> IF ref \in PlayerRefs THEN Empty ELSE stacks[ref]]
  /\ OnSlots
  /\ Settle

SwapInventorySlots ==
  \E i, j \in 0..OffhandSlot :
    /\ i < j
    /\ stacks' = [stacks EXCEPT ![<<"player", i>>] = stacks[<<"player", j>>],
                                ![<<"player", j>>] = stacks[<<"player", i>>]]
    /\ OnSlots
    /\ UNCHANGED supply

RemoveAt1(r, ref) ==
  LET here == r.stacks[ref]
      n == IF here.item = r.item THEN Least(r.left, here.count) ELSE 0
  IN [r EXCEPT !.stacks[ref] = WithCount(here, here.count - n), !.left = r.left - n]

RemoveInventoryItem ==
  \E item \in Items, count \in GiveCounts :
    /\ stacks' = FoldLeft(RemoveAt1, [stacks |-> stacks, left |-> count, item |-> item],
                          PlayerCells(0, OffhandSlot)).stacks
    /\ OnSlots
    /\ Settle

\* Death drops every slot unless the game rule keeps them; the cursor, the
\* drag and the open container stay as they are.
PlayerDeath ==
  /\ stacks' = [ref \in Refs |-> IF ref \in PlayerRefs THEN Empty ELSE stacks[ref]]
  /\ DropToGround([ref \in PlayerRefs |-> stacks[ref]])
  /\ AnnounceSlots(ChangedSlots, carried, stateId)
  /\ UNCHANGED <<carried, open, drag, stateId, creative, supply>>

ToggleCreative ==
  /\ creative' = ~creative
  /\ UNCHANGED <<stacks, carried, open, drag, stateId, announced, ground, supply>>

\* Disconnecting and reconnecting both reset the session; the join sends the
\* inventory anew, under state 0 and with an empty cursor.
ResetSession ==
  /\ stacks' = [ref \in Refs |-> IF ref \in PlayerRefs THEN stacks[ref] ELSE Empty]
  /\ carried' = Empty
  /\ open' = 0
  /\ EndDrag
  /\ stateId' = 0
  /\ announced' = [slots |-> [ref \in PlayerRefs |-> stacks[ref]], carried |-> Empty, stateId |-> 0]
  /\ UNCHANGED <<creative, ground>>
  /\ Settle

ContainersNext ==
  \/ ClickContainer \/ CloseContainer \/ OpenContainer \/ SetCreativeSlot
  \/ Give \/ ClearInventory \/ SwapInventorySlots \/ RemoveInventoryItem
  \/ PlayerDeath \/ ToggleCreative \/ ResetSession

ContainersSpec == ContainersInit /\ [][ContainersNext]_containerVars

---------------------------------------------------------------------------
\* Properties

\* Every stack is a real one (an item, at least one and at most a full stack),
\* and slots of a container that is not open hold nothing.
TypeOK ==
  /\ stacks \in [Refs -> Stack]
  /\ carried \in Stack
  /\ open \in ContainerIds \cup {0}
  /\ drag \in {NoDrag} \cup [button : 0..2, slots : Seq(ClickSlots)]
  /\ stateId \in 0..(StateIdLimit - 1)
  /\ creative \in BOOLEAN
  /\ ground \in [Items -> Nat]
  /\ supply \in [Items -> Nat]
  /\ open = 0 => \A ref \in ToSet(ChestCells) : stacks[ref] = Empty

\* The slots of a drag, checked when each was added, still name slots when the
\* drag ends: finishing it cannot fail half-way (container.rs, finish_quick_craft).
DragSlotsResolve ==
  \A k \in DOMAIN drag.slots : Resolve(drag.slots[k]) # NoRef

\* Whoever applies the published events - slot changes, the cursor and state
\* number of each snapshot - knows the inventory: no operation changes a slot
\* without an event, so an up-to-date client's click is never stale.
EventsTellAll ==
  announced = [slots |-> [ref \in PlayerRefs |-> stacks[ref]],
               carried |-> carried, stateId |-> stateId]

\* The inventory implements the ledger: items are only rearranged or dropped,
\* except by the operations that keep the books.
Ledger == INSTANCE ItemLedger WITH held <- Held
LedgerSpec == Ledger!Spec
===========================================================================
