------------------------------ MODULE ItemOutputs ------------------------------
(***************************************************************************)
(* What a player's own client is sent of the player's inventory, and the   *)
(* clients of others of what the player holds and wears                    *)
(* (game_replication.rs, ferrum-play/inventory.rs, the writer of main.rs). *)
(* An output holds the stack that its event carried, but which equipment a *)
(* slot is depends on the hotbar selection at the time of dispatch.        *)
(*                                                                         *)
(* A stack whose item the version pack has no number for, or with a        *)
(* component that has none or no known form, cannot be encoded: its output *)
(* is left out, together with every other stack of the same output.  What  *)
(* the client itself makes of its clicks is left out here (module          *)
(* Containers).                                                            *)
(***************************************************************************)
EXTENDS Integers, Sequences

CONSTANTS
  HotbarSlots,    \* inventory slots that can be held
  WornSlots,      \* those of armor and of the other hand
  FirstSelected,  \* the hotbar slot that is selected at first
  Stacks,         \* [item, components : sets of [name, explicit]]
  NoStack,
  ItemIds, ComponentIds,   \* the names that the version pack has numbers for
  MaxChanges      \* bound: events that the replication thread lags behind

InventorySlots == HotbarSlots \cup WornSlots
MainHand == "main hand"
EquipmentSlots == {MainHand} \cup WornSlots

ASSUME ItemOutputsAssumption ==
  /\ FirstSelected \in HotbarSlots /\ MainHand \notin WornSlots
  /\ NoStack \notin Stacks /\ MaxChanges \in Nat

VARIABLES
  slots,          \* the player's inventory
  selection,      \* its selected hotbar slot
  changes,        \* events that replication has not dispatched yet
  own,            \* the inventory that its own client was sent
  worn,           \* the equipment that another client was sent, or NotSeen
  missed          \* history: the clients ("own", "other") that miss an output

itemVars == <<slots, selection, changes, own, worn, missed>>

NotSeen == <<>>
Contents == Stacks \cup {NoStack}
NoItems == [s \in InventorySlots |-> NoStack]

----------------------------------------------------------------------------
\* explicit_component_bytes: an object with one of the known keys, or null.
IsEncodable(c) == c.name \in ComponentIds /\ c.explicit

\* encode_item_stack_into
Encodes(stack) ==
  stack # NoStack =>
    stack.item \in ItemIds /\ \A c \in stack.components : IsEncodable(c)

\* encode_set_container_content and encode_set_equipment: all stacks or none.
AllEncode(stacks) == \A s \in stacks : Encodes(s)

\* EquipmentSlot::inventory_index
InventoryIndex(e) == IF e = MainHand THEN selection ELSE e

\* player_equipment
Equipment == [e \in EquipmentSlots |-> slots[InventoryIndex(e)]]

\* A mutated form: what was in the hand when the player came.
FirstEquipmentSlot(slot) ==
  {e \in EquipmentSlots : (IF e = MainHand THEN FirstSelected ELSE e) = slot}

\* equipment_slot_for_inventory_index, with the selection of the state as it is
\* when the event is dispatched.
EquipmentSlotFor(slot) == {e \in EquipmentSlots : InventoryIndex(e) = slot}

----------------------------------------------------------------------------
ItemsInit ==
  /\ slots = NoItems /\ selection = FirstSelected
  /\ changes = <<>>
  /\ own = NoItems /\ worn = NotSeen
  /\ missed = {}

Lags == Len(changes) < MaxChanges
Unsent == UNCHANGED <<own, worn, missed>>

\* give_item, a creative slot, or a console's clear: one slot.
ChangeSlot ==
  /\ Lags
  /\ \E s \in InventorySlots : \E stack \in Contents \ {slots[s]} :
       /\ slots' = [slots EXCEPT ![s] = stack]
       /\ changes' = Append(changes, [kind |-> "slot", slot |-> s, stack |-> stack])
  /\ UNCHANGED selection /\ Unsent

\* click_container: two slots change places; an event for each, then the
\* content (container_events).
SwapSlots ==
  /\ Len(changes) + 3 <= MaxChanges
  /\ \E s, t \in InventorySlots :
       /\ slots[s] # slots[t]
       /\ slots' = [slots EXCEPT ![s] = slots[t], ![t] = slots[s]]
       /\ changes' = changes \o
            <<[kind |-> "slot", slot |-> s, stack |-> slots[t]],
              [kind |-> "slot", slot |-> t, stack |-> slots[s]],
              [kind |-> "content", slots |-> slots']>>
  /\ UNCHANGED selection /\ Unsent

SelectSlot ==
  /\ Lags
  /\ \E s \in HotbarSlots \ {selection} :
       /\ selection' = s
       /\ changes' = Append(changes, [kind |-> "hotbar", current |-> s])
  /\ UNCHANGED slots /\ Unsent

----------------------------------------------------------------------------
(* The replication thread.                                                 *)

\* The writer of the player's own connection.
SendContent(content) ==
  IF AllEncode({content[s] : s \in InventorySlots})
    THEN own' = content /\ missed' = missed \ {"own"}
    ELSE missed' = missed \cup {"own"} /\ UNCHANGED own

\* queue_player_equipment.
SendEquipment(entries) ==
  IF AllEncode({entries[e] : e \in DOMAIN entries})
    THEN /\ worn' = [e \in EquipmentSlots |->
                      IF e \in DOMAIN entries THEN entries[e] ELSE worn[e]]
         /\ UNCHANGED missed
    ELSE missed' = missed \cup {"other"} /\ UNCHANGED worn

\* Control calls are handled between events, whatever waits there.
SyncInventory ==
  /\ SendContent(slots)
  /\ UNCHANGED <<slots, selection, changes, worn>>

\* queue_player_spawn: the equipment, if there is any.
SpawnWithEquipment ==
  /\ worn = NotSeen
  /\ IF AllEncode({Equipment[e] : e \in EquipmentSlots})
       THEN worn' = Equipment /\ missed' = missed \ {"other"}
       ELSE worn' = [e \in EquipmentSlots |-> NoStack] /\ missed' = missed \cup {"other"}
  /\ UNCHANGED <<slots, selection, changes, own>>

RemoveEquipped ==
  /\ worn # NotSeen
  /\ worn' = NotSeen
  /\ UNCHANGED <<slots, selection, changes, own, missed>>

Change == Head(changes)
Taken == changes # <<>> /\ changes' = Tail(changes) /\ UNCHANGED <<slots, selection>>

\* InventorySlotChanged: to its player, and to those who see it if the slot is
\* one that they see.
DispatchSlot ==
  /\ Taken /\ Change.kind = "slot"
  /\ LET shown == IF worn = NotSeen THEN {} ELSE EquipmentSlotFor(Change.slot)
     IN IF Encodes(Change.stack)
          THEN /\ own' = [own EXCEPT ![Change.slot] = Change.stack]
               /\ worn' = IF shown = {} THEN worn
                          ELSE [e \in EquipmentSlots |->
                                 IF e \in shown THEN Change.stack ELSE worn[e]]
               /\ UNCHANGED missed
          ELSE /\ missed' = missed \cup {"own"} \cup (IF shown = {} THEN {} ELSE {"other"})
               /\ UNCHANGED <<own, worn>>

DispatchContent ==
  /\ Taken /\ Change.kind = "content"
  /\ SendContent(Change.slots)
  /\ UNCHANGED worn

\* SelectedHotbarChanged: what is in the hand of the state, not of the event.
DispatchSelection ==
  /\ Taken /\ Change.kind = "hotbar"
  /\ IF worn = NotSeen THEN UNCHANGED <<worn, missed>>
     ELSE SendEquipment([e \in {MainHand} |-> Equipment[e]])
  /\ UNCHANGED own

ItemsNext ==
  \/ ChangeSlot \/ SwapSlots \/ SelectSlot
  \/ SyncInventory \/ SpawnWithEquipment \/ RemoveEquipped
  \/ DispatchSlot \/ DispatchContent \/ DispatchSelection

ItemsSpec == ItemsInit /\ [][ItemsNext]_itemVars

----------------------------------------------------------------------------
\* In whatever order the slots and the selection changed before replication
\* got to them: when it has dispatched everything, a client that missed no
\* output knows the inventory as it is, and one that sees the player what the
\* player holds and wears.
ItemsAreCurrent ==
  changes = <<>> =>
    /\ "own" \notin missed => own = slots
    /\ worn # NotSeen /\ "other" \notin missed => worn = Equipment
=============================================================================
