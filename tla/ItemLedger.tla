---------------------------- MODULE ItemLedger ----------------------------
(***************************************************************************)
(* What an inventory promises about items, whatever the operation: an item *)
(* that a player owns stays with the player or is reported as dropped, and *)
(* the number of items changes only together with the books, which the     *)
(* operations that are allowed to create or destroy items (a command, a    *)
(* creative slot, a session that ends) keep.                               *)
(***************************************************************************)
EXTENDS Integers

CONSTANT Items

VARIABLES
  held,     \* how many of each item the player owns
  ground,   \* how many of each item were reported as dropped
  supply    \* the books: how many of each item there should be

ledgerVars == <<held, ground, supply>>

Init ==
  /\ held \in [Items -> Nat]
  /\ ground = [i \in Items |-> 0]
  /\ supply = held

\* The player drops items, or merely rearranges them.
Drop ==
  /\ supply' = supply
  /\ \A i \in Items :
        /\ ground'[i] >= ground[i]
        /\ held'[i] = held[i] - (ground'[i] - ground[i])

\* An authorised operation creates or destroys items, and the books say so;
\* it may drop some as well (closing a container forgets what the container
\* held and drops what the cursor cannot put back).
Settle ==
  /\ \A i \in Items : ground'[i] >= ground[i]
  /\ supply' = [i \in Items |-> held'[i] + ground'[i]]

Next == Drop \/ Settle

Spec == Init /\ [][Next]_ledgerVars
===========================================================================
