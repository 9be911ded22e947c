-------------------------- MODULE EventReplication --------------------------
(***************************************************************************)
(* What synchronization promises, whatever crashes, is lost or repeated:   *)
(* events are authored once under their key, the durable stores - the      *)
(* disks of the devices and the servers - hold authored events only, and   *)
(* what one of them holds it keeps.                                        *)
(***************************************************************************)
EXTENDS Naturals

CONSTANTS
  Devices,   \* devices of one identity; a device's number is also its key
  Stores,    \* durable stores, the devices among them
  Numbers    \* sequence numbers

VARIABLES
  authored,  \* every event a device has stored for publication
  held       \* per store, the events in it

vars == <<authored, held>>

(* `id' stands for the rest of the event: its content and signature.       *)
Event == [signer : Devices, sequence : Numbers, id : Numbers]

SameKey(e, f) == e.signer = f.signer /\ e.sequence = f.sequence

Init == authored = {} /\ held = [s \in Stores |-> {}]

(* A device stores a new event of its own, under a key never used before.  *)
Author(e) ==
  /\ \A f \in authored : ~ SameKey(e, f)
  /\ authored' = authored \cup {e}
  /\ held' = [held EXCEPT ![e.signer] = @ \cup {e}]

(* A store receives a copy of an authored event.                           *)
Receive(s, e) ==
  /\ e \in authored
  /\ held' = [held EXCEPT ![s] = @ \cup {e}]
  /\ UNCHANGED authored

Next ==
  \/ \E e \in Event : Author(e)
  \/ \E s \in Stores, e \in authored : Receive(s, e)

Spec == Init /\ [][Next]_vars
=============================================================================
