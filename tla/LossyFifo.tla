----------------------------- MODULE LossyFifo ------------------------------
(* What the log and capture rings promise: a bounded queue whose producer   *)
(* never waits.  It counts the room it knows of; an entry that finds none  *)
(* is dropped, every other one is taken out once, in order.  lost changes  *)
(* with every drop.                                                        *)
EXTENDS Integers, Sequences

CONSTANTS kCapacity, Entries

VARIABLES queue, room, lost

Init == queue = <<>> /\ room = kCapacity /\ lost = FALSE

Put(e) == room > 0 /\ queue' = Append(queue, e) /\ room' = room - 1 /\ UNCHANGED lost

Drop == room = 0 /\ lost' = ~lost /\ UNCHANGED <<queue, room>>

Take == queue # <<>> /\ queue' = Tail(queue) /\ UNCHANGED <<room, lost>>

(* The producer learns of room the consumer made. *)
Notice == room' \in (room + 1)..(kCapacity - Len(queue)) /\ UNCHANGED <<queue, lost>>

Next == (\E e \in Entries : Put(e)) \/ Drop \/ Take \/ Notice

Spec == Init /\ [][Next]_<<queue, room, lost>>
=============================================================================
