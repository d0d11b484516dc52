------------------------------ MODULE SpscRing ------------------------------
(***************************************************************************)
(* The single-producer single-consumer rings AccessLogRing and             *)
(* CaptureRing: a shard thread pushes, a background thread pops, neither   *)
(* takes a lock.  Positions are unsigned words that wrap at Wrap; an entry *)
(* is copied in more than one step, so a copy that runs into another shows *)
(* as Torn.                                                                *)
(*                                                                         *)
(* A thread reads its own position exactly.  An acquire load of the        *)
(* other's may return any value between the last one it saw and the        *)
(* current one.  pushed, popped, seenPush and seenPop are those positions  *)
(* counted without wrapping, queue the published entries not yet popped,   *)
(* and lost changes when push() returns false: history that the code does  *)
(* not keep.                                                               *)
(***************************************************************************)
EXTENDS Integers, Sequences

CONSTANTS
    kCapacity,   \* slots of the ring
    Wrap,        \* 2^32: positions are u32
    Entries,
    MaxPushes    \* bound: accepted pushes

ASSUME RingAssumption ==
    /\ kCapacity \in Nat \ {0}
    /\ MaxPushes \in Nat
    /\ Wrap \in Nat
    /\ \E k \in 2..Wrap : Wrap = kCapacity * k

Torn == "torn"

ASSUME TornAssumption == Torn \notin Entries

VARIABLES
    write_pos, read_pos, entries,
    producer,    \* [pc, rp, entry]: push's progress and locals
    consumer,    \* [pc, wp, out]: pop's
    pushed, popped, seenPush, seenPop, queue, lost

ring_vars == <<write_pos, read_pos, entries, producer, consumer,
          pushed, popped, seenPush, seenPop, queue, lost>>

Slots == 0..(kCapacity - 1)

RingInit ==
    /\ write_pos = 0 /\ read_pos = 0
    /\ entries = [i \in Slots |-> Torn]
    /\ producer = [pc |-> "idle", rp |-> 0, entry |-> Torn]
    /\ consumer = [pc |-> "idle", wp |-> 0, out |-> Torn]
    /\ pushed = 0 /\ popped = 0 /\ seenPush = 0 /\ seenPop = 0
    /\ queue = <<>> /\ lost = FALSE

-----------------------------------------------------------------------------
(* push() *)

(* Mutant: off by one, a slot is never used. *)
Full_TooSoon == (write_pos - producer.rp) % Wrap >= kCapacity - 1

Full == (write_pos - producer.rp) % Wrap >= kCapacity

PushLoad(e) ==
    /\ producer.pc = "idle"
    /\ pushed < MaxPushes
    /\ \E p \in seenPop..popped :
         /\ seenPop' = p
         /\ producer' = [pc |-> "check", rp |-> p % Wrap, entry |-> e]
    /\ UNCHANGED <<write_pos, read_pos, entries, consumer, pushed, popped, seenPush, queue, lost>>

PushDrops ==
    /\ producer.pc = "check"
    /\ Full
    /\ lost' = ~lost
    /\ producer' = [producer EXCEPT !.pc = "idle"]
    /\ UNCHANGED <<write_pos, read_pos, entries, consumer, pushed, popped, seenPush, seenPop, queue>>

PushBegins ==
    /\ producer.pc = "check"
    /\ ~Full
    /\ entries' = [entries EXCEPT ![write_pos % kCapacity] = Torn]
    /\ producer' = [producer EXCEPT !.pc = "copy"]
    /\ UNCHANGED <<write_pos, read_pos, consumer, pushed, popped, seenPush, seenPop, queue, lost>>

PushCopies ==
    /\ producer.pc = "copy"
    /\ entries' = [entries EXCEPT ![write_pos % kCapacity] = producer.entry]
    /\ producer' = [producer EXCEPT !.pc = "store"]
    /\ UNCHANGED <<write_pos, read_pos, consumer, pushed, popped, seenPush, seenPop, queue, lost>>

PushStores ==
    /\ producer.pc = "store"
    /\ write_pos' = (write_pos + 1) % Wrap
    /\ pushed' = pushed + 1
    /\ queue' = Append(queue, producer.entry)
    /\ producer' = [producer EXCEPT !.pc = "idle"]
    /\ UNCHANGED <<read_pos, entries, consumer, popped, seenPush, seenPop, lost>>

-----------------------------------------------------------------------------
(* pop() *)

PopLoad ==
    /\ consumer.pc = "idle"
    /\ \E p \in seenPush..pushed :
         /\ seenPush' = p
         /\ consumer' = [consumer EXCEPT !.pc = "check", !.wp = p % Wrap]
    /\ UNCHANGED <<write_pos, read_pos, entries, producer, pushed, popped, seenPop, queue, lost>>

PopFindsNone ==
    /\ consumer.pc = "check"
    /\ read_pos = consumer.wp
    /\ consumer' = [consumer EXCEPT !.pc = "idle"]
    /\ UNCHANGED <<write_pos, read_pos, entries, producer, pushed, popped, seenPush, seenPop, queue, lost>>

PopBegins ==
    /\ consumer.pc = "check"
    /\ read_pos # consumer.wp
    /\ consumer' = [consumer EXCEPT !.pc = "copy", !.out = entries[read_pos % kCapacity]]
    /\ UNCHANGED <<write_pos, read_pos, entries, producer, pushed, popped, seenPush, seenPop, queue, lost>>

PopCopies ==
    /\ consumer.pc = "copy"
    /\ LET now == entries[read_pos % kCapacity]
       IN  consumer' = [consumer EXCEPT !.pc = "store",
                                        !.out = IF consumer.out = now THEN now ELSE Torn]
    /\ UNCHANGED <<write_pos, read_pos, entries, producer, pushed, popped, seenPush, seenPop, queue, lost>>

PopStores ==
    /\ consumer.pc = "store"
    /\ read_pos' = (read_pos + 1) % Wrap
    /\ popped' = popped + 1
    /\ queue' = Tail(queue)
    /\ consumer' = [consumer EXCEPT !.pc = "idle"]
    /\ UNCHANGED <<write_pos, entries, producer, pushed, seenPush, seenPop, lost>>

-----------------------------------------------------------------------------
Push == (\E e \in Entries : PushLoad(e)) \/ PushDrops \/ PushBegins \/ PushCopies \/ PushStores

Pop == PopLoad \/ PopFindsNone \/ PopBegins \/ PopCopies \/ PopStores

RingNext == Push \/ Pop

RingSpec == RingInit /\ [][RingNext]_ring_vars

(* Positions stay words, and as many entries are queued as the positions   *)
(* are apart, never more than the ring has slots (push's wp - rp).         *)
RingTypeOK ==
    /\ write_pos \in 0..(Wrap - 1) /\ read_pos \in 0..(Wrap - 1)
    /\ Len(queue) \in 0..kCapacity
    /\ Len(queue) = (write_pos - read_pos) % Wrap

(* pop() hands out the oldest published entry, whole: no entry is lost,    *)
(* repeated, overtaken or read while push() is writing its slot, also when *)
(* the positions wrap.                                                     *)
PopsOldest == consumer.pc = "store" => queue # <<>> /\ consumer.out = Head(queue)

(* push() and pop() never copy to and from one slot at the same time.      *)
NoRace ==
    ~ /\ producer.pc = "copy" /\ consumer.pc = "copy"
      /\ write_pos % kCapacity = read_pos % kCapacity

(* The ring is a bounded queue with loss at the producer's end only.       *)
Fifo == INSTANCE LossyFifo WITH room <- kCapacity - (pushed - seenPop)

ImplementsFifo == Fifo!Spec
=============================================================================
