----------------------------- MODULE BufferPool -----------------------------
(***************************************************************************)
(* FlatBufferPool: decode units are copied into slots that are leased and  *)
(* reused, src/src/moonlight/FlatBufferPool.cpp.  One decoder thread       *)
(* flattens, holders keep, move and drop the leases.                       *)
(***************************************************************************)
EXTENDS Naturals, Sequences, FiniteSets

CONSTANTS
    SlotCount,     \* slots the pool starts with
    Holders,       \* lease objects
    NoSlot,        \* the lease object is empty
    MaxFrames      \* bound: decode units flattened

ASSUME PoolAssumption ==
    /\ SlotCount \in Nat \ {0} /\ MaxFrames \in Nat
    /\ NoSlot \notin Nat /\ IsFiniteSet(Holders)

VARIABLES
    slots,         \* slots_: is the slot in use, and the frame it holds
    nextSlot,
    lease,         \* lease object -> slot, or NoSlot
    frame,         \* history: lease object -> the frame it was handed out for
    frames         \* decode units so far

pool == <<slots, nextSlot>>
poolVars == <<pool, lease, frame, frames>>

PoolInit ==
    /\ slots = [i \in 1..SlotCount |-> [inUse |-> FALSE, frame |-> 0]]
    /\ nextSlot = 0
    /\ lease = [h \in Holders |-> NoSlot]
    /\ frame = [h \in Holders |-> 0]
    /\ frames = 0

\* Slots from nextSlot_ on, cyclically; slot i of the code is slots[i + 1].
Cyclic(i) == ((nextSlot + i) % Len(slots)) + 1

Free == {i \in 0..Len(slots) - 1 : ~slots[Cyclic(i)].inUse}
FirstFree == CHOOSE i \in Free : \A j \in Free : i <= j

\* Mutant: a slot is taken in its turn, free or not.
AcquireNext ==
    LET slot == Cyclic(0)
    IN  [slot |-> slot, next |-> slot % Len(slots), slots |-> slots]

\* The first free slot from nextSlot_ on, or a new one when all are leased.
Acquire ==
    IF Free # {}
    THEN LET slot == Cyclic(FirstFree)
         IN  [slot |-> slot, next |-> slot % Len(slots), slots |-> slots]
    ELSE [slot |-> Len(slots) + 1, next |-> 0,
          slots |-> Append(slots, [inUse |-> FALSE, frame |-> 0])]

\* release is also what destroys and overwrites a lease object do with its slot.
Released(s, slot) == IF slot = NoSlot THEN s ELSE [s EXCEPT ![slot].inUse = FALSE]

\* flatten: a decode unit whose chunks do not add up gives its slot back.
Flatten(h) ==
    /\ lease[h] = NoSlot /\ frames < MaxFrames
    /\ frames' = frames + 1
    /\ LET a == Acquire
           written == [a.slots EXCEPT ![a.slot] = [inUse |-> TRUE, frame |-> frames']]
       IN  /\ nextSlot' = a.next
           /\ \/ /\ slots' = written
                 /\ lease' = [lease EXCEPT ![h] = a.slot]
                 /\ frame' = [frame EXCEPT ![h] = frames']
              \/ /\ slots' = Released(written, a.slot)
                 /\ UNCHANGED <<lease, frame>>

\* ~FlatBufferLease
Drop(h) ==
    /\ lease[h] # NoSlot
    /\ slots' = Released(slots, lease[h])
    /\ lease' = [lease EXCEPT ![h] = NoSlot] /\ frame' = [frame EXCEPT ![h] = 0]
    /\ UNCHANGED <<nextSlot, frames>>

\* Mutant: the lease that is overwritten keeps its slot.
MoveLeaks(from, to) ==
    /\ from # to
    /\ lease' = [lease EXCEPT ![to] = lease[from], ![from] = NoSlot]
    /\ frame' = [frame EXCEPT ![to] = frame[from], ![from] = 0]
    /\ UNCHANGED <<pool, frames>>

\* operator=: the target's own slot is released first.
Move(from, to) ==
    /\ from # to
    /\ slots' = Released(slots, lease[to])
    /\ lease' = [lease EXCEPT ![to] = lease[from], ![from] = NoSlot]
    /\ frame' = [frame EXCEPT ![to] = frame[from], ![from] = 0]
    /\ UNCHANGED <<nextSlot, frames>>

PoolNext ==
    \/ \E h \in Holders : Flatten(h) \/ Drop(h)
    \/ \E from, to \in Holders : Move(from, to)

PoolSpec == PoolInit /\ [][PoolNext]_poolVars
-----------------------------------------------------------------------------
Leased == {lease[h] : h \in Holders} \ {NoSlot}

\* A lease shows the frame it was handed out for as long as it is held, however many
\* frames were flattened, moved and dropped since; no two leases share a slot.
LeasesIntact ==
    /\ \A h \in Holders : lease[h] # NoSlot =>
          /\ lease[h] \in DOMAIN slots
          /\ slots[lease[h]].inUse /\ slots[lease[h]].frame = frame[h]
    /\ \A g, h \in Holders : lease[g] = lease[h] /\ lease[g] # NoSlot => g = h

\* The pool is no larger than the most leases that were ever held at a time, or than it
\* was made: a slot is in use exactly while a lease refers to it, so none is lost.
NoSlotLost ==
    /\ {i \in DOMAIN slots : slots[i].inUse} = Leased
    /\ Len(slots) <= IF Cardinality(Holders) > SlotCount THEN Cardinality(Holders) ELSE SlotCount
=============================================================================
