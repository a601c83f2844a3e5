----------------------------- MODULE RingIndex -----------------------------
(***************************************************************************)
(* Index arithmetic shared by the two ring buffers of circular_buffer.h.   *)
(* Both keep a write index (head_) and a read index (tail_) in             *)
(* 0..Capacity-1 and reduce with "& mask_", mask_ = Capacity - 1.  The     *)
(* constructors insist on a power of two, for which "& mask_" on a size_t  *)
(* is reduction modulo Capacity, also when head_ - tail_ wraps around.     *)
(***************************************************************************)
EXTENDS Integers, Sequences

CONSTANT Capacity

ASSUME CapacityAssumption == Capacity \in Nat \ {0}

\* The static_assert of the lock-free buffer and the exception of the other.
ASSUME PowerOfTwo == \E k \in 0..63 : Capacity = 2^k

Index == 0 .. Capacity - 1

\* (i + 1) & mask_
Inc(i) == (i + 1) % Capacity

\* (head - tail) & mask_
Distance(head, tail) == (head - tail) % Capacity

\* The k-th slot (k = 0 is the oldest) of the occupied run starting at tail.
SlotAt(tail, k) == (tail + k) % Capacity

\* The slots from lo up to, and not including, hi, in ring order.
Run(lo, hi) == { SlotAt(lo, k) : k \in 0 .. Distance(hi, lo) - 1 }

\* The elements a ring holds, oldest first: what an abstract queue sees.
Contents(buffer, head, tail) ==
    [k \in 1 .. Distance(head, tail) |-> buffer[SlotAt(tail, k - 1)]]
=============================================================================
