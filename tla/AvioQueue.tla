------------------------------ MODULE AvioQueue ------------------------------
(***************************************************************************)
(* The bounded blocking queue of libavio/include/Queue.hpp, as operators   *)
(* on sequences.  A thread that would block in push() or pop() is a        *)
(* disabled action of the specification that uses the operator: Room(q, c) *)
(* is the predicate push() waits for, q # <<>> the one pop() waits for.    *)
(*                                                                         *)
(* Indices are those of the code: element i of the deque is q[i + 1], and  *)
(* NotFound is the SIZE_MAX the find functions return.                     *)
(***************************************************************************)
EXTENDS Integers, Sequences

NotFound == -1

(* A negative max_size allows unbounded growth: converted to the unsigned  *)
(* type of size() it is larger than any size.                              *)
RoomOffByOne(q, cap) == cap < 0 \/ Len(q) <= cap                  \* mutant
Room(q, cap) == cap < 0 \/ Len(q) < cap
Full(q, cap) == ~Room(q, cap)

PushFront(q, e) == <<e>> \o q                                    \* mutant
Push(q, e) == Append(q, e)

(* erase_front(): drop n elements, all of them when n >= size().           *)
EraseFront(q, n) == IF n >= Len(q) THEN <<>> ELSE SubSeq(q, n + 1, Len(q))

(* remove_latency(): keep only the newest element.                         *)
RemoveLatency(q) == IF Len(q) > 1 THEN EraseFront(q, Len(q) - 1) ELSE q

(* Index of the first (last) element of a non-empty set of indices.        *)
Least(S)    == CHOOSE i \in S : \A j \in S : i <= j
Greatest(S) == CHOOSE i \in S : \A j \in S : j <= i

(* find_pts(): the first packet whose pts is not before the one given.     *)
FindPts(q, pts) ==
  LET hits == {i \in 0..(Len(q) - 1) : q[i + 1].pts >= pts}
  IN  IF hits = {} THEN NotFound ELSE Least(hits)

(* find_last_key_frame(): backwards from start, skipping indices past the  *)
(* end; a start of SIZE_MAX (size() - 1 of an empty queue) converts to -1. *)
FindLastKeyFrame(q, start) ==
  LET hits == {i \in 0..start : i < Len(q) /\ q[i + 1].key}
  IN  IF hits = {} THEN NotFound ELSE Greatest(hits)
=============================================================================
