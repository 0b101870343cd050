------------------------------- MODULE GoSlice ------------------------------
(***************************************************************************)
(* Go slices as the builders and the handlers use them: a slice is a       *)
(* length over a backing array that other slices may share.  append writes *)
(* into the array while there is room behind the slice and moves to an     *)
(* array of twice the size when there is none, which is what the runtime   *)
(* does below 256 elements.                                                *)
(***************************************************************************)
EXTENDS Integers, Sequences

CONSTANT Empty   \* an array element that was never written

Slice(array, len) == [array |-> array, len |-> len]

Contents(heap, s) == SubSeq(heap[s.array], 1, s.len)

(* A composite literal or a variadic call: an array with no room to spare. *)
Allocate(heap, elements) == Append(heap, elements)
Allocated(heap, elements) == Slice(Len(heap) + 1, Len(elements))

HasRoom(heap, s) == s.len < Len(heap[s.array])

(* The heap and the slice after s = append(s, x).                          *)
HeapAfterAppend(heap, s, x) ==
  IF HasRoom(heap, s)
  THEN [heap EXCEPT ![s.array][s.len + 1] = x]
  ELSE LET size == IF s.len = 0 THEN 1 ELSE 2 * s.len
       IN  Append(heap, [i \in 1 .. size |->
              IF i <= s.len THEN heap[s.array][i]
              ELSE IF i = s.len + 1 THEN x ELSE Empty])

SliceAfterAppend(heap, s) ==
  Slice(IF HasRoom(heap, s) THEN s.array ELSE Len(heap) + 1, s.len + 1)
=============================================================================
