---------------------------- MODULE SeqContainer ----------------------------
(***************************************************************************)
(* What an IArray promises its callers (spec.md 3.1, 4.1, 6.1): while it   *)
(* exists it holds a finite sequence of values, and each call does to that *)
(* sequence exactly what the call asks.  call is the request of the step:  *)
(*   create(vals)    new, from_vec, from_slice                             *)
(*   insert(at,vals) push, extend, extend_from_slice, insert_slice_at_index*)
(*   truncate(to)    truncate, clear                                       *)
(*   pop             pop                                                   *)
(*   keep            shrink: the representation changes, the values not    *)
(*   destroy         drop                                                  *)
(***************************************************************************)
EXTENDS Naturals, Sequences

CONSTANT Values         \* the element values the container may hold

VARIABLES
  seq,                  \* the element sequence, the deref-as-slice view
  exists,               \* whether the container has been constructed
  call                  \* the request the last step served

vars == <<seq, exists, call>>

Init == seq = <<>> /\ ~exists

Create ==
  /\ call'.op = "create"
  /\ ~exists /\ exists'
  /\ call'.vals \in Seq(Values)
  /\ seq' = call'.vals

Insert ==
  /\ call'.op = "insert"
  /\ exists /\ exists'
  /\ call'.at <= Len(seq)
  /\ call'.vals \in Seq(Values)
  /\ seq' = SubSeq(seq, 1, call'.at) \o call'.vals
              \o SubSeq(seq, call'.at + 1, Len(seq))

Truncate ==
  /\ call'.op = "truncate"
  /\ exists /\ exists'
  /\ seq' = IF call'.to < Len(seq) THEN SubSeq(seq, 1, call'.to) ELSE seq

Pop ==
  /\ call'.op = "pop"
  /\ exists /\ exists'
  /\ seq' = IF seq = <<>> THEN seq ELSE SubSeq(seq, 1, Len(seq) - 1)

Keep ==
  /\ call'.op = "keep"
  /\ exists /\ exists'
  /\ seq' = seq

Destroy ==
  /\ call'.op = "destroy"
  /\ exists /\ ~exists'
  /\ seq' = <<>>

Next == Create \/ Insert \/ Truncate \/ Pop \/ Keep \/ Destroy

Spec == Init /\ [][Next]_vars

=============================================================================
