------------------------------- MODULE IArray -------------------------------
(***************************************************************************)
(* IArray<A> of src/server/src/coredb/iarray.rs: a growable array that     *)
(* keeps up to N elements in its own footprint and spills to one heap      *)
(* block beyond that.  The field cap is the only tag of the InlineArray    *)
(* union: the array is on the heap iff cap > N.                            *)
(*                                                                         *)
(* The model keeps the union as the variant last written, so a read of the *)
(* other variant is visible; the global allocator as a map from addresses  *)
(* to blocks of slots; and, when the element type has a destructor, the    *)
(* set of element values that exist and have not been dropped.  Each       *)
(* public method is one action; reserve, grow_block, the length guard and  *)
(* the allocator calls are operators on a record of the whole state, so an *)
(* action applies them in the order the method calls them.  A step that   *)
(* hits undefined behaviour or a panic records it in fault and ends the    *)
(* behaviour.                                                              *)
(***************************************************************************)
EXTENDS Naturals, Sequences, FiniteSets
LOCAL INSTANCE Functions

CONSTANTS
  N,              \* A::size(): the inline capacity, stack_capacity()
  MaxElems,       \* how many element values the callers create in all
  Ptrs,           \* the addresses the allocator can hand out
  CopyElems,      \* TRUE: A::LayoutItem is Copy; FALSE: it has a destructor
  MaxSlice,       \* longest slice, Vec or iterator a caller passes in
  VecCaps,        \* capacities of the Vecs callers hand to from_vec
  ShrinkInline,   \* whether callers call shrink() on an array still inline
  InsertMidSlice  \* whether callers call insert_slice_at_index below len

ASSUME N \in {2, 4, 8, 16, 32, 64, 128, 256}
ASSUME MaxElems \in Nat /\ MaxSlice \in Nat /\ VecCaps \subseteq Nat
ASSUME Ptrs # {}
ASSUME {CopyElems, ShrinkInline, InsertMidSlice} \subseteq BOOLEAN

Uninit == 0                   \* a MaybeUninit slot never written
Elems == 1..MaxElems          \* element values, each created once
Slot == Elems \cup {Uninit}

Faults == {"union_misread", "out_of_bounds", "invalid_dealloc",
           "double_drop", "uninit_read", "assert_new_cap_gt_len"}

VARIABLES
  cap,     \* IArray.cap: the length while inline, the heap capacity beyond N
  store,   \* IArray.store, the InlineArray union, as the variant last written
  mem,     \* the global allocator: per address, whether live and its slots
  alive,   \* element values created and not dropped yet (T with a destructor)
  next,    \* the next fresh element value a caller creates
  phase,   \* "none" before construction and after drop, "live" in between
  fault,   \* "none", or the undefined behaviour or panic a step ran into
  call     \* the caller's request the last step served (history only)

vars == <<cap, store, mem, alive, next, phase, fault, call>>

-----------------------------------------------------------------------------
(* The union variants and the allocator.                                   *)

Stack(f) == [tag |-> "stack", slots |-> f]      \* InlineArray::from_stack
Heap(p, n) == [tag |-> "heap", ptr |-> p, len |-> n]  \* from_heap_ptr
EmptyStack == Stack([i \in 1..N |-> Uninit])    \* MaybeUninit::uninit()
\* InlineArray::heap, heap_mut, heap_ptr, heap_size: reading the heap tuple
\* is defined only when it is the variant last written.
heap_readable(A) == A.store.tag = "heap"

FreeBlock == [live |-> FALSE, slots |-> <<>>]

\* The first k slots of d in a block of size n, the rest uninitialized.
Prefix(d, k, n) == [i \in 1..n |-> IF i <= k THEN d[i] ELSE Uninit]

Lesser(a, b) == IF a <= b THEN a ELSE b

\* usize::next_power_of_two
NextPowerOfTwo(n) ==
  LET P == {2^e : e \in 0..n}
  IN CHOOSE p \in P : p >= n /\ \A q \in P : q >= n => p <= q

\* The state as a record, so that the helpers compose the way calls do.
Cur == [cap |-> cap, store |-> store, mem |-> mem, alive |-> alive,
        fault |-> "none"]

Commit(A) ==
  /\ cap' = A.cap /\ store' = A.store /\ mem' = A.mem
  /\ alive' = A.alive /\ fault' = A.fault

Fail(A, what) == [A EXCEPT !.fault = what]

Failed(A) == A.fault # "none"

-----------------------------------------------------------------------------
(* Observers: went_off_stack, len, get_capacity, and the slots the data    *)
(* pointer of meta_triple / get_data_ptr_mut addresses.                    *)

\* stack_capacity: A::size() for an element type that is not zero-sized.
stack_capacity == N

went_off_stack(A) == A.cap > stack_capacity

len(A) == IF went_off_stack(A) THEN A.store.len ELSE A.cap

get_capacity(A) == IF went_off_stack(A) THEN A.cap ELSE stack_capacity

data(A) == IF went_off_stack(A) THEN A.mem[A.store.ptr].slots
                                ELSE A.store.slots

\* Writing through the data pointer.
with_data(A, d) ==
  IF went_off_stack(A) THEN [A EXCEPT !.mem[A.store.ptr].slots = d]
                       ELSE [A EXCEPT !.store.slots = d]

\* *len_mut = n, where len_mut is the heap length or cap itself.
set_len(A, n) ==
  IF went_off_stack(A) THEN [A EXCEPT !.store.len = n]
                       ELSE [A EXCEPT !.cap = n]

\* The deref-as-slice view.
Contents(A) ==
  [i \in 1..len(A) |-> IF i \in DOMAIN data(A) THEN data(A)[i] ELSE Uninit]

\* std_alloc::dealloc with calculate_memory_layout(capacity): the block must
\* be live and the layout the one it was allocated with.
dealloc(A, p, capacity) ==
  IF A.mem[p].live /\ Len(A.mem[p].slots) = capacity
  THEN [A EXCEPT !.mem[p] = FreeBlock]
  ELSE Fail(A, "invalid_dealloc")

\* ptr::drop_in_place on each value of vs (nothing for a Copy type).
drop_values(A, vs) ==
  CASE CopyElems                -> A
    [] Uninit \in vs            -> Fail(A, "uninit_read")
    [] ~(vs \subseteq A.alive)  -> Fail(A, "double_drop")
    [] OTHER                    -> [A EXCEPT !.alive = @ \ vs]

-----------------------------------------------------------------------------
(* grow_block, reserve, push: the memory-shape transitions.                *)

\* Mutant of grow_block: realloc without self.cap = new_cap.
grow_block_stale_cap(A, new_cap) ==
  LET l == len(A)
      d == data(A)
      still_on_stack == ~went_off_stack(A)
  IN
  CASE ~(new_cap > l) -> Fail(A, "assert_new_cap_gt_len")
    [] new_cap <= stack_capacity /\ still_on_stack -> A
    [] new_cap <= stack_capacity ->
         dealloc([A EXCEPT !.store = Stack(Prefix(d, l, N)), !.cap = l],
                 A.store.ptr, A.cap)
    [] new_cap = get_capacity(A) -> A
    [] still_on_stack ->
         LET p == CHOOSE q \in Ptrs : ~A.mem[q].live
         IN [A EXCEPT !.mem[p] = [live |-> TRUE,
                                  slots |-> Prefix(d, l, new_cap)],
                      !.store = Heap(p, l), !.cap = new_cap]
    [] OTHER ->
         [A EXCEPT !.mem[A.store.ptr].slots =
                     Prefix(d, Lesser(Len(d), new_cap), new_cap),
                   !.store = Heap(A.store.ptr, l)]

\* Mutant of grow_block: the spill copies one slot fewer than len.
grow_block_spill_short(A, new_cap) ==
  LET l == len(A)
      d == data(A)
      still_on_stack == ~went_off_stack(A)
  IN
  CASE ~(new_cap > l) -> Fail(A, "assert_new_cap_gt_len")
    [] new_cap <= stack_capacity /\ still_on_stack -> A
    [] new_cap <= stack_capacity ->
         dealloc([A EXCEPT !.store = Stack(Prefix(d, l, N)), !.cap = l],
                 A.store.ptr, A.cap)
    [] new_cap = get_capacity(A) -> A
    [] still_on_stack ->
         LET p == CHOOSE q \in Ptrs : ~A.mem[q].live
         IN [A EXCEPT !.mem[p] = [live |-> TRUE,
                                  slots |-> Prefix(d, l - 1, new_cap)],
                      !.store = Heap(p, l), !.cap = new_cap]
    [] OTHER ->
         IF Len(A.mem[A.store.ptr].slots) # A.cap
         THEN Fail(A, "invalid_dealloc")
         ELSE [A EXCEPT !.mem[A.store.ptr].slots =
                          Prefix(d, Lesser(Len(d), new_cap), new_cap),
                        !.store = Heap(A.store.ptr, l), !.cap = new_cap]

grow_block(A, new_cap) ==
  LET l == len(A)
      d == data(A)
      still_on_stack == ~went_off_stack(A)
  IN
  CASE ~(new_cap > l) -> Fail(A, "assert_new_cap_gt_len")
    [] new_cap <= stack_capacity /\ still_on_stack -> A
    [] new_cap <= stack_capacity ->
         \* back to the stack: copy l slots, then free the old block
         dealloc([A EXCEPT !.store = Stack(Prefix(d, l, N)), !.cap = l],
                 A.store.ptr, A.cap)
    [] new_cap = get_capacity(A) -> A
    [] still_on_stack ->
         LET p == CHOOSE q \in Ptrs : ~A.mem[q].live
         IN [A EXCEPT !.mem[p] = [live |-> TRUE,
                                  slots |-> Prefix(d, l, new_cap)],
                      !.store = Heap(p, l), !.cap = new_cap]
    [] OTHER ->
         \* realloc(data_ptr, layout(cap), new size) keeps the old slots
         IF Len(A.mem[A.store.ptr].slots) # A.cap
         THEN Fail(A, "invalid_dealloc")
         ELSE [A EXCEPT !.mem[A.store.ptr].slots =
                          Prefix(d, Lesser(Len(d), new_cap), new_cap),
                        !.store = Heap(A.store.ptr, l), !.cap = new_cap]

reserve(A, additional) ==
  IF get_capacity(A) - len(A) >= additional THEN A
  ELSE grow_block(A, NextPowerOfTwo(len(A) + additional))

\* Mutant of push: the full test off by one.
push_full_off_by_one(A, v) ==
  LET full == len(A) + 1 = get_capacity(A)
      B == IF full THEN reserve(A, 1) ELSE A
      l == len(A)
  IN
  CASE Failed(B) -> B
    [] full /\ ~heap_readable(B) -> Fail(B, "union_misread")
    [] l + 1 \notin DOMAIN data(B) -> Fail(B, "out_of_bounds")
    [] OTHER -> set_len(with_data(B, [data(B) EXCEPT ![l + 1] = v]), l + 1)

\* push: when full, reserve(1) and then use the heap tuple unconditionally.
push(A, v) ==
  LET full == len(A) = get_capacity(A)
      B == IF full THEN reserve(A, 1) ELSE A
      l == len(A)
  IN
  CASE Failed(B) -> B
    [] full /\ ~heap_readable(B) -> Fail(B, "union_misread")
    [] l + 1 \notin DOMAIN data(B) -> Fail(B, "out_of_bounds")
    [] OTHER -> set_len(with_data(B, [data(B) EXCEPT ![l + 1] = v]), l + 1)

RECURSIVE push_all(_, _)
push_all(A, vs) ==
  IF vs = <<>> \/ Failed(A) THEN A ELSE push_all(push(A, Head(vs)), Tail(vs))

\* Mutant of truncate: the length is cut without drop_in_place.
truncate_without_drop(A, target_len) ==
  IF target_len >= len(A) THEN A ELSE set_len(A, target_len)

truncate(A, target_len) ==
  IF target_len >= len(A) THEN A
  ELSE drop_values(set_len(A, target_len),
                   {data(A)[i] : i \in target_len + 1..len(A)})

\* shrink: the early return is taken when the array is on the heap; an
\* inline array goes on to read the heap tuple out of the stack bytes.
shrink(A) ==
  CASE went_off_stack(A) -> A
    [] stack_capacity >= len(A) /\ ~heap_readable(A) ->
         Fail(A, "union_misread")
    [] get_capacity(A) > len(A) -> grow_block(A, len(A))
    [] OTHER -> A

\* Mutant of extend: the LenScopeGuard never stores its count back.
extend_guard_lost(A, items, lb, panic_at) ==
  LET B == reserve(A, lb)
      l == len(B)
      produced == IF panic_at = 0 THEN Len(items) ELSE panic_at - 1
      w == Lesser(get_capacity(B) - l, produced)
      guarded == [i \in DOMAIN data(B) |->
                    IF l < i /\ i <= l + w THEN items[i - l] ELSE data(B)[i]]
      published == with_data(B, guarded)
  IN
  CASE Failed(B) -> B
    [] w < get_capacity(B) - l -> published
    [] OTHER -> push_all(published, SubSeq(items, w + 1, produced))

\* Extend: reserve the iterator's lower size hint lb, write under the
\* LenScopeGuard until the capacity, the end of the iterator or a panic of
\* next() at call number panic_at (0: none), then push the rest.
extend(A, items, lb, panic_at) ==
  LET B == reserve(A, lb)
      l == len(B)
      produced == IF panic_at = 0 THEN Len(items) ELSE panic_at - 1
      w == Lesser(get_capacity(B) - l, produced)
      guarded == [i \in DOMAIN data(B) |->
                    IF l < i /\ i <= l + w THEN items[i - l] ELSE data(B)[i]]
      published == set_len(with_data(B, guarded), l + w)
  IN
  CASE Failed(B) -> B
    [] w < get_capacity(B) - l -> published
    [] OTHER -> push_all(published, SubSeq(items, w + 1, produced))

\* Mutant of insert_slice_at_index: no reserve before the copies.
insert_slice_unreserved(A, s, index) ==
  LET l == len(A)
      k == Len(s)
      d == data(A)
      src == l + 1..l + (l - index)
      dst == l + k + 1..l + k + (l - index)
      moved == [i \in DOMAIN d |-> IF i \in dst THEN d[i - k] ELSE d[i]]
      filled == [i \in DOMAIN d |->
                   IF l < i /\ i <= l + k THEN s[i - l] ELSE moved[i]]
  IN
  IF ~(src \cup dst \cup (l + 1..l + k) \subseteq DOMAIN d)
  THEN Fail(A, "out_of_bounds")
  ELSE set_len(with_data(A, filled), l + k)

\* insert_slice_at_index: the shift starts at data_ptr + len, as written.
insert_slice_at_index(A, s, index) ==
  LET B == reserve(A, Len(s))
      l == len(B)
      k == Len(s)
      d == data(B)
      src == l + 1..l + (l - index)
      dst == l + k + 1..l + k + (l - index)
      moved == [i \in DOMAIN d |-> IF i \in dst THEN d[i - k] ELSE d[i]]
      filled == [i \in DOMAIN d |->
                   IF l < i /\ i <= l + k THEN s[i - l] ELSE moved[i]]
  IN
  CASE Failed(B) -> B
    [] ~(src \cup dst \cup (l + 1..l + k) \subseteq DOMAIN d) ->
         Fail(B, "out_of_bounds")
    [] OTHER -> set_len(with_data(B, filled), l + k)

-----------------------------------------------------------------------------
(* Actions: one per public method.                                         *)

\* Fresh element values next .. next + k - 1, made by the caller.
Fresh(k) == [i \in 1..k |-> next + i - 1]

CanCreate(k) == next + k - 1 <= MaxElems

Created(A, vs) ==
  IF CopyElems THEN A ELSE [A EXCEPT !.alive = @ \cup Range(vs)]

\* A behaviour ends at the first fault.
Live == fault = "none" /\ phase = "live" /\ UNCHANGED phase

Idle == fault = "none" /\ phase = "none"

New ==
  /\ Idle
  /\ phase' = "live" /\ call' = [op |-> "create", vals |-> <<>>]
  /\ cap' = 0 /\ store' = EmptyStack
  /\ UNCHANGED <<mem, alive, next, fault>>

\* from_vec(v) for a Vec of length l and capacity c; a Vec of capacity 0
\* owns no block.  Inline: copy l slots, then the Vec goes out of scope.
FromVec(l, c) ==
  LET vs == Fresh(l)
      p == CHOOSE q \in Ptrs : ~mem[q].live
      V == [Created(Cur, vs) EXCEPT
              !.mem = IF c > 0 THEN [mem EXCEPT ![p] = [live |-> TRUE,
                                       slots |-> Prefix(vs, l, c)]]
                               ELSE mem]
      Inline == [V EXCEPT !.store = Stack(Prefix(vs, l, N)), !.cap = l]
      VecDropped == drop_values(Inline, Range(vs))
  IN
  /\ Idle /\ CanCreate(l) /\ l <= c
  /\ phase' = "live" /\ next' = next + l
  /\ call' = [op |-> "create", vals |-> vs]
  /\ Commit(CASE c > stack_capacity ->
                [V EXCEPT !.store = Heap(p, l), !.cap = c]
              [] c > 0 -> dealloc(VecDropped, p, c)
              [] OTHER -> VecDropped)

\* from_slice(s) for a Copy type; beyond N the slice is copied by to_vec,
\* whose capacity is its length.
FromSlice(l) ==
  LET vs == Fresh(l)
      p == CHOOSE q \in Ptrs : ~mem[q].live
  IN
  /\ CopyElems /\ Idle /\ CanCreate(l)
  /\ phase' = "live" /\ next' = next + l
  /\ call' = [op |-> "create", vals |-> vs]
  /\ Commit(IF l <= stack_capacity
            THEN [Cur EXCEPT !.store = Stack(Prefix(vs, l, N)), !.cap = l]
            ELSE [Cur EXCEPT !.mem[p] = [live |-> TRUE, slots |-> vs],
                             !.store = Heap(p, l), !.cap = l])

Push ==
  /\ Live /\ CanCreate(1)
  /\ next' = next + 1
  /\ call' = [op |-> "insert", at |-> len(Cur), vals |-> Fresh(1)]
  /\ Commit(push(Created(Cur, Fresh(1)), next))

\* Mutant of Pop: no empty check, and the value is not read out.
Pop_unchecked ==
  /\ Live /\ UNCHANGED next
  /\ call' = [op |-> "pop"]
  /\ Commit(set_len(Cur, len(Cur) - 1))

\* pop moves the last value out to the caller, who drops it.
Pop ==
  /\ Live /\ UNCHANGED next
  /\ call' = [op |-> "pop"]
  /\ IF len(Cur) = 0
     THEN UNCHANGED <<cap, store, mem, alive, fault>>
     ELSE Commit(drop_values(set_len(Cur, len(Cur) - 1),
                             {data(Cur)[len(Cur)]}))

Truncate(target_len) ==
  /\ Live /\ UNCHANGED next
  /\ call' = [op |-> "truncate", to |-> target_len]
  /\ Commit(truncate(Cur, target_len))

Clear ==
  /\ Live /\ UNCHANGED next
  /\ call' = [op |-> "truncate", to |-> 0]
  /\ Commit(truncate(Cur, 0))

Shrink ==
  /\ Live /\ UNCHANGED next
  /\ went_off_stack(Cur) \/ ShrinkInline
  /\ call' = [op |-> "keep"]
  /\ Commit(shrink(Cur))

\* extend with an iterator of k items, lower size hint lb <= k, panicking
\* at call panic_at (0: never).
Extend(k, lb, panic_at) ==
  LET produced == IF panic_at = 0 THEN k ELSE panic_at - 1
  IN
  /\ Live /\ CanCreate(produced)
  /\ next' = next + produced
  /\ call' = [op |-> "insert", at |-> len(Cur), vals |-> Fresh(produced)]
  /\ Commit(extend(Created(Cur, Fresh(produced)), Fresh(k), lb, panic_at))

InsertSliceAtIndex(k, index) ==
  /\ CopyElems /\ Live /\ CanCreate(k)
  /\ index <= len(Cur)
  /\ index = len(Cur) \/ InsertMidSlice
  /\ next' = next + k
  /\ call' = [op |-> "insert", at |-> index, vals |-> Fresh(k)]
  /\ Commit(insert_slice_at_index(Cur, Fresh(k), index))

ExtendFromSlice(k) ==
  /\ CopyElems /\ Live /\ CanCreate(k)
  /\ next' = next + k
  /\ call' = [op |-> "insert", at |-> len(Cur), vals |-> Fresh(k)]
  /\ Commit(insert_slice_at_index(Cur, Fresh(k), len(Cur)))

\* Mutant of Drop: the values are dropped but the heap block is not freed.
Drop_leaking ==
  /\ fault = "none" /\ phase = "live" /\ phase' = "none"
  /\ UNCHANGED next
  /\ call' = [op |-> "destroy"]
  /\ Commit([drop_values(Cur, Range(Contents(Cur))) EXCEPT
               !.cap = 0, !.store = EmptyStack])

\* Drop: on the heap, Vec::from_raw_parts(ptr, len, cap) drops the values
\* and frees the block with layout cap; inline, drop_in_place on the slice.
Drop ==
  LET A == drop_values(Cur, Range(Contents(Cur)))
      B == IF went_off_stack(Cur) /\ ~Failed(A)
           THEN dealloc(A, store.ptr, cap) ELSE A
  IN
  /\ fault = "none" /\ phase = "live" /\ phase' = "none"
  /\ UNCHANGED next
  /\ call' = [op |-> "destroy"]
  /\ Commit([B EXCEPT !.cap = 0, !.store = EmptyStack])

Init ==
  /\ cap = 0 /\ store = EmptyStack
  /\ mem = [p \in Ptrs |-> FreeBlock]
  /\ alive = {} /\ next = 1
  /\ phase = "none" /\ fault = "none"
  /\ call = [op |-> "none"]

Next ==
  \/ New
  \/ \E l \in 0..MaxSlice, c \in VecCaps : FromVec(l, c)
  \/ \E l \in 0..MaxSlice : FromSlice(l)
  \/ Push
  \/ Pop
  \/ \E t \in 1..MaxSlice : Truncate(t)
  \/ Clear
  \/ Shrink
  \/ \E k \in 0..MaxSlice, lb \in 0..MaxSlice, j \in 0..MaxSlice :
       lb <= k /\ j <= k /\ Extend(k, lb, j)
  \/ \E k \in 1..MaxSlice, i \in 0..MaxSlice : InsertSliceAtIndex(k, i)
  \/ \E k \in 1..MaxSlice : ExtendFromSlice(k)
  \/ Drop

Spec == Init /\ [][Next]_vars

-----------------------------------------------------------------------------
(* Properties.                                                             *)

TypeOK ==
  /\ cap \in Nat
  /\ store \in [tag : {"stack"}, slots : [1..N -> Slot]]
               \cup [tag : {"heap"}, ptr : Ptrs, len : Nat]
  /\ mem \in [Ptrs -> [live : BOOLEAN, slots : Seq(Slot)]]
  /\ alive \subseteq Elems
  /\ next \in 1..MaxElems + 1
  /\ phase \in {"none", "live"}
  /\ fault \in {"none"} \cup Faults

\* No method call, in any order the callers make them, runs into undefined
\* behaviour or a panic: no read of the union variant not written last, no
\* access outside a block, no free of a block with the wrong layout, no
\* value dropped twice or read uninitialized, no failed grow_block assert.
MemorySafe == fault = "none"

\* shrink() keeps no spare room it can give back (spec.md 4.1 and 8.5): on
\* an inline array it returns without touching anything, and a spilled
\* array whose length is at most N moves back to inline storage and frees
\* its block, so a shrink never faults and never leaves an array on the
\* heap with len <= N.
ShrinkContract ==
  [][call'.op = "keep" =>
       /\ fault' = "none"
       /\ len(Cur) <= N => cap' <= N]_vars

\* The representation invariant of the union (spec.md 3.1): cap > N exactly
\* when the heap tuple was written last; the heap block is live and has
\* exactly cap slots, of which the first len are initialized; and the only
\* live block is the array's own, so neither spill, grow nor drop leaks one.
RepInv ==
  /\ phase = "live" =>
       /\ (store.tag = "heap") <=> went_off_stack(Cur)
       /\ store.tag = "heap" =>
            /\ mem[store.ptr].live
            /\ Len(mem[store.ptr].slots) = cap
            /\ store.len <= cap
       /\ \A i \in 1..len(Cur) : data(Cur)[i] # Uninit
  /\ {p \in Ptrs : mem[p].live} =
       IF phase = "live" /\ store.tag = "heap" THEN {store.ptr} ELSE {}

\* For an element type with a destructor, every value created is held once
\* by the array or has been dropped exactly once (spec.md 8.6 and 8.7): the
\* values the array exposes are distinct and undropped, nothing outside it
\* is undropped, and after drop nothing is left.
OwnedExactlyOnce ==
  ~CopyElems =>
    /\ phase = "live" => /\ IsInjective(Contents(Cur))
                         /\ alive = Range(Contents(Cur))
    /\ phase = "none" => alive = {}

\* The slice view of the array behaves as SeqContainer says: values are
\* only inserted as one run at one position or cut off the end, and growing,
\* spilling or shrinking never reorders, loses or invents one.
Container == INSTANCE SeqContainer WITH
  Values <- Elems,
  seq <- IF phase = "live" THEN Contents(Cur) ELSE <<>>,
  exists <- phase = "live",
  call <- call

RefinesSeqContainer == Container!Spec

=============================================================================
