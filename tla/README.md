# TLA+ models of skytable's IArray, wire-frame parser and query dispatch

This directory holds TLA+ specifications of three source files under
`src/server/src`, with the TLC configurations that check them:

| Source | Part | Module |
|---|---|---|
| `coredb/iarray.rs` | `IArray<A>`: an array that keeps up to N elements inline and spills to one heap block | `IArray`, refined into `SeqContainer` |
| `coredb/iarray.rs` | `PartialEq<IArray<B>> for IArray<A>`: equality across inline capacities | `IArrayEq`, two `IArray` instances composed |
| `protocol/parserv2.rs` | `Parser`: a cursor over a borrowed buffer that decodes metaframes and action-group headers | `FrameParser` |
| `queryengine/mod.rs` | `execute_simple` / `entity_swap`: query dispatch for one connection | `QueryDispatch` |

Checking a run:

    tlc -workers 2 -config <run>.cfg <MCModule>

## 1. Inventory

### IArray (`coredb/iarray.rs`)

**State.** `IArray { cap, store }`.

- `store` is the `InlineArray` union: either N `MaybeUninit` slots, or the heap tuple `(ptr, len)`.
- `cap` is the only tag. The array is spilled iff `cap > N`.
- While inline, `cap` is the length. While spilled, `cap` is the heap capacity.
- Each operation also touches the global allocator (live blocks and their layouts) and, for element types with a destructor, the element values that exist.

**Operations.**

- Constructors: `new`, `from_vec`, `from_slice`.
- Mutators: `push`, `pop`, `truncate`, `clear`, `shrink`, `Extend::extend`, `insert_slice_at_index`, `extend_from_slice`.
- `Drop`.
- Helpers they call: `grow_block`, `reserve`, `set_len`, `dealloc`, `meta_triple(_mut)`, and `LenScopeGuard`, the length that extend publishes on scope exit.

**Hard behaviours.**

- Every method decides which union variant to read from `cap` alone.
- `grow_block` moves between inline storage, allocation and `realloc`.
- `push` assumes that `reserve(1)` put the array on the heap.
- `extend` must publish exactly the items written when the iterator panics (spec.md 8.7).
- `from_vec` either adopts the Vec's block or copies the elements.
- `Drop` frees with the layout `cap` names.

There is no concurrency: an `IArray` is owned and used through `&mut self`. The interleavings that matter are the orders in which one caller calls the methods.

### Frame parser (`protocol/parserv2.rs`)

**State.** `Parser { cursor, buffer }`.

**Operations.**

- `read_until`
- `read_line`
- `read_sizeline`
- `parse_into_usize`
- `parse_metaframe`
- `parse_actiongroup_size`

The caller parses the metaframe, then group headers, and discards the parser at the first error (spec.md 4.2).

**Hard behaviours.**

- The cursor contract on success and failure.
- Zero-length and empty sizelines.
- The trailing LF that is skipped without being checked.
- A buffer that ends early (NotEnough) versus one that can never be a frame (UnexpectedByte).
- usize overflow of the digit accumulator.

### Query dispatch (`queryengine/mod.rs`)

`execute_simple` rejects any element that is not an `AnyArray`. It takes the first token, upper-cases it and matches it against the action table. `entity_swap` checks that it got exactly one argument, parses the entity, and maps `Corestore::swap_entity`'s result to a response.

The handlers, `Corestore` and the response writer are outside `src/`.

**Hard behaviours.**

- Case conversion at the edges of `'a'..'z'`.
- The arity check that protects `unsafe_unwrap`.
- The `impossible!()` arm (undefined behaviour), which relies on what another file's function can return.
- The switch of entity that happens before OKAY is written, which can fail.

## 2. Modules and how they correspond to the code

### `SeqContainer`: what an IArray promises

A sequence of values that exists between construction and drop. Each step is keyed on the request the caller made:

| Request | Methods | Effect on the sequence |
|---|---|---|
| `create(vals)` | `new`, `from_vec`, `from_slice` | becomes `vals` |
| `insert(at, vals)` | `push`, `extend`, `extend_from_slice`, `insert_slice_at_index` | `vals` inserted at `at` |
| `truncate(to)` | `truncate`, `clear` | cut to length `to` |
| `pop` | `pop` | last value removed |
| `keep` | `shrink` | unchanged |
| `destroy` | `Drop` | gone |

### `IArray`

**Variables.**

| Variable | Models |
|---|---|
| `cap` | `IArray.cap` |
| `store` | the union, as the variant last written, so reading the other variant is seen |
| `mem` | the allocator: address → live flag and slots |
| `alive` | element values not yet dropped |
| `next` | the caller's next fresh element |
| `phase` | before construction / live / dropped |
| `fault` | the undefined behaviour or panic a step hit. A fault ends the behaviour. |
| `call` | the history variable the refinement reads |

**Operators.** The private helpers (`grow_block`, `reserve`, `push`, `truncate`, `shrink`, `extend`, `insert_slice_at_index`, `dealloc`, `drop_values`) are operators from a record of the whole state to a new one. The accessors they read through are operators on that record: `stack_capacity`, and `heap_readable` for `InlineArray::heap*`, which is defined only for the variant last written. An action composes them in the order the method calls them, then `Commit`s the result.

**Actions.** One per public method: `New`, `FromVec`, `FromSlice`, `Push`, `Pop`, `Truncate`, `Clear`, `Shrink`, `Extend`, `InsertSliceAtIndex`, `ExtendFromSlice`, `Drop`.

**Caller inputs** are small sets:

- Vecs of length ≤ `MaxSlice` with a capacity from `VecCaps`;
- slices and iterators of up to `MaxSlice` values;
- an iterator's lower size hint `lb`;
- the call at which the iterator panics, `panic_at`.

**Caller constants.** Three constants say whether callers make the calls the code mishandles:

- `ShrinkInline`: shrink on an inline array;
- `InsertMidSlice`: `insert_slice_at_index` below `len`;
- `VecCaps` ≤ N: `from_vec` that copies inline.

The passing runs leave those calls out, so they check the rest of the behaviour. Each violation run turns one of them on.

**Element types.** `CopyElems` picks the element type:

- `Copy`: the slice methods exist and nothing is dropped;
- a type with a destructor: `alive` tracks every drop.

### `FrameParser`

**Variables.**

- `buffer`: fixed in `Init`. It is one of a few heads, followed by every sequence of up to `MaxTail` bytes.
- `cursor`
- `phase`: which call the caller makes next.
- `result`: the last call's outcome, with the cursor it started at.

**Operators.** The parser methods are operators from a cursor to an outcome `[r, v, at]`:

- `read_until`
- `read_line`
- `read_sizeline`
- `parse_into_usize`, via the recursive `parse_digits`: Horner's rule on a `UsizeBits`-wide usize that wraps, or panics with `OverflowChecks`
- `parse_frame`

**Actions.** `ParseMetaframe` and `ParseActiongroupSize`.

**Reference grammar.** The grammar of spec.md 4.2 is written independently of the code:

- `IsFrame`
- `FrameValue`, computed by place value rather than Horner's rule
- `IsProperPrefix`

### `QueryDispatch`

**Variables.**

| Variable | Models |
|---|---|
| `current` | Corestore's entity for the connection |
| `conn` | open, or closed after an I/O error |
| `reply` | the last response written, or `lost` |
| `last` | the last query, a history variable |
| `ub` | `impossible!()` was reached |

**The action.** `ExecuteSimple(q, io_ok)` is the whole of `execute_simple`. It covers:

- the `Element::AnyArray` check;
- an empty array;
- `Upper` on the first token: `make_ascii_uppercase`, byte by byte;
- the table lookup, `Lookup`: the match that `gen_constants_and_matches!` generates;
- `entity_swap`: `err_if_len_is!`, `get_query_entity`, `swap_entity` and the `swap_entity!` match.

Every `write_response(..).await?` can fail (`io_ok`). A failure ends the task.

**Outside `src/`.** `Corestore::swap_entity` and `parser::get_query_entity` are spec-modelled:

- an entity Corestore lacks gives `ObjectNotFound`;
- an entity without a default gives `DefaultNotFound`;
- a malformed name gives an error response.

Handlers of other actions write their own reply and leave the entity alone. DDL that creates or drops entities is not modelled.

### `IArrayEq`: two arrays of different inline capacity

`IArrayEq` instantiates `IArray` twice, as `A` with `N = NA` and `B` with `N = NB`. Both are for a Copy element type and share one allocator (`mem`). Each instance has its own `cap`, `store`, `next`, `phase`, `fault` and `call`. `eq` is the code's `self[..] == rhs[..]`: it compares the two `Contents` views.

The callers follow `test_equality`:

- `Create`: `IArray::new` of both.
- `ExtendA(k)` / `ExtendB(k)`: while the two are level, one array takes `k` fresh values by `extend_from_slice`.
- `PushB` / `PushA`: the other array catches up by one `push` per value.
- `PopBoth`, `TruncateBoth(t)`: applied to both while they are level.

Each array numbers its values 1, 2, … from its own counter, so two arrays that are level hold the same values. The two spill and grow at different lengths: the `N = 2` array goes to the heap at its third value while the `N = 4` one is still inline.

**Reference.** `Spells` is a reference case-fold, written from the protocol and not from `make_ascii_uppercase`.

## 3. Runs

| Run | Expect | Checks | Shows |
|---|---|---|---|
| `iarray_drop` | pass | TypeOK, MemorySafe, RepInv, OwnedExactlyOnce | Destructor type. Every order of calls stays memory safe: no union misread, no out-of-bounds, no wrong-layout free, no double drop, no uninit read. The tag, block and length stay consistent. No block leaks. Every value is owned exactly once, including after a panicking extend. |
| `iarray_copy` | pass | MemorySafe, RepInv, RefinesSeqContainer | Copy type with `N = 4`, Vec capacities on both sides of N, the slice methods. The array implements `SeqContainer`. |
| `iarray_eq` | pass | EqAcrossCapacities | An `N = 2` and an `N = 4` array over one allocator compare equal exactly when they were given the same values. This holds whichever of `extend_from_slice` and `push` built each one, and through every spill, realloc, pop and truncate. |
| `iarray_shrink` | violation | ShrinkContract | `new(); shrink()` reads the heap tuple from stack bytes (TLC's trace). The same early return keeps a spilled array with `len <= N` on the heap, which the contract also forbids. No run prints a trace for that second case. |
| `iarray_from_vec_inline` | violation | OwnedExactlyOnce | `from_vec` of a small Vec drops elements the array still holds. |
| `iarray_insert_mid` | violation | RefinesSeqContainer | `insert_slice_at_index(s, i)` with `i < len` appends `s`. |
| `parser` | pass | TypeOK, Completeness | Every well-formed frame is decoded to its value, and the cursor lands on the next frame. This holds for frames that the arbitrary tails build themselves, not only for the hand-written heads. |
| `parser_soundness` | violation | Soundness | `"#1\n!"` returns `Ok(0)` with the cursor past the end. |
| `parser_nopanic` | violation | NoPanic | `"#"` (sizeline 0) panics at `our_chunk[0]`. |
| `parser_error_kind` | violation | ErrorKindMatchesInput | An exhausted buffer gets UnexpectedByte, so the connection is reset on a partial read (TLC's trace). Read from the code, not from a trace: `"#1\n"` gets NotEnough, though it can never become a frame. |
| `parser_decodes_exactly` | violation | DecodesExactly | With a 4-bit usize, `"#3\n!20\n"` decodes to 4: `parse_into_usize` wraps instead of failing. |
| `querydispatch` | pass | DispatchIsCaseInsensitive, SwapOnlyOnValidUse | Verbs dispatch in any ASCII case. The entity changes only through `use` with exactly one argument naming an existing entity that has a default. Writes can fail throughout. |

Every property of a passing run has a mutant in `PROJECT.json`: a plausible bug in one definition that TLC catches under that run's configuration.

### Bounds

**IArray.**

- `iarray_copy` uses `N = 4`, slices of up to 5 and 8 values. `reserve` then rounds 4 + 5 up to 16, and `from_vec` sees capacities 0–6: it copies inline up to 4 and adopts the block above that. It takes about 80 s.
- The other IArray runs use `N = 2` (the smallest `MemoryBlock` size) and `MaxSlice = 3`. The array spills 2 → 4, reallocates 4 → 8, moves back under N, and panics part-way through an extend.
- `MaxElems` (6 or 7) caps the fresh values callers create, and so the length of a behaviour.
- Two addresses suffice: at most the array's block and a Vec's block exist at once.
- `iarray_eq` uses `NA = 2`, `NB = 4`, six values per array and slices of up to three. The small array spills at 3 and grows to 8. The large one spills at 5. While the small one is on the heap, the large one is inline at the same length.
- `iarray_insert_mid` uses `N = 4`. The wrong shift then stays inside the block, so the run shows the misplacement itself rather than an out-of-bounds write.

**Parser.**

- The violation runs use the type bytes, LF, the digits 0–2 and `x`. These cover every branch of the digit decoder and every byte the grammar tells apart.
- The passing run `parser` drops `x`, which no frame contains, and tries tails of up to 6 bytes. A frame is at least 6 bytes long, so tails hold whole frames: `"#2\n!1\n"` from the start, and `"#2\n&1\n"` after the metaframe head. The tails are tried alone and after one or two complete frames, which adds two-digit values and a leading zero. The run takes about 90 s and 1.2 million states; 6-byte tails over the full alphabet take almost 6 minutes.
- usize is 16 bits in the passing run, so no value wraps there. It is 4 bits in `parser_decodes_exactly`, so a two-digit count wraps.

**QueryDispatch.**

- Three tags: USE, SET, and DBSIZE (which contains 'Z').
- Nine first tokens: the tags in several case mixes, a prefix and an extension of USE, and the empty token.
- Up to two arguments, drawn from four entities and one malformed name:
  - two entities the connection can switch between;
  - one entity without a default;
  - one entity Corestore lacks.

  Every `use` outcome and every arity therefore occurs.
- Each run uses one connection. Connections do not share the `current` entity.

### Fairness and deadlock

The code is sequential, and no run assumes fairness. `test_equality`'s loop pushes every byte, but the equality property that would need it (two arrays that differ come to compare equal again) follows from `EqAcrossCapacities` and the fact that `push` never faults. The liveness property adds nothing, so it is not checked.

One liveness candidate was tried: the parser's caller loop ends, `<>(phase = "gone")` under weak fairness of the two parse actions. TLC checks it, but evaluating `parse_frame` inside the liveness checker took about 0.1 s per state. Even 3-byte tails did not finish in 5 minutes, so the property is not part of a run. What it would show, that every successful call advances the cursor, is implied by `Completeness` for frames and by the `parser_soundness` trace for non-frames.

Deadlock checking is off only where the code stops:

- in the parser runs, because the caller discards the parser after an error;
- in `querydispatch`, because the connection task ends at its first I/O error;
- in the violation runs that end at a fault, because a panic or UB ends the process.

## 4. Not modelled

- Zero-sized element types (`stack_capacity = usize::MAX`).
- Allocator failure, which aborts with `expect`.
- Layout size overflow, which needs usize-wide capacities.
- The order in which values are dropped. Only the set of dropped values is tracked.
- `PartialOrd`, `Ord`, `Hash`, `AsRef`, `Borrow` and `Debug`. They hand the deref slice to core's impls and have no code of their own beyond that. `PartialEq` is modelled in `IArrayEq`.
- `insert_slice_at_index` with `index > len`. Only a `debug_assert` guards it; in release builds `len - index` wraps and `ptr::copy` runs out of bounds. No caller in `src/` passes such an index, so the model keeps `index <= len`.
- The handlers of the other actions, Corestore's storage and DDL, the element parser that produces the query, and the network loop around `execute_simple`. They are outside `src/`.

## 5. Plan

1. Done: `IArray` with `SeqContainer` as its abstract specification, and `FrameParser` against the grammar.
2. Done: `parser_decodes_exactly` shows `parse_into_usize` wrapping on a narrow usize.
3. Done: `QueryDispatch`.
4. Done: `IArrayEq`, equality across inline capacities. The two shrink runs were merged into `iarray_shrink`, with one contract for both cases.
5. Done: `iarray_copy` at `N = 4` with slices of 5.
6. Done: the passing parser run reaches whole frames in its tails.
