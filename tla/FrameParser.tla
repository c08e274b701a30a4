----------------------------- MODULE FrameParser -----------------------------
(***************************************************************************)
(* Parser of src/server/src/protocol/parserv2.rs: a cursor over a borrowed *)
(* byte buffer that decodes the metaframe "#<m>\n!<n>\n" and action-group  *)
(* headers "#<p>\n&<q>\n".  The caller builds a Parser over the bytes it   *)
(* has read, calls parse_metaframe once and parse_actiongroup_size for the *)
(* group headers after it, and discards the parser at the first error.     *)
(*                                                                         *)
(* Bytes are their ASCII codes, so the digit decoding of parse_into_usize  *)
(* is modelled by what it does (checked_sub(48), > 9, acc * 10 + d) on a   *)
(* usize of UsizeBits bits.  The buffer is chosen in Init: one of Heads    *)
(* followed by any sequence of at most MaxTail bytes of Alphabet.          *)
(***************************************************************************)
EXTENDS Naturals, Sequences, FiniteSets
LOCAL INSTANCE Functions

CONSTANTS
  Alphabet,       \* the byte codes a buffer is made of
  Heads,          \* byte sequences a buffer may start with
  MaxTail,        \* the longest arbitrary tail after a head
  UsizeBits,      \* width of usize
  OverflowChecks  \* TRUE: arithmetic overflow panics (debug build); FALSE: wraps

ASSUME Alphabet \subseteq 0..255 /\ MaxTail \in Nat /\ UsizeBits \in 1..30
ASSUME OverflowChecks \in BOOLEAN

LF == 10
BANG == 33      \* '!', the metaframe's action line
HASH == 35      \* '#', a sizeline
AMP == 38       \* '&', an action-group line

Usize == 2^UsizeBits

VARIABLES
  buffer,   \* Parser.buffer: the caller's bytes, never changed
  cursor,   \* Parser.cursor: bytes consumed so far
  phase,    \* which call the caller makes next: "meta", "group" or "gone"
  result    \* the outcome of the last call, with the cursor it started at

vars == <<buffer, cursor, phase, result>>

\* Every byte sequence of length at most n over Alphabet.
Upto(n) == UNION {[1..k -> Alphabet] : k \in 0..n}

Buffers == {h \o t : h \in Heads, t \in Upto(MaxTail)}

-----------------------------------------------------------------------------
(* The parser's methods, as operators from a cursor to an outcome record   *)
(* [r: "ok" | "NotEnough" | "UnexpectedByte" | "panic", v: value,          *)
(*  at: the cursor afterwards].  Positions are 0-based as in the code:     *)
(* byte i of the code is buffer[i + 1].                                    *)

Ok(v, at) == [r |-> "ok", v |-> v, at |-> at]
Err(e, at) == [r |-> e, v |-> 0, at |-> at]

\* usize arithmetic: wraps, or panics where overflow checks are on.
UsizeOp(x) == IF x < Usize THEN Ok(x, 0)
              ELSE IF OverflowChecks THEN Err("panic", 0) ELSE Ok(x % Usize, 0)

\* read_until: the next `until` bytes, or NotEnough with the cursor kept.
read_until(c, until) ==
  LET e == UsizeOp(c + until) IN
  CASE e.r # "ok" -> Err(e.r, c)
    [] c <= e.v /\ e.v <= Len(buffer) ->
         [r |-> "ok", v |-> SubSeq(buffer, c + 1, e.v), at |-> e.v]
    [] OTHER -> Err("NotEnough", c)

\* Mutant of read_line: the cursor is left on the LF.
read_line_keeps_lf(c) ==
  LET lfs == {i \in c + 1..Len(buffer) : buffer[i] = LF}
      stop == IF lfs = {} THEN Len(buffer) + 1
              ELSE CHOOSE i \in lfs : \A j \in lfs : i <= j
  IN [v |-> SubSeq(buffer, c + 1, stop - 1), at |-> stop - 1]

\* read_line: the bytes up to the next LF or the end of the buffer; the
\* cursor moves past the LF if there is one.
read_line(c) ==
  LET lfs == {i \in c + 1..Len(buffer) : buffer[i] = LF}
      stop == IF lfs = {} THEN Len(buffer) + 1
              ELSE CHOOSE i \in lfs : \A j \in lfs : i <= j
  IN [v |-> SubSeq(buffer, c + 1, stop - 1),
      at |-> IF lfs = {} THEN Len(buffer) ELSE stop]

\* Mutant of parse_digits: bytes below '0' are not rejected.
RECURSIVE parse_digits_unchecked(_, _)
parse_digits_unchecked(bytes, acc) ==
  IF bytes = <<>> THEN Ok(acc, 0)
  ELSE LET b == Head(bytes)
       IN IF b - 48 > 9 THEN Err("UnexpectedByte", 0)
          ELSE parse_digits_unchecked(Tail(bytes), acc * 10 + (b - 48))

\* parse_into_usize: Horner's rule over the bytes, any byte outside
\* '0'..'9' rejected (below '0' by checked_sub, above '9' by the > 9 test).
RECURSIVE parse_digits(_, _)
parse_digits(bytes, acc) ==
  IF bytes = <<>> THEN Ok(acc, 0)
  ELSE LET b == Head(bytes)
           m == UsizeOp(acc * 10)
           s == UsizeOp(m.v + (b - 48))
       IN CASE b < 48 \/ b - 48 > 9 -> Err("UnexpectedByte", 0)
            [] m.r # "ok" -> m
            [] s.r # "ok" -> s
            [] OTHER -> parse_digits(Tail(bytes), s.v)

parse_into_usize(bytes) == parse_digits(bytes, 0)

\* read_sizeline: a '#' at the cursor, then the rest of the line as digits.
read_sizeline(c) ==
  IF c < Len(buffer) /\ buffer[c + 1] = HASH
  THEN LET line == read_line(c + 1)
           n == parse_into_usize(line.v)
       IN [n EXCEPT !.at = line.at]
  ELSE Err("UnexpectedByte", c)

\* parse_metaframe and parse_actiongroup_size: a sizeline, then that many
\* bytes whose first is the line type, then one byte skipped as the LF.
parse_frame(c, type) ==
  LET size == read_sizeline(c)
      chunk == read_until(size.at, size.v)
      n == parse_into_usize(Tail(chunk.v))
  IN
  CASE size.r # "ok" -> size
    [] chunk.r # "ok" -> chunk
    [] chunk.v = <<>> -> Err("panic", chunk.at)      \* our_chunk[0]
    [] chunk.v[1] # type -> Err("UnexpectedByte", chunk.at)
    [] n.r # "ok" -> [n EXCEPT !.at = chunk.at]
    [] OTHER -> Ok(n.v, chunk.at + 1)                \* incr_cursor()

-----------------------------------------------------------------------------
(* The caller.                                                             *)

Served(call, res) ==
  /\ cursor' = res.at
  /\ result' = [call |-> call, from |-> cursor, r |-> res.r, v |-> res.v]
  /\ phase' = IF res.r = "ok" THEN "group" ELSE "gone"

Init ==
  /\ buffer \in Buffers
  /\ cursor = 0                          \* Parser::new
  /\ phase = "meta"
  /\ result = [call |-> "none", from |-> 0, r |-> "none", v |-> 0]

ParseMetaframe ==
  /\ phase = "meta"
  /\ Served("meta", parse_frame(cursor, BANG))
  /\ UNCHANGED buffer

ParseActiongroupSize ==
  /\ phase = "group"
  /\ Served("group", parse_frame(cursor, AMP))
  /\ UNCHANGED buffer

Next == ParseMetaframe \/ ParseActiongroupSize

Spec == Init /\ [][Next]_vars

-----------------------------------------------------------------------------
(* The wire grammar of spec.md 4.2 and 6.3, as a reference for the code.   *)

IsDigit(b) == 48 <= b /\ b <= 57

Digits(s) == Len(s) > 0 /\ \A i \in DOMAIN s : IsDigit(s[i])

\* Base-10 value by place value, not by the code's Horner loop.
DecimalValue(s) == SumFunction([i \in DOMAIN s |-> (s[i] - 48) * 10^(Len(s) - i)])

\* Position of the first LF of s, the end of a sizeline.
FirstLF(s) == CHOOSE a \in DOMAIN s : s[a] = LF /\ \A j \in 1..a - 1 : s[j] # LF

\* s is exactly one "#<m>\n<type><n>\n" whose m counts the type byte and
\* the digits of n.
IsFrame(s, type) ==
  /\ \E a \in DOMAIN s : s[a] = LF
  /\ LET a == FirstLF(s) IN
       /\ s[1] = HASH /\ Digits(SubSeq(s, 2, a - 1))
       /\ Len(s) >= a + 3 /\ s[a + 1] = type
       /\ Digits(SubSeq(s, a + 2, Len(s) - 1)) /\ s[Len(s)] = LF
       /\ DecimalValue(SubSeq(s, 2, a - 1)) = Len(s) - a - 1

FrameValue(s) == DecimalValue(SubSeq(s, FirstLF(s) + 2, Len(s) - 1))

\* r can still be completed to a frame: the bytes so far fit the grammar.
IsProperPrefix(r, type) ==
  \/ r = <<>>
  \/ /\ r[1] = HASH
     /\ \/ \A i \in 2..Len(r) : IsDigit(r[i])
        \/ \E a \in 3..Len(r) :
             LET m == DecimalValue(SubSeq(r, 2, a - 1))
                 after == SubSeq(r, a + 1, Len(r))
             IN /\ r[a] = LF /\ Digits(SubSeq(r, 2, a - 1))
                /\ m >= 2 /\ Len(after) <= m
                /\ after # <<>> => /\ after[1] = type
                                  /\ \A i \in 2..Len(after) : IsDigit(after[i])

LineType(call) == IF call = "meta" THEN BANG ELSE AMP

\* The bytes the last call was given.
Seen == SubSeq(buffer, result.from + 1, Len(buffer))

-----------------------------------------------------------------------------
(* Properties.                                                             *)

TypeOK ==
  /\ buffer \in Seq(0..255)
  /\ cursor \in Nat
  /\ phase \in {"meta", "group", "gone"}
  /\ result.call \in {"none", "meta", "group"}
  /\ result.r \in {"none", "ok", "NotEnough", "UnexpectedByte", "panic"}
  /\ result.from \in Nat /\ result.v \in Nat

\* Whenever the bytes at the cursor begin with a well-formed frame of the
\* type asked for, parse_metaframe / parse_actiongroup_size return its
\* value and leave the cursor just past it, so the next call starts at the
\* next frame (spec.md 4.2, 8 scenarios 1-3).
Completeness ==
  result.call # "none" =>
    \A k \in 1..Len(Seen) :
      LET s == SubSeq(Seen, 1, k) IN
      IsFrame(s, LineType(result.call)) /\ FrameValue(s) < Usize =>
        /\ result.r = "ok"
        /\ result.v = FrameValue(s)
        /\ cursor = result.from + k

\* A call returns a value only for a well-formed frame, and leaves the
\* cursor inside the buffer (spec.md 3.2: cursor <= buffer.len()).
Soundness ==
  result.r = "ok" =>
    /\ cursor <= Len(buffer)
    /\ IsFrame(SubSeq(buffer, result.from + 1, cursor), LineType(result.call))
    /\ result.v = FrameValue(SubSeq(buffer, result.from + 1, cursor))

\* A returned value is the decimal value of its digits, and the chunk read
\* is as long as the sizeline's digits say: parse_into_usize's
\* item_usize * 10 + digit never yields a wrapped number (spec.md 4.2,
\* ASCII-integer decoding: overflow is an error, not a value).
DecodesExactly ==
  result.r = "ok" =>
    LET a == result.from + FirstLF(Seen)    \* the sizeline's LF
    IN /\ DecimalValue(SubSeq(buffer, result.from + 2, a - 1)) = cursor - 1 - a
       /\ result.v = DecimalValue(SubSeq(buffer, a + 2, cursor - 1))

\* No buffer makes parse_metaframe or parse_actiongroup_size panic
\* (spec.md 7: parsing never panics on well-formed inputs; a buffer that is
\* a prefix of a frame is what the caller holds while bytes arrive, 4.2).
NoPanic == result.r # "panic"

\* The error kind tells the caller what to do (spec.md 4.2): NotEnough,
\* wait for more bytes, exactly when the bytes seen are a prefix of a
\* frame; UnexpectedByte, reset the connection, exactly when they are not.
ErrorKindMatchesInput ==
  result.r \in {"NotEnough", "UnexpectedByte"} =>
    ((result.r = "NotEnough") <=> IsProperPrefix(Seen, LineType(result.call)))

=============================================================================
