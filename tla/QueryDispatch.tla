---------------------------- MODULE QueryDispatch ----------------------------
(***************************************************************************)
(* execute_simple and entity_swap of src/server/src/queryengine/mod.rs:    *)
(* one connection's simple queries, each an Element, dispatched on its     *)
(* first token after make_ascii_uppercase, with `use <entity>` handled     *)
(* here and every other action by a handler outside this file.             *)
(*                                                                         *)
(* A query's first token is a byte sequence, so the upper-casing is        *)
(* modelled by what it does; the entity arguments are model values.        *)
(* Every write_response(..).await? may fail with an I/O error, which       *)
(* returns Err and ends the connection.  Corestore::swap_entity and        *)
(* parser::get_query_entity are not in this source tree: they are modelled *)
(* from the documented behaviour (spec-modelled).                          *)
(***************************************************************************)
EXTENDS Naturals, Sequences, FiniteSets

CONSTANTS
  Tags,         \* the action table's tags, stringify!($action).as_bytes()
  UseTag,       \* the tag USE, dispatched to entity_swap
  Tokens,       \* first tokens (byte sequences) clients send
  Entities,     \* entity names get_query_entity accepts
  Malformed,    \* an argument get_query_entity rejects
  Existing,     \* entities Corestore has
  NoDefault,    \* entities with no default table: DefaultNotFound
  Initial,      \* the entity a connection starts on
  MaxArgs       \* the most arguments after the first token

ASSUME \A t \in Tags : \A i \in DOMAIN t : t[i] \in 65..90   \* 'A'..'Z'
ASSUME UseTag \in Tags /\ Malformed \notin Entities
ASSUME NoDefault \subseteq Existing /\ Existing \subseteq Entities
ASSUME Initial \in Existing \ NoDefault

VARIABLES
  current,   \* Corestore's current entity for this connection
  conn,      \* "open", or "closed" after an I/O error ended the task
  reply,     \* the last response written, "lost" if the write failed
  last,      \* the last query executed (history)
  ub         \* impossible!() was reached: unreachable_unchecked

vars == <<current, conn, reply, last, ub>>

Args == Entities \cup {Malformed}

ArgSeqs == UNION {[1..k -> Args] : k \in 0..MaxArgs}

\* An Element: an AnyArray of a first token and arguments, possibly empty,
\* or any other element type.
Queries ==
  [kind : {"Other"}, items : {<<>>}]
  \cup [kind : {"AnyArray"},
        items : {<<>>} \cup {<<t>> \o a : t \in Tokens, a \in ArgSeqs}]

-----------------------------------------------------------------------------
(* The code.                                                               *)

\* Mutant of Upper: the range b'a'..b'z', which leaves out 'z'.
Upper_exclusive_range(t) ==
  [i \in DOMAIN t |-> IF t[i] \in 97..121 THEN t[i] - 32 ELSE t[i]]

\* u8::make_ascii_uppercase on each byte.
Upper(t) == [i \in DOMAIN t |-> IF t[i] \in 97..122 THEN t[i] - 32 ELSE t[i]]

\* con.write_response(r).await?: written, or an I/O error ends the task.
Write(r, io_ok) ==
  IF io_ok THEN reply' = r /\ UNCHANGED conn
           ELSE reply' = "lost" /\ conn' = "closed"

\* parser::get_query_entity (spec-modelled): the name, or an error response.
get_query_entity(a) == IF a = Malformed THEN "ENTITY_ERR" ELSE a

\* Corestore::swap_entity (spec-modelled).
swap_entity(e) ==
  CASE e \notin Existing -> "ObjectNotFound"
    [] e \in NoDefault   -> "DefaultNotFound"
    [] OTHER             -> "Ok"

\* The match of swap_entity!: each result to its response; any other result
\* falls into impossible!().
SwapResponse(r) ==
  CASE r = "Ok"              -> "OKAY"
    [] r = "ObjectNotFound"  -> "CONTAINER_NOT_FOUND"
    [] r = "DefaultNotFound" -> "DEFAULT_UNSET"
    [] OTHER                 -> "impossible"

\* Mutant of entity_swap: only an empty argument list is rejected.
entity_swap_any_arity(act, io_ok) ==
  LET e == get_query_entity(act[1])
      r == swap_entity(e)
  IN
  CASE Len(act) = 0 ->
         Write("ACTION_ERR", io_ok) /\ UNCHANGED <<current, ub>>
    [] e = "ENTITY_ERR" ->
         Write("ENTITY_ERR", io_ok) /\ UNCHANGED <<current, ub>>
    [] SwapResponse(r) = "impossible" ->
         ub' = TRUE /\ UNCHANGED <<current, conn, reply>>
    [] OTHER ->
         /\ current' = IF r = "Ok" THEN e ELSE current
         /\ Write(SwapResponse(r), io_ok) /\ UNCHANGED ub

\* entity_swap: err_if_len_is!(act, con, not 1), then swap_entity!.
entity_swap(act, io_ok) ==
  LET e == get_query_entity(act[1])
      r == swap_entity(e)
  IN
  CASE Len(act) # 1 ->
         Write("ACTION_ERR", io_ok) /\ UNCHANGED <<current, ub>>
    [] e = "ENTITY_ERR" ->
         Write("ENTITY_ERR", io_ok) /\ UNCHANGED <<current, ub>>
    [] SwapResponse(r) = "impossible" ->
         ub' = TRUE /\ UNCHANGED <<current, conn, reply>>
    [] OTHER ->
         /\ current' = IF r = "Ok" THEN e ELSE current
         /\ Write(SwapResponse(r), io_ok) /\ UNCHANGED ub

\* The match of gen_constants_and_matches! on the upper-cased first token:
\* its handler, or no arm of the table.
Lookup(first) ==
  CASE first = UseTag -> "entity_swap"
    [] first \in Tags  -> "handler"
    [] OTHER          -> "unknown"

\* execute_simple with gen_constants_and_matches!: a handler other than
\* entity_swap writes its own response and leaves the entity alone.
ExecuteSimple(q, io_ok) ==
  /\ conn = "open" /\ ~ub
  /\ last' = q
  /\ CASE q.kind # "AnyArray" ->
            Write("WRONGTYPE_ERR", io_ok) /\ UNCHANGED <<current, ub>>
       [] q.items = <<>> ->
            Write("PACKET_ERR", io_ok) /\ UNCHANGED <<current, ub>>
       [] Lookup(Upper(q.items[1])) = "entity_swap" ->
            entity_swap(Tail(q.items), io_ok)
       [] Lookup(Upper(q.items[1])) = "handler" ->
            Write("HANDLED", io_ok) /\ UNCHANGED <<current, ub>>
       [] OTHER ->
            Write("UNKNOWN_ACTION", io_ok) /\ UNCHANGED <<current, ub>>

Init ==
  /\ current = Initial /\ conn = "open" /\ reply = "none"
  /\ last = [kind |-> "none", items |-> <<>>]
  /\ ub = FALSE

Next == \E q \in Queries, io_ok \in BOOLEAN : ExecuteSimple(q, io_ok)

Spec == Init /\ [][Next]_vars

-----------------------------------------------------------------------------
(* Reference definitions, from the protocol rather than the code.          *)

\* t spells tag in any mix of ASCII upper and lower case.
Spells(t, tag) ==
  /\ Len(t) = Len(tag)
  /\ \A i \in DOMAIN t : t[i] = tag[i] \/ t[i] = tag[i] + 32

IsUse(q) == q.kind = "AnyArray" /\ q.items # <<>> /\ Spells(q.items[1], UseTag)

-----------------------------------------------------------------------------
(* Properties.                                                             *)

\* Actions are case-insensitive: execute_simple answers UNKNOWN_ACTION
\* exactly when the first token spells no tag of the table in any case.
DispatchIsCaseInsensitive ==
  reply \notin {"none", "lost"} /\ last.kind = "AnyArray"
    /\ last.items # <<>> =>
      ((reply = "UNKNOWN_ACTION") <=>
         ~\E tag \in Tags : Spells(last.items[1], tag))

\* The connection's entity changes only by `use <e>` with exactly one
\* argument naming an existing entity that has a default (entity_swap's
\* length check, get_query_entity and the swap_entity! result match).
SwapOnlyOnValidUse ==
  [][current' # current =>
       /\ IsUse(last') /\ Len(last'.items) = 2
       /\ current' = last'.items[2]
       /\ current' \in Existing \ NoDefault]_vars

=============================================================================
