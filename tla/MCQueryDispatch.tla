--------------------------- MODULE MCQueryDispatch ---------------------------
(***************************************************************************)
(* Model-checking instance of QueryDispatch.  Three tags of the action     *)
(* table: USE, SET and DBSIZE (a tag with 'Z', the upper end of the ASCII  *)
(* letters).  First tokens: each tag in several case mixes, a prefix and   *)
(* an extension of USE, and the empty token.  Four entities: two a         *)
(* connection can switch between, one without a default table and one      *)
(* Corestore does not have; and one malformed argument.                    *)
(***************************************************************************)
EXTENDS QueryDispatch

CONSTANTS e1, e2, e3, e4, m

TagUse == <<85, 83, 69>>
TagSet == <<83, 69, 84>>
TagDbsize == <<68, 66, 83, 73, 90, 69>>

MCTags == {TagUse, TagSet, TagDbsize}

\* "USE", "use", "uSe", "us", "usee", "set", "dbsize", "DbSiZe", ""
MCTokens == {<<85, 83, 69>>, <<117, 115, 101>>, <<117, 83, 101>>,
             <<117, 115>>, <<117, 115, 101, 101>>, <<115, 101, 116>>,
             <<100, 98, 115, 105, 122, 101>>, <<68, 98, 83, 105, 90, 101>>,
             <<>>}

MCEntities == {e1, e2, e3, e4}
MCExisting == {e1, e2, e3}
MCNoDefault == {e3}

=============================================================================
