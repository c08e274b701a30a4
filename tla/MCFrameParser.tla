---------------------------- MODULE MCFrameParser ----------------------------
(***************************************************************************)
(* Model-checking instance of FrameParser.  The alphabet has the three     *)
(* line-type bytes, LF, the digits 0-2 and 'x': every branch of the digit  *)
(* decoder (below '0', above '9', a digit) and every byte the grammar      *)
(* tells apart; MCFrameAlphabet leaves out 'x', which no frame holds, so  *)
(* that tails long enough for a whole frame stay in reach.  Every buffer   *)
(* of up to MaxTail bytes is tried from the                               *)
(* start, after a complete metaframe, and after a metaframe and a group    *)
(* header with two-digit values and a leading zero, so that a successful  *)
(* call is seen to leave the cursor at the start of the next frame.        *)
(***************************************************************************)
EXTENDS FrameParser

\* "\n", "!", "#", "&", "0", "1", "2", "x"
MCAlphabet == {10, 33, 35, 38, 48, 49, 50, 120}
\* The same without "x".
MCFrameAlphabet == {10, 33, 35, 38, 48, 49, 50}

\* Nothing; "#2\n!1\n"; "#3\n!20\n#03\n&12\n".
MCHeads == {<<>>,
            <<35, 50, 10, 33, 49, 10>>,
            <<35, 51, 10, 33, 50, 48, 10, 35, 48, 51, 10, 38, 49, 50, 10>>}

=============================================================================
