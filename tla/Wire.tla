--------------------------------- MODULE Wire ---------------------------------
(***************************************************************************)
(* The bytes of an upstream's response, as far as framing and parsing tell   *)
(* them apart: the two bytes that end lines, and text.  The text of a line   *)
(* "data: <payload>" comes in two pieces, so that a read may end inside it.  *)
(***************************************************************************)
EXTENDS Naturals, Sequences

CONSTANTS LF, CR,    \* '\n' and '\r'
          Other,     \* text of a line that is no data line
          Payloads   \* what data lines carry

Piece == [payload : Payloads, part : {1, 2}]

Bytes == {LF, CR, Other} \cup Piece

ASSUME WireOK == LF \notin {CR, Other} \cup Piece
=============================================================================
