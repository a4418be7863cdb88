--------------------------- MODULE MCStreamBuffer ---------------------------
(***************************************************************************)
(* StreamBuffer for TLC.  Once the bytes are no longer numbered, what they *)
(* are decides nothing and no property looks at them: states that differ   *)
(* in nothing else behave alike, and TLC visits one of them.               *)
(***************************************************************************)
EXTENDS StreamBuffer

Observable ==
    <<variant, bstart, bend, writeoff, ctlvars, wpc, size, rpc, len, lost, glitch,
      IF Numbered THEN <<buffer, sent, next, out>> ELSE <<>> >>
=============================================================================
