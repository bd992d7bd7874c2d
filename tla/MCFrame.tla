------------------------------ MODULE MCFrame -------------------------------
(* A bounded instance of Frame. *)
EXTENDS Frame

\* 0x00, 0x01, 0x80 and 0xff; the error patterns are the last three.
SomeErrors == {{0}, {7}, 0..7}
SomeBytes == SomeErrors \cup {{}}
=============================================================================
