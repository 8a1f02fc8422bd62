------------------------------ MODULE MCFraming ------------------------------
(* A small instance of Framing: lengths of two binary digits, payloads that are empty, at *)
(* the limit and above it, of bytes that look like prefixes, and a pipe shorter than a    *)
(* frame.                                                                                 *)
EXTENDS Framing

MCPayload == {<<>>, <<0>>, <<1>>, <<0, 1>>, <<1, 0, 1>>}
=============================================================================
