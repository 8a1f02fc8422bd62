--------------------------- MODULE MCScanSession ---------------------------
(* A small instance of ScanSession: two bytes, secrets of two bytes (so that a secret can  *)
(* be split across two chunks), two valid identifiers and one invalid.                     *)
EXTENDS ScanSession, TLC

CONSTANTS a, b, invalid   \* identifiers; invalid is one validate_identifier refuses

MCByte == {"k", "x"}
MCRuleId == {"pem_private_key", "aws_access_key_id"}
\* A literal, and a class pattern whose matches overlap it: the first rule must win.
MCRULES == << [id |-> "pem_private_key", pattern |-> << {"k"}, {"k"} >>],
              [id |-> "aws_access_key_id", pattern |-> << {"k"}, {"k", "x"}, {"x"} >>] >>
MCValidIdentifier == {a, b}
MCIdentifier == {a, b, invalid}
MCDeclaredSize == {0, 2, 3, 4}
MCOffset == 0..4
MCChunkData == {<<"k">>, <<"k", "x">>}
\* The two valid identifiers are interchangeable: no definition tells them apart.
MCSymmetry == Permutations({a, b})
MCProtocol == {1, 2}
=============================================================================
