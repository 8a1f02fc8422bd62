---------------------------- MODULE MCNativeScan ----------------------------
(* A small instance of NativeScan: files of up to four bytes in chunks of two, so that a   *)
(* file has none, one or two chunks and the last one may be short; a secret can lie across *)
(* the chunks; one file is larger than the daemon takes.  One client speaks another        *)
(* version of the protocol.                                                                *)
EXTENDS NativeScan

MCByte == {"k", "x"}
MCRuleId == {"pem_private_key", "aws_access_key_id"}
MCRULES == << [id |-> "pem_private_key", pattern |-> << {"k"}, {"k"} >>],
              [id |-> "aws_access_key_id", pattern |-> << {"k"}, {"k", "x"}, {"x"} >>] >>
MCFile == {<<>>, <<"x", "k">>, <<"x", "k", "k">>, <<"k", "x", "x">>, <<"k", "x", "k">>,
           <<"x", "x", "x", "x">>}
MCProtocol == {1, 2}
=============================================================================
