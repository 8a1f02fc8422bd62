------------------------------ MODULE MCEndToEnd ------------------------------
(* A small instance of EndToEnd: one input, a file with a secret and one without; the      *)
(* policy is the default one, or lets files through from a page it does not protect and    *)
(* when there is no scanner.                                                                *)
EXTENDS EndToEnd

MCSizeOf == [file \in File |-> IF file \in Secret THEN 2 ELSE 0]
MCCandidate ==
  {Undefined,
   [onUnavailable |-> "allow", protectedOrigins |-> {"localhost"}]}
=============================================================================
