---------------------------- MODULE MCScanService ----------------------------
(* A small instance of ScanService: one of two origins can be narrowed out, a limit can be  *)
(* lowered below a file's size, and candidates can be invalid in one key or as a whole.     *)
EXTENDS ScanService

MCOrigin == {"localhost", "loopback"}
MCCandidate ==
  {Undefined,
   [onUnavailable |-> "allow"],
   [onUnavailable |-> "block", maxFileBytes |-> 1],
   [onTooLarge |-> "allow", protectedOrigins |-> {"localhost"}],
   [onUnavailable |-> "allow", maxFileBytes |-> MAX_FILE_BYTES + 1],
   [onTooLarge |-> "allow", protectedOrigins |-> {"localhost", Foreign}],
   [onUnavailable |-> "allow", failOpen |-> TRUE]}
=============================================================================
