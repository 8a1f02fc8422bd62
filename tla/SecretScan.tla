----------------------------- MODULE SecretScan -----------------------------
(***************************************************************************)
(* daemon/src/scan.rs: the ordered rule table and the pure function that   *)
(* turns the bytes of one reassembled file into a verdict.                 *)
(*                                                                         *)
(* A pattern is a sequence of sets of bytes: a literal is a sequence of    *)
(* singletons, and the AWS rule (two possible prefixes followed by a run   *)
(* of upper-case letters or digits) has larger sets at the positions where *)
(* it accepts several bytes.                                               *)
(***************************************************************************)
EXTENDS Naturals, Sequences

CONSTANTS
  Byte,      \* the alphabet of file bytes
  RULES,     \* the rule table: a sequence of [id, pattern]
  RuleId,    \* the rule identifiers a blocking verdict may name
  NoRule     \* the rule of an allowing verdict ("rule: None", null on the wire)

ASSUME RulesAssumption ==
  /\ RULES \in Seq([id: RuleId, pattern: Seq(SUBSET Byte)])
  /\ NoRule \notin RuleId

Allow == [decision |-> "allow", rule |-> NoRule]
Block(rule) == [decision |-> "block", rule |-> rule]

Verdict == {Allow} \cup {Block(rule) : rule \in RuleId}

\* Some window of the bytes fits the pattern.
Matches(bytes, pattern) ==
  \E start \in 0..(Len(bytes) - Len(pattern)) :
    \A i \in DOMAIN pattern : bytes[start + i] \in pattern[i]

\* The first rule of the table that matches decides; a file no rule matches is allowed.
Scan(bytes) ==
  LET hits == {r \in DOMAIN RULES : Matches(bytes, RULES[r].pattern)}
  IN  IF hits = {} THEN Allow
      ELSE Block(RULES[CHOOSE r \in hits : \A q \in hits : r <= q].id)
=============================================================================
