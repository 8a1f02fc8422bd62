--------------------------- MODULE NativePromise ---------------------------
(***************************************************************************)
(* What the native path promises whoever asks it for the verdict on a file *)
(* or for the scanner's health: one answer, in bounded time, which is      *)
(* either the truth or the admission that none could be had.  ("Transport  *)
(* failures never masquerade as scanner verdicts", ARCHITECTURE.md:147.)   *)
(***************************************************************************)
EXTENDS SecretScan

CONSTANTS
  Protocol,          \* the protocol versions an extension may speak
  PROTOCOL_VERSION,  \* the one the daemon speaks
  FailureReason,     \* the reasons for having no answer
  Pending            \* not settled yet

\* One call of scanWithNativeHost or of checkNativeHost.
Ask == [kind: {"scan", "health"}, file: Seq(Byte), protocol: Protocol]

Verdicted(verdict) == [kind |-> "verdict", verdict |-> verdict]
Unavailable(reason) == [kind |-> "unavailable", reason |-> reason]
Available == [kind |-> "available"]

\* What a promise may resolve to.
Outcome ==
  {Verdicted(verdict) : verdict \in Verdict} \cup {Available}
    \cup {Unavailable(reason) : reason \in FailureReason \cup {"protocol_mismatch"}}

\* The answers that claim something, and are true.
Truths(ask) ==
  CASE ask.kind = "scan" /\ ask.protocol = PROTOCOL_VERSION   -> {Verdicted(Scan(ask.file))}
    [] ask.kind = "scan" /\ ask.protocol # PROTOCOL_VERSION   -> {}
    [] ask.kind = "health" /\ ask.protocol = PROTOCOL_VERSION -> {Available}
    [] ask.kind = "health" /\ ask.protocol # PROTOCOL_VERSION ->
         {Unavailable("protocol_mismatch")}

VARIABLES
  ask,      \* what is asked
  result    \* what the promise resolved to

Init == ask \in Ask /\ result = Pending

Settle ==
  /\ result = Pending
  /\ result' \in Truths(ask) \cup {Unavailable(reason) : reason \in FailureReason}
  /\ UNCHANGED ask

Spec == Init /\ [][Settle]_<<ask, result>> /\ WF_<<ask, result>>(Settle)
=============================================================================
