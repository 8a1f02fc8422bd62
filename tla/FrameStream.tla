----------------------------- MODULE FrameStream -----------------------------
(***************************************************************************)
(* What a framed byte stream promises its two ends: the reader gets the    *)
(* frames that were written whole, in order, each once and unchanged, and  *)
(* hears of a clean end only when it has got all of them and nothing was   *)
(* torn.  ScanSession and NativeScan take their queues of frames to be     *)
(* such streams.                                                           *)
(***************************************************************************)
EXTENDS Naturals, Sequences

CONSTANTS
  Payload,          \* what may be offered to a writer
  MAX_FRAME_BYTES

VARIABLES
  sent,     \* the frames written whole
  sender,   \* "open", "closed", or "torn" if it ended in the middle of a frame
  got,      \* the frames the reader has returned
  reader    \* "reading", "ended" or "failed"

Init == sent = <<>> /\ sender = "open" /\ got = <<>> /\ reader = "reading"

Send(payload) == sender = "open" /\ sent' = Append(sent, payload) /\ UNCHANGED <<sender, got, reader>>

Leave == sender = "open" /\ sender' \in {"closed", "torn"} /\ UNCHANGED <<sent, got, reader>>

Get ==
  /\ reader = "reading" /\ Len(got) < Len(sent)
  /\ got' = Append(got, sent[Len(got) + 1])
  /\ Len(got'[Len(got')]) \in 1..MAX_FRAME_BYTES
  /\ UNCHANGED <<sent, sender, reader>>

End ==
  /\ reader = "reading" /\ sender = "closed" /\ got = sent
  /\ reader' = "ended"
  /\ UNCHANGED <<sent, sender, got>>

Fail == reader = "reading" /\ reader' = "failed" /\ UNCHANGED <<sent, sender, got>>

Next == (\E payload \in Payload : Send(payload)) \/ Leave \/ Get \/ End \/ Fail

\* Unless it fails, the reader gets what was sent, and learns of the end.
Spec ==
  /\ Init /\ [][Next]_<<sent, sender, got, reader>>
  /\ WF_<<sent, sender, got, reader>>(reader = "reading" /\ (Len(got) < Len(sent) \/ sender # "open")
                                        /\ (Get \/ End \/ Fail))
=============================================================================
