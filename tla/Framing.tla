------------------------------- MODULE Framing -------------------------------
(***************************************************************************)
(* One direction of a connection as bytes: write_payload_frame and         *)
(* read_frame of daemon/src/protocol.rs, over a pipe or socket that holds  *)
(* a few bytes, takes and gives them in pieces of any size, and can be cut *)
(* between any two of them.  Broker and daemon use both functions on every *)
(* stream; the frames on the broker's stdin are written by Chrome, and any *)
(* process of the user may write to the daemon's socket.                   *)
(*                                                                         *)
(* A length has LengthBytes digits of base Base, least significant first   *)
(* (four bytes in the code).                                               *)
(***************************************************************************)
EXTENDS Naturals, Sequences, FiniteSets, FiniteSetsExt

CONSTANTS
  Payload,           \* the payloads offered, as sequences of bytes
  MAX_FRAME_BYTES,
  Base, LengthBytes,
  Room,              \* the bytes the pipe or socket holds
  MaxFrames          \* bound on the frames offered

Byte == 0..Base - 1

ASSUME FramingAssumption ==
  /\ Base \in Nat \ {0, 1} /\ LengthBytes \in Nat \ {0} /\ Room \in Nat \ {0}
  /\ MAX_FRAME_BYTES \in 1..Base^LengthBytes - 1 /\ MaxFrames \in Nat
  /\ \A payload \in Payload : payload \in Seq(Byte) /\ Len(payload) < Base^LengthBytes

VARIABLES
  checked,    \* the writer is write_payload_frame, not a foreign one
  offered,    \* the payloads whose writing has begun
  outgoing,   \* the bytes of the latest that are not written (when closed: never will be)
  sender,     \* "open" or "closed": the writer's end of the stream
  wire,       \* the bytes in flight
  reader,     \* "reading", "ended" (read_frame returned None) or "failed"
  header,     \* the bytes of the current length prefix, as far as read
  payload,    \* the bytes of the current payload, as far as read
  frames      \* the payloads read_frame has returned

writing == <<checked, offered, outgoing, sender>>
reading == <<reader, header, payload, frames>>
vars == <<writing, wire, reading>>
-----------------------------------------------------------------------------
\* to_le_bytes and from_le_bytes.
LittleEndian(n) == [i \in 1..LengthBytes |-> (n \div Base^(i - 1)) % Base]
LengthOf(prefix) == MapThenSumSet(LAMBDA i : prefix[i] * Base^(i - 1), 1..LengthBytes)

\* One undoes the other (both are of Rust's standard library).
ASSUME DigitsAssumption ==
  \A data \in Payload : /\ LittleEndian(Len(data)) \in [1..LengthBytes -> Byte]
                         /\ LengthOf(LittleEndian(Len(data))) = Len(data)

Framed(data) == LittleEndian(Len(data)) \o data

\* A mistake for the mutation runs: only an empty frame is refused.
IsNotEmpty(n) == n # 0

IsValidLength(n) == n \in 1..MAX_FRAME_BYTES
Dropped(s, n) == SubSeq(s, n + 1, Len(s))

Init ==
  /\ checked \in BOOLEAN
  /\ offered = <<>> /\ outgoing = <<>> /\ sender = "open"
  /\ wire = <<>>
  /\ reader = "reading" /\ header = <<>> /\ payload = <<>> /\ frames = <<>>
-----------------------------------------------------------------------------
(* The writer *)

\* write_payload_frame is called: a length it refuses ends the connection.
Offer(data) ==
  /\ sender = "open" /\ outgoing = <<>> /\ Len(offered) < MaxFrames
  /\ IF checked /\ ~IsValidLength(Len(data))
     THEN sender' = "closed" /\ UNCHANGED <<offered, outgoing>>
     ELSE /\ offered' = Append(offered, data) /\ outgoing' = Framed(data)
          /\ UNCHANGED sender
  /\ UNCHANGED <<checked, wire, reading>>

\* A mistake for the mutation runs: a frame is written when there is room for all of it.
WriteWhole ==
  /\ sender = "open" /\ outgoing # <<>> /\ Len(wire \o outgoing) <= Room
  /\ wire' = wire \o outgoing /\ outgoing' = <<>>
  /\ UNCHANGED <<checked, offered, sender, reading>>

\* A write call takes some of what write_all still has.
Write ==
  /\ sender = "open"
  /\ \E n \in 1..Len(outgoing) :
       /\ Len(wire) + n <= Room
       /\ wire' = wire \o SubSeq(outgoing, 1, n) /\ outgoing' = Dropped(outgoing, n)
  /\ UNCHANGED <<checked, offered, sender, reading>>

\* The writer's process closes the stream, dies, or gives up after a write that failed or timed
\* out, in the middle of a frame or not.
Stop ==
  /\ sender = "open" /\ sender' = "closed"
  /\ UNCHANGED <<checked, offered, outgoing, wire, reading>>
-----------------------------------------------------------------------------
(* read_frame *)

\* The bytes the current read asks for: first a single one, then what is missing.
Wanted ==
  IF header = <<>> THEN 1
  ELSE IF Len(header) < LengthBytes THEN LengthBytes - Len(header)
  ELSE LengthOf(header) - Len(payload)

\* A read returns n bytes of the length prefix.
ReadHeader(n) ==
  LET prefix == header \o SubSeq(wire, 1, n) IN
    /\ Len(header) < LengthBytes
    /\ IF Len(prefix) = LengthBytes /\ ~IsValidLength(LengthOf(prefix))
       THEN reader' = "failed" /\ header' = <<>>
       ELSE header' = prefix /\ UNCHANGED reader
    /\ UNCHANGED <<payload, frames>>

\* A read returns n bytes of the payload.
ReadPayload(n) ==
  LET data == payload \o SubSeq(wire, 1, n) IN
    /\ Len(header) = LengthBytes
    /\ IF Len(data) = LengthOf(header)
       THEN frames' = Append(frames, data) /\ header' = <<>> /\ payload' = <<>>
       ELSE payload' = data /\ UNCHANGED <<header, frames>>
    /\ UNCHANGED reader

Read ==
  /\ reader = "reading"
  /\ \E n \in 1..Len(wire) : /\ n <= Wanted
                             /\ ReadHeader(n) \/ ReadPayload(n)
                             /\ wire' = Dropped(wire, n)
  /\ UNCHANGED writing

\* A mistake for the mutation runs: the end of the stream is a clean one wherever it comes.
EndOfStreamAnywhere ==
  /\ reader = "reading" /\ wire = <<>> /\ sender = "closed"
  /\ reader' = "ended"
  /\ UNCHANGED <<writing, wire, header, payload, frames>>

\* A read returns nothing: None before the first byte of a frame, else UnexpectedEof.
EndOfStream ==
  /\ reader = "reading" /\ wire = <<>> /\ sender = "closed"
  /\ reader' = IF header = <<>> THEN "ended" ELSE "failed"
  /\ UNCHANGED <<writing, wire, header, payload, frames>>

\* A read times out (CONNECTION_TIMEOUT), or fails.
ReadFails ==
  /\ reader = "reading" /\ reader' = "failed"
  /\ UNCHANGED <<writing, wire, header, payload, frames>>
-----------------------------------------------------------------------------
Next ==
  \/ \E data \in Payload : Offer(data)
  \/ Write \/ Stop
  \/ Read \/ EndOfStream \/ ReadFails

\* Both ends go on with what they can do; nobody need offer anything or fail.
Spec == Init /\ [][Next]_vars /\ WF_vars(Write) /\ WF_vars(Read) /\ WF_vars(EndOfStream)
-----------------------------------------------------------------------------
\* protocol.rs:82-87 and the test rejects_empty_and_oversized_frames_before_allocation
\* (314-326): the state has its types; the buffer allocated for a payload is as long as the
\* complete prefix says, and that is within the limit whoever has written it.
TypeOK ==
  /\ checked \in BOOLEAN /\ offered \in Seq(Payload) /\ Len(offered) <= MaxFrames
  /\ outgoing \in Seq(Byte) /\ wire \in Seq(Byte) /\ Len(wire) <= Room
  /\ sender \in {"open", "closed"} /\ reader \in {"reading", "ended", "failed"}
  /\ header \in Seq(Byte) /\ Len(header) <= LengthBytes /\ payload \in Seq(Byte)
  /\ Len(header) = LengthBytes => /\ LengthOf(header) \in 1..MAX_FRAME_BYTES
                                  /\ Len(payload) < LengthOf(header)
  /\ Len(header) < LengthBytes => payload = <<>>

\* The frames written whole, and whether the last one was torn.
Whole == IF outgoing = <<>> THEN offered ELSE SubSeq(offered, 1, Len(offered) - 1)
IsTorn == outgoing # <<>> /\ Len(outgoing) < Len(Framed(offered[Len(offered)]))

Stream == INSTANCE FrameStream
  WITH sent <- Whole, got <- frames,
       sender <- IF sender = "open" THEN "open" ELSE IF IsTorn THEN "torn" ELSE "closed"

\* protocol.rs:73-103 and the test rejects_truncated_headers_and_payloads (328-341): however the
\* bytes are cut into reads and writes and wherever the stream ends, reader and writer never
\* lose step: the frames come out as they went in, a torn one never does and is an error,
\* and None is returned only after all of them.
FramesKept == Stream!Spec

\* protocol.rs:98-101: a frame larger than what the pipe holds does not stop both ends: its
\* writing is finished, unless an end has gone or the reader has refused it.
FramesFlow ==
  outgoing # <<>> ~> outgoing = <<>> \/ sender = "closed" \/ reader # "reading"
=============================================================================
