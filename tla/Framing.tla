------------------------------ MODULE Framing ------------------------------
(***************************************************************************)
(* How a stream is cut into frames (framing.rs) by a TCP, TLS or UNIX      *)
(* connection (run_stream_io, drain_frames), and how what the user sends,  *)
(* or replays from the log, is put on the wire.  The other end frames its  *)
(* payloads as encode_outbound does; the network cuts them anywhere.       *)
(*                                                                         *)
(* Bytes are numbers below Base.  Their order in a length is the kind of   *)
(* framing: "big" and "little" are both length-prefixed.                   *)
(***************************************************************************)
EXTENDS Integers, Sequences, SequencesExt

CONSTANTS
  Kinds,       \* framings to choose from, see Framings
  Base,        \* how many values a byte has
  Lf, Cr, Bad, \* the newline, the carriage return, and a byte no text has
  PrefixSize,  \* bytes of a length
  MaxFrame,    \* max_frame
  Payloads,    \* what the other end may send
  Composed,    \* what the user may send
  MaxSaid,     \* bound: payloads from the other end
  MaxOut       \* bound: payloads to it

Framings == {"none", "newline", "big", "little"}

Byte == 0 .. Base - 1

ASSUME FramingAssumption ==
  /\ Kinds \subseteq Framings
  /\ Base \in Nat
  /\ {Lf, Cr, Bad} \subseteq Byte
  /\ PrefixSize \in Nat \ {0}
  /\ MaxFrame \in Nat
  /\ \A p \in Payloads \cup Composed : p \in Seq(Byte)
  /\ MaxSaid \in Nat
  /\ MaxOut \in Nat

VARIABLES
  framing,  \* FramingConfig.kind and endian
  said,     \* history: the payloads the other end has sent
  pipe,     \* bytes it has sent that are not read yet
  buf,      \* read_buf
  task,     \* where the connection is: "select", "drain" or "ended"
  codec,    \* of drain_frames: Length, or how long the body is
  frames,   \* the payloads of the In frames
  out,      \* what was sent, see Sent
  whole     \* history: no codec was dropped between a length and its body

inbound == <<said, pipe, buf, codec, frames, whole>>
vars == <<framing, task, inbound, out>>

Length == -1

(* Payload, the bytes written, and which Out frame it replays, or 0. *)
Sent == [payload : Seq(Byte), bytes : Seq(Byte), of : 0 .. MaxOut]

------------------------------------------------------------------------------
(* framing.rs *)
Prefixed == framing \in {"big", "little"}

Digits == 1 .. PrefixSize

(* How many bytes of a length weigh less than its i-th, and the inverse. *)
Below(i) == IF framing = "big" THEN PrefixSize - i ELSE i - 1
ByteAbove(k) == IF framing = "big" THEN PrefixSize - k ELSE k + 1

(* What is left of n without its k least bytes. *)
Rest(n) ==
  LET r[k \in 0 .. PrefixSize] == IF k = 0 THEN n ELSE r[k - 1] \div Base IN r

(* write_len fails if the length has no room in the prefix. *)
Fits(p) == Prefixed => Rest(Len(p))[PrefixSize] = 0

(* encode_outbound *)
Encode(p) ==
  CASE framing = "none" -> p
    [] framing = "newline" -> IF p # <<>> /\ Last(p) = Lf THEN p ELSE Append(p, Lf)
    [] OTHER -> [i \in Digits |-> Rest(Len(p))[Below(i)] % Base] \o p

(* read_len, from the byte that weighs most. *)
PrefixOf(b) ==
  LET v[k \in 0 .. PrefixSize] == IF k = PrefixSize THEN 0 ELSE v[k + 1] * Base + b[ByteAbove(k)]
  IN  v[0]

Behind(b, n) == SubSeq(b, n + 1, Len(b))

Newlines(b) == {i \in 1 .. Len(b) : b[i] = Lf}

First(S) == CHOOSE i \in S : \A j \in S : i <= j

(* LinesCodec takes a carriage return before the newline off, and fails on *)
(* what is not text.                                                       *)
Line(b) == IF b # <<>> /\ Last(b) = Cr THEN Front(b) ELSE b

Text(b) == \A i \in 1 .. Len(b) : b[i] # Bad

------------------------------------------------------------------------------
Init ==
  /\ framing \in Kinds
  /\ said = <<>>
  /\ pipe = <<>>
  /\ buf = <<>>
  /\ task = "select"
  /\ codec = Length
  /\ frames = <<>>
  /\ out = <<>>
  /\ whole = TRUE

Says(p) ==
  /\ Len(said) < MaxSaid
  /\ Fits(p)
  /\ said' = Append(said, p)
  /\ pipe' = pipe \o Encode(p)
  /\ UNCHANGED <<framing, buf, task, codec, frames, out, whole>>

(* A read returns what has arrived, cut anywhere; drain_frames makes a new *)
(* codec for the buffer.                                                   *)
Read(n) ==
  /\ task = "select"
  /\ buf' = buf \o SubSeq(pipe, 1, n)
  /\ pipe' = Behind(pipe, n)
  /\ task' = "drain"
  /\ codec' = Length
  /\ UNCHANGED <<framing, said, frames, out, whole>>

Eof ==
  /\ task = "select"
  /\ pipe = <<>>
  /\ task' = "ended"
  /\ UNCHANGED <<framing, inbound, out>>

(* What the user sends; a payload that does not fit ends the connection. *)
Write(p, of) ==
  /\ task = "select"
  /\ Len(out) < MaxOut
  /\ \/ /\ Fits(p)
        /\ out' = Append(out, [payload |-> p, bytes |-> Encode(p), of |-> of])
        /\ UNCHANGED task
     \/ /\ ~Fits(p)
        /\ task' = "ended"
        /\ UNCHANGED out
  /\ UNCHANGED <<framing, inbound>>

SendComposer(p) == Write(p, 0)

(* replay_selected: the payload of an Out frame is what was written. *)
ReplayOut(i) == Write(out[i].bytes, i)

ReplayIn(i) == Write(frames[i], 0)

------------------------------------------------------------------------------
(* drain_frames *)
DecodeNone ==
  /\ task = "drain"
  /\ framing = "none"
  /\ frames' = Append(frames, buf)
  /\ buf' = <<>>
  /\ task' = "select"
  /\ UNCHANGED <<framing, said, pipe, codec, out, whole>>

(* Not more than max_frame bytes are looked at for a newline.  A line that *)
(* is not text is taken out of the buffer and lost, and what is behind it  *)
(* stays there until the next read.                                        *)
LineEnds == {i \in Newlines(buf) : i <= MaxFrame + 1}

DecodeLastLine ==
  /\ task = "drain"
  /\ framing = "newline"
  /\ LineEnds # {}
  /\ LET i == First(LineEnds)
         b == Line(SubSeq(buf, 1, i - 1))
     IN  /\ buf' = <<>>
         /\ IF Text(b) THEN frames' = Append(frames, b) /\ UNCHANGED task
                       ELSE task' = "select" /\ UNCHANGED frames
  /\ UNCHANGED <<framing, said, pipe, codec, out, whole>>

DecodeLine ==
  /\ task = "drain"
  /\ framing = "newline"
  /\ LineEnds # {}
  /\ LET i == First(LineEnds)
         b == Line(SubSeq(buf, 1, i - 1))
     IN  /\ buf' = Behind(buf, i)
         /\ IF Text(b) THEN frames' = Append(frames, b) /\ UNCHANGED task
                       ELSE task' = "select" /\ UNCHANGED frames
  /\ UNCHANGED <<framing, said, pipe, codec, out, whole>>

LengthArrived == Len(buf) >= PrefixSize /\ PrefixOf(buf) <= MaxFrame

DecodeAnyLength ==
  /\ task = "drain"
  /\ Prefixed
  /\ codec = Length
  /\ Len(buf) >= PrefixSize
  /\ codec' = PrefixOf(buf)
  /\ buf' = Behind(buf, PrefixSize)
  /\ UNCHANGED <<framing, said, pipe, task, frames, out, whole>>

DecodeLength ==
  /\ task = "drain"
  /\ Prefixed
  /\ codec = Length
  /\ LengthArrived
  /\ codec' = PrefixOf(buf)
  /\ buf' = Behind(buf, PrefixSize)
  /\ UNCHANGED <<framing, said, pipe, task, frames, out, whole>>

DecodeBody ==
  /\ task = "drain"
  /\ codec # Length
  /\ Len(buf) >= codec
  /\ frames' = Append(frames, SubSeq(buf, 1, codec))
  /\ buf' = Behind(buf, codec)
  /\ codec' = Length
  /\ UNCHANGED <<framing, said, pipe, task, out, whole>>

(* Nothing complete, or an error, which is not told to anybody: the codec  *)
(* is dropped, the bytes it has not taken stay in the buffer.              *)
NoFrame ==
  /\ task = "drain"
  /\ \/ framing = "newline" /\ LineEnds = {}
     \/ Prefixed /\ codec = Length /\ ~LengthArrived
     \/ codec # Length /\ Len(buf) < codec
  /\ task' = "select"
  /\ whole' = (whole /\ codec = Length)
  /\ UNCHANGED <<framing, said, pipe, buf, codec, frames, out>>

Drain == DecodeNone \/ DecodeLine \/ DecodeLength \/ DecodeBody \/ NoFrame

Next ==
  \/ \E p \in Payloads : Says(p)
  \/ \E p \in Composed : SendComposer(p)
  \/ \E i \in 1 .. Len(out) : ReplayOut(i)
  \/ \E i \in 1 .. Len(frames) : ReplayIn(i)
  \/ \E n \in 1 .. Len(pipe) : Read(n)
  \/ Eof
  \/ Drain

Spec == Init /\ [][Next]_vars

------------------------------------------------------------------------------
TypeOK ==
  /\ framing \in Framings
  /\ said \in Seq(Seq(Byte))
  /\ pipe \in Seq(Byte)
  /\ buf \in Seq(Byte)
  /\ task \in {"select", "drain", "ended"}
  /\ codec \in Length .. MaxFrame
  /\ frames \in Seq(Seq(Byte))
  /\ out \in Seq(Sent)
  /\ whole \in BOOLEAN

(* The line that the newline at i ends begins behind the newline before.   *)
LineAt(e, i) ==
  LET begin == CHOOSE j \in 1 .. i : /\ j = 1 \/ e[j - 1] = Lf
                                     /\ \A k \in j .. i - 1 : e[k] # Lf
  IN  Line(SubSeq(e, begin, i - 1))

LinesIn(e) ==
  LET upTo[i \in 0 .. Len(e)] ==
        IF i = 0 THEN <<>>
        ELSE IF e[i] = Lf THEN Append(upTo[i - 1], LineAt(e, i))
        ELSE upTo[i - 1]
  IN  upTo[Len(e)]

(* The lines of a payload, a missing newline at its end understood. *)
Lines(p) == LinesIn(IF p # <<>> /\ Last(p) = Lf THEN p ELSE Append(p, Lf))

(* The frames a payload should arrive as, when framing keeps it. *)
Pieces(p) == IF framing = "newline" THEN Lines(p) ELSE <<p>>

Decent(p) ==
  /\ Len(p) <= MaxFrame
  /\ framing = "newline" => Text(p)

(* Without framing the chunks read are, one after the other, exactly what  *)
(* was sent.                                                               *)
Concatenated == FlattenSeq(frames) \o buf \o pipe = FlattenSeq(said)

(* With framing, what has arrived are the first pieces of what was sent,   *)
(* and all of them once everything was read, however it was cut.           *)
InPieces ==
  LET sent == FlattenSeq([k \in 1 .. Len(said) |-> Pieces(said[k])])
  IN  /\ IsPrefix(frames, sent)
      /\ pipe = <<>> /\ task # "drain" => frames = sent

(* A replay puts the same bytes on the wire as what it replays.            *)
ReplayRepeats ==
  \A k \in 1 .. Len(out) : out[k].of # 0 => out[k].bytes = out[out[k].of].bytes

(* Frames arrive as they were sent, whatever the network makes of them     *)
(* (drain_frames): for text that is not too long, and, with a length       *)
(* prefix, as long as no read has ended between a length and its body.     *)
(* What is logged can be sent again: without framing, and for lines, which *)
(* end in one newline however often they are encoded.                      *)
FramesAsSent ==
  /\ IF framing = "none" THEN Concatenated
     ELSE whole /\ (\A k \in 1 .. Len(said) : Decent(said[k])) => InPieces
  /\ Prefixed \/ ReplayRepeats

(* "length_prefixed_roundtrip": what is encoded is decoded again.          *)
LengthPrefixedRoundTrip ==
  Prefixed /\ (\A k \in 1 .. Len(said) : Decent(said[k])) => InPieces
=============================================================================
