------------------------------ MODULE Framing ------------------------------
(***************************************************************************)
(* The framing of one BGP connection: BGPMessageCodec (bgp/codec.rs) under *)
(* tokio-util's Framed, read_message (neighbor/connection.rs) on top of    *)
(* it, and the select! of fsm_loop that drops a read_message which has     *)
(* nothing yet.                                                            *)
(*                                                                         *)
(* Bytes are counted, not spelled: a message of the stream is a record of  *)
(* what the decoder looks at, and every other variable about the stream is *)
(* an offset into it.  TCP cuts the stream anywhere.                       *)
(***************************************************************************)
EXTENDS Naturals, Sequences

CONSTANTS
    DataLengths,   \* lengths of what send() hands to the encoder: type and body
    Foreign,       \* messages of another implementation: [len, marker, type, body]
    MaxFrames      \* bound: messages on the stream

MIN_MESSAGE_LENGTH == 19
MAX_MESSAGE_LENGTH == 4096

\* len is the declared length; body says what Message::try_from makes of the
\* body: a message, an error, or a panic.
Bodies == {"good", "bad", "panics"}

ASSUME FramingAssumption ==
    /\ DataLengths \subseteq Nat
    /\ \A f \in Foreign : /\ f.len \in Nat /\ f.marker \in BOOLEAN
                          /\ f.type \in BOOLEAN /\ f.body \in Bodies
    /\ MaxFrames \in Nat

VARIABLES
    sent, at, written,    \* the stream: its messages, where each starts, its length
    arrived, net,         \* TCP: bytes that arrived, and how the connection ended
    filled, consumed,     \* the BytesMut of Framed: the bytes consumed..filled
    readable, eof,        \* the flags of Framed's ReadFrame
    polling,              \* a read_message future is alive
    delivered, status     \* what fsm_loop was given

netvars == <<sent, at, written, arrived, net>>
bufvars == <<filled, consumed, readable, eof>>
vars == <<netvars, bufvars, polling, delivered, status>>

Init ==
    /\ sent = <<>> /\ at = <<>> /\ written = 0 /\ arrived = 0 /\ net = "up"
    /\ filled = 0 /\ consumed = 0 /\ readable = FALSE /\ eof = FALSE
    /\ polling = FALSE /\ delivered = 0 /\ status = "open"

-----------------------------------------------------------------------------
(* The peer and the network                                                *)

validate_message_length(n) == n >= MIN_MESSAGE_LENGTH /\ n <= MAX_MESSAGE_LENGTH

\* The bytes of a message.  One with an impossible length has its header, and
\* what follows that is never looked at.
Bytes(f) == IF validate_message_length(f.len) THEN f.len ELSE MIN_MESSAGE_LENGTH

PutOnStream(f) ==
    /\ sent' = Append(sent, f)
    /\ at' = Append(at, written)
    /\ written' = written + Bytes(f)

\* The codec's frame for data of n bytes: marker and length come first.
Encoded(n) == [len |-> n + 18, marker |-> TRUE, type |-> TRUE, body |-> "good"]

AllFrames == Foreign \cup {Encoded(n) : n \in DataLengths}

\* Encoder::encode, of a peer that is another ubgpd.  What is too long is not
\* sent at all.
encode ==
    /\ net = "up" /\ Len(sent) < MaxFrames
    /\ \E n \in DataLengths :
         /\ validate_message_length(Encoded(n).len)
         /\ PutOnStream(Encoded(n))
    /\ UNCHANGED <<arrived, net, bufvars, polling, delivered, status>>

ForeignSend ==
    /\ net = "up" /\ Len(sent) < MaxFrames
    /\ \E f \in Foreign : PutOnStream(f)
    /\ UNCHANGED <<arrived, net, bufvars, polling, delivered, status>>

Arrive ==
    /\ net = "up" /\ arrived < written
    /\ arrived' \in (arrived + 1)..written
    /\ UNCHANGED <<sent, at, written, net, bufvars, polling, delivered, status>>

\* The peer closes, maybe in the middle of a message, or the connection breaks.
Lose ==
    /\ net = "up" /\ net' \in {"fin", "reset"}
    /\ UNCHANGED <<sent, at, written, arrived, bufvars, polling, delivered, status>>

-----------------------------------------------------------------------------
(* fsm_loop and read_message                                               *)

\* An iteration of the loop calls read_message.
BeginRead ==
    /\ status = "open" /\ ~polling
    /\ polling' = TRUE
    /\ UNCHANGED <<netvars, bufvars, delivered, status>>

\* Another branch of select! is ready before this one: the future is dropped,
\* the Framed it borrowed is not.
Cancel ==
    /\ status = "open" /\ polling
    /\ polling' = FALSE
    /\ UNCHANGED <<netvars, bufvars, delivered, status>>

\* Framed reads what arrived: bytes, an error, or nothing at the end of the
\* stream.  A second end of stream is the None that only disables the branch.
Fill ==
    /\ status = "open" /\ polling /\ ~readable
    /\ \/ /\ filled < arrived
          /\ filled' = arrived /\ readable' = TRUE /\ eof' = FALSE
          /\ UNCHANGED <<polling, status>>
       \/ /\ filled = arrived /\ net = "fin" /\ ~eof
          /\ eof' = TRUE /\ readable' = TRUE
          /\ UNCHANGED <<filled, polling, status>>
       \/ /\ filled = arrived /\ net = "fin" /\ eof
          /\ polling' = FALSE
          /\ UNCHANGED <<filled, readable, eof, status>>
       \/ /\ filled = arrived /\ net = "reset"
          /\ polling' = FALSE /\ status' = "failed"
          /\ UNCHANGED <<filled, readable, eof>>
    /\ UNCHANGED <<netvars, consumed, delivered>>

\* The message that starts at the decoder's offset; anything else is no header.
Garbage == [len |-> 0, marker |-> FALSE, type |-> FALSE, body |-> "bad"]
FrameHere ==
    IF \E i \in DOMAIN at : at[i] = consumed
    THEN sent[CHOOSE i \in DOMAIN at : at[i] = consumed] ELSE Garbage

\* Mutant: a message is taken as soon as its header is there.
DecodeEager(n, f) ==
    IF n < MIN_MESSAGE_LENGTH THEN "none"
    ELSE IF ~f.marker \/ ~validate_message_length(f.len) \/ ~f.type THEN "error"
    ELSE "some"

\* Mutant: a message waits for the byte after it.
DecodeLate(n, f) ==
    IF n < MIN_MESSAGE_LENGTH THEN "none"
    ELSE IF ~f.marker \/ ~validate_message_length(f.len) THEN "error"
    ELSE IF n <= f.len THEN "none"
    ELSE IF f.type THEN "some" ELSE "error"

\* Decoder::decode with n bytes in the buffer.
decode(n, f) ==
    IF n < MIN_MESSAGE_LENGTH THEN "none"
    ELSE IF ~f.marker \/ ~validate_message_length(f.len) THEN "error"
    ELSE IF n < f.len THEN "none"
    ELSE IF f.type THEN "some" ELSE "error"

\* Mutant: the end of the stream is an error also between two messages.
DecodeEofStrict(n, f) == IF decode(n, f) = "none" THEN "error" ELSE decode(n, f)

\* decode_eof: what is left of the buffer at the end of the stream is an error.
decode_eof(n, f) == IF decode(n, f) = "none" /\ n > 0 THEN "error" ELSE decode(n, f)

\* Mutant: advance() stops short of the last byte.
AdvanceShort(f) == f.len - 1

Advance(f) == f.len

\* One call of the decoder, and read_message with what it returns:
\* Message::try_from checks the header again and parses the body.
Decode ==
    /\ status = "open" /\ polling /\ readable
    /\ LET f == FrameHere
           n == filled - consumed
           r == IF eof THEN decode_eof(n, f) ELSE decode(n, f)
       IN \/ /\ r = "none"
             /\ readable' = FALSE /\ polling' = ~eof
             /\ UNCHANGED <<consumed, delivered, status>>
          \/ /\ r = "error"
             /\ status' = "failed" /\ polling' = FALSE
             /\ UNCHANGED <<consumed, readable, delivered>>
          \/ /\ r = "some"
             /\ consumed' = consumed + Advance(f) /\ polling' = FALSE
             /\ \/ f.body = "good" /\ delivered' = delivered + 1 /\ UNCHANGED status
                \/ f.body # "good" /\ status' = "failed" /\ UNCHANGED delivered
             /\ UNCHANGED readable
    /\ UNCHANGED <<netvars, filled, eof>>

-----------------------------------------------------------------------------
Reader == BeginRead \/ Fill \/ Decode

Next == encode \/ ForeignSend \/ Arrive \/ Lose \/ Reader \/ Cancel

Spec == Init /\ [][Next]_vars

\* The runtime polls the task; select! starts with a random branch, so that
\* bytes that arrived are read in the end however many events there are.
FairSpec == Spec /\ WF_vars(Reader) /\ SF_vars(Fill) /\ SF_vars(Decode)

-----------------------------------------------------------------------------
(* Properties                                                              *)

\* Every flag has its type, and nothing is decoded before it was read, read
\* before it arrived or arrived before it was written.
TypeOK ==
    /\ sent \in Seq(AllFrames)
    /\ at \in Seq(Nat) /\ Len(at) = Len(sent) /\ written \in Nat
    /\ arrived \in 0..written /\ net \in {"up", "fin", "reset"}
    /\ filled \in 0..arrived /\ consumed \in 0..filled
    /\ readable \in BOOLEAN /\ eof \in BOOLEAN /\ polling \in BOOLEAN
    /\ delivered \in 0..Len(sent) /\ status \in {"open", "failed"}

\* Whatever way the stream is cut and however often select! drops the future,
\* the decoder stands at the start of the first message it did not deliver.
AtBoundary ==
    status = "open" =>
        consumed = IF delivered = Len(sent) THEN written ELSE at[delivered + 1]

WellFormed(f) ==
    f.marker /\ f.type /\ f.body = "good" /\ validate_message_length(f.len)

Stream == INSTANCE MessageStream WITH
    Frames <- AllFrames, Good <- {f \in AllFrames : WellFormed(f)},
    sent <- sent, delivered <- delivered, net <- net, status <- status

\* The connection is a stream of messages: in order, none lost, and an error
\* only where the peer or the network gave a reason.
IsMessageStream == Stream!Spec

\* A complete, well-formed message is delivered, unless the connection fails
\* first.
CompleteIsDelivered ==
    \A i \in 1..MaxFrames :
        (i <= Len(sent) /\ arrived >= at[i] + Bytes(sent[i]))
            ~> delivered >= i \/ status = "failed"
=============================================================================
