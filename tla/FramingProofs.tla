--------------------------- MODULE FramingProofs ---------------------------
(***************************************************************************)
(* Framing implements MessageStream, for every set of messages and every   *)
(* way of cutting the stream.                                              *)
(***************************************************************************)
EXTENDS Framing, TLAPS

\* The messages lie on the stream one after the other.
Layout ==
    /\ \A i, j \in 1..Len(sent) : i < j => at[i] + Bytes(sent[i]) <= at[j]
    /\ \A i \in 1..Len(sent) :
         IF i = Len(sent) THEN written = at[i] + Bytes(sent[i])
         ELSE at[i + 1] = at[i] + Bytes(sent[i])

\* Framed's end of stream is the peer's.
EofIsFin == eof => net = "fin"

Inv == TypeOK /\ Layout /\ AtBoundary /\ EofIsFin

\* The encoder's messages have the fields of any other.
LEMMA FrameFields ==
    ASSUME NEW f \in AllFrames
    PROVE  /\ f.len \in Nat /\ f.marker \in BOOLEAN /\ f.type \in BOOLEAN
           /\ f.body \in Bodies /\ Bytes(f) \in Nat /\ Bytes(f) >= MIN_MESSAGE_LENGTH
  <1>1. CASE f \in Foreign
    BY <1>1, FramingAssumption
       DEF Bytes, validate_message_length, MIN_MESSAGE_LENGTH, MAX_MESSAGE_LENGTH
  <1>2. CASE f \in {Encoded(n) : n \in DataLengths}
    <2>1. PICK n \in DataLengths : f = Encoded(n)
      BY <1>2
    <2>2. n \in Nat
      BY FramingAssumption
    <2>3. QED
      BY <2>1, <2>2 DEF Encoded, Bodies, Bytes, validate_message_length, MIN_MESSAGE_LENGTH,
                        MAX_MESSAGE_LENGTH
  <1>3. QED
    BY <1>1, <1>2 DEF AllFrames

\* A new message goes behind the others.
LEMMA PutKeepsInv ==
    ASSUME Inv, NEW f \in AllFrames, PutOnStream(f),
           UNCHANGED <<arrived, net, bufvars, polling, delivered, status>>
    PROVE  Inv'
  <1> DEFINE n == Len(sent)
  <1>1. /\ sent \in Seq(AllFrames) /\ at \in Seq(Nat) /\ Len(at) = n
        /\ written \in Nat /\ Bytes(f) \in Nat /\ n \in Nat
    BY FrameFields DEF Inv, TypeOK
  <1>2. /\ sent' \in Seq(AllFrames) /\ Len(sent') = n + 1 /\ sent'[n + 1] = f
        /\ \A i \in 1..n : sent'[i] = sent[i]
    BY <1>1 DEF PutOnStream
  <1>3. /\ at' \in Seq(Nat) /\ Len(at') = n + 1 /\ at'[n + 1] = written
        /\ \A i \in 1..n : at'[i] = at[i]
    BY <1>1 DEF PutOnStream
  <1>4. written' = written + Bytes(f)
    BY DEF PutOnStream
  <1>5. TypeOK'
    BY <1>1, <1>2, <1>3, <1>4 DEF Inv, TypeOK, bufvars
  <1>6. \A i \in 1..n : at[i] \in Nat /\ Bytes(sent[i]) \in Nat
    BY <1>1, FrameFields
  <1>7. \A i \in 1..n : at[i] + Bytes(sent[i]) <= written
    <2> SUFFICES ASSUME NEW i \in 1..n PROVE at[i] + Bytes(sent[i]) <= written
      OBVIOUS
    <2>1. CASE i = n
      BY <2>1, <1>1, <1>6 DEF Inv, Layout
    <2>2. CASE i < n
      <3>1. n \in 1..n
        BY <2>2, <1>1
      <3>2. at[i] + Bytes(sent[i]) <= at[n]
        BY <2>2, <3>1 DEF Inv, Layout
      <3>3. written = at[n] + Bytes(sent[n])
        BY <3>1 DEF Inv, Layout
      <3>4. QED
        BY <3>1, <3>2, <3>3, <1>1, <1>6
    <2>3. QED
      BY <2>1, <2>2, <1>1
  <1> DEFINE End(i) == at[i] + Bytes(sent[i])
             EndNew(i) == at'[i] + Bytes(sent'[i])
  <1>8. /\ \A i \in 1..n : EndNew(i) = End(i)
        /\ EndNew(n + 1) = written + Bytes(f)
        /\ 1..(n + 1) = 1..n \cup {n + 1}
    BY <1>1, <1>2, <1>3
  <1>9. \A i, j \in 1..(n + 1) : i < j => EndNew(i) <= at'[j]
    <2> SUFFICES ASSUME NEW i \in 1..(n + 1), NEW j \in 1..(n + 1), i < j
                 PROVE  EndNew(i) <= at'[j]
      OBVIOUS
    <2>1. i \in 1..n
      BY <1>1
    <2>2. EndNew(i) = End(i)
      BY <2>1, <1>8
    <2>3. CASE j = n + 1
      <3>1. End(i) <= written
        BY <2>1, <1>7
      <3>2. QED
        BY <2>2, <2>3, <3>1, <1>3
    <2>4. CASE j \in 1..n
      <3>1. End(i) <= at[j]
        BY <2>1, <2>4 DEF Inv, Layout
      <3>2. QED
        BY <2>2, <2>4, <3>1, <1>3
    <2>5. QED
      BY <2>3, <2>4, <1>8
  <1>10. \A i \in 1..(n + 1) :
          IF i = n + 1 THEN written' = EndNew(i) ELSE at'[i + 1] = EndNew(i)
    <2> SUFFICES ASSUME NEW i \in 1..(n + 1)
                 PROVE  IF i = n + 1 THEN written' = EndNew(i)
                        ELSE at'[i + 1] = EndNew(i)
      OBVIOUS
    <2>1. CASE i = n + 1
      BY <2>1, <1>4, <1>8
    <2>2. CASE i # n + 1 /\ i = n
      <3>1. i \in 1..n /\ written = End(i) /\ at'[i + 1] = written
        BY <2>2, <1>1, <1>3 DEF Inv, Layout
      <3>2. QED
        BY <2>2, <3>1, <1>8
    <2>3. CASE i # n + 1 /\ i # n
      <3>1. i \in 1..n /\ i + 1 \in 1..n
        BY <2>3, <1>1
      <3>2. at[i + 1] = End(i)
        BY <2>3, <3>1 DEF Inv, Layout
      <3>3. QED
        BY <2>3, <3>1, <3>2, <1>3, <1>8
    <2>4. QED
      BY <2>1, <2>2, <2>3
  <1>11. Layout'
    BY <1>2, <1>9, <1>10 DEF Layout, Bytes
  <1>12. AtBoundary'
    <2>1. delivered \in 0..n /\ delivered' = delivered /\ status' = status
          /\ consumed' = consumed
      BY <1>1 DEF Inv, TypeOK, bufvars
    <2>2. CASE delivered = n
      <3>1. at'[delivered' + 1] = written /\ delivered' # Len(sent')
        BY <2>1, <2>2, <1>1, <1>2, <1>3
      <3>2. QED
        BY <2>1, <2>2, <3>1 DEF Inv, AtBoundary
    <2>3. CASE delivered # n
      <3>0. delivered + 1 \in 1..n /\ delivered # n + 1
        BY <2>1, <2>3, <1>1
      <3>1. at'[delivered' + 1] = at[delivered + 1] /\ delivered' # Len(sent')
        BY <2>1, <3>0, <1>2, <1>3
      <3>2. QED
        BY <2>1, <2>3, <3>1 DEF Inv, AtBoundary
    <2>4. QED
      BY <2>2, <2>3
  <1>13. EofIsFin'
    BY DEF Inv, EofIsFin, bufvars
  <1>14. QED
    BY <1>5, <1>11, <1>12, <1>13 DEF Inv

\* With bytes in the buffer the decoder sees the first message not delivered.
LEMMA NextFrame ==
    ASSUME Inv, status = "open", consumed < filled
    PROVE  /\ delivered < Len(sent) /\ delivered + 1 \in 1..Len(sent)
           /\ FrameHere = sent[delivered + 1] /\ FrameHere \in AllFrames
           /\ consumed = at[delivered + 1]
  <1> DEFINE n == Len(sent)
  <1>1. /\ sent \in Seq(AllFrames) /\ at \in Seq(Nat) /\ Len(at) = n /\ n \in Nat
        /\ written \in Nat /\ delivered \in 0..n /\ consumed \in Nat /\ filled \in Nat
        /\ filled <= written
    BY DEF Inv, TypeOK
  <1>2. delivered < n
    BY <1>1 DEF Inv, AtBoundary
  <1>3. consumed = at[delivered + 1] /\ delivered + 1 \in DOMAIN at
    BY <1>1, <1>2 DEF Inv, AtBoundary
  <1>4. ASSUME NEW i \in DOMAIN at, at[i] = consumed
        PROVE  i = delivered + 1
    <2>1. /\ i \in 1..n /\ delivered + 1 \in 1..n
          /\ Bytes(sent[i]) \in Nat /\ Bytes(sent[i]) >= MIN_MESSAGE_LENGTH
          /\ Bytes(sent[delivered + 1]) \in Nat
          /\ Bytes(sent[delivered + 1]) >= MIN_MESSAGE_LENGTH
      BY <1>1, <1>2, FrameFields
    <2>2. i < delivered + 1 => at[i] + Bytes(sent[i]) <= at[delivered + 1]
      BY <2>1 DEF Inv, Layout
    <2>3. delivered + 1 < i => at[delivered + 1] + Bytes(sent[delivered + 1]) <= at[i]
      BY <2>1 DEF Inv, Layout
    <2>4. QED
      BY <2>1, <2>2, <2>3, <1>1, <1>3, <1>4 DEF MIN_MESSAGE_LENGTH
  <1>5. (CHOOSE i \in DOMAIN at : at[i] = consumed) = delivered + 1
    BY <1>3, <1>4
  <1>6. FrameHere = sent[delivered + 1]
    BY <1>3, <1>5 DEF FrameHere
  <1>7. QED
    BY <1>1, <1>2, <1>3, <1>6

\* What the decoder makes of the bytes it has.
LEMMA DecodeResult ==
    ASSUME Inv, status = "open"
    PROVE  LET n == filled - consumed
               f == FrameHere
               r == IF eof THEN decode_eof(n, f) ELSE decode(n, f)
           IN /\ n \in Nat
              /\ r = "some" => /\ n >= f.len /\ n >= MIN_MESSAGE_LENGTH /\ f.type
                               /\ f.marker /\ validate_message_length(f.len)
              /\ r = "error" => \/ n >= MIN_MESSAGE_LENGTH /\ ~WellFormed(f)
                                \/ n > 0 /\ net = "fin"
  <1> DEFINE n == filled - consumed
             f == FrameHere
  <1>1. n \in Nat
    BY DEF Inv, TypeOK
  <1>2. eof => net = "fin"
    BY DEF Inv, EofIsFin
  <1>3. decode(n, f) = "some" => /\ n >= f.len /\ n >= MIN_MESSAGE_LENGTH /\ f.type
                                 /\ f.marker /\ validate_message_length(f.len)
    <2>1. CASE n < MIN_MESSAGE_LENGTH
      BY <2>1 DEF decode
    <2>2. CASE ~(n < MIN_MESSAGE_LENGTH)
      <3>1. n >= MIN_MESSAGE_LENGTH
        BY <2>2, <1>1 DEF MIN_MESSAGE_LENGTH
      <3>2. CASE ~f.marker \/ ~validate_message_length(f.len)
        BY <2>2, <3>2 DEF decode
      <3>3. CASE f.marker /\ validate_message_length(f.len) /\ n < f.len
        BY <2>2, <3>3 DEF decode
      <3>4. CASE f.marker /\ validate_message_length(f.len) /\ ~(n < f.len)
        <4>1. f \in AllFrames
          <5>1. consumed < filled
            BY <3>1 DEF MIN_MESSAGE_LENGTH, Inv, TypeOK
          <5>2. QED
            BY <5>1, NextFrame
        <4>2. n >= f.len
          BY <3>4, <4>1, <1>1, FrameFields
        <4>3. QED
          BY <2>2, <3>1, <3>4, <4>2 DEF decode
      <3>5. QED
        BY <3>2, <3>3, <3>4
    <2>3. QED
      BY <2>1, <2>2
  <1>4. decode(n, f) = "error" => n >= MIN_MESSAGE_LENGTH /\ ~WellFormed(f)
    BY <1>1 DEF decode, WellFormed, MIN_MESSAGE_LENGTH
  <1>5. decode_eof(n, f) = "some" => decode(n, f) = "some"
    BY DEF decode_eof
  <1>6. decode_eof(n, f) = "error" => decode(n, f) = "error" \/ n > 0
    BY DEF decode_eof
  <1>7. QED
    BY <1>1, <1>2, <1>3, <1>4, <1>5, <1>6

\* A message is delivered whole, and the decoder moves to the next one.
LEMMA DecodeKeepsInv ==
    ASSUME Inv, Decode
    PROVE  Inv' /\ (Stream!Deliver \/ Stream!Fail \/ UNCHANGED Stream!vars)
  <1> DEFINE f == FrameHere
             n == filled - consumed
             r == IF eof THEN decode_eof(n, f) ELSE decode(n, f)
  <1>1. /\ status = "open" /\ UNCHANGED <<netvars, filled, eof>>
        /\ \/ /\ r = "none" /\ readable' = FALSE /\ polling' = ~eof
              /\ UNCHANGED <<consumed, delivered, status>>
           \/ /\ r = "error" /\ status' = "failed" /\ polling' = FALSE
              /\ UNCHANGED <<consumed, readable, delivered>>
           \/ /\ r = "some" /\ consumed' = consumed + Advance(f) /\ polling' = FALSE
              /\ \/ f.body = "good" /\ delivered' = delivered + 1 /\ UNCHANGED status
                 \/ f.body # "good" /\ status' = "failed" /\ UNCHANGED delivered
              /\ UNCHANGED readable
    BY DEF Decode
  <1>2. /\ sent \in Seq(AllFrames) /\ at \in Seq(Nat) /\ Len(at) = Len(sent)
        /\ Len(sent) \in Nat /\ consumed \in Nat /\ filled \in Nat /\ consumed <= filled
        /\ delivered \in 0..Len(sent) /\ readable \in BOOLEAN /\ eof \in BOOLEAN
    BY DEF Inv, TypeOK
  <1>3. UNCHANGED <<sent, at, written, arrived, net, filled, eof>>
    BY <1>1 DEF netvars
  <1>4. Layout' /\ EofIsFin'
    BY <1>3 DEF Inv, Layout, EofIsFin, Bytes
  <1>5. CASE r = "none"
    <2>1. UNCHANGED <<consumed, delivered, status>> /\ readable' = FALSE /\ polling' = ~eof
      BY <1>1, <1>5
    <2>2. TypeOK' /\ AtBoundary'
      BY <2>1, <1>2, <1>3 DEF Inv, TypeOK, AtBoundary
    <2>3. UNCHANGED Stream!vars
      BY <2>1, <1>3 DEF Stream!vars
    <2>4. QED
      BY <2>2, <2>3, <1>4 DEF Inv
  <1>6. CASE r = "error"
    <2>1. UNCHANGED <<consumed, readable, delivered>> /\ status' = "failed"
          /\ polling' = FALSE
      BY <1>1, <1>6
    <2>2. TypeOK' /\ AtBoundary'
      BY <2>1, <1>2, <1>3 DEF Inv, TypeOK, AtBoundary
    <2>3. n > 0 /\ (net = "fin" \/ ~WellFormed(f))
      BY <1>1, <1>6, DecodeResult DEF MIN_MESSAGE_LENGTH
    <2>4. delivered < Len(sent) /\ f = sent[delivered + 1] /\ f \in AllFrames
      BY <2>3, <1>1, <1>2, NextFrame
    <2>5. Stream!Fail
      BY <2>1, <2>3, <2>4, <1>1, <1>3 DEF Stream!Fail
    <2>6. QED
      BY <2>2, <2>5, <1>4 DEF Inv
  <1>7. CASE r = "some"
    <2>1. /\ n \in Nat /\ n >= f.len /\ n >= MIN_MESSAGE_LENGTH /\ f.type /\ f.marker
          /\ validate_message_length(f.len)
      BY <1>1, <1>7, DecodeResult
    <2>2. /\ delivered < Len(sent) /\ f = sent[delivered + 1] /\ f \in AllFrames
          /\ delivered + 1 \in 1..Len(sent) /\ consumed = at[delivered + 1]
      BY <2>1, <1>1, <1>2, NextFrame DEF MIN_MESSAGE_LENGTH
    <2>3. f.len \in Nat /\ Bytes(f) = f.len /\ Advance(f) = f.len
      BY <2>1, <2>2, FrameFields DEF Bytes, Advance
    <2>4. consumed' = consumed + f.len /\ polling' = FALSE /\ readable' = readable
      BY <1>1, <1>7, <2>3
    <2>5. consumed' \in 0..filled'
      BY <2>1, <2>3, <2>4, <1>2, <1>3
    <2>6. CASE f.body = "good"
      <3>1. delivered' = delivered + 1 /\ status' = status
        BY <1>1, <1>7, <2>6
      <3>2. delivered' \in 0..Len(sent')
        BY <3>1, <2>2, <1>2, <1>3
      <3>3. TypeOK'
        BY <3>1, <3>2, <2>4, <2>5, <1>3 DEF Inv, TypeOK
      <3>4. AtBoundary'
        <4>1. CASE delivered + 1 = Len(sent)
          <5>1. written = consumed + f.len
            BY <2>2, <2>3, <4>1 DEF Inv, Layout
          <5>2. QED
            BY <5>1, <3>1, <4>1, <2>4, <1>3 DEF AtBoundary
        <4>2. CASE delivered + 1 # Len(sent)
          <5>1. at[(delivered + 1) + 1] = consumed + f.len
            BY <2>2, <2>3, <4>2 DEF Inv, Layout
          <5>2. QED
            BY <5>1, <3>1, <4>2, <2>4, <1>3 DEF AtBoundary
        <4>3. QED
          BY <4>1, <4>2
      <3>5. Stream!Deliver
        BY <3>1, <2>1, <2>2, <2>6, <1>1, <1>3 DEF Stream!Deliver, WellFormed
      <3>6. QED
        BY <3>3, <3>4, <3>5, <1>4 DEF Inv
    <2>7. CASE f.body # "good"
      <3>1. delivered' = delivered /\ status' = "failed"
        BY <1>1, <1>7, <2>7
      <3>2. TypeOK' /\ AtBoundary'
        BY <3>1, <2>4, <2>5, <1>2, <1>3 DEF Inv, TypeOK, AtBoundary
      <3>3. Stream!Fail
        BY <3>1, <2>2, <2>7, <1>1, <1>3 DEF Stream!Fail, WellFormed
      <3>4. QED
        BY <3>2, <3>3, <1>4 DEF Inv
    <2>8. QED
      BY <2>6, <2>7
  <1>8. QED
    BY <1>1, <1>5, <1>6, <1>7

\* The other steps of the reader and of the network leave the messages and
\* the decoder's place alone.
LEMMA OtherKeepsInv ==
    ASSUME Inv, Arrive \/ Lose \/ BeginRead \/ Cancel \/ Fill
    PROVE  Inv' /\ (Stream!Lose \/ Stream!Fail \/ UNCHANGED Stream!vars)
  <1>1. /\ UNCHANGED <<sent, at, written, consumed, delivered>>
        /\ arrived \in 0..written /\ written \in Nat /\ filled \in 0..arrived
        /\ consumed \in 0..filled /\ delivered \in 0..Len(sent)
    BY DEF Arrive, Lose, BeginRead, Cancel, Fill, netvars, bufvars, Inv, TypeOK
  <1>2. Layout'
    BY <1>1 DEF Inv, Layout, Bytes
  <1>3. CASE Arrive
    <2>1. arrived' \in 0..written /\ arrived <= arrived'
          /\ UNCHANGED <<net, filled, readable, eof, polling, status>>
      BY <1>1, <1>3 DEF Arrive, bufvars
    <2>2. filled \in 0..arrived'
      BY <2>1, <1>1
    <2>3. QED
      BY <2>1, <2>2, <1>1, <1>2 DEF Inv, TypeOK, AtBoundary, EofIsFin, Stream!vars
  <1>4. CASE Lose
    <2>1. net = "up" /\ net' \in {"fin", "reset"}
          /\ UNCHANGED <<arrived, filled, readable, eof, polling, status>>
      BY <1>4 DEF Lose, bufvars
    <2>2. QED
      BY <2>1, <1>1, <1>2 DEF Inv, TypeOK, AtBoundary, EofIsFin, Stream!Lose
  <1>5. CASE BeginRead \/ Cancel
    <2>1. polling' \in BOOLEAN /\ UNCHANGED <<arrived, net, filled, readable, eof, status>>
      BY <1>5 DEF BeginRead, Cancel, bufvars, netvars
    <2>2. QED
      BY <2>1, <1>1, <1>2 DEF Inv, TypeOK, AtBoundary, EofIsFin, Stream!vars
  <1>6. CASE Fill
    <2>1. UNCHANGED <<arrived, net>> /\ status = "open"
      BY <1>6 DEF Fill, netvars
    <2>2. CASE filled' = arrived /\ readable' = TRUE /\ eof' = FALSE
               /\ UNCHANGED <<polling, status>>
      <3>1. filled' \in 0..arrived /\ consumed \in 0..filled'
        BY <2>2, <1>1
      <3>2. QED
        BY <3>1, <2>1, <2>2, <1>1, <1>2 DEF Inv, TypeOK, AtBoundary, EofIsFin, Stream!vars
    <2>3. CASE net = "fin" /\ eof' = TRUE /\ readable' = TRUE
               /\ UNCHANGED <<filled, polling, status>>
      BY <2>3, <2>1, <1>1, <1>2 DEF Inv, TypeOK, AtBoundary, EofIsFin, Stream!vars
    <2>4. CASE polling' = FALSE /\ UNCHANGED <<filled, readable, eof, status>>
      BY <2>4, <2>1, <1>1, <1>2 DEF Inv, TypeOK, AtBoundary, EofIsFin, Stream!vars
    <2>5. CASE net = "reset" /\ polling' = FALSE /\ status' = "failed"
               /\ UNCHANGED <<filled, readable, eof>>
      BY <2>5, <2>1, <1>1, <1>2 DEF Inv, TypeOK, AtBoundary, EofIsFin, Stream!Fail
    <2>6. QED
      BY <1>6, <2>2, <2>3, <2>4, <2>5 DEF Fill
  <1>7. QED
    BY <1>3, <1>4, <1>5, <1>6

\* A message is put on the stream, by our encoder or by another's.
LEMMA WriteKeepsInv ==
    ASSUME Inv, encode \/ ForeignSend
    PROVE  Inv' /\ Stream!Write
  <1>1. /\ net = "up" /\ UNCHANGED <<arrived, net, bufvars, polling, delivered, status>>
        /\ \E f \in AllFrames : PutOnStream(f)
    BY DEF encode, ForeignSend, AllFrames
  <1>2. PICK f \in AllFrames : PutOnStream(f)
    BY <1>1
  <1>3. Inv'
    BY <1>1, <1>2, PutKeepsInv
  <1>4. Stream!Write
    BY <1>1, <1>2 DEF Stream!Write, PutOnStream
  <1>5. QED
    BY <1>3, <1>4

\* The stream starts as MessageStream starts.
LEMMA Initially == Init => Inv /\ Stream!Init
  <1> SUFFICES ASSUME Init PROVE Inv /\ Stream!Init
    OBVIOUS
  <1>1. Len(sent) = 0 /\ sent \in Seq(AllFrames) /\ at \in Seq(Nat) /\ Len(at) = 0
    BY DEF Init
  <1>2. TypeOK
    <2>1. /\ written = 0 /\ arrived = 0 /\ filled = 0 /\ consumed = 0 /\ delivered = 0
          /\ net = "up" /\ status = "open"
      BY DEF Init
    <2>2. /\ arrived \in 0..written /\ filled \in 0..arrived /\ consumed \in 0..filled
          /\ delivered \in 0..Len(sent) /\ written \in Nat
      BY <2>1, <1>1
    <2>3. readable \in BOOLEAN /\ eof \in BOOLEAN /\ polling \in BOOLEAN
      BY DEF Init
    <2>4. QED
      BY <2>1, <2>2, <2>3, <1>1 DEF TypeOK
  <1>3. Layout
    BY <1>1 DEF Layout
  <1>4. AtBoundary /\ EofIsFin
    BY <1>1 DEF Init, AtBoundary, EofIsFin
  <1>5. Stream!Init
    BY DEF Init, Stream!Init
  <1>6. QED
    BY <1>2, <1>3, <1>4, <1>5 DEF Inv

\* Every step of the codec is a step of MessageStream or a stutter.
LEMMA Step == ASSUME Inv, [Next]_vars PROVE Inv' /\ [Stream!Next]_(Stream!vars)
  <1>1. CASE encode \/ ForeignSend
    BY <1>1, WriteKeepsInv DEF Stream!Next
  <1>2. CASE Arrive \/ Lose \/ BeginRead \/ Cancel \/ Fill
    BY <1>2, OtherKeepsInv DEF Stream!Next
  <1>3. CASE Decode
    BY <1>3, DecodeKeepsInv DEF Stream!Next
  <1>4. CASE UNCHANGED vars
    BY <1>4 DEF vars, netvars, bufvars, Inv, TypeOK, Layout, AtBoundary, EofIsFin, Bytes,
                Stream!vars
  <1>5. QED
    BY <1>1, <1>2, <1>3, <1>4 DEF Next, Reader

\* Offsets and flags keep their types: no byte is decoded before it was read.
THEOREM TypeCorrect == Spec => []TypeOK
  <1>1. Inv => TypeOK
    BY DEF Inv
  <1>2. QED
    BY <1>1, Initially, Step, PTL DEF Spec

\* However the stream is cut and however often select! drops read_message, the
\* decoder stands between two messages.
THEOREM AlwaysAtBoundary == Spec => []AtBoundary
  <1>1. Inv => AtBoundary
    BY DEF Inv
  <1>2. QED
    BY <1>1, Initially, Step, PTL DEF Spec

\* BGPMessageCodec under Framed gives fsm_loop the peer's messages in order,
\* none lost, and an error only for a reason.
THEOREM FramingImplementsStream == Spec => IsMessageStream
  BY Initially, Step, PTL DEF Spec, IsMessageStream, Stream!Spec
=============================================================================
