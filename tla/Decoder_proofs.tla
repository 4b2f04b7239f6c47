--------------------------- MODULE Decoder_proofs ---------------------------
(***************************************************************************)
(* Theorems about Decoder, for any lengths of frames and any number of     *)
(* them.                                                                   *)
(***************************************************************************)
EXTENDS Decoder, SequenceTheorems, TLAPS

USE LengthAssumption, FramesAssumption

(* What InternalDecoder has not read yet is the end of what has arrived.   *)
Unread == IF decoding THEN message ELSE buffer
Consumed == arrived - Len(Unread)

StreamInv ==
  /\ ends \in Seq(Nat) /\ Len(ends) <= MaxFrames
  /\ \A i, j \in 0..Len(ends) : i < j => Edge(i) + HeaderLength <= Edge(j)
  /\ arrived \in Nat /\ arrived <= Edge(Len(ends))
  /\ decoding \in BOOLEAN
  /\ buffer \in Seq(Nat) /\ message \in Seq(Nat)
  /\ Len(Unread) <= arrived
  /\ \A k \in 1..Len(Unread) : Unread[k] = Consumed + k
  /\ decoding <=> message # <<>>
  /\ refused \subseteq Frames
  /\ received \in Seq(Nat)

(* Each frame begins where the one before it ends.                         *)
LEMMA EdgeType ==
  ASSUME StreamInv, NEW i \in 0..Len(ends)
  PROVE  Edge(i) \in Nat
BY DEF StreamInv, Edge

(* A step of the provider keeps StreamInv.                                 *)
LEMMA SendStream ==
  ASSUME StreamInv, NEW length \in BodyLengths, NEW bad \in BOOLEAN, Send(length, bad)
  PROVE  StreamInv'
<1>1. Edge(Len(ends)) \in Nat
  BY EdgeType DEF StreamInv
<1> DEFINE e == Edge(Len(ends)) + HeaderLength + length
<1>2. e \in Nat /\ ends' = Append(ends, e) /\ ends \in Seq(Nat)
  BY <1>1 DEF Send, StreamInv
<1> HIDE DEF e
<1>3. /\ ends' \in Seq(Nat) /\ Len(ends') = Len(ends) + 1
      /\ ends'[Len(ends) + 1] = e
      /\ \A i \in Frames : ends'[i] = ends[i]
  BY <1>2 DEF Frames
<1>4. \A i \in 0..Len(ends) : (IF i = 0 THEN 0 ELSE ends'[i]) = Edge(i)
  BY <1>2, <1>3 DEF Edge, Frames
<1>5. \A i, j \in 0..Len(ends') :
        i < j => (IF i = 0 THEN 0 ELSE ends'[i]) + HeaderLength
                   <= (IF j = 0 THEN 0 ELSE ends'[j])
  <2> TAKE i, j \in 0..Len(ends')
  <2> HAVE i < j
  <2>1. CASE j <= Len(ends)
    <3>1. i \in 0..Len(ends) /\ j \in 0..Len(ends)
      BY <2>1, <1>2, <1>3
    <3>2. Edge(i) + HeaderLength <= Edge(j)
      BY <3>1 DEF StreamInv
    <3> QED  BY <3>1, <3>2, <1>4
  <2>2. CASE j = Len(ends) + 1
    <3>1. i \in 0..Len(ends) /\ (IF i = 0 THEN 0 ELSE ends'[i]) = Edge(i)
      BY <2>2, <1>2, <1>4
    <3>2. Edge(i) \in Nat
      BY <3>1, EdgeType
    <3>3. Edge(i) <= Edge(Len(ends))
      <4>1. i < Len(ends) => Edge(i) + HeaderLength <= Edge(Len(ends))
        BY <3>1, <1>2 DEF StreamInv
      <4> QED  BY <4>1, <3>1, <3>2, <1>1, <1>2
    <3>4. Edge(Len(ends)) + HeaderLength <= e
      BY <1>1 DEF e
    <3> QED  BY <2>2, <3>1, <3>2, <3>3, <3>4, <1>1, <1>2, <1>3
  <2> QED  BY <2>1, <2>2, <1>2, <1>3
<1>6. Edge(Len(ends))' = e
  BY <1>2, <1>3 DEF Edge
<1>7. arrived' = arrived /\ arrived <= e
  BY <1>1 DEF e, Send, StreamInv
<1>8. refused' \subseteq Frames'
  <2>1. refused' \subseteq refused \union {Len(ends) + 1}
    BY DEF Send
  <2>2. refused \subseteq 1..Len(ends) /\ Len(ends) \in Nat
    BY DEF StreamInv, Frames
  <2> QED  BY <2>1, <2>2, <1>3 DEF Frames
<1>9. /\ UNCHANGED <<arrived, buffer, message, decoding, received>>
      /\ Len(ends') <= MaxFrames
  BY <1>2, <1>3 DEF Send
<1>10. Unread' = Unread /\ Consumed' = Consumed
  BY <1>9 DEF Unread, Consumed
<1> QED  BY <1>3, <1>5, <1>6, <1>7, <1>8, <1>9, <1>10 DEF StreamInv, Edge

(* A chunk is appended to what was left over.                              *)
LEMMA ChunkStream ==
  ASSUME StreamInv, NEW n \in 1..(Edge(Len(ends)) - arrived), messageReceived(n)
  PROVE  StreamInv' /\ Consumed' = Consumed
<1>1. Edge(Len(ends)) \in Nat
  BY EdgeType DEF StreamInv
<1>2. /\ n \in Nat \ {0} /\ Chunk(n) \in Seq(Nat) /\ Len(Chunk(n)) = n
      /\ \A k \in 1..n : Chunk(n)[k] = arrived + k
  BY <1>1 DEF Chunk, StreamInv
<1>3. Unread = buffer /\ buffer \in Seq(Nat)
  BY DEF messageReceived, Unread, StreamInv
<1>4. /\ message' \in Seq(Nat) /\ Len(message') = Len(buffer) + n
      /\ \A k \in 1..Len(message') :
           message'[k] = IF k <= Len(buffer) THEN buffer[k] ELSE Chunk(n)[k - Len(buffer)]
  <2>1. message' = buffer \o Chunk(n)
    BY DEF messageReceived
  <2> DEFINE c == Chunk(n)
  <2>2. c \in Seq(Nat) /\ Len(c) = n /\ buffer \in Seq(Nat)
    BY <1>2, <1>3
  <2> HIDE DEF c
  <2>3. /\ buffer \o c \in Seq(Nat) /\ Len(buffer \o c) = Len(buffer) + n
        /\ \A k \in 1..Len(buffer) + n :
             (buffer \o c)[k] = IF k <= Len(buffer) THEN buffer[k] ELSE c[k - Len(buffer)]
    BY <2>2, ConcatProperties
  <2> QED  BY <2>1, <2>3 DEF c
<1>5. Unread' = message' /\ arrived' = arrived + n
  BY DEF messageReceived, Unread
<1>6. /\ Consumed = arrived - Len(buffer) /\ Len(buffer) <= arrived
      /\ Consumed' = Consumed /\ Consumed \in Nat
  <2>1. Len(buffer) \in Nat /\ Len(buffer) <= arrived /\ arrived \in Nat
    BY <1>3 DEF StreamInv
  <2>2. Consumed = arrived - Len(buffer) /\ Consumed' = arrived' - Len(message')
    BY <1>3, <1>5 DEF Consumed
  <2> QED  BY <2>1, <2>2, <1>2, <1>4, <1>5
<1>7. \A k \in 1..Len(message') : message'[k] = Consumed + k
  <2> TAKE k \in 1..Len(message')
  <2>1. CASE k <= Len(buffer)
    <3>1. k \in 1..Len(Unread) /\ message'[k] = Unread[k]
      BY <2>1, <1>3, <1>4
    <3> QED  BY <3>1 DEF StreamInv
  <2>2. CASE ~(k <= Len(buffer))
    <3>1. k - Len(buffer) \in 1..n
      BY <2>2, <1>2, <1>3, <1>4
    <3>2. message'[k] = arrived + (k - Len(buffer))
      BY <2>2, <3>1, <1>2, <1>4
    <3> QED  BY <3>1, <3>2, <1>3, <1>6 DEF StreamInv
  <2> QED  BY <2>1, <2>2
<1>8. arrived' \in Nat /\ arrived' <= Edge(Len(ends))' /\ Len(message') <= arrived'
  BY <1>1, <1>2, <1>3, <1>4, <1>5 DEF messageReceived, StreamInv, Edge
<1>9. message' # <<>>
  BY <1>2, <1>3, <1>4
<1> QED  BY <1>3, <1>4, <1>5, <1>6, <1>7, <1>8, <1>9
         DEF messageReceived, StreamInv, Frames, Edge

(* The rest of a message whose first k bytes have been read.               *)
LEMMA RestOfMessage ==
  ASSUME StreamInv, decoding, NEW k \in 0..Len(message)
  PROVE  /\ Rest(k) \in Seq(Nat)
         /\ Len(Rest(k)) = Len(message) - k
         /\ \A j \in 1..Len(Rest(k)) : Rest(k)[j] = Consumed + k + j
<1>1. message \in Seq(Nat) /\ Unread = message /\ Consumed \in Nat
  BY DEF StreamInv, Unread, Consumed
<1>2. Rest(k) \in Seq(Nat) /\ Len(Rest(k)) = Len(message) - k
  BY <1>1 DEF Rest
<1>3. \A j \in 1..Len(Rest(k)) : Rest(k)[j] = message[j + k]
  BY <1>1, <1>2 DEF Rest
<1>4. \A j \in 1..Len(Rest(k)) : message[j + k] = Consumed + (j + k)
  BY <1>1, <1>2 DEF StreamInv
<1> QED  BY <1>1, <1>2, <1>3, <1>4

(* The call ends, or the loop goes on, with the rest of the message.       *)
LEMMA ReadStream ==
  ASSUME StreamInv, decoding, NEW k \in 0..Len(message),
         UNCHANGED <<ends, refused, arrived>>, received' \in Seq(Nat),
         Keep(Rest(k)) \/ Continue(k)
  PROVE  /\ StreamInv'
         /\ Consumed' = Consumed + k
         /\ Unread' = Rest(k)
         /\ ~decoding' => Keep(Rest(k))
<1>1. /\ Rest(k) \in Seq(Nat) /\ Len(Rest(k)) = Len(message) - k
      /\ \A j \in 1..Len(Rest(k)) : Rest(k)[j] = Consumed + k + j
  BY RestOfMessage
<1>2. message \in Seq(Nat) /\ Unread = message /\ Consumed = arrived - Len(message)
  BY DEF StreamInv, Unread, Consumed
<1>3. k = Len(message) => Rest(k) = <<>>
  BY <1>1, <1>2
<1>4. k # Len(message) => Rest(k) # <<>>
  BY <1>1, <1>2
<1>5. \/ Keep(Rest(k))
      \/ Rest(k) # <<>> /\ message' = Rest(k) /\ decoding' /\ buffer' = buffer
  BY <1>3, <1>4 DEF Continue
<1>6. Unread' = Rest(k)
  BY <1>5 DEF Unread, Keep
<1>7. Consumed' = Consumed + k
  <2>1. Consumed' = arrived - Len(Rest(k)) /\ arrived \in Nat /\ Len(message) \in Nat
    BY <1>2, <1>6 DEF Consumed, StreamInv
  <2> QED  BY <2>1, <1>1, <1>2
<1>8. /\ decoding' \in BOOLEAN /\ (decoding' <=> message' # <<>>)
      /\ buffer' \in Seq(Nat) /\ message' \in Seq(Nat)
  <2>1. CASE Keep(Rest(k))
    <3>1. decoding' = FALSE /\ message' = <<>> /\ buffer' = Rest(k)
      BY <2>1 DEF Keep
    <3>2. decoding' \in BOOLEAN /\ (decoding' <=> message' # <<>>)
      BY <3>1, Zenon
    <3>3. <<>> \in Seq(Nat)
      OBVIOUS
    <3> QED  BY <3>1, <3>2, <3>3, <1>1
  <2>2. CASE Rest(k) # <<>> /\ message' = Rest(k) /\ decoding' /\ buffer' = buffer
    <3>1. decoding' = TRUE
      BY <2>2, <1>3 DEF Continue, Keep, StreamInv
    <3> QED  BY <2>2, <3>1, <1>1 DEF StreamInv
  <2> QED  BY <1>5, <2>1, <2>2
<1>9. Len(Unread') <= arrived' /\ \A j \in 1..Len(Unread') : Unread'[j] = Consumed' + j
  <2>1. /\ Len(Rest(k)) = Len(message) - k /\ Len(message) <= arrived
        /\ k \in Nat /\ arrived \in Nat /\ Len(message) \in Nat
    BY <1>1, <1>2 DEF StreamInv
  <2>2. Len(Rest(k)) <= arrived /\ arrived' = arrived
    BY <2>1
  <2>3. \A j \in 1..Len(Rest(k)) : Rest(k)[j] = Consumed' + j
    BY <1>1, <1>7
  <2> QED  BY <2>2, <2>3, <1>6
<1> QED  BY <1>5, <1>6, <1>7, <1>8, <1>9 DEF StreamInv, Edge, Frames

(* The bytes of frame i, if it is a frame.                                 *)
LEMMA LengthType ==
  ASSUME StreamInv, NEW i \in Frames
  PROVE  /\ Length(i) \in Nat \ {0}
         /\ Edge(i - 1) \in Nat /\ ends[i] = Edge(i) /\ Edge(i) = Edge(i - 1) + Length(i)
<1>1. i - 1 \in 0..Len(ends) /\ i \in 0..Len(ends) /\ i - 1 < i /\ i # 0
  BY DEF Frames, StreamInv
<1>2. Edge(i - 1) \in Nat /\ Edge(i) \in Nat
  BY <1>1, EdgeType
<1>3. Edge(i - 1) + HeaderLength <= Edge(i)
  BY <1>1 DEF StreamInv
<1>4. ends[i] = Edge(i)
  BY <1>1 DEF Edge
<1> QED  BY <1>2, <1>3, <1>4 DEF Length

(* A step of the loop reads some k bytes of the message.                   *)
LEMMA LoopStream ==
  ASSUME StreamInv,
         \/ NeedMoreInput
         \/ fireMessageReceived
         \/ \E k \in 1..Len(message) : DecodeGarbled(k)
         \/ \E k \in 0..Len(message) : DecodeFails(k)
  PROVE  /\ StreamInv'
         /\ \E k \in 0..Len(message) : /\ Consumed' = Consumed + k
                                       /\ ~decoding' => buffer' = Rest(k)
<1>1. message \in Seq(Nat) /\ Len(message) \in Nat /\ received \in Seq(Nat)
  BY DEF StreamInv
<1>2. CASE NeedMoreInput
  <2>1. Rest(0) = message
    BY <1>1 DEF Rest
  <2>2. /\ decoding /\ Keep(Rest(0)) /\ UNCHANGED <<ends, refused, arrived>>
        /\ received' \in Seq(Nat) /\ 0 \in 0..Len(message)
    BY <1>1, <1>2, <2>1 DEF NeedMoreInput
  <2> QED  BY <2>2, ReadStream DEF Keep
<1>3. CASE fireMessageReceived
  <2>1. PICK i \in Frames \ refused : /\ Complete(i) /\ Continue(Length(i))
                                     /\ received' = Append(received, i)
    BY <1>3 DEF fireMessageReceived
  <2>2. Length(i) \in 0..Len(message) /\ i \in Nat
    BY <1>1, <2>1, LengthType DEF Complete, Frames
  <2>3. received' \in Seq(Nat)
    BY <1>1, <2>1, <2>2
  <2>4. decoding /\ UNCHANGED <<ends, refused, arrived>>
    BY <1>3 DEF fireMessageReceived
  <2> QED  BY <2>1, <2>2, <2>3, <2>4, ReadStream DEF Keep
<1>4. CASE \E k \in 1..Len(message) : DecodeGarbled(k)
  <2>1. PICK k \in 1..Len(message) : DecodeGarbled(k)
    BY <1>4
  <2>2. k \in 0..Len(message)
    BY <1>1
  <2>3. received' \in Seq(Nat)
    <3>1. received' = received \/ received' = Append(received, 0)
      BY <2>1 DEF DecodeGarbled
    <3>2. Append(received, 0) \in Seq(Nat)
      BY <1>1
    <3> QED  BY <3>1, <3>2, <1>1
  <2>4. decoding /\ Continue(k) /\ UNCHANGED <<ends, refused, arrived>>
    BY <2>1 DEF DecodeGarbled
  <2> QED  BY <2>2, <2>3, <2>4, ReadStream DEF Keep
<1>5. CASE \E k \in 0..Len(message) : DecodeFails(k)
  <2>1. PICK k \in 0..Len(message) : DecodeFails(k)
    BY <1>5
  <2>2. /\ decoding /\ Keep(Rest(k)) /\ UNCHANGED <<ends, refused, arrived>>
        /\ received' \in Seq(Nat)
    BY <1>1, <2>1 DEF DecodeFails
  <2> QED  BY <2>2, ReadStream DEF Keep
<1> QED  BY <1>2, <1>3, <1>4, <1>5

(* StreamInv holds of every reachable state.                               *)
LEMMA StreamInvariant == Spec => []StreamInv
<1>1. Init => StreamInv
  <2> SUFFICES ASSUME Init PROVE StreamInv
    OBVIOUS
  <2>1. /\ ends = <<>> /\ arrived = 0 /\ decoding = FALSE /\ refused = {}
        /\ message = <<>> /\ buffer = <<>> /\ received = <<>>
    BY DEF Init
  <2>2. <<>> \in Seq(Nat) /\ Len(<<>>) = 0
    OBVIOUS
  <2>3. Unread = <<>> /\ Edge(Len(ends)) = 0
    BY <2>1, <2>2 DEF Unread, Edge
  <2>4. decoding \in BOOLEAN /\ (decoding <=> message # <<>>)
    BY <2>1, Zenon
  <2>5. /\ \A i, j \in 0..Len(ends) : i < j => Edge(i) + HeaderLength <= Edge(j)
        /\ \A k \in 1..Len(Unread) : Unread[k] = Consumed + k
        /\ Len(ends) <= MaxFrames /\ Len(Unread) <= arrived
    BY <2>1, <2>2, <2>3
  <2>6. refused \subseteq Frames /\ arrived \in Nat /\ arrived <= Edge(Len(ends))
    BY <2>1, <2>3
  <2> QED  BY <2>1, <2>2, <2>4, <2>5, <2>6, Zenon DEF StreamInv
<1>2. StreamInv /\ [Next]_vars => StreamInv'
  <2> SUFFICES ASSUME StreamInv, [Next]_vars PROVE StreamInv'
    OBVIOUS
  <2>1. CASE UNCHANGED vars
    BY <2>1 DEF vars, StreamInv, Unread, Consumed, Edge, Frames
  <2> QED  BY <2>1, SendStream, ChunkStream, LoopStream DEF Next
<1> QED  BY <1>1, <1>2, PTL DEF Spec

(* Every reachable state of the decoder has its type.                      *)
THEOREM TypeCorrect == Spec => []TypeOK
<1>1. StreamInv => TypeOK
  BY EdgeType DEF StreamInv, TypeOK
<1> QED  BY <1>1, StreamInvariant, PTL

-----------------------------------------------------------------------------
(* The order of the frames.  The decoder is in step when what it has read  *)
(* are the frames it handed on, all of them sound.  It can get out of step *)
(* only at a refused frame, with every frame before that one handed on.    *)
InStep ==
  /\ Len(received) <= Len(ends)
  /\ Consumed = Edge(Len(received))
  /\ Sound(Len(received))
  /\ \A j \in 1..Len(received) : received[j] = j

Derailed == \E b \in refused : /\ b <= Len(received) + 1
                               /\ \A j \in 1..(b - 1) : received[j] = j

(* Between two calls the frame that comes next is not complete.            *)
Waiting == LET next == Len(received) + 1
           IN  next <= Len(ends) /\ next \notin refused => arrived < ends[next]

OrderInv == Derailed \/ (InStep /\ (~decoding => Waiting))

(* In step, the message begins with the frame after those handed on, and   *)
(* with no other.                                                          *)
LEMMA AtEdge ==
  ASSUME StreamInv, InStep, decoding
  PROVE  /\ Len(received) + 1 \in Frames
         /\ ~Garbled
         /\ \A i \in Frames : Complete(i) \/ Incomplete(i) => i = Len(received) + 1
<1> DEFINE n == Len(received)
<1>1. /\ n \in Nat /\ Len(ends) \in Nat /\ n <= Len(ends)
      /\ message \in Seq(Nat) /\ Len(message) \in Nat \ {0} /\ Unread = message
      /\ arrived \in Nat
  BY DEF StreamInv, InStep, Unread
<1>2. Consumed = Edge(n) /\ Consumed = arrived - Len(message)
  BY <1>1 DEF InStep, Consumed
<1>3. n # Len(ends)
  <2>1. arrived <= Edge(Len(ends))
    BY DEF StreamInv
  <2>2. n \in 0..Len(ends)
    BY <1>1
  <2>3. Edge(n) \in Nat
    BY <2>2, EdgeType
  <2>4. Edge(n) < arrived
    BY <1>1, <1>2, <2>3
  <2> QED  BY <1>1, <2>1, <2>3, <2>4
<1>4. n + 1 \in Frames
  BY <1>1, <1>3 DEF Frames
<1>5. \A k \in 1..Len(message) : message[k] = Edge(n) + k
  BY <1>1, <1>2 DEF StreamInv
<1>6. /\ Length(n + 1) \in Nat \ {0} /\ Edge(n) \in Nat /\ (n + 1) - 1 = n
  BY <1>1, <1>4, LengthType
<1>7. Complete(n + 1) \/ Incomplete(n + 1)
  BY <1>1, <1>5, <1>6 DEF Complete, Incomplete, Agree
<1>8. ASSUME NEW i \in Frames, Complete(i) \/ Incomplete(i)
      PROVE  i = n + 1
  <2>1. Length(i) \in Nat \ {0} /\ Edge(i - 1) \in Nat
    BY LengthType
  <2>2. message[1] = Edge(i - 1) + 1
    BY <1>1, <1>8, <2>1 DEF Complete, Incomplete, Agree
  <2>3. Edge(i - 1) = Edge(n)
    BY <1>1, <1>5, <1>6, <2>1, <2>2
  <2>4. i - 1 \in 0..Len(ends) /\ n \in 0..Len(ends) /\ i \in Nat
    BY <1>1 DEF Frames
  <2>5. /\ i - 1 < n => Edge(i - 1) + HeaderLength <= Edge(n)
        /\ n < i - 1 => Edge(n) + HeaderLength <= Edge(i - 1)
    BY <2>4 DEF StreamInv
  <2>6. ~(i - 1 < n) /\ ~(n < i - 1)
    BY <1>6, <2>1, <2>3, <2>5
  <2> QED  BY <1>1, <2>4, <2>6
<1> QED  BY <1>4, <1>7, <1>8 DEF Garbled

(* What has been handed on stays: a derailed decoder remains one.          *)
LEMMA DerailedStays ==
  ASSUME StreamInv, Derailed, refused \subseteq refused',
         received' = received \/ \E x \in Nat : received' = Append(received, x)
  PROVE  Derailed'
<1>1. PICK b \in refused : /\ b <= Len(received) + 1
                           /\ \A j \in 1..(b - 1) : received[j] = j
  BY DEF Derailed
<1>2. b \in Nat /\ received \in Seq(Nat)
  BY <1>1 DEF StreamInv, Frames
<1>3. CASE received' = received
  BY <1>1, <1>3 DEF Derailed
<1>4. CASE \E x \in Nat : received' = Append(received, x)
  <2>1. PICK x \in Nat : received' = Append(received, x)
    BY <1>4
  <2>2. /\ Len(received') = Len(received) + 1
        /\ \A j \in 1..Len(received) : received'[j] = received[j]
    BY <1>2, <2>1
  <2>3. b \in refused' /\ b <= Len(received') + 1
    BY <1>1, <1>2, <2>2
  <2>4. ASSUME NEW j \in 1..(b - 1) PROVE received'[j] = j
    <3>1. j \in 1..Len(received) /\ received[j] = j
      BY <1>1, <1>2
    <3> QED  BY <2>2, <3>1
  <2> QED  BY <2>3, <2>4 DEF Derailed
<1> QED  BY <1>3, <1>4

(* Every step only adds to what is refused and to what is handed on.       *)
LEMMA StepAdds ==
  ASSUME StreamInv, Next
  PROVE  /\ refused \subseteq refused'
         /\ received' = received \/ \E x \in Nat : received' = Append(received, x)
<1>1. ASSUME NEW length \in BodyLengths, NEW bad \in BOOLEAN, Send(length, bad)
      PROVE  refused \subseteq refused' /\ received' = received
  BY <1>1 DEF Send
<1>2. ASSUME NEW n \in 1..(Edge(Len(ends)) - arrived), messageReceived(n)
      PROVE  refused' = refused /\ received' = received
  BY <1>2 DEF messageReceived
<1>3. NeedMoreInput => refused' = refused /\ received' = received
  BY DEF NeedMoreInput
<1>4. fireMessageReceived =>
        refused' = refused /\ \E x \in Nat : received' = Append(received, x)
  BY DEF fireMessageReceived, Frames, StreamInv
<1>5. ASSUME NEW k \in 1..Len(message), DecodeGarbled(k)
      PROVE  refused' = refused /\ (received' = received \/ received' = Append(received, 0))
  BY <1>5 DEF DecodeGarbled
<1>6. ASSUME NEW k \in 0..Len(message), DecodeFails(k)
      PROVE  refused' = refused /\ received' = received
  BY <1>6 DEF DecodeFails
<1>7. 0 \in Nat
  OBVIOUS
<1> QED  BY <1>1, <1>2, <1>3, <1>4, <1>5, <1>6, <1>7, Zenon DEF Next

(* A frame sent while the decoder is in step comes after those it read.    *)
LEMMA SendOrder ==
  ASSUME StreamInv, InStep, ~decoding => Waiting,
         NEW length \in BodyLengths, NEW bad \in BOOLEAN, Send(length, bad)
  PROVE  InStep' /\ (~decoding' => Waiting')
<1> DEFINE n == Len(received)
           e == Edge(Len(ends)) + HeaderLength + length
<1>1. n \in Nat /\ Len(ends) \in Nat /\ n <= Len(ends) /\ ends \in Seq(Nat) /\ arrived \in Nat
  BY DEF StreamInv, InStep
<1>2. Edge(Len(ends)) \in Nat /\ arrived <= Edge(Len(ends))
  BY <1>1, EdgeType DEF StreamInv
<1>3. /\ UNCHANGED <<arrived, buffer, message, decoding, received>>
      /\ refused \subseteq refused' /\ refused' \subseteq refused \union {Len(ends) + 1}
      /\ ends' = Append(ends, e)
  BY DEF Send
<1>4. e \in Nat /\ arrived < e
  BY <1>1, <1>2
<1> HIDE DEF e
<1>5. /\ Len(ends') = Len(ends) + 1 /\ ends'[Len(ends) + 1] = e
      /\ \A i \in 1..Len(ends) : ends'[i] = ends[i]
  BY <1>1, <1>3, <1>4
<1>6. Edge(n)' = Edge(n) /\ Consumed' = Consumed
  BY <1>1, <1>3, <1>5 DEF Edge, Consumed, Unread
<1>7. Sound(n)'
  <2>1. ASSUME NEW j \in 1..n PROVE j \notin refused'
    <3>1. j \notin refused /\ j # Len(ends) + 1
      BY <1>1 DEF InStep, Sound
    <3> QED  BY <1>3, <3>1
  <2> QED  BY <1>3, <2>1 DEF Sound
<1>8. InStep'
  BY <1>1, <1>3, <1>5, <1>6, <1>7 DEF InStep
<1>9. ASSUME ~decoding', n + 1 <= Len(ends'), n + 1 \notin refused'
      PROVE  arrived < ends'[n + 1]
  <2>1. CASE n = Len(ends)
    BY <1>4, <1>5, <2>1
  <2>2. CASE n # Len(ends)
    <3>1. n + 1 \in 1..Len(ends) /\ n + 1 \notin refused /\ ~decoding
      BY <1>1, <1>3, <1>9, <2>2
    <3> QED  BY <1>5, <3>1 DEF Waiting
  <2> QED  BY <2>1, <2>2
<1> QED  BY <1>3, <1>8, <1>9 DEF Waiting

(* In step, a step of the loop hands on the next frame, waits for the rest *)
(* of it, or fails at it because it is refused.                            *)
LEMMA LoopOrder ==
  ASSUME StreamInv, InStep,
         \/ NeedMoreInput
         \/ fireMessageReceived
         \/ \E k \in 1..Len(message) : DecodeGarbled(k)
         \/ \E k \in 0..Len(message) : DecodeFails(k)
  PROVE  OrderInv'
<1> DEFINE n == Len(received)
           f == n + 1
<1>1. decoding
  BY DEF NeedMoreInput, fireMessageReceived, DecodeGarbled, DecodeFails
<1>2. /\ f \in Frames /\ ~Garbled
      /\ \A i \in Frames : Complete(i) \/ Incomplete(i) => i = f
  BY <1>1, AtEdge
<1>3. /\ n \in Nat /\ received \in Seq(Nat) /\ Len(ends) \in Nat /\ f <= Len(ends)
      /\ message \in Seq(Nat) /\ Len(message) \in Nat /\ arrived \in Nat
  BY <1>2 DEF StreamInv, Frames
<1>4. /\ Length(f) \in Nat \ {0} /\ Edge(n) \in Nat /\ ends[f] = Edge(f)
      /\ Edge(f) = Edge(n) + Length(f)
  BY <1>2, <1>3, LengthType
<1>5. arrived = Edge(n) + Len(message)
  BY <1>1, <1>3, <1>4 DEF InStep, Consumed, Unread
<1>6. CASE NeedMoreInput
  <2>1. Incomplete(f)
    BY <1>2, <1>6 DEF NeedMoreInput
  <2>2. Rest(0) = message
    BY <1>3 DEF Rest
  <2>3. /\ Keep(Rest(0)) /\ UNCHANGED <<ends, refused, arrived, received>>
        /\ 0 \in 0..Len(message)
    BY <1>3, <1>6, <2>2 DEF NeedMoreInput
  <2>4. Consumed' = Consumed
    <3>1. Consumed' = Consumed + 0
      BY <1>1, <1>3, <2>3, ReadStream
    <3>2. Consumed = Edge(n)
      BY DEF InStep
    <3> QED  BY <1>4, <3>1, <3>2
  <2>5. arrived < ends[f]
    BY <1>3, <1>4, <1>5, <2>1 DEF Incomplete
  <2> QED  BY <2>3, <2>4, <2>5 DEF OrderInv, InStep, Waiting, Sound, Edge
<1>7. CASE fireMessageReceived
  <2>1. /\ f \notin refused /\ Complete(f) /\ Continue(Length(f))
        /\ received' = Append(received, f)
        /\ UNCHANGED <<ends, refused, arrived>>
    BY <1>2, <1>7 DEF fireMessageReceived
  <2>2. Length(f) \in 0..Len(message)
    BY <1>3, <1>4, <2>1 DEF Complete
  <2>3. /\ received' \in Seq(Nat) /\ Len(received') = f /\ received'[f] = f
        /\ \A j \in 1..n : received'[j] = received[j]
    BY <1>3, <2>1
  <2>4. Consumed' = Consumed + Length(f) /\ (~decoding' => Keep(Rest(Length(f))))
    BY <1>1, <2>1, <2>2, <2>3, ReadStream
  <2>5. Consumed' = Edge(Len(received))'
    <3>1. Edge(Len(received))' = Edge(f)
      BY <2>1, <2>3 DEF Edge
    <3>2. Consumed' = Edge(n) + Length(f)
      BY <2>4 DEF InStep
    <3> QED  BY <1>4, <3>1, <3>2
  <2>6. ASSUME NEW j \in 1..f PROVE received'[j] = j
    <3>1. j # f => j \in 1..n /\ received[j] = j
      BY <1>3 DEF InStep
    <3> QED  BY <2>3, <3>1
  <2>7. Sound(Len(received))'
    <3>1. ASSUME NEW j \in 1..f PROVE j \notin refused
      BY <1>3, <2>1 DEF InStep, Sound
    <3> QED  BY <2>1, <2>3, <3>1 DEF Sound
  <2>8. InStep'
    <3>1. Len(received') <= Len(ends')
      BY <1>3, <2>1, <2>3
    <3>2. \A j \in 1..Len(received') : received'[j] = j
      BY <2>3, <2>6
    <3> QED  BY <2>5, <2>7, <3>1, <3>2 DEF InStep
  <2>9. ASSUME ~decoding', f + 1 <= Len(ends) PROVE arrived < ends[f + 1]
    <3>1. Len(message) = Length(f)
      BY <1>1, <1>3, <1>4, <2>1, <2>2, <2>9 DEF Continue
    <3>2. arrived = Edge(f)
      BY <1>4, <1>5, <3>1
    <3>3. f \in 0..Len(ends) /\ f + 1 \in 0..Len(ends) /\ f < f + 1
      BY <1>3, <2>9
    <3>4. Edge(f) + HeaderLength <= Edge(f + 1)
      BY <3>3 DEF StreamInv
    <3>5. Edge(f + 1) \in Nat /\ Edge(f + 1) = ends[f + 1]
      BY <1>3, <3>3, EdgeType DEF Edge
    <3> QED  BY <1>3, <3>2, <3>4, <3>5
  <2> QED  BY <2>1, <2>3, <2>8, <2>9 DEF OrderInv, Waiting
<1>8. CASE \E k \in 0..Len(message) : DecodeFails(k)
  <2>1. f \in refused /\ UNCHANGED <<refused, received>>
    BY <1>2, <1>8 DEF DecodeFails, Refuses
  <2>2. f <= n + 1 /\ \A j \in 1..(f - 1) : received[j] = j
    BY <1>3 DEF InStep
  <2> QED  BY <2>1, <2>2 DEF OrderInv, Derailed
<1>9. ~\E k \in 1..Len(message) : DecodeGarbled(k)
  BY <1>2 DEF DecodeGarbled
<1> QED  BY <1>6, <1>7, <1>8, <1>9

(* OrderInv holds of every reachable state.                                *)
LEMMA OrderInvariant == Spec => []OrderInv
<1>1. Init => OrderInv
  <2> SUFFICES ASSUME Init PROVE OrderInv
    OBVIOUS
  <2>1. Len(received) = 0 /\ Len(ends) = 0
    BY DEF Init
  <2>2. Consumed = 0
    <3>1. Unread = <<>> /\ arrived = 0
      BY DEF Init, Unread
    <3>2. Len(Unread) = 0
      BY <3>1
    <3>3. Consumed = 0 - 0
      BY <3>1, <3>2, Zenon DEF Consumed
    <3> QED  BY <3>3
  <2>3. Edge(Len(received)) = 0 /\ \A j \in 1..Len(received) : FALSE
    BY <2>1 DEF Edge
  <2>4. Len(received) <= Len(ends) /\ Sound(Len(received))
    BY <2>1, <2>3 DEF Sound
  <2>5. InStep
    BY <2>2, <2>3, <2>4 DEF InStep
  <2>6. Waiting
    BY <2>1 DEF Waiting
  <2> QED  BY <2>5, <2>6 DEF OrderInv
<1>2. StreamInv /\ OrderInv /\ [Next]_vars => OrderInv'
  <2> SUFFICES ASSUME StreamInv, OrderInv, [Next]_vars PROVE OrderInv'
    OBVIOUS
  <2>1. CASE UNCHANGED vars
    BY <2>1 DEF vars, OrderInv, Derailed, InStep, Waiting, Consumed, Unread, Edge, Sound
  <2>2. CASE Next /\ Derailed
    BY <2>2, StepAdds, DerailedStays DEF OrderInv
  <2>3. CASE Next /\ InStep /\ (~decoding => Waiting)
    <3>1. ASSUME NEW length \in BodyLengths, NEW bad \in BOOLEAN, Send(length, bad)
          PROVE  OrderInv'
      BY <2>3, <3>1, SendOrder DEF OrderInv
    <3>2. ASSUME NEW k \in 1..(Edge(Len(ends)) - arrived), messageReceived(k)
          PROVE  OrderInv'
      <4>1. Consumed' = Consumed /\ decoding' = TRUE /\ UNCHANGED <<ends, refused, received>>
        BY <3>2, ChunkStream DEF messageReceived
      <4> QED  BY <2>3, <4>1 DEF OrderInv, InStep, Sound, Edge
    <3> QED  BY <2>3, <3>1, <3>2, LoopOrder DEF Next
  <2> QED  BY <2>1, <2>2, <2>3 DEF OrderInv
<1> QED  BY <1>1, <1>2, StreamInvariant, PTL DEF Spec

(* The frames before the first refused one are handed on in their order,   *)
(* once each, however TCP cuts the stream.                                 *)
THEOREM FramesAreInOrder == Spec => []FramesInOrder
<1>1. StreamInv /\ OrderInv => FramesInOrder
  <2> SUFFICES ASSUME StreamInv, OrderInv, NEW j \in DOMAIN received, Sound(j)
               PROVE  received[j] = j
    BY DEF FramesInOrder
  <2>1. j \in 1..Len(received) /\ Len(received) \in Nat
    BY DEF StreamInv
  <2>2. CASE InStep
    BY <2>1, <2>2 DEF InStep
  <2>3. CASE Derailed
    <3>1. PICK b \in refused : \A i \in 1..(b - 1) : received[i] = i
      BY <2>3 DEF Derailed
    <3>2. b \in Nat \ {0}
      BY DEF StreamInv, Frames
    <3>3. ~(b <= j)
      BY <2>1, <3>2 DEF Sound
    <3> QED  BY <2>1, <3>1, <3>2, <3>3
  <2> QED  BY <2>2, <2>3 DEF OrderInv
<1> QED  BY <1>1, StreamInvariant, OrderInvariant, PTL

(* Between two calls no complete frame waits in the buffer.                *)
THEOREM NoFrameIsWithheld == Spec => []NothingWithheld
<1>1. StreamInv /\ OrderInv => NothingWithheld
  <2> SUFFICES ASSUME StreamInv, OrderInv, ~decoding, NEW i \in Frames,
                      Sound(i), ends[i] <= arrived
               PROVE  i <= Len(received)
    BY DEF NothingWithheld
  <2>1. /\ i \in Nat \ {0} /\ i <= Len(ends) /\ Len(ends) \in Nat
        /\ Len(received) \in Nat /\ arrived \in Nat
    BY DEF StreamInv, Frames
  <2>2. CASE Derailed
    <3>1. PICK b \in refused : b <= Len(received) + 1
      BY <2>2 DEF Derailed
    <3>2. b \in Nat \ {0}
      BY DEF StreamInv, Frames
    <3>3. ~(b <= i)
      BY <2>1, <3>2 DEF Sound
    <3> QED  BY <2>1, <3>1, <3>2, <3>3
  <2>3. CASE InStep /\ Waiting
    <3> DEFINE f == Len(received) + 1
    <3> SUFFICES ASSUME f <= i PROVE FALSE
      BY <2>1
    <3>1. f \in 1..i /\ f \in 0..Len(ends) /\ i \in 0..Len(ends)
      BY <2>1
    <3>2. arrived < ends[f]
      BY <2>1, <2>3, <3>1 DEF Sound, Waiting
    <3>3. ends[f] = Edge(f) /\ ends[i] = Edge(i) /\ Edge(f) \in Nat /\ Edge(i) \in Nat
      BY <2>1, <3>1, EdgeType DEF Edge
    <3>4. f < i => Edge(f) + HeaderLength <= Edge(i)
      BY <3>1 DEF StreamInv
    <3> QED  BY <2>1, <3>1, <3>2, <3>3, <3>4
  <2> QED  BY <2>2, <2>3 DEF OrderInv
<1> QED  BY <1>1, StreamInvariant, OrderInvariant, PTL

=============================================================================
