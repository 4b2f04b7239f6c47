------------------------------- MODULE Decoder ------------------------------
(***************************************************************************)
(* TransportClient.InternalDecoder: the frames a provider sends on one     *)
(* connection, cut into chunks by TCP, and put together again for          *)
(* SendReceiveHandler.  All of it runs on the connection's I/O thread, but *)
(* each message that is handed on may wake an HTTP thread: one step of the *)
(* model is one round of the loop.                                         *)
(*                                                                         *)
(* A byte is its position in the stream.  Frame i has the bytes after      *)
(* Edge(i - 1) up to ends[i].  The codec (Dubbo's, external) refuses some  *)
(* frames as soon as it has their header; once it has lost the frames'     *)
(* edges it may do anything.                                               *)
(***************************************************************************)
EXTENDS Integers, Sequences

CONSTANTS
  HeaderLength,   \* length of a frame's header
  BodyLengths,    \* lengths of the bodies that providers send
  MaxFrames       \* bound: the frames sent on the connection

ASSUME LengthAssumption == HeaderLength \in Nat \ {0} /\ BodyLengths \subseteq Nat
ASSUME FramesAssumption == MaxFrames \in Nat

VARIABLES
  ends,      \* the last byte of each frame sent
  refused,   \* the frames that the codec refuses
  arrived,   \* the number of bytes that have arrived
  buffer,    \* InternalDecoder.buffer, from its reader index on
  message,   \* the local message, from its reader index on
  decoding,  \* whether messageReceived is in its loop
  received   \* what was passed upstream: frames, and 0 for anything else

vars == <<ends, refused, arrived, buffer, message, decoding, received>>

Edge(i) == IF i = 0 THEN 0 ELSE ends[i]
Frames == 1..Len(ends)

Init == /\ ends = <<>>
        /\ refused = {}
        /\ arrived = 0
        /\ buffer = <<>>
        /\ message = <<>>
        /\ decoding = FALSE
        /\ received = <<>>

-----------------------------------------------------------------------------
(* The provider and the codec (external)                                   *)

Send(length, bad) == /\ Len(ends) < MaxFrames
                     /\ ends' = Append(ends, Edge(Len(ends)) + HeaderLength + length)
                     /\ refused' = IF bad THEN refused \union {Len(ends) + 1} ELSE refused
                     /\ UNCHANGED <<arrived, buffer, message, decoding, received>>

Length(i) == ends[i] - Edge(i - 1)

(* Frame i and the message agree on their first n bytes.                   *)
Agree(i, n) == \A k \in 1..n : message[k] = Edge(i - 1) + k

Complete(i) == Length(i) <= Len(message) /\ Agree(i, Length(i))
Incomplete(i) == Len(message) < Length(i) /\ Agree(i, Len(message))

(* A frame that the codec refuses, with its header there.                  *)
Refuses(i) == /\ i \in refused
              /\ Complete(i) \/ Incomplete(i)
              /\ HeaderLength <= Len(message)

(* The message does not begin where a frame does.                          *)
Garbled == \A i \in Frames : ~Complete(i) /\ ~Incomplete(i)

-----------------------------------------------------------------------------
(* messageReceived                                                         *)

Chunk(n) == [k \in 1..n |-> arrived + k]

(* Mutant of messageReceived: what was left over is appended.              *)
AppendBuffer(n) == /\ ~decoding
                   /\ arrived + n <= Edge(Len(ends))
                   /\ arrived' = arrived + n
                   /\ message' = Chunk(n) \o buffer
                   /\ decoding' = TRUE
                   /\ UNCHANGED <<ends, refused, buffer, received>>

(* Up to the loop: the three ways to make the message from what was left   *)
(* over and the input have the same contents.                              *)
messageReceived(n) == /\ ~decoding
                      /\ arrived + n <= Edge(Len(ends))
                      /\ arrived' = arrived + n
                      /\ message' = buffer \o Chunk(n)
                      /\ decoding' = TRUE
                      /\ UNCHANGED <<ends, refused, buffer, received>>

(* The finally: the unread rest is kept, and it is the end of the call.    *)
Keep(rest) == /\ buffer' = rest
              /\ message' = <<>>
              /\ decoding' = FALSE

(* NEED_MORE_INPUT: the reader index is put back.                          *)
NeedMoreInput == /\ decoding
                 /\ Garbled \/ \E i \in Frames : Incomplete(i) /\ ~Refuses(i)
                 /\ Keep(message)
                 /\ UNCHANGED <<ends, refused, arrived, received>>

Rest(k) == SubSeq(message, k + 1, Len(message))

(* Mutants of Continue: the loop runs once, and it runs for ever.          *)
Once(k) == Keep(Rest(k))

Forever(k) == /\ message' = Rest(k)
              /\ UNCHANGED <<buffer, decoding>>

(* while (message.readable()).                                             *)
Continue(k) == IF k = Len(message) THEN Keep(<<>>)
               ELSE /\ message' = Rest(k)
                    /\ UNCHANGED <<buffer, decoding>>

(* A frame is decoded and handed to NettyHandler.                          *)
fireMessageReceived == /\ decoding
                       /\ \E i \in Frames \ refused :
                            /\ Complete(i)
                            /\ received' = Append(received, i)
                            /\ Continue(Length(i))
                       /\ UNCHANGED <<ends, refused, arrived>>

(* The codec reads k bytes of what is no frame, and makes something of     *)
(* them, or null.                                                          *)
DecodeGarbled(k) == /\ decoding /\ Garbled
                    /\ received' \in {received, Append(received, 0)}
                    /\ Continue(k)
                    /\ UNCHANGED <<ends, refused, arrived>>

(* The codec throws, having read k bytes, or has read none: buffer is set  *)
(* to EMPTY_BUFFER, but the finally sets it again to what is unread.       *)
DecodeFails(k) == /\ decoding
                  /\ Garbled \/ \E i \in Frames : Refuses(i)
                  /\ Keep(Rest(k))
                  /\ UNCHANGED <<ends, refused, arrived, received>>

-----------------------------------------------------------------------------

Next == \/ \E length \in BodyLengths, bad \in BOOLEAN : Send(length, bad)
        \/ \E n \in 1..(Edge(Len(ends)) - arrived) : messageReceived(n)
        \/ NeedMoreInput
        \/ fireMessageReceived
        \/ \E k \in 1..Len(message) : DecodeGarbled(k)
        \/ \E k \in 0..Len(message) : DecodeFails(k)

Spec == Init /\ [][Next]_vars

-----------------------------------------------------------------------------
(* Properties                                                              *)

(* The values the variables can have; the loop always has a byte to read.  *)
TypeOK == /\ ends \in Seq(Nat) /\ Len(ends) <= MaxFrames
          /\ refused \subseteq Frames
          /\ arrived \in 0..Edge(Len(ends))
          /\ buffer \in Seq(Nat) /\ message \in Seq(Nat)
          /\ decoding \in BOOLEAN /\ (decoding <=> message # <<>>)
          /\ received \in Seq(Nat)

(* No frame up to the i-th is one that the codec refuses.                  *)
Sound(i) == \A j \in 1..i : j \notin refused

(* However TCP cuts the stream, the frames before the first refused one    *)
(* are handed on in the order they were sent, each of them once and        *)
(* nothing else among them.                                                *)
FramesInOrder == \A j \in DOMAIN received : Sound(j) => received[j] = j

(* When messageReceived has returned, no frame that has arrived in full    *)
(* waits in the buffer for a chunk that may never come.                    *)
NothingWithheld == ~decoding => \A i \in Frames :
                     Sound(i) /\ ends[i] <= arrived => i <= Len(received)

=============================================================================
