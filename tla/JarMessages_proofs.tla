------------------------- MODULE JarMessages_proofs -------------------------
(***************************************************************************)
(* Proofs about JarMessages: its type, for any number of polls and faults; *)
(* which fault loses which lines; that the console of a page with one poll *)
(* at a time goes forward, whatever fails; and that, until polls overlap   *)
(* or something fails, the list is never emptied and never without an      *)
(* expiry, the page shows maven's lines without a gap, and a page that is  *)
(* told COMPLETE after StreamHandler has come to its end shows all.        *)
(***************************************************************************)
EXTENDS JarMessages, TLAPS

-----------------------------------------------------------------------------
(* Sequences                                                               *)

(* Head and tail of a sequence that is not empty.                          *)
LEMMA HeadTail ==
  ASSUME NEW S, NEW q \in Seq(S), q # <<>>
  PROVE  /\ Head(q) \in S
         /\ Tail(q) \in Seq(S)
         /\ Len(Tail(q)) = Len(q) - 1
         /\ Len(q) \in Nat \ {0}
  OBVIOUS

(* A longer sequence.                                                      *)
LEMMA Appended ==
  ASSUME NEW S, NEW q \in Seq(S), NEW e \in S
  PROVE  /\ Append(q, e) \in Seq(S)
         /\ Len(Append(q, e)) = Len(q) + 1
         /\ Append(q, e) # <<>>
         /\ \A i \in DOMAIN Append(q, e) : Append(q, e)[i] = e \/ \E k \in DOMAIN q : Append(q, e)[i] = q[k]
  OBVIOUS

(* Two sequences, one after the other.                                     *)
LEMMA Joined ==
  ASSUME NEW S, NEW q \in Seq(S), NEW r \in Seq(S)
  PROVE  /\ q \o r \in Seq(S)
         /\ \A i \in DOMAIN (q \o r) : \/ \E k \in DOMAIN q : (q \o r)[i] = q[k]
                                       \/ \E k \in DOMAIN r : (q \o r)[i] = r[k]
<1>1. q \o r \in Seq(S) /\ Len(q \o r) = Len(q) + Len(r)
  OBVIOUS
<1>2. ASSUME NEW i \in DOMAIN (q \o r)
      PROVE  \/ \E k \in DOMAIN q : (q \o r)[i] = q[k]
             \/ \E k \in DOMAIN r : (q \o r)[i] = r[k]
  <2>1. i \in 1 .. Len(q) + Len(r) /\ Len(q) \in Nat /\ Len(r) \in Nat
    BY <1>1
  <2>2. CASE i <= Len(q)
    BY <2>1, <2>2
  <2>3. CASE i > Len(q)
    <3>1. i - Len(q) \in DOMAIN r /\ (q \o r)[i] = r[i - Len(q)]
      BY <2>1, <2>3
    <3> QED  BY <3>1
  <2> QED  BY <2>1, <2>2, <2>3
<1> QED  BY <1>1, <1>2

-----------------------------------------------------------------------------
(* The type                                                                *)

(* TypeOK with what makes it inductive: a pipe holds lines that have been  *)
(* written to it.                                                          *)
TypeInv == TypeOK /\ \A s \in Streams : pipe[s] <= written[s]

(* Of the history, a step adds one fault or none, and an overlap stays.    *)
LEMMA HistoryStep ==
  ASSUME TypeOK, [Next]_vars
  PROVE  /\ Works \/ Fault
         /\ faults' \in 0 .. MaxFaults
         /\ overlapped' \in BOOLEAN
         /\ overlapped => overlapped'
<1>1. CASE \E p \in Polls : HttpThread(p)
  <2>1. PICK p \in Polls : HttpThread(p)
    BY <1>1
  <2>2. Works \/ Fault
    BY <2>1 DEF HttpThread, Ask, lGet, lGetListSize, lPop, ShowRunning, ShowComplete, ShowFailure, Works
  <2>3. overlapped' = overlapped \/ Ask(p)
    BY <2>1 DEF HttpThread, lGet, lGetListSize, lPop, ShowRunning, ShowComplete, ShowFailure
  <2>4. overlapped' \in BOOLEAN /\ (overlapped => overlapped')
    BY <2>3 DEF Ask, TypeOK
  <2> QED  BY <2>2, <2>4, BoundsAssumption DEF Works, Fault, TypeOK
<1>2. CASE ~\E p \in Polls : HttpThread(p)
  <2>1. Works \/ Fault
    BY <1>2 DEF Next, ProcessClient, putFlag, StartProcess, ExecFails, StopWaiting, Maven, CallsWrite,
           Writes, Exits, StreamHandler, PushBlank, expire, putToRedis, rPush, EndOfStream,
           FlagExpires, OthersFlag, MessagesExpire, vars, Works
  <2>2. overlapped' = overlapped
    BY <1>2 DEF Next, ProcessClient, putFlag, StartProcess, ExecFails, StopWaiting, Maven, CallsWrite,
           Writes, Exits, StreamHandler, PushBlank, expire, putToRedis, EndOfStream, FlagExpires,
           OthersFlag, MessagesExpire, vars
  <2> QED  BY <2>1, <2>2, BoundsAssumption DEF Works, Fault, TypeOK
<1> QED  BY <1>1, <1>2

(* Where nothing has failed after a step, nothing had before it, and the   *)
(* step itself has not.                                                    *)
LEMMA Undisturbed ==
  ASSUME TypeOK, [Next]_vars, ~disturbed'
  PROVE  ~disturbed /\ ~overlapped' /\ Works /\ ~Fault /\ ~MessagesExpire
<1>1. Works \/ Fault
  BY HistoryStep
<1>2. ~overlapped /\ ~overlapped' /\ ~(faults' > 0) /\ faults \in Nat
  BY HistoryStep, BoundsAssumption DEF disturbed, TypeOK
<1>3. ~Fault
  BY <1>2 DEF Fault
<1> QED  BY <1>1, <1>2, <1>3 DEF Works, disturbed, MessagesExpire

(* A line that is read from a pipe is one of maven's.                      *)
LEMMA ReadLineType ==
  ASSUME TypeInv, NEW s \in Streams, pipe[s] > 0
  PROVE  Line(s, written[s] - pipe[s] + 1) \in Lines
<1>1. written[s] \in Nat /\ pipe[s] \in Nat /\ pipe[s] <= written[s]
  BY BoundsAssumption DEF TypeInv, TypeOK
<1>2. written[s] - pipe[s] + 1 \in Nat \ {0}
  BY <1>1
<1> QED  BY <1>2 DEF Lines, Line

(* A message is a text the page may show.                                  *)
LEMMA MessagesAreTexts == Seq(Messages) \subseteq Seq(Texts)
<1>1. Messages \subseteq Texts
  BY DEF Texts
<1> QED  BY <1>1

(* A step of ProcessClient keeps the type.                                 *)
LEMMA ProcessClientType ==
  ASSUME TypeInv, ProcessClient
  PROVE  TypeInv'
<1>1. faults' \in 0 .. MaxFaults /\ overlapped' \in BOOLEAN
  BY HistoryStep DEF Next, TypeInv
<1>2. /\ flag' \in BOOLEAN
      /\ UNCHANGED <<written, pipe, message, ttl, poll, page, shown>>
      /\ client' \in {"flagged", "waiting", "over"}
      /\ maven' \in {maven, "computing"}
      /\ handler' \in {handler, "submitted"}
  BY DEF ProcessClient, putFlag, StartProcess, ExecFails, StopWaiting, TypeInv, TypeOK
<1> QED  BY <1>1, <1>2 DEF TypeInv, TypeOK

(* A step of maven keeps the type.                                         *)
LEMMA MavenType ==
  ASSUME TypeInv, Maven
  PROVE  TypeInv'
<1> USE DEF TypeInv, TypeOK
<1>1. ASSUME NEW s \in Streams, CallsWrite(s) PROVE TypeInv'
  BY <1>1 DEF CallsWrite
<1>2. ASSUME NEW s \in Streams, Writes(s) PROVE TypeInv'
  <2>1. /\ written' \in [Streams -> Nat]
        /\ pipe' \in [Streams -> 0 .. PipeSize]
        /\ \A r \in Streams : pipe'[r] <= written'[r]
    BY <1>2, BoundsAssumption DEF Writes
  <2> QED  BY <1>2, <2>1 DEF Writes
<1>3. CASE Exits
  BY <1>3 DEF Exits
<1> QED  BY <1>1, <1>2, <1>3 DEF Maven

(* What may become of the list when a message is pushed.                   *)
LEMMA PushType ==
  ASSUME TypeOK, NEW m \in Messages, rPush(m)
  PROVE  message' \in Seq(Messages) /\ (message' = message \/ message' = Append(message, m))
<1>1. message' = message \/ message' = Append(message, m)
  BY DEF rPush
<1>2. message \in Seq(Messages) /\ Append(message, m) \in Seq(Messages)
  BY Appended DEF TypeOK
<1> QED  BY <1>1, <1>2

(* A step of StreamHandler keeps the type.                                 *)
LEMMA StreamHandlerType ==
  ASSUME TypeInv, StreamHandler
  PROVE  TypeInv'
<1> USE DEF TypeInv, TypeOK
<1>0. faults' \in 0 .. MaxFaults /\ overlapped' \in BOOLEAN
  BY HistoryStep DEF Next
<1>1. CASE PushBlank
  <2>1. message' \in Seq(Messages)
    <3>1. Blank \in Messages /\ rPush(Blank)
      BY <1>1 DEF PushBlank, Messages
    <3> QED  BY <3>1, PushType
  <2> QED  BY <1>0, <1>1, <2>1 DEF PushBlank
<1>2. CASE expire
  <2>1. ttl' \in BOOLEAN
    BY <1>2 DEF expire
  <2> QED  BY <1>0, <1>2, <2>1 DEF expire, Streams
<1>3. ASSUME NEW s \in Streams, putToRedis(s) PROVE TypeInv'
  <2>1. Line(s, written[s] - pipe[s] + 1) \in Messages
    BY <1>3, ReadLineType DEF putToRedis, Messages
  <2>2. message' \in Seq(Messages)
    BY <1>3, <2>1, PushType DEF putToRedis
  <2>3. /\ pipe' \in [Streams -> 0 .. PipeSize]
        /\ \A r \in Streams : pipe'[r] <= written[r]
    BY <1>3, BoundsAssumption DEF putToRedis
  <2> QED  BY <1>0, <1>3, <2>2, <2>3 DEF putToRedis
<1>4. ASSUME NEW s \in Streams, EndOfStream(s) PROVE TypeInv'
  BY <1>4 DEF EndOfStream, Streams
<1> QED  BY <1>1, <1>2, <1>3, <1>4 DEF StreamHandler

(* A poll that is where it can be, after a step of it.                     *)
LEMMA PollMoves ==
  ASSUME TypeOK, NEW p \in Polls, NEW owes \in Nat, NEW got \in Seq(Texts),
         NEW at \in {"idle", "running", "complete", "COMPLETE", "failed", "popping"}
  PROVE  [poll EXCEPT ![p] = Poll(at, owes, got)] \in [Polls -> PollType]
<1>1. Poll(at, owes, got) \in PollType
  BY DEF Poll, PollType
<1> QED  BY <1>1 DEF TypeOK

(* A step of a poll keeps the type.                                        *)
LEMMA HttpThreadType ==
  ASSUME TypeInv, NEW p \in Polls, HttpThread(p)
  PROVE  TypeInv'
<1>0. /\ TypeOK /\ poll[p] \in PollType /\ <<>> \in Seq(Texts)
      /\ faults' \in 0 .. MaxFaults /\ overlapped' \in BOOLEAN
  BY HistoryStep DEF Next, TypeInv, TypeOK
<1>1. CASE Ask(p)
  <2>1. poll' \in [Polls -> PollType]
    <3>1. PICK at \in {"running", "complete"} : poll' = [poll EXCEPT ![p] = Poll(at, 0, <<>>)]
      BY <1>1 DEF Ask
    <3> QED  BY <1>0, <3>1, PollMoves
  <2> QED  BY <1>0, <1>1, <2>1 DEF Ask, TypeInv, TypeOK
<1>2. CASE lGet(p)
  <2>1. message \in Seq(Texts)
    BY <1>0, MessagesAreTexts DEF TypeOK
  <2>2. poll' \in [Polls -> PollType]
    <3>1. \/ poll' = [poll EXCEPT ![p] = Poll("COMPLETE", 0, message)]
          \/ poll' = [poll EXCEPT ![p] = Poll("failed", 0, <<>>)]
      BY <1>2 DEF lGet
    <3>2. /\ [poll EXCEPT ![p] = Poll("COMPLETE", 0, message)] \in [Polls -> PollType]
          /\ [poll EXCEPT ![p] = Poll("failed", 0, <<>>)] \in [Polls -> PollType]
      BY <1>0, <2>1, PollMoves
    <3> QED  BY <3>1, <3>2
  <2> QED  BY <1>0, <1>2, <2>2 DEF lGet, TypeInv, TypeOK
<1>3. CASE lGetListSize(p)
  <2>1. Pops(Len(message)) \in Nat /\ Pops(0) \in Nat
    BY <1>0 DEF Pops, TypeOK
  <2>2. poll' \in [Polls -> PollType]
    <3>1. PICK size \in {Len(message), 0} : poll' = [poll EXCEPT ![p] = Poll("popping", Pops(size), <<>>)]
      BY <1>3 DEF lGetListSize
    <3>2. Pops(size) \in Nat
      BY <2>1
    <3> QED  BY <1>0, <3>1, <3>2, PollMoves
  <2> QED  BY <1>0, <1>3, <2>2 DEF lGetListSize, TypeInv, TypeOK
<1>4. CASE lPop(p)
  <2>0. poll[p].owes \in Nat /\ poll[p].got \in Seq(Texts) /\ poll[p].owes > 0
    BY <1>0, <1>4 DEF PollType, lPop, TakeHead
  <2>1. poll[p].owes - 1 \in Nat
    BY <2>0
  <2>2. ASSUME NEW text \in Texts, Receives(p, text) PROVE poll' \in [Polls -> PollType]
    <3>1. Append(poll[p].got, text) \in Seq(Texts)
      BY <2>0
    <3> QED  BY <1>0, <2>1, <2>2, <3>1, PollMoves DEF Receives
  <2>3. TakeHead => /\ Head(message) \in Texts
                    /\ message' \in Seq(Messages) /\ ttl' \in BOOLEAN
    <3>1. message # <<>> => Head(message) \in Messages /\ Tail(message) \in Seq(Messages)
      BY <1>0, HeadTail DEF TypeOK
    <3> QED  BY <3>1 DEF TakeHead, Texts
  <2>4. poll' \in [Polls -> PollType]
    <3>1. Null \in Texts
      BY DEF Texts
    <3>2. Receives(p, Null) \/ (TakeHead /\ Receives(p, Head(message)))
      BY <1>4 DEF lPop
    <3> QED  BY <2>2, <2>3, <3>1, <3>2
  <2>5. message' \in Seq(Messages) /\ ttl' \in BOOLEAN
    <3>1. TakeHead \/ UNCHANGED <<message, ttl>>
      BY <1>4 DEF lPop
    <3> QED  BY <1>0, <2>3, <3>1 DEF TypeOK
  <2> QED  BY <1>0, <1>4, <2>4, <2>5 DEF lPop, TypeInv, TypeOK
<1>5. CASE ShowRunning(p) \/ ShowComplete(p)
  <2>1. poll[p].got \in Seq(Texts) /\ shown \in Seq(Texts)
    BY <1>0 DEF PollType, TypeOK
  <2>2. shown \o poll[p].got \in Seq(Texts)
    BY <2>1, Joined
  <2>3. [poll EXCEPT ![p] = Idle] \in [Polls -> PollType]
    BY <1>0, PollMoves DEF Idle
  <2>4. /\ shown' = shown \o poll[p].got
        /\ poll' = [poll EXCEPT ![p] = Idle]
        /\ page' \in {page, "stopped"}
        /\ UNCHANGED <<flag, client, maven, written, pipe, handler, message, ttl>>
    BY <1>5 DEF ShowRunning, ShowComplete
  <2> QED  BY <1>0, <2>2, <2>3, <2>4 DEF TypeInv, TypeOK
<1>6. CASE ShowFailure(p)
  <2>1. [poll EXCEPT ![p] = Idle] \in [Polls -> PollType]
    BY <1>0, PollMoves DEF Idle
  <2> QED  BY <1>0, <1>6, <2>1 DEF ShowFailure, TypeInv, TypeOK
<1> QED  BY <1>1, <1>2, <1>3, <1>4, <1>5, <1>6 DEF HttpThread

(* The inductive type invariant of every reachable state.                  *)
LEMMA TypeInvariant == Spec => []TypeInv
<1>1. Init => TypeInv
  <2> SUFFICES ASSUME Init PROVE TypeInv
    OBVIOUS
  <2>1. <<>> \in Seq(Messages) /\ <<>> \in Seq(Texts)
    OBVIOUS
  <2>2. Idle \in PollType
    BY <2>1 DEF Idle, Poll, PollType
  <2>3. /\ written \in [Streams -> Nat]
        /\ pipe \in [Streams -> 0 .. PipeSize]
        /\ \A s \in Streams : pipe[s] <= written[s]
    BY BoundsAssumption DEF Init
  <2>4. poll \in [Polls -> PollType]
    BY <2>2 DEF Init
  <2>5. message \in Seq(Messages) /\ ttl \in BOOLEAN
    <3>1. Old \in Messages
      BY DEF Messages
    <3>2. <<Old>> \in Seq(Messages)
      BY <3>1
    <3>3. message = <<>> \/ message = <<Old>>
      BY DEF Init
    <3>4. ttl \in BOOLEAN
      BY DEF Init
    <3> QED  BY <2>1, <3>2, <3>3, <3>4
  <2>6. faults \in 0 .. MaxFaults
    BY BoundsAssumption DEF Init
  <2>7. overlapped \in BOOLEAN
    BY DEF Init
  <2> QED  BY <2>1, <2>3, <2>4, <2>5, <2>6, <2>7 DEF Init, TypeInv, TypeOK
<1>2. TypeInv /\ [Next]_vars => TypeInv'
  <2> SUFFICES ASSUME TypeInv, [Next]_vars PROVE TypeInv'
    OBVIOUS
  <2>1. CASE FlagExpires \/ OthersFlag
    <3>1. flag' \in BOOLEAN
      BY <2>1 DEF FlagExpires, OthersFlag
    <3>2. UNCHANGED <<client, maven, written, pipe, handler, message, ttl, poll, page, shown, overlapped, faults>>
      BY <2>1 DEF FlagExpires, OthersFlag
    <3> QED  BY <3>1, <3>2 DEF TypeInv, TypeOK
  <2>2. CASE MessagesExpire
    <3>1. <<>> \in Seq(Messages)
      OBVIOUS
    <3>2. faults' \in 0 .. MaxFaults
      BY HistoryStep DEF TypeInv
    <3> QED  BY <2>2, <3>1, <3>2 DEF TypeInv, TypeOK, MessagesExpire
  <2>3. CASE UNCHANGED vars
    BY <2>3 DEF TypeInv, TypeOK, vars
  <2> QED  BY <2>1, <2>2, <2>3, ProcessClientType, MavenType, StreamHandlerType, HttpThreadType DEF Next
<1> QED  BY <1>1, <1>2, PTL DEF Spec

(* Every reachable state of the message list, the pipes and the polls has  *)
(* its type, for any number of polls and of lines.                         *)
THEOREM TypeCorrect == Spec => []TypeOK
<1>1. TypeInv => TypeOK
  BY DEF TypeInv
<1> QED  BY <1>1, TypeInvariant, PTL

-----------------------------------------------------------------------------
(* The list of messages                                                    *)

NullFree(s) == \A i \in DOMAIN s : s[i] # Null

(* One poll at a time.                                                     *)
Alone == \A p, q \in Polls : poll[p].at # "idle" /\ poll[q].at # "idle" => p = q

(* ListLives with what makes it inductive: the list is there from the      *)
(* blank line on, the poll under way owes fewer pops than the list has     *)
(* lines, and no poll has been given null.                                 *)
ListInv ==
  /\ handler \in {"opened", "over"} \union Streams => message # <<>>
  /\ Opened => ttl
  /\ NullFree(shown)
  /\ \A p \in Polls : /\ poll[p].owes > 0 => poll[p].owes < Len(message)
                      /\ poll[p].at = "idle" => poll[p].owes = 0
                      /\ poll[p].at # "failed"
                      /\ NullFree(poll[p].got)
  /\ Alone

(* A message is never null.                                                *)
LEMMA MessageNotNull ==
  ASSUME NEW m \in Messages
  PROVE  m # Null
  BY DEF Messages, Lines, Streams, Blank, Old, Null, Line

(* A list of messages holds no null.                                       *)
LEMMA MessagesNullFree ==
  ASSUME NEW q \in Seq(Messages)
  PROVE  NullFree(q)
<1>1. ASSUME NEW i \in DOMAIN q PROVE q[i] \in Messages
  BY <1>1
<1> QED  BY <1>1, MessageNotNull DEF NullFree

(* What adds a message to the list keeps ListInv's claims about it.        *)
LEMMA PushKeepsList ==
  ASSUME TypeInv, ListInv, NEW m \in Messages, rPush(m), ~Fault, UNCHANGED <<poll, shown>>,
         Opened' => ttl'
  PROVE  ListInv'
<1>1. message \in Seq(Messages) /\ \A p \in Polls : poll[p].owes \in Nat
  BY DEF TypeInv, TypeOK, PollType
<1>2. message' # <<>> /\ Len(message') = Len(message) + 1
  BY <1>1, Appended DEF rPush
<1>3. ASSUME NEW p \in Polls, poll'[p].owes > 0 PROVE poll'[p].owes < Len(message')
  <2>1. poll[p].owes < Len(message) /\ Len(message) \in Nat
    BY <1>1, <1>3 DEF ListInv
  <2> QED  BY <1>1, <1>2, <2>1
<1> QED  BY <1>2, <1>3 DEF ListInv, NullFree, Alone

(* StreamHandler keeps the list.                                           *)
LEMMA StreamHandlerList ==
  ASSUME TypeInv, ListInv, StreamHandler, ~Fault
  PROVE  ListInv'
<1>1. CASE PushBlank
  <2>1. Blank \in Messages
    BY DEF Messages
  <2>2. rPush(Blank) /\ handler' = "opened" /\ UNCHANGED <<poll, shown>>
    BY <1>1 DEF PushBlank
  <2>3. ~Opened'
    BY <2>2 DEF Opened, Streams
  <2> QED  BY <2>1, <2>2, <2>3, PushKeepsList
<1>2. CASE expire
  <2>1. message # <<>>
    BY <1>2 DEF expire, ListInv
  <2> QED  BY <1>2, <2>1 DEF expire, ListInv, Opened, NullFree, Alone
<1>3. ASSUME NEW s \in Streams, putToRedis(s) PROVE ListInv'
  <2>1. Line(s, written[s] - pipe[s] + 1) \in Messages
    BY <1>3, ReadLineType DEF putToRedis, Messages
  <2>2. ttl
    BY <1>3 DEF putToRedis, ListInv, Opened
  <2>3. rPush(Line(s, written[s] - pipe[s] + 1)) /\ UNCHANGED <<poll, shown, ttl>>
    BY <1>3 DEF putToRedis
  <2> QED  BY <2>1, <2>2, <2>3, PushKeepsList
<1>4. ASSUME NEW s \in Streams, EndOfStream(s) PROVE ListInv'
  <2>1. ttl /\ message # <<>> /\ UNCHANGED <<ttl, message, poll, shown>>
    BY <1>4 DEF EndOfStream, ListInv, Opened
  <2> QED  BY <2>1 DEF ListInv, NullFree, Alone
<1> QED  BY <1>1, <1>2, <1>3, <1>4 DEF StreamHandler

(* What a step of the only poll under way has to leave behind.             *)
LEMMA PollKeepsList ==
  ASSUME TypeInv, ListInv, NEW p \in Polls,
         \A q \in Polls \ {p} : poll[q].at = "idle" /\ poll'[q] = poll[q],
         poll'[p].owes > 0 => poll'[p].owes < Len(message'),
         poll'[p].at = "idle" => poll'[p].owes = 0,
         poll'[p].at # "failed",
         NullFree(poll'[p].got),
         NullFree(shown'),
         handler' \in {"opened", "over"} \union Streams => message' # <<>>,
         Opened' => ttl'
  PROVE  ListInv'
<1>1. \A q \in Polls \ {p} : poll[q].owes = 0 /\ NullFree(poll[q].got)
  BY DEF ListInv
<1>2. Alone'
  BY DEF Alone
<1>3. ASSUME NEW q \in Polls
      PROVE  /\ poll'[q].owes > 0 => poll'[q].owes < Len(message')
             /\ poll'[q].at = "idle" => poll'[q].owes = 0
             /\ poll'[q].at # "failed"
             /\ NullFree(poll'[q].got)
  BY <1>1
<1> QED  BY <1>2, <1>3 DEF ListInv, NullFree

(* When polls do not overlap, the others are idle while one takes a step.  *)
LEMMA OthersIdle ==
  ASSUME TypeInv, ListInv, NEW p \in Polls, HttpThread(p), ~disturbed'
  PROVE  \A q \in Polls \ {p} : poll[q].at = "idle" /\ poll'[q] = poll[q]
<1>0. poll \in [Polls -> PollType]
  BY DEF TypeInv, TypeOK
<1>00. ~overlapped' /\ ~Fault
  BY Undisturbed DEF TypeInv, Next
<1>1. CASE Ask(p)
  BY <1>00, <1>0, <1>1 DEF Ask
<1>2. CASE ~Ask(p)
  <2>1. poll[p].at # "idle"
    BY <1>00, <1>2 DEF HttpThread, lGet, lGetListSize, lPop, TakeHead, ShowRunning, ShowComplete, ShowFailure
  <2>2. \A q \in Polls \ {p} : poll'[q] = poll[q]
    BY <1>0, <1>2 DEF HttpThread, lGet, lGetListSize, lPop, TakeHead, Receives, ShowRunning, ShowComplete, ShowFailure
  <2> QED  BY <2>1, <2>2 DEF ListInv, Alone
<1> QED  BY <1>1, <1>2

(* A poll that overlaps no other keeps the list.                           *)
LEMMA HttpThreadList ==
  ASSUME TypeInv, ListInv, NEW p \in Polls, HttpThread(p), ~disturbed'
  PROVE  ListInv'
<1>0. /\ message \in Seq(Messages) /\ Len(message) \in Nat
      /\ poll \in [Polls -> PollType]
      /\ poll[p].owes \in Nat /\ poll[p].got \in Seq(Texts)
      /\ shown \in Seq(Texts)
      /\ NullFree(<<>>) /\ NullFree(shown) /\ NullFree(poll[p].got)
      /\ handler \in {"opened", "over"} \union Streams => message # <<>>
      /\ Opened => ttl
  BY DEF TypeInv, TypeOK, PollType, ListInv, NullFree
<1>00. ~Fault /\ ~ShowFailure(p)
  BY Undisturbed DEF TypeInv, Next, ListInv, ShowFailure
<1>1. \A q \in Polls \ {p} : poll[q].at = "idle" /\ poll'[q] = poll[q]
  BY OthersIdle
<1>2. CASE Ask(p)
  <2>1. /\ UNCHANGED <<handler, message, ttl, shown>>
        /\ poll'[p].at \in {"running", "complete"}
        /\ poll'[p].owes = 0 /\ poll'[p].got = <<>>
    BY <1>0, <1>2 DEF Ask, Poll
  <2> QED  BY <1>0, <1>1, <2>1, PollKeepsList DEF Opened, NullFree
<1>3. CASE lGet(p)
  <2>1. /\ UNCHANGED <<handler, message, ttl, shown>>
        /\ poll'[p].at = "COMPLETE"
        /\ poll'[p].owes = 0 /\ poll'[p].got = message
    BY <1>0, <1>00, <1>3 DEF lGet, Poll
  <2>2. NullFree(message)
    BY <1>0, MessagesNullFree
  <2> QED  BY <1>0, <1>1, <2>1, <2>2, PollKeepsList DEF Opened, NullFree
<1>4. CASE lGetListSize(p)
  <2>1. /\ UNCHANGED <<handler, message, ttl, shown>>
        /\ poll'[p].at = "popping"
        /\ poll'[p].owes = Pops(Len(message)) /\ poll'[p].got = <<>>
    BY <1>0, <1>00, <1>4 DEF lGetListSize, Poll
  <2>2. Pops(Len(message)) > 0 => Pops(Len(message)) < Len(message)
    BY <1>0 DEF Pops
  <2> QED  BY <1>0, <1>1, <2>1, <2>2, PollKeepsList DEF Opened, NullFree
<1>5. CASE lPop(p)
  <2>1. poll[p].owes > 0 /\ poll[p].owes < Len(message) /\ Len(message) > 1
    BY <1>0, <1>5 DEF lPop, TakeHead, ListInv
  <2>2. message # <<>>
    BY <2>1
  <2>3. /\ Head(message) \in Messages
        /\ Tail(message) \in Seq(Messages)
        /\ Len(Tail(message)) = Len(message) - 1
    BY <1>0, <2>2, HeadTail
  <2>4. /\ message' = Tail(message)
        /\ ttl' = (ttl /\ Len(message) > 1)
        /\ UNCHANGED <<handler, shown>>
        /\ Receives(p, Head(message))
    BY <1>00, <1>5, <2>2 DEF lPop, TakeHead
  <2>5. /\ poll'[p].at = "popping"
        /\ poll'[p].owes = poll[p].owes - 1
        /\ poll'[p].got = Append(poll[p].got, Head(message))
    BY <1>0, <2>4 DEF Receives, Poll
  <2>6. poll'[p].owes < Len(message')
    BY <1>0, <2>1, <2>3, <2>4, <2>5
  <2>7. message' # <<>>
    BY <1>0, <2>1, <2>3, <2>4, SMTT(30)
  <2>8. NullFree(poll'[p].got)
    <3>1. Head(message) # Null /\ Head(message) \in Texts
      BY <2>3, MessageNotNull DEF Texts
    <3> QED  BY <1>0, <2>5, <3>1, Appended DEF NullFree
  <2>9. (Opened' => ttl') /\ NullFree(shown')
    BY <1>0, <2>1, <2>4 DEF Opened, NullFree
  <2> QED  BY <1>1, <2>5, <2>6, <2>7, <2>8, <2>9, PollKeepsList
<1>6. CASE ShowRunning(p) \/ ShowComplete(p)
  <2>1. /\ UNCHANGED <<handler, message, ttl>>
        /\ shown' = shown \o poll[p].got
        /\ poll'[p].at = "idle" /\ poll'[p].owes = 0 /\ poll'[p].got = <<>>
    BY <1>0, <1>6 DEF ShowRunning, ShowComplete, Idle, Poll
  <2>2. NullFree(shown')
    BY <1>0, <2>1, Joined DEF NullFree
  <2> QED  BY <1>0, <1>1, <2>1, <2>2, PollKeepsList, SMTT(30) DEF Opened, NullFree
<1> QED  BY <1>00, <1>2, <1>3, <1>4, <1>5, <1>6 DEF HttpThread

(* ListInv holds of every reachable state until polls overlap or something *)
(* fails.                                                                  *)
LEMMA ListInvariant == Spec => [](~disturbed => ListInv)
<1>1. Init => ListInv
  BY DEF Init, ListInv, Opened, Streams, NullFree, Alone, Idle, Poll
<1>2. ASSUME TypeInv, ~disturbed => ListInv, [Next]_vars, ~disturbed' PROVE ListInv'
  <2>1. ~disturbed /\ ~Fault /\ ~MessagesExpire
    BY <1>2, Undisturbed DEF TypeInv
  <2>2. CASE ProcessClient
    <3>1. /\ UNCHANGED <<message, ttl, poll, shown>>
          /\ handler' \in {handler, "submitted"}
      BY <2>2 DEF ProcessClient, putFlag, StartProcess, ExecFails, StopWaiting
    <3> QED  BY <1>2, <2>1, <3>1 DEF ListInv, Opened, Streams, NullFree, Alone
  <2>3. CASE Maven \/ FlagExpires \/ OthersFlag \/ UNCHANGED vars
    <3>1. UNCHANGED <<handler, message, ttl, poll, shown>>
      BY <2>3 DEF Maven, CallsWrite, Writes, Exits, FlagExpires, OthersFlag, vars
    <3> QED  BY <1>2, <2>1, <3>1 DEF ListInv, Opened, NullFree, Alone
  <2> QED  BY <1>2, <2>1, <2>2, <2>3, StreamHandlerList, HttpThreadList DEF Next
<1> QED  BY <1>1, <1>2, TypeInvariant, PTL DEF Spec

(* Until polls overlap, a redis call or an answer fails or the list        *)
(* expires, the list that StreamHandler has opened is there and has its    *)
(* expiry, and the page is never shown a null, whatever the number of      *)
(* lines, the size of the pipes, the other downloads' use of the flag, and *)
(* what an earlier download has left in the list, with an expiry or        *)
(* without.                                                                *)
THEOREM ListStaysAlive == Spec => []ListLives
<1>1. (~disturbed => ListInv) => ListLives
  BY DEF ListInv, ListLives, Opened, NullFree
<1> QED  BY <1>1, ListInvariant, PTL

-----------------------------------------------------------------------------
(* The order of the lines                                                  *)

Taken(s) == written[s] - pipe[s]

(* The lines StreamHandler reads, in its order, the first o of stdout.     *)
Nth(k, o) == IF k <= o THEN Line("out", k) ELSE Line("err", k - o)

(* What belongs at place i of all the page will show, the first n of which *)
(* are no lines of maven's, when o lines of stdout are read and e of       *)
(* stderr.                                                                 *)
Right(n, i, x, o, e) ==
  IF i <= n THEN ~IsLine(x) ELSE i - n <= o + e /\ x = Nth(i - n, o)

(* A sequence that stands at the places after `from`.                      *)
Follows(n, q, from, o, e) == /\ from + Len(q) <= n + o + e
                             /\ \A i \in 1 .. Len(q) : Right(n, from + i, q[i], o, e)

(* What a poll has got comes after what is shown, and the list after that. *)
OrderOf(n, p, o, e) ==
  /\ Follows(n, poll[p].got, Len(shown), o, e)
  /\ page = "polling" /\ poll[p].at # "COMPLETE" =>
       /\ Follows(n, message, Len(shown) + Len(poll[p].got), o, e)
       /\ Len(shown) + Len(poll[p].got) + Len(message) = n + o + e

OrderWith(n, o, e) ==
  /\ Follows(n, shown, 0, o, e)
  /\ \A p \in Polls : (\A q \in Polls \ {p} : poll[q].at = "idle") => OrderOf(n, p, o, e)
  /\ \A p \in Polls : /\ poll[p].at \in {"idle", "running", "complete"} => poll[p].got = <<>>
                      /\ page = "stopped" => poll[p].at = "idle"

Order(n) == OrderWith(n, Taken("out"), Taken("err"))

(* Of stderr nothing is read before stdout has ended, and StreamHandler    *)
(* ends when nothing is left to read.                                      *)
ReadInv ==
  /\ client \in {"submitted", "flagged"} => handler = "none" /\ maven = "none"
  /\ handler \in {"none", "submitted", "opened"} => Taken("out") = 0
  /\ handler \in {"none", "submitted", "opened", "out"} => Taken("err") = 0
  /\ handler \in {"err", "over"} => maven = "exited" /\ pipe["out"] = 0
  /\ handler = "over" => pipe["err"] = 0

LEMMA TakenType ==
  ASSUME TypeInv
  PROVE  /\ \A s \in Streams : Taken(s) \in Nat /\ written[s] \in Nat /\ pipe[s] \in Nat
         /\ Taken("out") \in Nat /\ Taken("err") \in Nat
<1>1. ASSUME NEW s \in Streams PROVE Taken(s) \in Nat /\ written[s] \in Nat /\ pipe[s] \in Nat
  <2>1. written[s] \in Nat /\ pipe[s] \in 0 .. PipeSize /\ pipe[s] <= written[s]
    BY DEF TypeInv, TypeOK
  <2> QED  BY <2>1, BoundsAssumption DEF Taken
<1>2. "out" \in Streams /\ "err" \in Streams
  BY DEF Streams
<1> QED  BY <1>1, <1>2

LEMMA ReadInvariant ==
  /\ Init => ReadInv
  /\ TypeInv /\ ReadInv /\ [Next]_vars => ReadInv'
<1>1. Init => ReadInv
  BY DEF Init, ReadInv, Taken, Streams
<1>2. ASSUME TypeInv, ReadInv, [Next]_vars PROVE ReadInv'
  <2>0. /\ written \in [Streams -> Nat] /\ pipe \in [Streams -> 0 .. PipeSize]
        /\ Taken("out") \in Nat /\ Taken("err") \in Nat
    BY <1>2, TakenType DEF TypeInv, TypeOK
  <2>1. CASE ProcessClient
    BY <1>2, <2>1 DEF ReadInv, Taken, ProcessClient, putFlag, StartProcess, ExecFails, StopWaiting
  <2>2. ASSUME NEW s \in Streams, CallsWrite(s) \/ Exits PROVE ReadInv'
    BY <1>2, <2>2 DEF ReadInv, Taken, CallsWrite, Exits
  <2>3. ASSUME NEW s \in Streams, Writes(s) PROVE ReadInv'
    <3>1. Taken("out")' = Taken("out") /\ Taken("err")' = Taken("err")
      BY <2>0, <2>3, BoundsAssumption DEF Writes, Taken, Streams
    <3>2. maven # "exited" /\ maven # "none" /\ handler' = handler /\ client' = client
      BY <2>3 DEF Writes, Streams
    <3> QED  BY <1>2, <3>1, <3>2 DEF ReadInv
  <2>4. CASE PushBlank \/ expire
    BY <1>2, <2>4 DEF ReadInv, Taken, PushBlank, expire
  <2>5. ASSUME NEW s \in Streams, putToRedis(s) PROVE ReadInv'
    <3>1. /\ handler = s /\ UNCHANGED <<client, maven, written, handler>>
          /\ pipe' = [pipe EXCEPT ![s] = @ - 1] /\ pipe[s] > 0
      BY <2>5 DEF putToRedis
    <3>2. s = "out" => Taken("err")' = Taken("err")
      BY <2>0, <3>1 DEF Taken, Streams
    <3>3. s = "err" => pipe'["out"] = pipe["out"]
      BY <2>0, <3>1 DEF Streams
    <3> QED  BY <1>2, <3>1, <3>2, <3>3 DEF ReadInv, Streams
  <2>6. ASSUME NEW s \in Streams, EndOfStream(s) PROVE ReadInv'
    BY <1>2, <2>6 DEF ReadInv, Taken, EndOfStream, Streams
  <2>7. CASE FlagExpires \/ OthersFlag \/ MessagesExpire \/ UNCHANGED vars
    BY <1>2, <2>7 DEF ReadInv, Taken, FlagExpires, OthersFlag, MessagesExpire, vars
  <2>8. ASSUME NEW p \in Polls, HttpThread(p) PROVE ReadInv'
    BY <1>2, <2>8 DEF ReadInv, Taken, HttpThread, Ask, lGet, lGetListSize, lPop, TakeHead, ShowRunning, ShowComplete, ShowFailure
  <2>9. CASE Maven
    <3>1. "out" \in Streams
      BY DEF Streams
    <3> QED  BY <2>2, <2>3, <2>9, <3>1 DEF Maven
  <2> QED  BY <1>2, <2>1, <2>4, <2>5, <2>6, <2>7, <2>8, <2>9 DEF Next, StreamHandler
<1> QED  BY <1>1, <1>2

(* A sequence keeps its place while more lines are read.                   *)
LEMMA FollowsOn ==
  ASSUME NEW n \in Nat, NEW o \in Nat, NEW e \in Nat, NEW o2 \in Nat, NEW e2 \in Nat,
         NEW q \in Seq(Texts), NEW from \in Nat, Follows(n, q, from, o, e),
         o <= o2, e <= e2, e = 0 \/ o = o2
  PROVE  Follows(n, q, from, o2, e2)
<1>1. Len(q) \in Nat /\ from + Len(q) <= n + o2 + e2
  BY DEF Follows
<1>2. ASSUME NEW i \in 1 .. Len(q) PROVE Right(n, from + i, q[i], o2, e2)
  <2>1. Right(n, from + i, q[i], o, e) /\ i \in Nat
    BY <1>1 DEF Follows
  <2> QED  BY <2>1 DEF Right, Nth
<1> QED  BY <1>1, <1>2 DEF Follows

(* Before the first line one more that is no line may be shown.            *)
LEMMA FollowsBlank ==
  ASSUME NEW n \in Nat, NEW q \in Seq(Texts), NEW from \in Nat, Follows(n, q, from, 0, 0)
  PROVE  Follows(n + 1, q, from, 0, 0)
<1>1. Len(q) \in Nat /\ from + Len(q) <= n
  BY DEF Follows
<1>2. ASSUME NEW i \in 1 .. Len(q) PROVE Right(n + 1, from + i, q[i], 0, 0)
  <2>1. Right(n, from + i, q[i], 0, 0) /\ from + i <= n
    BY <1>1 DEF Follows
  <2> QED  BY <1>1, <2>1 DEF Right
<1> QED  BY <1>1, <1>2 DEF Follows

(* The next text may be appended.                                          *)
LEMMA FollowsAppend ==
  ASSUME NEW n \in Nat, NEW o \in Nat, NEW e \in Nat, NEW q \in Seq(Texts), NEW from \in Nat,
         NEW x \in Texts, Follows(n, q, from, o, e), from + Len(q) + 1 <= n + o + e,
         Right(n, from + Len(q) + 1, x, o, e)
  PROVE  Follows(n, Append(q, x), from, o, e)
<1>1. Len(q) \in Nat /\ Len(Append(q, x)) = Len(q) + 1
  OBVIOUS
<1>2. ASSUME NEW i \in 1 .. Len(Append(q, x)) PROVE Right(n, from + i, Append(q, x)[i], o, e)
  <2>1. CASE i \in 1 .. Len(q)
    BY <2>1 DEF Follows
  <2>2. CASE i = Len(q) + 1
    BY <1>1, <2>2
  <2> QED  BY <1>1, <2>1, <2>2
<1> QED  BY <1>1, <1>2 DEF Follows

(* Two sequences of which the second follows the first make one.           *)
LEMMA FollowsJoin ==
  ASSUME NEW n \in Nat, NEW o \in Nat, NEW e \in Nat, NEW from \in Nat,
         NEW q \in Seq(Texts), NEW r \in Seq(Texts),
         Follows(n, q, from, o, e), Follows(n, r, from + Len(q), o, e)
  PROVE  Follows(n, q \o r, from, o, e) /\ Len(q \o r) = Len(q) + Len(r)
<1>1. Len(q) \in Nat /\ Len(r) \in Nat /\ Len(q \o r) = Len(q) + Len(r)
  OBVIOUS
<1>2. ASSUME NEW i \in 1 .. Len(q \o r) PROVE Right(n, from + i, (q \o r)[i], o, e)
  <2>1. CASE i \in 1 .. Len(q)
    <3>1. (q \o r)[i] = q[i]
      BY <1>1, <2>1
    <3> QED  BY <2>1, <3>1 DEF Follows
  <2>2. CASE i > Len(q)
    <3>1. i - Len(q) \in 1 .. Len(r) /\ (q \o r)[i] = r[i - Len(q)]
      BY <1>1, <2>2
    <3>2. from + Len(q) + (i - Len(q)) = from + i
      BY <1>1
    <3>3. Right(n, from + Len(q) + (i - Len(q)), r[i - Len(q)], o, e)
      BY <3>1 DEF Follows
    <3> QED  BY <3>1, <3>2, <3>3
  <2> QED  BY <1>1, <2>1, <2>2
<1>3. from + (Len(q) + Len(r)) <= n + o + e
  BY <1>1 DEF Follows
<1> QED  BY <1>1, <1>2, <1>3 DEF Follows

(* The head of a sequence comes first, and the tail follows it.            *)
LEMMA FollowsTail ==
  ASSUME NEW n \in Nat, NEW o \in Nat, NEW e \in Nat, NEW from \in Nat,
         NEW q \in Seq(Texts), q # <<>>, Follows(n, q, from, o, e)
  PROVE  Right(n, from + 1, Head(q), o, e) /\ Follows(n, Tail(q), from + 1, o, e)
<1>1. /\ Len(q) \in Nat /\ Len(q) >= 1 /\ Len(Tail(q)) = Len(q) - 1
      /\ Head(q) = q[1] /\ \A i \in 1 .. Len(q) - 1 : Tail(q)[i] = q[i + 1]
  OBVIOUS
<1>2. ASSUME NEW i \in 1 .. Len(Tail(q)) PROVE Right(n, from + 1 + i, Tail(q)[i], o, e)
  <2>1. i + 1 \in 1 .. Len(q) /\ Tail(q)[i] = q[i + 1] /\ from + (i + 1) = from + 1 + i
    BY <1>1
  <2>2. Right(n, from + (i + 1), q[i + 1], o, e)
    BY <2>1 DEF Follows
  <2> QED  BY <2>1, <2>2
<1>3. Right(n, from + 1, Head(q), o, e)
  BY <1>1 DEF Follows
<1> QED  BY <1>1, <1>2, <1>3 DEF Follows

(* The order only depends on the list, the polls, the page and on what has *)
(* been read.                                                              *)
LEMMA OrderSame ==
  ASSUME NEW n \in Nat, Order(n), UNCHANGED <<message, poll, page, shown>>,
         Taken("out")' = Taken("out"), Taken("err")' = Taken("err")
  PROVE  Order(n)'
  BY DEF Order, OrderWith, OrderOf

(* A text that belongs after all there is may be pushed, if what is there  *)
(* stays right.                                                            *)
LEMMA PushOrder ==
  ASSUME TypeInv, NEW n \in Nat, NEW o \in Nat, NEW e \in Nat, OrderWith(n, o, e),
         NEW m \in Nat, NEW o2 \in Nat, NEW e2 \in Nat, m + o2 + e2 = n + o + e + 1,
         NEW x \in Texts, Right(m, n + o + e + 1, x, o2, e2),
         \A q \in Seq(Texts) : \A from \in Nat : Follows(n, q, from, o, e) => Follows(m, q, from, o2, e2),
         message' = Append(message, x), UNCHANGED <<poll, page, shown>>
  PROVE  OrderWith(m, o2, e2)'
<1>0. /\ message \in Seq(Texts) /\ Len(message) \in Nat
      /\ shown \in Seq(Texts) /\ Len(shown) \in Nat
      /\ \A p \in Polls : poll[p].got \in Seq(Texts) /\ Len(poll[p].got) \in Nat
      /\ Len(Append(message, x)) = Len(message) + 1
  BY MessagesAreTexts DEF TypeInv, TypeOK, PollType
<1>1. Follows(m, shown, 0, o2, e2)
  BY <1>0 DEF OrderWith
<1>2. ASSUME NEW p \in Polls, \A q \in Polls \ {p} : poll[q].at = "idle"
      PROVE  /\ Follows(m, poll[p].got, Len(shown), o2, e2)
             /\ page = "polling" /\ poll[p].at # "COMPLETE" =>
                  /\ Follows(m, message', Len(shown) + Len(poll[p].got), o2, e2)
                  /\ Len(shown) + Len(poll[p].got) + Len(message') = m + o2 + e2
  <2>1. OrderOf(n, p, o, e)
    BY <1>2 DEF OrderWith
  <2>2. Follows(m, poll[p].got, Len(shown), o2, e2)
    BY <1>0, <2>1 DEF OrderOf
  <2>3. ASSUME page = "polling", poll[p].at # "COMPLETE"
        PROVE  /\ Follows(m, Append(message, x), Len(shown) + Len(poll[p].got), o2, e2)
               /\ Len(shown) + Len(poll[p].got) + Len(Append(message, x)) = m + o2 + e2
    <3>1. PICK from \in Nat : from = Len(shown) + Len(poll[p].got)
      BY <1>0
    <3>2. Follows(n, message, from, o, e) /\ from + Len(message) = n + o + e
      BY <2>1, <2>3, <3>1 DEF OrderOf
    <3>3. Follows(m, message, from, o2, e2)
      BY <1>0, <3>2
    <3>4. from + Len(message) + 1 = m + o2 + e2 /\ from + Len(message) + 1 = n + o + e + 1
      BY <3>2
    <3>5. Follows(m, Append(message, x), from, o2, e2)
      <4>1. Right(m, from + Len(message) + 1, x, o2, e2)
        BY <3>4
      <4>2. from + Len(message) + 1 <= m + o2 + e2
        BY <1>0, <3>4
      <4> QED  BY <1>0, <3>3, <4>1, <4>2, FollowsAppend
    <3>6. from + Len(Append(message, x)) = m + o2 + e2
      BY <1>0, <3>4
    <3> QED  BY <3>1, <3>5, <3>6
  <2> QED  BY <2>2, <2>3
<1> QED  BY <1>1, <1>2 DEF OrderWith, OrderOf

(* The blank line comes before maven's lines.                              *)
LEMMA PushBlankOrder ==
  ASSUME TypeInv, ReadInv, NEW n \in Nat, Order(n), PushBlank, ~Fault
  PROVE  Order(n + 1)'
<1>1. Blank \in Texts /\ ~IsLine(Blank)
  BY DEF Blank, Line, IsLine, Streams, Texts, Messages
<1>2. /\ Taken("out") = 0 /\ Taken("err") = 0
      /\ Taken("out")' = 0 /\ Taken("err")' = 0
      /\ UNCHANGED <<poll, page, shown>> /\ message' = Append(message, Blank)
  BY DEF PushBlank, rPush, ReadInv, Taken
<1>3. OrderWith(n, 0, 0)
  BY <1>2 DEF Order
<1>4. Right(n + 1, n + 0 + 0 + 1, Blank, 0, 0)
  BY <1>1 DEF Right
<1>5. \A q \in Seq(Texts) : \A from \in Nat : Follows(n, q, from, 0, 0) => Follows(n + 1, q, from, 0, 0)
  BY FollowsBlank
<1>6. 0 \in Nat /\ n + 1 \in Nat /\ n + 1 + 0 + 0 = n + 0 + 0 + 1
  OBVIOUS
<1>7. OrderWith(n + 1, 0, 0)'
  BY <1>1, <1>2, <1>3, <1>4, <1>5, <1>6, PushOrder
<1> QED  BY <1>2, <1>7 DEF Order, OrderWith, OrderOf

(* A line that is read goes to the end of the list, and belongs there.     *)
LEMMA PutToRedisOrder ==
  ASSUME TypeInv, ReadInv, NEW n \in Nat, Order(n), NEW s \in Streams, putToRedis(s), ~Fault
  PROVE  Order(n)'
<1>1. PICK o \in Nat, e \in Nat : o = Taken("out") /\ e = Taken("err")
  BY TakenType
<1>2. PICK o2 \in Nat, e2 \in Nat : /\ o2 = IF s = "out" THEN o + 1 ELSE o
                                  /\ e2 = IF s = "err" THEN e + 1 ELSE e
  OBVIOUS
<1>3. PICK x \in Texts : x = Line(s, written[s] - pipe[s] + 1)
  BY ReadLineType DEF putToRedis, Texts, Messages
<1>4. /\ UNCHANGED <<poll, page, shown, written>> /\ message' = Append(message, x)
      /\ pipe' = [pipe EXCEPT ![s] = @ - 1] /\ pipe[s] > 0 /\ handler = s
  BY <1>3 DEF putToRedis, rPush
<1>5. Taken("out")' = o2 /\ Taken("err")' = e2
  <2>1. /\ pipe \in [Streams -> 0 .. PipeSize]
        /\ \A r \in Streams : written[r] \in Nat /\ pipe[r] \in Nat
    BY TakenType DEF TypeInv, TypeOK
  <2>2. /\ pipe'["out"] = IF s = "out" THEN pipe["out"] - 1 ELSE pipe["out"]
        /\ pipe'["err"] = IF s = "err" THEN pipe["err"] - 1 ELSE pipe["err"]
    BY <1>4, <2>1 DEF Streams
  <2>3. /\ o = written["out"] - pipe["out"] /\ Taken("out")' = written["out"] - pipe'["out"]
        /\ e = written["err"] - pipe["err"] /\ Taken("err")' = written["err"] - pipe'["err"]
    BY <1>1, <1>4 DEF Taken
  <2>4. /\ written["out"] \in Nat /\ pipe["out"] \in Nat
        /\ written["err"] \in Nat /\ pipe["err"] \in Nat
    BY <2>1 DEF Streams
  <2> QED  BY <1>2, <2>2, <2>3, <2>4
<1>6. (s = "out" /\ e = 0) \/ (s = "err" /\ o2 = o)
  BY <1>1, <1>2, <1>4 DEF ReadInv, Streams
<1>7. o2 + e2 = o + e + 1 /\ o <= o2 /\ e <= e2 /\ (e = 0 \/ o = o2)
  BY <1>2, <1>6
<1>8. x = Nth(o + e + 1, o2)
  <2>1. CASE s = "out" /\ e = 0
    <3>1. x = Line("out", o + 1) /\ o2 = o + 1
      BY <1>1, <1>2, <1>3, <2>1 DEF Taken
    <3> QED  BY <2>1, <3>1 DEF Nth
  <2>2. CASE s = "err" /\ o2 = o
    <3>1. x = Line("err", e + 1) /\ ~(o + e + 1 <= o2) /\ o + e + 1 - o2 = e + 1
      BY <1>1, <1>3, <2>2 DEF Taken
    <3> QED  BY <3>1 DEF Nth
  <2> QED  BY <1>6, <2>1, <2>2
<1>9. Right(n, n + o + e + 1, x, o2, e2)
  <2>1. ~(n + o + e + 1 <= n) /\ n + o + e + 1 - n = o + e + 1
    OBVIOUS
  <2> QED  BY <1>7, <1>8, <2>1 DEF Right
<1>10. \A q \in Seq(Texts) : \A from \in Nat : Follows(n, q, from, o, e) => Follows(n, q, from, o2, e2)
  BY <1>7, FollowsOn
<1>11. OrderWith(n, o, e) /\ n + o2 + e2 = n + o + e + 1
  BY <1>1, <1>7 DEF Order
<1>12. OrderWith(n, o2, e2)'
  BY <1>4, <1>9, <1>10, <1>11, PushOrder
<1> QED  BY <1>5, <1>12 DEF Order, OrderWith, OrderOf

(* What a step of the only poll under way has to leave behind.             *)
LEMMA PollKeepsOrder ==
  ASSUME NEW n \in Nat, NEW o \in Nat, NEW e \in Nat, OrderWith(n, o, e), NEW p \in Polls,
         \A q \in Polls \ {p} : poll[q].at = "idle" /\ poll'[q] = poll[q],
         Follows(n, shown, 0, o, e)', OrderOf(n, p, o, e)',
         poll'[p].at \in {"idle", "running", "complete"} => poll'[p].got = <<>>,
         page' = "stopped" => poll'[p].at = "idle"
  PROVE  OrderWith(n, o, e)'
<1>1. \A q \in Polls \ {p} : poll'[q].at = "idle" /\ poll'[q].got = <<>>
  BY DEF OrderWith
<1>2. ASSUME NEW r \in Polls, \A q \in Polls \ {r} : poll'[q].at = "idle"
      PROVE  OrderOf(n, r, o, e)'
  <2>1. CASE r # p
    <3>1. poll'[p].at = "idle" /\ poll'[p].got = <<>> /\ poll'[r].at = "idle" /\ poll'[r].got = <<>>
      BY <1>1, <1>2, <2>1
    <3> QED  BY <3>1 DEF OrderOf
  <2> QED  BY <2>1
<1>3. ASSUME NEW r \in Polls
      PROVE  /\ poll'[r].at \in {"idle", "running", "complete"} => poll'[r].got = <<>>
             /\ page' = "stopped" => poll'[r].at = "idle"
  BY <1>1
<1> QED  BY <1>2, <1>3 DEF OrderWith

(* A poll that overlaps no other keeps the order.                          *)
LEMMA HttpThreadOrder ==
  ASSUME TypeInv, ListInv, NEW n \in Nat, Order(n), NEW p \in Polls, HttpThread(p), ~disturbed'
  PROVE  Order(n)'
<1>1. PICK o \in Nat, e \in Nat : o = Taken("out") /\ e = Taken("err")
  BY TakenType
<1>2. OrderWith(n, o, e)
  BY <1>1 DEF Order
<1>3. \A q \in Polls \ {p} : poll[q].at = "idle" /\ poll'[q] = poll[q]
  BY OthersIdle
<1>00. ~Fault /\ ~ShowFailure(p)
  BY Undisturbed DEF TypeInv, Next, ListInv, ShowFailure
<1>4. Taken("out")' = o /\ Taken("err")' = e
  BY <1>1 DEF Taken, HttpThread, Ask, lGet, lGetListSize, lPop, TakeHead, ShowRunning, ShowComplete, ShowFailure
<1>5. /\ poll \in [Polls -> PollType]
      /\ message \in Seq(Texts) /\ Len(message) \in Nat
      /\ poll[p].got \in Seq(Texts) /\ Len(poll[p].got) \in Nat
      /\ shown \in Seq(Texts) /\ Len(shown) \in Nat
  BY MessagesAreTexts DEF TypeInv, TypeOK, PollType
<1>6. Follows(n, shown, 0, o, e) /\ OrderOf(n, p, o, e)
  BY <1>2, <1>3 DEF OrderWith
<1>7. OrderWith(n, o, e)'
  <2>1. CASE Ask(p) \/ lGetListSize(p)
    <3>1. /\ UNCHANGED <<message, page, shown>>
          /\ poll[p].at \in {"idle", "running"} /\ page = "polling"
          /\ poll'[p].at \in {"running", "complete", "popping"} /\ poll'[p].got = <<>>
      <4>1. poll[p].at \in {"idle", "running"} /\ page \in {"polling", "stopped"}
        BY <2>1 DEF Ask, lGetListSize, TypeInv, TypeOK
      <4>2. page = "polling"
        BY <1>2, <2>1, <4>1 DEF Ask, lGetListSize, OrderWith
      <4> QED  BY <1>5, <2>1, <4>1, <4>2 DEF Ask, lGetListSize, Poll
    <3>2. poll[p].got = <<>>
      BY <1>2, <3>1 DEF OrderWith
    <3>3. OrderOf(n, p, o, e)'
      BY <1>6, <3>1, <3>2 DEF OrderOf
    <3> QED  BY <1>2, <1>3, <1>6, <3>1, <3>3, PollKeepsOrder
  <2>2. CASE lGet(p)
    <3>1. /\ UNCHANGED <<message, page, shown>>
          /\ poll[p].at = "complete" /\ page = "polling"
          /\ poll'[p].at = "COMPLETE" /\ poll'[p].got = message
      <4>1. poll[p].at = "complete" /\ page \in {"polling", "stopped"}
        BY <2>2 DEF lGet, TypeInv, TypeOK
      <4>2. page = "polling"
        BY <1>2, <4>1 DEF OrderWith
      <4> QED  BY <1>5, <1>00, <2>2, <4>1, <4>2 DEF lGet, Poll
    <3>2. poll[p].got = <<>>
      BY <1>2, <3>1 DEF OrderWith
    <3>3. Follows(n, message, Len(shown), o, e)
      BY <1>5, <1>6, <3>1, <3>2 DEF OrderOf
    <3>4. OrderOf(n, p, o, e)'
      BY <3>1, <3>3 DEF OrderOf
    <3> QED  BY <1>2, <1>3, <1>6, <3>1, <3>4, PollKeepsOrder
  <2>3. CASE lPop(p)
    <3>1. poll[p].owes > 0 /\ poll[p].owes < Len(message) /\ poll[p].owes \in Nat
      BY <1>5, <2>3 DEF lPop, TakeHead, ListInv, PollType
    <3>2. message # <<>>
      BY <3>1
    <3>3. /\ message' = Tail(message) /\ UNCHANGED <<page, shown>>
          /\ poll[p].at = "popping" /\ page = "polling"
          /\ poll'[p].at = "popping" /\ poll'[p].got = Append(poll[p].got, Head(message))
      <4>1. poll[p].at = "popping" /\ page \in {"polling", "stopped"}
        BY <2>3 DEF lPop, TakeHead, TypeInv, TypeOK
      <4>2. page = "polling"
        BY <1>2, <4>1 DEF OrderWith
      <4> QED  BY <1>5, <1>00, <2>3, <3>2, <4>1, <4>2 DEF lPop, TakeHead, Receives, Poll
    <3>4. PICK from \in Nat, at \in Nat : from = Len(shown) /\ at = from + Len(poll[p].got)
      BY <1>5
    <3>5. /\ Follows(n, poll[p].got, from, o, e) /\ Follows(n, message, at, o, e)
          /\ at + Len(message) = n + o + e
      BY <1>6, <3>3, <3>4 DEF OrderOf
    <3>6. /\ Head(message) \in Texts /\ Len(message) \in Nat \ {0} /\ Len(Tail(message)) = Len(message) - 1
      BY <1>5, <3>2, HeadTail
    <3>7. Right(n, at + 1, Head(message), o, e) /\ Follows(n, Tail(message), at + 1, o, e)
      BY <1>5, <3>2, <3>5, FollowsTail
    <3>8. Follows(n, Append(poll[p].got, Head(message)), from, o, e)
      <4>1. from + Len(poll[p].got) + 1 <= n + o + e
        BY <3>4, <3>5, <3>6
      <4>2. Right(n, from + Len(poll[p].got) + 1, Head(message), o, e)
        BY <3>4, <3>7
      <4> QED  BY <1>5, <3>5, <3>6, <4>1, <4>2, FollowsAppend
    <3>9. Len(shown) + Len(Append(poll[p].got, Head(message))) = at + 1
      BY <1>5, <3>4, <3>6
    <3>10. at + 1 + Len(Tail(message)) = n + o + e
      BY <3>5, <3>6
    <3>11. OrderOf(n, p, o, e)'
      BY <3>3, <3>4, <3>7, <3>8, <3>9, <3>10 DEF OrderOf
    <3> QED  BY <1>2, <1>3, <1>6, <3>3, <3>11, PollKeepsOrder
  <2>4. CASE ShowRunning(p) \/ ShowComplete(p)
    <3>1. /\ message' = message /\ shown' = shown \o poll[p].got
          /\ poll'[p].at = "idle" /\ poll'[p].got = <<>>
          /\ page' = "polling" => page = "polling" /\ poll[p].at # "COMPLETE"
      BY <1>5, <2>4 DEF ShowRunning, ShowComplete, Idle, Poll
    <3>2. /\ Follows(n, shown \o poll[p].got, 0, o, e)
          /\ Len(shown \o poll[p].got) = Len(shown) + Len(poll[p].got)
      <4>1. Follows(n, poll[p].got, 0 + Len(shown), o, e)
        BY <1>5, <1>6 DEF OrderOf
      <4> QED  BY <1>5, <1>6, <4>1, FollowsJoin
    <3>3. Follows(n, <<>>, Len(shown'), o, e)
      BY <1>5, <3>1, <3>2 DEF Follows
    <3>4. Len(shown') + Len(poll'[p].got) = Len(shown) + Len(poll[p].got)
      BY <1>5, <3>1, <3>2
    <3>5. OrderOf(n, p, o, e)'
      BY <1>6, <3>1, <3>3, <3>4 DEF OrderOf
    <3> QED  BY <1>2, <1>3, <3>1, <3>2, <3>5, PollKeepsOrder
  <2> QED  BY <1>00, <2>1, <2>2, <2>3, <2>4 DEF HttpThread
<1> QED  BY <1>4, <1>7 DEF Order, OrderWith, OrderOf

(* The order is kept by every step until polls overlap or something fails. *)
OrderInv == ReadInv /\ (~disturbed => \E n \in Nat : Order(n))

LEMMA OrderInvariant == Spec => []OrderInv
<1>1. Init => OrderInv
  <2> SUFFICES ASSUME Init PROVE \E n \in Nat : Order(n)
    BY ReadInvariant DEF OrderInv
  <2>1. Taken("out") = 0 /\ Taken("err") = 0
    BY DEF Init, Taken, Streams
  <2>2. \A p \in Polls : poll[p].at = "idle" /\ poll[p].got = <<>>
    BY DEF Init, Idle, Poll
  <2>3. CASE message = <<>>
    <3>1. OrderWith(0, 0, 0)
      BY <2>2, <2>3 DEF Init, OrderWith, OrderOf, Follows
    <3> QED  BY <2>1, <3>1 DEF Order
  <2>4. CASE message = <<Old>>
    <3>1. ~IsLine(Old) /\ Len(message) = 1 /\ message[1] = Old
      BY <2>4 DEF IsLine, Old, Line, Streams
    <3>2. Follows(1, message, 0, 0, 0)
      BY <3>1 DEF Follows, Right
    <3>3. Follows(1, <<>>, 0, 0, 0)
      BY DEF Follows
    <3>4. OrderWith(1, 0, 0)
      BY <2>2, <3>1, <3>2, <3>3 DEF Init, OrderWith, OrderOf
    <3> QED  BY <2>1, <3>4 DEF Order
  <2> QED  BY <2>3, <2>4 DEF Init
<1>2. ASSUME TypeInv, ~disturbed => ListInv, OrderInv, [Next]_vars PROVE OrderInv'
  <2>1. ReadInv'
    BY <1>2, ReadInvariant DEF OrderInv
  <2>2. ASSUME ~disturbed' PROVE \E n \in Nat : Order(n)'
    <3>1. ~disturbed /\ ~Fault /\ ~MessagesExpire
      BY <1>2, <2>2, Undisturbed DEF TypeInv
    <3>2. PICK n \in Nat : Order(n)
      BY <1>2, <3>1 DEF OrderInv
    <3>3. CASE PushBlank
      <4>1. n + 1 \in Nat /\ Order(n + 1)'
        BY <1>2, <3>1, <3>2, <3>3, PushBlankOrder DEF OrderInv
      <4> QED  BY <4>1
    <3>4. ASSUME NEW s \in Streams, putToRedis(s) PROVE Order(n)'
      BY <1>2, <3>1, <3>2, <3>4, PutToRedisOrder DEF OrderInv
    <3>5. ASSUME NEW p \in Polls, HttpThread(p) PROVE Order(n)'
      BY <1>2, <2>2, <3>1, <3>2, <3>5, HttpThreadOrder
    <3>6. ASSUME NEW s \in Streams, Writes(s) PROVE Order(n)'
      <4>1. Taken("out")' = Taken("out") /\ Taken("err")' = Taken("err")
        <5>1. /\ written \in [Streams -> Nat] /\ pipe \in [Streams -> 0 .. PipeSize]
              /\ \A r \in Streams : written[r] \in Nat /\ pipe[r] \in Nat
          BY <1>2, TakenType DEF TypeInv, TypeOK
        <5> QED  BY <3>6, <5>1 DEF Writes, Taken, Streams
      <4> QED  BY <3>2, <3>6, <4>1, OrderSame DEF Writes
    <3>7. CASE \/ ProcessClient \/ FlagExpires \/ OthersFlag \/ UNCHANGED vars \/ Exits \/ expire
               \/ \E s \in Streams : CallsWrite(s) \/ EndOfStream(s)
      <4>1. UNCHANGED <<written, pipe, message, poll, page, shown>>
        BY <3>7 DEF ProcessClient, putFlag, StartProcess, ExecFails, StopWaiting, FlagExpires,
                    OthersFlag, vars, Exits, expire, CallsWrite, EndOfStream
      <4> QED  BY <3>2, <4>1, OrderSame DEF Taken
    <3> QED  BY <1>2, <3>1, <3>3, <3>4, <3>5, <3>6, <3>7 DEF Next, Maven, StreamHandler
  <2> QED  BY <2>1, <2>2 DEF OrderInv
<1> QED  BY <1>1, <1>2, TypeInvariant, ListInvariant, PTL DEF Spec

-----------------------------------------------------------------------------
(* No line twice or before an earlier one, whatever fails                  *)

(* A poll that has not asked for lines has none.                           *)
GotInv == \A p \in Polls :
            poll[p].at \in {"idle", "running", "complete", "failed"} => poll[p].got = <<>>

LEMMA GotInvariant ==
  /\ Init => GotInv
  /\ TypeInv /\ GotInv /\ [Next]_vars => GotInv'
<1>1. Init => GotInv
  BY DEF Init, GotInv, Idle, Poll
<1>2. ASSUME TypeInv, GotInv, [Next]_vars PROVE GotInv'
  <2>1. poll \in [Polls -> PollType]
    BY <1>2 DEF TypeInv, TypeOK
  <2>2. CASE \/ ProcessClient \/ Maven \/ StreamHandler \/ FlagExpires \/ OthersFlag
             \/ MessagesExpire \/ UNCHANGED vars
    <3>1. poll' = poll
      BY <2>2 DEF ProcessClient, putFlag, StartProcess, ExecFails, StopWaiting, Maven, CallsWrite,
                  Writes, Exits, StreamHandler, PushBlank, expire, putToRedis, EndOfStream,
                  FlagExpires, OthersFlag, MessagesExpire, vars
    <3> QED  BY <1>2, <3>1 DEF GotInv
  <2>3. ASSUME NEW p \in Polls, HttpThread(p) PROVE GotInv'
    <3>1. \A q \in Polls \ {p} : poll'[q] = poll[q]
      BY <2>1, <2>3 DEF HttpThread, Ask, lGet, lGetListSize, lPop, TakeHead, Receives, ShowRunning, ShowComplete, ShowFailure
    <3>2. poll'[p].at \in {"idle", "running", "complete", "failed"} => poll'[p].got = <<>>
      BY <2>1, <2>3 DEF HttpThread, Ask, lGet, lGetListSize, lPop, TakeHead, Receives, ShowRunning,
                        ShowComplete, ShowFailure, Poll, Idle
    <3> QED  BY <1>2, <3>1, <3>2 DEF GotInv
  <2> QED  BY <1>2, <2>2, <2>3 DEF Next
<1> QED  BY <1>1, <1>2

(* All lines of q are read before all of r.                                *)
Precedes(q, r) == \A i \in DOMAIN q, j \in DOMAIN r :
                    IsLine(q[i]) /\ IsLine(r[j]) => Before(q[i], r[j])

(* Of q every line has been read, when o of stdout have and e of stderr.   *)
AllRead(q, o, e) == \A i \in DOMAIN q : IsLine(q[i]) =>
                      q[i].number <= IF q[i].stream = "out" THEN o ELSE e

(* The list may still come onto the page.                                  *)
More == /\ page = "polling" \/ \E p \in Polls : poll[p].at # "idle"
        /\ \A p \in Polls : poll[p].at # "COMPLETE"

ScrollWith(o, e) ==
  /\ Ascending(shown) /\ AllRead(shown, o, e)
  /\ Ascending(message) /\ AllRead(message, o, e)
  /\ \A p \in Polls : /\ Ascending(poll[p].got) /\ AllRead(poll[p].got, o, e)
                      /\ Precedes(shown, poll[p].got)
  /\ More => /\ Precedes(shown, message)
             /\ \A p \in Polls : Precedes(poll[p].got, message)
  /\ Alone

Scroll == ScrollWith(Taken("out"), Taken("err"))

(* A text that is a line has a number.                                     *)
LEMMA LinesOfTexts ==
  ASSUME NEW x \in Texts, IsLine(x)
  PROVE  x \in Lines
  BY DEF Texts, Messages, IsLine, Blank, Old, Null, Line, Streams

(* The tail has what the sequence has.                                     *)
LEMMA TailOf ==
  ASSUME NEW q \in Seq(Texts), q # <<>>
  PROVE  /\ 1 \in DOMAIN q /\ Head(q) = q[1]
         /\ \A i \in DOMAIN Tail(q) : i + 1 \in DOMAIN q /\ Tail(q)[i] = q[i + 1] /\ i \in Nat \ {0}
<1>1. /\ Len(q) \in Nat /\ Len(q) >= 1 /\ Head(q) = q[1]
      /\ DOMAIN q = 1 .. Len(q) /\ DOMAIN Tail(q) = 1 .. Len(q) - 1
      /\ \A i \in 1 .. Len(q) - 1 : Tail(q)[i] = q[i + 1]
  OBVIOUS
<1> QED  BY <1>1

(* A text at the end of an ascending sequence.                             *)
LEMMA AscendingAppend ==
  ASSUME NEW q \in Seq(Texts), NEW x \in Texts, Ascending(q),
         \A i \in DOMAIN q : IsLine(q[i]) /\ IsLine(x) => Before(q[i], x)
  PROVE  Ascending(Append(q, x))
<1>1. /\ Len(q) \in Nat /\ DOMAIN q = 1 .. Len(q) /\ DOMAIN Append(q, x) = 1 .. Len(q) + 1
      /\ \A i \in 1 .. Len(q) : Append(q, x)[i] = q[i]
      /\ Append(q, x)[Len(q) + 1] = x
  OBVIOUS
<1>2. ASSUME NEW i \in DOMAIN Append(q, x), NEW j \in DOMAIN Append(q, x), i < j,
             IsLine(Append(q, x)[i]), IsLine(Append(q, x)[j])
      PROVE  Before(Append(q, x)[i], Append(q, x)[j])
  <2>1. i \in DOMAIN q /\ Append(q, x)[i] = q[i]
    BY <1>1, <1>2
  <2>2. CASE j \in DOMAIN q
    <3>1. Append(q, x)[j] = q[j]
      BY <1>1, <2>2
    <3> QED  BY <1>2, <2>1, <2>2, <3>1 DEF Ascending
  <2>3. CASE j = Len(q) + 1
    BY <1>1, <1>2, <2>1, <2>3
  <2> QED  BY <1>1, <2>2, <2>3
<1> QED  BY <1>2 DEF Ascending

(* Two ascending sequences, one after the other.                           *)
LEMMA AscendingJoin ==
  ASSUME NEW q \in Seq(Texts), NEW r \in Seq(Texts), Ascending(q), Ascending(r), Precedes(q, r)
  PROVE  Ascending(q \o r)
<1>1. /\ Len(q) \in Nat /\ Len(r) \in Nat /\ DOMAIN q = 1 .. Len(q) /\ DOMAIN r = 1 .. Len(r)
      /\ DOMAIN (q \o r) = 1 .. Len(q) + Len(r)
      /\ \A i \in 1 .. Len(q) + Len(r) :
           (q \o r)[i] = IF i <= Len(q) THEN q[i] ELSE r[i - Len(q)]
  OBVIOUS
<1>2. ASSUME NEW i \in DOMAIN (q \o r), NEW j \in DOMAIN (q \o r), i < j,
             IsLine((q \o r)[i]), IsLine((q \o r)[j])
      PROVE  Before((q \o r)[i], (q \o r)[j])
  <2>1. CASE j <= Len(q)
    <3>1. /\ i \in DOMAIN q /\ j \in DOMAIN q
          /\ (q \o r)[i] = q[i] /\ (q \o r)[j] = q[j]
      BY <1>1, <1>2, <2>1
    <3> QED  BY <1>2, <3>1 DEF Ascending
  <2>2. CASE i <= Len(q) /\ j > Len(q)
    <3>1. /\ i \in DOMAIN q /\ j - Len(q) \in DOMAIN r
          /\ (q \o r)[i] = q[i] /\ (q \o r)[j] = r[j - Len(q)]
      BY <1>1, <2>2
    <3> QED  BY <1>2, <3>1 DEF Precedes
  <2>3. CASE i > Len(q)
    <3>1. /\ i - Len(q) \in DOMAIN r /\ j - Len(q) \in DOMAIN r /\ i - Len(q) < j - Len(q)
          /\ (q \o r)[i] = r[i - Len(q)] /\ (q \o r)[j] = r[j - Len(q)]
      BY <1>1, <1>2, <2>3
    <3> QED  BY <1>2, <3>1 DEF Ascending
  <2> QED  BY <1>1, <1>2, <2>1, <2>2, <2>3
<1> QED  BY <1>2 DEF Ascending

(* The head of an ascending sequence and its tail.                         *)
LEMMA AscendingTail ==
  ASSUME NEW q \in Seq(Texts), q # <<>>, Ascending(q)
  PROVE  /\ Ascending(Tail(q))
         /\ \A j \in DOMAIN Tail(q) : IsLine(Head(q)) /\ IsLine(Tail(q)[j]) => Before(Head(q), Tail(q)[j])
<1>1. ASSUME NEW i \in DOMAIN Tail(q), NEW j \in DOMAIN Tail(q), i < j,
             IsLine(Tail(q)[i]), IsLine(Tail(q)[j])
      PROVE  Before(Tail(q)[i], Tail(q)[j])
  <2>1. /\ i + 1 \in DOMAIN q /\ Tail(q)[i] = q[i + 1] /\ j + 1 \in DOMAIN q /\ Tail(q)[j] = q[j + 1]
        /\ i + 1 < j + 1
    BY <1>1, TailOf
  <2> QED  BY <1>1, <2>1 DEF Ascending
<1>2. ASSUME NEW j \in DOMAIN Tail(q), IsLine(Head(q)), IsLine(Tail(q)[j])
      PROVE  Before(Head(q), Tail(q)[j])
  <2>1. /\ 1 \in DOMAIN q /\ Head(q) = q[1] /\ j + 1 \in DOMAIN q /\ Tail(q)[j] = q[j + 1]
        /\ 1 < j + 1
    BY TailOf
  <2> QED  BY <1>2, <2>1 DEF Ascending
<1> QED  BY <1>1, <1>2 DEF Ascending

(* A line is read before one that is read later.                           *)
LEMMA ReadBefore ==
  ASSUME NEW o \in Nat, NEW e \in Nat, NEW q \in Seq(Texts), AllRead(q, o, e), NEW x \in Texts,
         \/ x = Line("out", o + 1) /\ e = 0
         \/ x = Line("err", e + 1)
  PROVE  \A i \in DOMAIN q : IsLine(q[i]) => Before(q[i], x)
<1>1. ASSUME NEW i \in DOMAIN q, IsLine(q[i]) PROVE Before(q[i], x)
  <2>1. q[i] \in Texts
    OBVIOUS
  <2>2. q[i].stream \in {"out", "err"} /\ q[i].number \in Nat \ {0}
    BY <1>1, <2>1, LinesOfTexts DEF Lines, Streams
  <2>3. q[i].number <= IF q[i].stream = "out" THEN o ELSE e
    BY <1>1 DEF AllRead
  <2> QED  BY <2>2, <2>3 DEF Before, Line
<1> QED  BY <1>1

(* What has been read stays read.                                          *)
LEMMA ReadOn ==
  ASSUME NEW o \in Nat, NEW e \in Nat, NEW o2 \in Nat, NEW e2 \in Nat, o <= o2, e <= e2,
         NEW q \in Seq(Texts), AllRead(q, o, e)
  PROVE  AllRead(q, o2, e2)
<1>1. ASSUME NEW i \in DOMAIN q, IsLine(q[i])
      PROVE  q[i].number <= IF q[i].stream = "out" THEN o2 ELSE e2
  <2>1. q[i] \in Texts
    OBVIOUS
  <2>2. q[i].number \in Nat
    BY <1>1, <2>1, LinesOfTexts DEF Lines
  <2>3. q[i].number <= IF q[i].stream = "out" THEN o ELSE e
    BY <1>1 DEF AllRead
  <2> QED  BY <2>2, <2>3
<1> QED  BY <1>1 DEF AllRead

(* An empty sequence is anything.                                          *)
LEMMA NothingFollows ==
  /\ Ascending(<<>>)
  /\ \A o, e : AllRead(<<>>, o, e)
  /\ \A q : Precedes(<<>>, q) /\ Precedes(q, <<>>)
  BY DEF Ascending, AllRead, Precedes

(* The page, the list and the polls as StreamHandler's steps find them.    *)
LEMMA ScrollTypes ==
  ASSUME TypeInv
  PROVE  /\ poll \in [Polls -> PollType]
         /\ message \in Seq(Texts) /\ shown \in Seq(Texts)
         /\ \A p \in Polls : poll[p].got \in Seq(Texts)
  BY MessagesAreTexts DEF TypeInv, TypeOK, PollType

(* A text that is no line, or a line that is read, may be pushed.          *)
LEMMA PushScroll ==
  ASSUME TypeInv, NEW o \in Nat, NEW e \in Nat, ScrollWith(o, e),
         NEW o2 \in Nat, NEW e2 \in Nat, o <= o2, e <= e2, NEW x \in Texts,
         \/ ~IsLine(x)
         \/ x = Line("out", o + 1) /\ e = 0 /\ o2 = o + 1
         \/ x = Line("err", e + 1) /\ e2 = e + 1,
         message' = message \/ message' = Append(message, x), UNCHANGED <<poll, page, shown>>
  PROVE  ScrollWith(o2, e2)'
<1>0. /\ message \in Seq(Texts) /\ shown \in Seq(Texts)
      /\ \A p \in Polls : poll[p].got \in Seq(Texts)
  BY ScrollTypes
<1>1. ASSUME NEW q \in Seq(Texts), AllRead(q, o, e)
      PROVE  /\ AllRead(q, o2, e2)
             /\ \A i \in DOMAIN q : IsLine(q[i]) /\ IsLine(x) => Before(q[i], x)
  BY <1>1, ReadOn, ReadBefore
<1>2. IsLine(x) => x.number <= IF x.stream = "out" THEN o2 ELSE e2
  BY DEF Line
<1>3. Ascending(message') /\ AllRead(message', o2, e2)
  <2>1. AllRead(message, o, e) /\ Ascending(message)
    BY DEF ScrollWith
  <2>2. AllRead(message, o2, e2) /\ Ascending(Append(message, x))
    BY <1>0, <1>1, <2>1, AscendingAppend
  <2>3. AllRead(Append(message, x), o2, e2)
    BY <1>0, <1>2, <2>2, Appended DEF AllRead
  <2> QED  BY <2>1, <2>2, <2>3
<1>4. ASSUME NEW q \in Seq(Texts), AllRead(q, o, e), Precedes(q, message)
      PROVE  Precedes(q, message')
  <2>1. Precedes(q, Append(message, x))
    BY <1>0, <1>1, <1>4, Appended DEF Precedes
  <2> QED  BY <1>4, <2>1
<1>5. More' = More /\ Alone' = Alone
  BY DEF More, Alone
<1>6. AllRead(shown, o2, e2) /\ \A p \in Polls : AllRead(poll[p].got, o2, e2)
  BY <1>0, <1>1 DEF ScrollWith
<1>7. More' => Precedes(shown, message') /\ \A p \in Polls : Precedes(poll[p].got, message')
  BY <1>0, <1>4, <1>5 DEF ScrollWith
<1> QED  BY <1>3, <1>5, <1>6, <1>7 DEF ScrollWith

(* What a step of a poll that takes no line has to leave behind.           *)
LEMMA PollScrolls ==
  ASSUME TypeInv, NEW o \in Nat, NEW e \in Nat, ScrollWith(o, e), Alone', UNCHANGED <<message, shown>>,
         \A q \in Polls : poll'[q].got = poll[q].got \/ poll'[q].got = <<>>,
         More' => More
  PROVE  ScrollWith(o, e)'
<1>1. \A q \in Polls : /\ Ascending(poll'[q].got) /\ AllRead(poll'[q].got, o, e)
                       /\ Precedes(shown, poll'[q].got)
  BY NothingFollows DEF ScrollWith
<1>2. More' => Precedes(shown, message) /\ \A q \in Polls : Precedes(poll'[q].got, message)
  BY NothingFollows DEF ScrollWith
<1> QED  BY <1>1, <1>2 DEF ScrollWith

(* A poll that overlaps no other keeps the lines ascending.                *)
LEMMA HttpThreadScroll ==
  ASSUME TypeInv, GotInv, NEW o \in Nat, NEW e \in Nat, ScrollWith(o, e),
         NEW p \in Polls, HttpThread(p), ~overlapped'
  PROVE  ScrollWith(o, e)'
<1>0. /\ poll \in [Polls -> PollType]
      /\ message \in Seq(Texts) /\ shown \in Seq(Texts)
      /\ \A q \in Polls : poll[q].got \in Seq(Texts)
  BY ScrollTypes
<1>1. \A q \in Polls \ {p} : poll'[q] = poll[q]
  BY <1>0 DEF HttpThread, Ask, lGet, lGetListSize, lPop, TakeHead, Receives, ShowRunning,
              ShowComplete, ShowFailure
<1>2. Alone'
  <2>1. CASE poll'[p].at = "idle"
    BY <1>1, <2>1 DEF ScrollWith, Alone
  <2>2. CASE poll[p].at # "idle"
    BY <1>1, <2>2 DEF ScrollWith, Alone
  <2>3. CASE Ask(p)
    BY <1>1, <2>3 DEF Ask, Alone
  <2>4. poll[p].at = "idle" /\ ~Ask(p) => poll'[p].at = "idle"
    BY <1>0 DEF HttpThread, lGet, lGetListSize, lPop, ShowRunning, ShowComplete, ShowFailure, Idle, Poll
  <2> QED  BY <2>1, <2>2, <2>3, <2>4
<1>3. ASSUME poll[p].at # "COMPLETE", page = "polling" \/ poll[p].at # "idle" PROVE More' => More
  BY <1>1, <1>3 DEF More
<1>4. CASE Ask(p) \/ lGetListSize(p)
  <2>1. /\ UNCHANGED <<message, shown>> /\ poll'[p].got = <<>>
        /\ poll[p].at # "COMPLETE" /\ (page = "polling" \/ poll[p].at # "idle")
    BY <1>0, <1>4 DEF Ask, lGetListSize, Poll
  <2> QED  BY <1>1, <1>2, <1>3, <2>1, PollScrolls
<1>5. CASE lGet(p)
  <2>1. UNCHANGED <<message, shown>> /\ poll[p].at = "complete"
    BY <1>5 DEF lGet
  <2>2. CASE poll'[p].got = <<>>
    BY <1>1, <1>2, <1>3, <2>1, <2>2, PollScrolls
  <2>3. CASE poll'[p].got = message /\ poll'[p].at = "COMPLETE"
    <3>1. More /\ ~More'
      BY <2>1, <2>3 DEF More, ScrollWith, Alone
    <3>2. \A q \in Polls : /\ Ascending(poll'[q].got) /\ AllRead(poll'[q].got, o, e)
                           /\ Precedes(shown, poll'[q].got)
      BY <1>1, <2>3, <3>1 DEF ScrollWith
    <3> QED  BY <1>2, <2>1, <3>1, <3>2 DEF ScrollWith
  <2> QED  BY <1>0, <1>5, <2>2, <2>3 DEF lGet, Poll
<1>6. CASE lPop(p)
  <2>1. /\ shown' = shown /\ poll[p].at = "popping" /\ page' = page
        /\ (\/ Receives(p, Null) /\ (TakeHead \/ message' = message)
            \/ Receives(p, Head(message)) /\ TakeHead)
    BY <1>6 DEF lPop
  <2>2. More /\ Precedes(shown, message) /\ Precedes(poll[p].got, message)
    BY <2>1 DEF More, ScrollWith, Alone
  <2>3. PICK text \in Texts :
          /\ poll'[p].got = Append(poll[p].got, text)
          /\ text = Null \/ (text = Head(message) /\ TakeHead)
    <3>1. Null \in Texts /\ (message # <<>> => Head(message) \in Texts)
      BY <1>0, HeadTail DEF Texts
    <3>2. ASSUME NEW text, Receives(p, text) PROVE poll'[p].got = Append(poll[p].got, text)
      BY <1>0, <3>2 DEF Receives, Poll
    <3>3. PICK text \in Texts : Receives(p, text) /\ (text = Null \/ (text = Head(message) /\ TakeHead))
      <4>1. CASE Receives(p, Null)
        BY <3>1, <4>1
      <4>2. CASE Receives(p, Head(message)) /\ TakeHead
        BY <3>1, <4>2 DEF TakeHead
      <4> QED  BY <2>1, <4>1, <4>2
    <3> QED  BY <3>2, <3>3
  <2>4. TakeHead \/ message' = message
    BY <2>1
  <2>5. ~IsLine(Null)
    BY DEF IsLine, Null, Line, Streams
  <2>6. TakeHead => /\ message # <<>> /\ message' = Tail(message)
                    /\ 1 \in DOMAIN message /\ Head(message) = message[1]
                    /\ \A i \in DOMAIN Tail(message) : /\ i + 1 \in DOMAIN message
                                                       /\ Tail(message)[i] = message[i + 1]
    BY <1>0, TailOf DEF TakeHead
  <2>7. IsLine(text) => TakeHead /\ text = message[1]
    BY <2>3, <2>5, <2>6
  <2>8. Ascending(message') /\ AllRead(message', o, e)
    <3>1. CASE TakeHead
      BY <1>0, <2>6, <3>1, AscendingTail DEF ScrollWith, AllRead
    <3> QED  BY <2>4, <3>1 DEF ScrollWith
  <2>9. Ascending(poll'[p].got)
    <3>1. \A i \in DOMAIN poll[p].got : IsLine(poll[p].got[i]) /\ IsLine(text) => Before(poll[p].got[i], text)
      BY <2>2, <2>6, <2>7 DEF Precedes
    <3>2. Ascending(poll[p].got)
      BY DEF ScrollWith
    <3> QED  BY <1>0, <2>3, <3>1, <3>2, AscendingAppend
  <2>10. \A i \in DOMAIN poll'[p].got : poll'[p].got[i] = text \/ \E k \in DOMAIN poll[p].got : poll'[p].got[i] = poll[p].got[k]
    BY <1>0, <2>3, Appended
  <2>11. AllRead(poll'[p].got, o, e) /\ Precedes(shown, poll'[p].got)
    <3>1. AllRead(poll[p].got, o, e) /\ Precedes(shown, poll[p].got) /\ AllRead(message, o, e)
      BY DEF ScrollWith
    <3>2. AllRead(poll'[p].got, o, e)
      BY <2>6, <2>7, <2>10, <3>1 DEF AllRead
    <3>3. Precedes(shown, poll'[p].got)
      BY <2>2, <2>6, <2>7, <2>10, <3>1 DEF Precedes
    <3> QED  BY <3>2, <3>3
  <2>12. Precedes(shown, message') /\ Precedes(poll'[p].got, message')
    <3>1. CASE message' = message /\ ~TakeHead
      <4>1. ~IsLine(text)
        BY <2>7, <3>1
      <4> QED  BY <2>2, <2>10, <3>1, <4>1 DEF Precedes
    <3>2. CASE TakeHead
      <4>1. \A j \in DOMAIN message' : IsLine(message[1]) /\ IsLine(message'[j]) => Before(message[1], message'[j])
        BY <1>0, <2>6, <3>2, AscendingTail DEF ScrollWith
      <4>2. Precedes(shown, message')
        BY <2>2, <2>6, <3>2 DEF Precedes
      <4>3. Precedes(poll[p].got, message')
        BY <2>2, <2>6, <3>2 DEF Precedes
      <4> QED  BY <2>7, <2>10, <4>1, <4>2, <4>3 DEF Precedes
    <3> QED  BY <2>4, <3>1, <3>2
  <2>13. \A q \in Polls \ {p} : poll'[q].got = <<>>
    BY <1>1, <2>1 DEF ScrollWith, Alone, GotInv
  <2>14. \A q \in Polls : /\ Ascending(poll'[q].got) /\ AllRead(poll'[q].got, o, e)
                          /\ Precedes(shown, poll'[q].got) /\ Precedes(poll'[q].got, message')
    BY <2>9, <2>11, <2>12, <2>13, NothingFollows
  <2> QED  BY <1>2, <2>1, <2>8, <2>12, <2>14 DEF ScrollWith
<1>7. CASE ShowRunning(p) \/ ShowComplete(p)
  <2>1. /\ message' = message /\ shown' = shown \o poll[p].got /\ poll[p].at \in {"popping", "COMPLETE"}
        /\ poll'[p].at = "idle" /\ poll'[p].got = <<>>
        /\ poll[p].at = "COMPLETE" => page' = "stopped"
    BY <1>0, <1>7 DEF ShowRunning, ShowComplete, Idle, Poll
  <2>2. \A q \in Polls : poll'[q].at = "idle" /\ poll'[q].got = <<>>
    BY <1>1, <2>1 DEF ScrollWith, Alone, GotInv
  <2>3. Ascending(shown') /\ AllRead(shown', o, e)
    <3>1. /\ Ascending(shown) /\ AllRead(shown, o, e) /\ Ascending(poll[p].got)
          /\ AllRead(poll[p].got, o, e) /\ Precedes(shown, poll[p].got)
      BY DEF ScrollWith
    <3>2. Ascending(shown \o poll[p].got)
      BY <1>0, <3>1, AscendingJoin
    <3>3. AllRead(shown \o poll[p].got, o, e)
      BY <1>0, <3>1, Joined DEF AllRead
    <3> QED  BY <2>1, <3>2, <3>3
  <2>4. More' => Precedes(shown', message)
    <3>1. More' => More
      BY <1>3, <2>1, <2>2 DEF More
    <3>2. More => Precedes(shown, message) /\ Precedes(poll[p].got, message)
      BY DEF ScrollWith
    <3>3. Precedes(shown, message) /\ Precedes(poll[p].got, message) => Precedes(shown \o poll[p].got, message)
      BY <1>0, Joined DEF Precedes
    <3> QED  BY <2>1, <3>1, <3>2, <3>3
  <2> QED  BY <1>2, <2>1, <2>2, <2>3, <2>4, NothingFollows DEF ScrollWith
<1>8. CASE ShowFailure(p)
  <2>1. /\ UNCHANGED <<message, shown>> /\ page' = "stopped"
        /\ poll'[p].at = "idle" /\ poll'[p].got = <<>>
        /\ poll[p].at # "idle" \/ page = "polling"
    BY <1>0, <1>8 DEF ShowFailure, Idle, Poll
  <2>2. CASE poll[p].at = "COMPLETE"
    <3>1. ~More'
      BY <1>1, <2>1, <2>2 DEF More, ScrollWith, Alone
    <3> QED  BY <1>1, <1>2, <2>1, <3>1, PollScrolls
  <2>3. CASE poll[p].at # "COMPLETE"
    BY <1>1, <1>2, <1>3, <2>1, <2>3, PollScrolls
  <2> QED  BY <2>2, <2>3
<1> QED  BY <1>4, <1>5, <1>6, <1>7, <1>8 DEF HttpThread

(* The lines are ascending until polls overlap.                            *)
ScrollInv == GotInv /\ (~overlapped => Scroll)

LEMMA ScrollInvariant == Spec => []ScrollInv
<1>1. Init => ScrollInv
  <2> SUFFICES ASSUME Init PROVE Scroll
    BY GotInvariant DEF ScrollInv
  <2>1. /\ shown = <<>> /\ \A p \in Polls : poll[p].at = "idle" /\ poll[p].got = <<>>
        /\ message = <<>> \/ message = <<Old>>
    BY DEF Init, Idle, Poll
  <2>2. ~IsLine(Old)
    BY DEF IsLine, Old, Line, Streams
  <2>3. \A o, e : Ascending(message) /\ AllRead(message, o, e)
    <3>1. CASE message = <<Old>>
      <4>1. \A i \in DOMAIN message : message[i] = Old
        BY <3>1
      <4> QED  BY <2>2, <4>1 DEF Ascending, AllRead
    <3> QED  BY <2>1, <3>1, NothingFollows
  <2>4. Alone
    BY <2>1 DEF Alone
  <2> QED  BY <2>1, <2>3, <2>4, NothingFollows DEF Scroll, ScrollWith
<1>2. ASSUME TypeInv, ReadInv, ScrollInv, [Next]_vars PROVE ScrollInv'
  <2>1. GotInv'
    BY <1>2, GotInvariant DEF ScrollInv
  <2>2. ASSUME ~overlapped' PROVE Scroll'
    <3>1. Scroll /\ GotInv
      BY <1>2, <2>2, HistoryStep DEF ScrollInv, TypeInv
    <3>2. PICK o \in Nat, e \in Nat : o = Taken("out") /\ e = Taken("err")
      BY <1>2, TakenType
    <3>3. ScrollWith(o, e)
      BY <3>1, <3>2 DEF Scroll
    <3>4. /\ written \in [Streams -> Nat] /\ pipe \in [Streams -> 0 .. PipeSize]
          /\ \A r \in Streams : written[r] \in Nat /\ pipe[r] \in Nat
      BY <1>2, TakenType DEF TypeInv, TypeOK
    <3>5. ASSUME Taken("out")' = o, Taken("err")' = e, ScrollWith(o, e)' PROVE Scroll'
      BY <3>5 DEF Scroll, ScrollWith, More, Alone
    <3>6. CASE PushBlank
      <4>1. /\ UNCHANGED <<written, pipe, poll, page, shown>>
            /\ message' = message \/ message' = Append(message, Blank)
        BY <3>6 DEF PushBlank, rPush
      <4>2. Blank \in Texts /\ ~IsLine(Blank)
        BY DEF Blank, Line, IsLine, Streams, Texts, Messages
      <4>3. ScrollWith(o, e)'
        BY <1>2, <3>3, <4>1, <4>2, PushScroll
      <4> QED  BY <3>2, <3>5, <4>1, <4>3 DEF Taken
    <3>7. ASSUME NEW s \in Streams, putToRedis(s) PROVE Scroll'
      <4>1. PICK x \in Texts : x = Line(s, Taken(s) + 1)
        BY <1>2, <3>7, ReadLineType DEF putToRedis, Texts, Messages, Taken
      <4>2. PICK o2 \in Nat, e2 \in Nat : /\ o2 = IF s = "out" THEN o + 1 ELSE o
                                        /\ e2 = IF s = "err" THEN e + 1 ELSE e
        OBVIOUS
      <4>3. /\ rPush(x) /\ UNCHANGED <<poll, page, shown, written>>
            /\ pipe' = [pipe EXCEPT ![s] = @ - 1] /\ pipe[s] > 0 /\ handler = s
        BY <3>7, <4>1 DEF putToRedis, Taken
      <4>4. message' = message \/ message' = Append(message, x)
        BY <4>3 DEF rPush
      <4>5. Taken("out")' = o2 /\ Taken("err")' = e2
        <5>1. /\ pipe'["out"] = IF s = "out" THEN pipe["out"] - 1 ELSE pipe["out"]
              /\ pipe'["err"] = IF s = "err" THEN pipe["err"] - 1 ELSE pipe["err"]
          BY <3>4, <4>3 DEF Streams
        <5>2. /\ o = written["out"] - pipe["out"] /\ Taken("out")' = written["out"] - pipe'["out"]
              /\ e = written["err"] - pipe["err"] /\ Taken("err")' = written["err"] - pipe'["err"]
          BY <3>2, <4>3 DEF Taken
        <5>3. /\ written["out"] \in Nat /\ pipe["out"] \in Nat
              /\ written["err"] \in Nat /\ pipe["err"] \in Nat
          BY <3>4 DEF Streams
        <5> QED  BY <4>2, <5>1, <5>2, <5>3
      <4>6. \/ x = Line("out", o + 1) /\ e = 0 /\ o2 = o + 1
            \/ x = Line("err", e + 1) /\ e2 = e + 1
        BY <1>2, <3>2, <4>1, <4>2, <4>3 DEF ReadInv, Streams
      <4>7. o <= o2 /\ e <= e2
        BY <4>2
      <4>8. ScrollWith(o2, e2)'
        BY <1>2, <3>3, <4>3, <4>4, <4>6, <4>7, PushScroll
      <4> QED  BY <4>5, <4>8 DEF Scroll, ScrollWith, More, Alone
    <3>8. ASSUME NEW p \in Polls, HttpThread(p) PROVE Scroll'
      <4>1. ScrollWith(o, e)'
        BY <1>2, <2>2, <3>1, <3>3, <3>8, HttpThreadScroll
      <4>2. UNCHANGED <<written, pipe>>
        BY <3>8 DEF HttpThread, Ask, lGet, lGetListSize, lPop, ShowRunning, ShowComplete, ShowFailure
      <4> QED  BY <3>2, <3>5, <4>1, <4>2 DEF Taken
    <3>9. ASSUME NEW s \in Streams, Writes(s) PROVE Scroll'
      <4>1. Taken("out")' = o /\ Taken("err")' = e
        BY <3>2, <3>4, <3>9 DEF Writes, Taken, Streams
      <4>2. UNCHANGED <<message, poll, page, shown>>
        BY <3>9 DEF Writes
      <4>3. ScrollWith(o, e)'
        BY <3>3, <4>2 DEF ScrollWith, More, Alone
      <4> QED  BY <3>5, <4>1, <4>3
    <3>10. CASE \/ ProcessClient \/ FlagExpires \/ OthersFlag \/ UNCHANGED vars \/ Exits \/ expire
                \/ \E s \in Streams : CallsWrite(s) \/ EndOfStream(s)
      <4>1. UNCHANGED <<written, pipe, message, poll, page, shown>>
        BY <3>10 DEF ProcessClient, putFlag, StartProcess, ExecFails, StopWaiting, FlagExpires,
                     OthersFlag, vars, Exits, expire, CallsWrite, EndOfStream
      <4> QED  BY <3>1, <4>1 DEF Scroll, ScrollWith, Taken, More, Alone
    <3>11. CASE MessagesExpire
      <4>1. UNCHANGED <<written, pipe, poll, page, shown>> /\ message' = <<>>
        BY <3>11 DEF MessagesExpire
      <4>2. ScrollWith(o, e)'
        BY <3>3, <4>1, NothingFollows DEF ScrollWith, More, Alone
      <4> QED  BY <3>2, <3>5, <4>1, <4>2 DEF Taken
    <3> QED  BY <1>2, <3>6, <3>7, <3>8, <3>9, <3>10, <3>11 DEF Next, Maven, StreamHandler
  <2> QED  BY <2>1, <2>2 DEF ScrollInv
<1>3. Spec => []ReadInv
  <2>1. OrderInv => ReadInv
    BY DEF OrderInv
  <2> QED  BY <2>1, OrderInvariant, PTL
<1> QED  BY <1>1, <1>2, <1>3, TypeInvariant, PTL DEF Spec

(* However redis and the network fail, the page that has had one poll at a *)
(* time shows no line of maven's twice or before one that was read         *)
(* earlier.  If nothing has failed it shows what an earlier download has   *)
(* left, the blank line, and then maven's stdout and stderr without a gap: *)
(* for any number of lines and any size of the pipes.                      *)
THEOREM LinesAreInOrder == Spec => []ShownInOrder
<1>1. ASSUME TypeInv, ReadInv, NEW n \in Nat, Order(n)
      PROVE  \E k \in 0 .. Len(shown) :
               /\ \A i \in 1 .. k : ~IsLine(shown[i])
               /\ \A i \in k + 1 .. Len(shown) : i - k \in DOMAIN Output /\ shown[i] = Output[i - k]
  <2> USE <1>1
  <2>1. PICK o \in Nat, e \in Nat : o = Taken("out") /\ e = Taken("err")
    BY TakenType
  <2>2. Follows(n, shown, 0, o, e)
    BY <2>1 DEF Order, OrderWith
  <2>3. Len(shown) \in Nat
    BY DEF TypeInv, TypeOK
  <2>4. /\ written["out"] \in Nat /\ written["err"] \in Nat
        /\ o <= written["out"] /\ e <= written["err"]
        /\ e > 0 => o = written["out"]
    <3>1. /\ written["out"] \in Nat /\ written["err"] \in Nat
          /\ pipe["out"] \in Nat /\ pipe["err"] \in Nat
      BY TakenType DEF Streams
    <3>2. e > 0 => pipe["out"] = 0
      BY <2>1 DEF ReadInv, TypeInv, TypeOK, Streams
    <3> QED  BY <2>1, <3>1, <3>2 DEF Taken
  <2>5. ASSUME NEW i \in 1 .. Len(shown)
        PROVE  /\ i <= n => ~IsLine(shown[i])
               /\ i > n => i - n <= o + e /\ shown[i] = Nth(i - n, o)
    <3>1. Right(n, 0 + i, shown[i], o, e) /\ 0 + i = i
      BY <2>2, <2>3 DEF Follows
    <3> QED  BY <2>3, <3>1 DEF Right
  <2>6. ASSUME NEW k \in Nat \ {0}, k <= o + e
        PROVE  k \in DOMAIN Output /\ Output[k] = Nth(k, o)
    <3>1. k \in 1 .. written["out"] + written["err"]
      BY <2>4, <2>6
    <3>2. DOMAIN Output = 1 .. written["out"] + written["err"]
      BY DEF Output
    <3>3. Output[k] = IF k <= written["out"] THEN Line("out", k) ELSE Line("err", k - written["out"])
      BY <3>1 DEF Output
    <3>4. k <= o <=> k <= written["out"]
      BY <2>4, <2>6
    <3>5. k > o => o = written["out"]
      BY <2>4, <2>6
    <3> QED  BY <2>4, <3>1, <3>2, <3>3, <3>4, <3>5 DEF Nth
  <2>7. CASE n <= Len(shown)
    <3>1. \A i \in 1 .. n : ~IsLine(shown[i])
      BY <2>3, <2>5, <2>7
    <3>2. ASSUME NEW i \in n + 1 .. Len(shown)
          PROVE  i - n \in DOMAIN Output /\ shown[i] = Output[i - n]
      <4>1. i \in 1 .. Len(shown) /\ i > n /\ i - n \in Nat \ {0}
        BY <2>3
      <4> QED  BY <2>5, <2>6, <4>1
    <3>3. n \in 0 .. Len(shown)
      BY <2>3, <2>7
    <3> QED  BY <3>1, <3>2, <3>3
  <2>8. CASE n > Len(shown)
    <3>1. \A i \in 1 .. Len(shown) : ~IsLine(shown[i])
      BY <2>3, <2>5, <2>8
    <3>2. Len(shown) \in 0 .. Len(shown) /\ Len(shown) + 1 .. Len(shown) = {}
      BY <2>3
    <3> QED  BY <3>1, <3>2
  <2> QED  BY <2>3, <2>7, <2>8
<1>2. TypeInv /\ OrderInv /\ ScrollInv => ShownInOrder
  BY <1>1 DEF OrderInv, ScrollInv, Scroll, ScrollWith, ShownInOrder
<1> QED  BY <1>2, TypeInvariant, OrderInvariant, ScrollInvariant, PTL

-----------------------------------------------------------------------------
(* No line is lost                                                         *)

(* What occurs in a sequence occurs in a longer one, and in one of two     *)
(* parts.                                                                  *)
LEMMA OccursAppend ==
  ASSUME NEW q \in Seq(Texts), NEW x \in Texts, NEW line
  PROVE  /\ Occurs(line, q) => Occurs(line, Append(q, x))
         /\ Occurs(x, Append(q, x))
<1>1. /\ Len(q) \in Nat /\ DOMAIN Append(q, x) = 1 .. Len(q) + 1 /\ DOMAIN q = 1 .. Len(q)
      /\ \A i \in 1 .. Len(q) : Append(q, x)[i] = q[i]
      /\ Append(q, x)[Len(q) + 1] = x
  OBVIOUS
<1>2. ASSUME NEW i \in DOMAIN q, q[i] = line PROVE Occurs(line, Append(q, x))
  <2>1. i \in DOMAIN Append(q, x) /\ Append(q, x)[i] = line
    BY <1>1, <1>2
  <2> QED  BY <2>1 DEF Occurs
<1>3. Len(q) + 1 \in DOMAIN Append(q, x)
  BY <1>1
<1> QED  BY <1>1, <1>2, <1>3 DEF Occurs

LEMMA OccursJoin ==
  ASSUME NEW q \in Seq(Texts), NEW r \in Seq(Texts), NEW line,
         Occurs(line, q) \/ Occurs(line, r)
  PROVE  Occurs(line, q \o r)
<1>1. /\ Len(q) \in Nat /\ Len(r) \in Nat /\ DOMAIN (q \o r) = 1 .. Len(q) + Len(r)
      /\ DOMAIN q = 1 .. Len(q) /\ DOMAIN r = 1 .. Len(r)
      /\ \A i \in 1 .. Len(q) : (q \o r)[i] = q[i]
      /\ \A i \in 1 .. Len(r) : (q \o r)[Len(q) + i] = r[i]
  OBVIOUS
<1>2. ASSUME NEW i \in DOMAIN q, q[i] = line PROVE Occurs(line, q \o r)
  <2>1. i \in DOMAIN (q \o r) /\ (q \o r)[i] = line
    BY <1>1, <1>2
  <2> QED  BY <2>1 DEF Occurs
<1>3. ASSUME NEW i \in DOMAIN r, r[i] = line PROVE Occurs(line, q \o r)
  <2>1. Len(q) + i \in DOMAIN (q \o r) /\ (q \o r)[Len(q) + i] = line
    BY <1>1, <1>3
  <2> QED  BY <2>1 DEF Occurs
<1> QED  BY <1>2, <1>3 DEF Occurs

LEMMA OccursTail ==
  ASSUME NEW q \in Seq(Texts), q # <<>>, NEW line, Occurs(line, q)
  PROVE  line = Head(q) \/ Occurs(line, Tail(q))
<1>1. PICK i \in DOMAIN q : q[i] = line
  BY DEF Occurs
<1>2. /\ Len(q) \in Nat /\ i \in 1 .. Len(q) /\ Head(q) = q[1]
      /\ DOMAIN Tail(q) = 1 .. Len(q) - 1
      /\ \A k \in 1 .. Len(q) - 1 : Tail(q)[k] = q[k + 1]
  OBVIOUS
<1>3. CASE i = 1
  BY <1>1, <1>2, <1>3
<1>4. CASE i # 1
  <2>1. i - 1 \in DOMAIN Tail(q) /\ i - 1 + 1 = i
    BY <1>2, <1>4
  <2>2. Tail(q)[i - 1] = line
    BY <1>1, <1>2, <2>1
  <2> QED  BY <2>1, <2>2 DEF Occurs
<1> QED  BY <1>3, <1>4

(* A poll's step moves lines on, from the list into its hands and from     *)
(* there to the page, or loses them by a fault.                            *)
LEMMA HttpThreadKeeps ==
  ASSUME TypeInv, GotInv, NEW p \in Polls, HttpThread(p), NEW line, Placed(line)
  PROVE  Placed(line)' \/ Loses(line)
<1>0. /\ poll \in [Polls -> PollType] /\ message \in Seq(Texts)
      /\ poll[p].got \in Seq(Texts) /\ shown \in Seq(Texts)
      /\ ~Occurs(line, <<>>) /\ Null \in Texts
  BY MessagesAreTexts DEF TypeInv, TypeOK, PollType, Occurs, Texts
<1>1. \A q \in Polls \ {p} : poll'[q].got = poll[q].got
  BY <1>0 DEF HttpThread, Ask, lGet, lGetListSize, lPop, TakeHead, Receives, ShowRunning, ShowComplete, ShowFailure
<1>2. CASE Ask(p) \/ lGet(p) \/ lGetListSize(p)
  <2>1. UNCHANGED <<message, shown>> /\ poll[p].at \in {"idle", "running", "complete"}
    BY <1>2 DEF Ask, lGet, lGetListSize
  <2>2. poll[p].got = <<>>
    BY <2>1 DEF GotInv
  <2> QED  BY <1>0, <1>1, <2>1, <2>2 DEF Placed
<1>3. CASE lPop(p)
  <2>0. shown' = shown
    BY <1>3 DEF lPop
  <2>1. PICK text \in Texts : poll'[p].got = Append(poll[p].got, text) /\ Receives(p, text)
    <3>1. message # <<>> => Head(message) \in Texts
      BY <1>0, HeadTail
    <3>2. PICK text \in Texts : Receives(p, text)
      BY <1>0, <1>3, <3>1 DEF lPop, TakeHead
    <3> QED  BY <1>0, <3>2 DEF Receives, Poll
  <2>2. Occurs(line, poll[p].got) => Occurs(line, poll'[p].got)
    BY <1>0, <2>1, OccursAppend
  <2>3. CASE message' = message
    BY <1>1, <2>0, <2>2, <2>3 DEF Placed
  <2>4. CASE TakeHead
    <3>1. Occurs(line, message) => line = Head(message) \/ Occurs(line, message')
      BY <1>0, <2>4, OccursTail DEF TakeHead
    <3>2. CASE line = Head(message)
      <4>1. CASE Fault
        BY <1>3, <3>2, <4>1 DEF Loses
      <4>2. CASE ~Fault
        <5>1. Receives(p, Head(message))
          BY <1>3, <2>4, <4>2 DEF lPop, TakeHead
        <5>2. poll'[p].got = Append(poll[p].got, Head(message)) /\ Head(message) \in Texts
          BY <1>0, <2>4, <5>1, HeadTail DEF Receives, Poll, TakeHead
        <5>3. Occurs(line, poll'[p].got)
          BY <1>0, <3>2, <5>2, OccursAppend
        <5> QED  BY <5>3 DEF Placed
      <4> QED  BY <4>1, <4>2
    <3>3. CASE line # Head(message)
      BY <1>1, <2>0, <2>2, <3>1, <3>3 DEF Placed
    <3> QED  BY <3>2, <3>3
  <2> QED  BY <1>3, <2>3, <2>4 DEF lPop
<1>4. CASE ShowRunning(p) \/ ShowComplete(p)
  <2>1. message' = message /\ shown' = shown \o poll[p].got
    BY <1>4 DEF ShowRunning, ShowComplete
  <2>2. Occurs(line, shown) \/ Occurs(line, poll[p].got) => Occurs(line, shown')
    BY <1>0, <2>1, OccursJoin
  <2> QED  BY <1>1, <2>1, <2>2 DEF Placed
<1>5. CASE ShowFailure(p)
  <2>1. UNCHANGED <<message, shown>>
    BY <1>5 DEF ShowFailure
  <2>2. CASE Occurs(line, poll[p].got)
    <3>1. Fault
      BY <1>0, <1>5, <2>2 DEF ShowFailure, GotInv
    <3> QED  BY <1>5, <2>2, <3>1 DEF Loses
  <2>3. CASE ~Occurs(line, poll[p].got)
    BY <1>1, <2>1, <2>3 DEF Placed
  <2> QED  BY <2>2, <2>3
<1> QED  BY <1>2, <1>3, <1>4, <1>5 DEF HttpThread

(* What LinesKept says of a step.                                          *)
Kept == \A s \in Streams : \A k \in 1 .. Taken(s)' :
          \/ Placed(Line(s, k))'
          \/ k <= Taken(s) /\ ~Placed(Line(s, k))
          \/ Loses(Line(s, k))

LEMMA LinesStay ==
  ASSUME TypeInv, GotInv, [Next]_vars
  PROVE  [Kept]_vars
<1> SUFFICES ASSUME Next PROVE Kept
  OBVIOUS
<1>0. /\ message \in Seq(Texts) /\ Blank \in Texts
      /\ written \in [Streams -> Nat] /\ pipe \in [Streams -> 0 .. PipeSize]
      /\ \A r \in Streams : written[r] \in Nat /\ pipe[r] \in Nat /\ Taken(r) \in Nat
  BY MessagesAreTexts, TakenType DEF TypeInv, TypeOK, Texts, Messages
<1>1. CASE \/ ProcessClient \/ FlagExpires \/ OthersFlag \/ Exits \/ expire
           \/ \E s \in Streams : CallsWrite(s) \/ EndOfStream(s)
  <2>1. UNCHANGED <<written, pipe, message, poll, shown>>
    BY <1>1 DEF ProcessClient, putFlag, StartProcess, ExecFails, StopWaiting, FlagExpires,
                OthersFlag, Exits, expire, CallsWrite, EndOfStream
  <2>2. \A line : Placed(line)' <=> Placed(line)
    BY <2>1 DEF Placed
  <2>3. \A s \in Streams : Taken(s)' = Taken(s)
    BY <2>1 DEF Taken
  <2> QED  BY <1>0, <2>2, <2>3 DEF Kept
<1>2. ASSUME NEW s \in Streams, Writes(s) PROVE Kept
  <2>1. UNCHANGED <<message, poll, shown>>
    BY <1>2 DEF Writes
  <2>2. \A line : Placed(line)' <=> Placed(line)
    BY <2>1 DEF Placed
  <2>3. \A r \in Streams : Taken(r)' = Taken(r)
    BY <1>0, <1>2 DEF Writes, Taken
  <2> QED  BY <1>0, <2>2, <2>3 DEF Kept
<1>3. CASE PushBlank
  <2>1. /\ UNCHANGED <<written, pipe, poll, shown>>
        /\ message' = message \/ message' = Append(message, Blank)
    BY <1>3 DEF PushBlank, rPush
  <2>2. \A line : Placed(line) => Placed(line)'
    BY <1>0, <2>1, OccursAppend DEF Placed
  <2>3. \A s \in Streams : Taken(s)' = Taken(s)
    BY <2>1 DEF Taken
  <2> QED  BY <1>0, <2>2, <2>3 DEF Kept
<1>4. ASSUME NEW s \in Streams, putToRedis(s) PROVE Kept
  <2>1. PICK x \in Texts : x = Line(s, Taken(s) + 1)
    BY <1>4, ReadLineType DEF putToRedis, Texts, Messages, Taken
  <2>2. /\ UNCHANGED <<written, poll, shown>>
        /\ message' = Append(message, x) \/ (message' = message /\ Fault)
        /\ pipe' = [pipe EXCEPT ![s] = @ - 1]
    <3>1. rPush(x) /\ UNCHANGED <<written, poll, shown>> /\ pipe' = [pipe EXCEPT ![s] = @ - 1]
      BY <1>4, <2>1 DEF putToRedis, Taken
    <3> QED  BY <3>1 DEF rPush
  <2>3. \A line : Placed(line) => Placed(line)'
    BY <1>0, <2>2, OccursAppend DEF Placed
  <2>4. Placed(x)' \/ Fault
    BY <1>0, <2>2, OccursAppend DEF Placed
  <2>5. \A r \in Streams : Taken(r)' = IF r = s THEN Taken(r) + 1 ELSE Taken(r)
    BY <1>0, <2>2 DEF Taken
  <2>6. ASSUME NEW r \in Streams, NEW k \in 1 .. Taken(r)'
        PROVE  \/ Placed(Line(r, k))'
               \/ k <= Taken(r) /\ ~Placed(Line(r, k))
               \/ Loses(Line(r, k))
    <3>1. CASE k <= Taken(r)
      BY <2>3, <3>1
    <3>2. CASE ~(k <= Taken(r))
      <4>1. r = s /\ k = Taken(s) + 1
        <5>1. k \in 1 .. IF r = s THEN Taken(r) + 1 ELSE Taken(r)
          BY <2>5
        <5> QED  BY <1>0, <3>2, <5>1
      <4>2. k = (written[r] - pipe[r])'
        BY <1>0, <2>5, <4>1 DEF Taken
      <4>3. Fault => Loses(Line(r, k))
        BY <1>4, <4>1, <4>2 DEF Loses
      <4> QED  BY <2>1, <2>4, <4>1, <4>3
    <3> QED  BY <3>1, <3>2
  <2> QED  BY <2>6 DEF Kept
<1>5. ASSUME NEW p \in Polls, HttpThread(p) PROVE Kept
  <2>1. \A line : Placed(line) => Placed(line)' \/ Loses(line)
    BY <1>5, HttpThreadKeeps
  <2>2. UNCHANGED <<written, pipe>>
    BY <1>5 DEF HttpThread, Ask, lGet, lGetListSize, lPop, TakeHead, ShowRunning, ShowComplete, ShowFailure
  <2>3. \A s \in Streams : Taken(s)' = Taken(s)
    BY <2>2 DEF Taken
  <2> QED  BY <1>0, <2>1, <2>3 DEF Kept
<1>6. CASE MessagesExpire
  <2>1. UNCHANGED <<written, pipe, poll, shown>> /\ Fault
    BY <1>6 DEF MessagesExpire
  <2>2. \A line : Placed(line) => Placed(line)' \/ Loses(line)
    BY <1>6, <2>1 DEF Placed, Loses
  <2>3. \A s \in Streams : Taken(s)' = Taken(s)
    BY <2>1 DEF Taken
  <2> QED  BY <1>0, <2>2, <2>3 DEF Kept
<1> QED  BY <1>1, <1>2, <1>3, <1>4, <1>5, <1>6 DEF Next, Maven, StreamHandler

(* A line that has left its pipe is in the list, in the hands of a poll or *)
(* on the page, unless a push that redis refuses, a pop that answers null, *)
(* an answer that is lost or the list's expiry takes it, and none of these *)
(* takes another line than its own: however many polls overlap, and for    *)
(* any number of faults.                                                   *)
THEOREM NoLineIsLost == Spec => LinesKept
<1>1. Init => GotInv
  BY GotInvariant
<1>2. TypeInv /\ GotInv /\ [Next]_vars => GotInv' /\ [Kept]_vars
  BY GotInvariant, LinesStay
<1>3. Spec => [][Kept]_vars
  BY <1>1, <1>2, TypeInvariant, PTL DEF Spec
<1> QED  BY <1>3 DEF LinesKept, Kept, Taken

-----------------------------------------------------------------------------
(* The last answer                                                         *)

(* Until something fails, a line that has left its pipe is somewhere.      *)
AllPlaced == \A s \in Streams : \A k \in 1 .. Taken(s) : Placed(Line(s, k))

(* What is known of the state the last answer is made in.                  *)
AnswerInv == /\ TypeInv
             /\ OrderInv
             /\ GotInv
             /\ ~disturbed => ListInv /\ AllPlaced

LEMMA AnswerInvariant == Spec => []AnswerInv
<1>1. Init => GotInv /\ AllPlaced
  <2>1. Init => AllPlaced
    BY DEF Init, AllPlaced, Taken
  <2> QED  BY <2>1, GotInvariant
<1>2. ASSUME TypeInv, GotInv, ~disturbed => AllPlaced, [Next]_vars, ~disturbed' PROVE AllPlaced'
  <2>1. AllPlaced /\ ~Fault
    BY <1>2, Undisturbed DEF TypeInv
  <2>2. CASE Kept
    BY <2>1, <2>2 DEF Kept, AllPlaced, Loses
  <2>3. CASE UNCHANGED vars
    BY <2>1, <2>3 DEF AllPlaced, Placed, Taken, vars
  <2> QED  BY <1>2, <2>2, <2>3, LinesStay
<1>3. TypeInv /\ GotInv /\ [Next]_vars => GotInv'
  BY GotInvariant
<1> QED  BY <1>1, <1>2, <1>3, TypeInvariant, OrderInvariant, ListInvariant, PTL DEF Spec, AnswerInv

(* An answer COMPLETE that is made after StreamHandler's end has, with     *)
(* what is shown, every line: the other polls are idle and have nothing.   *)
LEMMA AnswerHasAll ==
  ASSUME AnswerInv, handler = "over", ~disturbed, NEW p \in Polls, lGet(p), poll'[p].at = "COMPLETE"
  PROVE  HasAll(shown \o poll'[p].got)
<1>1. /\ poll \in [Polls -> PollType] /\ message \in Seq(Texts) /\ shown \in Seq(Texts)
      /\ poll[p].at = "complete"
  BY MessagesAreTexts DEF AnswerInv, TypeInv, TypeOK, lGet
<1>2. poll'[p].got = message
  BY <1>1 DEF lGet, Poll
<1>3. \A q \in Polls : poll[q].got = <<>>
  <2>1. \A q \in Polls : q = p \/ poll[q].at = "idle"
    BY <1>1 DEF AnswerInv, ListInv, Alone
  <2> QED  BY <1>1, <2>1 DEF AnswerInv, GotInv
<1>4. \A s \in Streams : Taken(s) = written[s]
  <2>1. pipe["out"] = 0 /\ pipe["err"] = 0
    BY DEF AnswerInv, OrderInv, ReadInv
  <2> QED  BY <2>1, TakenType DEF AnswerInv, Taken, Streams
<1>5. ASSUME NEW s \in Streams, NEW k \in 1 .. written[s]
      PROVE  Occurs(Line(s, k), shown \o message)
  <2>1. Placed(Line(s, k))
    BY <1>4 DEF AnswerInv, AllPlaced
  <2>2. Occurs(Line(s, k), message) \/ Occurs(Line(s, k), shown)
    BY <1>3, <2>1 DEF Placed, Occurs
  <2> QED  BY <1>1, <2>2, OccursJoin
<1> QED  BY <1>2, <1>5 DEF HasAll

(* The one step that makes the answer COMPLETE.                            *)
LEMMA OnlyGetAnswers ==
  ASSUME TypeInv, [Next]_vars, NEW p \in Polls, poll[p].at # "COMPLETE", poll'[p].at = "COMPLETE"
  PROVE  lGet(p)
<1>1. poll \in [Polls -> PollType]
  BY DEF TypeInv, TypeOK
<1>2. poll' # poll
  OBVIOUS
<1>3. PICK q \in Polls : HttpThread(q)
  BY <1>2 DEF Next, ProcessClient, putFlag, StartProcess, ExecFails, StopWaiting, Maven, CallsWrite,
              Writes, Exits, StreamHandler, PushBlank, expire, putToRedis, EndOfStream,
              FlagExpires, OthersFlag, MessagesExpire, vars
<1>4. q = p
  BY <1>1, <1>3 DEF HttpThread, Ask, lGet, lGetListSize, lPop, TakeHead, Receives, ShowRunning, ShowComplete, ShowFailure
<1> QED  BY <1>1, <1>3, <1>4 DEF HttpThread, Ask, lGetListSize, lPop, TakeHead, Receives, ShowRunning,
                                 ShowComplete, ShowFailure, Poll, Idle

(* Until polls overlap, a redis call or an answer fails or the list        *)
(* expires, an answer COMPLETE that is made after StreamHandler has come   *)
(* to its end has, with what the page shows already, every line maven has  *)
(* written.                                                                *)
THEOREM LateAnswerIsWhole == Spec => LateAnswerHasAll
<1>1. ASSUME AnswerInv, [Next]_vars, NEW p \in Polls,
             ReadInTime, poll'[p].at = "COMPLETE", ~disturbed
      PROVE  HasAll(shown \o poll'[p].got)
  <2>1. lGet(p)
    BY <1>1, OnlyGetAnswers DEF AnswerInv, ReadInTime
  <2> QED  BY <1>1, <2>1, AnswerHasAll DEF ReadInTime
<1> DEFINE Whole == \A p \in Polls : ReadInTime /\ poll'[p].at = "COMPLETE" /\ ~disturbed
                                       => HasAll(shown \o poll'[p].got)
<1>2. AnswerInv /\ [Next]_vars => [Whole]_vars
  BY <1>1
<1>3. Spec => [][Whole]_vars
  <2> HIDE DEF Whole
  <2> QED  BY <1>2, AnswerInvariant, PTL DEF Spec
<1> QED  BY <1>3 DEF LateAnswerHasAll

(* After StreamHandler's end the lines stay what they are, and are on the  *)
(* page or in the answer COMPLETE if there is one.                         *)
Answered == /\ handler = "over"
            /\ ~disturbed => \/ page = "polling" /\ \A p \in Polls : poll[p].at # "COMPLETE"
                             \/ HasAll(shown)
                             \/ \E p \in Polls : /\ poll[p].at = "COMPLETE"
                                                 /\ HasAll(shown \o poll[p].got)

(* What is shown stays shown.                                              *)
LEMMA ShownStays ==
  ASSUME AnswerInv, handler = "over", HasAll(shown), [Next]_vars
  PROVE  HasAll(shown)'
<1>1. written' = written
  BY DEF AnswerInv, OrderInv, ReadInv, Next, ProcessClient, putFlag, StartProcess, ExecFails,
         StopWaiting, Maven, CallsWrite, Writes, Exits, StreamHandler, PushBlank, expire,
         putToRedis, EndOfStream, FlagExpires, OthersFlag, MessagesExpire, HttpThread, Ask, lGet,
         lGetListSize, lPop, TakeHead, ShowRunning, ShowComplete, ShowFailure, vars, Streams
<1>2. shown' = shown \/ \E p \in Polls : shown' = shown \o poll[p].got
  BY DEF Next, ProcessClient, putFlag, StartProcess, ExecFails, StopWaiting, Maven, CallsWrite,
         Writes, Exits, StreamHandler, PushBlank, expire, putToRedis, EndOfStream, FlagExpires,
         OthersFlag, MessagesExpire, HttpThread, Ask, lGet, lGetListSize, lPop, TakeHead, ShowRunning,
         ShowComplete, ShowFailure, vars
<1>3. shown \in Seq(Texts) /\ \A p \in Polls : poll[p].got \in Seq(Texts)
  BY DEF AnswerInv, TypeInv, TypeOK, PollType
<1> QED  BY <1>1, <1>2, <1>3, OccursJoin DEF HasAll

LEMMA AnsweredStays ==
  ASSUME AnswerInv, Answered, [Next]_vars
  PROVE  Answered'
<1>0. poll \in [Polls -> PollType] /\ handler = "over"
  BY DEF AnswerInv, TypeInv, TypeOK, Answered
<1>1. handler' = "over" /\ written' = written
  BY <1>0 DEF AnswerInv, OrderInv, ReadInv, Next, ProcessClient, putFlag, StartProcess, ExecFails,
              StopWaiting, Maven, CallsWrite, Writes, Exits, StreamHandler, PushBlank, expire,
              putToRedis, EndOfStream, FlagExpires, OthersFlag, MessagesExpire, HttpThread, Ask,
              lGet, lGetListSize, lPop, TakeHead, ShowRunning, ShowComplete, ShowFailure, vars, Streams
<1> SUFFICES ASSUME ~disturbed'
    PROVE  \/ page' = "polling" /\ \A p \in Polls : poll'[p].at # "COMPLETE"
           \/ HasAll(shown)'
           \/ \E p \in Polls : poll'[p].at = "COMPLETE" /\ HasAll(shown \o poll[p].got)'
  BY <1>1 DEF Answered
<1>2. ~disturbed
  BY Undisturbed DEF AnswerInv, TypeInv
<1>00. ~Fault /\ \A p \in Polls : ~ShowFailure(p)
  BY <1>2, Undisturbed DEF AnswerInv, TypeInv, ListInv, ShowFailure
<1>3. CASE page = "polling" /\ \A p \in Polls : poll[p].at # "COMPLETE"
  <2>1. page' = "polling"
    BY <1>00, <1>3 DEF Next, ProcessClient, putFlag, StartProcess, ExecFails, StopWaiting, Maven,
                CallsWrite, Writes, Exits, StreamHandler, PushBlank, expire, putToRedis,
                EndOfStream, FlagExpires, OthersFlag, MessagesExpire, HttpThread, Ask, lGet,
                lGetListSize, lPop, TakeHead, ShowRunning, ShowComplete, vars
  <2>2. ASSUME NEW p \in Polls, poll'[p].at = "COMPLETE" PROVE HasAll(shown \o poll[p].got)'
    <3>1. lGet(p)
      BY <1>3, <2>2, OnlyGetAnswers DEF AnswerInv
    <3>2. HasAll(shown \o poll'[p].got) /\ shown' = shown
      BY <1>0, <1>2, <2>2, <3>1, AnswerHasAll DEF lGet
    <3> QED  BY <1>1, <3>2 DEF HasAll
  <2> QED  BY <2>1, <2>2
<1>4. CASE HasAll(shown)
  BY <1>0, <1>4, ShownStays
<1>5. ASSUME NEW p \in Polls, poll[p].at = "COMPLETE", HasAll(shown \o poll[p].got)
      PROVE  \/ HasAll(shown)'
             \/ poll'[p].at = "COMPLETE" /\ HasAll(shown \o poll[p].got)'
  <2>1. CASE poll' = poll /\ shown' = shown
    BY <1>1, <1>5, <2>1 DEF HasAll
  <2>2. ASSUME NEW q \in Polls, HttpThread(q)
        PROVE  HasAll(shown)'
    <3>1. q = p
      BY <1>2, <1>5, <2>2, OthersIdle DEF AnswerInv
    <3>2. ShowComplete(p)
      BY <1>00, <1>5, <2>2, <3>1 DEF HttpThread, Ask, lGet, lGetListSize, lPop, ShowRunning
    <3> QED  BY <1>1, <1>5, <3>2 DEF ShowComplete, HasAll
  <2>3. (poll' = poll /\ shown' = shown) \/ \E q \in Polls : HttpThread(q)
    BY DEF Next, ProcessClient, putFlag, StartProcess, ExecFails, StopWaiting, Maven, CallsWrite,
           Writes, Exits, StreamHandler, PushBlank, expire, putToRedis, EndOfStream, FlagExpires,
           OthersFlag, MessagesExpire, vars
  <2> QED  BY <2>1, <2>2, <2>3
<1> QED  BY <1>2, <1>3, <1>4, <1>5 DEF Answered

(* "if the task was done, get all message" (PomServiceImpl.java:260), as   *)
(* far as the code keeps it: if StreamHandler comes to its end before the  *)
(* answer COMPLETE is made, the page that it stops shows all of maven's    *)
(* lines, unless polls overlap, a redis call or an answer fails or the     *)
(* list expires.                                                           *)
LateAnswerShowsAll == [](ReadInTime => [](~disturbed /\ page = "stopped" => HasAll(shown)))

(* The page that stops after StreamHandler's end shows every line if no    *)
(* polls have overlapped and nothing has failed, for any number of lines   *)
(* and whatever other downloads do to the flag.                            *)
THEOREM LatePageShowsAll == Spec => LateAnswerShowsAll
<1>1. ReadInTime => Answered
  BY DEF ReadInTime, Answered
<1>2. AnswerInv /\ Answered /\ [Next]_vars => Answered'
  BY AnsweredStays
<1>3. AnswerInv /\ Answered => (~disturbed /\ page = "stopped" => HasAll(shown))
  <2> SUFFICES ASSUME AnswerInv, Answered, ~disturbed, page = "stopped"
      PROVE  HasAll(shown)
    OBVIOUS
  <2>1. PICK n \in Nat : Order(n)
    BY DEF AnswerInv, OrderInv
  <2>2. \A p \in Polls : poll[p].at = "idle"
    BY <2>1 DEF Order, OrderWith
  <2> QED  BY <2>2 DEF Answered
<1> QED  BY <1>1, <1>2, <1>3, AnswerInvariant, PTL DEF Spec, LateAnswerShowsAll

-----------------------------------------------------------------------------
(* Maven and the pipes                                                     *)

(* Maven writes no more than it has to, and not before its reader is with  *)
(* the pool.                                                               *)
HeldInv == /\ \A s \in Streams : maven = s => written[s] < MaxLines(s)
           /\ maven # "none" => handler # "none"

LEMMA HeldInvariant == Spec => []HeldInv
<1>1. Init => HeldInv
  BY DEF Init, HeldInv, Streams
<1>2. ASSUME TypeInv, HeldInv, [Next]_vars PROVE HeldInv'
  <2>1. CASE ProcessClient
    BY <1>2, <2>1 DEF ProcessClient, putFlag, StartProcess, ExecFails, StopWaiting, HeldInv, Streams
  <2>2. ASSUME NEW s \in Streams, CallsWrite(s) PROVE HeldInv'
    BY <1>2, <2>2 DEF CallsWrite, HeldInv, Streams
  <2>3. ASSUME NEW s \in Streams, Writes(s) PROVE HeldInv'
    BY <1>2, <2>3 DEF Writes, HeldInv, Streams
  <2>4. CASE Exits
    BY <1>2, <2>4 DEF Exits, HeldInv, Streams
  <2>5. CASE StreamHandler
    <3>1. UNCHANGED <<maven, written>> /\ (handler # "none" => handler' # "none")
      BY <2>5 DEF StreamHandler, PushBlank, expire, putToRedis, EndOfStream, Streams
    <3> QED  BY <1>2, <3>1 DEF HeldInv
  <2>6. CASE \/ FlagExpires \/ OthersFlag \/ MessagesExpire \/ UNCHANGED vars
             \/ \E p \in Polls : HttpThread(p)
    <3>1. UNCHANGED <<maven, written, handler>>
      BY <2>6 DEF FlagExpires, OthersFlag, MessagesExpire, vars, HttpThread, Ask, lGet, lGetListSize,
                  lPop, ShowRunning, ShowComplete, ShowFailure
    <3> QED  BY <1>2, <3>1 DEF HeldInv
  <2> QED  BY <1>2, <2>1, <2>2, <2>3, <2>4, <2>5, <2>6 DEF Next, Maven
<1> QED  BY <1>1, <1>2, TypeInvariant, PTL DEF Spec

(* A maven whose stderr fits into a pipe never waits for a pipe that       *)
(* nobody reads or is going to read, for any size of the pipes and however *)
(* much it writes to stdout.                                               *)
THEOREM MavenIsNeverHeld == Spec => []MavenIsRead
<1>1. TypeInv /\ OrderInv /\ HeldInv => MavenIsRead
  <2> SUFFICES ASSUME TypeInv, ReadInv, HeldInv, MaxErr <= PipeSize,
                      NEW s \in Streams, maven = s, pipe[s] = PipeSize
      PROVE  s = "out" /\ handler \in {"submitted", "opened", "out"}
    BY DEF OrderInv, MavenIsRead
  <2>1. s = "out"
    <3>1. s = "err" => written[s] < MaxErr /\ pipe[s] <= written[s] /\ written[s] \in Nat
      BY DEF TypeInv, TypeOK, HeldInv, MaxLines, Streams
    <3> QED  BY <3>1, BoundsAssumption DEF Streams
  <2>2. handler # "none" /\ handler \notin {"err", "over"}
    BY DEF HeldInv, ReadInv, Streams
  <2> QED  BY <2>1, <2>2 DEF TypeInv, TypeOK, Streams
<1> QED  BY <1>1, TypeInvariant, OrderInvariant, HeldInvariant, PTL

=============================================================================
