---------------------------- MODULE JarMessages ----------------------------
(***************************************************************************)
(* What the user sees of one jar download: maven writes lines into its two *)
(* pipes, StreamHandler.run moves them into a redis list, and the page     *)
(* asks PomServiceImpl.getRealTimeMsg for them once a second until it is   *)
(* told COMPLETE.  The three meet in redis only, in the list of messages   *)
(* and the running flag, and every redis call is a step of its own.        *)
(*                                                                         *)
(* A redis call may fail.  DubboRedisResolver then logs the exception and  *)
(* answers false, 0 or null, and its caller goes on with that.  A question *)
(* of the page or the answer to it may be lost.  The tool and redis do not *)
(* restart while the download runs.                                        *)
(*                                                                         *)
(* The page's timer does not wait for the answer to its last question:     *)
(* the questions on their way at a time are the elements of Polls.         *)
(*                                                                         *)
(* A download's request id names its list.  The ids start again at 0 with  *)
(* the tool, so that the list of an earlier download may still be there.   *)
(***************************************************************************)
EXTENDS Naturals, Sequences

CONSTANTS
  Polls,     \* how many polls may overlap
  MaxOut,    \* bounds the lines maven writes to stdout
  MaxErr,    \* and to stderr
  PipeSize,  \* the lines a pipe of the operating system holds
  Others,    \* may other downloads set and remove the flag
  Leftover,  \* may the list of an earlier request of this id be there
  MaxFaults  \* bounds what goes wrong: failed redis calls, questions and answers
             \* that are lost, and the end of the list's 15 minutes

ASSUME BoundsAssumption == /\ MaxOut \in Nat
                           /\ MaxErr \in Nat
                           /\ PipeSize \in Nat \ {0}
                           /\ MaxFaults \in Nat
ASSUME SwitchesAssumption == /\ Others \in BOOLEAN
                             /\ Leftover \in BOOLEAN

VARIABLES
  flag,      \* does the key DUBBO_DOWNLOAD_JAR_TASK exist
  client,    \* where ProcessClient.run is
  maven,     \* the process: not started, computing, in a write, or over
  written,   \* how many lines maven has written to each stream
  pipe,      \* how many of them are still in the stream's pipe
  handler,   \* where StreamHandler.run is
  message,   \* the list at DUBBO_DOWNLOAD_JAR_MESSAGE; no key if it is empty
  ttl,       \* has that key an expiry
  poll,      \* each poll: where it is, the pops it owes, what it has got
  page,      \* "polling", or "stopped" by an answer COMPLETE or a failure
  shown,     \* what the page's console shows
  overlapped,  \* history: have polls overlapped
  faults       \* history: how many faults there have been

vars == <<flag, client, maven, written, pipe, handler, message, ttl, poll, page,
          shown, overlapped, faults>>

Streams == {"out", "err"}
MaxLines(s) == IF s = "out" THEN MaxOut ELSE MaxErr

Line(s, k) == [stream |-> s, number |-> k]
Blank == Line("blank", 0)             \* the "" that opens the list
Old == Line("old", 0)                 \* one of an earlier download
Null == Line("null", 0)               \* what lPop answers if there is no list

Poll(at, owes, got) == [at |-> at, owes |-> owes, got |-> got]
Idle == Poll("idle", 0, <<>>)

Init == /\ flag \in BOOLEAN           \* another download's, if it is set
        /\ flag => Others
        /\ client = "submitted"
        /\ maven = "none"
        /\ written = [s \in Streams |-> 0]
        /\ pipe = [s \in Streams |-> 0]
        /\ handler = "none"
        /\ \/ message = <<>> /\ ttl = FALSE
           \/ Leftover /\ message = <<Old>> /\ ttl \in BOOLEAN
        /\ poll = [p \in Polls |-> Idle]
        /\ page = "polling"
        /\ shown = <<>>
        /\ overlapped = FALSE
        /\ faults = 0

-----------------------------------------------------------------------------
(* A call that fails, and one that does not.  One that takes effect and    *)
(* whose reply is lost differs from the latter in lPop only.               *)
Fault == faults < MaxFaults /\ faults' = faults + 1
Works == UNCHANGED faults

(* ProcessClient.run.  The flag is one key for all downloads.              *)

putFlag == /\ client = "submitted"
           /\ client' = "flagged"
           /\ \/ Works /\ flag' = TRUE
              \/ Fault /\ UNCHANGED flag
           /\ UNCHANGED <<maven, written, pipe, handler, message, ttl, poll, page, shown, overlapped>>

(* Mutant of StartProcess: nobody is given the streams to read.            *)
StartUnread == /\ client = "flagged"
               /\ client' = "waiting"
               /\ maven' = "computing"
               /\ UNCHANGED <<flag, written, pipe, handler, message, ttl, poll, page, shown, overlapped, faults>>

StartProcess == /\ client = "flagged"
                /\ client' = "waiting"
                /\ maven' = "computing"
                /\ handler' = "submitted"
                /\ UNCHANGED <<flag, written, pipe, message, ttl, poll, page, shown, overlapped, faults>>

(* exec throws: run() returns, and the key stays.                          *)
ExecFails == /\ client = "flagged"
             /\ client' = "over"
             /\ UNCHANGED <<flag, maven, written, pipe, handler, message, ttl, poll, page, shown, overlapped, faults>>

(* waitFor ends with maven or, without it, after 20 minutes; removeFlag,   *)
(* whose exception, the only one the resolver lets out here, ends run().   *)
StopWaiting == /\ client = "waiting"
               /\ client' = "over"
               /\ \/ Works /\ flag' = FALSE
                  \/ Fault /\ UNCHANGED flag
               /\ UNCHANGED <<maven, written, pipe, handler, message, ttl, poll, page, shown, overlapped>>

(* Mutant of FlagExpires: putFlag sets the key without a time.             *)
FlagStays == FALSE

(* The key's hour is over: exec or removeFlag has failed, or the flag is   *)
(* another's.                                                              *)
FlagExpires == /\ flag
               /\ client \in {"submitted", "over"}
               /\ flag' = FALSE
               /\ UNCHANGED <<client, maven, written, pipe, handler, message, ttl, poll, page, shown, overlapped, faults>>

(* Another download's putFlag or removeFlag.                               *)
OthersFlag == /\ Others
              /\ flag' = ~flag
              /\ UNCHANGED <<client, maven, written, pipe, handler, message, ttl, poll, page, shown, overlapped, faults>>

-----------------------------------------------------------------------------
(* maven (external): it computes, writes to a pipe, waits in the write     *)
(* while the pipe is full, and exits.                                      *)

CallsWrite(s) == /\ maven = "computing"
                 /\ written[s] < MaxLines(s)
                 /\ maven' = s
                 /\ UNCHANGED <<flag, client, written, pipe, handler, message, ttl, poll, page, shown, overlapped, faults>>

Writes(s) == /\ maven = s
             /\ pipe[s] < PipeSize
             /\ maven' = "computing"
             /\ written' = [written EXCEPT ![s] = @ + 1]
             /\ pipe' = [pipe EXCEPT ![s] = @ + 1]
             /\ UNCHANGED <<flag, client, handler, message, ttl, poll, page, shown, overlapped, faults>>

Exits == /\ maven = "computing"
         /\ maven' = "exited"
         /\ UNCHANGED <<flag, client, written, pipe, handler, message, ttl, poll, page, shown, overlapped, faults>>

-----------------------------------------------------------------------------
(* StreamHandler.run on its worker                                         *)

(* A line that redis refuses is gone: nobody looks at the answer false.    *)
rPush(line) == \/ Works /\ message' = Append(message, line)
               \/ Fault /\ UNCHANGED message

(* The blank line makes the key, which expire needs.                       *)
PushBlank == /\ handler = "submitted"
             /\ handler' = "opened"
             /\ rPush(Blank)
             /\ UNCHANGED <<flag, client, maven, written, pipe, ttl, poll, page, shown, overlapped>>

expire == /\ handler = "opened"
          /\ handler' = "out"
          /\ \/ Works /\ ttl' = (message # <<>>)
             \/ Fault /\ UNCHANGED ttl
          /\ UNCHANGED <<flag, client, maven, written, pipe, message, poll, page, shown, overlapped>>

(* Mutant of putToRedis: the end of the stream is not noticed.             *)
PushUnread(s) == /\ handler = s
                 /\ pipe' = [pipe EXCEPT ![s] = @ - 1]
                 /\ rPush(Line(s, written[s] - pipe[s] + 1))
                 /\ UNCHANGED <<flag, client, maven, written, handler, ttl, poll, page, shown, overlapped>>

(* readLine and putToRedis.  rPush makes a key that is not there, without  *)
(* an expiry.                                                              *)
putToRedis(s) == /\ handler = s
                 /\ pipe[s] > 0
                 /\ pipe' = [pipe EXCEPT ![s] = @ - 1]
                 /\ rPush(Line(s, written[s] - pipe[s] + 1))
                 /\ UNCHANGED <<flag, client, maven, written, handler, ttl, poll, page, shown, overlapped>>

(* The loop's condition asks stderr for a line only when stdout has ended. *)
EndOfStream(s) == /\ handler = s
                  /\ maven = "exited"
                  /\ pipe[s] = 0
                  /\ handler' = IF s = "out" THEN "err" ELSE "over"
                  /\ UNCHANGED <<flag, client, maven, written, pipe, message, ttl, poll, page, shown, overlapped, faults>>

(* The list's 15 minutes are over.                                         *)
MessagesExpire == /\ Fault
                  /\ ttl
                  /\ message' = <<>>
                  /\ ttl' = FALSE
                  /\ UNCHANGED <<flag, client, maven, written, pipe, handler, poll, page, shown, overlapped>>

-----------------------------------------------------------------------------
(* getRealTimeMsg, on the HTTP thread of one poll                          *)

(* The page's timer fires, and the service looks for the flag: a hasKey    *)
(* that fails says that there is none.                                     *)
Ask(p) == /\ page = "polling"
          /\ poll[p].at = "idle"
          /\ \E isRunning \in BOOLEAN :
               /\ (Works /\ isRunning = flag) \/ (Fault /\ ~isRunning)
               /\ poll' = [poll EXCEPT ![p] = Poll(IF isRunning THEN "running" ELSE "complete", 0, <<>>)]
          /\ overlapped' = (overlapped \/ \E q \in Polls : poll[q].at # "idle")
          /\ UNCHANGED <<flag, client, maven, written, pipe, handler, message, ttl, page, shown>>

(* Mutant of lGet: the range ends one before the last element.             *)
lGetButLast(p) ==
  /\ poll[p].at = "complete"
  /\ poll' = [poll EXCEPT ![p] = Poll("COMPLETE", 0, SubSeq(message, 1, Len(message) - 1))]
  /\ UNCHANGED <<flag, client, maven, written, pipe, handler, message, ttl, page, shown, overlapped, faults>>

(* "get all message": the list is read and stays.  If that fails, there is *)
(* no list to make a stream of, and the controller answers an error.       *)
lGet(p) == /\ poll[p].at = "complete"
           /\ \/ Works /\ poll' = [poll EXCEPT ![p] = Poll("COMPLETE", 0, message)]
              \/ Fault /\ poll' = [poll EXCEPT ![p] = Poll("failed", 0, <<>>)]
           /\ UNCHANGED <<flag, client, maven, written, pipe, handler, message, ttl, page, shown, overlapped>>

(* Mutant of Pops: `while (size-- > 0)`.                                   *)
PopsAll(size) == size

(* `while (--size > 0)` pops one line less than there were.                *)
Pops(size) == IF size > 1 THEN size - 1 ELSE 0

lGetListSize(p) ==
  /\ poll[p].at = "running"
  /\ \E size \in {Len(message), 0} :
       /\ (Works /\ size = Len(message)) \/ (Fault /\ size = 0)
       /\ poll' = [poll EXCEPT ![p] = Poll("popping", Pops(size), <<>>)]
  /\ UNCHANGED <<flag, client, maven, written, pipe, handler, message, ttl, page, shown, overlapped>>

Receives(p, text) ==
  poll' = [poll EXCEPT ![p] = Poll("popping", poll[p].owes - 1, Append(poll[p].got, text))]

(* Mutant of lPop: the newest line is taken for the oldest.                *)
rPop(p) ==
  /\ poll[p].at = "popping"
  /\ poll[p].owes > 0
  /\ message # <<>>
  /\ Receives(p, message[Len(message)])
  /\ message' = SubSeq(message, 1, Len(message) - 1)
  /\ ttl' = (ttl /\ Len(message) > 1)
  /\ UNCHANGED <<flag, client, maven, written, pipe, handler, page, shown, overlapped, faults>>

(* Redis drops a list with its last element, and the key's expiry with it. *)
TakeHead == /\ message # <<>>
            /\ message' = Tail(message)
            /\ ttl' = (ttl /\ Len(message) > 1)

(* A pop that fails answers null, and redis may have done it all the same. *)
lPop(p) ==
  /\ poll[p].at = "popping"
  /\ poll[p].owes > 0
  /\ \/ Works /\ TakeHead /\ Receives(p, Head(message))
     \/ Works /\ message = <<>> /\ Receives(p, Null) /\ UNCHANGED <<message, ttl>>
     \/ Fault /\ Receives(p, Null) /\ (TakeHead \/ UNCHANGED <<message, ttl>>)
  /\ UNCHANGED <<flag, client, maven, written, pipe, handler, page, shown, overlapped>>

(* Mutant of ShowRunning: the answer replaces what the page showed.        *)
ShowOnly(p) == /\ poll[p].at = "popping"
               /\ poll[p].owes = 0
               /\ shown' = poll[p].got
               /\ poll' = [poll EXCEPT ![p] = Idle]
               /\ UNCHANGED <<flag, client, maven, written, pipe, handler, message, ttl, page, overlapped, faults>>

(* The answer RUNNING reaches the page.                                    *)
ShowRunning(p) == /\ poll[p].at = "popping"
                  /\ poll[p].owes = 0
                  /\ shown' = shown \o poll[p].got
                  /\ poll' = [poll EXCEPT ![p] = Idle]
                  /\ UNCHANGED <<flag, client, maven, written, pipe, handler, message, ttl, page, overlapped, faults>>

(* The answer COMPLETE does, and stops the timer.                          *)
ShowComplete(p) == /\ poll[p].at = "COMPLETE"
                   /\ shown' = shown \o poll[p].got
                   /\ poll' = [poll EXCEPT ![p] = Idle]
                   /\ page' = "stopped"
                   /\ UNCHANGED <<flag, client, maven, written, pipe, handler, message, ttl, overlapped, faults>>

(* The page is told of an error, or its question or the answer to it is    *)
(* lost: it clears the timer, and what was popped for the answer is gone.  *)
ShowFailure(p) ==
  /\ \/ Works /\ poll[p].at = "failed"
     \/ Fault /\ \/ poll[p].at = "idle" /\ page = "polling"
                 \/ poll[p].at = "COMPLETE"
                 \/ poll[p].at = "popping" /\ poll[p].owes = 0
  /\ poll' = [poll EXCEPT ![p] = Idle]
  /\ page' = "stopped"
  /\ UNCHANGED <<flag, client, maven, written, pipe, handler, message, ttl, shown, overlapped>>

-----------------------------------------------------------------------------
ProcessClient == putFlag \/ StartProcess \/ ExecFails \/ StopWaiting

Maven == (\E s \in Streams : CallsWrite(s) \/ Writes(s)) \/ Exits

StreamHandler == PushBlank \/ expire \/ \E s \in Streams : putToRedis(s) \/ EndOfStream(s)

HttpThread(p) == \/ Ask(p)         \/ lGet(p)         \/ lGetListSize(p) \/ lPop(p)
                 \/ ShowRunning(p) \/ ShowComplete(p) \/ ShowFailure(p)

Next == \/ ProcessClient \/ Maven \/ StreamHandler
        \/ FlagExpires \/ OthersFlag \/ MessagesExpire
        \/ \E p \in Polls : HttpThread(p)

Spec == Init /\ [][Next]_vars

(* run() goes on, an hour passes, the page keeps asking and its questions  *)
(* are answered; maven may hang, and the pool may never start the handler. *)
Fairness == /\ WF_vars(ProcessClient)
            /\ WF_vars(FlagExpires)
            /\ \A p \in Polls : WF_vars(HttpThread(p))

FairSpec == Spec /\ Fairness

-----------------------------------------------------------------------------
(***************************************************************************)
(* Properties                                                              *)
(***************************************************************************)
Lines == [stream : Streams, number : Nat \ {0}]
Messages == Lines \union {Blank, Old}
Texts == Messages \union {Null}

PollType == [at   : {"idle", "running", "complete", "COMPLETE", "failed", "popping"},
             owes : Nat,
             got  : Seq(Texts)]

(* The state has its type; a pipe never holds more than it can.            *)
TypeOK == /\ flag \in BOOLEAN
          /\ client \in {"submitted", "flagged", "waiting", "over"}
          /\ maven \in {"none", "computing", "exited"} \union Streams
          /\ written \in [Streams -> Nat]
          /\ pipe \in [Streams -> 0 .. PipeSize]
          /\ handler \in {"none", "submitted", "opened", "over"} \union Streams
          /\ message \in Seq(Messages)
          /\ ttl \in BOOLEAN
          /\ poll \in [Polls -> PollType]
          /\ page \in {"polling", "stopped"}
          /\ shown \in Seq(Texts)
          /\ overlapped \in BOOLEAN
          /\ faults \in 0 .. MaxFaults

(* Polls have overlapped, a call or an answer has failed, or the list has  *)
(* expired.                                                                *)
disturbed == overlapped \/ faults > 0

IsLine(line) == line.stream \in Streams

(* All that maven has written, in the order StreamHandler reads it.        *)
Output == [i \in 1 .. written["out"] + written["err"] |->
             IF i <= written["out"] THEN Line("out", i) ELSE Line("err", i - written["out"])]

(* StreamHandler reads the line x before the line y.                       *)
Before(x, y) == \/ x.stream = y.stream /\ x.number < y.number
                \/ x.stream = "out" /\ y.stream = "err"

Ascending(texts) ==
  \A i, j \in DOMAIN texts :
    i < j /\ IsLine(texts[i]) /\ IsLine(texts[j]) => Before(texts[i], texts[j])

(* While the page has had one poll at a time, no line is on the console    *)
(* twice or before one that was read earlier, whatever redis refuses or    *)
(* the network loses, and though the list expires.  If nothing failed, the *)
(* console shows, after what an earlier download has left in the list and  *)
(* the blank line, maven's stdout and after it its stderr without a gap,   *)
(* through pops, the last answer's look at the rest, and a flag that       *)
(* others set and remove.                                                  *)
ShownInOrder ==
  /\ ~overlapped => Ascending(shown)
  /\ ~disturbed => \E n \in 0 .. Len(shown) :
       /\ \A i \in 1 .. n : ~IsLine(shown[i])
       /\ \A i \in n + 1 .. Len(shown) : i - n \in DOMAIN Output /\ shown[i] = Output[i - n]

Opened == handler \in Streams \union {"over"}

(* "auto expire" (StreamHandler.java:49): until then, once StreamHandler   *)
(* has opened it, the list is there and has an expiry, though an earlier   *)
(* download's may have had none: the pops never take its last element,     *)
(* with which redis would drop the key and its expiry (`--size > 0`), nor  *)
(* does one answer null.  That is while no redis call fails: a list whose  *)
(* expire failed stays for good.                                           *)
ListLives == ~disturbed => /\ Opened => message # <<>> /\ ttl
                           /\ \A i \in DOMAIN shown : shown[i] # Null

Occurs(line, s) == \E i \in DOMAIN s : s[i] = line

(* A line is in the list, in the hands of a poll, or on the page.          *)
Placed(line) == \/ Occurs(line, message)
                \/ Occurs(line, shown)
                \/ \E p \in Polls : Occurs(line, poll[p].got)

(* The line that a fault takes: one redis refuses, one it pops and does    *)
(* not hand over, those of an answer that is lost, those of the list.      *)
Loses(line) ==
  /\ Fault
  /\ \/ \E s \in Streams : putToRedis(s) /\ line = Line(s, (written[s] - pipe[s])')
     \/ \E p \in Polls : lPop(p) /\ line = Head(message)
     \/ \E p \in Polls : ShowFailure(p) /\ Occurs(line, poll[p].got)
     \/ MessagesExpire /\ Occurs(line, message)

(* However polls overlap, a line that has left its pipe is not lost: it is *)
(* put into the list, and each fault makes no lines disappear but its own. *)
LinesKept ==
  [][\A s \in Streams : \A k \in 1 .. (written[s] - pipe[s])' :
       \/ Placed(Line(s, k))'
       \/ k <= written[s] - pipe[s] /\ ~Placed(Line(s, k))
       \/ Loses(Line(s, k))]_vars

HasAll(texts) == \A s \in Streams : \A k \in 1 .. written[s] : Occurs(Line(s, k), texts)

(* "if the task was done, get all message" (PomServiceImpl.java:260): a    *)
(* question that finds no flag after run() has ended, and is going to be   *)
(* answered COMPLETE, is one about a maven that is not running any more.   *)
CompleteWhenDone ==
  [][\A p \in Polls : Ask(p) /\ poll'[p].at = "complete" /\ client = "over"
                        => maven \in {"none", "exited"}]_vars

(* StreamHandler has read all there is before the answer COMPLETE is made. *)
ReadInTime == /\ handler = "over"
              /\ page = "polling"
              /\ \A p \in Polls : poll[p].at # "COMPLETE"

(* It does show all if nothing has failed and StreamHandler has come to    *)
(* its end in time: with what the page shows already, the answer COMPLETE  *)
(* then has all lines, however the last pops and the change from popping   *)
(* to reading the list fall, and whoever sets or removes the flag.         *)
LateAnswerHasAll ==
  [][\A p \in Polls : ReadInTime /\ poll'[p].at = "COMPLETE" /\ ~disturbed
                        => HasAll(shown \o poll'[p].got)]_vars

(* If other downloads leave the flag alone from some time on, the page     *)
(* does not ask for ever, though the download fails to start or outlives   *)
(* its time, or redis fails, and leaves its own flag behind, and though    *)
(* maven or StreamHandler may hang.                                        *)
PageStops == <>[][~OthersFlag]_vars => <>(page = "stopped")

(* Maven is never held by a full pipe that nobody is going to read, if     *)
(* what it writes to stderr fits into one: it waits for the stream that    *)
(* StreamHandler reads, or begins with when the pool starts it.            *)
MavenIsRead ==
  MaxErr <= PipeSize =>
    \A s \in Streams : maven = s /\ pipe[s] = PipeSize =>
                         s = "out" /\ handler \in {"submitted", "opened", "out"}
=============================================================================
