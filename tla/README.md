# TLA+ models of dubbo-interface-test-tool

The tool is a Spring Boot web application with which a tester calls Dubbo
services: it downloads the jars of their interfaces with maven, loads the
classes, looks providers up in ZooKeeper, sends calls over netty and saves them
as test cases. This directory holds TLA+ models of it, the TLC runs that check
them and TLAPS proofs about them. `PROJECT.json` maps every definition to the
lines it models. Paths below are relative to `src/src/main/java/com/whb/dubbo/`.

## Inventory

| Component | State | Operations | Interacts with |
|---|---|---|---|
| Task pool: `context/TaskContainer` | threads, bounded queue | `execute`, the blocking rejection handler | jar download |
| Jar download: `PomServiceImpl.invoke`, `client/ProcessClient` | lock, running flag in redis, maven process | two `invoke`s, `run`, `putFlag`, `removeFlag` | pool, redis, maven, files |
| Download messages: `handler/StreamHandler`, `PomServiceImpl.getRealTimeMsg`, `addJar.html` | list of messages and its expiry, pipes, the page's timer | read a line, push, poll, pop | redis, download, browser |
| Remote call: `ConnectServiceImpl.send`, `DubboClient`, `NettyChannel`, `SendReceiveHandler`, `ResponseDispatcher` | table of futures, cache of channels, connections | connect, send, sent, received, get | netty I/O thread, provider |
| Transport codec: `TransportClient` | unread rest of a frame | encode, decode chunks | netty, Dubbo's codec |
| Classes and methods: `DubboClassLoader`, `MethodCaches`, `ClassServiceImpl` | map of classes, map of methods, cached lists in redis | `loadJars`, `listMethods`, lookup by key | jar files, redis |
| Providers: `CuratorCaches`, `CuratorHandler`, `UrlCaches` | handlers by address, URLs by key | `getHandler`, `getProviders` | ZooKeeper |
| Test cases: `CaseServiceImpl` | redis list, a counter | `save`, `listAll` | provider and method caches |
| Pages: `templates/pages/v3/*.html`, `static/v3/js/Nora.js` | what the user sees, requests under way | connect, choose, list, save, poll | web layer |
| Registry addresses: `ConfigServiceImpl` | redis set | add, delete, list, load at start | redis |
| Pom and jar files: `PomServiceImpl`, `SysConfController` | pom.xml, the lib directory | `appendPom`, `overridePomFile`, `deleteJars`, `listJars` | maven, class loading |
| Telnet: `TelnetServiceImpl` | a socket | request, read to a prompt | provider |
| Parameters and texts: `StringUtil`, `ParamUtil`, `MethodModel` | none | pure functions | all |
| Menu: `MenuServiceImpl` | tree and HTML built once | `buildTree`, `toHtml` | pages |
| Web layer, start-up, assets | a request counter | pass requests on | all |

What is hard. The download is spread over HTTP threads, a small pool whose tasks
submit tasks, an operating system process and two redis keys; all of these fail
and outlive each other separately. A remote call is a race of an HTTP thread and
an I/O thread over a table, with a timeout. The console is filled by a reader, a
redis list and a timer that do not wait for each other. A page sends requests
whose answers come in any order and fill lists that belong together, out of maps
shared with other users. The pom and the directory of jars are written by
downloads under a lock, and by others without it. What must hold: no second
download while one runs; no lock, flag, task or thread left behind; no deadlock
of the pool; the console shows maven's output in order and in full; a call ends,
with SUCCESS only for a result of its own; frames come out of the decoder as
they were sent; a reload leaves what is in the jar, and a method's key leads to
the method; what a page shows belongs together, and the keys it sends mean what
it shows; no client of ZooKeeper is left behind; no dependency is lost from the
pom. `PROJECT.json` lists each hazard at its line with the properties that watch
it.

## Modules

| Module | Models |
|---|---|
| `TaskContainer` | the thread pool: state and operations, no specification of its own |
| `Executor` | abstract: what the pool promises to whoever hands it a task |
| `DownloadJob` | extends `TaskContainer`: requests, lock, flag, tasks, maven, restart; its pool refines `Executor` |
| `JarMessages` | one download's output: pipes, StreamHandler, redis list, polls, page |
| `RemoteCall` | abstract: what a remote call promises its caller |
| `RpcExchange` | the two threads, the futures, the channels, the network; refines `RemoteCall` |
| `Decoder` | `InternalDecoder`: frames out of chunks, with a codec that may refuse one |
| `ClassCache` | classes of the jars, cached methods, their keys in redis and at the pages |
| `ProviderCache` | handlers of a ZooKeeper address, provider URLs: state and operations, no specification of its own |
| `Workbench` | extends `ProviderCache`: one page, its requests, other users, saved cases, restart |
| `PomFile` | pom.xml and the directory of jars, with all who read and write them |
| `MC*` | constants for TLC |
| `*_proofs` | theorems, checked by TLAPS |

### TaskContainer and DownloadJob

`worker` is what each slot of the pool holds (no thread, an idle one, or a
task), `queue` the `ArrayBlockingQueue`. `execute` follows the order of
`ThreadPoolExecutor.execute`: a core thread while there are fewer than two, then
the queue, then a further thread, and else the handler, whose `put` is the pair
of actions `...Blocks` and `...Unblocks` of whoever submits. The order in which
the JDK does these is external code, modelled from its documented behaviour and
from the constructor's arguments.

A job is one request with the `ProcessClient`, maven process and `StreamHandler`
it leads to. `http`, `client` and `alive` say where each of them is, `locker` is
the `ReentrantLock`, `flag` the redis key. One step of the model is what happens
between two points at which another thread can get in: a redis call, the lock, a
hand-over to the pool, the wait for maven. A job's name is used again when
nothing of it is left, so the model runs for ever. `fresh` is the set of jobs
that wrote the key less than 20 minutes ago: the key's hour cannot be over for
them. It is a statement about clocks, and the only one the model makes.

`Faults` selects what may go wrong: a rejected pom, a failure under the lock, a
failing `exec`, a maven that outlives its 20 minutes, a failing redis (reads
answer "no key", `set` is silently lost, `del` throws), a restart of the tool,
which forgets everything but redis and the maven processes. `overtaken` is
history: it says that a request was let in while another was between its look at
the flag and its task's `putFlag`, or that redis has failed to hold or to show
the flag. `OneTaskInTurn` is claimed until then, so that one run has both: the
requests that overlap, for the pool and the lock, and those that take turns, for
the flag.

`Executor` knows no threads: tasks that wait, in the order in which they came,
and tasks that run; a task may start at once only if nobody waits or no place to
wait is left, which is the order core thread, queue, further thread. The pool
implements it (`ServesTasks`) with a task that waits for a place in the blocking
`put` not handed over yet; that `put` is where the pool's own threads may stand
(`DownloadDeadlock`), and why the promise says nothing of tasks being begun in
the end.

### JarMessages

One download, its list and its page. maven writes lines into two pipes of
`PipeSize` lines and waits in a write while the pipe is full. `handler` is where
`StreamHandler.run` is: it pushes the blank line, sets the expiry, and reads
stdout to its end and stderr after it (line 56: the second `readLine` is only
evaluated when the first answers null). A poll is `getRealTimeMsg` call by call:
`Ask` (hasKey), then `lGet`, or `lGetListSize` and single `lPop`s, then the
answer at the page. Redis deletes a list with its last element, and its expiry
with it. `Others` lets another download set or remove the flag at any time.
`Leftover` is about the request ids, which start again at 0 with the tool
(`BaseDTO`): a new download may find the list of an old one, with an expiry or
without.

`Fault` is what goes wrong, `MaxFaults` times at most. Each call of redis may
fail, and becomes what `DubboRedisResolver` makes of it: `rPush`, `expire` and
`set` do nothing and nobody notices, `hasKey` says that there is no flag,
`lGetListSize` that there is nothing to pop, `lPop` answers null (redis may have
popped the line all the same), `lGet` answers null, from which the service
cannot make a stream, so that the page is told of an error; only `del` throws,
which ends `run()`. A question of the page, or the answer to it, may be lost:
the page then clears its timer (`ShowFailure`), as it does when it is told of an
error, and what was popped for that answer is gone. And the 15 minutes of the
list may be over. The model leaves out a restart of the tool or of redis while
the download runs (`DownloadJob` has the former for the flag and the pool), a
redis that loses what it holds, and a pipe whose reading fails.

A line is a stream and a number: its text never matters. `overlapped` and
`faults` are histories: polls have overlapped, so much has gone wrong;
`disturbed` is either. Without overlap no line is shown twice or out of order,
whatever fails (`ShownInOrder`, its first half). Undisturbed, nothing is missing
in between, the list is never emptied, and a last answer in time has the rest.
`LinesKept` is not about undisturbed runs only: it says that with overlapping
polls, too, a line goes from its pipe to the list, to a poll, to the page, and
that a fault takes its own lines (`Loses`) and no others.

`LateAnswerHasAll` speaks of a download whose `StreamHandler` has read both
streams to their ends before the last answer is made (`ReadInTime`). If the flag
goes earlier, which it does after a `waitFor` of 20 minutes, or always shortly
before `StreamHandler`'s last push if that is slow, the page misses the rest;
nothing in the code waits for it.

### RemoteCall and RpcExchange

`caller` is where the HTTP thread of a call is in `ConnectServiceImpl.send`, and
`write`, `answer` and `reply` follow the request and its response; `futures` and
`channelMap` are the two static maps. Every call opens a connection of its own
and nobody closes it, so a call's name is also its connection's. The request can
be delivered and answered between `channel.write` and `sent`, which registers
the future: Dubbo's `NettyHandler`, which is not in the repository, calls `sent`
after it has passed the write down the pipeline. A status other than OK never
reaches the caller. Frames are whole here; `Decoder` says why they may be. A
result is the exception of the service's method, a value that fastjson can
print, or one that makes `JSON.toJSONString` throw: the last is told to the
caller as a failure, after its future has been removed (`Printed`).

`RemoteCall` says: a provider answers once, a result arrives early, late or
never, a caller is told once: SUCCESS of a call whose result has arrived and can
be printed, a failure of one whose result has not arrived or cannot be printed.
`KeepsPromise` is that specification under the mapping of `caller` to what the
caller has been told, and of a complete future, or one the call has taken out of
the table (`Took`), to a result that has arrived. `FoundFutureReturns` says that
a future that is complete while its call is under way is taken and ends it as it
prints, and that no timeout and no failed write comes in between.

### Decoder

A byte is its position in the provider's stream, so that a frame out of place, a
byte lost or a byte doubled is seen in `message` itself. `ends` are the last
bytes of the frames sent; `buffer` and `message` are the field and the local
variable of `messageReceived`, from their reader index on. A call begins with a
chunk of any length; each further step is one round of the loop, up to the
`finally`. The three ways in which lines 132 to 146 make `message` have the same
contents and are one. Dubbo's codec is external: at the edge of a frame it
answers with the frame, with NEED_MORE_INPUT, or, for a refused frame, with an
exception after it has read any number of bytes; off every edge it may do any of
these. The catch block empties `buffer` (line 159), and the `finally` sets it
again to the unread rest (line 178): the model does what the code does, so that
after a refused frame the decoder goes on in the middle of the stream. One call
of the codec makes one message; a codec that decodes several frames at once
would hand on a list, which `SendReceiveHandler.received` drops.

### ClassCache

One jar with an interface and a class its methods use, in versions that
downloads bring. `reload`, `opened`, `todo` and `adding` follow each thread
through `PomServiceImpl.loadJars`: clear, open, and for each entry `containsKey`
and `put`, which are two steps. `cleared` and `overlapped` are history: who
cleared last, and whether another reload ran meanwhile. The jar may be of any
version whenever a reload opens it, and a reload may fail at any point; what it
loaded stays. `request` follows a page's `listMethods`: hit or miss in redis,
the class, `getMethods` and `MethodCaches.cache`, then the put into redis by the
caching aspect. `methodMap` maps a signature to the pair of class files its
`Method` was resolved from, `list` is the entry in redis with its minute's
expiry, `listOld` says that a process which is gone has put it there. A restart
empties the maps, and redis keeps the list. `offered` are the keys that pages
were given by this process.

### ProviderCache and Workbench

`ProviderCache` has the two static maps: the handler kept for one ZooKeeper
address with the clients that are connected (`CuratorCaches`), and the URLs of
providers (`UrlCaches`). The key of a URL is interface, host and port; all
providers are taken to share host and port, so that the key is the interface,
and a version is what else a look-up may ask for (a group is one more of the
same kind).

`Workbench` has one page, `normalCnt.html`. Its actions are the handlers of the
page (`DoConnect`, which binds one more `change` handler, `ChooseService`,
`DoListMethods`, `DoSave`), the answers (`Shows`), and the tool's side of each
request: a second's wait for a new client between `doConnect` and `putIfAbsent`
or `close`, the look-up, the list of methods with its cache in redis, the id of
a case and its push. A request is a slot of `request` from the call of
`Nora.Ajax` until its answer has been shown; answers come in any order. Other
users look providers up in the same maps at any time; a restart empties the maps
and fails the requests, and the page stays as it is, with keys of a tool that is
gone (`old`).

The histories say what the properties leave out, each as narrowly as the code
allows: `hurried`, the user has chosen, listed or connected while an answer was
out; `raced`, two threads have connected at once since the start; `mixed`, the
services of which several versions were looked up; `lost`, the clients whose
connect was ended by an exception after they were open (`ConnectBreaksOff`),
which the catch in `getHandler` reports and does not close. A list of methods
has `own` false if it came out of the list in redis that all requests without a
service name share. What is in a list of methods, and what its keys lead to, is
the subject of `ClassCache`. A list that fails, and a failing save, open an
alert and change nothing.

### PomFile

A request is a download that appends its dependency (`invoke(PomDTO)`), one that
empties the directory and downloads all again (`invoke()`), the edit page (load,
change, save) or `doRepublish`; a download goes on as its task and its maven,
which reads the pom when it starts and fills the directory jar by jar. The pom
is a set of dependencies, or `Torn`: emptied by a `FileOutputStream` that has
not written yet, cut short, or written by two at once. `appendPom` is parse,
open and write; `overridePomFile` and `doRepublish` take no lock. The page saves
what it shows or any member of `Texts`, a constant set of poms that may have
`Torn` in it and which the theorems leave open: `overridePomFile` looks at
nothing, and maven's console is written into the area that is saved. A directory
that is not there makes `deleteJars` throw (`ListFails`). Whether a request is
let in is `DownloadJob`'s subject; here any number of them may be. Text is read
back as it was written; that `appendPom` writes GB2312 and the page reads UTF-8
is left out.

`promised` is what appends and edits, one after the other, make of the pom;
`clean` says that the pom has to be that. It has not after an edit that was
saved while somebody else was under way, one that was saved over another pom
than it had loaded (`stale`: the append made in between is lost, with nobody
else writing, and stays in `promised`), one whose text cannot be parsed, or a
write that failed or was broken off by a restart; it has again after an edit
that was loaded and saved with nobody in between. `crossed` and `meddled` say of
each request that an edit has opened the pom while it depended on it, or that
somebody else has changed the jars it answers for.

## Runs

| Run | Instance | Checks |
|---|---|---|
| `DownloadSafety` | 4 jobs, 3 threads, all faults, requests overlap | `TypeOK`, `TasksPlacedOnce`, `LockHeld`, `DownloadsGoOn`, `OneTaskInTurn` |
| `DownloadLiveness` | 3 jobs, 2 threads, failing prepare, exec and slow maven | `ServesTasks`, `EveryJobEnds`, `FlagRecedes`, `FlagNotAbandoned` |
| `DownloadOverlap` | 2 jobs, no faults, requests overlap | `OneTask` is violated |
| `DownloadDeadlock` | 4 jobs, 2 threads, no faults | `AcceptedEnds` is violated |
| `Messages` | 2 polls, 2 + 1 lines, pipes of 1, the flag of others, one fault | `TypeOK`, `ShownInOrder`, `ListLives`, `LinesKept`, `LateAnswerHasAll`, `PageStops`, `MavenIsRead` |
| `MessagesComplete` | 1 poll, 1 line, no fault | `CompleteWhenDone` is violated |
| `RpcExchange` | 2 calls | `TypeOK`, `FuturesExplained`, `LiveChannelsCached`, `KeepsPromise`, `EveryCallEnds`, `FoundFutureReturns` |
| `RpcForwarding` | 1 call | `ResponsesForwarded` is violated |
| `Decoder` | 3 frames, headers of 2 bytes, bodies of 0 or 2 | `TypeOK`, `FramesInOrder`, `NothingWithheld` |
| `ClassCache` | start-up and 1 HTTP thread, 2 pages, 2 versions, restarts | `TypeOK`, `ReloadCompletes`, `ReloadIsFresh`, `KeysResolve` |
| `Workbench` | 2 requests at a time, 2 clients, 2 services of 2 versions, 2 connects, 2 case ids | `TypeOK`, `PageCoherent`, `KeysMeanOffers`, `ClientsUsed`, `HandlerOpen`, `CaseIdsDiffer` |
| `PomFile` | 3 requests, restarts, 4 texts besides the one shown | `TypeOK`, `PomIsSerial`, `TornIsExplained`, `MavenSeesOwn`, `LibFollowsPom` |

Bounds. Three threads and a queue of three is the smallest pool in which a
thread above the core size exists, ends and is started again; four jobs with two
tasks each can fill both (`Rejected` is reached, and `put` from an HTTP thread
and from a worker). Two threads and four jobs are the smallest pool that
deadlocks; that on any pool it takes a job for each thread and each place of the
queue is proved (`DownloadsAlwaysGoOn`). Two calls are enough for answers that
cross: calls share nothing but the maps. Two lines of stdout, one of stderr and
the blank one make a list that is popped up to its last element several times,
which is the pops' arithmetic; two polls are the smallest overlap. `Leftover` is
FALSE in the run: with it the same instance is several times as large, and the
theorems are about both values. One fault is enough for every kind of fault at
every point; the theorems are about any number. `MavenIsRead` needs more lines
on stdout than the pipe holds, and has them. With two bytes of header and two of
body a chunk can end in a header, between it and the body, in the body and
between frames; with three frames one can be refused that has frames on both
sides. Two reloads are the smallest overlap; of two versions of the interface
one drops a method and the other adds one, so that the keys of both are there at
once. Two requests of a page are the fewest whose answers can cross, two threads
that connect can lose a `putIfAbsent`, and with two connects `change` is bound
twice; no property relates three requests. In `PomFile` three requests are an
append between the steps of another with an edit, or a republish, in the midst
of both; each request is one-shot, and a restart cuts short whatever is under
way. The texts of the run have no dependency, `Base` alone, all of them, or
cannot be parsed; with the text that is shown these are an edit that changes
something else, one that takes everything or all downloads out, one that puts
others' in, and one that breaks the pom.

Symmetry is used in safety runs only, for what is interchangeable there: the
jobs and the threads of the downloads, the pages of `ClassCache`, the clients,
interfaces, versions and requests of `Workbench`, the requests of `PomFile`.

Deadlock checking is on except where the modelled system really comes to rest: a
download that is over with a page that has stopped asking (`Messages` and
`MessagesComplete`), a connection on which nothing more is sent (`Decoder`), and
the pool of `DownloadDeadlock`, which stands still because of the very defect
the run is about.

### Fairness

- Threads that can go on do (weak fairness). Waiters of the lock and of the
  queue are not passed over for ever (strong fairness of `HttpGoesOn` and
  `ClientGoesOn`): the queue's lock is not fair, so this is an assumption about
  the scheduler; it is what "eventually" can mean for a barging lock.
- An idle worker takes a task; a key's time passes; in `DownloadJob` maven ends,
  though not necessarily within 20 minutes.
- `future.get` has a clock, so a waiting caller goes on.
- In `JarMessages` `run()` goes on, the flag's hour passes, and the page's timer
  keeps asking and is answered, with an error at worst (`WF` of `ProcessClient`,
  `FlagExpires` and each `HttpThread`). Of maven and `StreamHandler` nothing is
  assumed: maven may hang and the pool may never start the handler.
- No fairness is assumed of the user, of the provider, or of a fault: a fault
  may happen wherever the model has one, and need not. Which faults the models
  have is said with each module above.

### What the violations show

- `DownloadOverlap`: the flag is looked at on the HTTP thread and set on the
  pool thread. Two requests in between both pass.
- `DownloadDeadlock`: tasks that submit tasks to their own pool with a blocking
  `put`. Two downloads on the threads and two in the queue are enough with two
  processors.
- `RpcForwarding`: the answer can overtake the registration of its future.
- `MessagesComplete`: the absence of the flag is taken for the end of the task.
  In the trace the flag is set and maven started, `waitFor` returns after its 20
  minutes, its result is ignored (`ProcessClient:73`) and the flag removed; the
  page's next question is answered COMPLETE while maven still runs.

Further weaknesses were met and have no run: a question that arrives before
`putFlag`, or while `StreamHandler` still reads what maven has written, is
answered COMPLETE as well (`PomServiceImpl:260`); a maven that outlives
`waitFor` runs beside the next; a list that
expired is made again without an expiry (`StreamHandler:52`; compare
`ListLives`); dead channels stay in `channelMap` (`NettyChannel:70`); a list of
keys outlives the process whose `MethodCaches` knew them, for up to a minute
(`ClassServiceImpl:35`); a cached `Method` is not replaced when a newer jar is
loaded (`MethodCaches:42`); of two reloads that overlap, the map may keep
classes of both jars (`DubboClassLoader:102`), which is why `ReloadIsFresh` is
about reloads that run alone; the list of methods under the empty name is shared
by all requests without a service name (`ClassServiceImpl:35`); a look-up of
another version changes what an older key means (`UrlCaches:34`); the loser of
two connects stays open (`CuratorCaches:37`), and so does a client whose connect
is ended by an exception (`:42`); an edit saved after an append that its page
had not loaded undoes it (`PomServiceImpl:418`); lines that redis refuses and
lines of a lost answer are gone (`DubboRedisResolver:382`, `addJar.html:274`); a
result that fastjson cannot print is reported as a failed call
(`ConnectServiceImpl:74`); case ids start again at 0 while
the saved cases stay in redis (`CaseServiceImpl:50`); nothing ever replaces a
pom that was left torn but the edit page.

Others were met in code that the models abstract from. `exec` splits the Linux
command at blanks, so that `bash -c` runs `mvn` without its arguments
(`ProcessClient:110`), and the Windows command has a fixed `lib` in the place of
the configured path (`:116`). `appendPom` writes GB2312 where `readToString`
reads UTF-8. `normalCnt.html:535` asks an object for its length, so that a case
that was saved is shown as a failure, with `bootbox.error`, which does not
exist. `send` ignores the page's version and group. `txtConnect` may be changed
without connecting. `doReset` leaves the editor of parameters as it is. The
workspace's path is cut at a colon that only Windows has
(`ApplicationReadyEventListener`). `CaseServiceImpl` does not learn that `rPush`
has failed, nor does `WriteStringToFile` that a write has. The prompt after an
empty line may end the reading of a telnet answer (`TelnetServiceImpl:70`). A
decoder that makes a list of several frames has it dropped
(`SendReceiveHandler:55`).

## Proofs

All theorems are for every value of the constants that satisfies the `ASSUME`s
of the modules (finite sets of jobs and threads, at least two threads, `None` no
job; `Texts` a set of poms; `PipeSize` at least one; headers of at least one
byte; `None` no version, thread, method, list, client, service or request;
finitely many requests of a page). Every invariant and every action property of
the passing runs is a theorem; `FoundFutureReturns` is one on the condition that
calls end.

**DownloadJob_proofs.** `PlaceInv` strengthens `TasksPlacedOnce` and `LockHeld`
with what the counting needs: a request under way has no task in the pool yet, a
stream is in the pool only after its client has handed it over. It is preserved
because `execute` and `put` are only called for a task that is nowhere.
`ThreadsInv` counts threads: the pool only shrinks above the core size with an
empty queue, and the queue is only used once the core threads exist.
`DownloadsAlwaysGoOn` is about everybody who waits for somebody. If nobody can
go on (`CanGoOn`, the guards of the fair actions), the request that has the lock
waits in `put`, tasks that are not begun are in the queue, so that the queue is
not empty (`StandstillFillsQueue`); there are threads then, and as none of them
is idle each runs a client that waits in `put` (`StandstillIsStuck`). By
counting (`StuckNeedsJobs`), these clients' jobs and those in the queue, which
are others, are as many as threads and places. Threads are those that have been
started: a waiter of `put` that others overtake for an hour can find fewer than
`CPU_COUNT`. `OneTaskWhenInTurn` uses an invariant that holds until `overtaken`:
a job in the window excludes every flag but an older one, and a job between
`putFlag` and `removeFlag` has its flag standing. `FlagIsNotAbandoned` is an
action property from `PlaceInv`. `PoolServesTasks` maps `queue` to the tasks
that wait and the busy slots of `worker` to those that run: a slot that is free
is a free thread of `Executor`, as no slot holds two tasks (`ThreadFree`), and
`execute` starts a thread only with an empty queue or a full one. One lemma for
each operation of the pool (`ExecuteServes`, `PutServes`, `TakeServes`,
`FreeServes`), cited by each action that calls it.

**JarMessages_proofs.** `TypeInv` adds that a pipe holds no more than was
written to it. `ListInv` is the invariant behind `--size > 0`: a poll owes fewer
pops than the list has elements, which pushes and its own pops preserve and a
second poll would not; hence `ListStaysAlive` until `disturbed`.
`LinesAreInOrder` gives every text its place: `Right(n, i, x, o, e)` says what
belongs at place `i` when `n` texts that are no lines come first and `o` and `e`
lines have been read. `Order` says that what is shown, what the poll under way
has got and the list follow each other (`Follows`) and are together all there
is; each step appends, moves a text over, or joins two parts. `ReadInv` (of
stderr nothing is read before stdout has ended) keeps places from changing when
a line is read. That is so until `disturbed`; of the first half of
`LinesAreInOrder`, no line twice or before an earlier one, there is an invariant
that faults leave alone (`ScrollInv`): all that is shown comes before what a
poll has got, and that before the list, as long as no other poll is under way
and more can be shown. `NoLineIsLost` needs no more than that a poll has no
lines before it has asked (`GotInv`): every step leaves the lines where they are
or moves them on, or is a fault that takes its own (`LinesStay`). So every line
that has left its pipe is in the list, with a poll or on the page (`AnswerInv`),
until `disturbed`; when StreamHandler has ended all have, and at the last look
at the list no poll has any: `LateAnswerIsWhole`. `MavenIsNeverHeld` is by
`ReadInv`: of a stream that is not read yet the pipe holds all that was written,
which for stderr is less than a pipe's size while maven has more to write. It is
a safety property, so that it assumes nothing of a handler that may hang; that
maven's output is read in the end would need fairness of both.
`LatePageShowsAll` says so of the page, `[](ReadInTime => [](~disturbed /\ page
= "stopped" => HasAll(shown)))`, by `Answered`, which is kept from that state
on; as a formula it is too dear for the run, which has the action property.

**RpcExchange_proofs.** `FuturesInv` relates the table to the two threads;
`LiveChannelsAreCached` is inductive as it stands. `ExchangeKeepsPromise` maps
every step to a step of `RemoteCall` or a stutter: a return needs a complete
future, a complete future a result that was received, and that an answer
(`Arrived`); and a call only fails while its future, if there is one, is not
complete (`DeliveredInv`), or because it has taken a result that cannot be
printed. `FoundFuturesReturn` is about fairness as far as the
prover goes: a future that is complete when it is found stays so until the call
takes it (`FoundIsKept`), so that, if every call ends, it ends as that prints.

**Decoder_proofs.** `StreamInv` says that frames follow each other and that what
is unread is the end of what has arrived, byte by byte; every step reads a
prefix of it (`ReadStream`). `OrderInv` is a disjunction: either the decoder is
in step, having read exactly the frames it handed on, or it has met a refused
frame with all those before it handed on (`Derailed`, which nothing undoes). In
step, a message begins with one frame and no other (`AtEdge`, from the header's
length), so that the codec cannot be garbled. `FramesAreInOrder` and
`NoFrameIsWithheld` follow.

**ClassCache_proofs.** `ReloadsComplete` is by induction over the reloads'
steps: what a reload has scanned was in the map when it looked or was put there,
and only `clearCache` takes away, which makes itself the last to have cleared.
`ReloadsAreFresh` needs to know besides that a reload that ran alone finds
nothing but what it has put. `HandedOutKeysResolve` carries the invariant that a
request which has passed `cache` has its keys in the map, and that only a
restart removes one.

**Workbench_proofs.** Each part of the state has an invariant of its own.
`HandlerInv` says that every thread that waits for a client has one of its own,
connected and not the one that is kept, and, until two threads connect at once,
that only one waits, and only while none is kept: `HandlerIsOpen` and
`ClientsAreUsed`, which leaves out the clients an exception has dropped.
`KeyInv`: the URL under a key is of the key's interface, and what the page, or
an answer on its way to it, was given by this process means what was asked for,
unless the service is in `mixed`: `OfferedKeysMean`. `CaseInv`: ids are below
the counter, each saved or with one thread: `CaseIdsAreUnique`. `PageInv` is
about a user who waits: under way is nothing, one request, or several look-ups
of the one choice, and each was sent for what the page shows (`Calm`):
`PageIsCoherent`.

**PomFile_proofs.** `PomInv` is `Serial` (while `clean`, a pom that can be
parsed is what was promised, one that cannot has a writer, and a download that
no edit has crossed holds in its document what was promised) with `SoleEdit` (an
edit that nobody crosses is the only writer). Nothing is assumed of the texts
that edits save: a stale edit, or one whose text cannot be parsed, ends `clean`
and leaves `promised` to the appends it undoes. Every request gets one lemma on
what its step leaves of the other requests. `MavenFindsOwn` follows one
dependency from the append through the task to maven, past other appends, which
keep it. `LibFollows` says of a reparse what the directory may hold after each
deletion, and of maven which jars it still has to copy.

Only model-checked: everything under fairness (`EveryJobEnds`, `FlagRecedes`,
`PageStops`, `EveryCallEnds`, and with it that
`FoundFutureReturns` without its condition), which is out of the prover's reach.

## Not modelled

- Registry addresses: `ConfigServiceImpl` changes a set in redis with one
  command per request and keeps nothing in the process; no step depends on an
  earlier one. (Every start adds the addresses of `registry.json` again.)
- Telnet: one request and one answer over a connection of its own, on the thread
  that asked. What comes out depends on the text of an external server and on
  how its bytes are cut into reads.
- Parameters and texts: `format`, `jsonJoin`, `parseJson`, `getMethodText` and
  their like are pure functions of strings; without the characters nothing is
  left of them to state. The same holds of the menu, a tree written as HTML
  once.
- Web layer: controllers that pass requests on, records, the interceptor.
- Of the pages, the editors, grids and dialogs, and `caseCnt.html` and
  `easyCnt.html`, which send one request and show its answer.
- Assets: what is under `static/v3/assets` is third-party (jqGrid, jQuery's
  plugins, fuelux, html5shiv) and by far the largest part of the repository's
  scripts; the JSON editor and the grid helpers in `static/v3/js` only draw. The
  tool's own logic is its Java code, the scripts inside its pages and `Nora.js`,
  which is what the models are about.
- Of modelled parts: `NettyChannel.close` and its attributes, the encoder, the
  scan of class files and most of `RedisResolver` have no caller or no state;
  `generateMethodParamsJsonString` makes a sample text.

The modules are composed where state is shared (`TaskContainer` in
`DownloadJob`, `ProviderCache` in `Workbench`, `RemoteCall` under `RpcExchange`)
and kept apart where one promises what the other takes for granted: `Decoder`
that `RpcExchange`'s responses are whole, `ClassCache` that `Workbench`'s keys
of methods lead somewhere, `DownloadJob` who gets as far as `PomFile`'s lock.
