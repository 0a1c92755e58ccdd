# TMMS-SERVER in TLA+

TLA+ models, TLC runs and TLAPS proofs for TMMS-SERVER (`src/tmms`), a C++ RTMP
live-streaming server: an epoll reactor with one event loop per thread, a TCP
and UDP library on top of it, and an RTMP stack on top of that. `main.cpp` is
empty; the programs under `src/tests` start the library, and the workloads of the
models are theirs.

Read this file with the sources at hand. Paths are relative to the repository's
root as `src/...`; `net/`, `netbase/`, `rtmp/` and `live/` abbreviate
`src/tmms/network/net/`, `src/tmms/network/base/`, `src/tmms/mmedia/rtmp/` and
`src/tmms/live/base/`.

`PROJECT.json` has the machine-readable side: the components and their status, the
runs, for every property a mutant (a plausible bug) that the run must catch, the
source lines behind every definition, the findings, the hazards and the theorems.

## 1. Inventory

### Event loops (`net/eventloop.cpp`, `event.cpp`)

*State.* `functions_` (a queue of tasks) under `lock_`; `pipe_event_` and its pipe;
`looping_`, a plain bool; `epoll_events_`; `events_`, the table from descriptor to
`Event`; the `TimingWheel`.
*Operations.* `loop`: `epoll_wait` with a timeout of one second, dispatch by an `else
if` chain (error, hang-up, `EPOLLIN`, `EPOLLOUT`), `RunFunctions`, `OnTimer`.
`RunInLoop`: call on the spot in the loop's own thread, else queue and `WakeUp`.
`AddEvent`, `DelEvent`, `EnableEventReading/Writing`, `Quit`, `InsertEntry`,
`AddTimer`, `AddConditionTimer`.
*Interaction.* Every other component lives in a loop: its handlers are called by
`loop`, other threads reach it through `RunInLoop`.
*Hard.* Any number of threads against one loop; edge-triggered reports of a pipe
from which one token is read at a time; a full pipe; tasks that run with `lock_`
held and hand over tasks themselves; `Quit` from outside.
*Correct when* every task handed over is run once, by its own loop's thread, in
its submitter's order, and without waiting for a timeout; `Quit` ends the loop.

### Timing wheel (`net/timingwheel.cpp`)

*State.* Four wheels (second, minute, hour, day) of slots of `shared_ptr`, `tick_`,
`last_ts_`. An entry's destructor is its callback: it fires when the last pointer
to it is dropped.
*Operations.* `InsertEntry` and its four branches, `AddTimer`, `AddConditionTimer`,
`OnTimer`, `PopUp`.
*Interaction.* Called at the end of each iteration of its loop; `TcpConnection`
keeps its idle entry as a `weak_ptr` and inserts it again on each read.
*Hard.* Slot arithmetic at the boundaries of the wheels; entries in several slots;
callbacks that insert again; objects that die before their timer.
*Correct when* no timer is forgotten, fires twice, or is early or late beyond the
stated tolerance, counted in turns of the second wheel. (A turn takes a second or
more: see section 4.)

### TcpConnection (`net/tcpconnection.cpp`, `connection.cpp`)

*State.* `closed_`, `io_vec_list_` (pointers to what is still to be written),
`message_buffer_`, `timeout_entry_`, callbacks, and, outside, the kernel's socket and
epoll registration.
*Operations.* `OnRead`, `OnWrite`, `OnClose`, `OnError`, `ForceClose`, `Send` of a buffer
(writes at once if nothing is queued) or of a list (queues), `EnableCheckIdleTimeout`,
`ExtendLife`, `OnTimeout`.
*Hard.* Edge-triggered readiness, partial writes in the middle of a buffer,
callbacks that send or close while a handler is running, resets, idle timeout
against late data, the lifetime of the object.
*Correct when* the peer gets the bytes that were sent, in order and once; what
is queued is registered for writing; what arrives is read; nothing is called
after the close callback; a connection whose peer is gone is closed.

### EventLoopThread and pool (`net/eventloopthread.cpp`, `eventloopthreadpool.cpp`)

*State.* `running_`, `lock_`, `condition_`, `once_`, `promise_loop_`, `loop_`, and the child
thread whose local variable the `EventLoop` is.
*Operations.* constructor (starts the thread), `Run`, `Loop`, destructor;
`GetLoops`, `GetNextLoop`, `Start` of the pool.
*Hard.* A start-up handshake of a mutex, a condition variable, a promise and
`call_once`; members that are constructed after the thread that uses them.
*Correct when* `Run` returns, `Loop()` is then a live loop, and the destructor ends.

### Servers and clients (`net/acceptor.cpp`, `tcpserver.cpp`, `tcpclient.cpp`, `udp*.cpp`)

*State.* The listening socket; `connections_` of a server; `status_` of a client;
which object has which descriptor, in the kernel, in epoll and in `events_`.
*Operations.* `Start`, `Stop`, `Open`, the accept loop, `OnAccet`, `OnConnectionClose`;
`Connect` and the connecting state of `OnRead`, `OnWrite`, `OnClose`.
*Hard.* Close from several sides (peer, user, timeout, destructor) and the table
of descriptors; a refused connect; descriptors that are reused within a batch
of reports; an accept that fails.
*Correct when* each accepted connection is in the server's set and the loop's
table or closed, and reported once; a client is told the outcome of its connect.

### RTMP handshake (`rtmp/rtmp_hand_shake.cpp`)

*State.* `state_` of either role, the packets C1/S1 and C2/S2.
*Operations.* `Start`, `HandShake` (called by `RtmpContext::Parse` for each read),
`WriteComplete` (called by `RtmpContext::OnWriteComplete`).
*Hard.* One state variable that is advanced by reads and by completed writes; a
byte stream that may be cut anywhere; bytes of the next phase in the same read.
*Correct when* each packet taken is a packet sent and both ends finish.

### RTMP context and sessions (`rtmp/rtmp_context.cpp`, `rtmp_server.cpp`, `rtmp_client.cpp`)

*State.* Per chunk stream the previous header, the packet being assembled, deltas
and extended-timestamp flags, for both directions; chunk sizes, acknowledgement
window, `out_waiting_queue_`, `sending_`, `sending_bufs_`; the command state (`app_`, `name_`,
`is_player_`).
*Operations.* `ParseMessage`, `MessageComplete`, `BuildChunk`, `PushOutQueue`, `Send`,
`CheckAndSend`, the `Send...` and `Handle...` of each command.
*Hard.* A parse that stops and starts again in the middle of a chunk; interleaved
chunk streams; changes of chunk size; one batch in flight at a time.
*Correct when* the messages parsed are the messages built, each is sent, and a
client's commands and the server's results follow each other to play or publish.

### Buffers and the text protocol (`netbase/msgbuffer.cpp`, `text_context.cpp`)

*State.* A vector with a read and a write index, whose first eight bytes are kept
free; a connection's `message_buffer_` is one. `TextContext`: `state_`,
`message_length_`, `message_body_`.
*Operations.* `Append`, `ReadFd` (into the vector and, past its end, into a block on
the stack), `EnsureWritableBytes` (moves or grows), `Retrieve`, `AddInFront`, `Peek`;
`ParseMessage`, called as the message callback of a connection.
*Hard.* Growth and moving in the middle of a message; reads that end anywhere.
*Correct when* the buffer is a queue of bytes, and the frames that come out are
those that were sent.

### AMF (`rtmp/amf/`, `mmedia/base/bytes_reader.cpp`, `bytes_writer.cpp`)

*State.* None of its own: an `AMFObject` is a tree of values.
*Operations.* `Encode...` of each type, `Decode` of a message, `Property` by place or
by name.
*Hard.* Who finds which value where: values without a property, members by
name, numbers that travel as doubles.
*Correct when* a handler finds what the sender meant.

### Live streams (`live/base/`)

*State.* `TimeCorrector`: the last original and corrected times of either stream;
`CodecHeader`: the lists of headers and metadata with their positions.
*Operations.* `CorrectTimestamp`, `ParseCodecHeader`, the lookups `Meta`, `VideoHeader`,
`AudioHeader` by position.
*Hard.* Publishers that restart with another clock, streams that know nothing of
each other, headers that change during a session.
*Correct when* corrected times go on in small steps, the streams stay together,
and a position's header is the one in force there.

### DnsService, UDP

`DnsService` asks for addresses in a thread of its own through `GetHostInfo`, which is
empty. `UdpSocket` has a send list and callbacks as `TcpConnection` has.

### Support

Configuration, log, environment, string utilities, mutex wrappers, addresses,
socket options, demos. No model (but for the descriptor a new socket gets): file and string handling and thin wrappers.

## 2. Plan

In the order of importance, and with what each module is for:

| module | models | state |
|---|---|---|
| `TaskExecutor` | abstract: what `RunInLoop` promises | done |
| `EventLoop`, `EventLoopProofs` | hand-over, wake-up, loop; implements `TaskExecutor` | done, proved |
| `TimingWheel` | all timers | done, proved (in `TcpConnectionProofs`) |
| `TcpConnection`, `TcpConnectionProofs` | one connection and its socket | done; safety proved |
| `EventLoopThread`, `EventLoopThreadProofs` | thread start and stop | done; safety proved |
| `RtmpHandShake`, `RtmpHandShakeProofs` | both ends of the handshake | done; safety proved |
| `RtmpChunk`, `RtmpChunkProofs` | `BuildChunk` against `ParseMessage`, acknowledgement count | done, proved |
| `RtmpCommands` | the messages of a session and the answer to each | done |
| `RtmpDialogue` | abstract: what a session promises, two FIFOs | done |
| `RtmpSession`, `RtmpSessionProofs` | the send queue of both ends and the commands; implements `RtmpDialogue` | done; safety and refinement proved |
| `Descriptors`, `TcpServer`, `TcpClient` | the descriptor table; acceptor and server; connecting clients | done |
| `NetLoop`, `NetLoopProofs` | composition of these three: one loop, its batch of reports, the owner's thread | done; safety proved |
| `MsgBuffer`, `TextContext`, `TextContextProofs` | the buffer as a function on its three regions; the text protocol in it | done; safety proved |
| `Amf`, `RtmpAmf` | AMF on bytes; the commands of a session in it, on top of `RtmpSession` | done; model-checked only |
| `Live` | timestamp correction and codec headers | done, proved except for the metadata (in `RtmpSessionProofs`) |

Left for later: `Understood` and `MetaUnderstood`, which need induction over the values of
a message and are out of the prover's reach as they stand.

Composition: `RtmpHandShake` has the two ends share a network and uses the
connection's promise (`StreamConserved`) instead of its mechanism, and so does
`RtmpSession`. `RtmpChunk` has `BuildChunk` use chunks longer than 128 bytes only
after their size has been announced, which is what `ChunkSizeFirst`, a part of
`Understood` in `RtmpAmf`, shows of sessions; `RtmpSession` in turn lets messages
travel whole, which is `Intact`, and as a type and a transaction id, which is
`Understood`. `NetLoop` has connections as their place in the tables, with unread
segments and no bytes: reset, writing and the idle wheel are `TcpConnection`'s.
`EventLoop` leaves to `TcpConnection`
what happens inside a callback, and `TcpConnection` takes from `EventLoop` that its
handlers run one at a time in one thread. `TcpConnection` takes from `TimingWheel`
that the idle entry fires after its delay, some turns of the second wheel from the last insertion.

Runs stay few, one per question; when a module is added, a run that shows a
known disagreement gives way where there are too many.

## 3. What is modelled, and how

Each module has a header that says what is abstracted. Operators named `Bug...`
are wrong variants used to show that a property can fail; no specification
refers to them.

**`EventLoop`.** A loop is identified with its thread. `todo[t]` is the sequence of
`RunInLoop` calls that the code running in thread `t` still has to make: a
program for clients, the body of the task or callback in progress for loops.
`PushLocked`, `CreatePipe`, `WakeUp` are the steps of `RunInLoop` from a foreign
thread, `RunDirect` the call from the own one. `pc` follows `loop`; `PollPipe`,
`PollSocket`, `PollTimeout`, `PollError` are the results of `epoll_wait`.
`BeginFunctions` ... `EndFunctions` are `RunFunctions`, with `lock_` held from the
first to the last, and with the running task at the front of the queue until
`PopFront`, as in the code. `tokens` and `edge` are the pipe and the
edge-triggered report; the pipe's capacity is a constant and a write to a full
pipe is dropped, as its result is ignored in `PipeEvent::Write`.

**`TimingWheel`.** `wheels[v][i]` is the set of pointers in slot `i` of level `v`, a
wrapper of an upper wheel being the pair of its entry and the rest of the
delay. `Kind` says whether a timer runs once or recurs, `Conditional` whether
`AddConditionTimer` made it: `Expire` is then the death of the object behind its `weak_ptr`,
after which it does not run, nor recur. `PopUp` computes which entries lose their last pointer, fires those and
inserts what re-arms. `UpperWheel` is `OnTimer`'s `else if` chain, unreachable
branches included. `Turn` includes every insertion that callbacks make.

**`TcpConnection`.** Bytes are pairs of a Send call and a position, so that the
output list and the stream can be compared byte by byte. `pc` is the place of the
loop thread; callbacks are places in which `UserSend` and `ForceClose` may happen.
`maxIdle` is the time given to `EnableCheckIdleTimeout`, 0 where nobody calls it, as in a
`TcpClient`; a behaviour has one or the other.
`ready` and `Conditions` are epoll's ready list for an edge-triggered descriptor.

**`EventLoopThread`.** One action per step of the constructor, the child and `Run`
between which other threads can run. The members after `thread_` are constructed
in `InitMembers`, at any time after the child has started. Two history variables
single out the races the code has: `overtaken` (the child was inside before the members
were constructed) and `quitLost` (`Quit` came before `loop` set `looping_`).

**`RtmpHandShake`.** Bytes are pairs of a packet and a position; `net` and `out` are
what is on its way and what the sender has not written yet, so that writes
complete late and reads end anywhere. `Wait`, `TakeC0C1`, `TakeC2`, `TakeS0S1`,
`RejectS0S1`, `TakeS2` are the outcomes of `HandShake`; `SendNow` is the direct `Send`,
with the completion callback inside it when everything is written at once.

**`RtmpChunk`.** A unit of the stream is a tagged field of a header or a byte of a
body. `Build` is `BuildChunk` (its two overloads differ in who keeps the packet): `Format`
chooses the header, `Chunks` cuts the message.
`Arrive` is a read together with the beginning of `ParseMessage`, `ParseStop`, `ParsePart` and
`ParseChunk` are the ends and the round of its loop; `Header`, `Delta`, `ext` and `Capacity` are what the
round makes of `header`, `in_deltas_`, `in_ext_` and the packet. As in the code, a round that
finds the body incomplete has changed all of these already. `Misread` compares tags
with what the parser takes the bytes for.

**`RtmpCommands`, `RtmpSession`.** `Reply` is what `MessageComplete` leads to for each
message: control messages, `HandleUserMessage` and the handlers of commands. `Push` is a
series of `PushOutQueue` calls, `Send` and `CheckAndSend` are the functions of that name;
`Write` is the connection writing part of a batch, with `OnWriteComplete` after the
last of it. `UserCtrl` is `SendUserCtrlMessage` as it is: the value is written over the
event, so that the answer to a ping arrives as the event that the ping's value
happens to name, and `StreamBegin` arrives as itself because it is event 0.

**`Descriptors`, `TcpServer`, `TcpClient`, `NetLoop`.** An object is the acceptor, a peer's
connection or a client. `Descriptors` keeps which number is whose in the kernel, in
epoll and in `events_`, and hands out the lowest free one. `Poll` takes the batch of
reports; `batch` is what is left of it, reports by number, so a number that is
closed and used again within the batch leads to its next owner, as in `loop`.
`Accept`, `AcceptEnd`, `AcceptFail` are the rounds of `Acceptor::OnRead` with the three
results of `accept4`; it looks for a free descriptor before it looks at the backlog,
so it may fail for want of one although nobody waits. During the accept loop `cur` is the
connection accepted last, whose `new_connection_cb_` may close it or another one (`InUserCode`). A peer
that closes while it waits in the backlog (`left`) is accepted all the same, and reported at once. `Open` closes the old socket without `DelEvent`,
as the code does. `Start` and `Stop` are steps of the owner's thread, `RunOpen` the task that
`Start` posts. `ConnectStarts`, `ConnectFails`, `ClientConnecting`, `ClientError` are the life of
`status_`. History variables single out what the code does wrong: `reopened`
(a listener that `AddEvent` refused because the number was still in `events_`) and
`missed` (a connect that ended by a report with data in it).

**`MsgBuffer`, `TextContext`.** A buffer is a record of the vector's contents and the two
indices; each operation is a function from a buffer to a buffer. `Moved` and
`Grown` are the two ways `EnsureWritableBytes` makes room; growth keeps the initial
capacity as `Swap` does. `TextContext` reads a stream of frames in pieces of any
length; `ParseHeader`, `ParseShort`, `ParseBody` are the branches of `ParseMessage`'s loop and
`ParseSpin` the round that takes nothing and does not leave it. `Due[k]` is what the wire
carries of the messages after the `k`-th.

**`Amf`, `RtmpAmf`.** Bytes in network order, doubles included; a decoded value is a name,
a kind and a value. `Decode` and `ScalarAt` return what was found and where they
stopped, or `Failed`. `Wire` is the AMF data of each command as the `Send...` and
`Handle...` operations write it; `CommandOf`, `TransactionOf`, `AppOf`, `NameOf` are the
handlers' lookups. `kAMFNull` leaves no property, so `Property(3)` of `HandlePlay` and
`HandlePublish` is one past the name: `play` stores an empty name and `publish` the word
`live`. `NameFound` states this; a player's session is right all the same because
`tcUrl` ends in the stream's name (`SessionName`), and `HandlePublish` sets none.

**`Live`.** `VideoBase`, `CorrectVideo`, `CorrectAudio` are the corrections, `Step` the default in
place of a difference that is too large, `HeaderFor` the search of the three lookups, from the newest header back. The
caller is an assumed one: `src/tests/live/test_codechander.cpp` passes what it receives to
`ParseCodecHeader`, and nothing in the repository numbers packets (`SetIndex`) or calls
`CorrectTimestamp` yet. `OnRecv` does all three, in the order in which a packet needs them. Frames have exactly the type
that `CorrectTimestamp` compares with; one that carries the key-frame flag too
would get time 0.

## 4. What the runs show

| run | question | instance |
|---|---|---|
| `MCEventLoop_handover` | Are tasks run once, in order, promptly; does `Quit` work; is `TaskExecutor` implemented? | 2 clients, 2 loops, 5 tasks, nested calls in the own and to the other loop, pipe of 1 token |
| `MCTimingWheel_timers` | Do timers fire when they should, counted in turns of the second wheel? | wheels of 3 seconds, 3 minutes, 2 hours; a recurring timer of more than a minute and one of exactly a minute, both with a condition, an idle entry, and a timer of an hour; clock of 2 units per second, 13 units |
| `MCTcpConnection_stream` | Is the stream intact, armed, read, closed? | two direct writes and a list, 8 bytes against a send buffer of 3; fin, reset, close; with an idle check and without |
| `MCEventLoopThread_shared` | Does start-up work for several callers, and the destructor after it? | an owner and two users |
| `MCRtmpHandShake_both` | Do two ends finish, on packet boundaries? | packets of 4 bytes, every cut |
| `MCRtmpChunk_mixed` | Are the messages parsed the messages built? | 3 messages of 9, on 3 chunk streams that mix; chunk sizes 2 and 3, windows 8 and 5 |
| `MCRtmpSession_start` | Does a session start, with nothing left in a queue and every command understood? | play and publish; batches of 2; a ping to each end, at any time |
| `MCNetLoop_tables` | Do the three tables of descriptors agree; is everybody accepted, read, told? | 3 descriptors; a listener started, stopped, started; 2 peers and a client |
| `MCTextContext_frames` | Is the buffer a queue; do the frames come out? | 5 messages of 0 to 6 bytes, more than the buffer takes, every cut |
| `MCLive_stream` | Do corrected times stay small-stepped and together; is the right header found, are the metadata understood? | 6 packets, 2 restarts with clocks 0, 79 and 5000 |

These pass. The next ones each show one disagreement between the code and a
comment in it; `PROJECT.json` quotes the comments.

| run | what it shows |
|---|---|
| `MCEventLoop_mutual` | two loops whose tasks hand over to each other wait for each other's `lock_` for ever |
| `MCTcpConnection_lost` | `EPOLLOUT` reported together with `EPOLLIN` is dropped, and queued bytes stay queued |

Other disagreements are excepted by name in properties of the passing runs, so that
these show that nothing else goes wrong:

- timers of an hour or more stay pending for ever, because the hour and day branches of
  `OnTimer` are unreachable (`NotOverdue` speaks of shorter delays);
- `OnTimer` is called once per round of the loop and turns the second wheel by one slot when
  a second or more has passed, then takes the time of the call for `last_ts_`
  (`timingwheel.cpp:65-70`). What exceeds the second is forgotten, so in seconds every timer is late by
  the sum of it, which nothing bounds (`Turn`; `NotOverdue` and `NeverTooEarly` count turns);
- a recurring timer of 0 seconds, or of more than the wheels hold (30 days), is not stored: the
  refused entry is destroyed, its destructor runs the callback and adds the timer again, without
  end (`timingwheel.cpp:49-51`; `TimerAssumption` excludes such timers);
- a `Quit` between `set_value` and `looping_ = true` is lost and the destructor never
  returns (`quitLost`); the child may lock and wait before the mutex and the condition
  variable are constructed, and `Run` may then never return (`overtaken`);
- a direct write that finds the send buffer full returns -1 into a `size_t`
  (`tcpconnection.cpp:202`) and queues a byte in front of the caller's buffer:
  `handed` counts that byte as handed over when `Fails`, so that `StreamConserved`
  says that nothing else goes wrong then, with the peer alive or gone;
- a timestamp of 0xFFFFFF or more arrives as another one, since a header of type
  0 ignores the extension it reads (`rtmp_context.cpp:258`; `ExtendedTime` in `Intact`);
- `OnPublishPrepare` is never called, as `HandlePublish` answers with `onStatus` alone
  (`SessionStarts` asks a publisher for `OnActive` only);
- a server that is started again after a `Stop` that came before the `Open` of the
  first start has a listener that nobody watches (`reopened` in `TablesAgree` and
  `NobodyWaits`); a stopped one goes on listening (`Stopped`);
- a refused connect is reported to `OnError` alone and stays connecting
  (`ConnectEnds`); data that arrives with the end of a connect is read with the next
  (`missed`);
- `ParseMessage` of the text protocol spins when a body comes in pieces (`CutBody`),
  although its comment promises to return, and an empty message is held back while
  its header is the last thing that has arrived (`HeldBack`);
- a publisher that restarts before its second stream has begun leaves the streams
  as far apart as its clocks are (`uneven` in `Together`);
- the client takes 1536 bytes for the 1537 of S0S1 (`CutShort` in `Aligned`);
- a message that repeats one with an extended timestamp has no extension, and
  `ParseMessage` expects one (`Repeats` in `Intact`).

**Bounds and why they are enough.**
*EventLoop:* one token makes the pipe full with the second hand-over, so all cases
of `PipeWrite` and of coalesced reports occur; two tasks from one client to one
loop are what order needs; posting goes from one loop to the other only, since
both ways is the deadlock of `MCEventLoop_mutual`. The proofs do away with these
bounds for the safety part.
*TimingWheel:* the arithmetic depends on the ratios only; the smallest wheels that
still have a slot before, at and after each boundary are taken. `MaxNow` allows
six turns of the second wheel, with which the minute wheel turns twice. 342995 states,
two to three minutes.
*TcpConnection:* three bytes of space make every split of the writes occur; the
program's second direct write finds the space of none, one or all of its bytes,
depending on what the peer has read, and a dead socket after a reset. `IdleTimes` has 2, for the
connection of a server, and 0, for one without an idle check. With 0 nothing but reading can
satisfy `ArrivedIsRead` (or a close by user or peer), so a report that `OnRead` does not use up
shows also when the peer sends no more. (With an idle check the connection of
such a peer is closed in the end.)
*RtmpHandShake:* only the relation of lengths matters (P and P + 1); with four
bytes every packet can be cut in front, in the middle and before its last byte.
*RtmpChunk:* numbers have two digits of base 4 and `Cap`, which stands for 0xFFFFFF, is 6;
chunk sizes of 2 and 3 against messages of 1 to 7 give messages of one chunk, of
exactly one and of several, with either size. The catalogue has times that grow
by the same and by another difference, repeat and go back, changes of length and of stream
id, so with three messages each header format follows each other one. Windows of 8 and 5 units
are filled in the middle of a chunk, of a header and at a message's end.
*RtmpSession:* batches of 2 where the code takes 10, so that a reply of four messages
needs several; one ping to each end finds the queue empty, full and in between, and
its answer may ask again. Words, addresses and names are single bytes: what
`Understood` compares is which value is found, not how long it is.
The window of 2500000 bytes is never filled by what a
session's start sends, so no acknowledgement joins the queue here.

*NetLoop:* three descriptors are one less than the listener, two peers and a client
need, so accept runs out of them, and every number is used again by another
kind of object. One segment per connection is enough for data that comes before,
with and after the end of a connect; `MaxSegments` also excludes a peer that sends
faster than `OnRead` reads, for ever. Clients connect from tasks (`ConnectAt`), not
from message callbacks. (From there a report of the number's previous owner can
end a connect whose handshake is still under way.) What happens outside is a step only
where the loop next asks the kernel about it (`AtSystemCall`), since it shows nowhere
else. 274124 states, two to three minutes.
*TextContext:* a buffer of 8 + 8 bytes and a block of 9 on the stack against messages
of 0 to 6 bytes, 30 in all with their lengths: reads fill the vector, the block, and both, the bytes are moved and the vector
grows. At each buffer reached `BufferIsAQueue` tries every operation.
*Live:* steps of 40 and 80 ms for video and 20 ms for audio, all below the limit, as
a stream that pauses longer than that falls behind the other by the code's
design; clocks nearer and farther than the limit. `Skew` is the distance of the
first frames. The packets are bounded by `MaxPackets`; two restarts accumulate the drift that `Together` bounds.
A clock 79 ms away makes the first frame after a restart differ by less than the limit
in one stream and by more in the other.

**Tolerances that properties state.** `NeverTooEarly` gives timers of a minute or
more a minute's slack, because `InsertMinuteEntry` counts from the beginning of
the current minute; timers below a minute may run short by the second in
progress. It and `NotOverdue` count turns of the second wheel, each of which
takes a second or more. `Aligned` and `HandshakeEnds` except the runs in which
a read of the client ends one byte before the end of S0S1 (`CutShort`). `Intact` and
`NothingLeft` except the timestamps, and what is remembered of them, where an extended one was sent, and
say nothing once a message with an extended timestamp repeats (`Repeats`).

**Fairness.** *EventLoop:* strong fairness of each thread's next step (the
scheduler runs threads, a mutex that is freed again and again is granted) and of
`epoll_wait` reporting the pipe; none for timeouts, so `CallIsExecuted` shows that the
pipe alone wakes the loop. `QuitEndsLoop` needs the one-second timeout, and states
it as a premise (`Timeouts`), because `Quit` wakes nobody. *TcpConnection:* the loop runs
and user code returns, the clock ticks again and again, the peer reads what it
is sent; no fairness of arrivals or of user calls (and with an idle time of 0 no tick happens). *EventLoopThread:* weak for the child and
the owner, strong for threads that contend for `lock_`. *RtmpHandShake:* both
loops run and TCP delivers. That bytes are delivered is what `TcpConnection`
cannot promise in the case of `MCTcpConnection_lost`; the handshake is
checked on the assumption that this case does not occur. *RtmpSession:* connections write what
they are given and loops handle what arrives; no fairness of pings.
*NetLoop:* the loop runs, user code returns, a
connect in progress is answered or times out; no fairness of peers or of the
owner. *TextContext:* the stream is delivered and the loop runs.
*TimingWheel, RtmpChunk, Live:* safety only.

**Deadlock** is checked except where a system stops by itself: the workloads of
EventLoop, EventLoopThread, RtmpHandShake, RtmpChunk and RtmpSession end, TimingWheel's clock and
Live's packets are bounded. NetLoop and TextContext are checked for it: there the loop
polls on when all is done.

## 5. What is proved

The theorems hold for every value of the constants that their modules' assumptions
admit; the runs show the same properties on one instance each. `PROJECT.json` lists
them under "theorems". In every module an inductive invariant carries the proofs,
with one lemma per action or per part of the invariant.

| module | theorems |
|---|---|
| `EventLoopProofs` | `InvariantHolds`, `TypeCorrect`, `NoWakeupIsLost`, `ReadsNeverStarve`, `Refinement` (of `TaskExecutor`) |
| `TcpConnectionProofs` | of `TimingWheel`: `WheelInvariantHolds`, `NoneIsLost`, `NoneIsOverdue`, `NoneIsTooEarly`; of `TcpConnection`: `TypeCorrect`, `StreamIsConserved`, `WritesStayArmed` |
| `EventLoopThreadProofs` | `InvariantHolds`, `LoopIsThereAfterRun` |
| `RtmpHandShakeProofs` | `HandShakeAligned` |
| `RtmpChunkProofs` | `ChunkTypes`, `BytesCountedOnce`, `MessagesIntact`, `NothingIsLeft` |
| `RtmpSessionProofs` | of `RtmpSession`: `QueueAlwaysMoves`, `Refinement` (of `RtmpDialogue`); of `Live`: `LiveInvariantHolds`, `StreamsStayTogether`, `RightHeaderIsFound`, `StepsAreSmall` |
| `NetLoopProofs` | `InvariantHolds`, `TablesStayInStep`, `EachIsReportedOnce` |
| `TextContextProofs` | `EveryBufferIsAQueue`, `FramesStayIntact`, `BufferStaysAQueue` |

Two modules hold the proofs of a component together with those of another one that it
works with: a connection and the wheel that times it out, a session and the timestamps it carries.
A module that extends both needs different names for their specifications, which is
why those of `TimingWheel` are called `WheelInit`, `WheelNext`, `WheelSpec`, and those of `Live`
`LiveInit`, `LiveNext`, `LiveSpec`.

**`EventLoopProofs`**: any sets of clients, loops and tasks, any workload and pipe capacity
(`ThreadsAssumption`, `WorkAssumption`, `PipeAssumption`). `NoLostWakeup` is not
inductive. What makes it so is `Inv`: besides types, `ControlInv` (a call in progress
goes to a foreign loop, the front of the queue stays while it runs, the batch is empty
outside the dispatch), `LockInv` (`lock_` is held by exactly the thread that is inside
`RunInLoop` or `RunFunctions`), `PipeInv` (an unreported or undispatched report stands for
a token, two for two; a full pipe has a report outstanding) and `WakeInv` (outside the
stretch from dispatch to the end of `RunFunctions`, a queued task with no caller
inside has an unreported edge). The interesting case is the dropped token: by
`PipeInv` a full pipe has a report to come, or one in the batch, in which case the loop
is about to call `RunFunctions`. `RefinementStep` maps `functions_` without the running
task to the abstract queue; `CallFront` is the abstract step, `PopFront` a stutter.

**`TimingWheel`** (in `TcpConnectionProofs`): wheels of any size, as long as each is a multiple of the one
below it, any timers and any clock (`WheelAssumption`, `TimerAssumption`,
`ClockAssumption`). That nothing is late is not inductive: a late pointer would have
had to be late in its slot. `Inv` says of each pointer where it may be: `Timely` bounds
when its slot is emptied, and when the rest it carries is used up, by the entry's last insertion
and delay; `Kept` says that every pending entry has a pointer that does not come too
early. `OnTimer` proceeds in stages (turn of the second wheel, cascade of the minute
wheel, insertions of callbacks), and the lemmas follow these with the wheels and
`tick_` as parameters.

**`TcpConnection`** (in `TcpConnectionProofs`): any program of sends, any buffer sizes and faults
(`ProgramAssumption`, `BoundsAssumption`). `StreamConserved` is inductive together with
`TypeOK`: each step moves a prefix of what is on one side to the end of the other, and the
lemmas on splitting byte sequences (`Split`, `BytesSplit`, `Regroup`) say that nothing
is changed by that. `WriteArmed` needs `TypeOK` only, because
`OnWrite` gives up the interest before it calls back.

**`EventLoopThreadProofs`**: any number of threads and any programs of theirs (`UsersAssumption`,
`ProgramAssumption`). `LoopAfterRun` needs the whole protocol: `ConstructorInv` (what the
members still to be constructed allow), `ChildInv` (where the child is when `running_`,
`loop_` and the lock say what they say), `PromiseInv` (a fulfilled promise means that
`loop_` was set, and `call_once` is done only then).

**`RtmpHandShakeProofs`**: packets of any length from two bytes on (`PAssumption`), writes and reads cut anywhere. `Aligned` looks at
what an end has taken only. Its inductive invariant says what each end has still ahead of it, in the
buffer, in the network and with the sender, in terms of the other end's state: `ServerInv` that a server which waits for
C0C1 has all of it and whatever the client has sent after it, or nothing at all, to come,
and `ClientInv` the same of S0S1 and S2. The client takes one byte less than S0S1 for it
(`CutShort`), so the server's half must be proved without the client's: what the server takes does
not depend on where the client thinks its packets begin.

**`RtmpChunkProofs`**: any catalogue of messages, any chunk sizes and windows, any base of numbers, any mixture
of the chunk streams and any cut of the reads (`CatalogueAssumption`, `SizesAssumption`). One assumption is about
the code's numbers: the size with which a receiver begins is not above the
one with which a sender cuts (128 and 4096). Were it above, a message between the two would be
cut where the receiver does not expect it, without an announcement. None of the four properties is
inductive, and the invariant `ChunkInv` has three layers.

- *What is under way* (`RoadInv`). The bytes in the buffer and in the network are, from each basic header on,
  a chunk that `BuildChunk` makes of some message sent, or the rest of it; so are the chunks still
  to be written. Since a body unit carries its origin, it is known which one (`OneIdentity`). This alone bounds
  the packets (`ChunkTypes`). `BytesCountedOnce` needs only that `last_left_` is what is in the buffer
  whenever nothing is parsed.
- *The order* (`OrderInv`). Chunks of one chunk stream are under way in the order in which they were built.
- *Where the receiver is* (`Reading`). For each chunk stream there are the last message delivered and the message
  begun since, with the number of its chunks taken (`At`). All chunks before
  that place are gone, all others are under way, and what the receiver keeps (packet, previous header, difference, extended flag)
  is what the sender had when it built the chunk at that place: `Stage`, by the same functions
  of the messages that describe the sender (`HeadOf`, `TimeOf`, `DeltaOf`, `FormatOf`). The stream begins with
  a chunk, which is not complete while the parser waits (`FrontInv`); an announcement of the chunk size is ahead of
  every chunk that needs it (`LongInv`).

`ParsePart` is where this is needed most: it changes the packet's header, the difference and the flag, and the
same chunk is then parsed again against what has been changed. `HeaderRight` shows that the second parse
gives what the first one gave, whether the header had been read before or not. `Reading` holds
unless messages repeat with an extended timestamp (`Repeats`): only then may what is
at the front be taken for something else (`NoMisread`). The layers below it hold always. Timestamps, and the differences
kept for the next header, are claimed when none is extended. `NothingIsLeft` follows
without another induction: with nothing under way, `At` can only be at the end of its chunk stream.

**`RtmpSession`** (in `RtmpSessionProofs`): any size of a batch and any pings (`BatchAssumption`). `QueueMoves` is
inductive as it stands: a handler may call `Send` several times, so the proof is about
series of `PushOutQueue` (`PushAppends`) and the completion inside `Write`. The refinement maps the
queue, the batch in flight and the part of it that is written to one abstract FIFO.

**`NetLoopProofs`**: any numbers of descriptors, peers, clients, segments and calls of the owner
(`MaxFdAssumption`, `OwnerAssumption`, `ObjAssumption`, `ConnectAssumption`). `TablesAgree` and
`ReportedOnce` need `PeersInv`, `BacklogInv` and `ClientsInv`: nobody in the backlog has a
descriptor, a client that is closed has none. The lowest free descriptor, which `accept4` and
`socket` return, exists by `WFMin` on the order of the naturals.

**`TextContextProofs`**: `EveryBufferIsAQueue` is about every layout of a `MsgBuffer` that the
member functions may leave, and all data, for any initial capacity and any block on the
stack (`SizesAssumption`). `FramesStayIntact` and `BufferStaysAQueue` are about any messages
of less than 256 bytes, in pieces of any length (`MessagesAssumption`). `Untaken`
puts the buffer, the kernel and the rest of the stream together, so that `Arrive` and
`OnRead` leave it alone and only the parser takes from its front. The frames that are
due are a recursive function on the number of messages delivered. Induction theorems
cannot be used here, so its values are shown to exist by a least
counterexample: a set of numbers that is not empty has a least one (`WFMin`).

**`Live`** (in `RtmpSessionProofs`): any steps below the limit, any clocks, any number of restarts and
packets (`LiveAssumption`). For `Together`, `Drift` counts per stream the restarts it has met: a
stream that has not had a frame since a restart is still where it was, so the bound
cannot be stated for the pair alone. For `HeaderInForce`, `SavedOK` says that each list has exactly
the headers of its kind in the order of their numbers.

**What the proofs taught about the models.** `Together` once had a bound of one limit per
restart, which the small instance of the time confirmed: the attempt to prove it showed
that a stream can lose nearly two limits and the other gain nearly one, and with a
clock of 79 TLC finds it too. The set of all buffers once admitted vectors shorter than
`kBufferOffset`, which no member function leaves behind and `RetrieveAll` would take
out of bounds. `EventLoopThread` and `NetLoop` relied on their constants naming different things;
they now assume so. That the chunk size a receiver begins with is not the larger one was
nowhere said of `RtmpChunk`; the proof needs it, and with 3 and 2 and a message of length 3
TLC finds `Intact` violated.

TLC checks the inductive invariants in the runs of `EventLoop`, `EventLoopThread` and `TimingWheel`. Those of `NetLoop`,
`Live`, `RtmpHandShake` and `RtmpChunk` imply the properties that their runs check, and were found with TLC
before they were proved; that of `RtmpChunk`, with its quantifiers over places bounded by what is
under way, holds in all 555880 states of `MCRtmpChunk_mixed`.

**What stays with TLC.** Liveness and ENABLED are beyond the prover: `CallIsExecuted`,
`QuitEndsLoop`, `ArrivedIsRead`, `PeerGone`, `RunReturns`, `DestructorEnds`, `HandshakeEnds`,
`SessionStarts`, `NobodyWaits`, `ConnectEnds`, `AllDelivered`. So are `Understood` and
`MetaUnderstood`, which follow AMF through a message and need induction over its values.
Every other invariant and action property of the passing runs is stated by a theorem.

## 6. What is not modelled

- *Object lifetime* (`shared_ptr` against handlers in progress) and the pointers
  and references captured by `Send`, `SetTimeoutCallback`: outcomes of undefined
  behaviour that a model cannot enumerate. The hazard at `tcpconnection.cpp:63` names
them: a callback that closes its own connection leaves `OnRead` in an object that
nothing holds any more.
- *A second `Connect` of a `TcpClient`* after its connection was closed: `closed_` is never
  reset, so the new descriptor would not be closed by anybody. `Connect` is modelled once per
  client.
- *Data races inside the tables*: the first hand-over (`WakeUp` calls `AddEvent`) and `Stop`
  change `events_` from another thread while the loop looks descriptors up in it. A
  race inside an `unordered_map` has no outcomes to enumerate; `CreatePipe` and
  `Stop` are atomic steps here, at any moment of the loop.
- *Results of `bind` and `listen`*, which the code does not look at, and *destructors* of
  servers, clients and loops.
- *The components marked not_modelled* in `PROJECT.json`: `UdpSocket`, whose
  `OnWrite` does not return once its list is empty (`udpsocket.cpp:160`), so that there is
  nothing after it to check; `DnsService`, which finds no address; the pool, whose
  `GetNextLoop` takes the loops in turn; and the support code, whose internals no behaviour of the server
  depends on.
- *Of RTMP messages*: the spelling of URLs and names (`ParseNameAndTcUrl` works on the parts
  between slashes), `_error`, the media types and the handler's `OnRecv`; basic headers of two and three bytes;
  messages without a body; the 4096 bytes of `out_buffer_` that the headers of a batch
  share; the `BuildChunk` for packets that stay the caller's, which nothing calls. (`Send` passes
  no timestamp, so this repository's messages all have 0; other timestamps come from
  other implementations and from code still to be written.)
- *Handlers of a server*: `RtmpServer` creates its contexts without one
  (`rtmp_server.cpp:47`), so `OnPlay`, `OnPublish` and `OnRecv` reach nobody there.
- *Foreign RTMP peers*: both ends of `RtmpHandShake` are this repository's.
  `HandShake` does not look for S2 after S0S1 in the same buffer, so a server that sends both
  together and then waits is not answered until more bytes come.
- *Of AMF*: `DecodeOnce` and strict arrays, which no end of this repository sends; the fraction
  of a number, which `NumberAt` drops as the code does, and the value of a negative
  one, whose conversion to `uint64_t` is undefined (`Unspecified`).
- *Of the text protocol*: lengths of 2^31 and more.
- *Of live streams*: `CorrectAudioTimeStampByVideo`, which nothing calls, and the counter
  that only it reads.
- *Cryptography of the handshake*: the digest check is its outcome.
