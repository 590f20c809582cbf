# A TLA+ model of cpp-snippets

`hyz/cpp-snippets` is a collection of programs and experiments in C++.  Some of
them are systems in their own right: a video sender and receiver over UDP and TCP
(`network/epoll`), an Android player with a hardware decoder (`android/jni-01`),
a step server for phones (`chs.cc`), push relays, chat clients, a process
supervisor.  This directory models them in TLA+, checks the models with TLC on
small instances and proves most of their safety properties with TLAPS for every
value of the constants.

## 1. Inventory

| Component | State | Operations | Hard parts |
|---|---|---|---|
| Frame ring (`network/epoll/buffer.hpp`) | buffers, `ip_`, `ialloc_`, `iusing_`, mutex, condition | `alloc`, `wait`, `done`, `fail` by encoder and network thread | `done` and `fail` take no lock; the server's ring has 2 buffers |
| UDP stream (`epoll.hpp`, `main.cpp`) | events, peer, frame under way, fragment numbers | `prewait`, `process_io`, `l2send`, `l2recv_one`, `l2close`, `unpack`, `feedback` | loss, duplicates, edge-triggered events, keepalives |
| TCP stream (`epoll.hpp`, `thread.hpp`) | listening and client socket, events, place in the frame | accept, `l1recv`, `l1send`, `trysendx`, `error`, stop and join | short sends, clients that leave in a frame, one event for several things |
| Link testers (`udp-io.cpp`, `udp-io2.cpp`) | numbers sent and received, message under way | send, receive, report | short sends, lost and repeated datagrams |
| Decoder input port (`ildec.cpp`) | flags and content of two buffers | `send`, `callback` | a lock commented out |
| Decoder set-up (`ildec.cpp`, `demo.cpp`) | stage, command semaphores, output buffers | `setup`, `teardown`, the component's callbacks | one semaphore for all kinds of events |
| RTP receiver (`hgs-rtph264.cpp`) | NAL unit under assembly, counters | `handle_datagram`, `nalu_incoming`, `statis`, `rreport` | loss, late packets, 16-bit arithmetic |
| Player (`hgs-jni.cpp`, `hgs-rtph264.cpp`) | `main_`, `tmpargs_`, RTSP dialogue, three threads | init, start, stop, RTSP handlers, output | tear-down with operations under way |
| Rendering (`VideoRender.cpp`) | window, surface, local picture, two flags | `setWindow`, `renderFrame`, `copyToLocalImg`, scaling loops | three threads, one mutex that one of them skips; sizes that are no multiples |
| Step server (`chs.cc`, `glex.hpp`) | `stats_` and its index, connections, archive, cookies | accept, `cb_rdwr`, `commands`, `cb_timer`, `save_arc`, `restore_stats`, text functions | iterators erased late, restarts, hand-written parsing |
| Push relays (`relay.cpp`, `apple_push_relay.cpp`, `apple_push_proxy.cpp`) | stage, queue of messages with their clients | `pushmsg`, `connect`, completion handlers | a client that leaves while its message is written, reconnects |
| HTTP readers (`as.cpp`, `ac.cpp`, the proxies, `chs.cc`) | buffer, what is read next, reply writers | read handlers, `Sender` | TCP cuts anywhere, pipelined messages |
| Chat clients (`asio/ter.cpp`, `chat_client.cpp`) | stage, timer, read chain, write queue | `timed_loop`, log-in, read and write handlers | retries that overtake a success |
| Supervisor (`wproc.cpp`) | programs and their pids | `check_procs`, reaping | one child reaped per round, reused pids |
| Tetris board (`multi_array_tetris.cpp`) | field, stone, position | moves, rotation, collapse | several rows at once, the walls |
| JSON parser (`js.cc`) | position in a line | `jsax_*` | a descent without a way back |

What makes each of them correct is stated by the properties in section 3;
`PROJECT.json` lists the hazards, each at its line.

## 2. Modules

Each component has a module of its own.  `FrameChannel` is the abstract
specification of the ring.  Components that share neither state nor calls are
checked together by three modules that only choose which of them runs:
`ClientPrograms` (`AvcInput`, `AvcSetup`, `Player`, `ChatClient`), `TcpServers`
(`HttpReader`, `TcpStream`) and `SmallPrograms` (`RenderFrame`, `VideoRenderGL`, `Tetris`,
`Supervisor`, `Glex` with `ChsText`, `Jsax`, `LinkTester`).

The theorems are in eight modules that extend the models:

| Module | About |
|---|---|
| `CycleBufferQueueProofs` | the ring, and that it implements `FrameChannel` |
| `UdpStreamProofs` | `UdpStream` |
| `TcpStreamProofs` | `TcpStream`, and the reply writers of `HttpReader` |
| `ClientProofs` | `AvcInput`, `Player`, `ChatClient` |
| `PushRelayProofs` | `PushRelay` |
| `RtpReceiverProofs` | `RtpReceiver` |
| `ChsSessionsProofs` | `ChsSessions` |
| `ProgramProofs` | `RenderFrame`, `VideoRenderGL`, `LinkTester`, `Supervisor` |

**CycleBufferQueue.** `buf`, `ip`, `ialloc`, `iusing` are `bufs_`, `ip_`, `ialloc_`,
`iusing_`; iterators are slots `0 .. BufCount-1` and `End`.  `alloc()` is one step
(`Alloc`): it runs inside the mutex, and the only unlocked store that it can
meet, `iusing_ = end()`, is read once.  `wait()` is `WaitLock`, the two reads of `ip_`
in `_findusable(ip_, decr(ip_))` in either order, one step per slot looked at, and
`CondWake` for `cond_.wait`.  The stores of `done()` go through `stores` and `late`:
with `WeakOrder = FALSE` they become visible in program order, with `TRUE` in any
order, as plain variables written without a lock allow.  A thread's later lock
comes after all its stores.  The encoder leaves its loop with a buffer still
allocated; the network thread calls `fail()` only from `l2close()`.  The `ERR_EXIT`s
lead to `fatal`.  A frame's content is its number.

**UdpStream.** Every variable is a function of the node, as both nodes run
`io_basic`.  `prewait` sends at most one fragment because `send_ret_` clears `EPOLLOUT`
after every datagram.  `PollIn` takes the events of one `epoll_wait`, `RecvOne` is
one turn of `l2recv`, `RecvEnd` the EAGAIN that ends it, together with the sending
that follows in `process_io`.  The receiver's number `xh_.u16[1]` is `exp`, the buffer
`xbuf`.  `NoFrame`'s fragment stands for the keepalive `0xffffffff`.  The server's ring
has two buffers and is reduced to what `CycleBufferQueue` shows of it: `Encode` is
`done()` and `Alloc` the `alloc()` after it, `filling` whether the encoder is behind the
latter.  `wait()` may return either waiting frame while it is not (`NextFrames`), and none
although one waits when it meets the stores of a `done()` (`Overlooked`).  `Alloc` throws
away the older frame or, when that one is being sent, the frame just finished
(`reclaimed`).  `overtaken` are the frames that waited when a newer one was taken.  The
client's ring of 16 echoes is a queue that throws away its oldest: there one thread
does `alloc`, `done` and `wait`, so that a scan meets nothing and begins at the oldest.
`unpack()` finds frames by their length: given one whole frame it takes exactly
that; given anything else it either consumes it or leaves it in `xbuf`.  `L2Close`
kills the client because `malloc_buf::operator=` (`buffer.hpp:86`) recurses without
end; the server's `array_buf` does not.  Datagrams are not reordered.

**TcpStream.** The server over TCP.  `edge` holds the events epoll has to report,
`todo` those it reported together; `events` is `events_`, which is added to by an
event and taken from by a short send or receive.  A frame has two parts, so a
send is short or not.  The ring is that of `UdpStream`'s server (`Encode`, `Alloc`,
`trysendx`, `Overlooked`).  `error` closes the client, gives the frame back and resets the
receive buffer: `XBuffer()` is a temporary, and the buffer's pointers are left pointing
into it (`epoll.hpp:498`).  What is received from then on is written over the stack,
where it may end the program (`Smashed`) or do no harm.

**LinkTester.** Both testers; `proto` is `"asio"` for `udp-io.cpp`.  A unit is the four
bytes in which `data_` is indexed: the rest of a short send is taken from the wrong
place in these units, and `SendSome` says what is sent instead.  A send takes at
least one unit.

**AvcInput.** Stage 2 of the decoder.  A flags byte is a set of its bits; `|=` is a
read and a write.  The decoder may call back at any moment of a `send()`; it gives
buffers back in the order in which it got them.  `mixed` becomes true when one
thread goes by flags that the other is just changing: a buffer looks free because
`callback()` is about to take it, or a frame being copied is passed over.

**AvcSetup.** `setup()` and `teardown()` are straight-line code: `Script` is the list of
their steps and `pc` the next one.  The component is external: a thread that
reads commands and buffers in order and calls back.  `keeps` says whether it keeps
SPS and PPS until the output port is enabled again.

**Player.** The thread of Java, the network thread and the output thread.  The
decoder is reduced to when its set-up begins and ends, the stream to that it
brings parameter sets and pictures.  `died` names how the process ended.  `hgs_stop()`
destroys `args_`, with the decoder and the renderer in it, before it joins the output
thread, because `thread` is declared first (`hgs-jni.cpp:159`, `164`): `UseFreed` is what a
thread inside them may do then, beside going on.

**RtpReceiver.** One handler is one step.  The widths are scaled: `SeqMod`, `CycMod`
stand for 2^16, `Far` and `Near` for `0x1fff` and `0x0fff`.  `statis` and `rreport` are
computed in these widths, from counters with any initial value in `Garbage`,
because nothing initialises `rtpsi_`.  Jitter and delays are left out.

**RenderFrame, VideoRenderGL.** A scaling loop is the set of the pairs of columns and
of rows it copies, with the code's roundings; the widths at which the scale
changes are scaled down with the pictures; `Cleared` are the rows set to 0 below a
picture that is not scaled.  `VideoRenderGL` has a step for what each thread does
between two looks at a flag or the mutex.  Any window may be set, also over another
one (`replaced`).

**ChsSessions.** One thread: a handler is one action, but for a request, which is one
action for `initref` and one for each command (`Request`, `NextCommand`, `LastCommand`),
with no other handler in between (`Ready`).  `sess` is `stats_` with its
index, `node` the identity of a list element, so that an iterator kept by a
connection (`conn[c].node`) can be compared with the element that is there now.
Uploads and replies are reduced to what the code distinguishes.  The result that
`commands()` throws away is thrown away here too.  `overran` says that a request went on
with a session whose end an earlier command of it had brought about.  `actime` is the
uninitialised `_actime` after `cb_accept`.

**Glex, ChsText.** Pure functions over sequences of letters: the pattern search and
the variables of `glex.hpp`; header lines, cookies and addresses of `chs.cc`.  The
reverse search is the search in the reversed text, as with reverse iterators.
What `split1()` reads before a string is any letter.  `wide` says that `size_t` is wider
than `unsigned int`: then `unescape()` returns nothing (`chs.cc:200`).  `_3xx_fwd` and `auto_fwd`
unescape what `step_go` unescapes again.

**Jsax.** The descent of `js.cc` as operators that return the position and the calls
made; a reference definition (`Meaning`, `Members`, `Content`) gives the calls by the
grammar alone, trying every division of the text.  There are no escapes and no
`null` in the parser, so none in the grammar.

**PushRelay.** `program` chooses between the three relays, which differ in `apple_push`.
Completion handlers are counted in `ap` (dialing, reads, writes) and run later;
closing the socket makes them errors.  `fault` is undefined behaviour or an
assertion reached.  Behaviours in which `overlap` came true stop there (`Bounded`).

**HttpReader.** A stream is a sequence of tokens, delivered in any pieces.  `Need` is
what the header handler computes from the bytes that are already in the buffer.

**ChatClient.** The operations of asio have a state each; a handler that waits in the
queue can no longer be cancelled.  `due` abstracts the clock.  `HttpFreed` is the second
log-in of `ter`, which destroys the first one under its pending handlers.

**Supervisor, Tetris.** The kernel's process table with foreign processes that take
free pids; the board as sets of filled columns per row.

The definitions named as slips (`StoreIpNoWrap`, `KeptStale`, `TestThirdBlind`, ...) are
not part of any specification; they are plausible mistakes each of which breaks
a property, so that no property holds whatever the code does.

## 3. Runs

| Run | Bounds | Shows |
|---|---|---|
| `ring3` | 3 buffers, 5 frames, stores in order, `wait(0)` | `TypeOK`; `LastFrameSent`: after the encoder stopped its last frame is sent; `ChannelSpec`: refines `FrameChannel` |
| `ring2` | 2 buffers, 5 frames, stores in any order, blocking `wait` | `NeverFatal`: no `ERR_EXIT`; `SendingIntact`: the frame being sent is not touched; `SentOnce`; `NewestSurvives` |
| `udp` | 3 frames of 2 fragments, a ring of 2 echoes, 2 losses, a duplicate, a failing call | `FramesSound`: `unpack` gets whole frames only, a loss costs only the frames it hits; `EchoInOrder` |
| `udp_live` | 2 frames of 2 fragments, 2 losses, a failing call, no duplicates | `ServerLearnsPeer`, `LastFrameWritten` |
| `chs` | 1 client, 2 connections, scripts of 2 steps, repeat counts 1, 2 and the refused 9, 3 requests of up to 2 commands, 1 end of the process | `StoreSound`: no invalid iterator is erased, no count wraps; `ToldContinues`; `EndedGoes` |
| `relay` | 3 programs, 2 clients, 2 requests, 1 broken connection | `QueueSound`: no handler meets an empty queue or a dead client, and the queue never stands still; `AnsweredOnce`; `AllServed` |
| `rtp` | sequence numbers modulo 8 from 6 on, 6 packets, NAL units of up to 3 fragments, 1 late or repeated packet | `NalsSound`: whole NAL units only, and each that came in sequence; `CountsSound`: the assertion of `rreport()`, and no loss reported where there was none; `InOrder` |
| `clients` | 5 frames; 3 output buffers, 4 pictures; 2 rounds of init, start, stop; 2 messages, 3 hellos, 2 faults | `BuffersSound`, `LastFrameDecoded` (input port); `SetupSound`, `SetupEnds` (set-up); `PlayerSound`, `StopReturns` (player); `AcksInOrder`, `Recovers` (chat clients) |
| `servers` | 3 messages of 6 shapes; 2 clients, 2 frames | `OwnRequest`, `RepliesInOrder`, `MessagesHandedOver` (HTTP); `WholeFrames`, `Accepted`, `Served` (TCP) |
| `programs` | see the cfg | `StaysInside` (scaling), `DrawsSafely` (GL), `GameRules` (tetris), `ChildrenKept` (supervisor), `TextsRight` (step server's texts and JSON), `ReportsRight` (link testers) |
| `avc_overlap` | 5 frames | **violated**: `NeverBothUsed`, the `ERR_EXIT` of `ildec.cpp:267` |
| `chs_repeat` | 1 client, 1 connection, 4 requests of one command | **violated**: `RepeatAccepted`, the refusal of `chs.cc:1278` |

Why the bounds are enough.  Five frames go round both rings once and more, so
every slot is filled, skipped and reused.  Two losses and one duplicate allow
every pair of faults in a frame and between two frames; two fragments are the
fewest that one loss in a row may not splice.  With two decoder buffers
every combination of flags is reached with three frames.  Three requests to the
step server are a script, its end and one more request to what is left of it; two
connections are enough for two references to one session, and two commands for one
that finds what the other has ended.  Sessions of two clients touch only through
their connections, so one client shows all there is (the theorems are about any
number).  Two frames in the server's TCP ring are one being sent and one that is
finished, taken or taken back meanwhile; the echoes of three cross each other.  Six RTP packets from
number 6 of 8 cross the wrap inside and between NAL units.  Two clients with two
requests give the relay a queue with an entry before and one behind the client
that leaves.  Three messages on a connection are one before, one after and one
between, and three replies are what makes the second writer of `as.cpp`.  A second
client is what the TCP server finds in the backlog.  The board of 5 by 4 lets a
stone complete two rows with another between them.  The JSON lines are all texts
of up to five letters, and documents of two levels as they are, twice on a line
and with every single slip.

Conditions that are part of the properties, each a case in which the code does
fail (TLC finds it when the condition is dropped):

- `FramesSound` needs `MaxGap` smaller than the shortest frame.  Fragments carry no
  frame number: when exactly as many fragments in a row are lost as put the
  receiver back in step within the next frame, two frames are spliced.
- `NewestSurvives` excepts the ring of two: `alloc()` directly after `done()` takes
  back the frame just finished while the other buffer is being sent.  The server
  has such a ring (`main.cpp:40`), so `LastFrameWritten` excepts it too (`reclaimed`).
- `EchoInOrder`, `WholeFrames` except the order of a frame that a newer one overtook in
  the ring (`overtaken`): after a `done()` and before the next `alloc()` the scan begins
  at `ip_`, but reads its end from another value of it.
- `StoreSound`, `ToldContinues` except a client that sends a request before the
  answer to its last one (`overlapped`): two connections then hold the same iterator
  and both erase it.  `ToldContinues` and the wrap of the count also except sessions
  archived by SIGTERM after their end (`revived`), and a request whose commands go on
  after one of them has ended the script or was refused (`overran`): `Ch-Response` takes
  a count of 0 below zero, or answers with a step of a session that is erased with
  the answer (`chs.cc:1421`, `1531`).
- `ToldContinues` is about orderly restarts: after a kill the old archive is what
  there is, and what clients were told since is void.
- `BuffersSound`, `LastFrameDecoded` hold until one thread goes by flags that the other is
  changing (`mixed`); `avc_overlap` shows what may follow.
- `SetupSound` excepts that all output buffers came back before `setup()` counted
  them (`raced`, `ildec.cpp:570`); `SetupEnds` a component that gives SPS and PPS back
  early: `sem_bufempty_` is drained and then waited for (`ildec.cpp:585`).
- `StopReturns` excepts a null `main_`, the exception of a teardown without a
  connection, and an output thread that crashes or hangs in the decoder or renderer
  destroyed under it (`died`, `out = "hung"`).
- `NalsSound` excepts a loss during which the sequence number wraps, or of a whole
  cycle of numbers: it is taken for no loss and NAL units are glued (`WrapGap`,
  `gap`).  `InOrder` excepts late and repeated packets, the glued unit and the one
  after it, which may have a smaller number.  `CountsSound` needs counters that
  happened to be 0 (`zeroed`) and ends where `cycles`, which starts at 1, wraps.
- `QueueSound`, `AnsweredOnce`, `AllServed` except a connection made anew with a write or
  an answer under way (`overlap`; the assertions of `relay.cpp:573` and `610` then fail),
  a client that leaves three messages behind (`deep`), and in the two Apple programs
  any client that leaves.
- `Served` excepts a client accepted over another one (`doubled`), `Accepted` one that
  came while another was served (`knocked`): its event is lost.  Both except a
  program that died of its receive buffer (`Smashed`).
- `RepliesInOrder` excepts three replies without a pause (`burst`); `MessagesHandedOver`
  what the readers are known to stall at (`Stalls`), first of all a body that came
  with its header (`early`).
- `AcksInOrder` excepts a retry that overtook a connection just made (`twofold`),
  `Recovers` a timer that had expired before `close()` (`late`).  `Recovers` is about the
  connection: after a write error nothing is written on it any more (`ter.cpp:363`), and
  a client that destroyed a log-in under way (`HttpFreed`) is not expected to recover.
- `DrawsSafely` excepts pictures that change their size (`resized`: the GL thread
  draws freed memory), a change of the window that is noticed before the window is
  exchanged (`raced`), and a window set over another one, of which the GL thread
  does not hear (`replaced`).  `StaysInside` is about widths that are multiples of
  the groups the loops copy (`Aligned`).
- `ChildrenKept` allows a stranger to be hit between `waitpid` and `stop()`, and a
  program whose fork failed not to be tried again.
- `TextsRight` excepts cookies that `split1()` misreads (`spoilt`, `chs.cc:227`) and
  forwarded addresses that still look escaped after they were unescaped once
  (`LooksEscaped`); where `unescape()` does not end it says that nothing is sent.
- `ReportsRight` excepts repeated and late datagrams (`mixed`).

Fairness.  The network threads' loops (`xpoll`, 6 ms at most in `epoll_wait`) run
again and again, so their steps are weakly fair; a socket without room becomes
writable again and again (`SF` of `PollOut`), and seconds pass (`SF` of `Silence`).  A
`send()` once begun goes on, and an OMX component carries out its commands and
returns every buffer.  `io_service::run` and libev run every handler that is ready:
weak fairness for the relay's, the readers' and the chat client's handlers and for the
step server's commands and timers, strong
fairness for the posted handlers of the player and for the completions of the
chat client, which other handlers may disable for a while but which the one
queue serves in turn.  `outpoll` waits with a timeout, so the output thread is weakly
fair.  The GL thread calls `renderFrame` again and again, whatever it draws in
between (`SF`).  `wproc`'s main loops.  Nothing is assumed of the encoder, of users, of
when clients come and go, or of the network beyond the bounds on losses, but a
TCP client that stays reads what it was sent.

## 4. Proofs

Every theorem below holds for all values of the constants that satisfy the
`ASSUME`s of the model, which only give types and least values (a ring has two
buffers, a frame has a fragment); further hypotheses are named.  Each follows the
same argument: an invariant that implies the property is shown to hold initially
and to be kept by every action, one lemma per action or group of actions.  The
bounds of the runs (`MaxFrames`, `MaxRequests`, `MaxLost`, ...) are constants, so a
theorem is about any number of frames, requests or faults.

**The ring** (`CycleBufferQueueProofs`, `BufCount >= 2`).  `TypeCorrect`, `NoFatalExit` and
`SendingStaysIntact` follow from `Inv`: the types; `EncoderView` (while the encoder fills
a buffer `ialloc_` and `ip_` are its iterator, and stores of `done()` not yet visible
have still their old values); `NetworkView` (the same for `iusing_` and `txbuf_`, and
the scan's position is a slot); `NotShared` (the buffer being sent is not the one
being filled).  That no `ERR_EXIT` is reached is not inductive alone: what `done()`
will find depends on what the other thread may have changed since `alloc()`.
`FrameSentOnce` and `NewestFrameSurvives` add `FramesOnce` (a frame is in one slot at
most, one that was sent only in the slot being given back) and `NewestPlace`.

`RingIsMailbox` is the refinement `Spec => ChannelSpec` for every `BufCount >= 3` with
the stores in program order.  `OrderInv` says that the frames, but the one being
sent, lie along the ring in the order in which they were made, and that the scan
has left nothing behind it; with it each step is a hand-over, the drop of
the oldest, a take of the oldest or the newest, a delivery, a give-back, a close, or
a stutter.  Both hypotheses are needed: a ring of two throws away its newest frame,
and with stores in any order TLC finds a step that is none of these.

**UDP** (`UdpStreamProofs`).  `FramesTold` needs that every frame has more fragments than
may be lost in a row, for the reason given in section 3.  `UdpInv` relates what is
on its way to what the receiver expects: `FirstDue` bounds how far the next
datagram is from the number awaited by the losses since the last one, `InRow`
says that later ones follow each other, and both are stated of what the sender
will add as well.  `EchoesKeepOrder` needs no such hypothesis: time stamps in the
channel, in the frame under way and in the queues increase but for those of frames
that were overtaken, and what has come back is not newer than what the client still
sends, that not newer than what the server still sends, with the same exception.

**TCP** (`TcpStreamProofs`, any finite set of clients, any number of frames).
`FramesWhole`: what a client got is a row of whole frames, none twice, and perhaps a
part of one more.  `TcpInv` keeps that (`Sent`) together with the place of the frame in
hand (`InHand`: its first part was the last thing sent to the very client that is
served), what waits in the ring (`Queue`) and that all of it is still to come for
every client, behind what it got or overtaken (`Ahead`).
`RepliesKeepOrder` for `as.cpp`: as long as there are not three replies without a
pause, the one writer's list continues what is on the wire (`OneWriter`).

`RequestsOwn`: what a reader hands over is the message's own, without a hypothesis but
for the one exception of the code: `chs` takes a GET with whatever has come of its body
(`GetHasBody`), so that `RequestsOwnBodiless` needs that no GET has one.  The stream
is the concatenation of the messages of the script; what is at a place of it (`Laid`,
`Stream`) is found by an argument about the least message at which it would differ.
`OwnInv` says that the buffer followed by the wire is a piece of that stream (`Aligned`;
a line may be cut, `Like`), which message is under way, and where in it the reader
is (`Reading`: `AtStart`, `AtHead` or `AtBody`); a header field read wrongly or one byte
too many taken would put the reader elsewhere for all messages after it.

**The player's programs** (`ClientProofs`).
- `InputSound` has no hypothesis.  As long as nothing was `mixed`, `InStep` says which slots
  are used and filled at each line of `send()` when nothing is with the decoder
  (`SendAlone`), when something is (`SendBeside`) and while `callback()` looks for more
  (`CallbackView`), and that what waits is newer than what was decoded (`DecodedBefore`);
  no part of it is kept without the others.
- `SetupsSound` (`SetupSound`), both decoders, any number of output buffers and pictures.
  `StepAt` says which step of the script is at which place; it is proved from the
  sequences that the script is joined of.  `SetupInv` then says what holds at each place:
  `PlacesRight` which command is sent, carried out or posted (`Open`, `UnderWay`), in five
  parts from `BeginPlace` to `DownPlace`; `InputsRight` how many input buffers are out or
  given back, so that none is left when they are freed; `SettingsRight` how far the
  component is with SPS, PPS and the new port; `OutputsRight` that before stage 2 the flags
  say which output buffers the component has or will get, each once, so that the last
  one posts exactly once.  The race is part of it: `DisablePlace` and `EnablePlace` keep
  what a post that came too early leaves for each later wait, up to stage 1.
- `ThreadsInStep`: the assertions of `hgsnwk_init` and `hgs_stop`.  `InRounds` says what
  may be left of a round at each place of the calling thread.
- `ReadsAcknowledged`: the messages written, queued and posted, in this order,
  acknowledge each message read, once.  It is `written` alone that the peer sees,
  but only all three together are inductive.

**The push relays** (`PushRelayProofs`).  `ClientsDoNoHarm` (`QueueSound`) and `NoRequestTwice`
for all three programs, any clients, requests, broken connections and failures.
Until a fault `Running` holds: what an entry of the queue stands for
(`EntriesKept`) and which entries a client that left has still (`LiveOnes`), at most
one write or answer is under way, that of the front (`OneAtATime`, for the proxy
`WritesAlone`), a waiting stage has a completion to come (`Moves`), and a client's
answers and entries together are not more than its requests (`Owed`).
A fault needs a completion that meets a queue which its stage does not allow, so
`NoHarm` depends on all of these.

**The RTP receiver** (`RtpReceiverProofs`, any widths with `Window < Near <= Far < SeqMod`).
`NalsWhole` and `SinkInOrder`.  `RtpInv` says of the sender that packet numbers are
positions modulo `SeqMod`, and of the buffer that it holds the pieces of the unit up
to the last packet unless it is glued, in any case if all of them came in sequence
(`BufferRight`).  The lemmas are modular arithmetic: a packet is taken to follow
the last exactly if it does, or if a `WrapGap` lies between.
`ReportsAreSound` (`CountsSound`) needs the hypothesis `Few`: packets, and a whole cycle
of numbers for each late one, do not wrap the 32-bit word of `expected()`, nor fill
a square of the range of sequence numbers, which in the code is the same.  `Placed`
compares what is expected and what was counted with the position of the packet
that set `max_seq`: a packet that is counted but moves no number is a late one, or
comes a whole cycle after the last, and no packet moves `expected()` further than its
own position, late ones a cycle further.  `Kept`, for `CleanReport`, counts both from
the last report on, modulo the word, and needs no hypothesis (`CleanIntervals`).

**The step server** (`ChsSessionsProofs`).
- `NoStaleIterator`, for any number of commands in a request: `Held` (only a
  connection whose request is handled or that writes an answer keeps an iterator),
  `OneAnswer` (a client that waits for its answers has one under way at most) and
  `EndsClosed` (the process ends with its connections).
- `StoreStaysSound` and `ToldFindsSession`, for any number of commands too.  `ScriptInv`
  adds that no count was taken below zero (`Counted`), which depends on a script that is
  through being erased by the very connection of its last answer (`ThroughIsHeld`), and
  that the session of a client that is told its next step stays while the request is
  handled (`HandledGoesOn`), while the answer is written (`StepGoesOn`) and after it
  (`ToldHasIt`), in `stats_` or in the archive, unless the request `overran`.

**Small programs** (`ProgramProofs`).
- `CopyStaysInside`: all aligned pictures and windows and every four widths.  There
  is no step to take, only integer divisions (`ClearedInside` is the same of the rows
  that are cleared).
- `DrawsOnWhatIsThere`: the safety parts of `DrawsSafely`.  `Announced` relates the two
  flags to the window, unless `raced` or `replaced`, `MemoryFirst` the flag `mIsCopyed` to
  the memory.
- `ReportsAreTrue`: any messages and any lost datagrams and short sends.  For
  TCP, `StreamInStep` says that the receiver's place in the byte stream is where a
  message starts, `start` being the place of each message.
- `NoneTwiceNoStranger`: the safety parts of `ChildrenKept`.  `EntriesTrue` says that a
  pid in `procs` belongs to a child of that program, running or not yet waited for,
  so that the kernel cannot have given it to another, except between `waitpid` and
  `stop()`.

Only model-checked:
- the liveness properties, which this prover does not reach;
- `TextsRight` and `GameRules`, whose modules use RECURSIVE operators.

## 5. Met while modelling

Beside the two findings and the conditions above, the source shows, outside of
what a run checks:

- `malloc_buf::operator=` calls itself without end (`buffer.hpp:86`).
- `~NetworkIO` reaches the assertion of `l2close` after an error (`epoll.hpp:580`, `757`).
- `udp-io2.cpp:245` divides by zero for more than 1000 messages a second, and a datagram
  shorter than 16 bytes ends the receiver of `udp-io.cpp:172`.
- `thread.hpp:50` lets `tv_nsec` grow past a second.
- `_atime` of the step server is kept but never looked at (`chs.cc:473`): sessions of
  clients that do not come back stay for ever.

## 6. Not modelled

- `tetris_fsm.cpp`, the message multiplexers, the library parsers and the demos of
  language features, graphics and libraries: their state is the library's, or
  they have none.
- `ns.cpp` and `js2.cc` do not compile; they are unfinished copies of `as.cpp` and `js.cc`.
- `OMXMaster.cpp` loads a library and looks up names.
- Of modelled components: reordered datagrams and a change of the UDP client's
  address; the message encodings of the Apple relays and the handlers of the
  proxy's connect, which nothing calls; jitter and delay of the RTP statistics;
  shaders and colour conversion; rates, dates, logs and waiting times.
