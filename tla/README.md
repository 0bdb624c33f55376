# FLVMux in TLA+

FLVMux is a DirectShow filter that muxes one video and one audio stream into an
FLV file, built on a private copy of the DirectShow base classes
(`libmonodshow`). This directory holds TLA+ specifications of the parts of both
that decide what ends up in the file, in which order, and whether threads stop
when told to; the TLC configurations that check them on small instances; and
theorems that TLAPS proves for every value of the constants.

Paths are relative to the repository's sources: the muxer is
`src/flv_filter.cpp`, `src/flv_writer.cpp`, `src/as_objects.cpp` and
`libmonodshow/src/basemux.cpp`; the other files named are under
`libmonodshow/src/`.

## The system

```
 upstream thread 0 --Receive/EndOfStream--> input pin 0 --GetPacket/Write--> stream 0 \
                                                                                       CMuxInterleaver
 upstream thread 1 --Receive/EndOfStream--> input pin 1 --GetPacket/Write--> stream 1 /      |
                                                                                            Read
 application --Pause/Run/Stop--> CBaseMux --CallWorker(RUN/EXIT)--> muxing thread -----------+
                                    |                                   |
                        OnStart/OnStopStreaming                    OnMuxPacket
                                    +----------> CFLVMux <--------------+
                                                   |
                                               FLVWriter --> IStream of the output pin
```

The muxer's pins, threads and samples are those of the base classes; the base
classes also hold the filters on both sides of it in a graph (sources, readers,
transforms, renderers), each an object of its own between an application, a
streaming thread and a thread or clock of its own.

| Component | State | Operations | Hard behaviour | Correct when |
|---|---|---|---|---|
| `CMuxInterStream`, `CMuxInterleaver` (basemux) | bounded queue and `ev_can_write` per stream, `ev_can_read`, `ev_abort`, the extended tick count | AddStream, Clear, GetPacket, Write, Read, Flush, FlushStream, SetAbort, GetTime | room tested without the lock and used under it; events set and reset at several places; merge by start time; a time limit over a clock that wraps | queues bounded, events true, no lost wake-up, nothing lost or reordered, output sorted, limits kept |
| `CBaseMux` control (basemux) | `m_State`, `abort`, links pin to stream and back | Pause, Run, Stop, StartStreaming, StopStreaming | runs against the muxing thread and both upstream threads, holding only `lock_filter` | Stop returns and leaves nothing behind; nothing is muxed outside a session |
| muxing thread and `CAMThread` (basemux, wxutil) | position, request, `m_EventSend`, `m_EventComplete` | CallWorker, GetRequest, CheckRequest, Reply, Close | request and reply over two events | each reply goes to its own request; packets reach OnMuxPacket under their pin |
| `CBaseMuxInputPin` (basemux) | `stream`, `m_bFlushing` | Receive, EndOfStream, BeginFlush, EndFlush | polls outside any lock while Stop deletes its stream | never uses a deleted stream |
| `CFLVMux` (flv_filter) | `has_video`, `has_audio`, pins, output stream | CheckInputType, SetInputType, BreakConnect, session callbacks | flags set before a format is refused | flags say what is connected |
| `FLVWriter`, `FLVIO`, `ExtraData` (flv_writer) | codecs, extradata, time origin, last tag size, file size | Reset, ConfigStream, Start, WritePacket, WriteExtradata, WriteMetaData, Stop | sizes announced in one place, written in another | the file can be walked both ways, its metadata are true, times do not go back, headers come first |
| AMF objects (as_objects) | trees of values | Size, Write, Read | three functions per type that must agree | Size is what Write writes, Read takes back what Write wrote |
| Pins and base filter (amfilter) | connection, type, allocator, filter state | Connect, ReceiveConnection, Disconnect, Stop, Pause, Run | any call of a negotiation may fail half-way | both ends agree; allocators owned and committed as the states say |
| Dynamic output pin (amfilter) | block state, users, three events | Block, Unblock, StartUsing/StopUsing, ChangeMediaType | an application blocks while a thread streams | nobody stranded; no use during a reconnection |
| Media samples, enumerators (amfilter, mediasample_ex) | flags, type, times; position, version, cache | setters, GetProperties, Release; Next, Skip, Reset, Clone | two ways to read one sample; a list that changes under its reader | both ways agree; nothing repeated or missed |
| Allocators (amfilter, mediasample_ex) | free list, waiters, semaphore, decommit in progress | SetProperties, Commit, Decommit, GetBuffer, ReleaseBuffer | wait outside the lock; last Release destroys | no sleeper forgotten; alive while needed; buffers do not overlap |
| Output queue (outputq) | list, batch, thread, sticky result, flush event | Receive, EOS, NewSegment, SendAnyway, BeginFlush, EndFlush, Reset, destructor | a thread sends outside the lock while all of these come | order kept, flushes complete, samples conserved, no call stuck |
| Renderer, video renderer (renbase) | held sample, advise, end of stream, abort; running averages | Stop, Pause, Run, Receive, flush, EOS timer; scheduling, dropping, drawing | Receive sleeps with no lock held; cancelled and late advises | sleepers are woken, nothing stale is drawn, EC_COMPLETE once, the display never looks hung |
| Reference clock, schedule (refclock, schedule) | sorted advise list, sleeping thread | Advise, Unadvise, SetTimeDelta | a list changed while its thread sleeps on its head | each advise fires once, in time |
| Stream control (strmctl) | state, start and stop times | StartAt, StopAt, CheckStreamState, Flushing | a streaming thread held back for a command | commands take effect at their samples; nobody stays held |
| Source, pull pin (source, pullpin) | worker, request, buffers in flight | Active, Inactive, Seek, Process, DoBufferProcessingLoop | stop, seek and flush while the worker is anywhere | the worker stops; no data lost or repeated |
| Transforms (transfrm, vtrans, transip) | flush and end-of-stream flags, skip state, allocators | Receive, BeginFlush, EndFlush, Stop, skip decision, NotifyAllocator | flush against Receive; key frames left out; two pins, one allocator | flushed data are gone; what is shown can be decoded; read-only data are not written |
| Deferred commands (ctlutil) | two lists, advise, reference counts | New, Cancel, Postpone, Invoke, GetDueCommand, Run, SetSyncSource | application and worker take the same command | carried out once, freed once, not early |
| Positions (ctlutil) | start, stop; times of the last sample | SetPositions, RegisterMediaTime, EOS, ResetMediaTime | callbacks after the lock is let go; EOS in three steps | the source has seen what is set; the position is current |
| Lists (wxlist) | nodes, caches | Add, Remove, Move, Reverse, on one or two lists | pointers of two chains and a cache | a list is a sequence |
| Property page, registration, windows, drawing, debug output, type copying, persistence | | | | not modelled |

`PROJECT.json` lists the components with their files, and the hazards of this
code each at its line with the properties that would catch it going wrong.

## Modules

| Module | What it is |
|---|---|
| `OrderedMerge` | Abstract specification of the interleaver: pending lines per source, a merged sequence that grows by the earliest head and only while every required source has one |
| `Interleaver` | `CMuxInterStream` + `CMuxInterleaver`: one action per call, split where a call blocks or takes `lock_queue` |
| `MuxClock` | `GetTime` and the time limit of `Read`, over a tick count of a few values |
| `BaseMux` | `CBaseMux`, its pins, `ThreadProc` and `CAMThread`; EXTENDS `Interleaver` and conjoins its actions with what the filter does around the calls |
| `FlvWriter` | `FLVWriter` as functions from a record of its state, the file included, to the record it leaves |
| `FlvFilter` | `CFLVMux`: pin connection and session callbacks, which call `FlvWriter` |
| `AmfObjects` | the AMF values: `Size`, `Write` and `Read` over documents built value by value; checks `FlvWriter`'s size of the metadata |
| `MemAllocator` | `CBaseAllocator`, `CMemAllocator(Ex)` and the reference counts of samples |
| `OutputQueue` | `COutputQueue`, over the buffers of `MemAllocator` |
| `PinConnection`, `DynamicPin`, `MediaSample`, `Enumerators` | pins, samples and enumerators of amfilter; `SampleEnumerators` puts the last two side by side |
| `SourceStream`, `PullPin` | sources with a worker thread; a pin that pulls |
| `TransformFilter`, `VideoTransform`, `TransInPlace` | streaming of a transform; its choice of frames; the allocators of an in-place filter; `TransformFilters` puts them side by side |
| `Renderer`, `VideoRenderer` | `CBaseRenderer`; the quality control of `CBaseVideoRenderer` |
| `RefClock`, `StreamControl`, `Positions`, `CommandQueue` | clock and schedule; start and stop of a stream; seeking; deferred commands; `TimeKeeping` puts `RefClock`, `Positions` and `MuxClock` side by side |
| `NodeSequences` | Abstract specification of the lists: sequences of elements at positions |
| `LinkedList` | `CBaseList` and `CGenericList`, node by node |
| `MCInterleaver`, `MCBaseMux`, `MCFlvFilter`, `MCOutputQueue`, `MCRendering`, `MCBaseClasses` | values for the constants, and which modules are checked together |
| `InterleaverProofs` | theorems about the interleaver |
| `BaseMuxProofs`, `FlvFilterProofs` | theorems about the muxer and its file |
| `MemAllocatorProofs`, `OutputQueueProofs`, `RenderingProofs`, `BaseClassProofs`, `FilterProofs` | theorems about the base classes |

How state and actions correspond to the code:

* A section under a lock is one step, a wait a program counter. A member of a
  class is a variable, or a field of the record that stands for the object
  (`r` in `Renderer`, `sc`, `v`, `xf`, `vt`, `g`). The threads of a module are
  program counters of their own (`tpc`, `spc`, `fpc` in `OutputQueue`: the
  queue's thread, the streaming thread, the control thread).
* `Interleaver`. `queue[s]` is `CMuxInterStream::packets`, `canWrite[s]`,
  `canRead`, `evAbort` the events of the same names (all manual-reset). A
  packet keeps its stream, its start time and whether it marks the end. `wpc[s]`
  says where the call of the thread that writes stream `s` is: `blocked` inside
  GetPacket's wait, `writable` or `aborted` when the wait has ended for one event or
  the other and GetPacket has not yet looked at the abort, `filling` between
  GetPacket and Write, with no lock held. `overlooked[s]` is a history variable:
  GetPacket went on without room after an abort that had been taken back.
  `rpc` is `waiting` in Read's wait and `scanning` once it has woken. What Read
  does under `lock_queue` is one step (`ScanEos`, `ScanStarved`, `ScanDeliver`,
  `ScanStuckAtEos`). `accepted`, `delivered` and `output` are history variables;
  a flush starts them again.
* `BaseMux`. `ctl` walks the control thread through Pause/Run and Stop, one
  step for each thing another thread can see; `mpc` is ThreadProc
  (`reply` and `signal` are the two steps of CAMThread::Reply); `upc[p]` the
  call on pin `p`: `polling` and `polled` are the loop of ReceivePacket,
  `getting` the point after the loop where `pin->stream` is used again, and
  `packet` GetPacket and Write. `fault` records undefined behaviour instead of
  guessing what it does: the model goes on as if the call had failed.
* `FlvWriter`. Of a tag the model keeps the size its header announces, the
  number of bytes written after the header, the PreviousTagSize before it and
  the time. Sizes are real byte counts (24-bit in the tag header), so a wrong
  constant shows.
* `FlvFilter`. A media type is its kind, its codec, the size of its extradata
  and whether its format is one SetInputType takes. `Disconnect` and the two
  refusals include the BreakConnect call the base class makes.
* `AmfObjects`. A byte is what kind of field it belongs to or the number it
  holds; a string is its length. Writing a strict array clears the names of its
  elements, as the code does (`AsWritten`).
* `MemAllocator`. `gpc[c]` is where a client is in GetBuffer, `sem` the count of
  the semaphore, `layout` how the block is cut, in LONGs that wrap at `LongMax`.
* `OutputQueue`. Items are numbered as they are accepted; `sent` is what the
  next filter got. `hand` is the batch being sent outside the lock.
* `RefClock`. `sched` is CAMSchedule's list, `advisor` the thread: `awake` when it has
  read the time, `signalling` while the loop of Advise holds the list's lock, one turn a
  step (`SignalHead`), so that SetTimeDelta, which takes no lock of the list, may come
  between two turns. `wake` is what is left of its wait.
* `StreamControl`. CheckStreamState looks at the members three times without the
  lock and once under it: `verdict` says how far it has come (`asked`, `timing`,
  `late`, `extra`, `early`, `blocked` in the wait), and commands, flushes and stops come
  between any two.
* `PinConnection`. A call is one step, and `fails` is the set of calls inside it
  that fail; the error paths undo what the code undoes. Stop is one step for each
  filter, and Receive, which holds no lock of the filter, tests in one and flags an
  error in another, so that Inactive and flushes come in between (`receiving`); what
  that leaves for the next session is recorded in `outlived`.
* `DynamicPin`. Any thread may unblock; `robbed` are those whose block another one
  took away. A change of type that the other filter cannot take falls back on
  DynamicReconnect.
* `TransformFilter`. `class` says whether the filter is a video transform, which
  waits for Receive in EndFlush, or not; a Receive that EndFlush overtook is recorded.
* `LinkedList`. A node is a number with its pointers; `Forwards` and `Backwards`
  read the two chains, and `Sequence` is `NodeSequences` over what they show.

What a module takes from outside it is stated as a contract, not modelled:

* Upstream sends one end-of-stream per session or flush and nothing after it.
  The graph starts upstream filters after this one has paused, and does not
  pause again before upstream has stopped; it may stop this filter while
  upstream calls are still inside it.
* `FlvFilter` takes from `BaseMux` that OnMuxPacket comes only within a session
  (`MuxesInSession`), and from `Interleaver` that packets come in the order of
  their start times (`SortedOutput`).
* `MCOutputQueue` leaves out two uses that do not work: a queue without a thread
  that is given batches larger than one but not exact, and Reset with optimised
  flushing (the run `queue_flush` shows that one).
* `LinkedList`: a list has one caller at a time. wxlist.h:16 calls the lists
  thread-safe; the functions take no lock, and their users do.
* `TransformFilter` and `PullPin`: the graph stops or flushes downstream first, as the
  comments of both ask.

Other contracts are not assumed: the models break them too, record that they were
broken, and the property says what it excuses.

* `TransformFilter`: CTransformFilter leaves it to its caller to have its thread out
  of Receive when it ends a flush (transfrm:430). Only a frame that EndFlush overtook
  is excused; a video transform is excused nothing.
* `CommandQueue`: the class has no lock for calls on one command, and New's caller
  adds its reference when the queue's lock is let go. Where two calls on a command
  meet, or one is used that has been freed, a clash is recorded; what would follow
  (m_pQueue read as NULL, memory that is gone) is undefined and not looked at.
* `PullPin`: the reader lets itself be flushed. When it refuses, Seek goes on all the
  same (pullpin:257) and PullSafe claims nothing from there; Inactive says S_OK with the
  thread running (pullpin:280), which changes no state.
* `PinConnection`: CBaseInputPin::Receive takes no lock of the filter, and leaves it to
  the class derived from it to synchronise with Stop. The source is not stopped while its
  thread is in the call; the receiver may be. An error flagged after Inactive has cleared it, and a flush whose connection is broken under it, are
  excused from what a stopped filter may show.
* `DynamicPin`: nobody but the thread that blocked is expected to unblock. One that
  was robbed of its block is excused from having the pin blocked when it goes on.
* `SourceStream`: a pin whose worker does not start keeps its allocator committed
  (source:312). CBaseFilter::Pause then returns with its state unchanged
  (amfilter:555), the filter is still stopped, and nothing tells the pins;
  `SourceQuiet` excuses a source that has had such a Pause; that its workers still answer
  each call once, and hold nobody up, is not excused.
* `FlvWriter`: a parameter set is shorter than 128 bytes. MakeAVCc reads the two
  bytes of its length as signed chars (flv_writer:401), so that longer ones give
  sizes that have nothing to do with theirs.

Operators described as a mutant or a faulty variant are never used by a
specification. Each is a plausible bug in the definition that follows it; put in
its place it must break a property, which shows that the property can fail.

## Runs

Modules that do not interact are checked side by side: `MCOutputQueue`,
`MCRendering` and `MCBaseClasses` have a variable `part` that says which of
their modules a behaviour exercises; the others stay as they started, and a
property looks at the part it is about.

| Run | Properties | Question |
|---|---|---|
| `interleaver` | `QueueBounded`, `WritableIffRoom`, `NoLostWakeup`, `StreamFifo` | Two writers, the reader, flushes, aborts taken back at any time and restarts in every order: do queues, events and order survive? |
| `interleaver_live` | `SortedOutput`, `MergeSpec`, `DeliverableIsRead` | Does the code implement the ordered merge; when each stream is sorted, is the output; and is a deliverable packet read at last? |
| `basemux` | `StopQuiesces`, `MuxesInSession`, `ReplyMatchesRequest`, `PinsKeepTheirPackets`, `NothingAfterEos` | Do sessions start and end cleanly whatever the three other threads are doing? |
| `basemux_live` | `ControlReturns`, `AbortFreesUpstream` | Do Pause and Stop return, and do blocked upstream calls? |
| `flvfilter` | `FlagsMatchPins`, `WriterKnowsPins`, `Walkable`, `MetadataTrue`, `TagsInOrder` | Do flags and writer follow the pins, and is the file well-formed and truthful? |
| `delivery` | `AllocatorSafe`, `OrderKept`, `FlushDiscards`, `QueueOwnsItsSamples`, `ControlNeverStuck` | Parts `pool` and `queue`: are buffers, order and references kept, and does every control call of the output queue end? |
| `rendering` | `SleepersAreWoken`, `DrawsFreshSamples`, `TimesSafe`, `StreamControlSafe`, `DeviationsAreReal`, `CompleteOnceAtTheEnd`, `NeverLooksHung` | Parts `renderer`, `clock`, `control`, `video`, `positions`, `ticks`: does everything that waits for a time get it, and nothing else? |
| `baseclasses` | `DynamicPinSafe`, `PinsSafe`, `SamplesSafe`, `SourceSafe`, `PullSafe`, `TransformsSafe`, `CommandsSafe`, `ValuesSafe`, `ListsAreSequences` | Twelve parts: pins, samples, enumerators, sources, pull pins, three transforms, deferred commands, AMF values, lists, each through every order of its calls |

Four runs check one statement each that a comment in the repository makes and the
code does not keep; TLC shows a behaviour that breaks it.

| Run | Property | What happens |
|---|---|---|
| `interleaver_eos` | `EosMeansAllEnded` | An end-of-stream packet has start time 0. Once it is the lowest, Read returns "end of stream" although another interleaved stream still has packets (basemux:391); ThreadProc then ends the file. |
| `basemux_deleted` | `NoDeletedStream` | Receive tests `pin->stream` once and dereferences it again after its wait (basemux:1003); Stop may have deleted it. |
| `flvfilter_avcc` | `SequenceHeaderWritten` | With more than 93 bytes of H.264 parameter sets MakeAVCc returns -1, which is used as a size (flv_writer:452). |
| `queue_flush` | `FlushDiscards` | With optimised flushing, a BeginFlush that has nothing to do lets the thread set the flush event later; a Reset takes it for its own, and the next EndFlush returns with samples still queued (outputq:527). |

The last of these is why `delivery` leaves Reset out where flushing is optimised.

Some names stand for several statements that belong together, each written and
explained on its own: `AllocatorSafe`, `OrderKept`, `TagsInOrder`, `TimesSafe`
(`AdvisesKept`, `PositionsSafe`, `TimeLimitsKept`), `StreamControlSafe`, and the
`...Safe` of `baseclasses`. `ListsAreSequences` is a refinement: every step of
`LinkedList` is a step of `NodeSequences`.

### Other statements the models contradict

While the models were written these statements of comments or assertions turned
out not to hold. They have no run of their own; each was seen as a
counterexample of TLC to the statement taken literally, except those marked *,
which are read off the code.

| Statement | What happens |
|---|---|
| A stream holds no more than `size` packets (basemux:405-408) | The wait of GetPacket ends for an abort; SetAbort(FALSE) before the test that follows lets the writer go on without room. `QueueBounded` excuses it. The filter never takes an abort back while somebody is in GetPacket (`QueuesKeepTheirSize`). |
| A packet is deleted once (basemux:296, 1012) | On an invalid stream Write deletes the packet and so does its caller. |
| "free any queued data" for BeginFlush (amfilter) | `CBaseMuxInputPin::BeginFlush` leaves what the pin has queued (basemux:545). |
| A sample with no data is a delay (basemux:101) | Its packet has `data == NULL`, and WritePacket reads it (flv_writer:618). |
| "If we're idle it shouldn't be possible for there to be anything on the work queue" (outputq:788) | An exact queue's thread sleeps with an incomplete batch, and SendAnyway or an end of stream may be queued behind it. |
| "m_lWaiting + Semaphore count == nWaiting" (amfilter.h:1402) | GetBuffer with AM_GBF_NOWAIT has counted itself as waiting and does not wait (amfilter:4755). |
| No outstanding advise in EndFlush and after Stop (renbase) | An advise made just before is still there when a run-time error ended the wait. |
| A paused renderer without data is intermediate (renbase) | Orders of flush, pause and end of stream leave the ready event the other way. |
| StartAt and StopAt decide how a stopped graph begins (strmctl) | Commands that cancel each other leave the other state. |
| "the stop time is not set" needs AM_SAMPLE_STOPVALID (amfilter:3763) | SetProperties takes over one flag without the other. |
| `ASSERT(!ThreadExists())` in CSourceStream::Active (source:317) | A Pause that failed at a later pin leaves the threads of earlier ones; a second Pause meets them. |
| "cannot stop until we hit a key frame" (vtrans:390) | A frame without a time ends the skip. |
| Eleven resting states of CTransInPlaceFilter's allocators (transip:86) | Disconnecting in other orders leaves further ones, all harmless (`TransInPlaceSafe`). |
| get_AvgSyncOffset is an average (renbase) * | It divides by one frame more than its sum counts. |
| RegisterMediaTime takes the media times (ctlutil:1004) * | It calls GetTime, which gives stream times. |
| The root has "accuracy to the nearest mSec" (renbase:2713) | isqrt(3) is 1 and isqrt(7) is 2. `RootsAreRight` says what is true: one of the two whole numbers next to the root. |
| "The first frame will definitely be drawn", the last being drawn "(1 sec) ago" (renbase:1833) | m_trLast is set to -1000, a tenth of a millisecond, not a second. A first frame that is late is drawn because of its duration, and dropped if it has none. |
| `ASSERT(!m_bIsFlushing)` in CheckSampleTimes (strmctl:239) | The test that should make it so (290) is made without the lock; a flush may come before the lock is taken. |
| A flush discards what came before it, "we have no worker thread" (transfrm:430) | CTransformFilter::EndFlush does not wait for Receive: a frame of before the flush may go downstream after it, unless the caller sees to it. |
| A session begins without a run-time error: Inactive clears it (amfilter:3166) | Receive tests and flags with no lock of the filter. An error flagged after Inactive has cleared it makes every Receive of the next session fail. A flush of a pin whose connection is broken before EndFlush stays as well. |
| "returns an AddRef'd object" (ctlutil:2488) | GetCommandDueFor returns a presentation command that is still to come without one (2533). |
| A command in use cannot "go away" (ctlutil:2005) | New returns a command only the list holds (2195-2222); the worker may carry it out and free it before the caller adds a reference. |
| A command has a queue (ctlutil:2051) | Postpone reads m_pQueue with no test; it is NULL once the command has been cancelled or carried out (2122), and Cancel meets Invoke in the same way. |
| SetSyncSource sets up a new advise (ctlutil:2319) | The old one is killed, but m_tCurrentAdvise is kept, and a time that was advised is not advised again (2366). An overdue command is not signalled again either when the lists change. |
| A block lasts until its caller ends it (amfilter:4137) | UnblockOutputPin asks for no caller; a pending Block that another thread cancels returns S_OK with the pin not blocked. |
| A seek discards what was in flight (pullpin:185) | Seek ignores that the reader refused to be flushed (257), and old data follow. |

### Bounds

* Two streams: the filter creates at most two input pins (`CFLVMux::CreatePin`).
* `Size` 2 in `interleaver` and 1 in the others, for 10 in the code: an empty,
  a partly full and a full queue all occur, and the theorems hold for every size.
* `MaxPackets` 3 in `interleaver` and 2 in the others, packets per stream since its
  last flush: more than a queue holds, so writers block and queues empty again. Flushes
  and restarts start the count again, so behaviours are not short.
* `Times` {-1, 1} in `interleaver_live`: one start time before the 0 of an
  end-of-stream packet, one after. `interleaver` has one time, since none of its
  properties compares any, and so does `BaseMux`: the order of the merge is
  checked in `interleaver_live`.
* `FlvFilter`: a media type for every way a connection can end, extradata of 0,
  93 and 94 bytes (94 is the first that does not fit), packets of 0 and 7 bytes
  at times 1 and 2, two packets per session, any number of sessions.
* `basemux_live` narrows what the application does (`PauseOnlySpec`: both pins
  connected, no Run, no flush), not what the filter does, to keep the temporal
  check small.
* `delivery`: two buffers, two clients of the pool, batches of two, two items
  between flushes, and as many flushes, resets and failures as one likes. A LONG
  has four bits; three of the six requests overflow one, and Commit refuses one.
* `rendering`: two cookies, two advises, sample times 1 to 4 (every order of a
  command and the two ends of a sample), five frames of 40 ms which may come
  600 ms apart and take 50 ms to draw. The clock runs for seven half milliseconds, with
  corrections of two back, of one forward (too small to wake the thread for) and of
  three forward; the small ones since it woke add up to `MaxSlack`. A DWORD of the muxer's clock wraps at 8,
  the time limit is 3, and it runs for three turns.
* `baseclasses`: two application threads, two media types, two pins, two buffers,
  four list nodes for two lists with a cache of one. The seven frames of
  `VideoTransform` pass both limits of a skip (`WaitFrames` 3 for 30). The AMF
  numbers lie on both sides of every change of length.

In `delivery`, `rendering` and `baseclasses` deadlock is not checked: their
environments may stop for good (a destroyed queue, an application that makes no
more calls, the bound on frames or ticks). What must not get stuck there is
stated as an invariant: `ControlNeverStuck`, `SleepersAreWoken`,
`NoSleeperForgotten`, `NobodyStranded`, `StopNotHeld`, `CallerNotHeldByReader`
and `ControlReleases` say that somebody can go on, without any fairness. Deadlock
is checked in the other runs.

### Fairness

`ReaderFairness`: the muxing thread calls Read in a loop and is scheduled (WF on
the call and on the scan). Its wake-up has SF: the time limit of a call may run
out with `ev_can_read` set, but not in every call for ever. `MuxFairness`: the
steps of a control call, of the muxing thread and of an upstream call in
progress are weakly fair. Nothing obliges the application to call anything, nor
upstream to send. Control steps that wait (for a reply, for the thread to end)
are guarded by what they wait for, so fairness alone does not make them happen.

## Theorems

Proved by TLAPS for every value of the constants that the assumptions in the
modules allow.

| Module | Theorem | Statement |
|---|---|---|
| `InterleaverProofs` | `TypeCorrect` | `Spec => []TypeOK` |
| | `BoundedQueues` | `Spec => []QueueBounded` |
| | `WritableEvents` | `Spec => []WritableIffRoom` |
| | `ReaderNeverMissesPacket` | `Spec => []NoLostWakeup` |
| | `StreamsAreFifo` | `Spec => []StreamFifo` |
| | `ImplementsMerge` | `Spec => MergeSpec`: the interleaver implements `OrderedMerge` |
| | `OutputIsSorted` | `Spec => []SortedOutput` |
| `BaseMuxProofs` | `MuxTypeCorrect` | `MuxSpec => []MuxTypeOK` |
| | `StopLeavesNothing` | `MuxSpec => []StopQuiesces` |
| | `MuxingInSession` | `MuxSpec => []MuxesInSession` |
| | `RepliesMatch` | `MuxSpec => []ReplyMatchesRequest` |
| | `PinsGetTheirPackets` | `MuxSpec => []PinsKeepTheirPackets` |
| | `EosIsLast` | `MuxSpec => NothingAfterEos`, a property of steps |
| | `QueuesKeepTheirSize` | `MuxSpec => [](\A s \in Streams : Len(queue[s]) <= Size)` |
| | `InterleaverInFilter` | `MuxSpec => [](QueueBounded /\ WritableIffRoom /\ NoLostWakeup)` |
| `FlvFilterProofs` | `FlagsTellTheTruth` | `Spec => []FlagsMatchPins` |
| | `WriterIsConfigured` | `Spec => []WriterKnowsPins` |
| | `MetadataIsTrue` | `Spec => []MetadataTrue` |
| | `TagsAreInOrder` | `Spec => []TagsInOrder` |
| | `FilesAreWalkable` | `FitsUI24 => (Spec => []Walkable)` |
| `MemAllocatorProofs` | `AllocatorIsSafe` | `AllocSpec => []AllocatorSafe` |
| | `NoSampleLost` | `AllocSpec => []SamplesConserved` |
| `OutputQueueProofs` | `DeliveryIsSafeForThePool` | `DeliverySpec => []AllocatorSafe` |
| | `QueueOwnsWhatItHolds` | `DeliverySpec => []QueueOwnsItsSamples` |
| | `FlushLeavesNothing` | `UsableSpec => []FlushDiscards` |
| | `ControlGoesOn` | `UsableSpec => []ControlNeverStuck` |
| | `InOrderWithoutLoss` | `OrderedSpec => []OrderKept` |
| `RenderingProofs` | `RendererWakes` | `RendererSpec => []SleepersAreWoken` |
| | `NothingStaleDrawn` | `RendererSpec => []DrawsFreshSamples` |
| | `CompletesOnce` | `RendererSpec => CompleteOnceAtTheEnd`, a property of steps |
| | `CommandsAreKept` | `ControlSpec => []StreamControlSafe` |
| | `LimitsAreKept` | `TickSpec => []TimeLimitsKept` |
| | `DisplayGoesOn` | `VideoSpec => NeverLooksHung`, a property of steps |
| | `StatisticsAreReal` | `VideoSpec => []DeviationsAreReal` |
| | `PositionsAreSafe` | `PosSpec => []PositionsSafe` |
| | `AdvisesAreKept` | `ClockSpec => []AdvisesKept` |
| | `TimesAreKept` | `TimesSpec => []TimesSafe` |
| `BaseClassProofs` | `BlockingIsSafe` | `DynSpec => []DynamicPinSafe` |
| | `SourceStops` | `SourceSpec => []SourceSafe` |
| | `PullStops` | `PullSpec => []PullSafe` |
| `FilterProofs` | `TransformsKeepTheirPromises` | `TransformsSpec => []TransformsSafe` |
| | `CommandsAreCarriedOut` | `QueueSpec => []CommandsSafe` |
| | `PinsAgree` | `~Dynamic => (ConnSpec => []PinsSafe)` |
| | `SamplesAndEnumerators` | `SamplesSpec => []SamplesSafe` |

### Assumptions

* Bounds are natural numbers, times and ticks integers, sets of clients finite,
  `NoCaller` is no caller, cookies are not 0. This is what the names stand for.
* `MediaTypesAssumption`: extradata of H.264 is no longer than two parameter sets of
  127 bytes and their lengths (`LargestSets`), see the contracts above.
* `RequestsAssumption`: a request of the pool is made of LONGs and is aligned to
  something positive, which SetProperties checks; nothing bounds the sizes, so
  that sums may wrap.
* `UsersAssumption`: the filter before the queue, the queue and the next filter
  are among the clients of the pool.
* `UsableSpec` is the queue without Reset while flushing is optimised, and
  `OrderedSpec` also without inexact batches unless there is a thread. The run
  `delivery` leaves out the same: `queue_flush` shows what the first does, and
  nothing sends what the second leaves in the batch.
* `StreamTimesAreNumbers`: times given to stream control lie below
  MAX_TIME, which stands for "no command" in that code.
* `TicksAssumption`: the time limit is below the largest DWORD by more than one,
  so it is not INFINITE. ThreadProc passes 40 ms.
* `PullBounds`: buffers of a pull pin are a multiple of the alignment, which is what a
  reader agrees to that reads aligned blocks. With others a last read could begin
  past the stop. The positions sought are not negative. `AlignIsPowerOfTwo`: the alignment
  is a power of two, as pullpin.h:114 takes it to be: AlignDown and AlignUp mask bits,
  which the model writes as a division.
* `ClockBounds`: advises are for positive times and periods, which AdviseTime and
  AdvisePeriodic check. Time goes on only while the advising thread sleeps: it
  has the highest priority.
* `FramesAreTimed`: frame times, gaps and drawing times are not negative.
* `FrameBounds`: the limit of frames a transform waits for a key frame (`WaitFrames`,
  30 in the code) is above 1; times are integers.
* `CommandBounds`: times of commands are positive, since 0 stands for a command never
  queued; the filter's offset is not negative; `Nobody` is no command, `NoClock` no clock.
* `TypesAssumption`, `EnumBounds`: a filter's pins and the media types are finitely many.
* `~Dynamic`, a hypothesis of `PinsAgree` and what `baseclasses` checks: pins are connected
  only while their filters are stopped. `m_bCanReconnectWhenActive` lifts that; it is set
  by CDynamicOutputPin, whose blocking `DynamicPin` models, and by no input pin here. Where
  both ends have it `PinsSafe` fails: an attempt that cannot be completed calls
  Disconnect on the other pin (amfilter.cpp:1806), which refuses unless its filter is
  stopped (amfilter.cpp:2142), and that pin stays connected to a pin that is free.
* `FitsUI24`, a hypothesis of `FilesAreWalkable` alone: packets with their five
  bytes, and extradata with its two, are shorter than 2^24. The code does not check
  it, and truncates the size in the tag header; files for which it fails
  cannot be walked. The other theorems about the file do not need it.

### The arguments

None of the invariants is inductive alone. Each strengthening was checked by TLC
as an invariant before it was proved.

* `QueueBounded` and `WritableIffRoom` need `RoomKept`: a writer whose wait ended
  because there was room, and one between GetPacket and Write, still has it, or has
  overlooked an abort. It holds because the reader and flushes only remove packets, and
  the only thread that appends to a stream is the one that waits. `QueueBounded` has that
  exception too; `QueuesKeepTheirSize` shows from `AbortsHeeded` that it does not
  happen in the filter: an abort is only taken back by Pause on a stopped filter,
  and upstream is out of its calls by then.
* `NoLostWakeup` needs `DeadStreams`: streams that do not exist hold nothing, so
  that adding one cannot make a packet deliverable. The step that matters is
  `ScanStarved`: it resets the event only if some interleaved stream is empty,
  so nothing is deliverable, and the write that fills that stream sets it again.
* `StreamFifo` needs `DeadStreams` and that sequences are what they are written
  as: the lemmas on concatenation in `InterleaverProofs`.
* `ImplementsMerge` maps `required` to the interleaved streams, `pending` to the
  queues and `merged` to the output. With both invariants above every step is a
  step of `OrderedMerge` or a stutter: `AddStream` is `Begin` because nothing
  was written before, `ScanDeliver` is `Take`, `Write` is `Put`.
* `SortedOutput` needs `OutputBound`: what has been delivered is no later than
  anything an interleaved stream has queued, nor than its last time, below which
  upstream may not go. It is established when a packet is delivered, because
  then every interleaved stream has a head to compare with, and kept by every
  write because the stream's times do not decrease. `OrderedQueues`, `SameEnd`
  and `OwnStream` tie the queues to what was written.
* `MuxInv` (`BaseMux`). `Phases` says, for each place the control thread can be
  at, where the muxing thread is, which request is pending and whether the
  session and the streams exist: four of the theorems are read off it.
  `EndIsFinal` follows an end of stream from the muxing thread to the next session.
  `Mapped` gives each connected pin a stream of its own and `Histories` equates what
  each pin accepted with what its stream did, up to the packet in the thread's
  hand. `InnerInv` adds the interleaver's own invariants: its module assumes that
  `Clear` finds nobody in a call, and here Stop may leave a writer in one.
* `FlagsInv`: a connected pin's type is one CheckInputType takes, and the two
  kinds differ. `FileInv` says what a file looks like while it is written and
  after it is closed (`FileOpen`, `FileClosed`), that no tag is later than the
  clock (`TimesInv`) and that the audio header has been written before the first
  packet was (`AudioInv`). The sizes are sums over a sequence, a recursive function:
  the lemma `Induction`, stated for sets because the library's form needs an
  operator, proves that a sum grows by what is appended. `ChainInv` adds that
  each tag names the size of the one before, unless the H.264 header of
  `flvfilter_avcc` has spoilt the file.
* `AllocInv`: each sample's count is the number of its holders, the free list has
  no sample twice, and together they are the pool (`SamplesInv`). Sleepers are
  no more than the waiters counted plus the units of the semaphore, and nobody is
  counted while a sample is free (`WaitInv`): the invariant that makes a release
  wake whoever needs it. A decommit under way waits for a sample that is out
  (`LifeInv`), so the last release finishes it.
* `DeliveryInv` (`OutputQueue`). `PlaceInv` says what can be in the list, the
  batch and in hand for each place of the three threads and each mode. `OwnsInv`
  counts, for each sample, the places it is in: with `AllocInv` the queue holds
  what those are and nothing else, each once.
* `UsableInv` adds `ControlInv`, what a control call may rely on when it waits: the
  flush event tells that the thread has been through its loop since the flush
  began (`FlushedMeans`), or the thread is on its way to set it (`FlushTold`); a
  Reset has its message in the list or was answered (`ResetTold`); and the
  thread does not sleep over what it should do (`SleepsOver`).
* `OrderInv` is the line of item numbers through the places an item can be in:
  sent, in hand, the batch, the special message taken off the list, the list.
  `Line` says that they ascend along it, `Present` that an item accepted is
  in one of the places unless something failed or was flushed, `Sticky` what
  the error that was kept does to the rest, and `Sound` that an idle queue
  which is not exact has sent all of it.
* `RendererInv`: where the streaming thread is inside Receive determines who owns
  the sample and whether it is fresh (`HeldInReceive`, `InUse`); a thread that waits
  is woken by an event that is set or an advise that is pending (`WakeUps`).
  `EndOnce` ties EC_COMPLETE to its flag and the timer to an empty renderer.
* `ControlInv`: from the test at the head of the loop on, whoever flushes or stops
  leaves the event set until the thread looks again, whatever it tests on the way to
  its wait. `TickInv` says that the
  counter shows what the ticks show modulo `Wrap` and is behind by whole turns
  (`CountsTurns`), so a difference is never too large and no wait too short.
* `VideoInv`: the last draw is never later than the last frame shown, which is
  what the display's pause is measured from, and before the first frame nothing is known of its
  rate or the time to draw it (`FreshStart`). `VarianceInv` says of both pairs of
  sums that the square of one is at most the count times the other, Cauchy's
  inequality, and grows with each frame (`SumGrows`); and that the sum of squares is
  at most a million for each frame counted, so that the variance is at most a million.
  For such numbers the root is right: an iteration never falls below the integer
  root and squares the error (`NewtonError`), the power of two isqrt starts from is
  less than twice the root, and for each of the eleven such powers the error
  after the three iterations is at most 1 (`Enough`, `ThreeIterations`): what isqrt
  returns is the whole number below the root or the one above it.
* `PosInv`: whoever has seeked and not yet told, will (`SomebodyTells`); the end
  that is asked for was a stop of this segment (`EndIsKnown`).
* `ClockInv`: no two advises in the list have one cookie, so that a signal is one
  packet's (`InTimeOrder`, `SignalledInTime`, `OthersAreDone`). `WakesInTime`: while the
  list is not empty and the event not set, a sleeping thread's timer ends in time for
  the first advise, and a thread that is awake has read a time that only the small
  corrections have put out since. This is why SetTimeDelta may read the number of
  advises without the lock: when it finds none, whoever adds the next one sets
  the event.
* `DynInv`: the caller past the start of a block is the one owner, the event to be
  signalled is the owner's, an answered caller has a blocked pin or was robbed of it, and
  the users are the brackets the streaming thread is in.
* `SourceInv`. `PinsInOrder` splits the pins at the one the control thread is at:
  when starting, those before it live and those after are clean; when stopping,
  the reverse. `Boots` is the first call, whose answer says whether the
  worker lives. A Pause that failed leaves a mixture, in which only further
  Pauses are possible, and `PinsInOrder` claims nothing of the pins not yet reached.
* `PullInv`. `ReadsChained`: from the sample at hand to the last one asked for, each
  read begins where the one before ends, whole blocks up to the aligned stop; a flush
  changes whether the reads succeed but not their ranges. `HeardSoFar`: outside a
  flush the receiver has everything before the first of them, up to the stop.
  `CallsInOrder` and `FlushReaches`: the reader stays flushed until the worker, which
  ends the flush itself when it rests, has left Process. `PullUntil`: or the reader has
  refused to be flushed.
* `XformInv` (`TransformFilter`). `LocksHeld` says who has which of the two locks;
  `Streams` that Receive is only left running in a connected filter that is not
  stopped, and that streaming was started once for every time it will be stopped.
  `OldIsRefused`: a frame of before a flush can still be in Receive only while the
  receiver refuses what it gets, and when the flush lets the receiver go on none
  is: this is what a video transform waits for Receive for in EndFlush. Of the other class it
  is so as long as no EndFlush has overtaken a frame. `EndDelivered`: the end of the
  stream of a filter without input is passed on by its first Pause, once.
* `VtInv`. `Carried`: what the decoder has is whole, or the code has excused itself,
  or it still holds frames back, for a key frame or to the end of a skip.
  `Remembered`: m_bSampleSkipped says what became of the last frame.
* `TipInv`: a pin that is not connected has nothing (`Disconnected`), what a connected
  one has comes from a neighbour that offers it (`InputAgreed`, `OutputAgreed`), and
  while both are connected downstream was told the allocator in use.
* `QueueInv` (`CommandQueue`). `ListsInv`: each list holds, once, the commands of its kind
  that wait, in the order of their times (`ListsOrdered`, `ListedRight`); the advise is
  for the earliest head (`ForFirst`), and until a clock is taken away it is armed while
  its time is to come (`Armed`). `InsertRight` and `RemoveRight` carry the lists through
  Insert and Remove, `AdviseFollows` the advise. `WorkInv`: what the worker was given as
  due stays due, because times only pass and Postpone excuses the command it finds taken
  (`NotEarly`); what was carried out is off the list, or in the call that takes it
  off (`RunOnce`); references are counted (`Counted`). `QueueUntil`: or there has been a clash.

* `PinsInv` (`PinConnection`). Between calls both ends are free (`NoPlug`) or connected to each
  other (`Joined`), but for the time between the two calls that disconnect
  (`HalfUnplugged`); each pin counts for one reference (`RefsRight`). For each call
  on the way to a connection a lemma says what it leaves: `AttemptIs` that an attempt joins
  both pins or leaves both free, whatever failed in it, and `AgreeIs`, by induction, that a
  list of attempts does. `StageInv` says what each stage of the graph leaves committed:
  after a Pause that failed nothing but the allocator the connection holds, which
  the receiver's Inactive frees. `LeftInv` says what may be left of a session in a pin that
  is not in use: an error, and only if a Receive was overtaken, or a flush that goes
  on or lost its connection.

* `SampleInv` adds only that the flags are known ones. `EnumInv`: the cache of an enumerator
  holds what was told, each once, and in front of the position of a user that skipped
  nothing there is nothing else (`PinsTold`); the types told are those in front of the
  position (`TypesTold`). A new version of the list makes both claim nothing until
  the next Refresh or Reset (`Versions`).

### Only model-checked

* Liveness (`DeliverableIsRead`, `ControlReturns`, `AbortFreesUpstream`): TLAPS
  proves nothing about ENABLED.
* `ValuesSafe` and `ListsAreSequences`: `AmfObjects` and `LinkedList` declare
  RECURSIVE operators, which take the SMT backend away from every module that
  reaches them.


## Not modelled

* One upstream thread feeding both pins. basemux.h:378 names the deadlock as a
  limitation of the class; the models give each pin a thread of its own.
* Bytes of payloads and headers, the composition time, decoding times that
  differ from the start times a packet is merged by (flv_writer:521), failing
  IStream writes (the code ignores their results), the tail an earlier session
  leaves beyond the end of a shorter file.
* GetMuxInfo, which reads the flags under one lock while SetInputType writes
  them under another (flv_filter:288), and the property page that calls it.
* GetPositions of a source, which reads start and stop with no lock, and may
  report the start of one seek with the stop of another; rates and
  capabilities; calls a pin or filter only passes on (`CPosPassThru`, the
  dispatch interfaces).
* What undefined behaviour does after it has happened: `BaseMux` continues as if
  the call had failed, `FlvFilter` stops (`Dead`), `CommandQueue` records a clash.
* What a Read of the interleaver does after its limit has run out between the test and
  the next wait: the difference is negative, taken as a DWORD, and the wait
  lasts 49 days or until a packet comes (basemux:332). `TimeLimitsKept` says that no wait
  ends early, not that it ends.
* ECMA arrays in what AS_Object::Read takes back: its end marker is not the one Write
  puts (as_objects:250), so `ReadsBack` leaves them out. Size and Write are checked for them.
* Media type checks and copies, quality messages that are only passed on, window
  procedures, drawing, palettes, DirectDraw, persistence, debug output,
  registration, COM plumbing: pure I/O, or calls to Windows whose results decide.

## Plan

Done: the muxer (`Interleaver`, `MuxClock`, `BaseMux`, `FlvFilter`, `FlvWriter`,
`AmfObjects`), the delivery and rendering of samples, and the concurrent parts of
the base classes; proofs about the interleaver, the filter, the file, the
allocator, the output queue, the rendering of samples, dynamic pins, sources,
pull pins, transforms, deferred commands, the connection of pins, samples, enumerators
and the advises of the clock.

Theorems next: `ValuesSafe` and `ListsAreSequences`, the two safety properties of the
passing runs that no theorem states, once their modules do without RECURSIVE.

Models next: `BaseMux` composed with `FlvFilter` under both locks; one thread
feeding both pins; a file written through a stream that can fail.
