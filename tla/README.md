# A verification project for astlog

astlog is a header-only C++20 logging library. `logger->error("...")` builds a
`logmsg`; a `Logger` passes it to its sinks in the calling thread, an
`asyncLogger` posts it to a thread pool whose workers call the sinks later; a
sink formats the message with a compiled pattern and writes it to a `FILE`.
This directory has TLA+ models of the library under `src/`, TLC configurations
that check them on small instances, and theorems about them that TLAPS checks
for every instance. Paths below are relative to `src/include` unless they name
a file of `src/` itself; `PROJECT.json` maps every definition to its lines.

    tlc -workers 2 -config MCThreadPool.cfg MCThreadPool     # a run
    tlapm ThreadPoolProofs.tla                               # the proofs of a module

## 1. The system

| Component | State | Operations | Interacts with | What is hard | What makes it correct |
|---|---|---|---|---|---|
| `DataBuf` (`membuf.h:22`) | `m_head`, `m_tail`, raw storage | `empty`, `front`, `pop`, `push`, `~DataBuf` | owned by the pool, used under its mutex | lifetimes managed by hand, wrap-around, eviction of the oldest element | one construction and one destruction per object; a drop-oldest queue of `CacheSize - 1` |
| `threadPool` (`thread_pool.h`, `-inl.h`) | mutex, condition variable, workers, `DataBuf<async_msg>`, `m_stop` | constructor, `postmsg`, `worker`, `~impl` | called by `asyncLogger`, calls `sink::log` | interleavings, lost wakeups, stopping against posting and waiting | an accepted message is logged once or evicted; the destructor drains and returns |
| `asyncLogger` (`async_logger*.h`) | `weak_ptr` to the pool, the members of `Logger` | `sinkIt` (`flush`, `backendSink`) | pool, sinks | who drops the last reference to pool, sink and logger, and when | nothing is used after it is gone; a call reaches all its sinks or, without a pool, none |
| `Logger` (`logger.h`, `-inl.h`) | name, level, flush level, sinks | `log`, `sinkIt`, `flush`, `addSink`, setters | sinks | several threads in one logger; which lines are flushed on return | one line per wanted sink and call; flushed when the level asks for it |
| sinks (`sink/*.h`) | mutex, formatter, level, `FILE` | `log`, `flush`, `setFormatter`, `setPattern`, `setLevel`, `setColor` | formatter, C library | record and end of line are two writes; the formatter is replaced while others format | whole lines; a formatter lives while it is used |
| `patternFormatter` (`pattern_formatter*.h`) | pattern, custom handlers, formatters, time cache | `compilePattern`, `format`, `add_flag`, `setPattern`, `clone` | `inlineBuffer` | a hand-written scanner; padding, centering and cutting by index | formatters are what the pattern means; fields have their text and width |
| `inlineBuffer`, `smallStreamBuffer` (`membuf.h:78`) | array, vector, size | `append`, `erase`, `view`, `xsputn`, `overflow` | formatter, `ostream` | text that moves between two containers | one text, wherever it lives |
| `SPSCQueue` (`spsc_ring.h`) | storage, two atomic indices | `try_push`, `try_emplace`, `try_pop`, `peek`, `clear`, `size` ... | nothing in the repository uses it | no lock; each side sees the other's index late | the two threads never share a cell; a bounded FIFO |
| root logger (`log_line.h`) | a static sink, `Logger` and flag | construction on first use, macros | `Logger`, `ansicolorSink` | several first uses at once; a sink with `NonMutex` | its sinks are registered before anybody is in it; then as `Logger` |
| levels, `logmsg`, `logtime` | tables, a record, an unused time cache | conversions | all | | |
| `circleBuffer`, pthread wrappers | a ring; pthread handles | | unused | | |
| benchmarks (`test.cc`, `spdlog_test.cc`) | | create, log, flush, drop | all | order in which pool, sink and logger go | |

There are no unit tests in the repository; `test.cc` measures throughput. The
documents (`OPTIMIZATION_PLAN.md`, `OPTIMIZATION_NOTES.md`,
`LOGGING_PERFORMANCE_ANALYSIS.md`) say what the authors expect of the code, and
the findings quote them. The hazards of the code, each at its line and with the
properties that cover it, are in `PROJECT.json`.

## 2. Modules

    RingCells ── DataBuf ──┬─ DataBufObject ····> DropOldestQueue
        │                  └─ ThreadPool ·······> AsyncDelivery
        │                                              │ (instance)
        └────── SPSCRing ···> BoundedFifo          AsyncLogging
    RootLogger ────────> SyncLogging       (and implements its Spec)
    InlineBuffer ──┬─ InlineBufferObject ···> TextBuffer
                   └─ LineFormatter ────┐
                      PatternCompiler ──┴─ PatternFormatter

A line is EXTENDS, a dotted arrow is "implements", stated with
`INSTANCE ... WITH` and checked as a PROPERTY. The proofs are in modules of their
own (section 4). The state-and-operators modules
(`RingCells`, `DataBuf`, `InlineBuffer`, `LineFormatter`, `PatternCompiler`) have
no behaviour of their own: an object module runs their operations one after the
other, and a module that uses the component runs them as steps of its own. An MC
module gives constants their values; its cfg says which properties to check. The
modules were written in the order pool (ring, pool, delivery), asynchronous and synchronous logging, text
(buffer, line, pattern, and the formatter that composes them), SPSC ring, root
logger: the most concurrent and most used code first.

**RingCells, DataBuf.** Indices are cells `0 .. Cells-1`; a cell is an object or
`Raw`, so that destroying twice or constructing over a live object is visible.
`Push` on a full ring destroys, advances and constructs in one step, as the
caller holds a mutex, or is alone.

**ThreadPool.** One action per point at which another thread can interfere.
`PostCall, PostLock, PostReject | PostPush, PostNotify` are `postmsg`
(`thread_pool-inl.h:29-38`); `WorkerLock, WorkerCheck, WorkerBlock, WorkerCopy,
WorkerPop, WorkerLog, WorkerExit` are one round of `worker` (`:41-63`);
`DtorStop, DtorNotifyAll, DtorJoin, DtorFinish` are `~impl` (`:16-27`). The
condition variable is the set of workers at `"waiting"`: blocking releases the
mutex in the same step, a notification moves one (any) or all of them back to
`"lock"`, and `SpuriousWake` does so without a notification. Posts race with the
destructor until its members are gone; that no post is under way when they go is
the caller's part, and `asyncLogger` keeps it (see `PoolOutlivesPosts`).
A post may name no sink: `if (msg.m_sinker)` then swallows it.

**AsyncDelivery.** What the pool promises, in three phases, without threads'
program counters. `ThreadPool` implements it, so `AsyncLogging` runs on it
instead of the pool and can afford clients, sinks and an owner.

**AsyncLogging.** Clients in `Logger::log` and `asyncLogger::sinkIt`
(`LockPool`, `Post` per sink, `Unlock`); an owner that drops pool, sinks and
logger in any order and flushes sinks, as the end of `benchAsyncFile` in
`test.cc` does in one of those orders; workers that write. `poolRefs` and `refs`
are the strong counts of the `shared_ptr`s: `weak_ptr::lock` is a test and an
increment in one step, the thread that drops the last reference to the pool runs
its destructor, and the last reference to a sink, be it a worker's, closes its
file. Levels are set while calls are under way; `meant` remembers which
positions of `m_sinks` wanted a call all the time and for some of it. The
contract of the caller is that nobody calls a logger that is gone.

**SyncLogging.** Threads in one `Logger`, with the mutex of each sink that has
one (`Locking`): level tests, the loop over `m_sinks` (a sink may be registered
twice), formatting and the two `fwrite`s under the lock, the flush of all sinks
after the loop, and anybody's `setFormatter`/`setPattern`, `setLevel`, `setFlush`
and `addSink` at any time. Testing the level of a sink (`SinkWanted`) and taking
its lock (`SinkLock`) are two steps: the level may change between them. What is
not synchronized has the guard `AllIdle`, the caller's part: `addSink`, and
replacing the formatter of a sink without a mutex. A `FILE` is the sequence of what was
written and the length of what was flushed.

**RootLogger.** `LoggerImpl::Logger()`: three local statics, each with the guard
the C++ runtime gives it (free, being initialized by a thread, done), and the
third initializer statement by statement. It runs on the variables of
`SyncLogging`, and `RootIsALogger` says that it is an instance of that module's
specification although its initializer calls `addSink` without asking (`PushSink`):
that nobody is in the logger then, and nobody before, follows from the guards.

**InlineBuffer, InlineBufferObject.** The array keeps what it had beyond the
size, and the vector is what counts as soon as it is not empty, as `data()` and
`size()` do it; `erase` to zero therefore puts the text back into the array.

**LineFormatter.** The line of one message: a color or nothing, `scopedPadder`
around each field in an `InlineBuffer`, and the reset of the color. A field is
its text, the length the formatter declares to the padder, and the padding;
beside it stands what the message itself has for the flag.

**PatternCompiler.** `compilePattern` character by character, `handlePadspec`
and `handleFlag` as operators on the pattern, and the object around it:
`add_flag`, `setPattern`, `clone`, and the new formatter that a sink's own
`setPattern` makes. The reference is `Meaning`: patterns are written from lists
of items, and the formatters must be those the items name.

**PatternFormatter.** Both composed, with messages: `FieldOf` is what each
formatter makes of a message, with `CountDigit`, the milliseconds, the clock that
`%e` reads when it formats, and the `thread_local` text that `%d` keeps of the
last second, one for each of the two padders the template is instantiated with,
across messages and across formatters. Messages come from `Logger::log`
(`LogCall`: payload and defaults as it makes them) or from anybody who calls the
sink (`OtherMessage`). The calendar text of a second is a function `TimeText`.

**SPSCRing.** Both sides split at their loads and stores. An acquire load
returns any index between the last one seen and the present one: this is what
the C++ memory model allows it to return, and release/acquire is why the
storage can be read at its present value.

## 3. Runs

Every run explores its whole state space. "Bound" names the constants that
make it finite and why they suffice.

| Run | States | Instance and bounds | Shows |
|---|---|---|---|
| `databuf` | 610 | 5 cells, 3 values; no bound | indices wrap several times, full pushes and destruction from every fill level |
| `pool` | 208 174 | 3 cells (queue of 2), 2 producers of `MaxPosts`=2, 2 workers, `MaxSpurious`=1 | 4 posts exceed the queue by 2: evictions with a worker between copy and pop, both workers asleep or holding, stop at any point |
| `async` | 450 792 | 2 clients of `MaxCalls`=1, 2 sinks of which one does not want their level until it is set, one call of a setter (of the logger or of a sink, up or down), 2 workers, queue of 2 | up to 4 messages in a queue of 2; every order of dropping pool, sinks and logger, and every moment of the level's change, around them |
| `sync` | 592 941 | 2 threads of `MaxCalls`=1 at levels `DEBUG` and `INFO`; the root sink, registered twice and without a mutex, and one with a mutex that may be added; `MaxChanges`=6 (the four statements of the initializer, and two more), `MaxFormatters`=2 | both threads at every static at once; two calls interleave in all sinks while levels change, a sink comes and its formatter is replaced |
| `inline_buffer` | 9 542 | array of 3, strings of 0, 1, 2, 5 characters, `MaxLength`=6 | fits exactly, exceeds by one, does not fit at all; cuts back through the array's length |
| `format` | 654 851 | `MaxOps`=3 messages or changes of the formatter; patterns: every flag, alone with all sides, 8 widths (below, at and above the cap, leading zero), cut or not, or before and after another; buffer array of 5, colored or not; two messages, of seconds 1 and 2 | all spellings of a padding, cut off anywhere; text across the edge of the array, padding and cutting on both sides of it; the time of each message after that of the other; `setPattern`, `add_flag` and `clone` between them |
| `spsc` | 8 612 | argument 3, hence 4 cells, 2 values; no bound | many rounds of the ring, with old indices |

CHECK_DEADLOCK is off only in `databuf`, whose object may be destroyed and is then
finished; the other models have a step for being over that holds only in the
intended end, so that any other standstill is a deadlock TLC reports.

The properties in a sentence each:

- `databuf`: `CellsExact` (an object lives exactly in the cells in use),
  `ImplementsDropOldestQueue`.
- `pool`: `OneFate` (an accepted message waits, was dropped, is held, or was
  logged, and one of these only), `QueueIsNewest` (what is gone is older than all
  that waits), `OvertakesFew` (when a message reaches its sink, at most one
  accepted before it per further worker is still on its way; how often a message
  is overtaken has no bound, as its worker may stand still between `pop` and the
  call of the sink), `BacklogIsCovered` (no wakeup is lost), `NoMissedStop`,
  `CopyIsOldest` (no push comes between a worker's copy and its pop),
  `DrainedWhenJoined`, `IInv` (the invariant of the proofs),
  `ImplementsAsyncDelivery`; and live: `EveryPostSettles`, `DestructionEnds`.
- `async`: `SinkOutlivesMessages`, `PoolOutlivesPosts`, `AllSinksOrNone` (the pool
  has accepted a finished call's message for all sinks that wanted it, or for none:
  it is not stopped in the middle of the loop), `EverythingSettled` (after the last handle: all written and flushed, or
  evicted), `WrittenOnce`; live: `PoolIsDestroyed`.
- `sync`: `LinesWhole` (of sinks that lock), `FormatterAlive`,
  `FormattersInOrder`, `LinesPerCall` (a call has its lines in the sinks that
  wanted its level throughout, and none where it was never wanted),
  `FlushedOnReturn`, `RootIsALogger`; live: `MacrosReturn`.
- `inline_buffer`: `ImplementsTextBuffer`.
- `format`: `CompiledAsMeant` (also of a clone: the constructor's pattern, with
  today's handlers), `CloneIsAlike`, `FieldWidths` (each field has the
  width asked for, but for two exceptions named there), `LineShowsMessage` (each
  field shows what is its message's own, and no later field disturbs it).
- `spsc`: `CellsAreApart`, `SizeIsSafe`, `NothingLeaks`, `ImplementsBoundedFifo`.

Each has a mutant of the code in `PROJECT.json` that breaks it: a notification
left out, a message copied and not popped, a `weak_ptr` not locked, a
`NonMutex` in place of the mutex, a static taken for initialized while another
thread initializes it, a width not capped, a time kept for an earlier second, ...

### Fairness

Weak fairness of each thread's steps inside the library (in `sync`, from the
macro to its return): a thread that can go on does, and a sink call ends. Calls,
setters, flushes, drops of handles and the start of a
destructor are the program's choice and never fair. A mutex is not a FIFO, so no
strong fairness is assumed for taking one. `EveryPostSettles`,
`DestructionEnds`, `PoolIsDestroyed` and `MacrosReturn` hold because the other
threads make finitely many calls (the bounds): they show the absence of
deadlocks, of lost wakeups and of locks never released, and not that a thread
cannot be starved by others that log for ever, which the code does not promise.

### Findings

Five runs check what the repository says of itself and find it violated:

- `logger_gone`: a queued message has a `string_view` of the logger's name and
  nothing keeps the logger. The order at the end of `benchAsyncFile` (logger,
  sink, pool) reaches it: workers then format with a name that was freed.
  `OPTIMIZATION_PLAN.md:60` asks for the object to live through the asynchronous
  phase.
- `erase_range`: with the text in the vector, `erase` resizes it to `m_size` and
  writes `m_overflow[m_size]` (`membuf.h:122`), one past its end; the memory is
  reserved, the access is outside the valid range that
  `OPTIMIZATION_PLAN.md:74` asks for.
- `centred`: an odd number of spaces around a centered text is rounded up on the
  left and once more on the right: `%8l` of `ERROR` takes ten columns, though
  `pattern_formatter-inl.h:36` says the total width is kept. `FieldWidths` states
  the width the code gives.
- `truncation`: the time formatter declares 32, the size of its array, for 21
  characters, so `%25!d` is "cut" to 25 and becomes four NUL characters longer.
- `payload`: `Logger::log` formats into the buffer through `data()`, so
  `buf.size()` stays 0 and the payload handed to the sinks is empty
  (`logger.h:50-56`): `%v`, "the message text" (`pattern_formatter-inl.h:287`),
  prints nothing. The `format` run therefore also has messages from other callers
  of a sink, with a payload.

Seen while reading, without a run of their own:

- `%^` followed by a flag is a centered padding specification without a width:
  the color mark is swallowed and the next character becomes the flag; `%<^`
  reaches the mark. `CompiledAsMeant` therefore writes the mark with a side or a
  width only.
- A width of twenty digits or more wraps around `size_t` before it is capped;
  `Number` has the modulus, and the widths of the run stay below it.
- A clone compiles the constructor's pattern with the handlers of today: after
  `setPattern` or `add_flag` it may differ from its original. `CompiledAsMeant`
  states what it is then, `CloneIsAlike` when it does not differ.
- `test.cc` flushes the sink when its loop ends, while messages are still in the
  pool; `LOGGING_PERFORMANCE_ANALYSIS.md:79` asks to wait for the pool.
  `EverythingSettled` says what holds once the handles are gone.
- The root logger registers its one sink twice, so each line appears twice: the
  run `sync` has this configuration. That sink has a `NonMutex`: threads that use
  the macros interleave inside a line, and `LinesWhole` speaks of locking sinks.
- `OPTIMIZATION_NOTES.md:29` says that the first use of the root logger races
  (`empty()` and `addSink()`); the code has since become the guarded
  initialization that `RootIsALogger` shows to be in order.
- `asyncLogger::sinkIt` does not flush: the flush level is without effect there.
- A sink's `setPattern` makes a new formatter and so forgets custom handlers;
  `patternFormatter::setPattern` keeps them.
- `%%` and unknown flags print "unkonwn formatter"; the comment at `%e` says
  seconds since the epoch, the code prints milliseconds since the program started.
- `getLocalTime` (unused) returns the size of its buffer, keeps an old text when
  the clock goes back, and its cache does not look at the format.
- A failed `fopen` leaves a null `m_file` that `sinkIt` writes to; `setColor`
  takes no lock; `LEVEL::MAX` indexes past the name table.
- In `SPSCQueue`, a third thread that calls `size()` may get any number up to the
  capacity; the constructor of `storage_` does not compile as written, and
  `circleBuffer::pop`, declared `void`, returns a value. Neither template is
  instantiated.

## 4. Proofs

| Module | Proves |
|---|---|
| `MemBufTheorems` | lemmas on both containers of `membuf.h`. Ring: `Succ`, `Span` and the window of cells in use; dropping the oldest and storing a new element are `Tail` and `Append` on the elements. Buffer: what `append` and `erase` do to the text, and that nothing before it changes |
| `DataBufTheorems` | lemmas: what `Push`, `Pop`, `DestroyAll` and `Front` do to contents and live cells, for use in any module that runs them |
| `MemBufProofs` | `ObjectTypeOK`, `ObjectCellsExact`, `ObjectRefines`: `DataBuf` implements a drop-oldest queue of `Cells - 1`, for every `Cells >= 2`; `InlineTypes`, `InlineRefines`: the buffer is a text, for every capacity, alphabet and set of strings |
| `ThreadPoolProofs` | `PoolInvariant`, `PoolTypeOK`, `PoolCopyIsOldest`, `PoolNoMissedStop`; `PoolRefines`: the pool implements `AsyncDelivery`; `PoolHistoryInvariant`, `PoolOneFate`, `PoolQueueIsNewest`, `PoolOvertakesFew`, `PoolBacklogIsCovered`, `PoolDrainedWhenJoined` |
| `AsyncLoggingProofs` | `AsyncTypes`, `AsyncSinkOutlivesMessages`, `AsyncPoolOutlivesPosts`, `AsyncAllSinksOrNone`, `AsyncEverythingSettled`, `AsyncWrittenOnce` |
| `LoggerProofs` | of `SyncLogging`: `SyncTypes`, `SyncLinesWhole`, `SyncFormatterAlive`, `SyncFormattersInOrder`, `SyncLinesPerCall`, `SyncFlushedOnReturn`; of `RootLogger`: `RootRefinesLogger` and `RootIsSafe` |
| `SPSCProofs` | `SPSCTypes`, `SPSCCellsAreApart`, `SPSCSizeIsSafe`, `SPSCNothingLeaks`; `SPSCRefines`: the ring implements a bounded FIFO |
| `FormatterProofs` | `FormatterCompiledAsMeant`, `FormatterCloneIsAlike`, `FormatterFieldWidths`, `FormatterLineShowsMessage`; among the lemmas, `CountDigitIsLength`: `countDigit` is the length of `std::to_string`, for every number |

So every safety property that a passing run checks is also a theorem, for any
number of threads, sinks, calls and cells, and for patterns, messages, widths and
texts of any length.

**Assumptions.** `CellsAssumption` (at least two cells), `PoolAssumption`
(finitely many producers, threads and the free mutex told apart, the bounds are
numbers), `MarkerAssumption` (`Raw` and `NoMsg` are no messages),
`LoggingAssumption` (finitely many clients and workers, the owner is none of the
clients, the handles of pool and logger are no sinks, a capacity of at least one,
levels are integers), `SyncAssumption` (levels are `0 .. 6`, as `LEVEL` has
them, "nobody" is no thread, `MaxFormatters` allows the first formatter),
`RootAssumption` (the root sink has no mutex and is the only one at first, and
the levels its initializer sets are among those a setter may set),
`SPSCAssumption` (the number of cells is what the constructor computes from its
argument), `InlineBufferAssumption`, `ObjectAssumption` (what is appended is a
string of characters), `CompilerAssumption` (there are ten digits, none of them
the `%`, `!`, `<`, `^` or `>` of a padding; `max_width` is below the modulus of `size_t`),
`FormatterAssumption` (what is compiled is written from lists that are
`WellFormed`, and the text of a call fits the buffer that `Logger::log` formats it
into: beyond it the behaviour is undefined), `CharacterAssumption` (texts are
strings of characters, numbers are natural numbers). TLC evaluates each in a run.
A module that proves about the buffer only also gets the ring's constants from
`MemBufTheorems`; nothing it states depends on them.

`WellFormed` is what makes `Meaning` a reference: a pattern is then written from
one list of items only. It excludes two adjacent texts, which cannot be told from
one; numbers that do not fit `size_t`; an item without a flag before the end of
the pattern, as the next character is then its flag; and flags that are read as
part of the padding before them (`%^`, see section 3, a digit, or `!` behind a
width).

**The argument for the pool.** `TypeOK` alone is not inductive, nor is
`CopyIsOldest`: a worker that is about to pop relies on nobody having touched the
ring since it copied. `IInv` adds what makes that so. `MutexOK`: the mutex is
held by exactly the thread whose program counter is inside a critical section,
hence at most one is. `WorkersOK`: what a worker found out under the mutex still
holds when it acts: the predicate when it blocks or goes on, the copy being the
front when it pops, stop and emptiness when it has left. `DtorOK`: the flag is up
once the destructor began, and after its notification nobody waits; a worker
that would block later has seen `~stop` under the mutex, which `WorkersOK`
contradicts. `LiveCells`: objects live exactly in the cells in use, so the lemmas
about the ring apply. There is a lemma per action for `IInv'`, and `StepIInv`
puts them together. For the refinement, `PostPush`, `WorkerPop`, `WorkerLog`,
`DtorStop` and `DtorJoin` map to `Accept`, `Take`, `Deliver`, `Close` and `Join`,
and each other action to a stutter (`Invisible` and the lemmas after it).
The theorem also covers what the run does not: any number of threads, the
`NumWorkers = 0` that becomes one worker, and posts without a sink. It makes
`AsyncDelivery` a sound stand-in for the pool in `AsyncLogging`, for safety. That
module takes its steps of the pool from `AsyncDelivery` by name (`Pool!Accept`,
`Pool!Take`, ...), so nothing is left to show there of how it uses the pool, but
for what callers owe it: `PoolOutlivesPosts`.

**The history of the pool.** `HInv` adds to `IInv` where messages are. The three
steps that move one are those of the refinement (`StepKinds`), so its parts look
at `Contents`, `Held` and the histories only. `FreshInv`: a post is numbered by
its producer and not accepted before it is pushed, so `accepted` has no message
twice. `NewestInv`: the queue is the end of `accepted`. `PlacesInv`: waiting,
held, dropped and logged messages are apart, and are together what was accepted,
but for logged ones without a sink. `OneFate` counts these places, and needs
`CopyInv` (a worker's `msg` is empty when it is not using it) to see that no
second worker has a held message. `OvertakeInv` is what `OvertakesFew` needs
and does not say: of a logged message, some worker holds no predecessor, the one
that took it; it still does when others pop, as the head of the queue is younger
than anything logged (`LoggedIsGone`). The predecessors that are on their way are
then with the other workers, one each, so there are at most as many
(`FS_Injection`, in `PassedFew`). `OvertakesFew` speaks of the moment of each call
of a sink, and what that call had overtaken does not grow afterwards
(`OvertakenShrinks`). `BacklogIsCovered` is inductive with `IInv`: a push owes a
notification, a notification wakes a worker, a pop takes one of each, and a worker
that stops looking has seen, under the mutex, that nothing waits. With every worker
gone nothing waits and nothing is held, and `PlacesInv` is `DrainedWhenJoined`.

**The argument for the asynchronous logger.** That a sink is open while a message
for it waits is true because of what `shared_ptr` counts, so the invariant says
what that is. `PoolInv`: `poolRefs` is the number of clients in `sinkIt` plus
one for the owner, and if it is zero before the pool is joined, exactly one thread
is destroying it. `RefsInv`: `refs[s]` is the owner's handle, one per place in
the logger's list, one per waiting message and one per worker with a message for
`s`; a sink is open while its count is positive, and all it wrote is durable when
it closes. `CallInv`: what a call has posted so far, of the positions before
`next`. `PlacesInv`: a posted message waits, is carried, was evicted or was written
to its own sink, once; what was posted is therefore what the pool accepted
(`PostsAreAccepted`), and at the end of a call `CallInv` is `AllSinksOrNone`. An eviction
or the end of a write may drop the last reference to a sink, and the last client
out of `sinkIt` may be the one that destroys the pool.

**The argument for the logger.** `LockInv`: a thread between the two writes of a
line has the mutex of its sink, if there is one; `LineInv`: the file of such a sink
has an odd length exactly then. `FormatInv`: no line shows a formatter yet to
come. `CountOK` counts a thread's lines of this call in each sink against the
places of the sink in `m_sinks` that it has passed, and bounds them by the levels
it may have seen there; `FlushOK` says which sinks `flush` has reached. For the
root logger, `GuardInv` relates the static a thread is at to the guards, and
`ConfigInv` the statements executed to the third guard: until it is done no thread
can be in the logger, so `PushSink` is an `AddSink` that the logger's
specification allows.

**The argument for the SPSC ring.** Each side's last loaded index is not ahead of
the true one, in the order around the ring (`ProducerInv`, `ConsumerInv`): an old
`head_` shows less room than there is and an old `tail_` fewer elements, never
more. `StorageInv` says which cells hold objects between a side's access and its
store. The abstract queue changes when `tail_` is published and when `head_` is.

**The argument for the compiler.** `CompilerInv` says of every list of items that the
pattern can be written from that the loop has taken `k` of them, is `j` characters
into a text, and has made the formatters of those `k` (`Scanned`). For a round of
the loop it has to be known what `handlePadspec` reads where an item begins
(`PadSpecReads`): the side, the digits up to the first character that is none,
capped after a product that does not wrap (`NumberIsValue`), the mark, and exactly
up to the flag. `PatternParts` cuts a pattern into its items. `ownItems` keeps the
list of the constructor's pattern for the clones, whatever `setPattern` compiles.
`CompilerInv` speaks of all lists with a pattern and not only of the one in `meant`:
`setPattern` may be called with the constructor's pattern from another list, and
what a clone and its original have in common is then that both are `Faithful` to
that pattern and the same handlers.

**The argument for the line.** `LineInv`: the line is the color and then, between
consecutive `ends`, fields that are `Good`, that is, as wide as asked (`AsWide`) and
showing their text (`Shows`); `FormatInv` adds that the line ends where the last
field does, and that each kept time is that of the second kept with it. A new
field changes nothing before it (`Extends`, `SameParts`), though the padder
cuts by index in the whole line and the text may move to the vector half-way through
a field. `FormattedField` is the heart of it: what a `scopedPadder` does for each
side, with room left or not, cut or not, ignored cut or growing one. It needs
that the declared length is the length of the text (`DeclaredLength`), which for
numbers is `CountDigitIsLength`. The time formatter declares more than it
appends; for it the theorem says what `LineShowsMessage` does, not a width.

**Induction.** Folds (`Value`, `Number`, `PatternOf`) and recursive functions
(`Decimal`, `CountDigit`) are proved about from the least counterexample: `Least`
gives one for a set of numbers, `SetInduction` and `StrongInduction` are its usual forms for
sets, and `FoldExists` and `DescentExists` show that the functions exist that
`CHOOSE` in their definitions looks for.

**The argument for the buffer.** `BufferOK` says that the text is in the array
and fits, or is the whole vector. `AppendEffect` and `EraseEffect` show for each
container, and for the move between them, that the view grows by what was
appended and is cut to what was asked; the refinement follows step by step.

TLC checked each inductive invariant (`IInv` of `ThreadPool` in its run, the
others as invariants of the instances of section 3; those of the formatter with
`MaxOps`=2, and with `PartEnds` computed) before it was proved.

**Only model-checked.** All liveness (`EveryPostSettles`, `DestructionEnds`,
`PoolIsDestroyed`, `MacrosReturn`): it follows from fairness, and the provers do
not reason about ENABLED.

## 5. Not modelled

- `setColor` and `addSink` under use: data races on a `std::string` and a
  `std::vector`, whose outcomes cannot be enumerated. `setColor` is called by
  nothing; `addSink` has the guard that nobody is inside the logger.
- `fopen` is taken to succeed; with a null `FILE` the first line is undefined
  behaviour, in every schedule.
- `sink::sync` (`fsync`, `fdatasync`), `backendSink`, `logtime`, the color range
  in `logmsg`, `circleBuffer`, the pthread wrappers: nothing uses them, and
  `circleBuffer::pop` does not compile.
- The calendar (`localtime_r`, `strftime`), the names of levels, `std::format`:
  functions given to the models. `timeFormatter` with another format and
  `timeElapsedFormatter` with another unit than the default: no flag asks for one.
- A custom handler is taken to pad its text as the formatters of the library do.
- Copy and move constructors, allocation failure, exceptions from sinks.
- The `spdlog` benchmark: another library.

## 6. Plan

1. Larger instances of `AsyncLogging`: two calls per client, with both levels
   below and above those of the sinks.
2. Several threads in one formatter of a sink without a mutex, as far as what
   they do is defined: each has its own line and its own cached times.
