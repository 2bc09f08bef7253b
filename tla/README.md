# statsd-c: a TLA+ model of the daemon

TLA+ modules that model statsd-c (`src/`), TLC configurations that check them
on small instances, and proofs that TLAPS checks for every value of the
constants. Source locations are written `file:line`, relative to `src/src/`
unless they start with another directory; `PROJECT.json` maps each definition
to the lines it stands for.

## 1. The system

statsd-c receives datagrams with statistics, aggregates them in memory and
sends the aggregates to graphite and to ganglia at every flush interval. It is
one process with a main thread and four others, which share global variables:

```
  datagrams -> p_thread_udp --queue[]--> p_thread_queue
                                            | process_stats_packet
                                            | process_json_stats_packet
                                            v
                  counters   timers   gauges   stats     (one semaphore each)
                     ^          ^        ^       ^
  management TCP ----+----------+--------+-------+   p_thread_mgmt (reads)
  graphite, gmond <--+----------+--------+-------+   p_thread_flush (reads, clears)
  file -> statsd_deserialize at start; cleanup -> statsd_serialize -> file
```

### Components

| component | state | operations | what makes it correct | module |
|---|---|---|---|---|
| packet queue (`queue.c`) | `queue[]`, `queue_store_pos`, `queue_retrieve_pos`; no lock | `queue_init`, `queue_store`, `queue_pop_first` | a lossless FIFO until it overruns; no packet twice; the consumer never sleeps over a packet | `PacketQueue`, `PacketChannel` |
| UDP thread (`statsd.c:869`) | socket | select, read, copy, `queue_store`; ends on a read that returns nothing | keeps receiving; stores every datagram it reads | `PacketQueue` |
| queue thread (`statsd.c:941`) | the packet at hand | pop, dispatch on the first character, free, sleep | processes every stored packet | `PacketQueue` |
| counters (`statsd.c:488`, `1163`) | hash `counters`, `counters_lock` | `update_counter`; the flush reports and clears | no update lost, none reported twice, one entry per key, the flush visits every entry | `CounterTable` |
| timers (`statsd.c:591`, `1202`) | hash `timers`, `timers_lock`; per timer an array and its count | `update_timer`, `add_timer` (no caller); the flush sorts, summarises, clears and reports | array and count agree; every sample is in one summary; no summary of nothing | `TimerTable` |
| gauges (`statsd.c:529`, `1307`) | hash `gauges`, `gauges_lock` | `update_gauge_plusminus`, `update_gauge` (no caller); the flush reports, never clears | every flush reports every gauge; a value that stays is reported in one piece | `Flush` |
| stats (`statsd.c:451`) | hash `stats`, `stats_lock` | `update_stat` sets a value, called by main, the queue thread and the flush | the table survives a semaphore that lets two in | `Flush` |
| packet parsers (`statsd.c:657`, `725`, `strings.c`) | a packet's tokens, the variables of one call | text and JSON formats | each well-formed token makes exactly the update it names | `PacketParser` |
| flush thread (`statsd.c:1135`) | `statString`, `numStats`, gmetric handle | sleep, gather, send, update `last_flush` | what is cleared was sent; no socket is left open; flushes go on | `CounterTable`, `TimerTable`, `Flush` |
| gmetric (`embeddedgmetric.c`) | a UDP socket | open, encode, send, close | no value without its metadata | `Flush`, `GmetricMessage` |
| management server (`statsd.c:967`) | listener, clients, one receive buffer | help, counters, timers, stats, quit | each command is answered for what that client sent; a listing is complete | `MgmtServer` |
| serialization (`serialize.c`) | the state file | `statsd_deserialize` at start, `statsd_serialize` in `cleanup` | no update is lost or reported twice over a restart, but where the code cannot help it; the file can be read | `Persistence` |
| start-up, signals, shutdown (`statsd.c:128`-`422`) | lock file, signal handlers, the semaphores | options, daemonize, create and join threads, `cleanup` | one daemon at a time; a signal ends the process with the tables saved | `Shutdown`, `Persistence` (lock file) |
| `statsd_client` | - | formats and sends one packet | the server understands what the client sends | formats: `PacketParser` |
| json-c (vendored) | objects, `lh_table`, tokener | parse, print, add, get, put | what was printed is read back, a cut text is noticed; the table is an ordered map | `JsonTokener`, `JsonPrinter`, `JsonGrammar`, `LinkHash`, `ObjectFields` |
| uthash (vendored) | lists, arrays | `HASH_ADD_STR`, `HASH_ITER`, `utarray_*` | a walk over a list that grows; an array that moves | where the tables use them |
| `modp_numtoa.c` | - | number formatting | - | not modelled: not called on the paths that statsd uses |

### Interactions

* The UDP thread hands packets to the queue thread through `queue[]` only; a
  slot is free when it holds `NULL`.
* The queue thread changes the tables; the flush thread reads them and clears
  counters and timers; the management thread reads them with no lock at all.
  All three follow the same linked lists (`HASH_ITER`), while
  `HASH_ADD_STR` appends to them.
* The queue thread parses packets with json-c, `serialize.c` prints and parses
  the state with it; the state file ties one process to the next.
* `cleanup` runs inside a signal handler or in whichever thread calls
  `die_with_error`; it cancels the others wherever they are, saves the tables
  (taking their locks), destroys the locks and removes the lock file.

### What is hard here

* *Unlocked sharing*: the ring buffer, `HASH_FIND_STR` before the lock, the
  flush's reads of counters, the test of a timer's count, the management
  thread.
* *Check-then-act across a lock*: counters are read before and cleared under
  the lock, timers are cleared under and reported after it: a signal in between
  reports the one twice and loses the other.
* *A full queue*, which overwrites without a trace.
* *Partial failure*: an empty datagram ends the receive loop, a failed
  `gmetric_open` disables gmetric for good, nothing looks at what `send`,
  `fputs` and `fclose` return.
* *Shutdown and restart*: cancellation at any cancellation point, a second
  signal, a file that is truncated before it is written, two daemons that write
  it at once.
* *Liveness* of four polling threads that share four semaphores.

`PROJECT.json` lists the hazards line by line with the properties that watch
them.

## 2. Modules

### `PacketChannel` and `PacketQueue`

`PacketChannel` is what the receive path promises: a backlog that packets
enter at one end (`Accept`) and leave at the other (`Deliver`). It never holds
more than the capacity; the channel may overrun only when it is full, and after
that promises nothing but that no packet is processed twice.

`PacketQueue` is the code: `queue_store`, `queue_pop_first` and the loops
around them. State: `queue` (one entry per slot, `Null` for `NULL`), the two
positions, where each thread is (`udp`, `con`), the pointer the consumer has
read (`tmpptr`). Packets are numbers in order of arrival. Actions:

| action | code |
|---|---|
| `UdpRead`, `UdpReadFails` | `p_thread_udp`'s `select`/`read`; a read that returns nothing leaves the loop |
| `QueueStore` | `queue_store`: wrap, write the slot, advance |
| `PopTest`, `PopNothing` | the `NULL` test |
| `PopRead`, `PopClear` | read the slot; clear it, advance, wrap |
| `ProcessPacket`, `WakeUp` | the caller's processing, its sleep |

The two threads share only `queue[]`: each position belongs to one of them. So
an action contains at most one access to `queue[]`. The slots are plain
pointers written and read without synchronisation; the model takes each access
as one indivisible step in program order, which is what compilers make of it
on the platforms the program is built for (x86-64 keeps stores in order, and
`queue_store` and `queue_pop_first` call `syslog` or live in another
translation unit than their callers). Splitting the test and the read of
`queue_pop_first` gives a superset of the outcomes of a build that merges them.

### `CounterTable`

`update_counter` and the counter pass of the flush. A value is the *set* of
the updates it sums up, so "lost" and "counted twice" are visible whatever the
numbers are. The table is the list of its keys in the order of `HASH_ADD_STR`.
`c->value = c->value + value` is a load and a store. `LOCK_OPTIMIZE` is a
constant, as in the build: with it the lock is not taken around the load and
the store. The flush takes a copy of the value for each back end without the
lock, then takes the lock to clear it; `enable_gmetric` may be cleared at the
start of a pass by a `gmetric_open` that fails, and stays so.
`HASH_ITER`'s cursors `el` and `tmp` are positions: the second is read one
element ahead, so an entry appended while the flush is on the last one is left
to the next pass.

### `TimerTable`

`update_timer` and the timer pass of the flush, in the build with locks. The
samples of a timer are a sequence, and `count` is the field of that name: they
are changed by separate steps, and the flush tests `count` without the lock,
locks, summarises, clears the array, clears the count, unlocks and reports
`count` again. What sort, minimum, maximum, mean and percentile compute is not
modelled here: a summary is the set of samples it was taken from. With
`LOCK_OPTIMIZE` the array is reallocated by one thread while another reads it,
which has no outcomes to enumerate; the module does not claim that build.

### `Shutdown`

The life of the process from `init_stats` to its end. State: where each of the
four threads is (`pc`), which are `cancelled`, the calls of `cleanup` on a
stack per thread that can run it (`cleanups`: `main`, whose handlers nest, and
the UDP thread, through `die_with_error`), the counts of the four semaphores,
the locks a thread took with it when it ended (`left`), the updates in the
tables, and the state file: whole, empty, cut, or mixed by two handlers' FILEs.

| action | code |
|---|---|
| `CreateThread`, `MainReturns` | `main` creates the threads and joins them; a daemon spins instead |
| `Signal` | SIGINT or SIGQUIT: one more `cleanup` on `main`'s stack |
| `UdpDies`, `MgmtFails` | `die_with_error` in the UDP thread; `exit(1)` in the management thread |
| `CancelThreads` ... `ExitProcess` | `cleanup` and `statsd_serialize`, one table after the other; `PutText` and `CloseFile` write the text, or fail unseen; `exit` writes what an interrupted handler's FILE still has in its buffer (`FlushFiles`) |
| `QueueTakes` ... `QueueUpdates` | one update, with its lock |
| `FlushReportsCounters` ... `FlushSends` | one flush, with its three locks |
| `EndCancelled` | a cancelled thread ends at a cancellation point |

What it takes from the C library: cancellation is deferred; `sem_wait` is a
cancellation point when it is called and while it blocks; `printf`, `syslog`,
`send`, `select`, `sleep` are cancellation points; `pthread_cancel` of a
`pthread_t` that is still zero crashes; a signal goes to `main` as long as
`main` does not block it, and a handler blocks its own signal only (so two
signals that nest are different ones). `stats_lock` starts at 2, because
`init_stats` posts it without waiting. A state file is given, the locks are
built in.

### `PacketParser`

What one packet does: `process_stats_packet` token by token, and
`process_json_stats_packet` element by element. A token is a sequence of up to
three fields from a set of strings the code tells apart (numbers with and
without sign, the three types, two sample rates, the empty string), so every
shape of token is tried after every other. The value of a token goes through
`charvalue`, a pointer that lives as long as the packet: the module follows
whether it is unset, live or freed, and takes any number, or a crash, for what
is read through it when it is not live (`StaleToken`, `StaleTokenCrashes`).
Numbers count halves, so that a sample rate of 0.5 stays whole. Names stand for
what `sanitize_key` made of them.

`add_timer` has no caller and `update_gauge` neither; they are not modelled.

### `Flush` and `GmetricMessage`

The flush thread outside its counters and timers, and the stats table.
`UpdateStat` is `update_stat` step by step in the three threads that call it,
with the semaphore that `init_stats` posts without waiting (`statsd.c:121`).
`UpdateGauge` is `update_gauge_plusminus`; a gauge is a `long double`, which is
read in two parts, so another thread's store can fall between them. The ghosts
`due` and `seen` follow a pass through the list of gauges. `Wake` is
`gmetric_create` and `gmetric_open`; `ReadGauge`, `SendGauge`, `NextGauge` and
`Totals` the gauge pass and `numStats`; `OpenGraphite`, `Connect`, `SendText`,
`CloseGraphite` the connection to graphite, each with its failures (SIGPIPE
included: there is no handler, so the process ends); `LastFlush` and `Sleep`
the end of the loop. `GmetricMessage` gives the sizes of the 3.1 encoders, which
is what decides whether a message fits into their buffer.

Stores to a gauge and the linking of a new one are one step: one thread alone
makes them, and a new gauge has its value before it is linked.

### `MgmtServer`

`p_thread_mgmt`: `select`, accepting, receiving, one command after the other.
A command is two halves, so that the network can deliver it in parts; the
buffer is one for all clients and a `recv` overwrites only what it received.
`ListCounter` follows the counters' list, `NextSample` and `SendSample` a
timer's array, without the locks, while `AddCounter`, `PushSample` and
`ClearTimer` change them; an array that grows may move, up or down in memory,
which decides what `utarray_next` makes of an old pointer: an array that has
moved up is listed again from its start, one that has moved down ends the
listing. A send to a client whose system has answered with a reset ends the
process (SIGPIPE).

### `Persistence`

What survives a process. Daemons, of which an init script may start a second
one before the first has ended, share the state file, the lock file and the two
ports.

| action | code |
|---|---|
| `Start`, `Load` | `main` to `statsd_deserialize`, which crashes on a file that is not JSON |
| `TakeLock`, `CloseLockFile` | `daemonize_server`: the lock goes when the file is closed |
| `Bind` | the UDP thread: `SO_REUSEADDR` may let two daemons share the port; one that cannot bind cancels its own thread in `die_with_error` and is stuck, unsaved, in `main`'s loop (module `Shutdown`) until a signal comes |
| `Listen` | the management thread, which exits without `cleanup` when another daemon has its port |
| `Accept` | an update comes, for a counter or a timer |
| `Wake` | a flush begins; a `gmetric_open` that fails switches gmetric off |
| `ReportCounter`, `ClearCounter` | a counter goes to gmond, or into the text for graphite, and is cleared after it |
| `ClearTimer`, `ReportTimer` | a timer is cleared first |
| `SendText` | the text goes to graphite, or is dropped |
| `Stop` | a signal, between any two steps of the flush |
| `OpenFile`, `WriteHead`, `WriteRest`, `WriteFails`, `Unlink` | `statsd_serialize` and the rest of `cleanup` |
| `Kill` | SIGKILL, SIGPIPE or a power failure at any point |

The counters and timers of a daemon are the set of the updates in them, and the
flush takes any part of it for one counter or timer. The file has two places:
its beginning, to which a `FILE` writes a text that fits into its buffer, or the
head of a longer one, and what is behind that, where the longer text's tail
goes. Every daemon writes at its own offset, whoever has truncated or written
the file meanwhile, so two that save at once can leave the head of one text
with the tail of the other. `CanRead` says what a start makes of that: the head
of one object and the tail of another may be an object with any fields of both,
or no JSON at all. The interleavings of the threads inside one daemon are left to
the other modules. The ghosts `lost` and `again` say what may be missing and
what may come twice; they grow only where the code has lost track:

* `lost`: the timer or text in the flush's hands when a signal comes or graphite
  does not take it; what is cleared after a failed `gmetric_open`; the tables of
  a daemon that is killed, that exits at the management port or whose save
  fails; of two saves, what one wrote over or both have mixed.
* `again`: what is in a counter that was reported and not yet cleared when a
  signal came, what stays in the file after a kill, an exit without a save or a
  failed one, and what a daemon loads while another one is there.

### json-c: `JsonTokener`, `JsonGrammar`, `JsonPrinter`, `LinkHash`, `ObjectFields`

`JsonTokener` is `json_tokener_parse_ex` as a stack machine, an action per case
of its `switch`, over atoms of text; with it the reference counts of the objects
it makes. `JsonGrammar` says what a text means, by recursive descent, and
`JsonPrinter` is `json_object_to_json_string`, with what `%lf` does to a
double: a fixed number of digits after the point, and words for infinity and
nan. `LinkHash` is `lh_table` under
`json_object_object_add` and `json_object_object_get`, one entry of a probe loop
per step, and implements `ObjectFields`, an object as the list of its fields.
Deleted entries do not pile up in the table: the program never deletes a field
but to add it again, which takes the place of the deleted one or a free one
before it. The proofs rest on that (`FreedOK`).

## 3. Runs

| run | checks | shows |
|---|---|---|
| `queue` | `AtMostOnce`, `LosslessFifo`, `OverrunNeedsFullQueue`, `SleepOnlyWhenEmpty`, `RefinesChannel`, `EveryPacketProcessed` | the unlocked ring is a FIFO until it overruns, an overrun needs a full ring, no packet is delivered twice even then, and the code implements `PacketChannel`; every stored packet is processed unless the ring overruns, also when the UDP thread has ended |
| `counters` | `NoUpdateLost`, `ReportedOnce`, `KeysUnique`, `PassCoversTable`, `EveryUpdateCleared` | with locks, an update is always in its counter or cleared, and cleared in the end, no back end gets it in two flushes, keys are linked once, a pass visits every key it found |
| `counter_clear` (violation) | `ClearedWhenDone` | an update between the flush's last read and its clear is never reported |
| `timers` | `CountMatchesValues`, `EverySampleReported`, `SummaryNotEmpty`, `EverySampleSummarised` | every sample is reported exactly once, and in the end, array and count agree outside the lock, the unlocked test never leads to an empty summary |
| `shutdown` | `AtMostOneUpdateMissed`, `EndsUnlessLockLeft`, `DeathEndsProcess` | a `cleanup` that saved and ended the process leaves a file that misses at most one update, unless a write failed; one signal ends the process unless a thread ended with a lock; so does the death of the UDP thread, because `main` joins what `cleanup` cancels |
| `parser` | `TokenMeansUpdate`, `JsonMeansText`, `UndefinedNeedsBareToken` | a token of the statsd format makes the update it stands for whatever comes before it in the packet, JSON and text agree on the sample rate, only a token without a value among pipes reads a `charvalue` that is not its own, and the client's timer is a counter to the server |
| `flush` | `StatsLockEnough`, `EveryGaugeReported`, `SocketsClosed`, `EveryValueAnnounced`, `LastValueReported`, `FlushesGoOn` | with back ends that fail anywhere, flushes go on, leave no socket open and send no value without its metadata; each gets through every gauge that the list had when it began, while gauges are appended; a value that a gauge keeps is reported in one piece; one post too many on `stats_lock` does no harm |
| `mgmt` | `AnsweredAsAsked`, `ListingCoversTable`, `EveryCommandAnswered` | the shared buffer gives a client another answer than its own only after a `recv` that cut one of its commands; unlocked listings are complete; a command is answered whatever the other clients and threads do |
| `persistence` | `EveryUpdateKept`, `TwiceNeedsFault`, `PartialNeedsFault` | over starts, ends, kills and failures of two daemons, with a signal between any two steps of a flush, an update is lost or reported twice only in the cases that section 2 lists, and without a fault no number of saves leaves a file cut short or without its head |
| `second_daemon` (violation) | `LockKeepsOneDaemon` | the lock file's lock is gone before the second daemon tries it |
| `json` | `ReadsTheGrammar`, `PrintedIsReadBack`, `RefsCounted` | the tokener reads the grammar (but for the departures of section 5), a saved state is read back, its doubles with the digits that were printed, unless one is infinite or nan, no cut one is taken for a whole one, and every object is freed exactly when its last pointer goes |
| `containers` | `TableSound`, `RefinesObject`, `GetFindsTheField`, `CallsEnd` | over collisions, deletions and growth the hash table is an ordered map whose lookups end |

The two violations are findings (`PROJECT.json`, "findings"), each with the
text in the repository that says otherwise.

*Bounds.* The queue: 4 slots and 11 packets, so both positions wrap at least
twice, the ring overruns with the consumer at every step, and can overrun twice.
Counters: 3 names and 4 updates, so a name can be added while the flush is
before, at and after the end of the list, one counter can be updated in two
flush intervals, and two names can be added in one pass. Timers: 2 names and 4
samples. Shutdown: 2 updates, the fewest that make the flush print (a timer with
two samples) and that a queue thread which is not stopped could both make after
the save, and one signal; what a second one in the first one's handler does to
the file is in the module and in the proof of `OneUpdateMissed`, and it may wait
for a lock for ever, so that the run's liveness is about one. Parser: three tokens, so that the second
and third meet every `charvalue` the ones before can leave; the two keys are
symmetric, since the code copies a key and compares none. Flush: 2 gauges, one
of them with a name that is too long for a message with the prefix and not
without it, values from -1 to 1. Mgmt: 2 clients and 2 commands, so that one's
bytes are in the buffer when the other's arrive; 2 counters, so that one can be
added before, at and after the cursor; 2 samples in an array that starts with 1
slot, so that it moves under the cursor. Persistence: 2 daemons, 2 updates, 3
starts, 2 faults: one daemon can run beside the other, both can save at once,
and one can be started again on what they left; a counter and a timer, or two of
a kind, are in one flush; one fault can follow another. Json: every text of up
to 7 characters with 2 of the rare ones, nesting to the limit of 4, and four
longer texts; a printed state, every number that is not finite, and two other
values, cut short at every point. Containers: 4 keys in a table of 3 places that
grows to 6, with every pattern of collisions that three hash values make; 4
additions.

Every bound is a constant in a guard (`MaxPackets`, `MaxUpdates`, `MaxSignals`,
`MaxTokens`, `MaxCommands`, `MaxCounters`, `MaxSamples`, `MaxStarts`,
`MaxFaults`, `MaxText`, `MaxRare`, `MaxString`, `MaxAdds`, `MaxValue`): when it
is reached no more packets, calls, characters or faults come, while the threads
go on. Deadlock is not checked where the system stops: when the process has
ended (`shutdown`, `mgmt`, `parser`), or all daemons have
(`persistence`). The two daemons of `persistence` are symmetric and no liveness
is checked there.

The runs take the build with locks. For `LOCK_OPTIMIZE`, what the counters keep
of their properties is proved (section 4); `ReportedOnce` does not hold there,
because a store can bring back what the flush has just cleared.

*Fairness.* Each thread is weakly fair in its own steps: the kernel schedules
every runnable thread, and all four poll or sleep for a bounded time. The
arrival of packets, the calls of `update_*`, signals, clients and failures are
not fair. The semaphores need no strong fairness: the two threads contend for
one at most once for each update, and the number of updates is bounded; in the
running program a flush waits for one update at a time and the queue thread
leaves the lock free between two packets. In `Shutdown` the same, and a
cancelled thread ends when it stays at a cancellation point. In `Flush`, each
thread's calls of `update_stat` and the flush: its sleep ends, and so does every
system call, since `connect` has a time limit. In `MgmtServer`, the server only:
one thread whose `select` returns when there is data; a client that is connected
and never reads, which would stop the thread inside `send`, is left out.
In `LinkHash`, the caller of a call that has begun.

*Type invariants* are proved instead of run: section 4 has one for every
module with a state but `JsonTokener` (that of `LinkHash` is a part of its
invariant).

## 4. Proofs

`tlapm` checks the following for every value of the constants (any number of
slots greater than zero, any set of names or daemons, any number of packets,
updates, commands, signals or starts, any hash function). The proofs assume the
constants' `ASSUME`s only.

* `PacketQueueProofs`. The properties are not inductive by themselves. Until an
  overrun the invariant is a layout: the packets waiting fill, in order, the
  slots from the retrieve position on, modulo the size, up to the store
  position, every other slot is `NULL`, and the two representations of the
  same position (size and 0) are told apart. After an overrun only ownership is
  left: the packets in the slots, the one in the consumer's hand and those
  processed are distinct. From `Layout` and `Ownership`: `TypeCorrect`,
  `ProcessedAtMostOnce`, `LosslessUntilOverrun`, `OverrunOnlyWhenFull`,
  `NoSleepOverWork`, and the refinement `ImplementsChannel`, which maps
  `QueueStore` to `Accept` or `AcceptReplacing`, `ProcessPacket` to `Deliver`,
  a `PopClear` that clears a packet stored after the read to `Lose`, and every
  other step to a stutter.
* `CounterTableProofs`. `LockOK` (the semaphore is a mutex), `LookupOK` (the
  lookup made before the lock is still true when it is used, because one thread
  alone adds keys) and `LoadedOK` (what was loaded misses only what has been
  cleared since) give `TypeCorrect`, `UpdatesKept` and `OneCounterPerKey`, in
  both builds. `ReportedAtMostOnce`, for the build with locks, rests on the
  further invariant that an update that is still to come, waiting or just being
  reported has been sent the number of times its place in the pass says.
  `PassIsComplete`, for both builds, follows the unlocked pass with `PassOK`:
  what was visited is a prefix of the list, the cursor is the place after it and
  the saved next element the one after that, and once either is 0 no key that
  was in the table at the start is left behind it. It is kept by `LinkCounter`
  because the list only grows, at its end.
* `TimerTableProofs`. `LockOK`, `LookupOK`, `CountOK` (array and count differ by
  the sample or the reset in progress, and only for the holder of the lock) and
  `TestedOK` (a timer tested without the lock keeps its samples until the flush
  has the lock, since only the flush removes any) are the invariant of the
  table; `FreshOK`, `SamplesDisjoint`, `SummaryOK` and `SentOK` follow a sample
  from its timer through the summary to each back end. From them:
  `TypeCorrect`, `CountAgrees`, `NothingEmptySummarised`, `SamplesReported`.
* `PacketParserProofs`. `TypeCorrect` needs that an unfinished packet has made
  no more updates than it has tokens (`MadeOK`) and that a text packet has a key
  (`KeyOK`). `SameInBothFormats` compares, element by element, what JSON and
  text make of a value and a sample rate; `UndefinedOnlyThen` follows from
  `ValueAfter` alone. `TokensMeanUpdates` is inductive with nothing added: a
  token of the format has a value of its own, so what `charvalue` held before it
  does not matter. What `strtok_r` finds in it (`FieldsOf`, `ValueFields`)
  decides between the three kinds of update (`TypeField`), and each kind's
  update is the one the format means (`WellFormedMeans`); `ClientTimerMakes` is
  the case of statsd_client's timer, whose sample rate lands where the type is
  looked for.
* `FlushProofs`. `CursorOK` ties the flush's place to its cursor, `SeenOK` says
  that the gauges the flush is done with are those before its cursor, in order,
  and that the successor it has read ahead is the next one or all that were due
  are behind it, `SocketOK` which sockets are open at each place and `WireOK`
  what was sent before a value; the list of gauges grows at its end only, so a
  cursor stays on its gauge. From them `EveryGaugeDone`, `NoSocketLeft`,
  `ValueAnnounced`. `StatsLockSuffices` has an invariant of its
  own: the semaphore's count and the threads inside it make two, `main` alone
  links a stat, before the other threads run, and each thread stores the stats
  that are its own.
* `MgmtServerProofs`. `StreamOK` and `ReceivedOK`: unless a `recv` has cut a
  command of that client, what it has sent and the server not received is
  nothing or exactly the command that it waits for, so that a `recv` overwrites
  both halves of the buffer; hence `OwnAnswer`. `CursorOK` places the listing's
  cursor after what is listed and lets it end only where everything due is
  before it (`ListingComplete`); slots never get fewer, so that a
  timer's listing stays inside them (`SamplesInside`).
* `PersistenceProofs`. `UpdatesKept` needs a stronger form (`KeptOK`): what a
  daemon holds that has not begun to run, or has ended its saving, does not
  count, so it must be in the file (`LoadedOK`: what a daemon writes over is in
  its own tables or the flush's hands, unless another has saved since it
  loaded). `ClearOK` says that a counter about to be cleared was reported or is
  in `lost`, `WriterOK` that a daemon which has opened the file finds none of its
  own bytes there but those it wrote since, so that a head alone never passes
  for a whole text. `ReportedTwice` rests on `SharedOK` (what two daemons hold
  was loaded beside the first) and on `PendingOK` and `FileOK` (what was
  reported and is still held, or in the file with nobody to write over it, is in
  `again`, but for the counter about to be cleared). `FileReadable` follows from
  `LeftOK`: until there is a fault, a file without a head has a daemon that has
  opened it and will write one, and a head without a tail is that of a daemon
  that will write its tail; it needs `WriterOK` to know that the tail it writes
  is that of the head, for any number of daemons that save at once.
* `LinkHash`, in the second half of `PersistenceProofs`: the state file is made
  of these tables. Its specification is `lh_Spec`, and it shares no name with
  `Persistence`. The invariant (`Invariance`) says of the table that its list is
  the set of its used places, that a key has one place and that no place on the
  way from a key's hash to it was never used (`Sound`); of the state between two
  rounds of a loop that the places passed do not have the key (`ProbeOK`), that
  the new table has the first `n` entries of the old (`MoveOK`), that at most one
  place is freed, only between the deletion and the insertion of one call, and
  that the insertion meets it before a place that was never used (`FreedOK`),
  and that the table is above two thirds by one entry at most, the freed one
  counted (`RoomOK`). The last two give a place that was never used
  (`UnusedPlace`): the list would have to reach every other place, which
  `PlaceLeft` excludes by counting. A lookup that ends there has missed rightly,
  because a key further on would have it on its way (`LookupMisses`). From it:
  `TableIsSound`, `FieldFound`, and the refinement `ImplementsObject`, where the
  object changes in `CallAdd` alone: deleting takes the field out of the list
  (`DeletedField`), which the object does not have any more, moving keeps the
  list (`MovedFields`), inserting appends what the object has already
  (`PutField`).
* `ShutdownProofs`. `FrameOK`: a call of `cleanup` that is past its
  cancellations has cancelled all threads, so from then on no update begins, and
  what a copied table lacks is the one update that was under way; `UdpStuck`:
  the UDP thread, which cancels itself, never gets to the saving; `SavedOK`: the
  file of an ended process is a copy of that kind, or cut by a write that failed,
  or, after a second signal, mixed. `OneUpdateMissed` follows for
  any number of nested signals; `TypeCorrect` rests on the frames, which say
  that `cleanup` stays inside the list of the four tables.

Only model-checked:

* everything that is liveness (`EveryPacketProcessed`, `EveryUpdateCleared`,
  `EverySampleSummarised`, `EndsUnlessLockLeft`, `DeathEndsProcess`,
  `LastValueReported`, `FlushesGoOn`, `EveryCommandAnswered`, `CallsEnd`), which
  the prover's temporal backend cannot do with fairness;
* `json`: the grammar and the printer are recursive operators, and what they
  compute for every text needs an induction over data.

## 5. Known departures

What the models contain and no run claims otherwise, or what is outside them
and should be known to whoever reads the code:

* A timer's count is reported after it was cleared (`statsd.c:1262`): the line
  gives 0, or the samples that came since. The mean leaves out the last sample
  (`1239`), the percentile is read through a `char` pointer (`1234`).
* The flush thread can be cancelled in its `printf` while it has `timers_lock`
  (`1235`); `statsd_serialize` then waits for ever (`EndsUnlessLockLeft` allows
  it). A second signal inside the handler of the first can do the same (`171`),
  and if it comes while the file is open, `exit` appends what the first
  handler's FILE still has in its buffer.
* Nothing looks at what `fputs` and `fclose` return (`serialize.c:195`-`198`): a
  full disk cuts the file, and the success is logged. At the next start a cut
  file crashes the daemon (`serialize.c:52`-`56`).
* A signal between the clearing of a timer and its report loses its samples
  (`1247`-`1293`); one between the report of a counter and its clearing has it
  reported again after the restart (`1183`-`1189`).
* Doubles are saved with six digits after the point (`json-c/json_object.c:359`);
  one that is infinite or nan makes a file that cannot be read.
* JSON that does not parse ends the server: the error is a pointer that is not
  `NULL` and is followed (`664`; `UseBadJson`). The objects of a JSON packet are
  never freed. A timer of `statsd_client` is a counter to the server
  (`statsd_client.c:97`); without `-v` it sends a value it never set.
* `strtok` restarts in every round of the `-T` option (`353`). The UDP socket is
  closed twice (`936`). `statString` is freed only with graphite enabled.
  `bad_lines_seen` is never raised; `last_flush` is set though the result of
  `send` is not looked at. A stat is saved as an `int`, which is enough for a
  time until 2038.
* One failed `gmetric_open` ends gmetric until a restart (`1147`); with no other
  back end the tables are cleared from then on and reported to nobody. A graphite
  that closes its end can end the daemon by SIGPIPE (`1393`).
* Management: only the first sample of a timer is preceded by a comma.
* The tokener ignores the exponent of an `E`, takes the stars of a comment in
  pairs (so `/***/` goes on), reads the start of a malformed number, accepts
  trailing commas, anything after the first value, and an unclosed text that
  ends in a comment, rejects hex digits in capitals and takes the end of the
  text for one.

## 6. Not modelled

* Memory allocation failure, and the memory that `free` after `HASH_ITER`
  would release: both cursors are `NULL` when the loop ends.
* The layout of text: key sanitising and number formats, beyond what
  `PacketParser` and `JsonPrinter` keep of them; the decoding of `\u` escapes to
  UTF-8, and with it that `\u0000` ends the string it is in.
* A field whose value is JSON's null, in `LinkHash`: `json_object_object_get`
  returns `NULL` for it as for a field that is not there, and
  `GetFindsTheField` is about the other values (`NoValue` is none of them). The
  program saves none.
* What is left of another daemon's longer text behind a short one: the tokener
  ends at the short text's last brace, unless the remains begin at a slash, like
  a comment; `Persistence` leaves that case out.
* What a timer's summary computes: arithmetic on one sorted array.
* The field by field conversion between the tables and json-c objects
  (`serialize.c:52`-`190`): straight-line code; `Persistence` takes a table as
  the set of its updates and `JsonTokener` shows that a printed value of that
  shape is read back.
* Option parsing, `dump_stats`, which only prints, and logging; the options,
  the performance loop and the socket of `statsd_client`.
* The buckets of uthash and their expansion, `utstring`, `utlist`: the walks
  follow the list, not the buckets. `array_list` and `printbuf` are sequences.
  `json_util`, `debug.c` and `urldecode.c`, and `modp_numtoa.c`, are not on
  statsd's paths; neither is gmetric's format 2.5.
* A second signal that arrives in another thread than `main`, which the kernel
  may choose once `main` blocks the first one. A second signal in `Persistence`:
  what it does to the file is in `Shutdown`.
* The composition of the queue, the parser and the tables in one module: they
  meet only in one thread, `p_thread_queue`, which takes one packet at a time,
  so the calls that `CounterTable`, `TimerTable` and `Flush` take from it in any
  order are a superset of those that the parser makes.

Assumptions about the platform: the program runs on Linux, where a write to a
connection that was reset raises SIGPIPE, on a 64-bit machine, where a pointer is
read and written at once and a `long double` in two parts.
