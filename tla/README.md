# A TLA+ model of iec104-master

`iec104-master` is an IEC 60870-5-104 master (control station) that only collects
data. It keeps one TCP connection per configured gateway, starts the data transfer,
interrogates, acknowledges, keeps the link alive, decodes status (YX), measured (YC)
and energy values, and writes changes and energy spikes to its log. This directory
holds TLA+ modules that follow its source, configurations that model-check them with
TLC, and theorems about them that TLAPS checks.

Paths below are relative to the root of the program's source tree.

## 1. Inventory

| Part | State | Operations | Interacts with |
|---|---|---|---|
| `src/main.c` | `g_running`, exit code | parse options, load configuration, acquire PID file, open log, create store, run, clean up; `handle_signal` | everything; the signal handler writes `g_running`, all threads read it |
| `src/process/process.c` | `g_pid_fd`, `g_pid_path`; the file and its lock | acquire, release, daemonize | other processes with the same configuration, through the file system |
| `src/iec104/iec104.c` | per thread: `reconnect_delay`, the session; `started_count`, `result` | `iec104_master_run` (create and join threads), `iec104_gateway_run` (session, pause, repeat), `session_loop` | frame layer, reader, store, log |
| `src/iec104/iec104_frame.c` | `iec104_session_t` | send U, S and I frames, general interrogation, `iec104_handle_frame` | called by `session_loop`; calls the parser |
| `src/iec104/iec104_io.c` | the socket | connect, write all, wait for and read one APDU | the gateway, over TCP |
| `src/iec104/iec104_asdu.c`, `iec104_util.c` | none | decode an ASDU into point updates | frame layer, store |
| `src/point_store/point_store.c` | hash chains of points, one mutex | create, destroy, update YX, YC, energy | all gateway threads; calls the log with the mutex held |
| `src/logging/logging.c` | two files, level, one mutex | init, close, write | all threads |
| `src/config/*.c` | `app_config_t` | defaults, load, gateway table, finalize | read-only after start-up |

What is hard here: the stop flag is cleared at any moment and read only in a few places;
five timers share one loop that is held up by reads and sends; three code paths
acknowledge I frames; TCP cuts frames anywhere; threads share hash chains and two
nested mutexes; a host has several addresses and a
connect fails at any of its calls; start-up can fail half-way, before or after the
process has left its launcher; processes with the same configuration overlap while
starting, stopping and crashing. `PROJECT.json` lists each hazard with its
line and the properties that cover it.

What makes each part correct:

- *session*: frames delivered once and in order; the acknowledgement window kept and
  never overrun; every timer on time whatever else happens; a dead gateway dropped; a
  stop obeyed.
- *threads and process*: a gateway is retried until the stop; nothing is freed while a
  thread uses it; every failed start-up ends the process; the exit code is honest.
- *PID file*: one instance, and its number in the file.
- *connecting*: every address tried, no socket left behind, whatever fails.
- *reader*: the frames the gateway sent, whatever TCP does.
- *parser*: every object stored as it was sent, or the whole ASDU dropped; nothing read
  past its end.
- *store and log*: an atomic table of points; a log that agrees with it, and warns of
  each jump; no mutex kept.
- *configuration*: a file means what it says, or is refused; what is accepted is what the
  rest of the program takes for granted.
- *start-up*: errors reach whoever launched the program; it runs where it was asked to.

## 2. Modules

| Module | Models | Notes |
|---|---|---|
| `Session` | `session_loop` and `iec104_frame.c` | one call, from connect to return |
| `SessionCall` | what `iec104_gateway_run` expects of a call | abstract; `Session` implements it |
| `SessionProofs` | theorems about `Session` | |
| `Config` | `config_load`, `config_gateway.c`, `config_parser.c` | one line of the file per step |
| `ConfigProofs` | theorems about `Config` | |
| `Startup` | `main` up to the PID file, `process_daemonize` | extends `Config` |
| `MCStartup` | the lines and command lines its run uses | |
| `StartupProofs` | theorems about `Startup` | |
| `Master` | `main`, `iec104_master_run`, `iec104_gateway_run` | sessions as in `SessionCall` |
| `MasterProofs` | theorems about `Master` | |
| `PidFile` | `process_pidfile_acquire/_release` in several processes | one step per system call |
| `PidFileProofs` | theorems about `PidFile` | |
| `ApduReader` | `iec104_wait_and_read_frame`, `receive_exact` | byte stream, one step per `recv` |
| `ApduReaderProofs` | theorems about `ApduReader` | with the induction and sequence lemmas the others use |
| `MCApduReader` | the streams the run `reader_header` uses | |
| `Asdu` | `iec104_parse_asdu`, `iec104_util.c`; an ASDU as a gateway writes it | operators on byte sequences |
| `Link` | connecting, writing, and the way of a reading from the stream to the point table | composes `ApduReader` and `Asdu` |
| `MCLink` | the hosts and frames its run uses | |
| `LinkProofs` | theorems about `Link` and `Asdu` | |
| `PointTable` | an atomic table of readings | abstract; `PointStore` implements it |
| `PointStore` | `point_store_update_*`, `get_or_create`, `log_write`'s mutex | one step per critical action |
| `MCPointStore` | the readings and the hash its run uses | |
| `PointStoreProofs` | theorems about `PointStore` | |

### Session

`pc` is the statement block of `session_loop` that runs next: `connect`, `startdt`, then
per iteration `read` (wait, read, handle), `gi`, `period`, `ack`, `testfr`, `confirm`,
and `stop` or `returned` in the end. The record `session` is `iec104_session_t` without
the socket, the gateway and `last_rx`, which nothing reads. `iec104_handle_frame` is one
action per branch: `RecvI`/`RejectI`, `RecvStartdtCon`, `RecvStopdtCon`,
`RecvTestfrAct`, `RecvTestfrCon`; S frames, unknown U frames and unknown control fields
change nothing and are part of `ReadIdle`. The receive window's S frame belongs to
`RecvI`, with its failure. The stop flag is read where the `while` reads it
(`LoopHead`); `Signal` may happen between any two steps.

The clock is the wall clock in whole seconds, monotonic here. A read may take
`READ_MAX`, the rest of an iteration `STALL_MAX` seconds: they stand for the select and
receive timeouts and for blocking sends and scheduling. The deadlines that are stated
contain them, so they say how much each delay costs, and nothing about a machine that
gives no bound. Within an iteration `now` is old, as in the code.

History variables record what the gateway has been told (`acked`) and asked (`asked`), what the parser has
been given (`delivered`), and since when something has been due.

### Config and Startup

`Config` is `config_load`. A line of the file is what trimming and splitting make of it:
a key of one kind (`gateway.N.field`, legacy, global) with a value, a comment, or a line
nothing knows. One action per kind updates the configuration or refuses the file; when
the file ends, `EndOfFile` raises `reconnect_max_sec`, `CompactSlot` and `Compacted` are
the two loops of `config_gateway_finalize`, in place as in the code, and `CheckNames` is
the third. Texts are members of a small set; `cut_name` and `cut_host` say what is left of
each in `name[64]` and `slave_host[256]`. The two thresholds are doubles, counted in units
of 1/`ONE`, or NaN, which is below no minimum. `file` records the lines, so that `LoadFollowsFile` can say what the whole
file means without following the loader: which gateways it enables, under which names,
with which last value of each key.

`Startup` is `main` around it: `Getopt`, `Load`, `Override`, `InstallHandlers`, and
`Fork`, `Setsid`, `ForkAgain`, `Chdir`, `DevNull` of `process_daemonize`, each of which
can fail (`DaemonizeFails`). The launcher is part of the model: `status` is the exit
status it sees, `said` whether anything was printed where it can be read. A signal kills
the process before the handlers are installed and clears the flag after. The step
`acquire` is where `Master` begins.

### Master

`main` is the next statement of `main` or `iec104_master_run`; `thread[g]` is a gateway
thread with its `reconnect_delay`. Every fallible call (PID file, log, store,
`pthread_create`) fails or succeeds. A session returns -1 at any time and 0 only when
the flag is cleared: that is what `Session` is shown to implement (`ImplementsCall`,
theorem `SessionImplementsCall`). `Established` records that STARTDT was confirmed.

### PidFile

Processes share a path, inodes with at most one record lock each, and file contents.
`acquire` is `Open` or `Create`, then `Lock`, `Truncate`, `Write`; `release` is
`Unlock`, `Close`, `Unlink`; `GiveUp` is any failure of `acquire`, `Crash` the death of
the process at any point. An inode that is neither named nor open can be used again. The
variable `raced` notes that a name was removed while another process had the file open.

### ApduReader

The gateway sends a sequence of bodies; `Encode` frames them with a start and a length
byte; `arrived` bytes of that stream are in the receive buffer. `Recv` takes any number
of the bytes there. `RecvTimeout` is `SO_RCVTIMEO` running out: 1 for a header, an
error for a body. Byte values are small numbers; as in the protocol the start byte is a
legal length and may occur in a body.

### Asdu and Link

`Asdu` computes which updates an ASDU makes, with the offsets of the C code. A double is
an integer times a power of two, so floats, scaled and normalized values are exact; NaN
is a value of its own. `iec104_parse_asdu(a)` is a sequence of updates or the empty one.
The gateway's side of the same bytes is a relation, `Carries(a, us)`: the bytes `a` lay
out the readings `us` as IEC 60870-5-101 and -104 do. It is written from the standard's
layout of numbers, floats, flags and time tags, from the value to the bytes, and leaves
reserved bits free; `CarriesNothing(a)` lists the ways an ASDU carries no reading. A
sequence of addresses that would run past the last one is neither.

The table keeps the value and the quality of a point's last reading. `updated_at`, the
time of day of the update, is left out: nothing reads it. The store is not given the time
tag of an object; `log_object_time` writes it to a DEBUG line without the address of the
object, and those lines are `time_lines`.

`Link` puts the data path of one connection together. `link` is the statement of
`iec104_connect_with_timeout` and `connect_sockaddr_with_timeout` that runs next:
`Resolve`, `OpenSocket`, `SetNonblocking`, `StartConnect`, `Poll`, `CloseSocket`,
`NextAddress`. Each address of the host answers in its own way (accepts or refuses, at
once or later, or is silent), each call can fail, and a stop interrupts `poll`; `fault`
says that one of these happened. A failed call is repeated (`Retry`). `Send` is
`iec104_write_all` with short writes. Then `ApduReader` reads, the ASDU of each I frame
is parsed, and its updates are made one by one on a table as in `PointTable`, with the
level each log line has: `Differs` is the tolerance of a measured value in exact
arithmetic, in a unit that both doubles are multiples of; `Spike` is what the three
comparisons for a counter may come to. They divide doubles, so it is a set of verdicts: a
quotient at or above the threshold stays there, one that is below it by at most one part
in `PRECISION` (2^53 in the program) may be rounded up to it, and the 0.000001 in the
divisor acts as anything between one and three halves of itself. What the gateway means by a frame is the constant `sent`, which
`SentAssumption` ties to the bytes of the frame by `Carries`. `told`, `quiet` and `blind` record what the
log last said of a point; `told` is the value of the line before `%.6f` shortens it. Sequence numbers, acknowledgements and timers are `Session`'s.

### PointStore

Each thread performs `lock, walk, (create, link), compare, (log), assign, unlock` on a
heap of entries with `next` pointers. The three update functions share that protocol and
differ in `Changed` and `Tell`. When `calloc` fails the thread writes an error line, with
the store mutex held, and gives up (`FailLock`, `FailLine`, `GiveUp`). Whether an energy
line is a spike only changes its level; that is in `Link`. Threads use different gateway
names, which `config_load` guarantees (`ConfigUsable`).

A definition whose name ends in `_faulty` is its neighbour with a plausible mistake in
it (a forgotten reset, a dropped comparison, a missing unlock). Nothing uses it; it is
there to check that the property listed with it in `PROJECT.json` does notice the
mistake.

## 3. Runs

| Run | Question | Bounds |
|---|---|---|
| `session_core` | Do sequence numbers, window and timers hold against any gateway? Does a stop end a fair session, and is the session the abstract call? | `ack_window` 3, wire numbers modulo 4 (counter modulo 8), 7 seconds of clock, a test every second and an interrogation every 3 |
| `session_seq_wrap` | Is a correct gateway kept for ever? **No.** | `ack_window` 2, wire numbers modulo 4, 6 seconds of clock, a gateway that never misnumbers |
| `session_startdt` | Does an unconfirmed session end in time? **No.** | test interval 6, so that only the gateway's TESTFR can delay it |
| `master_core` | Start-up failures, stop, retry, clean-up, exit code | 2 gateways, pause 1 to 3 s |
| `master_backoff` | Is the pause reset after a good session? **No.** | 1 gateway |
| `pidfile_core` | Exclusion and content of the PID file | 3 processes, 4 inodes |
| `pidfile_two` | Is there always one instance? **No.** | the same |
| `reader_core` | From address list to point table: sockets, frames, values, log lines | 2 hosts of 1 and 4 addresses, 2 calls, 27 streams of 1 or 2 frames with the real byte values, thresholds 45.5 and 5 |
| `reader_drop` | Is every jump of the documented rule a WARN line? **No.** | the same |
| `reader_header` | Is a correct stream always accepted? **No.** | 4 streams of 1 to 3 frames, lengths 1 to 3 |
| `store_core` | Atomic table, honest log, released mutex | 2 gateways, 7 readings of 3 types, one bucket, 2 entries |
| `startup_core` | What do files and command lines come to, and who is told? | 3 gateway numbers, files of up to 3 of 21 lines, 5 command lines |

Why the bounds are enough. `SEQ_MOD` = 4 stands for 2^15: the counter passes the wire's
range within a run, and `ack_window` = 3 leaves room for window, timer and
interrogation to acknowledge in any order. The clock covers two or more periods of each
timer plus the delays, each of the three deadlines is reached, a second less than each is
not enough, and every timer meets every other one. That an interval of 0 means one
interrogation per session is left to the theorem `GiIsSpaced`. `MAX_CLOCK` only ends the
run. A pause of 1 to 3 seconds makes doubling overshoot the maximum. Three processes are what a race needs: one that stops, one that
starts too early, one that starts after it. With 4 inodes one is always free to be
created. In `reader_core` every split of every stream is explored; the streams hold each
kind of object in both layouts, with and without a time tag, valid or not, and each way an
ASDU can be wrong: a byte short, an object short, no object, an unknown type, a header cut
off, with bodies that hold the start byte. They are built by an encoder that shares
nothing with the parser, and TLC evaluates `SentAssumption` on them. Readings of one point lie below, at and above the tolerance and
the thresholds, some counters reach or cross zero, and one value is a NaN. With
`PRECISION` = 32 the step from 10 to 49 may be rounded to the rate 5 and the one from 10
to 48 may not; with 2^53 no quotient of such small numbers would be near enough for
rounding to matter. Four addresses have each outcome before the one that
accepts; a second call shows what the first one left. In `startup_core` three
numbers are what a compaction needs to move a gateway over a gap, three lines what it
takes to contradict one line and then another; the lines have values on both sides of the
bounds, names that collide by default and after truncation, and both ways to describe
gateways, in any order. In `store_core` all points collide in
one bucket, the gateways use the same addresses, and `calloc` can fail; chains of two
entries tell the head from the end of a walk and show a lost insertion.

### What the violations show

- `session_seq_wrap`: `recv_seq` counts to 65535 but is compared with the 15-bit N(S):
  the 32769th I frame of a connection ends it (`iec104_frame.c:132`). The theorem
  `TypeCorrect` shows the other side: the counter never gets further than that.
- `session_startdt`: the STARTDT timeout is measured from `last_tx`, and answering
  TESTFR_ACT moves it (`iec104.c:118`).
- `master_backoff`: the code that resets `reconnect_delay` cannot be reached, because
  `session_loop` returns 0 only after a stop (`iec104.c:146`).
- `pidfile_two`: `process_pidfile_release` unlocks before it unlinks (`process.c:122`),
  so a start that overlaps a stop runs on a file without a name and the next start
  succeeds as well. `OneInstanceUnlessRaced` shows that this is the only way.
- `reader_drop`: `iec104_master.conf:40` promises a WARN line for a drop by the ratio
  `energy_spike_rate_threshold`; the code adds 0.000001 to the divisor
  (`point_store.c:248`), so that a drop by exactly that ratio, from 10 to 2 at 5, is an
  INFO line. Its guards also set aside all ratios of values below zero. `JumpsAreWarned`
  says what does hold: no WARN line that the rule cannot be read to ask for, one for every
  difference of `energy_spike_abs_threshold`, and, for a counter that is above zero and
  does not go below, one for every rise by the ratio and for every fall by it that adding
  0.0000015 to the reading leaves a fall by it.
- `reader_header`: a timeout between the two header bytes drops the first
  (`iec104_io.c:255`). `FramesIntactUnlessLost` shows that this is the only way.

### Fairness

Safety properties need none. `Session`, `ApduReader` and `Link` assume weak fairness of the
thread's own steps: the thread is scheduled, and each call ends by `select`'s timeout,
`SO_RCVTIMEO` or `SO_SNDTIMEO`. Nothing is assumed of the gateway or the network.
`Master` assumes weak fairness of `main` and of each thread's steps, except that a
session need not return while the program runs: once the flag is cleared it does, which
is what `StopsAfterSignal` establishes for `Session`. `PointStore` assumes that threads
inside a critical section go on and that a thread waiting for the log mutex gets it if it
is free again and again, in an update or in the failure of `calloc`; a thread waiting for the store mutex is promised nothing, and
`StoreIsReleased` asks only that the store be released. `Startup` assumes weak fairness of
`main`, and that files end. In `Link` nothing makes a gateway answer: `poll` ends by its
timeout.

## 4. Proofs

TLAPS checks the theorems below for every value of the constants, from the named
assumptions of the modules. What they say of settings is what `config_load` enforces or
weaker (module `Config` shows it; `Link`'s two thresholds are any doubles from 0 up, or
NaN), except `ack_window < SEQ_MOD`, which in the program is 32767 < 32768, and
`START >= general_interrogation_interval_sec`, which says that the wall clock is past
the first day of 1970.

- **`SessionProofs`.** `TypeOK` is inductive only together with `SeqInv`, which ties the
  counters to the history: before the counter leaves the wire's range `recv_seq` equals
  `delivered` and never passes `SEQ_MOD`; `acked` equals `delivered` less
  `unacked_received`. That yields `AckWindowHolds` and `DeliveryInOrder` (lemma
  `SequenceCheck`: a frame that passes the check is the next one, if a gateway
  misnumbers by less than `SEQ_MOD`). The deadlines need one invariant per timer, each
  with a bound per program point: `TimeInv` bounds the age of `mark` and of `now`,
  `TestfrInv` (for `DeadPeerIsDropped`), `GiInv` (for `GiIsOnTime` and `GiIsSpaced`) and
  `AckInv` (for `AckIsOnTime`) add how old the timer's stamp can be there. Each
  invariant is preserved step by step on top of the ones before it.
- **`SessionImplementsCall`.** Every step of `Session` is a step or a stutter of
  `SessionCall` under the mapping `phase`.
- **`MasterProofs`.** The invariant adds to `TypeOK` which resources exist at each stage
  of `main` (`Stages`), that exactly the threads `1..started` were started and
  `1..joined` are done (`Started`), and that a result of 0 means all were started
  (`ResultSound`). It is what makes `ResourcesOutlive` inductive: at the end of the joins
  every started thread is done. It holds for any number of gateways.
- **`PidFileProofs`.** The invariant says who owns a lock: its owner has that inode open
  and is past `Lock` (`Owned`, `Held`); and, as long as no race has happened, an open
  descriptor refers to the named file (`Named`), which holds the running process's
  number (`Written`). `ExclusionPerFile` needs no condition.
- **`PointStoreProofs`.** For any hash function and any number of threads. The invariant
  has four parts beside the types: what each thread at work knows of its request and its
  pointer (`Requests`, `Knows`: between `walk` and the end of the chain its point is not
  in what it has passed), that each point has one entry and each chain leads to exactly
  the entries of its bucket (`OneEntryPerPoint`), and that the log agrees with the entries,
  ahead of the one that is being assigned (`LogAgrees`). Chains are described without recursion: entries are
  appended, so a chain visits positions in descending order, and `next` is the newest
  earlier entry of the bucket. `StoreImplementsTable` is the refinement: `Call` is the
  table's `Call`, `Assign` its `Apply`, `GiveUp` its `OutOfMemory`, and every other step
  a stutter.
- **`ConfigProofs`, `StartupProofs`.** The compaction works in place, so that a usable
  result rests on an invariant of its loop: `write_index` never passes `read_index`
  (`Compacting`), the slots written are used gateways with a name and a host (`Filled`),
  the pause is ordered once the file has ended (`Ordered`), and names differ once they
  were compared (`Unique`). That the result is what the file says (`LoadedAsMeant`) needs
  a second invariant, `FileInv`: while lines are read each slot and key holds what the
  last line about it gave, and the lines so far are valid (`LinesFollow`, `KeysFollow`);
  while the table is compacted the gateways the file enables with a number below
  `read_index` stand in the slots of their ranks, and `write_index` is their count
  (`Ranked`); and an accepted file is valid, a refused one is not. `Startup` adds
  where the process is at each step (`Place`), how far the configuration is (`Loaded`),
  how the program may have ended (`Ended`), and that the flag is that of the last line
  about it until the options override it (`Wished`). They hold for every set of lines and
  of command lines, of any length.
- **`ApduReaderProofs`.** What a stream contains is a recursive function of its frames, so
  the proofs start with two lemmas about sets of numbers, `Least` and `SetInduction`
  (a set that holds 0 and the successor of each member is `Nat`). From them come the
  existence and uniqueness of `FlattenSeq` and of the offset of each frame. `ReaderInv`
  bounds what is read by what was asked for and what has arrived; that is
  `ReaderTypeCorrect`, for any bytes. `InStep` says, as long as no time out took a header
  byte, that the reader is at the offset of the frame after those it handled. Together
  they are `FramesIntact`.
- **`LinkProofs`.** `NoSocketLeaks` and `EveryAddressTried` hold for every address list, by
  an invariant that says of the addresses left behind that none accepts, unless a system
  call failed. `LinkReads` shows that a link is a reader, so that `ApduReaderProofs`
  applies to it.

  For the data, `ObjectsLieInside` says that the one comparison of lengths keeps every
  object, of every type and in both layouts, inside the ASDU, and `WrittenIsRead` that
  the parser inverts every encoder: from the byte readers (`Reads16` to `ReadsFloat`),
  the time tag and one object up to the whole ASDU. The table then needs an invariant
  over the history: the updates still waiting are the last of the readings `made` by the
  frames handled (`MadeInv`), every point holds its newest reading among the others, with
  a level that the one before it allows (`TableInv`), and the time lines are those of the
  updates made (`TimesInv`). With `FramesIntact` and `WrittenIsRead` that is
  `ReadingsStored`. `CounterJumpsWarned` also needs `VerdictIsRule`, which relates the
  verdicts of rounded quotients to the ratios of the document, for any two doubles as
  thresholds.

  `LogFollowsValue` (invariant `FollowsInv`) has to add distances of doubles of different
  exponents: distance and tolerance scale alike when the unit gets smaller
  (`Rescaled`, from `Exp2Sum`), so the triangle inequality can be used in the
  smallest of three units, and the result scaled back.

What is assumed of the gateway: `ReaderAssumption` (its frames have legal lengths) and
`SentAssumption` (it means by a frame what its bytes carry). Nothing is assumed of
lengths of streams, of timing, or of how TCP cuts them.

Only model-checked: liveness, which is outside what the prover does (`StopsAfterSignal`,
`StopEndsProcess`, `LostGatewayRetried`, `ArrivedIsHandled`, `ConnectEnds`,
`StartupEnds`, `StoreIsReleased` and the fairness part of `ImplementsCall`). Every other
property of the passing runs is a theorem.

## 5. Not modelled

- Text: trimming, number syntax, the three path keys of the configuration, and lines of
  more than 1023 bytes, which `fgets` splits (`config.c:152`).
- What the log looks like and where it goes: formats, targets, directories, the filter by
  level. Opening and closing it are in `Master`, its mutex is in `PointStore`.
- Results the code does not look at: `setsockopt`, `set_blocking` after a connect,
  `signal`, `umask`. They are taken to be success.
- A wall clock that is set back or forward: with one, none of `Session`'s deadlines hold
  (`iec104.c:59`). A body that trickles in byte by byte is inside `READ_MAX`
  (`iec104_io.c:207`).
- `base_ioa + i` past 24 bits: `Asdu` adds as the code does; no document says what is
  right (`iec104_asdu.c:258`).
- What NaN should mean: `Config` accepts NaN thresholds, and `Link` has them and NaN
  readings. Nothing is at least NaN, so the rule of the configuration file calls no ratio
  or difference a jump; a NaN reading the log does not see, which `LogFollows` leaves out.
- Rounding in `Differs` (one subtraction of doubles, compared with 0.000001), and the
  `%.6f` of the lines: `LogFollows` is about exact differences of the values themselves.
- A failure of `pthread_join` (`iec104.c:213`): `Master` joins each thread once, and each is
  joinable.
- An empty `pid_file`, with which `process_pidfile_acquire` returns 0 and locks nothing
  (`process.c:84`): there is nothing to say of instances then.
- That a start succeeds after a crash: `PidFile` lets the calls of a start fail at any
  time, so it can say what a start leaves behind, not that it is not refused.
- A gateway with a window of its own, and the composition of `Session` with `Link`:
  `Session`'s gateway may already do anything, so a model of a correct one would only
  allow less.
