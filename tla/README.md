# Verification of otus-c-2025-09-bn

TLA+ models of the programs of this repository that have state worth
exploring, checked with TLC on small instances, with the main invariants proved
by TLAPS for every value of the constants. The repository is a collection of
independent C programs; they share no code and do not call each other, so the
project has one group of modules per program.

## 1. Inventory

| Component | State | Operations | What is hard | What makes it correct |
|---|---|---|---|---|
| Ring device, `DZ_27_drivers_system/src/module_ring.c` | kfifo indices and storage, `fifo_lock`, two wait queues, `buffer_size` | `dev_read`, `dev_write`, `clear_fifo_store`, `set_buffer_size` | readers, writers and administrators interleave; tests without the mutex; page faults; signals | bytes in order, none lost or doubled; no lost wake-up; capacity |
| load and unload of both drivers, `module_ring.c`, `lesson_module.c` | what is registered with the kernel | the init and exit functions | each of six, or four, registrations may fail | undo exactly what was done |
| Log parser, `DZ_17_threads/parser_logs.c` | two hash tables with chains, a total, three mutexes | workers: `parse_combined`, `add_stat`; main: create, join, `print_top`, free | shared chains; order of join, print and free | the printed statistics do not depend on the interleaving |
| File size daemon, `DZ_15_IPC/daemon.c` | PID file and lock, socket and its name, settings, two signal flags | start, accept loop, reload, shutdown, signal handlers | several instances; signals between any two calls; kills | one daemon; it stays reachable; requests to stop and reload are served |
| Logger, `DZ_12_error_handling/src/logger.c` | the stream and its buffer, `log_mutex`, the fork handlers | `log_init`, `log_message`, `log_close`, fork | threads and a forked child; tests without the mutex | whole records, written once; no use of a closed stream |
| Tetris, `DZ_35_Game/tetris.c` | grid, falling piece, score, name, screen | `handle_input`, `update_game`, `clear_lines` | long sequences of keys and turns | the piece always fits; lines fall down right |
| HTTP file server, `DZ_23_web_services/server.c` | epoll's ready list, the batch of events, connections | one loop: accept, `handle_request`, three ways to send a body | partial sends and slow clients in a single thread; each arrival is reported once | each request gets one whole reply; no arrival is forgotten |
| RPS test server, `DZ_23_web_services/rps_server.c` | one forked worker (`NUM_WORKERS` is 1) with an epoll set and connections it never closes | accept one, answer every arrival | edge-triggered connections, descriptors that run out, SIGPIPE | whoever sends is answered |
| Telnet client, `DZ_21_network/ascii_art.c` | receive loop, echo line to skip | wait for the banner, send, print the reply | the stream is cut anywhere | output independent of the cuts |
| Lesson module, `DZ_27_drivers_system/src/lesson_module.c` | buffer and its length, mutex, file position | open, release, read, write, ioctl | threads that share the open file, page faults | the buffer's end stays; a read returns one message |
| Text converter, `DZ_2_encoding/Converter/converter.c` | table of 162 characters | choose a column, convert a file | typing errors in the table, bytes in no row | each letter becomes itself in UTF-8 |
| JPEG with an archive, `DZ_2_encoding/Archjpeg` | positions of three loops | find the end record, a central header, local headers | limits of the loops, unsigned wrap | found wherever it is |
| Checksum, `DZ_16_shared_memory/crc32_tool.c` | table, mapped file | build the table, run over the file | reflected bit order, a file that changes | division of polynomials |
| Lists, `DZ_7_assembler` | two linked lists | build, print, filter, free | pointers to fields, order, double frees | lists printed whole, nothing leaked |
| Mandelbrot programs, database, GUI, weather clients, OpenGL, tracing, curl | | | | see "Not modelled" |

`PROJECT.json` lists every component with its status and, under "hazards", every
place where something can go wrong that a test would hardly reach, with the
properties that would catch it.

## 2. Modules

| Module | Models |
|---|---|
| `RingDevice` | the operations of the ring device at the granularity of single loads and stores |
| `BoundedFifo` | what the device promises: one atomic bounded queue of numbered bytes |
| `RingDeviceProofs` | theorems about `RingDevice` |
| `RingLifecycle` | init and exit of the two drivers |
| `LogParser` | workers, tables, main |
| `LogStatistics` | what the log parser must compute, and its properties |
| `LogParserProofs` | theorems about `LogParser` |
| `FileSizeDaemon` | instances of the daemon, signals, clients, kills |
| `FileSizeDaemonProofs` | theorems about `FileSizeDaemon` |
| `Logger` | the logging library in a process and the child it forks |
| `LoggerProofs` | theorems about `Logger` |
| `Tetris` | the game |
| `TetrisProofs` | theorems about `Tetris` |
| `HttpServer` | the file server's loop, its connections and its clients |
| `HttpServerProofs` | theorems about `HttpServer` |
| `LessonModule` | the lesson's device, its threads and their file |
| `LessonModuleProofs` | theorems about `LessonModule` |
| `RpsServer` | the load-test server's loop and its clients |
| `AsciiArt` | the ASCII art client over a stream cut anywhere |
| `Converter` | the text converter, table included |
| `Crc32` | the checksum program |
| `ZipSearch` | the searches for an archive's records |
| `ListTools` | the list programs |
| `Programs` | composes the eight modules that have no cfg of their own: `RingLifecycle`, `LessonModule`, `RpsServer`, `AsciiArt`, `Converter`, `Crc32`, `ZipSearch`, `ListTools`: the first step chooses the program |
| `ProgramsProofs` | theorems about `Programs` |
| `MCPrograms`, `MCRingDevice`, `MCLogParser`, `MCFileSizeDaemon`, `MCHttpServer` | values, symmetry and state constraints for TLC |

No RECURSIVE operator is used anywhere; the loop of `clear_lines`, the table of the
checksum and the like are recursive functions.

Every module defines, next to an action, the *mutants* of it: plausible bugs
(a dropped guard, a missing reset, a swapped order) that a property must
notice. They are never part of `Next`; each is introduced by a comment
"Mutant:".

### RingDevice

Each thread has a program counter; one action is one step that other threads can
observe. The unlocked tests `kfifo_is_empty` / `kfifo_is_full` load the two
indices one after the other (`LoadIndex`, then `TestPassed`/`TestFailed`), in
either order. `wait_event_interruptible` is `PrepareToWait`, the second test,
sleep and `Awake`. Under the mutex a transfer is two steps: the bytes are copied
(`CopyOut`, `CopyIn`, each with a page fault after any number of bytes), then the
index moves (`AdvanceOut`, `AdvanceIn`). `kfifo_reset` is two stores in either
order. A byte is named by the number of its acceptance, so that order, loss and
duplication are visible. Differences of the unsigned indices that come out
negative (a reset seen half done) count as huge lengths. The indices themselves
are not reduced modulo 2^32: a kfifo whose size is a power of two behaves the
same, and the storage is indexed modulo the capacity.

`ImplementsFifo` is the refinement: the abstract queue is the content of the
storage, less the bytes a reader has copied and not yet counted, and empty from the
first of the two stores of a reset on. A write takes effect when `in` moves, a
read when its bytes are copied, a clear at its first store.

### LogParser

A worker takes the files whose number is its own modulo `num_t`, reads their
lines and, for each line, adds to the table of URLs, to the total and to the
table of referers, each under its own mutex; `Walk` follows a chain node by node,
`Store` reads and writes back the 64-bit value of a node, `NewNode` and `Link` are
`malloc` and the store of the head. A line is the record of what `parse_combined`
extracts from it. `LogStatistics` says, for every state, which lines were
already added by whom, and compares tables and total with their sums.

### FileSizeDaemon

One action per system call whose order matters: open, lock and write of the PID
file, unlink and bind of the socket, the test of `running`, `accept`, the reply,
the steps of a reload, and the steps of leaving. `handle_sighup` and
`handle_sigterm` may run between any two of them, any number of times; only a
process that sleeps in `accept` (`pc = "blocked"`) is interrupted. `Kill` is
SIGKILL, or a signal before the handlers are installed: it closes everything and
leaves the names of the PID file and of the socket. The PID file is a name for an
inode, so an unlinked file stays locked by those who have it open. `daemonize`
is part of `Begin`: the process that goes on is the same to this model.
`clobbered` records that a leaving instance removed a PID file that another
instance had open; `unserved` that a SIGHUP came since the last `load_config`.

### Logger

A record is two or three parts that go through the stream's buffer, which spills
when it is full; the files keep the parts in the order written. `fork` is the
prepare handler (it takes the mutex), the copy of the process, and a handler on
each side. As in `test.c`, fork is called after `log_init`. Writing to a NULL
stream ends the process.

### Tetris

`phase` is the position in the loop of `main`: events, then one `update_game`. The
grid, the pieces and their rotations are the code's tables. Whether 500 ms have
passed is a free choice. A text event appends all its bytes to a name that was
shorter than 31; what does not fit runs into `state`, which lies behind the name as
the Makefile builds the program (`OVERWRITTEN`: no state that the loop knows). `save_score`
may find that scores.txt cannot be written (`unsaved`). `clear_lines` is a recursive function over the turns of the
code's outer loop, `ClearTurn` being one of them with its `i++`, and
`LinesFallDown` compares its result with `FallsDown`, which says nothing of loops: each row
that was not full is found as many rows lower as were full below it, and the rows above are empty.

### HttpServer

A request arrives in two pieces and `recv` is called once, so the server may read
the whole, half of a path (which may lead anywhere) or nothing. A reply is
its first line and numbered pieces of a body. `Kinds` are the things a path may
lead to: something outside, a sibling of the directory that `strncmp` takes for a part
of it, nothing, a file that goes or stays, one that cannot be read, a directory with or
without index.html. `ReplyTo` is what the code answers, `Required` what the task
of the exercise asks for. A socket takes `SendBuffer` pieces
until its client reads. The three ways to send a body differ: `send_all_sendfile`
stays in the loop until there is room, `SendIndex` sends once, `SendEntry` loses
what does not fit. `ready` is the list that `epoll_wait` takes events from: the
listening socket goes back to its end (it is level-triggered), a client leaves
it and returns with the next arrival only (`EPOLLET`). Closing with unread data
resets the connection. A client that goes away makes the server's writes fail
or, as there is no handler for SIGPIPE, ends it (`pc = "killed"`).

### RingLifecycle

`Order` is the registrations of each driver in the order init makes them, `held`
what the kernel has. A failure jumps to the label that undoes what came before it;
a load may fail without saying so (`misreported`, section 5).

### LessonModule

`device_mutex` is held from open to release, and nothing is held by a call, so
threads of one process race inside `my_read`, `my_write` and `my_ioctl`: each
statement that touches the buffer or `buffer_size` is an action. A read loads
`buffer_size` twice: for the test (`AtEnd`) and for the length (`Measure`), and when it
has shrunk in between, the unsigned difference wraps and the whole count is copied.
Each call works on the copy of the file's position that it made when it began. A copy to
or from the user may fault after any number of bytes. The text of an ioctl has
any length, as nothing terminates it; the history variable `overran` says that one has
left the buffer, after which nothing is promised. A cell of the buffer holds
the message it came from; `alone` tells which calls no other thread of the file
disturbed.

### RpsServer

As in `HttpServer`, `edge` is what `epoll_wait` has yet to report. `recv` and `send`
are two actions, so an arrival may fall between them. `recv` takes at most
`RecvPieces` (the 1024 bytes of `buf`) and the rest waits for an edge that only another
arrival brings; a `send` that finds no room in a connection whose client does not read
is lost. `outrun` marks the connections to which one of the two has happened. Nothing closes a
connection; a `send` to a client that has gone is answered with a reset, and the
next one kills the worker.

### AsciiArt

TCP may cut the stream anywhere: one `recv` takes any number of the bytes that are
on their way. `SkipEcho`, `FindMarker` (`strstr`, which a NUL stops) and
`clean_print` look at the one chunk, as the code does; `Art` is what the whole
reply amounts to: of what follows the echo line (nothing, when there is none), up to the
marker, the bytes that are no carriage return and not among the three of a command
(`Pending`). `spoiled` records that a cut fell into a marker or a command, that a NUL hid a
marker, or that part of the banner was taken for the reply; then, and only then,
`OutputRight` promises nothing.

### Converter

`encoding_to_utf8` is the code's table with its typing errors, written by ranges.
`detect_enc` keeps the code's slip: the name windows-1251 alone is unknown, and
ends the program (`job = "failed"`). `ConvertsLetters` compares what each byte of a file became with the UTF-8 of its
code point, and names the letters the table gets wrong.

### Crc32

`generate_table` and the loop are the code's, on words of bits, the lowest first:
exclusive or adds two words place by place, `>>` moves the places. The lengths of
the register and of a byte are parameters, so that TLC has few bytes to try.
`Checksum` divides the message's polynomial by the generator, bit by bit. The file
is mapped with MAP_SHARED, so another process may write to it or truncate it
meanwhile.

### ZipSearch

A file is its size and the places of three kinds of signatures: those of an archive,
with a local and a central header for each member, and one stray end record. The backward loops of `main` and `find_eocd` and the forward loop for
local headers run over byte positions, in unsigned numbers where the code has
them.

### ListTools

The heap maps addresses to nodes, and `malloc` returns any address that is
not in use, or fails. `f` has two forms: `main.asm` appends
through `tail`, the other two programs prepend.

## 3. Runs

| Run | Instance | Shows |
|---|---|---|
| `ring_safety` | 2 readers (one non-blocking), 1 writer, 1 administrator, a 2-byte FIFO, requests of up to 2 bytes, 2 bytes accepted | one transfer at a time, the capacity, content and order of the bytes, no lost wake-up, and that the device implements `BoundedFifo` |
| `ring_liveness` | one blocking reader, one writer, one administrator, fair | who sleeps and could proceed wakes, and calls in progress end |
| `ring_shared` (violation) | 2 blocking readers | a blocking read may return 0 bytes |
| `programs` | each of eight small programs alone (section 2, from RingLifecycle on): every registration may fail; 3 threads of 2 processes on the lesson's device; 3 connections to the load-test server with 2 descriptors, 3 pieces of requests, 2 of which fill a `recv`, room for 2 replies; replies with a command, with its first byte repeated, with a NUL, with text behind the marker, without a marker and without a line, cut anywhere; five names of encodings, every byte and pairs of bytes to convert; files of up to 3 bytes; archives of up to 13 bytes and 2 members with scaled records; lists of 3 values, any cell | nothing stays registered or is undone that was not done; the buffer keeps its end and a read returns one message; who sends is answered, but for the connections that the code gives up; the art is printed whole and alone; letters become themselves; the checksum is the remainder of the division; records are found; lists are printed and freed |
| `logs` | 3 workers, 5 files (one unreadable), 3 keys in shared buckets, one malformed line | tables and total account for the lines (`LinesAccountedFor`), the report is right and made after the last worker ended, the program ends |
| `daemon_requests` | 1 daemon, 2 clients that keep connecting, 3 paths (one cannot be bound), 2 files, signals and edits at any time | clients are answered, settings are those of the last load, a told daemon stops, a SIGHUP that interrupts `accept` leads to a load |
| `daemon_instances` | 2 instances, kills, restarts, reloads | one daemon, named by the PID file, reachable under its name, no name left behind |
| `daemon_exclusive` (violation) | 3 instances, nothing excluded | two daemons at once after one left while another had the PID file open |
| `logger` | 1 thread may initialise, both may log and fork, parent and child may close; one of two file names cannot be opened | records whole and written once across fork, every call returns, in the child too |
| `logger_null` (violation) | the same without the failing name | `log_close` in the middle of `log_message` |
| `tetris` | 4x4 grid, 2 of the 7 types of piece, up to 200 points, texts that fill and that pass the name's array, a scores.txt that may fail | the piece fits, lines fall as they should (so no full row stays), new games are fresh, what is saved is the score shown |
| `http` | 2 slow clients, one of which may leave, every kind of path, replies larger than a socket takes | the replies that are the required ones arrive whole and in order, no arrival is forgotten, everyone is served |

A run marked "violation" states what a document, a comment or a test of the
repository says; its counterexample shows that the code does otherwise. The three
are listed with their quotations under "findings" in `PROJECT.json`.

### Bounds, and why they are enough

*Ring device.* Capacity 2 with requests of 2 makes full, empty, partial and
wrapped transfers happen; two readers compete for the same bytes; `MaxBytes`
bounds the bytes ever accepted, not the calls, which go on without limit. The
liveness run takes the smallest FIFO, where every write fills and every read
empties it, so that both sides sleep in each behaviour.
*Log parser.* Two keys share a bucket, two workers meet the same new key at the
same time, a worker gets more than one file, a file cannot be read, a line is
malformed.
*Daemon.* Two instances give every race between one that leaves or is killed
and one that starts, as a process can be started again; signals, edits, reloads
and kills are unbounded. `Configs` bounds what daemon.conf may say, `Inodes`
has one more than the instances can keep open. `UntilClobbered` ends behaviours
of `daemon_instances` after `clobbered`, from where its properties promise
nothing. The run with clients has one instance, and one path that cannot be
bound, so that the daemon also ends by `exit_fail`.
*Logger.* `MaxCalls` is two per thread, so that a call follows each kind of call;
a buffer of two parts makes a record of three spill in the middle.
*Tetris.* 4x4 is the smallest grid that the shapes and the spawn column fit in,
two rows can be full at once; `MaxScore` of 200 allows two cleared lines, and
games repeat without limit. A bar and an L give every kind of rotation, and four upright
bars fill several rows at once. `MAX_NAME` is 2: a text of two bytes fills the array, so that its
terminator is the first byte of `state`; one of three reaches into it; Backspace
makes room again.
*HTTP server.* Two clients suffice for one to hold up the other and for a batch with two
events; they connect and ask without limit. A body of two pieces with its first
line is more than the socket takes, so every transfer is partial at times. `Asks`
divides the kinds of path between the clients: the one that may leave asks for a file or for
something outside, the other for everything else a path may lead to.
*Programs.* Loads repeat without limit. The lesson's buffer has 3 cells: two bytes
of message and the terminator; two threads share a file and a third has its own; an ioctl's
text ends after its prefix, before the last byte, or nowhere; `UntilOverrun` ends behaviours
of that device after the last of these, from where its properties promise nothing.
Of the load-test server there is one connection more than descriptors, so that accept fails; `MaxPieces` of 3 lets
a piece arrive behind an answered one, more arrive than one `recv` takes, and replies
fill the connection. The converter's texts are every byte alone and
pairs from both ends of each range of the table: a byte's conversion depends on
nothing else. A register of 4 bits and bytes of 2 keep the register longer than a
byte, as in the program; three bytes take the loop past the register's length. In
`ZipSearch` 13 bytes hold an archive of two members with a byte to spare; the sizes keep their order, the structures that are longer than their
records included, and `WordSize` is larger than any file. Five cells are
what the list and the copy of its odd values need, given out in any order.

`CHECK_DEADLOCK FALSE` stands where the program really stops: at the end of the
programs of `programs` that end, after the bounded calls of the logger's threads, when
`main` of the game has left its loop, and when a signal has ended the server.

### Fairness

*Ring device* (`FairSpec`): a thread inside the driver keeps being scheduled (weak
fairness of its steps), and a kernel mutex reaches its waiters (strong fairness of
`Acquire`); signals and new calls are free. *Log parser*: threads are scheduled, a
mutex that becomes free again and again is obtained. *Daemon* (`FairSpec`): `main`
is scheduled, and `accept` does not fail for ever while a client waits;
`TrafficSpec` adds that clients keep connecting, which the code needs to see a
stop (section 5). *Logger*: as the log parser. *HTTP server* (`FairSpec`): its
thread is scheduled, `accept` does not fail for ever while somebody waits (strong
fairness of `Accept`), and a client that stays sends its request and reads its
reply. The last is an assumption about clients: the code waits in its one loop
for whoever it is sending a file to. *Load-test server*: its worker is
scheduled (`RpsWorker` in `Programs`), its clients are free. Nobody is ever bound to connect, to leave, to start a
program, to call, to send a signal, to edit a file or to press a key.

## 4. Proofs

TLAPS checks these theorems for all values of the constants; they rest on the
named assumptions of the modules and on nothing else.

| Theorem | Property | Assumptions |
|---|---|---|
| `RingDeviceProofs!TypeCorrect` | `TypeOK` | `CapacityAssumption`, `MaxLenAssumption`, `SizesAssumption`, `ThreadAssumption` |
| `RingDeviceProofs!Exclusion` | `MutualExclusion` | the same |
| `RingDeviceProofs!Bounded` | `WithinCapacity` | the same |
| `RingDeviceProofs!Ordered` | `ReadInOrder` | the same |
| `RingDeviceProofs!Refinement` | `ImplementsFifo` | the same |
| `RingDeviceProofs!WakeupsArrive` | `NoLostWakeup` | the same |
| `LogParserProofs!MutualExclusion` | (no run states it) | `WorkersAssumption`, `FilesAssumption`, `ContentAssumption`, `KeysAssumption` |
| `LogParserProofs!OneNode` | `OneNodePerKey` | the same |
| `LogParserProofs!WorkersGone` | `NoWorkerLeft`, a part of `ReportIsRight` | the same |
| `LogParserProofs!LinesCounted` | `LinesAccountedFor` | the same |
| `LogParserProofs!ReportRight` | `ReportIsRight` | the same |
| `FileSizeDaemonProofs!DaemonIsUnique` | `OneDaemon` | `ConfigAssumption`, `PathAssumption` |
| `FileSizeDaemonProofs!PidFileIsRight` | `PidFileNamesDaemon` | the same |
| `FileSizeDaemonProofs!DaemonIsReachable` | `Reachable` | the same |
| `FileSizeDaemonProofs!OwnsOneName` | `NoOtherName` | the same |
| `FileSizeDaemonProofs!LastLoadFollowed` | `FollowsLastLoad` | the same |
| `HttpServerProofs!NothingForgotten` | `NoForgottenClient` | `NamesAssumption`, `BoundsAssumption`, `AsksAssumption` |
| `HttpServerProofs!RepliesInOrder` | `RepliesRight` | the same |
| `LoggerProofs!RecordsStayWhole` | `RecordsWhole` | `NameAssumption`, `ThreadAssumption` |
| `LoggerProofs!PartsWrittenOnce` | `WrittenOnce` | the same |
| `TetrisProofs!PieceAlwaysFits` | `PieceFits` | `SizeAssumption` (a grid of at least 4x4), `TypesAssumption` |
| `TetrisProofs!GameStartsAfresh` | `FreshGame` | the same |
| `TetrisProofs!ScoreIsSaved` | `ShownScoreIsSaved` | the same |
| `TetrisProofs!LinesFallDownRight` | `LinesFallDown` | the same |
| `LessonModuleProofs!BufferStaysTerminated` | `WithinBuffer` | `RoomAssumption` (a premise of the theorem): the buffer has two bytes and more than "[IOCTL] " |
| `LessonModuleProofs!ReadsAreOfOneMessage` | `ReadsOneMessage` | `RoomAssumption` and `TextAssumption` (premises): what `%s` writes before its terminator is no NUL |
| `ProgramsProofs!NothingEverStays` | `NothingStays` | none |
| `ProgramsProofs!OnlyWhatWasDone` | `UndoesOnlyWhatWasDone` | none |
| `ProgramsProofs!LessonStaysWithinBuffer` | `WithinBuffer` | `LessonAssumption` |
| `ProgramsProofs!LessonReadsOneMessage` | `ReadsOneMessage` | `LessonAssumption` |
| `ProgramsProofs!OutputIsRight` | `OutputRight` | `RepliesAssumption`: what the server says is sequences of bytes, each named by a string |
| `ProgramsProofs!LettersAreConverted` | `ConvertsLetters` | `TextsAssumption`: texts are sequences of bytes |
| `ProgramsProofs!ChecksumIsRight` | `ChecksumRight` | `ChecksumAssumption`: a byte is no longer than the register, the highest coefficient is one |
| `ProgramsProofs!SearchesAreRight` | `ArchiveSearched` | `ZipAssumption`: how the sizes of records and structures compare |
| `ProgramsProofs!ListsAreRight` | `ListsRight` | `ListAssumption`: no address is the null pointer |

*Ring device.* The capacity alone is not inductive: a writer that copied and
moves `in` next relies on nobody having moved an index since. The invariant adds
that the thread which holds `fifo_lock` is the only one in a critical section, so
that what a transfer computed from the indices still holds when it publishes.

`OrderInv` numbers the content: the slots from `out` to `in` hold the bytes
numbered `accepted - in + out + 1` to `accepted`, with those a writer has copied in
but not counted behind them (`ContentNumbered`), and what readers took is older
than all of that (`ReceivedOlder`); during the copy of a reader it is older than what
follows its copy. A byte is found by its slot, so the proof needs that two
indices less than a capacity apart have different slots (a lemma on remainders). Between
the two stores of a reset nothing is said of the content, because the lengths
mean nothing then. `Refinement` maps each step to `Put`, `Take`, `Clear` or a stutter of
`BoundedFifo`; it rests on `OrderInv`, which says that the bytes a step takes are
the oldest ones. `WakeInv` says of a thread that has put itself on a queue, and whom
nobody is about to wake, that what it loaded is still true (`SeenRight`): an index that
changed since has a thread in front of its `wake_up`. So a stale pair of
indices leads to sleep only when the wake-up is still to come. It is an induction
of its own, over the steps `retest1`, `retest2` and `asleep`.

*Log parser.* `LogInv` adds to types and to "a lock is held by who is between lock and
unlock" what a worker in a chain knows: the nodes it has passed do not have its
key (`WalkRight`), so that when it comes to the end, none has, and the node it links is
the first; nobody else adds one meanwhile because the mutex is held. `Finished` says which
workers `main` has created and joined. The division of the files among the workers needs
that its arithmetic stays inside the list, for any number of both (`PathsInFiles`).

The sums of `LinesAccountedFor` run over sets of lines. `SumFunction` adds the element that
CHOOSE picks to the sum of the others; that this has a solution, that it is the only
one (`SumExists`, `SumUnique`), and that any element can be taken out of a sum (`SumOut`)
are inductions on the size of a finite set. `SumsInv` then says that the nodes of a table
are the keys of the lines added, each with its sum (`Rows`), and of each worker that what it
carries, a value it read or a total it is about to store, is still what the table has
(`Ready`): the mutex it holds is why. So a step of one worker adds the one line it is in
to one table (`PutOwn`, `AtOnly`), and when all are done every line of every file that could be
opened is added (`AllAdded`). `TopRight` says that a chosen set of `TopN` nodes leaves none
out that is larger.

*Daemon.* `DaemonInv` has three parts. `FilesInv`: the PID file is open and locked
exactly at the places of `main` where it should be, no inode is locked twice, and a
locked and written inode names its process. `NameInv`: while nothing was
clobbered, every process that has a PID file open has the inode that PID_FILE
names now; this is the strengthening that makes two locks be two locks on one
inode, hence one daemon, and it is what `remove_pid_file` breaks. `SocketInv`: the
name of the current path is bound to a listening daemon; it is preserved because
names are unlinked under the lock only, so it needs `OneInCharge` at each unlink.

`MemoryInv` adds `OwnInv`, which needs no condition on the PID file: a socket name that is
bound to a process is that of its current path and is bound only where `main` has
not yet unlinked it, and the settings in use are the loaded ones everywhere but between
a load and the end of the reload that adopts it.

*HTTP server.* `ServerInv` keeps the books of descriptors: each open connection has
one, epoll's list and the batch hold open ones only and none twice (`ListInv`),
who waits for `accept` waits once. With it an event that is taken from a list leaves no
other one for the same client behind, and a descriptor that is closed and given out
again is in neither list, which `NoForgottenClient` needs at each `accept`.
`ReplyInv` follows the reply through the server: what a client has read and what is
in its socket together are empty before the answer, are the first line and the first
`offset` pieces during a body, and whole once `main` goes to `close` (`Replies`). This is
said of the replies that the code has; `RequiredCases` adds where they are the required ones. That only the
client of the current event is being answered (`ServeInv`) keeps the others as they were.

*Logger.* `LockInv`: who is past `log_mutex` owns it, in each process, and the buffer is
empty except while a thread is in the middle of a record, which it ends with
(`BufferInv`). This is where `fflush` before the unlock counts: the mutex that
`prepare` takes therefore means an empty buffer at the fork, so the child copies
none. `RecordInv` says how the buffer continues its file: its first part fits behind what the
file has of that process, each part follows the one before it (`Chain`), and every
other file ends, for that process, with the end of a record (`Closed`), so that a change of
file never leaves half of one behind. `OnceInv`: no part is in two places of files and
buffers, and none of them is newer than what its thread has written (`Earlier`),
so that the part written next is in none.

*Tetris.* `GameInv` adds to "the piece fits while the game is played" that outside
of a game the piece is one as it appears, and in the menu the grid is empty:
Return starts a game with whatever piece is there. A landing needs no fact
about `clear_lines`, because the piece that follows is tested against its result. A name
that runs into `state` gives a state in which nothing is promised because nothing happens.

`LinesFallDown` is about `clear_lines` itself. `Turned` is the invariant of its outer loop: after
some turns `n` lines are gone, the row looked at is row `i - n` of the grid before, above it
stands that grid `n` rows lower, and below it every row that was not full has fallen by the
number of full ones below it. `2 * ROWS` turns are enough because each either goes one
row up or removes one of the full rows.

*Lesson module.* Both properties are promised until `overran`, which the proof carries as a
premise of the invariant: a step either sets it or keeps the rest. `WithinBuffer` says nothing of threads between two statements of a
call; `LessonInv` adds that a writer still carries a count that the guard of
`my_write` let pass, and an ioctl the length of a text that ended inside the buffer (`CountRight`),
so no race can bring a store to the last byte. `ReadInv` adds that the
device is open in one process (`HeldInv`), so that a call that no thread of its process
disturbs is the only one, and that a message that counts as complete is in the buffer with
nobody writing (`WholeInv`); what such a call has measured is then true when it copies.

*Load and unload.* `LifeInv` says for each phase what `held` is: the registrations
before the step while init runs, up to the step while it unwinds or exits, with
or without the sysfs file above the device, and nothing after a load that
misreported its failure.

*Programs.* `Programs` runs one of its eight modules at a time, so each of its steps is a
step of one of them or leaves its variables alone (`OneRuns`), and an invariant per
module is enough. For the lesson's device the steps are those of `LessonModule!Spec`
(`LessonRuns`), whose theorems are used as they are.

*Text converter.* `ConvInv`: the first `n` bytes are converted, the output is as long as they
need (`From`, a byte more for each that is not ASCII), and each of them stands where it should.
What is appended never touches an earlier piece (`PieceStays`). `Column` and `BytesFit` read the
162 rows: a byte is in at most one row of column 2, which gives its two bytes.

*ASCII art client.* `ArtInv`: while nothing has deceived a `recv`, the bytes still to come are
the reply without its first `c` (`Received`). While the echo lasts nothing is printed;
behind it `ArtUpTo` of these bytes is, no command is half read, and the marker is still to
come. `CleansOn` says that cleaning a piece that starts between two commands goes on with
the art; `Prints` that a chunk that is `Uncut` finds the marker exactly where the
whole reply has it, and `NotCut` that `~Cut` means that. What the recursive functions
`Cleaning`, `Pending` and `ArtUpTo` are follows from one lemma, `Recursion`.

*Checksum.* `Agrees(r, q)`: where the division has come to place `q`, the register holds the
`Width` bits behind it with those of the message taken away, so all the loop has left to do is
the division of what follows. At first these are the ones that invert the first bits
(`AtFirst`), at last the message has only zeros there (`AtLast`). Within a byte, `ShiftedBy(x, r, j)`
compares `j` shifts of the table's index, from which the register's higher bits are missing, with
`j` places of the division; both add the generator at the same places (`ShiftedByOne`),
and nothing behind the register is touched before its time (`Untouched`). `OneTurn` adds the
missing bits, as `crc >> 8` does. `CrcInv` says that the register agrees at the place the loop has come to.

*Searches.* Of a backward loop, `BackwardInv` says that no signature lies behind it, of the
forward one that what it has found is what lies before it, for any sets of headers
(`FileInv` says where an archive has them). That the wrapped limit of line
159 does no harm to the result rests on a member's header lying before the records that
follow it, and on `%` leaving small numbers alone (`Remainder`).

*Lists.* `Path(h, a, n, k, s)` says that the nodes `a[k] .. a[n]`, all different, are linked
in the heap `h` and hold `s[k] .. s[n]`. `ListInv` describes each phase of `main` by the paths there
are and that the heap has nothing else: what is freed is taken off the front of a
path, and nothing is left when both have ended. `PathFront` and `PathBack` put a node at either
end of a path; the latter needs that `tail` is the last node of the copy, and both that the
two paths share no node (`Apart`). `OddIs` unfolds the recursive function that collects
the odd values.

Only model-checked, and why:

* all liveness, as fairness and ENABLED are out of the prover's reach; the invariants
  that the passing runs check are all stated by theorems.

Inductions over data are made with the least element of a set of naturals (`Counting`, from
the well-foundedness of <), because the induction theorems of the library take an operator
as a parameter.

`PidFileNamesDaemon`, `OneDaemon` and `Reachable` promise nothing after `clobbered`; what
may follow then is the counterexample of `daemon_exclusive`. `NoNullStream` is no
invariant at all (`logger_null`); `LoggerProofs` covers the executions in which a
process dies of it, and those in which the handlers are registered twice.

## 5. Where the code departs from its documents

Besides the three findings that runs show, modelling met these; no run states
them, as each follows from one reading of the lines.

* A blocking write may accept fewer bytes than asked for, 0 included
  (`module_ring.c` `dev_write`), while `tests/module_test.c:30` takes any positive count
  for the whole message.
* The FIFO's size is set by `kfifo_alloc` at load time; `buffer_size`, which
  `DZ_27_drivers_system/README.md:91` calls the buffer's size, may say something else, and
  `ring_buffer` is not freed on exit (`module_ring.c:253`).
* A failing `cdev_add` of the ring module is not stored in `ret` (`module_ring.c:211`): the load unwinds and
  reports success, and unloading undoes everything again. `RingLifecycle` follows such
  loads (`misreported`) and `UndoesOnlyWhatWasDone` excepts them.
* A SIGHUP between `load_config` and the clearing of `reload_requested`
  (`daemon.c:149-150`) is forgotten; one that comes while the daemon is not in
  `accept` waits for the next interruption of `accept`; a SIGTERM between the test
  of `running` and `accept` waits for the next client (`DZ_15_IPC/README.md:29, 116, 126`).
  `StopsWhenTold` and `ReloadsWhenAsleep` are stated accordingly.
* `log_init` registers the fork handlers again if it is called again while the first
  registration is in progress (`logger.c:46-51`).
* A read of the lesson's device that loses a race with a shorter write of a thread of its
  own process, between its two loads of `buffer_size` (`lesson_module.c:45, 47`), takes the
  whole count and passes the buffer's end. An ioctl formats 64 bytes of
  the user that nothing terminates (`lesson_module.c:72-75`), so what `%s` writes has no bound. The
  history variables `alone` and `overran` say when `WithinBuffer` and `ReadsOneMessage` hold.
* Backspace removes one byte of the name (`tetris.c:88`), half of a two-byte letter. A whole text
  is appended when the name has less than 31 bytes (`tetris.c:85`), so the name may pass its 32 bytes: what
  follows is `state`, and the game then answers to nothing but SDL_QUIT. A score that cannot be
  written is lost without a word (`tetris.c:52-53`; `DZ_35_Game/README.md` speaks of saving automatically).
* The HTTP server answers a file that does not exist with 403, because `realpath` fails
  first (`server.c:151`), and a file it may not read with nothing at all (`server.c:187`),
  where `DZ_23_web_services/README.md:17-18` asks for 404 and 403. The test for paths outside compares a prefix of the name only, so that the
  files of a sibling directory whose name begins with the served one's are served
  (`server.c:150-151`; the comment speaks of protection). `index.html` is sent with one `sendfile`
  and a listing with unchecked `dprintf` calls (`server.c:180`, `82-99`), so a slow client may
  get a part; a request read in half is served as if it were whole; a client that neither
  reads nor leaves stops the loop, as the comment at `server.c:119` admits; one that leaves in the
  middle of a reply may end the server.
* Every name of an encoding but one is taken for CP1251, and windows-1251 itself is refused
  as unknown: `detect_enc` compares with it without `== 0` (`converter.c:185`), while
  `display_usage` offers it (`converter.c:243`) and `DZ_2_encoding/Converter/README.md:6-9` names the
  three encodings. So the columns of KOI8-R and ISO 8859-5 are never used. The rows of
  а to п (`converter.c:148-163`) start at D1 B0 in place of D0 B0 and give other
  letters; `ConvertsLetters` names them. A byte that no row has becomes a space
  and a NUL, and a carriage return is added at the end of the file.
* `crc32_tool` refuses an empty file, which cannot be mapped, though its README says
  that it agrees with `crc32`; it maps the file whole, not in blocks of 64 KB. Of a
  file that changes meanwhile it tells no checksum of any state the file had.
* `zipjpeg_checker` reads a structure of 30 bytes for an end record of 22, so the
  details of an archive without a comment of 8 bytes cannot be read; a file of
  less than 70 bytes with an end record makes its last loop run on (line 159);
  and a central header that is not found leaves the offset of line 154 uninitialised.
* The optimised `main.asm` prints the odd values in their order; `main_orig.asm`, whose
  text `DZ_7_assembler/README.md` asks for, and `main_c.c` print them in reverse.
* `ascii_art` misses a marker that is split between two `recv` calls, or that
  follows a NUL, and prints the last bytes of a telnet command that is split.
* `rps_server` never closes a connection (`rps_server.c:36, 83-87`) and has no handler
  for SIGPIPE. It receives 1024 bytes at most, once for each edge (lines 33-35, 80), and does not look
  at what `send` returns (line 39): the rest of a longer request is not seen before more
  arrives, and a reply without room is lost. `RequestsAnswered` excepts these connections.

## 6. Not modelled

What has no state that a model checker could explore:

* drawing (`DZ_33_graph_API`, the Mandelbrot demonstrations, `render`): floating point
  in straight loops; the explorer's state is its view, a triple of doubles that
  each click replaces, and what matters there is rounding. (Reading it shows that a
  click centres `W / 2.5` where `compute_pixel` takes `W / 2` for the middle,
  `mandelbrot_sdl_mouse.c:115-116, 177-178`.)
* clients that make one request through a library (`DZ_6_libs`, `DZ_32_DB`): a
  sequence of calls with an exit at each error;
* the file browser (`DZ_11_OOP/app_gtk.c`): one recursive fill of a GTK model from the
  file system, and callbacks that only print;
* tests, templates, patches and the traced program (`DZ_26_tooling_for_linux_kernel`).

The vendored curl 8.18.0 (`DZ_8_Unix_history`, with its build products) is more than nine
tenths of the repository's lines and no code of this project: it is left aside,
so the mapped share of all lines stays small whatever is modelled of the rest.

In the modelled programs: allocation failures of the log parser,
the private buffer that the setter of `buffer_size` allocates, the text of configuration
lines, records and replies, what `log_init` returns, address lookup and
socket set-up, the fields printed of an archive, and the times the checksum
program prints.

## 7. Plan

1. Proof: a client of the load-test server that has sent is in `edge`, in `events` or being
   served until its bytes are received, or `outrun`: the safety part of `RequestsAnswered`.
