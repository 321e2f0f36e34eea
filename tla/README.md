# Verification of the FUND-120 programs

The repository is a course's work: notes, exercises, and a few programs with a
logic of their own. This directory models those programs in TLA+, checks the
models with TLC on small instances, and proves the facts that matter most with
TLAPS for instances of any size. It covers three systems:

- the **client-server lab** (`FUND-120/4_ClientServerLab`): a file server and
  clients that speak the GETFILE protocol, one client with a boss thread and a
  pool of workers (`mtgf/`), one that makes its requests in turn (`gflib/`), and
  two pairs of sample programs on sockets (`echo/`, `transfer/`);
- the **queue lab** (`FUND-120/0_C_Programming_Lab/cprogramminglab-handout`): a
  linked-list queue, driven by an interactive test program that interrupts it
  with an alarm, makes its allocations fail and looks for leaks, and that accounts
  for its own memory;
- the **data lab** (`FUND-120/1_DataLab/datalab-handout`): puzzles on machine
  words, and the program that tests them against references under an alarm.

Paths below are relative to `src/FUND-120`; "lab" is the handout's directory.

## 1. Inventory

### Client-server lab

| component | state | operations | talks to |
|---|---|---|---|
| worker pool, `mtgf/gfclient_download.c` | `client.mutex`, `client.cond_worker`, a steque of request paths, loop counters | `main`: enqueue, signal, join; `requestHandler`: lock, wait, pop, unlock, perform | shared memory between threads; `exit()` from any of them |
| download, same file, `mtgf/workload.c` | `localPath`'s static counter, the files on disk | `localPath`, `openFile`, `gfc_perform`, `unlink` twice | the counter and the directory are shared by all workers, with no lock |
| client library, `gflib/gfclient.c` | the request record | `gfc_perform`: connect, write, read the header byte by byte, read the content | TCP |
| server library, `gflib/gfserver.c` with `mtgf/handler.c` | listening socket, context, open files | `gfserver_serve`, `gfs_sendheader`, `gfs_send`, `gfs_abort`; `handler_get` is its callback | TCP; the content |
| content, `mtgf/content.c` | array of (key, descriptor) | `content_init`, `content_get` | the handler calls it |
| steque, `mtgf/steque.c` | front, back, count, nodes | enqueue, push, pop, cycle, front, size, isempty, destroy | the pool's queue |
| `gflib/gfclient_download.c`, `gflib/gfserver_main.c` | the request in turn, its local file | open, `gfc_perform` with `writecb`, close, unlink twice; signals end the server | the libraries |
| `transfer/` | the server's position in the file and its buffer, each client's output file | server: accept, `fread`, `write`, exit after one client; client: connect, `fopen`, `read`, `fwrite` | TCP |
| `echo/` | one buffer per process, which nobody clears | server: accept, `read`, `write` up to the first zero, one client after another; client: connect, `write`, one `read`, print | TCP |

Hard here: which thread runs after a signal, and whether it is the one that was
woken; the worker that ends the process; a peer that goes, or a network that
breaks, at any byte; one `read()` for a message; descriptors that run out;
a file that shrinks under the server; short writes and errors that look like the
end of a file; what a buffer still holds from the client before; a message of no
bytes, for which both ends wait.

### Queue lab

| component | state | operations | talks to |
|---|---|---|---|
| queue, `lab/queue.c` | head, tail, size, elements with their strings | new, free, insert head and tail, remove head, size, reverse | the harness's `malloc` and `free` |
| harness, `lab/harness.c` | list and count of blocks, error flag, jump buffer | `test_malloc`, `test_free`, `exception_setup`, `exception_cancel`, `trigger_exception` | signal handlers jump out of whatever runs |
| qtest commands, `lab/qtest.c` | the queue `q`, the handler's own count `qcnt` | `do_new` ... `do_show`, `queue_quit` | queue, harness, report |
| console, `lab/console.c` | stack of buffered files, error count and limit, quit flag, lists of commands | `run_console`, `cmd_select`, `readline`, built-in commands, `finish_cmd` | standard input, sourced files, the command handlers |
| report, `lab/report.c` | verbosity, log file, counters of blocks and bytes, memory limit | `report_event`, `report`, `set_logfile`, `malloc_or_fail`, `calloc_or_fail`, `strsave_or_fail`, `realloc_block`, the frees with a size | everything prints through it; the console allocates through it |
| driver and traces | none | a script that runs qtest on command files | qtest |

Hard here: the alarm can end an operation between any two of its writes, and
`siglongjmp` then returns into a frame that has gone; every allocation can fail;
lines cross buffers and files; a file is sourced in the middle of another's
buffer; standard input delivers by and by.

### Data lab

| component | state | operations | talks to |
|---|---|---|---|
| puzzles, `bits.c`, references `tests.c` | none | thirteen functions on words, their thirteen references | called by btest |
| tester, `btest.c` with the table in `decl.c` | the options, the values per argument, the jump buffer and the alarm, points | options, `gen_vals`, `test_function` and its loops, `run_tests` | `SIGALRM` jumps out of whatever runs |
| `ishow.c`, `fshow.c`, Perl scripts | none | print a number; run btest and an external checker | btest |

Hard here: overflow, which C leaves undefined and the compilers build
differently; what a finite choice of values misses; an alarm that is never turned
off and strikes in the next puzzle, or between two.

### The rest

The bomb and the attack lab have no program of their own. The K&R
directories hold notes and exercises; the one small program with state among them,
the calculator of chapter 4, does not build. `FOUND-110` holds snippets.
`PROJECT.json` lists all of these, and why each is left out.

### What makes each component correct

- pool: no wakeup is lost, nothing is dispatched twice or skipped, `main` is
  never stuck in its join, every request is served and the program ends;
- download: each successful request has a file that nobody else wrote, each
  failed one leaves none;
- protocol: what the server counts as sent arrives, in the shape of a response;
  "not found" is said only of what is not there (it is not so, see 7); every call returns;
- programs of `gflib/`: the files a client keeps are whole, and nothing is left of
  the calls that failed;
- transfer: a copy that nobody complains of is whole, any other is a beginning, and what is
  stored is in order; short writes are made good (they are not, see 7);
- echo: a reply begins with what its client sent; in both, every client ends, but for the
  empty message;
- content: loading stays in the array; the search answers with the file that
  `content.txt` names (for a last line without a newline it does not, see 7);
- steque: the list is whole after any sequence of calls, and is a deque;
- queue under the harness: wherever it is cut short the list can be walked
  and freed; nothing freed is used; the leak check is honest; failures surface;
- console: every line is executed once and in order whatever the buffering and
  the nesting; the exit status is honest; quitting happens once; no line that is
  there waits for the next one;
- report: the counters say what there is, although each free computes its size
  anew; the limit holds; quitting gives everything back; a closed log is not written to (it
  is, see 7);
- data lab: the score is what the puzzles are worth, with the values btest tries, in
  either build; a puzzle fails only for a reason.

## 2. Plan

Each component gets a module that later ones compose or refine.

1. `WorkerPool`, threads and their synchronisation. *Done, proved.*
2. `DownloadClient`, the body of a worker's loop; implements `WorkerPool`.
   *Done, proved.*
3. `Tcp`, `GfServer`, `GfClient`, composed in `GetFile`. *Done, proved.*
4. `Content`. *Done, proved.*
5. `Steque`, which implements `Deque`. *Done, proved.*
6. `Harness`, `Queue`, composed in `QTest`. *Done, proved.*
7. `Console`, which implements `Script`. *Done, proved.*
8. `Report`, driven in `Accounts` by the console. *Done, proved.*
9. `Socket` under `Echo` and `Transfer`, composed in `Samples`. *Done, proved.*
10. `Bits`, the puzzles and references, under `BTest`. *Done, proved.*
11. `Fetch`, the programs of `gflib/` over `GetFile`. *Done, proved.*

The calculator, which an earlier plan had, is dropped: see 8.

Every safety property the runs check is a theorem, and so are the implementations of the pool, the
deque and the script. What is left to the runs is what needs fairness (end of 6).

## 3. Modules

Each definition's lines are in `PROJECT.json` under `map`; the definitions keep
the source's names where they can. Some definitions marked *Mutant* stand beside
an action: the action with a plausible bug in it, used to see that a property
notices. They are part of no specification.

**`WorkerPool`**. One variable per piece of shared state: `mutex` (its holder),
`sleeping` (who is in `pthread_cond_wait`), `queue`, and per thread where it is in
its code. One action per step between two synchronisations: the boss locks,
enqueues, signals, unlocks, joins; a worker locks, checks, waits, wakes, pops,
unlocks, is busy, finishes. A waiter that was woken competes for the mutex with
everyone else, and may wake for no reason `MaxSpurious` times. A request is the
number of its place in the workload's order. `ExitProcess` is `exit()` in the
middle of a request, `PathTooLong` that of `main` for a path that does not fit.
`CreateFails` is a `pthread_create` that fails: nobody looks at its result, `main`
goes on to the next one and in the end joins a thread that is not there
(`BossJoinMissing`), which is undefined; `ClientEnds` makes that exception.

**`DownloadClient`** extends it with what a busy worker does. Loading and storing
`localPath`'s counter are two steps; `dir` maps a local name to the set of
requests whose bytes are in the file, so that two workers in one file show.
`gfc_perform` is its three outcomes: done, refused by a status, broken.

**`Tcp`** is the kernel as both libraries use it: one connection per call, a
queue of units in each direction (the request in one unit, or two if it is
fragmented; a status, a length, units of content as large as a buffer), which end
has closed, and what breaks. It is marked external. **`GfServer`** is the
accept loop with the handler, one `read()`, `gfs_sendheader`, each `gfs_send` (sent,
sent in part, or failed), the two cleanups, and the descriptors it never gives back.
**`GfClient`** is `gfc_perform` with its two loops; its name may not resolve, which ends the
process, and its connection may be refused. A header that is cut right after its status
makes `atoi` read what the buffer happens to hold: the length is then any number. **`GetFile`**
composes them and states what the protocol promises.

**`Fetch`** extends it with the programs of `gflib/`: each client process makes its
calls in turn, in a directory of its own, opens a local file for each, has it filled
by the write function, and keeps or unlinks it. An error of `read()` that reaches
`writecb` as a length makes a file `garbled`. Options, workload and the opening of files
may end a process; `SIGINT` and `SIGTERM` end the server.

**`Socket`** is what the sample programs share: options, `listen`, `accept`, the name
of the client, `connect`, exits, the bytes under way, killed processes, broken
connections, failed calls (`MaxFaults` in all). **`Transfer`** is one file for one
client, a byte being its place in the file; **`Echo`** is one message per client, which may be
empty, over the buffers that nobody clears, a byte being its owner and place, `Zero`, or
`Stack` for what an uninitialised buffer holds. Nothing puts a zero behind a buffer: `strlen`
may run past it, to a zero within `Reach` bytes. **`Samples`** is one or the other,
with the processes' fairness.

**`Content`** loads chunks (what one `fgets` returns) into an array that doubles,
sorts, and then searches, one comparison per step. Keys are numbers in the order
of `strcmp`; sorting takes any order of equal keys, since `qsort` does. A file that cannot be
opened, and a `content.txt` that cannot, end the process.

**`Steque`** is the linked list on a heap whose blocks are reused; a history
variable `chain` holds the nodes in their order. It implements **`Deque`**, the
sequence `steque.h` describes.

**`Harness`**, **`Queue`**, **`QTest`**: the block list and its count are written in
two steps, each operation of the queue at most one write per step, and the commands
around them with `exception_setup` and `exception_cancel`. The alarm
(`Raise`, `RaiseInLoop`, `ShowTimesOut`) can come between any two steps. Strings
are their blocks. `siglongjmp` goes to a frame that has returned, which is
undefined; the model does what the Makefile's build (`-O0`) does: the return
address that stands there is that of the handler's last call, so that call returns a
second time, with 0. `Raise` and `RaiseInLoop` say what this is for each handler. Between a
loop's check and its `r++` the call that returns again is the check itself, so that the next turn
runs, without an alarm and with nowhere to jump to: an element that it inserts nowhere ends
the process (`InsertExits`).

**`Report`** holds the messages, by their level, with what they do to the log and the
process, and the counters, which are numbers modulo `SizeMod`. **`Accounts`** drives it:
the console's memory, for commands, parameters, files and the words of a line, each
freed with the size the code computes for it then, and beside it another caller that uses
what the console does not (reallocation, null pointers). A line is its length, the
lengths of its words and what it does.

**`Bits`** is each puzzle and each reference, on words of `2^K` bits: arithmetic wraps
where the build lets it, and bit operations work on the set of bits that are one. The
three float puzzles are stubs in the code, and so here. **`BTest`** is the program:
options one by one, the values of each argument, the loops with one comparison per
step, the alarm that may go off at any step once it was set, and the score. `wraps` is the
build: whether `y - x` wraps or compares as if it were exact. `Root` gives the powers of `TEST_RANGE` that
`arg_test_range` takes for two and three arguments.

**`Console`**: files are sequences of units (a command, some other word, a
newline); `BufSize` and `LineMax` stand for `RIO_BUFSIZE` and the line buffer.
Reading, taking a unit off the buffer, the end of a file, executing a command,
and finishing are the actions; `Arrive` is whoever types. It implements
**`Script`**: the commands in their order, a sourced file's in place of its `source`.

## 4. Runs

| run | instance | what it shows |
|---|---|---|
| `pool` | 3 workers of 2 requests, 1 spurious wakeup, any worker may exit | `NoLostWakeup`, `FifoQueue`, `JoinNeverStuck`, `DispatchInOrder`; under fairness `ClientEnds`; no deadlock |
| `download` | 2 workers of 2 requests, each request with its own path | `ResultsKept`, `NothingLeftOver`, and that the client implements the pool with its fairness (`RefinesFairPool`) |
| `download_race` | 2 workers, 1 path | **fails** `ResultsKept`, see 7 |
| `getfile_faults` | 2 calls, 1 path, 1 break, 1 quit, 1 file shrinks, requests fragment, 2 descriptors | `ResponseShape`, `NothingLost`; under fairness `CallsEndButForAborts` |
| `fetch` | 3 calls of 2 clients, one of which asks twice, 1 break, 1 kill, 1 exit, 1 signal, 1 file shrinks, requests fragment, 2 descriptors | `KeptFiles`, `NotFoundMeansMissing` |
| `content` | up to 3 chunks over 3 keys and 2 files, capacity 1 | `RoomForNext`, `InRange`, `FindsTheFile`, `CallsEnd` |
| `steque` | 3 nodes, 2 items | `Linked`, `RefinesDeque` |
| `qtest` | 5 blocks, insertions repeated twice, 1 alarm, `fail_limit` 2 | `HeadSound`, `FreesAllocated`, `Consistent`, `FreeIsHonest`, `FailuresSurface` |
| `console` | 8 inputs with 4 files each, buffer 5, line 2, 3 open files, 3 errors | `HonestExit`, `QuitsOnce`, `RefinesScript`, `EveryLineAnswered` |
| `report` | 2 lines of 7 kinds, 2 files, 2 calls of another caller, 3 verbosities, `size_t` of 8 bits, a limit of 70 bytes or none | `Balanced`, `LimitKept`, `NothingLeft` |
| `samples` | 3 clients, 5 bytes in buffers of 2, a zero at most 3 bytes on, messages of 0, 1 and 3 bytes, 2 faults | `CopyIsWhole`, `CopyIsPrefix`, `CopyInOrder`, `OwnBytesFirst`; under fairness `PeersEnd` |
| `btest` | all 13 puzzles, words of 8 bits, 2 options, 1 alarm, both builds | `ScoreIsRight`, `WrongOnlyWhereKnown`, `FailuresExplained` |

**Why the bounds are enough.** A wakeup can only be lost with a sleeper, one that
overtakes it, and one more: three workers; with two requests each, a worker
comes back to a queue that others have emptied. The counter's race needs two
workers; the second request each shows what is left of the first. Two
calls show the server go from one connection, whatever became of it, to the next;
a file of two units can be cut in its middle and shrink in it. Three chunks make
the array of one double twice, and the search turn in both directions, with
equal keys among them. Three nodes: an empty, a single, and a proper list, with a
middle, and memory freed and used again. Five blocks are a queue of two
elements with their strings, so that a reversal has a middle to be cut at and a freed
block is given out again; `malloc` may fail at any call. A line of
two units crosses a buffer of five at each of its places, and with three open
files a source within a source works and the next fails.
In `fetch` the client that asks twice shows what a failed call leaves to the next, and
the other what one client's fault does to another. Two lines show one line's
memory given back before the next takes its own, and an error limit of two reached
between them; the limit of 70 bytes is passed at different calls for different
lines. Five bytes are two full buffers and a part; a message of 3 is more than a
buffer and one of 1 leaves bytes of it behind; of three clients one can be served before the one with
the empty message and another wait behind it; two faults let a write be short and a peer go.
Words of 8 bits have every carry and sign the wider ones
have, and every halving step of `howManyBits`; puzzles of three arguments are compared with their
references on a sample, those of one and two on all words.

**Deadlock** is checked in every passing run but `getfile_faults` and `fetch`, where a client waits
for ever for content that the handler gave up on, and the samples' runs, where the processes end
or wait on an empty message (`PeersEnd` says that the clients do no other).

## 5. Fairness

Weak fairness of what the code itself schedules, and no more:

- pool, download: each thread that can run is run. The step in which a request's
  body finishes is included, for a call of `gfc_perform` returns (which `GetFile`
  examines, with its exceptions). The mutex may go to anyone who competes for
  it; that no worker starves holds because a worker's loop is finite.
- protocol: the server's thread and each client's; nothing is assumed of breaks,
  quits or shrinking files.
- samples: the server and each client; nothing of faults, breaks or kills.
- content: its loops run once called; nobody has to call it.
- console: the process runs; whoever writes its input may stop at any place.
  `select()` returning for nothing is a step that changes nothing in the model, so
  that it does so again and again for ever is excluded here.
- `Fetch`, `Steque`, `QTest`, `Accounts` and `BTest` state no liveness: that a client's calls end is
  checked in `getfile_faults`; an operation on a list that the alarm does not end is finite by
  the invariants on the list; the others' loops are over finite data.

## 6. Proofs

Proved by TLAPS for every value of the constants; each module's argument is in its
own comments. Each theorem rests on an inductive invariant, found with TLC, which checked
it on the run's instance before it was proved, and has one lemma per action, or per group of
actions that change the same things. What the named assumptions of the models say is at
their `ASSUME`; those that matter are repeated here.

**`ClientProofs`, the pool** — any finite set of threads, any number of requests.
Assumed: `ThreadsAssumption`, `NumRequestsAssumption`, `MaxSpuriousAssumption`, and
that `Free` and `Boss` are no threads. The inductive invariant `PoolInv` joins the
types with the loop counters, `MutualExclusion`, `Accounting` and `NoLostWakeup`. None
is inductive alone: `NoLostWakeup` compares the length of the queue with the number
of awake workers that want more, and a pop or a wait keeps that only because the
mutex is held; `JoinNeverStuck` follows from the last two by counting: when main joins,
what is enqueued is all that the loops consume, so a worker that sleeps is owed a
request, which is in the queue with an awake worker to take it, or is to be enqueued
for one that does not sleep. The counting uses the library's theorems
about finite sets. `FifoQueue` and `DispatchInOrder` are proved along the same steps.

**The same, the worker's body** — each step of the detailed client is a step of the pool
or leaves the pool alone, so `DownloadImplementsPool`, whatever the race on the
counter does; by it the pool's invariants hold of the client, as `DownloadNeverStuck`
shows for the join. `ResultsKept` and `NothingLeftOver` are false in general
(`download_race`); they are proved under `OwnPaths`, that no two requests have one path
(`Total <= NumPaths`), which is what makes the race on the counter harmless: the path is part of the
name, so two names differ whatever their numbers. `BodyInv` says that every file is one request's, with its
path in the name, and what each stage of a worker's body has done to it.

**`ContentProofs`** — any set of keys that are integers, a content file of any
length (`MaxChunks` is any number), any initial capacity above zero. While loading, the array holds the lines read, with
their paths opened; afterwards it is sorted and each of its elements is one of those
lines and each line one of its elements. With that, `InRange` is inductive over the
search, and `FindsTheFile` follows. It is about the code as it is: for a chunk without an end of line the
file is that of the path with its last character cut, which the property says in so many words. That it
is the file `content.txt` names is false (see 7).

**`ClientProofs`, the queue** — any finite set of nodes. `TypeOK` and `Linked` together are
inductive; one lemma per operation says what it does to the chain. The
implementation of `Deque` follows: with the list whole, an operation on the pointers is
the operation on the sequence of items.

**`GetFileProofs`** — any finite, non-empty set of calls, any paths, sizes, descriptors and
numbers of faults. `Protocol` has four parts: the types; `Lined`, that a call is in the backlog
once and not when it is served; `Server`, what the server's place says of the connection it serves; and
for each call `Call`. Of that, `Standing` says what can have cut a connection (it is why
`NothingLost` may speak of those that stand), `Progress` how far the client is in the response,
`Shaped` what is under way after that (a status first, then a length, then data), and
`Answering` that status and length are those of the path that was asked for; files only
shrink, so a length is at least what is left. `ResponseShape` and `NothingLost` are read off it.
`FetchInv` adds the processes of `gflib/`, any number of them with any sequences of calls: the process whose turn a
call is, what its file holds while `writecb` fills it, and for calls that are over
what was kept. `RequestsAssumption` says that no call is made twice: a call is an occurrence, not a path.
No theorem assumes that a request arrives whole: `NotFoundMeansMissing` excepts the calls of whose
request one `read()` returned a part (`partial`), which the server answers as if the client had made an
error (see 7); what is proved is that nothing else, neither a break, a quit, a file that shrank
nor a signal, makes it say so of a path it has.

**`SamplesProofs`** — any finite set of clients, any size of file, messages and buffer, any number of faults. The
invariant `Copied` says that what a client has stored, then what is under way to it, then what is in the server's buffer,
are consecutive segments of the file, as long as no write was short; that is why a connection which
ends early leaves a beginning (`StoredIsPrefix`), and one that nobody complains of the whole (`StoredIsWhole`),
however `read()` splits it. What these two except (a short write, errors of `fread`, of the flush and of the server) is what the code
does not handle, see 7. `StoredInOrder` excepts nothing: a short write leaves bytes out, but none comes twice or too early.
For the echo, `Buffered` says that of each client the buffer holds nothing beyond what was read from it,
so that in a reply what comes after a client's own bytes is what an earlier message left, and never its
own (`OwnBytesPrinted`). It bounds what comes after, not from below what comes: a reply may be short, since
one `read()` takes what is there. `EchoAssumption` has `Zero` and `Stack` apart from each other and from the clients, and
`Reach` no less than the buffer, so that a zero may lie behind it; messages may be empty. The message
of a client has no zero in it, for it ends at the first.

**`ConsoleProofs`** — any files, any sizes of the buffer and the line, any number of open files, any arrival of the input.
`Inv` has three parts. `Typed` says that `rio_cnt` never exceeds what was read, which needs
that a refill happens on an empty buffer; `Line`, that `readline` returns before its line is
full and that its callers leave no line behind; `Outcome` ties the flags to what happened. `HonestExit` and
`QuitsOnce` follow from `Outcome`, which is inductive only with the other two: whether `quit` is
executed by a command, by the end of the last file or by the error limit decides which of its clauses is at stake.
`ConsoleAssumption` says that the files are sequences of newlines and of the units that `IsCommand` lists.

`ConsoleImplementsScript` maps the console to the commands still to be executed: of the line begun, then of what each open
file still holds, the innermost first, up to what is in the buffer and what `read()` has not given yet. Each action is shown to
leave this sequence alone, to take its first command, or to put a sourced file's commands in place of its `source`; a unit that
moves from the file to the buffer, or from the buffer to the line, does not change it. The commands of a file are given by a
recursive function over its units (`last`) and by `FlattenSeq`, of which no theorem of the library speaks: both are
characterised first, by the least place where they differ from what is claimed.

**`AccountsProofs`** — any sizes, lines, files and limits, any `SizeMod` above zero. `Balanced`
speaks of counters that wrap, so the proof is in two layers: the counters are what the callers hold, modulo
`SizeMod` (lemmas on `%`, and on `Total`, the sum of a sequence); and what they hold is less than `SizeMod`
(`Addressable`, which the model states at each allocation: a process has no more memory than a
`size_t` counts), so the counters are the numbers themselves. `NothingBeyondTheLimit` is about the sums of `check_exceed`, which
may wrap; `ConsoleGivesBack` needs that every free is given the size its block was allocated with, which is why the
invariant keeps the words and the buffer of the line in progress apart.

**`QTestProofs`** — any finite memory, any number of alarms, any `fail_limit`, at every
place an operation can be cut. The invariant says that there is a sequence `s` of distinct
blocks which the pointers form: from `head` by `next` to the end, wherever no operation is at work on it; from the
element at hand within `q_free`; and in `q_reverse` with the first `k` pointers turned (`Turned`), so that
`head` gives a list that ends, if a shorter one, in whichever iteration the alarm comes. `Shape` has that
(`Lists`), with every element and its string allocated and no two of them shared (`Whole`), the queue's own block
apart from them (`QueueThere`), and the block in the operation's hand apart from all of these (`AtHand`): without
the last two a free of one could be a free of another. `HeadSound` and `FreesAllocated` follow. `Tally`
is what holds only as long as no alarm went off and no element was lost: these are
all the blocks there are, and both counts are the length of `s`, but for the operation in progress. `Consistent` and
`FreeIsHonest` follow from it by counting the blocks of `s`; `FreeIsHonest` does without the second condition in one direction, by the
harness's own count (`Counted`). `Surfacing` follows an exception from `siglongjmp` to the
result of the command.

**`BTestProofs`** — any width `2^K` from 8 bits up, any width of the exponent that leaves a fraction, any test range with its
roots, whatever `random_val` returns, any texts after the options, any number of alarms, both builds. It has three parts.

*Words.* `2^n` is the number of subsets of a set with `n` elements, which gives its laws. `BitsOf` and `WordOf`
are inverse: the sum of the bits' weights is the word (`WordWeighs`), so different words have different bits, and there are as many words
as sets of bits, so every set is the bits of a word (`EverySet`). The operators `&`, `|`, `^`, `~` and the shifts are then known by
their bits, and wrapping by the one multiple of `2^W` it takes away or adds.

*Puzzles.* `PuzzleRight`: each puzzle that is not a stub is its reference on all words; `isLessOrEqual` where `y - x` is a word or
the build does not wrap. The ten cases have a lemma each. `howManyBits` is the long one: the code looks for the highest bit by halves, the
reference counts shifts to the right, and both are shown to find the highest bit there is (`Highest`). `RightIs`: the set `right`, which quantifies over all words, is
what is neither a stub nor `isLessOrEqual` in the build that wraps.

*The tester.* `Valued` says that what `gen_vals` made are words, that the first value for a float is 0, and that for the others `TMin` comes first and
`TMax` is among them. `Reached` says that the loops have not gone past the values for which a wrong puzzle shows: a stub fails
on its first value; `isLessOrEqual` fails at the latest on `TMin` and `TMax`, which the loops come to while the first argument is still at its first value. So a puzzle
without an error is right (`Decided`), and the points are the worth of the right ones so far (`Earned`), which is
`BTestScoreIsRight` at the end. `Explained`, for `BTestFailuresExplained`, must count the puzzle an alarm has decided but `run_tests` has not yet
scored: the alarm and the failure are different steps.

What is proved about sequences (that a list has a last element with some property, that a sum is what its parts
are) would be induction; it is done by taking the least counterexample, which
exists by the library's theorem on well-founded relations (`LeastOf`). `LeastOf`
stands in each module that needs it, for these modules have no model in common.

The theorems without a property in `PROJECT.json` are parts of the invariants that carry the others.

**Only model-checked:** everything under fairness (`ClientEnds`,
`RefinesFairPool`, `CallsEnd`, `CallsEndButForAborts`, `EveryLineAnswered`, `PeersEnd`),
since liveness from fairness is out of TLAPS's reach here. Of btest the deadlock check (that one of its
steps is always possible until it ends) is TLC's alone, as for the other modules.

## 7. Where the code and its documents differ

With a run that shows it:

- `download_race`: `localPath` counts without a lock (`mtgf/gfclient_download.c:70`),
  so two workers that ask for one path can write, truncate and unlink one file.

Without a run, met while modelling:

- the server calls `read()` once for a request, and what has no end in that is answered "not found"
  (`gflib/gfserver.c:158`), which `Readme.md:206-208` keeps for errors of the client.
  `NotFoundMeansMissing` names the calls this happens to, and no others;
- the last character of a last line without a newline is taken out as if it were the newline
  (`mtgf/content.c:36`, against the comment above it), and the server exits for a file it could
  open, or serves another. `FindsTheFile` says which;
- `report_event` closes the log file and leaves the pointer (`lab/report.c:82`): the next line goes to
  a closed stream, where the log is to have all the output (`lab/console.c:97`, `lab/qtest.c:488`).
  `Report` gives this a status of its own, `"undefined"`, after which the other properties say nothing;
- a short write of `transferserver` is not seen (`transfer/transferserver.c:143`, against
  `Readme.md:119-121`): the rest of the buffer is never sent. `CopyIsWhole` and `CopyIsPrefix` except it,
  `CopyInOrder` does not;
- an alarm between the harness's list and its count (`lab/harness.c:137`, `173`), or between an insertion
  and `qcnt`, leaves the counts wrong for the rest of the session, so that `free` reports a leak that is none
  or none that is. `Consistent` and `FreeIsHonest` speak of sessions without an alarm;
- the server never closes a finished request's socket (`gflib/gfserver.c:42`); `accept` fails
  in the end and `gfserver_serve`, which "does not return", returns;
- `q_remove_head` leaves the tail at the element it frees (`lab/queue.c:161-170`); the next
  `q_insert_tail` returns true and the element is in no list;
- a response cut after its status has no length, `atoi` gives 0 and the call
  returns 0 with `GF_OK` and an empty file (`gflib/gfclient.c:166`, against
  `gfclient.h:90-92`); `KeptFiles` makes this exception, on a connection that broke;
- `main` does not look at what `pthread_create` returns (`mtgf/gfclient_download.c:232`) and joins a
  thread that may not be there;
- an error on one client's connection makes the server return (`gflib/gfserver.c:159`);
- the server frees the context again after the handler has aborted
  (`gflib/gfserver.c:177` after `mtgf/handler.c:33` or `39`); the model frees it once and
  counts;
- a file that shrinks while it is served, or a `gfs_send` that sends a part: the handler aborts
  without a close and the client waits for ever (`mtgf/handler.c:33`, `37`).
  `CallsEndButForAborts` names this as the only way a call does not end;
- after an error `read()` has returned -1, which goes to `writefunc` as a
  length and into `bytesreceived` (`gflib/gfclient.c:182-192`, against `gfclient.h:109`);
  `headerfunc` is never called;
- the response's buffer has as many bytes as the file, `read()` is given a fixed size
  (`gflib/gfclient.c:175-179`);
- at verbosity 3 and up showing the queue takes the error flag the command would look at
  next (`lab/qtest.c:417`), so a command that timed out succeeds. `FailuresSurface` makes this
  exception and no other;
- a failing command behind `time` counts an error once per `time` and once more
  (`lab/console.c:389-405`, against "Number of errors until exit", `console.c:101`);
- after any error `main` does not run `finish_cmd`, so the helper that frees the queue and
  looks for leaks is not run (`lab/console.c:605`, `lab/qtest.c:539-540`);
- a file that sources itself on a last line without a newline does so for ever; with
  a newline it runs out of descriptors, which is an error. A directory can be sourced, and
  reads as empty;
- `select()` is given a set that was never cleared (`lab/console.c:546`);
- `option` applies its settings one by one and stops at the first bad one
  (`lab/console.c:349`), with the others applied;
- `interpret_file` is declared in `console.h` and defined nowhere;
- two client processes in one directory would give their files the same names; `Fetch` gives
  each its own;
- at a negative verbosity a fatal event is not reported and does not end the program
  (`lab/report.c:186`), so memory goes beyond the limit. `LimitKept` makes this exception. No
  command sets the limit;
- a null pointer given to the counted frees is counted as freed (`lab/report.c:270`);
- the echo client's `error()` exits with 0 (`echo/echoclient.c:35-38`), that of the others with 1;
- `echoserver -n` takes a number of pending connections and `listen` is given 5
  (`echo/echoserver.c:101`);
- `echoclient -m ""` is accepted (`echo/echoclient.c:69` refuses only a missing message) and writes nothing: the
  client (`118`) and the server (`echo/echoserver.c:133`) wait for each other for ever, and every client behind
  it. `PeersEnd` names these clients as the only ones that do not end;
- the echo's reply is not its input: the server writes to the first zero of a buffer it does
  not clear (`echo/echoserver.c:140`), and the client prints past what it read
  (`echo/echoclient.c:122`). `OwnBytesFirst` says what is the client's own;
- `transferclient` takes an error for the end and does not look at the flush
  (`transfer/transferclient.c:119-126`), and the server an error of `fread` for the end: the client exits with 0
  and a part of the file. `CopyIsWhole` names these;
- btest never turns its alarm off when a test ends (`btest.c:348`): it strikes in the next
  puzzle, or outside of any, where the jump goes to a frame that has returned;
- `isLessOrEqual` is right where the compiler treats the difference as exact and wrong where it wraps
  (`bits.c:236`); btest's own values show it, as `ScoreIsRight` says. The other sums that overflow
  (in `isTmax`, `negate` and `howManyBits`) are as undefined, but give the same in both builds: the optimised and
  the unoptimised code agree on all words;
- for an integer `get_num_val` looks at the argument's old value where it means the end of the
  text (`!*valp`, `btest.c:496`): a second number for an argument that is not 0 is
  refused, and what follows a number is not looked at.

## 8. Not modelled

- Reading `workload.txt`, the random workload, command lines, printing, help and prompts.
- Sockets that fail before the server's loop starts; more than one thread in the server
  (there is one).
- Memory beyond the arrays: content is counted in buffers, strings are blocks.
- The harness's modes that forbid allocation or look a block up before it is freed: the
  queue triggers neither (`FreesAllocated`).
- A segmentation fault during an alarm's handler, or the reverse (`lab/harness.c:221-224`): the
  process exits.
- `block_console` and the sockets `cmd_select` could watch, which nobody uses.
- Of the report: its timers and its formatting. Of the data lab: the float puzzles, which the code
  leaves as stubs, the printers `ishow` and `fshow`, and the Perl scripts.
- What the C library does with a block the harness freed before the harness has it again: a write to a
  stale tail (`lab/queue.c:133-134`) is modelled for the harness's blocks.
- The sample programs' parsing of options and names, beyond that it may end the process.
- The K&R calculator: it does not build (`ch4_header_file/main.c` calls `setVar`, which no file
  defines, and `fmod` without its header, and includes `<calc.h>`), so there is no program to be
  faithful to.
- The bomb and the attack lab (binaries), the K&R notes and exercises (filters of a few lines),
  `FOUND-110` (snippets from a textbook), and `driver.py` with its traces: no system to model.
