# fabric_bench in TLA+

Specifications, model-checking configurations and machine-checked proofs for
fabric_bench: multi-threaded ping-pong benchmarks over InfiniBand verbs,
libfabric and UCX, with the PMI client libraries they start from.

    tlc -workers 2 -config prg.cfg MCPingpongPrg           # a run
    tlapm PingpongPrgProofs.tla                            # the proofs

`PROJECT.json` lists the components, runs, mutants, hazards and theorems, and
maps every definition to the source lines it models.

## 1. The system

### Parts

| Part | Source | State | Operations |
|---|---|---|---|
| progress-thread ping-pong | `benchmark/pingpong_prg.cpp` | `syncs`, `next_worker_idxes`, `progress_counters`, time accumulators, `thread_started`, `thread_stop`, posted receives | `send_thread`, `recv_thread`, `progress_thread`, `reset_counters`, `main` |
| experiment driver | `include/comm_exp.hpp` | `totalExecTimes`, message size, iteration | `RUN_VARY_MSG`, `comm_init`, `comm_free`, statistics |
| threads and barriers | `include/thread_utils.hpp` | OpenMP team | `thread_run`, `thread_barrier`, `proc_barrier` |
| verbs back end | `include/bench_ib.hpp`, `bench_ib_helper.hpp` | device, CQs, SRQ, queue pairs and their states | `init_*`, `put/get/connect`, `isend`, `irecv`, `progress`, `free_*` |
| libfabric back end | `include/bench_ofi.hpp` | fabric, domain, endpoint, address vector, CQ | the same interface |
| UCX back end | `include/bench_ucx.hpp`, `include/ucx_util.h` | context, workers, endpoints, callbacks | the same interface with callbacks |
| symmetric ping-pong | `benchmark/pingpong_sym.cpp` | one context and two completion queues per thread | send and receive lambdas, prepost |
| UCX variants | `benchmark/pingpong_prg_ucx.cpp`, `pingpong_sym_ucx.cpp` | as above, counters written by callbacks | callbacks, workers, progress threads |
| PMI wrapper | `modules/pmi/pmi_wrapper.c` | - | `pmi_init/put/get/barrier/finalize` |
| PMI-1 client | `modules/pmi/pmi1/simple/*` | connection, `PMI_initialized`, KVS name, key/value table, read buffer | `PMI_Init`, `Barrier`, `KVS_*`, `Publish`, `Spawn`, `Abort`, `Finalize`, line protocol |
| PMI-2 client | `modules/pmi/pmi2/client/*` | connection shared by threads, `pmi2_mutex`, pending-request queue | the `PMI2_*` calls, command reader |
| logging | `modules/log/mlog.c` | log level | `MLOG_*` |

### How they interact

`main` starts PMI, makes the device and its queues, publishes the addresses of
its contexts through PMI (`pmi_put` ends with a barrier), reads those of the
partner process (`target_rank`) and connects the queue pairs.  It then starts
the progress threads, waits until each has posted its receives, and runs the
workers as an OpenMP team.  Each worker executes `RUN_VARY_MSG`: per message
size a reset, a barrier of all threads of all processes, a warm-up loop, a
barrier, a second reset (with prefilled work), a barrier, the timed loop and a
barrier of its own team; after the last size one more global barrier.  In the
loops a worker sends to its partner worker and waits for its `sync` to become
positive.  A progress thread polls its completion queue and hands every
received message to the next worker of its class, round robin.  At the end
`main` stops and joins the progress threads, destroys the queues, and leaves
through a last PMI barrier.

### What is hard here

* `reset_counters` writes the counters of all threads without a lock; only the
  barriers around it keep it apart from the loops, and after the timed loop that
  barrier is local to the process.
* A message is credited to whichever worker is next, so no single test shows
  whether every worker gets all of its messages.
* `proc_barrier` is composed from two barriers of different scope and reused at
  once.
* Start-up and teardown are ordered between processes only through the same
  barriers.
* Addresses travel as text through a key-value space whose results nobody checks,
  and the two ends of a connection are made by different loops in different
  processes.
* Two plain variables (`next_worker_idx`, `progress_counter`) are written by two
  threads.

The list with source lines and the properties that watch each place is in
`PROJECT.json` under `hazards`.

## 2. The modules

| Module | Models | State and actions against the code |
|---|---|---|
| `Barrier` | what a reusable barrier promises | calls and returns counted per party; instantiated for `thread_barrier`, `pmi_barrier` and `proc_barrier` |
| `ProcBarrier` | `omp::proc_barrier` | one action per entry and return of its two team barriers and of thread 0's `pmi_barrier`; shown to implement `Barrier` |
| `RunVaryMsg` | `RUN_VARY_MSG` | `stage` is the worker's place in the macro, `sizeIdx` and `iter` its loops; `Run...` actions are the barriers, the iterations, the store of the time and the report |
| `PingpongPrg` | `pingpong_prg.cpp` with `isend`, `irecv`, `progress` of the verbs back end | extends `RunVaryMsg`; each store of `reset_counters` and each load, store and signal of a dispatch is an action of its own; `Deliver` is the adapter |
| `PingpongPrgTokens` | - | the properties of `PingpongPrg` that count messages |
| `UcxStart` | the first half of `main` of both UCX benchmarks, `bench_ucx.hpp` | contexts and endpoints, `put_ctx_addr`, `get_ctx_addr`, the connects, and every `pmi_barrier` between them; `start`, `ctx` and `item` are the place and the loop indices of `main` |
| `UcxLinks` | contexts, endpoints and connects in `main` of `pingpong_prg_ucx.cpp` | operators of the numbers of workers and progress threads: what `PingpongPrgUcx` gives to `UcxStart`, and the proofs reason about |
| `PingpongPrgUcx` | `pingpong_prg_ucx.cpp` with `isend_tag` and `progress` of the UCX back end | extends `RunVaryMsg`, starts with an instance of `UcxStart`; handlers, retried sends and the two halves of `recv_msg_cb` |
| `PingpongSymUcx` | `pingpong_sym_ucx.cpp` with the UCX back end | extends `RunVaryMsg`, starts with an instance of `UcxStart`; `recv_msg_cb` runs inside a worker's own calls of `progress`, also while it retries a send |
| `PingpongSym` | `pingpong_sym.cpp` with the verbs back end | extends `RunVaryMsg`; the four calls of the lambdas, messages and acknowledgements |
| `Bootstrap` | `main` of `pingpong_prg.cpp` around its workers, `bench_ib.hpp` and `bench_ofi.hpp` | creation, address exchange, connection, teardown; `backend` says which of the two is built; the driver is seen through its `pmi_barrier` calls |
| `SimplePmi` | `simple_pmi.c` | a call is a `GetResponse`: write, then read; `PMI_Init` is several in a row; the process manager is external |
| `PmiUtil`, `Readline` | `simple_pmiutil.c` | bounded copies, parser and `PMIU_getval` as operators; `PMIU_readline` over a stream that arrives in pieces, always of the same descriptor |
| `Pmi2Client`, `Pmi2Wire` | `pmi2_api.c` | calls of several threads over one descriptor with `pmi2_mutex`; the text of a command with its limits |

`MC...` modules instantiate them for TLC; `...Proofs` modules hold the theorems.

The modules are connected by what one promises and the next relies on.
`SimplePmi` and `Pmi2Client` show that `PMI_Barrier` and `PMI2_KVS_Fence` are
the barrier of `Barrier`, and that a get sees the puts before it.  `Bootstrap`
and `UcxStart` use that barrier and that key-value space to exchange addresses.
The UCX benchmarks instantiate `UcxStart`, so their runs go from the first
context to the last barrier; the verbs benchmarks begin where `Bootstrap` has its
driver.  `ProcBarrier`
builds the barrier of all threads from it, and `RunVaryMsg` uses that one.  The
benchmarks extend `RunVaryMsg`; their behaviours are behaviours of the driver.

### Abstractions

* Messages carry nothing that control depends on: a channel is a number.
* The test of a `sync` and its decrement are one step, since nobody else
  decrements it while its worker is in a loop.
* `next_worker_idx` is a plain variable.  Where the code reads it twice around a
  possible store of another thread, `PrgStore` allows either value.
* A time is represented by the number of sizes it has been stored for.
* `%d` of an unsigned queue-pair number and `sscanf` back into it are modelled
  modulo the word (`printed_ib`, `parsed_ib`), so numbers that print negative
  occur.  A libfabric name prints all of its bits (`printed_ofi`).  Of a UCX
  address the first bytes are printed (`printed` of `UcxStart`).
* The table of `PMIU_parse_keyvals` has 64 entries (`TabSize` here) and its index is
  not compared with that number.  What a store behind the table does is undefined;
  the parser of the model says that it happened (`overrun`) and goes on.
* `PMIi_WriteSimpleCommand` refuses a name, key or value that is too long, and a key
  for which there is no room (`CommandRoom`).  It does not look at the room while it
  copies a value; a value that does not fit is `overrun` here.
* `PMIU_readline` keeps what it read too much in static variables and complains if
  it is called for another descriptor before that is used up.  The clients have one
  descriptor, so this check (`simple_pmiutil.c:116`) is left out.
* A put that is too long stands for one that is too long for a line and for the pair
  a process without a manager keeps (`LocalRc`).
* A UCX completion may be reported after the answer to its message has come.
* Clocks, statistics, `progress_counters`, the compute phase, argument parsing
  and logging decide nothing and are left out.

## 3. The runs

| Run | Instance | Shows |
|---|---|---|
| `proc_barrier` | 3 processes, 2 threads, 2 calls | `proc_barrier` implements `Barrier`, liveness included |
| `prg` | 2 processes, 2 workers in one class, 2 sizes | loops aligned, resets isolated and quiet, reports of one size, fair round robin, start-up and teardown order |
| `prg_leftover` | prefilled work over 2 sizes | messages left over from the loop before only add tokens; receives are kept; termination |
| `prg_ucx` | 2 processes, 2 workers in one class, 2 sizes, 1 send per endpoint | endpoints wired both ways (and the connect loops for every number of up to 6 workers), handlers come first, fair sharing, no message lost in a retry, termination |
| `prg_ucx_index_reset` | the same, 1 size | **violation**: see section 6 |
| `sym_ucx` | 2 processes, 2 workers, 2 sizes, 1 send per endpoint | partner workers wired to each other, one message or turn per pair, quiet resets, termination |
| `sym` | 4 processes in 2 pairs, 2 sizes | one completion per poll, bounded receive queue, quiet teardown, termination |
| `boot` | 4 processes in 2 pairs, over verbs and over libfabric | wiring, connected while sending, termination |
| `pmi` | 2 processes, any two of 5 programs | requests and answers in step, barrier, put/get, calls return; the process manager may die at any step |
| `pmi_init` | 2 processes | **violation**: see section 6 |
| `readline` | 2 of 5 messages, reads of up to 5 characters, strings up to 5, a table of 2 | no character lost, lines parsed as sent, parser (up to its table) and copies against references |
| `pmi2` | 2 processes of 2 threads, 3 jobs, one with two fences | responses reach their threads, gets after a fence, fence as reusable barrier, calls return, command text round trip |

Every property of a passing run has a mutant in `PROJECT.json`: a version of one
mapped definition with a plausible bug, under which TLC finds the property
violated.

### Why these bounds

* Two processes are a sender and a receiver; with two, `target_rank` cannot be
  told from the next rank, so `sym` and `boot` use four.
* Two workers in one class make the round robin wrap.  That classes do not mix
  (`OwnClass`) is proved for every number of them and not run.
* Two sizes are the least with which a loop follows another one and an early
  process resets while its partner is still in its timed loop.  Two timed
  iterations let a worker be a whole iteration ahead.
* Prefilled work over two sizes is run with one worker per process, to keep the
  run small.  Two workers of a class with prefilled work over two sizes are not
  checked.
* `numToPoll` 2 instead of 16 is the least with which a poll takes several.
  `NUM_PREPOST_RECV` is so small that queues do get empty or full.
* One send per endpoint is the least, and makes every second send of a worker
  meet a full endpoint when its completion is late.  All endpoint addresses of the UCX
  runs differ, so an endpoint that is connected to a wrong one is noticed.
* `boot` has three driver barriers: the first, the last and one between.
* The algorithms on strings are checked on all strings up to the bound of the cfg
  over the characters they tell apart.  Longer strings are not checked.
* `TabSize` 2 instead of 64 makes lines of three words overrun the table.
  `ParseMatchesReference` says that the parser agrees with the reference on lines
  that fit the table and overruns it on all others; what it computes then is not
  claimed.
* `PMI2_MAX_KEYLEN` 1, `PMI2_MAX_VALLEN` 2 and `CommandRoom` 16 let commands be
  refused for each of the reasons, and overrun.  `CommandRoundTrip` says that a
  command that was written whole is read back as it was, and that no text of up to
  `TextBound` characters, well formed or not, makes the reader store more pairs than
  it allocated, nor fewer on success, unless a key has a `;` in it.
* `MaxWorkers` 6 is the least with both two and three progress threads of several
  workers.  `Wired` evaluates the connect loops for all these numbers in the
  initial states of `prg_ucx`, whose own instance has one progress thread.
* `pmi2` runs three chosen jobs, not all combinations of calls: an address
  exchange beside gets, puts and the name server, and one in which threads wait
  for an attribute before it is put.  The first job calls the fence again after its
  gets, so a process may be in the second fence while its partner has yet to return
  from the first.  In them the calls without the mutex are made
  while the process has one thread.

### Fairness

Every thread and process is weakly fair.  The waits of the benchmarks are polling
loops under the default, preemptive scheduling policy, which suspends no runnable
thread for ever; this holds also when progress threads share a core, as they do
without an explicit binding (`pingpong_prg.cpp:151` binds all of them to core 15).
The adapter keeps delivering: `rnr_retry = 7` (`bench_ib_helper.hpp:112`) retries
for ever.  In `SimplePmi` and `Pmi2Client` a process manager that is up answers; it
may die at any time.  No strong fairness is used; `readline` and `prg`
check safety only and assume none; that the workers of `PingpongPrg` return is
checked by `prg_leftover`.

## 4. The proofs

All theorems hold for every number of processes, workers, progress threads, sizes
and iterations that the assumptions of the modules allow.

| Module | Theorems | Inductive invariant |
|---|---|---|
| `ProcBarrierProofs` | `ProcBarrierSeparates`, `ProcBarrierImplements` | `IInv`: where a thread is determines its counts in both barriers, and both separate |
| `RunVaryMsgProofs` | `LoopsAlign`, `ResetsIsolated`, `ReportsAreOfOneSize`, `NobodyIsLeftBehind` | `RunInv`: `stage` and `sizeIdx` determine how many barriers a worker has called and left |
| `PingpongPrgProofs` | `ImplementsRun`, `TypeCorrect`, `ReceivesKept`, `ClassesKept`, `ReceiversComeFirst`, `FreesAreSafe` | `IInv`: `RunInv`, phases of `main` against workers and progress threads, receives, classes |
| `PingpongPrgProofs` | `ResetsAreQuiet`, `SharesAreFair`, `TokensAreConserved` | `TokenInv`: `IInv`, where a worker is in an iteration and thread 0 in a reset, `Flow` and `RoundRobin` (see below) |
| `PingpongSymProofs` | `ImplementsRun`, `TypeCorrect`, `PollsFindOne`, `RecvQueueBounded`, `MessagesFindReceives`, `FreedQuietly` | `IInv`: `RunInv`, receives and sends follow from the next call, each pair of workers shares one token |
| `BootstrapProofs` | `ConnectsPartners`, `StaysConnected`, `ObjectsOutliveUsers`, `LeavesTogether` | `IInv`: place and loop index of `main` determine barriers passed, keys put, addresses read, queue-pair states and objects, for either back end |
| `UcxStartProofs` | `Connects`, `PrgConnects` | `StartInv`: processes that have passed equally many barriers are in the same leg of the start-up, one that has passed one more is in the next; what is stored, read and connected follows from the loop indices |
| `PingpongSymUcxProofs` | `ImplementsRun`, `ImplementsStart`, `AlwaysWired`, `OneBallHolds`, `ResetsQuiet`, `HandlersFirst` | `WorkInv`: `RunInv`, phases of `main` against workers, slots of an endpoint against sends under way, and `Flow`: what a worker has sent its partner has taken, counted or not yet found |
| `SimplePmiProofs` | `Invariance`, `StaysInStep`, `BarrierSeparates` | `IInv`: the command says which call a process is in, one line per process is under way, all have been let out of equally many barriers |
| `SimplePmiProofs` | `ExchangeWorks`, `BarrierImplemented` | `ExchangeInv`: `IInv`, and how far a process is in its program determines what it has stored and how many barriers it has called |

The argument is the same throughout.  The properties speak about several threads
or processes, and no step of one of them can be justified from its own state.
What ties them together is that a barrier call is not left before all have made it
(`Separated`).  So the strengthening says how many calls a thread has made given
where it is; comparing the counts of two threads bounds where the other can be.

`ImplementsRun` shows that each step of a benchmark is a step of the driver or
leaves it alone, so the theorems of `RunVaryMsgProofs` hold of the three
benchmarks it is proved for.  In the same way `ImplementsStart` makes `Connects`
hold of `PingpongSymUcx`, whose contexts and connects are shown to meet
`StartAssumption`.  `PrgConnects` shows the same of the contexts and connects of
`pingpong_prg_ucx.cpp` (`UcxLinks`): worker `t` is number `t \div rx` of class
`t % rx`, so the loop over workers and the loop over progress threads name the same
endpoint, and two workers never share one.  Like `Connects` it assumes that the printed bytes hold the
addresses.  That is all the start-up needs of a benchmark: connects that
are made once per endpoint and come in pairs, and addresses that the printed bytes
hold.

`WorkInv` of `PingpongSymUcx` counts instead of comparing places: `Flow` equates
the messages a worker has sent since it began with those its partner has taken, is
counted for or has on the way.  At a reset the barriers make the two counts equal,
or leave the partner at most behind, so nothing can be under way.

`TokenInv` of `PingpongPrgTokens` does the same for a class of workers, where a
message has no single addressee.  `Handed` is what a worker has been handed since
it began: taken and waiting, less prefilled.  `Balanced` says that all messages
sent to a progress thread have been handed out or are in its backlog.  With
prefilled work and several sizes a reset may store over what is left, so there it
is an inequality.  The sums are sizes of sets (`Total`): the lemmas about them need
bijections between finite sets and no recursion.  From `Balanced`:

- When thread 0 resets, each worker of its process has taken as much as any worker
  that sends to it has sent.  There are as many of the one as of the other
  (`SendersFit`), so the sums leave nothing for the backlog: `QuietAtReset`.
- `RoundRobin` says that the workers before the one whose turn it is are one
  message ahead.  Only the index stored by a reset could break it, and a quiet
  reset finds all workers level: `FairShare`.
- A worker's next send is a token that it began with, was handed or was given
  prefilled, and has not sent on.  Added up over two opposite classes, what one has
  sent is what the other was handed, and the rest does not change in a loop:
  `TokensConserved`.  This needs an even number of processes; with an odd number
  they form a cycle and no pairs.

`ExchangeWorks` and `BarrierImplemented` hold for `Conventional` programs: they
call `PMI_Init` first and only then, and nothing after `PMI_Finalize`.  That is
what `pmi_master_init` and `pmi_finalize` do.  A value put before a barrier is in
the key-value space when anyone is let out of it, because the put was answered
before its process could call the barrier.

Assumptions: the number of processes is positive, and even in `Bootstrap`,
`PingpongSym`, `UcxStart`, `PingpongSymUcx` and `TokensAreConserved`; `tx_thread_num` is a multiple of
`rx_thread_num`, which `main` checks; `RX_QUEUE_LEN` is at least 5 in
`PingpongSym`; queue-pair numbers fit the word.  The code does not check that the
number of processes is even.

The inductive invariants are no properties of the runs, which check what follows
from them.  TLC was used to find them; what establishes them is the proof.
`NobodyLeftBehind`, `Separated` of `ProcBarrier`, `TypeOK` and `OwnClass` of
`PingpongPrg`, `UsesLive` and `LeavesLast` of `Bootstrap`, `NoRnr` of
`PingpongSym`, `BarrierHolds` of `SimplePmi` and `HandlerFirst` of
`PingpongSymUcx` are likewise proved and in no run.

Only model-checked: all liveness; `PingpongPrgUcx` (`HandlerFirst`, `FairShare`,
`TokensConserved`, and that its steps are those of the start-up of `PrgConnects`),
which is `PingpongPrg` with a queue per worker and
a second race on the index; `Pmi2Client`, whose run is about particular jobs of two
threads; `Readline` and the other string algorithms, which are recursive.  The
`TypeOK` of these modules documents the types and is in no run.

## 5. What is not modelled

* Sends, receives and completions over libfabric.  The benchmarks call them through
  the same interface as over verbs; how `fi_cq_read` and `fi_tsend` behave
  under load is the library's, and the code around them has no control but a retry.
* `ucx_util.h`, the search for a transport in `init_iface`, choice of device, port
  and provider, memory registration and alignment: calls into libraries without
  control of their own.
* `get_additional_stats` of `pingpong_sym_ucx.cpp`, which ends without a value; the
  statistics, clocks and `progress_counters` of all benchmarks.
* `PMI_Spawn_multiple` and the connection through `PMI_PORT` of PMI-1, which the
  build leaves out; `PMIU_chgval` and the dump of the table.
* `PMIX_Ring`, the pairs that `PMI2_Job_Spawn` puts together, `PMI2_Abort`, the
  connection through `PMI_PORT` and its handshake of PMI-2.  Its queue of pending
  requests decides nothing here: without `MPICH_IS_THREADED` a thread reads its own
  response, and only a message under `PMI2_debug` looks a request up.
* The process manager, OpenMP, the adapters and UCX are not in the repository.
  They are modelled from how the code uses them.
* Failing verbs calls and `exit` in one process.
* An odd number of processes, or a minimal message size of 0.

## 6. Where code and documents disagree

Two disagreements are runs:

* `pmi_init`: `PMI_Init` ignores what `PMII_getmaxes` returns (`simple_pmi.c:183`)
  and reports success when the handshake failed; `pmi.h:76` documents success as
  "initialization completed successfully".
* `prg_ucx_index_reset`: the comment at `pingpong_prg_ucx.cpp:194` says that a
  reset leaves each index at the first worker.  `recv_msg_cb` signals the worker
  before it stores the index, and its store can come after the reset.  The effect
  is bounded: the sharing stays fair and all processes return (`prg_ucx`).

Further observations, made while reading or modelling and not stated as runs:

* With prefilled work, a message left over from the previous size makes the same
  happen in `pingpong_prg.cpp` (comment at 198).
* `PMI_Publish_name`, `PMI_Unpublish_name` and `PMI_Lookup_name` return success
  when no answer came (`simple_pmi.c:445`).
* `PMIU_writeline` drops a line that `snprintf` cut off, because it does not end in
  a newline, and the call waits for an answer (`simple_pmiutil.c:173`; the test for
  a long line at 169 cannot be met by a buffer of `PMIU_MAXLINE`).  `CallsReturn` says that nobody but such a put, and
  those in a barrier with it, is left waiting.
* The job functions and `PMI2_Finalize` of PMI-2 do not take the mutex.  Beside a
  locked call of another thread `Matched` fails.
* `PMI2_Info_GetNodeAttr` with `waitfor` keeps the mutex while it waits.  Threads
  that wait before the main threads put can lock all processes out; `AllReturn`
  says that this is the only way not to return.
* `get_additional_stats` (`pingpong_sym_ucx.cpp:113`) is declared to return a tuple
  and has no `return`.
* `pingpong_prg.cpp:292` passes `addrs[i]` for every worker; over libfabric `addrs`
  has only as many entries as there are progress threads.  `connect_ctx` does not
  use them there.
* `PMI2_Job_Spawn` does not look at the `rc` of the response; it fails only if there
  is no response or no job id in it.
* `PMIU_parse_keyvals` does not compare its index with the size of its table
  (`simple_pmiutil.c:230`), nor `PMIi_WriteSimpleCommand` the room that is left with
  the length of a value (`pmi2_api.c:1617`).  The lines of a process manager have
  few words, and the pairs of the calls are few and short.
* `pmi_wrapper.c:13` passes `size` and `rank` to `PMI2_Init` by value.

## 7. What is left

In order of what it would add:

1. Prove `PingpongPrgUcx`: `ImplementsRun`, `ImplementsStart` and `HandlerFirst`
   along the lines of `PingpongSymUcxProofs`, `FairShare` and `TokensConserved` along
   those of `PingpongPrgProofs`.
2. Prove `Matched` of `Pmi2Client` for jobs that respect the mutex.
3. Compose `Bootstrap` with `PingpongPrg`, so that `DriverBarriers` is the driver,
   as `UcxStart` is composed with the UCX benchmarks.
4. A run of prefilled work with two workers per class, with a smaller driver.
