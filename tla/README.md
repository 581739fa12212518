# Verification of the on-board computer software (obcsw)

This directory holds TLA+ specifications of obcsw, the configurations that
model-check them with TLC, and proofs that TLAPS checks. It is kept beside the
C++ sources: file names and line numbers below and in `PROJECT.json` refer to
`include/`, `src/` and `tests/` of the repository.

## 1. The system

obcsw is one process. `main()` loads a configuration, starts a telemetry
dispatcher with a thread of its own, queues three demonstration commands, and
then loops: produce a telemetry frame, look for faults in it, hand it to the
dispatcher, execute the queued commands, sleep. SIGINT or SIGTERM clears
`g_running`; the loop ends, the dispatcher is stopped, its counters are printed.

```
            signal ──► g_running
                          │
 ConfigLoader ──cfg──►  main()  ──frame──► FaultDetector ──callback──► fault flags
                        │     │
             enqueue()  │     │ push(), tryPop(), dispatch()
                        ▼     ▼
       TelemetryDispatcher   CommandQueue ──► CommandHandler
        │ dispatch thread      ▲
        ▼                      │ fromJson()
   TelemetrySerializer       CommandDeserializer ◄── JSON text
        ▼
    UDP socket
```

### Inventory

| Component | State | Operations | What makes it correct |
|---|---|---|---|
| `TelemetryDispatcher` | `m_queue`, `m_running`, `m_thread`, `m_sock_fd`, two atomic counters | `enqueue()` from any thread; `start()`, `stop()`, destructor by the owner; `dispatchLoop()` in its own thread | no accepted frame lost, duplicated or overtaken; every frame counted once; the socket outlives the thread that uses it; nothing leaks; `stop()` returns |
| `CommandQueue` | `m_queue`, a mutex, a condition variable | `push()`, `popWait()`, `tryPop()`, `empty()`, `size()` from any thread | linearizable bounded FIFO; one `notify_one()` per push is enough; a timed-out wait misses no command; waits end |
| `FaultDetector` | the thresholds, a callback | `evaluate()` | a callback for each violation, none without one |
| `CommandDeserializer` | none | `fromJson()`, `resolveOpcode()` | only opcodes of the allowlist, the numbers of the text, a documented exception for everything else |
| `CommandHandler` | `m_handlers` | `registerHandler()`, `dispatch()`, `dispatchRaw()` | every allowed command finds its handler, refused ones run nothing |
| `ConfigLoader`, `SatelliteConfig` | none; the configuration | `load()` | the whole file or the defaults; what is left out has its default; what is contradictory is refused |
| `TelemetrySerializer`, `TelemetryFrame` | none; the frame | `toJson()`, `fromJson()`, `batchToJson()` | what is sent can be read back |
| `main()` | fault flags, frame number, the local frame | the loop, the fault callback, `signalHandler()` | frames go down in order with flags that match their readings; commands are executed; a signal ends the program with a final report |

Interaction is by direct calls, except that the dispatch thread shares the
queue (under `m_queue_mutex`), `m_running` and the counters (atomics) and
`m_sock_fd` (not protected) with the callers, that the fault callback runs
inside `evaluate()`, and that the signal handler writes an atomic.

### What is hard to get right here

* Concurrency: `enqueue()` against `dispatchLoop()` against `stop()`; several
  callers of one command queue; a signal at any instruction.
* A frame is taken, sent and counted in three steps, and is in between neither
  in the queue nor in a counter.
* Failures: `socket()`, the constructor of `std::thread`, `inet_pton()`,
  `sendto()`; an exception of `toJson()` in a thread that catches nothing.
* Waiting: spurious wake-ups, timeouts that race with a push, `join()` on a
  thread that must first notice that it is to stop.
* State that lives for one frame (`fault_active`) beside state that stays
  (`safe_mode`, `fault_code`).
* Conversions that narrow without a word, and defaults written in two places.

`PROJECT.json` lists these hazards one by one, at the lines where they bite,
with the properties that cover them.

Worth knowing when reading the code: `scripts/src`, `scripts/tests` and
`scripts/CMakeLists.txt` are byte-identical copies of the files modelled here;
`bind_port`, `command_timeout_ms` and `watchdog_interval_ms` are loaded and
never used; there is no thread that receives commands over UDP, and `main()`
never calls `popWait()` or `dispatchRaw()`. The modules describe what these
classes offer, not only what `main()` uses of it.

## 2. The modules

| Module | Models | Remarks |
|---|---|---|
| `Counters` | increment of an unsigned counter modulo its width | |
| `TelemetryChannel` | abstract: what the dispatcher promises | bounded FIFO that settles frames while it is on |
| `TelemetryDispatcher` | `telemetry/TelemetryDispatcher.{h,cpp}` | implements `TelemetryChannel` |
| `BoundedFifo` | abstract: what the command queue promises | |
| `CommandQueue` | `command/CommandQueue.{h,cpp}` and the wait set of the condition variable | implements `BoundedFifo` |
| `SatelliteConfig` | `SatelliteConfig.h`, comparison of doubles | operators only; `Sound` is what `ConfigLoading` guarantees and `ObcMain` assumes |
| `FaultDetector` | `health/FaultDetector.{h,cpp}` | operators only: it has no state; extends `SatelliteConfig` |
| `GroundView` | abstract: what the program shows the ground station and its operator | frames in order, a number printed at the end |
| `ObcMain` | `main.cpp` | instantiates `TelemetryDispatcher` and `CommandQueue`, extends `FaultDetector`, implements `GroundView` |
| `CommandIngest` | `CommandDeserializer`, `CommandHandler`, and their use in `main.cpp` | instantiates `CommandQueue` |
| `ConfigLoading` | `ConfigLoader.cpp` and its use in `main.cpp` | extends `SatelliteConfig` |
| `TelemetryJson` | `TelemetrySerializer.cpp`, `TelemetryFrame.h` | one step per call |
| `ModularCounting` | lemmas about numbers modulo n | proofs |
| `TelemetryDispatcherProofs`, `CommandQueueProofs` | theorems about the two concurrent classes | proofs |
| `FaultDetectorProofs` | what `evaluate()` reports; lemmas about sequences | proofs |
| `ObcMainProofs` | theorems about the program | instantiates `TelemetryDispatcherProofs` and `CommandQueueProofs`, extends `FaultDetectorProofs` |
| `CommandIngestProofs`, `ConfigLoadingProofs`, `TelemetryJsonProofs` | theorems about what comes in and goes out | the first instantiates `CommandQueueProofs` |
| `MC_*` | constants for TLC | |

Definitions named under "Mutant" are plausible mistakes in the code. Each is
put in the place of the definition it imitates, to see that a property notices.
They are no part of any specification.

### TelemetryDispatcher

Variables carry the names of the members. Three more describe threads: `loop`
is where `dispatchLoop()` is, `frame` its local variable, `owner` whether the
owner is in `stop()` or the destructor. `openFds` (kernel) and `wire` (network)
are the environment; `offered`, `started` and `active` are history.

A critical section of `m_queue_mutex` is one step. `enqueue()` is nothing but
one. `dispatchLoop()` is divided wherever another thread can look in between:
reading `m_running`, waking up, taking a frame or finding the queue empty,
`sendto()`, counting. `stop()` is divided at `join()`. `start()` is one step per
outcome: nobody can see its intermediate states, because the thread it creates
is the only one that reads what it writes. `start()`, `stop()` and the
destructor are called by one thread: only `enqueue()` is made thread-safe by the
class. Callers may do all of these in any order: frames are accepted before
`start()` and after `stop()`, and a dispatcher may be started again.

`std::terminate()` is modelled as `owner = "terminated"`: `toJson()` throws when
`satellite_id` is not UTF-8, and destroying a dispatcher is then no more
possible. The frame it was thrown for stays accepted and unsettled; what that means
for the program is the subject of `AbnormalEndIsEarly` in `ObcMain`.

### CommandQueue

`pc[t]` says whether caller `t` is in no call, in the wait set, out of it in time
or out of it after the deadline. `popWait()` is split where `wait_for()` gives up
the mutex. A waiter leaves the wait set because it was notified, for no reason,
or because time is up; then it evaluates the predicate under the mutex again.
`notify_one()` picks any waiter. Time itself is not modelled: a deadline may pass
at any moment, and must pass eventually.

### ObcMain

The main thread, the dispatch thread and the signal interleave. Main's steps end
where it touches what the others can see. The dispatcher's and the command
queue's actions are used as they are. The configuration is a variable: it is any
of `Configurations`, of which only `Sound` is assumed, so that thresholds that are
a NaN or in the wrong order are included. `Simulated(id)` is `generateFrame()`: the
loads follow the number of the frame as in the code (with `CpuCycle` and
`MemoryCycle` for 60 and 45), and the sinusoids of the time are a triple of `Orbit`,
within the ranges their formulas have. Formatting and the members of a frame that
neither the fault detector nor the order of the frames depends on are left out.
With the shipped thresholds the simulated loads, at most 89 % and 84 % against limits
of 90 and 85, never put the program into safe mode (`NoSpuriousSafeMode`), and the
other readings violate no threshold either, so running the program does not exercise
the fault path at all; the model does.

`GroundView` hides the threads, the queues and the flags. It is to the whole program
what `TelemetryChannel` is to the dispatcher: frames come with growing numbers, safe
mode once seen stays, the number printed is that of the frames sent, and the rest is
silence. `ImplementsGroundView` relates them; a frame has been received when
`sendUdp()` has sent it, which is before the thread counts it.

An exception ends the process in two places, as nothing in `main()` or in the dispatch
thread catches it: `start()` throws (`pc = "terminated"`), or `toJson()` does
(`owner = "terminated"`). `ShutdownCompletes` counts both as an end, so it does not say
when they may happen. `AbnormalEndIsEarly` does: before anything was sent or never,
because the name in a frame is the configured one and does not change, and because the
first frame main makes meets an empty queue and is accepted.

### CommandIngest

A text is what the JSON parser makes of it: a syntax error, a number that
overflows, or an object with some of the fields `fromJson()` reads. A value is a
type with, for numbers and booleans, a number. `ToUnsigned` is what
`get<uint8_t>()` and `get<uint32_t>()` do: integers are reduced, floats out of
range are undefined behaviour and yield anything. Exceptions are told apart by
what `dispatchRaw()` catches. `DispatchRaw`, `InjectCmd` and `DispatchNext` are the
two ways a text can take to a handler.

### ConfigLoading

One action per section, in the order of the code, on a local configuration.
A section may be absent, present, or a scalar (yaml-cpp then throws when a key is
looked up). A key may be absent, unconvertible, or have a value. `Defaults` and
`Fallbacks` are the two places where the code writes the default values.

### TelemetryJson

A caller holds a frame, writes it alone or in a batch, reads back what was written,
or reads a text from elsewhere. A text maps places to values with a JSON type; a
place is the keys on the way to it, less `subsystems`. `WrittenTo` says where
`toJson()` puts each member, `ReadFrom` where `fromJson()` looks for it, and
`ReadAs` as what type it reads it. They are written out one by one, as the code
does, so that a key swapped or a type narrowed on one side is a disagreement of two
tables, which `RoundTrip` and `PassedOn` notice. `Encode` is what `dump()` and
`parse()` make of a member: a double that is no number becomes `null`, a name that
is not UTF-8 makes `dump()` throw. `Decode` is what `get<T>()` makes of a value:
integers are reduced to the type, integers become doubles with rounding beyond
`Exact` (2^53 in the code), a float in an unsigned member is undefined behaviour
when it does not fit and yields anything; what the library does not convert it
refuses. Doubles are integers here: the digits `dump()` prints are enough to read
the same double back, so nothing depends on the fractional part. Beyond `Exact` only
the first binade is modelled.

`ObcMain` needs of it only which frames cannot be written (`NotUtf8`). The readings
main simulates are always numbers, so by `RoundTrip` every frame main sends can be
read back. What a receiver of other texts cannot rely on is that a percentage is one:
`Decode` accepts 200 and reduces 300 to 44. Nothing in the repository says what should
happen to such a number, so no property asks for it.

## 3. Model checking

| Run | Result | States | What it shows |
|---|---|---|---|
| `dispatcher` | passes | 150 410 | `TypeOK`, `Accounting`, `SocketLive`, `NothingLeaks`, `ImplementsChannel` (refinement with liveness), `QuietStopReturns`, `StopAdvances`: two producers, failing and repeated starts, stops, destruction, failing sends, a frame that cannot be serialized |
| `dispatcher_stop_returns` | violated | | `StopReturns` does not hold (finding 1) |
| `dispatcher_half_started` | violated | | `StartedMeansDispatching` does not hold (finding 2) |
| `command_queue` | passes | 16 094 | `TypeOK`, `NoLostWakeup`, `ImplementsFifo`, `PopWaitReturns` |
| `main_program` | passes | 412 878 | `TypeOK`, `DownlinkOrdered`, `FlagsMatchReadings`, `ReportAccounts`, `CommandsExecuted`, `FlagsRemember`, `AbnormalEndIsEarly`, `ShutdownCompletes`, `ShutdownAdvances`, `ImplementsGroundView` (refinement) |
| `main_overheating` | violated | | `OverheatingIsAFault` does not hold (finding 3) |
| `command_ingest` | passes | 50 707 | `TypeOK`, `AllowedOnly`, `CommandsFaithful`, `WellFormedRuns` |
| `ingest_failure` | violated | | `FailureIsRejected` does not hold (finding 4) |
| `ingest_narrowing` | violated | | `UnknownOpcodeThrows` does not hold (finding 5) |
| `config_loading` | passes | 77 085 | `OneConfiguration`, `NeverInvalid`, `MinimalFileIsUsed` |
| `config_nan` | violated | | `BatteryThresholdsOrdered` does not hold (finding 6) |
| `telemetry_json` | passes | 32 104 | `TypeOK`, `RoundTrip`, `PassedOn`, `BatchIsComplete` |

Deadlock is checked everywhere; a process or an object that has ended stutters.
The comment before each property says what it means and which code it is about.

### Bounds

* Queue depths of two: empty, partly filled, full, and order matters. Depth 1
  is enough where a run only has to show a violation.
* Two producers, so that two calls compete for the last place, and three frames,
  one of which cannot be serialized.
* Two descriptors, so that a closed one and a new one differ.
* `CounterMod` (2^64 in the code) is 5 or 2: the counters wrap within the run.
* Three callers of the command queue: two waiters and one that pushes, or three
  waiters. Two commands, so that the order shows.
* `MaxFrames = 4` frames in `main_program`: one in the hands of the dispatch
  thread, two queued, one refused. At the bound main can only wait for the signal,
  so that the signal's arrival is still arbitrary. `ShutdownCompletes` is not
  affected: it starts from the signal.
* `CpuCycle = 3` and `MemoryCycle = 2`: an overload begins and ends within the run.
  Five times of the orbit and three configurations, so that each threshold is
  violated and respected, by itself and with others, with contradictory
  thresholds, and with a name that cannot be serialized. Three demonstration
  commands on a queue of two, so that one is refused.
* Texts on both sides of every test in `fromJson()`; sequence numbers modulo 3.
* Files with up to two keys that differ from the defaults, in every arrangement
  of sections with at most one malformed section: the tests of `load()` relate at
  most two keys.
* JSON: unsigned types of two, three and four bits, `Exact = 8`; frames that
  differ from one another in a single member, which takes the extremes of its
  type; texts that differ from a good one in a single place, which is missing or
  has a value of any type on either side of what fits; batches of up to two.

### Fairness

* Dispatch thread (`WF(DispatchLoop)`): the operating system runs it, its sleep
  ends, and it gets the mutex, which others hold for a few instructions.
* `WF(FinishStop)`: `join()` returns once the thread has.
* Nobody has to call `enqueue()`, `start()` or `stop()`, or to stop calling.
  That is why `stop()` needs the hypothesis of `QuietStopReturns`.
* `CommandQueue`: deadlines pass, and a thread that has left the wait set after
  its deadline gets the mutex. No caller has to push or pop.
* `ObcMain`: both threads run. No signal has to come.
* `TelemetryChannel` asks for weak fairness of settling a frame, which the
  dispatcher provides while its thread is alive.

### Findings

Each is a disagreement between the code and what its documentation says, shown by
a counterexample; the details are in `PROJECT.json`.

1. `stop()` need not return: the inner loop of `dispatchLoop()`
   (`TelemetryDispatcher.cpp:70`) never looks at `m_running`, so a producer that
   keeps up with `sendto()` keeps it alive. `main()` is safe, as its
   only producer is the thread that calls `stop()` (`ShutdownCompletes`).
2. If the constructor of `std::thread` throws, `m_running` stays set
   (`TelemetryDispatcher.cpp:50`), and the next `start()` returns without a thread.
   `NothingLeaks` still holds: `stop()` cleans up.
3. `evaluate()` compares only the temperature of the computer with the
   thresholds (`FaultDetector.cpp:40`), though the frame has three temperatures.
4. `dispatchRaw()` lets the JSON library's type and range errors through
   (`CommandHandler.cpp:27`), where its comment promises `REJECTED`.
5. The opcode is reduced modulo 256 before it is compared with the allowlist
   (`CommandDeserializer.cpp:33`).
6. A battery threshold of `.nan` passes the validation (`ConfigLoader.cpp:60`).

Not a finding, but visible in the model: a frame that main enqueues just before
the signal can stay in the queue for ever and is in neither of the printed
numbers. `ReportAccounts` therefore counts the queue too.

## 4. Proofs

`TelemetryDispatcherProofs`, from `DispatcherAssumption` alone (any sets of
producers, frames and descriptors, any depth and any counter width):

| Theorem | Says |
|---|---|
| `TypeCorrect` | `Safety => []TypeOK`, the queue bound included |
| `AccountingCorrect` | `Safety => []Accounting` |
| `SocketOutlivesThread` | `Safety => []SocketLive` |
| `StopReleasesEverything` | `Safety => []NothingLeaks` |
| `ImplementsChannelSafety` | `Safety => Channel!Safety` |
| `StopComesCloser` | `Safety => StopAdvances` |
| `StopIsBounded` | `Safety => [](StepsLeft \in 0 .. 3 * MaxQueueDepth + 4)` |

The inductive invariant is `IInv == TypeOK /\ Accounting /\ SocketLive /\
NothingLeaks /\ HandOK`. None of the four is inductive alone. `SocketLive` needs
`NothingLeaks`: `start()` creates a thread only when `m_running` is clear, and only
`NothingLeaks` says that then no thread is left whose socket it would replace.
`NothingLeaks` needs `SocketLive` and what is known of `owner` for `FinishStop`.
`HandOK` says that a thread about to send holds a frame, which typing `LoopSend`
needs, that a terminated process has no owner that could join its thread, and that
`m_running` is clear while the owner waits, without which the thread would go back to
sleep instead of to its end.
`Accounting` rests on three facts: the number of frames settled, queued and in
hand is unchanged when a frame moves from one place to another, grows by one with
`enqueue()`, and the remainder of that sum grows with it. The last is
`ModularCounting`: division with remainder is unique, hence `Inc` commutes with
`%`; the arithmetic solver does not find this for a variable modulus. The
refinement proof maps each action to a step of the channel under `IInv`: taking a
frame from the queue is a stutter, because the frame stays pending, and so is
counting, because the mapping counts a frame when `sendUdp()` returns.

`StopComesCloser` and `StopIsBounded` are the part of `QuietStopReturns` that is no
liveness: a measure, bounded by the depth of the queue, that each step of the thread
decreases while the owner waits. Fairness of the thread is all that is missing. They
also say exactly what finding 1 is about: only `enqueue()` raises the measure, by
three at most, and one frame for every three steps is enough to keep it up.

`CommandQueueProofs`, from `QueueAssumption` (finitely many callers, any depth):

| Theorem | Says |
|---|---|
| `TypeCorrect` | `Safety => []TypeOK` |
| `NoWakeupLost` | `Safety => []NoLostWakeup` |
| `FifoImplemented` | `Safety => ImplementsFifo` |

`NoLostWakeup` with `TypeOK` is inductive. The argument counts: a push adds one
command and, if anyone sleeps, moves one sleeper to the awake ones; an awake
thread that goes back to sleep found the queue empty; one that leaves took a
command with it. Cardinalities come from `FiniteSetTheorems`.

`FaultDetectorProofs` needs no assumption. `EvaluateExact`: for every configuration
and every frame `evaluate()` reports exactly the kinds of violation the frame has,
in the order of their codes and so none twice. It is a composition of three
sequences whose elements lie in disjoint, ascending ranges.

`ObcMainProofs`, from `MainAssumption` (any configurations that are `Sound`, any
orbit within the ranges of the formulas, any cycles, depths and number of frames):

| Theorem | Says |
|---|---|
| `TypeCorrect` | `Spec => []TypeOK` |
| `ProgramRunsDispatcher` | `Spec => D!Safety` |
| `DispatcherSafeInProgram` | the dispatcher's four invariants hold in the program |
| `TelemetryInOrder` | `Spec => []DownlinkOrdered` |
| `FlagsTruthful` | `Spec => []FlagsMatchReadings` |
| `ReportCorrect` | `Spec => []ReportAccounts`, if `MaxFrames < CounterMod` |
| `CommandsCorrect` | `Spec => []CommandsExecuted`, if each command has a handler |
| `FlagsRemembered` | `Spec => []FlagsRemember` |
| `NoSpuriousSafeMode` | no frame is in safe mode, if no limit is below the largest simulated load |
| `AbnormalEndCorrect` | `Spec => []AbnormalEndIsEarly` |
| `ShutdownComesCloser` | `Spec => ShutdownAdvances` |
| `ShutdownIsBounded` | `MainLeft` is bounded by the depth of the command queue or the length of the demonstration |
| `ProgramHasChannel` | `Spec => D!Channel!Safety` |
| `ProgramRunsQueue` | `Spec => Q!Safety /\ Q!ImplementsFifo` |
| `GroundViewImplemented` | `Spec => ImplementsGroundView` |

The program is a run of the dispatcher: each step of `Next` is a step of `D!Next` or
leaves its variables alone. The only thing to know for this is that main enqueues
frames (`HandsOK`). So the dispatcher's inductive invariant holds in the program, and
its lemmas are used as they are, through the instance `DP`. A frame is in one of four
places, in this order: made by main, queued, in the hands of the dispatch thread, at
the ground. `Moves` sorts the steps of the program by what they do to these places;
`Genuine` (every frame carried is truthful, older than `frame_id`, and in safe mode
only if main is) and `InOrder` (each place is before the next, and the queue is sorted)
are inductive over these few moves. `EvaluateExact` is what makes a new frame truthful.
`ReportAccounts` follows from `Balanced`, which counts without a modulus what
`Accounting` counts with one, hence the hypothesis on `CounterMod`, and from
`ShutDown`: after `stop()` no thread is left that could count. The two hypotheses are
not in the model because it also describes counters that wrap and commands without
a handler; in the code they are 2^64 and the commands of `main()`.

`FlagsRemembered` needs more than `FlagsTruthful`: what a frame says of frames that
never came down. `Remembered` therefore speaks of numbers, not of frames: in every
frame carried, safe mode is on exactly if the readings of some number up to its own are
an overload, dropped frames included, and of two carried frames with consecutive
numbers the second repeats the fault code unless it has a fault. The steps that change
main's flags and those that move frames are apart, so each half is inductive over the
moves of the previous paragraph. `NoSpuriousSafeMode` follows: a load that no frame has
cannot have been remembered. Its hypothesis is met by the defaults of
`SatelliteConfig.h` with the cycles of `generateFrame()`.

`AbnormalEndCorrect` rests on `EarlyEnd`: under a name that is not UTF-8 nothing has been
sent, and frame 0 is in the hands of the dispatch thread, at the head of the queue, or
still to be made or enqueued, unless the queue has no place at all (`FirstComesFirst`);
a thread that has terminated has met such a name; and before `start()` has returned
nothing has happened (`Unstarted`). That every frame on its way bears the configured
name is part of `Genuine`.

The shutdown is treated as `stop()` is: `MainLeft` counts the steps of main, and falls
with each after the signal; in `join()` it is the dispatcher's `StepsLeft` that falls,
as main, the only producer, waits. `GroundViewImplemented` puts the rest together:
`Genuine` and `InOrder` show that what is sent comes later than what was sent, and
`Over` that the report is printed, and the program ended, only when no thread is left to
send. The mapping for the counter looks one step ahead, since a frame is sent before it
is counted.

Main is a proper user of both classes it shares: `ProgramRunsQueue` does for
`CommandQueue` what `ProgramRunsDispatcher` and `ProgramHasChannel` do for the
dispatcher, and `IngestRunsQueue` for `CommandIngest`. The two models that use the
queue assume that `nullopt` is no command (`NoCommand`), which is what `std::optional`
guarantees, and the queue's own assumption asks for.

`CommandIngestProofs`, from `IngestAssumption` (any texts, callbacks and opcodes to
register them for, any depth, any width of the sequence number): `TypeCorrect`,
`AllowlistHolds`, `CommandsAreFaithful`, `WellFormedCommandsRun` and `IngestRunsQueue`.
`Deserialized` says what can come out of `fromJson()`; the invariant relates every queued
command to the text it was made from (`Fits`), which is what its dispatch needs later.

`ConfigLoadingProofs`, from `FilesAssumption` (any files): `ConfigurationIsOne`,
`ConfigurationIsSound` and `MinimalFileWorks`. The invariant says which sections have
been read: the local configuration has what is meant for their keys and the defaults
for the others. That a key of an absent section is as meant rests on two facts about
the code's tables: the defaults agree, and no key is in two sections.
`ConfigurationIsSound` is the assumption `ObcMain` makes of its configurations.

`TelemetryJsonProofs`, from `JsonAssumption` (any frames and texts, types of any width):
`TypeCorrect`, `RoundTripCorrect`, `PassingOnCorrect` and `BatchCorrect`. `TablesAgree`
compares what `toJson()` and `fromJson()` spell out, `PlacesDistinct` says that no two
members share a place, and `ValueSurvives` is the round trip of one value, by type;
`FrameSurvives` lifts it to frames; `TextGivesPortable` says that what is read from any
text has no name that is not UTF-8 and no double that is not a number. The invariant
says of which frames the last text was made.

Only model-checked: liveness (`QuietStopReturns`, `PopWaitReturns`,
`ShutdownCompletes`, and the fairness part of `ImplementsChannel`), which is out of
the prover's reach; for the first and the third the measures above are proved, for
`PopWaitReturns` there is nothing to measure, as a spurious wake-up may come any number
of times before the deadline. Every other property that a passing run checks is proved:
invariants, action properties and refinements. The runs that expect a violation are
counterexamples and have nothing to prove.

## 5. Not modelled

* The decimal digits of a double, and those beyond `Exact` except the first
  binade; a text with a key twice (the library keeps the last one).
* `opcodeName()`, log messages, the `FaultEvent` fields beside the code, and the
  subsystem, parameters and timestamp of a command: nothing depends on them.
* Handlers that throw, and handlers or fault callbacks that call back into their
  caller. None in this repository does.
* Two threads in `start()` or `stop()` at once: nothing promises that it works.
* `std::bad_alloc`, and a `std::mutex` or atomic that misbehaves.
* Real time: intervals and timeouts are "some time later".
* The tests, the dashboard page, the build and the copy under `scripts/`.

## 6. Plan

Done: the dispatcher and its channel, the command queue and its FIFO, fault
detection, `main()` on any configuration `load()` lets through, command ingestion,
configuration, telemetry as JSON, the program as its users see it, and the proofs of
section 4. No component of `include/` or `src/` is left without a model, and no safety
property without a proof.

Two links between modules are still stated in words: that what `ConfigLoading` leaves
meets what `MainAssumption` asks of `Configurations` (both use `Sound`), and that the
frames of `ObcMain` are frames of `TelemetryJson` that `RoundTrip` covers. Both are
worth a theorem.

What would come next is only worth it when the code changes: a thread that receives
commands over UDP would make `popWait()` and `dispatchRaw()` part of the program, so
that `CommandIngest` would have to be composed with `ObcMain` as the dispatcher is,
and `bind_port` and `command_timeout_ms` would acquire a meaning.
