# A TLA+ model of RobotController

RobotController is a simulated six-joint arm driven at 1 kHz: a control thread
computes accelerations, integrates the motion and publishes the state, while a
monitoring thread and a CAN thread look on and send commands. This directory
holds the specifications of its concurrent and numeric core, the TLC models
that check them on small instances, and TLAPS proofs, for every value of the
constants, of all the safety properties the passing runs check. Paths below
are relative to the repository.

Check one model with `tlc -config X.cfg MCX.tla` and one proof with
`tlapm X_proofs.tla`.

## Inventory

| Component | State | Operations | Hard part | What makes it correct |
|---|---|---|---|---|
| `SnapshotBuffer` | sequence counter, twelve atomic words | `publish`, `read` | a reader copies while the writer stores; bounded retries | a read is one whole publication, or fails for a reason |
| `ControlLoop` lifecycle | `lifecycle_mutex_`, `lifecycle_state_`, `stop_requested_`, `thread_` | `run`, `wait`, `requestStop`, destructor; worker thread | callers race with each other and the worker; `wait()` joins under the mutex; members die in reverse order | lifecycle state and worker agree; stops are honoured; no deadlock; no use after destruction |
| `ControlLoop` monitoring | `last_state_`, `state_mutex_`, `completed_cycles_` | `state`, `completedCycles` | fallback to a cached state; main() relies on the counter instead of joining | states never go back; fresh once the counter says so |
| `ControlLoop` statistics | some twenty counters, minima and maxima | the `update...Statistics()` called by `update()`, `currentProcessor` | boundaries, first cycle, several runs, unknown processors | the statistics agree with each other and with the schedule |
| Schedulers (portable, Linux, Windows) | `next_cycle_`; captured clocks; timer | `reset`, `waitForNextCycle`, `onControlThreadStart`, `hasBacklog`, `schedulingDelay`, `backlog` | two clocks, `EINTR`, truncation, preemption, spinning | never early, exactly one period per call |
| `CanCommandBuffer`, `CanStateBuffer` | sequence counter, one or two words | `publish`, `read` | relaxed, acquire and release accesses | no mixture of publications |
| `CanCommunication`, `SimulatedCan` | `running_`, `thread_`, queue of frames | `start`, `stop`, destructor; thread; `receive`, `transmit` | loopback of states into the command queue; restart; failing thread creation | commands arrive once and in order, take effect; queue bounded; `stop()` returns |
| Codecs, `CanFrame` | none | `encode`, `decode` | which frames are accepted; 32-bit range, sign, truncation, NaN | a state is never a command; what fits arrives to a hundredth |
| `Robot`, `Joint`, `SimulatedMotor` | per joint: position, velocity, target, acceleration | `initializeJointPosition`, `setJointTargetPosition`, `setJointAcceleration`, `update` | NaN passes comparisons; rejected requests | limits hold; motors hold safe commands |
| `PDController`, `SafetyLayer` | gains, limit | `calculate`, `validate` | saturation, NaN | what passes is within the joint's limit |
| `RobotSimulator` | the joints | `update` | velocity saturation in mid-step, position limits | the motion is the integral of the limited velocity |
| `main` | its locals | start, run, poll, stop, print, destroy | leaves without `wait()`; locals die in reverse order | no thread outlives what it uses; what is printed is final; the program ends |
| Factory | none | `createControlScheduler` | the scheduler depends on the platform | the contract holds of either |
| Strong types, printing, build files | none | – | – | not modelled |

The control thread calls, once per cycle: scheduler wait, command buffer read,
`Robot::update`, state buffer publish, snapshot publish, statistics, counter.
The CAN thread calls: bus receive, command buffer publish, state buffer read,
bus transmit. Monitoring threads call `state()` and `completedCycles()`. All
three meet only in the three buffers, the counter and the lifecycle flags.

## Modules

| Module | Models | Correspondence |
|---|---|---|
| `AtomicSnapshot` | what a snapshot buffer promises | an atomic register with failing reads: each operation takes effect in one step |
| `SnapshotBuffer` | `SnapshotBuffer.cpp` | one action per access to an atomic; all accesses are sequentially consistent in the code, so interleaving is the C++ semantics. A word holds the number of the publication that stored it |
| `ControlLoop` | `ControlLoop.cpp:376-433`, members in `ControlLoop.hpp` | one action per access to the mutex, an atomic or `thread_`; one `update()` is one step; the destructor destroys the members after `thread_`, then joins, then the rest |
| `StateMonitor` | `ControlLoop::state()`, `completedCycles()` and what `update()` publishes | extends `SnapshotBuffer`: the callers are its readers, the worker its writer |
| `StateMonitor_proofs` | – | theorems about `SnapshotBuffer`, and on top of them about `StateMonitor` |
| `CanBuffers` | both CAN buffers under the C++ memory model | variables keep the history of stores, and a load may return any store that coherence and happens-before allow |
| `CanBuffers_proofs` | – | theorems about it |
| `ControlTiming` | `ControlLoop::update()` and every statistics function, with the portable scheduler's schedule, `reset()` and the affinity of the workers | one action per cycle with any wake-up delay, execution times and processor; one for the start of a later run, one for `reset()`; the history variable `timeline` keeps what the statistics are about: when every cycle was due, started and ended |
| `ControlTiming_proofs` | – | theorems about it |
| `CycleSchedule` | what `ControlLoop` expects of `waitForNextCycle()` | abstract: not early, one period per call |
| `PortableScheduler` | what both schedulers inherit | the period, the clock, `next_cycle_` and the contract |
| `LinuxScheduler` | `LinuxControlScheduler.cpp` | one action per system call; times in ticks, `Second` ticks to a second; truncating C++ division |
| `LinuxScheduler_proofs` | – | theorems about it |
| `WindowsTimer`, `WindowsScheduler` | `WindowsControlScheduler.cpp` | one action per clock reading or system call; time passes between any two; the timer module holds the members and the properties the factory shares |
| `WindowsScheduler_proofs` | – | theorems about it |
| `ControlSchedulerFactory` | `createControlScheduler()` | the platform of the build chooses which of the two steps |
| `CanCommunication` | `CanCommunication.cpp`, `SimulatedCan.cpp`, the codecs' acceptance test, the control cycle's accesses | one action per step of each thread; buffers are registers whose reads fail while a write is in progress |
| `CanCommunication_proofs` | – | theorems about it |
| `Robot` | `Robot`, `Joint`, `PDController`, `SafetyLayer`, `SimulatedMotor`, `RobotSimulator` | one action per public call; doubles are fixed-point integers plus NaN, time steps also infinite; history variables tell which joints were initialised NaN (`startedNaN`) and whether there was an update by NaN or infinity (`endless`) |
| `JointCodec` | the payloads of `JointCommandCodec.cpp` and `JointStateCodec.cpp` | operators: the cast to `int32_t` (a set of outcomes, undefined casts included), the four bytes, and the word put together again |
| `RobotOnCan` | the robot between `CanCommandBuffer` and `CanStateBuffer` | extends `Robot` and `JointCodec`: commands arrive encoded, the state of the CAN joint is published after every control cycle, the ones whose read of the command failed (`TargetsRead`) included |
| `RobotOnCan_proofs` | – | theorems about the three |
| `Main` | `main.cpp` | one action per statement; composes `ControlLoop` (main() is its only client) with `CanCommunication`, whose control cycle is the loop's `update()`; destructors in reverse order of declaration; an exception of a thread constructor ends the program |
| `Main_proofs` | – | theorems about `ControlLoop`, and on top of them about `Main` |
| `MC...` | – | the sets and numbers TLC needs |

`CanCommunication` makes the command buffer a register; `CanBuffers` shows what its accesses guarantee
under the C++ memory model, that a read delivers a word of one publication
(`DeliversValidated`) and never an older one than the read before (`NeverGoesBack`). That a
publication is seen within a finite time is what the C++ standard asks of an
implementation, and what the register adds. `SnapshotBuffer` with `AtomicSpec` justifies the
single publication step of `update()` in `ControlLoop`; `CycleSchedule` is implemented by
`LinuxScheduler` and `WindowsScheduler`, and the portable scheduler's wait is the
`WakeTime` of `ControlTiming`. `Main` puts the lifecycle and the communication
together; `PollingSuffices` says that main() uses the loop in the way under which
`NoUseAfterLifetime` is proved (`MembersOutliveUpdates`), `UsesCommunication` that it
uses `CanCommunication` as that module says. Both are theorems.

Definitions whose comment begins with "Mutant" are plausible bugs. They are not
part of any specification; substituting one for the definition that follows it
must break the property `PROJECT.json` names, which shows that the property can
fail.

## Runs

| Run | Shows | Instance |
|---|---|---|
| `ControlLoop` | `LifecycleInv`, `AtMostOneCycleAfterStop`, `StopIsNotLost`, `LifecycleOrder`, `NoUseAfterLifetime`, `WorkerExits`, `MutexIsReleased` | 2 clients, 3 `run()` calls, counts -1, 0, 1, 2, thread creation may fail |
| `ControlLoop_destroyed` | violates `NoUseAfterLifetime`: the destructor meets a worker inside `update()` | the same, `DestroyWhenBusy` |
| `StateMonitor` | `BufferInv`; implements `AtomicSnapshot` (`AtomicSpec`); `ReturnsOnePublication`, `FreshAfterCompletedCycles`, `MonitorNeverGoesBack`; `StateMutexIsReleased` | 2 callers, 2 words, 2 publications, 3 attempts: a reader can be overtaken between any two accesses and by a second publication, and can fail all attempts and fall back |
| `CanBuffers` | `DeliversValidated` for one word | 3 publications, 3 attempts |
| `CanBuffers_state` | violates `NoTornRead` for two words | 2 publications |
| `ControlTiming` | `NoDrift`, `PeriodsTelescope`, `MissesAreExplained`, `DelaysAreCounted`, `PinnedNeverChanges` | 3 cycles in any number of runs; period 10 ticks; delays below, at and above the period and in every histogram class; work that fits, fills and exceeds the period; a worker pinned with a processor that is sometimes unknown, or free to move |
| `ControlTiming_delayed` | violates `DelayedMeansLate`: a cycle that starts late, but less than a period | the same |
| `Main` | `NothingLeftBehind`, `PollingSuffices`, `MainReturns` | 4 cycles, 1 command, both thread creations may fail |
| `ControlSchedulerFactory` | both schedulers implement `CycleSchedule` (`ImplementsSchedule`); on Linux `TargetIsScheduled`, `RejectedOnlyBeforeStart`; on Windows `SpinIsShort`, `LatenessIsPartOfDelay` | period 7; up to 2 ticks between any two readings of the clocks in the constructors; 10 ticks a second and every position in it: several carries; spin window 2 and timer unit 3: every remainder of the truncation |
| `LinuxScheduler_constructed` | violates `WaitNeverThrows` | up to 2 ticks between the two constructors |
| `CanCommunication` | `QueueIsBounded`, `CommandsKeepOrder`, `ThreadIsOwned`, `TargetNeverGoesBack`, `StopReturns`, `CommandsTakeEffect` | 2 commands, 1 foreign frame, 2 starts, thread creation may fail |
| `RobotOnCan` | `JointsWithinLimits`, `UpdatesAreSafe`, `MotionIsIntegral`, `CommandIsTruncated`, `TransmittedStateIsNear` | 2 joints, 3 calls and any number of updates, by negative, zero, positive, infinite and NaN steps; control cycles whose read of the command succeeds or fails; limits of a few units, so that saturation, reversal and both ends are met; bytes of two values, so that one command does not fit and the sign reaches every byte; a position of half a hundredth |

`CHECK_DEADLOCK FALSE` appears where a bound stops the model: the cycles of
`ControlTiming` and the clock of the two schedulers, which may also end the process. In every other run deadlock is
checked; `ControlLoop` stutters explicitly once the object is gone.

### Bounds

The bounds are named constants of the modules: `MaxPublications`, `MaxRunCalls`,
`MaxCycles`, `MaxTime`, `MaxCommands`, `MaxForeign`, `MaxStarts`, `MaxCalls`; `Main`
fixes them by what main() does: one run of `CycleCount` cycles, one command, one start.
The sequence counters are 64 bits wide in the code and cannot wrap between two
loads of a read, so they are unbounded numbers here. In
`Robot` the fixed point replaces doubles: where an operation leaves the grid the model
rounds down and the code rounds to the nearest double; the properties are exact on
the grid and say nothing about rounding errors.

### Fairness

- `ControlLoop`: the worker and a client inside a critical section keep running; no
  client has to call anything, and nothing is assumed about who gets the mutex.
- `StateMonitor`: a caller that holds `state_mutex_` keeps running; nothing is assumed
  of the worker.
- `CanCommunication`: both threads keep running and the join of a finished thread
  returns; other stations and the owner are free.
- `Main`: all three threads keep running; that is all `MainReturns` needs, because each
  join and the polling wait for something a running thread does.

An operating system that schedules every runnable thread again and again
justifies these; none relies on a thread being scheduled in time.

## Proofs

Each proof names an inductive invariant, which stands in the module it is about and
was checked with TLC before it was proved, one lemma per action that the action
preserves it, and the theorems that follow. The assumptions are the named `ASSUME`s
of the modules, which TLC evaluates in the runs; a proof cites those it needs.
`MembersOutliveUpdates` and `OnlyFirstWaitThrows` have a hypothesis of their own,
and the theorems about `Main` rest on `MainAssumption`; each is discussed where the theorem is.

`StateMonitor_proofs`, first part: `SnapshotBuffer` for any set of readers, any number of
words, attempts and publications. `BufferInvariant` (`Spec => []BufferInv`), and from it
`TypeCorrect`, `NeverTorn` and `Refinement` (`Spec => AtomicSpec`). `NoTornRead` is not inductive:
it has to be known that a copied prefix is current while the counter is
unchanged (`CopiedIsCurrent`), which needs the order of the writer's stores
(`WordsInStoreOrder`) and that the counter is odd exactly during a publication
(`CounterTellsWriter`). The refinement needs in addition that a failing attempt
was overlapped (`FailureHasCause`). It maps the second increment to the abstract
publication and the second load of the counter to the abstract read.

Second part: `StateMonitor`, for any number of callers, words and cycles: `BufferInv /\
MonitorInv` is inductive. The buffer is not proved again: every step of the monitor
is a step of `SnapshotBuffer` or leaves it alone (`MonitorUsesBuffer`), because what a
caller hands to `read()` is `last_state_`, a state that was published. From that come
`MonitorIsAtomic`, `StateIsOnePublication`, `StateNeverGoesBack` and `StateIsFresh`. The
last needs what `MonitorInv` says of a read in progress: it knows at least what its
caller knew, and can only have failed if a publication overlapped it (`ReadIsFresh`).

`CanBuffers_proofs`, for any number of words, attempts and publications:
`BuffersInvariant`, and from it `ValidatedIsDelivered` and `ReaderNeverGoesBack`. The first
rests on `ReleasesAreComplete`: every value of the counter carries the publication
that was complete with it, the odd values because the relaxed increment continues
the release sequence of the value it replaces. Coherence then carries this from the
load of `before` through every relaxed load (`AttemptInv`), so that a word older than the
validated publication cannot be delivered. A newer one can: `NoTornRead` for two words is
false, as `CanBuffers_state` shows, and the theorem says how far it can be wrong.

`CanCommunication_proofs`, for any number of commands, foreign frames and starts, with
or without failing thread creation: `CommunicationInvariant`, and from it
`ThreadOwned`, `QueueBounded`, `CommandsInOrder` and `NoOlderTarget`. `CommandsKeepOrder` says that
what is pending, in the thread's hand or at positions of the queue, is the numbers
after the last command delivered, in order and without a gap; it is an invariant by
itself except where a frame leaves the thread's hand, which is why `OrderInv` adds that
only a command is published. The order of the target follows the whole way: sent,
queued, in hand, in the buffer, in use.

`Main_proofs`, first part: `ControlLoop` for any clients, cycle counts and number of calls.
`LifecycleInvariant` (`Spec => []LifecycleInv`), and from it `StopHonoured`, `StopNotLost`,
`LifecycleInOrder` and, assuming that nobody destroys a loop whose worker is inside
`update()` (`DestroyWhenBusy = FALSE`), `MembersOutliveUpdates`. The conjuncts of `LifecycleInv`:
the mutex protects `thread_`; each lifecycle state determines where the worker can
stand; a worker is owned by `thread_` or about to be; the cycles completed and still
owed add up to those requested, which is what makes main()'s polling a safe
substitute for `wait()`. None of this uses `MainAssumption`.

Second part: `Main`, whose constants `MainAssumption` fixes to what main() passes: one
client, one run, a positive number of cycles, and a destructor that may be called
at any time. The bus carries the one command main() sends and no
other station's frames. `MainInvariant`, for any number of cycles, with or without failing
thread creation. `MainInv` puts `LifecycleInv` and the ownership of the
communication thread next to where main() stands: after the polling loop all
requested cycles are completed, so the worker is past its last `update()` and its
accesses to the buffers (`BuffersInUse`), although it may not have returned. From it:
`MainUsesComponents` (the program refines `ControlLoop` and `CanCommunication`),
`PollingIsEnough` (it refines the loop whose destructor nobody calls while a cycle is to
be done), `ProgramMembersOutliveUpdates` and `NothingIsLeftBehind`. The prover cannot cite a
theorem of a module through an INSTANCE with a substitution; what `MainInv` needs of
`CanCommunication` (`OwnershipInv`) is therefore proved again as part of it.

`LinuxScheduler_proofs` and `WindowsScheduler_proofs`, for any period, resolution,
offset and number of interruptions: both waits implement `CycleSchedule`
(`LinuxImplementsSchedule`, `WindowsImplementsSchedule`). On Linux the argument is that
the target denotes the scheduled time on the other clock (`TargetScheduled`, with the
arithmetic of truncation and carry) and that the clocks were captured in order. That
the sleep is never rejected is not a theorem, because it is not true
(`LinuxScheduler_constructed`). The exception is delimited instead: for every gap the sleep is rejected
only while the schedule is behind `chrono_start_time_` (`OnlyEarlyScheduleThrows`), and as long as
the gap is at most one period, a wait that returns puts every later one out of its reach
(`OnlyFirstWaitThrows`): a loop that survives its first cycle does not meet it again. With a
larger gap TLC shows that a later wait can throw too. On Windows the spin alone makes the wait never early; the timer only bounds
the spin (`SpinBounded`), and `LatenessBounded` relates the lateness the scheduler
reports to the delay the loop measures.

`ControlTiming_proofs`, for any period, delays, work, idle times, processors and
number of cycles: `TimingInvariant`, and from it `ScheduleIsAbsolute`,
`AverageIsExact`, `MissesHaveCauses`, `LatenessViewsAgree` and `PinnedStaysPut`. The
statistics are one record; a lemma per `update...Statistics()` says which fields
it changes, `StatsAfterCycle` what a cycle makes of all of them. The invariant adds
what the reported numbers do not show: the order of the times of the last cycle,
the delays below one period while no cycle was delayed, the last processor seen
while pinned, and the telescoping sum. The properties compare the statistics with the
`timeline`: each count is the number of cycles it is a count of, each extreme is reached
by a cycle and passed by none (so that a minimum left at zero, or not started at the
first cycle, breaks them), and the current and longest series of delayed cycles are the
ones that were (so that a counter that is not reset does). `TimelineStep` and `PeriodStep`
say what one more cycle adds, `MinimumStep`, `MaximumStep`, `CountStep`, `SeriesEnds` and
`SeriesGrows` what that makes of extremes, counts and series.

`RobotOnCan_proofs`, for any number of joints, any limits around zero, any gains,
inputs, positive control step and even number of values of a byte: `CodecRoundTrip`, that
four bytes carry every 32-bit count; `RobotIsSafe` for `Robot` alone; and on the bus
`LimitsHoldOnCan`, `SafeUpdatesOnCan`, `StateArrives`, `CommandArrivesTruncated` and
`SimulatorIntegrates`. Time steps may be any integers, infinite or NaN: `dt <= 0` is false
for NaN, which makes every position and velocity NaN, and zero times infinity does so to a
joint at rest that does not accelerate. The theorems say what is left then: motors hold
safe commands, and no joint is at a number beyond its limits. In `StateArrives` the cycles
whose read of the command failed publish like the others. What
`PDController`, `SafetyLayer` and `RobotSimulator` compute is bounded by lemmas about
products and quotients; `RobotInv` is inductive, and `PublishedIsSafe` says that what was
published is a state after an update. `SimulatorIntegrates` (`MotionIsIntegral`) compares the
simulator's four cases with the area under the limited velocity, summed substep by
substep. The sum has a closed form (`ClosedArea`), which is shown to satisfy the
recursion of `AreaAfter` (`ClosedAreaStep`) and to be its only solution
(`AreaIsClosed`, by `InductionOverNat`, induction for a set of numbers, from the
well-foundedness of `<`); `DisplacementIsIntegral` then compares it with each case. Every
division in it is exact, so that nothing is lost to the grid.

### Distances: the safety half of the liveness properties

"Something eventually happens" has two halves: a distance that the responsible thread
shortens with every step and that nobody else lengthens, and the fairness that makes
the thread step. The first half is a safety property, and proved here for every value
of the constants; only the second is left to TLC. Each distance counts steps of one
thread, is a natural number, and has a stated bound.

| Liveness property | Distance | Shown | Theorems |
|---|---|---|---|
| none: `read()` of a snapshot buffer takes no fairness | `StepsInRead(r)` | every access of the reader shortens it, however often writers overtake; at most `MaxReadAttempts * (WordCount + 2)` | `ReadIsWaitFree`, `ReadBounded` (`StateMonitor_proofs`) |
| none: `read()` of a CAN buffer | `StepsInRead` | the same, whatever values the memory model lets the loads return | `ReadIsWaitFree`, `ReadBounded` (`CanBuffers_proofs`) |
| `StateMutexIsReleased` | `StepsToRelease(c)` | the holder shortens it, nobody else touches it; at most one whole `read()` and two steps | `ReleaseIsNear`, `ReleaseBounded` (`StateMonitor_proofs`) |
| `WorkerExits` | `StepsToExit`, `StepsAfterStop` | the worker shortens it, no client sets it back or takes a stop away; at most `2 * count + 3`, and three after a stop | `WorkerIsNearExit`, `WorkerBounded` |
| `MutexIsReleased` | `StepsToRelease` | three steps of the holder, which no other thread undoes; the one step that can wait, the join, waits for a worker that exists | `ReleaseIsNear`, `HolderIsNotStuck` (`Main_proofs`) |
| `StopReturns` | `StepsToLeave` | once the owner joins, five steps of the communication thread; `running_` stays cleared meanwhile | `StopIsNear` |
| `CommandsTakeEffect` | `Distance(n)` | every step of a running thread brings every command closer to the buffer, and no loopback, foreign frame, stop or start takes one farther; at most `5 * (sent + foreign) + 4` | `CommandsDrawNear`, `CommandsNear` |
| `MainReturns` | – | main()'s polling always has a worker that will raise the counter, which the distance of that worker bounds | `PollingIsAnswered` |

The bound of `CommandsTakeEffect` is the interesting one: it does not grow with the number
of states the thread loops back to itself, because at most one of them is on the bus
(`QueueIsBounded`).

`NeverGoesBack`, `ThrowsOnlyBeforeStart` (a run checks it as part of `RejectedOnlyBeforeStart`), `ReturnPassesStart` and the properties of this table
(`ReadComesCloser`, `ReadIsBounded`, `ReleaseComesCloser`, `ReleaseIsBounded`, `WorkerComesCloser`, `WorkerIsNear`,
`HolderWaitsForWorker`, `PollIsAnswered`, `StopComesCloser`, `CommandsComeCloser`, `CommandsAreNear`) are proved
without being properties of a run; TLC finds no violation of them on the instances of the runs.

Only model-checked:

- the liveness properties `WorkerExits`, `MutexIsReleased`, `StateMutexIsReleased`,
  `StopReturns`, `CommandsTakeEffect` and `MainReturns`: their distances are proved, the conclusion
  from fairness is outside what the installed provers handle;
- the sum of the two schedulers in `ControlSchedulerFactory`: the theorems are about each of them.

## Where code and documentation differ

Shown by a run:

- `ControlLoop.hpp:59` declares `thread_` before the members `update()` uses, so that
  a destructor that meets a busy worker destroys them first; `README.md:496` says the
  loop manages the lifetime of its thread. main() is safe because it polls for all
  requested cycles (`ControlLoop_destroyed` against `ControlLoop`).
- `CanStateBuffer` can deliver a mixture of two publications under the C++ memory
  model: the data accesses are relaxed and nothing orders them after the first
  increment or before the second load (`CanBuffers_state`). Processors that keep
  stores in order and loads in order do not show it unless the compiler reorders.
- `LinuxControlScheduler` reads `next_cycle_` before `chrono_start_time_`; the negative
  difference can yield a negative `tv_nsec`, an `EINVAL` and an exception on the
  control thread (`LinuxScheduler_constructed`), although the two clocks are said
  to be tied to the same starting point (`LinuxControlScheduler.hpp:32`).
- A cycle counts as delayed only if it starts a whole period late (`HasBacklog`);
  `README.md:476` says later than scheduled (`ControlTiming_delayed`). `DelaysAreCounted`
  states what is counted.

Seen while modelling, and part of the models without a run of their own:

- A `run()` called while the lifecycle is Running can wait for the mutex behind a
  `wait()` and then start a run (`README.md:519` says it does not).
- When the thread constructor throws, the lifecycle stays Running without a worker
  until the next `wait()` (the last disjunct of `LifecycleOrder`).
- `ControlLoop` never calls `reset()`: unless the owner does between two runs, a second
  run catches up the periods in which no run was active (`NextRun` leaves
  `nextCycle` alone), although `ControlLoop.hpp:120` says every 1 ms.
- `CanCommandBuffer::read()` succeeds before anything was published, with a zero
  target, so that a robot initialised elsewhere moves to zero
  (`ControlLoopTests.cpp:151` expects it to stay).
- A NaN initial position passes `initializePosition()` and stays
  (`JointsWithinLimits` has to exempt it).
- `Robot::update()` with a NaN time step, or an infinite one for a joint at rest, leaves NaN
  positions and velocities, although `README.md:323` says the simulator enforces the limits.
  `ControlLoop` only passes its own finite `dt_`; a direct caller can (`endless`).
- The codecs truncate instead of rounding, and a decimal that is not exact in binary loses a
  whole hundredth: 0.29 arrives as 0.28 (`Truncations`), although `README.md:611`
  promises a resolution of 0.01°. `CommandIsTruncated` therefore claims less than that line:
  a whole number of hundredths, at most one hundredth nearer to zero. A target that does not fit 32 bits, or NaN, is
  an undefined cast; `TransmittedStateIsNear` shows that it cannot reach the state.
- An exception of a thread constructor leaves main() by `std::terminate()`, with the other
  thread running.

## Not modelled

- Strong types: wrappers. The portable choice of `createControlScheduler()`: its wait is
  `sleep_until()`, and its timeline is `ControlTiming`.
- Printing, in `ControlLoop`, `Robot` and `main`.
- The real-time policy of the control thread: it changes when the thread runs,
  which the models leave open anyway. (Its affinity is the `mask` of `ControlTiming`.)
- The overflow of the `int` cycle counters after 24 days, which is undefined behaviour
  that nothing in the code prepares for.
- Rejection of joint indices beyond the last joint: a check without effect on state.
- The rounding of doubles, see Bounds.

## Plan

The modules were written, and are best read, in this order: `SnapshotBuffer` with its
abstraction, `ControlLoop`, `StateMonitor`, `CanBuffers`, `ControlTiming`,
`CanCommunication`, the two schedulers and `ControlSchedulerFactory`, `Robot`, `JointCodec` and `RobotOnCan`, `Main`,
each with its proofs.

Left to do: the program's other threads together. `Main` composes the lifecycle with the
communication; the snapshot buffer and the robot join it only through the refinements
named under Modules.
