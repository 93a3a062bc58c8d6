# Verification of fancon

fancon is a daemon that controls the fans of a Linux machine. A client sends it
gRPC requests; it runs one thread per controlled fan, measures fans in tests,
keeps its configuration in a file, and reports changes to clients that
subscribe. This directory models the daemon in TLA+, checks the models with TLC
on small instances and proves the main invariants with TLAPS for all instances.
Paths below are relative to the repository; `src/Controller.cpp:60` is line 60 of
that file.

## 1. Inventory

### Parts, their state and their operations

| Part | State | Operations | Module |
|---|---|---|---|
| **Task table** `src/Controller.cpp`, `src/fan/FanTask.cpp` | `tasks` (label to `FanTask`: a thread, a `run` flag, a `test_status`), `tasks_mutex` (a shared mutex per label) | `enable`, `enable_all`, `disable`, `disable_all`, `test`, `status`, `recover`, `tests_running`, the loop and test threads, the detached thread that re-enables a fan | `Controller` |
| **RPC handlers** `src/Service.cpp` | none of their own | one per request; each runs in a gRPC thread | callers in `Controller`, `ConfigFile`, `Observers`, `DeviceTable`, `Program` |
| **Control mode** `src/fan/FanSysfs.cpp`, `src/dell/FanDell.cpp`, `src/nvidia/NvidiaDevices.cpp` | the chip's manual/automatic mode, one for all Dell fans; `enabled`, `driver_flag` of the object | `enable_control`, `disable_control`, `recover_control`, `test_driver_enable_flag`, destructors | `FanDriver`; `mode` in `Controller` |
| **Configuration file** `Controller::to_file`, `read_config`, `spawn_watcher` | the file, its time, `config_write_time`, `config_mutex` | save, reload, the watcher's poll | `ConfigFile` |
| **Observers** `Service::Subscribe*`, `Controller::notify_*`, `RemovableMutex` in `src/util/Util.cpp` | the list of callbacks, the counter | notify, register, remove | `Observers` |
| **Sensor** `src/sensor/Sensor.cpp` | the history of readings, a cursor, the last average | `get_average_temp`; reconfiguration | `Sensor` |
| **Control loop** `Fan::update`, `smooth_rpm`, `find_closest_pwm` in `src/fan/Fan.cpp` | `just_started`, `targeted_rpm`, the remaining stickiness and intervals | one pass | `ControlLoop` |
| **Fan test** `Fan::test` and its parts | `pwm_to_rpm`, `start_pwm`, `rpm_to_pwm`, the observed progress | the four parts of a test | `Calibration` |
| **Devices** `src/Devices.cpp`, `Controller::merge`, `remove_devices_not_in`, `set_devices` | `devices.fans`, `devices.sensors` by label | enumerate, read, merge, remove, replace | `DeviceTable` |
| **A fan's configuration** `Fan::from`, `Fan::to`, `temp_to_rpm_from`, `rpm_to_pwm_from(string)`, `pwm_to_rpm`, `percent_to_rpm` | the entry in the file, the maps of the `Fan` | edit, load, save, test | `FanConfig` |
| **Life of the process** `src/main.cpp`, `Service::run`, `shutdown`, `daemonize`, `Client::service_running`, `stop_service` | the listening port, the signals, the fans that are under control | start, stop, signal, kill, restart | `Program` |
| Dell SMM, NVIDIA, X | flags | BIOS and library calls | outcomes in `FanDriver`; a GPU's percentages in `Calibration` |
| Client, arguments, logging | none | print, parse | not modelled |

### How they interact

* An RPC thread looks a fan up in `devices.fans` and calls the Controller, which
  takes the fan's `tasks_mutex` (`lock_task_read`, `lock_task_write`).
* The Controller *creates* a thread with every `FanTask`. *Erasing* the task
  (`~FanTask`, FanTask.cpp:18-28) clears `run` and joins the thread, while the
  caller keeps the lock it has. That is the source of most hard orders: what the
  thread does before it looks at `run` again must not need that lock.
* A loop's thread passes through `Fan::update`, which asks the `Sensor` and
  writes the PWM; before each pass it reports its fan's status to the observers.
* A test's thread measures the fan, resets `test_status`, saves the file when no
  test runs, and starts a detached thread that erases the test's task and
  enables the fan again (Controller.cpp:129-152). The RPC waits for the test.
* `reload` is called by the constructor, by an RPC and by the watcher. It merges
  enumerated and configured devices and enables or disables fans on the way.
* Control-mode writes happen outside the locks of the table in some places
  (Controller.cpp:63, the end of a loop) and inside them in others (:30).

### What is hard

* **Interleavings**: up to a dozen threads on one table; the code unlocks in the
  middle of `disable`, joins under a lock, and re-enables from a detached thread.
* **Deadlock**: joins under locks, two fans' locks held at once, a mutex locked
  again by its holder, a counter on which two sides wait in opposite directions.
* **Stale state**: sums and lists read without a lock and used after it.
* **Partial failure**: a write of a control mode or of a PWM that fails, a read
  that fails, an exception that ends a thread and not its table entry, a kill
  while the file is truncated.
* **Boundaries**: unsigned speeds, PWMs and sizes that wrap, a cursor one past
  the end, divisions by a configured 0, percentages that truncate.
* **Several processes**: a second service that starts while one stops, signals
  before the server listens, kills, suspends.

`PROJECT.json` lists each of these hazards with its line and the properties that
would notice it.

### What makes each part correct

* Task table: never two threads on a fan; a test is never lost nor joined when it
  is over; results reach the file; nobody is left in manual mode without a
  driver; calls return.
* Configuration: no half-written file is taken over, unless the process was killed
  while it wrote one; the program's own saves are not mistaken for edits; calls return.
* Observers: the counter is balanced; nobody waits for ever; a callback that was
  removed should not be in use (the code does not ensure it, see section 5).
* Sensor: the average lies among recent readings.
* Control loop: hotter is never slower; a driven fan turns; smoothing gets to the
  demand, without overshoot and after the stickiness.
* Fan test: the test ends; the PWMs it stores start the fan and keep it turning,
  and rise with the speed.
* Devices: one entry per fan; a reload keeps what was running, if the fan gives
  control again, or stopped, and leaves the fans as the file has them.
* A fan's configuration: what is saved is read back as the same fan; a rising curve
  is read as one; no save loses what was read.
* Life of the process: a fan that is driven obeys, whatever instances come and go
  without serving; whoever drives it can be told to stop; when all have ended the chip
  drives the fan again; a service that is stopped ends. That no two services drive a fan
  is what the code means and does not ensure (section 5).

## 2. Modules

`Controller` is the core; the other modules stand beside it, each with the part of
the program that its properties need. `FanLifecycle` is the abstract
specification that `Controller` implements. `Program` is composed with `FanDriver`,
whose operations it applies to the fan as each process sees it. `MC*` modules give
instances for TLC, `*Proofs` modules hold theorems.

### Controller

A thread has a program counter `pc`. A step is what a thread does between two
points at which another thread can matter: a lock, a join, the next fan of a
loop, a read or write of the table outside a lock, a command to the hardware.

| Model | Code |
|---|---|
| `task[f]` | the entry of `tasks`, by its thread; `None`: no entry |
| `testing[f]` | `FanTask::test_status` is set (`is_testing`) |
| `run[w]` | `FanTask::run` |
| `ref[w]` | the call whose `test_status` and label the test's lambda holds by reference (Controller.cpp:129) |
| `writer[f]`, `readers[f]` | `tasks_mutex[f]`; of readers only those that keep it over several steps |
| `mode[f]`, `Chip(f)` | manual or automatic control; one for all Dell fans |
| `unsaved` | fans with results that are not in the file |
| `sweep`, `ret`, `outer` | the stack of a call: what a `for` has still to visit, and who called `enable`, `disable` or `test` |

`LockAndJoin` and `Erase` are the two halves of erasing a task; `DisableEnter`,
`TestEnter` and `RestartEnter` use the first and wait, with the lock, for the
thread to reach `"exited"`. Threads of tasks and restart threads are drawn from
`Workers` and given back when their task is erased (`Erase`) or their work is
done; a run has as many as its calls can need. `EnableSkip` has one disjunct per
early return of `enable`. `RecoverFan` lets the mode of no fan change when the
entry was erased after the walk saw it, since the reference it uses then dangles.

What is abstracted: the contents of a `Fan` (ControlLoop, Calibration), the set of
devices, which is fixed here (DeviceTable), the file (ConfigFile), the list of
observers, of which only its emptiness matters (Observers). Of `merge`, `Reload` is the
branch for a fan under test (Controller.cpp:319-323): `disable`, then `MergeTest` and
`test` without blocking, so `TestEnter` and `TestWait` return at once (`Blocking`) and
the lambda's references dangle: `ref` is then `None`. What it reads of the old status is
not modelled, as nothing branches on it; the other branches are calls of `enable`
and `disable`, which the RPCs make too. `TestRun` stands for
the measurement; it succeeds, because what fails in it ends it with results or
before it begins.

### FanLifecycle

For one fan: a status DISABLED, ENABLED or TESTING and a driver none, loop or test,
and six moves between them. `LifecycleSpec` states that every step of
`Controller` is one of these moves or changes neither, under the mapping
`status`, `driver` (`Lifecycle == INSTANCE FanLifecycle WITH ...` in `Controller`); it
is checked by `MCTable` and proved in `ControllerProofs`: the restart that follows
a test, racing with anything, never abandons a measurement; a task is never
removed while its thread still drives.

### ConfigFile

A content is the number of the edit it stems from, or `absent`, or `torn` (opened
for writing, which truncates, and not yet flushed). `long` is whether the text is
longer than the stream's buffer, so that `<<` already writes; a short one is
written when the stream is closed, after `update_config_write_time`. `early` is
whether an RPC may come before the watcher's first look. The clock may give two
writes the same time. A kill at any point restarts the process, which reads what
it finds. `Unflushed` is a saver between the truncation (Controller.cpp:385) and the flush;
the history variable `cut` records a kill at such a point, after which nothing is said
of the file. The files' text, and what is merged, are not here.

### Observers

`RemovableMutex::acquire_lock` is a test of the counter and then a change of it;
`Wait`/`Enter` and `AwaitRemoval`/`TakeRemoval` are these steps. The object
`acquire_removal_lock` returns is not bound to a name (Service.cpp:154) so
`DropRemoval` comes before `Erase`. A callback into a frame that is gone may do
anything: the model lets the process end (`up`). The device subscription has the
same shape. Insertions into and erasures from the list are one step.

### Sensor

`get_average_temp` is one step: `read_mutex` is held throughout. `Average` has the
program's widths: an int sum, an unsigned size. `ReadPastEnd` is the reading for
which the cursor equals the size (Sensor.cpp:12-14): it is lost, or the process
ends. Its specification is `SensorSpec`, since `LoopProofs` extends it beside `ControlLoop`.

### ControlLoop

`Update` is a pass: `Demand` is the curve with its interpolation, `Smooth` the three
ways of `smooth_rpm` in their order (a decrease that waits, a minor change, a part
of a larger one), `ClosestPwm` the choice of the PWM with the kick for a fan that
stands. A read of the speed that fails reads 0; a write that fails leaves the
PWM. `Heat`, `Spin` are the world: the sensor and the motor. Speeds and PWMs are
unsigned (`Uint`), their difference is converted to int (`Int_`).
`temp_to_rpm` is an ordered map; the values used keep the interpolation in doubles
exact or away from integers.
`PointsAssumption`: curves and mappings have a point and stay below half the unsigned
range. `TestedAssumption`: `start_pwm` starts the fan, a mapped PWM keeps it running, and
that of the lowest speed, before which `find_closest_pwm` does not ask whether the
fan stands, is 0 or starts it.

### Calibration

`phase` is the part of `Fan::test` that runs. `Stabilise` stands for
`set_stabilised_pwm`: it gives the driver's PWM, whether the fan turns, and the
speed read, which is none when the driver keeps another PWM than was written, and
may be off. A PWM above the largest is refused. `Minus2` wraps as
`target_pwm -= 2` does. `results` and `older` are what `test_running_min`
collected: the last three are kept apart as all but two of them count. The fan of a
GPU keeps a percentage (`hw.percent`): what is written and read back goes through
`percent_to_pwm` and `pwm_to_percent`, which both truncate (NvidiaDevices.cpp:96-102), so
only every fifth of 0..255 is read back as it was written, and with any other
the fan is seen to stand at 0 only.

### DeviceTable

`Reload` and the steps after it: `MergeEnumerated`, `ReadConfig`, `MergeFan` for each
configured fan in any order (the map is unordered), `MergeEnd` for the Dell fans,
`RemoveKeep`/`Remove` for each label, `ReloadEnd`. Edits of the file and changes
of the machine may come between any two. `From` skips entries of absent hardware
and repeated hardware; `OnMatch` is `on_match` of `merge`. `Remove` goes on from an
erased node: it ends the loop, goes on, or ends the process. No other RPC runs
during a reload here. Whenever a fan is asked to run, a set `no` of fans refuses: they
are ignored, or `enable_control` fails (Fan.cpp:58-69), which leaves the fan without a
loop, and in `merge` after its old loop has ended. The history variable `refused` has
those that did since the reload began. A Dell fan that refuses still makes `MergeEnd`
enable all Dell fans (Controller.cpp:296). `To` gives the entries in any order. `Insert`
and `Emplace` are `emplace` of the code's maps: they keep what is there.

### FanConfig

A text is the sequence of its items; the patterns' search stops at the last one, so
the texts are those that end with an item. `From` is a set: `pwm_to_rpm` of a PWM
below the first one dereferences the element before the first (Fan.cpp:365), which
in the build is the map's header, so the entry itself or the number of entries is
returned. The pattern of a temperature has no sign, the percentage is an integer
division, and a number that `from_string` cannot take is skipped. `Load` is a reload
or a start, `Save` what `to_file` writes of this fan, whoever caused it (`Test`,
`SaveAll`). `present` is whether the fan's sensor is enumerated: if not, the `Fan` has
none and is saved with `""`.

### FanDriver and Program

`FanDriver` has no state: each operation on a device gives the set of its outcomes,
at most `MaxFaults` of which are failed writes. A fan is of sysfs, without an enable
file ("bare"), of Dell, or of NVIDIA. `enabled` and `driver_flag` belong to the `Fan`
object, `chip` to the hardware.

`Program` has several processes and one fan. `phase` is where `main` is: the check for
another instance, the making of the Controller, the registration of the signals
("armed"), the server, its end, the destructors. `task` is the fan's task, reduced
from `Controller`. `port` is the set of those that listen: gRPC's default on Linux is
`SO_REUSEPORT`, which Service.cpp:18-22 leaves on, so a second process that found nobody
(`CheckRunning`) gets a server too; where the library has no such option `Bind` has none
and `run` returns. A call, and a stop, reach any of the listeners. `Signal` is a client's
call, as `signal_handler` makes one. `Daemonize` ends every process, as `fork_thread`
does. `Restart` is the detached thread of a test, which may come after `disable_all`.

`disable` is two steps: `CallDisable` up to the unlock (Controller.cpp:61), and `GiveBack`,
which gives control back when it may be another call's (62-65); `late` counts the calls in
between. The calls that never return are actions: `CallStuck` (a `disable` that joins
under the lock the thread needs, as in `DisableWhileTesting`) leaves the task "stuck",
`CallWedged` (the watcher after an edit, as in `EditWedgesReload`) the process "wedged":
its tests then do not get past their save.

History variables: `reset` (the fan was given away under its loop, by the firmware in a
suspend or by a late half of `disable`), `orphan` (a process was killed with the fan),
`driven` (the last one to release it drove it), `crowd` (a process began to serve while
another served or had yet to let go of the fan, `Engaged`).

## 3. Runs

All runs are of `MC*` modules.

| Run | Instance | States | Checks |
|---|---|---|---|
| `MCTable` | 3 fans: plain; Dell, with failing writes and updates that throw; Dell without a curve. 2 callers, 4 workers, 3 calls of all RPCs but Recover | 1,522,000 | the inductive invariant `IInv`, one driver per fan, results saved, `test_status` not dangling under a call that blocks, no stranded fan, table changed under locks, `LifecycleSpec` |
| `MCCalls` | 3 fans (one Dell, one ignored), 3 calls without Test and subscriptions, fairness | 137,000 | every call returns |
| `MCConfig` | 2 savers, 1 reload, the watcher, 2 edits, 3 calls, 2 kills, fairness | 612,000 | `ConfigInv`, no half-written file but after a kill inside a save, own saves unnoticed, calls return unless the watcher blocked |
| `MCObservers` | 2 clients, 2 notifiers, 3 changes, fairness | 34,000 | the counter is balanced, both sides return |
| `MCSensor` | temperatures 30, 31, 60; intervals 1 to 3; 6 readings | 21,000 | the average lies among the recent readings |
| `MCControlLoop` | 3 rising curves, 2 mappings, smoothing 0 or 2, stickiness 2, 3 temperatures, fairness | 8,600 | type, turning, monotony, stickiness, no overshoot, the demand is reached |
| `MCCalibration` | 7 fans, PWMs 0 to 15, 2 readings that are off, 1 write that fails, fairness | 525,000 | type, PWMs rise with speed, start PWM starts, mapped PWMs keep running, the test ends |
| `MCDeviceTable` | 2 fans, one Dell, either of which may refuse control each time; 4 labels, 7 files, 5 events | 1,315,000 | one entry per fan, loops kept or left stopped, file applied |
| `MCFanConfig` | curves in RPM, PWM and percent, in °C and °F, with duplicates, signs and numbers too large; 4 mappings, 2 tests; 4 events | 29,000 | type, saves are read back, rising curves rise, no save loses an entry |
| `MCProgram` | 2 processes, 4 kinds of fan, 2 failing writes, 2 stops, 2 calls, 1 kill or suspend, fairness | 1,012,000 | who drives the fan can be stopped, the fan obeys, it is released, a stopped service ends if no call of it waits for ever |
| `DisableWhileTesting` | 1 fan, Test and Disable | | violated: the join of `disable` under test never ends |
| `EditWedgesReload` | 1 saver, 1 reload, 1 edit | | violated: a reload after an edit never returns |

### Why the bounds are enough

* **Three calls**: all orders in which two threads enter the table and a third call
  follows. A call is a long chain of steps, so three of them with their task and
  restart threads meet in every pair of positions. Three fans show whatever
  relates two locks (Dell) or two entries (`tests_running`, `enable_all`), and the plain
  one is what `NoStrandedFan` is about.
* **Workers**: three calls start at most three tasks, and each test one restart
  thread, which may start a further task. `TestSpawn`, `EnableSpawn` and
  `TestRestart` wait for an idle worker; with four, two tests run beside a third task.
* **Recover** is in `MCCalls` only: with it `NoStrandedFan` fails, as section 5 says. That
  its steps keep `IInv` is covered by the proof.
* **Program**: two processes show every overlap of a start, a stop and an end; two
  calls that a disable can be overtaken, or a test disabled. A fan that is driven is
  given back three times, so two failures are the most that leave a release. The four
  kinds of fan take the branches of `FanDriver`, but for a GPU's, whose mode is set as that
  of sysfs is, and for the search of a Dell fan that was never tested; the theorems are
  about every fan.
* **DeviceTable**: five events are an edit, a reload and three that come between or
  before; both fans are labelled, exchanged, unplugged and refused in all orders.
* **FanConfig**: two edits, a test and a change of the sensors, in any order, with any
  number of loads and saves between.
* **Config**: two savers can wait for each other and for a reload; a second edit
  comes during what the first one started. The first kill may come outside a save and
  the second inside one, or the other way round.
* **Calibration**: PWMs 0..15 keep the steps of two, the margin of 6, odd and even
  starts and the wrap (`UintMod` 32) in proportion. One write fails: with several
  failed writes in a row `set_stabilised_pwm` gives no result for each, the search
  for the lowest PWM passes a fan that stops late without seeing it stand, and a start
  that was seen only later is stored too low; `TestEnds` names the fans (`Tame`)
  for which one failure is too few to do that.
* **Sensor**: six readings fill a history of three and go once round it.

### Fairness

`Fairness` in Controller and `FairSpec` elsewhere are weak fairness of each thread's own
steps: the kernel schedules every runnable thread, and a step that stays enabled
(a free lock) is taken. No fairness on clients (they need not call or cancel),
on edits, kills, temperatures or plugging. A lock that others take and release for
ever might never be got; since calls are bounded, no property depends on that. For
the control loop, `WF_vars(Update \/ Crash)` says that the loop's thread runs. In
`Program`, `WF_vars(Step(p))` says that a process that lives runs. There is none on signals,
kills or calls, and none on `EndTest`: a test may measure for ever (Fan.cpp:278), or wait
for `config_mutex` to save. So a service may be `Busy` for ever, with a call that does not
return, and the server waits for its calls; `StopEnds` is about all others.

## 4. Proofs

The theorems hold for all values of the constants (any sets of fans, callers, workers,
clients, processes, labels, files, curves) under the assumptions named in the modules:
finite sets where something is counted, disjoint kinds of threads, `None` outside
them, and for the control loop what section 2 says of curves and mappings.

| Module | Theorems | Property |
|---|---|---|
| `ControllerProofs` | `Invariant`, `DriverTheorem`, `TestingTheorem`, `EntryTheorem` | `IInv`, `OneDriverPerFan`, `TestingTruthful`, `EntryChangesLocked` |
| | `LifecycleTheorem`, `SavedTheorem`, `DanglingTheorem` | `LifecycleSpec` (the refinement), `SavedWhenQuiet`, `NoDanglingStatus` |
| | `StrandedTheorem` | `NoStrandedFan`, when `Recover` is not called |
| `ConfigProofs` | `ConfigInvariant`, `WholeTheorem`, `UnnoticedTheorem` | `ConfigInv`, `LoadedWhole`, `OwnSaveUnnoticed` |
| `ObserversProofs` | `ObserversTheorem` | `ObserversInv` |
| `ProgramProofs` | `ReachableTheorem`, `ServedTheorem` | `ProgramInv`, `ServedInControl` |
| | `ReleasedTheorem` | `ReleasedAtEnd`, if `Plausible` |
| `DeviceProofs` | `DevicesTheorem` | `DevicesInv` |
| | `AppliesTheorem`, `KeepsEnabledTheorem`, `KeepsDisabledTheorem` | `ReloadApplies`, `ReloadKeepsEnabled`, `ReloadKeepsDisabled` |
| `LoopProofs` | `LoopTypeTheorem`, `SpinsTheorem`, `RaisedTheorem`, `OvershootTheorem`, `HotterTheorem` | `LoopTypeOK`, `DrivenSpins`, `RaisedStays`, `NoOvershoot`, `HotterNotSlower` |
| | `SensorTypeTheorem` | `SensorTypeOK` |
| | `AverageTheorem` | `AverageWithinRecent`, if `Measurable` |
| `CalibrationProofs` | `CalibrationTypeTheorem`, `IncreasesTheorem`, `KeepsRunningTheorem` | `CalibrationTypeOK`, `RpmIncreasesWithPwm`, `MappedKeepsRunning` |
| | `StartPwmTheorem` | `StartPwmStarts`, if `MaxFaults <= 1` |
| `FanConfigProofs` | `FanConfigTypeTheorem`, `RisingTheorem`, `LoadsBackTheorem`, `EntryKeptTheorem` | `FanConfigTypeOK`, `RisingCurve`, `LoadsBack`, `EntryKept` |

**Controller.** That two threads never drive one fan is not inductive: a thread
leaves the table by the action of another (`Erase`). `IInv` adds why it cannot be
erased while it drives:

* `WriterInv`, `ReadersInv`, `Exclusive`: the locks are held exactly at the places
  where the code holds them, so whoever changes an entry has it alone.
* `TaskOfThread`, `ThreadOfTask`: an entry and its thread point at each other until
  the thread has been joined; `EntryKept`: an entry is empty where a task is
  emplaced and stays while someone joins it.
* `FrameOK`: the call stack of a thread (which loop it is in, over whose lock).
* `TestingTruthful`: the flag and the thread's position.

There is one lemma per kind of action (`DisableEnter` and `RestartEnter` share
`JoinKeeps`, the erasing actions `EraseKeeps`, those that only move the thread
`HopKeeps` ...), and `NextKeeps` puts them together. `EntryTheorem` is an action
property: from `IInv`, each step that changes an entry is one of a lock's holder.

**The refinement.** It needs no stronger invariant than `IInv`. Most
steps are taken `Aside`: no entry, flag or result changes and no thread of a task
moves. The others are those of a task's thread, those that start or erase one, and
the two by which a caller of `test()` stops waiting. For each of them one leaf names the
move of `FanLifecycle`, and one says that the thread `SavedWhenQuiet`, or the call
`NoDanglingStatus`, is about is still there (`StillAwaits`: it waits for the same fan's
test, and blocks).

**Release.** `NoStrandedFan` is not inductive: the restart thread of a test leaves a fan
alone when it finds a task, whose thread may have ended. `SInv` adds why that is
harmless: a thread that ended with its fan in manual mode was a test's, and the
restart thread it left has yet to look (`Released`); an ignored fan is never tested
(`TestedOK`). With `Recover` it is false, hence the assumption.

**ConfigFile.** `ConfigInv` is inductive: exactly the threads inside `read_config`,
`to_file` or the watcher's branch hold `config_mutex` (`HolderInv`), and each carries what
its place says (`CarriedInv`). One lemma per action. `LoadedWhole` says more, and for any
number of kills: while no kill came inside a save, a torn file has a saver that will
fill it, and no thread, and not the memory, has what it held. It is inductive once
`ConfigInv` is known: who reads, or lets go of the mutex, holds it, so the saver that has
yet to flush is that thread itself (`AloneInside`). A restart after a kill elsewhere finds
no torn file, since it has no saver left to fill it. `WatcherStuck` records why the watcher
never gets past
"reload": the mutex it waits for is its own. `OwnSaveUnnoticed` needs `OwnWrites`: while
nobody edits, the file's time is the recorded one, but for a saver between its write
and its stamp, who holds the mutex the watcher needs to look.

**Observers.** The counter is the notifiers inside less the clients that remove; it
is inductive with the threads' labels, and each step that changes it moves one
thread into or out of one of two finite sets.

**Program.** `ProgramProofs` first says what each operation of `FanDriver` can return
(`Taken`: after a success the chip is manual; `Keeps`: else it is as it was). Then `PInv`:
who drives the fan, or has yet to let go of it, was bound, and listens or was told to
stop (`EngagedListens`); two that do are two of which the later began beside the other
(`EngagedAlone`), so that without a crowd every step on the chip is that of the one process
engaged (`OwnStep`), and any other's leaves it alone (`AloofStep`): an object that is not
enabled does not write as it is destroyed.

`ReleasedAtEnd` needs how often an object has yet to give the fan back. `Owned`: while
the chip is in manual mode, nobody was killed and no write failed, somebody's object
is enabled. `Answered`: while the fan was driven, somebody's remaining tries (the
end of the loop, the late half of `disable`, the destructor) outlast the failures
that may still come. `FlagsFit`: the `driver_flag` each object would write is not the
manual mode. The theorem's hypothesis `Plausible` is that at most two writes fail,
since the code tries three times, and that a fan can be given back at all
(`Releasable`): its own mode, and that in its file, is not the manual one, and a Dell
fan that only knows another command than the second has that command in its
file, because of what FanDell.cpp:69 stores (section 5).

**DeviceTable.** `DInv` adds to `DevicesInv` that the fans of the configuration have
different hardware, and `ReadInv` that the labels a merge visits are theirs. The
assumption that matters is that the names of enumerated fans are different
(`IsInjective(Name)`).

The three properties of a reload speak of its last step and of the table when it
began, several steps before. `ReloadInv` says what holds in between: when the file has
been read, all the fans of the beginning are there, and each other one has its own
name (`FoundInv`); then, unless a label is another fan's (`~Clash`), a label of the file
that is taken is taken by its own fan (`Own`), so `emplace` never meets another one and
what was merged is as the file says (`Applied`); what ran and did not refuse, runs
(`Enabled`); and what
did not run is still seen to be configured until it is merged, which is
what keeps `on_match` from enabling it (`StaysOff`). Removal is by label, and `Applied`
says that no fan of the file has a label that is removed.

**ControlLoop.** `LInv`: the speed is below half the unsigned range while the curve
rises, so a difference, converted to int, is the difference; and passes that asked
for less, with those that may still be refused, make the stickiness. `SmoothIs` says
what `smooth_rpm` may return; `DemandBound` that interpolation stays under the
upper point of a rising segment. `DrivenSpins` rests on `TestedAssumption`, which
is what `Calibration`'s properties say a test finds.

`HotterNotSlower`: a demand lies between the speeds of the two points around it
(`DemandBetween`), so for two temperatures in one segment it is a division that
rises (`DivRises`), and for two segments there is a point between; the closest point
of a mapping to a greater speed is not an earlier one (`ClosestRises`). Here
`TestedAssumption` is used once more: the PWMs of a mapping rise with its speeds.

**Calibration.** `CInv` says, for each phase of `Fan::test`, which PWMs the map has so far
and that a PWM with a speed other than 0 is one at which the driver and the motor
were seen to run. `Store` sorts the speeds and gives the n-th PWM the n-th of them:
that the result is a map which rises is a matter of counting (`RankedExists`: in a
finite set of numbers there is exactly one with n smaller ones, from the cardinality
theorems), and that the PWMs of running speeds stay running is that there are as many
smaller speeds as smaller PWMs (`StoreRuns`). `HardwareAssumption` is what the module
takes of motors and drivers: a fan that turns needs less to go on than to start, and
a driver keeps the two ends of the range.

`StartPwmStarts` needs more (`SInv`): while the start is looked for, a fan that turns
below its kick does so because the driver kept a higher PWM than was written, and then
keeps none between that and the one that starts the fan; so the first PWM that is
read back as written and turns the fan is at least the kick. With two failing
writes this is false, as TLC shows: if both writes of 0 fail, that of `test_stopped` and the
first of `test_start`, the fan still turns from `set_pwm_test`, and 2, once written, is
taken for the start. Hence the hypothesis; the run has one failing write.

**Sensor.** Which reading a slot holds depends on how far the cursor is past it (`Since`);
the slot ahead of the cursor is `Len` readings old, not `Len - 1`, because the cursor
also stops one past the end (Sensor.cpp:14). `SumBetween` is by induction on the
elements of `std::accumulate`. `AverageTheorem` assumes what the widths of
Sensor.cpp:23 need (`Measurable`): no temperature is negative, since the sum is divided
as unsigned, and the sum of a history is an int.

**FanConfig.** `CurveRises` is about operators alone: for two points the places of their
texts are in the order of their temperatures (`CelsiusRises`, since the division by 9
rounds to 0 on both sides of 32 °F), and each unit rises with its value. For percent
that is that the lowest running speed is not above the top; for PWM (`PwmRises`) it
is the case analysis of the search of Fan.cpp:359-372: the first entry that reaches the
greater PWM is not an earlier one, and where it is the same one, an entry that is nearer
for the smaller PWM is nearer for the greater. It needs a mapping that rises, which is what
`RpmIncreasesWithPwm` says a test stores. `LoadsBack` needs that the text `map_str`
writes has each key once: in a finite set of numbers there is exactly one with k that are
not greater (`RankedExists`). `EntryKept` is not inductive: `HeldInv` adds that, while the
`Fan` is made of the whole entry, the entry's temperatures are among those a save would
write of it, which is about two texts and not about the curve, since a point below 0 °C
is written with a sign that is not read. The assumption on the constants is that texts
and measurements have no more entries, and no greater speeds, than an int can be.

**Only model-checked**: everything with fairness, which this prover cannot reach
(`CallsReturn`, `ConfigCallsReturn`, `NotifyReturns`, `UnsubscribeReturns`, `ReachesDemand`,
`TestEnds`, `StopEnds`).

## 5. Where code and documents disagree

Two runs keep a counterexample (`findings` in `PROJECT.json`):

* `DisableWhileTesting`: `disable()` erases a test's task, and so joins it, with the
  unique lock (Controller.cpp:56-60) that the test's thread waits for at line 136
  to reset its status. "End gracefully" says FanTask.cpp:23. The run finds both
  waiting for ever. The same happens in `test()` when it "joins onto" a running test
  (line 163), and in `disable()` with an observer registered, when the loop waits
  for the shared lock to report its status (line 440).
* `EditWedgesReload`: the watcher calls `reload()` with `config_mutex` held (413-416)
  and `read_config` locks it again (251). Every later reload and save waits too.
  The same follows a save of a text that fits the stream's buffer: the time is
  recorded before the flush (387), which then looks like an edit.

The following were seen while modelling. The models contain the behaviour and the
properties of the passing runs are stated so that they hold beside it; no run
states the claim.

| Where | Code | Says |
|---|---|---|
| Controller.cpp:35 | `enable` of a Dell fan holds its lock while it enables the others; two such calls may wait for each other | README.md:125 "Enable control" |
| Controller.cpp:67 | an `enable` between the halves of a Dell `disable` leaves one fan on and one off | :33 "can only be enabled/disabled togther" |
| Controller.cpp:63 | control is given back without the lock; a fan enabled meanwhile is switched to automatic | README.md:125 |
| Controller.cpp:323, 131 | `merge` tests a fan anew without blocking: `test` returns and the lambda goes on with its reference to `test_status`, which is gone | :182 "blocking" |
| Controller.cpp:320 | the `test_status` that `merge` hands on is null when the old test has reset it between the status (306) and the look-up; the new test writes through it | FanTask.cpp:20: a task with a status is testing |
| Controller.cpp:30, 315-317 | a reload ends the loop of a fan first; if taking its control fails then, the fan has no loop and nobody tries again | README.md:133 |
| Controller.cpp:141 | a test may begin between `tests_running()` and `to_file()` | :140 "Only write to file when no other fan are still testing" |
| Controller.cpp:113 | `recover` takes control for entries whose loop ended by an exception | :108 "for all running tasks" |
| Controller.cpp:30 | a fan found not to be configured after `try_enable` stays in manual mode | Fan.cpp:76 "skipping" |
| Controller.cpp:94 | a reload that read an older file may be applied after one that read a newer | README.md:133 |
| Controller.cpp:306, 347 | labels that two fans exchange lose one of them; a fan whose label was chosen by the user and then removed from the file is removed though it is there | :274, :344 |
| Service.cpp:148 | a change between the first status and the registration is not sent | :146 "sending status on changes" |
| Service.cpp:153 | the removal lock is a temporary and gone before the erase (155): a callback may run in a frame that has ended | :153 "Acquire a removal lock before removing to ensure it's not in use" |
| Controller.cpp:283, Fan.cpp:485 | a fan whose own entry is unchanged is not replaced and keeps the sensor object it had, so a changed averaging interval or a label given to another sensor does not reach it | README.md:133 "Reload config" |
| Controller.cpp:147 | the detached restart of a test may enable its fan after `disable_all`, as the service ends; only the destructors give it back | :81 "Disabling all" |
| Controller.cpp:60, 416 | a service whose call waits for ever does not end when it is stopped: the server waits for its calls | README.md:137 "Stop the service" |
| main.cpp:26, Service.cpp:18-22 | two processes may both find no service, before either listens; gRPC shares the port by default on Linux (`SO_REUSEPORT`), so both get a server and both drive the fans (a state of `MCProgram` with `crowd` set) | main.cpp:27 "Only 1 instance may be run" |
| Client.cpp:71 | a second service may begin while the first, 1 s after its stop, still gives the fans away | "Sleep to ensure the completely service has shutdown" |
| main.cpp:137 | a SIGTERM before the server listens stops nobody, or another instance | README.md:137 "Stop the service" |
| Service.cpp:244 | `fork_thread` leaves every process whose fork worked, the child too | README.md:136 "Daemonize the process" |
| Sensor.cpp:14, 23, 12 | the cursor goes one past the end; a negative int sum is divided as unsigned; no interval divides by zero; a reloaded interval does not reach an existing history | README.md:64-66 |
| Fan.cpp:44, 46 | the difference of a falling segment wraps; the weight is `temp / (low + high)` | README.md:60-62 |
| Fan.cpp:127, 136, 152, 155 | the smoothing of an ended loop goes on in the next; stickiness is used up once; the intervals are reset by each pass; 0 intervals divide by zero | README.md:62-63 |
| Fan.cpp:278, 290, 244 | `target_pwm >= PWM_MIN` always holds, so a fan that does not stop is tested for ever; two results are dropped, not three; the margin of 6 is not written | :273, :274, :243 |
| Fan.cpp:345 | `percent / 100` divides integers | README.md:79 "50 % of max RPM" |
| Fan.cpp:365 | a PWM below the first one reads the element before the first of the map | README.md:76 |
| Fan.cpp:388 | the pattern has no sign: a temperature below 0 °C that was saved is read as one above | README.md:76 |
| Fan.cpp:465 | a sensor that is not enumerated is not found, and saved as none | README.md:53 |
| FanDell.cpp:69 | the test stores the code of the command as `driver_flag`, so `mode` falls back to the second method for a fan that only knows the first, and testing again cannot help | :78 "Unable to determine DELL fan control method, defaulting to 2" |
| NvidiaDevices.cpp:96-102 | both percentages truncate, so a GPU's fan reads back every fifth PWM only and its test skips the others | README.md:6 |
| main.cpp:57 | all arguments are lower-cased, the path of `--config` too | README.md:134 |
| Fan.cpp:376 | a fan that is not tested loses its curve, and a later save writes it empty | README.md:53 |

## 6. Not modelled

* Sensors in `merge` (they have no tasks; what a fan keeps of them is in section 5); fans
  under test during `set_devices`, and in `DeviceTable` during a reload (`Controller` has
  the reload of a fan under test); calls during a reload that change the devices.
* `NvInit`, and the RPCs that only answer.
* Torn nodes of the unordered maps and lists that are changed while other threads
  read them: each change is one step.
* `Fan::test_interval`, which nobody calls.
* Dell SMM's assembly and its queries of types and speeds; the NVIDIA and X libraries
  and their enumeration: calls into hardware, whose outcomes are inputs of
  `FanDriver` and `Calibration`.
* The readers of sysfs (one number in one file; failures are inputs of the modules),
  the client's other commands (one request, one printed answer), the parsing of
  arguments, and logging: no state that a property could be about.

## 7. Plan

Done, in this order: Controller and its proof, ConfigFile and its proof, Observers,
Sensor, ControlLoop, Calibration, DeviceTable; FanConfig, FanDriver and Program with
its proof; the refinement and the other invariants of Controller; the proofs of
Observers, DeviceTable and ControlLoop; those of Calibration, Sensor and FanConfig, of the
end of the program, and of what a reload keeps.

Next:

1. `DeviceTable` with tests and with RPCs during a reload, composed with the task
   table; sensors in `merge` and the fans that keep an old one.
2. Observers with the first status that is sent before the registration.
3. Theorems about `FanDriver`: what `recover_control` and a failed test leave behind.

## 8. Running

    tlc -config MCTable.cfg MCController.tla
    tlapm ControllerProofs.tla

`MCTable`, `MCCalls` and `DisableWhileTesting` are configurations of `MCController`;
`EditWedgesReload` is one of `MCConfig`. Every property of a passing run has a faulty
variant of an action or operator beside the original ("Faulty variant" in the modules,
`mutants` in `PROJECT.json`) under which TLC finds it violated.
