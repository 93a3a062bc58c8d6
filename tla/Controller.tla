----------------------------- MODULE Controller -----------------------------
(* The task table of fancon's Controller (src/Controller.cpp) and the threads *)
(* that work on it: the RPC threads of Service, the thread of each FanTask    *)
(* (a control loop or a fan test), and the detached thread that re-enables a  *)
(* fan when its test is over.                                                 *)
(*                                                                            *)
(* One step is what a thread does between two points where another thread can *)
(* matter: taking a lock, joining a thread, iterating to the next fan, reading*)
(* or writing the table outside a lock, commanding the fan's control mode.    *)
EXTENDS Integers, FiniteSets

CONSTANTS
  Fans,        \* the labels in devices.fans
  Dell,        \* fans of DevType::DELL; one SMM command switches all of them
  Configured,  \* fans with a curve and a sensor that is not ignored
  Ignored,     \* fans with "ignore" set
  Flaky,       \* fans whose control mode write may fail
  Throwing,    \* fans whose update() may throw (NVIDIA, X11 display lost)
  Callers,     \* RPC threads, and the watcher that reloads
  Workers,     \* task threads and detached restart threads
  None,
  Ops,         \* the RPCs the callers make
  MaxCalls     \* bound: how many RPCs are made in a behaviour

AllOps == {"Enable", "EnableAll", "Disable", "DisableAll", "Test", "Recover",
           "GetFanStatus", "SubscribeFanStatus", "Reload"}
Threads == Callers \cup Workers

ASSUME FansAssumption ==
  /\ IsFiniteSet(Fans)
  /\ Dell \subseteq Fans /\ Configured \subseteq Fans /\ Ignored \subseteq Fans
  /\ Flaky \subseteq Fans /\ Throwing \subseteq Fans
ASSUME ThreadsAssumption ==
  /\ Callers \cap Workers = {} /\ None \notin Threads /\ None \notin Fans
ASSUME BoundsAssumption == Ops \subseteq AllOps /\ MaxCalls \in Nat

VARIABLES
  pc,       \* where each thread is
  fan,      \* the fan it works on
  sweep,    \* the fans its loop has still to visit
  ret,      \* where its current enable() or disable() returns to
  outer,    \* the Dell fan whose enable() or disable() runs that loop
  task,     \* tasks: the thread of each fan's FanTask
  testing,  \* FanTask::test_status is set
  run,      \* FanTask::run, by thread
  ref,      \* the waiting call whose parameters a test's lambda refers to
  writer,   \* tasks_mutex: the holder of the unique lock
  readers,  \* tasks_mutex: the calls that join a thread under a shared lock
  mode,     \* the hardware's control mode
  unsaved,  \* fans with test results that are not in the config file
  calls     \* RPCs still to come

frame == <<fan, sweep, ret, outer>>
table == <<task, testing, run, ref>>
locks == <<writer, readers>>
vars  == <<pc, frame, table, locks, mode, unsaved, calls>>

LoopPC == {"loop_top", "loop_status", "loop_update", "loop_release"}
TestPC == {"test_begin", "test_run"}
TailPC == {"test_reset", "test_count", "test_save", "test_restart"}
TaskPC == LoopPC \cup TestPC \cup TailPC \cup {"exited"}

Init ==
  /\ pc = [t \in Threads |-> "idle"]
  /\ fan = [t \in Threads |-> None]
  /\ sweep = [t \in Threads |-> {}]
  /\ ret = [t \in Threads |-> "idle"]
  /\ outer = [t \in Threads |-> None]
  /\ task = [f \in Fans |-> None]
  /\ testing = [f \in Fans |-> FALSE]
  /\ run = [w \in Workers |-> FALSE]
  /\ ref = [w \in Workers |-> None]
  /\ writer = [f \in Fans |-> None]
  /\ readers = [f \in Fans |-> {}]
  /\ mode = [f \in Fans |-> "auto"]
  /\ unsaved = {}
  /\ calls = MaxCalls

-----------------------------------------------------------------------------
(* Locks, control modes, and the bookkeeping of a thread's position.          *)

\* shared_mutex: a reader waits for the writer only, a writer for everybody.
CanRead(f)  == writer[f] = None
CanWrite(f) == writer[f] = None /\ readers[f] = {}
Acquire(t)  == writer' = [writer EXCEPT ![fan[t]] = t]
Release(t)  == writer' = [writer EXCEPT ![fan[t]] = None]

\* The embedded controller has one mode for all Dell fans.
Chip(f) == IF f \in Dell THEN Dell ELSE {f}
SetMode(f, m) == mode' = [g \in Fans |-> IF g \in Chip(f) THEN m ELSE mode[g]]
EnableControl(f)  == SetMode(f, "manual")
DisableControl(f) == SetMode(f, "auto") \/ (f \in Flaky /\ UNCHANGED mode)

\* Some client is registered in status_observers.
Subscribed == \E c \in Callers : pc[c] = "subscribed"

Goto(t, l) == pc' = [pc EXCEPT ![t] = l]
Return(t)  == Goto(t, ret[t]) /\ fan' = [fan EXCEPT ![t] = None]
           /\ UNCHANGED <<sweep, ret, outer>>
\* f is the next fan of t's loop; an unordered_map may have them in any order.
Take(t, f) == f \in sweep[t] /\ sweep' = [sweep EXCEPT ![t] = @ \ {f}]

\* Call enable(f, false) or disable(f, false) for the next fan of a loop.
VisitNext(t, l) == \E f \in Fans :
  /\ Take(t, f)
  /\ Goto(t, l)
  /\ fan' = [fan EXCEPT ![t] = f]
  /\ UNCHANGED <<ret, outer>>
SweepDell(t) ==
  /\ outer' = [outer EXCEPT ![t] = fan[t]]
  /\ sweep' = [sweep EXCEPT ![t] = Dell \ {fan[t]}]
  /\ fan' = [fan EXCEPT ![t] = None]
\* The loop over the other Dell fans is done: resume the enclosing call at l.
Resume(t, l) ==
  /\ sweep[t] = {}
  /\ Goto(t, l)
  /\ fan' = [fan EXCEPT ![t] = outer[t]]
  /\ outer' = [outer EXCEPT ![t] = None]
  /\ ret' = [ret EXCEPT ![t] = "idle"]
  /\ UNCHANGED sweep
EndSweep(t) ==
  /\ sweep[t] = {}
  /\ Goto(t, "idle")
  /\ ret' = [ret EXCEPT ![t] = "idle"]
  /\ UNCHANGED <<fan, sweep, outer>>

-----------------------------------------------------------------------------
(* The RPC handlers: a request finds its fan, then enters the Controller.     *)

Request(t, op) ==
  /\ pc[t] = "idle" /\ calls > 0 /\ op \in Ops
  /\ calls' = calls - 1
  /\ UNCHANGED <<outer, table, locks, mode, unsaved>>
CallOn(t, f, l) ==
  /\ Goto(t, l)
  /\ fan' = [fan EXCEPT ![t] = f]
  /\ UNCHANGED <<sweep, ret>>
CallSweep(t, fs, l) ==
  /\ Goto(t, l)
  /\ sweep' = [sweep EXCEPT ![t] = fs]
  /\ ret' = [ret EXCEPT ![t] = l]
  /\ UNCHANGED fan

Enable(t, f)  == Request(t, "Enable") /\ CallOn(t, f, "enable")
Disable(t, f) == Request(t, "Disable") /\ CallOn(t, f, "disable")
\* An ignored fan, or one already tested and not forced, is not tested.
Test(t, f) == f \notin Ignored /\ Request(t, "Test") /\ CallOn(t, f, "test")
GetFanStatus(t, f) == Request(t, "GetFanStatus") /\ CallOn(t, f, "status")
EnableAll(t) == Request(t, "EnableAll") /\ CallSweep(t, Fans, "enable_all")
\* disable_all() copies the labels of the tasks there are, without a lock.
DisableAll(t) == Request(t, "DisableAll")
              /\ CallSweep(t, {f \in Fans : task[f] # None}, "disable_all")
Recover(t) == Request(t, "Recover") /\ CallSweep(t, Fans, "recover")
SubscribeFanStatus(t) ==
  Request(t, "SubscribeFanStatus") /\ CallSweep(t, Fans, "subscribe")

\* merge() finds a fan it replaces TESTING: disable(), re-insert, test() again
\* without blocking. Its status() and find() are one step; its other branches
\* are calls of disable() and enable(), which the other RPCs make.
Reload(t, f) ==
  /\ testing[f] /\ CanRead(f)
  /\ Request(t, "Reload")
  /\ Goto(t, "disable")
  /\ fan' = [fan EXCEPT ![t] = f]
  /\ sweep' = [sweep EXCEPT ![t] = {f}]
  /\ ret' = [ret EXCEPT ![t] = "merge_test"]

-----------------------------------------------------------------------------
(* Controller::enable, also run by the restart thread of a test.              *)

\* enable() returns without a task: the fan has one, is ignored, does not give
\* control, or gives it and is then found not to be configured.
EnableSkip(t) ==
  LET f == fan[t] IN
  /\ pc[t] = "enable" /\ CanWrite(f)
  /\ \/ (task[f] # None \/ f \in Ignored) /\ UNCHANGED mode
     \/ task[f] = None /\ f \in Flaky \ Ignored /\ DisableControl(f)
     \/ task[f] = None /\ f \notin Ignored \cup Configured /\ EnableControl(f)
  /\ Return(t)
  /\ UNCHANGED <<table, locks, unsaved, calls>>

\* Faulty variant: the table is not searched for a task first.
EnableTakeAnyway(t) ==
  /\ pc[t] = "enable" /\ CanWrite(fan[t])
  /\ fan[t] \in Configured \ Ignored
  /\ EnableControl(fan[t])
  /\ Acquire(t)
  /\ Goto(t, "enable_spawn")
  /\ UNCHANGED <<frame, table, readers, unsaved, calls>>

EnableTake(t) ==
  LET f == fan[t] IN
  /\ pc[t] = "enable" /\ CanWrite(f)
  /\ task[f] = None /\ f \in Configured \ Ignored
  /\ EnableControl(f)
  /\ Acquire(t)
  /\ IF f \in Dell /\ ret[t] = "idle"
     THEN /\ Goto(t, "enable_dell") /\ SweepDell(t)
          /\ ret' = [ret EXCEPT ![t] = "enable_dell"]
     ELSE Goto(t, "enable_spawn") /\ UNCHANGED frame
  /\ UNCHANGED <<table, readers, unsaved, calls>>

\* enable_dell_fans: each enable locks its own fan while this one's is held.
EnableDell(t) ==
  /\ pc[t] = "enable_dell"
  /\ VisitNext(t, "enable") \/ Resume(t, "enable_spawn")
  /\ UNCHANGED <<table, locks, mode, unsaved, calls>>

EnableAllNext(t) ==
  /\ pc[t] = "enable_all"
  /\ VisitNext(t, "enable") \/ EndSweep(t)
  /\ UNCHANGED <<table, locks, mode, unsaved, calls>>

EnableSpawn(t, w) ==
  LET f == fan[t] IN
  /\ pc[t] = "enable_spawn" /\ pc[w] = "idle"
  /\ task' = [task EXCEPT ![f] = w]
  /\ run' = [run EXCEPT ![w] = TRUE]
  /\ pc' = [pc EXCEPT ![t] = ret[t], ![w] = "loop_top"]
  /\ fan' = [fan EXCEPT ![t] = None, ![w] = f]
  /\ Release(t)
  /\ UNCHANGED <<sweep, ret, outer, testing, ref, readers, mode, unsaved, calls>>

-----------------------------------------------------------------------------
(* Erasing a task: ~FanTask clears run and joins the thread, and the caller   *)
(* keeps the unique lock until the thread has ended.                          *)

\* Faulty variants: the flag is left set; the lock is not taken.
LockAndJoinKeepsRunning(t, l) ==
  /\ task[fan[t]] # None
  /\ Acquire(t)
  /\ Goto(t, l)
  /\ UNCHANGED <<run, task, testing, ref, readers>>
JoinUnlocked(t, l) ==
  /\ task[fan[t]] # None
  /\ run' = [run EXCEPT ![task[fan[t]]] = FALSE]
  /\ Goto(t, l)
  /\ UNCHANGED <<task, testing, ref, writer, readers>>

LockAndJoin(t, l) ==
  /\ task[fan[t]] # None
  /\ Acquire(t)
  /\ run' = [run EXCEPT ![task[fan[t]]] = FALSE]
  /\ Goto(t, l)
  /\ UNCHANGED <<task, testing, ref, readers>>

\* Faulty variants: the thread is detached; it is killed where it stands.
EraseDetached(t, l) ==
  /\ task' = [task EXCEPT ![fan[t]] = None]
  /\ testing' = [testing EXCEPT ![fan[t]] = FALSE]
  /\ Goto(t, l)
  /\ UNCHANGED <<ref, fan, run, readers>>
EraseKills(t, l) ==
  LET f == fan[t] IN
  /\ task' = [task EXCEPT ![f] = None]
  /\ testing' = [testing EXCEPT ![f] = FALSE]
  /\ ref' = [ref EXCEPT ![task[f]] = None]
  /\ pc' = [pc EXCEPT ![t] = l, ![task[f]] = "idle"]
  /\ fan' = [fan EXCEPT ![task[f]] = None]
  /\ UNCHANGED <<run, readers>>

Erase(t, l) ==
  LET f == fan[t] IN
  /\ pc[task[f]] = "exited"
  /\ task' = [task EXCEPT ![f] = None]
  /\ testing' = [testing EXCEPT ![f] = FALSE]
  /\ ref' = [ref EXCEPT ![task[f]] = None]
  /\ pc' = [pc EXCEPT ![t] = l, ![task[f]] = "idle"]
  /\ fan' = [fan EXCEPT ![task[f]] = None]
  /\ UNCHANGED <<run, readers>>

DisableEnter(t) ==
  /\ pc[t] = "disable" /\ CanWrite(fan[t])
  /\ \/ task[fan[t]] = None /\ Return(t) /\ UNCHANGED <<table, locks>>
     \/ LockAndJoin(t, "disable_join") /\ UNCHANGED frame
  /\ UNCHANGED <<mode, unsaved, calls>>

DisableJoin(t) ==
  /\ pc[t] = "disable_join"
  /\ Erase(t, "disable_tail")
  /\ Release(t)
  /\ UNCHANGED <<sweep, ret, outer, mode, unsaved, calls>>

\* The lock is gone when control is given back.
DisableTail(t) ==
  /\ pc[t] = "disable_tail"
  /\ DisableControl(fan[t])
  /\ IF fan[t] \in Dell /\ ret[t] = "idle"
     THEN /\ Goto(t, "disable_dell") /\ SweepDell(t)
          /\ ret' = [ret EXCEPT ![t] = "disable_dell"]
     ELSE Goto(t, "disable_notify") /\ UNCHANGED frame
  /\ UNCHANGED <<table, locks, unsaved, calls>>

DisableDell(t) ==
  /\ pc[t] = "disable_dell"
  /\ VisitNext(t, "disable") \/ Resume(t, "disable_notify")
  /\ UNCHANGED <<table, locks, mode, unsaved, calls>>

DisableNotify(t) ==
  /\ pc[t] = "disable_notify"
  /\ IF Subscribed THEN Goto(t, "status") /\ UNCHANGED frame ELSE Return(t)
  /\ UNCHANGED <<table, locks, mode, unsaved, calls>>

DisableAllNext(t) ==
  /\ pc[t] = "disable_all"
  /\ VisitNext(t, "disable") \/ EndSweep(t)
  /\ UNCHANGED <<table, locks, mode, unsaved, calls>>

-----------------------------------------------------------------------------
(* Controller::test. The Test RPC blocks; merge() does not.                   *)

Blocking(t) == ret[t] # "merge_test"

\* The fan that merge() has disabled is tested again, and then merge() goes on.
MergeTest(t) ==
  /\ pc[t] = "merge_test"
  /\ VisitNext(t, "test") \/ EndSweep(t)
  /\ UNCHANGED <<table, locks, mode, unsaved, calls>>

TestEnter(t) ==
  LET f == fan[t] IN
  /\ pc[t] = "test" /\ CanWrite(f)
  /\ \/ testing[f] /\ Blocking(t) /\ LockAndJoin(t, "test_joinon") /\ UNCHANGED frame
     \/ testing[f] /\ ~Blocking(t) /\ Return(t) /\ UNCHANGED <<table, locks>>
     \/ ~testing[f] /\ LockAndJoin(t, "test_erase") /\ UNCHANGED frame
     \/ task[f] = None /\ Goto(t, "test_spawn") /\ Acquire(t)
        /\ UNCHANGED <<frame, table, readers>>
  /\ UNCHANGED <<mode, unsaved, calls>>

TestErase(t) ==
  /\ pc[t] = "test_erase"
  /\ Erase(t, "test_spawn")
  /\ UNCHANGED <<sweep, ret, outer, writer, mode, unsaved, calls>>

\* The status notification that follows waits for the shared lock, as the join
\* after it does, and changes nothing: "test_wait" stands for both. No call
\* stays behind for the lambda of merge()'s test: its references dangle.
TestSpawn(t, w) ==
  LET f == fan[t] IN
  /\ pc[t] = "test_spawn" /\ pc[w] = "idle"
  /\ task' = [task EXCEPT ![f] = w]
  /\ testing' = [testing EXCEPT ![f] = TRUE]
  /\ run' = [run EXCEPT ![w] = TRUE]
  /\ ref' = [ref EXCEPT ![w] = IF Blocking(t) THEN t ELSE None]
  /\ pc' = [pc EXCEPT ![t] = "test_wait", ![w] = "test_begin"]
  /\ fan' = [fan EXCEPT ![w] = f]
  /\ Release(t)
  /\ UNCHANGED <<sweep, ret, outer, readers, mode, unsaved, calls>>

\* Faulty variant: no call blocks.
TestWaitNot(t) ==
  /\ pc[t] = "test_wait" /\ CanRead(fan[t])
  /\ Return(t)
  /\ UNCHANGED <<table, locks, mode, unsaved, calls>>

\* Whatever task the fan has by then is told to stop, and joined.
TestWait(t) ==
  LET f == fan[t] IN
  /\ pc[t] = "test_wait" /\ CanRead(f)
  /\ \/ (~Blocking(t) \/ task[f] = None) /\ Return(t) /\ UNCHANGED <<run, readers>>
     \/ /\ Blocking(t) /\ task[f] # None
        /\ readers' = [readers EXCEPT ![f] = @ \cup {t}]
        /\ run' = [run EXCEPT ![task[f]] = FALSE]
        /\ Goto(t, "test_join") /\ UNCHANGED frame
  /\ UNCHANGED <<task, testing, ref, writer, mode, unsaved, calls>>

\* The joined thread has ended, and the call lets go of the lock it holds: the
\* shared one, or the unique one when it "just joins onto" a running test.
TestJoin(t) ==
  /\ pc[t] \in {"test_join", "test_joinon"} /\ pc[task[fan[t]]] = "exited"
  /\ readers' = [readers EXCEPT ![fan[t]] = @ \ {t}]
  /\ writer' = [writer EXCEPT ![fan[t]] = IF @ = t THEN None ELSE @]
  /\ Return(t)
  /\ UNCHANGED <<table, mode, unsaved, calls>>

-----------------------------------------------------------------------------
(* recover, status and the subscription.                                      *)

\* recover() walks the live task table; only the visit itself is locked.
RecoverNext(t) ==
  /\ pc[t] = "recover"
  /\ \/ EndSweep(t)
     \/ VisitNext(t, "recover_fan") /\ task[fan'[t]] # None
     \/ /\ \E f \in Fans : Take(t, f) /\ task[f] = None
        /\ UNCHANGED <<pc, fan, ret, outer>>
  /\ UNCHANGED <<table, locks, mode, unsaved, calls>>

\* When the entry was erased meanwhile, the label read from it is anything.
RecoverFan(t) ==
  LET f == fan[t] IN
  /\ pc[t] = "recover_fan" /\ CanRead(f)
  /\ \/ EnableControl(f)
     \/ (f \in Flaky \/ task[f] = None) /\ UNCHANGED mode
  /\ Return(t)
  /\ UNCHANGED <<table, locks, unsaved, calls>>

\* GetFanStatus, and the notification at the end of disable().
Status(t) ==
  /\ pc[t] = "status" /\ CanRead(fan[t])
  /\ Return(t)
  /\ UNCHANGED <<table, locks, mode, unsaved, calls>>

\* Send every fan's status, then register the observer.
Subscribe(t) ==
  /\ pc[t] = "subscribe"
  /\ \/ /\ \E f \in Fans : Take(t, f) /\ CanRead(f)
        /\ UNCHANGED <<pc, fan, ret, outer>>
     \/ /\ sweep[t] = {} /\ Goto(t, "subscribed")
        /\ ret' = [ret EXCEPT ![t] = "idle"] /\ UNCHANGED <<fan, sweep, outer>>
  /\ UNCHANGED <<table, locks, mode, unsaved, calls>>

Unsubscribe(t) ==
  /\ pc[t] = "subscribed" /\ Goto(t, "idle")
  /\ UNCHANGED <<frame, table, locks, mode, unsaved, calls>>

-----------------------------------------------------------------------------
(* The control loop of an enabled fan.                                        *)

LoopTop(w) ==
  /\ pc[w] = "loop_top"
  /\ Goto(w, CASE ~run[w] -> "loop_release"
               [] run[w] /\ Subscribed -> "loop_status"
               [] OTHER -> "loop_update")
  /\ UNCHANGED <<frame, table, locks, mode, unsaved, calls>>

LoopStatus(w) ==
  /\ pc[w] = "loop_status" /\ CanRead(fan[w])
  /\ Goto(w, "loop_update")
  /\ UNCHANGED <<frame, table, locks, mode, unsaved, calls>>

\* A failed PWM write makes update() take control again; an exception ends the
\* thread without giving control back and without removing the task.
LoopUpdate(w) ==
  /\ pc[w] = "loop_update"
  /\ \/ Goto(w, "loop_top") /\ UNCHANGED mode
     \/ fan[w] \in Flaky /\ Goto(w, "loop_top") /\ EnableControl(fan[w])
     \/ fan[w] \in Throwing /\ Goto(w, "exited") /\ UNCHANGED mode
  /\ UNCHANGED <<frame, table, locks, unsaved, calls>>

\* Faulty variant: the loop ends without disable_control().
LoopReleaseNot(w) ==
  /\ pc[w] = "loop_release" /\ Goto(w, "exited")
  /\ UNCHANGED <<frame, table, locks, mode, unsaved, calls>>

LoopRelease(w) ==
  /\ pc[w] = "loop_release"
  /\ DisableControl(fan[w])
  /\ Goto(w, "exited")
  /\ UNCHANGED <<frame, table, locks, unsaved, calls>>

-----------------------------------------------------------------------------
(* The thread of a test, and the thread it starts at its end.                 *)

TestBegin(w) ==
  /\ pc[w] = "test_begin"
  /\ \/ EnableControl(fan[w]) /\ Goto(w, "test_run")
     \/ fan[w] \in Flaky /\ DisableControl(fan[w]) /\ Goto(w, "test_reset")
  /\ UNCHANGED <<frame, table, locks, unsaved, calls>>

TestRun(w) ==
  /\ pc[w] = "test_run"
  /\ unsaved' = unsaved \cup {fan[w]}
  /\ Goto(w, "test_reset")
  /\ UNCHANGED <<frame, table, locks, mode, calls>>

\* Faulty variant: test_status stays set.
TestResetNot(w) ==
  /\ pc[w] = "test_reset" /\ CanRead(fan[w])
  /\ sweep' = [sweep EXCEPT ![w] = Fans]
  /\ Goto(w, "test_count")
  /\ UNCHANGED <<fan, ret, outer, table, locks, mode, unsaved, calls>>

TestReset(w) ==
  /\ pc[w] = "test_reset" /\ CanRead(fan[w])
  /\ testing' = [testing EXCEPT ![fan[w]] = FALSE]
  /\ sweep' = [sweep EXCEPT ![w] = Fans]
  /\ Goto(w, "test_count")
  /\ UNCHANGED <<fan, ret, outer, task, run, ref, locks, mode, unsaved, calls>>

\* tests_running() sums over the table, which nothing keeps still meanwhile.
TestCount(w) ==
  /\ pc[w] = "test_count"
  /\ \/ /\ \E f \in Fans : Take(w, f) /\ ~testing[f]
        /\ UNCHANGED pc
     \/ /\ \E f \in Fans : f \in sweep[w] /\ testing[f]
        /\ sweep' = [sweep EXCEPT ![w] = {}] /\ Goto(w, "test_restart")
     \/ sweep[w] = {} /\ Goto(w, "test_save") /\ UNCHANGED sweep
  /\ UNCHANGED <<fan, ret, outer, table, locks, mode, unsaved, calls>>

\* Faulty variant: only the thread's own results are written.
TestSaveOwn(w) ==
  /\ pc[w] = "test_save"
  /\ unsaved' = unsaved \ {fan[w]}
  /\ Goto(w, "test_restart")
  /\ UNCHANGED <<frame, table, locks, mode, calls>>

TestSave(w) ==
  /\ pc[w] = "test_save"
  /\ unsaved' = {}
  /\ Goto(w, "test_restart")
  /\ UNCHANGED <<frame, table, locks, mode, calls>>

TestRestart(w, r) ==
  /\ pc[w] = "test_restart" /\ pc[r] = "idle"
  /\ pc' = [pc EXCEPT ![w] = "exited", ![r] = "restart"]
  /\ fan' = [fan EXCEPT ![r] = fan[w]]
  /\ UNCHANGED <<sweep, ret, outer, table, locks, mode, unsaved, calls>>

\* The restart thread erases whatever task the fan has when it gets the lock.
RestartEnter(r) ==
  /\ pc[r] = "restart" /\ CanWrite(fan[r])
  /\ \/ task[fan[r]] = None /\ Goto(r, "enable") /\ UNCHANGED <<table, locks>>
     \/ LockAndJoin(r, "restart_join")
  /\ UNCHANGED <<frame, mode, unsaved, calls>>

RestartJoin(r) ==
  /\ pc[r] = "restart_join"
  /\ Erase(r, "enable")
  /\ Release(r)
  /\ UNCHANGED <<sweep, ret, outer, mode, unsaved, calls>>

-----------------------------------------------------------------------------
CallerStep(t) ==
  \/ EnableAllNext(t) \/ DisableEnter(t) \/ DisableJoin(t) \/ DisableTail(t)
  \/ DisableDell(t) \/ DisableNotify(t) \/ DisableAllNext(t)
  \/ MergeTest(t) \/ TestEnter(t) \/ TestErase(t)
  \/ (\E w \in Workers : TestSpawn(t, w))
  \/ TestWait(t) \/ TestJoin(t)
  \/ RecoverNext(t) \/ RecoverFan(t) \/ Status(t) \/ Subscribe(t)
EnableStep(t) ==
  \/ EnableSkip(t) \/ EnableTake(t) \/ EnableDell(t)
  \/ \E w \in Workers : EnableSpawn(t, w)
WorkerStep(w) ==
  \/ LoopTop(w) \/ LoopStatus(w) \/ LoopUpdate(w) \/ LoopRelease(w)
  \/ TestBegin(w) \/ TestRun(w) \/ TestReset(w) \/ TestCount(w) \/ TestSave(w)
  \/ (\E r \in Workers : TestRestart(w, r))
  \/ RestartEnter(w) \/ RestartJoin(w)
NewCall(t) ==
  \/ \E f \in Fans : \/ Enable(t, f) \/ Disable(t, f) \/ Test(t, f)
                     \/ GetFanStatus(t, f) \/ Reload(t, f)
  \/ EnableAll(t) \/ DisableAll(t) \/ Recover(t) \/ SubscribeFanStatus(t)

\* Every call is made and answered, and nothing runs but ended threads.
Terminated ==
  /\ calls = 0 /\ \A t \in Threads : pc[t] \in {"idle", "exited"}
  /\ UNCHANGED vars

Next ==
  \/ \E t \in Callers : NewCall(t) \/ CallerStep(t) \/ Unsubscribe(t)
  \/ \E t \in Threads : EnableStep(t)
  \/ \E w \in Workers : WorkerStep(w)
  \/ Terminated

Spec == Init /\ [][Next]_vars

\* The operating system runs every thread; a client may never call or cancel.
Fairness ==
  /\ \A t \in Callers : WF_vars(CallerStep(t))
  /\ \A t \in Threads : WF_vars(EnableStep(t))
  /\ \A w \in Workers : WF_vars(WorkerStep(w))
FairSpec == Spec /\ Fairness

-----------------------------------------------------------------------------
(* What the table promises.                                                   *)

EnablePC  == {"enable", "enable_spawn"}
DisablePC == {"disable", "disable_join", "disable_tail", "disable_notify", "status"}
SweepPC   == {"enable_all", "enable_dell", "disable_all", "disable_dell",
              "recover", "subscribe", "merge_test"}
AskPC  == {"test", "test_erase", "test_spawn", "test_wait"}
CallPC == {"idle", "subscribed", "recover_fan", "test_joinon", "test_join"}
          \cup AskPC \cup EnablePC \cup DisablePC \cup SweepPC
WorkPC == {"idle", "restart", "restart_join", "enable_dell"} \cup EnablePC \cup TaskPC

\* Types, and which thread may be at which label.
ThreadsOK ==
  /\ pc \in [Threads -> CallPC \cup WorkPC]
  /\ \A t \in Callers : pc[t] \in CallPC
  /\ \A w \in Workers : pc[w] \in WorkPC /\ ret[w] \in {"idle", "enable_dell"}
  /\ fan \in [Threads -> Fans \cup {None}]
  /\ sweep \in [Threads -> SUBSET Fans]
  /\ ret \in [Threads -> {"idle"} \cup SweepPC]
  /\ outer \in [Threads -> Fans \cup {None}]
TableOK ==
  /\ task \in [Fans -> Workers \cup {None}]
  /\ testing \in [Fans -> BOOLEAN]
  /\ run \in [Workers -> BOOLEAN]
  /\ ref \in [Workers -> Callers \cup {None}]
  /\ writer \in [Fans -> Threads \cup {None}]
  /\ readers \in [Fans -> SUBSET Callers]
  /\ mode \in [Fans -> {"auto", "manual"}]
  /\ unsaved \subseteq Fans
  /\ calls \in 0 .. MaxCalls
TypeOK == ThreadsOK /\ TableOK

\* The thread is inside the control loop or the measurement of its fan.
Drives(w) == pc[w] \in LoopPC \cup TestPC

\* Two threads never drive one fan: a thread that drives is the one in the
\* fan's table entry, so no loop or test outlives the erasure of its task
\* (disable, test and the restart thread all erase: Controller.cpp 60,148,168).
OneDriverPerFan ==
  \A w \in Workers : Drives(w) => fan[w] \in Fans /\ task[fan[w]] = w

\* status() answers TESTING exactly while the fan's thread is in its test, so
\* test() joins a measurement and never replaces one (Controller.cpp:157-168).
TestingTruthful ==
  \A f \in Fans : testing[f] <=>
    task[f] # None /\ pc[task[f]] \in TestPC \cup {"test_reset"}

\* However tests overlap, the last one to end writes the file: results that are
\* not saved always have a thread that has yet to decide (Controller.cpp:140).
SavedWhenQuiet ==
  unsaved # {} => \E w \in Workers :
    pc[w] \in TestPC \cup {"test_reset", "test_count", "test_save"}

\* test()'s lambda reads test_status of the caller's frame: a call that blocks
\* stays in it while the test it started can still use it (Controller.cpp:129,
\* 182), whatever else erases, restarts or joins meanwhile. Left out: the tests
\* merge() starts, whose call returns at 184 at once and leaves it dangling.
NoDanglingStatus ==
  \A w \in Workers : pc[w] \in TestPC /\ ref[w] # None =>
    /\ fan[ref[w]] = fan[w]
    /\ pc[ref[w]] \in {"test_wait", "test_join"} /\ Blocking(ref[w])

\* Some thread drives the fan or has yet to enable or release it.
Responsible(t, f) ==
  /\ fan[t] = f
  /\ \/ pc[t] \in LoopPC \cup TestPC \cup TailPC
     \/ pc[t] \in {"restart", "restart_join", "enable_spawn", "disable_tail"}
     \/ pc[t] = "enable" /\ t \in Workers

\* No fan is left in manual mode with nobody to drive or release it. Left out:
\* Dell fans (one command moves all), fans that are not configured, and fans
\* whose control writes or updates fail; runs with Recover do not check it.
NoStrandedFan ==
  \A f \in Configured \ (Dell \cup Flaky \cup Throwing) :
    mode[f] = "manual" => \E t \in Threads : Responsible(t, f)

\* Only a thread that holds the unique lock changes a fan's entry.
EntryChangesLocked ==
  [][\A f \in Fans : task'[f] # task[f] => writer[f] # None]_vars

-----------------------------------------------------------------------------
(* The inductive invariant.                                                   *)

HoldPC == {"enable_spawn", "disable_join", "restart_join",
           "test_erase", "test_joinon", "test_spawn"}
Holds(t, f) == \/ fan[t] = f /\ pc[t] \in HoldPC
               \/ outer[t] = f /\ ret[t] = "enable_dell"

\* writer and readers say what the threads' positions say.
WriterInv  == \A f \in Fans, t \in Threads : writer[f] = t <=> Holds(t, f)
ReadersInv == \A f \in Fans, c \in Callers :
                c \in readers[f] <=> fan[c] = f /\ pc[c] = "test_join"
Exclusive  == \A f \in Fans : writer[f] # None => readers[f] = {}

\* A task's thread and its entry point at each other.
TaskOfThread == \A w \in Workers : pc[w] \in TaskPC => fan[w] \in Fans /\ task[fan[w]] = w
ThreadOfTask ==
  \A f \in Fans : task[f] # None => fan[task[f]] = f /\ pc[task[f]] \in TaskPC
\* The entry is empty where a task is emplaced, and stays while it is joined.
EmptyPC == {"enable_spawn", "test_spawn"}
JoinPC  == {"disable_join", "restart_join", "test_erase", "test_joinon", "test_join"}
EntryKept(t) ==
  /\ pc[t] \in EmptyPC => task[fan[t]] = None
  /\ pc[t] \in JoinPC => task[fan[t]] # None
  /\ ret[t] = "enable_dell" => task[outer[t]] = None

\* Where a loop over fans has its thread, and what the thread works on.
FrameOK(t) ==
    /\ fan[t] = None <=> pc[t] \in {"idle", "subscribed"} \cup SweepPC
    /\ outer[t] = None <=> ret[t] \notin {"enable_dell", "disable_dell"}
    /\ outer[t] # None => fan[t] # outer[t] /\ outer[t] \notin sweep[t]
    /\ pc[t] \in SweepPC => ret[t] = pc[t]
    /\ ret[t] \in {"enable_dell", "enable_all"} => pc[t] \in EnablePC \cup {ret[t]}
    /\ ret[t] \in {"disable_dell", "disable_all"} => pc[t] \in DisablePC \cup {ret[t]}
    /\ ret[t] = "recover" => pc[t] \in {"recover", "recover_fan"}
    /\ ret[t] = "subscribe" => pc[t] = "subscribe"
    /\ ret[t] = "merge_test" => pc[t] \in {"merge_test"} \cup DisablePC \cup AskPC

IInv ==
  /\ TypeOK
  /\ WriterInv /\ ReadersInv /\ Exclusive
  /\ \A t \in Threads : FrameOK(t) /\ EntryKept(t)
  /\ TaskOfThread /\ ThreadOfTask
  /\ TestingTruthful

-----------------------------------------------------------------------------
(* The table, as a client sees it, implements FanLifecycle.                   *)

status == [f \in Fans |-> IF task[f] = None THEN "DISABLED"
                          ELSE IF testing[f] THEN "TESTING" ELSE "ENABLED"]
driver == [f \in Fans |-> IF task[f] = None THEN "none"
                          ELSE IF pc[task[f]] \in LoopPC THEN "loop"
                          ELSE IF pc[task[f]] \in TestPC THEN "test" ELSE "none"]
Lifecycle == INSTANCE FanLifecycle WITH status <- status, driver <- driver

\* Every step of the Controller is a step of FanLifecycle or leaves it alone:
\* no order of enable, disable, test and restart abandons a test or removes a
\* task that still drives its fan (Controller.cpp:18-74, 124-184).
LifecycleSpec == Lifecycle!Spec
=============================================================================
