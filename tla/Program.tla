------------------------------- MODULE Program -------------------------------
(* The life of the processes that run "fancon service" (src/main.cpp,         *)
(* src/Service.cpp): the check for another instance, the port, signals, the   *)
(* stop, the destructors, kills and restarts; and what becomes of the control *)
(* of one fan. The clients, systemd and the firmware are the environment, and  *)
(* so is the gRPC library, which shares the port (SO_REUSEPORT) where it can.   *)
EXTENDS FanDriver

CONSTANTS
  Processes,
  Fans,        \* fans to choose from: also [flag, configured], of the file
  MaxStops, MaxCalls, MaxMishaps   \* bounds: events

ASSUME ProgramAssumption ==
  /\ {MaxFaults, MaxStops, MaxCalls, MaxMishaps} \subseteq Nat
  /\ \A f \in Fans : {f.auto, f.flag} \subseteq Int

VARIABLES
  fan,              \* the hardware, and whether the file has its curve
  chip, faults,     \* the chip's mode, and the writes that failed
  saved,            \* driver_flag in the file
  phase,            \* where a process is in main
  enabled, flag,    \* of its Fan object
  task,             \* of its Controller
  late,             \* its calls of disable that have yet to give control back
  port,             \* the processes that listen at SERVICE_ADDR
  stop,             \* StopService was received
  left,             \* bounds: events that may still happen
  reset,            \* history: the fan was given away under its loop, by the
                    \* firmware or a late disable, and nobody took it back
  orphan,           \* history: a process was killed that had taken the fan
  driven,           \* history: the last process to release drove the fan
  crowd             \* history: a process began to serve beside another
hardware == <<fan, chip, faults, saved>>
process == <<phase, enabled, flag, task, late, port, stop>>
history == <<reset, orphan, driven, crowd>>
vars == <<hardware, process, left, history>>

Serving == {"enabling", "serving", "wedged"}
Live == {"main", "build", "armed", "leaving", "destroy"} \cup Serving
Alive(p) == phase[p] \in Live

Init ==
  /\ fan \in Fans
  /\ chip = fan.auto /\ faults = 0 /\ saved = fan.flag
  /\ phase = [p \in Processes |-> "new"]
  /\ enabled = [p \in Processes |-> FALSE] /\ flag = [p \in Processes |-> Automatic]
  /\ task = [p \in Processes |-> "none"] /\ late = [p \in Processes |-> 0] /\ port = {}
  /\ stop = [p \in Processes |-> FALSE]
  /\ left = [stop |-> MaxStops, call |-> MaxCalls, mishap |-> MaxMishaps]
  /\ reset = FALSE /\ orphan = FALSE /\ driven = FALSE /\ crowd = FALSE

Event(e) == left[e] > 0 /\ left' = [left EXCEPT ![e] = @ - 1]
Go(p, to) == phase' = [phase EXCEPT ![p] = to]

\* The fan as p's object sees it; an operation of it has the outcome r.
Seen(p) == Device(chip, enabled[p], flag[p], faults)
Becomes(p, r) ==
  /\ chip' = r.chip /\ faults' = r.faults
  /\ enabled' = [enabled EXCEPT ![p] = r.enabled]
  /\ flag' = [flag EXCEPT ![p] = r.flag]
  /\ UNCHANGED fan
Takes(p, r) ==
  IF r.ok THEN reset' = FALSE /\ orphan' = FALSE ELSE UNCHANGED <<reset, orphan>>

-----------------------------------------------------------------------------
(* main, from the start to the server                                         *)

\* Every start is a process of its own, and so is a restart by systemd.
Launch(p) ==
  /\ phase[p] = "new" /\ Go(p, "main")
  /\ UNCHANGED <<hardware, enabled, flag, task, late, port, stop, left, history>>

\* service_running: there is no answer if nobody listens, or not in 200 ms.
CheckRunning(p) ==
  /\ phase[p] = "main"
  /\ \/ port # {} /\ Go(p, "ended")
     \/ Go(p, "build")
  /\ UNCHANGED <<hardware, enabled, flag, task, late, port, stop, left, history>>

\* The Controller is made of the file, then the signals are registered.
Build(p) ==
  /\ phase[p] = "build" /\ Go(p, "armed")
  /\ flag' = [flag EXCEPT ![p] = saved] /\ enabled' = [enabled EXCEPT ![p] = FALSE]
  /\ UNCHANGED <<hardware, task, late, port, stop, left, history>>

\* daemonize forks, and the child exits as its parent does.
Daemonize(p) ==
  /\ phase[p] = "build" /\ Go(p, "ended")
  /\ UNCHANGED <<hardware, enabled, flag, task, late, port, stop, left, history>>

\* p serves, or has not yet let go of the fan it took.
Engaged(p) == phase[p] \in Serving \/ enabled[p] \/ task[p] # "none" \/ late[p] > 0

\* Faulty variant: what BuildAndStart returns is not looked at.
BindAnyhow(p) ==
  /\ phase[p] = "armed" /\ Go(p, "enabling")
  /\ \/ port' = port \cup {p}
     \/ port # {} /\ UNCHANGED port
  /\ crowd' = (crowd \/ \E q \in Processes \ {p} : Engaged(q))
  /\ UNCHANGED <<hardware, enabled, flag, task, late, stop, left, reset, orphan, driven>>

\* BuildAndStart: gRPC lets processes share the port; where it does not, there
\* is no server if another has the port, and run returns.
Bind(p) ==
  /\ phase[p] = "armed"
  /\ \/ /\ Go(p, "enabling") /\ port' = port \cup {p}
        /\ crowd' = (crowd \/ \E q \in Processes \ {p} : Engaged(q))
     \/ port # {} /\ Go(p, "leaving") /\ UNCHANGED <<port, crowd>>
  /\ UNCHANGED <<hardware, enabled, flag, task, late, stop, left, reset, orphan, driven>>

-----------------------------------------------------------------------------
(* The Controller's calls                                                     *)

\* enable: control is taken before the fan is found not to be configured.
Enable(p) ==
  /\ \E r \in try_enable(fan, Seen(p)) :
       /\ Becomes(p, r) /\ Takes(p, r)
       /\ task' = [task EXCEPT ![p] = IF r.ok /\ fan.configured THEN "loop" ELSE "none"]
  /\ UNCHANGED <<saved, late, port, stop, driven, crowd>>

\* A fan whose lock is never free again ("stuck") is waited for.
EnableAll(p) ==
  /\ phase[p] = "enabling" /\ task[p] # "stuck" /\ Go(p, "serving")
  /\ IF task[p] = "none" THEN Enable(p)
     ELSE UNCHANGED <<hardware, enabled, flag, task, late, port, stop, history>>
  /\ UNCHANGED left

\* A call reaches any of the processes that listen.
Called(p) == p \in port /\ Event("call")

CallEnable(p) == Called(p) /\ task[p] = "none" /\ Enable(p) /\ UNCHANGED phase

\* disable, up to the unlock. The loop gives control back as it ends. The entry
\* of a test that is over goes too, but its thread restarts the loop all the same.
LoopEnded(p) == IF task[p] = "loop" THEN disable_control(fan, Seen(p)) ELSE {Seen(p)}
NoLoop(p) == task' = [task EXCEPT ![p] = IF @ = "loop" THEN "none" ELSE @]

CallDisable(p) ==
  /\ Called(p) /\ task[p] \in {"loop", "restart"}
  /\ \E r \in LoopEnded(p) : Becomes(p, r)
  /\ NoLoop(p) /\ late' = [late EXCEPT ![p] = @ + 1]
  /\ UNCHANGED <<saved, phase, port, stop, history>>

\* disable, after the unlock: an enable may have come between.
GiveBack(p) ==
  /\ late[p] > 0 /\ Alive(p) /\ late' = [late EXCEPT ![p] = @ - 1]
  /\ \E r \in disable_control(fan, Seen(p)) : Becomes(p, r)
  /\ reset' = (reset \/ task[p] = "loop")
  /\ UNCHANGED <<saved, phase, task, port, stop, left, orphan, driven, crowd>>

\* disable joins, with the lock held, a test whose end waits for the lock, or a
\* loop that does to report to an observer: both wait for ever
\* (the run DisableWhileTesting), and so does every later call for the fan.
CallStuck(p) ==
  /\ Called(p) /\ task[p] \in {"loop", "test"}
  /\ task' = [task EXCEPT ![p] = "stuck"]
  /\ UNCHANGED <<hardware, phase, enabled, flag, late, port, stop, history>>

\* A loop is ended first. A test that does not get control ends at once, and
\* the file is written all the same.
CallTest(p) ==
  /\ Called(p) /\ task[p] \in {"none", "loop"}
  /\ \E d \in LoopEnded(p) : \E r \in BeginTest(fan, d) :
       /\ Becomes(p, r) /\ Takes(p, r)
       /\ IF r.ok \/ phase[p] = "wedged"
          THEN task' = [task EXCEPT ![p] = "test"] /\ UNCHANGED saved
          ELSE task' = [task EXCEPT ![p] = "restart"] /\ saved' = r.flag
  /\ UNCHANGED <<phase, late, port, stop, driven, crowd>>

\* The results are saved; a detached thread has yet to start the loop.
EndTest(p) ==
  /\ task[p] = "test" /\ phase[p] # "wedged"
  /\ task' = [task EXCEPT ![p] = "restart"] /\ saved' = flag[p]
  /\ UNCHANGED <<fan, chip, faults, phase, enabled, flag, late, port, stop, left, history>>

\* The watcher of an edited file never gives config_mutex back (the run
\* EditWedgesReload): a call of Reload does not return, nor does a test's save.
CallWedged(p) ==
  /\ Called(p) /\ phase[p] = "serving" /\ Go(p, "wedged")
  /\ UNCHANGED <<hardware, enabled, flag, task, late, port, stop, history>>

\* It may come after disable_all.
Restart(p) == /\ task[p] = "restart" /\ Alive(p) /\ Enable(p)
              /\ UNCHANGED <<phase, left>>

\* A pass of the loop, or a step of the test, writes a PWM.
WritePwm(p) ==
  /\ task[p] \in {"loop", "test", "stuck"}
  /\ \E r \in set_pwm(fan, Seen(p)) : r.faults > faults /\ Becomes(p, r) /\ Takes(p, r)
  /\ UNCHANGED <<saved, phase, task, late, port, stop, left, driven, crowd>>

\* "fancon recover": for each task, and what it returns is not looked at.
Recover(p) ==
  /\ Called(p) /\ task[p] \notin {"none", "stuck"}
  /\ \E r \in enable_control(fan, Seen(p)) : Becomes(p, r) /\ Takes(p, r)
  /\ UNCHANGED <<saved, phase, task, late, port, stop, driven, crowd>>

-----------------------------------------------------------------------------
(* The stop                                                                   *)

\* A client's StopService reaches one of the processes that listen, if any.
Stopped == IF port = {} THEN UNCHANGED stop
           ELSE \E q \in port : stop' = [stop EXCEPT ![q] = TRUE]

\* "fancon stop-service": nothing is asked when nobody listens.
StopService ==
  /\ Event("stop") /\ port # {} /\ Stopped
  /\ UNCHANGED <<hardware, phase, enabled, flag, task, late, port, history>>

\* SIGTERM. Its handler is a client: it stops a service that listens, which
\* may be none yet, or another. Before it is registered the signal kills.
Signal(p) ==
  /\ Alive(p) /\ Event("stop")
  /\ IF phase[p] \in {"main", "build"}
     THEN Go(p, "killed") /\ UNCHANGED stop
     ELSE Stopped /\ UNCHANGED phase
  /\ UNCHANGED <<hardware, enabled, flag, task, late, port, history>>

\* The detached thread of StopService; the process listens no more.
Shutdown(p) ==
  /\ stop[p] /\ p \in port /\ port' = port \ {p}
  /\ UNCHANGED <<hardware, phase, enabled, flag, task, late, stop, left, history>>

\* A call has not returned, and may never: its test may not end either (Fan.cpp:278).
Busy(p) == task[p] \in {"test", "stuck"} \/ phase[p] = "wedged"

\* Faulty variant: the end of the loop is waited for, which nobody has told to end.
LeaveIdle(p) ==
  /\ phase[p] = "serving" /\ stop[p] /\ p \notin port
  /\ task[p] = "none" /\ late[p] = 0
  /\ Go(p, "leaving")
  /\ UNCHANGED <<hardware, enabled, flag, task, late, port, stop, left, history>>

\* Wait returns when the calls have: a client of a test waits for it.
Leave(p) ==
  /\ phase[p] = "serving" /\ stop[p] /\ p \notin port
  /\ ~Busy(p) /\ late[p] = 0
  /\ Go(p, "leaving")
  /\ UNCHANGED <<hardware, enabled, flag, task, late, port, stop, left, history>>

\* ~Controller: disable_all, for the entries there are; GiveBack is its second half.
DisableAll(p) ==
  /\ phase[p] = "leaving" /\ Go(p, "destroy")
  /\ driven' = (task[p] = "loop")
  /\ \E r \in LoopEnded(p) : Becomes(p, r)
  /\ NoLoop(p)
  /\ \E n \in (IF task[p] = "none" THEN {} ELSE {1}) \cup (IF task[p] = "loop" THEN {} ELSE {0}) :
       late' = [late EXCEPT ![p] = n]
  /\ UNCHANGED <<saved, port, stop, left, reset, orphan, crowd>>

\* Then its members go: tasks, and the fans.
Destroy(p) ==
  /\ phase[p] = "destroy" /\ late[p] = 0 /\ Go(p, "ended")
  /\ \E d \in LoopEnded(p) : \E r \in Destroyed(fan, d) :
       Becomes(p, [r EXCEPT !.enabled = FALSE, !.flag = Automatic])
  /\ task' = [task EXCEPT ![p] = "none"] /\ stop' = [stop EXCEPT ![p] = FALSE]
  /\ driven' = (driven /\ task[p] # "loop")
  /\ UNCHANGED <<saved, late, port, left, reset, orphan, crowd>>

-----------------------------------------------------------------------------
(* The environment                                                            *)

\* SIGKILL, which systemd sends 2 s after a stop, or an exception in run.
Kill(p) ==
  /\ Alive(p) /\ Event("mishap") /\ Go(p, "killed")
  /\ orphan' = (orphan \/ enabled[p] \/ chip = Manual)
  /\ enabled' = [enabled EXCEPT ![p] = FALSE] /\ flag' = [flag EXCEPT ![p] = Automatic]
  /\ task' = [task EXCEPT ![p] = "none"] /\ late' = [late EXCEPT ![p] = 0]
  /\ port' = port \ {p} /\ stop' = [stop EXCEPT ![p] = FALSE]
  /\ UNCHANGED <<hardware, reset, driven, crowd>>

\* A suspend: the firmware sets the chip's own mode.
Sleep ==
  /\ Event("mishap") /\ chip' = fan.auto /\ reset' = TRUE
  /\ UNCHANGED <<fan, faults, saved, process, orphan, driven, crowd>>

Step(p) == \/ CheckRunning(p) \/ Build(p) \/ Daemonize(p) \/ Bind(p) \/ EnableAll(p)
           \/ Restart(p) \/ GiveBack(p)
           \/ Shutdown(p) \/ Leave(p) \/ DisableAll(p) \/ Destroy(p)
Call(p) == \/ CallEnable(p) \/ CallDisable(p) \/ CallStuck(p) \/ CallTest(p)
           \/ CallWedged(p) \/ Recover(p)
Next == \/ StopService \/ Sleep
        \/ \E p \in Processes :
             Launch(p) \/ Step(p) \/ EndTest(p) \/ WritePwm(p) \/ Call(p) \/ Signal(p) \/ Kill(p)

Spec == Init /\ [][Next]_vars
\* A process that lives runs. A test may not end: it saves, and may wait for that.
FairSpec == Spec /\ \A p \in Processes : WF_vars(Step(p))

-----------------------------------------------------------------------------
Drives(p) == phase[p] \in Serving /\ task[p] # "none"

\* Types; and a service that drives the fan can be told to stop: it listens, or
\* was told so already. An instance that gets no port leaves the fan alone
\* (main.cpp:26, Service.cpp:19-27). Two services may drive it at a time, though
\* "Only 1 instance may be run" (main.cpp:27).
ProgramInv ==
  /\ phase \in [Processes -> Live \cup {"new", "ended", "killed"}]
  /\ enabled \in [Processes -> BOOLEAN] /\ stop \in [Processes -> BOOLEAN]
  /\ task \in [Processes -> {"none", "loop", "test", "stuck", "restart"}]
  /\ late \in [Processes -> Nat] /\ port \subseteq Processes
  /\ \A p \in Processes : Drives(p) => p \in port \/ stop[p]

\* While a service drives its fan the chip is under its control: no second
\* instance that comes and goes without a server gives the fan away, and no call
\* of its own does. But another that serves or still ends at the time may, the
\* firmware until recover is called, and a disable that an enable overtook
\* (FanSysfs.cpp:18, Client.cpp:71, Controller.cpp:63).
ServedInControl ==
  \A p \in Processes : Drives(p) /\ task[p] = "loop" /\ fan.driver # "bare"
    => chip = Manual \/ reset \/ crowd

\* When all have ended the chip drives the fan again, though writes fail: a fan
\* with a loop is given back three times, and one that was skipped once
\* (Controller.cpp:30, 45, 64; FanSysfs.cpp:18). Not after a kill.
ReleasedAtEnd ==
  (\A p \in Processes : ~Alive(p)) /\ ~orphan /\ chip = Manual => ~driven /\ faults > 0

\* A service that was told to stop ends (Service.cpp:34-44, main.cpp:133), if no
\* call of it waits for ever: for a test that does not end (Fan.cpp:278), for a
\* lock whose holder joins (Controller.cpp:60), or for config_mutex (416).
StopEnds ==
  \A p \in Processes : <>[]Busy(p) \/ (stop[p] ~> ~stop[p] /\ ~Alive(p))
=============================================================================
