---------------------------- MODULE ProgramProofs ----------------------------
(* Proofs about Program: a service that drives the fan can be told to stop,   *)
(* what it drives is under its control, and when all have ended the chip has  *)
(* the fan back; for every number of processes and events.                    *)
EXTENDS Program, TLAPS

-----------------------------------------------------------------------------
(* What the operations on a device return.                                    *)

Devices == [chip : Int, enabled : BOOLEAN, flag : Int, faults : Nat, ok : BOOLEAN]

\* Control was taken: the chip is under manual control if there is a switch.
Taken(f, r) == r.ok /\ f.driver # "bare" => r.chip = Manual
\* The operation left the chip's mode alone or made it manual.
Keeps(d, r) == r.chip \in {d.chip, Manual}

\* A write that fails changes nothing but the count of failures.
LEMMA FailedOutcome ==
  ASSUME NEW d \in Devices, NEW r \in Failed(d)
  PROVE  r \in Devices /\ r.enabled = d.enabled /\ ~r.ok /\ r.chip = d.chip
<1>1. r = [d EXCEPT !.faults = @ + 1, !.ok = FALSE] BY DEF Failed
<1>2. d.faults + 1 \in Nat BY DEF Devices
<1>. QED BY <1>1, <1>2 DEF Devices

\* One write: it sets the mode, or fails and changes nothing but the count.
LEMMA WriteOutcome ==
  ASSUME NEW d \in Devices, NEW mode \in Int, NEW r \in Write(d, mode)
  PROVE  /\ r \in Devices /\ r.enabled = d.enabled
         /\ r.ok => r.chip = mode
         /\ ~r.ok => r.chip = d.chip
<1>1. CASE r \in Done([d EXCEPT !.chip = mode]) BY <1>1 DEF Done, Devices
<1>2. CASE r \in Failed(d) BY <1>2, FailedOutcome
<1>. QED BY <1>1, <1>2 DEF Write

\* A command of the wrong pair fails and changes nothing.
LEMMA SmmOutcome ==
  ASSUME NEW f, NEW d \in Devices, NEW method, NEW mode \in Int,
         NEW r \in smm_send(f, d, method, mode)
  PROVE  /\ r \in Devices /\ r.enabled = d.enabled
         /\ r.ok => r.chip = mode
         /\ ~r.ok => r.chip = d.chip
<1>1. CASE method = f.method
  <2>. r \in Write(d, mode) BY <1>1 DEF smm_send
  <2>. QED BY WriteOutcome
<1>2. CASE method # f.method
  <2>. r = [d EXCEPT !.ok = FALSE] BY <1>2 DEF smm_send
  <2>. QED BY DEF Devices
<1>. QED BY <1>1, <1>2

\* enable_control takes control or leaves the mode as it was.
LEMMA EnableOutcome ==
  ASSUME NEW f, NEW d \in Devices, NEW r \in enable_control(f, d)
  PROVE  r \in Devices /\ Taken(f, r) /\ Keeps(d, r)
<1>. DEFINE tried == CASE f.driver = "bare" -> Done(d)
                       [] f.driver = "dell" -> smm_send(f, d, Method(d.flag), Manual)
                       [] OTHER -> Write(d, Manual)
<1>1. PICK x \in tried : r = [x EXCEPT !.enabled = @ \/ x.ok]
  BY DEF enable_control
<1>2. /\ x \in Devices
      /\ x.ok /\ f.driver # "bare" => x.chip = Manual
      /\ x.chip \in {d.chip, Manual}
  <2>1. CASE f.driver = "bare"
    <3>. x \in Done(d) BY <2>1
    <3>. QED BY <2>1 DEF Done, Devices
  <2>2. CASE f.driver = "dell"
    <3>. x \in smm_send(f, d, Method(d.flag), Manual) BY <2>2
    <3>. Manual \in Int BY DEF Manual
    <3>. QED BY SmmOutcome
  <2>3. CASE f.driver \notin {"bare", "dell"}
    <3>. x \in Write(d, Manual) BY <2>3
    <3>. Manual \in Int BY DEF Manual
    <3>. QED BY WriteOutcome
  <2>. QED BY <2>1, <2>2, <2>3
<1>. QED BY <1>1, <1>2 DEF Devices, Taken, Keeps

\* disable_control returns a device, whatever happens to it.
LEMMA DisableOutcome ==
  ASSUME NEW f, NEW d \in Devices, NEW r \in disable_control(f, d)
  PROVE  r \in Devices
<1>. DEFINE tried == CASE f.driver = "bare" -> Done(d)
                       [] f.driver = "dell" -> smm_send(f, d, Method(d.flag), Automatic)
                       [] f.driver = "sysfs" -> Write(d, d.flag)
                       [] OTHER -> Write(d, Automatic)
<1>1. PICK x \in tried : r = [x EXCEPT !.enabled = @ /\ ~x.ok]
  BY DEF disable_control
<1>2. x \in Devices
  <2>. Automatic \in Int /\ d.flag \in Int BY DEF Automatic, Devices
  <2>1. CASE f.driver = "bare"
    <3>. x \in Done(d) BY <2>1
    <3>. QED BY DEF Done, Devices
  <2>2. CASE f.driver = "dell"
    <3>. x \in smm_send(f, d, Method(d.flag), Automatic) BY <2>2
    <3>. QED BY SmmOutcome
  <2>3. CASE f.driver = "sysfs"
    <3>. x \in Write(d, d.flag) BY <2>3
    <3>. QED BY WriteOutcome
  <2>4. CASE f.driver \notin {"bare", "dell", "sysfs"}
    <3>. x \in Write(d, Automatic) BY <2>4
    <3>. QED BY WriteOutcome
  <2>. QED BY <2>1, <2>2, <2>3, <2>4
<1>. QED BY <1>1, <1>2 DEF Devices

\* The destructor touches the chip of an enabled fan only.
LEMMA DestroyedOutcome ==
  ASSUME NEW f, NEW d \in Devices, NEW r \in Destroyed(f, d)
  PROVE  r \in Devices /\ (~d.enabled => r.chip = d.chip)
<1>1. CASE d.enabled BY <1>1, DisableOutcome DEF Destroyed
<1>2. CASE ~d.enabled
  <2>. r = [d EXCEPT !.ok = TRUE] BY <1>2 DEF Destroyed, Done
  <2>. QED BY DEF Devices
<1>. QED BY <1>1, <1>2

LEMMA TryOutcome ==
  ASSUME NEW f, NEW d \in Devices, NEW r \in try_enable(f, d)
  PROVE  r \in Devices /\ Taken(f, r)
<1>1. PICK e \in enable_control(f, d) :
        r \in IF e.ok THEN {e} ELSE {[x EXCEPT !.ok = FALSE] : x \in disable_control(f, e)}
  BY DEF try_enable
<1>2. e \in Devices /\ Taken(f, e) BY EnableOutcome
<1>3. CASE e.ok BY <1>1, <1>2, <1>3
<1>4. CASE ~e.ok
  <2>. PICK x \in disable_control(f, e) : r = [x EXCEPT !.ok = FALSE] BY <1>1, <1>4
  <2>. x \in Devices BY <1>2, DisableOutcome
  <2>. QED BY DEF Devices, Taken
<1>. QED BY <1>3, <1>4

\* One more try keeps what the tries before it have.
LEMMA AgainOutcome ==
  ASSUME NEW f, NEW d \in Devices, NEW rs,
         \A x \in rs : x \in Devices /\ Taken(f, x) /\ Keeps(d, x),
         NEW r \in Again(f, rs)
  PROVE  r \in Devices /\ Taken(f, r) /\ Keeps(d, r)
<1>1. PICK x \in rs : r \in IF x.ok THEN {x} ELSE enable_control(f, x) BY DEF Again
<1>2. CASE x.ok BY <1>1, <1>2
<1>3. CASE ~x.ok
  <2>. r \in Devices /\ Taken(f, r) /\ Keeps(x, r) BY <1>1, <1>3, EnableOutcome
  <2>. QED BY DEF Keeps
<1>. QED BY <1>2, <1>3

LEMMA RecoverOutcome ==
  ASSUME NEW f, NEW d \in Devices, NEW r \in recover_control(f, d)
  PROVE  r \in Devices /\ Taken(f, r) /\ Keeps(d, r)
<1>. DEFINE Good(rs) == \A x \in rs : x \in Devices /\ Taken(f, x) /\ Keeps(d, x)
            one == enable_control(f, d)
            two == Again(f, one)
            three == Again(f, two)
            four == Again(f, three)
<1>1. Good(one) BY EnableOutcome
<1>2. Good(two) BY <1>1, AgainOutcome
<1>3. Good(three) BY <1>2, AgainOutcome
<1>4. Good(four) BY <1>3, AgainOutcome
<1>5. r \in Again(f, four) BY DEF recover_control
<1>. QED BY <1>4, <1>5, AgainOutcome

\* A write of a PWM that failed is followed by the recovery of control.
LEMMA PwmOutcome ==
  ASSUME NEW f, NEW d \in Devices, NEW r \in set_pwm(f, d), r.faults > d.faults
  PROVE  r \in Devices /\ Taken(f, r) /\ Keeps(d, r)
<1>1. r \notin Done(d) BY DEF Done, Devices
<1>2. PICK x \in Failed(d) : r \in recover_control(f, x) BY <1>1 DEF set_pwm
<1>3. x \in Devices /\ x.chip = d.chip BY FailedOutcome
<1>. QED BY <1>2, <1>3, RecoverOutcome DEF Keeps

LEMMA ProbeOutcome ==
  ASSUME NEW f, NEW rs, \A x \in rs : x \in Devices, NEW method \in Int,
         NEW r \in Probe(f, rs, method)
  PROVE  r \in Devices
<1>. DEFINE sent(x) == smm_send(f, x, method, Manual)
<1>. Manual \in Int /\ Code(method) \in Int BY DEF Manual, Code
<1>1. PICK x \in rs : r \in
        IF x.ok THEN {x}
        ELSE {IF y.ok THEN [y EXCEPT !.flag = Code(method)] ELSE y : y \in sent(x)}
             \cup {[y EXCEPT !.ok = FALSE] : y \in sent(x)}
  BY DEF Probe
<1>2. CASE x.ok BY <1>1, <1>2
<1>3. CASE ~x.ok
  <2>. PICK y \in sent(x) : \/ r = IF y.ok THEN [y EXCEPT !.flag = Code(method)] ELSE y
                            \/ r = [y EXCEPT !.ok = FALSE]
    BY <1>1, <1>3
  <2>. y \in Devices BY SmmOutcome
  <2>. QED BY DEF Devices
<1>. QED BY <1>2, <1>3

LEMMA FlagOutcome ==
  ASSUME NEW f, NEW d \in Devices, NEW r \in test_driver_enable_flag(f, d)
  PROVE  r \in Devices
<1>1. CASE f.driver = "sysfs"
  <2>. r \in Done(d) \cup (IF d.chip \in {0, Manual} THEN {} ELSE Done([d EXCEPT !.flag = d.chip]))
    BY <1>1 DEF test_driver_enable_flag
  <2>. d.chip \in Int /\ Done([d EXCEPT !.flag = d.chip]) \subseteq Devices
    BY DEF Done, Devices
  <2>. Done(d) \subseteq Devices BY DEF Done, Devices
  <2>. QED OBVIOUS
<1>2. CASE f.driver = "dell" /\ d.flag \notin 1 .. 3
  <2>. DEFINE none == {[d EXCEPT !.ok = FALSE]}
              first == Probe(f, none, 2)
              second == Probe(f, first, 1)
              third == Probe(f, second, 3)
  <2>1. \A x \in none : x \in Devices BY DEF Devices
  <2>. HIDE DEF none
  <2>2. \A x \in first : x \in Devices BY <2>1, ProbeOutcome
  <2>3. \A x \in second : x \in Devices BY <2>2, ProbeOutcome
  <2>4. \A x \in third : x \in Devices BY <2>3, ProbeOutcome
  <2>5. r \in {IF x.ok THEN x ELSE [x EXCEPT !.flag = 2] : x \in third}
    BY <1>2 DEF test_driver_enable_flag, none
  <2>6. PICK x \in third : r = IF x.ok THEN x ELSE [x EXCEPT !.flag = 2] BY <2>5
  <2>7. x \in Devices BY <2>4
  <2>. HIDE DEF third
  <2>. QED BY <2>6, <2>7 DEF Devices
<1>3. CASE f.driver # "sysfs" /\ ~(f.driver = "dell" /\ d.flag \notin 1 .. 3)
  <2>. r \in Done(d) BY <1>3 DEF test_driver_enable_flag
  <2>. QED BY DEF Done, Devices
<1>. QED BY <1>1, <1>2, <1>3

\* A test that goes on has the fan.
LEMMA BeginTestOutcome ==
  ASSUME NEW f, NEW d \in Devices, NEW r \in BeginTest(f, d)
  PROVE  r \in Devices /\ Taken(f, r)
<1>1. PICK x \in test_driver_enable_flag(f, d) : \E e \in enable_control(f, x) :
        \/ e.ok /\ r = e
        \/ \E y \in disable_control(f, e) : r = [y EXCEPT !.ok = FALSE]
  BY DEF BeginTest
<1>. PICK e \in enable_control(f, x) :
        \/ e.ok /\ r = e
        \/ \E y \in disable_control(f, e) : r = [y EXCEPT !.ok = FALSE]
  BY <1>1
<1>2. e \in Devices /\ Taken(f, e) BY FlagOutcome, EnableOutcome
<1>3. CASE r = e BY <1>2, <1>3
<1>4. ASSUME NEW y \in disable_control(f, e), r = [y EXCEPT !.ok = FALSE]
      PROVE  r \in Devices /\ Taken(f, r)
  <2>. y \in Devices BY <1>2, DisableOutcome
  <2>. QED BY <1>4 DEF Devices, Taken
<1>. QED BY <1>3, <1>4

-----------------------------------------------------------------------------
(* The inductive invariant.                                                   *)

Phases == Live \cup {"new", "ended", "killed"}
Tasks == {"none", "loop", "test", "stuck", "restart"}

Typed ==
  /\ fan \in Fans /\ chip \in Int /\ faults \in Nat /\ saved \in Int
  /\ phase \in [Processes -> Phases]
  /\ enabled \in [Processes -> BOOLEAN] /\ flag \in [Processes -> Int]
  /\ task \in [Processes -> Tasks] /\ late \in [Processes -> Nat]
  /\ stop \in [Processes -> BOOLEAN] /\ port \subseteq Processes
  /\ crowd \in BOOLEAN /\ reset \in BOOLEAN

\* Where a process that was bound may be.
Bound(p) == phase[p] \in Serving \cup {"leaving", "destroy"}

\* Only a process that was bound is engaged, and it listens or was stopped.
EngagedListens ==
  \A p \in Processes : Engaged(p) => Bound(p) /\ (p \in port \/ stop[p])
ListenersServe == \A p \in port : phase[p] \in Serving
\* Two are engaged only if the later began beside the other.
EngagedAlone ==
  \A p, q \in Processes : Engaged(p) /\ Engaged(q) /\ p # q => crowd
InControl ==
  \A p \in Processes : phase[p] \in Serving /\ task[p] = "loop" /\ fan.driver # "bare"
    => chip = Manual \/ reset \/ crowd

PInv == Typed /\ EngagedListens /\ ListenersServe /\ EngagedAlone /\ InControl

LEMMA InitInv == Init => PInv
<1>. SUFFICES ASSUME Init PROVE PInv OBVIOUS
<1>. USE ProgramAssumption DEF Init
<1>1. fan \in Fans /\ fan.auto \in Int /\ fan.flag \in Int OBVIOUS
<1>2. Typed
  <2>1. fan \in Fans /\ chip \in Int /\ faults \in Nat /\ saved \in Int BY <1>1
  <2>2. /\ phase \in [Processes -> Phases] /\ task \in [Processes -> Tasks]
        /\ late \in [Processes -> Nat] /\ port \subseteq Processes
    BY DEF Phases, Tasks
  <2>3. /\ enabled \in [Processes -> BOOLEAN] /\ stop \in [Processes -> BOOLEAN]
        /\ crowd \in BOOLEAN /\ reset \in BOOLEAN
    BY Zenon
  <2>4. flag \in [Processes -> Int] BY DEF Automatic
  <2>. QED BY <2>1, <2>2, <2>3, <2>4 DEF Typed
<1>3. \A p \in Processes : ~Engaged(p) /\ phase[p] \notin Serving BY DEF Engaged, Serving
<1>. QED BY <1>2, <1>3 DEF PInv, EngagedListens, ListenersServe, EngagedAlone, InControl

LEMMA SeenIsDevice ==
  ASSUME Typed, NEW p \in Processes
  PROVE  /\ Seen(p) \in Devices /\ Seen(p).chip = chip
         /\ Seen(p).enabled = enabled[p] /\ Seen(p).faults = faults
BY DEF Seen, Device, Devices, Typed

\* What is left of a loop that was told to end.
LEMMA LoopEndedOutcome ==
  ASSUME Typed, NEW p \in Processes, NEW d \in LoopEnded(p)
  PROVE  d \in Devices
BY SeenIsDevice, DisableOutcome DEF LoopEnded

\* A step of an engaged process on its fan: it stays bound, the listeners, the
\* stops and all else of the others stay, and a loop that serves has the fan.
LEMMA OwnStep ==
  ASSUME PInv, NEW p \in Processes, Engaged(p), NEW r \in Devices, Becomes(p, r),
         phase' \in [Processes -> Phases], task' \in [Processes -> Tasks],
         late' \in [Processes -> Nat],
         \A q \in Processes \ {p} : /\ phase'[q] = phase[q] /\ task'[q] = task[q]
                                    /\ late'[q] = late[q],
         Bound(p)', p \in port => phase'[p] \in Serving,
         port' = port, stop' = stop, crowd' = crowd, saved' \in Int, reset' \in BOOLEAN,
         phase'[p] \in Serving /\ task'[p] = "loop" /\ fan.driver # "bare"
           => chip' = Manual \/ reset'
  PROVE  PInv'
<1>. USE DEF PInv
<1>0. Typed BY DEF PInv
<1>1. Typed' BY <1>0 DEF Typed, Becomes, Devices
<1>2. \A q \in Processes \ {p} : Engaged(q)' => Engaged(q)
  BY <1>0 DEF Typed, Engaged, Becomes
<1>3. EngagedListens' BY <1>2 DEF EngagedListens, Bound
<1>4. ListenersServe' BY <1>0 DEF ListenersServe, Typed
<1>5. EngagedAlone' BY <1>2 DEF EngagedAlone
<1>6. InControl'
  <2>. SUFFICES ASSUME NEW q \in Processes, phase'[q] \in Serving, task'[q] = "loop",
                       fan'.driver # "bare"
                PROVE  chip' = Manual \/ reset' \/ crowd'
    BY DEF InControl
  <2>1. CASE q = p BY <2>1 DEF Becomes
  <2>2. CASE q # p
    <3>. Engaged(q)' BY DEF Engaged
    <3>. QED BY <2>2, <1>2 DEF EngagedAlone
  <2>. QED BY <2>1, <2>2
<1>. QED BY <1>1, <1>3, <1>4, <1>5, <1>6

-----------------------------------------------------------------------------
(* Steps up to the server, and the stop.                                      *)

\* A step that gives or takes the phase of a process that is not engaged.
LEMMA AloofStep ==
  ASSUME PInv, NEW p \in Processes, ~Engaged(p),
         phase' \in [Processes -> Phases],
         \A q \in Processes \ {p} : phase'[q] = phase[q],
         phase'[p] \notin Serving,
         enabled' \in [Processes -> BOOLEAN], flag' \in [Processes -> Int],
         \A q \in Processes \ {p} : enabled'[q] = enabled[q], ~enabled'[p],
         fan' = fan, chip' = chip, faults' \in Nat, saved' = saved, task' = task,
         late' = late, port' = port, crowd' = crowd, reset' = reset,
         stop' \in [Processes -> BOOLEAN], \A q \in Processes \ {p} : stop[q] => stop'[q]
  PROVE  PInv'
<1>. USE DEF PInv
<1>0. Typed BY DEF PInv
<1>1. Typed' BY <1>0 DEF Typed
<1>2. ~Engaged(p)' /\ p \notin port BY DEF Engaged, ListenersServe
<1>3. \A q \in Processes \ {p} : Engaged(q)' <=> Engaged(q) BY DEF Engaged
<1>4. EngagedListens' BY <1>2, <1>3 DEF EngagedListens, Bound
<1>5. ListenersServe' BY <1>0, <1>2 DEF ListenersServe, Typed
<1>6. EngagedAlone' BY <1>2, <1>3 DEF EngagedAlone
<1>7. InControl' BY <1>2, <1>3 DEF InControl, Engaged
<1>. QED BY <1>1, <1>4, <1>5, <1>6, <1>7

LEMMA EarlyInv ==
  ASSUME PInv, NEW p \in Processes, Launch(p) \/ CheckRunning(p) \/ Build(p) \/ Daemonize(p)
  PROVE  PInv'
<1>. USE DEF hardware, history, Go, Live, Serving, Phases
<1>0. Typed BY DEF PInv
<1>1. ~Engaged(p)
  BY <1>0 DEF PInv, EngagedListens, Bound, Launch, CheckRunning, Build, Daemonize
<1>2. ~enabled[p] BY <1>1 DEF Engaged
<1>3. CASE Launch(p)
  BY <1>0, <1>1, <1>2, <1>3, AloofStep DEF Launch, Typed
<1>4. CASE CheckRunning(p)
  BY <1>0, <1>1, <1>2, <1>4, AloofStep DEF CheckRunning, Typed
<1>5. CASE Build(p)
  BY <1>0, <1>1, <1>2, <1>5, AloofStep DEF Build, Typed
<1>6. CASE Daemonize(p)
  BY <1>0, <1>1, <1>2, <1>6, AloofStep DEF Daemonize, Typed
<1>. QED BY <1>3, <1>4, <1>5, <1>6

\* The server: who is engaged beside it makes a crowd.
LEMMA BindInv ==
  ASSUME PInv, NEW p \in Processes, Bind(p)
  PROVE  PInv'
<1>. USE DEF Bind, hardware, Go
<1>0. Typed BY DEF PInv
<1>1. ~Engaged(p) BY <1>0 DEF PInv, EngagedListens, Bound, Serving
<1>2. CASE /\ Go(p, "enabling") /\ port' = port \cup {p}
           /\ crowd' = (crowd \/ \E q \in Processes \ {p} : Engaged(q))
  <2>0. "enabling" \in Serving /\ "enabling" \in Phases BY DEF Serving, Phases, Live
  <2>1. Typed'
    <3>1. crowd' \in BOOLEAN BY <1>0, <1>2 DEF Typed
    <3>2. phase' \in [Processes -> Phases] BY <1>0, <1>2, <2>0 DEF Typed
    <3>. QED BY <1>0, <1>2, <3>1, <3>2 DEF Typed
  <2>2. \A q \in Processes \ {p} : phase'[q] = phase[q] /\ (Engaged(q)' <=> Engaged(q))
    BY <1>0, <1>2 DEF Typed, Engaged
  <2>3. phase'[p] \in Serving BY <1>0, <1>2, <2>0 DEF Typed
  <2>4. EngagedListens' BY <1>2, <2>2, <2>3 DEF PInv, EngagedListens, Bound
  <2>5. ListenersServe' BY <1>0, <1>2, <2>2, <2>3 DEF PInv, ListenersServe, Typed
  <2>6. EngagedAlone' BY <1>2, <2>2 DEF PInv, EngagedAlone
  <2>7. InControl'
    <3>. task[p] = "none" BY <1>1 DEF Engaged
    <3>. QED BY <1>2, <2>2 DEF PInv, InControl
  <2>. QED BY <2>1, <2>4, <2>5, <2>6, <2>7 DEF PInv
<1>3. CASE Go(p, "leaving") /\ UNCHANGED <<port, crowd>>
  <2>1. ~enabled[p] BY <1>1 DEF Engaged
  <2>2. /\ phase' \in [Processes -> Phases] /\ phase'[p] = "leaving"
        /\ \A q \in Processes \ {p} : phase'[q] = phase[q]
    BY <1>0, <1>3 DEF Typed, Phases, Live
  <2>. QED BY <1>0, <1>1, <1>3, <2>1, <2>2, AloofStep DEF Typed, Serving
<1>. QED BY <1>2, <1>3

LEMMA StopsInv ==
  ASSUME PInv, StopService \/ Sleep \/ \E p \in Processes : Signal(p) \/ Shutdown(p) \/ Leave(p)
  PROVE  PInv'
<1>. USE DEF PInv, hardware, process, history, Stopped, Go
<1>0. Typed BY DEF PInv
<1>1. CASE StopService \/ Sleep
  <2>. Typed'
    <3>. fan.auto \in Int BY <1>0, ProgramAssumption DEF Typed
    <3>. QED BY <1>0, <1>1 DEF StopService, Sleep, Typed
  <2>. QED BY <1>0, <1>1 DEF StopService, Sleep, Typed, EngagedListens, ListenersServe,
                             EngagedAlone, InControl, Engaged, Bound
<1>2. ASSUME NEW p \in Processes, Signal(p) PROVE PInv'
  <2>1. CASE phase[p] \in {"main", "build"}
    <3>1. ~Engaged(p) BY <2>1 DEF EngagedListens, Bound, Serving
    <3>2. ~enabled[p] BY <3>1 DEF Engaged
    <3>3. /\ phase' \in [Processes -> Phases] /\ phase'[p] = "killed"
          /\ \A q \in Processes \ {p} : phase'[q] = phase[q]
      BY <1>0, <1>2, <2>1 DEF Signal, Typed, Phases
    <3>. QED BY <1>0, <1>2, <2>1, <3>1, <3>2, <3>3, AloofStep DEF Signal, Typed, Serving
  <2>2. CASE phase[p] \notin {"main", "build"}
    <3>. Typed' BY <1>0, <1>2, <2>2 DEF Signal, Typed
    <3>. QED BY <1>0, <1>2, <2>2 DEF Signal, Typed, EngagedListens, ListenersServe,
                                     EngagedAlone, InControl, Engaged, Bound
  <2>. QED BY <2>1, <2>2
<1>3. ASSUME NEW p \in Processes, Shutdown(p) PROVE PInv'
  <2>. Typed' BY <1>0, <1>3 DEF Shutdown, Typed
  <2>. QED BY <1>3 DEF Shutdown, EngagedListens, ListenersServe, EngagedAlone, InControl,
                       Engaged, Bound
<1>4. ASSUME NEW p \in Processes, Leave(p) PROVE PInv'
  <2>0. /\ phase' \in [Processes -> Phases] /\ phase'[p] = "leaving"
        /\ \A q \in Processes \ {p} : phase'[q] = phase[q]
        /\ UNCHANGED <<fan, chip, faults, saved, enabled, flag, task, late, port, stop>>
        /\ UNCHANGED <<reset, crowd>> /\ phase[p] \in Serving /\ p \notin port
    BY <1>0, <1>4 DEF Leave, Typed, Phases, Live, Serving
  <2>1. Typed' BY <1>0, <2>0 DEF Typed
  <2>2. \A q \in Processes : Engaged(q)' => Engaged(q) BY <2>0 DEF Engaged
  <2>3. EngagedListens' BY <2>0, <2>2 DEF EngagedListens, Bound
  <2>4. ListenersServe' BY <1>0, <2>0 DEF ListenersServe, Typed
  <2>5. EngagedAlone' BY <2>0, <2>2 DEF EngagedAlone
  <2>6. InControl' BY <2>0 DEF InControl, Serving
  <2>. QED BY <2>1, <2>3, <2>4, <2>5, <2>6
<1>. QED BY <1>1, <1>2, <1>3, <1>4

-----------------------------------------------------------------------------
(* Steps of a process on its fan.                                             *)

LEMMA EngagedBound == ASSUME PInv, NEW p \in Processes, Engaged(p) PROVE Bound(p)
BY DEF PInv, EngagedListens

\* enable: what it takes is under control, and only then there is a loop.
LEMMA EnableStep ==
  ASSUME PInv, NEW p \in Processes, Engaged(p), Enable(p),
         phase' \in [Processes -> Phases],
         \A q \in Processes \ {p} : phase'[q] = phase[q],
         Bound(p)', p \in port => phase'[p] \in Serving
  PROVE  PInv'
<1>0. Typed BY DEF PInv
<1>1. PICK r \in try_enable(fan, Seen(p)) :
        /\ Becomes(p, r) /\ Takes(p, r)
        /\ task' = [task EXCEPT ![p] = IF r.ok /\ fan.configured THEN "loop" ELSE "none"]
  BY DEF Enable
<1>2. r \in Devices /\ Taken(fan, r) BY <1>0, SeenIsDevice, TryOutcome
<1>3. task'[p] = "loop" /\ fan.driver # "bare" => chip' = Manual
  BY <1>0, <1>1, <1>2 DEF Typed, Taken, Becomes
<1>4. reset' \in BOOLEAN BY <1>0, <1>1 DEF Takes, Typed
<1>5. task' \in [Processes -> Tasks] /\ \A q \in Processes \ {p} : task'[q] = task[q]
  BY <1>0, <1>1 DEF Typed, Tasks
<1>6. /\ late' = late /\ port' = port /\ stop' = stop /\ crowd' = crowd
      /\ saved' \in Int /\ late \in [Processes -> Nat]
  BY <1>0 DEF Enable, Typed
<1>. QED BY <1>1, <1>2, <1>3, <1>4, <1>5, <1>6, OwnStep

\* The calls reach a process that serves.
LEMMA CalledServes ==
  ASSUME PInv, NEW p \in Processes, Called(p)
  PROVE  Engaged(p) /\ phase[p] \in Serving /\ Bound(p)
BY DEF PInv, ListenersServe, Called, Engaged, Bound

LEMMA EnableInv ==
  ASSUME PInv, NEW p \in Processes, EnableAll(p) \/ CallEnable(p) \/ Restart(p)
  PROVE  PInv'
<1>0. Typed BY DEF PInv
<1>1. CASE EnableAll(p)
  <2>0. Engaged(p) BY <1>1 DEF EnableAll, Engaged, Serving
  <2>1. /\ phase' \in [Processes -> Phases]
        /\ \A q \in Processes \ {p} : phase'[q] = phase[q]
        /\ phase'[p] \in Serving /\ phase[p] \in Serving
    BY <1>0, <1>1 DEF EnableAll, Go, Typed, Phases, Live, Serving
  <2>2. Bound(p)' BY <2>1 DEF Bound
  <2>3. CASE task[p] = "none"
    <3>. Enable(p) BY <1>1, <2>3 DEF EnableAll
    <3>. QED BY <2>0, <2>1, <2>2, EnableStep
  <2>4. CASE task[p] # "none"
    <3>1. /\ UNCHANGED <<fan, chip, faults, saved, enabled, flag, task, late, port, stop>>
          /\ UNCHANGED <<reset, crowd>>
      BY <1>1, <2>4 DEF EnableAll, hardware, history
    <3>2. Typed' BY <1>0, <2>1, <3>1 DEF Typed
    <3>3. \A q \in Processes : /\ Engaged(q)' <=> Engaged(q)
                               /\ phase'[q] \in Serving <=> phase[q] \in Serving
                               /\ Bound(q) => Bound(q)'
      BY <2>1, <2>2, <3>1 DEF Engaged, Bound
    <3>4. EngagedListens' /\ ListenersServe'
      BY <1>0, <3>1, <3>3 DEF PInv, EngagedListens, ListenersServe, Typed
    <3>. QED BY <3>1, <3>2, <3>3, <3>4 DEF PInv, EngagedAlone, InControl
  <2>. QED BY <2>3, <2>4
<1>2. CASE CallEnable(p)
  <2>1. Engaged(p) /\ phase[p] \in Serving /\ Bound(p)
    BY <1>2, CalledServes DEF CallEnable
  <2>2. phase' = phase /\ Enable(p) BY <1>2 DEF CallEnable
  <2>. QED BY <1>0, <2>1, <2>2, EnableStep DEF Typed, Bound
<1>3. CASE Restart(p)
  <2>1. Engaged(p) BY <1>3 DEF Restart, Engaged
  <2>2. Bound(p) /\ (p \in port => phase[p] \in Serving)
    BY <2>1 DEF PInv, EngagedListens, ListenersServe
  <2>3. phase' = phase /\ Enable(p) BY <1>3 DEF Restart
  <2>. QED BY <1>0, <2>1, <2>2, <2>3, EnableStep DEF Typed, Bound
<1>. QED BY <1>1, <1>2, <1>3

\* A step of a process on its fan that leaves the phases alone, in two forms.
LEMMA CallStep ==
  ASSUME PInv, NEW p \in Processes, Engaged(p), NEW r \in Devices, Becomes(p, r),
         phase' = phase, task' \in [Processes -> Tasks], late' \in [Processes -> Nat],
         \A q \in Processes \ {p} : task'[q] = task[q] /\ late'[q] = late[q],
         port' = port, stop' = stop, crowd' = crowd, saved' \in Int, reset' \in BOOLEAN,
         task'[p] = "loop" => reset'
  PROVE  PInv'
<1>1. phase \in [Processes -> Phases] /\ Bound(p) BY EngagedBound DEF PInv, Typed
<1>2. Bound(p)' BY <1>1 DEF Bound
<1>3. p \in port => phase'[p] \in Serving BY DEF PInv, ListenersServe
<1>. QED BY <1>1, <1>2, <1>3, OwnStep

LEMMA CallDisableInv ==
  ASSUME PInv, NEW p \in Processes, CallDisable(p)
  PROVE  PInv'
<1>0. Typed BY DEF PInv
<1>1. Engaged(p) BY CalledServes DEF CallDisable
<1>2. PICK r \in LoopEnded(p) : Becomes(p, r) BY DEF CallDisable
<1>3. r \in Devices BY <1>0, LoopEndedOutcome
<1>4. /\ task' \in [Processes -> Tasks] /\ late' \in [Processes -> Nat]
      /\ \A q \in Processes \ {p} : task'[q] = task[q] /\ late'[q] = late[q]
      /\ task'[p] # "loop"
  BY <1>0 DEF CallDisable, NoLoop, Typed, Tasks
<1>5. /\ phase' = phase /\ port' = port /\ stop' = stop /\ crowd' = crowd
      /\ saved' \in Int /\ reset' \in BOOLEAN
  BY <1>0 DEF CallDisable, Typed, history
<1>. QED BY <1>1, <1>2, <1>3, <1>4, <1>5, CallStep

\* The second half of disable may give the fan away under a loop.
LEMMA GiveBackInv ==
  ASSUME PInv, NEW p \in Processes, GiveBack(p)
  PROVE  PInv'
<1>0. Typed BY DEF PInv
<1>1. Engaged(p) BY DEF GiveBack, Engaged
<1>2. PICK r \in disable_control(fan, Seen(p)) : Becomes(p, r) BY DEF GiveBack
<1>3. r \in Devices BY <1>0, SeenIsDevice, DisableOutcome
<1>4. /\ late' \in [Processes -> Nat] /\ \A q \in Processes \ {p} : late'[q] = late[q]
  BY <1>0 DEF GiveBack, Typed
<1>5. /\ phase' = phase /\ task' = task /\ port' = port /\ stop' = stop
      /\ crowd' = crowd /\ saved' = saved /\ reset' = (reset \/ task[p] = "loop")
  BY DEF GiveBack
<1>6. task \in [Processes -> Tasks] /\ saved \in Int /\ reset' \in BOOLEAN
  BY <1>0, <1>5 DEF Typed
<1>7. task'[p] = "loop" => reset' BY <1>5
<1>. QED BY <1>1, <1>2, <1>3, <1>4, <1>5, <1>6, <1>7, CallStep

\* test: the loop is over before it begins.
LEMMA CallTestInv ==
  ASSUME PInv, NEW p \in Processes, CallTest(p)
  PROVE  PInv'
<1>0. Typed BY DEF PInv
<1>1. Engaged(p) BY CalledServes DEF CallTest
<1>2. PICK d \in LoopEnded(p) : \E r \in BeginTest(fan, d) :
        /\ Becomes(p, r) /\ Takes(p, r)
        /\ IF r.ok \/ phase[p] = "wedged"
           THEN task' = [task EXCEPT ![p] = "test"] /\ UNCHANGED saved
           ELSE task' = [task EXCEPT ![p] = "restart"] /\ saved' = r.flag
  BY DEF CallTest
<1>3. PICK r \in BeginTest(fan, d) :
        /\ Becomes(p, r) /\ Takes(p, r)
        /\ IF r.ok \/ phase[p] = "wedged"
           THEN task' = [task EXCEPT ![p] = "test"] /\ UNCHANGED saved
           ELSE task' = [task EXCEPT ![p] = "restart"] /\ saved' = r.flag
  BY <1>2
<1>4. r \in Devices BY <1>0, LoopEndedOutcome, BeginTestOutcome
<1>5. /\ task' \in [Processes -> Tasks]
      /\ \A q \in Processes \ {p} : task'[q] = task[q]
      /\ task'[p] # "loop"
  BY <1>0, <1>3 DEF Typed, Tasks
<1>6. reset' \in BOOLEAN BY <1>0, <1>3 DEF Takes, Typed
<1>7. saved' \in Int BY <1>0, <1>3, <1>4 DEF Typed, Devices
<1>8. /\ phase' = phase /\ late' = late /\ port' = port /\ stop' = stop /\ crowd' = crowd
      /\ late \in [Processes -> Nat]
  BY <1>0 DEF CallTest, Typed
<1>. QED BY <1>1, <1>3, <1>4, <1>5, <1>6, <1>7, <1>8, CallStep

\* A call that waits for ever, and the end of a test, start no loop.
LEMMA TaskInv ==
  ASSUME PInv, NEW p \in Processes, CallStuck(p) \/ EndTest(p)
  PROVE  PInv'
<1>0. Typed BY DEF PInv
<1>1. /\ task' \in [Processes -> Tasks]
      /\ \A q \in Processes \ {p} : task'[q] = task[q]
      /\ task[p] # "none" /\ task'[p] \notin {"none", "loop"}
  BY <1>0 DEF CallStuck, EndTest, Typed, Tasks
<1>2. UNCHANGED <<fan, chip, faults, phase, enabled, flag, late, port, stop, reset, crowd>>
  BY DEF CallStuck, EndTest, hardware, history
<1>3. saved' \in Int BY <1>0 DEF CallStuck, EndTest, hardware, Typed
<1>4. Typed' BY <1>0, <1>1, <1>2, <1>3 DEF Typed
<1>5. \A q \in Processes : Engaged(q)' <=> Engaged(q) BY <1>1, <1>2 DEF Engaged
<1>6. EngagedListens' /\ ListenersServe' /\ EngagedAlone'
  BY <1>2, <1>5 DEF PInv, EngagedListens, ListenersServe, EngagedAlone, Bound
<1>7. InControl' BY <1>1, <1>2 DEF PInv, InControl
<1>. QED BY <1>4, <1>6, <1>7 DEF PInv

LEMMA CallWedgedInv ==
  ASSUME PInv, NEW p \in Processes, CallWedged(p)
  PROVE  PInv'
<1>0. Typed BY DEF PInv
<1>1. UNCHANGED <<fan, chip, faults, saved, enabled, flag, task, late, port, stop, reset, crowd>>
  BY DEF CallWedged, hardware, history
<1>2. /\ phase' \in [Processes -> Phases]
      /\ \A q \in Processes \ {p} : phase'[q] = phase[q]
      /\ phase[p] \in Serving /\ phase'[p] \in Serving
  BY <1>0 DEF CallWedged, Go, Typed, Phases, Live, Serving
<1>3. Typed' BY <1>0, <1>1, <1>2 DEF Typed
<1>4. \A q \in Processes : /\ Engaged(q)' <=> Engaged(q)
                           /\ phase'[q] \in Serving <=> phase[q] \in Serving
                           /\ Bound(q) => Bound(q)'
  BY <1>1, <1>2 DEF Engaged, Bound
<1>5. EngagedListens' /\ ListenersServe'
  BY <1>0, <1>1, <1>4 DEF PInv, EngagedListens, ListenersServe, Typed
<1>. QED BY <1>1, <1>3, <1>4, <1>5 DEF PInv, EngagedAlone, InControl

\* recover and the writes of PWMs: the chip stays as it is or becomes manual.
LEMMA KeepStep ==
  ASSUME PInv, NEW p \in Processes, Engaged(p), NEW r \in Devices, Becomes(p, r),
         Takes(p, r), Taken(fan, r), Keeps(Seen(p), r), phase' = phase, task' = task,
         late' = late, port' = port, stop' = stop, crowd' = crowd, saved' = saved
  PROVE  PInv'
<1>0. Typed BY DEF PInv
<1>1. Bound(p) /\ Bound(p)' /\ (p \in port => phase'[p] \in Serving)
  BY EngagedBound DEF PInv, ListenersServe, Bound
<1>2. reset' \in BOOLEAN BY <1>0 DEF Takes, Typed
<1>3. CASE crowd
  <2>1. Typed' BY <1>0, <1>2 DEF Typed, Becomes, Devices
  <2>2. \A q \in Processes \ {p} : Engaged(q)' => Engaged(q)
    BY <1>0 DEF Typed, Becomes, Engaged
  <2>3. EngagedListens' BY <2>2 DEF PInv, EngagedListens, Bound
  <2>4. ListenersServe' BY DEF PInv, ListenersServe
  <2>. QED BY <1>3, <2>1, <2>3, <2>4 DEF PInv, EngagedAlone, InControl
<1>4. CASE ~crowd
  <2>1. phase'[p] \in Serving /\ task'[p] = "loop" /\ fan.driver # "bare"
          => chip' = Manual \/ reset'
    <3>. SUFFICES ASSUME phase[p] \in Serving, task[p] = "loop", fan.driver # "bare"
                  PROVE  chip' = Manual \/ reset'
      OBVIOUS
    <3>1. chip = Manual \/ reset BY <1>4 DEF PInv, InControl
    <3>2. chip' \in {chip, Manual} BY <1>0, SeenIsDevice DEF Keeps, Becomes
    <3>3. CASE r.ok BY <3>3 DEF Taken, Becomes
    <3>4. CASE ~r.ok BY <3>1, <3>2, <3>4 DEF Takes
    <3>. QED BY <3>3, <3>4
  <2>. QED BY <1>0, <1>1, <1>2, <2>1, OwnStep DEF Typed
<1>. QED BY <1>3, <1>4

LEMMA KeepInv ==
  ASSUME PInv, NEW p \in Processes, WritePwm(p) \/ Recover(p)
  PROVE  PInv'
<1>0. Typed BY DEF PInv
<1>1. CASE WritePwm(p)
  <2>. Engaged(p) BY <1>1 DEF WritePwm, Engaged
  <2>1. PICK r \in set_pwm(fan, Seen(p)) : r.faults > faults /\ Becomes(p, r) /\ Takes(p, r)
    BY <1>1 DEF WritePwm
  <2>2. r \in Devices /\ Taken(fan, r) /\ Keeps(Seen(p), r)
    BY <1>0, <2>1, SeenIsDevice, PwmOutcome
  <2>. QED BY <1>1, <2>1, <2>2, KeepStep DEF WritePwm
<1>2. CASE Recover(p)
  <2>. Engaged(p) BY <1>2, CalledServes DEF Recover
  <2>1. PICK r \in enable_control(fan, Seen(p)) : Becomes(p, r) /\ Takes(p, r)
    BY <1>2 DEF Recover
  <2>2. r \in Devices /\ Taken(fan, r) /\ Keeps(Seen(p), r)
    BY <1>0, <2>1, SeenIsDevice, EnableOutcome
  <2>. QED BY <1>2, <2>1, <2>2, KeepStep DEF Recover
<1>. QED BY <1>1, <1>2

-----------------------------------------------------------------------------
(* The end of a process.                                                      *)

LEMMA DisableAllInv ==
  ASSUME PInv, NEW p \in Processes, DisableAll(p)
  PROVE  PInv'
<1>0. Typed BY DEF PInv
<1>1. /\ phase' \in [Processes -> Phases]
      /\ \A q \in Processes \ {p} : phase'[q] = phase[q]
      /\ phase'[p] = "destroy" /\ phase'[p] \notin Serving /\ phase[p] \notin Serving
  BY <1>0 DEF DisableAll, Go, Typed, Phases, Live, Serving
<1>2. /\ task' \in [Processes -> Tasks]
      /\ \A q \in Processes \ {p} : task'[q] = task[q]
      /\ task[p] = "none" => task' = task
  BY <1>0 DEF DisableAll, NoLoop, Typed, Tasks
<1>3. /\ port' = port /\ stop' = stop /\ crowd' = crowd /\ saved' = saved /\ reset' = reset
      /\ p \notin port
  BY <1>1 DEF DisableAll, PInv, ListenersServe
<1>4. /\ late' \in [Processes -> Nat]
      /\ \A q \in Processes \ {p} : late'[q] = late[q]
      /\ task[p] = "none" => late'[p] = 0
  BY <1>0 DEF DisableAll, Typed
<1>5. PICK r \in LoopEnded(p) : Becomes(p, r) BY DEF DisableAll
<1>6. r \in Devices BY <1>0, LoopEndedOutcome
<1>7. CASE Engaged(p)
  <2>. Bound(p)' BY <1>1 DEF Bound
  <2>. QED BY <1>0, <1>1, <1>2, <1>3, <1>4, <1>5, <1>6, <1>7, OwnStep DEF Typed
<1>8. CASE ~Engaged(p)
  <2>1. task[p] = "none" /\ ~enabled[p] /\ late[p] = 0
    BY <1>0, <1>8 DEF Engaged, Typed
  <2>2. r = Seen(p) BY <1>5, <2>1 DEF LoopEnded
  <2>3. /\ fan' = fan /\ chip' = chip /\ faults' = faults
        /\ enabled' = enabled /\ flag' = flag
    BY <1>0, <1>5, <2>2, SeenIsDevice DEF Becomes, Typed, Seen, Device
  <2>4. late' = late BY <1>0, <1>4, <2>1 DEF Typed
  <2>. QED BY <1>0, <1>1, <1>2, <1>3, <1>8, <2>1, <2>3, <2>4, AloofStep DEF Typed
<1>. QED BY <1>7, <1>8

\* A process that ends, or is killed, is not engaged any more.
LEMMA GoneStep ==
  ASSUME PInv, NEW p \in Processes, Typed',
         phase'[p] \in {"ended", "killed"}, ~enabled'[p], task'[p] = "none", late'[p] = 0,
         \A q \in Processes \ {p} : /\ phase'[q] = phase[q] /\ enabled'[q] = enabled[q]
                                    /\ task'[q] = task[q] /\ late'[q] = late[q]
                                    /\ stop'[q] = stop[q],
         port' = port \ {p},
         fan' = fan, crowd' = crowd, reset' = reset,
         chip' = chip \/ Engaged(p)
  PROVE  PInv'
<1>1. ~Engaged(p)' BY DEF Engaged, Serving
<1>2. \A q \in Processes \ {p} : Engaged(q)' <=> Engaged(q) BY DEF Engaged
<1>3. EngagedListens' BY <1>1, <1>2 DEF PInv, EngagedListens, Bound
<1>4. ListenersServe' BY DEF PInv, ListenersServe, Typed
<1>5. EngagedAlone' BY <1>1, <1>2 DEF PInv, EngagedAlone
<1>6. InControl'
  <2>. SUFFICES ASSUME NEW q \in Processes, phase'[q] \in Serving, task'[q] = "loop",
                       fan'.driver # "bare"
                PROVE  chip' = Manual \/ reset' \/ crowd'
    BY DEF InControl
  <2>1. q # p /\ Engaged(q) BY <1>1, <1>2 DEF Engaged
  <2>2. phase[q] \in Serving /\ task[q] = "loop" BY <2>1
  <2>3. CASE chip' = chip BY <2>2, <2>3 DEF PInv, InControl
  <2>4. CASE Engaged(p) BY <2>1, <2>4 DEF PInv, EngagedAlone
  <2>. QED BY <2>3, <2>4
<1>. QED BY <1>3, <1>4, <1>5, <1>6 DEF PInv

LEMMA DestroyInv ==
  ASSUME PInv, NEW p \in Processes, Destroy(p)
  PROVE  PInv'
<1>0. Typed BY DEF PInv
<1>1. PICK d \in LoopEnded(p) : \E r \in Destroyed(fan, d) :
          Becomes(p, [r EXCEPT !.enabled = FALSE, !.flag = Automatic])
  BY DEF Destroy
<1>2. PICK r \in Destroyed(fan, d) :
          Becomes(p, [r EXCEPT !.enabled = FALSE, !.flag = Automatic])
  BY <1>1
<1>3. d \in Devices BY <1>0, LoopEndedOutcome
<1>4. r \in Devices /\ (~d.enabled => r.chip = d.chip) BY <1>3, DestroyedOutcome
<1>5. /\ fan' = fan /\ chip' = r.chip /\ faults' = r.faults
      /\ enabled' = [enabled EXCEPT ![p] = FALSE] /\ flag' = [flag EXCEPT ![p] = Automatic]
  BY <1>2, <1>4 DEF Becomes, Devices
<1>6. Typed'
  <2>. Automatic \in Int BY DEF Automatic
  <2>. QED BY <1>0, <1>4, <1>5 DEF Destroy, Typed, Devices, Go, Phases, Tasks
<1>7. chip' = chip \/ Engaged(p)
  <2>1. CASE task[p] = "loop" BY <2>1 DEF Engaged
  <2>2. CASE task[p] # "loop"
    <3>. d = Seen(p) BY <1>1, <2>2 DEF LoopEnded
    <3>. QED BY <1>0, <1>4, <1>5, SeenIsDevice DEF Engaged
  <2>. QED BY <2>1, <2>2
<1>8. port' = port \ {p}
  <2>. p \notin port BY DEF Destroy, PInv, ListenersServe, Serving
  <2>. QED BY DEF Destroy
<1>. QED BY <1>0, <1>5, <1>6, <1>7, <1>8, GoneStep DEF Destroy, Go, Typed

LEMMA KillInv ==
  ASSUME PInv, NEW p \in Processes, Kill(p)
  PROVE  PInv'
<1>0. Typed BY DEF PInv
<1>1. Typed' BY <1>0 DEF Kill, Typed, Go, hardware, Automatic, Phases, Tasks
<1>2. /\ phase'[p] = "killed" /\ ~enabled'[p] /\ task'[p] = "none" /\ late'[p] = 0
      /\ fan' = fan /\ chip' = chip /\ crowd' = crowd /\ reset' = reset
      /\ port' = port \ {p}
  BY <1>0 DEF Kill, Typed, Go, hardware
<1>3. \A q \in Processes \ {p} : /\ phase'[q] = phase[q] /\ enabled'[q] = enabled[q]
                                 /\ task'[q] = task[q] /\ late'[q] = late[q]
                                 /\ stop'[q] = stop[q]
  BY <1>0 DEF Kill, Typed, Go
<1>. QED BY <1>1, <1>2, <1>3, GoneStep

-----------------------------------------------------------------------------
LEMMA StepInv == PInv /\ [Next]_vars => PInv'
<1>. SUFFICES ASSUME PInv, [Next]_vars PROVE PInv' OBVIOUS
<1>1. CASE StopService \/ Sleep BY <1>1, StopsInv
<1>2. ASSUME NEW p \in Processes,
             \/ Launch(p) \/ Step(p) \/ EndTest(p) \/ WritePwm(p) \/ Call(p)
             \/ Signal(p) \/ Kill(p)
      PROVE  PInv'
  <2>1. CASE Launch(p) \/ CheckRunning(p) \/ Build(p) \/ Daemonize(p) BY <2>1, EarlyInv
  <2>2. CASE Bind(p) BY <2>2, BindInv
  <2>3. CASE EnableAll(p) \/ CallEnable(p) \/ Restart(p) BY <2>3, EnableInv
  <2>4. CASE CallStuck(p) \/ EndTest(p) BY <2>4, TaskInv
  <2>5. CASE Signal(p) \/ Shutdown(p) \/ Leave(p) BY <2>5, StopsInv
  <2>6. CASE DisableAll(p) BY <2>6, DisableAllInv
  <2>7. CASE Destroy(p) BY <2>7, DestroyInv
  <2>8. CASE WritePwm(p) \/ Recover(p) BY <2>8, KeepInv
  <2>9. CASE CallDisable(p) BY <2>9, CallDisableInv
  <2>10. CASE CallTest(p) BY <2>10, CallTestInv
  <2>11. CASE Kill(p) BY <2>11, KillInv
  <2>12. CASE GiveBack(p) BY <2>12, GiveBackInv
  <2>13. CASE CallWedged(p) BY <2>13, CallWedgedInv
  <2>. QED BY <1>2, <2>1, <2>2, <2>3, <2>4, <2>5, <2>6, <2>7, <2>8, <2>9, <2>10, <2>11,
              <2>12, <2>13
           DEF Step, Call
<1>3. CASE UNCHANGED vars
  BY <1>3 DEF vars, hardware, process, history, PInv, Typed, EngagedListens, ListenersServe,
              EngagedAlone, InControl, Engaged, Bound
<1>. QED BY <1>1, <1>2, <1>3 DEF Next

LEMMA InductiveInvariant == Spec => []PInv
BY InitInv, StepInv, PTL DEF Spec

\* A service that drives the fan can be told to stop, or was: it listens, and an
\* instance without a server takes no fan (main.cpp:26, Service.cpp:19-27).
THEOREM ReachableTheorem == Spec => []ProgramInv
<1>1. PInv => ProgramInv
  BY DEF PInv, Typed, Phases, Tasks, EngagedListens, ProgramInv, Drives, Engaged
<1>. QED BY <1>1, InductiveInvariant, PTL

\* While a service drives its fan, the chip obeys it, unless the firmware or a
\* disable that an enable overtook gave the fan away, or another service began
\* beside it (FanSysfs.cpp:18, Client.cpp:71, Controller.cpp:63).
THEOREM ServedTheorem == Spec => []ServedInControl
<1>1. PInv => ServedInControl
  BY DEF PInv, InControl, ServedInControl, Drives
<1>. QED BY <1>1, InductiveInvariant, PTL

-----------------------------------------------------------------------------
(* What the operations leave to be given back. The fans are those that can be *)
(* given back at all: the chip's own mode and the one in the file are not the *)
(* manual one, and a Dell fan that only knows another command than the second *)
(* has it in the file (FanDell.cpp:69).                                       *)

Releasable(f) ==
  /\ f.auto # Manual
  /\ f.driver = "sysfs" => f.flag # Manual
  /\ f.driver = "dell" /\ f.method \in {1, 3} => f.flag \in 1 .. 3

\* A driver_flag that the fan may have come to.
FlagFits(f, n) ==
  /\ f.driver = "sysfs" => n # Manual
  /\ f.driver = "dell" => IF f.flag \in 1 .. 3 THEN n = f.flag ELSE n \notin {1, 3}
\* The chip has a mode, and does as it is told.
Works(f) == IF f.driver = "dell" THEN Method(f.flag) = f.method ELSE f.driver # "bare"
Fit(f, d) ==
  /\ FlagFits(f, d.flag) /\ d.faults <= MaxFaults
  /\ ~Works(f) => d.chip # Manual

\* Without a fault, whoever made the mode manual knows it.
Held(r) == r.chip = Manual /\ r.faults = 0 => r.enabled
\* The mode was given back, or a write failed and changed nothing.
GivenBack(d, r) ==
  \/ r.chip # Manual
  \/ r.faults = d.faults + 1 /\ r.chip = d.chip /\ r.enabled = d.enabled

LEMMA FaultsBound == MaxFaults \in Nat
BY ProgramAssumption

LEMMA MethodIs ==
  ASSUME NEW f, f.driver = "dell", f.flag \in Int, NEW n \in Int, FlagFits(f, n)
  PROVE  Method(n) = Method(f.flag)
BY DEF FlagFits, Method

\* The same device, with another result.
LEMMA ResultFits ==
  ASSUME NEW f, NEW d \in Devices, NEW b \in BOOLEAN, NEW r, r = [d EXCEPT !.ok = b]
  PROVE  /\ r \in Devices /\ (Fit(f, d) => Fit(f, r)) /\ d.faults <= r.faults
         /\ r.chip = d.chip /\ r.faults = d.faults /\ r.enabled = d.enabled /\ r.ok = b
<1>1. /\ r \in Devices /\ d.faults \in Nat /\ r.flag = d.flag
      /\ r.chip = d.chip /\ r.faults = d.faults /\ r.enabled = d.enabled /\ r.ok = b
  BY DEF Devices
<1>. QED BY <1>1 DEF Fit

LEMMA FailedFits ==
  ASSUME NEW f, NEW d \in Devices, Fit(f, d), NEW r \in Failed(d)
  PROVE  /\ r \in Devices /\ Fit(f, r) /\ ~r.ok
         /\ r.faults = d.faults + 1 /\ r.chip = d.chip /\ r.enabled = d.enabled
<1>1. d.faults < MaxFaults /\ r = [d EXCEPT !.faults = @ + 1, !.ok = FALSE] BY DEF Failed
<1>2. d.faults \in Nat BY DEF Devices
<1>3. d.faults + 1 <= MaxFaults BY <1>1, <1>2, FaultsBound
<1>4. /\ r.flag = d.flag /\ r.faults = d.faults + 1 /\ r.chip = d.chip
      /\ r.enabled = d.enabled /\ r.ok = FALSE
  BY <1>1 DEF Devices
<1>. QED BY <1>3, <1>4, FailedOutcome DEF Fit

LEMMA WriteFits ==
  ASSUME NEW f, NEW d \in Devices, Fit(f, d), Works(f), NEW mode \in Int,
         NEW r \in Write(d, mode)
  PROVE  /\ r \in Devices /\ Fit(f, r)
         /\ r.ok => r.chip = mode /\ r.faults = d.faults
         /\ ~r.ok => r.faults = d.faults + 1 /\ r.chip = d.chip
         /\ r.enabled = d.enabled
<1>1. CASE r \in Done([d EXCEPT !.chip = mode])
  <2>. r = [d EXCEPT !.chip = mode, !.ok = TRUE] BY <1>1 DEF Done
  <2>. QED BY DEF Devices, Fit
<1>2. CASE r \in Failed(d) BY <1>2, FailedFits
<1>. QED BY <1>1, <1>2 DEF Write

\* What a switch to a mode may do: to the manual one, or to another.
Switched(f, d, x, mode) ==
  /\ x \in Devices /\ Fit(f, x) /\ x.enabled = d.enabled
  /\ \/ x.ok /\ x.chip = mode /\ x.faults = d.faults
     \/ ~x.ok /\ x.faults = d.faults + 1 /\ x.chip = d.chip
     \/ ~Works(f) /\ x.chip = d.chip /\ x.faults = d.faults

LEMMA SwitchFits ==
  ASSUME NEW f, f.flag \in Int, NEW d \in Devices, Fit(f, d), NEW mode \in Int,
         NEW x, \/ f.driver = "bare" /\ x \in Done(d)
                \/ f.driver = "dell" /\ x \in smm_send(f, d, Method(d.flag), mode)
                \/ f.driver \notin {"bare", "dell"} /\ x \in Write(d, mode)
  PROVE  Switched(f, d, x, mode)
<1>1. CASE f.driver = "bare" /\ x \in Done(d)
  <2>. x = [d EXCEPT !.ok = TRUE] /\ ~Works(f) BY <1>1 DEF Done, Works
  <2>. QED BY DEF Devices, Fit, Switched
<1>2. CASE f.driver = "dell" /\ x \in smm_send(f, d, Method(d.flag), mode)
  <2>. d.flag \in Int BY DEF Devices
  <2>. Method(d.flag) = Method(f.flag) BY <1>2, MethodIs DEF Fit
  <2>1. CASE Works(f)
    <3>. x \in Write(d, mode) BY <1>2, <2>1 DEF smm_send, Works
    <3>. QED BY <2>1, WriteFits DEF Switched
  <2>2. CASE ~Works(f)
    <3>. x = [d EXCEPT !.ok = FALSE] BY <1>2, <2>2 DEF smm_send, Works
    <3>. QED BY <2>2 DEF Devices, Fit, Switched
  <2>. QED BY <2>1, <2>2
<1>3. CASE f.driver \notin {"bare", "dell"} /\ x \in Write(d, mode)
  <2>. Works(f) BY <1>3 DEF Works
  <2>. QED BY <1>3, WriteFits DEF Switched
<1>. QED BY <1>1, <1>2, <1>3

LEMMA EnableFits ==
  ASSUME NEW f, f.flag \in Int, NEW d \in Devices, Fit(f, d), NEW r \in enable_control(f, d)
  PROVE  /\ r \in Devices /\ Fit(f, r) /\ d.faults <= r.faults /\ Held(r)
         /\ (r.ok \/ d.enabled) => r.enabled
         /\ ~r.ok /\ r.chip = Manual => d.chip = Manual /\ r.faults = d.faults + 1
<1>. DEFINE tried == CASE f.driver = "bare" -> Done(d)
                       [] f.driver = "dell" -> smm_send(f, d, Method(d.flag), Manual)
                       [] OTHER -> Write(d, Manual)
<1>1. PICK x \in tried : r = [x EXCEPT !.enabled = @ \/ x.ok] BY DEF enable_control
<1>2. Manual \in Int BY DEF Manual
<1>3. Switched(f, d, x, Manual)
  <2>1. CASE f.driver = "bare" BY <1>2, <2>1, SwitchFits
  <2>2. CASE f.driver = "dell" BY <1>2, <2>2, SwitchFits
  <2>3. CASE f.driver \notin {"bare", "dell"} BY <1>2, <2>3, SwitchFits
  <2>. QED BY <2>1, <2>2, <2>3
<1>. HIDE DEF tried
<1>4. /\ r.chip = x.chip /\ r.faults = x.faults /\ r.flag = x.flag /\ r.ok = x.ok
      /\ r.enabled = (x.enabled \/ x.ok) /\ r \in Devices
  BY <1>1, <1>3 DEF Switched, Devices
<1>5. Fit(f, r) BY <1>3, <1>4 DEF Switched, Fit
<1>6. d.faults \in Nat /\ d.faults <= d.faults + 1 /\ d.faults + 1 # 0 BY DEF Devices
<1>7. CASE x.ok /\ x.chip = Manual /\ x.faults = d.faults
  <2>1. r.ok /\ r.enabled BY <1>4, <1>7, Zenon
  <2>2. d.faults <= r.faults BY <1>4, <1>6, <1>7
  <2>. QED BY <1>4, <1>5, <2>1, <2>2 DEF Held
<1>8. CASE ~x.ok /\ x.faults = d.faults + 1 /\ x.chip = d.chip
  <2>1. ~r.ok /\ r.faults = d.faults + 1 /\ r.chip = d.chip BY <1>4, <1>8
  <2>2. d.enabled => r.enabled BY <1>3, <1>4 DEF Switched
  <2>. QED BY <1>4, <1>5, <1>6, <2>1, <2>2 DEF Held
<1>9. CASE ~Works(f) /\ x.chip = d.chip /\ x.faults = d.faults
  <2>1. r.chip # Manual /\ r.faults = d.faults BY <1>4, <1>5, <1>9 DEF Fit
  <2>2. (r.ok \/ d.enabled) => r.enabled BY <1>3, <1>4 DEF Switched
  <2>. QED BY <1>4, <1>5, <1>6, <2>1, <2>2 DEF Held
<1>. QED BY <1>3, <1>7, <1>8, <1>9 DEF Switched

LEMMA DisableFits ==
  ASSUME NEW f, f.flag \in Int, NEW d \in Devices, Fit(f, d), NEW r \in disable_control(f, d)
  PROVE  r \in Devices /\ Fit(f, r) /\ d.faults <= r.faults /\ GivenBack(d, r)
<1>. DEFINE mode == IF f.driver = "sysfs" THEN d.flag ELSE Automatic
            tried == CASE f.driver = "bare" -> Done(d)
                       [] f.driver = "dell" -> smm_send(f, d, Method(d.flag), Automatic)
                       [] f.driver = "sysfs" -> Write(d, d.flag)
                       [] OTHER -> Write(d, Automatic)
<1>1. PICK x \in tried : r = [x EXCEPT !.enabled = @ /\ ~x.ok] BY DEF disable_control
<1>2. mode \in Int /\ mode # Manual BY DEF Fit, FlagFits, Manual, Automatic, Devices
<1>3. Switched(f, d, x, mode)
  <2>1. CASE f.driver = "bare" BY <1>2, <2>1, SwitchFits
  <2>2. CASE f.driver = "dell" BY <1>2, <2>2, SwitchFits
  <2>3. CASE f.driver \notin {"bare", "dell"}
    <3>. x \in Write(d, mode) BY <2>3
    <3>. QED BY <1>2, <2>3, SwitchFits
  <2>. QED BY <2>1, <2>2, <2>3
<1>. HIDE DEF tried
<1>4. /\ r.chip = x.chip /\ r.faults = x.faults /\ r.flag = x.flag /\ r.ok = x.ok
      /\ r.enabled = (x.enabled /\ ~x.ok) /\ r \in Devices
  BY <1>1, <1>3 DEF Switched, Devices
<1>5. Fit(f, r) BY <1>3, <1>4 DEF Switched, Fit
<1>6. d.faults \in Nat /\ d.faults <= d.faults + 1 BY DEF Devices
<1>. HIDE DEF mode
<1>7. CASE x.ok /\ x.chip = mode /\ x.faults = d.faults
  BY <1>2, <1>4, <1>5, <1>6, <1>7 DEF GivenBack
<1>8. CASE ~x.ok /\ x.faults = d.faults + 1 /\ x.chip = d.chip
  <2>. r.enabled = d.enabled BY <1>3, <1>4, <1>8, Zenon DEF Switched, Devices
  <2>. QED BY <1>4, <1>5, <1>6, <1>8 DEF GivenBack
<1>9. CASE ~Works(f) /\ x.chip = d.chip /\ x.faults = d.faults
  <2>. r.chip # Manual BY <1>4, <1>5, <1>9 DEF Fit
  <2>. QED BY <1>4, <1>5, <1>6, <1>9 DEF GivenBack
<1>. QED BY <1>3, <1>7, <1>8, <1>9 DEF Switched

LEMMA DestroyedFits ==
  ASSUME NEW f, f.flag \in Int, NEW d \in Devices, Fit(f, d), NEW r \in Destroyed(f, d)
  PROVE  /\ r \in Devices /\ Fit(f, r) /\ d.faults <= r.faults
         /\ d.enabled => GivenBack(d, r)
         /\ ~d.enabled => r.chip = d.chip /\ r.faults = d.faults
<1>1. CASE d.enabled BY <1>1, DisableFits DEF Destroyed
<1>2. CASE ~d.enabled
  <2>. r = [d EXCEPT !.ok = TRUE] BY <1>2 DEF Destroyed, Done
  <2>. QED BY <1>2, ResultFits
<1>. QED BY <1>1, <1>2

\* A try that failed did not make the mode manual.
LEMMA TryFits ==
  ASSUME NEW f, f.flag \in Int, NEW d \in Devices, Fit(f, d), NEW r \in try_enable(f, d)
  PROVE  /\ r \in Devices /\ Fit(f, r) /\ d.faults <= r.faults /\ Held(r)
         /\ r.ok => r.enabled
         /\ ~r.ok /\ r.chip = Manual => d.chip = Manual /\ r.faults = d.faults + 2
<1>1. PICK e \in enable_control(f, d) :
        r \in IF e.ok THEN {e} ELSE {[x EXCEPT !.ok = FALSE] : x \in disable_control(f, e)}
  BY DEF try_enable
<1>2. /\ e \in Devices /\ Fit(f, e) /\ d.faults <= e.faults /\ Held(e) /\ (e.ok => e.enabled)
      /\ ~e.ok /\ e.chip = Manual => d.chip = Manual /\ e.faults = d.faults + 1
  BY EnableFits
<1>3. CASE e.ok BY <1>1, <1>2, <1>3
<1>4. CASE ~e.ok
  <2>1. PICK x \in disable_control(f, e) : r = [x EXCEPT !.ok = FALSE] BY <1>1, <1>4
  <2>2. x \in Devices /\ Fit(f, x) /\ e.faults <= x.faults /\ GivenBack(e, x)
    BY <1>2, DisableFits
  <2>3. /\ r \in Devices /\ ~r.ok /\ r.chip = x.chip /\ r.faults = x.faults
        /\ r.flag = x.flag /\ r.enabled = x.enabled
    BY <2>1, <2>2 DEF Devices
  <2>4. Fit(f, r) BY <2>2, <2>3 DEF Fit
  <2>5. d.faults \in Nat /\ e.faults \in Nat /\ x.faults \in Nat BY <1>2, <2>2 DEF Devices
  <2>6. d.faults <= r.faults BY <1>2, <2>2, <2>3, <2>5
  <2>7. CASE r.chip # Manual BY <2>3, <2>4, <2>6, <2>7 DEF Held
  <2>8. CASE r.chip = Manual
    <3>1. x.faults = e.faults + 1 /\ e.chip = Manual BY <2>2, <2>3, <2>8 DEF GivenBack
    <3>2. d.chip = Manual /\ e.faults = d.faults + 1 BY <1>2, <1>4, <3>1
    <3>3. r.faults = d.faults + 1 + 1 BY <2>3, <3>1, <3>2
    <3>4. r.faults = d.faults + 2 /\ r.faults # 0 BY <2>5, <3>3
    <3>5. Held(r) BY <3>4 DEF Held
    <3>. QED BY <2>3, <2>4, <2>6, <3>2, <3>4, <3>5
  <2>. QED BY <2>7, <2>8
<1>. QED BY <1>3, <1>4

\* What the tries of a recovery have in common.
Tried(f, d, r) ==
  r \in Devices /\ Fit(f, r) /\ d.faults <= r.faults /\ (r.ok \/ d.enabled => r.enabled)

LEMMA AgainFits ==
  ASSUME NEW f, f.flag \in Int, NEW d \in Devices, NEW rs, \A x \in rs : Tried(f, d, x),
         NEW r \in Again(f, rs)
  PROVE  Tried(f, d, r)
<1>1. PICK x \in rs : r \in IF x.ok THEN {x} ELSE enable_control(f, x) BY DEF Again
<1>2. CASE x.ok BY <1>1, <1>2
<1>3. CASE ~x.ok
  <2>1. x \in Devices /\ Fit(f, x) /\ d.faults <= x.faults /\ (d.enabled => x.enabled)
    BY DEF Tried
  <2>2. /\ r \in Devices /\ Fit(f, r) /\ x.faults <= r.faults
        /\ r.ok \/ x.enabled => r.enabled
    BY <1>1, <1>3, <2>1, EnableFits
  <2>3. d.faults <= r.faults BY <2>1, <2>2 DEF Devices
  <2>. QED BY <2>1, <2>2, <2>3 DEF Tried
<1>. QED BY <1>2, <1>3

LEMMA RecoverFits ==
  ASSUME NEW f, f.flag \in Int, NEW d \in Devices, Fit(f, d), NEW r \in recover_control(f, d)
  PROVE  Tried(f, d, r)
<1>. DEFINE Good(rs) == \A x \in rs : Tried(f, d, x)
            one == enable_control(f, d)
            two == Again(f, one)
            three == Again(f, two)
            four == Again(f, three)
<1>1. Good(one) BY EnableFits DEF Tried
<1>2. Good(two) BY <1>1, AgainFits
<1>3. Good(three) BY <1>2, AgainFits
<1>4. Good(four) BY <1>3, AgainFits
<1>5. r \in Again(f, four) BY DEF recover_control
<1>. QED BY <1>4, <1>5, AgainFits

LEMMA PwmFits ==
  ASSUME NEW f, f.flag \in Int, NEW d \in Devices, Fit(f, d),
         NEW r \in set_pwm(f, d), r.faults > d.faults
  PROVE  Tried(f, d, r)
<1>1. r \notin Done(d) BY DEF Done, Devices
<1>2. PICK x \in Failed(d) : r \in recover_control(f, x) BY <1>1 DEF set_pwm
<1>3. x \in Devices /\ Fit(f, x) /\ x.faults = d.faults + 1 /\ x.enabled = d.enabled
  BY FailedFits
<1>4. Tried(f, x, r) BY <1>2, <1>3, RecoverFits
<1>5. d.faults <= r.faults BY <1>3, <1>4 DEF Tried, Devices
<1>. QED BY <1>3, <1>4, <1>5 DEF Tried

\* The search for a Dell fan's command tries the ones it knows.
Searched(f, d, r) == r \in Devices /\ Fit(f, r) /\ d.faults <= r.faults

LEMMA ProbeFits ==
  ASSUME NEW f, Releasable(f), f.driver = "dell", f.flag \in Int, f.flag \notin 1 .. 3,
         NEW d \in Devices, NEW rs, \A x \in rs : Searched(f, d, x),
         NEW method \in 1 .. 3, NEW r \in Probe(f, rs, method)
  PROVE  Searched(f, d, r)
<1>. DEFINE sent(x) == smm_send(f, x, method, Manual)
<1>1. PICK x \in rs : r \in
        IF x.ok THEN {x}
        ELSE {IF y.ok THEN [y EXCEPT !.flag = Code(method)] ELSE y : y \in sent(x)}
             \cup {[y EXCEPT !.ok = FALSE] : y \in sent(x)}
  BY DEF Probe
<1>2. CASE x.ok BY <1>1, <1>2
<1>3. CASE ~x.ok
  <2>1. PICK y \in sent(x) : \/ r = IF y.ok THEN [y EXCEPT !.flag = Code(method)] ELSE y
                             \/ r = [y EXCEPT !.ok = FALSE]
    BY <1>1, <1>3
  <2>2. x \in Devices /\ Fit(f, x) /\ d.faults <= x.faults BY DEF Searched
  <2>3. y \in Devices /\ Fit(f, y) /\ x.faults <= y.faults
    <3>1. CASE method = f.method
      <4>1. Works(f) BY <3>1 DEF Works, Method, Releasable
      <4>2. y \in Write(x, Manual) /\ Manual \in Int BY <3>1 DEF smm_send, Manual
      <4>3. x.faults \in Nat BY <2>2 DEF Devices
      <4>. QED BY <2>2, <4>1, <4>2, <4>3, WriteFits
    <3>2. CASE method # f.method
      <4>. y = [x EXCEPT !.ok = FALSE] BY <3>2 DEF smm_send
      <4>. QED BY <2>2, ResultFits
    <3>. QED BY <3>1, <3>2
  <2>4. Code(method) \in Int /\ FlagFits(f, Code(method)) BY DEF Code, FlagFits
  <2>5. /\ r \in Devices /\ r.chip = y.chip /\ r.faults = y.faults
        /\ r.flag \in {y.flag, Code(method)}
    BY <2>1, <2>3, <2>4 DEF Devices
  <2>6. Fit(f, r) BY <2>3, <2>4, <2>5 DEF Fit
  <2>7. d.faults <= r.faults BY <2>2, <2>3, <2>5 DEF Devices
  <2>. QED BY <2>5, <2>6, <2>7 DEF Searched
<1>. QED BY <1>2, <1>3

\* The same device with another flag, that fits, or another result.
LEMMA RemarkedFits ==
  ASSUME NEW f, NEW d \in Devices, NEW x, Searched(f, d, x), NEW r,
         NEW n \in Int, FlagFits(f, n), NEW b \in BOOLEAN,
         r = [x EXCEPT !.flag = n, !.ok = b]
  PROVE  Searched(f, d, r)
<1>1. x \in Devices /\ Fit(f, x) /\ d.faults <= x.faults BY DEF Searched
<1>2. /\ r \in Devices /\ r.flag = n /\ r.faults = x.faults /\ r.chip = x.chip
  BY <1>1 DEF Devices
<1>. QED BY <1>1, <1>2 DEF Searched, Fit

LEMMA SearchFits ==
  ASSUME NEW f, Releasable(f), f.flag \in Int, NEW d \in Devices, Fit(f, d),
         NEW r \in test_driver_enable_flag(f, d)
  PROVE  Searched(f, d, r)
<1>. d.faults \in Nat /\ d.flag \in Int /\ d.chip \in Int BY DEF Devices
<1>. Searched(f, d, d) BY DEF Searched
<1>0. \A x \in Done(d) : Searched(f, d, x) BY ResultFits DEF Done, Searched
<1>1. CASE f.driver = "sysfs"
  <2>1. r \in Done(d) \cup (IF d.chip \in {0, Manual} THEN {} ELSE Done([d EXCEPT !.flag = d.chip]))
    BY <1>1 DEF test_driver_enable_flag
  <2>2. ASSUME d.chip # Manual, r \in Done([d EXCEPT !.flag = d.chip]) PROVE Searched(f, d, r)
    <3>. r = [d EXCEPT !.flag = d.chip, !.ok = TRUE] BY <2>2 DEF Done
    <3>. FlagFits(f, d.chip) BY <1>1, <2>2 DEF FlagFits
    <3>. QED BY RemarkedFits
  <2>. QED BY <1>0, <2>1, <2>2
<1>2. CASE f.driver = "dell" /\ d.flag \notin 1 .. 3
  <2>. f.flag \notin 1 .. 3 BY <1>2 DEF Fit, FlagFits
  <2>. DEFINE none == {[d EXCEPT !.ok = FALSE]}
              first == Probe(f, none, 2)
              second == Probe(f, first, 1)
              third == Probe(f, second, 3)
  <2>1. \A x \in none : Searched(f, d, x) BY ResultFits DEF Searched
  <2>. HIDE DEF none
  <2>2. \A x \in first : Searched(f, d, x) BY <1>2, <2>1, ProbeFits
  <2>3. \A x \in second : Searched(f, d, x) BY <1>2, <2>2, ProbeFits
  <2>4. \A x \in third : Searched(f, d, x) BY <1>2, <2>3, ProbeFits
  <2>5. r \in {IF x.ok THEN x ELSE [x EXCEPT !.flag = 2] : x \in third}
    BY <1>2 DEF test_driver_enable_flag, none
  <2>6. PICK x \in third : r = IF x.ok THEN x ELSE [x EXCEPT !.flag = 2] BY <2>5
  <2>7. Searched(f, d, x) BY <2>4
  <2>. HIDE DEF third
  <2>8. CASE x.ok BY <2>6, <2>7, <2>8
  <2>9. CASE ~x.ok
    <3>1. x \in Devices BY <2>7 DEF Searched
    <3>2. r = [x EXCEPT !.flag = 2, !.ok = FALSE] BY <2>6, <2>9, <3>1 DEF Devices
    <3>3. FlagFits(f, 2) /\ 2 \in Int BY <1>2 DEF FlagFits
    <3>4. FALSE \in BOOLEAN OBVIOUS
    <3>. QED BY <2>7, <3>2, <3>3, <3>4, RemarkedFits, Zenon
  <2>. QED BY <2>8, <2>9
<1>3. CASE f.driver # "sysfs" /\ ~(f.driver = "dell" /\ d.flag \notin 1 .. 3)
  <2>. r \in Done(d) BY <1>3 DEF test_driver_enable_flag
  <2>. QED BY <1>0
<1>. QED BY <1>1, <1>2, <1>3

LEMMA BeginTestFits ==
  ASSUME NEW f, Releasable(f), f.flag \in Int, NEW d \in Devices, Fit(f, d),
         NEW r \in BeginTest(f, d)
  PROVE  Searched(f, d, r) /\ Held(r) /\ (r.ok => r.enabled)
<1>1. PICK x \in test_driver_enable_flag(f, d) : \E e \in enable_control(f, x) :
        \/ e.ok /\ r = e
        \/ \E y \in disable_control(f, e) : r = [y EXCEPT !.ok = FALSE]
  BY DEF BeginTest
<1>2. PICK e \in enable_control(f, x) :
        \/ e.ok /\ r = e
        \/ \E y \in disable_control(f, e) : r = [y EXCEPT !.ok = FALSE]
  BY <1>1
<1>3. Searched(f, d, x) BY SearchFits
<1>4. e \in Devices /\ Fit(f, e) /\ x.faults <= e.faults /\ Held(e) /\ (e.ok => e.enabled)
  BY <1>3, EnableFits DEF Searched
<1>5. d.faults <= e.faults BY <1>3, <1>4 DEF Searched, Devices
<1>6. CASE e.ok /\ r = e BY <1>4, <1>5, <1>6 DEF Searched
<1>7. ASSUME NEW y \in disable_control(f, e), r = [y EXCEPT !.ok = FALSE]
      PROVE  Searched(f, d, r) /\ Held(r) /\ (r.ok => r.enabled)
  <2>1. y \in Devices /\ Fit(f, y) /\ e.faults <= y.faults /\ GivenBack(e, y)
    BY <1>4, DisableFits
  <2>2. /\ r \in Devices /\ ~r.ok /\ r.chip = y.chip /\ r.faults = y.faults
        /\ r.flag = y.flag /\ r.enabled = y.enabled
    BY <1>7, <2>1 DEF Devices
  <2>3. d.faults <= r.faults BY <1>4, <1>5, <2>1, <2>2 DEF Devices
  <2>4. Held(r)
    <3>. e.faults \in Nat BY <1>4 DEF Devices
    <3>. QED BY <2>1, <2>2 DEF Held, GivenBack
  <2>. QED BY <2>1, <2>2, <2>3, <2>4 DEF Searched, Fit
<1>. QED BY <1>2, <1>6, <1>7

-----------------------------------------------------------------------------
(* Who has yet to give the fan back.                                          *)

\* It is yet to say whether it leaves the fan driven, or it will not be the one
\* to blame, or no write can fail any more when it gives the fan back, or only
\* the next one, and then another or itself will.
Answers(p) ==
  \/ phase[p] \in Serving \cup {"leaving"}
  \/ /\ phase[p] = "destroy"
     /\ \/ task[p] = "loop"
        \/ (enabled[p] \/ late[p] > 0) /\ faults = MaxFaults
        \/ /\ late[p] > 0 /\ faults + 1 = MaxFaults
           /\ \E q \in Processes : enabled[q]

RTyped ==
  /\ orphan \in BOOLEAN /\ driven \in BOOLEAN /\ faults <= MaxFaults
  /\ ~Works(fan) => chip # Manual
\* The flag that is written back is one that gives the fan back.
FlagsFit ==
  /\ FlagFits(fan, saved)
  /\ \A p \in Processes : Bound(p) \/ phase[p] = "armed" => FlagFits(fan, flag[p])
TasksFit ==
  /\ \A p \in Processes : task[p] = "loop" => fan.configured
  /\ \A p \in Processes :
       phase[p] \in {"leaving", "destroy"} => task[p] \notin {"test", "stuck"}
  /\ driven => fan.configured
\* Without a fault, somebody knows that the fan is to be given back.
Owned == chip = Manual /\ ~orphan /\ faults = 0 => \E p \in Processes : enabled[p]
\* With as many as there may be, somebody's tries outlast them.
Answered == chip = Manual /\ ~orphan /\ driven => \E p \in Processes : Answers(p)

RInv == RTyped /\ FlagsFit /\ TasksFit /\ Owned /\ Answered

Plausible == MaxFaults <= 2 /\ \A f \in Fans : Releasable(f)

LEMMA FanIs ==
  ASSUME Plausible, Typed
  PROVE  Releasable(fan) /\ fan.flag \in Int
BY ProgramAssumption DEF Plausible, Typed

LEMMA SeenFits ==
  ASSUME Typed, RInv, NEW p \in Processes, Bound(p)
  PROVE  Seen(p) \in Devices /\ Fit(fan, Seen(p))
<1>1. Seen(p).flag = flag[p] BY DEF Seen, Device
<1>. QED BY <1>1, SeenIsDevice DEF RInv, RTyped, FlagsFit, Fit

\* Who answers still does after a step of another that keeps the fan, or that
\* loses it by a write that failed.
LEMMA AnswersStay ==
  ASSUME Typed, NEW p \in Processes, NEW r \in Devices, Becomes(p, r),
         r.faults <= MaxFaults, faults <= r.faults,
         enabled[p] => r.enabled \/ faults < r.faults,
         NEW q \in Processes \ {p}, Answers(q),
         phase'[q] = phase[q], task'[q] = task[q], late'[q] = late[q]
  PROVE  Answers(q)'
<1>1. /\ faults' = r.faults /\ enabled'[p] = r.enabled
      /\ \A x \in Processes \ {p} : enabled'[x] = enabled[x]
  BY DEF Becomes, Typed
<1>2. faults \in Nat /\ r.faults \in Nat /\ MaxFaults \in Nat BY FaultsBound DEF Typed, Devices
<1>3. CASE phase[q] \in Serving \cup {"leaving"} \/ (phase[q] = "destroy" /\ task[q] = "loop")
  BY <1>3 DEF Answers
<1>4. CASE phase[q] = "destroy" /\ (enabled[q] \/ late[q] > 0) /\ faults = MaxFaults
  <2>. faults' = MaxFaults BY <1>1, <1>2, <1>4
  <2>. QED BY <1>1, <1>4 DEF Answers
<1>5. CASE phase[q] = "destroy" /\ late[q] > 0 /\ faults + 1 = MaxFaults /\ \E x \in Processes : enabled[x]
  <2>1. CASE faults' = MaxFaults BY <1>5, <2>1 DEF Answers
  <2>2. CASE faults' # MaxFaults
    <3>1. faults' = faults BY <1>1, <1>2, <1>5, <2>2
    <3>2. \E x \in Processes : enabled'[x] BY <1>1, <1>2, <1>5, <3>1
    <3>. QED BY <1>5, <3>1, <3>2 DEF Answers
  <2>. QED BY <2>1, <2>2
<1>. QED BY <1>3, <1>4, <1>5 DEF Answers

\* A step of a bound process on its fan. What is left to show of it is that the
\* fan is still owned and answered for.
LEMMA OwnRelease ==
  ASSUME Plausible, PInv, RInv, NEW p \in Processes, Bound(p), NEW r \in Devices,
         Becomes(p, r), r.faults <= MaxFaults,
         ~Works(fan) => r.chip # Manual,
         phase' \in [Processes -> Phases], task' \in [Processes -> Tasks],
         \A q \in Processes \ {p} : phase'[q] = phase[q] /\ task'[q] = task[q],
         Bound(p)' => FlagFits(fan, r.flag), phase'[p] # "armed", FlagFits(fan, saved'),
         task'[p] = "loop" => fan.configured,
         phase'[p] \in {"leaving", "destroy"} => task'[p] \notin {"test", "stuck"},
         orphan' \in BOOLEAN, driven' \in BOOLEAN, driven' => fan.configured,
         r.chip = Manual /\ ~orphan' /\ r.faults = 0 =>
           r.enabled \/ \E q \in Processes \ {p} : enabled[q],
         r.chip = Manual /\ ~orphan' /\ driven' => \E q \in Processes : Answers(q)'
  PROVE  RInv'
<1>0. Typed BY DEF PInv
<1>1. /\ fan' = fan /\ chip' = r.chip /\ faults' = r.faults
      /\ enabled'[p] = r.enabled /\ flag'[p] = r.flag
      /\ \A q \in Processes \ {p} : enabled'[q] = enabled[q] /\ flag'[q] = flag[q]
  BY <1>0 DEF Becomes, Typed
<1>2. RTyped' BY <1>1 DEF RInv, RTyped
<1>3. FlagsFit' BY <1>1 DEF RInv, FlagsFit, Bound
<1>4. TasksFit' BY <1>1 DEF RInv, TasksFit
<1>5. Owned' BY <1>1 DEF Owned
<1>6. Answered' BY <1>1 DEF Answered
<1>. QED BY <1>2, <1>3, <1>4, <1>5, <1>6 DEF RInv

\* A step that only moves a bound process, while the fan stays as it is.
LEMMA MovesRelease ==
  ASSUME Plausible, PInv, RInv, NEW p \in Processes, Bound(p),
         UNCHANGED <<fan, chip, faults, enabled, flag, orphan>>,
         phase' \in [Processes -> Phases], task' \in [Processes -> Tasks],
         \A q \in Processes \ {p} : phase'[q] = phase[q] /\ task'[q] = task[q],
         Bound(p)', FlagFits(fan, saved'), task'[p] = "loop" => task[p] = "loop",
         phase'[p] \in {"leaving", "destroy"} => task'[p] \notin {"test", "stuck"},
         driven' \in BOOLEAN, driven' => fan.configured,
         phase'[p] # "destroy"
  PROVE  RInv'
<1>0. Typed BY DEF PInv
<1>1. Seen(p) \in Devices /\ Fit(fan, Seen(p)) BY <1>0, SeenFits
<1>2. /\ Seen(p).chip = chip /\ Seen(p).faults = faults /\ Seen(p).enabled = enabled[p]
      /\ Seen(p).flag = flag[p]
  BY DEF Seen, Device
<1>3. Becomes(p, Seen(p)) BY <1>0, <1>2 DEF Becomes, Typed
<1>5. phase'[p] # "armed" BY DEF Bound, Serving
<1>6. task'[p] = "loop" => fan.configured BY DEF RInv, TasksFit
<1>7. Answers(p)' BY DEF Bound, Answers
<1>8. chip = Manual /\ ~orphan' /\ faults = 0 =>
        enabled[p] \/ \E q \in Processes \ {p} : enabled[q]
  BY DEF RInv, Owned
<1>9. orphan' \in BOOLEAN BY DEF RInv, RTyped
<1>. QED BY <1>1, <1>2, <1>3, <1>5, <1>6, <1>7, <1>8, <1>9, OwnRelease DEF Fit

LEMMA InitRelease == ASSUME Plausible PROVE Init => RInv
<1>. SUFFICES ASSUME Init PROVE RInv OBVIOUS
<1>0. Typed BY InitInv DEF PInv
<1>1. Releasable(fan) /\ fan.flag \in Int BY <1>0, FanIs
<1>2. RTyped
  <2>1. faults <= MaxFaults BY FaultsBound DEF Init
  <2>2. orphan \in BOOLEAN /\ driven \in BOOLEAN BY Zenon DEF Init
  <2>. QED BY <1>1, <2>1, <2>2 DEF Init, RTyped, Releasable
<1>3. FlagsFit
  <2>. \A p \in Processes : ~Bound(p) /\ phase[p] # "armed" BY DEF Init, Bound, Serving
  <2>. FlagFits(fan, saved) BY <1>1 DEF Init, FlagFits, Releasable
  <2>. QED BY DEF FlagsFit
<1>4. TasksFit BY Zenon DEF Init, TasksFit
<1>5. Owned /\ Answered BY <1>1 DEF Init, Owned, Answered, Releasable
<1>. QED BY <1>2, <1>3, <1>4, <1>5 DEF RInv

-----------------------------------------------------------------------------
(* The steps keep it.                                                         *)

\* Steps that leave the fan and the tasks alone, and bind nobody who has them.
LEMMA AloofRelease ==
  ASSUME Plausible, PInv, RInv, NEW p \in Processes, ~Bound(p),
         Launch(p) \/ CheckRunning(p) \/ Build(p) \/ Daemonize(p) \/ Bind(p)
  PROVE  RInv'
<1>. USE DEF hardware, history, Go
<1>0. Typed BY DEF PInv
<1>1. /\ UNCHANGED <<fan, chip, faults, saved, task, late, orphan, driven>>
      /\ \A q \in Processes \ {p} : /\ phase'[q] = phase[q] /\ flag'[q] = flag[q]
                                    /\ enabled'[q] = enabled[q]
  BY <1>0 DEF Launch, CheckRunning, Build, Daemonize, Bind, Typed
<1>2. task[p] = "none" /\ ~enabled[p] BY EngagedBound DEF Engaged
<1>3. /\ phase'[p] # "destroy" /\ task'[p] \notin {"test", "stuck"}
      /\ Bound(p)' \/ phase'[p] = "armed" =>
           flag'[p] = saved \/ (phase[p] = "armed" /\ flag'[p] = flag[p])
  <2>1. CASE Launch(p) \/ CheckRunning(p) \/ Daemonize(p)
    <3>. phase'[p] \in {"main", "build", "ended"}
      BY <1>0, <2>1 DEF Launch, CheckRunning, Daemonize, Typed
    <3>. QED BY <1>1, <1>2 DEF Bound, Serving
  <2>2. CASE Build(p)
    <3>. phase'[p] = "armed" /\ flag'[p] = saved BY <1>0, <2>2 DEF Build, Typed
    <3>. QED BY <1>1, <1>2
  <2>3. CASE Bind(p)
    <3>1. phase[p] = "armed" /\ flag' = flag BY <2>3 DEF Bind
    <3>2. phase'[p] \in {"enabling", "leaving"} BY <1>0, <2>3 DEF Bind, Typed
    <3>. QED BY <1>1, <1>2, <3>1, <3>2
  <2>. QED BY <2>1, <2>2, <2>3
<1>4. RTyped' BY <1>1 DEF RInv, RTyped
<1>5. FlagsFit' BY <1>1, <1>3 DEF RInv, FlagsFit, Bound
<1>6. TasksFit'
  <2>. \A q \in Processes : task[q] = "loop" => q # p BY <1>2
  <2>. QED BY <1>1, <1>2 DEF RInv, TasksFit
<1>7. Owned' BY <1>1, <1>2 DEF RInv, Owned
<1>8. Answered'
  <2>. ~Answers(p) BY DEF Answers, Bound
  <2>. (\E x \in Processes : enabled[x]) => \E x \in Processes : enabled'[x] BY <1>1, <1>2
  <2>. \A q \in Processes \ {p} : Answers(q) => Answers(q)' BY <1>1 DEF Answers
  <2>. QED BY <1>1 DEF RInv, Answered
<1>. QED BY <1>4, <1>5, <1>6, <1>7, <1>8 DEF RInv

LEMMA StopsRelease ==
  ASSUME Plausible, PInv, RInv,
         StopService \/ Sleep \/ \E p \in Processes : Signal(p) \/ Shutdown(p)
  PROVE  RInv'
<1>. USE DEF hardware, process, history, Go
<1>0. Typed BY DEF PInv
<1>1. CASE Sleep
  <2>1. fan.auto # Manual BY <1>0, FanIs DEF Releasable
  <2>2. chip' # Manual /\ UNCHANGED <<fan, faults, saved, process, orphan, driven>>
    BY <1>1, <2>1 DEF Sleep
  <2>3. RTyped' /\ FlagsFit' /\ TasksFit'
    BY <2>2 DEF RInv, RTyped, FlagsFit, TasksFit, Bound
  <2>. QED BY <2>2, <2>3 DEF RInv, Owned, Answered
<1>2. CASE StopService \/ \E p \in Processes : Signal(p) \/ Shutdown(p)
  <2>1. UNCHANGED <<fan, chip, faults, saved, enabled, flag, task, late, orphan, driven>>
    BY <1>2 DEF StopService, Signal, Shutdown
  <2>2. \A q \in Processes : \/ phase'[q] = phase[q]
                             \/ phase[q] \in {"main", "build"} /\ phase'[q] = "killed"
    BY <1>0, <1>2 DEF StopService, Signal, Shutdown, Typed
  <2>3. RTyped' /\ FlagsFit' /\ TasksFit' /\ Owned'
    <3>1. RTyped' /\ Owned' BY <2>1 DEF RInv, RTyped, Owned
    <3>2. \A q \in Processes : /\ (Bound(q)' => Bound(q))
                               /\ (phase'[q] = "armed" => phase[q] = "armed")
                               /\ (phase'[q] \in {"leaving", "destroy"} => phase'[q] = phase[q])
      BY <2>2 DEF Bound, Serving
    <3>. QED BY <2>1, <3>1, <3>2 DEF RInv, FlagsFit, TasksFit
  <2>4. Answered'
    <3>. \A q \in Processes : Answers(q) => Answers(q)' BY <2>1, <2>2 DEF Answers, Serving
    <3>. QED BY <2>1 DEF RInv, Answered
  <2>. QED BY <2>3, <2>4 DEF RInv
<1>. QED BY <1>1, <1>2

LEMMA EnableRelease ==
  ASSUME Plausible, PInv, RInv, NEW p \in Processes, Bound(p), Enable(p),
         phase' \in [Processes -> Phases],
         \A q \in Processes \ {p} : phase'[q] = phase[q],
         Bound(p)', phase'[p] = "destroy" => phase[p] = "destroy" /\ task[p] = "restart"
  PROVE  RInv'
<1>0. Typed BY DEF PInv
<1>1. PICK r \in try_enable(fan, Seen(p)) :
        /\ Becomes(p, r) /\ Takes(p, r)
        /\ task' = [task EXCEPT ![p] = IF r.ok /\ fan.configured THEN "loop" ELSE "none"]
  BY DEF Enable
<1>2. Seen(p) \in Devices /\ Fit(fan, Seen(p)) /\ fan.flag \in Int
  BY <1>0, SeenFits, FanIs
<1>3. /\ Seen(p).chip = chip /\ Seen(p).faults = faults BY DEF Seen, Device
<1>4. /\ r \in Devices /\ Fit(fan, r) /\ faults <= r.faults /\ Held(r)
      /\ r.ok => r.enabled
      /\ ~r.ok /\ r.chip = Manual => chip = Manual /\ r.faults = faults + 2
  BY <1>1, <1>2, <1>3, TryFits
<1>5. /\ task' \in [Processes -> Tasks]
      /\ \A q \in Processes \ {p} : task'[q] = task[q]
      /\ task'[p] = IF r.ok /\ fan.configured THEN "loop" ELSE "none"
  BY <1>0, <1>1 DEF Typed, Tasks
<1>6. saved' = saved /\ driven' = driven /\ late' = late BY DEF Enable
<1>7. orphan' \in BOOLEAN /\ (r.ok \/ orphan' = orphan)
  BY <1>1 DEF Takes, RInv, RTyped
<1>8. r.chip = Manual /\ ~orphan' /\ driven' => \E q \in Processes : Answers(q)'
  <2>1. CASE phase'[p] # "destroy" BY <2>1 DEF Bound, Answers
  <2>2. CASE phase'[p] = "destroy" /\ driven /\ r.ok
    <3>. task'[p] = "loop" BY <1>5, <2>2 DEF RInv, TasksFit
    <3>. QED BY <2>2 DEF Answers
  <2>3. ASSUME phase'[p] = "destroy", driven, ~r.ok, r.chip = Manual, ~orphan'
        PROVE  \E q \in Processes : Answers(q)'
    <3>1. chip = Manual /\ r.faults = faults + 2 /\ r.faults <= MaxFaults /\ faults \in Nat
      BY <1>0, <1>4, <2>3 DEF Typed, Fit
    <3>2. PICK q \in Processes : Answers(q) BY <1>7, <2>3, <3>1 DEF RInv, Answered
    <3>3. phase[p] = "destroy" /\ task[p] = "restart" BY <2>3
    <3>4. ~Answers(p) BY <3>1, <3>3, FaultsBound DEF Answers, Serving
    <3>5. q \in Processes \ {p} BY <3>2, <3>4
    <3>6. faults < r.faults /\ faults <= r.faults BY <3>1
    <3>7. late'[q] = late[q] /\ phase'[q] = phase[q] /\ task'[q] = task[q] BY <1>5, <1>6, <3>5
    <3>8. Answers(q)' BY <1>0, <1>1, <1>4, <3>1, <3>2, <3>5, <3>6, <3>7, AnswersStay
    <3>. QED BY <3>8
  <2>. QED BY <1>6, <2>1, <2>2, <2>3
<1>9. /\ driven \in BOOLEAN /\ (driven => fan.configured) /\ FlagFits(fan, saved)
      /\ phase'[p] # "armed"
      /\ task'[p] = "loop" => fan.configured
      /\ phase'[p] \in {"leaving", "destroy"} => task'[p] \notin {"test", "stuck"}
  BY <1>5 DEF RInv, RTyped, TasksFit, FlagsFit, Bound, Serving
<1>. QED BY <1>1, <1>4, <1>5, <1>6, <1>7, <1>8, <1>9, OwnRelease DEF Fit, Held

LEMMA MoveRelease ==
  ASSUME Plausible, PInv, RInv, NEW p \in Processes,
         \/ EnableAll(p) \/ CallEnable(p) \/ Restart(p) \/ Leave(p)
         \/ EndTest(p) \/ CallStuck(p) \/ CallWedged(p)
  PROVE  RInv'
<1>0. Typed BY DEF PInv
<1>. DEFINE phases == [Processes -> Phases]
            tasks == [Processes -> Tasks]
<1>1. FlagFits(fan, saved) /\ driven \in BOOLEAN /\ (driven => fan.configured)
  BY DEF RInv, RTyped, FlagsFit, TasksFit
<1>2. CASE EnableAll(p)
  <2>1. /\ phase[p] = "enabling" /\ phase' \in phases /\ phase'[p] = "serving"
        /\ \A q \in Processes \ {p} : phase'[q] = phase[q]
    BY <1>0, <1>2 DEF EnableAll, Go, Typed, Live, Phases, Serving
  <2>2. Bound(p) /\ Bound(p)' BY <2>1 DEF Bound, Serving
  <2>3. CASE task[p] = "none"
    <3>. Enable(p) BY <1>2, <2>3 DEF EnableAll
    <3>. QED BY <2>1, <2>2, EnableRelease
  <2>4. CASE task[p] # "none"
    <3>1. UNCHANGED <<fan, chip, faults, saved, enabled, flag, task, orphan, driven>>
      BY <1>2, <2>4 DEF EnableAll, hardware, history
    <3>2. task' \in tasks BY <1>0, <3>1 DEF Typed
    <3>. QED BY <1>1, <2>1, <2>2, <3>1, <3>2, MovesRelease
  <2>. QED BY <2>3, <2>4
<1>3. CASE CallEnable(p)
  <2>1. Enable(p) /\ phase' = phase /\ phase[p] \in Serving /\ Bound(p)
    BY <1>3, CalledServes DEF CallEnable
  <2>2. Bound(p)' /\ phase' \in phases /\ phase'[p] # "destroy"
    BY <1>0, <2>1 DEF Bound, Typed, Serving
  <2>. QED BY <2>1, <2>2, EnableRelease
<1>4. CASE Restart(p)
  <2>1. Enable(p) /\ phase' = phase /\ task[p] = "restart" BY <1>4 DEF Restart
  <2>2. Bound(p) BY <2>1, EngagedBound DEF Engaged
  <2>3. Bound(p)' /\ phase' \in phases BY <1>0, <2>1, <2>2 DEF Bound, Typed
  <2>. QED BY <2>1, <2>2, <2>3, EnableRelease
<1>5. CASE Leave(p)
  <2>1. /\ phase[p] = "serving" /\ phase' \in phases /\ phase'[p] = "leaving"
        /\ \A q \in Processes \ {p} : phase'[q] = phase[q]
    BY <1>0, <1>5 DEF Leave, Go, Typed, Live, Phases, Serving
  <2>2. /\ UNCHANGED <<fan, chip, faults, saved, enabled, flag, task, orphan, driven>>
        /\ task[p] \notin {"test", "stuck"}
    BY <1>5 DEF Leave, Busy, hardware, history
  <2>3. Bound(p) /\ Bound(p)' /\ task' \in tasks
    BY <1>0, <2>1, <2>2 DEF Bound, Typed, Serving
  <2>. QED BY <1>1, <2>1, <2>2, <2>3, MovesRelease
<1>6. CASE EndTest(p) \/ CallStuck(p)
  <2>1. task[p] # "none" BY <1>6 DEF EndTest, CallStuck
  <2>2. Bound(p) BY <2>1, EngagedBound DEF Engaged
  <2>3. phase[p] \in Serving
    <3>1. CASE EndTest(p) BY <2>2, <3>1 DEF EndTest, Bound, RInv, TasksFit
    <3>2. CASE CallStuck(p) BY <3>2, CalledServes DEF CallStuck
    <3>. QED BY <1>6, <3>1, <3>2
  <2>4. UNCHANGED <<fan, chip, faults, phase, enabled, flag, orphan, driven>>
    BY <1>6 DEF EndTest, CallStuck, hardware, history
  <2>5. /\ task' \in tasks /\ task'[p] # "loop"
        /\ \A q \in Processes \ {p} : task'[q] = task[q]
    BY <1>0, <1>6 DEF EndTest, CallStuck, Typed, Tasks
  <2>6. Bound(p)' /\ phase' \in phases BY <1>0, <2>2, <2>4 DEF Bound, Typed
  <2>7. FlagFits(fan, saved')
    <3>1. CASE saved' = saved BY <1>1, <3>1
    <3>2. CASE saved' = flag[p] BY <2>2, <3>2 DEF RInv, FlagsFit
    <3>. QED BY <1>6, <3>1, <3>2 DEF EndTest, CallStuck, hardware
  <2>8. phase'[p] \notin {"leaving", "destroy"} BY <2>3, <2>4 DEF Serving
  <2>. QED BY <1>1, <2>2, <2>4, <2>5, <2>6, <2>7, <2>8, MovesRelease
<1>7. CASE CallWedged(p)
  <2>1. phase[p] \in Serving /\ Bound(p) BY <1>7, CalledServes DEF CallWedged
  <2>2. /\ phase' \in phases /\ phase'[p] = "wedged"
        /\ \A q \in Processes \ {p} : phase'[q] = phase[q]
    BY <1>0, <1>7 DEF CallWedged, Go, Typed, Phases, Live, Serving
  <2>3. UNCHANGED <<fan, chip, faults, saved, enabled, flag, task, orphan, driven>>
    BY <1>7 DEF CallWedged, hardware, history
  <2>4. Bound(p)' /\ task' \in tasks /\ phase'[p] \notin {"leaving", "destroy"}
    BY <1>0, <2>2, <2>3 DEF Bound, Typed, Serving
  <2>. QED BY <1>1, <2>1, <2>2, <2>3, <2>4, MovesRelease
<1>. QED BY <1>2, <1>3, <1>4, <1>5, <1>6, <1>7

\* A client's calls come while the process serves, and it stays to answer.
LEMMA ServingRelease ==
  ASSUME Plausible, PInv, RInv, NEW p \in Processes, phase[p] \in Serving,
         NEW r \in Devices, Becomes(p, r), Fit(fan, r), phase' = phase,
         task' \in [Processes -> Tasks], \A q \in Processes \ {p} : task'[q] = task[q],
         task'[p] = "loop" => fan.configured,
         FlagFits(fan, saved'), orphan' \in BOOLEAN, driven' = driven, Held(r)
  PROVE  RInv'
<1>0. Typed BY DEF PInv
<1>1. /\ Bound(p) /\ Answers(p)' /\ phase'[p] \notin {"armed", "leaving", "destroy"}
      /\ phase' \in [Processes -> Phases]
  BY <1>0 DEF Bound, Answers, Typed, Serving
<1>2. driven' \in BOOLEAN /\ (driven' => fan.configured) BY DEF RInv, RTyped, TasksFit
<1>3. /\ r.faults <= MaxFaults /\ FlagFits(fan, r.flag) /\ (~Works(fan) => r.chip # Manual)
      /\ r.chip = Manual /\ r.faults = 0 => r.enabled
  BY DEF Fit, Held
<1>. QED BY <1>1, <1>2, <1>3, OwnRelease

\* A loop that ended gave the fan back, or a write failed.
LEMMA LoopEndedFits ==
  ASSUME Plausible, PInv, RInv, NEW p \in Processes, Bound(p), NEW d \in LoopEnded(p)
  PROVE  /\ d \in Devices /\ Fit(fan, d) /\ faults <= d.faults
         /\ task[p] # "loop" => d = Seen(p)
         /\ \/ d.chip # Manual
            \/ d.faults = faults + 1 /\ d.chip = chip /\ d.enabled = enabled[p]
            \/ d = Seen(p) /\ task[p] # "loop"
<1>0. Typed BY DEF PInv
<1>1. /\ Seen(p) \in Devices /\ Fit(fan, Seen(p)) /\ Seen(p).faults = faults
      /\ Seen(p).chip = chip /\ Seen(p).enabled = enabled[p] /\ fan.flag \in Int
  BY <1>0, SeenFits, FanIs DEF Seen, Device
<1>2. CASE task[p] = "loop" BY <1>1, <1>2, DisableFits DEF LoopEnded, GivenBack
<1>3. CASE task[p] # "loop"
  <2>. d = Seen(p) BY <1>3 DEF LoopEnded
  <2>. faults <= faults BY <1>0 DEF Typed
  <2>. QED BY <1>1, <1>3
<1>. QED BY <1>2, <1>3

LEMMA CallDisableRelease ==
  ASSUME Plausible, PInv, RInv, NEW p \in Processes, CallDisable(p)
  PROVE  RInv'
<1>0. Typed BY DEF PInv
<1>1. phase[p] \in Serving /\ Bound(p) BY CalledServes DEF CallDisable
<1>2. PICK r \in LoopEnded(p) : Becomes(p, r) BY DEF CallDisable
<1>3. /\ r \in Devices /\ Fit(fan, r)
      /\ \/ r.chip # Manual
         \/ r.faults = faults + 1 /\ r.chip = chip /\ r.enabled = enabled[p]
         \/ r = Seen(p)
  BY <1>1, LoopEndedFits
<1>4. /\ task' \in [Processes -> Tasks]
      /\ \A q \in Processes \ {p} : task'[q] = task[q]
      /\ task'[p] # "loop"
  BY <1>0 DEF CallDisable, NoLoop, Typed, Tasks
<1>5. phase' = phase /\ saved' = saved /\ orphan' = orphan /\ driven' = driven
  BY DEF CallDisable, history
<1>6. r.chip = Manual /\ ~orphan /\ r.faults = 0 => \E q \in Processes : enabled'[q]
  <2>. SUFFICES ASSUME r.chip = Manual, ~orphan, r.faults = 0
                PROVE  \E q \in Processes : enabled'[q]
    OBVIOUS
  <2>1. r = Seen(p) BY <1>0, <1>3 DEF Typed
  <2>2. enabled' = enabled /\ chip = Manual /\ faults = 0
    BY <1>0, <1>2, <2>1, SeenIsDevice DEF Becomes, Typed
  <2>. QED BY <2>2 DEF RInv, Owned
<1>7. /\ r.faults <= MaxFaults /\ FlagFits(fan, r.flag) /\ (~Works(fan) => r.chip # Manual)
      /\ FlagFits(fan, saved') /\ orphan' \in BOOLEAN /\ driven' \in BOOLEAN
      /\ driven' => fan.configured
  BY <1>3, <1>5 DEF Fit, RInv, RTyped, FlagsFit, TasksFit
<1>8. /\ Answers(p)' /\ phase' \in [Processes -> Phases]
      /\ phase'[p] \notin {"armed", "leaving", "destroy"}
  BY <1>0, <1>1, <1>5 DEF Answers, Typed, Serving
<1>9. r.chip = Manual /\ ~orphan' /\ r.faults = 0 =>
        r.enabled \/ \E q \in Processes \ {p} : enabled[q]
  BY <1>0, <1>2, <1>5, <1>6 DEF Becomes, Typed
<1>10. \E q \in Processes : Answers(q)' BY <1>8
<1>11. task'[p] = "loop" => fan.configured BY <1>4
<1>12. phase'[p] \in {"leaving", "destroy"} => task'[p] \notin {"test", "stuck"} BY <1>8
<1>13. \A q \in Processes \ {p} : phase'[q] = phase[q] /\ task'[q] = task[q] BY <1>4, <1>5
<1>14. phase' \in [Processes -> Phases] /\ phase'[p] # "armed" BY <1>8
<1>. QED BY <1>1, <1>2, <1>3, <1>4, <1>11, <1>12, <1>13, <1>14, <1>7, <1>9, <1>10, OwnRelease

LEMMA CallTestRelease ==
  ASSUME Plausible, PInv, RInv, NEW p \in Processes, CallTest(p)
  PROVE  RInv'
<1>0. Typed BY DEF PInv
<1>1. phase[p] \in Serving /\ Bound(p) BY CalledServes DEF CallTest
<1>2. PICK d \in LoopEnded(p) : \E r \in BeginTest(fan, d) :
        /\ Becomes(p, r) /\ Takes(p, r)
        /\ IF r.ok \/ phase[p] = "wedged"
           THEN task' = [task EXCEPT ![p] = "test"] /\ UNCHANGED saved
           ELSE task' = [task EXCEPT ![p] = "restart"] /\ saved' = r.flag
  BY DEF CallTest
<1>3. PICK r \in BeginTest(fan, d) :
        /\ Becomes(p, r) /\ Takes(p, r)
        /\ IF r.ok \/ phase[p] = "wedged"
           THEN task' = [task EXCEPT ![p] = "test"] /\ UNCHANGED saved
           ELSE task' = [task EXCEPT ![p] = "restart"] /\ saved' = r.flag
  BY <1>2
<1>4. fan.flag \in Int /\ Releasable(fan) /\ d \in Devices /\ Fit(fan, d)
  BY <1>0, <1>1, FanIs, LoopEndedFits
<1>5. Searched(fan, d, r) /\ Held(r) BY <1>3, <1>4, BeginTestFits
<1>6. r \in Devices /\ Fit(fan, r) BY <1>5 DEF Searched
<1>7. /\ task' \in [Processes -> Tasks]
      /\ \A q \in Processes \ {p} : task'[q] = task[q]
      /\ task'[p] # "loop"
  BY <1>0, <1>3 DEF Typed, Tasks
<1>8. FlagFits(fan, saved') /\ orphan' \in BOOLEAN
  BY <1>3, <1>6 DEF RInv, RTyped, FlagsFit, Takes, Fit
<1>9. phase' = phase /\ driven' = driven BY DEF CallTest
<1>. QED BY <1>1, <1>3, <1>5, <1>6, <1>7, <1>8, <1>9, ServingRelease

LEMMA RecoverRelease ==
  ASSUME Plausible, PInv, RInv, NEW p \in Processes, Recover(p)
  PROVE  RInv'
<1>0. Typed BY DEF PInv
<1>1. phase[p] \in Serving /\ Bound(p) BY CalledServes DEF Recover
<1>2. PICK r \in enable_control(fan, Seen(p)) : Becomes(p, r) /\ Takes(p, r) BY DEF Recover
<1>3. Seen(p) \in Devices /\ Fit(fan, Seen(p)) /\ fan.flag \in Int
  BY <1>0, <1>1, SeenFits, FanIs
<1>4. r \in Devices /\ Fit(fan, r) /\ Held(r) BY <1>2, <1>3, EnableFits
<1>5. task' = task /\ phase' = phase /\ saved' = saved /\ driven' = driven BY DEF Recover
<1>6. task' \in [Processes -> Tasks] /\ (task'[p] = "loop" => fan.configured)
  BY <1>0, <1>5 DEF Typed, RInv, TasksFit
<1>7. FlagFits(fan, saved') /\ orphan' \in BOOLEAN
  BY <1>2, <1>5 DEF RInv, RTyped, FlagsFit, Takes
<1>. QED BY <1>1, <1>2, <1>4, <1>5, <1>6, <1>7, ServingRelease

\* A write that failed may come from the loop of a process that is ending.
LEMMA WritePwmRelease ==
  ASSUME Plausible, PInv, RInv, NEW p \in Processes, WritePwm(p)
  PROVE  RInv'
<1>0. Typed BY DEF PInv
<1>1. task[p] \in {"loop", "test", "stuck"} /\ Bound(p) BY EngagedBound DEF WritePwm, Engaged
<1>2. PICK r \in set_pwm(fan, Seen(p)) : r.faults > faults /\ Becomes(p, r) /\ Takes(p, r)
  BY DEF WritePwm
<1>3. /\ Seen(p) \in Devices /\ Fit(fan, Seen(p)) /\ Seen(p).faults = faults
      /\ Seen(p).enabled = enabled[p] /\ fan.flag \in Int
  BY <1>0, <1>1, SeenFits, FanIs DEF Seen, Device
<1>4. Tried(fan, Seen(p), r) BY <1>2, <1>3, PwmFits
<1>5. /\ r \in Devices /\ Fit(fan, r) /\ faults <= r.faults /\ r.faults # 0
      /\ enabled[p] => r.enabled
  BY <1>0, <1>2, <1>3, <1>4 DEF Tried, Devices, Typed
<1>6. task' = task /\ phase' = phase /\ saved' = saved /\ driven' = driven BY DEF WritePwm
<1>7. /\ task' \in [Processes -> Tasks]
      /\ phase' \in [Processes -> Phases]
      /\ task'[p] = "loop" => fan.configured
  BY <1>0, <1>6 DEF Typed, RInv, TasksFit
<1>8. Answers(p)' /\ Bound(p)' /\ phase'[p] # "armed"
      /\ (phase'[p] \in {"leaving", "destroy"} => task'[p] \notin {"test", "stuck"})
  BY <1>1, <1>6 DEF Bound, Answers, RInv, TasksFit, Serving
<1>9. /\ FlagFits(fan, saved') /\ FlagFits(fan, r.flag) /\ r.faults <= MaxFaults
      /\ ~Works(fan) => r.chip # Manual
      /\ orphan' \in BOOLEAN /\ driven' \in BOOLEAN /\ (driven' => fan.configured)
  BY <1>2, <1>5, <1>6 DEF RInv, RTyped, FlagsFit, TasksFit, Takes, Fit
<1>. QED BY <1>1, <1>2, <1>5, <1>6, <1>7, <1>8, <1>9, OwnRelease

-----------------------------------------------------------------------------
(* The end of a process, and the theorem.                                     *)

LEMMA DisableAllRelease ==
  ASSUME Plausible, PInv, RInv, NEW p \in Processes, DisableAll(p)
  PROVE  RInv'
<1>0. Typed BY DEF PInv
<1>1. /\ phase[p] = "leaving" /\ phase'[p] = "destroy" /\ phase' \in [Processes -> Phases]
      /\ \A q \in Processes \ {p} : phase'[q] = phase[q]
  BY <1>0 DEF DisableAll, Go, Typed, Live, Phases, Serving
<1>2. Bound(p) /\ task[p] \notin {"test", "stuck"} BY <1>1 DEF Bound, RInv, TasksFit
<1>3. /\ task' \in [Processes -> Tasks]
      /\ \A q \in Processes \ {p} : task'[q] = task[q]
      /\ task'[p] \notin {"loop", "test", "stuck"}
  BY <1>0, <1>2 DEF DisableAll, NoLoop, Typed, Tasks
<1>4. PICK r \in LoopEnded(p) : Becomes(p, r) BY DEF DisableAll
<1>5. /\ r \in Devices /\ Fit(fan, r) /\ faults <= r.faults
      /\ \/ r.chip # Manual
         \/ r.faults = faults + 1 /\ r.chip = chip /\ r.enabled = enabled[p]
         \/ r = Seen(p) /\ task[p] # "loop"
  BY <1>2, <1>4, LoopEndedFits
<1>6. UNCHANGED <<saved, orphan>> /\ driven' = (task[p] = "loop") BY DEF DisableAll
<1>7. /\ FlagFits(fan, saved') /\ FlagFits(fan, r.flag) /\ r.faults <= MaxFaults
      /\ ~Works(fan) => r.chip # Manual
      /\ orphan' \in BOOLEAN /\ driven' \in BOOLEAN /\ (driven' => fan.configured)
  BY <1>5, <1>6 DEF RInv, RTyped, FlagsFit, TasksFit, Fit
<1>8. r.chip = Manual /\ ~orphan' /\ r.faults = 0 =>
        r.enabled \/ \E q \in Processes \ {p} : enabled[q]
  BY <1>0, <1>5, <1>6, SeenIsDevice DEF RInv, Owned, Typed
<1>9. ASSUME r.chip = Manual, ~orphan', driven' PROVE Answers(p)'
  <2>1. task[p] = "loop" BY <1>6, <1>9
  <2>2. r.faults = faults + 1 /\ chip = Manual /\ r.enabled = enabled[p]
    BY <1>5, <1>9, <2>1
  <2>3. late'[p] > 0 BY <1>0, <2>1 DEF DisableAll, Typed
  <2>4. enabled'[p] = r.enabled /\ faults' = r.faults
        /\ \A q \in Processes \ {p} : enabled'[q] = enabled[q]
    BY <1>0, <1>4 DEF Becomes, Typed
  <2>5. CASE r.faults = MaxFaults BY <1>1, <2>3, <2>4, <2>5 DEF Answers
  <2>6. CASE r.faults # MaxFaults
    <3>1. faults = 0 /\ faults' + 1 = MaxFaults
      BY <1>0, <1>7, <2>2, <2>4, <2>6, FaultsBound DEF Plausible, Typed
    <3>2. \E q \in Processes : enabled[q] BY <1>6, <1>9, <2>2, <3>1 DEF RInv, Owned
    <3>3. \E q \in Processes : enabled'[q] BY <2>2, <2>4, <3>2
    <3>. QED BY <1>1, <2>3, <3>1, <3>3 DEF Answers
  <2>. QED BY <2>5, <2>6
<1>10. phase'[p] # "armed" BY <1>1
<1>. QED BY <1>1, <1>2, <1>3, <1>4, <1>5, <1>7, <1>8, <1>9, <1>10, OwnRelease

\* The second half of disable: of a process that serves, or of one that ends.
LEMMA GiveBackRelease ==
  ASSUME Plausible, PInv, RInv, NEW p \in Processes, GiveBack(p)
  PROVE  RInv'
<1>0. Typed BY DEF PInv
<1>1. Bound(p) /\ late[p] > 0 BY EngagedBound DEF GiveBack, Engaged
<1>2. PICK r \in disable_control(fan, Seen(p)) : Becomes(p, r) BY DEF GiveBack
<1>3. /\ Seen(p) \in Devices /\ Fit(fan, Seen(p)) /\ fan.flag \in Int
      /\ Seen(p).faults = faults /\ Seen(p).chip = chip /\ Seen(p).enabled = enabled[p]
  BY <1>0, <1>1, SeenFits, FanIs DEF Seen, Device
<1>4. /\ r \in Devices /\ Fit(fan, r) /\ faults <= r.faults
      /\ \/ r.chip # Manual
         \/ r.faults = faults + 1 /\ r.chip = chip /\ r.enabled = enabled[p]
  BY <1>2, <1>3, DisableFits DEF GivenBack
<1>5. /\ phase' = phase /\ task' = task /\ saved' = saved /\ orphan' = orphan
      /\ driven' = driven /\ \A q \in Processes \ {p} : late'[q] = late[q]
  BY <1>0 DEF GiveBack, Typed
<1>6. /\ FlagFits(fan, saved') /\ FlagFits(fan, r.flag) /\ r.faults <= MaxFaults
      /\ ~Works(fan) => r.chip # Manual
      /\ orphan' \in BOOLEAN /\ driven' \in BOOLEAN /\ (driven' => fan.configured)
      /\ task'[p] = "loop" => fan.configured
      /\ phase'[p] \in {"leaving", "destroy"} => task'[p] \notin {"test", "stuck"}
      /\ phase' \in [Processes -> Phases] /\ task' \in [Processes -> Tasks]
      /\ phase'[p] # "armed"
  BY <1>0, <1>1, <1>4, <1>5
  DEF RInv, RTyped, FlagsFit, TasksFit, Fit, Typed, Bound, Serving
<1>7. ASSUME r.chip = Manual PROVE r.faults # 0
  BY <1>0, <1>4, <1>7 DEF Typed
<1>8. ASSUME r.chip = Manual, ~orphan', driven' PROVE \E q \in Processes : Answers(q)'
  <2>1. chip = Manual /\ r.faults = faults + 1 /\ r.enabled = enabled[p] /\ faults \in Nat
    BY <1>0, <1>4, <1>8 DEF Typed
  <2>2. PICK q \in Processes : Answers(q) BY <1>5, <1>8, <2>1 DEF RInv, Answered
  <2>3. faults' = r.faults /\ faults # MaxFaults /\ faults < r.faults
        /\ enabled' = enabled
    BY <1>0, <1>2, <1>6, <2>1, FaultsBound DEF Becomes, Typed
  <2>4. CASE q # p
    BY <1>0, <1>2, <1>4, <1>5, <1>6, <2>2, <2>3, <2>4, AnswersStay
  <2>5. CASE q = p /\ (phase[p] # "destroy" \/ task[p] = "loop")
    BY <1>1, <1>5, <2>5 DEF Answers, Bound
  <2>6. CASE q = p /\ phase[p] = "destroy" /\ task[p] # "loop"
    <3>1. faults + 1 = MaxFaults /\ \E x \in Processes : enabled[x]
      BY <2>2, <2>3, <2>6 DEF Answers, Serving
    <3>2. PICK x \in Processes : enabled[x] BY <3>1
    <3>3. Bound(x) BY <3>2, EngagedBound DEF Engaged
    <3>4. Answers(x)' BY <1>5, <2>1, <2>3, <3>1, <3>2, <3>3 DEF Answers, Bound
    <3>. QED BY <3>4
  <2>. QED BY <2>4, <2>5, <2>6
<1>. QED BY <1>1, <1>2, <1>4, <1>5, <1>6, <1>7, <1>8, OwnRelease

LEMMA DestroyRelease ==
  ASSUME Plausible, PInv, RInv, NEW p \in Processes, Destroy(p)
  PROVE  RInv'
<1>0. Typed BY DEF PInv
<1>1. /\ phase[p] = "destroy" /\ phase'[p] = "ended" /\ phase' \in [Processes -> Phases]
      /\ \A q \in Processes \ {p} : phase'[q] = phase[q]
      /\ task' \in [Processes -> Tasks]
      /\ \A q \in Processes \ {p} : task'[q] = task[q]
      /\ task'[p] = "none" /\ late' = late /\ late[p] = 0
  BY <1>0 DEF Destroy, Go, Typed, Phases, Tasks
<1>2. Bound(p) /\ ~Bound(p)' BY <1>1 DEF Bound, Serving
<1>3. /\ Seen(p).faults = faults /\ Seen(p).chip = chip /\ Seen(p).enabled = enabled[p]
      /\ fan.flag \in Int
  BY <1>0, FanIs DEF Seen, Device
<1>4. PICK d \in LoopEnded(p) : \E r \in Destroyed(fan, d) :
          Becomes(p, [r EXCEPT !.enabled = FALSE, !.flag = Automatic])
  BY DEF Destroy
<1>5. PICK r \in Destroyed(fan, d) :
          Becomes(p, [r EXCEPT !.enabled = FALSE, !.flag = Automatic])
  BY <1>4
<1>. DEFINE gone == [r EXCEPT !.enabled = FALSE, !.flag = Automatic]
<1>6. /\ d \in Devices /\ Fit(fan, d) /\ faults <= d.faults
      /\ task[p] # "loop" => d = Seen(p)
      /\ \/ d.chip # Manual
         \/ d.faults = faults + 1 /\ d.chip = chip /\ d.enabled = enabled[p]
         \/ d = Seen(p) /\ task[p] # "loop"
  BY <1>2, LoopEndedFits
<1>7. /\ r \in Devices /\ Fit(fan, r) /\ d.faults <= r.faults
      /\ d.enabled => GivenBack(d, r)
      /\ ~d.enabled => r.chip = d.chip /\ r.faults = d.faults
  BY <1>3, <1>5, <1>6, DestroyedFits
<1>8. /\ gone \in Devices /\ gone.chip = r.chip /\ gone.faults = r.faults
  <2>. DEFINE off == [r EXCEPT !.enabled = FALSE]
  <2>1. off \in Devices /\ off.chip = r.chip /\ off.faults = r.faults BY <1>7 DEF Devices
  <2>2. gone = [off EXCEPT !.flag = Automatic] OBVIOUS
  <2>. HIDE DEF off, gone
  <2>. QED BY <2>1, <2>2 DEF Devices, Automatic
<1>9. UNCHANGED <<saved, orphan>> /\ driven' = (driven /\ task[p] # "loop") BY DEF Destroy
<1>10. faults \in Nat /\ d.faults \in Nat /\ r.faults \in Nat
  BY <1>0, <1>6, <1>7 DEF Typed, Devices
<1>11. /\ r.faults <= MaxFaults /\ faults <= r.faults /\ (~Works(fan) => r.chip # Manual)
       /\ FlagFits(fan, saved') /\ orphan' \in BOOLEAN /\ driven' \in BOOLEAN
       /\ driven' => fan.configured
  BY <1>6, <1>7, <1>9, <1>10 DEF RInv, RTyped, FlagsFit, TasksFit, Fit
<1>12. ASSUME r.chip = Manual, r.faults = 0, ~orphan'
       PROVE  \E q \in Processes \ {p} : enabled[q]
  <2>1. d.chip = Manual /\ d.faults = 0 /\ ~d.enabled
    BY <1>7, <1>10, <1>12 DEF GivenBack
  <2>2. chip = Manual /\ faults = 0 /\ ~enabled[p] BY <1>3, <1>6, <1>10, <2>1
  <2>. QED BY <1>9, <1>12, <2>2 DEF RInv, Owned
<1>. HIDE DEF gone
<1>13. Becomes(p, gone) BY <1>5 DEF gone
<1>14. ASSUME r.chip = Manual, ~orphan', driven'
       PROVE  \E q \in Processes : Answers(q)'
  <2>1. driven /\ ~orphan /\ task[p] # "loop" /\ d = Seen(p) BY <1>6, <1>9, <1>14
  <2>2. /\ chip = Manual /\ ~(enabled[p] /\ faults = MaxFaults)
        /\ enabled[p] => faults < r.faults
    BY <1>3, <1>7, <1>10, <1>11, <1>14, <2>1, FaultsBound DEF GivenBack
  <2>3. ~Answers(p) BY <1>1, <2>1, <2>2 DEF Answers, Serving
  <2>4. PICK q \in Processes \ {p} : Answers(q) BY <2>1, <2>2, <2>3 DEF RInv, Answered
  <2>5. /\ gone.faults <= MaxFaults /\ faults <= gone.faults
        /\ enabled[p] => faults < gone.faults
    BY <1>8, <1>11, <2>2
  <2>6. Answers(q)' BY <1>0, <1>1, <1>8, <1>13, <2>4, <2>5, AnswersStay
  <2>. QED BY <2>6
<1>15. phase'[p] \notin {"armed", "leaving", "destroy"} /\ task'[p] # "loop" BY <1>1
<1>. QED BY <1>1, <1>2, <1>8, <1>11, <1>12, <1>13, <1>14, <1>15, OwnRelease

LEMMA KillRelease ==
  ASSUME Plausible, PInv, RInv, NEW p \in Processes, Kill(p)
  PROVE  RInv'
<1>0. Typed BY DEF PInv
<1>1. /\ UNCHANGED <<fan, chip, faults, saved, driven>>
      /\ phase'[p] = "killed" /\ task'[p] = "none"
      /\ \A q \in Processes \ {p} : /\ phase'[q] = phase[q] /\ task'[q] = task[q]
                                    /\ enabled'[q] = enabled[q] /\ flag'[q] = flag[q]
  BY <1>0 DEF Kill, Go, Typed, hardware
<1>2. orphan' = (orphan \/ enabled[p] \/ chip = Manual) BY DEF Kill
<1>3. orphan' \in BOOLEAN BY <1>0, <1>2 DEF Typed, RInv, RTyped
<1>4. RTyped' BY <1>1, <1>3 DEF RInv, RTyped
<1>5. FlagsFit' BY <1>1 DEF RInv, FlagsFit, Bound, Serving
<1>6. TasksFit' BY <1>1 DEF RInv, TasksFit
<1>7. Owned' /\ Answered' BY <1>1, <1>2 DEF Owned, Answered
<1>. QED BY <1>4, <1>5, <1>6, <1>7 DEF RInv

LEMMA StepRelease == ASSUME Plausible PROVE PInv /\ RInv /\ [Next]_vars => RInv'
<1>. SUFFICES ASSUME PInv, RInv, [Next]_vars PROVE RInv' OBVIOUS
<1>1. CASE StopService \/ Sleep BY <1>1, StopsRelease
<1>2. ASSUME NEW p \in Processes,
             \/ Launch(p) \/ Step(p) \/ EndTest(p) \/ WritePwm(p) \/ Call(p)
             \/ Signal(p) \/ Kill(p)
      PROVE  RInv'
  <2>1. CASE Launch(p) \/ CheckRunning(p) \/ Build(p) \/ Daemonize(p) \/ Bind(p)
    <3>. ~Bound(p) BY <2>1 DEF Launch, CheckRunning, Build, Daemonize, Bind, Bound, Serving
    <3>. QED BY <2>1, AloofRelease
  <2>2. CASE \/ EnableAll(p) \/ CallEnable(p) \/ Restart(p) \/ Leave(p)
             \/ EndTest(p) \/ CallStuck(p) \/ CallWedged(p)
    BY <2>2, MoveRelease
  <2>3. CASE Signal(p) \/ Shutdown(p) BY <2>3, StopsRelease
  <2>4. CASE DisableAll(p) BY <2>4, DisableAllRelease
  <2>5. CASE GiveBack(p) BY <2>5, GiveBackRelease
  <2>6. CASE Destroy(p) BY <2>6, DestroyRelease
  <2>7. CASE WritePwm(p) BY <2>7, WritePwmRelease
  <2>8. CASE CallDisable(p) BY <2>8, CallDisableRelease
  <2>9. CASE CallTest(p) BY <2>9, CallTestRelease
  <2>10. CASE Recover(p) BY <2>10, RecoverRelease
  <2>11. CASE Kill(p) BY <2>11, KillRelease
  <2>. QED BY <1>2, <2>1, <2>2, <2>3, <2>4, <2>5, <2>6, <2>7, <2>8, <2>9, <2>10, <2>11
           DEF Step, Call
<1>3. CASE UNCHANGED vars
  BY <1>3 DEF vars, hardware, process, history, RInv, RTyped, FlagsFit, TasksFit, Owned,
              Answered, Answers, Bound
<1>. QED BY <1>1, <1>2, <1>3 DEF Next

\* When all processes have ended, and none that had taken the fan was killed, the
\* chip is not left in the manual mode unless a write failed, and not even then
\* if the last process drove the fan: Controller.cpp:30, 45 and 64 and
\* FanSysfs.cpp:18 give it back three times. No more than two writes fail, and
\* the fan is one that can be given back (FanDell.cpp:69).
THEOREM ReleasedTheorem == ASSUME Plausible PROVE Spec => []ReleasedAtEnd
<1>1. PInv /\ RInv => ReleasedAtEnd
  <2>. SUFFICES ASSUME PInv, RInv, \A p \in Processes : ~Alive(p), ~orphan, chip = Manual
                PROVE  ~driven /\ faults > 0
    BY DEF ReleasedAtEnd
  <2>1. \A p \in Processes : ~Bound(p) BY DEF Alive, Live, Serving, Bound
  <2>2. \A p \in Processes : ~Answers(p) BY <2>1 DEF Answers, Bound
  <2>3. \A p \in Processes : ~enabled[p] BY <2>1, EngagedBound DEF Engaged
  <2>4. faults \in Nat /\ faults # 0 BY <2>3 DEF PInv, Typed, RInv, Owned
  <2>. QED BY <2>2, <2>4 DEF RInv, Answered
<1>2. Init => RInv BY InitRelease
<1>3. PInv /\ RInv /\ [Next]_vars => RInv' BY StepRelease
<1>4. Spec => []PInv BY InductiveInvariant
<1>. QED BY <1>1, <1>2, <1>3, <1>4, PTL DEF Spec
=============================================================================
