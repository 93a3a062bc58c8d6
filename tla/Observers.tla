------------------------------ MODULE Observers ------------------------------
(* The status subscription of fancon: Service::SubscribeFanStatus registers a *)
(* callback that refers to its own stack frame, threads that change a fan's   *)
(* status call every registered callback, and RemovableMutex is to keep an    *)
(* observer from being erased while it is called (src/Service.cpp,            *)
(* src/Controller.cpp, src/util/Util.cpp). SubscribeDevices does the same.    *)
(*                                                                            *)
(* RemovableMutex is a counter: acquire_lock waits while it is negative and   *)
(* adds one, acquire_removal_lock waits while it is positive and takes one    *)
(* away, and the destructor of what they return undoes that.                  *)
EXTENDS Integers, FiniteSets

CONSTANTS
  Clients,    \* RPC threads that subscribe
  Notifiers,  \* threads that change the fan's status and notify
  MaxChanges  \* bound: changes of the status

ASSUME ObserversAssumption ==
  /\ IsFiniteSet(Clients) /\ IsFiniteSet(Notifiers) /\ Clients \cap Notifiers = {}
  /\ MaxChanges \in Nat

Threads == Clients \cup Notifiers

VARIABLES
  observers,  \* status_observers: whose callbacks are registered
  counter,    \* RemovableMutex::counter
  pc,
  done,       \* the observers a notifier has passed in its walk
  at,         \* the observer whose callback it runs
  up,         \* the process lives
  changes

mutex == <<observers, counter>>
walk  == <<done, at>>
vars  == <<mutex, pc, walk, up, changes>>

Init ==
  /\ observers = {} /\ counter = 0
  /\ pc = [t \in Threads |-> "idle"]
  /\ done = [n \in Notifiers |-> {}]
  /\ at = [n \in Notifiers |-> {}]
  /\ up = TRUE /\ changes = 0

Step(t, from, to) == up /\ pc[t] = from /\ pc' = [pc EXCEPT ![t] = to]

-----------------------------------------------------------------------------
(* notify_status_observers                                                    *)

\* A status changes (a task is erased, a test is started) and its thread goes
\* on to notify; there is no lock from here on.
Change(n) ==
  /\ changes < MaxChanges
  /\ Step(n, "idle", "check")
  /\ changes' = changes + 1
  /\ UNCHANGED <<mutex, walk, up>>

\* Nobody listens.
CheckNone(n) ==
  /\ Step(n, "check", "idle") /\ observers = {}
  /\ UNCHANGED <<mutex, walk, up, changes>>
CheckSome(n) ==
  /\ Step(n, "check", "wait") /\ observers # {}
  /\ UNCHANGED <<mutex, done, at, up, changes>>

\* acquire_lock: the test of the counter and its change are two steps.
Wait(n) ==
  /\ Step(n, "wait", "enter") /\ counter >= 0
  /\ UNCHANGED <<mutex, walk, up, changes>>
Enter(n) ==
  /\ Step(n, "enter", "walk")
  /\ counter' = counter + 1
  /\ done' = [done EXCEPT ![n] = {}]
  /\ UNCHANGED <<observers, at, up, changes>>

Visit(n, c) ==
  /\ Step(n, "walk", "call") /\ c \in observers \ done[n]
  /\ at' = [at EXCEPT ![n] = {c}]
  /\ UNCHANGED <<mutex, done, up, changes>>
\* The callback writes to the client's stream unless the call is cancelled. If
\* its frame or its list node is gone, anything may follow; the process may end.
Callback(n) == \E c \in at[n] :
  /\ Step(n, "call", "walk")
  /\ done' = [done EXCEPT ![n] = @ \cup {c}]
  /\ at' = [at EXCEPT ![n] = {}]
  /\ up' \in IF c \in observers THEN {TRUE} ELSE BOOLEAN
  /\ UNCHANGED <<mutex, changes>>
\* Faulty variant: the counter is not given back.
LeaveHeld(n) ==
  /\ Step(n, "walk", "idle") /\ observers \subseteq done[n]
  /\ UNCHANGED <<mutex, walk, up, changes>>
Leave(n) ==
  /\ Step(n, "walk", "idle") /\ observers \subseteq done[n]
  /\ counter' = counter - 1
  /\ UNCHANGED <<observers, walk, up, changes>>

-----------------------------------------------------------------------------
(* SubscribeFanStatus                                                         *)

\* Send the initial status, then register the callback.
SendInitial(c) ==
  /\ Step(c, "idle", "register")
  /\ UNCHANGED <<mutex, walk, up, changes>>
Register(c) ==
  /\ Step(c, "register", "on")
  /\ observers' = observers \cup {c}
  /\ UNCHANGED <<counter, walk, up, changes>>
\* The client cancels; the handler's loop sees it.
Cancel(c) ==
  /\ Step(c, "on", "removal")
  /\ UNCHANGED <<mutex, walk, up, changes>>

\* acquire_removal_lock: again a test and a change.
AwaitRemoval(c) ==
  /\ Step(c, "removal", "take") /\ counter <= 0
  /\ UNCHANGED <<mutex, walk, up, changes>>
\* Faulty variants: the second argument is left out; the destructor does nothing.
TakeRemovalAdds(c) ==
  /\ Step(c, "take", "drop")
  /\ counter' = counter + 1
  /\ UNCHANGED <<observers, walk, up, changes>>
DropRemovalNot(c) ==
  /\ Step(c, "drop", "erase")
  /\ UNCHANGED <<mutex, walk, up, changes>>
TakeRemoval(c) ==
  /\ Step(c, "take", "drop")
  /\ counter' = counter - 1
  /\ UNCHANGED <<observers, walk, up, changes>>
\* What it returns is bound to nothing and destroyed at the end of the statement.
DropRemoval(c) ==
  /\ Step(c, "drop", "erase")
  /\ counter' = counter + 1
  /\ UNCHANGED <<observers, walk, up, changes>>
Erase(c) ==
  /\ Step(c, "erase", "gone")
  /\ observers' = observers \ {c}
  /\ UNCHANGED <<counter, walk, up, changes>>

NotifyStep(n) ==
  \/ CheckNone(n) \/ CheckSome(n) \/ Wait(n) \/ Enter(n)
  \/ (\E c \in Clients : Visit(n, c)) \/ Callback(n) \/ Leave(n)
SubscribeStep(c) ==
  Register(c) \/ AwaitRemoval(c) \/ TakeRemoval(c) \/ DropRemoval(c) \/ Erase(c)

Next ==
  \/ \E n \in Notifiers : Change(n) \/ NotifyStep(n)
  \/ \E c \in Clients : SendInitial(c) \/ Cancel(c) \/ SubscribeStep(c)

Spec == Init /\ [][Next]_vars

\* Every thread runs; nobody has to change a status, subscribe or cancel.
FairSpec ==
  /\ Spec
  /\ \A n \in Notifiers : WF_vars(NotifyStep(n))
  /\ \A c \in Clients : WF_vars(SubscribeStep(c))

-----------------------------------------------------------------------------
Inside  == {n \in Notifiers : pc[n] \in {"walk", "call"}}
Removing == {c \in Clients : pc[c] = "drop"}

\* The counter is what its holders make of it, although it is tested and
\* changed in separate steps and by several threads (Util.cpp:60-70), and who
\* is registered is who has not left (Service.cpp:147-155).
ObserversInv ==
  /\ counter = Cardinality(Inside) - Cardinality(Removing)
  /\ observers = {c \in Clients : pc[c] \in {"on", "removal", "take", "drop", "erase"}}

\* No order of notifications and removals leaves a thread waiting for the
\* counter for ever: notifiers come back and a cancelled call ends.
NotifyReturns == \A n \in Notifiers : pc[n] # "idle" ~> pc[n] = "idle" \/ ~up
UnsubscribeReturns == \A c \in Clients : pc[c] = "removal" ~> pc[c] = "gone" \/ ~up

\* "Acquire a removal lock before removing to ensure it's not in use"
\* (Service.cpp:153): a call that has ended is not being notified.
RemovedNotInUse == \A n \in Notifiers : \A c \in at[n] : pc[c] # "gone"
=============================================================================
