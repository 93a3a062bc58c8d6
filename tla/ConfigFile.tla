----------------------------- MODULE ConfigFile -----------------------------
(* The configuration file of fancon and who reads and writes it               *)
(* (src/Controller.cpp): to_file, called by tests and SetDevices; reload,     *)
(* called by RPCs and by the watcher thread when the file was modified; and   *)
(* the administrator's editor. config_mutex guards the file, the recorded     *)
(* write time tells the program's own writes from the editor's.               *)
(*                                                                            *)
(* A content is the number of the edit it holds. What the file says of each   *)
(* device is left out, and so are the devices a reload merges.                *)
EXTENDS Integers

CONSTANTS
  Savers,      \* threads that call to_file: tests that ended, SetDevices
  Reloaders,   \* RPC threads that call reload
  Watcher,
  None,
  MaxEdits,    \* bound: edits by the administrator
  MaxCalls,    \* bound: calls of to_file and reload
  MaxCrashes   \* bound: how often the process is killed and restarted

Threads == Savers \cup Reloaders \cup {Watcher}
absent == -1   \* no file
torn == -2     \* truncated, not yet written
Contents == 0 .. MaxEdits \cup {absent, torn}

ASSUME ConfigThreads ==
  /\ Savers \cap Reloaders = {} /\ Watcher \notin Savers \cup Reloaders
  /\ None \notin Threads /\ None \notin Int
ASSUME ConfigBounds ==
  /\ MaxEdits \in Nat /\ MaxCalls \in Nat /\ MaxCrashes \in Nat

VARIABLES
  file,        \* what the config file holds
  mtime,       \* its modification time
  write_time,  \* config_write_time
  memory,      \* the content the settings in memory come from
  mutex,       \* the holder of config_mutex
  pc,
  got,         \* what a thread read, is about to write, or has to flush
  edits, calls, crashes,
  cut,         \* a process was killed between truncating the file and filling it
  long,        \* the text does not fit the stream's buffer
  early        \* RPCs may come before the watcher's first look at the file

disk == <<file, mtime>>
given == <<long, early>>
vars == <<disk, write_time, memory, mutex, pc, got, edits, calls, crashes, cut, given>>

\* Start of the process: the constructor reads the file, if there is one.
Boot(content, time) ==
  [memory     |-> IF content = absent THEN 0 ELSE content,
   write_time |-> IF content = absent THEN 0 ELSE time,
   pc         |-> [t \in Threads |-> IF t = Watcher THEN "start" ELSE "idle"],
   got        |-> [t \in Threads |-> None]]

Init ==
  /\ file \in {absent, 0} /\ mtime = 0
  /\ LET b == Boot(file, mtime) IN
       /\ memory = b.memory /\ write_time = b.write_time
       /\ pc = b.pc /\ got = b.got
  /\ mutex = None
  /\ edits = 0 /\ calls = MaxCalls /\ crashes = 0 /\ cut = FALSE
  /\ long \in BOOLEAN /\ early \in BOOLEAN

Goto(t, l) == pc' = [pc EXCEPT ![t] = l]
Keep(t, x) == got' = [got EXCEPT ![t] = x]
Exists == file # absent
\* Every write takes the clock's time, which may be the last write's still.
Put(content) == file' = content /\ mtime' \in {mtime, mtime + 1}
config_file_modified == Exists /\ write_time # mtime
UpdateWriteTime == write_time' = IF Exists THEN mtime ELSE write_time

-----------------------------------------------------------------------------
(* reload and read_config                                                     *)

Call(t, l) ==
  /\ pc[t] = "idle" /\ calls > 0 /\ (early \/ pc[Watcher] \notin {"start", "look"})
  /\ calls' = calls - 1
  /\ Goto(t, l)
  /\ UNCHANGED <<disk, write_time, memory, mutex, got, edits, crashes, cut, given>>
Reload(t) == Call(t, "reload")

\* A reload returns to its RPC, or to the watcher's loop.
Return(t) == Goto(t, IF t = Watcher THEN "sleep" ELSE "idle")

\* Faulty variant: the file is read without config_mutex.
ReadUnlocked(t) ==
  /\ pc[t] = "reload"
  /\ IF Exists THEN Goto(t, "read") ELSE Return(t)
  /\ UNCHANGED <<disk, write_time, memory, mutex, got, edits, calls, crashes, cut, given>>

\* config_mutex is not recursive: the watcher calls this while it holds it.
ReadConfig(t) ==
  /\ pc[t] = "reload" /\ mutex = None
  /\ IF Exists THEN mutex' = t /\ Goto(t, "read")
               ELSE UNCHANGED mutex /\ Return(t)
  /\ UNCHANGED <<disk, write_time, memory, got, edits, calls, crashes, cut, given>>

Read(t) ==
  /\ pc[t] = "read"
  /\ Keep(t, file) /\ Goto(t, "stamp_read")
  /\ UNCHANGED <<disk, write_time, memory, mutex, edits, calls, crashes, cut, given>>

StampRead(t) ==
  /\ pc[t] = "stamp_read"
  /\ UpdateWriteTime
  /\ mutex' = None
  /\ Goto(t, "apply")
  /\ UNCHANGED <<disk, memory, got, edits, calls, crashes, cut, given>>

\* from() and merge() take over what was read, with no lock.
Apply(t) ==
  /\ pc[t] = "apply"
  /\ memory' = got[t]
  /\ Keep(t, None) /\ Return(t)
  /\ UNCHANGED <<disk, write_time, mutex, edits, calls, crashes, cut, given>>

-----------------------------------------------------------------------------
(* The watcher                                                                *)

\* The first look takes no lock: the time is read, then recorded.
FirstLook ==
  /\ pc[Watcher] = "start"
  /\ Keep(Watcher, IF Exists THEN mtime ELSE None) /\ Goto(Watcher, "look")
  /\ UNCHANGED <<disk, write_time, memory, mutex, edits, calls, crashes, cut, given>>
FirstStamp ==
  /\ pc[Watcher] = "look"
  /\ write_time' = IF got[Watcher] = None THEN write_time ELSE got[Watcher]
  /\ Keep(Watcher, None) /\ Goto(Watcher, "sleep")
  /\ UNCHANGED <<disk, memory, mutex, edits, calls, crashes, cut, given>>

\* A look that finds no modification changes nothing.
Notice ==
  /\ pc[Watcher] = "sleep" /\ mutex = None /\ config_file_modified
  /\ mutex' = Watcher
  /\ UpdateWriteTime
  /\ Goto(Watcher, "reload")
  /\ UNCHANGED <<disk, memory, got, edits, calls, crashes, cut, given>>

-----------------------------------------------------------------------------
(* to_file                                                                    *)

Save(t) == Call(t, "save")

SaveText(t) ==
  /\ pc[t] = "save" /\ mutex = None
  /\ mutex' = t
  /\ Keep(t, memory) /\ Goto(t, "open")
  /\ UNCHANGED <<disk, write_time, memory, edits, calls, crashes, cut, given>>

\* Opening truncates the file.
SaveOpen(t) ==
  /\ pc[t] = "open"
  /\ Put(torn) /\ Goto(t, "write")
  /\ UNCHANGED <<write_time, memory, mutex, got, edits, calls, crashes, cut, given>>

\* A long text reaches the file at once, another stays in the stream's buffer.
SaveWrite(t) ==
  /\ pc[t] = "write"
  /\ IF long THEN Put(got[t]) /\ Keep(t, None) ELSE UNCHANGED <<disk, got>>
  /\ Goto(t, "stamp_save")
  /\ UNCHANGED <<write_time, memory, mutex, edits, calls, crashes, cut, given>>

\* Faulty variants: the lock goes before the stream; the write is not recorded as
\* the program's own.
SaveStampUnlocks(t) ==
  /\ pc[t] = "stamp_save"
  /\ UpdateWriteTime
  /\ mutex' = None
  /\ Goto(t, "close")
  /\ UNCHANGED <<disk, memory, got, edits, calls, crashes, cut, given>>
SaveStampNot(t) ==
  /\ pc[t] = "stamp_save" /\ Goto(t, "close")
  /\ UNCHANGED <<disk, write_time, memory, mutex, got, edits, calls, crashes, cut, given>>

SaveStamp(t) ==
  /\ pc[t] = "stamp_save"
  /\ UpdateWriteTime
  /\ Goto(t, "close")
  /\ UNCHANGED <<disk, memory, mutex, got, edits, calls, crashes, cut, given>>

\* Faulty variant: the mutex stays locked.
SaveCloseLocked(t) ==
  /\ pc[t] = "close" /\ got[t] = None /\ Goto(t, "idle")
  /\ UNCHANGED <<disk, write_time, memory, mutex, got, edits, calls, crashes, cut, given>>

\* The stream's destructor flushes what is buffered; the lock goes after it.
SaveClose(t) ==
  /\ pc[t] = "close"
  /\ IF got[t] = None THEN UNCHANGED disk ELSE Put(got[t])
  /\ mutex' = None
  /\ Keep(t, None) /\ Goto(t, "idle")
  /\ UNCHANGED <<write_time, memory, edits, calls, crashes, cut, given>>

-----------------------------------------------------------------------------
(* The world around the process                                               *)

Edit ==
  /\ edits < MaxEdits
  /\ edits' = edits + 1
  /\ Put(edits')
  /\ UNCHANGED <<write_time, memory, mutex, pc, got, calls, crashes, cut, given>>

\* The file is truncated and the text not yet in it.
Unflushed(t) == pc[t] = "write" \/ (pc[t] \in {"stamp_save", "close"} /\ got[t] # None)

\* Killed at any point; systemd starts it again (Restart=on-failure).
Crash ==
  /\ crashes < MaxCrashes
  /\ crashes' = crashes + 1
  /\ cut' = (cut \/ \E t \in Savers : Unflushed(t))
  /\ LET b == Boot(file, mtime) IN
       /\ memory' = b.memory /\ write_time' = b.write_time
       /\ pc' = b.pc /\ got' = b.got
  /\ mutex' = None
  /\ UNCHANGED <<disk, edits, calls, given>>

ReloadStep(t) == ReadConfig(t) \/ Read(t) \/ StampRead(t) \/ Apply(t)
WatcherStep == FirstLook \/ FirstStamp \/ Notice \/ ReloadStep(Watcher)
SaveStep(t) == SaveText(t) \/ SaveOpen(t) \/ SaveWrite(t) \/ SaveStamp(t) \/ SaveClose(t)

Next ==
  \/ \E t \in Reloaders : Reload(t) \/ ReloadStep(t)
  \/ \E t \in Savers : Save(t) \/ SaveStep(t)
  \/ WatcherStep
  \/ Edit \/ Crash

Spec == Init /\ [][Next]_vars

\* Every thread runs; nobody has to call, edit or kill.
FairSpec ==
  /\ Spec
  /\ WF_vars(WatcherStep)
  /\ \A t \in Reloaders : WF_vars(ReloadStep(t))
  /\ \A t \in Savers : WF_vars(SaveStep(t))

-----------------------------------------------------------------------------
ReadPC == {"read", "stamp_read"}
WritePC == {"open", "write", "stamp_save", "close"}
WatchPC == {"start", "look", "sleep", "reload"}
ConfigTypeOK ==
  /\ file \in Contents /\ memory \in Contents \ {absent}
  /\ mtime \in Nat /\ write_time \in Nat
  /\ mutex \in Threads \cup {None}
  /\ pc \in [Threads -> {"idle", "save", "apply"} \cup WatchPC \cup ReadPC \cup WritePC]
  /\ got \in [Threads -> Int \cup {None}]
  /\ edits \in 0 .. MaxEdits /\ calls \in 0 .. MaxCalls
  /\ crashes \in 0 .. MaxCrashes /\ cut \in BOOLEAN

\* Which thread may be where. The watcher never gets past "reload".
Places ==
  /\ pc[Watcher] \in WatchPC
  /\ \A t \in Reloaders : pc[t] \in {"idle", "reload", "apply"} \cup ReadPC
  /\ \A t \in Savers : pc[t] \in {"idle", "save"} \cup WritePC
HolderInv == \A t \in Threads :
  mutex = t <=> pc[t] \in ReadPC \cup WritePC \/ (t = Watcher /\ pc[t] = "reload")
\* What a thread carries, and that what it reads is there.
CarriedInv ==
  /\ pc[Watcher] = "look" => got[Watcher] \in Nat \cup {None}
  /\ \A t \in Reloaders :
       /\ pc[t] = "read" => file # absent
       /\ pc[t] \in {"stamp_read", "apply"} => got[t] \in Contents \ {absent}
  /\ \A t \in Savers :
       /\ pc[t] \in {"open", "write"} => got[t] \in Contents \ {absent}
       /\ pc[t] \in {"stamp_save", "close"} => got[t] \in (Contents \ {absent}) \cup {None}
ConfigInv == ConfigTypeOK /\ Places /\ HolderInv /\ CarriedInv

\* However often the process is killed and restarted, and however saves, reloads
\* and edits overlap: the file is half-written only while a saver has still to
\* flush it, and nobody takes that over, unless a process was killed just then,
\* between Controller.cpp 385 and the stream's destructor (251, 367).
LoadedWhole == ~cut =>
  /\ file = torn => \E t \in Savers : Unflushed(t)
  /\ memory # torn /\ \A t \in Threads : got[t] # torn

\* The watcher does not take the program's own writes for edits, however saves
\* and reloads overlap, when texts are longer than the stream's buffer and its
\* first look was before them (Controller.cpp:385-387, 410).
OwnSaveUnnoticed == edits = 0 /\ long /\ ~early => pc[Watcher] # "reload"

\* Every reload and every save is answered, unless the watcher has noticed a
\* modification and waits for the mutex it holds (Controller.cpp:86, 365, 413).
ConfigCallsReturn ==
  \A t \in Reloaders \cup Savers : pc[t] # "idle" ~> pc[t] = "idle" \/ pc[Watcher] = "reload"

\* "Reload config" (README.md:133): a reload that is called does return.
ReloadReturns == \A t \in Reloaders : pc[t] = "reload" ~> pc[t] = "idle"
=============================================================================
