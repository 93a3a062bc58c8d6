---------------------------- MODULE ConfigProofs ----------------------------
(* Proofs about ConfigFile, for every number of threads, edits and crashes.   *)
(*                                                                            *)
(* ConfigInv is inductive: the holder of config_mutex is at a label inside it *)
(* (HolderInv), and every thread carries what its label says (CarriedInv).    *)
(* That no half-written file is loaded is inductive once ConfigInv is known:  *)
(* a thread that reads, or lets go of the mutex, holds it, so the saver that  *)
(* has yet to fill the file is nobody else (AloneInside).                     *)
EXTENDS ConfigFile, TLAPS

USE ConfigThreads, ConfigBounds
USE DEF Threads, Contents, absent, torn, disk, ReadPC, WritePC, WatchPC, Goto

LEMMA CallKeeps ==
  ASSUME ConfigInv, NEW t \in Savers \cup Reloaders, NEW l \in {"reload", "save"},
         t \in Reloaders <=> l = "reload", Call(t, l)
  PROVE  ConfigInv'
<1> USE DEF Call
<1>types. ConfigTypeOK BY DEF ConfigInv
<1>places. Places BY DEF ConfigInv
<1>holder. HolderInv BY DEF ConfigInv
<1>carried. CarriedInv BY DEF ConfigInv
<1>1. ConfigTypeOK'
  BY <1>types, <1>places, <1>carried DEF ConfigTypeOK, Places, CarriedInv
<1>2. Places'
  BY <1>types, <1>places DEF ConfigTypeOK, Places
<1>3. HolderInv'
  BY <1>types, <1>places, <1>holder DEF ConfigTypeOK, Places, HolderInv
<1>4. CarriedInv'
  BY <1>types, <1>places, <1>carried DEF ConfigTypeOK, Places, CarriedInv
<1> QED BY <1>1, <1>2, <1>3, <1>4 DEF ConfigInv

LEMMA ReadConfigKeeps ==
  ASSUME ConfigInv, NEW t \in Reloaders, ReadConfig(t)
  PROVE  ConfigInv'
<1> USE DEF ReadConfig, Return, Exists
<1>types. ConfigTypeOK BY DEF ConfigInv
<1>places. Places BY DEF ConfigInv
<1>holder. HolderInv BY DEF ConfigInv
<1>carried. CarriedInv BY DEF ConfigInv
<1>1. ConfigTypeOK'
  BY <1>types, <1>places, <1>carried DEF ConfigTypeOK, Places, CarriedInv
<1>2. Places'
  BY <1>types, <1>places DEF ConfigTypeOK, Places
<1>3. HolderInv'
  BY <1>types, <1>places, <1>holder DEF ConfigTypeOK, Places, HolderInv
<1>4. CarriedInv'
  BY <1>types, <1>places, <1>carried DEF ConfigTypeOK, Places, CarriedInv
<1> QED BY <1>1, <1>2, <1>3, <1>4 DEF ConfigInv

LEMMA ReadKeeps ==
  ASSUME ConfigInv, NEW t \in Reloaders, Read(t)
  PROVE  ConfigInv'
<1> USE DEF Read, Keep
<1>types. ConfigTypeOK BY DEF ConfigInv
<1>places. Places BY DEF ConfigInv
<1>holder. HolderInv BY DEF ConfigInv
<1>carried. CarriedInv BY DEF ConfigInv
<1>1. ConfigTypeOK'
  BY <1>types, <1>places, <1>carried DEF ConfigTypeOK, Places, CarriedInv
<1>2. Places'
  BY <1>types, <1>places DEF ConfigTypeOK, Places
<1>3. HolderInv'
  BY <1>types, <1>places, <1>holder DEF ConfigTypeOK, Places, HolderInv
<1>4. CarriedInv'
  BY <1>types, <1>places, <1>carried DEF ConfigTypeOK, Places, CarriedInv
<1> QED BY <1>1, <1>2, <1>3, <1>4 DEF ConfigInv

LEMMA StampReadKeeps ==
  ASSUME ConfigInv, NEW t \in Reloaders, StampRead(t)
  PROVE  ConfigInv'
<1> USE DEF StampRead, UpdateWriteTime, Exists
<1>types. ConfigTypeOK BY DEF ConfigInv
<1>places. Places BY DEF ConfigInv
<1>holder. HolderInv BY DEF ConfigInv
<1>carried. CarriedInv BY DEF ConfigInv
<1>1. ConfigTypeOK'
  BY <1>types, <1>places, <1>carried DEF ConfigTypeOK, Places, CarriedInv
<1>2. Places'
  BY <1>types, <1>places DEF ConfigTypeOK, Places
<1>3. HolderInv'
  BY <1>types, <1>places, <1>holder DEF ConfigTypeOK, Places, HolderInv
<1>4. CarriedInv'
  BY <1>types, <1>places, <1>carried DEF ConfigTypeOK, Places, CarriedInv
<1> QED BY <1>1, <1>2, <1>3, <1>4 DEF ConfigInv

LEMMA ApplyKeeps ==
  ASSUME ConfigInv, NEW t \in Reloaders, Apply(t)
  PROVE  ConfigInv'
<1> USE DEF Apply, Keep, Return
<1>types. ConfigTypeOK BY DEF ConfigInv
<1>places. Places BY DEF ConfigInv
<1>holder. HolderInv BY DEF ConfigInv
<1>carried. CarriedInv BY DEF ConfigInv
<1>1. ConfigTypeOK'
  BY <1>types, <1>places, <1>carried DEF ConfigTypeOK, Places, CarriedInv
<1>2. Places'
  BY <1>types, <1>places DEF ConfigTypeOK, Places
<1>3. HolderInv'
  BY <1>types, <1>places, <1>holder DEF ConfigTypeOK, Places, HolderInv
<1>4. CarriedInv'
  BY <1>types, <1>places, <1>carried DEF ConfigTypeOK, Places, CarriedInv
<1> QED BY <1>1, <1>2, <1>3, <1>4 DEF ConfigInv

LEMMA FirstLookKeeps ==
  ASSUME ConfigInv, FirstLook
  PROVE  ConfigInv'
<1> USE DEF FirstLook, Keep, Exists
<1>types. ConfigTypeOK BY DEF ConfigInv
<1>places. Places BY DEF ConfigInv
<1>holder. HolderInv BY DEF ConfigInv
<1>carried. CarriedInv BY DEF ConfigInv
<1>1. ConfigTypeOK'
  BY <1>types, <1>places, <1>carried DEF ConfigTypeOK, Places, CarriedInv
<1>2. Places'
  BY <1>types, <1>places DEF ConfigTypeOK, Places
<1>3. HolderInv'
  BY <1>types, <1>places, <1>holder DEF ConfigTypeOK, Places, HolderInv
<1>4. CarriedInv'
  BY <1>types, <1>places, <1>carried DEF ConfigTypeOK, Places, CarriedInv
<1> QED BY <1>1, <1>2, <1>3, <1>4 DEF ConfigInv

LEMMA FirstStampKeeps ==
  ASSUME ConfigInv, FirstStamp
  PROVE  ConfigInv'
<1> USE DEF FirstStamp, Keep
<1>types. ConfigTypeOK BY DEF ConfigInv
<1>places. Places BY DEF ConfigInv
<1>holder. HolderInv BY DEF ConfigInv
<1>carried. CarriedInv BY DEF ConfigInv
<1>1. ConfigTypeOK'
  BY <1>types, <1>places, <1>carried DEF ConfigTypeOK, Places, CarriedInv
<1>2. Places'
  BY <1>types, <1>places DEF ConfigTypeOK, Places
<1>3. HolderInv'
  BY <1>types, <1>places, <1>holder DEF ConfigTypeOK, Places, HolderInv
<1>4. CarriedInv'
  BY <1>types, <1>places, <1>carried DEF ConfigTypeOK, Places, CarriedInv
<1> QED BY <1>1, <1>2, <1>3, <1>4 DEF ConfigInv

LEMMA NoticeKeeps ==
  ASSUME ConfigInv, Notice
  PROVE  ConfigInv'
<1> USE DEF Notice, UpdateWriteTime, Exists
<1>types. ConfigTypeOK BY DEF ConfigInv
<1>places. Places BY DEF ConfigInv
<1>holder. HolderInv BY DEF ConfigInv
<1>carried. CarriedInv BY DEF ConfigInv
<1>1. ConfigTypeOK'
  BY <1>types, <1>places, <1>carried DEF ConfigTypeOK, Places, CarriedInv
<1>2. Places'
  BY <1>types, <1>places DEF ConfigTypeOK, Places
<1>3. HolderInv'
  BY <1>types, <1>places, <1>holder DEF ConfigTypeOK, Places, HolderInv
<1>4. CarriedInv'
  BY <1>types, <1>places, <1>carried DEF ConfigTypeOK, Places, CarriedInv
<1> QED BY <1>1, <1>2, <1>3, <1>4 DEF ConfigInv

LEMMA SaveTextKeeps ==
  ASSUME ConfigInv, NEW t \in Savers, SaveText(t)
  PROVE  ConfigInv'
<1> USE DEF SaveText, Keep
<1>types. ConfigTypeOK BY DEF ConfigInv
<1>places. Places BY DEF ConfigInv
<1>holder. HolderInv BY DEF ConfigInv
<1>carried. CarriedInv BY DEF ConfigInv
<1>1. ConfigTypeOK'
  BY <1>types, <1>places, <1>carried DEF ConfigTypeOK, Places, CarriedInv
<1>2. Places'
  BY <1>types, <1>places DEF ConfigTypeOK, Places
<1>3. HolderInv'
  BY <1>types, <1>places, <1>holder DEF ConfigTypeOK, Places, HolderInv
<1>4. CarriedInv'
  BY <1>types, <1>places, <1>carried DEF ConfigTypeOK, Places, CarriedInv
<1> QED BY <1>1, <1>2, <1>3, <1>4 DEF ConfigInv

LEMMA SaveOpenKeeps ==
  ASSUME ConfigInv, NEW t \in Savers, SaveOpen(t)
  PROVE  ConfigInv'
<1> USE DEF SaveOpen, Put
<1>types. ConfigTypeOK BY DEF ConfigInv
<1>places. Places BY DEF ConfigInv
<1>holder. HolderInv BY DEF ConfigInv
<1>carried. CarriedInv BY DEF ConfigInv
<1>1. ConfigTypeOK'
  BY <1>types, <1>places, <1>carried DEF ConfigTypeOK, Places, CarriedInv
<1>2. Places'
  BY <1>types, <1>places DEF ConfigTypeOK, Places
<1>3. HolderInv'
  BY <1>types, <1>places, <1>holder DEF ConfigTypeOK, Places, HolderInv
<1>4. CarriedInv'
  BY <1>types, <1>places, <1>carried DEF ConfigTypeOK, Places, CarriedInv
<1> QED BY <1>1, <1>2, <1>3, <1>4 DEF ConfigInv

LEMMA SaveWriteKeeps ==
  ASSUME ConfigInv, NEW t \in Savers, SaveWrite(t)
  PROVE  ConfigInv'
<1> USE DEF SaveWrite, Put, Keep
<1>types. ConfigTypeOK BY DEF ConfigInv
<1>places. Places BY DEF ConfigInv
<1>holder. HolderInv BY DEF ConfigInv
<1>carried. CarriedInv BY DEF ConfigInv
<1>1. ConfigTypeOK'
  BY <1>types, <1>places, <1>carried DEF ConfigTypeOK, Places, CarriedInv
<1>2. Places'
  BY <1>types, <1>places DEF ConfigTypeOK, Places
<1>3. HolderInv'
  BY <1>types, <1>places, <1>holder DEF ConfigTypeOK, Places, HolderInv
<1>4. CarriedInv'
  BY <1>types, <1>places, <1>carried DEF ConfigTypeOK, Places, CarriedInv
<1> QED BY <1>1, <1>2, <1>3, <1>4 DEF ConfigInv

LEMMA SaveStampKeeps ==
  ASSUME ConfigInv, NEW t \in Savers, SaveStamp(t)
  PROVE  ConfigInv'
<1> USE DEF SaveStamp, UpdateWriteTime, Exists
<1>types. ConfigTypeOK BY DEF ConfigInv
<1>places. Places BY DEF ConfigInv
<1>holder. HolderInv BY DEF ConfigInv
<1>carried. CarriedInv BY DEF ConfigInv
<1>1. ConfigTypeOK'
  BY <1>types, <1>places, <1>carried DEF ConfigTypeOK, Places, CarriedInv
<1>2. Places'
  BY <1>types, <1>places DEF ConfigTypeOK, Places
<1>3. HolderInv'
  BY <1>types, <1>places, <1>holder DEF ConfigTypeOK, Places, HolderInv
<1>4. CarriedInv'
  BY <1>types, <1>places, <1>carried DEF ConfigTypeOK, Places, CarriedInv
<1> QED BY <1>1, <1>2, <1>3, <1>4 DEF ConfigInv

LEMMA SaveCloseKeeps ==
  ASSUME ConfigInv, NEW t \in Savers, SaveClose(t)
  PROVE  ConfigInv'
<1> USE DEF SaveClose, Put, Keep
<1>types. ConfigTypeOK BY DEF ConfigInv
<1>places. Places BY DEF ConfigInv
<1>holder. HolderInv BY DEF ConfigInv
<1>carried. CarriedInv BY DEF ConfigInv
<1>1. ConfigTypeOK'
  BY <1>types, <1>places, <1>carried DEF ConfigTypeOK, Places, CarriedInv
<1>2. Places'
  BY <1>types, <1>places DEF ConfigTypeOK, Places
<1>3. HolderInv'
  BY <1>types, <1>places, <1>holder DEF ConfigTypeOK, Places, HolderInv
<1>4. CarriedInv'
  BY <1>types, <1>places, <1>carried DEF ConfigTypeOK, Places, CarriedInv
<1> QED BY <1>1, <1>2, <1>3, <1>4 DEF ConfigInv

LEMMA EditKeeps ==
  ASSUME ConfigInv, Edit
  PROVE  ConfigInv'
<1> USE DEF Edit, Put
<1>types. ConfigTypeOK BY DEF ConfigInv
<1>places. Places BY DEF ConfigInv
<1>holder. HolderInv BY DEF ConfigInv
<1>carried. CarriedInv BY DEF ConfigInv
<1>1. ConfigTypeOK'
  BY <1>types, <1>places, <1>carried DEF ConfigTypeOK, Places, CarriedInv
<1>2. Places'
  BY <1>types, <1>places DEF ConfigTypeOK, Places
<1>3. HolderInv'
  BY <1>types, <1>places, <1>holder DEF ConfigTypeOK, Places, HolderInv
<1>4. CarriedInv'
  BY <1>types, <1>places, <1>carried DEF ConfigTypeOK, Places, CarriedInv
<1> QED BY <1>1, <1>2, <1>3, <1>4 DEF ConfigInv

LEMMA CrashKeeps ==
  ASSUME ConfigInv, Crash
  PROVE  ConfigInv'
<1> USE DEF Crash, Boot
<1>types. ConfigTypeOK BY DEF ConfigInv
<1>places. Places BY DEF ConfigInv
<1>holder. HolderInv BY DEF ConfigInv
<1>carried. CarriedInv BY DEF ConfigInv
<1>1. ConfigTypeOK'
  BY <1>types, <1>places, <1>carried DEF ConfigTypeOK, Places, CarriedInv
<1>2. Places'
  BY <1>types, <1>places DEF ConfigTypeOK, Places
<1>3. HolderInv'
  BY <1>types, <1>places, <1>holder DEF ConfigTypeOK, Places, HolderInv
<1>4. CarriedInv'
  BY <1>types, <1>places, <1>carried DEF ConfigTypeOK, Places, CarriedInv
<1> QED BY <1>1, <1>2, <1>3, <1>4 DEF ConfigInv

\* The watcher never reads: it holds the mutex when it gets there.
LEMMA WatcherStuck ==
  ASSUME ConfigInv, ReloadStep(Watcher)
  PROVE  FALSE
<1>1. pc[Watcher] \in WatchPC /\ Watcher \in Threads
  BY DEF ConfigInv, Places
<1>2. pc[Watcher] = "reload" => mutex = Watcher
  BY <1>1 DEF ConfigInv, HolderInv
<1> QED BY <1>1, <1>2 DEF ReloadStep, ReadConfig, Read, StampRead, Apply

LEMMA ConfigStutter == ConfigInv /\ UNCHANGED vars => ConfigInv'
BY DEF vars, ConfigInv, ConfigTypeOK, Places, HolderInv, CarriedInv

LEMMA ConfigNext == ConfigInv /\ [Next]_vars => ConfigInv'
<1> SUFFICES ASSUME ConfigInv, [Next]_vars PROVE ConfigInv'
  OBVIOUS
<1>1. ASSUME NEW t \in Reloaders, Reload(t) \/ ReloadStep(t) PROVE ConfigInv'
  <2>1. CASE Reload(t)
    BY <2>1, CallKeeps DEF Reload
  <2>2. CASE ReloadStep(t)
    BY <2>2, ReadConfigKeeps, ReadKeeps, StampReadKeeps, ApplyKeeps DEF ReloadStep
  <2> QED BY <1>1, <2>1, <2>2
<1>2. ASSUME NEW t \in Savers, Save(t) \/ SaveStep(t) PROVE ConfigInv'
  <2>1. CASE Save(t)
    BY <2>1, CallKeeps DEF Save
  <2>2. CASE SaveStep(t)
    BY <2>2, SaveTextKeeps, SaveOpenKeeps, SaveWriteKeeps, SaveStampKeeps, SaveCloseKeeps
    DEF SaveStep
  <2> QED BY <1>2, <2>1, <2>2
<1>3. CASE WatcherStep
  BY <1>3, FirstLookKeeps, FirstStampKeeps, NoticeKeeps, WatcherStuck DEF WatcherStep
<1>4. CASE Edit \/ Crash
  BY <1>4, EditKeeps, CrashKeeps
<1>5. CASE UNCHANGED vars
  BY <1>5, ConfigStutter
<1> QED BY <1>1, <1>2, <1>3, <1>4, <1>5 DEF Next

LEMMA ConfigInit == Init => ConfigInv
<1> SUFFICES ASSUME Init PROVE ConfigInv
  OBVIOUS
<1>0. cut \in BOOLEAN
  BY Zenon DEF Init
<1> USE DEF Init, Boot
<1>1. ConfigTypeOK BY <1>0 DEF ConfigTypeOK
<1>2. Places BY DEF Places
<1>3. HolderInv BY DEF HolderInv
<1>4. CarriedInv BY DEF CarriedInv
<1> QED BY <1>1, <1>2, <1>3, <1>4 DEF ConfigInv

\* The inductive invariant of the config file's users (Controller.cpp:86-419).
THEOREM ConfigInvariant == Spec => []ConfigInv
BY ConfigInit, ConfigNext, PTL DEF Spec

-----------------------------------------------------------------------------
(* Half-written files.                                                        *)

\* Whoever is about to truncate or has filled the file is the only saver inside.
LEMMA AloneInside ==
  ASSUME ConfigInv, NEW t \in Threads, mutex = t,
         NEW u \in Savers, Unflushed(u)
  PROVE  u = t
BY DEF ConfigInv, HolderInv, Unflushed

\* The file and what is carried stay, and so do those who have to fill it.
LEMMA NothingMoves ==
  ASSUME ConfigInv, LoadedWhole, UNCHANGED <<file, memory, cut>>,
         \A t \in Threads : got'[t] = got[t] \/ got'[t] # torn,
         \A t \in Savers : Unflushed(t) => Unflushed(t)'
  PROVE  LoadedWhole'
BY DEF LoadedWhole

LEMMA WholeReload ==
  ASSUME ConfigInv, LoadedWhole, NEW t \in Reloaders, ReloadStep(t)
  PROVE  LoadedWhole'
<1>types. ConfigTypeOK BY DEF ConfigInv
<1>other. /\ t \notin Savers /\ t \in Threads /\ t # Watcher
          /\ \A u \in Savers : u \in Threads /\ u # t
  OBVIOUS
<1>1. CASE ReadConfig(t) \/ StampRead(t)
  <2>1. UNCHANGED <<file, memory, got, cut>> /\ \A u \in Savers : pc'[u] = pc[u]
    BY <1>1, <1>types, <1>other DEF ReadConfig, StampRead, Return, ConfigTypeOK
  <2> QED BY <2>1, NothingMoves DEF Unflushed
<1>2. CASE Read(t)
  <2>1. UNCHANGED <<file, memory, cut>>
    BY <1>2 DEF Read
  <2>2. /\ got' = [got EXCEPT ![t] = file]
        /\ \A u \in Savers : pc'[u] = pc[u] /\ got'[u] = got[u]
    BY <1>2, <1>types, <1>other DEF Read, Keep, ConfigTypeOK
  <2>3. cut \/ file # torn
    <3>1. mutex = t
      BY <1>2, <1>other DEF Read, ConfigInv, HolderInv
    <3> QED BY <3>1, <1>other, AloneInside DEF LoadedWhole
  <2>4. CASE cut
    BY <2>1, <2>4 DEF LoadedWhole
  <2>5. CASE file # torn
    <3>1. \A u \in Threads : got'[u] = got[u] \/ got'[u] # torn
      BY <2>2, <2>5, <1>types DEF ConfigTypeOK
    <3> QED BY <2>1, <2>2, <3>1, NothingMoves DEF Unflushed
  <2> QED BY <2>3, <2>4, <2>5
<1>3. CASE Apply(t)
  <2>1. /\ UNCHANGED <<file, cut>> /\ memory' = got[t]
        /\ \A u \in Threads : got'[u] = got[u] \/ got'[u] = None
        /\ \A u \in Savers : pc'[u] = pc[u] /\ got'[u] = got[u]
    BY <1>3, <1>types, <1>other DEF Apply, Keep, Return, ConfigTypeOK
  <2> QED BY <2>1, <1>other DEF LoadedWhole, Unflushed
<1> QED BY <1>1, <1>2, <1>3 DEF ReloadStep

LEMMA WholeSave ==
  ASSUME ConfigInv, LoadedWhole, NEW t \in Savers, SaveStep(t)
  PROVE  LoadedWhole'
<1>types. ConfigTypeOK BY DEF ConfigInv
<1>carried. CarriedInv BY DEF ConfigInv
<1>1. CASE SaveText(t) \/ SaveStamp(t)
  <2>1. CASE SaveText(t)
    <3>1. /\ UNCHANGED <<file, memory, cut>> /\ ~Unflushed(t)
          /\ got' = [got EXCEPT ![t] = memory]
          /\ \A u \in Savers \ {t} : pc'[u] = pc[u]
      BY <2>1, <1>types DEF SaveText, Keep, ConfigTypeOK, Unflushed
    <3> QED BY <3>1, <1>types DEF LoadedWhole, Unflushed, ConfigTypeOK
  <2>2. CASE SaveStamp(t)
    <3>1. /\ UNCHANGED <<file, memory, got, cut>>
          /\ pc[t] = "stamp_save" /\ pc'[t] = "close"
          /\ \A u \in Savers \ {t} : pc'[u] = pc[u]
      BY <2>2, <1>types DEF SaveStamp, ConfigTypeOK
    <3> QED BY <3>1, NothingMoves DEF Unflushed
  <2> QED BY <1>1, <2>1, <2>2
<1>2. CASE SaveOpen(t)
  <2>1. pc'[t] = "write" /\ UNCHANGED <<memory, got, cut>>
    BY <1>2, <1>types DEF SaveOpen, ConfigTypeOK
  <2> QED BY <2>1 DEF LoadedWhole, Unflushed
<1>3. CASE SaveWrite(t)
  <2>1. pc[t] = "write" /\ pc'[t] = "stamp_save" /\ UNCHANGED <<memory, cut>>
    BY <1>3, <1>types DEF SaveWrite, ConfigTypeOK
  <2>2. got[t] # None
    BY <2>1, <1>carried DEF CarriedInv
  <2>3. CASE long
    <3>1. file' = got[t] /\ \A u \in Threads : got'[u] = got[u] \/ got'[u] = None
      BY <1>3, <2>3, <1>types DEF SaveWrite, Put, Keep, ConfigTypeOK
    <3> QED BY <2>1, <3>1 DEF LoadedWhole
  <2>4. CASE ~long
    <3>1. file' = file /\ got' = got
      BY <1>3, <2>4 DEF SaveWrite
    <3> QED BY <2>1, <2>2, <3>1 DEF LoadedWhole, Unflushed
  <2> QED BY <2>3, <2>4
<1>4. CASE SaveClose(t)
  <2>1. /\ UNCHANGED <<memory, cut>> /\ pc[t] = "close" /\ mutex = t
        /\ \A u \in Threads : got'[u] = got[u] \/ got'[u] = None
    BY <1>4, <1>types DEF SaveClose, Keep, ConfigTypeOK, ConfigInv, HolderInv
  <2>2. CASE got[t] = None
    <3>1. file' = file /\ ~Unflushed(t)
      BY <1>4, <2>1, <2>2 DEF SaveClose, Unflushed
    <3>2. cut \/ file # torn
      BY <2>1, <3>1, AloneInside DEF LoadedWhole
    <3> QED BY <2>1, <3>1, <3>2 DEF LoadedWhole
  <2>3. CASE got[t] # None
    <3>1. file' = got[t]
      BY <1>4, <2>3 DEF SaveClose, Put
    <3> QED BY <2>1, <3>1 DEF LoadedWhole
  <2> QED BY <2>2, <2>3
<1> QED BY <1>1, <1>2, <1>3, <1>4 DEF SaveStep

LEMMA WholeNext == ConfigInv /\ LoadedWhole /\ [Next]_vars => LoadedWhole'
<1> SUFFICES ASSUME ConfigInv, LoadedWhole, [Next]_vars PROVE LoadedWhole'
  OBVIOUS
<1>types. ConfigTypeOK BY DEF ConfigInv
<1>1. ASSUME NEW t \in Savers \cup Reloaders, Reload(t) \/ Save(t) PROVE LoadedWhole'
  <2>1. /\ UNCHANGED <<file, memory, got, cut>> /\ pc[t] = "idle"
        /\ \A u \in Savers \ {t} : pc'[u] = pc[u]
    BY <1>1, <1>types DEF Reload, Save, Call, ConfigTypeOK
  <2> QED BY <2>1, NothingMoves DEF Unflushed
<1>2. CASE FirstLook \/ FirstStamp \/ Notice
  <2>1. /\ UNCHANGED <<file, memory, cut>> /\ \A u \in Savers : pc'[u] = pc[u] /\ got'[u] = got[u]
        /\ \A u \in Threads : got'[u] = got[u] \/ got'[u] \in Nat \cup {None}
    BY <1>2, <1>types DEF FirstLook, FirstStamp, Notice, Keep, ConfigTypeOK
  <2> QED BY <2>1, NothingMoves DEF Unflushed
<1>3. CASE Edit
  <2>1. file' # torn /\ UNCHANGED <<memory, got, cut>>
    BY <1>3, <1>types DEF Edit, Put, ConfigTypeOK
  <2> QED BY <2>1 DEF LoadedWhole
<1>4. CASE Crash
  <2>1. /\ cut' = (cut \/ \E t \in Savers : Unflushed(t)) /\ file' = file
        /\ memory' = IF file = absent THEN 0 ELSE file
        /\ \A t \in Threads : got'[t] = None
    BY <1>4 DEF Crash, Boot
  <2>2. cut' \/ file # torn
    BY <2>1 DEF LoadedWhole
  <2> QED BY <2>1, <2>2 DEF LoadedWhole
<1>5. CASE UNCHANGED vars
  BY <1>5 DEF vars, LoadedWhole, Unflushed
<1> QED BY <1>1, <1>2, <1>3, <1>4, <1>5, WholeReload, WholeSave, WatcherStuck
        DEF Next, WatcherStep

\* For any number of kills and restarts, no reload, no save and no start takes
\* over a file that to_file has truncated and not yet filled, unless a process
\* was killed in that window (Controller.cpp:251, 367, 385).
THEOREM WholeTheorem == Spec => []LoadedWhole
<1>1. Init => LoadedWhole
  BY DEF Init, Boot, LoadedWhole
<1> QED BY <1>1, WholeNext, ConfigInvariant, PTL DEF Spec

-----------------------------------------------------------------------------
(* The program's own writes.                                                  *)

\* While nobody edits a long file, its time is the recorded one except while a
\* saver, who holds config_mutex, is between its write and its stamp; and the
\* watcher's first look is over before anybody writes.
OwnWrites == edits = 0 /\ long /\ ~early =>
  /\ pc[Watcher] # "reload"
  /\ pc[Watcher] \in {"start", "look"} => \A t \in Savers \cup Reloaders : pc[t] = "idle"
  /\ pc[Watcher] = "look" /\ got[Watcher] # None => got[Watcher] = mtime
  /\ \A t \in Savers : pc[t] \in {"stamp_save", "close"} => got[t] = None
  /\ \/ file = absent \/ write_time = mtime
     \/ \E t \in Savers : pc[t] \in {"write", "stamp_save"}

LEMMA OwnNext == ConfigInv /\ OwnWrites /\ [Next]_vars => OwnWrites'
<1> SUFFICES ASSUME ConfigInv, OwnWrites, [Next]_vars, edits' = 0, long', ~early'
             PROVE  OwnWrites'
  BY DEF OwnWrites
<1>types. ConfigTypeOK BY DEF ConfigInv
<1>places. Places BY DEF ConfigInv
<1>holder. HolderInv BY DEF ConfigInv
<1>0. edits = 0 /\ long /\ ~early
  <2>1. CASE Edit
    BY <2>1, <1>types DEF Edit, ConfigTypeOK
  <2>2. ASSUME NEW t \in Threads, Reload(t) \/ Save(t) \/ ReloadStep(t) \/ SaveStep(t)
        PROVE  UNCHANGED <<edits, given>>
    BY <2>2 DEF ReloadStep, SaveStep, Reload, Save, Call, ReadConfig, Read, StampRead, Apply,
       SaveText, SaveOpen, SaveWrite, SaveStamp, SaveClose
  <2>3. ASSUME FirstLook \/ FirstStamp \/ Notice \/ Crash \/ UNCHANGED vars
        PROVE  UNCHANGED <<edits, given>>
    BY <2>3 DEF FirstLook, FirstStamp, Notice, Crash, vars, given
  <2>4. CASE UNCHANGED <<edits, given>>
    <3>1. edits' = edits /\ long' = long /\ early' = early
      BY <2>4 DEF given
    <3> QED BY <3>1, Zenon
  <2> QED BY <2>1, <2>2, <2>3, <2>4 DEF Next, WatcherStep
<1> USE DEF given
<1>1. ASSUME NEW t \in Savers \cup Reloaders, Reload(t) \/ Save(t) PROVE OwnWrites'
  BY <1>0, <1>1, <1>types, <1>places DEF Reload, Save, Call, OwnWrites, ConfigTypeOK, Places
<1>2. ASSUME NEW t \in Reloaders, ReloadStep(t) PROVE OwnWrites'
  <2>1. CASE ReadConfig(t)
    BY <1>0, <2>1, <1>types, <1>places DEF ReadConfig, Return, OwnWrites, ConfigTypeOK, Places
  <2>2. CASE Read(t)
    BY <1>0, <2>2, <1>types, <1>places DEF Read, Keep, OwnWrites, ConfigTypeOK, Places
  <2>3. CASE StampRead(t)
    BY <1>0, <2>3, <1>types, <1>places
    DEF StampRead, UpdateWriteTime, Exists, OwnWrites, ConfigTypeOK, Places
  <2>4. CASE Apply(t)
    BY <1>0, <2>4, <1>types, <1>places DEF Apply, Keep, Return, OwnWrites, ConfigTypeOK, Places
  <2> QED BY <1>2, <2>1, <2>2, <2>3, <2>4 DEF ReloadStep
<1>3. ASSUME NEW t \in Savers, SaveStep(t) PROVE OwnWrites'
  <2>1. CASE SaveText(t)
    BY <1>0, <2>1, <1>types, <1>places DEF SaveText, Keep, OwnWrites, ConfigTypeOK, Places
  <2>2. CASE SaveOpen(t)
    BY <1>0, <2>2, <1>types, <1>places DEF SaveOpen, Put, OwnWrites, ConfigTypeOK, Places
  <2>3. CASE SaveWrite(t)
    BY <1>0, <2>3, <1>types, <1>places DEF SaveWrite, Put, Keep, OwnWrites, ConfigTypeOK, Places
  <2>4. CASE SaveStamp(t)
    BY <1>0, <2>4, <1>types, <1>places
    DEF SaveStamp, UpdateWriteTime, Exists, OwnWrites, ConfigTypeOK, Places
  <2>5. CASE SaveClose(t)
    BY <1>0, <2>5, <1>types, <1>places DEF SaveClose, Keep, OwnWrites, ConfigTypeOK, Places
  <2> QED BY <1>3, <2>1, <2>2, <2>3, <2>4, <2>5 DEF SaveStep
<1>4. CASE WatcherStep
  <2>1. CASE FirstLook
    BY <1>0, <2>1, <1>types, <1>places DEF FirstLook, Keep, OwnWrites, ConfigTypeOK, Places
  <2>2. CASE FirstStamp
    BY <1>0, <2>2, <1>types, <1>places DEF FirstStamp, Keep, OwnWrites, ConfigTypeOK, Places
  <2>3. CASE Notice
    <3>1. \A t \in Savers : pc[t] \notin {"write", "stamp_save"}
      BY <2>3, <1>holder DEF Notice, HolderInv
    <3> QED BY <1>0, <2>3, <3>1 DEF Notice, config_file_modified, Exists, OwnWrites
  <2> QED BY <1>4, <2>1, <2>2, <2>3, WatcherStuck DEF WatcherStep
<1>5. CASE Edit
  BY <1>5, <1>0 DEF Edit
<1>6. CASE Crash
  BY <1>6, <1>0, <1>types, <1>places DEF Crash, Boot, OwnWrites, ConfigTypeOK, Places
<1>7. CASE UNCHANGED vars
  BY <1>7 DEF vars, OwnWrites
<1> QED BY <1>1, <1>2, <1>3, <1>4, <1>5, <1>6, <1>7 DEF Next

\* When the text is longer than the stream's buffer and no RPC comes before the
\* watcher's first look, the watcher never takes a save for an edit, however
\* saves, reloads and restarts overlap (Controller.cpp:385-387, 410).
THEOREM UnnoticedTheorem == Spec => []OwnSaveUnnoticed
<1>1. Init => OwnWrites
  BY DEF Init, Boot, OwnWrites
<1>2. OwnWrites => OwnSaveUnnoticed
  BY DEF OwnWrites, OwnSaveUnnoticed
<1> QED BY <1>1, <1>2, OwnNext, ConfigInvariant, PTL DEF Spec
=============================================================================
