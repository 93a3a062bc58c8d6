-------------------------- MODULE ControllerProofs --------------------------
(* Proofs about Controller, for every set of fans, callers and workers.       *)
(*                                                                            *)
(* IInv is inductive. Its parts need each other: that a task's thread and its *)
(* entry point at each other survives an erasure because the thread has ended *)
(* and no other thread is about to use the entry, which is what the unique    *)
(* lock gives (WriterInv, Exclusive), which in turn rests on what an enable   *)
(* or disable that loops over the Dell fans holds meanwhile (FrameOK).        *)
(*                                                                            *)
(* A lemma below covers one shape of step; its leaves show each part of IInv. *)
EXTENDS Controller, TLAPS

USE FansAssumption, ThreadsAssumption, BoundsAssumption
USE DEF Threads, frame, table, locks,
        LoopPC, TestPC, TailPC, TaskPC, EnablePC, DisablePC, SweepPC, AskPC,
        EmptyPC, JoinPC, HoldPC

\* A request on one fan.
LEMMA CallOnKeeps ==
  ASSUME IInv, NEW t \in Callers, NEW f \in Fans, NEW op,
         NEW l \in {"enable", "disable", "test", "status"}, Request(t, op),
         CallOn(t, f, l)
  PROVE  IInv'
<1> USE DEF Request, CallOn, Goto
<1>types. ThreadsOK /\ TableOK BY DEF IInv, TypeOK
<1>here. FrameOK(t) /\ EntryKept(t) BY DEF IInv
<1>frames. \A s \in Threads : FrameOK(s) /\ EntryKept(s) BY DEF IInv
<1>locked. WriterInv /\ ReadersInv /\ Exclusive BY DEF IInv
<1>linked. TaskOfThread /\ ThreadOfTask /\ TestingTruthful BY DEF IInv
<1>1. ThreadsOK'
  BY <1>types, <1>here DEF ThreadsOK, FrameOK, CallPC, WorkPC
<1>2. TableOK'
  BY <1>types DEF ThreadsOK, TableOK
<1>3. WriterInv'
  BY <1>types, <1>here, <1>locked DEF ThreadsOK, TableOK, WriterInv, Holds, FrameOK
<1>4. ReadersInv'
  BY <1>types, <1>here, <1>locked DEF ThreadsOK, TableOK, ReadersInv, FrameOK
<1>5. Exclusive'
  BY <1>types, <1>locked DEF TableOK, Exclusive, ReadersInv
<1>6. ASSUME NEW s \in Threads PROVE FrameOK(s)'
  BY <1>types, <1>frames DEF ThreadsOK, FrameOK
<1>7. ASSUME NEW s \in Threads PROVE EntryKept(s)'
  BY <1>types, <1>here, <1>frames, <1>locked
  DEF ThreadsOK, TableOK, EntryKept, WriterInv, ReadersInv, Exclusive, Holds, FrameOK
<1>8. (TaskOfThread /\ ThreadOfTask /\ TestingTruthful)'
  BY <1>types, <1>here, <1>linked
  DEF ThreadsOK, TableOK, TestingTruthful, TaskOfThread, ThreadOfTask, EntryKept,
      FrameOK
<1> QED BY <1>1, <1>2, <1>3, <1>4, <1>5, <1>6, <1>7, <1>8 DEF IInv, TypeOK

\* A request on all fans.
LEMMA CallSweepKeeps ==
  ASSUME IInv, NEW t \in Callers, NEW fs \in SUBSET Fans, NEW op,
         NEW l \in {"enable_all", "disable_all", "recover", "subscribe"},
         Request(t, op), CallSweep(t, fs, l)
  PROVE  IInv'
<1> USE DEF Request, CallSweep, Goto
<1>types. ThreadsOK /\ TableOK BY DEF IInv, TypeOK
<1>here. FrameOK(t) /\ EntryKept(t) BY DEF IInv
<1>frames. \A s \in Threads : FrameOK(s) /\ EntryKept(s) BY DEF IInv
<1>locked. WriterInv /\ ReadersInv /\ Exclusive BY DEF IInv
<1>linked. TaskOfThread /\ ThreadOfTask /\ TestingTruthful BY DEF IInv
<1>1. ThreadsOK'
  BY <1>types, <1>here DEF ThreadsOK, FrameOK, CallPC, WorkPC
<1>2. TableOK'
  BY <1>types DEF ThreadsOK, TableOK
<1>3. WriterInv'
  BY <1>types, <1>here, <1>locked DEF ThreadsOK, TableOK, WriterInv, Holds, FrameOK
<1>4. ReadersInv'
  BY <1>types, <1>here, <1>locked DEF ThreadsOK, TableOK, ReadersInv, FrameOK
<1>5. Exclusive'
  BY <1>types, <1>locked DEF TableOK, Exclusive, ReadersInv
<1>6. ASSUME NEW s \in Threads PROVE FrameOK(s)'
  BY <1>types, <1>frames DEF ThreadsOK, FrameOK
<1>7. ASSUME NEW s \in Threads PROVE EntryKept(s)'
  BY <1>types, <1>here, <1>frames, <1>locked
  DEF ThreadsOK, TableOK, EntryKept, WriterInv, ReadersInv, Exclusive, Holds, FrameOK
<1>8. (TaskOfThread /\ ThreadOfTask /\ TestingTruthful)'
  BY <1>types, <1>here, <1>linked
  DEF ThreadsOK, TableOK, TestingTruthful, TaskOfThread, ThreadOfTask, EntryKept,
      FrameOK
<1> QED BY <1>1, <1>2, <1>3, <1>4, <1>5, <1>6, <1>7, <1>8 DEF IInv, TypeOK

\* merge() begins to replace a fan that is tested.
LEMMA ReloadKeeps ==
  ASSUME IInv, NEW t \in Callers, NEW f \in Fans, Reload(t, f)
  PROVE  IInv'
<1> USE DEF Reload, Request, Goto
<1>types. ThreadsOK /\ TableOK BY DEF IInv, TypeOK
<1>here. FrameOK(t) /\ EntryKept(t) BY DEF IInv
<1>frames. \A s \in Threads : FrameOK(s) /\ EntryKept(s) BY DEF IInv
<1>locked. WriterInv /\ ReadersInv /\ Exclusive BY DEF IInv
<1>linked. TaskOfThread /\ ThreadOfTask /\ TestingTruthful BY DEF IInv
<1>1. ThreadsOK'
  BY <1>types, <1>here DEF ThreadsOK, FrameOK, CallPC, WorkPC
<1>2. TableOK'
  BY <1>types DEF ThreadsOK, TableOK
<1>3. WriterInv'
  BY <1>types, <1>here, <1>locked DEF ThreadsOK, TableOK, WriterInv, Holds, FrameOK
<1>4. ReadersInv'
  BY <1>types, <1>here, <1>locked DEF ThreadsOK, TableOK, ReadersInv, FrameOK
<1>5. Exclusive'
  BY <1>types, <1>locked DEF TableOK, Exclusive, ReadersInv
<1>6. ASSUME NEW s \in Threads PROVE FrameOK(s)'
  BY <1>types, <1>frames DEF ThreadsOK, FrameOK
<1>7. ASSUME NEW s \in Threads PROVE EntryKept(s)'
  BY <1>types, <1>here, <1>frames, <1>locked
  DEF ThreadsOK, TableOK, EntryKept, WriterInv, ReadersInv, Exclusive, Holds, FrameOK
<1>8. (TaskOfThread /\ ThreadOfTask /\ TestingTruthful)'
  BY <1>types, <1>here, <1>linked
  DEF ThreadsOK, TableOK, TestingTruthful, TaskOfThread, ThreadOfTask, EntryKept,
      FrameOK
<1> QED BY <1>1, <1>2, <1>3, <1>4, <1>5, <1>6, <1>7, <1>8 DEF IInv, TypeOK

\* A call returns without having touched the table.
LEMMA ReturnKeeps ==
  ASSUME IInv, NEW t \in Threads,
         pc[t] \in {"enable", "disable", "disable_notify", "status", "recover_fan",
                   "test", "test_wait"},
         Return(t), mode' \in [Fans -> {"auto", "manual"}],
         UNCHANGED <<table, locks, unsaved, calls>>
  PROVE  IInv'
<1> USE DEF Return, Goto
<1>types. ThreadsOK /\ TableOK BY DEF IInv, TypeOK
<1>here. FrameOK(t) /\ EntryKept(t) BY DEF IInv
<1>frames. \A s \in Threads : FrameOK(s) /\ EntryKept(s) BY DEF IInv
<1>locked. WriterInv /\ ReadersInv /\ Exclusive BY DEF IInv
<1>linked. TaskOfThread /\ ThreadOfTask /\ TestingTruthful BY DEF IInv
<1>fan. fan[t] \in Fans
  BY <1>types, <1>here DEF ThreadsOK, FrameOK
<1>1. ThreadsOK'
  BY <1>types, <1>here, <1>fan DEF ThreadsOK, FrameOK, CallPC, WorkPC
<1>2. TableOK'
  BY <1>types, <1>fan DEF ThreadsOK, TableOK
<1>3. WriterInv'
  BY <1>types, <1>here, <1>locked, <1>fan DEF ThreadsOK, TableOK, WriterInv, Holds, FrameOK
<1>4. ReadersInv'
  BY <1>types, <1>here, <1>locked, <1>fan DEF ThreadsOK, TableOK, ReadersInv, FrameOK
<1>5. Exclusive'
  BY <1>types, <1>locked, <1>fan DEF TableOK, Exclusive, ReadersInv
<1>6. ASSUME NEW s \in Threads PROVE FrameOK(s)'
  BY <1>types, <1>frames, <1>fan DEF ThreadsOK, FrameOK
<1>7. ASSUME NEW s \in Threads PROVE EntryKept(s)'
  BY <1>types, <1>here, <1>frames, <1>locked, <1>fan
  DEF ThreadsOK, TableOK, EntryKept, WriterInv, ReadersInv, Exclusive, Holds, FrameOK
<1>8. (TaskOfThread /\ ThreadOfTask /\ TestingTruthful)'
  BY <1>types, <1>here, <1>linked, <1>fan
  DEF ThreadsOK, TableOK, TestingTruthful, TaskOfThread, ThreadOfTask, EntryKept,
      FrameOK
<1> QED BY <1>1, <1>2, <1>3, <1>4, <1>5, <1>6, <1>7, <1>8 DEF IInv, TypeOK

\* A loop goes to its next fan.
LEMMA VisitKeeps ==
  ASSUME IInv, NEW t \in Threads, NEW l,
         <<pc[t], l>> \in {<<"enable_dell", "enable">>, <<"enable_all", "enable">>, <<"disable_dell", "disable">>, <<"disable_all", "disable">>, <<"recover", "recover_fan">>,
                          <<"merge_test", "test">>},
         VisitNext(t, l), UNCHANGED <<table, locks, mode, unsaved, calls>>
  PROVE  IInv'
<1> USE DEF Take, Goto
<1>types. ThreadsOK /\ TableOK BY DEF IInv, TypeOK
<1>here. FrameOK(t) /\ EntryKept(t) BY DEF IInv
<1>frames. \A s \in Threads : FrameOK(s) /\ EntryKept(s) BY DEF IInv
<1>locked. WriterInv /\ ReadersInv /\ Exclusive BY DEF IInv
<1>linked. TaskOfThread /\ ThreadOfTask /\ TestingTruthful BY DEF IInv
<1>next. PICK f \in Fans : /\ Take(t, f)
                        /\ Goto(t, l)
                        /\ fan' = [fan EXCEPT ![t] = f]
                        /\ UNCHANGED <<ret, outer>>
  BY DEF VisitNext
<1>1. ThreadsOK'
  BY <1>types, <1>here, <1>next DEF ThreadsOK, FrameOK, CallPC, WorkPC
<1>2. TableOK'
  BY <1>types, <1>next DEF ThreadsOK, TableOK
<1>3. WriterInv'
  BY <1>types, <1>here, <1>locked, <1>next DEF ThreadsOK, TableOK, WriterInv, Holds, FrameOK
<1>4. ReadersInv'
  BY <1>types, <1>here, <1>locked, <1>next DEF ThreadsOK, TableOK, ReadersInv, FrameOK
<1>5. Exclusive'
  BY <1>types, <1>locked, <1>next DEF TableOK, Exclusive, ReadersInv
<1>6. ASSUME NEW s \in Threads PROVE FrameOK(s)'
  BY <1>types, <1>frames, <1>next DEF ThreadsOK, FrameOK
<1>7. ASSUME NEW s \in Threads PROVE EntryKept(s)'
  BY <1>types, <1>here, <1>frames, <1>locked, <1>next
  DEF ThreadsOK, TableOK, EntryKept, WriterInv, ReadersInv, Exclusive, Holds, FrameOK
<1>8. (TaskOfThread /\ ThreadOfTask /\ TestingTruthful)'
  BY <1>types, <1>here, <1>linked, <1>next
  DEF ThreadsOK, TableOK, TestingTruthful, TaskOfThread, ThreadOfTask, EntryKept,
      FrameOK
<1> QED BY <1>1, <1>2, <1>3, <1>4, <1>5, <1>6, <1>7, <1>8 DEF IInv, TypeOK

\* A loop passes a fan without leaving its label.
LEMMA SkipKeeps ==
  ASSUME IInv, NEW t \in Threads, sweep' \in [Threads -> SUBSET Fans],
         \A s \in Threads : sweep'[s] \subseteq sweep[s],
         UNCHANGED <<pc, fan, ret, outer>>,
         UNCHANGED <<table, locks, mode, unsaved, calls>>
  PROVE  IInv'
<1>types. ThreadsOK /\ TableOK BY DEF IInv, TypeOK
<1>here. FrameOK(t) /\ EntryKept(t) BY DEF IInv
<1>frames. \A s \in Threads : FrameOK(s) /\ EntryKept(s) BY DEF IInv
<1>locked. WriterInv /\ ReadersInv /\ Exclusive BY DEF IInv
<1>linked. TaskOfThread /\ ThreadOfTask /\ TestingTruthful BY DEF IInv
<1>1. ThreadsOK'
  BY <1>types, <1>here DEF ThreadsOK, FrameOK, CallPC, WorkPC
<1>2. TableOK'
  BY <1>types DEF ThreadsOK, TableOK
<1>3. WriterInv'
  BY <1>types, <1>here, <1>locked DEF ThreadsOK, TableOK, WriterInv, Holds, FrameOK
<1>4. ReadersInv'
  BY <1>types, <1>here, <1>locked DEF ThreadsOK, TableOK, ReadersInv, FrameOK
<1>5. Exclusive'
  BY <1>types, <1>locked DEF TableOK, Exclusive, ReadersInv
<1>6. ASSUME NEW s \in Threads PROVE FrameOK(s)'
  BY <1>types, <1>frames DEF ThreadsOK, FrameOK
<1>7. ASSUME NEW s \in Threads PROVE EntryKept(s)'
  BY <1>types, <1>here, <1>frames, <1>locked
  DEF ThreadsOK, TableOK, EntryKept, WriterInv, ReadersInv, Exclusive, Holds, FrameOK
<1>8. (TaskOfThread /\ ThreadOfTask /\ TestingTruthful)'
  BY <1>types, <1>here, <1>linked
  DEF ThreadsOK, TableOK, TestingTruthful, TaskOfThread, ThreadOfTask, EntryKept,
      FrameOK
<1> QED BY <1>1, <1>2, <1>3, <1>4, <1>5, <1>6, <1>7, <1>8 DEF IInv, TypeOK

\* A loop over all fans ends.
LEMMA EndSweepKeeps ==
  ASSUME IInv, NEW t \in Threads,
         pc[t] \in {"enable_all", "disable_all", "recover", "merge_test"},
         EndSweep(t), UNCHANGED <<table, locks, mode, unsaved, calls>>
  PROVE  IInv'
<1> USE DEF EndSweep, Goto
<1>types. ThreadsOK /\ TableOK BY DEF IInv, TypeOK
<1>here. FrameOK(t) /\ EntryKept(t) BY DEF IInv
<1>frames. \A s \in Threads : FrameOK(s) /\ EntryKept(s) BY DEF IInv
<1>locked. WriterInv /\ ReadersInv /\ Exclusive BY DEF IInv
<1>linked. TaskOfThread /\ ThreadOfTask /\ TestingTruthful BY DEF IInv
<1>1. ThreadsOK'
  BY <1>types, <1>here DEF ThreadsOK, FrameOK, CallPC, WorkPC
<1>2. TableOK'
  BY <1>types DEF ThreadsOK, TableOK
<1>3. WriterInv'
  BY <1>types, <1>here, <1>locked DEF ThreadsOK, TableOK, WriterInv, Holds, FrameOK
<1>4. ReadersInv'
  BY <1>types, <1>here, <1>locked DEF ThreadsOK, TableOK, ReadersInv, FrameOK
<1>5. Exclusive'
  BY <1>types, <1>locked DEF TableOK, Exclusive, ReadersInv
<1>6. ASSUME NEW s \in Threads PROVE FrameOK(s)'
  BY <1>types, <1>frames DEF ThreadsOK, FrameOK
<1>7. ASSUME NEW s \in Threads PROVE EntryKept(s)'
  BY <1>types, <1>here, <1>frames, <1>locked
  DEF ThreadsOK, TableOK, EntryKept, WriterInv, ReadersInv, Exclusive, Holds, FrameOK
<1>8. (TaskOfThread /\ ThreadOfTask /\ TestingTruthful)'
  BY <1>types, <1>here, <1>linked
  DEF ThreadsOK, TableOK, TestingTruthful, TaskOfThread, ThreadOfTask, EntryKept,
      FrameOK
<1> QED BY <1>1, <1>2, <1>3, <1>4, <1>5, <1>6, <1>7, <1>8 DEF IInv, TypeOK

\* A loop over the other Dell fans ends.
LEMMA ResumeKeeps ==
  ASSUME IInv, NEW t \in Threads, NEW l,
         <<pc[t], l>> \in {<<"enable_dell", "enable_spawn">>, <<"disable_dell", "disable_notify">>},
         Resume(t, l), UNCHANGED <<table, locks, mode, unsaved, calls>>
  PROVE  IInv'
<1> USE DEF Resume, Goto
<1>types. ThreadsOK /\ TableOK BY DEF IInv, TypeOK
<1>here. FrameOK(t) /\ EntryKept(t) BY DEF IInv
<1>frames. \A s \in Threads : FrameOK(s) /\ EntryKept(s) BY DEF IInv
<1>locked. WriterInv /\ ReadersInv /\ Exclusive BY DEF IInv
<1>linked. TaskOfThread /\ ThreadOfTask /\ TestingTruthful BY DEF IInv
<1>1. ThreadsOK'
  BY <1>types, <1>here DEF ThreadsOK, FrameOK, CallPC, WorkPC
<1>2. TableOK'
  BY <1>types DEF ThreadsOK, TableOK
<1>3. WriterInv'
  BY <1>types, <1>here, <1>locked DEF ThreadsOK, TableOK, WriterInv, Holds, FrameOK
<1>4. ReadersInv'
  BY <1>types, <1>here, <1>locked DEF ThreadsOK, TableOK, ReadersInv, FrameOK
<1>5. Exclusive'
  BY <1>types, <1>locked DEF TableOK, Exclusive, ReadersInv
<1>6. ASSUME NEW s \in Threads PROVE FrameOK(s)'
  BY <1>types, <1>frames DEF ThreadsOK, FrameOK
<1>7. ASSUME NEW s \in Threads PROVE EntryKept(s)'
  BY <1>types, <1>here, <1>frames, <1>locked
  DEF ThreadsOK, TableOK, EntryKept, WriterInv, ReadersInv, Exclusive, Holds, FrameOK
<1>8. (TaskOfThread /\ ThreadOfTask /\ TestingTruthful)'
  BY <1>types, <1>here, <1>linked
  DEF ThreadsOK, TableOK, TestingTruthful, TaskOfThread, ThreadOfTask, EntryKept,
      FrameOK
<1> QED BY <1>1, <1>2, <1>3, <1>4, <1>5, <1>6, <1>7, <1>8 DEF IInv, TypeOK

\* A thread goes on without touching anything.
LEMMA HopKeeps ==
  ASSUME IInv, NEW t \in Threads, NEW l,
         <<pc[t], l>> \in {<<"disable_notify", "status">>, <<"restart", "enable">>, <<"subscribed", "idle">>},
         Goto(t, l), UNCHANGED frame,
         UNCHANGED <<table, locks, mode, unsaved, calls>>
  PROVE  IInv'
<1> USE DEF Goto
<1>types. ThreadsOK /\ TableOK BY DEF IInv, TypeOK
<1>here. FrameOK(t) /\ EntryKept(t) BY DEF IInv
<1>frames. \A s \in Threads : FrameOK(s) /\ EntryKept(s) BY DEF IInv
<1>locked. WriterInv /\ ReadersInv /\ Exclusive BY DEF IInv
<1>linked. TaskOfThread /\ ThreadOfTask /\ TestingTruthful BY DEF IInv
<1>1. ThreadsOK'
  BY <1>types, <1>here DEF ThreadsOK, FrameOK, CallPC, WorkPC
<1>2. TableOK'
  BY <1>types DEF ThreadsOK, TableOK
<1>3. WriterInv'
  BY <1>types, <1>here, <1>locked DEF ThreadsOK, TableOK, WriterInv, Holds, FrameOK
<1>4. ReadersInv'
  BY <1>types, <1>here, <1>locked DEF ThreadsOK, TableOK, ReadersInv, FrameOK
<1>5. Exclusive'
  BY <1>types, <1>locked DEF TableOK, Exclusive, ReadersInv
<1>6. ASSUME NEW s \in Threads PROVE FrameOK(s)'
  BY <1>types, <1>frames DEF ThreadsOK, FrameOK
<1>7. ASSUME NEW s \in Threads PROVE EntryKept(s)'
  BY <1>types, <1>here, <1>frames, <1>locked
  DEF ThreadsOK, TableOK, EntryKept, WriterInv, ReadersInv, Exclusive, Holds, FrameOK
<1>8. (TaskOfThread /\ ThreadOfTask /\ TestingTruthful)'
  BY <1>types, <1>here, <1>linked
  DEF ThreadsOK, TableOK, TestingTruthful, TaskOfThread, ThreadOfTask, EntryKept,
      FrameOK
<1> QED BY <1>1, <1>2, <1>3, <1>4, <1>5, <1>6, <1>7, <1>8 DEF IInv, TypeOK

\* A task's thread goes on, inside its test or outside it.
LEMMA TaskMoveKeeps ==
  ASSUME IInv, NEW t \in Workers, NEW l \in TaskPC, pc[t] \in TaskPC,
         l \in TestPC \cup {"test_reset"} <=> pc[t] \in TestPC \cup {"test_reset"},
         Goto(t, l), mode' \in [Fans -> {"auto", "manual"}],
         unsaved' \subseteq Fans, UNCHANGED <<frame, table, locks, calls>>
  PROVE  IInv'
<1> USE DEF Goto
<1>types. ThreadsOK /\ TableOK BY DEF IInv, TypeOK
<1>here. FrameOK(t) /\ EntryKept(t) BY DEF IInv
<1>frames. \A s \in Threads : FrameOK(s) /\ EntryKept(s) BY DEF IInv
<1>locked. WriterInv /\ ReadersInv /\ Exclusive BY DEF IInv
<1>linked. TaskOfThread /\ ThreadOfTask /\ TestingTruthful BY DEF IInv
<1>fan. fan[t] \in Fans
  BY <1>types, <1>here DEF ThreadsOK, FrameOK
<1>1. ThreadsOK'
  BY <1>types, <1>here, <1>fan DEF ThreadsOK, FrameOK, CallPC, WorkPC
<1>2. TableOK'
  BY <1>types, <1>fan DEF ThreadsOK, TableOK
<1>3. WriterInv'
  BY <1>types, <1>here, <1>locked, <1>fan DEF ThreadsOK, TableOK, WriterInv, Holds, FrameOK
<1>4. ReadersInv'
  BY <1>types, <1>here, <1>locked, <1>fan DEF ThreadsOK, TableOK, ReadersInv, FrameOK
<1>5. Exclusive'
  BY <1>types, <1>locked, <1>fan DEF TableOK, Exclusive, ReadersInv
<1>6. ASSUME NEW s \in Threads PROVE FrameOK(s)'
  BY <1>types, <1>frames, <1>fan DEF ThreadsOK, FrameOK
<1>7. ASSUME NEW s \in Threads PROVE EntryKept(s)'
  BY <1>types, <1>here, <1>frames, <1>locked, <1>fan
  DEF ThreadsOK, TableOK, EntryKept, WriterInv, ReadersInv, Exclusive, Holds, FrameOK
<1>8. (TaskOfThread /\ ThreadOfTask /\ TestingTruthful)'
  BY <1>types, <1>here, <1>linked, <1>fan
  DEF ThreadsOK, TableOK, TestingTruthful, TaskOfThread, ThreadOfTask, EntryKept,
      FrameOK
<1> QED BY <1>1, <1>2, <1>3, <1>4, <1>5, <1>6, <1>7, <1>8 DEF IInv, TypeOK

\* A thread locks an entry and starts to join its task.
LEMMA JoinKeeps ==
  ASSUME IInv, NEW t \in Threads, NEW l,
         <<pc[t], l>> \in {<<"disable", "disable_join">>, <<"test", "test_joinon">>,
                          <<"test", "test_erase">>, <<"restart", "restart_join">>},
         l = "test_joinon" => ret[t] # "merge_test",
         CanWrite(fan[t]), LockAndJoin(t, l),
         UNCHANGED <<frame, mode, unsaved, calls>>
  PROVE  IInv'
<1> USE DEF CanWrite, LockAndJoin, Acquire, Goto
<1>types. ThreadsOK /\ TableOK BY DEF IInv, TypeOK
<1>here. FrameOK(t) /\ EntryKept(t) BY DEF IInv
<1>frames. \A s \in Threads : FrameOK(s) /\ EntryKept(s) BY DEF IInv
<1>locked. WriterInv /\ ReadersInv /\ Exclusive BY DEF IInv
<1>linked. TaskOfThread /\ ThreadOfTask /\ TestingTruthful BY DEF IInv
<1>fan. fan[t] \in Fans
  BY <1>types, <1>here DEF ThreadsOK, FrameOK
<1>run. run' \in [Workers -> BOOLEAN]
  BY <1>types DEF TableOK
<1>1. ThreadsOK'
  BY <1>types, <1>here, <1>fan DEF ThreadsOK, FrameOK, CallPC, WorkPC
<1>2. TableOK'
  BY <1>types, <1>run, <1>fan DEF ThreadsOK, TableOK
<1>3. WriterInv'
  BY <1>types, <1>here, <1>locked, <1>fan DEF ThreadsOK, TableOK, WriterInv, Holds, FrameOK
<1>4. ReadersInv'
  BY <1>types, <1>here, <1>locked, <1>fan DEF ThreadsOK, TableOK, ReadersInv, FrameOK
<1>5. Exclusive'
  BY <1>types, <1>locked, <1>fan DEF TableOK, Exclusive, ReadersInv
<1>6. ASSUME NEW s \in Threads PROVE FrameOK(s)'
  BY <1>types, <1>frames, <1>fan DEF ThreadsOK, FrameOK
<1>7. ASSUME NEW s \in Threads PROVE EntryKept(s)'
  BY <1>types, <1>here, <1>frames, <1>locked, <1>fan
  DEF ThreadsOK, TableOK, EntryKept, WriterInv, ReadersInv, Exclusive, Holds, FrameOK
<1>8. (TaskOfThread /\ ThreadOfTask /\ TestingTruthful)'
  BY <1>types, <1>here, <1>linked, <1>fan
  DEF ThreadsOK, TableOK, TestingTruthful, TaskOfThread, ThreadOfTask, EntryKept,
      FrameOK
<1> QED BY <1>1, <1>2, <1>3, <1>4, <1>5, <1>6, <1>7, <1>8 DEF IInv, TypeOK

\* A joined task is erased and the entry unlocked.
LEMMA EraseKeeps ==
  ASSUME IInv, NEW t \in Threads, NEW l,
         <<pc[t], l>> \in {<<"disable_join", "disable_tail">>, <<"restart_join", "enable">>},
         Erase(t, l), Release(t),
         UNCHANGED <<sweep, ret, outer, mode, unsaved, calls>>
  PROVE  IInv'
<1> USE DEF Erase, Release
<1>types. ThreadsOK /\ TableOK BY DEF IInv, TypeOK
<1>here. FrameOK(t) /\ EntryKept(t) BY DEF IInv
<1>frames. \A s \in Threads : FrameOK(s) /\ EntryKept(s) BY DEF IInv
<1>locked. WriterInv /\ ReadersInv /\ Exclusive BY DEF IInv
<1>linked. TaskOfThread /\ ThreadOfTask /\ TestingTruthful BY DEF IInv
<1>fan. fan[t] \in Fans
  BY <1>types, <1>here DEF ThreadsOK, FrameOK
<1> DEFINE w == task[fan[t]]
<1>task. w \in Workers /\ pc[w] = "exited"
  BY <1>types, <1>here, <1>fan DEF TableOK, EntryKept, JoinPC
<1>ended. fan[w] = fan[t] /\ w # t
  BY <1>linked, <1>fan, <1>task DEF ThreadOfTask
<1>1. ThreadsOK'
  BY <1>types, <1>here, <1>task, <1>ended, <1>fan DEF ThreadsOK, FrameOK, CallPC, WorkPC
<1>2. TableOK'
  BY <1>types, <1>task, <1>ended, <1>fan DEF ThreadsOK, TableOK
<1>3. WriterInv'
  BY <1>types, <1>here, <1>locked, <1>frames, <1>task, <1>ended, <1>fan
  DEF ThreadsOK, TableOK, WriterInv, Holds, FrameOK
<1>4. ReadersInv'
  BY <1>types, <1>here, <1>locked, <1>frames, <1>task, <1>ended, <1>fan
  DEF ThreadsOK, TableOK, ReadersInv, FrameOK
<1>5. Exclusive'
  BY <1>types, <1>locked, <1>task, <1>ended, <1>fan DEF TableOK, Exclusive, ReadersInv
<1>6. ASSUME NEW s \in Threads PROVE FrameOK(s)'
  BY <1>types, <1>frames, <1>task, <1>ended, <1>fan DEF ThreadsOK, FrameOK
<1>holder. pc[t] \in HoldPC /\ t # None
  OBVIOUS
<1>alone. writer[fan[t]] = t /\ readers[fan[t]] = {}
  <2>1. Holds(t, fan[t])
    BY <1>holder DEF Holds
  <2>2. writer[fan[t]] = t
    BY <2>1, <1>locked, <1>fan DEF WriterInv
  <2> QED BY <2>2, <1>locked, <1>fan, <1>holder DEF Exclusive
<1>7. ASSUME NEW s \in Threads PROVE EntryKept(s)'
  <2>1. CASE s = t
    BY <2>1, <1>types, <1>task, <1>ended, <1>fan, <1>here
    DEF ThreadsOK, TableOK, EntryKept, FrameOK
  <2>2. CASE s = w
    BY <2>2, <1>types, <1>task, <1>ended, <1>fan, <1>here, <1>frames
    DEF ThreadsOK, TableOK, EntryKept, FrameOK
  <2>3. CASE s # t /\ s # w
    <3>1. FrameOK(s) /\ EntryKept(s)
      BY <1>frames
    <3>2. ~Holds(s, fan[t])
      BY <1>locked, <1>fan, <1>alone, <2>3 DEF WriterInv
    <3>3. ~(fan[s] = fan[t] /\ pc[s] = "test_join")
      BY <1>types, <1>locked, <1>fan, <1>alone
      DEF ReadersInv, ThreadsOK, WorkPC
    <3> QED BY <2>3, <3>1, <3>2, <3>3, <1>types, <1>task, <1>ended, <1>fan
            DEF ThreadsOK, TableOK, EntryKept, Holds,
                FrameOK
  <2> QED BY <2>1, <2>2, <2>3
<1>8. TaskOfThread'
  BY <1>types, <1>here, <1>linked, <1>task, <1>ended, <1>fan
  DEF ThreadsOK, TableOK, TaskOfThread, ThreadOfTask, EntryKept, FrameOK
<1>9. ThreadOfTask'
  BY <1>types, <1>here, <1>linked, <1>task, <1>ended, <1>fan
  DEF ThreadsOK, TableOK, TaskOfThread, ThreadOfTask, EntryKept, FrameOK
<1>10. TestingTruthful'
  BY <1>types, <1>here, <1>linked, <1>task, <1>ended, <1>fan
  DEF ThreadsOK, TableOK, TestingTruthful, TaskOfThread, ThreadOfTask, EntryKept,
      FrameOK
<1> QED BY <1>1, <1>2, <1>3, <1>4, <1>5, <1>6, <1>7, <1>8, <1>9, <1>10 DEF IInv, TypeOK

LEMMA TestEraseKeeps ==
  ASSUME IInv, NEW t \in Callers, TestErase(t)
  PROVE  IInv'
<1> USE DEF TestErase, Erase
<1>types. ThreadsOK /\ TableOK BY DEF IInv, TypeOK
<1>here. FrameOK(t) /\ EntryKept(t) BY DEF IInv
<1>frames. \A s \in Threads : FrameOK(s) /\ EntryKept(s) BY DEF IInv
<1>locked. WriterInv /\ ReadersInv /\ Exclusive BY DEF IInv
<1>linked. TaskOfThread /\ ThreadOfTask /\ TestingTruthful BY DEF IInv
<1>fan. fan[t] \in Fans
  BY <1>types, <1>here DEF ThreadsOK, FrameOK
<1> DEFINE w == task[fan[t]]
<1>task. w \in Workers /\ pc[w] = "exited"
  BY <1>types, <1>here, <1>fan DEF TableOK, EntryKept, JoinPC
<1>ended. fan[w] = fan[t] /\ w # t
  BY <1>linked, <1>fan, <1>task DEF ThreadOfTask
<1>1. ThreadsOK'
  BY <1>types, <1>here, <1>task, <1>ended, <1>fan DEF ThreadsOK, FrameOK, CallPC, WorkPC
<1>2. TableOK'
  BY <1>types, <1>task, <1>ended, <1>fan DEF ThreadsOK, TableOK
<1>3. WriterInv'
  BY <1>types, <1>here, <1>locked, <1>frames, <1>task, <1>ended, <1>fan
  DEF ThreadsOK, TableOK, WriterInv, Holds, FrameOK
<1>4. ReadersInv'
  BY <1>types, <1>here, <1>locked, <1>frames, <1>task, <1>ended, <1>fan
  DEF ThreadsOK, TableOK, ReadersInv, FrameOK
<1>5. Exclusive'
  BY <1>types, <1>locked, <1>task, <1>ended, <1>fan DEF TableOK, Exclusive, ReadersInv
<1>6. ASSUME NEW s \in Threads PROVE FrameOK(s)'
  BY <1>types, <1>frames, <1>task, <1>ended, <1>fan DEF ThreadsOK, FrameOK
<1>holder. pc[t] \in HoldPC /\ t # None
  OBVIOUS
<1>alone. writer[fan[t]] = t /\ readers[fan[t]] = {}
  <2>1. Holds(t, fan[t])
    BY <1>holder DEF Holds
  <2>2. writer[fan[t]] = t
    BY <2>1, <1>locked, <1>fan DEF WriterInv
  <2> QED BY <2>2, <1>locked, <1>fan, <1>holder DEF Exclusive
<1>7. ASSUME NEW s \in Threads PROVE EntryKept(s)'
  <2>1. CASE s = t
    BY <2>1, <1>types, <1>task, <1>ended, <1>fan, <1>here
    DEF ThreadsOK, TableOK, EntryKept, FrameOK
  <2>2. CASE s = w
    BY <2>2, <1>types, <1>task, <1>ended, <1>fan, <1>here, <1>frames
    DEF ThreadsOK, TableOK, EntryKept, FrameOK
  <2>3. CASE s # t /\ s # w
    <3>1. FrameOK(s) /\ EntryKept(s)
      BY <1>frames
    <3>2. ~Holds(s, fan[t])
      BY <1>locked, <1>fan, <1>alone, <2>3 DEF WriterInv
    <3>3. ~(fan[s] = fan[t] /\ pc[s] = "test_join")
      BY <1>types, <1>locked, <1>fan, <1>alone
      DEF ReadersInv, ThreadsOK, WorkPC
    <3> QED BY <2>3, <3>1, <3>2, <3>3, <1>types, <1>task, <1>ended, <1>fan
            DEF ThreadsOK, TableOK, EntryKept, Holds,
                FrameOK
  <2> QED BY <2>1, <2>2, <2>3
<1>8. TaskOfThread'
  BY <1>types, <1>here, <1>linked, <1>task, <1>ended, <1>fan
  DEF ThreadsOK, TableOK, TaskOfThread, ThreadOfTask, EntryKept, FrameOK
<1>9. ThreadOfTask'
  BY <1>types, <1>here, <1>linked, <1>task, <1>ended, <1>fan
  DEF ThreadsOK, TableOK, TaskOfThread, ThreadOfTask, EntryKept, FrameOK
<1>10. TestingTruthful'
  BY <1>types, <1>here, <1>linked, <1>task, <1>ended, <1>fan
  DEF ThreadsOK, TableOK, TestingTruthful, TaskOfThread, ThreadOfTask, EntryKept,
      FrameOK
<1> QED BY <1>1, <1>2, <1>3, <1>4, <1>5, <1>6, <1>7, <1>8, <1>9, <1>10 DEF IInv, TypeOK

LEMMA EnableTakeKeeps ==
  ASSUME IInv, NEW t \in Threads, EnableTake(t)
  PROVE  IInv'
<1> USE DEF EnableTake, CanWrite, Goto, EnableControl, SetMode, Acquire, SweepDell
<1>types. ThreadsOK /\ TableOK BY DEF IInv, TypeOK
<1>here. FrameOK(t) /\ EntryKept(t) BY DEF IInv
<1>frames. \A s \in Threads : FrameOK(s) /\ EntryKept(s) BY DEF IInv
<1>locked. WriterInv /\ ReadersInv /\ Exclusive BY DEF IInv
<1>linked. TaskOfThread /\ ThreadOfTask /\ TestingTruthful BY DEF IInv
<1>fan. fan[t] \in Fans
  BY <1>types, <1>here DEF ThreadsOK, FrameOK
<1>rest. Dell \ {fan[t]} \in SUBSET Fans
  OBVIOUS
<1>1. ThreadsOK'
  BY <1>types, <1>here, <1>rest, <1>fan DEF ThreadsOK, FrameOK, CallPC, WorkPC
<1>2. TableOK'
  BY <1>types, <1>fan DEF ThreadsOK, TableOK
<1>3. WriterInv'
  BY <1>types, <1>here, <1>locked, <1>fan DEF ThreadsOK, TableOK, WriterInv, Holds, FrameOK
<1>4. ReadersInv'
  BY <1>types, <1>here, <1>locked, <1>fan DEF ThreadsOK, TableOK, ReadersInv, FrameOK
<1>5. Exclusive'
  BY <1>types, <1>locked, <1>fan DEF TableOK, Exclusive, ReadersInv
<1>6. ASSUME NEW s \in Threads PROVE FrameOK(s)'
  BY <1>types, <1>frames, <1>fan DEF ThreadsOK, FrameOK
<1>7. ASSUME NEW s \in Threads PROVE EntryKept(s)'
  BY <1>types, <1>here, <1>frames, <1>locked, <1>fan
  DEF ThreadsOK, TableOK, EntryKept, WriterInv, ReadersInv, Exclusive, Holds, FrameOK
<1>8. (TaskOfThread /\ ThreadOfTask /\ TestingTruthful)'
  BY <1>types, <1>here, <1>linked, <1>fan
  DEF ThreadsOK, TableOK, TestingTruthful, TaskOfThread, ThreadOfTask, EntryKept,
      FrameOK
<1> QED BY <1>1, <1>2, <1>3, <1>4, <1>5, <1>6, <1>7, <1>8 DEF IInv, TypeOK

LEMMA EnableSpawnKeeps ==
  ASSUME IInv, NEW t \in Threads, NEW w \in Workers, EnableSpawn(t, w)
  PROVE  IInv'
<1> USE DEF EnableSpawn, Release
<1>types. ThreadsOK /\ TableOK BY DEF IInv, TypeOK
<1>here. FrameOK(t) /\ EntryKept(t) BY DEF IInv
<1>frames. \A s \in Threads : FrameOK(s) /\ EntryKept(s) BY DEF IInv
<1>locked. WriterInv /\ ReadersInv /\ Exclusive BY DEF IInv
<1>linked. TaskOfThread /\ ThreadOfTask /\ TestingTruthful BY DEF IInv
<1>fan. fan[t] \in Fans
  BY <1>types, <1>here DEF ThreadsOK, FrameOK
<1>1. ThreadsOK'
  BY <1>types, <1>here, <1>fan DEF ThreadsOK, FrameOK, CallPC, WorkPC
<1>2. TableOK'
  BY <1>types, <1>fan DEF ThreadsOK, TableOK
<1>3. ASSUME NEW g \in Fans, NEW s \in Threads
      PROVE  (writer[g] = s <=> Holds(s, g))'
  <2>1. CASE s = t
    BY <2>1, <1>types, <1>here, <1>locked, <1>fan
    DEF ThreadsOK, TableOK, WriterInv, Holds, FrameOK
  <2>2. CASE s = w
    BY <2>2, <1>types, <1>frames, <1>locked, <1>fan
    DEF ThreadsOK, TableOK, WriterInv, Holds, FrameOK
  <2>3. CASE s # t /\ s # w
    BY <2>3, <1>types, <1>here, <1>locked, <1>fan
    DEF ThreadsOK, TableOK, WriterInv, Holds, FrameOK
  <2> QED BY <2>1, <2>2, <2>3
<1>4. ReadersInv'
  BY <1>types, <1>here, <1>locked, <1>frames, <1>fan DEF ThreadsOK, TableOK, ReadersInv, FrameOK
<1>5. Exclusive'
  BY <1>types, <1>locked, <1>fan DEF TableOK, Exclusive, ReadersInv
<1>6. ASSUME NEW s \in Threads PROVE FrameOK(s)'
  BY <1>types, <1>frames, <1>fan DEF ThreadsOK, FrameOK
<1>holder. pc[t] \in HoldPC /\ t # None
  OBVIOUS
<1>alone. writer[fan[t]] = t /\ readers[fan[t]] = {}
  <2>1. Holds(t, fan[t])
    BY <1>holder DEF Holds
  <2>2. writer[fan[t]] = t
    BY <2>1, <1>locked, <1>fan DEF WriterInv
  <2> QED BY <2>2, <1>locked, <1>fan, <1>holder DEF Exclusive
<1>7. ASSUME NEW s \in Threads PROVE EntryKept(s)'
  <2>1. CASE s = t
    BY <2>1, <1>types, <1>fan, <1>here
    DEF ThreadsOK, TableOK, EntryKept, FrameOK
  <2>2. CASE s = w
    BY <2>2, <1>types, <1>fan, <1>here, <1>frames
    DEF ThreadsOK, TableOK, EntryKept, FrameOK
  <2>3. CASE s # t /\ s # w
    <3>1. FrameOK(s) /\ EntryKept(s)
      BY <1>frames
    <3>2. ~Holds(s, fan[t])
      BY <1>locked, <1>fan, <1>alone, <2>3 DEF WriterInv
    <3>3. ~(fan[s] = fan[t] /\ pc[s] = "test_join")
      BY <1>types, <1>locked, <1>fan, <1>alone
      DEF ReadersInv, ThreadsOK, WorkPC
    <3> QED BY <2>3, <3>1, <3>2, <3>3, <1>types, <1>fan
            DEF ThreadsOK, TableOK, EntryKept, Holds,
                FrameOK
  <2> QED BY <2>1, <2>2, <2>3
<1>8. TaskOfThread'
  BY <1>types, <1>here, <1>linked, <1>fan
  DEF ThreadsOK, TableOK, TaskOfThread, ThreadOfTask, EntryKept, FrameOK
<1>9. ThreadOfTask'
  BY <1>types, <1>here, <1>linked, <1>fan
  DEF ThreadsOK, TableOK, TaskOfThread, ThreadOfTask, EntryKept, FrameOK
<1>10. TestingTruthful'
  BY <1>types, <1>here, <1>linked, <1>fan
  DEF ThreadsOK, TableOK, TestingTruthful, TaskOfThread, ThreadOfTask, EntryKept,
      FrameOK
<1> QED BY <1>1, <1>2, <1>3, <1>4, <1>5, <1>6, <1>7, <1>8, <1>9, <1>10 DEF IInv, TypeOK, WriterInv

LEMMA DisableTailKeeps ==
  ASSUME IInv, NEW t \in Callers, DisableTail(t)
  PROVE  IInv'
<1> USE DEF DisableTail, DisableControl, SetMode, Goto, SweepDell
<1>types. ThreadsOK /\ TableOK BY DEF IInv, TypeOK
<1>here. FrameOK(t) /\ EntryKept(t) BY DEF IInv
<1>frames. \A s \in Threads : FrameOK(s) /\ EntryKept(s) BY DEF IInv
<1>locked. WriterInv /\ ReadersInv /\ Exclusive BY DEF IInv
<1>linked. TaskOfThread /\ ThreadOfTask /\ TestingTruthful BY DEF IInv
<1>fan. fan[t] \in Fans
  BY <1>types, <1>here DEF ThreadsOK, FrameOK
<1>rest. Dell \ {fan[t]} \in SUBSET Fans
  OBVIOUS
<1>1. ThreadsOK'
  BY <1>types, <1>here, <1>rest, <1>fan DEF ThreadsOK, FrameOK, CallPC, WorkPC
<1>2. TableOK'
  BY <1>types, <1>fan DEF ThreadsOK, TableOK
<1>3. WriterInv'
  BY <1>types, <1>here, <1>locked, <1>fan DEF ThreadsOK, TableOK, WriterInv, Holds, FrameOK
<1>4. ReadersInv'
  BY <1>types, <1>here, <1>locked, <1>fan DEF ThreadsOK, TableOK, ReadersInv, FrameOK
<1>5. Exclusive'
  BY <1>types, <1>locked, <1>fan DEF TableOK, Exclusive, ReadersInv
<1>6. ASSUME NEW s \in Threads PROVE FrameOK(s)'
  BY <1>types, <1>frames, <1>fan DEF ThreadsOK, FrameOK
<1>7. ASSUME NEW s \in Threads PROVE EntryKept(s)'
  BY <1>types, <1>here, <1>frames, <1>locked, <1>fan
  DEF ThreadsOK, TableOK, EntryKept, WriterInv, ReadersInv, Exclusive, Holds, FrameOK
<1>8. (TaskOfThread /\ ThreadOfTask /\ TestingTruthful)'
  BY <1>types, <1>here, <1>linked, <1>fan
  DEF ThreadsOK, TableOK, TestingTruthful, TaskOfThread, ThreadOfTask, EntryKept,
      FrameOK
<1> QED BY <1>1, <1>2, <1>3, <1>4, <1>5, <1>6, <1>7, <1>8 DEF IInv, TypeOK

\* A test finds its fan without a task.
LEMMA TestLockKeeps ==
  ASSUME IInv, NEW t \in Callers, pc[t] = "test", CanWrite(fan[t]), task[fan[t]] = None,
         Goto(t, "test_spawn"), Acquire(t),
         UNCHANGED <<frame, table, readers, mode, unsaved, calls>>
  PROVE  IInv'
<1> USE DEF CanWrite, Goto, Acquire
<1>types. ThreadsOK /\ TableOK BY DEF IInv, TypeOK
<1>here. FrameOK(t) /\ EntryKept(t) BY DEF IInv
<1>frames. \A s \in Threads : FrameOK(s) /\ EntryKept(s) BY DEF IInv
<1>locked. WriterInv /\ ReadersInv /\ Exclusive BY DEF IInv
<1>linked. TaskOfThread /\ ThreadOfTask /\ TestingTruthful BY DEF IInv
<1>fan. fan[t] \in Fans
  BY <1>types, <1>here DEF ThreadsOK, FrameOK
<1>1. ThreadsOK'
  BY <1>types, <1>here, <1>fan DEF ThreadsOK, FrameOK, CallPC, WorkPC
<1>2. TableOK'
  BY <1>types, <1>fan DEF ThreadsOK, TableOK
<1>3. WriterInv'
  BY <1>types, <1>here, <1>locked, <1>fan DEF ThreadsOK, TableOK, WriterInv, Holds, FrameOK
<1>4. ReadersInv'
  BY <1>types, <1>here, <1>locked, <1>fan DEF ThreadsOK, TableOK, ReadersInv, FrameOK
<1>5. Exclusive'
  BY <1>types, <1>locked, <1>fan DEF TableOK, Exclusive, ReadersInv
<1>6. ASSUME NEW s \in Threads PROVE FrameOK(s)'
  BY <1>types, <1>frames, <1>fan DEF ThreadsOK, FrameOK
<1>7. ASSUME NEW s \in Threads PROVE EntryKept(s)'
  BY <1>types, <1>here, <1>frames, <1>locked, <1>fan
  DEF ThreadsOK, TableOK, EntryKept, WriterInv, ReadersInv, Exclusive, Holds, FrameOK
<1>8. (TaskOfThread /\ ThreadOfTask /\ TestingTruthful)'
  BY <1>types, <1>here, <1>linked, <1>fan
  DEF ThreadsOK, TableOK, TestingTruthful, TaskOfThread, ThreadOfTask, EntryKept,
      FrameOK
<1> QED BY <1>1, <1>2, <1>3, <1>4, <1>5, <1>6, <1>7, <1>8 DEF IInv, TypeOK

LEMMA TestSpawnKeeps ==
  ASSUME IInv, NEW t \in Callers, NEW w \in Workers, TestSpawn(t, w)
  PROVE  IInv'
<1> USE DEF TestSpawn, Release, Blocking
<1>types. ThreadsOK /\ TableOK BY DEF IInv, TypeOK
<1>here. FrameOK(t) /\ EntryKept(t) BY DEF IInv
<1>frames. \A s \in Threads : FrameOK(s) /\ EntryKept(s) BY DEF IInv
<1>locked. WriterInv /\ ReadersInv /\ Exclusive BY DEF IInv
<1>linked. TaskOfThread /\ ThreadOfTask /\ TestingTruthful BY DEF IInv
<1>fan. fan[t] \in Fans
  BY <1>types, <1>here DEF ThreadsOK, FrameOK
<1>1. ThreadsOK'
  BY <1>types, <1>here, <1>fan DEF ThreadsOK, FrameOK, CallPC, WorkPC
<1>2. TableOK'
  BY <1>types, <1>fan DEF ThreadsOK, TableOK
<1>3. ASSUME NEW g \in Fans, NEW s \in Threads
      PROVE  (writer[g] = s <=> Holds(s, g))'
  <2>1. CASE s = t
    BY <2>1, <1>types, <1>here, <1>locked, <1>fan
    DEF ThreadsOK, TableOK, WriterInv, Holds, FrameOK
  <2>2. CASE s = w
    BY <2>2, <1>types, <1>frames, <1>locked, <1>fan
    DEF ThreadsOK, TableOK, WriterInv, Holds, FrameOK
  <2>3. CASE s # t /\ s # w
    BY <2>3, <1>types, <1>here, <1>locked, <1>fan
    DEF ThreadsOK, TableOK, WriterInv, Holds, FrameOK
  <2> QED BY <2>1, <2>2, <2>3
<1>4. ReadersInv'
  BY <1>types, <1>here, <1>locked, <1>frames, <1>fan DEF ThreadsOK, TableOK, ReadersInv, FrameOK
<1>5. Exclusive'
  BY <1>types, <1>locked, <1>fan DEF TableOK, Exclusive, ReadersInv
<1>6. ASSUME NEW s \in Threads PROVE FrameOK(s)'
  BY <1>types, <1>frames, <1>fan DEF ThreadsOK, FrameOK
<1>holder. pc[t] \in HoldPC /\ t # None
  OBVIOUS
<1>alone. writer[fan[t]] = t /\ readers[fan[t]] = {}
  <2>1. Holds(t, fan[t])
    BY <1>holder DEF Holds
  <2>2. writer[fan[t]] = t
    BY <2>1, <1>locked, <1>fan DEF WriterInv
  <2> QED BY <2>2, <1>locked, <1>fan, <1>holder DEF Exclusive
<1>7. ASSUME NEW s \in Threads PROVE EntryKept(s)'
  <2>1. CASE s = t
    BY <2>1, <1>types, <1>fan, <1>here
    DEF ThreadsOK, TableOK, EntryKept, FrameOK
  <2>2. CASE s = w
    BY <2>2, <1>types, <1>fan, <1>here, <1>frames
    DEF ThreadsOK, TableOK, EntryKept, FrameOK
  <2>3. CASE s # t /\ s # w
    <3>1. FrameOK(s) /\ EntryKept(s)
      BY <1>frames
    <3>2. ~Holds(s, fan[t])
      BY <1>locked, <1>fan, <1>alone, <2>3 DEF WriterInv
    <3>3. ~(fan[s] = fan[t] /\ pc[s] = "test_join")
      BY <1>types, <1>locked, <1>fan, <1>alone
      DEF ReadersInv, ThreadsOK, WorkPC
    <3> QED BY <2>3, <3>1, <3>2, <3>3, <1>types, <1>fan
            DEF ThreadsOK, TableOK, EntryKept, Holds,
                FrameOK
  <2> QED BY <2>1, <2>2, <2>3
<1>8. TaskOfThread'
  BY <1>types, <1>here, <1>linked, <1>fan
  DEF ThreadsOK, TableOK, TaskOfThread, ThreadOfTask, EntryKept, FrameOK
<1>9. ThreadOfTask'
  BY <1>types, <1>here, <1>linked, <1>fan
  DEF ThreadsOK, TableOK, TaskOfThread, ThreadOfTask, EntryKept, FrameOK
<1>10. TestingTruthful'
  BY <1>types, <1>here, <1>linked, <1>fan
  DEF ThreadsOK, TableOK, TestingTruthful, TaskOfThread, ThreadOfTask, EntryKept,
      FrameOK
<1> QED BY <1>1, <1>2, <1>3, <1>4, <1>5, <1>6, <1>7, <1>8, <1>9, <1>10 DEF IInv, TypeOK, WriterInv

\* A test joins the task it finds.
LEMMA TestWaitKeeps ==
  ASSUME IInv, NEW t \in Callers, TestWait(t), Blocking(t), task[fan[t]] # None
  PROVE  IInv'
<1> USE DEF Blocking, TestWait, CanRead, Goto, Return
<1>types. ThreadsOK /\ TableOK BY DEF IInv, TypeOK
<1>here. FrameOK(t) /\ EntryKept(t) BY DEF IInv
<1>frames. \A s \in Threads : FrameOK(s) /\ EntryKept(s) BY DEF IInv
<1>locked. WriterInv /\ ReadersInv /\ Exclusive BY DEF IInv
<1>linked. TaskOfThread /\ ThreadOfTask /\ TestingTruthful BY DEF IInv
<1>fan. fan[t] \in Fans
  BY <1>types, <1>here DEF ThreadsOK, FrameOK
<1>run. run' \in [Workers -> BOOLEAN]
  BY <1>types DEF TableOK
<1>1. ThreadsOK'
  BY <1>types, <1>here, <1>fan DEF ThreadsOK, FrameOK, CallPC, WorkPC
<1>2. TableOK'
  BY <1>types, <1>run, <1>fan DEF ThreadsOK, TableOK
<1>3. WriterInv'
  BY <1>types, <1>here, <1>locked, <1>fan DEF ThreadsOK, TableOK, WriterInv, Holds, FrameOK
<1>4. ReadersInv'
  BY <1>types, <1>here, <1>locked, <1>fan DEF ThreadsOK, TableOK, ReadersInv, FrameOK
<1>5. Exclusive'
  BY <1>types, <1>locked, <1>fan DEF TableOK, Exclusive, ReadersInv
<1>6. ASSUME NEW s \in Threads PROVE FrameOK(s)'
  BY <1>types, <1>frames, <1>fan DEF ThreadsOK, FrameOK
<1>7. ASSUME NEW s \in Threads PROVE EntryKept(s)'
  BY <1>types, <1>here, <1>frames, <1>locked, <1>fan
  DEF ThreadsOK, TableOK, EntryKept, WriterInv, ReadersInv, Exclusive, Holds, FrameOK
<1>8. (TaskOfThread /\ ThreadOfTask /\ TestingTruthful)'
  BY <1>types, <1>here, <1>linked, <1>fan
  DEF ThreadsOK, TableOK, TestingTruthful, TaskOfThread, ThreadOfTask, EntryKept,
      FrameOK
<1> QED BY <1>1, <1>2, <1>3, <1>4, <1>5, <1>6, <1>7, <1>8 DEF IInv, TypeOK

LEMMA TestJoinKeeps ==
  ASSUME IInv, NEW t \in Callers, TestJoin(t)
  PROVE  IInv'
<1> USE DEF TestJoin, Return, Goto
<1>types. ThreadsOK /\ TableOK BY DEF IInv, TypeOK
<1>here. FrameOK(t) /\ EntryKept(t) BY DEF IInv
<1>frames. \A s \in Threads : FrameOK(s) /\ EntryKept(s) BY DEF IInv
<1>locked. WriterInv /\ ReadersInv /\ Exclusive BY DEF IInv
<1>linked. TaskOfThread /\ ThreadOfTask /\ TestingTruthful BY DEF IInv
<1>fan. fan[t] \in Fans
  BY <1>types, <1>here DEF ThreadsOK, FrameOK
<1>1. ThreadsOK'
  BY <1>types, <1>here, <1>fan DEF ThreadsOK, FrameOK, CallPC, WorkPC
<1>2. TableOK'
  BY <1>types, <1>fan DEF ThreadsOK, TableOK
<1>3. WriterInv'
  BY <1>types, <1>here, <1>locked, <1>fan DEF ThreadsOK, TableOK, WriterInv, Holds, FrameOK
<1>4. ReadersInv'
  BY <1>types, <1>here, <1>locked, <1>fan DEF ThreadsOK, TableOK, ReadersInv, FrameOK
<1>5. Exclusive'
  BY <1>types, <1>locked, <1>fan DEF TableOK, Exclusive, ReadersInv
<1>6. ASSUME NEW s \in Threads PROVE FrameOK(s)'
  BY <1>types, <1>frames, <1>fan DEF ThreadsOK, FrameOK
<1>7. ASSUME NEW s \in Threads PROVE EntryKept(s)'
  BY <1>types, <1>here, <1>frames, <1>locked, <1>fan
  DEF ThreadsOK, TableOK, EntryKept, WriterInv, ReadersInv, Exclusive, Holds, FrameOK
<1>8. (TaskOfThread /\ ThreadOfTask /\ TestingTruthful)'
  BY <1>types, <1>here, <1>linked, <1>fan
  DEF ThreadsOK, TableOK, TestingTruthful, TaskOfThread, ThreadOfTask, EntryKept,
      FrameOK
<1> QED BY <1>1, <1>2, <1>3, <1>4, <1>5, <1>6, <1>7, <1>8 DEF IInv, TypeOK

\* The observer is registered.
LEMMA SubscribedKeeps ==
  ASSUME IInv, NEW t \in Callers, pc[t] = "subscribe", Goto(t, "subscribed"),
         ret' = [ret EXCEPT ![t] = "idle"], UNCHANGED <<fan, sweep, outer>>,
         UNCHANGED <<table, locks, mode, unsaved, calls>>
  PROVE  IInv'
<1> USE DEF Goto
<1>types. ThreadsOK /\ TableOK BY DEF IInv, TypeOK
<1>here. FrameOK(t) /\ EntryKept(t) BY DEF IInv
<1>frames. \A s \in Threads : FrameOK(s) /\ EntryKept(s) BY DEF IInv
<1>locked. WriterInv /\ ReadersInv /\ Exclusive BY DEF IInv
<1>linked. TaskOfThread /\ ThreadOfTask /\ TestingTruthful BY DEF IInv
<1>1. ThreadsOK'
  BY <1>types, <1>here DEF ThreadsOK, FrameOK, CallPC, WorkPC
<1>2. TableOK'
  BY <1>types DEF ThreadsOK, TableOK
<1>3. WriterInv'
  BY <1>types, <1>here, <1>locked DEF ThreadsOK, TableOK, WriterInv, Holds, FrameOK
<1>4. ReadersInv'
  BY <1>types, <1>here, <1>locked DEF ThreadsOK, TableOK, ReadersInv, FrameOK
<1>5. Exclusive'
  BY <1>types, <1>locked DEF TableOK, Exclusive, ReadersInv
<1>6. ASSUME NEW s \in Threads PROVE FrameOK(s)'
  BY <1>types, <1>frames DEF ThreadsOK, FrameOK
<1>7. ASSUME NEW s \in Threads PROVE EntryKept(s)'
  BY <1>types, <1>here, <1>frames, <1>locked
  DEF ThreadsOK, TableOK, EntryKept, WriterInv, ReadersInv, Exclusive, Holds, FrameOK
<1>8. (TaskOfThread /\ ThreadOfTask /\ TestingTruthful)'
  BY <1>types, <1>here, <1>linked
  DEF ThreadsOK, TableOK, TestingTruthful, TaskOfThread, ThreadOfTask, EntryKept,
      FrameOK
<1> QED BY <1>1, <1>2, <1>3, <1>4, <1>5, <1>6, <1>7, <1>8 DEF IInv, TypeOK

LEMMA TestResetKeeps ==
  ASSUME IInv, NEW t \in Workers, TestReset(t)
  PROVE  IInv'
<1> USE DEF TestReset, CanRead, Goto
<1>types. ThreadsOK /\ TableOK BY DEF IInv, TypeOK
<1>here. FrameOK(t) /\ EntryKept(t) BY DEF IInv
<1>frames. \A s \in Threads : FrameOK(s) /\ EntryKept(s) BY DEF IInv
<1>locked. WriterInv /\ ReadersInv /\ Exclusive BY DEF IInv
<1>linked. TaskOfThread /\ ThreadOfTask /\ TestingTruthful BY DEF IInv
<1>fan. fan[t] \in Fans
  BY <1>types, <1>here DEF ThreadsOK, FrameOK
<1>1. ThreadsOK'
  BY <1>types, <1>here, <1>fan DEF ThreadsOK, FrameOK, CallPC, WorkPC
<1>2. TableOK'
  BY <1>types, <1>fan DEF ThreadsOK, TableOK
<1>3. WriterInv'
  BY <1>types, <1>here, <1>locked, <1>fan DEF ThreadsOK, TableOK, WriterInv, Holds, FrameOK
<1>4. ReadersInv'
  BY <1>types, <1>here, <1>locked, <1>fan DEF ThreadsOK, TableOK, ReadersInv, FrameOK
<1>5. Exclusive'
  BY <1>types, <1>locked, <1>fan DEF TableOK, Exclusive, ReadersInv
<1>6. ASSUME NEW s \in Threads PROVE FrameOK(s)'
  BY <1>types, <1>frames, <1>fan DEF ThreadsOK, FrameOK
<1>7. ASSUME NEW s \in Threads PROVE EntryKept(s)'
  BY <1>types, <1>here, <1>frames, <1>locked, <1>fan
  DEF ThreadsOK, TableOK, EntryKept, WriterInv, ReadersInv, Exclusive, Holds, FrameOK
<1>8. (TaskOfThread /\ ThreadOfTask /\ TestingTruthful)'
  BY <1>types, <1>here, <1>linked, <1>fan
  DEF ThreadsOK, TableOK, TestingTruthful, TaskOfThread, ThreadOfTask, EntryKept,
      FrameOK
<1> QED BY <1>1, <1>2, <1>3, <1>4, <1>5, <1>6, <1>7, <1>8 DEF IInv, TypeOK

\* The count of running tests is known.
LEMMA TestCountedKeeps ==
  ASSUME IInv, NEW t \in Workers, NEW l \in {"test_save", "test_restart"},
         pc[t] = "test_count", Goto(t, l), sweep' \in [Threads -> SUBSET Fans],
         \A s \in Threads : sweep'[s] \subseteq sweep[s],
         UNCHANGED <<fan, ret, outer>>,
         UNCHANGED <<table, locks, mode, unsaved, calls>>
  PROVE  IInv'
<1> USE DEF Goto
<1>types. ThreadsOK /\ TableOK BY DEF IInv, TypeOK
<1>here. FrameOK(t) /\ EntryKept(t) BY DEF IInv
<1>frames. \A s \in Threads : FrameOK(s) /\ EntryKept(s) BY DEF IInv
<1>locked. WriterInv /\ ReadersInv /\ Exclusive BY DEF IInv
<1>linked. TaskOfThread /\ ThreadOfTask /\ TestingTruthful BY DEF IInv
<1>fan. fan[t] \in Fans
  BY <1>types, <1>here DEF ThreadsOK, FrameOK
<1>1. ThreadsOK'
  BY <1>types, <1>here, <1>fan DEF ThreadsOK, FrameOK, CallPC, WorkPC
<1>2. TableOK'
  BY <1>types, <1>fan DEF ThreadsOK, TableOK
<1>3. WriterInv'
  BY <1>types, <1>here, <1>locked, <1>fan DEF ThreadsOK, TableOK, WriterInv, Holds, FrameOK
<1>4. ReadersInv'
  BY <1>types, <1>here, <1>locked, <1>fan DEF ThreadsOK, TableOK, ReadersInv, FrameOK
<1>5. Exclusive'
  BY <1>types, <1>locked, <1>fan DEF TableOK, Exclusive, ReadersInv
<1>6. ASSUME NEW s \in Threads PROVE FrameOK(s)'
  BY <1>types, <1>frames, <1>fan DEF ThreadsOK, FrameOK
<1>7. ASSUME NEW s \in Threads PROVE EntryKept(s)'
  BY <1>types, <1>here, <1>frames, <1>locked, <1>fan
  DEF ThreadsOK, TableOK, EntryKept, WriterInv, ReadersInv, Exclusive, Holds, FrameOK
<1>8. (TaskOfThread /\ ThreadOfTask /\ TestingTruthful)'
  BY <1>types, <1>here, <1>linked, <1>fan
  DEF ThreadsOK, TableOK, TestingTruthful, TaskOfThread, ThreadOfTask, EntryKept,
      FrameOK
<1> QED BY <1>1, <1>2, <1>3, <1>4, <1>5, <1>6, <1>7, <1>8 DEF IInv, TypeOK

LEMMA TestRestartKeeps ==
  ASSUME IInv, NEW t \in Workers, NEW w \in Workers, TestRestart(t, w)
  PROVE  IInv'
<1> USE DEF TestRestart
<1>types. ThreadsOK /\ TableOK BY DEF IInv, TypeOK
<1>here. FrameOK(t) /\ EntryKept(t) BY DEF IInv
<1>frames. \A s \in Threads : FrameOK(s) /\ EntryKept(s) BY DEF IInv
<1>locked. WriterInv /\ ReadersInv /\ Exclusive BY DEF IInv
<1>linked. TaskOfThread /\ ThreadOfTask /\ TestingTruthful BY DEF IInv
<1>fan. fan[t] \in Fans
  BY <1>types, <1>here DEF ThreadsOK, FrameOK
<1>1. ThreadsOK'
  BY <1>types, <1>here, <1>fan DEF ThreadsOK, FrameOK, CallPC, WorkPC
<1>2. TableOK'
  BY <1>types, <1>fan DEF ThreadsOK, TableOK
<1>3. WriterInv'
  BY <1>types, <1>here, <1>locked, <1>frames, <1>fan DEF ThreadsOK, TableOK, WriterInv, Holds, FrameOK
<1>4. ReadersInv'
  BY <1>types, <1>here, <1>locked, <1>frames, <1>fan DEF ThreadsOK, TableOK, ReadersInv, FrameOK
<1>5. Exclusive'
  BY <1>types, <1>locked, <1>fan DEF TableOK, Exclusive, ReadersInv
<1>6. ASSUME NEW s \in Threads PROVE FrameOK(s)'
  BY <1>types, <1>frames, <1>fan DEF ThreadsOK, FrameOK
<1>7. ASSUME NEW s \in Threads PROVE EntryKept(s)'
  BY <1>types, <1>here, <1>frames, <1>locked, <1>fan
  DEF ThreadsOK, TableOK, EntryKept, WriterInv, ReadersInv, Exclusive, Holds, FrameOK
<1>8. (TaskOfThread /\ ThreadOfTask /\ TestingTruthful)'
  BY <1>types, <1>here, <1>linked, <1>fan
  DEF ThreadsOK, TableOK, TestingTruthful, TaskOfThread, ThreadOfTask, EntryKept,
      FrameOK
<1> QED BY <1>1, <1>2, <1>3, <1>4, <1>5, <1>6, <1>7, <1>8 DEF IInv, TypeOK

-----------------------------------------------------------------------------
(* The steps of Next, each by the lemma that covers it.                       *)

LEMMA NewCallKeeps ==
  ASSUME IInv, NEW t \in Callers, NewCall(t)
  PROVE  IInv'
<1>1. ASSUME NEW f \in Fans, Enable(t, f) \/ Disable(t, f) \/ Test(t, f) \/ GetFanStatus(t, f)
      PROVE  IInv'
  BY <1>1, CallOnKeeps DEF Enable, Disable, Test, GetFanStatus
<1>3. ASSUME NEW f \in Fans, Reload(t, f)
      PROVE  IInv'
  BY <1>3, ReloadKeeps
<1>2. CASE EnableAll(t) \/ DisableAll(t) \/ Recover(t) \/ SubscribeFanStatus(t)
  <2>1. Fans \in SUBSET Fans /\ {f \in Fans : task[f] # None} \in SUBSET Fans
    OBVIOUS
  <2> QED BY <1>2, <2>1, CallSweepKeeps DEF EnableAll, DisableAll, Recover, SubscribeFanStatus
<1> QED BY <1>1, <1>2, <1>3 DEF NewCall

LEMMA EnableStepKeeps ==
  ASSUME IInv, NEW t \in Threads, EnableStep(t)
  PROVE  IInv'
<1>types. TypeOK BY DEF IInv
<1>1. CASE EnableSkip(t)
  <2>1. mode' \in [Fans -> {"auto", "manual"}]
    BY <1>1, <1>types DEF EnableSkip, DisableControl, EnableControl, SetMode, TypeOK, TableOK
  <2> QED BY <1>1, <2>1, ReturnKeeps DEF EnableSkip
<1>2. CASE EnableTake(t)
  BY <1>2, EnableTakeKeeps
<1>3. CASE EnableDell(t)
  BY <1>3, VisitKeeps, ResumeKeeps DEF EnableDell
<1>4. CASE \E w \in Workers : EnableSpawn(t, w)
  BY <1>4, EnableSpawnKeeps
<1> QED BY <1>1, <1>2, <1>3, <1>4 DEF EnableStep

LEMMA CallerStepKeeps ==
  ASSUME IInv, NEW t \in Callers, CallerStep(t)
  PROVE  IInv'
<1>types. TypeOK BY DEF IInv
<1>1. CASE EnableAllNext(t)
  BY <1>1, VisitKeeps, EndSweepKeeps DEF EnableAllNext
<1>2. CASE DisableEnter(t)
  <2>1. mode' \in [Fans -> {"auto", "manual"}]
    BY <1>2, <1>types DEF DisableEnter, TypeOK, TableOK
  <2> QED BY <1>2, <2>1, ReturnKeeps, JoinKeeps DEF DisableEnter
<1>3. CASE DisableJoin(t)
  BY <1>3, EraseKeeps DEF DisableJoin
<1>4. CASE DisableTail(t)
  BY <1>4, DisableTailKeeps
<1>5. CASE DisableDell(t)
  BY <1>5, VisitKeeps, ResumeKeeps DEF DisableDell
<1>6. CASE DisableNotify(t)
  <2>1. mode' \in [Fans -> {"auto", "manual"}]
    BY <1>6, <1>types DEF DisableNotify, TypeOK, TableOK
  <2> QED BY <1>6, <2>1, ReturnKeeps, HopKeeps DEF DisableNotify
<1>7. CASE DisableAllNext(t)
  BY <1>7, VisitKeeps, EndSweepKeeps DEF DisableAllNext
<1>8. CASE TestEnter(t)
  <2>1. mode' \in [Fans -> {"auto", "manual"}]
    BY <1>8, <1>types DEF TestEnter, TypeOK, TableOK
  <2> QED BY <1>8, <2>1, ReturnKeeps, JoinKeeps, TestLockKeeps DEF TestEnter, Blocking
<1>17. CASE MergeTest(t)
  BY <1>17, VisitKeeps, EndSweepKeeps DEF MergeTest
<1>9. CASE TestErase(t)
  BY <1>9, TestEraseKeeps
<1>10. CASE \E w \in Workers : TestSpawn(t, w)
  BY <1>10, TestSpawnKeeps
<1>11. CASE TestWait(t)
  <2>1. CASE Blocking(t) /\ task[fan[t]] # None
    BY <1>11, <2>1, TestWaitKeeps
  <2>2. CASE ~Blocking(t) \/ task[fan[t]] = None
    <3>1. mode' \in [Fans -> {"auto", "manual"}]
      BY <1>11, <1>types DEF TestWait, TypeOK, TableOK
    <3> QED BY <1>11, <2>2, <3>1, ReturnKeeps DEF TestWait
  <2> QED BY <2>1, <2>2
<1>12. CASE TestJoin(t)
  BY <1>12, TestJoinKeeps
<1>13. CASE RecoverNext(t)
  <2>1. CASE VisitNext(t, "recover_fan")
    BY <1>13, <2>1, VisitKeeps DEF RecoverNext
  <2>2. CASE EndSweep(t)
    BY <1>13, <2>2, EndSweepKeeps DEF RecoverNext
  <2>3. CASE ~VisitNext(t, "recover_fan") /\ ~EndSweep(t)
    <3>1. PICK f \in Fans : Take(t, f)
      BY <1>13, <2>3 DEF RecoverNext
    <3>2. /\ sweep' \in [Threads -> SUBSET Fans]
          /\ \A s \in Threads : sweep'[s] \subseteq sweep[s]
      BY <3>1, <1>types DEF Take, TypeOK, ThreadsOK
    <3> QED BY <1>13, <2>3, <3>2, SkipKeeps DEF RecoverNext
  <2> QED BY <2>1, <2>2, <2>3
<1>14. CASE RecoverFan(t)
  <2>1. mode' \in [Fans -> {"auto", "manual"}]
    BY <1>14, <1>types DEF RecoverFan, EnableControl, SetMode, TypeOK, TableOK
  <2> QED BY <1>14, <2>1, ReturnKeeps DEF RecoverFan
<1>15. CASE Status(t)
  <2>1. mode' \in [Fans -> {"auto", "manual"}]
    BY <1>15, <1>types DEF Status, TypeOK, TableOK
  <2> QED BY <1>15, <2>1, ReturnKeeps DEF Status
<1>16. CASE Subscribe(t)
  <2>1. CASE pc' = pc
    <3>1. PICK f \in Fans : Take(t, f)
      BY <1>16, <2>1, <1>types DEF Subscribe, Goto, TypeOK, ThreadsOK
    <3>2. /\ sweep' \in [Threads -> SUBSET Fans]
          /\ \A s \in Threads : sweep'[s] \subseteq sweep[s]
      BY <3>1, <1>types DEF Take, TypeOK, ThreadsOK
    <3>3. UNCHANGED <<pc, fan, ret, outer>>
      BY <1>16, <2>1, <1>types DEF Subscribe, Goto, TypeOK, ThreadsOK
    <3> QED BY <1>16, <3>2, <3>3, SkipKeeps DEF Subscribe
  <2>2. CASE pc' # pc
    BY <1>16, <2>2, SubscribedKeeps DEF Subscribe
  <2> QED BY <2>1, <2>2
<1> QED BY <1>1, <1>2, <1>3, <1>4, <1>5, <1>6, <1>7, <1>8, <1>9, <1>10, <1>11,
           <1>12, <1>13, <1>14, <1>15, <1>16, <1>17 DEF CallerStep

LEMMA WorkerStepKeeps ==
  ASSUME IInv, NEW t \in Workers, WorkerStep(t)
  PROVE  IInv'
<1>types. TypeOK BY DEF IInv
<1>fan. pc[t] \in TaskPC => fan[t] \in Fans
  BY DEF IInv, TaskOfThread
<1>1. CASE LoopTop(t) \/ LoopStatus(t) \/ LoopUpdate(t) \/ LoopRelease(t)
  <2>1. mode' \in [Fans -> {"auto", "manual"}]
    BY <1>1, <1>types DEF LoopTop, LoopStatus, LoopUpdate, LoopRelease,
       DisableControl, EnableControl, SetMode, TypeOK, TableOK
  <2>2. unsaved' \subseteq Fans /\ UNCHANGED <<frame, table, locks, calls>>
    BY <1>1, <1>types DEF LoopTop, LoopStatus, LoopUpdate, LoopRelease, TypeOK, TableOK
  <2>3. PICK l \in LoopPC \cup {"exited"} : Goto(t, l)
    BY <1>1 DEF LoopTop, LoopStatus, LoopUpdate, LoopRelease
  <2>4. pc[t] \in LoopPC
    BY <1>1 DEF LoopTop, LoopStatus, LoopUpdate, LoopRelease
  <2> QED BY <2>1, <2>2, <2>3, <2>4, TaskMoveKeeps
<1>2. CASE TestBegin(t) \/ TestRun(t)
  <2>1. mode' \in [Fans -> {"auto", "manual"}]
    BY <1>2, <1>types DEF TestBegin, TestRun,
       DisableControl, EnableControl, SetMode, TypeOK, TableOK
  <2>2. unsaved' \subseteq Fans /\ UNCHANGED <<frame, table, locks, calls>>
    BY <1>2, <1>types, <1>fan DEF TestBegin, TestRun, TypeOK, TableOK
  <2>3. PICK l \in TestPC \cup {"test_reset"} : Goto(t, l)
    BY <1>2 DEF TestBegin, TestRun
  <2>4. pc[t] \in TestPC
    BY <1>2 DEF TestBegin, TestRun
  <2> QED BY <2>1, <2>2, <2>3, <2>4, TaskMoveKeeps
<1>3. CASE TestReset(t)
  BY <1>3, TestResetKeeps
<1>4. CASE TestCount(t)
  <2>0. pc[t] = "test_count" /\ UNCHANGED <<fan, ret, outer>>
        /\ UNCHANGED <<table, locks, mode, unsaved, calls>>
    BY <1>4 DEF TestCount
  <2>1. CASE \E f \in Fans : Take(t, f) /\ UNCHANGED pc
    <3>1. /\ sweep' \in [Threads -> SUBSET Fans]
          /\ \A s \in Threads : sweep'[s] \subseteq sweep[s]
      BY <2>1, <1>types DEF Take, TypeOK, ThreadsOK
    <3> QED BY <2>0, <2>1, <3>1, SkipKeeps
  <2>2. CASE \E l \in {"test_save", "test_restart"} : Goto(t, l) /\ sweep' \in
               {sweep, [sweep EXCEPT ![t] = {}]}
    <3>1. /\ sweep' \in [Threads -> SUBSET Fans]
          /\ \A s \in Threads : sweep'[s] \subseteq sweep[s]
      BY <2>2, <1>types DEF TypeOK, ThreadsOK
    <3> QED BY <2>0, <2>2, <3>1, TestCountedKeeps
  <2> QED BY <1>4, <2>1, <2>2 DEF TestCount
<1>5. CASE TestSave(t)
  <2>1. mode' \in [Fans -> {"auto", "manual"}] /\ unsaved' \subseteq Fans
    BY <1>5, <1>types DEF TestSave, TypeOK, TableOK
  <2> QED BY <1>5, <2>1, TaskMoveKeeps DEF TestSave
<1>6. CASE \E r \in Workers : TestRestart(t, r)
  BY <1>6, TestRestartKeeps
<1>7. CASE RestartEnter(t)
  BY <1>7, JoinKeeps, HopKeeps DEF RestartEnter
<1>8. CASE RestartJoin(t)
  BY <1>8, EraseKeeps DEF RestartJoin
<1> QED BY <1>1, <1>2, <1>3, <1>4, <1>5, <1>6, <1>7, <1>8 DEF WorkerStep

LEMMA StutterKeeps == IInv /\ UNCHANGED vars => IInv'
BY DEF vars, IInv, TypeOK, ThreadsOK, TableOK, WriterInv, ReadersInv, Exclusive, Holds,
   FrameOK, EntryKept, TaskOfThread, ThreadOfTask, TestingTruthful

LEMMA NextKeeps == IInv /\ [Next]_vars => IInv'
<1> SUFFICES ASSUME IInv, [Next]_vars PROVE IInv'
  OBVIOUS
<1>1. CASE \E t \in Callers : NewCall(t) \/ CallerStep(t)
  BY <1>1, NewCallKeeps, CallerStepKeeps
<1>2. CASE \E t \in Callers : Unsubscribe(t)
  BY <1>2, HopKeeps DEF Unsubscribe
<1>3. CASE \E t \in Threads : EnableStep(t)
  BY <1>3, EnableStepKeeps
<1>4. CASE \E w \in Workers : WorkerStep(w)
  BY <1>4, WorkerStepKeeps
<1>5. CASE Terminated \/ UNCHANGED vars
  BY <1>5, StutterKeeps DEF Terminated
<1> QED BY <1>1, <1>2, <1>3, <1>4, <1>5 DEF Next

LEMMA InitOK == Init => IInv
<1> SUFFICES ASSUME Init PROVE IInv
  OBVIOUS
<1>1. ThreadsOK
  BY DEF Init, ThreadsOK, CallPC, WorkPC
<1>2. TableOK
  BY DEF Init, TableOK
<1>3. WriterInv /\ ReadersInv /\ Exclusive
  BY DEF Init, WriterInv, ReadersInv, Exclusive, Holds
<1>4. \A t \in Threads : FrameOK(t) /\ EntryKept(t)
  BY DEF Init, FrameOK, EntryKept
<1>5. TaskOfThread /\ ThreadOfTask /\ TestingTruthful
  BY DEF Init, TaskOfThread, ThreadOfTask, TestingTruthful
<1> QED BY <1>1, <1>2, <1>3, <1>4, <1>5 DEF IInv, TypeOK

-----------------------------------------------------------------------------
(* What follows from the invariant.                                           *)

\* The inductive invariant holds in every reachable state: the positions of the
\* threads, the locks and the task table of Controller.cpp always agree.
THEOREM Invariant == Spec => []IInv
BY InitOK, NextKeeps, PTL DEF Spec

\* No two threads ever drive the same fan, however many RPCs, tests and restart
\* threads run: erasing a task waits for its thread (Controller.cpp:60,148,168).
THEOREM DriverTheorem == Spec => []OneDriverPerFan
<1>1. IInv => OneDriverPerFan
  BY DEF IInv, TaskOfThread, OneDriverPerFan, Drives
<1> QED BY <1>1, Invariant, PTL

\* status() says TESTING exactly while the fan is being tested, so a second
\* test() always joins the measurement it finds (Controller.cpp:157-168).
THEOREM TestingTheorem == Spec => []TestingTruthful
<1>1. IInv => TestingTruthful
  BY DEF IInv
<1> QED BY <1>1, Invariant, PTL

\* A step that changes a fan's entry is a step under the fan's unique lock.
LEMMA StepLocked ==
  ASSUME IInv, [Next]_vars, NEW f \in Fans, task'[f] # task[f]
  PROVE  writer[f] # None
<1>types. ThreadsOK /\ TableOK BY DEF IInv, TypeOK
<1>locked. WriterInv BY DEF IInv
<1>frames. \A t \in Threads : FrameOK(t) /\ EntryKept(t) BY DEF IInv
<1>task. task' # task
  OBVIOUS
<1>1. ASSUME NEW t \in Threads, pc[t] \in HoldPC, fan[t] = f
      PROVE  writer[f] # None
  BY <1>1, <1>locked DEF WriterInv, Holds
<1>2. ASSUME NEW t \in Threads, pc[t] \in HoldPC, fan[t] \in Fans,
             \A g \in Fans : g # fan[t] => task'[g] = task[g]
      PROVE  writer[f] # None
  BY <1>1, <1>2
<1>3. CASE \E t \in Threads, w \in Workers : EnableSpawn(t, w) \/ TestSpawn(t, w)
  BY <1>2, <1>3, <1>types, <1>frames DEF EnableSpawn, TestSpawn, TableOK, ThreadsOK, FrameOK
<1>4. CASE \E t \in Threads : DisableJoin(t) \/ RestartJoin(t) \/ TestErase(t)
  BY <1>2, <1>4, <1>types, <1>frames
  DEF DisableJoin, RestartJoin, TestErase, Erase, TableOK, ThreadsOK, FrameOK
<1>5. CASE \E t \in Callers : NewCall(t) \/ Unsubscribe(t)
  BY <1>5, <1>task DEF NewCall, Enable, Disable, Test, GetFanStatus, EnableAll, DisableAll,
     Recover, SubscribeFanStatus, Reload, Request, Unsubscribe
<1>6. CASE \E t \in Callers : CallerStep(t)
  BY <1>3, <1>4, <1>6, <1>task DEF CallerStep, EnableAllNext, DisableEnter, DisableTail,
     DisableDell, DisableNotify, DisableAllNext, MergeTest, TestEnter, TestWait, TestJoin,
     RecoverNext, RecoverFan, Status, Subscribe, LockAndJoin
<1>7. CASE \E t \in Threads : EnableStep(t)
  BY <1>3, <1>7, <1>task DEF EnableStep, EnableSkip, EnableTake, EnableDell
<1>8. CASE \E t \in Workers : WorkerStep(t)
  BY <1>4, <1>8, <1>task DEF WorkerStep, LoopTop, LoopStatus, LoopUpdate, LoopRelease,
     TestBegin, TestRun, TestReset, TestCount, TestSave, TestRestart, RestartEnter, LockAndJoin
<1>9. CASE Terminated \/ UNCHANGED vars
  BY <1>9, <1>task DEF Terminated, vars
<1> QED BY <1>5, <1>6, <1>7, <1>8, <1>9 DEF Next

\* A fan's entry in the task table changes only under its unique lock, although
\* four different callers of tasks.erase and tasks.emplace change it.
THEOREM EntryTheorem == Spec => EntryChangesLocked
<1>1. IInv /\ [Next]_vars => [\A f \in Fans : task'[f] # task[f] => writer[f] # None]_vars
  BY StepLocked
<1> QED BY <1>1, Invariant, PTL DEF Spec, EntryChangesLocked

-----------------------------------------------------------------------------
(* That Controller implements FanLifecycle, and two more invariants of the    *)
(* task table, for every set of fans, callers and workers.                    *)
(*                                                                            *)
(* The three need the same analysis of a step. Most steps are taken beside    *)
(* the tasks (Aside): no entry, flag or result changes, no thread of a task   *)
(* and no call that waits for one moves. The others are steps of a task's     *)
(* thread, those that start or erase one, and the two by which a caller of    *)
(* test() stops waiting. For each of them a leaf says which move of           *)
(* FanLifecycle it is, or why the thread or the call that the invariant names *)
(* is still there.                                                            *)
HIDE DEF EnablePC, DisablePC, SweepPC, AskPC, EmptyPC, JoinPC, HoldPC

Aside ==
  /\ UNCHANGED <<task, testing, ref, unsaved>>
  /\ \A w \in Workers : IF pc[w] \in TaskPC THEN pc'[w] = pc[w] /\ fan'[w] = fan[w]
                                           ELSE pc'[w] \notin TaskPC
  /\ \A c \in Callers : pc[c] \in {"test_wait", "test_join"} =>
       pc'[c] = pc[c] /\ fan'[c] = fan[c] /\ ret'[c] = ret[c]

Starts(t)  == \E w \in Workers : EnableSpawn(t, w) \/ TestSpawn(t, w)
Erases(t)  == DisableJoin(t) \/ RestartJoin(t) \/ TestErase(t)
Unwaits(t) == TestWait(t) \/ TestJoin(t)
Runs(w) ==
  \/ LoopTop(w) \/ LoopStatus(w) \/ LoopUpdate(w) \/ LoopRelease(w)
  \/ TestBegin(w) \/ TestRun(w) \/ TestReset(w) \/ TestCount(w) \/ TestSave(w)
  \/ (\E r \in Workers : TestRestart(w, r))

\* A thread that is at no label of a task, nor waits for one, moves.
LEMMA MoveAside ==
  ASSUME IInv, NEW t \in Threads, pc[t] \notin TaskPC \cup {"test_wait", "test_join"},
         pc'[t] \notin TaskPC,
         \A s \in Threads \ {t} : pc'[s] = pc[s] /\ fan'[s] = fan[s] /\ ret'[s] = ret[s],
         UNCHANGED <<task, testing, ref, unsaved>>
  PROVE  Aside
BY DEF Aside

LEMMA NewCallAside ==
  ASSUME IInv, NEW t \in Callers, NewCall(t) \/ Unsubscribe(t)
  PROVE  Aside
<1>types. /\ pc \in [Threads -> CallPC \cup WorkPC]
          /\ fan \in [Threads -> Fans \cup {None}]
          /\ ret \in [Threads -> {"idle"} \cup SweepPC]
  BY DEF IInv, TypeOK, ThreadsOK
<1>1. /\ pc[t] \in {"idle", "subscribed"}
      /\ UNCHANGED <<task, testing, ref, unsaved>>
  BY DEF NewCall, Enable, Disable, Test, GetFanStatus, EnableAll, DisableAll,
     Recover, SubscribeFanStatus, Reload, Request, Unsubscribe
<1>2. \A s \in Threads \ {t} : pc'[s] = pc[s] /\ fan'[s] = fan[s] /\ ret'[s] = ret[s]
  BY <1>types DEF NewCall, Enable, Disable, Test, GetFanStatus, EnableAll, DisableAll,
     Recover, SubscribeFanStatus, Reload, CallOn, CallSweep, Goto, Unsubscribe
<1>3. pc'[t] \notin TaskPC
  BY <1>types DEF NewCall, Enable, Disable, Test, GetFanStatus, EnableAll, DisableAll,
     Recover, SubscribeFanStatus, Reload, CallOn, CallSweep, Goto, Unsubscribe
<1> QED BY <1>1, <1>2, <1>3, MoveAside

LEMMA EnableAside ==
  ASSUME IInv, NEW t \in Threads, EnableStep(t)
  PROVE  Aside \/ Starts(t)
<1>types. /\ pc \in [Threads -> CallPC \cup WorkPC]
          /\ fan \in [Threads -> Fans \cup {None}]
          /\ ret \in [Threads -> {"idle"} \cup SweepPC]
  BY DEF IInv, TypeOK, ThreadsOK
<1>ret. ret[t] \notin TaskPC
  BY DEF IInv, TypeOK, ThreadsOK, SweepPC
<1>1. CASE EnableSkip(t) \/ EnableTake(t) \/ EnableDell(t)
  <2>1. /\ pc[t] \in {"enable", "enable_dell"}
        /\ UNCHANGED <<task, testing, ref, unsaved>>
    BY <1>1 DEF EnableSkip, EnableTake, EnableDell
  <2>2. \A s \in Threads \ {t} : pc'[s] = pc[s] /\ fan'[s] = fan[s] /\ ret'[s] = ret[s]
    BY <1>1, <1>types DEF EnableSkip, EnableTake, EnableDell, Return, Goto, SweepDell,
       VisitNext, Resume
  <2>3. pc'[t] \notin TaskPC
    BY <1>1, <1>types, <1>ret DEF EnableSkip, EnableTake, EnableDell, Return, Goto,
       VisitNext, Resume
  <2> QED BY <2>1, <2>2, <2>3, MoveAside
<1> QED BY <1>1 DEF EnableStep, Starts

LEMMA CallerAside ==
  ASSUME IInv, NEW t \in Callers, CallerStep(t)
  PROVE  Aside \/ Starts(t) \/ Erases(t) \/ Unwaits(t)
<1>types. /\ pc \in [Threads -> CallPC \cup WorkPC]
          /\ fan \in [Threads -> Fans \cup {None}]
          /\ ret \in [Threads -> {"idle"} \cup SweepPC]
  BY DEF IInv, TypeOK, ThreadsOK
<1>ret. ret[t] \notin TaskPC
  BY DEF IInv, TypeOK, ThreadsOK, SweepPC
<1> DEFINE Rest == \/ EnableAllNext(t) \/ DisableEnter(t) \/ DisableTail(t)
                   \/ DisableDell(t) \/ DisableNotify(t) \/ DisableAllNext(t)
                   \/ MergeTest(t) \/ TestEnter(t) \/ RecoverNext(t) \/ RecoverFan(t) \/ Status(t)
                   \/ Subscribe(t)
<1>1. CASE Rest
  <2>1. /\ pc[t] \notin TaskPC \cup {"test_wait", "test_join"}
        /\ UNCHANGED <<task, testing, ref, unsaved>>
    BY <1>1 DEF EnableAllNext, DisableEnter, DisableTail, DisableDell, DisableNotify,
       DisableAllNext, MergeTest, TestEnter, RecoverNext, RecoverFan, Status, Subscribe, LockAndJoin
  <2>2. \A s \in Threads \ {t} : pc'[s] = pc[s] /\ fan'[s] = fan[s] /\ ret'[s] = ret[s]
    BY <1>1, <1>types DEF EnableAllNext, DisableEnter, DisableTail, DisableDell,
       DisableNotify, DisableAllNext, MergeTest, TestEnter, RecoverNext, RecoverFan, Status,
       Subscribe, LockAndJoin, Return, Goto, SweepDell, VisitNext, Resume, EndSweep
  <2>3. pc'[t] \notin TaskPC
    BY <1>1, <1>types, <1>ret DEF EnableAllNext, DisableEnter, DisableTail, DisableDell,
       DisableNotify, DisableAllNext, MergeTest, TestEnter, RecoverNext, RecoverFan, Status,
       Subscribe, LockAndJoin, Return, Goto, VisitNext, Resume, EndSweep
  <2> QED BY <2>1, <2>2, <2>3, MoveAside
<1> QED BY <1>1 DEF CallerStep, Starts, Erases, Unwaits

LEMMA WorkerAside ==
  ASSUME IInv, NEW w \in Workers, WorkerStep(w)
  PROVE  Aside \/ Erases(w) \/ Runs(w)
<1>types. /\ pc \in [Threads -> CallPC \cup WorkPC]
          /\ fan \in [Threads -> Fans \cup {None}]
          /\ ret \in [Threads -> {"idle"} \cup SweepPC]
  BY DEF IInv, TypeOK, ThreadsOK
<1>1. CASE RestartEnter(w)
  <2>1. pc[w] = "restart" /\ UNCHANGED <<task, testing, ref, unsaved, fan, ret>>
    BY <1>1 DEF RestartEnter, LockAndJoin
  <2>2. \A s \in Threads \ {w} : pc'[s] = pc[s]
    BY <1>1, <1>types DEF RestartEnter, LockAndJoin, Goto
  <2>3. pc'[w] \notin TaskPC
    BY <1>1, <1>types DEF RestartEnter, LockAndJoin, Goto
  <2> QED BY <2>1, <2>2, <2>3, MoveAside
<1> QED BY <1>1 DEF WorkerStep, Erases, Runs

\* Every step is taken beside the tasks or is one of the others.
LEMMA StepShapes ==
  ASSUME IInv, [Next]_vars
  PROVE  \/ Aside
         \/ \E t \in Threads : Starts(t) \/ Erases(t)
         \/ \E t \in Callers : Unwaits(t)
         \/ \E w \in Workers : Runs(w)
<1>1. CASE Terminated \/ UNCHANGED vars
  BY <1>1 DEF Terminated, vars, Aside
<1>2. CASE \E t \in Callers : NewCall(t) \/ CallerStep(t) \/ Unsubscribe(t)
  BY <1>2, NewCallAside, CallerAside
<1>3. CASE \E t \in Threads : EnableStep(t)
  BY <1>3, EnableAside
<1>4. CASE \E w \in Workers : WorkerStep(w)
  BY <1>4, WorkerAside
<1> QED BY <1>1, <1>2, <1>3, <1>4 DEF Next

-----------------------------------------------------------------------------
(* Controller implements FanLifecycle.                                        *)

\* Which driver a label is.
Kind(l) == IF l \in LoopPC THEN "loop" ELSE IF l \in TestPC THEN "test" ELSE "none"

\* Table and kinds as they were: the abstract state is as it was.
LEMMA SameView ==
  ASSUME IInv, UNCHANGED <<task, testing>>,
         \A w \in Workers : pc[w] \in TaskPC => Kind(pc'[w]) = Kind(pc[w])
  PROVE  UNCHANGED <<status, driver>>
<1>1. \A f \in Fans : task[f] # None => task[f] \in Workers /\ pc[task[f]] \in TaskPC
  BY DEF IInv, TypeOK, TableOK, ThreadOfTask
<1>2. status' = status
  BY DEF status
<1>3. \A f \in Fans : task[f] # None => Kind(pc'[task[f]]) = Kind(pc[task[f]])
  BY <1>1
<1>4. driver = [f \in Fans |-> IF task[f] = None THEN "none" ELSE Kind(pc[task[f]])]
  BY DEF driver, Kind
<1>5. driver' = [f \in Fans |-> IF task[f] = None THEN "none" ELSE Kind(pc'[task[f]])]
  BY DEF driver, Kind
<1> QED BY <1>2, <1>3, <1>4, <1>5

\* A thread of a task goes from one label to another.
LEMMA RunView ==
  ASSUME IInv, NEW w \in Workers, pc[w] \in TaskPC, NEW l, pc' = [pc EXCEPT ![w] = l],
         UNCHANGED <<task, testing>>
  PROVE  /\ fan[w] \in Fans /\ task[fan[w]] = w
         /\ status' = status
         /\ driver[fan[w]] = Kind(pc[w])
         /\ driver' = [driver EXCEPT ![fan[w]] = Kind(l)]
<1>types. ThreadsOK /\ TableOK BY DEF IInv, TypeOK
<1>linked. TaskOfThread /\ ThreadOfTask BY DEF IInv
<1>1. fan[w] \in Fans /\ task[fan[w]] = w
  BY <1>linked DEF TaskOfThread
<1>2. \A f \in Fans : f # fan[w] => task[f] # w
  BY <1>linked DEF ThreadOfTask
<1>3. pc'[w] = l /\ \A v \in Workers : v # w => pc'[v] = pc[v]
  BY <1>types DEF ThreadsOK
<1>4. status' = status
  BY DEF status
<1>5. driver = [f \in Fans |-> IF task[f] = None THEN "none" ELSE Kind(pc[task[f]])]
  BY DEF driver, Kind
<1>6. driver' = [f \in Fans |-> IF task[f] = None THEN "none" ELSE Kind(pc'[task[f]])]
  BY DEF driver, Kind
<1>7. driver' = [driver EXCEPT ![fan[w]] = Kind(l)]
  BY <1>1, <1>2, <1>3, <1>5, <1>6, <1>types DEF TableOK
<1> QED BY <1>1, <1>4, <1>5, <1>7

\* The control loop keeps driving, or stops while status() says ENABLED.
LEMMA LoopMoves ==
  ASSUME IInv, NEW w \in Workers,
         LoopTop(w) \/ LoopStatus(w) \/ LoopUpdate(w) \/ LoopRelease(w)
  PROVE  [Lifecycle!Next]_<<status, driver>>
<1>1. PICK l \in LoopPC \cup {"exited"} : pc' = [pc EXCEPT ![w] = l]
  BY DEF LoopTop, LoopStatus, LoopUpdate, LoopRelease, Goto
<1>2. pc[w] \in LoopPC /\ UNCHANGED <<task, testing>>
  BY DEF LoopTop, LoopStatus, LoopUpdate, LoopRelease
<1>3. /\ fan[w] \in Fans /\ task[fan[w]] = w /\ status' = status
      /\ driver[fan[w]] = "loop" /\ driver' = [driver EXCEPT ![fan[w]] = Kind(l)]
  <2>1. Kind(pc[w]) = "loop"
    BY <1>2 DEF Kind
  <2> QED BY <1>1, <1>2, <2>1, RunView
<1>4. CASE l \in LoopPC
  <2>1. driver' = driver
    BY <1>3, <1>4 DEF Kind, driver
  <2> QED BY <1>3, <2>1
<1>5. CASE l = "exited"
  <2>1. status[fan[w]] = "ENABLED"
    BY <1>2, <1>3 DEF status, IInv, TestingTruthful
  <2>2. status' = [status EXCEPT ![fan[w]] = "ENABLED"]
    BY <1>3, <2>1 DEF status
  <2>3. Lifecycle!StopLoop(fan[w])
    BY <1>3, <1>5, <2>1, <2>2 DEF Kind, Lifecycle!StopLoop, Lifecycle!Move
  <2> QED BY <1>3, <2>3 DEF Lifecycle!Next
<1> QED BY <1>4, <1>5

\* A test begins to measure, or has measured while status() says TESTING.
LEMMA TestMoves ==
  ASSUME IInv, NEW w \in Workers, TestBegin(w) \/ TestRun(w)
  PROVE  [Lifecycle!Next]_<<status, driver>>
<1>1. PICK l \in {"test_run", "test_reset"} : pc' = [pc EXCEPT ![w] = l]
  BY DEF TestBegin, TestRun, Goto
<1>2. pc[w] \in TestPC /\ UNCHANGED <<task, testing>>
  BY DEF TestBegin, TestRun
<1>3. /\ fan[w] \in Fans /\ task[fan[w]] = w /\ status' = status
      /\ driver[fan[w]] = "test" /\ driver' = [driver EXCEPT ![fan[w]] = Kind(l)]
  <2>1. Kind(pc[w]) = "test"
    BY <1>2 DEF Kind
  <2> QED BY <1>1, <1>2, <2>1, RunView
<1>4. CASE l = "test_run"
  <2>1. driver' = driver
    BY <1>3, <1>4 DEF Kind, driver
  <2> QED BY <1>3, <2>1
<1>5. CASE l = "test_reset"
  <2>1. status[fan[w]] = "TESTING"
    BY <1>2, <1>3 DEF status, IInv, TestingTruthful
  <2>2. status' = [status EXCEPT ![fan[w]] = "TESTING"]
    BY <1>3, <2>1 DEF status
  <2>3. Lifecycle!Measured(fan[w])
    BY <1>3, <1>5, <2>1, <2>2 DEF Kind, Lifecycle!Measured, Lifecycle!Move
  <2> QED BY <1>3, <2>3 DEF Lifecycle!Next
<1> QED BY <1>4, <1>5

\* The test's status is reset when its measurement is over.
LEMMA ResetMoves ==
  ASSUME IInv, NEW w \in Workers, TestReset(w)
  PROVE  Lifecycle!Next
<1>types. ThreadsOK /\ TableOK BY DEF IInv, TypeOK
<1>linked. TaskOfThread /\ ThreadOfTask /\ TestingTruthful BY DEF IInv
<1> DEFINE f == fan[w]
<1>1. pc[w] = "test_reset" /\ pc' = [pc EXCEPT ![w] = "test_count"] /\ task' = task
      /\ testing' = [testing EXCEPT ![f] = FALSE]
  BY DEF TestReset, Goto
<1>2. f \in Fans /\ task[f] = w /\ testing[f]
  BY <1>1, <1>linked DEF TaskOfThread, TestingTruthful
<1>3. \A g \in Fans : task[g] # None /\ g # f => pc'[task[g]] = pc[task[g]]
  BY <1>1, <1>linked, <1>types DEF ThreadOfTask, ThreadsOK, TableOK
<1>4. status[f] = "TESTING" /\ status' = [status EXCEPT ![f] = "ENABLED"]
  BY <1>1, <1>2, <1>types DEF status, TableOK
<1>5. driver[f] = "none" /\ driver'[f] = "none"
  BY <1>1, <1>2, <1>types DEF driver, ThreadsOK
<1>6. driver' = [driver EXCEPT ![f] = "none"]
  BY <1>1, <1>2, <1>3, <1>5 DEF driver
<1>7. Lifecycle!EndTest(f)
  BY <1>4, <1>5, <1>6 DEF Lifecycle!EndTest, Lifecycle!Move
<1> QED BY <1>2, <1>7 DEF Lifecycle!Next

\* A control loop or a test is started for a fan that has neither.
LEMMA StartMoves ==
  ASSUME IInv, NEW t \in Threads, Starts(t)
  PROVE  Lifecycle!Next
<1>types. ThreadsOK /\ TableOK BY DEF IInv, TypeOK
<1>linked. ThreadOfTask /\ TestingTruthful BY DEF IInv
<1> DEFINE f == fan[t]
<1>1. f \in Fans /\ task[f] = None /\ ~testing[f] /\ pc[t] \in {"enable_spawn", "test_spawn"}
  BY <1>types, <1>linked DEF Starts, EnableSpawn, TestSpawn, IInv, FrameOK, EntryKept,
     EmptyPC, ThreadsOK, SweepPC, TestingTruthful
<1>2. PICK w \in Workers : EnableSpawn(t, w) \/ TestSpawn(t, w)
  BY DEF Starts
<1>3. pc[w] = "idle" /\ task' = [task EXCEPT ![f] = w]
  BY <1>2 DEF EnableSpawn, TestSpawn
<1>4. \A g \in Fans : task[g] # None => pc'[task[g]] = pc[task[g]]
  <2>1. \A g \in Fans : task[g] # None => task[g] \in Workers /\ task[g] \notin {t, w}
    BY <1>1, <1>3, <1>types, <1>linked DEF ThreadOfTask, TableOK
  <2> QED BY <2>1, <1>2, <1>types DEF EnableSpawn, TestSpawn, ThreadsOK
<1>5. status[f] = "DISABLED" /\ driver[f] = "none"
  BY <1>1 DEF status, driver
<1>6. CASE EnableSpawn(t, w)
  <2>1. pc'[w] = "loop_top" /\ testing' = testing
    BY <1>3, <1>6, <1>1, <1>types DEF EnableSpawn, ThreadsOK
  <2>2. status' = [status EXCEPT ![f] = "ENABLED"]
    BY <2>1, <1>1, <1>3, <1>types DEF status, TableOK
  <2>3. driver' = [driver EXCEPT ![f] = "loop"]
    BY <2>1, <1>1, <1>3, <1>4, <1>types DEF driver, TableOK
  <2>4. Lifecycle!Enable(f)
    BY <2>2, <2>3, <1>5 DEF Lifecycle!Enable, Lifecycle!Move
  <2> QED BY <2>4, <1>1 DEF Lifecycle!Next
<1>7. CASE TestSpawn(t, w)
  <2>1. pc'[w] = "test_begin" /\ testing' = [testing EXCEPT ![f] = TRUE]
    BY <1>3, <1>7, <1>1, <1>types DEF TestSpawn, ThreadsOK
  <2>2. status' = [status EXCEPT ![f] = "TESTING"]
    BY <2>1, <1>1, <1>3, <1>types DEF status, TableOK
  <2>3. driver' = [driver EXCEPT ![f] = "test"]
    BY <2>1, <1>1, <1>3, <1>4, <1>types DEF driver, TableOK
  <2>4. Lifecycle!BeginTest(f)
    BY <2>2, <2>3, <1>5 DEF Lifecycle!BeginTest, Lifecycle!Move
  <2> QED BY <2>4, <1>1 DEF Lifecycle!Next
<1> QED BY <1>2, <1>6, <1>7

\* An entry is erased when its thread has ended, and so drives nothing.
LEMMA EraseMoves ==
  ASSUME IInv, NEW t \in Threads, Erases(t)
  PROVE  Lifecycle!Next
<1>types. ThreadsOK /\ TableOK BY DEF IInv, TypeOK
<1>linked. ThreadOfTask /\ TestingTruthful BY DEF IInv
<1> DEFINE f == fan[t]
<1> DEFINE w == task[f]
<1>0. pc[t] \in {"disable_join", "restart_join", "test_erase"}
      /\ \E l \in {"disable_tail", "enable", "test_spawn"} : Erase(t, l)
  BY DEF Erases, DisableJoin, RestartJoin, TestErase
<1>1. f \in Fans /\ w \in Workers /\ w # None
  BY <1>0, <1>types DEF IInv, FrameOK, EntryKept, JoinPC, SweepPC, ThreadsOK, TableOK
<1>2. pc[w] = "exited" /\ ~testing[f] /\ t # w
  BY <1>0, <1>1, <1>linked DEF Erase, TestingTruthful
<1>3. /\ task' = [task EXCEPT ![f] = None]
      /\ testing' = [testing EXCEPT ![f] = FALSE]
  BY <1>0 DEF Erase
<1>4. \A g \in Fans : task[g] # None /\ g # f => pc'[task[g]] = pc[task[g]]
  <2>1. \A g \in Fans : task[g] # None /\ g # f => task[g] \in Workers /\ task[g] \notin {t, w}
    BY <1>0, <1>1, <1>types, <1>linked DEF ThreadOfTask, TableOK
  <2> QED BY <2>1, <1>0, <1>types DEF Erase, ThreadsOK
<1>5. status[f] = "ENABLED" /\ driver[f] = "none"
  BY <1>1, <1>2 DEF status, driver
<1>6. status' = [status EXCEPT ![f] = "DISABLED"]
  BY <1>1, <1>2, <1>3, <1>types DEF status, TableOK
<1>7. driver' = [driver EXCEPT ![f] = "none"]
  BY <1>1, <1>3, <1>4, <1>types DEF driver, TableOK
<1>8. Lifecycle!Disable(f)
  BY <1>5, <1>6, <1>7 DEF Lifecycle!Disable, Lifecycle!Move
<1> QED BY <1>1, <1>8 DEF Lifecycle!Next

\* Every step is a move of FanLifecycle or leaves it alone.
LEMMA StepMoves == IInv /\ [Next]_vars => [Lifecycle!Next]_<<status, driver>>
<1> SUFFICES ASSUME IInv, [Next]_vars PROVE [Lifecycle!Next]_<<status, driver>>
  OBVIOUS
<1>1. CASE Aside
  BY <1>1, SameView DEF Aside
<1>2. CASE \E t \in Callers : Unwaits(t)
  <2>1. PICK t \in Callers : Unwaits(t)
    BY <1>2
  <2>2. UNCHANGED <<task, testing>> /\ \A w \in Workers : pc'[w] = pc[w]
    BY <2>1 DEF Unwaits, TestWait, TestJoin, Return, Goto, IInv, TypeOK, ThreadsOK
  <2> QED BY <2>2, SameView
<1>3. CASE \E t \in Threads : Starts(t) \/ Erases(t)
  BY <1>3, StartMoves, EraseMoves
<1>4. CASE \E w \in Workers : Runs(w)
  <2>1. PICK w \in Workers : Runs(w)
    BY <1>4
  <2>2. CASE LoopTop(w) \/ LoopStatus(w) \/ LoopUpdate(w) \/ LoopRelease(w)
    BY <2>2, LoopMoves
  <2>3. CASE TestBegin(w) \/ TestRun(w)
    BY <2>3, TestMoves
  <2>4. CASE TestReset(w)
    BY <2>4, ResetMoves
  <2>5. CASE TestCount(w) \/ TestSave(w) \/ \E r \in Workers : TestRestart(w, r)
    <3>1. UNCHANGED <<task, testing>>
      BY <2>5 DEF TestCount, TestSave, TestRestart
    <3>2. \A v \in Workers : pc[v] \in TaskPC => Kind(pc'[v]) = Kind(pc[v])
      BY <2>5 DEF TestCount, TestSave, TestRestart, Goto, Kind, IInv, TypeOK, ThreadsOK
    <3> QED BY <3>1, <3>2, SameView
  <2> QED BY <2>1, <2>2, <2>3, <2>4, <2>5 DEF Runs
<1> QED BY <1>1, <1>2, <1>3, <1>4, StepShapes

LEMMA StartView == Init => Lifecycle!Init
BY DEF Init, Lifecycle!Init, status, driver

\* The task table implements FanLifecycle: whatever the orders of enable,
\* disable, test, restart and exceptions, a fan is driven by nothing, a loop or
\* a test, a driver ends before its task is erased, and a test that was begun
\* is ended and not abandoned (Controller.cpp:18-74, 124-184).
THEOREM LifecycleTheorem == Spec => LifecycleSpec
BY Invariant, StartView, StepMoves, PTL DEF Spec, LifecycleSpec, Lifecycle!Spec

-----------------------------------------------------------------------------
(* Results reach the file, and a test's call outlasts its measurement.        *)

\* The labels from which a test's thread still has to decide about the file.
Deciding == TestPC \cup {"test_reset", "test_count", "test_save"}

\* A step beside the tasks, or that erases an ended one, moves no such thread.
LEMMA DecidersStay ==
  ASSUME IInv, \/ Aside
               \/ \E t \in Threads : Starts(t) \/ Erases(t)
               \/ \E t \in Callers : Unwaits(t)
  PROVE  \A w \in Workers : pc[w] \in Deciding => pc'[w] = pc[w]
<1>types. ThreadsOK /\ TableOK BY DEF IInv, TypeOK
<1> USE DEF Deciding
<1>1. CASE Aside
  BY <1>1 DEF Aside
<1>2. CASE \E t \in Threads : Starts(t)
  BY <1>2, <1>types DEF Starts, EnableSpawn, TestSpawn, ThreadsOK
<1>3. CASE \E t \in Threads : Erases(t)
  BY <1>3, <1>types DEF Erases, DisableJoin, RestartJoin, TestErase, Erase, ThreadsOK
<1>4. CASE \E t \in Callers : Unwaits(t)
  BY <1>4, <1>types DEF Unwaits, TestWait, TestJoin, Return, Goto, ThreadsOK
<1> QED BY <1>1, <1>2, <1>3, <1>4

LEMMA StepSaves == IInv /\ SavedWhenQuiet /\ [Next]_vars => SavedWhenQuiet'
<1> SUFFICES ASSUME IInv, SavedWhenQuiet, [Next]_vars, unsaved' # {}
             PROVE  \E w \in Workers : pc'[w] \in Deciding
  BY DEF SavedWhenQuiet, Deciding
<1>types. ThreadsOK /\ TableOK BY DEF IInv, TypeOK
<1>1. unsaved # {} => \E w \in Workers : pc[w] \in Deciding
  BY DEF SavedWhenQuiet, Deciding
<1>2. CASE \/ Aside
           \/ \E t \in Threads : Starts(t) \/ Erases(t)
           \/ \E t \in Callers : Unwaits(t)
  <2>1. unsaved' = unsaved
    BY <1>2 DEF Aside, Starts, EnableSpawn, TestSpawn, Erases, DisableJoin, RestartJoin,
       TestErase, Unwaits, TestWait, TestJoin
  <2> QED BY <1>1, <1>2, <2>1, DecidersStay
<1>3. CASE \E w \in Workers : Runs(w)
  <2>1. PICK w \in Workers : Runs(w)
    BY <1>3
  <2>2. CASE TestRun(w) \/ TestReset(w)
    BY <2>2, <1>types DEF TestRun, TestReset, Goto, Deciding, ThreadsOK
  <2>3. CASE TestSave(w)
    BY <2>3 DEF TestSave
  <2>4. CASE TestCount(w)
    <3>1. CASE pc'[w] \in Deciding
      BY <3>1
    <3>2. CASE pc'[w] \notin Deciding
      <4>1. PICK f \in Fans : testing[f]
        BY <2>4, <3>2, <1>types DEF TestCount, Goto, Deciding, ThreadsOK
      <4>2. task[f] \in Workers /\ pc[task[f]] \in TestPC \cup {"test_reset"}
        BY <4>1, <1>types DEF IInv, TestingTruthful, TableOK
      <4>3. pc'[task[f]] = pc[task[f]]
        BY <4>2, <2>4, <1>types DEF TestCount, Goto, ThreadsOK
      <4> QED BY <4>2, <4>3 DEF Deciding
    <3> QED BY <3>1, <3>2
  <2>5. CASE LoopTop(w) \/ LoopStatus(w) \/ LoopUpdate(w) \/ LoopRelease(w)
             \/ \E r \in Workers : TestRestart(w, r)
    <3>1. unsaved' = unsaved
      BY <2>5 DEF LoopTop, LoopStatus, LoopUpdate, LoopRelease, TestRestart
    <3>2. \A v \in Workers : pc[v] \in Deciding => pc'[v] = pc[v]
      BY <2>5, <1>types DEF LoopTop, LoopStatus, LoopUpdate, LoopRelease, TestRestart, Goto,
         Deciding, ThreadsOK
    <3> QED BY <1>1, <3>1, <3>2
  <2>6. CASE TestBegin(w)
    BY <2>6, <1>1, <1>types DEF TestBegin, Goto, Deciding, ThreadsOK
  <2> QED BY <2>1, <2>2, <2>3, <2>4, <2>5, <2>6 DEF Runs
<1> QED BY <1>2, <1>3, StepShapes

\* Results of a test are in the file, or a thread is still to write them: of
\* tests that overlap in any way, one of the last sees no other (Controller.cpp:140).
THEOREM SavedTheorem == Spec => []SavedWhenQuiet
<1>1. Init => SavedWhenQuiet
  BY DEF Init, SavedWhenQuiet
<1> QED BY <1>1, Invariant, StepSaves, PTL DEF Spec

\* The call waits for the test of w, in whose frame the test's status is.
Awaits(c, w) ==
  c # None => fan[c] = fan[w] /\ pc[c] \in {"test_wait", "test_join"} /\ ret[c] # "merge_test"

\* A step that neither starts w nor moves c leaves c waiting for w.
LEMMA StillAwaits ==
  ASSUME NEW w \in Workers, NEW c, Awaits(c, w),
         c # None => /\ pc'[c] = pc[c] /\ fan'[c] = fan[c] /\ ret'[c] = ret[c]
                     /\ fan'[w] = fan[w]
  PROVE  Awaits(c, w)'
BY DEF Awaits

LEMMA StepAwaits == IInv /\ NoDanglingStatus /\ [Next]_vars => NoDanglingStatus'
<1> SUFFICES ASSUME IInv, NoDanglingStatus, [Next]_vars,
                    NEW w \in Workers, pc'[w] \in TestPC
             PROVE  Awaits(ref[w], w)'
  BY DEF NoDanglingStatus, Awaits, Blocking
<1>types. ThreadsOK /\ TableOK BY DEF IInv, TypeOK
<1>linked. TaskOfThread BY DEF IInv
<1>0. pc[w] \in TestPC => Awaits(ref[w], w)
  BY DEF NoDanglingStatus, Awaits, Blocking
<1>ref. ref[w] \in Callers \cup {None}
  BY <1>types DEF TableOK
<1>1. CASE Aside
  <2>1. pc[w] \in TestPC /\ fan'[w] = fan[w] /\ ref'[w] = ref[w]
    BY <1>1 DEF Aside
  <2>2. ref[w] # None => /\ pc'[ref[w]] = pc[ref[w]] /\ fan'[ref[w]] = fan[ref[w]]
                         /\ ret'[ref[w]] = ret[ref[w]]
    BY <2>1, <1>0, <1>1, <1>ref DEF Aside, Awaits
  <2> QED BY <1>0, <2>1, <2>2, StillAwaits DEF Awaits
<1>2. CASE \E t \in Threads : Starts(t)
  <2>1. PICK t \in Threads, v \in Workers : EnableSpawn(t, v) \/ TestSpawn(t, v)
    BY <1>2 DEF Starts
  <2>2. CASE EnableSpawn(t, v)
    <3>1. pc[w] \in TestPC /\ w # t /\ w # v
      BY <2>2, <1>types DEF EnableSpawn, ThreadsOK, SweepPC
    <3> QED BY <1>0, <1>ref, <2>2, <3>1, <1>types DEF EnableSpawn, Awaits, ThreadsOK
  <2>3. CASE TestSpawn(t, v) /\ w # v
    <3>1. pc[w] \in TestPC /\ w # t
      BY <2>3, <1>types DEF TestSpawn, ThreadsOK
    <3>2. ref'[w] = ref[w] /\ (ref[w] # None => ref[w] # t /\ ref[w] # v)
      BY <1>0, <1>ref, <2>3, <3>1, <1>types DEF TestSpawn, Awaits, TableOK, ThreadsOK
    <3> QED BY <1>0, <1>ref, <2>3, <3>1, <3>2, <1>types DEF TestSpawn, Awaits, ThreadsOK
  <2>4. CASE TestSpawn(t, v) /\ w = v
    <3>1. t \in Callers
      BY <2>4, <1>types DEF TestSpawn, ThreadsOK, WorkPC, EnablePC
    <3>2. ref'[w] = IF Blocking(t) THEN t ELSE None
      BY <2>4, <1>types DEF TestSpawn, TableOK
    <3> QED BY <2>4, <3>1, <3>2, <1>types
            DEF TestSpawn, Awaits, Blocking, ThreadsOK, IInv, FrameOK, WriterInv, Holds
  <2> QED BY <2>1, <2>2, <2>3, <2>4
<1>3. CASE \E t \in Threads : Erases(t)
  BY <1>0, <1>ref, <1>3, <1>types DEF Erases, DisableJoin, RestartJoin, TestErase, Erase,
     Awaits, ThreadsOK, TableOK
<1>4. CASE \E t \in Callers : Unwaits(t)
  <2>1. PICK t \in Callers : Unwaits(t)
    BY <1>4
  <2>2. /\ pc'[w] = pc[w] /\ fan'[w] = fan[w] /\ ref' = ref /\ ret' = ret
        /\ \A c \in Callers \ {t} : pc'[c] = pc[c] /\ fan'[c] = fan[c]
    BY <2>1, <1>types DEF Unwaits, TestWait, TestJoin, Return, Goto, ThreadsOK
  <2>3. CASE ref[w] # t
    BY <1>0, <1>ref, <2>2, <2>3, StillAwaits
  <2>4. CASE ref[w] = t
    <3>1. fan[t] = fan[w] /\ Blocking(t) /\ task[fan[t]] = w /\ pc[w] # "exited"
      BY <1>0, <1>linked, <2>2, <2>4 DEF Awaits, Blocking, TaskOfThread
    <3>2. TestWait(t) /\ pc'[t] = "test_join" /\ fan' = fan
      BY <2>1, <3>1, <1>types DEF Unwaits, TestWait, TestJoin, Goto, ThreadsOK
    <3> QED BY <1>0, <2>2, <2>4, <3>2 DEF Awaits
  <2> QED BY <2>3, <2>4
<1>5. CASE \E v \in Workers : Runs(v)
  <2>1. PICK v \in Workers : Runs(v)
    BY <1>5
  <2>2. /\ pc[w] \in TestPC /\ fan'[w] = fan[w] /\ ref' = ref /\ ret' = ret
        /\ \A c \in Callers : pc'[c] = pc[c] /\ fan'[c] = fan[c]
    BY <2>1, <1>types DEF Runs, LoopTop, LoopStatus, LoopUpdate, LoopRelease,
       TestBegin, TestRun, TestReset, TestCount, TestSave, TestRestart, Goto, ThreadsOK
  <2> QED BY <1>0, <1>ref, <2>2, StillAwaits
<1> QED BY <1>1, <1>2, <1>3, <1>4, <1>5, StepShapes

\* While a test that a blocking call started measures, that call, whose
\* test_status and label the lambda took by reference, has not returned, although
\* other calls, a reload among them, may erase, join or restart the task
\* (Controller.cpp:129, 163-184). merge()'s own tests are left out.
THEOREM DanglingTheorem == Spec => []NoDanglingStatus
<1>1. Init => NoDanglingStatus
  BY DEF Init, NoDanglingStatus
<1> QED BY <1>1, Invariant, StepAwaits, PTL DEF Spec

-----------------------------------------------------------------------------
(* That no fan is left in manual mode with nobody to drive or release it, for *)
(* every set of fans, callers and workers, when no client calls Recover.      *)
(*                                                                            *)
(* NoStrandedFan is not inductive: the restart thread of a test leaves a fan  *)
(* alone when it finds a task, and the thread of that task may have ended.    *)
(* SInv adds why this is harmless: a thread that ended with its fan in manual *)
(* mode was a test's, and the restart thread it left behind has yet to look   *)
(* at the fan (EndedOK). An ignored fan, which that thread would not enable,  *)
(* is never tested (TestedOK).                                                *)

\* The fans NoStrandedFan is about.
Plain == Configured \ (Dell \cup Flaky \cup Throwing)

NoRecover == \A t \in Threads : pc[t] \notin {"recover", "recover_fan"}
TestedOK ==
  \A t \in Threads :
    pc[t] \in {"test", "test_erase", "test_spawn", "test_reset"} \cup TestPC =>
      fan[t] \notin Ignored
\* merge() has yet to test only what it found under test.
RetestOK == \A t \in Threads : ret[t] = "merge_test" => sweep[t] \cap Ignored = {}

Ended(f) == task[f] # None /\ pc[task[f]] = "exited"
Restarts(t, f) == t \in Workers /\ fan[t] = f /\ pc[t] \in {"restart", "restart_join"}
\* A fan in manual mode has somebody responsible, and a restart thread when its
\* own thread has ended.
Released(f) ==
  mode[f] = "manual" =>
    /\ f \notin Ignored
    /\ \E t \in Threads : Responsible(t, f)
    /\ Ended(f) => \E t \in Workers : Restarts(t, f)
SInv == NoRecover /\ TestedOK /\ RetestOK /\ \A f \in Plain : Released(f)

LEMMA SInvImplies == SInv => NoStrandedFan
BY DEF SInv, Released, NoStrandedFan, Plain

-----------------------------------------------------------------------------
(* Shapes of steps.                                                           *)

\* One thread moves; it stays responsible if it was, or the fan is released.
LEMMA OneMoves ==
  ASSUME IInv, SInv, NEW f \in Plain, NEW t \in Threads,
         \A s \in Threads \ {t} : pc'[s] = pc[s] /\ fan'[s] = fan[s],
         task'[f] = task[f],
         mode'[f] = "manual" => mode[f] = "manual",
         Responsible(t, f) => Responsible(t, f)' \/ mode'[f] # "manual",
         Restarts(t, f) => Restarts(t, f)' \/ task[f] = None,
         pc'[t] = "exited" => pc[t] = "exited" \/ task[f] # t \/ mode'[f] # "manual"
  PROVE  Released(f)'
<1> SUFFICES ASSUME mode'[f] = "manual" PROVE Released(f)'
  BY DEF Released
<1>1. Released(f) /\ mode[f] = "manual" /\ f \in Fans
  BY DEF SInv, Plain
<1>2. f \notin Ignored
  BY <1>1 DEF Released
<1>3. \E s \in Threads : Responsible(s, f)'
  BY <1>1 DEF Released, Responsible
<1>4. ASSUME Ended(f)' PROVE \E s \in Workers : Restarts(s, f)'
  <2>1. task[f] \in Workers \cup {None}
    BY <1>1 DEF IInv, TypeOK, TableOK
  <2>2. Ended(f)
    BY <1>4, <2>1 DEF Ended
  <2>3. PICK s \in Workers : Restarts(s, f)
    BY <1>1, <2>2 DEF Released
  <2> QED BY <2>2, <2>3 DEF Restarts, Ended
<1> QED BY <1>2, <1>3, <1>4 DEF Released

\* A task is erased: its ended thread was responsible for nothing.
LEMMA EraseReleases ==
  ASSUME IInv, SInv, NEW f \in Plain, NEW t \in Threads,
         NEW l \in {"disable_tail", "enable", "test_spawn"}, Erase(t, l),
         pc[t] \in {"disable_join", "restart_join", "test_erase"},
         pc[t] = "restart_join" => l = "enable" /\ t \in Workers,
         mode' = mode
  PROVE  Released(f)'
<1>types. ThreadsOK /\ TableOK BY DEF IInv, TypeOK
<1>linked. ThreadOfTask BY DEF IInv
<1> DEFINE g == fan[t]
<1> DEFINE w == task[g]
<1>1. g \in Fans /\ w \in Workers /\ w # None /\ t # w /\ pc[w] = "exited"
  BY <1>types, <1>linked DEF IInv, FrameOK, EntryKept, JoinPC, SweepPC, ThreadsOK, TableOK,
     Erase
<1>2. /\ task' = [task EXCEPT ![g] = None]
      /\ pc' = [pc EXCEPT ![t] = l, ![w] = "idle"]
      /\ fan' = [fan EXCEPT ![w] = None]
  BY DEF Erase
<1> SUFFICES ASSUME mode'[f] = "manual" PROVE Released(f)'
  BY DEF Released
<1>3. Released(f) /\ mode[f] = "manual" /\ f \in Fans
  BY DEF SInv, Plain
<1>4. f \notin Ignored
  BY <1>3 DEF Released
<1>5. \E s \in Threads : Responsible(s, f)'
  <2>1. PICK s \in Threads : Responsible(s, f)
    BY <1>3 DEF Released
  <2>2. s # w
    BY <1>1, <2>1 DEF Responsible
  <2>3. Responsible(s, f)'
    BY <1>1, <1>2, <1>types, <2>1, <2>2 DEF Responsible, ThreadsOK
  <2> QED BY <2>3
<1>6. ASSUME Ended(f)' PROVE \E s \in Workers : Restarts(s, f)'
  <2>1. f # g /\ task[f] # None /\ task'[f] = task[f]
    BY <1>1, <1>2, <1>3, <1>6, <1>types DEF Ended, TableOK
  <2>2. task[f] # t /\ task[f] # w
    BY <1>1, <2>1, <1>3, <1>linked DEF ThreadOfTask
  <2>3. Ended(f)
    BY <1>2, <1>6, <2>1, <2>2, <1>3, <1>types DEF Ended, ThreadsOK, TableOK
  <2>4. PICK s \in Workers : Restarts(s, f)
    BY <1>3, <2>3 DEF Released
  <2>5. s # t /\ s # w
    BY <1>1, <2>1, <2>4 DEF Restarts
  <2> QED BY <1>2, <2>4, <2>5, <1>types DEF Restarts, ThreadsOK
<1> QED BY <1>4, <1>5, <1>6 DEF Released

\* A thread of a task starts; the thread that starts it answers for one fan only.
LEMMA SpawnReleases ==
  ASSUME IInv, SInv, NEW f \in Plain, NEW t \in Threads, NEW w \in Workers,
         EnableSpawn(t, w) \/ TestSpawn(t, w)
  PROVE  Released(f)'
<1>types. ThreadsOK /\ TableOK BY DEF IInv, TypeOK
<1>linked. ThreadOfTask BY DEF IInv
<1> DEFINE g == fan[t]
<1>1. pc[w] = "idle" /\ t # w /\ task' = [task EXCEPT ![g] = w] /\ mode' = mode
  BY DEF EnableSpawn, TestSpawn
<1>2. /\ pc'[w] \in LoopPC \cup TestPC /\ fan'[w] = g
      /\ pc'[t] # "exited"
      /\ \A s \in Threads \ {t, w} : pc'[s] = pc[s] /\ fan'[s] = fan[s]
  BY <1>1, <1>types DEF EnableSpawn, TestSpawn, ThreadsOK, SweepPC
<1> SUFFICES ASSUME mode'[f] = "manual" PROVE Released(f)'
  BY DEF Released
<1>3. Released(f) /\ mode[f] = "manual" /\ f \in Fans
  BY <1>1 DEF SInv, Plain
<1>4. f \notin Ignored
  BY <1>3 DEF Released
<1>5. CASE f = g
  <2>1. Responsible(w, f)'
    BY <1>2, <1>5 DEF Responsible
  <2>2. ~Ended(f)'
    BY <1>1, <1>2, <1>3, <1>5, <1>types DEF Ended, TableOK
  <2> QED BY <1>4, <2>1, <2>2 DEF Released
<1>6. CASE f # g
  <2>1. \E s \in Threads : Responsible(s, f)'
    <3>1. PICK s \in Threads : Responsible(s, f)
      BY <1>3 DEF Released
    <3>2. s # t /\ s # w
      BY <1>1, <1>6, <3>1 DEF Responsible
    <3> QED BY <1>2, <3>1, <3>2 DEF Responsible
  <2>2. ASSUME Ended(f)' PROVE \E s \in Workers : Restarts(s, f)'
    <3>1. task[f] # None /\ task'[f] = task[f] /\ task[f] \notin {t, w}
      BY <1>1, <1>3, <1>6, <2>2, <1>types, <1>linked DEF Ended, ThreadOfTask, TableOK
    <3>2. Ended(f)
      BY <1>2, <1>3, <2>2, <3>1, <1>types DEF Ended, TableOK
    <3>3. PICK s \in Workers : Restarts(s, f)
      BY <1>3, <3>2 DEF Released
    <3>4. s # t /\ s # w
      BY <1>1, <1>6, <3>3 DEF Restarts
    <3> QED BY <1>2, <3>3, <3>4 DEF Restarts
  <2> QED BY <1>4, <2>1, <2>2 DEF Released
<1> QED BY <1>5, <1>6

\* A test's thread ends and leaves a restart thread behind.
LEMMA RestartReleases ==
  ASSUME IInv, SInv, NEW f \in Plain, NEW w \in Workers, NEW r \in Workers,
         TestRestart(w, r)
  PROVE  Released(f)'
<1>types. ThreadsOK /\ TableOK BY DEF IInv, TypeOK
<1>linked. TaskOfThread /\ ThreadOfTask BY DEF IInv
<1>1. /\ pc[w] = "test_restart" /\ pc[r] = "idle" /\ w # r
      /\ pc'[w] = "exited" /\ pc'[r] = "restart" /\ fan'[r] = fan[w] /\ fan'[w] = fan[w]
      /\ \A s \in Threads \ {w, r} : pc'[s] = pc[s] /\ fan'[s] = fan[s]
      /\ task' = task /\ mode' = mode
  BY <1>types DEF TestRestart, ThreadsOK
<1> SUFFICES ASSUME mode'[f] = "manual" PROVE Released(f)'
  BY DEF Released
<1>2. Released(f) /\ mode[f] = "manual" /\ f \in Fans
  BY <1>1 DEF SInv, Plain
<1>3. f \notin Ignored
  BY <1>2 DEF Released
<1>4. CASE f = fan[w]
  BY <1>1, <1>3, <1>4 DEF Released, Responsible, Restarts
<1>5. CASE f # fan[w]
  <2>1. task[f] # w /\ task[f] # r
    BY <1>1, <1>2, <1>5, <1>linked DEF ThreadOfTask
  <2>2. Ended(f)' => Ended(f)
    BY <1>1, <1>2, <2>1, <1>types DEF Ended, TableOK
  <2>3. \A s \in Threads : Responsible(s, f) => Responsible(s, f)'
    BY <1>1, <1>5 DEF Responsible
  <2>4. \A s \in Workers : Restarts(s, f) => Restarts(s, f)'
    BY <1>1, <1>5 DEF Restarts
  <2> QED BY <1>2, <1>3, <2>2, <2>3, <2>4 DEF Released
<1> QED BY <1>4, <1>5

-----------------------------------------------------------------------------
(* The actions.                                                               *)

LEMMA CallReleases ==
  ASSUME IInv, SInv, NEW f \in Plain, NEW t \in Callers, NewCall(t) \/ Unsubscribe(t)
  PROVE  Released(f)'
<1>types. ThreadsOK BY DEF IInv, TypeOK
<1>1. /\ pc[t] \in {"idle", "subscribed"} /\ pc'[t] # "exited"
      /\ \A s \in Threads \ {t} : pc'[s] = pc[s] /\ fan'[s] = fan[s]
      /\ task' = task /\ mode' = mode
  BY <1>types DEF NewCall, Enable, Disable, Test, GetFanStatus, EnableAll, DisableAll,
     Recover, SubscribeFanStatus, Reload, Request, CallOn, CallSweep, Goto, Unsubscribe, ThreadsOK
<1> QED BY <1>1, OneMoves DEF Responsible, Restarts

\* A restart thread that finds a task leaves the fan to the thread it finds.
LEMMA SkipReleases ==
  ASSUME IInv, SInv, NEW f \in Plain, NEW t \in Threads, EnableSkip(t)
  PROVE  Released(f)'
<1>types. ThreadsOK /\ TableOK BY DEF IInv, TypeOK
<1>linked. ThreadOfTask BY DEF IInv
<1>1. /\ pc[t] = "enable" /\ pc'[t] = ret[t] /\ fan'[t] = None /\ task' = task
      /\ \A s \in Threads \ {t} : pc'[s] = pc[s] /\ fan'[s] = fan[s]
      /\ fan[t] \in Fans
  BY <1>types DEF EnableSkip, Return, Goto, ThreadsOK, IInv, FrameOK, SweepPC
<1>2. pc'[t] \notin TaskPC
  BY <1>1, <1>types DEF ThreadsOK, SweepPC
<1>3. f \in Fans /\ f \in Configured /\ f \notin Dell /\ f \notin Flaky
  BY DEF Plain
<1>4. mode'[f] = mode[f] \/ mode'[f] = "auto"
  BY <1>3, <1>types DEF EnableSkip, DisableControl, EnableControl, SetMode, Chip, TableOK
<1> SUFFICES ASSUME mode'[f] = "manual" PROVE Released(f)'
  BY DEF Released
<1>5. Released(f) /\ mode[f] = "manual" /\ f \notin Ignored
  BY <1>4 DEF SInv, Released
<1>6. \A s \in Workers : Restarts(s, f) => Restarts(s, f)'
  BY <1>1 DEF Restarts
<1>7. Ended(f)' => Ended(f)
  BY <1>1, <1>2, <1>3, <1>types DEF Ended, TableOK
<1>8. \E s \in Threads : Responsible(s, f)'
  <2>1. CASE fan[t] # f
    BY <2>1, <1>1, <1>5 DEF Released, Responsible
  <2>2. CASE fan[t] = f
    <3>1. task[f] # None
      BY <2>2, <1>3, <1>5, <1>1 DEF EnableSkip
    <3>2. task[f] \in Workers /\ fan[task[f]] = f /\ pc[task[f]] \in TaskPC
      BY <3>1, <1>3, <1>linked, <1>types DEF ThreadOfTask, TableOK
    <3>3. CASE pc[task[f]] = "exited"
      <4>1. PICK s \in Workers : Restarts(s, f)
        BY <3>1, <3>3, <1>5 DEF Released, Ended
      <4> QED BY <4>1, <1>6 DEF Restarts, Responsible
    <3>4. CASE pc[task[f]] # "exited"
      <4>1. task[f] # t
        BY <3>2, <1>1
      <4>2. Responsible(task[f], f)'
        BY <3>2, <3>4, <4>1, <1>1 DEF Responsible
      <4> QED BY <1>1, <3>2, <4>2
    <3> QED BY <3>3, <3>4
  <2> QED BY <2>1, <2>2
<1> QED BY <1>5, <1>6, <1>7, <1>8 DEF Released

\* Control is taken by a thread that goes on to start a task.
LEMMA TakeReleases ==
  ASSUME IInv, SInv, NEW f \in Plain, NEW t \in Threads, EnableTake(t)
  PROVE  Released(f)'
<1>types. ThreadsOK /\ TableOK BY DEF IInv, TypeOK
<1>1. f \in Fans /\ f \notin Dell /\ f \notin Flaky
  BY DEF Plain
<1>2. /\ pc[t] = "enable" /\ task[fan[t]] = None /\ fan[t] \notin Ignored
      /\ fan[t] \in Fans /\ task' = task
      /\ pc'[t] \in {"enable_dell", "enable_spawn"}
      /\ \A s \in Threads \ {t} : pc'[s] = pc[s] /\ fan'[s] = fan[s]
  BY <1>types DEF EnableTake, SweepDell, Goto, ThreadsOK
<1>3. CASE fan[t] = f
  <2>1. pc'[t] = "enable_spawn" /\ fan'[t] = f
    BY <1>1, <1>3, <1>types DEF EnableTake, Goto, ThreadsOK
  <2>2. Responsible(t, f)'
    BY <2>1 DEF Responsible
  <2> QED BY <1>2, <1>3, <2>2 DEF Released, Ended
<1>4. CASE fan[t] # f
  <2>1. mode'[f] = mode[f]
    BY <1>1, <1>4, <1>types DEF EnableTake, EnableControl, SetMode, Chip, TableOK
  <2> QED BY <1>2, <1>4, <2>1, OneMoves DEF Responsible, Restarts
<1> QED BY <1>3, <1>4

LEMMA EnableReleases ==
  ASSUME IInv, SInv, NEW f \in Plain, NEW t \in Threads, EnableStep(t)
  PROVE  Released(f)'
<1>types. ThreadsOK BY DEF IInv, TypeOK
<1>1. CASE EnableDell(t)
  <2>1. /\ pc[t] = "enable_dell" /\ pc'[t] # "exited"
        /\ \A s \in Threads \ {t} : pc'[s] = pc[s] /\ fan'[s] = fan[s]
        /\ task' = task /\ mode' = mode
    BY <1>1, <1>types DEF EnableDell, VisitNext, Resume, Goto, ThreadsOK
  <2> QED BY <2>1, OneMoves DEF Responsible, Restarts
<1> QED BY <1>1, SkipReleases, TakeReleases, SpawnReleases DEF EnableStep

\* Control is given back: the fan, if it is this one, is in automatic mode.
LEMMA TailReleases ==
  ASSUME IInv, SInv, NEW f \in Plain, NEW t \in Threads,
         DisableTail(t) \/ LoopRelease(t)
  PROVE  Released(f)'
<1>types. ThreadsOK /\ TableOK BY DEF IInv, TypeOK
<1>linked. TaskOfThread /\ ThreadOfTask BY DEF IInv
<1>1. f \in Fans /\ f \notin Dell /\ f \notin Flaky
  BY DEF Plain
<1>2. /\ pc[t] \in {"disable_tail", "loop_release"} /\ task' = task
      /\ DisableControl(fan[t])
      /\ \A s \in Threads \ {t} : pc'[s] = pc[s] /\ fan'[s] = fan[s]
      /\ pc'[t] = "exited" => pc[t] = "loop_release"
  BY <1>types DEF DisableTail, LoopRelease, SweepDell, Goto, ThreadsOK
<1>3. CASE fan[t] = f
  <2>1. mode'[f] = "auto"
    BY <1>1, <1>2, <1>3 DEF DisableControl, SetMode, Chip
  <2> QED BY <2>1 DEF Released
<1>4. CASE fan[t] # f
  <2>1. mode'[f] = "manual" => mode[f] = "manual"
    BY <1>1, <1>2, <1>types DEF DisableControl, SetMode, TableOK
  <2>2. task[f] # t
    BY <1>1, <1>4, <1>linked, <1>types DEF ThreadOfTask
  <2> QED BY <1>2, <1>4, <2>1, <2>2, OneMoves DEF Responsible, Restarts
<1> QED BY <1>3, <1>4

LEMMA CallerReleases ==
  ASSUME IInv, SInv, NEW f \in Plain, NEW t \in Callers, CallerStep(t)
  PROVE  Released(f)'
<1>types. ThreadsOK BY DEF IInv, TypeOK
<1> DEFINE Rest == \/ EnableAllNext(t) \/ DisableEnter(t) \/ DisableDell(t)
                   \/ DisableNotify(t) \/ DisableAllNext(t) \/ MergeTest(t) \/ TestEnter(t)
                   \/ TestWait(t) \/ TestJoin(t) \/ Status(t) \/ Subscribe(t)
<1>1. CASE Rest
  <2>1. /\ pc[t] \notin {"enable_spawn", "disable_tail", "exited"}
        /\ t \notin Workers /\ pc[t] \notin TaskPC
        /\ task' = task /\ mode' = mode
    BY <1>1, <1>types DEF EnableAllNext, DisableEnter, DisableDell, DisableNotify,
       DisableAllNext, MergeTest, TestEnter, TestWait, TestJoin, Status, Subscribe, LockAndJoin,
       ThreadsOK
  <2>2. \A s \in Threads \ {t} : pc'[s] = pc[s] /\ fan'[s] = fan[s]
    BY <1>1, <1>types DEF EnableAllNext, DisableEnter, DisableDell, DisableNotify,
       DisableAllNext, MergeTest, TestEnter, TestWait, TestJoin, Status, Subscribe, LockAndJoin,
       Return, Goto, VisitNext, Resume, EndSweep, ThreadsOK
  <2>3. task[f] # t
    BY <2>1 DEF IInv, TypeOK, TableOK, Plain
  <2>4. ~Responsible(t, f) /\ ~Restarts(t, f)
    BY <2>1, <1>types
    DEF Responsible, Restarts, ThreadsOK, CallPC, AskPC, EnablePC, DisablePC, SweepPC
  <2> QED BY <2>1, <2>2, <2>3, <2>4, OneMoves
<1>2. CASE DisableTail(t)
  BY <1>2, TailReleases
<1>3. CASE DisableJoin(t)
  BY <1>3, EraseReleases DEF DisableJoin
<1>4. CASE TestErase(t)
  BY <1>4, EraseReleases DEF TestErase
<1>5. CASE \E w \in Workers : TestSpawn(t, w)
  BY <1>5, SpawnReleases
<1>6. CASE RecoverNext(t) \/ RecoverFan(t)
  BY <1>6 DEF RecoverNext, RecoverFan, SInv, NoRecover
<1> QED BY <1>1, <1>2, <1>3, <1>4, <1>5, <1>6 DEF CallerStep

\* A step of a task's thread that leaves it inside its task.
LEMMA InsideReleases ==
  ASSUME IInv, SInv, NEW f \in Plain, NEW w \in Workers, NEW l \in TaskPC \ {"exited"},
         pc[w] \in TaskPC \ {"exited"}, pc' = [pc EXCEPT ![w] = l], UNCHANGED <<fan, task>>,
         mode'[f] = "manual" => mode[f] = "manual"
  PROVE  Released(f)'
<1>types. ThreadsOK BY DEF IInv, TypeOK
<1>1. pc'[w] = l /\ \A s \in Threads \ {w} : pc'[s] = pc[s]
  BY <1>types DEF ThreadsOK
<1> QED BY <1>1, OneMoves DEF Responsible, Restarts

LEMMA WorkerReleases ==
  ASSUME IInv, SInv, NEW f \in Plain, NEW w \in Workers, WorkerStep(w)
  PROVE  Released(f)'
<1>types. ThreadsOK /\ TableOK BY DEF IInv, TypeOK
<1>linked. TaskOfThread /\ ThreadOfTask BY DEF IInv
<1>plain. f \in Fans /\ f \notin Dell /\ f \notin Flaky /\ f \notin Throwing
  BY DEF Plain
<1>1. CASE LoopTop(w) \/ LoopStatus(w) \/ TestRun(w) \/ TestReset(w) \/ TestCount(w)
           \/ TestSave(w)
  <2>1. \E l \in TaskPC \ {"exited"} : pc' = [pc EXCEPT ![w] = l]
    <3>1. pc = [pc EXCEPT ![w] = pc[w]]
      BY <1>types DEF ThreadsOK
    <3> QED BY <1>1, <3>1 DEF LoopTop, LoopStatus, TestRun, TestReset, TestCount, TestSave, Goto
  <2>2. pc[w] \in TaskPC \ {"exited"} /\ UNCHANGED <<fan, task, mode>>
    BY <1>1 DEF LoopTop, LoopStatus, TestRun, TestReset, TestCount, TestSave
  <2> QED BY <2>1, <2>2, InsideReleases
<1>2. CASE LoopUpdate(w)
  <2>1. pc[w] = "loop_update" /\ UNCHANGED <<fan, task>>
    BY <1>2 DEF LoopUpdate
  <2>2. CASE fan[w] = f
    BY <1>2, <1>plain, <2>1, <2>2, InsideReleases DEF LoopUpdate, Goto
  <2>3. CASE fan[w] # f
    <3>1. mode'[f] = mode[f]
      BY <1>2, <1>plain, <2>3, <1>types DEF LoopUpdate, EnableControl, SetMode, Chip, TableOK
    <3>2. task[f] # w
      BY <1>plain, <2>3, <1>linked DEF ThreadOfTask
    <3>3. \A s \in Threads \ {w} : pc'[s] = pc[s]
      BY <1>2, <1>types DEF LoopUpdate, Goto, ThreadsOK
    <3> QED BY <2>1, <2>3, <3>1, <3>2, <3>3, OneMoves DEF Responsible, Restarts
  <2> QED BY <2>2, <2>3
<1>3. CASE LoopRelease(w)
  BY <1>3, TailReleases
<1>4. CASE TestBegin(w)
  <2>1. pc[w] = "test_begin" /\ UNCHANGED <<fan, task>>
        /\ \E l \in {"test_run", "test_reset"} : pc' = [pc EXCEPT ![w] = l]
    BY <1>4 DEF TestBegin, Goto
  <2>2. CASE fan[w] = f
    <3>1. f \notin Ignored /\ task[f] = w
      BY <2>1, <2>2, <1>linked DEF SInv, TestedOK, TaskOfThread
    <3>2. pc'[w] \in TaskPC \ {"exited"}
      BY <2>1, <1>types DEF ThreadsOK
    <3>3. Responsible(w, f)' /\ ~Ended(f)'
      BY <2>1, <2>2, <3>1, <3>2 DEF Responsible, Ended
    <3> QED BY <3>1, <3>3 DEF Released
  <2>3. CASE fan[w] # f
    <3>1. mode'[f] = mode[f] \/ mode'[f] = "auto"
      BY <1>4, <1>plain, <2>3, <1>types DEF TestBegin, EnableControl, DisableControl, SetMode,
         Chip, TableOK
    <3> QED BY <2>1, <3>1, InsideReleases
  <2> QED BY <2>2, <2>3
<1>5. CASE \E r \in Workers : TestRestart(w, r)
  BY <1>5, RestartReleases
<1>6. CASE RestartEnter(w)
  <2>1. /\ pc[w] = "restart" /\ fan' = fan /\ task' = task /\ mode' = mode
        /\ pc'[w] = "restart_join" \/ (task[fan[w]] = None /\ pc'[w] = "enable")
        /\ \A s \in Threads \ {w} : pc'[s] = pc[s]
    BY <1>6, <1>types DEF RestartEnter, LockAndJoin, Goto, ThreadsOK
  <2> QED BY <2>1, OneMoves DEF Responsible, Restarts
<1>7. CASE RestartJoin(w)
  BY <1>7, EraseReleases DEF RestartJoin
<1> QED BY <1>1, <1>2, <1>3, <1>4, <1>5, <1>6, <1>7 DEF WorkerStep

-----------------------------------------------------------------------------
(* The invariant.                                                             *)

LEMMA StepReleases ==
  ASSUME IInv, SInv, [Next]_vars, NEW f \in Plain
  PROVE  Released(f)'
<1>1. CASE Terminated \/ UNCHANGED vars
  BY <1>1 DEF Terminated, vars, SInv, Released, Responsible, Ended, Restarts
<1>2. CASE \E t \in Callers : NewCall(t) \/ CallerStep(t) \/ Unsubscribe(t)
  BY <1>2, CallReleases, CallerReleases
<1>3. CASE \E t \in Threads : EnableStep(t)
  BY <1>3, EnableReleases
<1>4. CASE \E w \in Workers : WorkerStep(w)
  BY <1>4, WorkerReleases
<1> QED BY <1>1, <1>2, <1>3, <1>4 DEF Next

\* A step other than merge()'s first adds no fan to a loop of merge().
LEMMA StepRetests ==
  ASSUME IInv, SInv, [Next]_vars
  PROVE  RetestOK'
<1>types. ThreadsOK /\ TableOK BY DEF IInv, TypeOK
<1>now. RetestOK /\ TestedOK BY DEF SInv
<1> DEFINE Shrinks ==
      \A s \in Threads : ret'[s] = "merge_test" => ret[s] = "merge_test" /\ sweep'[s] \subseteq sweep[s]
<1>0. Shrinks => RetestOK'
  BY <1>now DEF RetestOK
<1>1. CASE Terminated \/ UNCHANGED vars
  BY <1>0, <1>1 DEF Terminated, vars
<1>2. CASE \E t \in Callers : NewCall(t) \/ Unsubscribe(t)
  <2>1. PICK t \in Callers : NewCall(t) \/ Unsubscribe(t)
    BY <1>2
  <2>2. ASSUME NEW f \in Fans, Reload(t, f) PROVE RetestOK'
    <3>1. f \notin Ignored
      <4>1. task[f] # None /\ pc[task[f]] \in TestPC \cup {"test_reset"} /\ fan[task[f]] = f
        BY <2>2 DEF Reload, IInv, TestingTruthful, ThreadOfTask
      <4> QED BY <4>1, <1>now, <1>types DEF TestedOK, TableOK
    <3>2. /\ sweep'[t] = {f}
          /\ \A s \in Threads \ {t} : ret'[s] = ret[s] /\ sweep'[s] = sweep[s]
      BY <2>2, <1>types DEF Reload, ThreadsOK
    <3> QED BY <1>now, <3>1, <3>2 DEF RetestOK
  <2>3. CASE ~ \E f \in Fans : Reload(t, f)
    <3>1. Shrinks
      BY <2>1, <2>3, <1>types DEF NewCall, Enable, Disable, Test, GetFanStatus, EnableAll,
         DisableAll, Recover, SubscribeFanStatus, Request, CallOn, CallSweep, Unsubscribe,
         ThreadsOK
    <3> QED BY <3>1, <1>0
  <2> QED BY <2>2, <2>3
<1>3. CASE \E t \in Threads : EnableStep(t)
  <2>1. Shrinks
    BY <1>3, <1>types DEF EnableStep, EnableSkip, EnableTake, EnableDell, EnableSpawn,
       SweepDell, VisitNext, Resume, Take, Return, ThreadsOK
  <2> QED BY <2>1, <1>0
<1>4. CASE \E t \in Callers : CallerStep(t)
  <2>1. PICK t \in Callers : CallerStep(t)
    BY <1>4
  <2>2. CASE \/ EnableAllNext(t) \/ DisableEnter(t) \/ DisableJoin(t) \/ DisableTail(t)
             \/ DisableDell(t) \/ DisableNotify(t) \/ DisableAllNext(t)
    <3>1. Shrinks
      BY <2>2, <1>types DEF EnableAllNext, DisableEnter, DisableJoin, DisableTail, DisableDell,
         DisableNotify, DisableAllNext, SweepDell, VisitNext, Resume, EndSweep, Take, Return,
         ThreadsOK
    <3> QED BY <3>1, <1>0
  <2>3. CASE \/ MergeTest(t) \/ TestEnter(t) \/ TestErase(t) \/ TestWait(t) \/ TestJoin(t)
             \/ \E w \in Workers : TestSpawn(t, w)
    <3>1. Shrinks
      BY <2>3, <1>types DEF MergeTest, TestEnter, TestErase, TestWait, TestJoin, TestSpawn,
         VisitNext, EndSweep, Take, Return, ThreadsOK
    <3> QED BY <3>1, <1>0
  <2>4. CASE RecoverNext(t) \/ RecoverFan(t) \/ Status(t) \/ Subscribe(t)
    <3>1. Shrinks
      BY <2>4, <1>types DEF RecoverNext, RecoverFan, Status, Subscribe,
         VisitNext, EndSweep, Take, Return, ThreadsOK
    <3> QED BY <3>1, <1>0
  <2> QED BY <2>1, <2>2, <2>3, <2>4 DEF CallerStep
<1>5. CASE \E w \in Workers : WorkerStep(w)
  <2>1. PICK w \in Workers : WorkerStep(w)
    BY <1>5
  <2>2. ret' = ret /\ \A s \in Threads \ {w} : sweep'[s] = sweep[s]
    BY <2>1, <1>types DEF WorkerStep, LoopTop, LoopStatus, LoopUpdate, LoopRelease,
       TestBegin, TestRun, TestReset, TestCount, TestSave, TestRestart, RestartEnter,
       RestartJoin, Take, ThreadsOK
  <2>3. ret[w] # "merge_test"
    BY <1>types DEF ThreadsOK
  <2> QED BY <2>2, <2>3, <1>0
<1> QED BY <1>1, <1>2, <1>3, <1>4, <1>5 DEF Next

\* Who calls recover or tests an ignored fan: nobody.
LEMMA StepAllowed ==
  ASSUME IInv, SInv, [Next]_vars, "Recover" \notin Ops
  PROVE  NoRecover' /\ TestedOK'
<1>types. ThreadsOK /\ TableOK BY DEF IInv, TypeOK
<1>now. NoRecover /\ TestedOK BY DEF SInv
<1> USE DEF NoRecover, TestedOK
<1>1. CASE Terminated \/ UNCHANGED vars
  BY <1>1, <1>now DEF Terminated, vars
<1>2. CASE \E t \in Callers : NewCall(t) \/ Unsubscribe(t)
  BY <1>2, <1>now, <1>types DEF NewCall, Enable, Disable, Test, GetFanStatus, EnableAll,
     DisableAll, Recover, SubscribeFanStatus, Reload, Request, CallOn, CallSweep, Goto, Unsubscribe,
     ThreadsOK
<1>3. CASE \E t \in Threads : EnableStep(t)
  <2>1. PICK t \in Threads : EnableStep(t)
    BY <1>3
  <2>2. CASE EnableSkip(t) \/ EnableTake(t) \/ EnableDell(t)
    <3>1. /\ pc'[t] \notin {"recover_fan", "test", "test_erase", "test_spawn", "test_reset"} \cup TestPC
          /\ \A s \in Threads \ {t} : pc'[s] = pc[s] /\ fan'[s] = fan[s]
      BY <2>2, <1>types DEF EnableSkip, EnableTake, EnableDell, SweepDell, VisitNext, Resume,
         Return, Goto, ThreadsOK, SweepPC
    <3>2. pc'[t] # "recover"
      BY <2>2, <1>types DEF EnableSkip, EnableTake, EnableDell, VisitNext, Resume,
         Return, Goto, ThreadsOK, IInv, FrameOK, EnablePC
    <3> QED BY <1>now, <3>1, <3>2
  <2>3. CASE \E w \in Workers : EnableSpawn(t, w)
    <3>1. PICK w \in Workers : EnableSpawn(t, w)
      BY <2>3
    <3>2. ret[t] # "recover" /\ ret[t] \in {"idle"} \cup SweepPC
      <4>1. pc[t] = "enable_spawn"
        BY <3>1 DEF EnableSpawn
      <4> QED BY <4>1, <1>types DEF ThreadsOK, IInv, FrameOK
    <3>3. /\ pc'[t] = ret[t] \/ t = w
          /\ pc'[w] = "loop_top"
          /\ \A s \in Threads \ {t, w} : pc'[s] = pc[s] /\ fan'[s] = fan[s]
      BY <3>1, <1>types DEF EnableSpawn, ThreadsOK
    <3> QED BY <1>now, <3>2, <3>3 DEF SweepPC
  <2> QED BY <2>1, <2>2, <2>3 DEF EnableStep
<1>4. CASE \E t \in Callers : CallerStep(t)
  <2>1. PICK t \in Callers : CallerStep(t)
    BY <1>4
  <2>2. CASE \E w \in Workers : TestSpawn(t, w)
    BY <2>2, <1>now, <1>types DEF TestSpawn, ThreadsOK
  <2>3. CASE TestErase(t)
    BY <2>3, <1>now, <1>types DEF TestErase, Erase, ThreadsOK
  <2>7. CASE MergeTest(t)
    <3>1. pc[t] = "merge_test" /\ ret[t] = "merge_test"
      BY <2>7, <1>types DEF MergeTest, IInv, FrameOK, SweepPC
    <3>2. \A f \in sweep[t] : f \notin Ignored
      BY <3>1 DEF SInv, RetestOK
    <3>3. /\ pc'[t] = "idle" \/ (pc'[t] = "test" /\ fan'[t] \in sweep[t])
          /\ \A s \in Threads \ {t} : pc'[s] = pc[s] /\ fan'[s] = fan[s]
      BY <2>7, <1>types DEF MergeTest, VisitNext, EndSweep, Take, Goto, ThreadsOK
    <3> QED BY <1>now, <3>2, <3>3
  <2>8. CASE TestEnter(t) /\ ~(testing[fan[t]] /\ ~Blocking(t))
    BY <2>8, <1>now, <1>types DEF TestEnter, LockAndJoin, Goto, ThreadsOK
  <2>9. CASE TestEnter(t) /\ testing[fan[t]] /\ ~Blocking(t)
    <3>1. pc[t] = "test" /\ task[fan[t]] # None
      <4>1. pc[t] = "test"
        BY <2>9 DEF TestEnter
      <4>2. fan[t] \in Fans
        BY <4>1, <1>types DEF IInv, FrameOK, ThreadsOK, SweepPC
      <4> QED BY <4>1, <4>2, <2>9 DEF IInv, TestingTruthful
    <3>2. pc'[t] = "merge_test" /\ \A s \in Threads \ {t} : pc'[s] = pc[s] /\ fan'[s] = fan[s]
      BY <2>9, <3>1, <1>types DEF TestEnter, Blocking, Return, Goto, ThreadsOK
    <3> QED BY <1>now, <3>2
  <2>4. CASE RecoverNext(t) \/ RecoverFan(t)
    BY <2>4, <1>now DEF RecoverNext, RecoverFan
  <2>5. CASE DisableJoin(t)
    BY <2>5, <1>now, <1>types DEF DisableJoin, Erase, ThreadsOK
  <2>6. CASE \/ EnableAllNext(t) \/ DisableEnter(t) \/ DisableTail(t) \/ DisableDell(t)
             \/ DisableNotify(t) \/ DisableAllNext(t) \/ TestWait(t) \/ TestJoin(t)
             \/ Status(t) \/ Subscribe(t)
    <3>0. ret[t] # "recover" \/ pc[t] \in {"recover", "recover_fan"}
      BY DEF IInv, FrameOK
    <3>1. pc'[t] \notin {"recover_fan", "test", "test_erase", "test_spawn", "test_reset"} \cup TestPC
      BY <2>6, <1>types DEF EnableAllNext, DisableEnter, DisableTail, DisableDell,
         DisableNotify, DisableAllNext, TestWait, TestJoin, Status, Subscribe, LockAndJoin,
         VisitNext, Resume, EndSweep, Return, Goto, ThreadsOK, SweepPC
    <3>2. pc'[t] # "recover"
      BY <2>6, <1>types, <1>now, <3>0 DEF EnableAllNext, DisableEnter, DisableTail, DisableDell,
         DisableNotify, DisableAllNext, TestWait, TestJoin, Status, Subscribe, LockAndJoin,
         VisitNext, Resume, EndSweep, Return, Goto, ThreadsOK
    <3>3. \A s \in Threads \ {t} : pc'[s] = pc[s] /\ fan'[s] = fan[s]
      BY <2>6, <1>types DEF EnableAllNext, DisableEnter, DisableTail, DisableDell,
         DisableNotify, DisableAllNext, TestWait, TestJoin, Status, Subscribe, LockAndJoin,
         SweepDell, VisitNext, Resume, EndSweep, Return, Goto, ThreadsOK
    <3> QED BY <1>now, <3>1, <3>2, <3>3
  <2> QED BY <2>1, <2>2, <2>3, <2>4, <2>5, <2>6, <2>7, <2>8, <2>9 DEF CallerStep
<1>5. CASE \E w \in Workers : WorkerStep(w)
  BY <1>5, <1>now, <1>types DEF WorkerStep, LoopTop, LoopStatus, LoopUpdate, LoopRelease,
     TestBegin, TestRun, TestReset, TestCount, TestSave, TestRestart, RestartEnter,
     RestartJoin, LockAndJoin, Erase, Goto, ThreadsOK
<1> QED BY <1>1, <1>2, <1>3, <1>4, <1>5 DEF Next

\* Unless a client calls Recover, a fan that is configured, not Dell, and whose
\* control writes and updates do not fail is in manual mode only while a thread
\* drives it or has yet to enable or release it (Controller.cpp:30-74, 129-152).
THEOREM StrandedTheorem ==
  ASSUME "Recover" \notin Ops
  PROVE  Spec => []NoStrandedFan
<1>1. Init => SInv
  BY DEF Init, SInv, NoRecover, TestedOK, RetestOK, Released, Plain
<1>2. IInv /\ SInv /\ [Next]_vars => SInv'
  BY StepReleases, StepAllowed, StepRetests DEF SInv, Plain
<1> QED BY <1>1, <1>2, Invariant, SInvImplies, PTL DEF Spec
=============================================================================
