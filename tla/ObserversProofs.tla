--------------------------- MODULE ObserversProofs --------------------------
(* Proofs about Observers, for every set of clients and of notifiers.         *)
(*                                                                            *)
(* That the counter is the notifiers inside less the clients that remove is   *)
(* inductive with the threads' labels (Labels): each step that changes it     *)
(* moves one thread into or out of one of the two sets.                       *)
EXTENDS Observers, FiniteSetTheorems, TLAPS

USE ObserversAssumption
USE DEF Threads, mutex, walk

NotifyPC == {"idle", "check", "wait", "enter", "walk", "call"}
ClientPC == {"idle", "register", "on", "removal", "take", "drop", "erase", "gone"}
Labels ==
  /\ pc \in [Threads -> NotifyPC \cup ClientPC]
  /\ \A n \in Notifiers : pc[n] \in NotifyPC
  /\ \A c \in Clients : pc[c] \in ClientPC
OInv == Labels /\ ObserversInv

LEMMA Counted ==
  /\ IsFiniteSet(Inside) /\ IsFiniteSet(Removing)
  /\ Cardinality(Inside) \in Nat /\ Cardinality(Removing) \in Nat
<1>1. Inside \subseteq Notifiers /\ Removing \subseteq Clients
  BY DEF Inside, Removing
<1> QED BY <1>1, FS_Subset, FS_CardinalityType

\* One more, or one less, in a finite set.
LEMMA OneMore ==
  ASSUME NEW S, NEW T, NEW x, IsFiniteSet(S), x \notin S, T = S \cup {x}
  PROVE  Cardinality(T) = Cardinality(S) + 1
BY FS_AddElement
LEMMA OneLess ==
  ASSUME NEW S, NEW T, NEW x, IsFiniteSet(S), x \in S, T = S \ {x}
  PROVE  Cardinality(T) = Cardinality(S) - 1
BY FS_RemoveElement

\* A step between labels that no count depends on.
LEMMA MovesOnly ==
  ASSUME OInv, NEW t \in Threads, NEW from, NEW to, Step(t, from, to),
         t \in Notifiers => to \in NotifyPC /\ (from \in {"walk", "call"} <=> to \in {"walk", "call"}),
         t \in Clients => /\ to \in ClientPC /\ from # "drop" /\ to # "drop"
                          /\ from \in {"on", "removal", "take", "erase"} <=>
                             to \in {"on", "removal", "take", "erase"},
         UNCHANGED mutex
  PROVE  OInv'
<1>1. /\ Labels /\ pc[t] = from
      /\ pc' = [pc EXCEPT ![t] = to]
  BY DEF OInv, Step
<1>2. Labels'
  BY <1>1 DEF Labels
<1>3. Inside' = Inside /\ Removing' = Removing
  BY <1>1 DEF Inside, Removing, Labels
<1>4. observers' = {c \in Clients : pc'[c] \in {"on", "removal", "take", "drop", "erase"}}
  BY <1>1 DEF OInv, ObserversInv, Labels
<1>5. counter' = Cardinality(Inside') - Cardinality(Removing')
  BY <1>3 DEF OInv, ObserversInv
<1> QED BY <1>2, <1>4, <1>5 DEF OInv, ObserversInv

LEMMA NotifierKeeps ==
  ASSUME OInv, NEW n \in Notifiers, Change(n) \/ NotifyStep(n)
  PROVE  OInv'
<1>labels. Labels BY DEF OInv
<1>1. CASE Change(n) \/ CheckNone(n) \/ CheckSome(n) \/ Wait(n)
           \/ (\E c \in Clients : Visit(n, c)) \/ Callback(n)
  BY <1>1, MovesOnly DEF Change, CheckNone, CheckSome, Wait, Visit, Callback, NotifyPC
<1>2. CASE Enter(n)
  <2>1. pc[n] = "enter" /\ pc' = [pc EXCEPT ![n] = "walk"]
        /\ counter' = counter + 1 /\ observers' = observers
    BY <1>2 DEF Enter, Step
  <2>2. Inside' = Inside \cup {n} /\ n \notin Inside /\ Removing' = Removing /\ Labels'
    BY <2>1, <1>labels DEF Inside, Removing, Labels, NotifyPC
  <2>3. Cardinality(Inside') = Cardinality(Inside) + 1
    BY <2>2, Counted, OneMore
  <2>4. observers' = {c \in Clients : pc'[c] \in {"on", "removal", "take", "drop", "erase"}}
    BY <2>1, <1>labels DEF OInv, ObserversInv, Labels
  <2>5. counter' = Cardinality(Inside') - Cardinality(Removing')
    BY <2>1, <2>2, <2>3, Counted DEF OInv, ObserversInv
  <2> QED BY <2>2, <2>4, <2>5 DEF OInv, ObserversInv
<1>3. CASE Leave(n)
  <2>1. pc[n] = "walk" /\ pc' = [pc EXCEPT ![n] = "idle"]
        /\ counter' = counter - 1 /\ observers' = observers
    BY <1>3 DEF Leave, Step
  <2>2. Inside' = Inside \ {n} /\ n \in Inside /\ Removing' = Removing /\ Labels'
    BY <2>1, <1>labels DEF Inside, Removing, Labels, NotifyPC
  <2>3. Cardinality(Inside') = Cardinality(Inside) - 1
    BY <2>2, Counted, OneLess
  <2>4. observers' = {c \in Clients : pc'[c] \in {"on", "removal", "take", "drop", "erase"}}
    BY <2>1, <1>labels DEF OInv, ObserversInv, Labels
  <2>5. counter' = Cardinality(Inside') - Cardinality(Removing')
    BY <2>1, <2>2, <2>3, Counted DEF OInv, ObserversInv
  <2> QED BY <2>2, <2>4, <2>5 DEF OInv, ObserversInv
<1> QED BY <1>1, <1>2, <1>3 DEF NotifyStep

LEMMA ClientKeeps ==
  ASSUME OInv, NEW c \in Clients, SendInitial(c) \/ Cancel(c) \/ SubscribeStep(c)
  PROVE  OInv'
<1>labels. Labels BY DEF OInv
<1>1. CASE SendInitial(c) \/ Cancel(c) \/ AwaitRemoval(c)
  BY <1>1, MovesOnly DEF SendInitial, Cancel, AwaitRemoval, ClientPC
<1>2. CASE Register(c) \/ Erase(c)
  <2>1. /\ Labels' /\ Inside' = Inside /\ Removing' = Removing /\ counter' = counter
    BY <1>2, <1>labels DEF Register, Erase, Step, Inside, Removing, Labels, ClientPC
  <2>2. observers' = {d \in Clients : pc'[d] \in {"on", "removal", "take", "drop", "erase"}}
    BY <1>2, <1>labels DEF Register, Erase, Step, OInv, ObserversInv, Labels
  <2>3. counter' = Cardinality(Inside') - Cardinality(Removing')
    BY <2>1 DEF OInv, ObserversInv
  <2> QED BY <2>1, <2>2, <2>3 DEF OInv, ObserversInv
<1>3. CASE TakeRemoval(c)
  <2>1. pc[c] = "take" /\ pc' = [pc EXCEPT ![c] = "drop"]
        /\ counter' = counter - 1 /\ observers' = observers
    BY <1>3 DEF TakeRemoval, Step
  <2>2. Removing' = Removing \cup {c} /\ c \notin Removing /\ Inside' = Inside /\ Labels'
    BY <2>1, <1>labels DEF Inside, Removing, Labels, ClientPC
  <2>3. Cardinality(Removing') = Cardinality(Removing) + 1
    BY <2>2, Counted, OneMore
  <2>4. observers' = {d \in Clients : pc'[d] \in {"on", "removal", "take", "drop", "erase"}}
    BY <2>1, <1>labels DEF OInv, ObserversInv, Labels
  <2>5. counter' = Cardinality(Inside') - Cardinality(Removing')
    BY <2>1, <2>2, <2>3, Counted DEF OInv, ObserversInv
  <2> QED BY <2>2, <2>4, <2>5 DEF OInv, ObserversInv
<1>4. CASE DropRemoval(c)
  <2>1. pc[c] = "drop" /\ pc' = [pc EXCEPT ![c] = "erase"]
        /\ counter' = counter + 1 /\ observers' = observers
    BY <1>4 DEF DropRemoval, Step
  <2>2. Removing' = Removing \ {c} /\ c \in Removing /\ Inside' = Inside /\ Labels'
    BY <2>1, <1>labels DEF Inside, Removing, Labels, ClientPC
  <2>3. Cardinality(Removing') = Cardinality(Removing) - 1
    BY <2>2, Counted, OneLess
  <2>4. observers' = {d \in Clients : pc'[d] \in {"on", "removal", "take", "drop", "erase"}}
    BY <2>1, <1>labels DEF OInv, ObserversInv, Labels
  <2>5. counter' = Cardinality(Inside') - Cardinality(Removing')
    BY <2>1, <2>2, <2>3, Counted DEF OInv, ObserversInv
  <2> QED BY <2>2, <2>4, <2>5 DEF OInv, ObserversInv
<1> QED BY <1>1, <1>2, <1>3, <1>4 DEF SubscribeStep

LEMMA ObserversStart == Init => OInv
<1> SUFFICES ASSUME Init PROVE OInv
  OBVIOUS
<1>1. Labels
  BY DEF Init, Labels, NotifyPC, ClientPC
<1>2. Inside = {} /\ Removing = {}
  BY DEF Init, Inside, Removing
<1>3. observers = {c \in Clients : pc[c] \in {"on", "removal", "take", "drop", "erase"}}
  BY DEF Init
<1> QED BY <1>1, <1>2, <1>3, FS_EmptySet DEF Init, OInv, ObserversInv

LEMMA ObserversStep == OInv /\ [Next]_vars => OInv'
<1>1. ASSUME OInv, UNCHANGED vars PROVE OInv'
  BY <1>1 DEF vars, OInv, Labels, ObserversInv, Inside, Removing
<1> QED BY <1>1, NotifierKeeps, ClientKeeps DEF Next

\* RemovableMutex's counter is the notifiers inside their walk less the clients
\* that hold a removal lock, for any number of both, though it is tested and
\* changed in separate steps (Util.cpp:60-70), and the list is whoever is
\* registered and has not left (Service.cpp:147-155).
THEOREM ObserversTheorem == Spec => []ObserversInv
<1>1. OInv => ObserversInv
  BY DEF OInv
<1> QED BY <1>1, ObserversStart, ObserversStep, PTL DEF Spec
=============================================================================
