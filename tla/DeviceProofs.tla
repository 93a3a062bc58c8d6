---------------------------- MODULE DeviceProofs ----------------------------
(* Every fan of the machine has one label, and every loop a configured fan.   *)
(*                                                                            *)
(* DevicesInv is inductive but for what a reload has read: DInv adds that the *)
(* fans of the configuration have different hardware as well, and ReadInv     *)
(* that the labels a merge visits are theirs.                                 *)
EXTENDS DeviceTable, TLAPS

OneLabel(f) == \A a, b \in DOMAIN f : f[a].hw = f[b].hw => a = b
Driven(f, t) == t \subseteq DOMAIN f /\ \A l \in t : f[l].conf # NoConf
Numbered(entries) == DOMAIN entries \subseteq Nat \ {0}
DInv == OneLabel(fans) /\ OneLabel(conf_devs) /\ Driven(fans, tasks)
\* What is read is a list, and what is visited was read.
ReadInv ==
  /\ file # NoFile => Numbered(file)
  /\ pc = "merge" => todo \subseteq DOMAIN conf_devs

-----------------------------------------------------------------------------
(* The operators on tables of fans                                            *)

\* from() takes the first entry of each fan of the machine (Devices.cpp:152).
LEMMA FromOneLabel ==
  ASSUME NEW entries, Numbered(entries)
  PROVE  OneLabel(From(entries))
<1> DEFINE Taken == {k \in DOMAIN entries :
             /\ entries[k].hw \in present
             /\ \A j \in 1 .. k - 1 : entries[j].hw # entries[k].hw}
           Last == {k \in Taken :
             \A j \in Taken : entries[j].label = entries[k].label => j <= k}
           At(l) == CHOOSE k \in Last : entries[k].label = l
           labels == {entries[k].label : k \in Last}
<1>1. DOMAIN entries \subseteq Nat \ {0}
  BY DEF Numbered
<1>2. \A i, k \in Taken : entries[i].hw = entries[k].hw => i = k
  <2> SUFFICES ASSUME NEW i \in Taken, NEW k \in Taken, entries[i].hw = entries[k].hw, i # k
               PROVE  FALSE
    OBVIOUS
  <2>1. i \in Nat \ {0} /\ k \in Nat \ {0}
    BY <1>1
  <2>2. i \in 1 .. k - 1 \/ k \in 1 .. i - 1
    BY <2>1
  <2> QED
    BY <2>2
<1>3. \A l \in labels : At(l) \in Last /\ entries[At(l)].label = l
  <2> TAKE l \in labels
  <2>1. \E k \in Last : entries[k].label = l
    OBVIOUS
  <2> QED
    BY <2>1
<1> HIDE DEF At
<1>4. From(entries) = [l \in labels |-> [hw |-> entries[At(l)].hw, conf |-> entries[At(l)].conf]]
  BY DEF From, At
<1>5. ASSUME NEW a \in labels, NEW b \in labels, entries[At(a)].hw = entries[At(b)].hw
      PROVE  a = b
  BY <1>2, <1>3, <1>5
<1> HIDE DEF labels
<1> QED
  BY <1>4, <1>5 DEF OneLabel

\* enable_all and disable leave loops only to configured fans.
LEMMA EnableEachDriven ==
  ASSUME NEW f, NEW t, Driven(f, t), NEW ls, ls \subseteq DOMAIN f, NEW no
  PROVE  Driven(f, EnableEach(f, t, ls, no))
  BY DEF Driven, EnableEach, Configured

LEMMA EnableOneDriven ==
  ASSUME NEW f, NEW t, Driven(f, t), NEW l \in DOMAIN f, NEW no
  PROVE  Driven(f, EnableOne(f, t, l, no))
<1>1. DellFans(f) \subseteq DOMAIN f
  BY DEF DellFans
<1> QED
  BY <1>1, EnableEachDriven DEF EnableOne

LEMMA DisableOneDriven ==
  ASSUME NEW f, NEW t, Driven(f, t), NEW l
  PROVE  Driven(f, DisableOne(f, t, l)) /\ (l \notin DisableOne(f, t, l))
  BY DEF Driven, DisableOne

LEMMA FilesNumbered == \A entries \in Files : Numbered(entries)
  BY DeviceAssumption DEF Numbered

LEMMA ToNumbered ==
  ASSUME NEW f, NEW entries \in To(f)
  PROVE  Numbered(entries)
<1>1. PICK s \in Seqs!SetToSeqs(DOMAIN f) : DOMAIN entries = DOMAIN s
  BY DEF To
<1>2. \E n : DOMAIN s = 1 .. n
  BY DEF Seqs!SetToSeqs
<1> QED
  BY <1>1, <1>2 DEF Numbered

-----------------------------------------------------------------------------
(* The steps of a reload                                                      *)

\* merge adds the fans whose hardware no label has.
LEMMA MergeEnumeratedKeeps ==
  ASSUME DInv, MergeEnumerated
  PROVE  DInv'
<1> DEFINE new == {h \in present : \A l \in DOMAIN fans : fans[l].hw # h}
           named == {Name[h] : h \in new}
           hwOf(l) == CHOOSE h \in new : Name[h] = l
           added == [l \in named |-> [hw |-> hwOf(l), conf |-> NoConf]]
<1>1. fans' = Insert(fans, added) /\ UNCHANGED <<tasks, conf_devs>>
  BY DEF MergeEnumerated
<1>2. \A l \in named : hwOf(l) \in new /\ Name[hwOf(l)] = l
  <2> TAKE l \in named
  <2>1. \E h \in new : Name[h] = l
    OBVIOUS
  <2> QED
    BY <2>1
<1> HIDE DEF hwOf
<1>3. /\ DOMAIN fans' = DOMAIN fans \cup named
      /\ \A l \in DOMAIN fans : fans'[l] = fans[l]
      /\ \A l \in named \ DOMAIN fans : fans'[l] = [hw |-> hwOf(l), conf |-> NoConf]
  BY <1>1 DEF Insert
<1>4. \A l \in DOMAIN fans' \ DOMAIN fans :
        fans'[l].hw = hwOf(l) /\ Name[hwOf(l)] = l
        /\ \A k \in DOMAIN fans : fans[k].hw # hwOf(l)
  <2> TAKE l \in DOMAIN fans' \ DOMAIN fans
  <2>1. l \in named \ DOMAIN fans
    BY <1>3
  <2>2. fans'[l].hw = hwOf(l)
    <3> DEFINE h == hwOf(l)
    <3>1. fans'[l] = [hw |-> h, conf |-> NoConf]
      BY <1>3, <2>1
    <3> QED
      BY ONLY <3>1
  <2>3. Name[hwOf(l)] = l /\ hwOf(l) \in new
    BY <1>2, <2>1
  <2> QED
    BY <2>2, <2>3
<1> HIDE DEF new, named, added
<1>5. OneLabel(fans')
  <2> SUFFICES ASSUME NEW a \in DOMAIN fans', NEW b \in DOMAIN fans', fans'[a].hw = fans'[b].hw
               PROVE  a = b
    BY DEF OneLabel
  <2>1. CASE a \in DOMAIN fans /\ b \in DOMAIN fans
    BY <2>1, <1>3 DEF DInv, OneLabel
  <2>2. CASE a \notin DOMAIN fans /\ b \notin DOMAIN fans
    BY <2>2, <1>4
  <2>3. CASE a \in DOMAIN fans /\ b \notin DOMAIN fans
    BY <2>3, <1>3, <1>4
  <2>4. CASE a \notin DOMAIN fans /\ b \in DOMAIN fans
    BY <2>4, <1>3, <1>4
  <2> QED
    BY <2>1, <2>2, <2>3, <2>4
<1>6. Driven(fans', tasks')
  BY <1>1, <1>3 DEF DInv, Driven
<1> QED
  BY <1>1, <1>5, <1>6 DEF DInv

LEMMA ReadConfigKeeps ==
  ASSUME DInv, ReadInv, ReadConfig
  PROVE  DInv'
<1>1. UNCHANGED <<fans, tasks>>
  BY DEF ReadConfig, table
<1>2. OneLabel(conf_devs')
  BY FromOneLabel DEF ReadConfig, ReadInv, DInv
<1> QED
  BY <1>1, <1>2 DEF DInv

\* merge of a configured fan: it replaces the one with its hardware.
LEMMA MergeFanKeeps ==
  ASSUME DInv, NEW l, l \in DOMAIN conf_devs, MergeFan(l)
  PROVE  DInv'
<1>1. UNCHANGED conf_devs
  BY DEF MergeFan
<1>2. CASE /\ \A m \in DOMAIN fans : fans[m].hw # conf_devs[l].hw
           /\ fans' = Emplace(fans, l, conf_devs[l]) /\ UNCHANGED tasks
  <2>1. /\ DOMAIN fans' = DOMAIN fans \cup {l}
        /\ \A k \in DOMAIN fans : fans'[k] = fans[k]
        /\ l \notin DOMAIN fans => fans'[l] = conf_devs[l]
    BY <1>2 DEF Emplace, Insert
  <2>2. OneLabel(fans')
    BY <1>2, <2>1 DEF DInv, OneLabel
  <2>3. Driven(fans', tasks')
    BY <1>2, <2>1 DEF DInv, Driven
  <2> QED
    BY <1>1, <2>2, <2>3 DEF DInv
<1>3. CASE UNCHANGED table
  BY <1>1, <1>3 DEF DInv, table
<1>4. ASSUME NEW m \in DOMAIN fans, fans[m].hw = conf_devs[l].hw, NEW no, OnMatch(m, l, no)
      PROVE  DInv'
  <2>1. /\ DOMAIN fans' = (DOMAIN fans \ {m}) \cup {l}
        /\ \A k \in DOMAIN fans \ {m} : fans'[k] = fans[k]
        /\ l \notin DOMAIN fans \ {m} => fans'[l] = conf_devs[l]
    BY <1>4 DEF OnMatch, Emplace, Insert, Restrict
  <2>2. OneLabel(fans')
    <3> SUFFICES ASSUME NEW a \in DOMAIN fans', NEW b \in DOMAIN fans', fans'[a].hw = fans'[b].hw
                 PROVE  a = b
      BY DEF OneLabel
    <3>1. CASE a \in DOMAIN fans \ {m} /\ b \in DOMAIN fans \ {m}
      BY <2>1, <3>1 DEF DInv, OneLabel
    <3>2. CASE a \notin DOMAIN fans \ {m} /\ b \notin DOMAIN fans \ {m}
      BY <2>1, <3>2
    <3>3. \A k \in DOMAIN fans \ {m} : fans[k].hw # conf_devs[l].hw
      BY <1>4 DEF DInv, OneLabel
    <3> QED
      BY <2>1, <3>1, <3>2, <3>3
  <2>3. tasks' \subseteq (tasks \ {m}) \cup {l} /\ (l \in tasks' => l \in tasks \ {m} \/ fans'[l].conf # NoConf)
    BY <1>4 DEF OnMatch, EnableEach, Configured
  <2>4. tasks \subseteq DOMAIN fans /\ \A k \in tasks : fans[k].conf # NoConf
    BY DEF DInv, Driven
  <2>5. Driven(fans', tasks')
    BY <2>1, <2>3, <2>4 DEF Driven
  <2> QED
    BY <1>1, <2>2, <2>5 DEF DInv
<1> QED
  BY <1>2, <1>3, <1>4 DEF MergeFan

LEMMA MergeEndKeeps ==
  ASSUME DInv, MergeEnd
  PROVE  DInv'
<1>1. DellFans(fans) \subseteq DOMAIN fans
  BY DEF DellFans
<1>2. UNCHANGED <<fans, conf_devs>>
  BY DEF MergeEnd
<1>3. Driven(fans, tasks')
  <2>1. \E ls \in SUBSET DOMAIN fans : \E no : tasks' = EnableEach(fans, tasks, ls, no)
    BY <1>1 DEF MergeEnd
  <2> QED
    BY <2>1, EnableEachDriven DEF DInv
<1> QED
  BY <1>2, <1>3 DEF DInv

\* remove_devices_not_in disables the fan it removes.
LEMMA RemoveKeeps ==
  ASSUME DInv, NEW l, Remove(l)
  PROVE  DInv'
<1>1. /\ tasks' = DisableOne(fans, tasks, l) /\ UNCHANGED conf_devs
      /\ fans' = Restrict(fans, DOMAIN fans \ {l})
  BY DEF Remove
<1>2. Driven(fans, tasks') /\ l \notin tasks'
  BY <1>1, DisableOneDriven DEF DInv
<1>3. DOMAIN fans' = DOMAIN fans \ {l} /\ \A k \in DOMAIN fans' : fans'[k] = fans[k]
  BY <1>1 DEF Restrict
<1>4. OneLabel(fans')
  BY <1>3 DEF DInv, OneLabel
<1>5. Driven(fans', tasks')
  BY <1>2, <1>3 DEF Driven
<1> QED
  BY <1>1, <1>4, <1>5 DEF DInv

-----------------------------------------------------------------------------
(* Calls                                                                      *)

LEMMA SetDevicesKeeps ==
  ASSUME DInv, NEW entries \in Files, SetDevices(entries)
  PROVE  DInv'
<1>1. fans' = From(entries) /\ UNCHANGED conf_devs
  BY DEF SetDevices, reloading
<1>2. OneLabel(fans')
  BY <1>1, FilesNumbered, FromOneLabel
<1>3. Driven(fans', {})
  BY DEF Driven
<1>4. \E no : tasks' = EnableEach(fans', {}, DOMAIN fans', no)
  BY DEF SetDevices
<1>5. Driven(fans', tasks')
  BY <1>3, <1>4, EnableEachDriven
<1> QED
  BY <1>1, <1>2, <1>5 DEF DInv

\* An edit, or what is plugged in, changes no device.
LEMMA TableKeeps ==
  ASSUME DInv, UNCHANGED <<table, conf_devs>>
  PROVE  DInv'
  BY DEF DInv, table

-----------------------------------------------------------------------------
(* What is read                                                               *)

LEMMA ReadKeeps ==
  ASSUME ReadInv, [Next]_vars
  PROVE  ReadInv'
<1> USE DEF ReadInv
<1>1. CASE MergeEnumerated \/ MergeEnd \/ ReloadEnd \/ \E h \in Hw : Plug(h)
  BY <1>1 DEF MergeEnumerated, MergeEnd, ReloadEnd, Plug, world, table, reloading
<1>2. CASE Reload \/ Restart
  BY <1>2 DEF Reload, Restart, Begin, world
<1>3. CASE ReadConfig
  BY <1>3 DEF ReadConfig, world
<1>4. ASSUME NEW l \in Labels, MergeFan(l) \/ RemoveKeep(l) \/ Remove(l)
      PROVE  ReadInv'
  BY <1>4 DEF MergeFan, RemoveKeep, Remove, world
<1>5. ASSUME NEW l \in Labels, Enable(l) \/ Disable(l)
      PROVE  ReadInv'
  BY <1>5 DEF Enable, Disable, world, reloading
<1>6. ASSUME NEW entries \in Files, SetDevices(entries) \/ Edit(entries)
      PROVE  ReadInv'
  BY <1>6, FilesNumbered, ToNumbered DEF SetDevices, Edit, reloading
<1>7. CASE UNCHANGED vars
  BY <1>7 DEF vars, world, table, reloading
<1> QED
  BY <1>1, <1>2, <1>3, <1>4, <1>5, <1>6, <1>7 DEF Next

-----------------------------------------------------------------------------
LEMMA InitDevices == Init => DInv /\ ReadInv
<1> SUFFICES ASSUME Init PROVE DInv /\ ReadInv
  OBVIOUS
<1>1. DOMAIN Empty = {}
  BY DEF Empty
<1>2. DInv
  BY <1>1 DEF Init, DInv, OneLabel, Driven
<1>3. ReadInv
  BY FilesNumbered DEF Init, ReadInv
<1> QED
  BY <1>2, <1>3

LEMMA NextDevices ==
  ASSUME DInv, ReadInv, [Next]_vars
  PROVE  DInv'
<1>1. CASE MergeEnumerated \/ ReadConfig \/ MergeEnd
  BY <1>1, MergeEnumeratedKeeps, ReadConfigKeeps, MergeEndKeeps
<1>2. CASE Reload \/ Restart
  <2>1. conf_devs' = Empty /\ DOMAIN Empty = {}
    BY <1>2 DEF Reload, Restart, Begin, Empty
  <2>2. UNCHANGED <<fans, tasks>> \/ (fans' = Empty /\ tasks' = {})
    BY <1>2 DEF Reload, Restart, table
  <2> QED
    BY <2>1, <2>2 DEF DInv, OneLabel, Driven
<1>3. CASE ReloadEnd \/ \E h \in Hw : Plug(h)
  BY <1>3, TableKeeps DEF ReloadEnd, Plug, reloading
<1>4. ASSUME NEW l \in Labels, MergeFan(l) PROVE DInv'
  BY <1>4, MergeFanKeeps DEF MergeFan, ReadInv
<1>5. ASSUME NEW l \in Labels, RemoveKeep(l) \/ Remove(l) PROVE DInv'
  BY <1>5, TableKeeps, RemoveKeeps DEF RemoveKeep
<1>6. ASSUME NEW l \in Labels, Enable(l) \/ Disable(l) PROVE DInv'
  <2>1. l \in DOMAIN fans /\ UNCHANGED <<fans, conf_devs>>
        /\ \/ \E no : tasks' = EnableOne(fans, tasks, l, no)
           \/ tasks' = DisableOne(fans, tasks, l)
    BY <1>6 DEF Enable, Disable, reloading
  <2> QED
    BY <2>1, EnableOneDriven, DisableOneDriven DEF DInv
<1>7. ASSUME NEW entries \in Files, SetDevices(entries) \/ Edit(entries) PROVE DInv'
  BY <1>7, TableKeeps, SetDevicesKeeps DEF Edit, reloading
<1>8. CASE UNCHANGED vars
  BY <1>8, TableKeeps DEF vars, reloading
<1> QED
  BY <1>1, <1>2, <1>3, <1>4, <1>5, <1>6, <1>7, <1>8 DEF Next

\* Whatever labels and files, and however often they are reloaded: a fan of the
\* machine has one label, and a loop that runs drives a fan that is there and
\* configured (Controller.cpp:271-363, Devices.cpp:111-165).
THEOREM DevicesTheorem == Spec => []DevicesInv
<1>1. Init => DInv /\ ReadInv
  BY InitDevices
<1>2. DInv /\ ReadInv /\ [Next]_vars => (DInv /\ ReadInv)'
  BY NextDevices, ReadKeeps
<1>3. DInv => DevicesInv
  BY DEF DInv, DevicesInv, OneLabel, Driven, Configured
<1> QED
  BY <1>1, <1>2, <1>3, PTL DEF Spec

-----------------------------------------------------------------------------
(* What a reload does, unless a label in the configuration is that of another *)
(* fan. What it found when it began is all there when it has read the         *)
(* configuration (FoundInv). While it merges, a label of the configuration    *)
(* that is taken is taken by its own fan (Own), so that what was merged is    *)
(* there as it was written (Applied).                                         *)

BeginInv == pc = "enumerate" =>
  before = [fans |-> fans, tasks |-> tasks] /\ DOMAIN conf_devs = {}
FoundInv == pc = "read" =>
  /\ DOMAIN conf_devs = {} /\ tasks = before.tasks
  /\ \A l \in DOMAIN before.fans : l \in DOMAIN fans /\ fans[l] = before.fans[l]
  /\ \A l \in DOMAIN fans \ DOMAIN before.fans :
       fans[l].hw \in Hw /\ Name[fans[l].hw] = l
PhaseInv == present \subseteq Hw /\ BeginInv /\ FoundInv

Own == \A l \in DOMAIN fans \cap DOMAIN conf_devs : fans[l].hw = conf_devs[l].hw
Merged(l) == pc = "remove" \/ l \notin todo
Applied == \A l \in DOMAIN conf_devs :
  Merged(l) => l \in DOMAIN fans /\ fans[l] = conf_devs[l]
Enabled == \A l \in DOMAIN conf_devs :
  /\ conf_devs[l].conf # NoConf
  /\ conf_devs[l].hw \in HwOf(before.fans, before.tasks) \ (Dell \cup refused)
  => conf_devs[l].hw \in HwOf(fans, tasks)
\* A fan the user disabled, and that is not merged yet, is seen to be configured.
StaysOff(h) == \A k \in DOMAIN fans : fans[k].hw = h =>
  /\ k \notin tasks
  /\ fans[k].conf # NoConf
     \/ \A c \in DOMAIN conf_devs : conf_devs[c].hw = h => Merged(c)
WasOff == {before.fans[l].hw : l \in {l \in DOMAIN before.fans \ before.tasks :
  before.fans[l].conf # NoConf /\ before.fans[l].hw \notin Dell}}
MergeInv == Own /\ Applied /\ Enabled /\ \A h \in WasOff : StaysOff(h)
ReloadInv == pc \in {"merge", "remove"} /\ ~Clash => MergeInv

LEMMA PhaseKeeps ==
  ASSUME PhaseInv, [Next]_vars
  PROVE  PhaseInv'
<1>1. CASE MergeEnumerated
  <2>. DEFINE new == {h \in present : \A l \in DOMAIN fans : fans[l].hw # h}
              At(l) == CHOOSE h \in new : Name[h] = l
              found == [l \in {Name[h] : h \in new} |-> [hw |-> At(l), conf |-> NoConf]]
  <2>1. /\ pc = "enumerate" /\ pc' = "read" /\ fans' = Insert(fans, found)
        /\ UNCHANGED <<present, tasks, conf_devs, before>>
    BY <1>1 DEF MergeEnumerated, world
  <2>2. before.fans = fans /\ before.tasks = tasks /\ DOMAIN conf_devs = {}
    BY <2>1 DEF PhaseInv, BeginInv
  <2>3. /\ DOMAIN fans' = DOMAIN fans \cup {Name[h] : h \in new}
        /\ \A l \in DOMAIN fans : fans'[l] = fans[l]
        /\ \A l \in {Name[h] : h \in new} \ DOMAIN fans : fans'[l] = found[l]
    BY <2>1 DEF Insert
  <2>4. ASSUME NEW l \in {Name[h] : h \in new} \ DOMAIN fans
        PROVE  fans'[l].hw \in Hw /\ Name[fans'[l].hw] = l
    <3>1. \E h \in new : Name[h] = l BY <2>4
    <3>2. At(l) \in new /\ Name[At(l)] = l BY <3>1
    <3>. HIDE DEF At, new
    <3>. DEFINE labels == {Name[h] : h \in new}
    <3>3. l \in labels /\ fans'[l] = found[l] BY <2>3, <2>4
    <3>. HIDE DEF labels
    <3>4. fans'[l].hw = At(l) BY <3>3
    <3>5. At(l) \in Hw BY <3>2 DEF new, PhaseInv
    <3>. QED BY <3>2, <3>4, <3>5
  <2>. HIDE DEF new
  <2>5. FoundInv' BY <2>1, <2>2, <2>3, <2>4 DEF FoundInv
  <2>. QED BY <2>1, <2>5 DEF PhaseInv, BeginInv
<1>2. CASE Reload
  BY <1>2 DEF Reload, Begin, PhaseInv, BeginInv, FoundInv, world, table, Empty
<1>3. CASE Restart
  BY <1>3 DEF Restart, Begin, PhaseInv, BeginInv, FoundInv, world, Empty
<1>4. CASE ReadConfig \/ MergeEnd \/ ReloadEnd
  BY <1>4 DEF ReadConfig, MergeEnd, ReloadEnd, PhaseInv, BeginInv, FoundInv, world
<1>5. ASSUME NEW l \in Labels, MergeFan(l) \/ RemoveKeep(l) \/ Remove(l)
      PROVE  PhaseInv'
  BY <1>5 DEF MergeFan, RemoveKeep, Remove, PhaseInv, BeginInv, FoundInv, world
<1>6. ASSUME NEW l \in Labels, Enable(l) \/ Disable(l)
      PROVE  PhaseInv'
  BY <1>6 DEF Enable, Disable, PhaseInv, BeginInv, FoundInv, world, reloading
<1>7. ASSUME NEW entries \in Files, SetDevices(entries)
      PROVE  PhaseInv'
  BY <1>7 DEF SetDevices, PhaseInv, BeginInv, FoundInv, reloading
<1>8. CASE (\E entries \in Files : Edit(entries)) \/ (\E h \in Hw : Plug(h)) \/ UNCHANGED vars
  <2>1. UNCHANGED <<fans, tasks, pc, conf_devs, before>> /\ present' \subseteq Hw
    BY <1>8 DEF Edit, Plug, PhaseInv, vars, world, table, reloading
  <2>. QED BY <2>1 DEF PhaseInv, BeginInv, FoundInv
<1>. QED
  BY <1>1, <1>2, <1>3, <1>4, <1>5, <1>6, <1>7, <1>8 DEF Next

\* The configuration is read: nothing is merged yet.
LEMMA ReadConfigMerges ==
  ASSUME DInv, PhaseInv, ReadConfig, ~Clash'
  PROVE  MergeInv'
<1>1. /\ pc = "read" /\ UNCHANGED <<fans, tasks, before>>
      /\ \/ pc' = "merge" /\ todo' = DOMAIN conf_devs'
         \/ pc' = "remove" /\ conf_devs' = conf_devs
  BY DEF ReadConfig, table
<1>2. /\ DOMAIN conf_devs = {} /\ tasks = before.tasks
      /\ \A l \in DOMAIN before.fans : l \in DOMAIN fans /\ fans[l] = before.fans[l]
      /\ \A l \in DOMAIN fans \ DOMAIN before.fans :
           fans[l].hw \in Hw /\ Name[fans[l].hw] = l
  BY <1>1 DEF PhaseInv, FoundInv
<1>3. Own' BY <1>1, <1>2 DEF Own, Clash
<1>4. Applied' BY <1>1, <1>2 DEF Applied, Merged
<1>5. HwOf(before.fans, before.tasks) \subseteq HwOf(fans, tasks) BY <1>2 DEF HwOf
<1>6. Enabled' BY <1>1, <1>5 DEF Enabled, HwOf
<1>7. ASSUME NEW h \in WasOff' PROVE StaysOff(h)'
  <2>1. PICK l \in DOMAIN before.fans \ before.tasks :
          before.fans[l].conf # NoConf /\ h = before.fans[l].hw
    BY <1>1, <1>7 DEF WasOff
  <2>2. l \in DOMAIN fans \ tasks /\ fans[l].conf # NoConf /\ fans[l].hw = h
    BY <1>2, <2>1
  <2>3. \A k \in DOMAIN fans : fans[k].hw = h => k = l BY <2>2 DEF DInv, OneLabel
  <2>. QED BY <1>1, <2>2, <2>3 DEF StaysOff
<1>. QED BY <1>3, <1>4, <1>6, <1>7 DEF MergeInv

\* A configured fan is merged. The one with its hardware is at its label, or its
\* label is free.
LEMMA MergeFanMerges ==
  ASSUME DInv, ReadInv, MergeInv, NEW l, MergeFan(l)
  PROVE  MergeInv'
<1>. DEFINE new == conf_devs[l]
<1>1. /\ pc = "merge" /\ pc' = "merge" /\ l \in todo /\ todo' = todo \ {l}
      /\ UNCHANGED <<conf_devs, before>> /\ l \in DOMAIN conf_devs /\ refused \subseteq refused'
  BY DEF MergeFan, ReadInv, OnMatch
<1>2. \A k \in DOMAIN conf_devs : conf_devs[k].hw = new.hw => k = l
  BY <1>1 DEF DInv, OneLabel
<1>3. l \in DOMAIN fans => fans[l].hw = new.hw BY <1>1 DEF MergeInv, Own
<1>4. WasOff' = WasOff BY <1>1 DEF WasOff
\* Of the tables it is enough to know that the new fan is at l, in the place of
\* the one with its hardware, and when it runs.
<1>. DEFINE Same == {k \in DOMAIN fans : fans[k].hw = new.hw}
<1>5. ASSUME /\ DOMAIN fans' = (DOMAIN fans \ Same) \cup {l} /\ fans'[l] = new
             /\ \A k \in DOMAIN fans \ Same : fans'[k] = fans[k] /\ (k \in tasks' <=> k \in tasks)
             /\ new.conf # NoConf /\ Same \cap tasks # {} => l \in tasks' \/ new.hw \in refused'
             /\ (\A k \in Same : k \notin tasks /\ fans[k].conf # NoConf) => l \notin tasks'
      PROVE  MergeInv'
  <2>1. Own' BY <1>1, <1>5 DEF MergeInv, Own
  <2>2. Applied' BY <1>1, <1>2, <1>5 DEF MergeInv, Applied, Merged
  <2>3. ASSUME NEW c \in DOMAIN conf_devs, conf_devs[c].conf # NoConf,
               conf_devs[c].hw \in HwOf(before.fans, before.tasks) \ (Dell \cup refused')
        PROVE  conf_devs[c].hw \in HwOf(fans', tasks')
    <3>1. conf_devs[c].hw \in HwOf(fans, tasks) BY <1>1, <2>3 DEF MergeInv, Enabled
    <3>2. PICK k \in tasks \cap DOMAIN fans : fans[k].hw = conf_devs[c].hw
      BY <3>1 DEF HwOf
    <3>3. CASE c = l BY <1>5, <2>3, <3>2, <3>3 DEF HwOf
    <3>4. CASE c # l
      <4>1. k \in DOMAIN fans \ Same BY <1>2, <3>2, <3>4
      <4>. QED BY <1>5, <3>2, <4>1 DEF HwOf
    <3>. QED BY <3>3, <3>4
  <2>4. Enabled' BY <1>1, <2>3 DEF Enabled, HwOf
  <2>5. ASSUME NEW h \in WasOff PROVE StaysOff(h)'
    <3>1. StaysOff(h) BY <2>5 DEF MergeInv
    <3>. SUFFICES ASSUME NEW k \in DOMAIN fans', fans'[k].hw = h
                  PROVE  /\ k \notin tasks'
                         /\ fans'[k].conf # NoConf
                            \/ \A c \in DOMAIN conf_devs : conf_devs[c].hw = h => Merged(c)'
      BY <1>1 DEF StaysOff, Merged
    <3>2. CASE k = l
      <4>1. h = new.hw BY <1>5, <3>2
      <4>2. \A j \in Same : j \notin tasks /\ fans[j].conf # NoConf
        BY <1>1, <3>1, <4>1 DEF StaysOff, Merged
      <4>3. \A c \in DOMAIN conf_devs : conf_devs[c].hw = h => Merged(c)'
        BY <1>1, <1>2, <4>1 DEF Merged
      <4>. QED BY <1>5, <3>2, <4>2, <4>3
    <3>3. CASE k # l
      <4>1. k \in DOMAIN fans \ Same /\ fans'[k] = fans[k] /\ (k \in tasks' <=> k \in tasks)
        BY <1>5, <3>3
      <4>. QED BY <1>1, <3>1, <4>1 DEF StaysOff, Merged
    <3>. QED BY <3>2, <3>3
  <2>. QED BY <1>4, <2>1, <2>2, <2>4, <2>5 DEF MergeInv
<1>6. \A a, b \in Same : a = b BY DEF DInv, OneLabel
<1>7. tasks \subseteq DOMAIN fans /\ (l \in DOMAIN fans => l \in Same)
  BY <1>3 DEF DInv, Driven
<1>8. CASE Same = {} /\ fans' = Emplace(fans, l, new) /\ tasks' = tasks
  <2>1. l \notin DOMAIN fans BY <1>7, <1>8
  <2>2. /\ DOMAIN fans' = DOMAIN fans \cup {l} /\ fans'[l] = new
        /\ \A k \in DOMAIN fans : fans'[k] = fans[k]
    BY <1>8, <2>1 DEF Emplace, Insert
  <2>. QED BY <1>5, <1>7, <1>8, <2>1, <2>2
<1>9. CASE l \in Same /\ fans[l] = new /\ UNCHANGED table
  <2>1. Same = {l} BY <1>6, <1>9
  <2>. QED BY <1>5, <1>9, <2>1 DEF table
<1>10. ASSUME NEW m \in Same, NEW no, OnMatch(m, l, no) PROVE MergeInv'
  <2>. DEFINE on == m \in tasks \/ (fans[m].conf = NoConf /\ new.conf # NoConf)
  <2>1. Same = {m} BY <1>6, <1>10
  <2>2. l \notin DOMAIN fans \ {m} BY <1>7, <2>1
  <2>3. /\ DOMAIN fans' = (DOMAIN fans \ {m}) \cup {l} /\ fans'[l] = new
        /\ \A k \in DOMAIN fans \ {m} : fans'[k] = fans[k]
    BY <1>10, <2>2 DEF OnMatch, Emplace, Insert, Restrict
  <2>4. l \notin tasks \ {m} BY <1>7, <2>1
  <2>5. /\ tasks' = IF on /\ new.conf # NoConf /\ new.hw \notin no
                    THEN (tasks \ {m}) \cup {l} ELSE tasks \ {m}
        /\ on /\ new.hw \in no => new.hw \in refused'
    BY <1>10, <2>3, <2>4 DEF OnMatch, Configured, EnableEach, Refusing
  <2>. QED BY <1>5, <1>7, <2>1, <2>2, <2>3, <2>5
<1>. QED BY <1>8, <1>9, <1>10 DEF MergeFan

\* The Dell fans are enabled, and what is neither found nor configured is removed.
LEMMA MergeEndMerges ==
  ASSUME MergeInv, MergeEnd
  PROVE  MergeInv'
<1>1. /\ pc' = "remove" /\ todo = {} /\ UNCHANGED <<fans, conf_devs, before>>
      /\ tasks \subseteq tasks' /\ tasks' \subseteq tasks \cup DellFans(fans)
      /\ refused \subseteq refused'
  BY DEF MergeEnd, EnableEach
<1>2. Own' /\ Applied' BY <1>1 DEF MergeInv, Own, Applied, Merged
<1>3. Enabled' BY <1>1 DEF MergeInv, Enabled, HwOf
<1>4. ASSUME NEW h \in WasOff' PROVE StaysOff(h)'
  <2>1. h \in WasOff /\ h \notin Dell BY <1>1, <1>4 DEF WasOff
  <2>2. StaysOff(h) BY <2>1 DEF MergeInv
  <2>3. \A k \in DellFans(fans) : fans[k].hw # h BY <2>1 DEF DellFans, IsDell
  <2>. QED BY <1>1, <2>2, <2>3 DEF StaysOff, Merged
<1>. QED BY <1>2, <1>3, <1>4 DEF MergeInv

LEMMA RemoveMerges ==
  ASSUME DInv, MergeInv, NEW l, Remove(l)
  PROVE  MergeInv'
<1>1. /\ pc = "remove" /\ pc' = "remove" /\ l \notin DOMAIN conf_devs
      /\ UNCHANGED <<conf_devs, before, refused>>
      /\ tasks' = DisableOne(fans, tasks, l)
      /\ DOMAIN fans' = DOMAIN fans \ {l} /\ \A k \in DOMAIN fans' : fans'[k] = fans[k]
  BY DEF Remove, Restrict
<1>2. /\ tasks' \subseteq tasks
      /\ \A k \in DOMAIN fans \ {l} : k \in tasks /\ fans[k].hw \notin Dell => k \in tasks'
  BY <1>1 DEF DisableOne, DellFans, IsDell
<1>3. Own' /\ Applied' BY <1>1 DEF MergeInv, Own, Applied, Merged
<1>4. ASSUME NEW c \in DOMAIN conf_devs, conf_devs[c].conf # NoConf,
             conf_devs[c].hw \in HwOf(before.fans, before.tasks) \ (Dell \cup refused)
      PROVE  conf_devs[c].hw \in HwOf(fans', tasks')
  <2>1. PICK k \in tasks \cap DOMAIN fans : fans[k].hw = conf_devs[c].hw
    BY <1>4 DEF MergeInv, Enabled, HwOf
  <2>2. c \in DOMAIN fans /\ fans[c] = conf_devs[c]
    BY <1>1 DEF MergeInv, Applied, Merged
  <2>3. k = c BY <2>1, <2>2 DEF DInv, OneLabel
  <2>4. c \in DOMAIN fans' \cap tasks' /\ fans'[c] = conf_devs[c]
    BY <1>1, <1>2, <1>4, <2>1, <2>2, <2>3
  <2>. QED BY <2>4 DEF HwOf
<1>5. Enabled' BY <1>1, <1>4 DEF Enabled, HwOf
<1>6. ASSUME NEW h \in WasOff' PROVE StaysOff(h)'
  <2>1. StaysOff(h) BY <1>1, <1>6 DEF WasOff, MergeInv
  <2>. QED BY <1>1, <1>2, <2>1 DEF StaysOff, Merged
<1>. QED BY <1>3, <1>5, <1>6 DEF MergeInv

LEMMA ReloadKeeps ==
  ASSUME DInv, ReadInv, PhaseInv, ReloadInv, [Next]_vars
  PROVE  ReloadInv'
<1>1. CASE ReadConfig BY <1>1, ReadConfigMerges DEF ReloadInv
<1>2. ASSUME NEW l \in Labels, MergeFan(l) PROVE ReloadInv'
  <2>1. pc = "merge" /\ UNCHANGED <<conf_devs, before>> BY <1>2 DEF MergeFan
  <2>2. Clash' <=> Clash BY <2>1 DEF Clash
  <2>. QED BY <1>2, <2>1, <2>2, MergeFanMerges DEF ReloadInv
<1>3. CASE MergeEnd
  <2>1. pc = "merge" /\ UNCHANGED <<conf_devs, before>> BY <1>3 DEF MergeEnd
  <2>2. Clash' <=> Clash BY <2>1 DEF Clash
  <2>. QED BY <1>3, <2>1, <2>2, MergeEndMerges DEF ReloadInv
<1>4. ASSUME NEW l \in Labels, Remove(l) PROVE ReloadInv'
  <2>1. pc = "remove" /\ UNCHANGED <<conf_devs, before>> BY <1>4 DEF Remove
  <2>2. Clash' <=> Clash BY <2>1 DEF Clash
  <2>. QED BY <1>4, <2>1, <2>2, RemoveMerges DEF ReloadInv
<1>5. CASE /\ UNCHANGED <<fans, tasks, pc, conf_devs, before, refused>>
           /\ todo' = todo \/ pc = "remove"
  <2>1. Clash' <=> Clash BY <1>5 DEF Clash
  <2>2. MergeInv => MergeInv'
    BY <1>5 DEF MergeInv, Own, Applied, Enabled, WasOff, StaysOff, Merged, HwOf
  <2>. QED BY <1>5, <2>1, <2>2 DEF ReloadInv
<1>6. CASE pc' \notin {"merge", "remove"} BY <1>6 DEF ReloadInv
<1>7. ASSUME NEW l \in Labels, RemoveKeep(l) PROVE ReloadInv'
  BY <1>5, <1>7 DEF RemoveKeep, table
<1>8. ASSUME NEW l \in Labels, Enable(l) \/ Disable(l) PROVE ReloadInv'
  BY <1>6, <1>8 DEF Enable, Disable, reloading
<1>9. ASSUME NEW entries \in Files, SetDevices(entries) \/ Edit(entries) PROVE ReloadInv'
  BY <1>5, <1>6, <1>9 DEF SetDevices, Edit, table, reloading
<1>10. CASE (\E h \in Hw : Plug(h)) \/ UNCHANGED vars
  BY <1>5, <1>10 DEF Plug, vars, table, reloading
<1>11. CASE Reload \/ MergeEnumerated \/ ReloadEnd \/ Restart
  BY <1>6, <1>11 DEF Reload, MergeEnumerated, ReloadEnd, Restart, Begin
<1>. QED
  BY <1>1, <1>2, <1>3, <1>4, <1>7, <1>8, <1>9, <1>10, <1>11 DEF Next

LEMMA ReloadInvariant == Spec => [](DInv /\ ReadInv /\ PhaseInv /\ ReloadInv)
<1>1. Init => DInv /\ ReadInv /\ PhaseInv /\ ReloadInv
  <2>1. Init => PhaseInv /\ ReloadInv
    BY DEF Init, PhaseInv, BeginInv, FoundInv, ReloadInv, Empty
  <2>. QED BY <2>1, InitDevices
<1>2. DInv /\ ReadInv /\ PhaseInv /\ ReloadInv /\ [Next]_vars
      => (DInv /\ ReadInv /\ PhaseInv /\ ReloadInv)'
  BY NextDevices, ReadKeeps, PhaseKeeps, ReloadKeeps
<1>. QED BY <1>1, <1>2, PTL DEF Spec

-----------------------------------------------------------------------------
\* When no label is another fan's, a reload leaves every fan of the file as the
\* file says, whatever it was called before (Controller.cpp:271-289).
THEOREM AppliesTheorem == Spec => ReloadApplies
<1>1. ASSUME ReloadInv, ReloadEnd, ~Clash
      PROVE  \A l \in DOMAIN conf_devs : l \in DOMAIN fans /\ fans[l] = conf_devs[l]
  BY <1>1 DEF ReloadInv, MergeInv, Applied, Merged, ReloadEnd
<1>2. ReloadInv /\ [Next]_vars =>
        [ReloadEnd /\ ~Clash =>
           \A l \in DOMAIN conf_devs : l \in DOMAIN fans /\ fans[l] = conf_devs[l]]_vars
  BY <1>1
<1>. QED BY <1>2, ReloadInvariant, PTL DEF Spec, ReloadApplies

\* A fan that ran before the reload, and is present and configured in the file,
\* runs when it ends, under its new label and curve (Controller.cpp:314-317),
\* unless this reload asked it and it refused (Controller.cpp:30).
THEOREM KeepsEnabledTheorem == Spec => ReloadKeepsEnabled
<1>1. ASSUME ReloadInv, ReloadEnd, ~Clash, NEW l \in DOMAIN conf_devs,
             conf_devs[l].conf # NoConf,
             conf_devs[l].hw \in HwOf(before.fans, before.tasks) \ (Dell \cup refused)
      PROVE  conf_devs[l].hw \in HwOf(fans, tasks)
  BY <1>1 DEF ReloadInv, MergeInv, Enabled, ReloadEnd
<1>2. ReloadInv /\ [Next]_vars =>
        [ReloadEnd /\ ~Clash =>
           \A l \in DOMAIN conf_devs :
             /\ conf_devs[l].conf # NoConf
             /\ conf_devs[l].hw \in HwOf(before.fans, before.tasks) \ (Dell \cup refused)
             => conf_devs[l].hw \in HwOf(fans, tasks)]_vars
  BY <1>1
<1>. QED BY <1>2, ReloadInvariant, PTL DEF Spec, ReloadKeepsEnabled

\* ... and a configured fan that the user had disabled does not run, whatever the
\* file says of it (Controller.cpp:307-312).
THEOREM KeepsDisabledTheorem == Spec => ReloadKeepsDisabled
<1>1. ASSUME ReloadInv, ReloadEnd, ~Clash, NEW l \in DOMAIN before.fans \ before.tasks,
             Configured(before.fans, l), ~IsDell(before.fans, l)
      PROVE  before.fans[l].hw \notin HwOf(fans, tasks)
  <2>1. before.fans[l].hw \in WasOff BY <1>1 DEF WasOff, Configured, IsDell
  <2>2. StaysOff(before.fans[l].hw) BY <1>1, <2>1 DEF ReloadInv, MergeInv, ReloadEnd
  <2>. QED BY <2>2 DEF StaysOff, HwOf
<1>2. ReloadInv /\ [Next]_vars =>
        [ReloadEnd /\ ~Clash =>
           \A l \in DOMAIN before.fans \ before.tasks :
             Configured(before.fans, l) /\ ~IsDell(before.fans, l) =>
               before.fans[l].hw \notin HwOf(fans, tasks)]_vars
  BY <1>1
<1>. QED BY <1>2, ReloadInvariant, PTL DEF Spec, ReloadKeepsDisabled
=============================================================================
