----------------------------- MODULE DeviceTable -----------------------------
(* The devices of the Controller and how a reload changes them                *)
(* (src/Controller.cpp: reload, merge, remove_devices_not_in, set_devices;    *)
(* src/Devices.cpp: from). Devices are found again by their hardware, and     *)
(* kept under labels that the user may change in the configuration.           *)
(*                                                                            *)
(* Which fans have a loop is all that is kept of the task table: its locks    *)
(* and threads are in Controller. Sensors are merged as fans are, without     *)
(* tasks. Fans that are under test are left out: a reload of one joins its    *)
(* test as disable does there. A fan that is to be enabled may refuse: it is  *)
(* ignored, or taking its control fails (Fan::try_enable).                    *)
EXTENDS Naturals, Sequences, FiniteSets, Functions

Seqs == INSTANCE SequencesExt

CONSTANTS
  Hw,       \* fans of the machine, by hw_id
  Dell,     \* ... those that are Dell's
  Labels,
  Name,     \* Name[h]: the label a fan has when it is enumerated
  Confs,    \* curves and other settings a configured fan may have
  Files,    \* contents of the configuration: sequences of entries
  NoFile, NoConf,
  MaxEvents \* bound: edits, plugs and calls

Entries == [label : Labels, hw : Hw, conf : Confs \cup {NoConf}]
Fans == [hw : Hw, conf : Confs \cup {NoConf}]
ASSUME DeviceAssumption ==
  /\ Dell \subseteq Hw /\ Name \in [Hw -> Labels] /\ IsInjective(Name)
  /\ Files \subseteq Seq(Entries) /\ NoFile \notin Files /\ NoConf \notin Confs
  /\ MaxEvents \in Nat

VARIABLES
  file, present,   \* the configuration file, the fans that are plugged in
  fans,            \* devices.fans: from labels to fans
  tasks,           \* the labels of the fans whose loop runs
  pc,              \* where reload is
  enumerated,      \* labels of the fans it found
  conf_devs,       \* the fans of the configuration it read
  todo,            \* labels its loop has still to visit
  dell_fan_enabled,
  before,          \* history variable: fans and tasks when it began
  refused,         \* history variable: the fans that refused it, by hw_id
  up,              \* the process lives
  events

world == <<file, present>>
table == <<fans, tasks>>
reloading == <<pc, enumerated, conf_devs, todo, dell_fan_enabled, before, refused>>
vars == <<world, table, reloading, up, events>>

Empty == <<>>
Begin(f, t) ==
  /\ pc' = "enumerate" /\ before' = [fans |-> f, tasks |-> t]
  /\ enumerated' = {} /\ conf_devs' = Empty /\ todo' = {} /\ dell_fan_enabled' = FALSE
  /\ refused' = {}

\* The constructor reloads.
Init ==
  /\ file \in Files \cup {NoFile} /\ present \in SUBSET Hw
  /\ fans = Empty /\ tasks = {}
  /\ pc = "enumerate" /\ before = [fans |-> Empty, tasks |-> {}]
  /\ enumerated = {} /\ conf_devs = Empty /\ todo = {} /\ dell_fan_enabled = FALSE
  /\ refused = {} /\ up = TRUE /\ events = 0

\* Devices::from: entries of absent hardware, and of hardware that an earlier
\* entry has, are skipped; of entries with one label the last counts.
From(entries) ==
  LET Taken == {k \in DOMAIN entries :
        /\ entries[k].hw \in present
        /\ \A j \in 1 .. k - 1 : entries[j].hw # entries[k].hw}
      Last == {k \in Taken :
        \A j \in Taken : entries[j].label = entries[k].label => j <= k}
      At(l) == CHOOSE k \in Last : entries[k].label = l
  IN [l \in {entries[k].label : k \in Last} |->
       [hw |-> entries[At(l)].hw, conf |-> entries[At(l)].conf]]

\* Devices::to, in the order of an unordered map
To(f) ==
  {[k \in DOMAIN s |-> [label |-> s[k], hw |-> f[s[k]].hw, conf |-> f[s[k]].conf]] :
     s \in Seqs!SetToSeqs(DOMAIN f)}

Configured(f, l) == f[l].conf # NoConf
IsDell(f, l) == f[l].hw \in Dell
DellFans(f) == {l \in DOMAIN f : IsDell(f, l)}
\* enable of each of some fans, and of one with the Dell fans it belongs to; no:
\* the fans whose try_enable fails.
EnableEach(f, t, ls, no) == t \cup {l \in ls : Configured(f, l) /\ f[l].hw \notin no}
EnableOne(f, t, l, no) ==
  IF l \in t \/ ~Configured(f, l) \/ f[l].hw \in no THEN t
  ELSE EnableEach(f, t, {l} \cup IF IsDell(f, l) THEN DellFans(f) ELSE {}, no)
\* The fans that are asked, and refuse.
Refusing(f, t, ls, no) == no \cap {f[l].hw : l \in ls \ t}
\* disable: of a fan without a task it does nothing.
DisableOne(f, t, l) ==
  IF l \notin t THEN t ELSE t \ ({l} \cup IF IsDell(f, l) THEN DellFans(f) ELSE {})

\* insert and emplace keep what is there.
Insert(f, g) == [l \in DOMAIN f \cup DOMAIN g |-> IF l \in DOMAIN f THEN f[l] ELSE g[l]]
Emplace(f, l, fan) == Insert(f, [x \in {l} |-> fan])

-----------------------------------------------------------------------------
(* reload                                                                     *)

Event == up /\ events < MaxEvents /\ events' = events + 1

Reload ==
  /\ Event /\ pc = "idle"
  /\ Begin(fans, tasks)
  /\ UNCHANGED <<world, table, up>>

\* merge(enumerated): fans whose hardware is not known are added.
MergeEnumerated ==
  /\ up /\ pc = "enumerate"
  /\ enumerated' = {Name[h] : h \in present}
  /\ LET new == {h \in present : \A l \in DOMAIN fans : fans[l].hw # h} IN
     fans' = Insert(fans, [l \in {Name[h] : h \in new} |->
       [hw |-> CHOOSE h \in new : Name[h] = l, conf |-> NoConf]])
  /\ pc' = "read"
  /\ UNCHANGED <<world, tasks, conf_devs, todo, dell_fan_enabled, before, refused, up, events>>

ReadConfig ==
  /\ up /\ pc = "read"
  /\ IF file = NoFile
     THEN pc' = "remove" /\ todo' = DOMAIN fans /\ UNCHANGED conf_devs
     ELSE /\ conf_devs' = From(file)
          /\ todo' = DOMAIN conf_devs' /\ pc' = "merge"
  /\ UNCHANGED <<world, table, enumerated, dell_fan_enabled, before, refused, up, events>>

\* Faulty variants: the old loop is not ended; the new one is not started.
OnMatchRuns(m, l, no) ==
  /\ fans' = Emplace(Restrict(fans, DOMAIN fans \ {m}), l, conf_devs[l])
  /\ tasks' = IF Configured(fans', l) /\ (m \in tasks \/ ~Configured(fans, m))
              THEN tasks \cup {l} ELSE tasks
  /\ UNCHANGED <<dell_fan_enabled, refused>>
OnMatchStops(m, l, no) ==
  /\ fans' = Emplace(Restrict(fans, DOMAIN fans \ {m}), l, conf_devs[l])
  /\ tasks' = tasks \ {m}
  /\ UNCHANGED <<dell_fan_enabled, refused>>
\* Faulty variant: a fan that is configured is enabled.
OnMatchEnables(m, l, no) ==
  /\ fans' = Emplace(Restrict(fans, DOMAIN fans \ {m}), l, conf_devs[l])
  /\ tasks' = EnableEach(fans', tasks \ {m}, {l}, no)
  /\ UNCHANGED <<dell_fan_enabled, refused>>
\* Faulty variant: the fan that is there is kept, under its old label.
OnMatchKeeps(m, l, no) == UNCHANGED <<table, dell_fan_enabled, refused>>

\* on_match: the fan at m is erased and the configured one put at l, unless l
\* is taken; what is at l then is asked to run, if m was enabled or has been
\* configured only now. That it refused does not keep the Dell fans from it.
OnMatch(m, l, no) ==
  /\ fans' = Emplace(Restrict(fans, DOMAIN fans \ {m}), l, conf_devs[l])
  /\ LET enable_fan == m \in tasks \/ (~Configured(fans, m) /\ Configured(fans', l))
         ls == IF enable_fan THEN {l} ELSE {} IN
     /\ tasks' = EnableEach(fans', tasks \ {m}, ls, no)
     /\ refused' = refused \cup Refusing(fans', tasks \ {m}, ls, no)
     /\ dell_fan_enabled' = (dell_fan_enabled \/ (enable_fan /\ IsDell(fans', l)))

MergeFan(l) ==
  /\ up /\ pc = "merge" /\ l \in todo
  /\ todo' = todo \ {l}
  /\ LET match == {m \in DOMAIN fans : fans[m].hw = conf_devs[l].hw} IN
     \/ /\ match = {} /\ fans' = Emplace(fans, l, conf_devs[l])
        /\ UNCHANGED <<tasks, dell_fan_enabled, refused>>
     \/ \E m \in match : /\ <<m, fans[m]>> = <<l, conf_devs[l]>>
                       /\ UNCHANGED <<table, dell_fan_enabled, refused>>
     \/ \E m \in match : /\ <<m, fans[m]>> # <<l, conf_devs[l]>>
                       /\ \E no \in SUBSET Hw : OnMatch(m, l, no)
  /\ UNCHANGED <<world, pc, enumerated, conf_devs, before, up, events>>

\* "let them be merged first": then every Dell fan is enabled.
MergeEnd ==
  /\ up /\ pc = "merge" /\ todo = {}
  /\ LET ls == IF dell_fan_enabled THEN DellFans(fans) ELSE {} IN
     \E no \in SUBSET Hw :
       /\ tasks' = EnableEach(fans, tasks, ls, no)
       /\ refused' = refused \cup Refusing(fans, tasks, ls, no)
  /\ pc' = "remove" /\ todo' = DOMAIN fans
  /\ UNCHANGED <<world, fans, enumerated, conf_devs, dell_fan_enabled, before, up, events>>

\* remove_devices_not_in goes by labels.
RemoveKeep(l) ==
  /\ up /\ pc = "remove" /\ l \in todo
  /\ l \in enumerated \cup DOMAIN conf_devs
  /\ todo' = todo \ {l}
  /\ UNCHANGED <<world, table, pc, enumerated, conf_devs, dell_fan_enabled, before, refused, up, events>>
\* The loop goes on from the node it erased: it may end there, or the process.
Remove(l) ==
  /\ up /\ pc = "remove" /\ l \in todo
  /\ l \notin enumerated \cup DOMAIN conf_devs
  /\ tasks' = DisableOne(fans, tasks, l)
  /\ fans' = Restrict(fans, DOMAIN fans \ {l})
  /\ todo' \in {todo \ {l}, {}} /\ up' \in BOOLEAN
  /\ UNCHANGED <<world, pc, enumerated, conf_devs, dell_fan_enabled, before, refused, events>>

ReloadEnd ==
  /\ up /\ pc = "remove" /\ todo = {}
  /\ pc' = "idle"
  /\ UNCHANGED <<world, table, enumerated, conf_devs, todo, dell_fan_enabled, before, refused, up, events>>

-----------------------------------------------------------------------------
(* Other calls, and what happens to the machine                               *)

Enable(l) ==
  /\ Event /\ pc = "idle" /\ l \in DOMAIN fans
  /\ \E no \in SUBSET Hw : tasks' = EnableOne(fans, tasks, l, no)
  /\ UNCHANGED <<world, fans, reloading, up>>
Disable(l) ==
  /\ Event /\ pc = "idle" /\ l \in DOMAIN fans
  /\ tasks' = DisableOne(fans, tasks, l)
  /\ UNCHANGED <<world, fans, reloading, up>>

\* Loops end, the devices are replaced and saved, and all are enabled.
SetDevices(entries) ==
  /\ Event /\ pc = "idle"
  /\ fans' = From(entries)
  /\ \E no \in SUBSET Hw : tasks' = EnableEach(fans', {}, DOMAIN fans', no)
  /\ file' \in To(fans')
  /\ UNCHANGED <<present, reloading, up>>

Edit(entries) ==
  /\ Event /\ file' = entries
  /\ UNCHANGED <<present, table, reloading, up>>
Plug(h) ==
  /\ Event
  /\ present' = IF h \in present THEN present \ {h} ELSE present \cup {h}
  /\ UNCHANGED <<file, table, reloading, up>>
Restart ==
  /\ events < MaxEvents /\ events' = events + 1
  /\ fans' = Empty /\ tasks' = {} /\ up' = TRUE
  /\ Begin(Empty, {})
  /\ UNCHANGED world

Next ==
  \/ Reload \/ MergeEnumerated \/ ReadConfig \/ MergeEnd \/ ReloadEnd
  \/ \E l \in Labels : MergeFan(l) \/ RemoveKeep(l) \/ Remove(l) \/ Enable(l) \/ Disable(l)
  \/ \E entries \in Files : SetDevices(entries) \/ Edit(entries)
  \/ \E h \in Hw : Plug(h)
  \/ Restart

Spec == Init /\ [][Next]_vars

-----------------------------------------------------------------------------
\* The label of an entry is that of another fan, or another fan's name.
Clash == \E l \in DOMAIN conf_devs :
  \/ l \in DOMAIN before.fans /\ before.fans[l].hw # conf_devs[l].hw
  \/ \E h \in Hw : Name[h] = l /\ h # conf_devs[l].hw

HwOf(f, ls) == {f[l].hw : l \in ls \cap DOMAIN f}

\* A fan of the machine has one label, and a loop that runs drives a fan that is
\* there and configured, however labels, curves and hardware change and whatever
\* was reloaded in between (Controller.cpp:271-363, Devices.cpp:157-160).
DevicesInv ==
  /\ \A a, b \in DOMAIN fans : fans[a].hw = fans[b].hw => a = b
  /\ tasks \subseteq DOMAIN fans
  /\ \A l \in tasks : Configured(fans, l)

\* A reload keeps what runs: a fan that was enabled, and is present and
\* configured in the file, is enabled when it ends (Controller.cpp:314-317). It
\* is without a loop only if it refused this reload: the file has it ignored, or
\* taking its control failed when its new loop was to begin (Controller.cpp:30).
ReloadKeepsEnabled ==
  [][ReloadEnd /\ ~Clash =>
       \A l \in DOMAIN conf_devs :
         /\ conf_devs[l].conf # NoConf
         /\ conf_devs[l].hw \in HwOf(before.fans, before.tasks) \ (Dell \cup refused)
         => conf_devs[l].hw \in HwOf(fans, tasks)]_vars

\* ... and what the user disabled is not enabled (Controller.cpp:307-312).
ReloadKeepsDisabled ==
  [][ReloadEnd /\ ~Clash =>
       \A l \in DOMAIN before.fans \ before.tasks :
         Configured(before.fans, l) /\ ~IsDell(before.fans, l) =>
           before.fans[l].hw \notin HwOf(fans, tasks)]_vars

\* When no label is another fan's, a reload leaves every fan of the file as the
\* file says (Controller.cpp:271-289).
ReloadApplies ==
  [][ReloadEnd /\ ~Clash =>
       \A l \in DOMAIN conf_devs : l \in DOMAIN fans /\ fans[l] = conf_devs[l]]_vars
=============================================================================
