----------------------------- MODULE DeviceConfig -----------------------------
(***************************************************************************)
(* Which device a stream ends on, and with which configuration, when       *)
(* several streams want different ones: devices that share a back end run  *)
(* one at a time, chosen by the streams' priorities; the ultrasound        *)
(* proximity detector (UPD) only works on some; a headset may have to      *)
(* leave its sample rate for haptics or the speaker; and a virtual port's  *)
(* group configuration follows what runs on it. A call plans its moves     *)
(* under mActiveStreamMutex and makes them after it has given it up.       *)
(***************************************************************************)
EXTENDS Naturals, FiniteSets, Sequences, FiniteSetsExt, SequencesExt

CONSTANTS
  Calls, Medias, Upds, Buzzes,  \* voice calls, playback streams, proximity detectors, haptics streams
  Layouts,                      \* the platforms' layouts of back ends
  Hasty                         \* may calls overlap, and streams meet in the orders the code gets wrong?

Streams == Calls \cup Medias \cup Upds \cup Buzzes

ConfigAssumption ==
  /\ Hasty \in BOOLEAN
  /\ Layouts \subseteq {"apart", "shared", "jack", "virtual"}

Order   == <<"handset", "speaker", "headset", "haptics", "ultrasound">>   \* as pal_device_id_t
Devices == Range(Order)
Combined == {"UPD_RX_SPEAKER", "UPD_RX_HANDSET"}
Groups   == Combined \cup {"UPD_RX", "SPEAKER", "HANDSET", "SPEAKER_VOICE"}
Family44 == {44}                                                   \* multiples of 44.1 kHz

VARIABLES
  layout,    \* which devices share a back end
  groups,    \* the group configurations the platform describes
  combos,    \* is_multiple_sample_rate_combo_supported
  rate,      \* the sample rate of a playback stream, in kHz
  reg,       \* mActiveStreams
  want, on,  \* of a stream: mPalDevices, and mDevices
  attr,      \* mStreamDevAttr of a device: its streams' priorities and rates, sorted
  cfg,       \* the rate in deviceAttr of a device
  group,     \* activeGroupDevConfig
  used,      \* currentGroupDevConfig: the one last applied
  job        \* what is left of a stream's call

vars == <<layout, groups, combos, rate, reg, want, on, attr, cfg, group, used, job>>
platform == <<layout, groups, combos, rate>>

Idle == [do |-> "idle"]

(* listAllBackEndIds *)
BackEnd(d) ==
  CASE layout \in {"shared", "virtual"} /\ d = "speaker" -> "handset"
    [] layout = "jack" /\ d = "headset" -> "handset"
    [] OTHER -> d

Prio(s) == CASE s \in Calls -> 1 [] s \in Medias -> 2 [] OTHER -> 3

(* getDeviceConfig(): a headset takes the stream's rate. *)
RateOf(s, d) == IF s \in Upds THEN 96 ELSE IF d = "headset" THEN rate[s] ELSE 48

Choice(s) ==
  IF s \in Upds THEN IF layout = "virtual" THEN {{"ultrasound"}} ELSE {{"handset"}}
  ELSE IF s \in Buzzes THEN {{"haptics"}}
  ELSE {{"speaker"}, {"handset"}, {"headset"}}

Init ==
  /\ layout \in Layouts
  /\ groups \in IF layout = "virtual" THEN {Groups} \cup {g \in {Groups \ Combined} : Hasty} ELSE {{}}
  /\ rate \in [Streams -> {44, 48}]
  /\ \A s \in Streams : rate[s] = 44 => layout = "apart" /\ s \in Medias
  /\ combos \in BOOLEAN
  /\ Hasty \/ combos \/ \A s \in Streams : rate[s] = 48
  /\ reg = {}
  /\ want = [s \in Streams |-> {}] /\ on = [s \in Streams |-> {}]
  /\ attr = [d \in Devices |-> <<>>]
  /\ cfg = [d \in Devices |-> 48]
  /\ group = "none" /\ used = "none"
  /\ job = [s \in Streams |-> Idle]

------------------------------------------------------------------------------
(* Device: the attributes its streams asked for. *)
compareStreamDevAttr(new, cur) == (new \in Family44 /\ cur \notin Family44) \/ new > cur

(* Insertion before the first entry of a lower rank. *)
insertStreamDeviceAttr(a, s, d, r) ==
  LET before(e) == \/ Prio(s) < e.p
                   \/ Prio(s) = e.p /\ compareStreamDevAttr(r, e.r)
      i == SelectInSeq(a[d], before)
  IN [a EXCEPT ![d] = InsertAt(@, IF i = 0 THEN Len(@) + 1 ELSE i, [s |-> s, p |-> Prio(s), r |-> r])]

(* Seeded fault: the entry of a closed stream stays in the map. *)
LeavesEntry(a, s, D) == a

removeStreamDeviceAttr(a, s, D) ==
  [d \in Devices |->
     LET i == SelectInSeq(a[d], LAMBDA e : e.s = s)
     IN IF d \notin D \/ i = 0 THEN a[d] ELSE RemoveAt(a[d], i)]

(* The streams on the devices that share a back end with d. *)
getSharedBEActiveStreamDevs(d) ==
  {p \in reg \X Devices : p[2] \in on[p[1]] /\ BackEnd(p[2]) = BackEnd(d)}

getActiveStream(d) == {s \in reg : d \in on[s]}

First(pairs) == Order[SelectInSeq(Order, LAMBDA d : \E p \in pairs : p[2] = d)]

(* doDevAttrDiffer(): a group device is compared by its group's            *)
(* configuration.                                                          *)
doDevAttrDiffer(g, new, cur) ==
  \/ new.id # cur.id
  \/ IF g # "none" /\ used # "none" /\ new.id \in {"speaker", "handset"}
     THEN g # used ELSE new.r # cur.r

Running(d) == [id |-> d, r |-> cfg[d]]
Top(a, d)  == [id |-> d, r |-> Head(a[d]).r]

(* Seeded fault: the incoming device always takes over. *)
TakesOver(g, a, shared, new) == [new |-> Top(a, new.id), switch |-> TRUE]

(***************************************************************************)
(* compareSharedBEStreamDevAttr() for an incoming device: it takes the     *)
(* place of the running one unless the streams there have priority; then   *)
(* the incoming stream goes to the running device.                         *)
(***************************************************************************)
Enabled(g, a, shared, new) ==
  LET cur == First(shared)
      top == Top(a, new.id)
  IN IF a[new.id] = <<>> THEN [new |-> new, switch |-> FALSE]
     ELSE IF cur = new.id THEN [new |-> top, switch |-> doDevAttrDiffer(g, top, Running(cur))]
     ELSE IF a[cur] = <<>> \/ Head(a[new.id]).p <= Head(a[cur]).p THEN [new |-> top, switch |-> TRUE]
     ELSE [new |-> Top(a, cur), switch |-> doDevAttrDiffer(g, Top(a, cur), Running(cur))]

(***************************************************************************)
(* compareSharedBEStreamDevAttr() when a device is left: the entry of the  *)
(* highest priority, and among several, any entry for the running device - *)
(* of whatever priority.                                                   *)
(***************************************************************************)
Disabled(g, a, shared, d) ==
  LET cur   == First(shared)
      found == {q \in {p[1] : p \in shared} \X Devices :
                  q[2] \in want[q[1]] /\ BackEnd(q[2]) = BackEnd(d) /\ a[q[2]] # <<>>}
      prio(q) == Head(a[q[2]]).p
      best  == {q \in found : \A o \in found : prio(q) <= prio(o)}
      stay  == Cardinality(best) > 1 /\ \E q \in found : q[2] = cur
      new   == IF stay THEN Top(a, cur) ELSE Top(a, First(best))
  IN IF found = {} THEN [new |-> Running(d), switch |-> FALSE]
     ELSE [new |-> new, switch |-> doDevAttrDiffer(g, new, Running(cur))]

isValidDeviceSwitchForStream(s, d) ==
  s \in Upds => d \in {"handset", "speaker"} /\ BackEnd("handset") = BackEnd("speaker")

------------------------------------------------------------------------------
(***************************************************************************)
(* checkAndUpdateGroupDevConfig(): the configuration, "none" for -EINVAL,  *)
(* and the streams to switch so that it takes effect. For a device other   *)
(* than those of the virtual port it has nothing to do.                    *)
(***************************************************************************)
Upd(enable) ==
  LET speaker == getActiveStream("speaker")
      handset == getActiveStream("handset")
      voice   == speaker \cap Calls # {} /\ "SPEAKER_VOICE" \in groups
      after(g, d, streams, name) ==
        IF streams = {} THEN g
        ELSE IF enable THEN [g EXCEPT !.to = IF name \in groups THEN name ELSE "UPD_RX",
                                      !.streams = @ \cup IF name \in groups THEN streams ELSE {},
                                      !.at = d]
        ELSE IF name \notin groups THEN [g EXCEPT !.at = d]
        ELSE [g EXCEPT !.to = IF d = "handset" THEN "HANDSET"
                              ELSE IF voice THEN "SPEAKER_VOICE" ELSE "SPEAKER",
                       !.streams = @ \cup streams, !.at = d]
  IN after(after([to |-> "UPD_RX", streams |-> {}, at |-> "ultrasound"],
                 "speaker", speaker, "UPD_RX_SPEAKER"),
           "handset", handset, "UPD_RX_HANDSET")

Shared(d, s, enable) ==
  LET upd   == getActiveStream("ultrasound")
      both  == IF d = "speaker" THEN "UPD_RX_SPEAKER" ELSE "UPD_RX_HANDSET"
      alone == IF d = "speaker" THEN "SPEAKER" ELSE "HANDSET"
      voice == IF d = "speaker" /\ s \in Calls THEN "SPEAKER_VOICE" \in groups
               ELSE reg \cap Calls # {}
  IN [to |-> IF upd # {} THEN IF ~enable THEN "UPD_RX" ELSE IF both \in groups THEN both ELSE alone
             ELSE IF ~enable THEN "none" ELSE IF voice THEN "SPEAKER_VOICE" ELSE alone,
      streams |-> IF upd # {} /\ both \in groups THEN upd ELSE {},
      at |-> "ultrasound"]

checkAndUpdateGroupDevConfig(d, s, enable) ==
  IF layout # "virtual" \/ d \notin {"speaker", "handset", "ultrasound"}
  THEN [to |-> "none", streams |-> {}, at |-> d]
  ELSE LET g == IF d = "ultrasound" THEN Upd(enable) ELSE Shared(d, s, enable)
       IN IF g.to \in groups THEN g ELSE [g EXCEPT !.to = "none", !.streams = {}]

NewGroup(g) == IF g.to = "none" THEN group ELSE g.to

(* A plan: pairs to disconnect, and then streams to connect. *)
Nothing == [off |-> {}, conn |-> <<>>, gone |-> {}]
Move(p, pairs, new) ==
  [p EXCEPT !.off = @ \cup pairs,
            !.conn = @ \o [i \in 1..Cardinality(pairs) |->
                             [s |-> SetToSeq(pairs)[i][1], d |-> new.id, r |-> new.r]]]
Regroup(p, g) == Move(p, g.streams \X {g.at}, Running(g.at))

(***************************************************************************)
(* checkSpeakerConcurrency() and checkHapticsConcurrency(): the rate the   *)
(* incoming headset gets, the streams that are taken off at once (gone),   *)
(* and those moved to another rate.                                        *)
(***************************************************************************)
checkSpeakerConcurrency(p, new, s, combo) ==
  LET spk == getSharedBEActiveStreamDevs("speaker")
      hs  == getSharedBEActiveStreamDevs("headset")
      cut == IF ~combo /\ Cardinality(spk) > 1 /\ rate[s] \in Family44 THEN spk ELSE {}
      left == getActiveStream("speaker") \ {q[1] : q \in cut}
      off == {q \in hs : q[2] = "headset"
                         /\ \/ cfg["headset"] \in Family44 /\ rate[s] \notin Family44
                            \/ ~combo /\ rate[s] \in Family44}
  IN CASE combos -> [new |-> new, plan |-> p]
       [] new.id = "headset" ->
            [new |-> IF /\ left # {} /\ new.r \in Family44 /\ cfg["speaker"] \notin Family44
                        /\ (left \cup {s}) \cap Medias # left \cup {s}
                     THEN [new EXCEPT !.r = cfg["speaker"]]
                     ELSE IF left = {} /\ combo THEN [new EXCEPT !.r = 48] ELSE new,
             plan |-> [p EXCEPT !.gone = @ \cup cut]]
       [] new.id = "speaker" ->
            [new |-> new, plan |-> Move(p, off, [id |-> "headset", r |-> rate[s]])]
       [] OTHER -> [new |-> new, plan |-> p]

(* Seeded fault: a headset that is in use keeps its rate. *)
IgnoresUse(p, new, s) == [new |-> new, plan |-> p]

checkHapticsConcurrency(p, new, s) ==
  LET hs == {q \in getSharedBEActiveStreamDevs("headset") : q[2] = "headset"}
  IN CASE new.id = "headset" /\ getActiveStream("haptics") # {} ->
            [new |-> IF new.r \in Family44 /\ cfg["haptics"] \notin Family44
                     THEN [new EXCEPT !.r = cfg["haptics"]] ELSE new,
             plan |-> p]
       [] new.id = "haptics" /\ cfg["headset"] \in Family44 /\ rate[s] \notin Family44 ->
            [new |-> new, plan |-> Move(p, hs, [id |-> "headset", r |-> rate[s]])]
       [] OTHER -> [new |-> new, plan |-> p]

(* Streams that cannot follow to d wait on the speaker meanwhile. *)
Aside(p, shared, d) ==
  LET away == {q \in shared : ~isValidDeviceSwitchForStream(q[1], d)}
  IN IF d = "speaker" THEN p
     ELSE Move(p, away, [id |-> "speaker", r |-> 96])

------------------------------------------------------------------------------
Free == Hasty \/ \A s \in Streams : job[s] = Idle
Todo(what, devs, p, own) ==
  [do |-> what, devs |-> devs, off |-> p.off, conn |-> p.conn, own |-> own]

(***************************************************************************)
(* Orders the code gets wrong, which only Hasty clients meet.              *)
(***************************************************************************)
Careful(R, W) ==
  LET wanting(d) == {s \in R : d \in W[s]}
  IN /\ R \cap Buzzes # {} => \A s \in Streams : rate[s] = 44 => Cardinality(wanting("headset")) <= 1
     /\ layout = "jack" /\ R \cap Upds # {} => Cardinality(R) <= 2 /\ wanting("handset") \subseteq Upds
     /\ layout = "virtual" => \/ R \cap Calls = {} /\ wanting("speaker") = {}
                              \/ wanting("handset") = {} /\ (wanting("headset") \cap Calls = {} \/ R \cap Medias = {})

(* A stream's constructor: the device learns what the stream wants. *)
OpenStream(s) ==
  /\ Free /\ s \notin reg /\ job[s] = Idle /\ \A q \in Streams : job[q].do # "config"
  /\ \E D \in Choice(s) : \E d \in D :
       /\ attr' = insertStreamDeviceAttr(attr, s, d, RateOf(s, d))
       /\ want' = [want EXCEPT ![s] = {d}]
       /\ job' = [job EXCEPT ![s] = Todo("config", {d}, Nothing, <<>>)]
  /\ reg' = reg \cup {s}
  /\ Hasty \/ Careful(reg', want')
  /\ UNCHANGED <<platform, on, cfg, group, used>>

(* A call takes the playback streams on other devices with it. *)
Follow(p, s, new) ==
  IF s \notin Calls THEN p
  ELSE Move(p, {q \in (reg \cap Medias) \X Devices : q[2] \in on[q[1]] /\ q[2] # new.id}, new)

updateDeviceConfig(s) ==
  /\ job[s].do = "config"
  /\ \E d \in job[s].devs :
       LET spk    == checkSpeakerConcurrency(Nothing, [id |-> d, r |-> RateOf(s, d)], s, FALSE)
           hap    == checkHapticsConcurrency(spk.plan, spk.new, s)
           g      == checkAndUpdateGroupDevConfig(d, s, TRUE)
           all    == getSharedBEActiveStreamDevs(d)
           shared == {q \in all : d = "speaker" \/ isValidDeviceSwitchForStream(q[1], d)}
           p      == Aside(hap.plan, all, d)
           c      == Enabled(NewGroup(g), attr, shared, hap.new)
           new    == IF shared = {} THEN hap.new ELSE c.new
           plan   == IF shared = {} THEN Regroup(p, g)
                     ELSE IF c.switch THEN Move(p, shared, new) ELSE p
       IN /\ group' = NewGroup(g)
          /\ on' = [q \in Streams |-> {e \in on[q] : <<q, e>> \notin plan.gone}]
          /\ job' = [job EXCEPT ![s] = Todo("switch", {}, Follow(plan, s, new), <<new>>)]
  /\ UNCHANGED <<platform, reg, want, attr, cfg, used>>

(* connectStreamDevice() refuses a second device on a back end. *)
Connects(w, c) ==
  [on  |-> IF \E d \in w.on[c.s] : BackEnd(d) = BackEnd(c.d) THEN w.on ELSE [w.on EXCEPT ![c.s] = @ \cup {c.d}],
   cfg |-> [w.cfg EXCEPT ![c.d] = c.r]]

(***************************************************************************)
(* streamDevSwitch() of what was planned, for the streams that are still   *)
(* there; then the opening stream gets its device.                         *)
(***************************************************************************)
Switch(s) ==
  /\ job[s].do = "switch"
  /\ LET conn == SelectSeq(job[s].conn, LAMBDA c : c.s \in reg)
         off  == {q \in job[s].off : q[1] \in reg}
         from == [on  |-> [q \in Streams |-> {d \in on[q] : <<q, d>> \notin off}], cfg |-> cfg]
         w    == FoldLeft(Connects, from, conn)
         own  == job[s].own
         some == \/ own # <<>> /\ own[1].id \in {"speaker", "handset", "ultrasound"}
                 \/ \E i \in DOMAIN conn : conn[i].d \in {"speaker", "handset", "ultrasound"}
     IN /\ on' = IF own = <<>> THEN w.on ELSE [w.on EXCEPT ![s] = {own[1].id}]
        /\ cfg' = IF own = <<>> THEN w.cfg ELSE [w.cfg EXCEPT ![own[1].id] = own[1].r]
        /\ used' = IF some THEN group ELSE used
  /\ job' = [job EXCEPT ![s] = IF job[s].devs = {} THEN Idle ELSE Todo("restore", job[s].devs, Nothing, <<>>)]
  /\ UNCHANGED <<platform, reg, want, attr, group>>

CloseStream(s) ==
  /\ Free /\ s \in reg /\ job[s] = Idle
  /\ reg' = reg \ {s}
  /\ attr' = removeStreamDeviceAttr(attr, s, want[s])
  /\ want' = [want EXCEPT ![s] = {}] /\ on' = [on EXCEPT ![s] = {}]
  /\ job' = [job EXCEPT ![s] = IF on[s] = {} THEN Idle ELSE Todo("restore", on[s], Nothing, <<>>)]
  /\ UNCHANGED <<platform, cfg, group, used>>

(* What the streams that remain on a closed stream's device move to. *)
restoreDevice(s) ==
  /\ job[s].do = "restore"
  /\ \E d \in job[s].devs :
       LET dev    == IF d = "haptics" THEN "headset" ELSE d
           empty  == getActiveStream(dev) = {}
           g      == IF empty THEN checkAndUpdateGroupDevConfig(dev, s, FALSE)
                     ELSE [to |-> "none", streams |-> {}, at |-> dev]
           back   == IF empty /\ dev \notin {"speaker", "handset"} /\ BackEnd(dev) = BackEnd("handset")
                     THEN reg \cap Upds ELSE {}
           p      == Move(Nothing, back \X {"speaker"}, [id |-> "handset", r |-> 96])
           shared == getSharedBEActiveStreamDevs(dev)
           c      == Disabled(NewGroup(g), attr, shared, dev)
           plan   == IF shared = {} THEN Regroup(p, g)
                     ELSE IF c.switch THEN Move(p, {q[1] : q \in shared} \X {dev}, c.new) ELSE p
       IN /\ group' = NewGroup(g)
          /\ job' = [job EXCEPT ![s] = Todo("switch", job[s].devs \ {d}, plan, <<>>)]
  /\ UNCHANGED <<platform, reg, want, on, attr, cfg, used>>

(***************************************************************************)
(* switchDevice(): the stream's new devices, one after the other, and what *)
(* each of them means for the other streams.                               *)
(***************************************************************************)
Plans(s, D, a, w, nd) ==
  LET all    == getSharedBEActiveStreamDevs(nd)
      shared == {q \in all : nd = "speaker" \/ isValidDeviceSwitchForStream(q[1], nd)}
      asked  == [id |-> nd, r |-> RateOf(s, nd)]
      p1     == Aside(w.plan, all, nd)
      c      == Enabled(w.group, a, shared, asked)
      g      == checkAndUpdateGroupDevConfig(nd, s, TRUE)
      spk    == checkSpeakerConcurrency(Regroup(p1, g), asked, s, Cardinality(D) > 1)
      hap    == checkHapticsConcurrency(spk.plan, spk.new, s)
      new    == IF shared = {} THEN hap.new ELSE c.new
      p2     == IF shared = {} THEN hap.plan ELSE IF c.switch THEN Move(p1, shared, new) ELSE p1
      along  == IF s \notin Calls THEN {}
                ELSE UNION {getSharedBEActiveStreamDevs(d) : d \in on[s] \ {nd}}
      p3     == Move(p2, {q \in along : isValidDeviceSwitchForStream(q[1], new.id)}, new)
      left   == {d \in on[s] \ D : getActiveStream(d) = {s} /\ nd \notin {"speaker", "handset"}}
      ends   == IF left = {} THEN [to |-> "none", streams |-> {}, at |-> nd]
                ELSE checkAndUpdateGroupDevConfig(CHOOSE d \in left : TRUE, s, FALSE)
      p4     == Regroup([p3 EXCEPT !.off = @ \cup {s} \X (on[s] \ D)], ends)
  IN [plan  |-> Move(p4, {}, new),
      self  |-> Append(w.self, [s |-> s, d |-> new.id, r |-> new.r]),
      skip  |-> w.skip \cup {q \in along : ~isValidDeviceSwitchForStream(q[1], new.id)},
      group |-> IF ends.to # "none" THEN ends.to ELSE IF shared = {} THEN NewGroup(g) ELSE w.group]

SwitchDevice(s) ==
  /\ Free /\ s \in reg /\ job[s] = Idle /\ s \in Calls \cup Medias
  /\ \E D \in Choice(s) \cup IF layout = "apart" THEN {{"speaker", "headset"}} ELSE {} :
       LET nds == SelectSeq(Order, LAMBDA d : d \in D)
           a0  == removeStreamDeviceAttr(attr, s, want[s])
           a   == FoldLeft(LAMBDA x, d : insertStreamDeviceAttr(x, s, d, RateOf(s, d)), a0, nds)
           w   == FoldLeft(LAMBDA x, d : Plans(s, D, a, x, d),
                           [plan |-> Nothing, self |-> <<>>, skip |-> {}, group |-> group], nds)
       IN /\ attr' = a
          /\ Hasty \/ ~(rate[s] = 44 /\ reg \cap Buzzes # {} /\ "headset" \in on[s] \cap D)
          /\ Hasty \/ layout # "virtual" \/ {on[s], D} # {{"handset"}, {"speaker"}}
          /\ want' = [want EXCEPT ![s] = D]
          /\ reg' = reg
          /\ Hasty \/ Careful(reg', want')
          /\ group' = w.group
          /\ on' = [q \in Streams |-> {e \in on[q] : <<q, e>> \notin w.plan.gone}]
          /\ job' = [job EXCEPT ![s] = Todo("upd", w.skip,
                                            [w.plan EXCEPT !.conn = @ \o w.self], <<>>)]
  /\ UNCHANGED <<platform, cfg, used>>

(* findActiveStreamsNotInDisconnectList(): it looks at the speaker alone. *)
Staying(s) ==
  IF job[s].devs # {} THEN job[s].devs
  ELSE {<<q, "speaker">> : q \in getActiveStream("speaker") \ {o[1] : o \in job[s].off}}

(* A detector that stays behind alone goes back to the handset. *)
restoreDeviceConfigForUPD(s) ==
  /\ job[s].do = "upd"
  /\ LET conn  == job[s].conn
         stays == Staying(s)
         taken == \E i \in DOMAIN conn : conn[i].d # "handset" /\ BackEnd(conn[i].d) = BackEnd("handset")
         same  == {q \in stays : q[2] = "handset" /\ cfg["handset"] = 96}
         goes  == IF layout = "virtual" \/ job[s].off = {} \/ taken \/ Cardinality(stays) # 1 THEN {}
                  ELSE {q \in stays \ same : q[1] \in Upds}
     IN job' = [job EXCEPT ![s] = Todo("switch", {},
                  Move([off |-> job[s].off, conn |-> conn, gone |-> {}], goes, [id |-> "handset", r |-> 96]),
                  <<>>)]
  /\ UNCHANGED <<platform, reg, want, on, attr, cfg, group, used>>

Next ==
  \E s \in Streams :
    \/ OpenStream(s) \/ updateDeviceConfig(s) \/ Switch(s) \/ CloseStream(s) \/ restoreDevice(s)
    \/ SwitchDevice(s) \/ restoreDeviceConfigForUPD(s)

Spec == Init /\ [][Next]_vars

------------------------------------------------------------------------------
Settled == \A s \in Streams : job[s] = Idle

(* Every variable keeps to its values. *)
TypeOK ==
  /\ reg \subseteq Streams
  /\ want \in [Streams -> SUBSET Devices] /\ on \in [Streams -> SUBSET Devices]
  /\ cfg \in [Devices -> {44, 48, 96}]
  /\ {group, used} \subseteq groups \cup {"none"}
  /\ \A s \in Streams : job[s].do \in {"idle", "config", "switch", "restore", "upd"}

(***************************************************************************)
(* A device's entries (insert- and removeStreamDeviceAttr()) are those of  *)
(* the streams that want it, each once and sorted by priority, so that no  *)
(* entry outlives its stream and the first one decides.                    *)
(***************************************************************************)
CountsExact ==
  \A d \in Devices :
    /\ {attr[d][i].s : i \in DOMAIN attr[d]} = {s \in Streams : d \in want[s]}
    /\ \A i, j \in DOMAIN attr[d] : i < j => attr[d][i].s # attr[d][j].s /\ attr[d][i].p <= attr[d][j].p

(***************************************************************************)
(* Once the calls are done: one device of a back end runs at a time        *)
(* (compareSharedBEStreamDevAttr()), every stream has a device, and where  *)
(* the streams' wishes conflict the device runs that a stream of the       *)
(* highest priority asked for.                                             *)
(***************************************************************************)
OneAtATime == \A s, q \in reg : \A d \in on[s], e \in on[q] : BackEnd(d) = BackEnd(e) => d = e
Placed     == \A s \in reg : on[s] # {}
PriorityRules ==
  \A s \in reg \ Upds : \A d \in on[s] :
    LET all == {q \in {p[1] : p \in getSharedBEActiveStreamDevs(d)} :
                  \E e \in want[q] : BackEnd(e) = BackEnd(d)}
    IN all # {} => \E q \in all : d \in want[q] /\ \A o \in all : Prio(q) <= Prio(o)

RoutesRight == Settled => OneAtATime /\ Placed /\ PriorityRules

(***************************************************************************)
(* Once the calls are done: while haptics play, no headset runs at a       *)
(* multiple of 44.1 kHz (checkHapticsConcurrency()); and the virtual       *)
(* port's group configuration is the one for what runs on it, and the one  *)
(* that was applied (checkAndUpdateGroupDevConfig()).                      *)
(***************************************************************************)
HapticsFit ==
  getActiveStream("haptics") # {} /\ getActiveStream("headset") # {} => cfg["headset"] \notin Family44
GroupFits ==
  LET spk  == getActiveStream("speaker") # {}
      ear  == getActiveStream("handset") # {}
      upd  == getActiveStream("ultrasound") # {}
      both == IF spk THEN "UPD_RX_SPEAKER" ELSE "UPD_RX_HANDSET"
  IN layout = "virtual" /\ (spk \/ ear \/ upd) =>
       /\ used = group
       /\ CASE upd /\ (spk \/ ear) -> both \in groups => group = both
            [] upd -> group = "UPD_RX"
            [] OTHER -> group \in IF spk THEN {"SPEAKER", "SPEAKER_VOICE"} ELSE {"HANDSET"}

Adapts == Settled => HapticsFit /\ GroupFits
==============================================================================
