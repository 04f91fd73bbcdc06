------------------------ MODULE ContainerLife_proofs ------------------------
(***************************************************************************)
(* Proofs about one session's container, for any number of containers and  *)
(* faults, whatever interrupts and, but where a theorem says so, overlaps. *)
(***************************************************************************)
EXTENDS ContainerLife, TLAPS

(***************************************************************************)
(* Types.                                                                  *)
(***************************************************************************)
Host ==
  [session : BOOLEAN, state : States, status : Status,
   box : 0..MaxBoxes, full : BOOLEAN, attaching : Flows \cup {"none"},
   installed : SUBSET Boxes, conn : 0..MaxBoxes, alive : BOOLEAN,
   attached : BOOLEAN, timer : BOOLEAN, read : BOOLEAN, swept : BOOLEAN]

Docker ==
  [box : [Boxes -> {"none", "up", "down", "gone"}],
   half : SUBSET Boxes, open : SUBSET Boxes, adapter : SUBSET Boxes,
   network : BOOLEAN, proxy : {"none", "up", "down"}, scope : BOOLEAN]

Flow ==
  [at : Places, box : 0..MaxBoxes, fit : {"todo", "done", "failed"},
   proxy : {"todo", "found", "new", "done", "failed"}]

Launches == [Flows -> Flow]

LEMMA PatchedType ==
  ASSUME NEW h \in Host, NEW st \in Status, NEW b \in 0..MaxBoxes, NEW fu \in BOOLEAN
  PROVE  /\ Patched(h, st, b, fu) \in Host
         /\ LET p == Patched(h, st, b, fu)
            IN  /\ p.session = h.session /\ p.state = h.state
                /\ p.attaching = h.attaching /\ p.conn = h.conn
                /\ p.alive = h.alive /\ p.attached = h.attached
                /\ p.installed = h.installed /\ p.swept = h.swept
                /\ h.session => p.status = st /\ p.box = b
                /\ ~h.session => p.status = h.status /\ p.box = h.box
BY DEF Patched, Host

LEMMA ThrownType ==
  ASSUME NEW h \in Host, NEW f \in Flows
  PROVE  /\ Thrown(h, f) \in Host
         /\ LET p == Thrown(h, f)
            IN  /\ p.session = h.session /\ p.conn = h.conn
                /\ p.alive = h.alive /\ p.attached = h.attached
                /\ p.status = h.status /\ p.box = h.box /\ p.swept = h.swept
                /\ p.state = IF h.state = "starting" THEN "draft" ELSE h.state
                /\ p.attaching = IF h.attaching = f THEN "none" ELSE h.attaching
<1> DEFINE ti == h.timer \/ (h.session /\ "prompt" \in Sharing(f))
           p == [h EXCEPT !.state = IF @ = "starting" THEN "draft" ELSE @,
                          !.attaching = IF @ = f THEN "none" ELSE @,
                          !.timer = ti]
<1>1. Thrown(h, f) = p
  BY DEF Thrown, Host
<1>2. ti \in BOOLEAN
  OBVIOUS
<1> HIDE DEF ti
<1>3. p \in Host
  BY <1>2 DEF Host, States
<1>4. /\ p.session = h.session /\ p.conn = h.conn
      /\ p.alive = h.alive /\ p.attached = h.attached
      /\ p.status = h.status /\ p.box = h.box /\ p.swept = h.swept
      /\ p.state = IF h.state = "starting" THEN "draft" ELSE h.state
      /\ p.attaching = IF h.attaching = f THEN "none" ELSE h.attaching
  BY DEF Host
<1> HIDE DEF p
<1> QED BY <1>1, <1>3, <1>4

LEMMA ForgottenType ==
  ASSUME NEW h \in Host, NEW ids
  PROVE  /\ Forgotten(h, ids) \in Host
         /\ LET p == Forgotten(h, ids)
            IN  /\ p.session = h.session /\ p.state = h.state
                /\ p.attaching = h.attaching /\ p.conn = h.conn
                /\ p.alive = h.alive /\ p.attached = h.attached
                /\ p.status = h.status /\ p.box = h.box /\ p.full = h.full
                /\ p.swept = h.swept
BY DEF Forgotten, Host

LEMMA KilledType ==
  ASSUME NEW h \in Host, NEW ids
  PROVE  /\ Killed(h, ids) \in Host
         /\ LET p == Killed(h, ids)
            IN  /\ p.session = h.session /\ p.state = h.state
                /\ p.attaching = h.attaching /\ p.conn = h.conn
                /\ p.attached = h.attached
                /\ p.status = h.status /\ p.box = h.box /\ p.full = h.full
                /\ p.alive = (h.alive /\ h.conn \notin ids) /\ p.swept = h.swept
BY DEF Killed, Host

LEMMA DetachedType ==
  ASSUME NEW h \in Host
  PROVE  /\ Detached(h) \in Host
         /\ LET p == Detached(h)
            IN  /\ p.session = h.session /\ p.state = h.state
                /\ p.attaching = h.attaching /\ p.conn = h.conn
                /\ p.status = h.status /\ p.box = h.box /\ p.full = h.full
                /\ ~p.alive /\ ~p.attached /\ p.swept = h.swept
BY DEF Detached, Host

LEMMA RemovedType ==
  ASSUME NEW d \in Docker, NEW ids
  PROVE  /\ Removed(d, ids) \in Docker
         /\ LET e == Removed(d, ids)
            IN  /\ \A i \in Boxes : e.box[i] = IF i \in ids /\ d.box[i] # "none"
                                                 THEN "gone" ELSE d.box[i]
                /\ e.open = d.open \ ids /\ e.network = d.network
                /\ e.proxy = d.proxy /\ e.scope = d.scope
BY DEF Removed, Docker

LEMMA ThrowType ==
  ASSUME NEW f \in Flows, launch \in Launches, Throw(f)
  PROVE  launch' \in Launches
<1>1. Asleep \in Flow
  BY LifeAssumption DEF Asleep, Flow, Places
<1> QED BY <1>1 DEF Throw, Launches

(* A launch that goes on to its next await. *)
Moved(f, r) == [launch EXCEPT ![f] = r]

LEMMA GoType ==
  ASSUME NEW f \in Flows, NEW p \in Places, launch \in Launches, Go(f, p)
  PROVE  \E r \in Flow : /\ launch' = Moved(f, r)
                         /\ r.at = p /\ r.box = launch[f].box
<1>1. launch[f] \in Flow
  BY DEF Launches
<1> DEFINE r == [launch[f] EXCEPT !.at = p]
<1>2. r \in Flow /\ r.at = p /\ r.box = launch[f].box
  BY <1>1 DEF Flow
<1>3. launch' = Moved(f, r)
  BY DEF Go, Moved
<1> QED BY <1>2, <1>3

LEMMA MovedType ==
  ASSUME NEW f \in Flows, NEW r \in Flow, launch \in Launches
  PROVE  /\ Moved(f, r) \in Launches
         /\ Moved(f, r)[f] = r
         /\ \A g \in Flows : g # f => Moved(f, r)[g] = launch[g]
BY DEF Moved, Launches

StopRec == [at : {"idle", "revoke", "proxy", "docker"}, box : 0..MaxBoxes, full : BOOLEAN]

RmRec == [at : {"idle", "settle", "list", "boxes", "proxy", "record"},
          box : 0..MaxBoxes, ids : SUBSET Boxes]

DiskRec == [session : BOOLEAN, state : {"draft", "started"}, status : Status,
            box : 0..MaxBoxes, full : BOOLEAN]

LEMMA TypeIs ==
  TypeOK <=> /\ host \in Host /\ docker \in Docker /\ launch \in Launches
             /\ stop \in StopRec /\ rm \in RmRec /\ disk \in DiskRec
             /\ faults \in 0..MaxFaults
BY DEF TypeOK, Host, Docker, Launches, Flow, StopRec, RmRec, DiskRec

LEMMA FaultsType ==
  ASSUME TypeOK, Works \/ Fails
  PROVE  faults' \in 0..MaxFaults
BY LifeAssumption DEF TypeOK, Works, Fails

(* What a launch changes. *)
LEMMA LaunchType ==
  ASSUME TypeOK, Works \/ Fails, Untorn,
         host' \in Host, docker' \in Docker, launch' \in Launches
  PROVE  TypeOK'
<1>1. stop' \in StopRec /\ rm' \in RmRec /\ disk' \in DiskRec
  BY TypeIs DEF Untorn
<1>2. /\ host \in Host /\ docker \in Docker /\ launch \in Launches
  BY TypeIs
<1>3. faults' \in 0..MaxFaults
  BY FaultsType
<1> QED
  BY <1>1, <1>3 DEF TypeOK, Host, Docker, Launches, Flow, StopRec, RmRec, DiskRec

LEMMA BoxOf ==
  ASSUME TypeOK, NEW f \in Flows
  PROVE  /\ launch[f] \in Flow /\ launch[f].box \in 0..MaxBoxes
         /\ Up(launch[f].box) => launch[f].box \in Boxes
         /\ Existing \subseteq Boxes /\ host \in Host /\ docker \in Docker
         /\ launch \in Launches
BY TypeIs, LifeAssumption DEF Launches, Flow, Up, Boxes, Existing

LEMMA EnsureFailsType ==
  ASSUME TypeOK, NEW f \in Flows, EnsureFails(f)
  PROVE  host' \in Host /\ launch' \in Launches
<1> DEFINE b == IF host.status # "none" THEN host.box ELSE launch[f].box
<1>1. host \in Host /\ b \in 0..MaxBoxes /\ host.full \in BOOLEAN /\ "error" \in Status
  BY BoxOf DEF Host, Status
<1>2. host' = Thrown(Patched(host, "error", b, host.full), f)
  BY DEF EnsureFails
<1> HIDE DEF b
<1>3. Patched(host, "error", b, host.full) \in Host
  BY <1>1, PatchedType
<1>4. host' \in Host
  BY <1>2, <1>3, ThrownType
<1>5. launch' \in Launches
  BY ThrowType, BoxOf DEF EnsureFails
<1> QED BY <1>4, <1>5

LEMMA WakeType ==
  ASSUME TypeOK, NEW f \in Flows, Run \/ Attach(f)
  PROVE  TypeOK'
<1>1. host \in Host /\ docker \in Docker /\ launch \in Launches
  BY TypeIs
<1>2. CASE Run
  <2>1. host' \in Host
    BY <1>1, <1>2 DEF Run, Host, States
  <2>2. launch' \in Launches
    <3>1. "prompt" \in Flows /\ "resolve" \in Places /\ Go("prompt", "resolve")
      BY <1>2 DEF Run, Flows, Places
    <3> QED BY <1>1, <3>1, GoType, MovedType
  <2> QED BY <1>1, <1>2, <2>1, <2>2, LaunchType DEF Run
<1>3. CASE Attach(f)
  <2>1. host' \in Host
    <3>1. host' = [host EXCEPT !.timer = FALSE] \/
          host' = [host EXCEPT !.attaching = IF @ = "none" THEN f ELSE @,
                               !.timer = @ /\ f # "prompt"]
      BY <1>3 DEF Attach
    <3>2. [host EXCEPT !.timer = FALSE] \in Host
      BY <1>1 DEF Host
    <3> DEFINE a == IF host.attaching = "none" THEN f ELSE host.attaching
               t == host.timer /\ f # "prompt"
    <3>3. a \in Flows \cup {"none"} /\ t \in BOOLEAN
      BY <1>1 DEF Host
    <3> HIDE DEF a, t
    <3>4. [host EXCEPT !.attaching = a, !.timer = t] \in Host
      BY <1>1, <3>3 DEF Host
    <3>5. [host EXCEPT !.attaching = IF @ = "none" THEN f ELSE @,
                       !.timer = @ /\ f # "prompt"] = [host EXCEPT !.attaching = a, !.timer = t]
      BY <1>1 DEF a, t, Host
    <3> QED BY <3>1, <3>2, <3>4, <3>5
  <2>2. launch' \in Launches
    <3>1. Go(f, "turn") \/ Go(f, "resolve") \/ Go(f, "wait")
      BY <1>3 DEF Attach
    <3>2. {"turn", "resolve", "wait"} \subseteq Places
      BY DEF Places
    <3> QED BY <1>1, <3>1, <3>2, GoType, MovedType
  <2> QED BY <1>1, <1>3, <2>1, <2>2, LaunchType DEF Attach
<1> QED BY <1>2, <1>3

(***************************************************************************)
(* What a step of a launch is: it throws, or goes on to its next await.    *)
(***************************************************************************)
Early == {"resolve", "probe", "sweep", "clone", "restart", "create", "setup",
          "script", "up", "outfit", "net"}
Shut  == {"push", "connect", "init", "load"}

(* An agent may die, be let go of, or exit; none is taken up. *)
Fades ==
  /\ host'.conn \in {0, host.conn}
  /\ host'.alive => /\ host.alive /\ host'.conn = host.conn
                    /\ host'.attached = host.attached
  /\ host'.attached => host.attached

Threw(f) ==
  /\ Throw(f) /\ Fades /\ docker'.open \subseteq docker.open
  /\ host'.state = IF host.state = "starting" THEN "draft" ELSE host.state
  /\ host'.attaching = IF host.attaching = f THEN "none" ELSE host.attaching

Goes(f) ==
  /\ Fades /\ host'.state = host.state /\ host'.attaching = host.attaching
  /\ \E r \in Flow :
       /\ launch' = Moved(f, r) /\ r.at \in Early \cup Shut
       /\ r.at = "load" => host.conn \in {0, r.box}
       /\ r.at \in Shut /\ Internal =>
            \/ r.box \notin docker'.open
            \/ /\ launch[f].at \in Shut /\ r.box = launch[f].box
               /\ docker'.open \subseteq docker.open

LEMMA EnsureThrows ==
  ASSUME TypeOK, NEW f \in Flows, EnsureFails(f), docker'.open \subseteq docker.open
  PROVE  Threw(f)
<1> DEFINE b == IF host.status # "none" THEN host.box ELSE launch[f].box
           p == Patched(host, "error", b, host.full)
<1>1. host \in Host /\ b \in 0..MaxBoxes /\ host.full \in BOOLEAN /\ "error" \in Status
  BY BoxOf DEF Host, Status
<1>2. host' = Thrown(p, f) /\ Throw(f)
  BY DEF EnsureFails
<1> HIDE DEF b
<1>3. /\ p \in Host /\ p.state = host.state /\ p.attaching = host.attaching
      /\ p.conn = host.conn /\ p.alive = host.alive /\ p.attached = host.attached
  BY <1>1, PatchedType
<1> HIDE DEF p
<1> QED BY <1>2, <1>3, ThrownType DEF Threw, Fades

LEMMA PlainThrows ==
  ASSUME TypeOK, NEW f \in Flows, Throw(f), host' = Thrown(host, f),
         docker'.open \subseteq docker.open
  PROVE  host' \in Host /\ launch' \in Launches /\ Threw(f)
<1>1. host \in Host /\ launch \in Launches
  BY TypeIs
<1>2. launch' \in Launches
  BY <1>1, ThrowType
<1> QED BY <1>1, <1>2, ThrownType DEF Threw, Fades

(* It goes on, and remembers what it did to the record. *)
LEMMA PlainGoes ==
  ASSUME TypeOK, NEW f \in Flows, NEW p \in Early, Go(f, p), host' \in Host,
         Fades, host'.state = host.state, host'.attaching = host.attaching
  PROVE  launch' \in Launches /\ Goes(f)
<1>1. launch \in Launches /\ p \in Places
  BY TypeIs DEF Early, Places
<1>2. PICK r \in Flow : launch' = Moved(f, r) /\ r.at = p
  BY <1>1, GoType
<1>3. p \notin Shut
  BY DEF Early, Shut
<1> QED BY <1>1, <1>2, <1>3, MovedType DEF Goes, Shut

LEMMA HostKept ==
  ASSUME host' = host
  PROVE  Fades /\ host'.state = host.state /\ host'.attaching = host.attaching
BY DEF Fades

LEMMA HostPatched ==
  ASSUME host \in Host, NEW st \in Status, NEW b \in 0..MaxBoxes, NEW fu \in BOOLEAN,
         host' = Patched(host, st, b, fu)
  PROVE  /\ host' \in Host /\ Fades /\ host'.state = host.state
         /\ host'.attaching = host.attaching
BY PatchedType DEF Fades

LEMMA ResolveStep ==
  ASSUME TypeOK, NEW f \in Flows, Resolve(f)
  PROVE  TypeOK' /\ (Threw(f) \/ Goes(f))
<1>1. host \in Host /\ docker \in Docker /\ launch \in Launches /\ docker' = docker
  BY TypeIs DEF Resolve
<1>2. host' \in Host /\ launch' \in Launches /\ (Threw(f) \/ Goes(f))
  <2>1. CASE host.session
    <3> DEFINE r == [Asleep EXCEPT !.at = "probe", !.box = host.box]
    <3>1. r \in Flow /\ r.at = "probe"
      BY <1>1, LifeAssumption DEF Asleep, Flow, Places, Host
    <3>2. launch' = [launch EXCEPT ![f] = r] /\ host' = host
      BY <2>1 DEF Resolve
    <3> HIDE DEF r
    <3>3. launch' = Moved(f, r)
      BY <3>2 DEF Moved
    <3>4. "probe" \in Early /\ "probe" \notin Shut
      BY DEF Early, Shut
    <3>5. Goes(f)
      BY <3>1, <3>2, <3>3, <3>4, HostKept DEF Goes
    <3> QED BY <1>1, <3>1, <3>2, <3>3, <3>5, MovedType
  <2>2. CASE ~host.session
    BY <1>1, <2>2, PlainThrows DEF Resolve
  <2> QED BY <2>1, <2>2
<1> QED BY <1>1, <1>2, LaunchType DEF Resolve

LEMMA ProbeStep ==
  ASSUME TypeOK, NEW f \in Flows, Probe(f)
  PROVE  TypeOK' /\ Goes(f)
<1>1. host \in Host /\ docker \in Docker /\ host' = host /\ docker' = docker
  BY TypeIs DEF Probe
<1>2. PICK p \in {"outfit", "sweep"} : Go(f, p)
  BY DEF Probe
<1>3. p \in Early
  BY DEF Early
<1>4. launch' \in Launches /\ Goes(f)
  BY <1>1, <1>2, <1>3, HostKept, PlainGoes
<1> QED BY <1>1, <1>4, LaunchType DEF Probe

LEMMA SweepStep ==
  ASSUME TypeOK, NEW f \in Flows, Sweep(f)
  PROVE  TypeOK' /\ Goes(f)
<1> DEFINE own   == IF launch[f].box \in Existing THEN launch[f].box ELSE 0
           stray == Existing \ {own}
           k     == Killed(host, stray)
           g     == Forgotten(k, stray \cup {launch[f].box})
           full  == own # 0 /\ host.full
           r     == [launch[f] EXCEPT !.at = "clone", !.box = own]
<1>1. /\ docker' = Removed(docker, stray)
      /\ host' = Patched(g, "building", own, full)
      /\ launch' = [launch EXCEPT ![f].at = "clone", ![f].box = own]
  BY DEF Sweep
<1>2. host \in Host /\ docker \in Docker /\ launch \in Launches /\ launch[f] \in Flow
  BY BoxOf
<1>3. own \in 0..MaxBoxes /\ "building" \in Status /\ full \in BOOLEAN
  BY <1>2, LifeAssumption DEF Flow, Status, Host
<1>4. r \in Flow /\ r.at = "clone"
  BY <1>2, <1>3 DEF Flow, Places
<1>5. launch' = Moved(f, r)
  BY <1>1 DEF Moved
<1> HIDE DEF own, stray, full, r
<1>6. docker' \in Docker
  BY <1>1, <1>2, RemovedType
<1>7. /\ k \in Host /\ k.state = host.state /\ k.attaching = host.attaching
      /\ k.conn = host.conn /\ (k.alive => host.alive) /\ k.attached = host.attached
  BY <1>2, KilledType
<1> HIDE DEF k
<1>8. /\ g \in Host /\ g.state = host.state /\ g.attaching = host.attaching
      /\ g.conn = host.conn /\ (g.alive => host.alive) /\ g.attached = host.attached
  BY <1>7, ForgottenType
<1> HIDE DEF g
<1>9. /\ host' \in Host /\ Fades /\ host'.state = host.state
      /\ host'.attaching = host.attaching
  BY <1>1, <1>3, <1>8, PatchedType DEF Fades
<1>10. Goes(f)
  BY <1>4, <1>5, <1>9 DEF Goes, Early, Shut
<1>11. launch' \in Launches
  BY <1>2, <1>4, <1>5, MovedType
<1> QED BY <1>6, <1>9, <1>10, <1>11, LaunchType DEF Sweep

LEMMA EnsureStep ==
  ASSUME TypeOK, NEW f \in Flows, EnsureFails(f), docker' \in Docker,
         docker'.open \subseteq docker.open
  PROVE  host' \in Host /\ launch' \in Launches /\ Threw(f)
BY EnsureFailsType, EnsureThrows

LEMMA CloneStep ==
  ASSUME TypeOK, NEW f \in Flows, Clone(f)
  PROVE  TypeOK' /\ (Threw(f) \/ Goes(f))
<1>1. host \in Host /\ docker \in Docker /\ launch \in Launches
      /\ launch[f].box \in 0..MaxBoxes
  BY BoxOf
<1>2. \/ Go(f, "create") /\ host' = host /\ docker' = docker
      \/ /\ docker' = [docker EXCEPT !.open = @ \cup ({launch[f].box} \cap Existing)]
         /\ host' = Patched(host, "post", launch[f].box, host.full)
         /\ Go(f, "restart")
      \/ EnsureFails(f) /\ docker' = docker
  BY DEF Clone
<1>3. "create" \in Early /\ "restart" \in Early /\ "post" \in Status
      /\ host.full \in BOOLEAN
  BY <1>1 DEF Early, Status, Host
<1>4. CASE Go(f, "create") /\ host' = host /\ docker' = docker
  <2>1. launch' \in Launches /\ Goes(f)
    BY <1>1, <1>3, <1>4, HostKept, PlainGoes
  <2> QED BY <1>1, <1>4, <2>1, LaunchType DEF Clone
<1>5. CASE /\ docker' = [docker EXCEPT !.open = @ \cup ({launch[f].box} \cap Existing)]
           /\ host' = Patched(host, "post", launch[f].box, host.full)
           /\ Go(f, "restart")
  <2>1. docker' \in Docker
    BY <1>1, <1>5, BoxOf DEF Docker
  <2>2. /\ host' \in Host /\ Fades /\ host'.state = host.state
        /\ host'.attaching = host.attaching
    BY <1>1, <1>3, <1>5, HostPatched
  <2>3. launch' \in Launches /\ Goes(f)
    BY <1>3, <1>5, <2>2, PlainGoes
  <2> QED BY <2>1, <2>2, <2>3, LaunchType DEF Clone
<1>6. CASE EnsureFails(f) /\ docker' = docker
  <2>1. host' \in Host /\ launch' \in Launches /\ Threw(f)
    BY <1>1, <1>6, EnsureStep
  <2> QED BY <1>1, <1>6, <2>1, LaunchType DEF Clone
<1> QED BY <1>2, <1>4, <1>5, <1>6

LEMMA RestartStep ==
  ASSUME TypeOK, NEW f \in Flows, Restart(f)
  PROVE  TypeOK' /\ (Threw(f) \/ Goes(f))
<1>1. host \in Host /\ docker \in Docker /\ Existing \subseteq Boxes
  BY BoxOf
<1>2. docker' \in Docker /\ docker'.open = docker.open
  <2>1. CASE launch[f].box \in Existing /\ docker' = [docker EXCEPT !.box[launch[f].box] = "up"]
    BY <1>1, <2>1 DEF Docker
  <2>2. CASE docker' = docker
    BY <1>1, <2>2
  <2> QED BY <2>1, <2>2 DEF Restart
<1>3. (Go(f, "up") /\ host' = host) \/ EnsureFails(f)
  BY DEF Restart
<1>4. CASE Go(f, "up") /\ host' = host
  <2>1. "up" \in Early
    BY DEF Early
  <2>2. launch' \in Launches /\ Goes(f)
    BY <1>1, <1>4, <2>1, HostKept, PlainGoes
  <2> QED BY <1>1, <1>2, <1>4, <2>2, LaunchType DEF Restart
<1>5. CASE EnsureFails(f)
  <2>1. host' \in Host /\ launch' \in Launches /\ Threw(f)
    BY <1>2, <1>5, EnsureStep
  <2> QED BY <1>2, <1>5, <2>1, LaunchType DEF Restart
<1> QED BY <1>3, <1>4, <1>5

LEMMA CreateStep ==
  ASSUME TypeOK, NEW f \in Flows, Create(f)
  PROVE  TypeOK' /\ Goes(f)
<1>1. host \in Host /\ docker \in Docker /\ launch \in Launches /\ launch[f] \in Flow
  BY BoxOf
<1>2. PICK i \in Boxes :
        /\ docker' = [docker EXCEPT !.box[i] = "up", !.half = @ \cup {i}, !.open = @ \cup {i}]
        /\ launch' = [launch EXCEPT ![f].at = "setup", ![f].box = i]
        /\ host' = Patched(host, "post", 0, FALSE)
  BY DEF Create
<1> DEFINE r == [launch[f] EXCEPT !.at = "setup", !.box = i]
<1>10. i \in 0..MaxBoxes /\ "setup" \in Places
  BY LifeAssumption DEF Boxes, Places
<1>3. r \in Flow /\ r.at = "setup"
  BY <1>1, <1>10 DEF Flow
<1>4. launch' = Moved(f, r)
  BY <1>2 DEF Moved
<1> HIDE DEF r
<1>5. docker' \in Docker
  BY <1>1, <1>2 DEF Docker
<1>6. 0 \in 0..MaxBoxes /\ "post" \in Status
  BY LifeAssumption DEF Status
<1>7. /\ host' \in Host /\ Fades /\ host'.state = host.state
      /\ host'.attaching = host.attaching
  BY <1>1, <1>2, <1>6, HostPatched
<1>8. Goes(f)
  BY <1>3, <1>4, <1>7 DEF Goes, Early, Shut
<1>9. launch' \in Launches
  BY <1>1, <1>3, <1>4, MovedType
<1> QED BY <1>5, <1>7, <1>8, <1>9, LaunchType DEF Create

LEMMA SetupStep ==
  ASSUME TypeOK, NEW f \in Flows, Setup(f)
  PROVE  TypeOK' /\ (Threw(f) \/ Goes(f))
<1> DEFINE i == launch[f].box
<1>1. host \in Host /\ docker \in Docker /\ i \in 0..MaxBoxes
  BY BoxOf
<1>2. \/ /\ docker' = [docker EXCEPT !.half = @ \ {i}]
         /\ host' = Patched(host, "post", i, FALSE) /\ Go(f, "script")
      \/ EnsureFails(f) /\ docker' \in {Removed(docker, {i}), docker}
  BY DEF Setup
<1>3. CASE /\ docker' = [docker EXCEPT !.half = @ \ {i}]
           /\ host' = Patched(host, "post", i, FALSE) /\ Go(f, "script")
  <2>1. docker' \in Docker
    BY <1>1, <1>3 DEF Docker
  <2>2. "post" \in Status /\ "script" \in Early
    BY DEF Status, Early
  <2>3. /\ host' \in Host /\ Fades /\ host'.state = host.state
        /\ host'.attaching = host.attaching
    BY <1>1, <1>3, <2>2, HostPatched
  <2>4. launch' \in Launches /\ Goes(f)
    BY <1>3, <2>2, <2>3, PlainGoes
  <2> QED BY <2>1, <2>3, <2>4, LaunchType DEF Setup
<1>4. CASE EnsureFails(f) /\ docker' \in {Removed(docker, {i}), docker}
  <2>1. docker' \in Docker /\ docker'.open \subseteq docker.open
    BY <1>1, <1>4, RemovedType
  <2>2. host' \in Host /\ launch' \in Launches /\ Threw(f)
    BY <1>4, <2>1, EnsureStep
  <2> QED BY <2>1, <2>2, LaunchType DEF Setup
<1> QED BY <1>2, <1>3, <1>4

LEMMA ScriptStep ==
  ASSUME TypeOK, NEW f \in Flows, Script(f)
  PROVE  TypeOK' /\ (Threw(f) \/ Goes(f))
<1>1. host \in Host /\ docker \in Docker /\ docker' = docker
  BY BoxOf DEF Script
<1>2. (Go(f, "up") /\ host' = host) \/ EnsureFails(f)
  BY DEF Script
<1>3. CASE Go(f, "up") /\ host' = host
  <2>1. "up" \in Early
    BY DEF Early
  <2>2. launch' \in Launches /\ Goes(f)
    BY <1>1, <1>3, <2>1, HostKept, PlainGoes
  <2> QED BY <1>1, <1>3, <2>2, LaunchType DEF Script
<1>4. CASE EnsureFails(f)
  <2>1. host' \in Host /\ launch' \in Launches /\ Threw(f)
    BY <1>1, <1>4, EnsureStep
  <2> QED BY <1>1, <1>4, <2>1, LaunchType DEF Script
<1> QED BY <1>2, <1>3, <1>4

LEMMA EnsureUpStep ==
  ASSUME TypeOK, NEW f \in Flows, EnsureUp(f)
  PROVE  TypeOK' /\ (Threw(f) \/ Goes(f))
<1>1. host \in Host /\ docker \in Docker /\ launch[f].box \in 0..MaxBoxes
      /\ launch \in Launches
  BY BoxOf
<1>2. CASE host.session
  <2>1. /\ host' = Patched(host, "running", launch[f].box, TRUE)
        /\ Go(f, "outfit") /\ docker' = docker
    BY <1>2 DEF EnsureUp
  <2>2. "running" \in Status /\ "outfit" \in Early
    BY DEF Status, Early
  <2>3. /\ host' \in Host /\ Fades /\ host'.state = host.state
        /\ host'.attaching = host.attaching
    BY <1>1, <2>1, <2>2, HostPatched
  <2>4. launch' \in Launches /\ Goes(f)
    BY <2>1, <2>2, <2>3, PlainGoes
  <2> QED BY <1>1, <2>1, <2>3, <2>4, LaunchType DEF EnsureUp
<1>3. CASE ~host.session
  <2> DEFINE g == Forgotten(host, {launch[f].box})
  <2>1. docker' = Removed(docker, {launch[f].box}) /\ host' = Thrown(g, f) /\ Throw(f)
    BY <1>3 DEF EnsureUp
  <2>2. docker' \in Docker /\ docker'.open \subseteq docker.open
    BY <1>1, <2>1, RemovedType
  <2>3. /\ g \in Host /\ g.state = host.state /\ g.attaching = host.attaching
        /\ g.conn = host.conn /\ g.alive = host.alive /\ g.attached = host.attached
    BY <1>1, ForgottenType
  <2> HIDE DEF g
  <2>4. /\ host' \in Host /\ host'.conn = g.conn /\ host'.alive = g.alive
        /\ host'.attached = g.attached
        /\ host'.state = IF g.state = "starting" THEN "draft" ELSE g.state
        /\ host'.attaching = IF g.attaching = f THEN "none" ELSE g.attaching
    BY <2>1, <2>3, ThrownType
  <2>5. Threw(f)
    BY <2>1, <2>2, <2>3, <2>4 DEF Threw, Fades
  <2>6. launch' \in Launches
    BY <1>1, <2>1, ThrowType
  <2> QED BY <2>2, <2>4, <2>5, <2>6, LaunchType DEF EnsureUp
<1> QED BY <1>2, <1>3

LEMMA InstallStep ==
  ASSUME TypeOK, NEW f \in Flows, Install(f)
  PROVE  TypeOK' /\ Goes(f)
<1> DEFINE i == launch[f].box
<1>1. /\ host \in Host /\ docker \in Docker /\ launch \in Launches /\ launch[f] \in Flow
      /\ Existing \subseteq Boxes
  BY BoxOf
<1>2. PICK x \in {"done", "failed"} : launch' = [launch EXCEPT ![f].fit = x]
  BY DEF Install
<1> DEFINE r == [launch[f] EXCEPT !.fit = x]
<1>3. r \in Flow /\ r.at = "outfit"
  BY <1>1 DEF Install, At, Flow
<1>4. launch' = Moved(f, r)
  BY <1>2 DEF Moved
<1> HIDE DEF r
<1>5. /\ host' \in Host /\ Fades /\ host'.state = host.state
      /\ host'.attaching = host.attaching /\ docker' \in Docker
  <2>1. CASE host' = host /\ docker' = docker
    BY <1>1, <2>1, HostKept
  <2>2. CASE /\ i \in host.installed \/ Up(i)
             /\ docker' = [docker EXCEPT !.adapter = @ \cup ({i} \cap Existing)]
             /\ host' = [host EXCEPT !.installed = @ \cup {i}]
    <3>1. i \in Boxes
      BY <1>1, <2>2, BoxOf DEF Host
    <3>2. docker' \in Docker
      BY <1>1, <2>2 DEF Docker
    <3> HIDE DEF i
    <3>3. host' \in Host /\ Fades
      BY <1>1, <2>2, <3>1 DEF Host, Fades
    <3>4. host'.state = host.state /\ host'.attaching = host.attaching
      BY <1>1, <2>2 DEF Host
    <3> QED BY <3>2, <3>3, <3>4
  <2>3. (host' = host /\ docker' = docker)
        \/ (/\ i \in host.installed \/ Up(i)
            /\ docker' = [docker EXCEPT !.adapter = @ \cup ({i} \cap Existing)]
            /\ host' = [host EXCEPT !.installed = @ \cup {i}])
    BY DEF Install
  <2> QED BY <2>1, <2>2, <2>3
<1>6. Goes(f)
  BY <1>3, <1>4, <1>5 DEF Goes, Early, Shut
<1>7. launch' \in Launches
  BY <1>1, <1>3, <1>4, MovedType
<1> QED BY <1>5, <1>6, <1>7, LaunchType DEF Install

LEMMA ProxyStep ==
  ASSUME TypeOK, NEW f \in Flows, ProxyLook(f) \/ ProxyReady(f)
  PROVE  TypeOK' /\ Goes(f)
<1>1. host \in Host /\ docker \in Docker /\ launch \in Launches /\ launch[f] \in Flow
      /\ host' = host
  BY BoxOf DEF ProxyLook, ProxyReady
<1>2. PICK x \in {"found", "new", "done", "failed"} :
        launch' = [launch EXCEPT ![f].proxy = x]
  BY DEF ProxyLook, ProxyReady
<1> DEFINE r == [launch[f] EXCEPT !.proxy = x]
<1>3. r \in Flow /\ r.at = "outfit"
  BY <1>1 DEF ProxyLook, ProxyReady, At, Flow
<1>4. launch' = Moved(f, r)
  BY <1>2 DEF Moved
<1> HIDE DEF r
<1>5. docker' \in Docker
  <2>1. CASE ProxyLook(f)
    <3>1. docker' = [docker EXCEPT !.network = TRUE,
                                   !.proxy = IF @ = "up" THEN @ ELSE "none"]
      BY <2>1 DEF ProxyLook
    <3> QED BY <1>1, <3>1 DEF Docker
  <2>2. CASE ProxyReady(f)
    <3>1. docker' \in {docker, [docker EXCEPT !.proxy = "up"]}
      BY <2>2 DEF ProxyReady
    <3> QED BY <1>1, <3>1 DEF Docker
  <2> QED BY <2>1, <2>2
<1>6. Goes(f)
  BY <1>1, <1>3, <1>4, HostKept DEF Goes, Early, Shut
<1>7. launch' \in Launches
  BY <1>1, <1>3, <1>4, MovedType
<1>8. (Works \/ Fails) /\ Untorn
  BY DEF ProxyLook, ProxyReady
<1> QED BY <1>1, <1>5, <1>6, <1>7, <1>8, LaunchType

LEMMA OutfittedStep ==
  ASSUME TypeOK, NEW f \in Flows, Outfitted(f)
  PROVE  TypeOK' /\ (Threw(f) \/ Goes(f))
<1>1. host \in Host /\ docker \in Docker /\ docker' = docker
  BY BoxOf DEF Outfitted
<1>2. (Go(f, "net") /\ host' = host) \/ (Throw(f) /\ host' = Thrown(host, f))
  BY DEF Outfitted
<1>3. CASE Go(f, "net") /\ host' = host
  <2>1. "net" \in Early
    BY DEF Early
  <2>2. launch' \in Launches /\ Goes(f)
    BY <1>1, <1>3, <2>1, HostKept, PlainGoes
  <2> QED BY <1>1, <1>3, <2>2, LaunchType DEF Outfitted
<1>4. CASE Throw(f) /\ host' = Thrown(host, f)
  <2>1. host' \in Host /\ launch' \in Launches /\ Threw(f)
    BY <1>1, <1>4, PlainThrows
  <2> QED BY <1>1, <2>1, LaunchType DEF Outfitted
<1> QED BY <1>2, <1>3, <1>4

LEMMA SwitchStep ==
  ASSUME TypeOK, NEW f \in Flows, Switch(f)
  PROVE  TypeOK' /\ (Threw(f) \/ Goes(f))
<1>1. host \in Host /\ docker \in Docker /\ launch \in Launches
  BY BoxOf
<1>2. \/ /\ docker' = [docker EXCEPT !.open = @ \ {launch[f].box}]
         /\ Go(f, "push") /\ host' = host
      \/ Throw(f) /\ host' = Thrown(host, f) /\ docker' = docker
  BY DEF Switch
<1>3. CASE /\ docker' = [docker EXCEPT !.open = @ \ {launch[f].box}]
           /\ Go(f, "push") /\ host' = host
  <2>1. docker' \in Docker /\ launch[f].box \notin docker'.open
    BY <1>1, <1>3 DEF Docker
  <2>2. PICK r \in Flow : launch' = Moved(f, r) /\ r.at = "push" /\ r.box = launch[f].box
    BY <1>1, <1>3, GoType DEF Places
  <2>3. launch' \in Launches
    BY <1>1, <2>2, MovedType
  <2>4. Goes(f)
    BY <1>3, <2>1, <2>2, HostKept DEF Goes, Shut
  <2> QED BY <1>1, <1>3, <2>1, <2>3, <2>4, LaunchType DEF Switch
<1>4. CASE Throw(f) /\ host' = Thrown(host, f) /\ docker' = docker
  <2>1. host' \in Host /\ launch' \in Launches /\ Threw(f)
    BY <1>1, <1>4, PlainThrows
  <2> QED BY <1>1, <1>4, <2>1, LaunchType DEF Switch
<1> QED BY <1>2, <1>3, <1>4

(* Past the switch, a launch keeps its container and opens none. *)
LEMMA ShutGoes ==
  ASSUME TypeOK, NEW f \in Flows, NEW p \in {"connect", "init", "load"}, Go(f, p),
         launch[f].at \in Shut, docker'.open = docker.open, Fades,
         host'.state = host.state, host'.attaching = host.attaching,
         p = "load" => host.conn \in {0, launch[f].box}
  PROVE  launch' \in Launches /\ Goes(f)
<1>1. launch \in Launches /\ p \in Places /\ p \in Shut
  BY BoxOf DEF Places, Shut
<1>2. PICK r \in Flow : launch' = Moved(f, r) /\ r.at = p /\ r.box = launch[f].box
  BY <1>1, GoType
<1> QED BY <1>1, <1>2, MovedType DEF Goes

LEMMA PushStep ==
  ASSUME TypeOK, NEW f \in Flows, PushScope(f)
  PROVE  TypeOK' /\ Goes(f)
<1>1. /\ host \in Host /\ docker \in Docker /\ host' = host /\ Go(f, "connect")
      /\ docker' = [docker EXCEPT !.scope = TRUE] /\ launch[f].at \in Shut
  BY BoxOf DEF PushScope, At, Shut
<1>2. docker' \in Docker /\ docker'.open = docker.open
  BY <1>1 DEF Docker
<1>3. launch' \in Launches /\ Goes(f)
  BY <1>1, <1>2, HostKept, ShutGoes
<1> QED BY <1>1, <1>2, <1>3, LaunchType DEF PushScope

LEMMA ConnectStep ==
  ASSUME TypeOK, NEW f \in Flows, Connect(f)
  PROVE  TypeOK' /\ (Threw(f) \/ Goes(f))
<1>1. /\ host \in Host /\ docker \in Docker /\ docker' = docker
      /\ launch[f].at \in Shut /\ host.conn \in {0, launch[f].box}
  BY BoxOf DEF Connect, At, Shut
<1>2. \/ Go(f, "load") /\ host' = host
      \/ /\ Up(launch[f].box) /\ Go(f, "init")
         /\ host' = [host EXCEPT !.installed = @ \cup {launch[f].box}]
      \/ Throw(f) /\ host' = Thrown(host, f)
  BY DEF Connect
<1>3. CASE Go(f, "load") /\ host' = host
  <2>1. launch' \in Launches /\ Goes(f)
    BY <1>1, <1>3, HostKept, ShutGoes
  <2> QED BY <1>1, <1>3, <2>1, LaunchType DEF Connect
<1>4. CASE /\ Up(launch[f].box) /\ Go(f, "init")
           /\ host' = [host EXCEPT !.installed = @ \cup {launch[f].box}]
  <2>1. launch[f].box \in Boxes
    BY <1>4, BoxOf
  <2>2. host' \in Host /\ Fades
    BY <1>1, <1>4, <2>1 DEF Host, Fades
  <2>3. host'.state = host.state /\ host'.attaching = host.attaching
    BY <1>1, <1>4 DEF Host
  <2>4. launch' \in Launches /\ Goes(f)
    BY <1>1, <1>4, <2>2, <2>3, ShutGoes
  <2> QED BY <1>1, <2>2, <2>4, LaunchType DEF Connect
<1>5. CASE Throw(f) /\ host' = Thrown(host, f)
  <2>1. host' \in Host /\ launch' \in Launches /\ Threw(f)
    BY <1>1, <1>5, PlainThrows
  <2> QED BY <1>1, <2>1, LaunchType DEF Connect
<1> QED BY <1>2, <1>3, <1>4, <1>5

LEMMA InitializeStep ==
  ASSUME TypeOK, NEW f \in Flows, Initialize(f)
  PROVE  /\ TypeOK' /\ docker' = docker
         /\ \/ Threw(f)
            \/ /\ Up(launch[f].box)
               /\ host'.state = host.state /\ host'.attaching = host.attaching
               /\ host'.attached = host.attached
               /\ host'.alive /\ host'.conn = launch[f].box
               /\ \E r \in Flow : launch' = Moved(f, r) /\ r.at = "load"
                                  /\ r.box = launch[f].box
<1>1. /\ host \in Host /\ docker \in Docker /\ launch \in Launches /\ docker' = docker
      /\ launch[f].box \in 0..MaxBoxes
  BY BoxOf DEF Initialize
<1>2. CASE Throw(f) /\ host' = Thrown(host, f)
  <2>1. host' \in Host /\ launch' \in Launches /\ Threw(f)
    BY <1>1, <1>2, PlainThrows
  <2> QED BY <1>1, <2>1, LaunchType DEF Initialize
<1>3. CASE /\ Up(launch[f].box) /\ Go(f, "load")
           /\ host' = [host EXCEPT !.conn = launch[f].box, !.alive = TRUE]
  <2>1. host' \in Host
    BY <1>1, <1>3 DEF Host
  <2>2. /\ host'.state = host.state /\ host'.attaching = host.attaching
        /\ host'.attached = host.attached /\ host'.alive /\ host'.conn = launch[f].box
    BY <1>1, <1>3 DEF Host
  <2>3. PICK r \in Flow : launch' = Moved(f, r) /\ r.at = "load" /\ r.box = launch[f].box
    BY <1>1, <1>3, GoType DEF Places
  <2>4. launch' \in Launches
    BY <1>1, <2>3, MovedType
  <2>5. TypeOK'
    BY <1>1, <2>1, <2>4, LaunchType DEF Initialize
  <2> QED BY <1>1, <1>3, <2>2, <2>3, <2>5
<1> QED BY <1>2, <1>3 DEF Initialize

LEMMA LoadStep ==
  ASSUME TypeOK, NEW f \in Flows, Load(f)
  PROVE  /\ TypeOK' /\ docker' = docker
         /\ \/ Threw(f) /\ ~(host.alive /\ host.conn = launch[f].box)
            \/ /\ host'.state = "started" /\ host'.conn = host.conn
               /\ host'.attaching = IF host.attaching = f THEN "none" ELSE host.attaching
               /\ host'.attached /\ host'.alive = host.alive
               /\ launch' = Settled(f)
<1>1. /\ host \in Host /\ docker \in Docker /\ launch \in Launches /\ docker' = docker
  BY BoxOf DEF Load
<1>2. CASE /\ Throw(f) /\ host' = Thrown(host, f)
           /\ ~(host.alive /\ host.conn = launch[f].box)
  <2>1. host' \in Host /\ launch' \in Launches /\ Threw(f)
    BY <1>1, <1>2, PlainThrows
  <2> QED BY <1>1, <1>2, <2>1, LaunchType DEF Load
<1>3. CASE /\ launch' = Settled(f)
           /\ host' = [host EXCEPT !.attached = TRUE, !.state = "started",
                                   !.attaching = IF @ = f THEN "none" ELSE @]
  <2> DEFINE a == IF host.attaching = f THEN "none" ELSE host.attaching
  <2>1. a \in Flows \cup {"none"}
    BY <1>1 DEF Host
  <2>2. host' = [host EXCEPT !.attached = TRUE, !.state = "started", !.attaching = a]
    BY <1>3
  <2>3. a = IF host.attaching = f THEN "none" ELSE host.attaching
    OBVIOUS
  <2> HIDE DEF a
  <2>4. /\ host' \in Host /\ host'.state = "started" /\ host'.conn = host.conn
        /\ host'.attaching = a /\ host'.attached /\ host'.alive = host.alive
    BY <1>1, <2>1, <2>2 DEF Host, States
  <2>5. launch' \in Launches
    <3>1. Asleep \in Flow /\ [Asleep EXCEPT !.at = "turn"] \in Flow
      BY LifeAssumption DEF Asleep, Flow, Places
    <3> QED BY <1>1, <1>3, <3>1 DEF Settled, Launches
  <2>6. TypeOK'
    BY <1>1, <2>4, <2>5, LaunchType DEF Load
  <2> QED BY <1>1, <1>3, <2>3, <2>4, <2>6
<1> QED BY <1>2, <1>3 DEF Load

(***************************************************************************)
(* What the other steps are: no launch begins, goes on or ends.            *)
(***************************************************************************)
Launching(f) == launch[f].at \in Early \cup Shut

Calm ==
  /\ \A g \in Flows :
       launch'[g] = launch[g] \/ (~Launching(g) /\ launch'[g].at \notin Early \cup Shut)
  /\ Fades /\ host'.state = host.state /\ host'.attaching = host.attaching
  /\ docker'.open \subseteq docker.open

LEMMA TurnEndsStep ==
  ASSUME TypeOK, TurnEnds
  PROVE  TypeOK' /\ Calm
<1>1. /\ host \in Host /\ docker \in Docker /\ launch \in Launches
      /\ docker' = docker /\ Asleep \in Flow
  BY TypeIs, LifeAssumption DEF TurnEnds, Asleep, Flow, Places
<1>2. host' = [host EXCEPT !.timer = host.session]
  BY DEF TurnEnds
<1>3. /\ host' \in Host /\ Fades /\ host'.state = host.state
      /\ host'.attaching = host.attaching
  BY <1>1, <1>2 DEF Host, Fades
<1>4. launch' = [launch EXCEPT !["prompt"] = Asleep] /\ launch["prompt"].at = "turn"
  BY DEF TurnEnds, At
<1>5. launch' \in Launches
  BY <1>1, <1>4 DEF Launches
<1>6. \A g \in Flows :
        launch'[g] = launch[g] \/ (~Launching(g) /\ launch'[g].at \notin Early \cup Shut)
  BY <1>1, <1>4 DEF Launches, Launching, Early, Shut, Asleep
<1> QED BY <1>1, <1>3, <1>5, <1>6, LaunchType DEF TurnEnds, Calm

LEMMA AgentExitsStep ==
  ASSUME TypeOK, AgentExits
  PROVE  TypeOK' /\ Calm
<1>1. /\ host \in Host /\ docker \in Docker /\ launch \in Launches
      /\ docker' = docker /\ launch' = launch /\ ~host.alive
  BY TypeIs DEF AgentExits
<1> DEFINE ti == host.timer \/ Idle(host)
<1>2. host' = [host EXCEPT !.conn = 0, !.attached = FALSE, !.timer = ti]
  BY DEF AgentExits
<1>3. ti \in BOOLEAN
  OBVIOUS
<1> HIDE DEF ti
<1>4. 0 \in 0..MaxBoxes
  BY LifeAssumption
<1>5. /\ host' \in Host /\ host'.conn = 0 /\ ~host'.attached /\ ~host'.alive
      /\ host'.state = host.state /\ host'.attaching = host.attaching
  BY <1>1, <1>2, <1>3, <1>4 DEF Host
<1> QED BY <1>1, <1>5, LaunchType DEF AgentExits, Calm, Fades

(* What a teardown, a write of the store or the retention sweep changes. *)
LEMMA TeardownType ==
  ASSUME TypeOK, Works \/ Fails, launch' = launch,
         host' \in Host, docker' \in Docker, stop' \in StopRec, rm' \in RmRec,
         disk' \in DiskRec
  PROVE  TypeOK'
<1>1. launch' \in Launches
  BY TypeIs
<1>2. faults' \in 0..MaxFaults
  BY FaultsType
<1> QED
  BY <1>1, <1>2 DEF TypeOK, Host, Docker, Launches, Flow, StopRec, RmRec, DiskRec

LEMMA HostDetached ==
  ASSUME host \in Host, host' = Detached(host)
  PROVE  /\ host' \in Host /\ Fades /\ host'.state = host.state
         /\ host'.attaching = host.attaching
BY DetachedType DEF Fades

LEMMA StopBegins ==
  ASSUME TypeOK, IdleTimer \/ StopByHand
  PROVE  TypeOK' /\ Calm
<1>1. /\ host \in Host /\ docker \in Docker /\ stop \in StopRec /\ rm \in RmRec
      /\ disk \in DiskRec /\ docker' = docker /\ launch' = launch /\ rm' = rm
      /\ disk' = disk /\ Works
  BY TypeIs DEF IdleTimer, StopByHand, Elsewhere
<1>2. \/ /\ stop' = [at |-> "revoke", box |-> host.box, full |-> host.full]
         /\ host' = Detached(host)
      \/ stop' = stop /\ host' = [host EXCEPT !.timer = FALSE]
  BY DEF IdleTimer, StopByHand
<1>3. CASE /\ stop' = [at |-> "revoke", box |-> host.box, full |-> host.full]
           /\ host' = Detached(host)
  <2>1. stop' \in StopRec
    BY <1>1, <1>3 DEF StopRec, Host
  <2>2. /\ host' \in Host /\ Fades /\ host'.state = host.state
        /\ host'.attaching = host.attaching
    BY <1>1, <1>3, HostDetached
  <2> QED BY <1>1, <2>1, <2>2, TeardownType DEF Calm
<1>4. CASE stop' = stop /\ host' = [host EXCEPT !.timer = FALSE]
  <2>1. /\ host' \in Host /\ Fades /\ host'.state = host.state
        /\ host'.attaching = host.attaching
    BY <1>1, <1>4 DEF Host, Fades
  <2> QED BY <1>1, <1>4, <2>1, TeardownType DEF Calm
<1> QED BY <1>2, <1>3, <1>4

LEMMA StopGoesOn ==
  ASSUME TypeOK, StopStep
  PROVE  TypeOK' /\ Calm
<1>1. /\ host \in Host /\ docker \in Docker /\ stop \in StopRec /\ rm \in RmRec
      /\ disk \in DiskRec /\ launch' = launch /\ rm' = rm /\ disk' = disk
      /\ (Works \/ Fails) /\ Existing \subseteq Boxes
  BY TypeIs DEF StopStep, StopRevokes, StopProxy, StopDocker, Elsewhere, Existing
<1>2. stop' \in StopRec
  <2>1. PICK p \in {"proxy", "idle", "docker"} : stop' = [stop EXCEPT !.at = p]
    BY DEF StopStep, StopRevokes, StopProxy, StopDocker
  <2> QED BY <1>1, <2>1 DEF StopRec
<1>3. docker' \in Docker /\ docker'.open = docker.open
  <2>1. CASE docker' = [docker EXCEPT !.scope = FALSE]
    BY <1>1, <2>1 DEF Docker
  <2>2. CASE docker' = [docker EXCEPT !.proxy = IF @ = "up" THEN "down" ELSE @]
    BY <1>1, <2>2 DEF Docker
  <2>3. CASE docker' = [docker EXCEPT !.box[stop.box] = "down"] /\ stop.box \in Existing
    BY <1>1, <2>3 DEF Docker
  <2>4. CASE docker' = docker
    BY <1>1, <2>4
  <2> QED BY <2>1, <2>2, <2>3, <2>4 DEF StopStep, StopRevokes, StopProxy, StopDocker
<1>4. /\ host' \in Host /\ Fades /\ host'.state = host.state
      /\ host'.attaching = host.attaching
  <2>1. CASE host' = host
    BY <1>1, <2>1, HostKept
  <2>2. CASE host' = Forgotten(host, {stop.box})
    BY <1>1, <2>2, ForgottenType DEF Fades
  <2>3. CASE host' = Patched(Killed(host, {stop.box}), "stopped", stop.box, stop.full)
    <3> DEFINE k == Killed(host, {stop.box})
    <3>1. /\ k \in Host /\ k.state = host.state /\ k.attaching = host.attaching
          /\ k.conn = host.conn /\ (k.alive => host.alive) /\ k.attached = host.attached
      BY <1>1, KilledType
    <3>2. stop.box \in 0..MaxBoxes /\ stop.full \in BOOLEAN /\ "stopped" \in Status
      BY <1>1 DEF StopRec, Status
    <3> HIDE DEF k
    <3>3. host' = Patched(k, "stopped", stop.box, stop.full)
      BY <2>3 DEF k
    <3>4. /\ host' \in Host /\ host'.state = k.state /\ host'.attaching = k.attaching
          /\ host'.conn = k.conn /\ host'.alive = k.alive /\ host'.attached = k.attached
      BY <3>1, <3>2, <3>3, PatchedType
    <3> QED BY <3>1, <3>4 DEF Fades
  <2> QED BY <2>1, <2>2, <2>3 DEF StopStep, StopRevokes, StopProxy, StopDocker
<1> QED BY <1>1, <1>2, <1>3, <1>4, TeardownType DEF Calm

LEMMA RemovalBegins ==
  ASSUME TypeOK, Edit \/ Collect \/ Delete
  PROVE  TypeOK' /\ Calm
<1>1. /\ host \in Host /\ docker \in Docker /\ stop \in StopRec /\ rm \in RmRec
      /\ disk \in DiskRec /\ docker' = docker /\ launch' = launch /\ stop' = stop
      /\ disk' = disk /\ Works
  BY TypeIs DEF Edit, Collect, Delete, Elsewhere
<1>2. rm' \in RmRec
  <2>1. rm' = [rm EXCEPT !.at = "settle", !.box = host.box]
    BY DEF Edit, Collect, Delete
  <2> QED BY <1>1, <2>1 DEF RmRec, Host
<1>3. /\ host' \in Host /\ Fades /\ host'.state = host.state
      /\ host'.attaching = host.attaching
  <2>1. CASE host' = Detached(host)
    BY <1>1, <2>1, HostDetached
  <2>2. CASE Delete
    <3> DEFINE h == Detached(host)
    <3>1. /\ h \in Host /\ h.state = host.state /\ h.attaching = host.attaching
          /\ h.conn = host.conn /\ ~h.alive /\ ~h.attached
      BY <1>1, DetachedType
    <3>2. host' = [h EXCEPT !.session = FALSE, !.status = "none", !.box = 0,
                            !.full = FALSE]
      BY <2>2 DEF Delete
    <3> HIDE DEF h
    <3>3. "none" \in Status /\ 0 \in 0..MaxBoxes
      BY LifeAssumption DEF Status
    <3>4. host' \in Host
      BY <3>1, <3>2, <3>3 DEF Host
    <3>5. /\ host'.state = h.state /\ host'.attaching = h.attaching
          /\ host'.conn = h.conn /\ host'.alive = h.alive /\ host'.attached = h.attached
      BY <3>1, <3>2 DEF Host
    <3> QED BY <3>1, <3>4, <3>5 DEF Fades
  <2> QED BY <2>1, <2>2 DEF Edit, Collect
<1> QED BY <1>1, <1>2, <1>3, TeardownType DEF Calm

LEMMA RemovalGoesOn ==
  ASSUME TypeOK, RemoveStep
  PROVE  TypeOK' /\ Calm
<1>1. /\ host \in Host /\ docker \in Docker /\ stop \in StopRec /\ rm \in RmRec
      /\ disk \in DiskRec /\ launch' = launch /\ stop' = stop
      /\ disk' = disk /\ Works /\ Existing \subseteq Boxes
  BY TypeIs DEF RemoveStep, RemoveSettles, RemoveLists, RemoveBoxes, RemoveProxy,
                RemoveRecord, Elsewhere, Existing
<1>2. CASE RemoveSettles
  <2> DEFINE b == IF host.status # "none" THEN host.box ELSE rm.box
  <2>1. b \in 0..MaxBoxes
    BY <1>1 DEF Host, RmRec
  <2>2. rm' = [rm EXCEPT !.at = "list", !.box = b] /\ host' = host /\ docker' = docker
    BY <1>2 DEF RemoveSettles
  <2> HIDE DEF b
  <2>3. rm' \in RmRec
    BY <1>1, <2>1, <2>2 DEF RmRec
  <2> QED BY <1>1, <2>2, <2>3, HostKept, TeardownType DEF Calm
<1>3. CASE RemoveLists
  <2>1. rm' = [rm EXCEPT !.at = "boxes", !.ids = Existing \cup ({rm.box} \cap Boxes)]
        /\ host' = host /\ docker' = docker
    BY <1>3 DEF RemoveLists
  <2>2. rm' \in RmRec
    BY <1>1, <2>1 DEF RmRec
  <2> QED BY <1>1, <2>1, <2>2, HostKept, TeardownType DEF Calm
<1>4. CASE RemoveBoxes
  <2> DEFINE k == Killed(host, rm.ids)
  <2>1. rm' = [rm EXCEPT !.at = "proxy"] /\ docker' = Removed(docker, rm.ids)
        /\ host' = Forgotten(k, rm.ids)
    BY <1>4 DEF RemoveBoxes
  <2>2. rm' \in RmRec
    BY <1>1, <2>1 DEF RmRec
  <2>3. docker' \in Docker /\ docker'.open \subseteq docker.open
    BY <1>1, <2>1, RemovedType
  <2>4. /\ k \in Host /\ k.state = host.state /\ k.attaching = host.attaching
        /\ k.conn = host.conn /\ (k.alive => host.alive) /\ k.attached = host.attached
    BY <1>1, KilledType
  <2> HIDE DEF k
  <2>5. /\ host' \in Host /\ host'.state = k.state /\ host'.attaching = k.attaching
        /\ host'.conn = k.conn /\ host'.alive = k.alive /\ host'.attached = k.attached
    BY <2>1, <2>4, ForgottenType
  <2> QED BY <1>1, <2>2, <2>3, <2>4, <2>5, TeardownType DEF Calm, Fades
<1>5. CASE RemoveProxy
  <2>1. rm' = [rm EXCEPT !.at = "record"] /\ host' = host
        /\ docker' = [docker EXCEPT !.proxy = "none", !.network = FALSE]
    BY <1>5 DEF RemoveProxy
  <2>2. rm' \in RmRec
    BY <1>1, <2>1 DEF RmRec
  <2>3. docker' \in Docker /\ docker'.open = docker.open
    BY <1>1, <2>1 DEF Docker
  <2> QED BY <1>1, <2>1, <2>2, <2>3, HostKept, TeardownType DEF Calm
<1>6. CASE RemoveRecord
  <2>1. rm' = [at |-> "idle", box |-> 0, ids |-> {}]
        /\ docker' = [docker EXCEPT !.scope = FALSE] /\ host' = Patched(host, "none", 0, FALSE)
    BY <1>6 DEF RemoveRecord
  <2>2. "none" \in Status /\ 0 \in 0..MaxBoxes
    BY LifeAssumption DEF Status
  <2>3. rm' \in RmRec
    BY <2>1, <2>2 DEF RmRec
  <2>4. docker' \in Docker /\ docker'.open = docker.open
    BY <1>1, <2>1 DEF Docker
  <2>5. /\ host' \in Host /\ Fades /\ host'.state = host.state
        /\ host'.attaching = host.attaching
    BY <1>1, <2>1, <2>2, HostPatched
  <2> QED BY <1>1, <2>3, <2>4, <2>5, TeardownType DEF Calm
<1> QED BY <1>2, <1>3, <1>4, <1>5, <1>6 DEF RemoveStep

LEMMA PersistStep ==
  ASSUME TypeOK, Persist
  PROVE  TypeOK' /\ Calm
<1>1. /\ host \in Host /\ docker \in Docker /\ stop \in StopRec /\ rm \in RmRec
      /\ host' = host /\ docker' = docker /\ launch' = launch /\ stop' = stop
      /\ rm' = rm /\ Works
  BY TypeIs DEF Persist, Works
<1>2. disk' = Written
  BY DEF Persist
<1>3. Written \in DiskRec
  BY <1>1 DEF Written, DiskRec, Host, Status
<1> QED BY <1>1, <1>2, <1>3, HostKept, TeardownType DEF Calm

LEMMA CrashStep ==
  ASSUME TypeOK, Crash
  PROVE  /\ TypeOK'
         /\ \A f \in Flows : launch'[f] = Asleep
         /\ host'.attaching = "none" /\ ~host'.attached /\ ~host'.alive
<1>1. /\ host \in Host /\ docker \in Docker /\ disk \in DiskRec /\ disk' = disk /\ Fails
  BY TypeIs DEF Crash
<1>2. 0 \in 0..MaxBoxes /\ Existing \subseteq 0..MaxBoxes
  BY LifeAssumption DEF Existing, Boxes
<1>3. launch' \in Launches /\ \A f \in Flows : launch'[f] = Asleep
  <2>1. Asleep \in Flow
    BY <1>2 DEF Asleep, Flow, Places
  <2> QED BY <2>1 DEF Crash, Launches
<1>4. stop' \in StopRec /\ rm' \in RmRec
  BY <1>2 DEF Crash, NoStop, StopRec, RmRec
<1>5. PICK readable \in BOOLEAN, answers \in BOOLEAN : Reboot(readable, answers)
  BY DEF Crash
<1> DEFINE known == disk.session /\ readable
<1>6. PICK actual \in IF Existing = {} THEN {0} ELSE Existing :
        LET r == IF answers THEN Reconciled(disk, actual) ELSE disk
        IN  /\ host' = [session |-> known, state |-> disk.state,
                        status |-> IF known THEN r.status ELSE "none",
                        box |-> IF known THEN r.box ELSE 0,
                        full |-> known /\ r.full,
                        attaching |-> "none", installed |-> {}, conn |-> 0,
                        alive |-> FALSE, attached |-> FALSE, timer |-> FALSE,
                        read |-> readable, swept |-> readable /\ answers]
            /\ docker' = IF answers /\ ~known /\ MayReap(readable)
                           THEN Swept(actual) ELSE docker
  BY <1>5 DEF Reboot
<1> DEFINE r == IF answers THEN Reconciled(disk, actual) ELSE disk
<1>7. actual \in 0..MaxBoxes
  BY <1>2, <1>6
<1>8. r \in DiskRec
  <2>1. Reconciled(disk, actual) \in DiskRec
    BY <1>1, <1>2, <1>7 DEF Reconciled, DiskRec, Status
  <2> QED BY <1>1, <2>1
<1>9. /\ host' = [session |-> known, state |-> disk.state,
                  status |-> IF known THEN r.status ELSE "none",
                  box |-> IF known THEN r.box ELSE 0,
                  full |-> known /\ r.full,
                  attaching |-> "none", installed |-> {}, conn |-> 0,
                  alive |-> FALSE, attached |-> FALSE, timer |-> FALSE,
                  read |-> readable, swept |-> readable /\ answers]
      /\ docker' \in {Swept(actual), docker}
  BY <1>6
<1> HIDE DEF r
<1>10. known \in BOOLEAN /\ (readable /\ answers) \in BOOLEAN
       /\ disk.state \in States /\ (known /\ r.full) \in BOOLEAN
       /\ (IF known THEN r.status ELSE "none") \in Status
       /\ (IF known THEN r.box ELSE 0) \in 0..MaxBoxes
  BY <1>1, <1>2, <1>8 DEF DiskRec, Status, States
<1> HIDE DEF known
<1>11. /\ host' \in Host /\ host'.attaching = "none" /\ ~host'.attached /\ ~host'.alive
  BY <1>2, <1>9, <1>10 DEF Host
<1>12. docker' \in Docker
  <2> DEFINE ids == {actual} \cap Boxes
             e == Removed(docker, ids)
             sc == e.scope /\ docker.proxy = "none"
  <2>1. e \in Docker
    BY <1>1, RemovedType
  <2>2. Swept(actual) = [e EXCEPT !.proxy = "none", !.network = FALSE, !.scope = sc]
    BY <2>1 DEF Swept, Docker
  <2>3. sc \in BOOLEAN
    OBVIOUS
  <2> HIDE DEF e, sc
  <2>4. [e EXCEPT !.proxy = "none", !.network = FALSE, !.scope = sc] \in Docker
    BY <2>1, <2>3 DEF Docker
  <2> QED BY <1>1, <1>9, <2>2, <2>4
<1>13. faults' \in 0..MaxFaults
  BY <1>1, FaultsType
<1>14. disk' \in DiskRec
  BY <1>1
<1>15. TypeOK'
  BY <1>3, <1>4, <1>11, <1>12, <1>13, <1>14
     DEF TypeOK, Host, Docker, Launches, Flow, StopRec, RmRec, DiskRec
<1> QED BY <1>3, <1>11, <1>15

(***************************************************************************)
(* The invariant: one launch at a time, who it is for, whom it may talk    *)
(* to, and that the container it has taken off the open network stays off. *)
(***************************************************************************)
Alone == \A f, g \in Flows : Launching(f) /\ Launching(g) => f = g

Owned ==
  /\ \A f \in Flows : Launching(f) =>
       host.attaching = f \/ (f = "prompt" /\ host.state = "starting")
  /\ host.attaching # "none" => host.state = "started"
  /\ host.attached => host.state = "started"

Spoken ==
  /\ host.alive => host.conn # 0
  /\ host.alive => host.attached \/ \E f \in Flows : At(f, "load")
  /\ \A f \in Flows : Launching(f) /\ ~At(f, "load") => ~host.alive
  /\ \A f \in Flows : At(f, "load") => host.conn \in {0, launch[f].box}

Closed ==
  Internal =>
    /\ \A f \in Flows : launch[f].at \in Shut => launch[f].box \notin docker.open
    /\ host.alive => host.conn \notin docker.open

Safe == Alone /\ Owned /\ Spoken /\ Closed

LEMMA CalmSafe ==
  ASSUME TypeOK, Safe, Calm
  PROVE  Safe'
<1>1. \A g \in Flows :
        launch'[g] = launch[g] \/ (~Launching(g) /\ launch'[g].at \notin Early \cup Shut)
  BY DEF Calm
<1>2. Alone'
  BY <1>1 DEF Safe, Alone, Launching
<1>3. Owned'
  BY <1>1 DEF Safe, Owned, Launching, Calm, Fades
<1>4. Spoken'
  <2>1. \A f \in Flows : At(f, "load") => launch'[f] = launch[f]
    BY <1>1 DEF At, Launching, Shut
  <2>2. \A f \in Flows : launch'[f].at = "load" => launch'[f] = launch[f]
    BY <1>1 DEF At, Launching, Shut
  <2>3. host'.alive => host'.conn # 0
    BY DEF Safe, Spoken, Calm, Fades
  <2>4. host'.alive => host'.attached \/ \E f \in Flows : launch'[f].at = "load"
    BY <2>1 DEF Safe, Spoken, Calm, Fades, At
  <2>5. \A f \in Flows : launch'[f].at \in Early \cup Shut /\ launch'[f].at # "load"
                          => ~host'.alive
    BY <1>1 DEF Safe, Spoken, Calm, Fades, At, Launching
  <2>6. \A f \in Flows : launch'[f].at = "load" => host'.conn \in {0, launch'[f].box}
    BY <2>2 DEF Safe, Spoken, Calm, Fades, At
  <2> QED BY <2>3, <2>4, <2>5, <2>6 DEF Spoken, At, Launching
<1>5. Closed'
  <2>1. \A f \in Flows : launch'[f].at \in Shut => launch'[f] = launch[f]
    BY <1>1
  <2>2. Internal => \A f \in Flows : launch'[f].at \in Shut => launch'[f].box \notin docker'.open
    BY <2>1 DEF Safe, Closed, Calm
  <2>3. Internal => (host'.alive => host'.conn \notin docker'.open)
    BY DEF Safe, Closed, Calm, Fades
  <2> QED BY <2>2, <2>3 DEF Closed
<1> QED BY <1>2, <1>3, <1>4, <1>5 DEF Safe

(* The launch that throws was the only one: none is left. *)
LEMMA ThrewSafe ==
  ASSUME TypeOK, Safe, NEW f \in Flows, Threw(f), Launching(f),
         At(f, "load") => ~host.alive
  PROVE  Safe'
<1>1. \A g \in Flows : launch'[g].at \notin Early \cup Shut
  <2>1. \A g \in Flows : launch'[g] = Asleep \/ (launch'[g] = launch[g] /\ g # f)
    BY DEF Threw, Throw, Sharing
  <2>2. Asleep.at \notin Early \cup Shut
    BY DEF Asleep, Early, Shut
  <2> QED BY <2>1, <2>2 DEF Safe, Alone, Launching
<1>2. Alone'
  BY <1>1 DEF Alone, Launching
<1>3. Owned'
  BY <1>1 DEF Safe, Owned, Launching, Threw, Fades
<1>4. Spoken'
  <2>1. ~host'.alive
    BY DEF Safe, Spoken, Threw, Fades
  <2>2. \A g \in Flows : launch'[g].at # "load"
    BY <1>1 DEF Shut
  <2> QED BY <2>1, <2>2 DEF Spoken, At
<1>5. Closed'
  BY <1>1 DEF Safe, Closed, Threw, Fades
<1> QED BY <1>2, <1>3, <1>4, <1>5 DEF Safe

LEMMA GoesSafe ==
  ASSUME TypeOK, Safe, NEW f \in Flows, Goes(f), Launching(f), ~At(f, "load")
  PROVE  Safe'
<1>1. PICK r \in Flow :
        /\ launch' = Moved(f, r) /\ r.at \in Early \cup Shut
        /\ r.at = "load" => host.conn \in {0, r.box}
        /\ r.at \in Shut /\ Internal =>
             \/ r.box \notin docker'.open
             \/ /\ launch[f].at \in Shut /\ r.box = launch[f].box
                /\ docker'.open \subseteq docker.open
  BY DEF Goes
<1>2. launch'[f] = r /\ \A g \in Flows : g # f => launch'[g] = launch[g]
  BY <1>1, BoxOf, MovedType
<1>3. ~host.alive /\ ~host'.alive
  BY DEF Safe, Spoken, Goes, Fades
<1>4. \A g \in Flows : g # f => launch'[g].at \notin Early \cup Shut
  BY <1>2 DEF Safe, Alone, Launching
<1>5. Alone'
  BY <1>4 DEF Alone, Launching
<1>6. Owned'
  BY <1>4 DEF Safe, Owned, Launching, Goes, Fades
<1>7. Spoken'
  <2>1. \A g \in Flows : launch'[g].at = "load" => host'.conn \in {0, launch'[g].box}
    BY <1>1, <1>2, <1>4 DEF Shut, Goes, Fades
  <2> QED BY <1>3, <2>1 DEF Spoken, At
<1>8. Closed'
  <2>1. Internal => \A g \in Flows : launch'[g].at \in Shut => launch'[g].box \notin docker'.open
    BY <1>1, <1>2, <1>4 DEF Safe, Closed
  <2> QED BY <1>3, <2>1 DEF Closed
<1> QED BY <1>5, <1>6, <1>7, <1>8 DEF Safe

(* Who wakes the session finds no launch of it under way, or waits for it. *)
LEMMA WakeSafe ==
  ASSUME TypeOK, Safe, NEW f \in Flows, Run \/ Attach(f)
  PROVE  Safe'
<1>1. /\ host \in Host /\ docker' = docker /\ launch \in Launches
      /\ "resolve" \in Places /\ "turn" \in Places /\ "wait" \in Places
  BY TypeIs DEF Run, Attach, Places
<1> DEFINE Starts(g) == /\ Go(g, "resolve")
                        /\ \A h \in Flows : ~Launching(h)
                        /\ ~host.alive
                        /\ Fades
                        /\ host'.attached => host'.state = "started"
                        /\ host'.attaching = g \/ (g = "prompt" /\ host'.state = "starting")
                        /\ host'.attaching # "none" => host'.state = "started"
<1>2. ASSUME NEW g \in Flows, Starts(g)
      PROVE  Safe'
  <2>1. PICK r \in Flow : launch' = Moved(g, r) /\ r.at = "resolve"
    BY <1>1, <1>2, GoType
  <2>2. launch'[g].at = "resolve" /\ \A h \in Flows : h # g => launch'[h] = launch[h]
    BY <1>1, <2>1, MovedType
  <2>3. /\ \A h \in Flows : h # g => launch'[h].at \notin Early \cup Shut
        /\ \A h \in Flows : launch'[h].at \notin Shut
        /\ ~host'.alive
    BY <1>2, <2>2 DEF Launching, Shut, Fades
  <2>4. Alone' /\ Owned'
    BY <1>2, <2>3 DEF Alone, Owned, Launching
  <2>5. Spoken' /\ Closed'
    BY <2>3 DEF Spoken, Closed, At, Shut
  <2> QED BY <2>4, <2>5 DEF Safe
<1>3. CASE Run
  <2>1. /\ host.state = "draft" /\ Go("prompt", "resolve") /\ "prompt" \in Flows
        /\ host' = [host EXCEPT !.state = "starting", !.timer = FALSE]
    BY <1>3 DEF Run, Flows
  <2>2. host.attaching = "none" /\ ~host.attached
    BY <2>1 DEF Safe, Owned
  <2>3. \A h \in Flows : ~Launching(h)
    BY <2>1, <2>2 DEF Safe, Owned, Flows
  <2>4. ~host.alive
    BY <2>2, <2>3 DEF Safe, Spoken, Launching, At, Shut
  <2>5. /\ host'.state = "starting" /\ host'.attaching = host.attaching
        /\ host'.attached = host.attached /\ host'.conn = host.conn
        /\ host'.alive = host.alive
    BY <1>1, <2>1 DEF Host
  <2>6. Fades
    BY <2>5 DEF Fades
  <2> QED BY <1>2, <2>1, <2>2, <2>3, <2>4, <2>5, <2>6
<1>4. CASE Attach(f) /\ Go(f, "resolve")
  <2>0. Go(f, "turn") => FALSE
    BY <1>1, <1>4 DEF Go, Launches, Flow
  <2>1. Go(f, "wait") => FALSE
    BY <1>1, <1>4 DEF Go, Launches, Flow
  <2>2. /\ host.state = "started" /\ ~(host.conn # 0 /\ host.attached)
        /\ host.attaching = "none"
        /\ host' = [host EXCEPT !.attaching = IF @ = "none" THEN f ELSE @,
                                !.timer = @ /\ f # "prompt"]
    BY <1>4, <2>0, <2>1 DEF Attach
  <2>3. \A h \in Flows : ~Launching(h)
    BY <2>2 DEF Safe, Owned, Flows
  <2>4. ~host.alive
    BY <2>2, <2>3 DEF Safe, Spoken, Launching, At, Shut
  <2>5. /\ host'.state = host.state /\ host'.attaching = f /\ Fades
    BY <1>1, <2>2 DEF Host, Fades
  <2> QED BY <1>2, <1>4, <2>2, <2>3, <2>4, <2>5
<1>5. CASE Attach(f) /\ ~Go(f, "resolve")
  <2>1. PICK p \in {"turn", "wait"} : Go(f, p)
    BY <1>5 DEF Attach
  <2>2. PICK r \in Flow : launch' = Moved(f, r) /\ r.at = p
    BY <1>1, <2>1, GoType
  <2>3. launch'[f].at = p /\ (\A g \in Flows : g # f => launch'[g] = launch[g])
        /\ launch[f].at = "idle"
    BY <1>1, <1>5, <2>2, MovedType DEF Attach, At
  <2>4. /\ host'.state = host.state /\ host'.attaching = host.attaching /\ Fades
    <3>1. CASE host.conn # 0 /\ host.attached
      <4>1. host' = [host EXCEPT !.timer = FALSE]
        BY <1>5, <3>1 DEF Attach
      <4> QED BY <1>1, <4>1 DEF Host, Fades
    <3>2. CASE ~(host.conn # 0 /\ host.attached)
      <4>1. /\ host' = [host EXCEPT !.attaching = IF @ = "none" THEN f ELSE @,
                                    !.timer = @ /\ f # "prompt"]
            /\ host.attaching # "none"
        BY <1>5, <3>2 DEF Attach
      <4> QED BY <1>1, <4>1 DEF Host, Fades
    <3> QED BY <3>1, <3>2
  <2>5. Calm
    BY <1>1, <2>3, <2>4 DEF Calm, Launching, Early, Shut
  <2> QED BY <2>5, CalmSafe
<1> QED BY <1>3, <1>4, <1>5

LEMMA InitializeSafe ==
  ASSUME TypeOK, Safe, NEW f \in Flows, Initialize(f)
  PROVE  Safe'
<1>1. launch[f].at = "init" /\ Launching(f) /\ ~At(f, "load") /\ docker' = docker
  BY DEF Initialize, At, Launching, Shut
<1>2. CASE Threw(f)
  BY <1>1, <1>2, ThrewSafe
<1>3. CASE /\ Up(launch[f].box)
           /\ host'.state = host.state /\ host'.attaching = host.attaching
           /\ host'.attached = host.attached
           /\ host'.alive /\ host'.conn = launch[f].box
           /\ \E r \in Flow : launch' = Moved(f, r) /\ r.at = "load"
                              /\ r.box = launch[f].box
  <2>1. PICK r \in Flow : launch' = Moved(f, r) /\ r.at = "load" /\ r.box = launch[f].box
    BY <1>3
  <2>2. launch'[f] = r /\ \A g \in Flows : g # f => launch'[g] = launch[g]
    BY <2>1, BoxOf, MovedType
  <2>3. \A g \in Flows : g # f => launch'[g].at \notin Early \cup Shut
    BY <1>1, <2>2 DEF Safe, Alone, Launching
  <2>4. Alone' /\ Owned'
    BY <1>1, <1>3, <2>3 DEF Safe, Alone, Owned, Launching
  <2>5. Spoken'
    <3>1. host'.conn # 0
      BY <1>3 DEF Up
    <3>2. launch'[f].at = "load" /\ host'.conn = launch'[f].box
      BY <1>3, <2>1, <2>2
    <3>3. \A g \in Flows : launch'[g].at \in Early \cup Shut => g = f
      BY <2>3
    <3> QED BY <3>1, <3>2, <3>3 DEF Spoken, At, Launching, Shut
  <2>6. Closed'
    <3>1. Internal => launch[f].box \notin docker'.open
      BY <1>1 DEF Safe, Closed, Shut
    <3>2. \A g \in Flows : launch'[g].at \in Shut => g = f
      BY <2>3
    <3> QED BY <1>3, <2>1, <2>2, <3>1, <3>2 DEF Closed
  <2> QED BY <2>4, <2>5, <2>6 DEF Safe
<1> QED BY <1>2, <1>3, InitializeStep

LEMMA LoadSafe ==
  ASSUME TypeOK, Safe, NEW f \in Flows, Load(f)
  PROVE  Safe'
<1>1. At(f, "load") /\ Launching(f) /\ docker' = docker
      /\ host.conn \in {0, launch[f].box}
  BY DEF Load, At, Launching, Shut, Safe, Spoken
<1>2. CASE Threw(f) /\ ~(host.alive /\ host.conn = launch[f].box)
  <2>1. ~host.alive
    BY <1>1, <1>2 DEF Safe, Spoken
  <2> QED BY <1>1, <1>2, <2>1, ThrewSafe
<1>3. CASE /\ host'.state = "started" /\ host'.conn = host.conn
           /\ host'.attaching = IF host.attaching = f THEN "none" ELSE host.attaching
           /\ host'.attached /\ host'.alive = host.alive
           /\ launch' = Settled(f)
  <2>1. \A g \in Flows : launch'[g].at \notin Early \cup Shut
    <3>1. \A g \in Flows : \/ launch'[g] = [Asleep EXCEPT !.at = "turn"]
                           \/ launch'[g] = Asleep
                           \/ launch'[g] = launch[g] /\ g # f
      BY <1>3 DEF Settled, Sharing
    <3>2. /\ Asleep.at \notin Early \cup Shut
          /\ [Asleep EXCEPT !.at = "turn"].at \notin Early \cup Shut
      BY DEF Asleep, Early, Shut
    <3> QED BY <1>1, <3>1, <3>2 DEF Safe, Alone, Launching
  <2>2. Alone' /\ Owned'
    BY <1>3, <2>1 DEF Alone, Owned, Launching
  <2>3. Spoken'
    <3>1. \A g \in Flows : launch'[g].at # "load"
      BY <2>1 DEF Shut
    <3> QED BY <1>3, <2>1, <3>1 DEF Safe, Spoken, At, Launching
  <2>4. Closed'
    BY <1>1, <1>3, <2>1 DEF Safe, Closed
  <2> QED BY <2>2, <2>3, <2>4 DEF Safe
<1> QED BY <1>2, <1>3, LoadStep

LEMMA CrashSafe ==
  ASSUME TypeOK, Crash
  PROVE  Safe'
<1>1. /\ \A f \in Flows : launch'[f].at = "idle"
      /\ host'.attaching = "none" /\ ~host'.attached /\ ~host'.alive
  BY CrashStep DEF Asleep
<1>2. \A f \in Flows : launch'[f].at \notin Early \cup Shut /\ launch'[f].at # "load"
  BY <1>1 DEF Early, Shut
<1>3. Alone' /\ Owned'
  BY <1>1, <1>2 DEF Alone, Owned, Launching
<1>4. Spoken' /\ Closed'
  BY <1>1, <1>2 DEF Spoken, Closed, At
<1> QED BY <1>3, <1>4 DEF Safe

LEMMA LaunchSafe ==
  ASSUME TypeOK, Safe, NEW f \in Flows, LaunchStep(f)
  PROVE  TypeOK' /\ Safe'
<1>1. CASE Initialize(f)
  BY <1>1, InitializeStep, InitializeSafe
<1>2. CASE Load(f)
  BY <1>2, LoadStep, LoadSafe
<1>3. CASE ~Initialize(f) /\ ~Load(f)
  <2>1. TypeOK' /\ (Threw(f) \/ Goes(f))
    BY <1>3, ResolveStep, ProbeStep, SweepStep, CloneStep, RestartStep, CreateStep,
       SetupStep, ScriptStep, EnsureUpStep, InstallStep, ProxyStep, OutfittedStep,
       SwitchStep, PushStep, ConnectStep DEF LaunchStep
  <2>2. launch[f].at \in Early \cup {"push", "connect"}
    BY <1>3 DEF LaunchStep, At, Early, Resolve, Probe, Sweep, Clone, Restart, Create, Setup,
       Script, EnsureUp, Install, ProxyLook, ProxyReady, Outfitted, Switch, PushScope,
       Connect
  <2>3. Launching(f) /\ ~At(f, "load")
    BY <2>2 DEF Launching, At, Early, Shut
  <2> QED BY <2>1, <2>3, ThrewSafe, GoesSafe
<1> QED BY <1>1, <1>2, <1>3

LEMMA InitSafe == Init => TypeOK /\ Safe
<1> SUFFICES ASSUME Init PROVE TypeOK /\ Safe
  OBVIOUS
<1>1. 0 \in 0..MaxBoxes /\ 0 \in 0..MaxFaults
  BY LifeAssumption
<1>2. host \in Host /\ disk \in DiskRec
  BY <1>1 DEF Init, Host, DiskRec, States, Status
<1>3. docker \in Docker
  BY DEF Init, Docker
<1>4. launch \in Launches /\ \A f \in Flows : launch[f].at = "idle"
  <2>1. Asleep \in Flow /\ Asleep.at = "idle"
    BY <1>1 DEF Asleep, Flow, Places
  <2> QED BY <2>1 DEF Init, Launches
<1>5. stop \in StopRec /\ rm \in RmRec /\ faults \in 0..MaxFaults
  BY <1>1 DEF Init, NoStop, StopRec, RmRec
<1>6. TypeOK
  BY <1>2, <1>3, <1>4, <1>5, TypeIs
<1>7. \A f \in Flows : launch[f].at \notin Early \cup Shut /\ launch[f].at # "load"
  BY <1>4 DEF Early, Shut
<1>8. ~host.alive /\ ~host.attached /\ host.attaching = "none"
  BY DEF Init
<1>9. Safe
  BY <1>7, <1>8 DEF Safe, Alone, Owned, Spoken, Closed, Launching, At
<1> QED BY <1>6, <1>9

LEMMA StepSafe == TypeOK /\ Safe /\ [Next]_vars => TypeOK' /\ Safe'
<1> SUFFICES ASSUME TypeOK, Safe, [Next]_vars PROVE TypeOK' /\ Safe'
  OBVIOUS
<1>1. CASE \E f \in Flows : LaunchStep(f)
  BY <1>1, LaunchSafe
<1>2. CASE Run
  <2>1. "prompt" \in Flows
    BY DEF Flows
  <2> QED BY <1>2, <2>1, WakeType, WakeSafe
<1>3. CASE \E f \in Flows : Attach(f)
  BY <1>3, WakeType, WakeSafe
<1>4. CASE \/ TurnEnds \/ AgentExits \/ IdleTimer \/ StopByHand \/ StopStep
           \/ Edit \/ Collect \/ Delete \/ RemoveStep \/ Persist
  BY <1>4, CalmSafe, TurnEndsStep, AgentExitsStep, StopBegins, StopGoesOn, RemovalBegins,
     RemovalGoesOn, PersistStep
<1>5. CASE Crash
  BY <1>5, CrashStep, CrashSafe
<1>6. CASE UNCHANGED vars
  <2>1. /\ host' = host /\ docker' = docker /\ launch' = launch /\ stop' = stop
        /\ rm' = rm /\ disk' = disk /\ faults' = faults
    BY <1>6 DEF vars
  <2>2. TypeOK'
    BY <2>1 DEF TypeOK
  <2> QED BY <2>1, <2>2, HostKept, CalmSafe DEF Calm
<1> QED BY <1>1, <1>2, <1>3, <1>4, <1>5, <1>6 DEF Next, UserStep

LEMMA SafeAlways == Spec => [](TypeOK /\ Safe)
<1> QED BY InitSafe, StepSafe, PTL DEF Spec

(***************************************************************************)
(* Every variable keeps its type.                                          *)
(***************************************************************************)
THEOREM LifeTypeCorrect == Spec => []TypeOK
<1> QED BY SafeAlways, PTL

(***************************************************************************)
(* There are never two processes of the session's agent, however a prompt  *)
(* and a pick of the user wake it, and whatever stop, removal or crash     *)
(* cuts in.                                                                *)
(***************************************************************************)
THEOREM NeverTwoAgents == Spec => []OneAgent
<1>1. Safe => OneAgent
  BY DEF Safe, Alone, Spoken, OneAgent, Launching, At, Shut
<1> QED BY <1>1, SafeAlways, PTL

(***************************************************************************)
(* No agent of an internal session runs in a container that is on the open *)
(* network, whatever the overlaps and faults.                              *)
(***************************************************************************)
THEOREM AgentsAreIsolated == Spec => []AgentIsIsolated
<1>1. Safe => AgentIsIsolated
  <2> SUFFICES ASSUME Safe, Internal, NEW i \in Agents
               PROVE  i \notin docker.open
    BY DEF AgentIsIsolated
  <2> QED BY DEF Agents, Safe, Closed, At, Shut
<1> QED BY <1>1, SafeAlways, PTL

(***************************************************************************)
(* The container, its record and its removal: of the session's containers  *)
(* there is one at most; a removal empties what it listed, and nothing is  *)
(* created behind it; what an agent runs in is on record.                  *)
(***************************************************************************)
Bare(f) == At(f, "resolve") \/ Ensuring(f)
Late    == {"outfit", "net", "push", "connect", "init"}

Single == \A i, j \in Existing : i = j

Cleared ==
  \A f \in Flows :
    At(f, "create") \/ (At(f, "clone") /\ launch[f].box = 0) => Existing = {}

Unraced == ~Overlaps /\ host.session /\ rm.at # "idle" => \A f \in Flows : ~Bare(f)

Orphaned == ~host.session /\ rm.at # "settle" => \A f \in Flows : ~Ensuring(f)

Emptied ==
  /\ ~host.session \/ ~Overlaps =>
       /\ rm.at = "boxes" => Existing \subseteq rm.ids
       /\ rm.at \in {"proxy", "record"} => Existing = {}
  /\ ~host.session /\ rm.at = "idle" /\ host.swept => Existing = {}

Ready ==
  ~Overlaps /\ host.session =>
    \A f \in Flows : Up(launch[f].box) =>
      /\ At(f, "probe") /\ host.status = "running" => host.box = launch[f].box
      /\ launch[f].at \in Late => host.status = "running" /\ host.box = launch[f].box

Live ==
  ~Overlaps /\ host.alive =>
    host.session /\ Up(host.conn) /\ host.status = "running" /\ host.box = host.conn

Kept == Single /\ Cleared /\ Unraced /\ Orphaned /\ Emptied /\ Ready /\ Live

(* A step that leaves the containers, the record and the removal alone. *)
Resting ==
  /\ docker'.box = docker.box /\ rm' = rm
  /\ host'.session = host.session /\ host'.status = host.status
  /\ host'.box = host.box /\ host'.swept = host.swept
  /\ \A g \in Flows :
       \/ launch'[g] = launch[g]
       \/ launch'[g].at \in {"wait", "turn", "idle", "load"}
       \/ launch'[g].at = "resolve" /\ Unhurried
       \/ /\ launch'[g].at \in Late /\ launch[g].at \in Late
          /\ launch'[g].box = launch[g].box

LEMMA RestingKept ==
  ASSUME TypeOK, Kept, Resting,
         host'.alive => \/ host.alive /\ host'.conn = host.conn
                        \/ \E f \in Flows : /\ At(f, "init") /\ Up(launch[f].box)
                                            /\ host.session /\ host'.conn = launch[f].box
  PROVE  Kept'
<1>1. Existing' = Existing /\ \A i : Up(i)' <=> Up(i)
  BY DEF Resting, Existing, Up
<1>2. \A g \in Flows : Ensuring(g)' => Ensuring(g)
  BY DEF Resting, Ensuring, Late
<1>3. Single'
  BY <1>1 DEF Kept, Single
<1>4. Cleared'
  <2>1. \A g \in Flows : launch'[g].at \in {"create", "clone"} => launch'[g] = launch[g]
    BY DEF Resting, Late
  <2> QED BY <1>1, <2>1 DEF Kept, Cleared, At
<1>5. Unraced'
  BY <1>2 DEF Kept, Unraced, Bare, Resting, Late, At, Unhurried
<1>6. Orphaned'
  BY <1>2 DEF Kept, Orphaned, Resting
<1>7. Emptied'
  BY <1>1 DEF Kept, Emptied, Resting
<1>8. Ready'
  <2> SUFFICES ASSUME ~Overlaps, host.session, NEW g \in Flows, Up(launch'[g].box)
               PROVE  /\ launch'[g].at = "probe" /\ host.status = "running"
                           => host.box = launch'[g].box
                      /\ launch'[g].at \in Late
                           => host.status = "running" /\ host.box = launch'[g].box
    BY <1>1 DEF Ready, At, Up, Resting
  <2>1. launch'[g].at = "probe" => launch'[g] = launch[g]
    BY DEF Resting, Late
  <2>2. launch'[g].at \in Late => launch[g].at \in Late /\ launch'[g].box = launch[g].box
    BY DEF Resting, Late
  <2> QED BY <2>1, <2>2 DEF Kept, Ready, At
<1>9. Live'
  <2>1. ASSUME ~Overlaps, host'.alive
        PROVE  host.session /\ Up(host'.conn) /\ host.status = "running" /\ host.box = host'.conn
    <3>1. CASE host.alive /\ host'.conn = host.conn
      BY <2>1, <3>1 DEF Kept, Live
    <3>2. CASE \E f \in Flows : /\ At(f, "init") /\ Up(launch[f].box)
                                /\ host.session /\ host'.conn = launch[f].box
      BY <2>1, <3>2 DEF Kept, Ready, At, Late
    <3> QED BY <2>1, <3>1, <3>2
  <2> QED BY <1>1, <2>1 DEF Live, Up, Resting
<1> QED BY <1>3, <1>4, <1>5, <1>6, <1>7, <1>8, <1>9 DEF Kept

LEMMA ThrowIs ==
  ASSUME NEW f \in Flows, Throw(f)
  PROVE  \A g \in Flows : launch'[g] = Asleep \/ (launch'[g] = launch[g] /\ g # f)
BY DEF Throw, Sharing

LEMMA PlainThrowRests ==
  ASSUME TypeOK, NEW f \in Flows, Throw(f), host' = Thrown(host, f),
         docker'.box = docker.box, rm' = rm
  PROVE  Resting
<1>1. /\ host'.session = host.session /\ host'.status = host.status
      /\ host'.box = host.box /\ host'.swept = host.swept
  BY ThrownType, BoxOf
<1>2. Asleep.at = "idle"
  BY DEF Asleep
<1> QED BY <1>1, <1>2, ThrowIs DEF Resting

LEMMA GoRests ==
  ASSUME TypeOK, NEW f \in Flows, NEW p \in Late \cup {"wait", "turn", "load"},
         Go(f, p), p \in Late => launch[f].at \in Late,
         docker'.box = docker.box, rm' = rm,
         host'.session = host.session, host'.status = host.status,
         host'.box = host.box, host'.swept = host.swept
  PROVE  Resting
<1>1. p \in Places /\ launch \in Launches
  BY BoxOf DEF Late, Places
<1>2. PICK r \in Flow : launch' = Moved(f, r) /\ r.at = p /\ r.box = launch[f].box
  BY <1>1, GoType
<1>3. launch'[f] = r /\ \A g \in Flows : g # f => launch'[g] = launch[g]
  BY <1>1, <1>2, MovedType
<1> QED BY <1>2, <1>3 DEF Resting

(* From the moment its container is up, a launch leaves the record alone. *)
LEMMA LateRests ==
  ASSUME TypeOK, NEW f \in Flows,
         \/ Install(f) \/ ProxyLook(f) \/ ProxyReady(f) \/ Outfitted(f) \/ Switch(f)
         \/ PushScope(f) \/ Connect(f) \/ Initialize(f) \/ Load(f)
  PROVE  Resting
<1>1. host \in Host /\ docker \in Docker /\ launch \in Launches /\ launch[f] \in Flow
  BY BoxOf
<1>2. rm' = rm
  BY DEF Install, ProxyLook, ProxyReady, Outfitted, Switch, PushScope, Connect, Initialize,
         Load, Untorn
<1>3. docker'.box = docker.box
  <2>1. CASE docker' = docker
    BY <2>1
  <2>2. CASE Install(f) \/ ProxyLook(f)
    BY <1>1, <2>2 DEF Install, ProxyLook, Docker
  <2>3. CASE ProxyReady(f)
    <3>1. docker' \in {docker, [docker EXCEPT !.proxy = "up"]}
      BY <2>3 DEF ProxyReady
    <3> QED BY <1>1, <3>1 DEF Docker
  <2>4. CASE Switch(f) \/ PushScope(f)
    BY <1>1, <2>4 DEF Switch, PushScope, Docker
  <2> QED BY <2>1, <2>2, <2>3, <2>4 DEF Outfitted, Connect, Initialize, Load
<1>4. CASE Throw(f) /\ host' = Thrown(host, f)
  BY <1>2, <1>3, <1>4, PlainThrowRests
<1>5. CASE Install(f) \/ ProxyLook(f) \/ ProxyReady(f)
  <2>1. /\ host'.session = host.session /\ host'.status = host.status
        /\ host'.box = host.box /\ host'.swept = host.swept
    <3>1. host' = host \/ host' = [host EXCEPT !.installed = @ \cup {launch[f].box}]
      BY <1>5 DEF Install, ProxyLook, ProxyReady
    <3> QED BY <1>1, <3>1 DEF Host
  <2>2. /\ launch[f].at = "outfit" /\ launch'[f].at = launch[f].at
        /\ launch'[f].box = launch[f].box
        /\ \A g \in Flows : g # f => launch'[g] = launch[g]
    <3>1. \/ \E x \in {"done", "failed"} : launch' = [launch EXCEPT ![f].fit = x]
          \/ \E x \in {"found", "new", "done", "failed"} : launch' = [launch EXCEPT ![f].proxy = x]
      BY <1>5 DEF Install, ProxyLook, ProxyReady
    <3>2. launch[f].at = "outfit"
      BY <1>5 DEF Install, ProxyLook, ProxyReady, At
    <3> QED BY <1>1, <3>1, <3>2 DEF Launches, Flow
  <2> QED BY <1>2, <1>3, <2>1, <2>2 DEF Resting, Late
<1>6. CASE Load(f) /\ launch' = Settled(f)
  <2>1. /\ host'.session = host.session /\ host'.status = host.status
        /\ host'.box = host.box /\ host'.swept = host.swept
    <3>1. (Throw(f) /\ host' = Thrown(host, f))
          \/ host' = [host EXCEPT !.attached = TRUE, !.state = "started",
                                  !.attaching = IF @ = f THEN "none" ELSE @]
      BY <1>6 DEF Load
    <3>2. CASE Throw(f) /\ host' = Thrown(host, f)
      BY <1>1, <3>2, ThrownType
    <3>3. CASE host' = [host EXCEPT !.attached = TRUE, !.state = "started",
                                    !.attaching = IF @ = f THEN "none" ELSE @]
      BY <1>1, <3>3 DEF Host
    <3> QED BY <3>1, <3>2, <3>3
  <2>2. \A g \in Flows : launch'[g] = launch[g] \/ launch'[g].at \in {"turn", "idle"}
    BY <1>6 DEF Settled, Asleep
  <2> QED BY <1>2, <1>3, <2>1, <2>2 DEF Resting
<1>7. CASE \/ /\ Go(f, "net") \/ Go(f, "push") \/ Go(f, "connect") \/ Go(f, "init")
              /\ launch[f].at \in Late
           \/ Go(f, "load")
  <2>1. CASE Initialize(f)
    <3>1. \/ host' = [host EXCEPT !.conn = launch[f].box, !.alive = TRUE]
          \/ Throw(f) /\ host' = Thrown(host, f)
      BY <2>1 DEF Initialize
    <3>2. /\ host'.session = host.session /\ host'.status = host.status
          /\ host'.box = host.box /\ host'.swept = host.swept
      <4>1. CASE host' = [host EXCEPT !.conn = launch[f].box, !.alive = TRUE]
        BY <1>1, <4>1 DEF Host
      <4>2. CASE host' = Thrown(host, f)
        BY <1>1, <4>2, ThrownType
      <4> QED BY <3>1, <4>1, <4>2
    <3> QED BY <1>2, <1>3, <1>7, <3>2, GoRests DEF Late
  <2>2. CASE Outfitted(f) \/ Switch(f) \/ PushScope(f) \/ Connect(f)
    <3>1. \/ host' = host \/ host' = [host EXCEPT !.installed = @ \cup {launch[f].box}]
          \/ host' = Thrown(host, f)
      BY <2>2 DEF Outfitted, Switch, PushScope, Connect
    <3>2. /\ host'.session = host.session /\ host'.status = host.status
          /\ host'.box = host.box /\ host'.swept = host.swept
      <4>1. CASE host' = host
        BY <4>1
      <4>2. CASE host' = [host EXCEPT !.installed = @ \cup {launch[f].box}]
        BY <1>1, <4>2 DEF Host
      <4>3. CASE host' = Thrown(host, f)
        BY <1>1, <4>3, ThrownType
      <4> QED BY <3>1, <4>1, <4>2, <4>3
    <3> QED BY <1>2, <1>3, <1>7, <3>2, GoRests DEF Late
  <2> QED BY <1>4, <1>5, <1>6, <2>1, <2>2 DEF Load
<1> QED BY <1>4, <1>5, <1>6, <1>7 DEF Outfitted, Switch, PushScope, Connect, Initialize, Load, At, Late

(* What the ensure does, from the record it reads to a container that is up. *)
Ensures(f) ==
  /\ rm' = rm /\ host'.session = host.session /\ host'.swept = host.swept
  /\ \A i, j \in Existing' : i = j
  /\ launch'[f].at = "create" \/ (launch'[f].at = "clone" /\ launch'[f].box = 0)
       => Existing' = {}
  /\ launch'[f].at = "probe" => launch'[f].box = host'.box /\ host'.session
  /\ launch'[f].at \in Late /\ host'.session /\ Up(launch[f].box)' =>
       (~Overlaps => host'.status = "running" /\ host'.box = launch'[f].box)
  /\ At(f, "resolve") /\ ~host.session => Throw(f) /\ docker' = docker

LEMMA EnsuresKept ==
  ASSUME TypeOK, Safe, Kept, NEW f \in Flows, Ensures(f), Bare(f), Threw(f) \/ Goes(f)
  PROVE  Kept'
<1>1. Launching(f) /\ ~At(f, "load")
  BY DEF Bare, Ensuring, At, Launching, Early
<1>2. ~host'.alive
  BY <1>1 DEF Safe, Spoken, Threw, Goes, Fades
<1>3. \A g \in Flows : g # f => launch[g].at \notin Early \cup Shut
  BY <1>1 DEF Safe, Alone, Launching
<1>4. \A g \in Flows : g # f => launch'[g] = launch[g] \/ launch'[g] = Asleep
  <2>1. CASE Threw(f)
    BY <2>1, ThrowIs DEF Threw
  <2>2. CASE Goes(f)
    BY <2>2, BoxOf, MovedType DEF Goes
  <2> QED BY <2>1, <2>2
<1>5. \A g \in Flows : g # f => launch'[g].at \notin Early \cup Shut
  <2>1. Asleep.at \notin Early \cup Shut
    BY DEF Asleep, Early, Shut
  <2> QED BY <1>3, <1>4, <2>1
<1>6. \A g \in Flows : Bare(g)' \/ launch'[g].at \in Late => g = f
  BY <1>5 DEF Bare, Ensuring, At, Late, Early, Shut
<1>7. Single'
  BY DEF Ensures, Single
<1>8. Cleared'
  <2>1. \A g \in Flows : launch'[g].at \in {"create", "clone"} => g = f
    BY <1>5 DEF Early
  <2> QED BY <2>1 DEF Ensures, Cleared, At
<1>9. Unraced'
  <2>1. ~Overlaps /\ host.session => rm.at = "idle"
    BY DEF Kept, Unraced
  <2> QED BY <2>1 DEF Ensures, Unraced
<1>10. ~host.session /\ rm.at # "settle" =>
         /\ \A g \in Flows : launch'[g] = Asleep \/ (launch'[g] = launch[g] /\ g # f)
         /\ Existing' = Existing
  <2> SUFFICES ASSUME ~host.session, rm.at # "settle"
               PROVE  /\ \A g \in Flows : launch'[g] = Asleep \/ (launch'[g] = launch[g] /\ g # f)
                      /\ Existing' = Existing
    OBVIOUS
  <2>1. ~Ensuring(f)
    BY DEF Kept, Orphaned
  <2>2. At(f, "resolve")
    BY <2>1 DEF Bare
  <2>3. Throw(f) /\ docker' = docker
    BY <2>2 DEF Ensures
  <2> QED BY <2>3, ThrowIs DEF Existing
<1>11. Orphaned'
  <2>1. ~Ensuring(f)' \/ ~(~host.session /\ rm.at # "settle")
    BY <1>10 DEF Ensuring, Asleep
  <2> QED BY <1>6, <2>1 DEF Ensures, Orphaned, Bare
<1>12. Emptied'
  <2>1. ~Overlaps /\ host.session => rm.at = "idle"
    BY DEF Kept, Unraced
  <2>2. CASE host.session
    BY <2>1, <2>2 DEF Ensures, Emptied
  <2>3. CASE ~host.session
    BY <1>10, <2>3 DEF Kept, Ensures, Emptied
  <2> QED BY <2>2, <2>3
<1>13. Ready'
  <2>1. \A g \in Flows : launch'[g].at = "probe" => g = f
    BY <1>5 DEF Early
  <2> SUFFICES ASSUME ~Overlaps, host'.session, NEW g \in Flows, Up(launch[g].box)'
               PROVE  /\ launch'[g].at = "probe" /\ host'.status = "running"
                           => host'.box = launch'[g].box
                      /\ launch'[g].at \in Late
                           => host'.status = "running" /\ host'.box = launch'[g].box
    BY DEF Ready, At
  <2> QED BY <1>6, <2>1 DEF Ensures
<1>14. Live'
  BY <1>2 DEF Live
<1> QED BY <1>7, <1>8, <1>9, <1>11, <1>12, <1>13, <1>14 DEF Kept

(* What a failed ensure leaves: the container, perhaps, and none more. *)
LEMMA FailEnsures ==
  ASSUME TypeOK, Single, NEW f \in Flows, Throw(f), NEW h \in Host,
         host' = Thrown(h, f), h.session = host.session, h.swept = host.swept,
         rm' = rm, Existing' \subseteq Existing,
         At(f, "resolve") => docker' = docker
  PROVE  Ensures(f)
<1>1. host'.session = host.session /\ host'.swept = host.swept
  BY ThrownType
<1>2. launch'[f] = Asleep /\ Asleep.at = "idle"
  BY ThrowIs DEF Asleep
<1>3. \A i, j \in Existing' : i = j
  BY DEF Single
<1> QED BY <1>1, <1>2, <1>3 DEF Ensures, Late

LEMMA EnsureFailsEnsures ==
  ASSUME TypeOK, Single, NEW f \in Flows, EnsureFails(f), rm' = rm,
         Existing' \subseteq Existing, ~At(f, "resolve")
  PROVE  Ensures(f)
<1> DEFINE b == IF host.status # "none" THEN host.box ELSE launch[f].box
           p == Patched(host, "error", b, host.full)
<1>1. host \in Host /\ b \in 0..MaxBoxes /\ host.full \in BOOLEAN /\ "error" \in Status
  BY BoxOf DEF Host, Status
<1>2. host' = Thrown(p, f) /\ Throw(f)
  BY DEF EnsureFails
<1> HIDE DEF b
<1>3. p \in Host /\ p.session = host.session /\ p.swept = host.swept
  BY <1>1, PatchedType
<1> HIDE DEF p
<1> QED BY <1>2, <1>3, FailEnsures

(* A launch that goes on without a container of its own yet, or with one up. *)
LEMMA GoEnsures ==
  ASSUME TypeOK, Single, NEW f \in Flows, NEW p \in Places, Go(f, p), rm' = rm,
         host'.session = host.session, host'.swept = host.swept,
         Existing' \subseteq Existing, ~At(f, "resolve"),
         p \notin Late \cup {"clone", "probe"}, p = "create" => Existing' = {}
  PROVE  Ensures(f)
<1>1. launch'[f].at = p
  BY BoxOf, GoType, MovedType
<1>2. \A i, j \in Existing' : i = j
  BY DEF Single
<1> QED BY <1>1, <1>2 DEF Ensures

LEMMA ResolveEnsures ==
  ASSUME TypeOK, Kept, NEW f \in Flows, Resolve(f)
  PROVE  Ensures(f)
<1>1. /\ host \in Host /\ launch \in Launches /\ docker' = docker /\ rm' = rm
      /\ Existing' = Existing /\ Single
  BY BoxOf DEF Resolve, Untorn, Existing, Kept
<1>2. CASE host.session
  <2>1. launch' = [launch EXCEPT ![f] = [Asleep EXCEPT !.at = "probe", !.box = host.box]]
        /\ host' = host
    BY <1>2 DEF Resolve
  <2>2. launch'[f].at = "probe" /\ launch'[f].box = host.box
    BY <1>1, <2>1 DEF Launches, Asleep
  <2> QED BY <1>1, <1>2, <2>1, <2>2 DEF Ensures, Late, Single
<1>3. CASE ~host.session
  BY <1>1, <1>3, FailEnsures DEF Resolve
<1> QED BY <1>2, <1>3

LEMMA ProbeEnsures ==
  ASSUME TypeOK, Kept, NEW f \in Flows, Probe(f)
  PROVE  Ensures(f)
<1>1. /\ host' = host /\ docker' = docker /\ rm' = rm /\ Existing' = Existing /\ Single
      /\ At(f, "probe") /\ launch \in Launches /\ \A i : Up(i)' <=> Up(i)
  BY BoxOf DEF Probe, Untorn, Existing, Kept, Up
<1> DEFINE up == host.status = "running" /\ host.full /\ Up(launch[f].box)
<1>2. PICK r \in Flow : /\ launch' = Moved(f, r) /\ r.box = launch[f].box
                        /\ r.at = IF up THEN "outfit" ELSE "sweep"
  <2>1. (IF up THEN "outfit" ELSE "sweep") \in Places
    BY DEF Places
  <2> QED BY <1>1, <2>1, GoType DEF Probe
<1>3. launch'[f] = r
  BY <1>1, <1>2, MovedType
<1>4. CASE up
  <2>1. ~Overlaps /\ host.session => host.status = "running" /\ host.box = launch[f].box
    BY <1>1, <1>4 DEF Kept, Ready
  <2> QED BY <1>1, <1>2, <1>3, <1>4, <2>1 DEF Ensures, Single, At
<1>5. CASE ~up
  BY <1>1, <1>2, <1>3, <1>5 DEF Ensures, Single, At, Late
<1> QED BY <1>4, <1>5

LEMMA SweepEnsures ==
  ASSUME TypeOK, Kept, NEW f \in Flows, Sweep(f)
  PROVE  Ensures(f)
<1> DEFINE own   == IF launch[f].box \in Existing THEN launch[f].box ELSE 0
           stray == Existing \ {own}
           k     == Killed(host, stray)
           g     == Forgotten(k, stray \cup {launch[f].box})
           full  == own # 0 /\ host.full
<1>1. /\ docker' = Removed(docker, stray)
      /\ host' = Patched(g, "building", own, full)
      /\ launch' = [launch EXCEPT ![f].at = "clone", ![f].box = own]
      /\ rm' = rm /\ At(f, "sweep")
  BY DEF Sweep, Untorn
<1>2. host \in Host /\ docker \in Docker /\ launch \in Launches /\ launch[f] \in Flow
      /\ Existing \subseteq Boxes
  BY BoxOf
<1>3. own \in 0..MaxBoxes /\ "building" \in Status /\ full \in BOOLEAN
  BY <1>2, LifeAssumption DEF Flow, Status, Host
<1>4. launch'[f].at = "clone" /\ launch'[f].box = own
  BY <1>1, <1>2 DEF Launches, Flow
<1>5. Existing' = Existing \ stray
  <2>1. \A i \in Boxes : docker'.box[i] = IF i \in stray /\ docker.box[i] # "none"
                                            THEN "gone" ELSE docker.box[i]
    BY <1>1, <1>2, RemovedType
  <2> QED BY <2>1 DEF Existing
<1>6. Existing' \subseteq {own}
  BY <1>5
<1>7. own = 0 => Existing' = {}
  <2>1. \A i \in Existing' : i # 0
    BY <1>2, <1>5, LifeAssumption DEF Boxes
  <2> QED BY <1>6, <2>1
<1> HIDE DEF own, stray, full
<1>8. k \in Host /\ k.session = host.session /\ k.swept = host.swept
  BY <1>2, KilledType
<1> HIDE DEF k
<1>9. g \in Host /\ g.session = host.session /\ g.swept = host.swept
  BY <1>8, ForgottenType
<1> HIDE DEF g
<1>10. host'.session = host.session /\ host'.swept = host.swept
  BY <1>1, <1>3, <1>9, PatchedType
<1> QED BY <1>1, <1>4, <1>6, <1>7, <1>10 DEF Ensures, Late, At

LEMMA CloneEnsures ==
  ASSUME TypeOK, Kept, NEW f \in Flows, Clone(f)
  PROVE  Ensures(f)
<1>1. /\ host \in Host /\ docker \in Docker /\ rm' = rm /\ At(f, "clone") /\ ~At(f, "resolve")
      /\ launch[f].box \in 0..MaxBoxes /\ Single
  BY BoxOf DEF Clone, Untorn, At, Kept
<1>2. docker'.box = docker.box
  <2>1. docker' \in {docker, [docker EXCEPT !.open = @ \cup ({launch[f].box} \cap Existing)]}
    BY DEF Clone
  <2> QED BY <1>1, <2>1 DEF Docker
<1>3. Existing' = Existing
  BY <1>2 DEF Existing
<1>4. CASE Go(f, "create") /\ host' = host /\ launch[f].box = 0
  <2>1. Existing = {}
    BY <1>1, <1>4 DEF Kept, Cleared
  <2>2. "create" \in Places /\ "create" \notin Late \cup {"clone", "probe"}
    BY DEF Places, Late
  <2> QED BY <1>1, <1>3, <1>4, <2>1, <2>2, GoEnsures
<1>5. CASE Go(f, "restart") /\ host' = Patched(host, "post", launch[f].box, host.full)
  <2>1. "post" \in Status /\ host.full \in BOOLEAN
    BY <1>1 DEF Status, Host
  <2>2. host'.session = host.session /\ host'.swept = host.swept
    BY <1>1, <1>5, <2>1, PatchedType
  <2>3. "restart" \in Places /\ "restart" \notin Late \cup {"clone", "probe"}
    BY DEF Places, Late
  <2> QED BY <1>1, <1>3, <1>5, <2>2, <2>3, GoEnsures
<1>6. CASE EnsureFails(f)
  BY <1>1, <1>3, <1>6, EnsureFailsEnsures
<1> QED BY <1>4, <1>5, <1>6 DEF Clone

LEMMA RestartEnsures ==
  ASSUME TypeOK, Kept, NEW f \in Flows, Restart(f)
  PROVE  Ensures(f)
<1>1. /\ host \in Host /\ docker \in Docker /\ rm' = rm /\ ~At(f, "resolve") /\ Single
      /\ Existing \subseteq Boxes
  BY BoxOf DEF Restart, Untorn, At, Kept
<1>2. Existing' = Existing
  <2>1. CASE launch[f].box \in Existing /\ docker' = [docker EXCEPT !.box[launch[f].box] = "up"]
    <3>1. \A i \in Boxes : docker'.box[i] = IF i = launch[f].box THEN "up" ELSE docker.box[i]
      BY <1>1, <2>1 DEF Docker
    <3> QED BY <2>1, <3>1 DEF Existing
  <2>2. CASE docker' = docker
    BY <2>2 DEF Existing
  <2> QED BY <2>1, <2>2 DEF Restart
<1>3. CASE Go(f, "up") /\ host' = host
  <2>1. "up" \in Places /\ "up" \notin Late \cup {"clone", "probe"}
    BY DEF Places, Late
  <2> QED BY <1>1, <1>2, <1>3, <2>1, GoEnsures
<1>4. CASE EnsureFails(f)
  BY <1>1, <1>2, <1>4, EnsureFailsEnsures
<1> QED BY <1>3, <1>4 DEF Restart

LEMMA CreateEnsures ==
  ASSUME TypeOK, Kept, NEW f \in Flows, Create(f)
  PROVE  Ensures(f)
<1>1. host \in Host /\ docker \in Docker /\ launch \in Launches /\ launch[f] \in Flow
      /\ rm' = rm /\ At(f, "create")
  BY BoxOf DEF Create, Untorn
<1>2. PICK i \in Boxes :
        /\ docker' = [docker EXCEPT !.box[i] = "up", !.half = @ \cup {i}, !.open = @ \cup {i}]
        /\ launch' = [launch EXCEPT ![f].at = "setup", ![f].box = i]
        /\ host' = Patched(host, "post", 0, FALSE)
  BY DEF Create
<1>3. Existing = {}
  BY <1>1 DEF Kept, Cleared
<1>4. Existing' \subseteq {i}
  <2>1. \A j \in Boxes : j # i => docker'.box[j] = docker.box[j]
    BY <1>1, <1>2 DEF Docker
  <2> QED BY <1>3, <2>1 DEF Existing
<1>5. launch'[f].at = "setup"
  BY <1>1, <1>2 DEF Launches, Flow
<1>6. host'.session = host.session /\ host'.swept = host.swept
  <2>1. 0 \in 0..MaxBoxes /\ "post" \in Status
    BY LifeAssumption DEF Status
  <2> QED BY <1>1, <1>2, <2>1, PatchedType
<1> QED BY <1>1, <1>4, <1>5, <1>6 DEF Ensures, Late, At

LEMMA SetupEnsures ==
  ASSUME TypeOK, Kept, NEW f \in Flows, Setup(f)
  PROVE  Ensures(f)
<1> DEFINE i == launch[f].box
<1>1. /\ host \in Host /\ docker \in Docker /\ i \in 0..MaxBoxes /\ rm' = rm
      /\ ~At(f, "resolve") /\ Single
  BY BoxOf DEF Setup, Untorn, At, Kept
<1>2. Existing' \subseteq Existing
  <2>1. CASE docker' = [docker EXCEPT !.half = @ \ {i}] \/ docker' = docker
    BY <1>1, <2>1 DEF Docker, Existing
  <2>2. CASE docker' = Removed(docker, {i})
    <3>1. \A j \in Boxes : docker'.box[j] = docker.box[j] \/ docker'.box[j] = "gone"
      BY <1>1, <2>2, RemovedType
    <3> QED BY <3>1 DEF Existing
  <2> QED BY <2>1, <2>2 DEF Setup
<1>3. CASE host' = Patched(host, "post", i, FALSE) /\ Go(f, "script")
  <2>1. "post" \in Status
    BY DEF Status
  <2>2. host'.session = host.session /\ host'.swept = host.swept
    BY <1>1, <1>3, <2>1, PatchedType
  <2>3. "script" \in Places /\ "script" \notin Late \cup {"clone", "probe"}
    BY DEF Places, Late
  <2> QED BY <1>1, <1>2, <1>3, <2>2, <2>3, GoEnsures
<1>4. CASE EnsureFails(f)
  BY <1>1, <1>2, <1>4, EnsureFailsEnsures
<1> QED BY <1>3, <1>4 DEF Setup

LEMMA ScriptEnsures ==
  ASSUME TypeOK, Kept, NEW f \in Flows, Script(f)
  PROVE  Ensures(f)
<1>1. /\ host \in Host /\ docker' = docker /\ rm' = rm /\ ~At(f, "resolve") /\ Single
      /\ Existing' = Existing
  BY BoxOf DEF Script, Untorn, At, Kept, Existing
<1>2. CASE Go(f, "up") /\ host' = host
  <2>1. "up" \in Places /\ "up" \notin Late \cup {"clone", "probe"}
    BY DEF Places, Late
  <2> QED BY <1>1, <1>2, <2>1, GoEnsures
<1>3. CASE EnsureFails(f)
  BY <1>1, <1>3, EnsureFailsEnsures
<1> QED BY <1>2, <1>3 DEF Script

LEMMA EnsureUpEnsures ==
  ASSUME TypeOK, Kept, NEW f \in Flows, EnsureUp(f)
  PROVE  Ensures(f)
<1>1. /\ host \in Host /\ docker \in Docker /\ rm' = rm /\ ~At(f, "resolve") /\ Single
      /\ launch \in Launches /\ launch[f].box \in 0..MaxBoxes
  BY BoxOf DEF EnsureUp, Untorn, At, Kept
<1>2. CASE host.session
  <2>1. /\ host' = Patched(host, "running", launch[f].box, TRUE)
        /\ Go(f, "outfit") /\ docker' = docker
    BY <1>2 DEF EnsureUp
  <2>2. "running" \in Status /\ "outfit" \in Places
    BY DEF Status, Places
  <2>3. /\ host'.session = host.session /\ host'.swept = host.swept
        /\ host'.status = "running" /\ host'.box = launch[f].box
    BY <1>1, <1>2, <2>1, <2>2, PatchedType
  <2>4. launch'[f].at = "outfit" /\ launch'[f].box = launch[f].box
    BY <1>1, <2>1, <2>2, GoType, MovedType
  <2>5. Existing' = Existing
    BY <2>1 DEF Existing
  <2> QED BY <1>1, <2>3, <2>4, <2>5 DEF Ensures, Single
<1>3. CASE ~host.session
  <2> DEFINE g == Forgotten(host, {launch[f].box})
  <2>1. docker' = Removed(docker, {launch[f].box}) /\ host' = Thrown(g, f) /\ Throw(f)
    BY <1>3 DEF EnsureUp
  <2>2. Existing' \subseteq Existing
    <3>1. \A j \in Boxes : docker'.box[j] = docker.box[j] \/ docker'.box[j] = "gone"
      BY <1>1, <2>1, RemovedType
    <3> QED BY <3>1 DEF Existing
  <2>3. g \in Host /\ g.session = host.session /\ g.swept = host.swept
    BY <1>1, ForgottenType
  <2> HIDE DEF g
  <2> QED BY <1>1, <2>1, <2>2, <2>3, FailEnsures
<1> QED BY <1>2, <1>3

LEMMA LaunchKept ==
  ASSUME TypeOK, Safe, Kept, NEW f \in Flows, LaunchStep(f)
  PROVE  Kept'
<1>1. CASE \/ Resolve(f) \/ Probe(f) \/ Sweep(f) \/ Clone(f) \/ Restart(f) \/ Create(f)
           \/ Setup(f) \/ Script(f) \/ EnsureUp(f)
  <2>1. Ensures(f)
    BY <1>1, ResolveEnsures, ProbeEnsures, SweepEnsures, CloneEnsures, RestartEnsures,
       CreateEnsures, SetupEnsures, ScriptEnsures, EnsureUpEnsures
  <2>2. Threw(f) \/ Goes(f)
    BY <1>1, ResolveStep, ProbeStep, SweepStep, CloneStep, RestartStep, CreateStep,
       SetupStep, ScriptStep, EnsureUpStep
  <2>3. Bare(f)
    BY <1>1 DEF Bare, Ensuring, At, Resolve, Probe, Sweep, Clone, Restart, Create, Setup,
                Script, EnsureUp
  <2> QED BY <2>1, <2>2, <2>3, EnsuresKept
<1>2. CASE \/ Install(f) \/ ProxyLook(f) \/ ProxyReady(f) \/ Outfitted(f) \/ Switch(f)
           \/ PushScope(f) \/ Connect(f)
  <2>1. Threw(f) \/ Goes(f)
    BY <1>2, InstallStep, ProxyStep, OutfittedStep, SwitchStep, PushStep, ConnectStep
  <2>2. host'.alive => host.alive /\ host'.conn = host.conn
    BY <2>1 DEF Threw, Goes, Fades
  <2> QED BY <1>2, <2>2, LateRests, RestingKept
<1>3. CASE Initialize(f)
  <2>1. \/ host'.alive => host.alive /\ host'.conn = host.conn
        \/ Up(launch[f].box) /\ host'.conn = launch[f].box
    BY <1>3, InitializeStep DEF Threw, Fades
  <2>2. \/ host'.alive => host.alive /\ host'.conn = host.conn
        \/ At(f, "init") /\ Up(launch[f].box) /\ host.session /\ host'.conn = launch[f].box
    <3>1. CASE host.session
      BY <1>3, <2>1, <3>1 DEF Initialize
    <3>2. CASE ~host.session
      <4>1. host' = Thrown(host, f)
        BY <1>3, <3>2 DEF Initialize
      <4> QED BY <4>1, ThrownType, BoxOf
    <3> QED BY <3>1, <3>2
  <2> QED BY <1>3, <2>2, LateRests, RestingKept
<1>4. CASE Load(f)
  <2>1. host'.alive => host.alive /\ host'.conn = host.conn
    BY <1>4, LoadStep DEF Threw, Fades
  <2> QED BY <1>4, <2>1, LateRests, RestingKept
<1> QED BY <1>1, <1>2, <1>3, <1>4 DEF LaunchStep

LEMMA WakeKept ==
  ASSUME TypeOK, Kept, NEW f \in Flows, Run \/ Attach(f)
  PROVE  Kept'
<1>1. host \in Host /\ docker' = docker /\ rm' = rm /\ launch \in Launches
      /\ "prompt" \in Flows
  BY BoxOf DEF Run, Attach, Untorn, Flows
<1>2. PICK g \in Flows, p \in {"resolve", "turn", "wait"} : Go(g, p)
  BY <1>1 DEF Run, Attach
<1>3. Unhurried
  BY DEF Run, Attach
<1>4. \A h \in Flows : launch'[h] = launch[h] \/ launch'[h].at = p
  <2>1. p \in Places
    BY DEF Places
  <2>2. PICK r \in Flow : launch' = Moved(g, r) /\ r.at = p
    BY <1>1, <1>2, <2>1, GoType
  <2>3. launch'[g] = r /\ \A h \in Flows : h # g => launch'[h] = launch[h]
    BY <1>1, <2>2, MovedType
  <2> QED BY <2>2, <2>3
<1>5. /\ host'.session = host.session /\ host'.status = host.status
      /\ host'.box = host.box /\ host'.swept = host.swept
      /\ host'.alive = host.alive /\ host'.conn = host.conn
  <2>1. CASE host' = [host EXCEPT !.state = "starting", !.timer = FALSE]
    BY <1>1, <2>1 DEF Host
  <2>2. CASE host' = [host EXCEPT !.timer = FALSE]
    BY <1>1, <2>2 DEF Host
  <2>3. CASE host' = [host EXCEPT !.attaching = IF @ = "none" THEN f ELSE @,
                                  !.timer = @ /\ f # "prompt"]
    BY <1>1, <2>3 DEF Host
  <2> QED BY <2>1, <2>2, <2>3 DEF Run, Attach
<1>6. Resting
  BY <1>1, <1>3, <1>4, <1>5 DEF Resting
<1> QED BY <1>5, <1>6, RestingKept

LEMMA CalmKept ==
  ASSUME TypeOK, Kept, Calm,
         \/ TurnEnds \/ AgentExits \/ IdleTimer \/ StopByHand \/ StopRevokes \/ StopProxy
         \/ Persist \/ UNCHANGED vars
  PROVE  Kept'
<1>1. host \in Host /\ docker \in Docker /\ launch \in Launches
  BY TypeIs
<1>2. rm' = rm
  BY DEF TurnEnds, AgentExits, IdleTimer, StopByHand, StopRevokes, StopProxy, Persist, vars,
         Untorn
<1>3. docker'.box = docker.box
  <2>1. CASE docker' = docker
    BY <2>1
  <2>2. CASE docker' = [docker EXCEPT !.scope = FALSE]
    BY <1>1, <2>2 DEF Docker
  <2>3. CASE docker' = [docker EXCEPT !.proxy = IF @ = "up" THEN "down" ELSE @]
    BY <1>1, <2>3 DEF Docker
  <2> QED BY <2>1, <2>2, <2>3 DEF TurnEnds, AgentExits, IdleTimer, StopByHand, StopRevokes,
                                 StopProxy, Persist, vars
<1>4. /\ host'.session = host.session /\ host'.status = host.status
      /\ host'.box = host.box /\ host'.swept = host.swept
  <2>1. CASE host' = host
    BY <2>1
  <2>2. CASE \E t : host' = [host EXCEPT !.timer = t]
    BY <1>1, <2>2 DEF Host
  <2>3. CASE \E t : host' = [host EXCEPT !.conn = 0, !.attached = FALSE, !.timer = t]
    BY <1>1, <2>3 DEF Host
  <2>4. CASE host' = Detached(host)
    BY <1>1, <2>4, DetachedType
  <2>5. CASE host' = Forgotten(host, {stop.box})
    BY <1>1, <2>5, ForgottenType
  <2>6. AgentExits => \E t : host' = [host EXCEPT !.conn = 0, !.attached = FALSE, !.timer = t]
    BY DEF AgentExits
  <2>7. TurnEnds => \E t : host' = [host EXCEPT !.timer = t]
    BY DEF TurnEnds
  <2>8. IdleTimer => host' = Detached(host) \/ \E t : host' = [host EXCEPT !.timer = t]
    BY DEF IdleTimer
  <2> QED BY <2>1, <2>2, <2>3, <2>4, <2>5, <2>6, <2>7, <2>8
          DEF StopByHand, StopRevokes, StopProxy, Persist, vars
<1>5. \A g \in Flows : launch'[g] = launch[g] \/ launch'[g].at = "idle"
  <2>1. CASE launch' = launch
    BY <2>1
  <2>2. CASE TurnEnds
    BY <1>1, <2>2 DEF TurnEnds, Launches, Asleep
  <2> QED BY <2>1, <2>2 DEF AgentExits, IdleTimer, StopByHand, StopRevokes, StopProxy,
                            Persist, vars
<1>6. Resting
  BY <1>2, <1>3, <1>4, <1>5 DEF Resting
<1> QED BY <1>6, RestingKept DEF Calm, Fades

LEMMA StopDockerKept ==
  ASSUME TypeOK, Kept, StopDocker
  PROVE  Kept'
<1>1. /\ host \in Host /\ docker \in Docker /\ launch' = launch /\ rm' = rm
      /\ stop \in StopRec /\ Existing \subseteq Boxes
  BY TypeIs DEF StopDocker, Existing
<1>2. CASE host' = host /\ docker' = docker
  <2>1. Resting
    BY <1>1, <1>2 DEF Resting
  <2> QED BY <1>2, <2>1, RestingKept
<1>3. CASE /\ stop.box \in Existing
           /\ docker' = [docker EXCEPT !.box[stop.box] = "down"]
           /\ host' = Patched(Killed(host, {stop.box}), "stopped", stop.box, stop.full)
  <2> DEFINE k == Killed(host, {stop.box})
  <2>1. /\ k \in Host /\ k.session = host.session /\ k.swept = host.swept
        /\ k.conn = host.conn /\ k.alive = (host.alive /\ host.conn # stop.box)
    BY <1>1, KilledType
  <2>2. stop.box \in 0..MaxBoxes /\ stop.full \in BOOLEAN /\ "stopped" \in Status
    BY <1>1 DEF StopRec, Status
  <2>3. host' = Patched(k, "stopped", stop.box, stop.full)
    BY <1>3
  <2> HIDE DEF k
  <2>4. /\ host'.session = host.session /\ host'.swept = host.swept
        /\ host'.conn = host.conn /\ host'.alive = (host.alive /\ host.conn # stop.box)
    BY <2>1, <2>2, <2>3, PatchedType
  <2>5. \A i \in Boxes : docker'.box[i] = IF i = stop.box THEN "down" ELSE docker.box[i]
    BY <1>1, <1>3 DEF Docker
  <2>6. Existing' = Existing
    BY <1>3, <2>5 DEF Existing
  (* It was the only one. *)
  <2>7. \A i \in 0..MaxBoxes : ~(i # 0 /\ docker'.box[i] = "up")
    <3> SUFFICES ASSUME NEW i \in 0..MaxBoxes, i # 0, docker'.box[i] = "up"
                 PROVE  FALSE
      OBVIOUS
    <3>1. i \in Boxes
      BY LifeAssumption DEF Boxes
    <3>2. i \in Existing /\ i # stop.box
      BY <2>5, <3>1 DEF Existing
    <3> QED BY <1>3, <3>2 DEF Kept, Single
  <2>8. Single' /\ Cleared' /\ Unraced' /\ Orphaned' /\ Emptied'
    <3>1. Single' /\ Emptied'
      BY <1>1, <2>4, <2>6 DEF Kept, Single, Emptied
    <3>2. Cleared'
      BY <1>1, <2>6 DEF Kept, Cleared, At
    <3>3. Unraced' /\ Orphaned'
      BY <1>1, <2>4 DEF Kept, Unraced, Orphaned, Bare, Ensuring, At
    <3> QED BY <3>1, <3>2, <3>3
  <2>9. Ready'
    <3>1. \A f \in Flows : launch'[f].box \in 0..MaxBoxes
      BY <1>1, BoxOf
    <3>2. \A f \in Flows : ~(launch'[f].box # 0 /\ docker'.box[launch'[f].box] = "up")
      BY <2>7, <3>1
    <3> QED BY <3>2 DEF Ready, Up
  <2>10. Live'
    <3>1. ~Overlaps => ~host'.alive
      <4> SUFFICES ASSUME ~Overlaps, host.alive PROVE host.conn = stop.box
        BY <2>4
      <4>1. Up(host.conn) /\ host.conn \in 0..MaxBoxes
        BY <1>1 DEF Kept, Live, Host
      <4>2. host.conn \in Existing
        BY <4>1, LifeAssumption DEF Up, Existing, Boxes
      <4> QED BY <1>3, <4>2 DEF Kept, Single
    <3> QED BY <3>1 DEF Live
  <2> QED BY <2>8, <2>9, <2>10 DEF Kept
<1> QED BY <1>2, <1>3 DEF StopDocker

LEMMA RemovalBeginsKept ==
  ASSUME TypeOK, Safe, Kept, Edit \/ Collect \/ Delete
  PROVE  Kept'
<1>1. /\ host \in Host /\ launch' = launch /\ docker' = docker /\ rm \in RmRec
      /\ rm' = [rm EXCEPT !.at = "settle", !.box = host.box] /\ Existing' = Existing
  BY TypeIs DEF Edit, Collect, Delete, Existing
<1>2. rm'.at = "settle"
  BY <1>1 DEF RmRec
<1>3. /\ ~host'.alive
      /\ \/ ~host'.session
         \/ host'.session = host.session /\ host'.status = host.status
            /\ host'.box = host.box /\ ~Delete
  <2>1. CASE host' = Detached(host) /\ ~Delete
    BY <1>1, <2>1, DetachedType
  <2>2. CASE Delete
    <3> DEFINE h == Detached(host)
    <3>1. h \in Host /\ ~h.alive
      BY <1>1, DetachedType
    <3>2. host' = [h EXCEPT !.session = FALSE, !.status = "none", !.box = 0,
                            !.full = FALSE]
      BY <2>2 DEF Delete
    <3> HIDE DEF h
    <3> QED BY <3>1, <3>2 DEF Host
  <2> QED BY <2>1, <2>2 DEF Edit, Collect
<1>4. Single' /\ Cleared' /\ Orphaned' /\ Emptied' /\ Live'
  <2>1. Single' /\ Cleared'
    BY <1>1 DEF Kept, Single, Cleared, At
  <2>2. Orphaned' /\ Emptied' /\ Live'
    BY <1>2, <1>3 DEF Orphaned, Emptied, Live
  <2> QED BY <2>1, <2>2
<1>5. Unraced'
  <2>1. ~Delete /\ ~Overlaps => \A f \in Flows : ~Bare(f)
    <3>1. Edit => \A f \in Flows : ~Launching(f)
      BY DEF Edit, Safe, Owned, Flows
    <3>2. \A f \in Flows : Bare(f) => Launching(f)
      BY DEF Bare, Ensuring, At, Launching, Early
    <3>3. Collect /\ ~Overlaps => \A f \in Flows : ~Bare(f)
      BY DEF Collect, Bare
    <3> QED BY <3>1, <3>2, <3>3
  <2> QED BY <1>1, <1>3, <2>1 DEF Unraced, Bare, Ensuring, At
<1>6. Ready'
  BY <1>1, <1>3 DEF Kept, Ready, Up, At
<1> QED BY <1>4, <1>5, <1>6 DEF Kept

LEMMA RemovalGoesOnKept ==
  ASSUME TypeOK, Kept, RemoveStep
  PROVE  Kept'
<1>1. host \in Host /\ docker \in Docker /\ launch' = launch /\ rm \in RmRec
      /\ Existing \subseteq Boxes
  BY TypeIs DEF RemoveStep, RemoveSettles, RemoveLists, RemoveBoxes, RemoveProxy,
                RemoveRecord, Existing
<1>2. ASSUME host' = host, docker'.box = docker.box, rm.at # "idle", rm'.at # "settle",
             ~host.session => rm.at # "settle" \/ \A f \in Flows : ~Ensuring(f),
             Emptied'
      PROVE  Kept'
  <2>1. Existing' = Existing
    BY <1>2 DEF Existing
  <2>2. Single' /\ Cleared'
    BY <1>1, <2>1 DEF Kept, Single, Cleared, At
  <2>3. Unraced' /\ Orphaned'
    BY <1>1, <1>2 DEF Kept, Unraced, Orphaned, Bare, Ensuring, At
  <2>4. Ready' /\ Live'
    BY <1>1, <1>2 DEF Kept, Ready, Live, Up, At
  <2> QED BY <1>2, <2>2, <2>3, <2>4 DEF Kept
<1>3. CASE RemoveSettles
  <2>1. rm'.at = "list" /\ host' = host /\ docker' = docker /\ rm.at = "settle"
        /\ ~\E f \in Flows : Ensuring(f)
    BY <1>1, <1>3 DEF RemoveSettles, RmRec
  <2> QED BY <1>2, <2>1 DEF Emptied
<1>4. CASE RemoveLists
  <2>1. rm'.at = "boxes" /\ rm'.ids = Existing \cup ({rm.box} \cap Boxes)
        /\ host' = host /\ docker' = docker /\ rm.at = "list"
    BY <1>1, <1>4 DEF RemoveLists, RmRec
  <2>2. Existing' \subseteq rm'.ids
    BY <2>1 DEF Existing
  <2> QED BY <1>2, <2>1, <2>2 DEF Emptied
<1>5. CASE RemoveBoxes
  <2> DEFINE k == Killed(host, rm.ids)
  <2>1. rm'.at = "proxy" /\ docker' = Removed(docker, rm.ids)
        /\ host' = Forgotten(k, rm.ids) /\ rm.at = "boxes"
    BY <1>1, <1>5 DEF RemoveBoxes, RmRec
  <2>2. /\ k \in Host /\ k.session = host.session /\ k.status = host.status
        /\ k.box = host.box /\ k.conn = host.conn
        /\ k.alive = (host.alive /\ host.conn \notin rm.ids)
    BY <1>1, KilledType
  <2> HIDE DEF k
  <2>3. /\ host'.session = host.session /\ host'.status = host.status
        /\ host'.box = host.box /\ host'.conn = host.conn
        /\ host'.alive = (host.alive /\ host.conn \notin rm.ids)
    BY <2>1, <2>2, ForgottenType
  <2>4. \A i \in Boxes : docker'.box[i] = IF i \in rm.ids /\ docker.box[i] # "none"
                                            THEN "gone" ELSE docker.box[i]
    BY <1>1, <2>1, RemovedType
  <2>5. Existing' = Existing \ rm.ids
    BY <2>4 DEF Existing
  <2>6. \A i \in 0..MaxBoxes : i # 0 /\ docker'.box[i] = "up" => Up(i)
    BY <2>4, LifeAssumption DEF Boxes, Up
  <2>7. Single' /\ Cleared'
    BY <1>1, <2>5 DEF Kept, Single, Cleared, At
  <2>8. Unraced' /\ Orphaned'
    BY <1>1, <2>1, <2>3 DEF Kept, Unraced, Orphaned, Bare, Ensuring, At
  <2>9. Emptied'
    BY <2>1, <2>3, <2>5 DEF Kept, Emptied
  <2>10. Ready'
    <3>1. \A f \in Flows : launch'[f].box \in 0..MaxBoxes
      BY <1>1, BoxOf
    <3>2. \A f \in Flows : launch'[f].box # 0 /\ docker'.box[launch'[f].box] = "up"
                             => Up(launch[f].box)
      BY <1>1, <2>6, <3>1
    <3> QED BY <1>1, <2>3, <3>2 DEF Kept, Ready, Up, At
  <2>11. Live'
    <3> SUFFICES ASSUME ~Overlaps, host'.alive
                 PROVE  /\ host'.session /\ host'.conn # 0 /\ docker'.box[host'.conn] = "up"
                        /\ host'.status = "running" /\ host'.box = host'.conn
      BY DEF Live, Up
    <3>1. /\ host.session /\ Up(host.conn) /\ host.status = "running"
          /\ host.box = host.conn /\ host.conn \notin rm.ids
      BY <2>3 DEF Kept, Live
    <3>2. host.conn \in Boxes
      BY <1>1, <3>1, LifeAssumption DEF Up, Boxes, Host
    <3> QED BY <2>3, <2>4, <3>1, <3>2 DEF Up
  <2> QED BY <2>7, <2>8, <2>9, <2>10, <2>11 DEF Kept
<1>6. CASE RemoveProxy
  <2>1. rm'.at = "record" /\ host' = host /\ rm.at = "proxy"
        /\ docker' = [docker EXCEPT !.proxy = "none", !.network = FALSE]
    BY <1>1, <1>6 DEF RemoveProxy, RmRec
  <2>2. docker'.box = docker.box
    BY <1>1, <2>1 DEF Docker
  <2>3. Emptied'
    BY <2>1, <2>2 DEF Kept, Emptied, Existing
  <2> QED BY <1>2, <2>1, <2>2, <2>3
<1>7. CASE RemoveRecord
  <2>1. rm'.at = "idle" /\ rm.at = "record"
        /\ docker' = [docker EXCEPT !.scope = FALSE] /\ host' = Patched(host, "none", 0, FALSE)
    BY <1>7 DEF RemoveRecord
  <2>2. docker'.box = docker.box
    BY <1>1, <2>1 DEF Docker
  <2>3. Existing' = Existing
    BY <2>2 DEF Existing
  <2>4. "none" \in Status /\ 0 \in 0..MaxBoxes
    BY LifeAssumption DEF Status
  <2>5. /\ host'.session = host.session /\ host'.alive = host.alive
        /\ host'.conn = host.conn
    BY <1>1, <2>1, <2>4, PatchedType
  <2>6. ~host.session \/ ~Overlaps => Existing = {}
    BY <2>1 DEF Kept, Emptied
  <2>7. ~Overlaps => \A i \in 0..MaxBoxes : ~Up(i)
    BY <2>6, LifeAssumption DEF Existing, Up, Boxes
  <2>8. Single' /\ Cleared'
    BY <1>1, <2>3 DEF Kept, Single, Cleared, At
  <2>9. Unraced' /\ Orphaned' /\ Emptied'
    <3>1. Orphaned'
      BY <1>1, <2>1, <2>5 DEF Kept, Orphaned, Ensuring
    <3>2. Unraced' /\ Emptied'
      BY <2>1, <2>3, <2>5, <2>6 DEF Unraced, Emptied
    <3> QED BY <3>1, <3>2
  <2>10. Ready'
    <3>1. \A f \in Flows : ~Overlaps => ~Up(launch[f].box)
      BY <2>7, BoxOf
    <3> QED BY <1>1, <2>2, <3>1 DEF Ready, Up
  <2>11. Live'
    <3>1. ~Overlaps => ~host.alive
      BY <1>1, <2>7 DEF Kept, Live, Host
    <3> QED BY <2>5, <3>1 DEF Live
  <2> QED BY <2>8, <2>9, <2>10, <2>11 DEF Kept
<1> QED BY <1>3, <1>4, <1>5, <1>6, <1>7 DEF RemoveStep

(* The boot sees one container that carries the session's label: there is no *)
(* other, and that one it may take.                                          *)
LEMMA CrashKept ==
  ASSUME TypeOK, Kept, Crash
  PROVE  Kept'
<1>1. /\ host \in Host /\ docker \in Docker /\ Existing \subseteq Boxes
  BY TypeIs DEF Existing
<1>2. \A f \in Flows : launch'[f].at = "idle"
  BY CrashStep DEF Asleep
<1>3. ~host'.alive /\ rm'.at = "idle"
  BY CrashStep DEF Crash
<1>4. PICK readable \in BOOLEAN, answers \in BOOLEAN : Reboot(readable, answers)
  BY DEF Crash
<1>5. PICK actual \in IF Existing = {} THEN {0} ELSE Existing :
        /\ host'.session = (disk.session /\ readable)
        /\ host'.swept = (readable /\ answers)
        /\ docker' = IF answers /\ ~(disk.session /\ readable) /\ MayReap(readable)
                       THEN Swept(actual) ELSE docker
  BY <1>4 DEF Reboot
<1> DEFINE ids == {actual} \cap Boxes
           e   == Removed(docker, ids)
<1>6. e \in Docker /\ \A i \in Boxes : e.box[i] = IF i \in ids /\ docker.box[i] # "none"
                                                    THEN "gone" ELSE docker.box[i]
  BY <1>1, RemovedType
<1>7. Swept(actual).box = e.box
  BY <1>6 DEF Swept, Docker
<1> HIDE DEF e
<1>8. docker' = Swept(actual) => Existing' = Existing \ ids
  BY <1>6, <1>7 DEF Existing
<1>9. Existing' \subseteq Existing
  BY <1>5, <1>8 DEF Existing
<1>10. Existing \ ids = {}
  BY <1>1, <1>5 DEF Kept, Single
<1>11. ~host'.session /\ host'.swept => Existing' = {}
  BY <1>5, <1>8, <1>10 DEF MayReap
<1>12. Single' /\ Cleared' /\ Unraced'
  BY <1>2, <1>3, <1>9 DEF Kept, Single, Cleared, Unraced, At
<1>13. Orphaned' /\ Ready' /\ Live'
  BY <1>2, <1>3 DEF Orphaned, Ensuring, Ready, At, Late, Live
<1>14. Emptied'
  BY <1>3, <1>11 DEF Emptied
<1> QED BY <1>12, <1>13, <1>14 DEF Kept

LEMMA InitKept == Init => Kept
<1> SUFFICES ASSUME Init PROVE Kept
  OBVIOUS
<1>1. Existing = {}
  BY DEF Init, Existing
<1>2. /\ \A f \in Flows : launch[f].at = "idle"
      /\ host.session /\ ~host.alive /\ rm.at = "idle"
  BY DEF Init, Asleep
<1> QED BY <1>1, <1>2 DEF Kept, Single, Cleared, Unraced, Orphaned, Emptied, Ready, Live,
                          At, Late

LEMMA StepKept == TypeOK /\ Safe /\ Kept /\ [Next]_vars => Kept'
<1> SUFFICES ASSUME TypeOK, Safe, Kept, [Next]_vars PROVE Kept'
  OBVIOUS
<1>1. CASE \E f \in Flows : LaunchStep(f)
  BY <1>1, LaunchKept
<1>2. CASE Run \/ \E f \in Flows : Attach(f)
  <2>1. "prompt" \in Flows
    BY DEF Flows
  <2> QED BY <1>2, <2>1, WakeKept
<1>3. CASE \/ TurnEnds \/ AgentExits \/ IdleTimer \/ StopByHand \/ StopRevokes \/ StopProxy
           \/ Persist
  <2>1. StopRevokes \/ StopProxy => StopStep
    BY DEF StopStep
  <2>2. Calm
    BY <1>3, <2>1, TurnEndsStep, AgentExitsStep, StopBegins, StopGoesOn, PersistStep
  <2> QED BY <1>3, <2>2, CalmKept
<1>4. CASE StopDocker
  BY <1>4, StopDockerKept
<1>5. CASE Edit \/ Collect \/ Delete
  BY <1>5, RemovalBeginsKept
<1>6. CASE RemoveStep
  BY <1>6, RemovalGoesOnKept
<1>7. CASE Crash
  BY <1>7, CrashKept
<1>8. CASE UNCHANGED vars
  <2>1. Calm
    BY <1>8, HostKept DEF vars, Calm
  <2> QED BY <1>8, <2>1, CalmKept
<1> QED BY <1>1, <1>2, <1>3, <1>4, <1>5, <1>6, <1>7, <1>8 DEF Next, UserStep, StopStep

LEMMA KeptAlways == Spec => [](TypeOK /\ Safe /\ Kept)
<1>1. Init => TypeOK /\ Safe /\ Kept
  BY InitSafe, InitKept
<1>2. TypeOK /\ Safe /\ Kept /\ [Next]_vars => (TypeOK /\ Safe /\ Kept)'
  BY StepSafe, StepKept
<1> QED BY <1>1, <1>2, PTL DEF Spec

(***************************************************************************)
(* A session deleted at any moment, of a launch, a stop or a crash, leaves *)
(* no container behind.                                                    *)
(***************************************************************************)
THEOREM NoneOutlives == Spec => []NoContainerOutlives
<1>1. Kept => NoContainerOutlives
  BY DEF Kept, Emptied, NoContainerOutlives, Quiet
<1> QED BY <1>1, KeptAlways, PTL

(***************************************************************************)
(* While no launch overlaps a stop by hand or a removal, the container an  *)
(* agent runs in is the one on record, and recorded as running.            *)
(***************************************************************************)
THEOREM AgentsAreRecorded ==
  ASSUME ~Overlaps
  PROVE  Spec => []AgentIsRecorded
<1>1. Kept => AgentIsRecorded
  BY DEF Kept, Live, AgentIsRecorded
<1> QED BY <1>1, KeptAlways, PTL

(***************************************************************************)
(* The boot's sweep removes no container of a session the store still has. *)
(***************************************************************************)
THEOREM BootKeepsTheirs == Spec => BootKeepsSessions
<1>1. Crash /\ disk.session => docker'.box = docker.box
  <2> SUFFICES ASSUME Crash, disk.session PROVE docker' = docker
    OBVIOUS
  <2>1. PICK readable \in BOOLEAN, answers \in BOOLEAN : Reboot(readable, answers)
    BY DEF Crash
  <2> QED BY <2>1 DEF Reboot, MayReap
<1>2. [Next]_vars => [Crash /\ disk.session => docker'.box = docker.box]_vars
  BY <1>1
<1> QED BY <1>2, PTL DEF Spec, BootKeepsSessions

(***************************************************************************)
(* What an agent is told of is there.  Untroubled: no fault so far, and    *)
(* operations that do not overlap.  Order: a stop under way is of the one  *)
(* container there is (Halting), which the record names (Named, Placed);   *)
(* from the moment a launch asks for it, the proxy, the network and the    *)
(* scope stay until a stop that takes the launch's own container           *)
(* (Furnished, Served); and a first start cannot fail (Raising, Raised),   *)
(* so that no draft has a container an edit would remove.                  *)
(***************************************************************************)
Untroubled == faults = 0 /\ ~Overlaps /\ host.session

Working == {"clone", "restart", "create", "setup", "script", "up"}

(* A stop under way is of the one container there is, and nobody removes it. *)
Halting ==
  stop.at # "idle" =>
    stop.box \in Existing /\ rm.at = "idle" /\ host.status \in {"building", "post", "running"}

(* Whatever container there is, the record names it or a launch will.        *)
Named ==
  /\ Existing \subseteq {host.box} \/ \E f \in Flows : At(f, "setup")
  /\ host.status = "none" => host.box = 0
  /\ host.status = "running" => host.box \in Existing /\ rm.at = "idle"
  /\ host.status \in {"building", "post"} => \E f \in Flows : launch[f].at \in Working

Placed(f) ==
  LET i == launch[f].box
  IN  /\ launch[f].at \in {"probe", "sweep"} => i = host.box
      /\ launch[f].at \in {"restart", "up"} \/ (At(f, "clone") /\ i # 0) => i \in Existing
      /\ launch[f].at \in {"setup", "script"} => Up(i)
      /\ launch[f].at \in {"create", "setup", "script"} => stop.at = "idle"
      /\ launch[f].at \in Working => host.status \in {"building", "post", "stopped"}
      /\ launch[f].at \in {"probe", "sweep"} \cup Working =>
           launch[f].fit = "todo" /\ launch[f].proxy = "todo"

(* What a launch has fetched stays as long as its container is not stopped.  *)
Furnished(f) ==
  stop.at = "idle" /\ launch[f].at \in Late /\ Up(launch[f].box) =>
    /\ launch[f].at # "outfit" \/ launch[f].proxy \in {"found", "new", "done"} => docker.network
    /\ launch[f].at # "outfit" \/ launch[f].proxy \in {"found", "done"} => docker.proxy = "up"
    /\ launch[f].at \in {"connect", "init"} => docker.scope

Served ==
  stop.at = "idle" /\ host.alive => docker.network /\ docker.proxy = "up" /\ docker.scope

(* A session that has never run is either a draft without a container, or in *)
(* a start that nothing takes anything from.                                 *)
Raising ==
  host.state # "started" =>
    /\ stop.at = "idle" /\ rm.at = "idle" /\ host.status # "stopped"
    /\ host.state = "draft" => host.status = "none"
    /\ host.state = "starting" => Launching("prompt")
    /\ host.status = "none" => Existing = {}
    /\ (\A f \in Flows : ~At(f, "load")) => host.conn = 0

Raised(f) ==
  host.state # "started" =>
    LET i == launch[f].box
    IN  /\ launch[f].at # "restart"
        /\ launch[f].at \in {"resolve", "probe", "sweep"} => host.status = "none"
        /\ At(f, "clone") => i = 0
        /\ launch[f].at \in {"setup", "script", "up"} \cup Late => Up(i)
        /\ launch[f].at \in {"setup", "script", "up", "outfit"} => i \in docker.open
        /\ At(f, "outfit") => launch[f].fit # "failed" /\ launch[f].proxy # "failed"
        /\ At(f, "outfit") /\ launch[f].fit = "done" => i \in docker.adapter
        /\ launch[f].at \in {"net", "push", "connect", "init"} => i \in docker.adapter
        /\ At(f, "load") => host.alive /\ host.conn = i

Order ==
  /\ Halting /\ Named /\ Served /\ Raising
  /\ \A f \in Flows : Placed(f) /\ Furnished(f) /\ Raised(f)

LEMMA GoIs ==
  ASSUME TypeOK, NEW f \in Flows, NEW p \in Places, Go(f, p)
  PROVE  /\ launch'[f].at = p /\ launch'[f].box = launch[f].box
         /\ launch'[f].fit = launch[f].fit /\ launch'[f].proxy = launch[f].proxy
         /\ \A g \in Flows : g # f => launch'[g] = launch[g]
<1>1. launch \in Launches /\ launch' = [launch EXCEPT ![f].at = p]
  BY BoxOf DEF Go
<1> QED BY <1>1 DEF Launches, Flow

(* The others do not launch: what is said of each flow is said of f.         *)
LEMMA Lone ==
  ASSUME TypeOK, Safe, NEW f \in Flows, Launching(f)
  PROVE  /\ \A g \in Flows : g # f => launch[g].at \notin Early \cup Shut
         /\ ~At(f, "load") => ~host.alive
BY DEF Safe, Alone, Spoken, Launching

LEMMA Assembled ==
  ASSUME TypeOK, Safe, NEW f \in Flows, Launching(f),
         \A g \in Flows : g # f => launch'[g] = launch[g] \/ launch'[g].at \notin Early \cup Shut,
         (Halting /\ Named /\ Served /\ Raising /\ Placed(f) /\ Furnished(f) /\ Raised(f))'
  PROVE  Order'
<1>1. \A g \in Flows : g # f => launch'[g].at \notin Early \cup Shut
  BY Lone
<1>2. \A g \in Flows : launch'[g].at \notin Early \cup Shut
                         => Placed(g)' /\ Furnished(g)' /\ Raised(g)'
  BY DEF Placed, Furnished, Raised, Early, Shut, Late, Working, At
<1> QED BY <1>1, <1>2 DEF Order

(* Nothing Docker or the record has is changed. *)
Untouched ==
  /\ Existing' = Existing /\ (\A i : Up(i)' <=> Up(i))
  /\ docker'.open = docker.open /\ docker'.adapter = docker.adapter
  /\ docker'.network = docker.network /\ docker'.proxy = docker.proxy
  /\ docker'.scope = docker.scope

Unhalted == stop' = stop /\ rm' = rm

LEMMA StayUntouched ==
  ASSUME docker' = docker
  PROVE  Untouched
BY DEF Untouched, Existing, Up

LEMMA RaisingStays ==
  ASSUME TypeOK, Safe, Raising, NEW f \in Flows, Launching(f), ~At(f, "load"),
         launch'[f].at \in Early \cup Shut, \A g \in Flows : g # f => launch'[g] = launch[g],
         Unhalted, host'.state = host.state,
         host'.conn = host.conn \/ launch'[f].at = "load",
         host.state # "started" =>
           /\ host'.status # "stopped" /\ (host.state = "draft" => host'.status = "none")
           /\ host'.status = "none" => Existing' = {}
  PROVE  Raising'
<1> SUFFICES ASSUME host.state # "started"
             PROVE  /\ stop.at = "idle" /\ rm.at = "idle"
                    /\ host.state = "starting" => launch'["prompt"].at \in Early \cup Shut
                    /\ host.conn = 0
  BY DEF Raising, Unhalted, Launching, At
<1>1. \A g \in Flows : ~At(g, "load")
  BY Lone DEF At, Shut
<1>2. "prompt" \in Flows
  BY DEF Flows
<1> QED BY <1>1, <1>2 DEF Raising, Launching

LEMMA ResolveOrder ==
  ASSUME TypeOK, Safe, Kept, Untroubled, Order, NEW f \in Flows, Resolve(f)
  PROVE  Order'
<1>1. At(f, "resolve") /\ Untouched /\ Unhalted /\ host' = host /\ Launching(f)
  BY StayUntouched DEF Resolve, Untorn, Untroubled, Unhalted, At, Launching, Early
<1>2. launch' = [launch EXCEPT ![f] = [Asleep EXCEPT !.at = "probe", !.box = host.box]]
  BY DEF Resolve, Untroubled
<1>3. /\ launch'[f].at = "probe" /\ launch'[f].box = host.box
      /\ launch'[f].fit = "todo" /\ launch'[f].proxy = "todo"
      /\ \A g \in Flows : g # f => launch'[g] = launch[g]
  BY <1>2, BoxOf DEF Launches, Asleep
<1>4. Halting' /\ Served'
  BY <1>1 DEF Order, Halting, Served, Untouched, Unhalted
<1>5. Named'
  BY <1>1, <1>3 DEF Order, Named, Untouched, Unhalted, At, Working
<1>6. Raising'
  <2>1. launch'[f].at \in Early \cup Shut /\ ~At(f, "load")
    BY <1>1, <1>3 DEF At, Early
  <2>2. host.state # "started" =>
          /\ host'.status # "stopped" /\ (host.state = "draft" => host'.status = "none")
          /\ host'.status = "none" => Existing' = {}
    BY <1>1 DEF Order, Raising, Untouched
  <2> QED BY <1>1, <1>3, <2>1, <2>2, RaisingStays DEF Order
<1>7. Placed(f)' /\ Furnished(f)'
  BY <1>1, <1>3 DEF Placed, Furnished, At, Working, Late
<1>8. Raised(f)'
  BY <1>1, <1>3 DEF Order, Raised, At, Late
<1> QED BY <1>1, <1>3, <1>4, <1>5, <1>6, <1>7, <1>8, Assembled

LEMMA NoFault ==
  ASSUME Untroubled, Untroubled'
  PROVE  ~Fails
BY DEF Fails, Untroubled

LEMMA Undrafted ==
  ASSUME Safe, NEW f \in Flows, Launching(f)
  PROVE  host.state # "draft"
BY DEF Safe, Owned, Flows

(* A start that has never run finds nothing: it is the sweep that comes next. *)
LEMMA ProbeOrder ==
  ASSUME TypeOK, Safe, Kept, Untroubled, Order, NEW f \in Flows, Probe(f)
  PROVE  Order'
<1> DEFINE up == host.status = "running" /\ host.full /\ Up(launch[f].box)
<1>1. At(f, "probe") /\ Untouched /\ Unhalted /\ host' = host /\ Launching(f)
  BY StayUntouched DEF Probe, Untorn, Unhalted, At, Launching, Early
<1>2. /\ launch'[f].at = IF up THEN "outfit" ELSE "sweep"
      /\ launch'[f].box = launch[f].box
      /\ launch'[f].fit = launch[f].fit /\ launch'[f].proxy = launch[f].proxy
      /\ \A g \in Flows : g # f => launch'[g] = launch[g]
  <2>1. (IF up THEN "outfit" ELSE "sweep") \in Places
    BY DEF Places
  <2> QED BY <2>1, GoIs DEF Probe
<1>3. launch[f].fit = "todo" /\ launch[f].proxy = "todo" /\ launch[f].box = host.box
  BY <1>1 DEF Order, Placed, At
<1>4. host.state # "started" => host.status = "none"
  BY <1>1 DEF Order, Raised, At
<1>5. Halting' /\ Served'
  BY <1>1 DEF Order, Halting, Served, Untouched, Unhalted
<1>6. Named'
  BY <1>1, <1>2 DEF Order, Named, Untouched, Unhalted, At, Working
<1>7. Raising'
  <2>1. launch'[f].at \in Early \cup Shut /\ ~At(f, "load")
    BY <1>1, <1>2 DEF At, Early
  <2>2. host.state # "started" =>
          /\ host'.status # "stopped" /\ (host.state = "draft" => host'.status = "none")
          /\ host'.status = "none" => Existing' = {}
    BY <1>1 DEF Order, Raising, Untouched
  <2> QED BY <1>1, <1>2, <2>1, <2>2, RaisingStays DEF Order
<1>8. Placed(f)' /\ Furnished(f)'
  BY <1>1, <1>2, <1>3 DEF Placed, Furnished, At, Working, Late
<1>9. Raised(f)'
  <2>1. host.state # "started" => launch'[f].at = "sweep"
    BY <1>2, <1>4
  <2> QED BY <1>1, <1>4, <2>1 DEF Raised, At, Late
<1> QED BY <1>1, <1>2, <1>5, <1>6, <1>7, <1>8, <1>9, Assembled

(* There is no stray: the record has named whatever there is.                *)
LEMMA SweepOrder ==
  ASSUME TypeOK, Safe, Kept, Untroubled, Order, NEW f \in Flows, Sweep(f)
  PROVE  Order'
<1> DEFINE own   == IF launch[f].box \in Existing THEN launch[f].box ELSE 0
           stray == Existing \ {own}
           h     == Forgotten(Killed(host, stray), stray \cup {launch[f].box})
<1>1. /\ At(f, "sweep") /\ Unhalted /\ Launching(f) /\ ~host.alive /\ host.session
      /\ docker' = Removed(docker, stray)
      /\ host' = Patched(h, "building", own, own # 0 /\ host.full)
      /\ launch' = [launch EXCEPT ![f].at = "clone", ![f].box = own]
  BY Lone DEF Sweep, Untorn, Unhalted, At, Launching, Early, Untroubled
<1>2. launch[f].box = host.box /\ launch[f].fit = "todo" /\ launch[f].proxy = "todo"
  BY <1>1 DEF Order, Placed, At
<1>3. Existing \subseteq {host.box} /\ 0 \notin Existing
  <2>1. \A g \in Flows : ~At(g, "setup")
    BY <1>1, Lone DEF At, Early
  <2> QED BY <2>1, BoxOf DEF Order, Named, Boxes
<1>4. Existing = {own} \ {0} /\ stray = {}
  BY <1>2, <1>3
<1>5. /\ launch'[f].at = "clone" /\ launch'[f].box = own
      /\ launch'[f].fit = "todo" /\ launch'[f].proxy = "todo"
      /\ \A g \in Flows : g # f => launch'[g] = launch[g]
  <2> HIDE DEF own
  <2> QED BY <1>1, <1>2, BoxOf DEF Launches, Flow
<1>6. Existing' = Existing
  <2>1. \A i \in Boxes : docker'.box[i] = docker.box[i]
    BY <1>1, <1>4, BoxOf, RemovedType
  <2> QED BY <2>1 DEF Existing
<1>7. /\ host'.status = "building" /\ host'.box = own /\ host'.state = host.state
      /\ host'.conn = host.conn /\ ~host'.alive
  <2>1. host \in Host /\ own \in 0..MaxBoxes /\ (own # 0 /\ host.full) \in BOOLEAN
    BY <1>3, BoxOf, LifeAssumption DEF Boxes
  <2> HIDE DEF own
  <2>2. LET k == Killed(host, stray)
        IN  /\ k \in Host /\ k.session = host.session /\ k.state = host.state
            /\ k.conn = host.conn /\ k.alive = (host.alive /\ host.conn \notin stray)
    BY <2>1, KilledType
  <2>3. /\ h \in Host /\ h.session /\ h.state = host.state /\ h.conn = host.conn /\ ~h.alive
    BY <1>1, <2>2, ForgottenType
  <2> DEFINE fu == own # 0 /\ host.full
  <2>4. host' = Patched(h, "building", own, fu) /\ fu \in BOOLEAN /\ "building" \in Status
    BY <1>1, <2>1 DEF Status
  <2> HIDE DEF h, fu
  <2> QED BY <2>1, <2>3, <2>4, PatchedType
<1> HIDE DEF own, stray, h
<1>8. Halting' /\ Served'
  BY <1>1, <1>6, <1>7 DEF Order, Halting, Served, Unhalted
<1>9. Named'
  BY <1>4, <1>5, <1>6, <1>7 DEF Named, Working
<1>10. Raising'
  <2>1. launch'[f].at \in Early \cup Shut /\ ~At(f, "load")
    BY <1>1, <1>5 DEF At, Early
  <2>2. host.state # "draft"
    BY <1>1, Undrafted
  <2> QED BY <1>1, <1>5, <1>7, <2>1, <2>2, RaisingStays DEF Order
<1>11. Placed(f)' /\ Furnished(f)'
  BY <1>4, <1>5, <1>6, <1>7 DEF Placed, Furnished, At, Working, Late
<1>12. Raised(f)'
  <2>1. host.state # "started" => own = 0
    BY <1>1, <1>4 DEF Order, Raised, Raising, At
  <2> QED BY <1>5, <1>7, <2>1 DEF Raised, At, Late
<1> QED BY <1>1, <1>5, <1>8, <1>9, <1>10, <1>11, <1>12, Assembled

(* What a patch of the record leaves of a session that is there.             *)
LEMMA PatchedIs ==
  ASSUME TypeOK, Untroubled, NEW st \in Status, NEW b \in 0..MaxBoxes, NEW fu \in BOOLEAN,
         host' = Patched(host, st, b, fu)
  PROVE  /\ host'.status = st /\ host'.box = b /\ host'.state = host.state
         /\ host'.conn = host.conn /\ host'.alive = host.alive
BY TypeIs, PatchedType DEF Untroubled

LEMMA CloneOrder ==
  ASSUME TypeOK, Safe, Kept, Untroubled, Untroubled', Order, NEW f \in Flows, Clone(f)
  PROVE  Order'
<1> DEFINE i == launch[f].box
<1>1. /\ At(f, "clone") /\ Unhalted /\ Launching(f) /\ ~host.alive
      /\ launch[f].fit = "todo" /\ launch[f].proxy = "todo"
      /\ host.status \in {"building", "post", "stopped"} /\ host.state # "draft"
  <2>1. At(f, "clone") /\ Unhalted /\ Launching(f)
    BY DEF Clone, Untorn, Unhalted, At, Launching, Early
  <2> QED BY <2>1, Lone, Undrafted DEF Order, Placed, At, Working
<1>2. \A p \in {"create", "restart"} : Go(f, p) =>
        /\ launch'[f].at = p /\ launch'[f].box = i
        /\ launch'[f].fit = "todo" /\ launch'[f].proxy = "todo"
        /\ \A g \in Flows : g # f => launch'[g] = launch[g]
  BY <1>1, GoIs DEF Places
<1>3. CASE i = 0 /\ Go(f, "create") /\ UNCHANGED <<host, docker>>
  <2>1. Untouched /\ Existing = {}
    BY <1>1, <1>3, StayUntouched DEF Kept, Cleared
  <2>2. Halting' /\ Served' /\ stop.at = "idle"
    BY <1>1, <1>3, <2>1 DEF Order, Halting, Served, Untouched, Unhalted
  <2>3. Named'
    BY <1>1, <1>2, <1>3, <2>1 DEF Order, Named, Untouched, Unhalted, At, Working
  <2>4. Raising'
    <3>1. launch'[f].at \in Early \cup Shut /\ ~At(f, "load")
      BY <1>1, <1>2, <1>3 DEF At, Early
    <3> QED BY <1>1, <1>2, <1>3, <2>1, <3>1, RaisingStays DEF Order, Raising, Untouched
  <2>5. Placed(f)' /\ Furnished(f)' /\ Raised(f)'
    BY <1>1, <1>2, <1>3, <2>2 DEF Placed, Furnished, Raised, At, Working, Late, Unhalted
  <2> QED BY <1>1, <1>2, <1>3, <2>2, <2>3, <2>4, <2>5, Assembled
<1>4. CASE /\ i # 0 /\ Go(f, "restart")
           /\ docker' = [docker EXCEPT !.open = @ \cup ({i} \cap Existing)]
           /\ host' = Patched(host, "post", i, host.full)
  <2>1. host.state = "started" /\ i \in Existing /\ Existing \subseteq {i}
    BY <1>1, <1>4, BoxOf DEF Order, Raised, Placed, Kept, Single, At, Host, States
  <2>2. Existing' = Existing
    BY <1>4, BoxOf DEF Docker, Existing
  <2>3. /\ host'.status = "post" /\ host'.box = i /\ host'.state = host.state
        /\ host'.conn = host.conn /\ ~host'.alive
    <3>1. "post" \in Status /\ i \in 0..MaxBoxes /\ host.full \in BOOLEAN
      BY BoxOf DEF Status, Host
    <3> QED BY <1>1, <1>4, <3>1, PatchedIs
  <2>4. Halting' /\ Served' /\ Raising' /\ Raised(f)'
    BY <1>1, <2>1, <2>2, <2>3 DEF Order, Halting, Served, Raising, Raised, Unhalted
  <2>5. Named'
    BY <1>2, <1>4, <2>1, <2>2, <2>3 DEF Named, Working
  <2>6. Placed(f)' /\ Furnished(f)'
    BY <1>2, <1>4, <2>1, <2>2, <2>3 DEF Placed, Furnished, At, Working, Late
  <2> QED BY <1>1, <1>2, <1>4, <2>4, <2>5, <2>6, Assembled
<1> QED BY <1>3, <1>4, NoFault DEF Clone

(* The container is there until the launch has restarted it.                 *)
LEMMA RestartOrder ==
  ASSUME TypeOK, Safe, Kept, Untroubled, Untroubled', Order, NEW f \in Flows, Restart(f)
  PROVE  Order'
<1> DEFINE i == launch[f].box
<1>1. /\ At(f, "restart") /\ Unhalted /\ Launching(f) /\ ~host.alive
      /\ launch[f].fit = "todo" /\ launch[f].proxy = "todo" /\ i \in Existing
      /\ host.status \in {"building", "post", "stopped"}
  <2>1. At(f, "restart") /\ Unhalted /\ Launching(f)
    BY DEF Restart, Untorn, Unhalted, At, Launching, Early
  <2> QED BY <2>1, Lone DEF Order, Placed, At, Working
<1>2. host.state = "started" /\ \A g \in Flows : ~At(g, "setup")
  BY <1>1, Lone DEF Order, Raised, At, Early
<1>3. /\ docker' = [docker EXCEPT !.box[i] = "up"] /\ Go(f, "up") /\ host' = host
  BY <1>1, NoFault DEF Restart
<1>4. /\ launch'[f].at = "up" /\ launch'[f].box = i
      /\ launch'[f].fit = "todo" /\ launch'[f].proxy = "todo"
      /\ \A g \in Flows : g # f => launch'[g] = launch[g]
  BY <1>1, <1>3, GoIs DEF Places
<1>5. Existing' = Existing
  <2>1. \A j \in Boxes : docker'.box[j] = IF j = i THEN "up" ELSE docker.box[j]
    BY <1>3, BoxOf DEF Docker
  <2> QED BY <1>1, <2>1 DEF Existing
<1>6. Halting' /\ Served' /\ Raising' /\ Raised(f)'
  BY <1>1, <1>2, <1>3, <1>5 DEF Order, Halting, Served, Raising, Raised, Unhalted
<1>7. Named'
  BY <1>1, <1>2, <1>3, <1>4, <1>5 DEF Order, Named, Working, Unhalted
<1>8. Placed(f)' /\ Furnished(f)'
  BY <1>1, <1>3, <1>4, <1>5 DEF Placed, Furnished, At, Working, Late
<1> QED BY <1>1, <1>4, <1>6, <1>7, <1>8, Assembled

LEMMA CreateOrder ==
  ASSUME TypeOK, Safe, Kept, Untroubled, Order, NEW f \in Flows, Create(f)
  PROVE  Order'
<1>1. /\ At(f, "create") /\ Unhalted /\ Launching(f) /\ ~host.alive /\ Existing = {}
      /\ launch[f].fit = "todo" /\ launch[f].proxy = "todo" /\ stop.at = "idle"
  <2>1. At(f, "create") /\ Unhalted /\ Launching(f)
    BY DEF Create, Untorn, Unhalted, At, Launching, Early
  <2> QED BY <2>1, Lone DEF Order, Placed, At, Working, Kept, Cleared
<1>2. PICK i \in Boxes :
        /\ docker' = [docker EXCEPT !.box[i] = "up", !.half = @ \cup {i}, !.open = @ \cup {i}]
        /\ launch' = [launch EXCEPT ![f].at = "setup", ![f].box = i]
        /\ host' = Patched(host, "post", 0, FALSE)
  BY DEF Create
<1>3. /\ launch'[f].at = "setup" /\ launch'[f].box = i
      /\ launch'[f].fit = "todo" /\ launch'[f].proxy = "todo"
      /\ \A g \in Flows : g # f => launch'[g] = launch[g]
  BY <1>1, <1>2, BoxOf DEF Launches, Flow
<1>4. /\ Existing' = {i} /\ Up(i)' /\ i \in docker'.open
  <2>1. \A j \in Boxes : docker'.box[j] = IF j = i THEN "up" ELSE docker.box[j]
    BY <1>2, BoxOf DEF Docker
  <2>2. i \in docker'.open
    BY <1>2, BoxOf DEF Docker
  <2> QED BY <1>1, <2>1, <2>2 DEF Existing, Up, Boxes
<1>5. /\ host'.status = "post" /\ host'.box = 0 /\ host'.state = host.state
      /\ host'.conn = host.conn /\ ~host'.alive
  <2>1. "post" \in Status /\ 0 \in 0..MaxBoxes
    BY LifeAssumption DEF Status
  <2> QED BY <1>1, <1>2, <2>1, PatchedIs
<1>6. Halting' /\ Served'
  BY <1>1, <1>5 DEF Halting, Served, Unhalted
<1>7. Named'
  BY <1>3, <1>4, <1>5 DEF Named, At, Working
<1>8. Raising'
  <2>1. launch'[f].at \in Early \cup Shut /\ ~At(f, "load")
    BY <1>1, <1>3 DEF At, Early
  <2> QED BY <1>1, <1>3, <1>5, <2>1, Undrafted, RaisingStays DEF Order
<1>9. Placed(f)' /\ Furnished(f)' /\ Raised(f)'
  BY <1>1, <1>3, <1>4, <1>5 DEF Placed, Furnished, Raised, At, Working, Late, Unhalted
<1> QED BY <1>1, <1>3, <1>6, <1>7, <1>8, <1>9, Assembled

(* Nothing stops a container that is being set up, and nothing fails.        *)
LEMMA SetupOrder ==
  ASSUME TypeOK, Safe, Kept, Untroubled, Untroubled', Order, NEW f \in Flows,
         Setup(f) \/ Script(f)
  PROVE  Order'
<1> DEFINE i == launch[f].box
           p == IF Setup(f) THEN "script" ELSE "up"
<1>1. /\ launch[f].at \in {"setup", "script"} /\ Unhalted /\ Launching(f)
      /\ At(f, "setup") <=> Setup(f)
  BY DEF Setup, Script, Untorn, Unhalted, At, Launching, Early
<1>2. /\ ~host.alive /\ Up(i) /\ Existing = {i} /\ stop.at = "idle" /\ host.state # "draft"
      /\ launch[f].fit = "todo" /\ launch[f].proxy = "todo"
      /\ host.status \in {"building", "post", "stopped"}
  <2>1. /\ ~host.alive /\ Up(i) /\ stop.at = "idle" /\ host.state # "draft"
        /\ launch[f].fit = "todo" /\ launch[f].proxy = "todo"
        /\ host.status \in {"building", "post", "stopped"}
    BY <1>1, Lone, Undrafted DEF Order, Placed, At, Working
  <2> QED BY <2>1, BoxOf DEF Kept, Single, Up, Existing
<1>3. /\ Go(f, p)
      /\ docker' \in {docker, [docker EXCEPT !.half = @ \ {i}]}
      /\ IF Setup(f) THEN host' = Patched(host, "post", i, FALSE) ELSE host' = host
  BY <1>1, <1>2, NoFault DEF Setup, Script
<1>4. /\ launch'[f].at = p /\ launch'[f].box = i
      /\ launch'[f].fit = "todo" /\ launch'[f].proxy = "todo"
      /\ \A g \in Flows : g # f => launch'[g] = launch[g]
  <2>1. p \in Places
    BY DEF Places
  <2> QED BY <1>2, <1>3, <2>1, GoIs
<1>5. Existing' = {i} /\ Up(i)' /\ docker'.open = docker.open
  <2>1. docker'.box = docker.box /\ docker'.open = docker.open
    BY <1>3, BoxOf DEF Docker
  <2> QED BY <1>2, <1>4, <2>1 DEF Existing, Up
<1>6. /\ host'.state = host.state /\ host'.conn = host.conn /\ ~host'.alive
      /\ host'.status \in {"building", "post", "stopped"}
      /\ host.state # "started" => host'.status # "stopped"
      /\ Setup(f) => host'.box = i /\ host'.status = "post"
      /\ ~Setup(f) => host' = host
  <2>1. "post" \in Status /\ i \in 0..MaxBoxes /\ FALSE \in BOOLEAN
    BY BoxOf DEF Status
  <2>2. host.state # "started" => host.status # "stopped"
    BY DEF Order, Raising
  <2>3. CASE Setup(f)
    <3>1. host' = Patched(host, "post", i, FALSE)
      BY <1>3, <2>3
    <3> QED BY <1>2, <2>1, <2>3, <3>1, PatchedIs
  <2> QED BY <1>2, <1>3, <2>2, <2>3
<1>7. p \in {"script", "up"} /\ (p = "script" <=> Setup(f))
  OBVIOUS
<1> HIDE DEF p
<1>8. Halting' /\ Served'
  BY <1>1, <1>2, <1>6 DEF Halting, Served, Unhalted
<1>9. Named'
  <2>1. ~Setup(f) => Existing \subseteq {host.box}
    <3> SUFFICES ASSUME ~Setup(f) PROVE \A g \in Flows : ~At(g, "setup")
      BY DEF Order, Named
    <3> QED BY <1>1, Lone DEF At, Early
  <2>2. Existing' \subseteq {host'.box}
    BY <1>2, <1>5, <1>6, <2>1
  <2> QED BY <1>4, <1>6, <1>7, <2>2 DEF Named, Working
<1>10. Raising'
  <2>1. launch'[f].at \in Early \cup Shut /\ ~At(f, "load")
    BY <1>1, <1>4, <1>7 DEF At, Early
  <2> QED BY <1>1, <1>2, <1>4, <1>6, <2>1, RaisingStays DEF Order
<1>11. Placed(f)' /\ Furnished(f)'
  BY <1>1, <1>2, <1>4, <1>5, <1>6, <1>7 DEF Placed, Furnished, At, Working, Late, Unhalted
<1>12. Raised(f)'
  BY <1>1, <1>4, <1>5, <1>6, <1>7 DEF Order, Raised, At, Late
<1> QED BY <1>1, <1>4, <1>8, <1>9, <1>10, <1>11, <1>12, Assembled

LEMMA EnsureUpOrder ==
  ASSUME TypeOK, Safe, Kept, Untroubled, Untroubled', Order, NEW f \in Flows, EnsureUp(f)
  PROVE  Order'
<1> DEFINE i == launch[f].box
<1>1. /\ At(f, "up") /\ Unhalted /\ Launching(f) /\ Untouched
      /\ host' = Patched(host, "running", i, TRUE) /\ Go(f, "outfit")
  BY StayUntouched DEF EnsureUp, Untorn, Unhalted, At, Launching, Early, Untroubled
<1>2. /\ ~host.alive /\ i \in Existing /\ Existing \subseteq {i} /\ host.state # "draft"
      /\ launch[f].fit = "todo" /\ launch[f].proxy = "todo" /\ rm.at = "idle"
  <2>1. ~host.alive /\ i \in Existing /\ launch[f].fit = "todo" /\ launch[f].proxy = "todo"
    BY <1>1, Lone DEF Order, Placed, At, Working
  <2>2. rm.at = "idle"
    BY <1>1 DEF Kept, Unraced, Untroubled, Bare, Ensuring, At
  <2> QED BY <1>1, <2>1, <2>2, Undrafted DEF Kept, Single
<1>3. /\ launch'[f].at = "outfit" /\ launch'[f].box = i
      /\ launch'[f].fit = "todo" /\ launch'[f].proxy = "todo"
      /\ \A g \in Flows : g # f => launch'[g] = launch[g]
  BY <1>1, <1>2, GoIs DEF Places
<1>4. /\ host'.status = "running" /\ host'.box = i /\ host'.state = host.state
      /\ host'.conn = host.conn /\ ~host'.alive
  <2>1. "running" \in Status /\ i \in 0..MaxBoxes /\ TRUE \in BOOLEAN
    BY BoxOf DEF Status
  <2> QED BY <1>1, <1>2, <2>1, PatchedIs
<1>5. Halting' /\ Served'
  BY <1>1, <1>2, <1>4 DEF Order, Halting, Served, Unhalted, Untouched
<1>6. Named'
  BY <1>1, <1>2, <1>4 DEF Named, Unhalted, Untouched
<1>7. Raising'
  <2>1. launch'[f].at \in Early \cup Shut /\ ~At(f, "load")
    BY <1>1, <1>3 DEF At, Early
  <2> QED BY <1>1, <1>2, <1>3, <1>4, <2>1, RaisingStays DEF Order
<1>8. Placed(f)' /\ Furnished(f)'
  BY <1>3 DEF Placed, Furnished, At, Working, Late
<1>9. Raised(f)'
  BY <1>1, <1>3, <1>4 DEF Order, Raised, At, Late, Untouched
<1> QED BY <1>1, <1>3, <1>5, <1>6, <1>7, <1>8, <1>9, Assembled

(* A launch past its ensure leaves the record and the containers alone.      *)
LEMMA LateOrder ==
  ASSUME TypeOK, Safe, Kept, Untroubled, Order, NEW f \in Flows,
         launch[f].at \in Late, launch'[f].at \in Late \cup {"load"},
         launch'[f].box = launch[f].box, \A g \in Flows : g # f => launch'[g] = launch[g],
         Unhalted, docker'.box = docker.box,
         host'.status = host.status, host'.box = host.box, host'.state = host.state,
         host'.conn = host.conn \/ launch'[f].at = "load",
         (Served /\ Furnished(f) /\ Raised(f))'
  PROVE  Order'
<1>1. Launching(f) /\ launch[f].at \notin Working \cup {"setup", "load"}
  BY DEF Launching, Late, Early, Shut, Working
<1>2. Existing' = Existing
  BY DEF Existing
<1>3. Halting'
  BY <1>2 DEF Order, Halting, Unhalted
<1>4. Named'
  <2>1. \A g \in Flows : launch[g].at \in Working \cup {"setup"} => launch'[g] = launch[g]
    BY <1>1
  <2>2. Existing' \subseteq {host'.box} \/ \E g \in Flows : At(g, "setup")'
    BY <1>2, <2>1 DEF Order, Named, At
  <2>3. host'.status \in {"building", "post"} => \E g \in Flows : launch'[g].at \in Working
    BY <2>1 DEF Order, Named
  <2> QED BY <1>2, <2>2, <2>3 DEF Order, Named, Unhalted
<1>5. Raising'
  <2>1. launch'[f].at \in Early \cup Shut /\ ~At(f, "load")
    BY <1>1 DEF At, Late, Early, Shut
  <2> QED BY <1>1, <1>2, <2>1, RaisingStays DEF Order, Raising
<1>6. Placed(f)'
  BY DEF Placed, At, Late, Working
<1> QED BY <1>1, <1>3, <1>4, <1>5, <1>6, Assembled DEF Order

(* A wake-up that throws leaves the session as it was, with no agent.        *)
LEMMA ThrownOrder ==
  ASSUME TypeOK, Safe, Kept, Untroubled, Order, NEW f \in Flows,
         launch[f].at \in Late \cup {"load"}, Throw(f), host' = Thrown(host, f),
         docker' = docker, Unhalted, host.state = "started"
  PROVE  Order'
<1>1. Launching(f) /\ launch[f].at \notin Working \cup {"setup"} /\ Untouched
  BY StayUntouched DEF Launching, Late, Early, Shut, Working
<1>2. /\ \A g \in Flows : launch'[g] = Asleep \/ (launch'[g] = launch[g] /\ g # f)
      /\ Asleep.at = "idle"
  BY ThrowIs DEF Asleep
<1>3. /\ host'.status = host.status /\ host'.box = host.box /\ host'.state = "started"
      /\ host'.conn = host.conn /\ host'.alive = host.alive
  BY ThrownType, BoxOf
<1>4. \A g \in Flows : launch[g].at \notin Working \cup {"setup"}
  BY <1>1, Lone DEF Working, Early
<1>5. Halting' /\ Served' /\ Raising'
  BY <1>1, <1>3 DEF Order, Halting, Served, Raising, Unhalted, Untouched
<1>6. Named'
  BY <1>1, <1>3, <1>4 DEF Order, Named, Unhalted, Untouched, At
<1>7. launch'[f].at = "idle"
  BY <1>2
<1>8. Placed(f)' /\ Furnished(f)' /\ Raised(f)'
  BY <1>3, <1>7 DEF Placed, Furnished, Raised, At, Late, Working
<1>9. \A g \in Flows : g # f => launch'[g] = launch[g] \/ launch'[g].at \notin Early \cup Shut
  BY <1>2 DEF Early, Shut
<1> QED BY <1>1, <1>5, <1>6, <1>8, <1>9, Assembled

LEMMA InstallOrder ==
  ASSUME TypeOK, Safe, Kept, Untroubled, Untroubled', Order, NEW f \in Flows, Install(f)
  PROVE  Order'
<1> DEFINE i == launch[f].box
<1>1. At(f, "outfit") /\ Unhalted /\ ~host.alive /\ launch[f].at \in Late
  <2>1. At(f, "outfit") /\ Unhalted /\ Launching(f)
    BY DEF Install, Untorn, Unhalted, At, Launching, Early
  <2> QED BY <2>1, Lone DEF At, Late
<1>2. PICK x \in {"done", "failed"} : launch' = [launch EXCEPT ![f].fit = x]
  BY DEF Install
<1>3. /\ launch'[f].at = "outfit" /\ launch'[f].box = i
      /\ launch'[f].fit = x /\ launch'[f].proxy = launch[f].proxy
      /\ \A g \in Flows : g # f => launch'[g] = launch[g]
  BY <1>1, <1>2, BoxOf DEF Launches, Flow, At
<1>4. /\ docker'.box = docker.box /\ docker'.open = docker.open
      /\ docker'.network = docker.network /\ docker'.proxy = docker.proxy
      /\ docker'.scope = docker.scope
      /\ x = "done" => docker'.adapter = docker.adapter \cup ({i} \cap Existing)
  <2>1. x = "done" => docker' = [docker EXCEPT !.adapter = @ \cup ({i} \cap Existing)]
    BY <1>2, <1>3, BoxOf DEF Install, Launches, Flow
  <2>2. docker' = docker \/ docker' = [docker EXCEPT !.adapter = @ \cup ({i} \cap Existing)]
    BY DEF Install
  <2> QED BY <2>1, <2>2, BoxOf DEF Docker
<1>5. /\ host'.status = host.status /\ host'.box = host.box /\ host'.state = host.state
      /\ host'.conn = host.conn /\ ~host'.alive
  <2>1. host' = host \/ host' = [host EXCEPT !.installed = @ \cup {i}]
    BY DEF Install
  <2> QED BY <1>1, <2>1, BoxOf DEF Host
<1>6. host.state # "started" => x = "done" /\ Up(i) /\ i \in Existing
  <2> SUFFICES ASSUME host.state # "started"
               PROVE  x = "done" /\ Up(i) /\ i \in Existing
    OBVIOUS
  <2>1. Up(i) /\ i \in docker.open
    BY <1>1 DEF Order, Raised, At
  <2>2. x = "done"
    <3>1. launch'[f].fit = "done"
      BY <2>1, <1>1, NoFault, BoxOf DEF Install, Launches, Flow
    <3> QED BY <1>3, <3>1
  <2> QED BY <2>1, <2>2, BoxOf DEF Existing, Up
<1>7. Served' /\ Furnished(f)'
  BY <1>1, <1>3, <1>4, <1>5 DEF Order, Served, Furnished, Unhalted, Up, At, Late
<1>8. Raised(f)'
  BY <1>1, <1>3, <1>4, <1>5, <1>6 DEF Order, Raised, Up, At, Late
<1>9. launch'[f].at \in Late
  BY <1>3 DEF Late
<1> QED BY <1>1, <1>3, <1>4, <1>5, <1>7, <1>8, <1>9, LateOrder

(* A proxy looked for is found up, or will be created, or is up already.     *)
LEMMA ProxyOrder ==
  ASSUME TypeOK, Safe, Kept, Untroubled, Untroubled', Order, NEW f \in Flows,
         ProxyLook(f) \/ ProxyReady(f)
  PROVE  Order'
<1> DEFINE i == launch[f].box
<1>1. /\ At(f, "outfit") /\ Unhalted /\ ~host.alive /\ launch[f].at \in Late
      /\ host' = host
  <2>1. At(f, "outfit") /\ Unhalted /\ Launching(f) /\ host' = host
    BY DEF ProxyLook, ProxyReady, Untorn, Unhalted, At, Launching, Early
  <2> QED BY <2>1, Lone DEF At, Late
<1>2. PICK x \in {"found", "new", "done", "failed"} : launch' = [launch EXCEPT ![f].proxy = x]
  BY DEF ProxyLook, ProxyReady
<1>3. /\ launch'[f].at = "outfit" /\ launch'[f].box = i
      /\ launch'[f].fit = launch[f].fit /\ launch'[f].proxy = x
      /\ \A g \in Flows : g # f => launch'[g] = launch[g]
  BY <1>1, <1>2, BoxOf DEF Launches, Flow, At
<1>4. CASE ProxyLook(f)
  <2>1. /\ docker' = [docker EXCEPT !.network = TRUE, !.proxy = IF @ = "up" THEN @ ELSE "none"]
        /\ launch' = [launch EXCEPT ![f].proxy = IF docker.proxy = "up" THEN "found" ELSE "new"]
    BY <1>4 DEF ProxyLook
  <2>2. /\ docker'.box = docker.box /\ docker'.open = docker.open
        /\ docker'.adapter = docker.adapter /\ docker'.network
        /\ docker.proxy = "up" => docker'.proxy = "up"
    BY <2>1, BoxOf DEF Docker
  <2>3. x = IF docker.proxy = "up" THEN "found" ELSE "new"
    BY <1>3, <2>1, BoxOf DEF Launches, Flow
  <2>4. Served'
    BY <1>1 DEF Served
  <2>5. Furnished(f)' /\ Raised(f)'
    BY <1>1, <1>3, <2>2, <2>3 DEF Order, Furnished, Raised, Up, At, Late
  <2>6. launch'[f].at \in Late
    BY <1>3 DEF Late
  <2> QED BY <1>1, <1>3, <2>2, <2>4, <2>5, <2>6, LateOrder
<1>5. CASE ProxyReady(f)
  <2> DEFINE d == IF launch[f].proxy = "new" THEN [docker EXCEPT !.proxy = "up"] ELSE docker
  <2>1. /\ docker' = d /\ x \in {"done", "failed"} /\ launch[f].proxy \in {"found", "new"}
        /\ x = "done" <=> d.network /\ d.proxy # "none"
    <3>1. \/ /\ docker' = d /\ launch' = [launch EXCEPT ![f].proxy = "done"]
             /\ d.network /\ d.proxy # "none"
          \/ /\ docker' = d /\ launch' = [launch EXCEPT ![f].proxy = "failed"]
             /\ ~(d.network /\ d.proxy # "none")
      BY <1>5, NoFault DEF ProxyReady
    <3>2. launch[f].proxy \in {"found", "new"}
      BY <1>5 DEF ProxyReady
    <3> HIDE DEF d
    <3> QED BY <1>3, <3>1, <3>2, BoxOf DEF Launches, Flow
  <2>2. /\ docker'.box = docker.box /\ docker'.open = docker.open
        /\ docker'.adapter = docker.adapter /\ docker'.network = docker.network
        /\ docker'.proxy = IF launch[f].proxy = "new" THEN "up" ELSE docker.proxy
        /\ x = "done" <=> docker'.network /\ docker'.proxy # "none"
    BY <2>1, BoxOf DEF Docker
  <2>3. stop.at = "idle" /\ Up(i) => docker'.network /\ docker'.proxy = "up" /\ x = "done"
    BY <1>1, <2>1, <2>2 DEF Order, Furnished, At
  <2>4. Served'
    BY <1>1 DEF Served
  <2>5. Furnished(f)'
    BY <1>1, <1>3, <2>2, <2>3 DEF Furnished, Up, At, Late, Unhalted
  <2>6. Raised(f)'
    BY <1>1, <1>3, <2>2, <2>3 DEF Order, Raised, Raising, Up, At, Late
  <2>7. launch'[f].at \in Late
    BY <1>3 DEF Late
  <2> QED BY <1>1, <1>3, <2>2, <2>4, <2>5, <2>6, <2>7, LateOrder
<1> QED BY <1>4, <1>5

LEMMA OutfittedOrder ==
  ASSUME TypeOK, Safe, Kept, Untroubled, Order, NEW f \in Flows, Outfitted(f)
  PROVE  Order'
<1>1. /\ At(f, "outfit") /\ Unhalted /\ ~host.alive /\ launch[f].at \in Late
      /\ docker' = docker
  <2>1. At(f, "outfit") /\ Unhalted /\ Launching(f) /\ docker' = docker
    BY DEF Outfitted, Untorn, Unhalted, At, Launching, Early
  <2> QED BY <2>1, Lone DEF At, Late
<1>2. CASE Go(f, "net") /\ host' = host /\ launch[f].fit = "done" /\ launch[f].proxy = "done"
  <2>1. /\ launch'[f].at = "net" /\ launch'[f].box = launch[f].box
        /\ \A g \in Flows : g # f => launch'[g] = launch[g]
    BY <1>2, GoIs DEF Places
  <2>2. Served' /\ Furnished(f)' /\ Raised(f)'
    BY <1>1, <1>2, <2>1 DEF Order, Served, Furnished, Raised, Up, At, Late, Unhalted
  <2>3. launch'[f].at \in Late
    BY <2>1 DEF Late
  <2> QED BY <1>1, <1>2, <2>1, <2>2, <2>3, LateOrder
<1>3. CASE /\ Throw(f) /\ host' = Thrown(host, f)
           /\ "failed" \in {launch[f].fit, launch[f].proxy}
  <2>1. host.state = "started"
    BY <1>1, <1>3 DEF Order, Raised, At
  <2> QED BY <1>1, <1>3, <2>1, ThrownOrder
<1>4. launch[f].fit \in {"done", "failed"} /\ launch[f].proxy \in {"done", "failed"}
  BY BoxOf DEF Outfitted, Flow
<1> QED BY <1>2, <1>3, <1>4 DEF Outfitted

LEMMA SwitchOrder ==
  ASSUME TypeOK, Safe, Kept, Untroubled, Order, NEW f \in Flows, Switch(f)
  PROVE  Order'
<1> DEFINE i == launch[f].box
<1>1. At(f, "net") /\ Unhalted /\ ~host.alive /\ launch[f].at \in Late
  <2>1. At(f, "net") /\ Unhalted /\ Launching(f)
    BY DEF Switch, Untorn, Unhalted, At, Launching, Early
  <2> QED BY <2>1, Lone DEF At, Late
<1>2. CASE docker' = [docker EXCEPT !.open = @ \ {i}] /\ Go(f, "push") /\ host' = host
  <2>1. /\ launch'[f].at = "push" /\ launch'[f].box = i
        /\ \A g \in Flows : g # f => launch'[g] = launch[g]
    BY <1>2, GoIs DEF Places
  <2>2. /\ docker'.box = docker.box /\ docker'.adapter = docker.adapter
        /\ docker'.network = docker.network /\ docker'.proxy = docker.proxy
    BY <1>2, BoxOf DEF Docker
  <2>3. Served' /\ Furnished(f)' /\ Raised(f)'
    BY <1>1, <1>2, <2>1, <2>2 DEF Order, Served, Furnished, Raised, Up, At, Late, Unhalted
  <2>4. launch'[f].at \in Late
    BY <2>1 DEF Late
  <2> QED BY <1>1, <1>2, <2>1, <2>2, <2>3, <2>4, LateOrder
<1>3. CASE /\ Throw(f) /\ host' = Thrown(host, f) /\ docker' = docker
           /\ ~(i \in Existing /\ docker.network)
  <2>1. host.state # "started" => Up(i) /\ docker.network
    BY <1>1 DEF Order, Raised, Raising, Furnished, At
  <2>2. host.state = "started"
    BY <1>3, <2>1, BoxOf DEF Up, Existing
  <2> QED BY <1>1, <1>3, <2>2, ThrownOrder
<1> QED BY <1>2, <1>3 DEF Switch

LEMMA PushOrder ==
  ASSUME TypeOK, Safe, Kept, Untroubled, Order, NEW f \in Flows, PushScope(f)
  PROVE  Order'
<1>1. /\ At(f, "push") /\ Unhalted /\ ~host.alive /\ launch[f].at \in Late
      /\ Go(f, "connect") /\ docker' = [docker EXCEPT !.scope = TRUE] /\ host' = host
  <2>1. At(f, "push") /\ Unhalted /\ Launching(f)
    BY DEF PushScope, Untorn, Unhalted, At, Launching, Shut
  <2> QED BY <2>1, Lone DEF At, Late, PushScope
<1>2. /\ launch'[f].at = "connect" /\ launch'[f].box = launch[f].box
      /\ \A g \in Flows : g # f => launch'[g] = launch[g]
  BY <1>1, GoIs DEF Places
<1>3. /\ docker'.box = docker.box /\ docker'.adapter = docker.adapter /\ docker'.scope
      /\ docker'.network = docker.network /\ docker'.proxy = docker.proxy
  BY <1>1, BoxOf DEF Docker
<1>4. Served' /\ Furnished(f)' /\ Raised(f)'
  BY <1>1, <1>2, <1>3 DEF Order, Served, Furnished, Raised, Up, At, Late, Unhalted
<1>5. launch'[f].at \in Late
  BY <1>2 DEF Late
<1> QED BY <1>1, <1>2, <1>3, <1>4, <1>5, LateOrder

(* A start spawns its agent: its container is up and has the adapter.        *)
LEMMA ConnectOrder ==
  ASSUME TypeOK, Safe, Kept, Untroubled, Order, NEW f \in Flows, Connect(f)
  PROVE  Order'
<1> DEFINE i == launch[f].box
<1>1. /\ At(f, "connect") /\ Unhalted /\ ~host.alive /\ launch[f].at \in Late
      /\ docker' = docker /\ \A g \in Flows : ~At(g, "load")
  <2>1. At(f, "connect") /\ Unhalted /\ Launching(f) /\ docker' = docker
    BY DEF Connect, Untorn, Unhalted, At, Launching, Shut
  <2> QED BY <2>1, Lone DEF At, Late, Shut
<1>2. host.state # "started" => host.conn = 0 /\ Up(i) /\ i \in docker.adapter
  BY <1>1 DEF Order, Raised, Raising, At, Late
<1>3. CASE Throw(f) /\ host' = Thrown(host, f) /\ host.state = "started"
  BY <1>1, <1>3, ThrownOrder
<1>4. CASE /\ host' = host \/ host' = [host EXCEPT !.installed = @ \cup {i}]
           /\ Go(f, "init") \/ (Go(f, "load") /\ host.state = "started")
  <2>1. /\ host'.status = host.status /\ host'.box = host.box /\ host'.state = host.state
        /\ host'.conn = host.conn /\ ~host'.alive
    BY <1>1, <1>4, BoxOf DEF Host
  <2>2. /\ launch'[f].at \in {"init", "load"} /\ launch'[f].box = i
        /\ launch'[f].at = "load" => host.state = "started"
        /\ \A g \in Flows : g # f => launch'[g] = launch[g]
    BY <1>4, GoIs DEF Places
  <2>3. Served' /\ Furnished(f)' /\ Raised(f)'
    BY <1>1, <2>1, <2>2 DEF Order, Served, Furnished, Raised, Up, At, Late, Unhalted
  <2>4. launch'[f].at \in Late \cup {"load"}
    BY <2>2 DEF Late
  <2> QED BY <1>1, <2>1, <2>2, <2>3, <2>4, LateOrder
<1> QED BY <1>2, <1>3, <1>4 DEF Connect

(* The agent that comes to life is told of what is there, or of what the     *)
(* stop under way takes together with it.                                    *)
LEMMA InitializeOrder ==
  ASSUME TypeOK, Safe, Kept, Untroubled, Order, NEW f \in Flows, Initialize(f)
  PROVE  Order'
<1> DEFINE i == launch[f].box
<1>1. /\ At(f, "init") /\ Unhalted /\ launch[f].at \in Late /\ docker' = docker
  BY DEF Initialize, Untorn, Unhalted, At, Late
<1>2. CASE ~Up(i)
  <2>1. host.state = "started"
    BY <1>1, <1>2 DEF Order, Raised, At, Late
  <2> QED BY <1>1, <1>2, <2>1, ThrownOrder DEF Initialize
<1>3. CASE Up(i)
  <2>1. host' = [host EXCEPT !.conn = i, !.alive = TRUE] /\ Go(f, "load")
    BY <1>3 DEF Initialize, Untroubled
  <2>2. /\ host'.status = host.status /\ host'.box = host.box /\ host'.state = host.state
        /\ host'.conn = i /\ host'.alive
    BY <2>1, BoxOf DEF Host
  <2>3. /\ launch'[f].at = "load" /\ launch'[f].box = i
        /\ \A g \in Flows : g # f => launch'[g] = launch[g]
    BY <2>1, GoIs DEF Places
  <2>4. Served'
    BY <1>1, <1>3 DEF Order, Served, Furnished, At, Unhalted
  <2>5. Furnished(f)' /\ Raised(f)'
    BY <2>2, <2>3 DEF Furnished, Raised, At, Late
  <2> QED BY <1>1, <2>2, <2>3, <2>4, <2>5, LateOrder
<1> QED BY <1>2, <1>3

LEMMA LoadOrder ==
  ASSUME TypeOK, Safe, Kept, Untroubled, Order, NEW f \in Flows, Load(f)
  PROVE  Order'
<1>1. /\ At(f, "load") /\ Unhalted /\ Launching(f) /\ docker' = docker /\ Untouched
      /\ launch[f].at \in Late \cup {"load"}
  BY StayUntouched DEF Load, Untorn, Unhalted, At, Launching, Shut
<1>2. CASE ~(host.alive /\ host.conn = launch[f].box)
  <2>1. host.state = "started"
    BY <1>1, <1>2 DEF Order, Raised, At
  <2> QED BY <1>1, <1>2, <2>1, ThrownOrder DEF Load
<1>3. CASE host.alive /\ host.conn = launch[f].box
  <2>1. /\ launch' = Settled(f)
        /\ host' = [host EXCEPT !.attached = TRUE, !.state = "started",
                                !.attaching = IF @ = f THEN "none" ELSE @]
    BY <1>3 DEF Load
  <2>2. /\ host'.status = host.status /\ host'.box = host.box /\ host'.state = "started"
        /\ host'.alive
    BY <1>3, <2>1, BoxOf DEF Host
  <2>3. \A g \in Flows : (launch'[g] = launch[g] /\ g # f) \/ launch'[g].at \in {"turn", "idle"}
    BY <2>1 DEF Settled, Sharing, Asleep
  <2>4. \A g \in Flows : launch[g].at \notin Working \cup {"setup"}
    BY <1>1, Lone DEF Working, Early, At
  <2>5. Halting' /\ Served' /\ Raising'
    BY <1>1, <1>3, <2>2 DEF Order, Halting, Served, Raising, Unhalted, Untouched
  <2>6. Named'
    BY <1>1, <2>2, <2>4 DEF Order, Named, Unhalted, Untouched, At
  <2>7. Placed(f)' /\ Furnished(f)' /\ Raised(f)'
    BY <2>2, <2>3 DEF Placed, Furnished, Raised, At, Late, Working
  <2>8. \A g \in Flows : g # f => launch'[g] = launch[g] \/ launch'[g].at \notin Early \cup Shut
    BY <2>3 DEF Early, Shut
  <2> QED BY <1>1, <2>5, <2>6, <2>7, <2>8, Assembled
<1> QED BY <1>2, <1>3

LEMMA LaunchOrder ==
  ASSUME TypeOK, Safe, Kept, Untroubled, Untroubled', Order, NEW f \in Flows, LaunchStep(f)
  PROVE  Order'
BY ResolveOrder, ProbeOrder, SweepOrder, CloneOrder, RestartOrder, CreateOrder, SetupOrder,
   EnsureUpOrder, InstallOrder, ProxyOrder, OutfittedOrder, SwitchOrder, PushOrder,
   ConnectOrder, InitializeOrder, LoadOrder
   DEF LaunchStep

(* The other steps: no launch begins its ensure, goes on or ends.            *)
LEMMA WakeOrder ==
  ASSUME TypeOK, Safe, Kept, Untroubled, Order, NEW f \in Flows, (Run /\ f = "prompt") \/ Attach(f)
  PROVE  Order'
<1>1. /\ docker' = docker /\ Untouched /\ Unhalted /\ host \in Host /\ launch \in Launches
      /\ rm.at = "idle"
  BY BoxOf, StayUntouched DEF Run, Attach, Untorn, Unhalted, Unhurried, Untroubled
<1>2. /\ host'.status = host.status /\ host'.box = host.box /\ host'.conn = host.conn
      /\ host'.alive = host.alive
      /\ Run => host.state = "draft" /\ host'.state = "starting"
      /\ ~Run => host.state = "started" /\ host'.state = "started"
  <2>1. CASE Run
    <3>1. host' = [host EXCEPT !.state = "starting", !.timer = FALSE] /\ host.state = "draft"
      BY <2>1 DEF Run
    <3> QED BY <1>1, <2>1, <3>1 DEF Host
  <2>2. CASE ~Run
    <3>1. /\ host.state = "started"
          /\ \/ host' = [host EXCEPT !.timer = FALSE]
             \/ host' = [host EXCEPT !.attaching = IF @ = "none" THEN f ELSE @,
                                     !.timer = @ /\ f # "prompt"]
      BY <2>2 DEF Attach
    <3> QED BY <1>1, <2>2, <3>1 DEF Host
  <2> QED BY <2>1, <2>2
<1>3. PICK p \in {"resolve", "turn", "wait"} : Go(f, p) /\ (Run => p = "resolve")
  <2>1. Run => ~Attach(f)
    BY DEF Run, Attach
  <2> QED BY <2>1 DEF Run, Attach
<1>4. launch'[f].at = p /\ \A g \in Flows : g # f => launch'[g] = launch[g]
  BY <1>3, GoIs DEF Places
<1>5. launch[f].at = "idle" /\ (Run => f = "prompt")
  BY DEF Run, Attach, At
<1>6. Halting' /\ Served'
  BY <1>1, <1>2 DEF Order, Halting, Served, Unhalted, Untouched
<1>7. Named'
  <2>1. \A g \in Flows : launch[g].at \in Working \cup {"setup"} => launch'[g] = launch[g]
    BY <1>4, <1>5 DEF Working
  <2>2. Existing' \subseteq {host'.box} \/ \E g \in Flows : At(g, "setup")'
    BY <1>1, <1>2, <2>1 DEF Order, Named, At, Untouched
  <2>3. host'.status \in {"building", "post"} => \E g \in Flows : launch'[g].at \in Working
    BY <1>2, <2>1 DEF Order, Named
  <2> QED BY <1>1, <1>2, <2>2, <2>3 DEF Order, Named, Unhalted, Untouched
<1>8. CASE ~Run
  <2>1. Raising'
    BY <1>2, <1>8 DEF Raising
  <2>2. \A g \in Flows : Placed(g)' /\ Furnished(g)' /\ Raised(g)'
    BY <1>1, <1>2, <1>4, <1>8 DEF Order, Placed, Furnished, Raised, At, Late, Working,
                                  Unhalted, Untouched
  <2> QED BY <1>6, <1>7, <2>1, <2>2 DEF Order
<1>9. CASE Run
  <2>1. /\ stop.at = "idle" /\ host.status = "none" /\ Existing = {}
        /\ \A g \in Flows : launch[g].at \notin Early \cup Shut
    BY <1>2, <1>9, Undrafted DEF Order, Raising, Launching
  <2>2. host.conn = 0 /\ \A g \in Flows : g # f => launch'[g].at \notin Early \cup Shut
    BY <1>2, <1>4, <1>9, <2>1 DEF Order, Raising, At, Shut
  <2>3. Raising'
    BY <1>1, <1>2, <1>3, <1>4, <1>5, <1>9, <2>1, <2>2
       DEF Raising, Launching, Early, Unhalted, Untouched
  <2>4. Placed(f)' /\ Furnished(f)' /\ Raised(f)'
    BY <1>2, <1>3, <1>4, <1>9, <2>1 DEF Placed, Furnished, Raised, At, Late, Working
  <2>5. \A g \in Flows : g # f => Placed(g)' /\ Furnished(g)' /\ Raised(g)'
    BY <2>2 DEF Placed, Furnished, Raised, Early, Shut, Late, Working, At
  <2> QED BY <1>6, <1>7, <2>3, <2>4, <2>5 DEF Order
<1> QED BY <1>8, <1>9

LEMMA TurnEndsOrder ==
  ASSUME TypeOK, Safe, Kept, Untroubled, Order, TurnEnds
  PROVE  Order'
<1>1. /\ docker' = docker /\ Untouched /\ Unhalted /\ host \in Host /\ launch \in Launches
      /\ launch' = [launch EXCEPT !["prompt"] = Asleep] /\ launch["prompt"].at = "turn"
      /\ host' = [host EXCEPT !.timer = host.session]
  BY TypeIs, StayUntouched DEF TurnEnds, Untorn, Unhalted, At
<1>2. /\ host'.status = host.status /\ host'.box = host.box /\ host'.conn = host.conn
      /\ host'.alive = host.alive /\ host'.state = host.state
  BY <1>1 DEF Host
<1>3. \A g \in Flows : \/ launch'[g] = launch[g]
                       \/ g = "prompt" /\ launch'[g].at = "idle"
  BY <1>1 DEF Launches, Asleep
<1>4. Halting' /\ Served'
  BY <1>1, <1>2 DEF Order, Halting, Served, Unhalted, Untouched
<1>5. Named'
  <2>1. \A g \in Flows : launch[g].at \in Working \cup {"setup"} => launch'[g] = launch[g]
    BY <1>1, <1>3 DEF Working
  <2>2. Existing' \subseteq {host'.box} \/ \E g \in Flows : At(g, "setup")'
    BY <1>1, <1>2, <2>1 DEF Order, Named, At, Untouched
  <2>3. host'.status \in {"building", "post"} => \E g \in Flows : launch'[g].at \in Working
    BY <1>2, <2>1 DEF Order, Named
  <2> QED BY <1>1, <1>2, <2>2, <2>3 DEF Order, Named, Unhalted, Untouched
<1>6. Raising'
  <2>1. host.state # "starting"
    BY <1>1 DEF Order, Raising, Launching, Early, Shut
  <2>2. \A g \in Flows : At(g, "load") => At(g, "load")'
    BY <1>1, <1>3 DEF At
  <2> QED BY <1>1, <1>2, <2>1, <2>2 DEF Order, Raising, Unhalted, Untouched
<1>7. \A g \in Flows : Placed(g)' /\ Furnished(g)' /\ Raised(g)'
  <2> SUFFICES ASSUME NEW g \in Flows
               PROVE  Placed(g)' /\ Furnished(g)' /\ Raised(g)'
    OBVIOUS
  <2>1. CASE launch'[g] = launch[g]
    BY <1>1, <1>2, <2>1 DEF Order, Placed, Furnished, Raised, At, Unhalted, Untouched
  <2>2. CASE launch'[g].at = "idle"
    BY <2>2 DEF Placed, Furnished, Raised, At, Late, Working
  <2> QED BY <1>3, <2>1, <2>2
<1> QED BY <1>4, <1>5, <1>6, <1>7 DEF Order

(* An agent that exits was dead before; a start's is not.                    *)
LEMMA AgentExitsOrder ==
  ASSUME TypeOK, Safe, Kept, Untroubled, Order, AgentExits
  PROVE  Order'
<1>1. /\ docker' = docker /\ Untouched /\ Unhalted /\ host \in Host /\ launch' = launch
      /\ ~host.alive
  BY TypeIs, StayUntouched DEF AgentExits, Untorn, Unhalted
<1>2. /\ host'.status = host.status /\ host'.box = host.box /\ host'.conn = 0
      /\ host'.alive = host.alive /\ host'.state = host.state
  <2>1. PICK t : host' = [host EXCEPT !.conn = 0, !.attached = FALSE, !.timer = t]
    BY DEF AgentExits
  <2> QED BY <1>1, <2>1 DEF Host
<1>3. Halting' /\ Served' /\ Named' /\ Raising'
  BY <1>1, <1>2 DEF Order, Halting, Served, Named, Raising, Launching, At, Unhalted, Untouched
<1>4. \A g \in Flows : Placed(g)' /\ Furnished(g)'
  BY <1>1, <1>2 DEF Order, Placed, Furnished, At, Unhalted, Untouched
<1>5. \A g \in Flows : Raised(g)'
  BY <1>1, <1>2 DEF Order, Raised, At, Untouched
<1> QED BY <1>3, <1>4, <1>5 DEF Order

(* A stop begins only where the record says a container runs, and with no    *)
(* launch setting one up.                                                    *)
LEMMA StopBeginsOrder ==
  ASSUME TypeOK, Safe, Kept, Untroubled, Order, IdleTimer \/ StopByHand
  PROVE  Order'
<1>1. /\ docker' = docker /\ Untouched /\ rm' = rm /\ host \in Host /\ launch' = launch
      /\ stop.at = "idle"
  BY TypeIs, StayUntouched DEF IdleTimer, StopByHand
<1>2. /\ host'.status = host.status /\ host'.box = host.box /\ host'.conn = host.conn
      /\ (host'.alive => host.alive) /\ host'.state = host.state
  <2>1. CASE host' = [host EXCEPT !.timer = FALSE]
    BY <1>1, <2>1 DEF Host
  <2>2. CASE host' = Detached(host)
    BY <1>1, <2>2, DetachedType
  <2> QED BY <2>1, <2>2 DEF IdleTimer, StopByHand
<1>3. CASE stop' = stop /\ host' = [host EXCEPT !.timer = FALSE]
  <2>1. Halting' /\ Served' /\ Named'
    BY <1>1, <1>2, <1>3 DEF Order, Halting, Served, Named, At, Untouched
  <2>2. Raising'
    BY <1>1, <1>2, <1>3 DEF Order, Raising, Launching, At, Untouched
  <2>3. \A g \in Flows : Placed(g)' /\ Furnished(g)' /\ Raised(g)'
    <3>1. host'.alive = host.alive
      BY <1>1, <1>3 DEF Host
    <3> QED BY <1>1, <1>2, <1>3, <3>1 DEF Order, Placed, Furnished, Raised, At, Untouched
  <2> QED BY <2>1, <2>2, <2>3 DEF Order
<1>4. CASE /\ stop' = [at |-> "revoke", box |-> host.box, full |-> host.full]
           /\ host' = Detached(host)
  <2>1. host.status = "running" /\ host.state = "started"
    <3>1. CASE IdleTimer
      <4>1. host.status = "running" /\ host.state # "starting"
        BY <1>1, <1>4, <3>1 DEF IdleTimer, Idle
      <4> QED BY <1>1, <4>1 DEF Order, Raising, Host, States
    <3>2. CASE StopByHand
      <4>1. /\ host.status \notin {"none", "stopped", "error"}
            /\ \A g \in Flows : launch[g].at \in {"idle", "turn"}
        BY <3>2 DEF StopByHand, Untroubled
      <4>2. host.status \notin {"building", "post"}
        BY <4>1 DEF Order, Named, Working
      <4>3. host.state # "starting"
        <5>1. "prompt" \in Flows
          BY DEF Flows
        <5> QED BY <4>1, <5>1 DEF Order, Raising, Launching, Early, Shut
      <4>4. host.status = "running"
        BY <1>1, <4>1, <4>2 DEF Host, Status
      <4> QED BY <1>1, <4>3, <4>4 DEF Order, Raising, Host, States
    <3> QED BY <3>1, <3>2
  <2>2. host.box \in Existing /\ rm.at = "idle"
    BY <2>1 DEF Order, Named
  <2>3. stop'.at = "revoke" /\ stop'.box = host.box
    BY <1>4
  <2>4. Halting' /\ Served' /\ Named' /\ Raising'
    BY <1>1, <1>2, <2>1, <2>2, <2>3 DEF Order, Halting, Served, Named, Raising, At, Untouched
  <2>5. \A g \in Flows : Placed(g)' /\ Furnished(g)' /\ Raised(g)'
    BY <1>1, <1>2, <2>1, <2>3 DEF Order, Placed, Furnished, Raised, At, Working, Untouched
  <2> QED BY <2>4, <2>5 DEF Order
<1> QED BY <1>3, <1>4 DEF IdleTimer, StopByHand

LEMMA StopGoesOnOrder ==
  ASSUME TypeOK, Safe, Kept, Untroubled, Order, StopRevokes \/ StopProxy
  PROVE  Order'
<1>1. /\ host \in Host /\ docker \in Docker /\ stop \in StopRec /\ rm' = rm /\ launch' = launch
      /\ stop.at # "idle" /\ stop.box \in Existing /\ 0 \notin Existing
  BY TypeIs DEF StopRevokes, StopProxy, Order, Halting, Existing, Boxes
<1>2. stop'.at # "idle" /\ stop'.box = stop.box
  <2>1. PICK p \in {"proxy", "docker"} : stop' = [stop EXCEPT !.at = p]
    BY <1>1 DEF StopRevokes, StopProxy
  <2> QED BY <1>1, <2>1 DEF StopRec
<1>3. docker'.box = docker.box
  BY <1>1 DEF StopRevokes, StopProxy, Docker
<1>4. Existing' = Existing /\ \A i : Up(i)' <=> Up(i)
  BY <1>3 DEF Existing, Up
<1>5. /\ host'.status = host.status /\ host'.box = host.box /\ host'.state = host.state
  BY <1>1, ForgottenType DEF StopRevokes, StopProxy
<1>6. host.state = "started"
  BY <1>1 DEF Order, Raising
<1>7. Halting' /\ Served' /\ Named' /\ Raising'
  BY <1>1, <1>2, <1>4, <1>5, <1>6 DEF Order, Halting, Served, Named, Raising, At
<1>8. \A g \in Flows : Placed(g)' /\ Furnished(g)' /\ Raised(g)'
  BY <1>1, <1>2, <1>4, <1>5, <1>6 DEF Order, Placed, Furnished, Raised, At
<1> QED BY <1>7, <1>8 DEF Order

(* It takes the only container there is, and any agent with it.              *)
LEMMA StopDockerOrder ==
  ASSUME TypeOK, Safe, Kept, Untroubled, Untroubled', Order, StopDocker
  PROVE  Order'
<1> DEFINE b == stop.box
<1>1. /\ host \in Host /\ docker \in Docker /\ stop \in StopRec /\ rm' = rm /\ launch' = launch
      /\ stop.at # "idle" /\ b \in Existing /\ Existing \subseteq {b} /\ rm.at = "idle"
  BY TypeIs DEF StopDocker, Order, Halting, Kept, Single
<1>2. /\ stop' = [stop EXCEPT !.at = "idle"] /\ docker' = [docker EXCEPT !.box[b] = "down"]
      /\ host' = Patched(Killed(host, {b}), "stopped", b, stop.full)
  BY <1>1, NoFault DEF StopDocker
<1>3. /\ host'.status = "stopped" /\ host'.box = b /\ host'.state = host.state
      /\ host'.alive = (host.alive /\ host.conn # b)
  <2> DEFINE k == Killed(host, {b})
  <2>1. /\ k \in Host /\ k.session /\ k.state = host.state
        /\ k.alive = (host.alive /\ host.conn # b)
    BY <1>1, KilledType DEF Untroubled
  <2>2. b \in 0..MaxBoxes /\ stop.full \in BOOLEAN /\ "stopped" \in Status
    BY <1>1 DEF StopRec, Status
  <2>3. host' = Patched(k, "stopped", b, stop.full)
    BY <1>2
  <2> HIDE DEF k, b
  <2> QED BY <2>1, <2>2, <2>3, PatchedType
<1>4. /\ \A i \in Boxes : docker'.box[i] = IF i = b THEN "down" ELSE docker.box[i]
      /\ stop'.at = "idle"
  BY <1>1, <1>2 DEF Docker, StopRec
<1>5. Existing' = Existing
  BY <1>1, <1>4 DEF Existing
<1>6. \A i \in 0..MaxBoxes : ~Up(i)'
  <2> SUFFICES ASSUME NEW i \in 0..MaxBoxes, i # 0, docker'.box[i] = "up"
               PROVE  FALSE
    BY DEF Up
  <2>1. i \in Boxes
    BY LifeAssumption DEF Boxes
  <2> QED BY <1>1, <1>4, <2>1 DEF Existing
<1>7. ~host'.alive
  <2> SUFFICES ASSUME host.alive PROVE host.conn = b
    BY <1>3
  <2>1. Up(host.conn) /\ host.conn \in 0..MaxBoxes
    BY <1>1 DEF Kept, Live, Host, Untroubled
  <2>2. host.conn \in Existing
    BY <2>1, LifeAssumption DEF Up, Existing, Boxes
  <2> QED BY <1>1, <2>2
<1>8. host.state = "started" /\ host.box = b /\ \A g \in Flows : launch[g].at \notin {"create", "setup", "script"}
  <2>1. \A g \in Flows : launch[g].at \notin {"create", "setup", "script"}
    BY <1>1 DEF Order, Placed
  <2>2. Existing \subseteq {host.box}
    BY <2>1 DEF Order, Named, At
  <2> QED BY <1>1, <2>1, <2>2 DEF Order, Raising
<1>9. Halting' /\ Served' /\ Named' /\ Raising'
  BY <1>1, <1>3, <1>4, <1>5, <1>7, <1>8 DEF Halting, Served, Named, Raising
<1>10. \A g \in Flows : launch[g].box \in 0..MaxBoxes
  BY BoxOf
<1>11. \A g \in Flows : Placed(g)'
  BY <1>1, <1>3, <1>5, <1>8 DEF Order, Placed, At, Working
<1>12. \A g \in Flows : Furnished(g)' /\ Raised(g)'
  <2>1. \A g \in Flows : ~Up(launch[g].box)'
    BY <1>1, <1>6, <1>10 DEF Up
  <2> QED BY <1>3, <1>8, <2>1 DEF Furnished, Raised
<1> HIDE DEF b
<1> QED BY <1>9, <1>11, <1>12 DEF Order

(* A removal begins where the record says the container is stopped: with no  *)
(* stop under way, no launch that needs it, and after the first start.       *)
LEMMA RemovalBeginsOrder ==
  ASSUME TypeOK, Safe, Kept, Untroubled, Order, Edit \/ Collect
  PROVE  Order'
<1>1. Collect
  BY DEF Edit, Order, Raising
<1>2. /\ host \in Host /\ Untouched /\ stop' = stop /\ launch' = launch
      /\ host' = Detached(host) /\ host.status = "stopped"
  BY <1>1, TypeIs, StayUntouched DEF Collect
<1>3. /\ host'.status = host.status /\ host'.box = host.box /\ host'.state = host.state
      /\ ~host'.alive
  BY <1>2, DetachedType
<1>4. stop.at = "idle" /\ host.state = "started"
  BY <1>2 DEF Order, Halting, Raising
<1>5. \A g \in Flows : launch[g].at \notin Working
  BY <1>1 DEF Collect, Ensuring, Working
<1>6. Halting' /\ Served' /\ Named' /\ Raising'
  BY <1>2, <1>3, <1>4 DEF Order, Halting, Served, Named, Raising, At, Untouched
<1>7. \A g \in Flows : Placed(g)' /\ Furnished(g)' /\ Raised(g)'
  BY <1>2, <1>3, <1>4 DEF Order, Placed, Furnished, Raised, At, Untouched
<1> QED BY <1>6, <1>7 DEF Order

(* Behind it there is no stop, no first start, no record of a running        *)
(* container, and no launch that sets one up.                                *)
LEMMA RemovingIs ==
  ASSUME TypeOK, Kept, Untroubled, Order, rm.at # "idle"
  PROVE  /\ stop.at = "idle" /\ host.state = "started" /\ host.status # "running"
         /\ \A g \in Flows : launch[g].at \notin {"probe", "sweep"} \cup Working
         /\ rm.at \in {"proxy", "record"} =>
              /\ Existing = {} /\ ~host.alive
              /\ \A g \in Flows : ~Up(launch[g].box)
<1>1. stop.at = "idle" /\ host.state = "started" /\ host.status # "running"
  BY DEF Order, Halting, Raising, Named
<1>2. \A g \in Flows : launch[g].at \notin {"probe", "sweep"} \cup Working
  BY DEF Kept, Unraced, Untroubled, Bare, Ensuring, Working
<1>3. ASSUME rm.at \in {"proxy", "record"}
      PROVE  /\ Existing = {} /\ ~host.alive
             /\ \A g \in Flows : ~Up(launch[g].box)
  <2>1. Existing = {}
    BY <1>3 DEF Kept, Emptied, Untroubled
  <2>2. \A i \in 0..MaxBoxes : ~Up(i)
    BY <2>1, LifeAssumption DEF Existing, Up, Boxes
  <2>3. ~host.alive
    BY <2>2, TypeIs DEF Kept, Live, Untroubled, Host
  <2> QED BY <2>1, <2>2, <2>3, BoxOf
<1> QED BY <1>1, <1>2, <1>3

LEMMA RemovalGoesOnOrder ==
  ASSUME TypeOK, Safe, Kept, Untroubled, Order, RemoveStep
  PROVE  Order'
<1>1. /\ host \in Host /\ docker \in Docker /\ rm.at # "idle" /\ stop' = stop
      /\ launch' = launch
  BY TypeIs DEF RemoveStep, RemoveSettles, RemoveLists, RemoveBoxes, RemoveProxy, RemoveRecord
<1>2. /\ stop.at = "idle" /\ host.state = "started" /\ host.status # "running"
      /\ \A g \in Flows : launch[g].at \notin {"probe", "sweep"} \cup Working
  BY <1>1, RemovingIs
<1>3. CASE RemoveSettles \/ RemoveLists
  <2>1. Untouched /\ host' = host
    BY <1>3, StayUntouched DEF RemoveSettles, RemoveLists
  <2>2. Halting' /\ Served' /\ Named' /\ Raising'
    BY <1>1, <1>2, <2>1 DEF Order, Halting, Served, Named, Raising, At, Untouched
  <2>3. \A g \in Flows : Placed(g)' /\ Furnished(g)' /\ Raised(g)'
    BY <1>1, <1>2, <2>1 DEF Order, Placed, Furnished, Raised, At, Untouched
  <2> QED BY <2>2, <2>3 DEF Order
<1>4. CASE RemoveBoxes
  <2> DEFINE k == Killed(host, rm.ids)
  <2>1. docker' = Removed(docker, rm.ids) /\ host' = Forgotten(k, rm.ids)
    BY <1>4 DEF RemoveBoxes
  <2>2. /\ k \in Host /\ k.status = host.status /\ k.box = host.box
        /\ k.state = host.state /\ (k.alive => host.alive)
    BY <1>1, KilledType
  <2> HIDE DEF k
  <2>3. /\ host'.status = host.status /\ host'.box = host.box
        /\ host'.state = host.state /\ (host'.alive => host.alive)
    BY <2>1, <2>2, ForgottenType
  <2>4. \A i \in Boxes : docker'.box[i] = IF i \in rm.ids /\ docker.box[i] # "none"
                                            THEN "gone" ELSE docker.box[i]
    BY <1>1, <2>1, RemovedType
  <2>5. Existing' \subseteq Existing
    BY <2>4 DEF Existing
  <2>6. \A g \in Flows : Up(launch[g].box)' => Up(launch[g].box)
    <3>1. \A g \in Flows : launch[g].box \in 0..MaxBoxes
      BY BoxOf
    <3> QED BY <1>1, <2>4, <3>1, LifeAssumption DEF Boxes, Up
  <2>7. /\ docker'.network = docker.network /\ docker'.proxy = docker.proxy
        /\ docker'.scope = docker.scope
    BY <1>1, <2>1 DEF Removed, Docker
  <2>8. Halting' /\ Served' /\ Named' /\ Raising'
    BY <1>1, <1>2, <2>3, <2>5, <2>7 DEF Order, Halting, Served, Named, Raising, At
  <2>9. \A g \in Flows : Placed(g)' /\ Raised(g)'
    BY <1>1, <1>2, <2>3 DEF Placed, Raised, At, Working
  <2>10. \A g \in Flows : Furnished(g)'
    BY <1>1, <2>6, <2>7 DEF Order, Furnished
  <2> QED BY <2>8, <2>9, <2>10 DEF Order
<1>5. CASE RemoveProxy \/ RemoveRecord
  <2>1. /\ Existing = {} /\ ~host.alive /\ \A g \in Flows : ~Up(launch[g].box)
    BY <1>1, <1>5, RemovingIs DEF RemoveProxy, RemoveRecord
  <2>2. docker'.box = docker.box
    BY <1>1, <1>5 DEF RemoveProxy, RemoveRecord, Docker
  <2>3. Existing' = {} /\ \A g \in Flows : ~Up(launch[g].box)'
    BY <1>1, <2>1, <2>2 DEF Existing, Up
  <2>4. "none" \in Status /\ 0 \in 0..MaxBoxes
    BY LifeAssumption DEF Status
  <2>5. /\ host'.state = host.state /\ host'.alive = host.alive
        /\ \/ host'.status = host.status /\ host'.box = host.box
           \/ host'.status = "none" /\ host'.box = 0
    <3>1. CASE RemoveProxy
      BY <3>1 DEF RemoveProxy
    <3>2. CASE RemoveRecord
      <4>1. host' = Patched(host, "none", 0, FALSE)
        BY <3>2 DEF RemoveRecord
      <4> QED BY <1>1, <2>4, <4>1, PatchedType DEF Untroubled
    <3> QED BY <1>5, <3>1, <3>2
  <2>6. Halting' /\ Served' /\ Named' /\ Raising'
    BY <1>1, <1>2, <2>1, <2>3, <2>5 DEF Order, Halting, Served, Named, Raising, At
  <2>7. \A g \in Flows : Placed(g)' /\ Furnished(g)' /\ Raised(g)'
    BY <1>1, <1>2, <2>3, <2>5 DEF Placed, Furnished, Raised, At, Working
  <2> QED BY <2>6, <2>7 DEF Order
<1> QED BY <1>3, <1>4, <1>5 DEF RemoveStep

(* What is done to the process's state keeps whether the session is there.   *)
Same(h) == "session" \in DOMAIN h /\ h.session = host.session

LEMMA SameStays ==
  ASSUME NEW h, Same(h)
  PROVE  /\ \A st, b, fu : Same(Patched(h, st, b, fu))
         /\ \A ids : Same(Forgotten(h, ids)) /\ Same(Killed(h, ids))
         /\ \A f : Same(Thrown(h, f))
         /\ Same(Detached(h))
<1>1. \A st, b, fu : Same(Patched(h, st, b, fu))
  BY DEF Same, Patched
<1>2. \A ids : Same(Forgotten(h, ids)) /\ Same(Killed(h, ids))
  BY DEF Same, Forgotten, Killed
<1>3. ASSUME NEW f PROVE Same(Thrown(h, f))
  <2> DEFINE st == IF h.state = "starting" THEN "draft" ELSE h.state
             at == IF h.attaching = f THEN "none" ELSE h.attaching
             ti == h.timer \/ (h.session /\ "prompt" \in Sharing(f))
  <2>1. Thrown(h, f) = [h EXCEPT !.state = st, !.attaching = at, !.timer = ti]
    BY DEF Thrown
  <2> HIDE DEF st, at, ti
  <2> QED BY <2>1 DEF Same
<1>4. Same(Detached(h))
  BY DEF Same, Detached
<1> QED BY <1>1, <1>2, <1>3, <1>4

LEMMA FailsSame ==
  ASSUME Same(host), NEW f \in Flows, EnsureFails(f)
  PROVE  Same(host')
<1>1. \E b : host' = Thrown(Patched(host, "error", b, host.full), f)
  BY DEF EnsureFails
<1> QED BY <1>1, SameStays

LEMMA LaunchSame ==
  ASSUME Same(host), NEW f \in Flows, LaunchStep(f)
  PROVE  Same(host')
<1>1. CASE Resolve(f) \/ Probe(f) \/ Outfitted(f) \/ Switch(f) \/ PushScope(f) \/ Connect(f)
           \/ ProxyLook(f) \/ ProxyReady(f)
  <2>1. \/ host' = host \/ host' = Thrown(host, f)
        \/ \E ids : host' = [host EXCEPT !.installed = ids]
    <3>1. CASE Resolve(f) \/ Probe(f)
      BY <3>1 DEF Resolve, Probe
    <3>2. CASE Outfitted(f) \/ Switch(f)
      BY <3>2 DEF Outfitted, Switch
    <3>3. CASE PushScope(f) \/ Connect(f)
      BY <3>3 DEF PushScope, Connect
    <3>4. CASE ProxyLook(f) \/ ProxyReady(f)
      BY <3>4 DEF ProxyLook, ProxyReady
    <3> QED BY <1>1, <3>1, <3>2, <3>3, <3>4
  <2>2. \A ids : Same([host EXCEPT !.installed = ids])
    BY DEF Same
  <2> QED BY <2>1, <2>2, SameStays
<1>2. CASE Sweep(f)
  <2>1. \E ids, jds, b, fu :
          host' = Patched(Forgotten(Killed(host, ids), jds), "building", b, fu)
    BY <1>2 DEF Sweep
  <2> QED BY <2>1, SameStays
<1>3. CASE Clone(f) \/ Restart(f) \/ Create(f) \/ Setup(f) \/ Script(f)
  <2>1. \/ host' = host \/ EnsureFails(f)
        \/ \E st, b, fu : host' = Patched(host, st, b, fu)
    BY <1>3 DEF Clone, Restart, Create, Setup, Script
  <2> QED BY <2>1, SameStays, FailsSame
<1>4. CASE EnsureUp(f)
  <2>1. \/ \E st, b, fu : host' = Patched(host, st, b, fu)
        \/ \E ids : host' = Thrown(Forgotten(host, ids), f)
    BY <1>4 DEF EnsureUp
  <2> QED BY <2>1, SameStays
<1>5. CASE Install(f)
  <2>1. host' = host \/ host' = [host EXCEPT !.installed = @ \cup {launch[f].box}]
    BY <1>5 DEF Install
  <2> QED BY <2>1 DEF Same
<1>6. CASE Initialize(f)
  <2>1. \/ host' = [host EXCEPT !.conn = launch[f].box, !.alive = TRUE]
        \/ host' = Thrown(host, f)
    BY <1>6 DEF Initialize
  <2>2. Same([host EXCEPT !.conn = launch[f].box, !.alive = TRUE])
    BY DEF Same
  <2> QED BY <2>1, <2>2, SameStays
<1>7. CASE Load(f)
  <2>1. \/ \E at : host' = [host EXCEPT !.attached = TRUE, !.state = "started", !.attaching = at]
        \/ host' = Thrown(host, f)
    BY <1>7 DEF Load
  <2>2. \A at : Same([host EXCEPT !.attached = TRUE, !.state = "started", !.attaching = at])
    BY DEF Same
  <2> QED BY <2>1, <2>2, SameStays
<1> QED BY <1>1, <1>2, <1>3, <1>4, <1>5, <1>6, <1>7 DEF LaunchStep

(* Trouble does not go away: what is untroubled has always been so. *)
LEMMA TroubleStays ==
  ASSUME TypeOK, [Next]_vars, Untroubled'
  PROVE  Untroubled /\ ~Crash /\ ~Delete
<1>1. host \in Host /\ faults \in Nat /\ Same(host)
  BY TypeIs, LifeAssumption DEF Host, Same
<1>2. faults' = 0 /\ host'.session /\ ~Overlaps
  BY DEF Untroubled
<1>3. Works \/ Fails
  BY DEF Next, vars, UserStep, Run, Attach, StopByHand, Edit, Delete, StopStep, StopRevokes,
         StopProxy, StopDocker, RemoveStep, RemoveSettles, RemoveLists, RemoveBoxes,
         RemoveProxy, RemoveRecord, TurnEnds, AgentExits, IdleTimer, Collect, Persist, Crash,
         LaunchStep, Resolve, Probe, Sweep, Clone, Restart, Create, Setup, Script, EnsureUp,
         Install, ProxyLook, ProxyReady, Outfitted, Switch, PushScope, Connect, Initialize,
         Load, Works
<1>4. faults = 0 /\ ~Fails
  BY <1>1, <1>2, <1>3 DEF Works, Fails
<1>5. ~Crash
  BY <1>4 DEF Crash
<1>6. ~Delete
  <2> SUFFICES ASSUME Delete PROVE ~host'.session
    BY <1>2
  <2> DEFINE h == Detached(host)
  <2>1. Same(h) /\ host' = [h EXCEPT !.session = FALSE, !.status = "none", !.box = 0,
                                    !.full = FALSE]
    BY <1>1, SameStays DEF Delete
  <2> HIDE DEF h
  <2> QED BY <2>1 DEF Same
<1>7. Same(host')
  <2>1. CASE \E f \in Flows : LaunchStep(f)
    BY <1>1, <2>1, LaunchSame
  <2>2. CASE Run \/ (\E f \in Flows : Attach(f)) \/ TurnEnds \/ AgentExits
    <3>1. CASE Run
      BY <1>1, <3>1 DEF Run, Same
    <3>2. CASE \E f \in Flows : Attach(f)
      <4>1. \/ \E t : host' = [host EXCEPT !.timer = t]
            \/ \E at, t : host' = [host EXCEPT !.attaching = at, !.timer = t]
        BY <3>2 DEF Attach
      <4> QED BY <1>1, <4>1 DEF Same
    <3>3. CASE TurnEnds
      BY <1>1, <3>3 DEF TurnEnds, Same
    <3>4. CASE AgentExits
      <4>1. \E t : host' = [host EXCEPT !.conn = 0, !.attached = FALSE, !.timer = t]
        BY <3>4 DEF AgentExits
      <4> QED BY <1>1, <4>1 DEF Same
    <3> QED BY <2>2, <3>1, <3>2, <3>3, <3>4
  <2>3. CASE IdleTimer \/ StopByHand \/ StopStep \/ Edit \/ Collect
    <3>1. \/ host' = host \/ host' = Detached(host) \/ host' = [host EXCEPT !.timer = FALSE]
          \/ \E ids : host' = Forgotten(host, ids)
          \/ \E ids, b, fu : host' = Patched(Killed(host, ids), "stopped", b, fu)
      BY <2>3 DEF IdleTimer, StopByHand, StopStep, StopRevokes, StopProxy, StopDocker, Edit,
                  Collect
    <3>2. Same([host EXCEPT !.timer = FALSE])
      BY <1>1 DEF Same
    <3> QED BY <1>1, <3>1, <3>2, SameStays
  <2>4. CASE RemoveStep \/ Persist \/ UNCHANGED vars
    <3>1. \/ host' = host \/ host' = Patched(host, "none", 0, FALSE)
          \/ \E ids : host' = Forgotten(Killed(host, ids), ids)
      BY <2>4 DEF RemoveStep, RemoveSettles, RemoveLists, RemoveBoxes, RemoveProxy,
                  RemoveRecord, Persist, vars
    <3> QED BY <1>1, <3>1, SameStays
  <2> QED BY <1>5, <1>6, <2>1, <2>2, <2>3, <2>4 DEF Next, UserStep
<1> QED BY <1>2, <1>4, <1>5, <1>6, <1>7 DEF Untroubled, Same

LEMMA InitOrder == Init => Order
<1> SUFFICES ASSUME Init PROVE Order
  OBVIOUS
<1>1. /\ Existing = {} /\ stop.at = "idle" /\ rm.at = "idle" /\ ~host.alive
      /\ host.status = "none" /\ host.box = 0 /\ host.conn = 0 /\ host.state = "draft"
  BY DEF Init, Existing, NoStop
<1>2. \A f \in Flows : launch[f].at = "idle"
  BY DEF Init, Asleep
<1> QED BY <1>1, <1>2 DEF Order, Halting, Named, Served, Raising, Placed, Furnished, Raised,
                          Working, Late, At

LEMMA StepOrder ==
  TypeOK /\ Safe /\ Kept /\ (Untroubled => Order) /\ [Next]_vars => (Untroubled => Order)'
<1> SUFFICES ASSUME TypeOK, Safe, Kept, Untroubled => Order, [Next]_vars, Untroubled'
             PROVE  Order'
  OBVIOUS
<1>1. Untroubled /\ Order /\ ~Crash /\ ~Delete
  BY TroubleStays
<1>2. CASE \E f \in Flows : LaunchStep(f)
  BY <1>1, <1>2, LaunchOrder
<1>3. CASE Run \/ \E f \in Flows : Attach(f)
  <2>1. "prompt" \in Flows
    BY DEF Flows
  <2> QED BY <1>1, <1>3, <2>1, WakeOrder
<1>4. CASE TurnEnds
  BY <1>1, <1>4, TurnEndsOrder
<1>5. CASE AgentExits
  BY <1>1, <1>5, AgentExitsOrder
<1>6. CASE IdleTimer \/ StopByHand
  BY <1>1, <1>6, StopBeginsOrder
<1>7. CASE StopStep
  BY <1>1, <1>7, StopGoesOnOrder, StopDockerOrder DEF StopStep
<1>8. CASE Edit \/ Collect
  BY <1>1, <1>8, RemovalBeginsOrder
<1>9. CASE RemoveStep
  BY <1>1, <1>9, RemovalGoesOnOrder
<1>10. CASE Persist \/ UNCHANGED vars
  <2>1. UNCHANGED <<host, docker, launch, stop, rm>>
    BY <1>10 DEF Persist, vars
  <2> QED BY <1>1, <2>1 DEF Order, Halting, Named, Served, Raising, Placed, Furnished, Raised,
                            Existing, Up, At, Launching
<1> QED BY <1>1, <1>2, <1>3, <1>4, <1>5, <1>6, <1>7, <1>8, <1>9, <1>10 DEF Next, UserStep

(***************************************************************************)
(* If no operation overlaps another of its session and no Docker command   *)
(* has failed: an agent that answers turns has the proxy, the network and  *)
(* the scope it was told of, however its wake-up, the idle stop, a stop by *)
(* hand and the retention sweep follow one another.                        *)
(***************************************************************************)
THEOREM AgentsAreServed ==
  ASSUME ~Overlaps
  PROVE  Spec => []AgentIsServed
<1>1. Init => TypeOK /\ Safe /\ Kept /\ (Untroubled => Order)
  BY InitSafe, InitKept, InitOrder
<1>2. TypeOK /\ Safe /\ Kept /\ (Untroubled => Order) /\ [Next]_vars =>
        (TypeOK /\ Safe /\ Kept /\ (Untroubled => Order))'
  BY StepSafe, StepKept, StepOrder
<1>3. TypeOK /\ Safe /\ Kept /\ (Untroubled => Order) => AgentIsServed
  BY DEF Kept, Live, Untroubled, Order, Served, AgentIsServed
<1> QED BY <1>1, <1>2, <1>3, PTL DEF Spec
=============================================================================
