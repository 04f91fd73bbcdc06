--------------------------- MODULE ContainerLife ---------------------------
(***************************************************************************)
(* One session's container, its proxy and its agent process: what brings   *)
(* them up (a start, or a prompt or a pick of the user waking a sleeping   *)
(* session), what stops them (the idle timer, the user), what removes them *)
(* (an edit of the draft, the retention sweep, the session's deletion) and *)
(* what the boot makes of the leftovers of a crash.                        *)
(*                                                                         *)
(* Each of these is a coroutine; an action runs it from one await to the   *)
(* next, so that any two interleave at every Docker command.  The command  *)
(* and the continuation that reads its answer are one step.  Docker's own  *)
(* registry (docker) is told apart from what the process remembers (host)  *)
(* and from what the last write of sessions.json kept (disk).              *)
(***************************************************************************)
EXTENDS Naturals, FiniteSets

CONSTANTS
  MaxBoxes,      \* bound on the containers created; Docker never reuses an id
  Internal,      \* the session's network setting: the proxy is its only route
  Interrupts,    \* what besides the idle timer takes the container down: "stop"
                 \* by hand, "edit" of the draft, the retention sweep's "collect",
                 \* "delete" of the session
  Overlaps,      \* a stop by hand or the sweep may cut into a launch, and a
                 \* launch begin while its session's container is being removed
  MaxFaults      \* bound on the faults: a Docker command or a script that
                 \* fails, a crash of the app

ASSUME LifeAssumption ==
  /\ MaxBoxes \in Nat /\ MaxFaults \in Nat
  /\ Internal \in BOOLEAN /\ Overlaps \in BOOLEAN
  /\ Interrupts \subseteq {"stop", "edit", "delete", "collect"}

VARIABLES
  host,      \* the process: the session, its record, its caches
  docker,    \* the daemon: containers, the session's network, its proxy
  launch,    \* the coroutines that bring the session up
  stop,      \* the coroutine of teardown('stop')
  rm,        \* the coroutine of teardown('remove')
  disk,      \* the session in sessions.json
  faults

vars == <<host, docker, launch, stop, rm, disk, faults>>

Boxes  == 1..MaxBoxes
Flows  == {"prompt", "config"}
States == {"draft", "starting", "started"}
Status == {"none", "building", "post", "running", "stopped", "error"}

Places ==
  {"idle", "wait", "resolve", "probe", "sweep", "clone", "restart", "create",
   "setup", "script", "up", "outfit", "net", "push", "connect", "init", "load", "turn"}

(* The ensure is in flight: `ensureInFlight` holds its promise. *)
Ensuring(f) ==
  launch[f].at \in {"probe", "sweep", "clone", "restart", "create", "setup", "script", "up"}

NoStop == [at |-> "idle", box |-> 0, full |-> FALSE]

Asleep == [at |-> "idle", box |-> 0, fit |-> "todo", proxy |-> "todo"]

TypeOK ==
  /\ host \in [session : BOOLEAN, state : States, status : Status,
               box : 0..MaxBoxes, full : BOOLEAN, attaching : Flows \cup {"none"},
               installed : SUBSET Boxes, conn : 0..MaxBoxes, alive : BOOLEAN,
               attached : BOOLEAN, timer : BOOLEAN, read : BOOLEAN,
               swept : BOOLEAN]
  /\ docker \in [box : [Boxes -> {"none", "up", "down", "gone"}],
                 half : SUBSET Boxes, open : SUBSET Boxes, adapter : SUBSET Boxes,
                 network : BOOLEAN, proxy : {"none", "up", "down"}, scope : BOOLEAN]
  /\ launch \in [Flows -> [at : Places, box : 0..MaxBoxes,
                           fit : {"todo", "done", "failed"},
                           proxy : {"todo", "found", "new", "done", "failed"}]]
  /\ stop \in [at : {"idle", "revoke", "proxy", "docker"}, box : 0..MaxBoxes,
               full : BOOLEAN]
  /\ rm \in [at : {"idle", "settle", "list", "boxes", "proxy", "record"},
             box : 0..MaxBoxes, ids : SUBSET Boxes]
  /\ disk \in [session : BOOLEAN, state : {"draft", "started"},
               status : Status, box : 0..MaxBoxes, full : BOOLEAN]
  /\ faults \in 0..MaxFaults

Init ==
  /\ host = [session |-> TRUE, state |-> "draft", status |-> "none", box |-> 0,
             full |-> FALSE, attaching |-> "none", installed |-> {}, conn |-> 0, alive |-> FALSE,
             attached |-> FALSE, timer |-> FALSE, read |-> TRUE,
             swept |-> TRUE]
  /\ docker = [box |-> [i \in Boxes |-> "none"], half |-> {}, open |-> {},
               adapter |-> {}, network |-> FALSE, proxy |-> "none", scope |-> FALSE]
  /\ launch = [f \in Flows |-> Asleep]
  /\ stop = NoStop
  /\ rm = [at |-> "idle", box |-> 0, ids |-> {}]
  /\ disk = [session |-> TRUE, state |-> "draft", status |-> "none", box |-> 0,
             full |-> FALSE]
  /\ faults = 0

Untorn == UNCHANGED <<stop, rm, disk>>
Fails  == faults < MaxFaults /\ faults' = faults + 1
Works  == UNCHANGED faults

Existing == {i \in Boxes : docker.box[i] \in {"up", "down"}}
Up(i)    == i # 0 /\ docker.box[i] = "up"

(* patchContainer: a session that is gone keeps no record.  A record is full  *)
(* when it says where and how to run in the container, too.                  *)
Patched(h, status, box, full) ==
  IF h.session THEN [h EXCEPT !.status = status, !.box = box, !.full = full] ELSE h

Forgotten(h, ids) == [h EXCEPT !.installed = @ \ ids]

(* The agent's process dies with its container; whoever awaits its answer is *)
(* refused when the pipe closes.                                             *)
Killed(h, ids) == IF h.conn \in ids THEN [h EXCEPT !.alive = FALSE] ELSE h

Removed(d, ids) ==
  [d EXCEPT !.box = [i \in Boxes |-> IF i \in ids /\ d.box[i] # "none"
                                       THEN "gone" ELSE d.box[i]],
            !.half = @ \ ids, !.open = @ \ ids, !.adapter = @ \ ids]

-----------------------------------------------------------------------------
(* The launch.                                                             *)

At(f, place) == launch[f].at = place
Go(f, place) == launch' = [launch EXCEPT ![f].at = place]

(* The flows that share f's attach, f included. *)
Sharing(f) == {f} \cup {g \in Flows : At(g, "wait") /\ host.attaching = f}

Settled(f) ==
  [g \in Flows |-> IF g \notin Sharing(f) THEN launch[g]
                   ELSE IF g = "prompt" THEN [Asleep EXCEPT !.at = "turn"] ELSE Asleep]

(* A launch that throws takes with it the start or the turn it was for; the *)
(* session is idle again.                                                   *)
Thrown(h, f) ==
  [h EXCEPT !.state = IF @ = "starting" THEN "draft" ELSE @,
            !.attaching = IF @ = f THEN "none" ELSE @,
            !.timer = @ \/ (h.session /\ "prompt" \in Sharing(f))]

Throw(f) ==
  launch' = [g \in Flows |-> IF g \in Sharing(f) THEN Asleep ELSE launch[g]]

Unhurried == Overlaps \/ rm.at = "idle"

(* startSession: the session's activity cancels a pending stop. *)
Run ==
  /\ host.session /\ host.state = "draft" /\ At("prompt", "idle") /\ Unhurried
  /\ host' = [host EXCEPT !.state = "starting", !.timer = FALSE]
  /\ Go("prompt", "resolve") /\ UNCHANGED docker /\ Works /\ Untorn

(* Mutant: every caller attaches on its own. *)
AttachEach(f) ==
  /\ host.session /\ host.state = "started" /\ At(f, "idle")
  /\ ~(host.conn # 0 /\ host.attached)
  /\ host' = [host EXCEPT !.attaching = f, !.timer = @ /\ f # "prompt"]
  /\ Go(f, "resolve") /\ UNCHANGED docker /\ Works /\ Untorn

(* attach: the agent is there, or is being brought up, or f brings it up. *)
Attach(f) ==
  /\ host.session /\ host.state = "started" /\ At(f, "idle") /\ Unhurried
  /\ IF host.conn # 0 /\ host.attached
       THEN f = "prompt" /\ Go(f, "turn") /\ host' = [host EXCEPT !.timer = FALSE]
       ELSE /\ host' = [host EXCEPT !.attaching = IF @ = "none" THEN f ELSE @,
                                    !.timer = @ /\ f # "prompt"]
            /\ Go(f, IF host.attaching = "none" THEN "resolve" ELSE "wait")
  /\ UNCHANGED docker /\ Works /\ Untorn

(* ensure: what the session's record says of its container is read once. *)
Resolve(f) ==
  /\ At(f, "resolve")
  /\ IF host.session
       THEN /\ launch' = [launch EXCEPT ![f] = [Asleep EXCEPT !.at = "probe", !.box = host.box]]
            /\ UNCHANGED host
       ELSE Throw(f) /\ host' = Thrown(host, f)
  /\ UNCHANGED docker /\ Works /\ Untorn

(* Its own container, still up: reused. *)
Probe(f) ==
  /\ At(f, "probe")
  /\ Go(f, IF host.status = "running" /\ host.full /\ Up(launch[f].box) THEN "outfit" ELSE "sweep")
  /\ UNCHANGED <<host, docker>> /\ Works /\ Untorn

(* Containers its record cannot name are left by an unfinished start, and go; *)
(* the one it names is restarted in place if the daemon still has it.         *)
Sweep(f) ==
  /\ At(f, "sweep")
  /\ LET own   == IF launch[f].box \in Existing THEN launch[f].box ELSE 0
         stray == Existing \ {own}
     IN  /\ docker' = Removed(docker, stray)
         /\ host' = Patched(Forgotten(Killed(host, stray), stray \cup {launch[f].box}),
                            "building", own, own # 0 /\ host.full)
         /\ launch' = [launch EXCEPT ![f].at = "clone", ![f].box = own]
  /\ Works /\ Untorn

(* ensure throws: the record keeps whatever container it names. *)
EnsureFails(f) ==
  /\ Throw(f)
  /\ host' = Thrown(Patched(host, "error",
                            IF host.status # "none" THEN host.box ELSE launch[f].box,
                            host.full), f)

(* The clones are made.  A container to restart is put back on the open      *)
(* network for its start script.                                             *)
Clone(f) ==
  /\ At(f, "clone")
  /\ \/ /\ Works
        /\ IF launch[f].box = 0
             THEN Go(f, "create") /\ UNCHANGED <<host, docker>>
             ELSE /\ docker' = [docker EXCEPT !.open = @ \cup ({launch[f].box} \cap Existing)]
                  /\ host' = Patched(host, "post", launch[f].box, host.full)
                  /\ Go(f, "restart")
     \/ Fails /\ EnsureFails(f) /\ UNCHANGED docker
  /\ Untorn

Restart(f) ==
  /\ At(f, "restart")
  /\ \/ /\ launch[f].box \in Existing
        /\ docker' = [docker EXCEPT !.box[launch[f].box] = "up"]
        /\ \/ Go(f, "up") /\ UNCHANGED host /\ Works
           \/ Fails /\ EnsureFails(f)
     \/ launch[f].box \notin Existing /\ EnsureFails(f) /\ UNCHANGED docker /\ Works
  /\ Untorn

(* The image is built and the container created: it exists, half set up, and *)
(* no record names it.                                                       *)
Create(f) ==
  /\ At(f, "create")
  /\ \E i \in Boxes :
       /\ docker.box[i] = "none" /\ \A j \in 1..(i - 1) : docker.box[j] # "none"
       /\ docker' = [docker EXCEPT !.box[i] = "up", !.half = @ \cup {i}, !.open = @ \cup {i}]
       /\ launch' = [launch EXCEPT ![f].at = "setup", ![f].box = i]
       /\ host' = Patched(host, "post", 0, FALSE)
  /\ Works /\ Untorn

(* A failed setup script removes its container; a failed exec leaves it.     *)
Setup(f) ==
  /\ At(f, "setup")
  /\ LET i == launch[f].box
     IN  \/ /\ Up(i) /\ Works
            /\ docker' = [docker EXCEPT !.half = @ \ {i}]
            /\ host' = Patched(host, "post", i, FALSE) /\ Go(f, "script")
         \/ /\ Up(i) /\ Fails /\ EnsureFails(f)
            /\ docker' \in {Removed(docker, {i}), docker}
         \/ ~Up(i) /\ Works /\ EnsureFails(f) /\ UNCHANGED docker
  /\ Untorn

Script(f) ==
  /\ At(f, "script")
  /\ \/ Up(launch[f].box) /\ Works /\ Go(f, "up") /\ UNCHANGED host
     \/ Up(launch[f].box) /\ Fails /\ EnsureFails(f)
     \/ ~Up(launch[f].box) /\ Works /\ EnsureFails(f)
  /\ UNCHANGED docker /\ Untorn

(* Deleted mid-start: nothing owns the container, so it goes here. *)
EnsureUp(f) ==
  /\ At(f, "up")
  /\ IF host.session
       THEN /\ host' = Patched(host, "running", launch[f].box, TRUE)
            /\ Go(f, "outfit") /\ UNCHANGED docker
       ELSE /\ docker' = Removed(docker, {launch[f].box})
            /\ host' = Thrown(Forgotten(host, {launch[f].box}), f) /\ Throw(f)
  /\ Works /\ Untorn

(* The adapter is installed and the proxy readied side by side: both need    *)
(* the open network, or what an earlier launch left of them.                 *)
Install(f) ==
  /\ At(f, "outfit") /\ launch[f].fit = "todo"
  /\ LET i == launch[f].box
         there == Up(i) /\ (i \in docker.adapter \/ ~Internal \/ i \in docker.open)
     IN  \/ /\ i \in host.installed \/ there
            /\ docker' = [docker EXCEPT !.adapter = @ \cup ({i} \cap Existing)]
            /\ host' = [host EXCEPT !.installed = @ \cup {i}]
            /\ launch' = [launch EXCEPT ![f].fit = "done"] /\ Works
         \/ /\ i \notin host.installed /\ (IF there THEN Fails ELSE Works)
            /\ launch' = [launch EXCEPT ![f].fit = "failed"]
            /\ UNCHANGED <<host, docker>>
  /\ Untorn

(* proxies.ensure: a running proxy is reused, any other is removed. *)
ProxyLook(f) ==
  /\ At(f, "outfit") /\ launch[f].proxy = "todo"
  /\ docker' = [docker EXCEPT !.network = TRUE, !.proxy = IF @ = "up" THEN @ ELSE "none"]
  /\ launch' = [launch EXCEPT ![f].proxy = IF docker.proxy = "up" THEN "found" ELSE "new"]
  /\ UNCHANGED host /\ Works /\ Untorn

(* It is created if need be, and put on the session's network. *)
ProxyReady(f) ==
  /\ At(f, "outfit") /\ launch[f].proxy \in {"found", "new"}
  /\ LET d == IF launch[f].proxy = "new" THEN [docker EXCEPT !.proxy = "up"] ELSE docker
     IN  \/ /\ d.network /\ d.proxy # "none" /\ Works /\ docker' = d
            /\ launch' = [launch EXCEPT ![f].proxy = "done"]
         \/ /\ ~(d.network /\ d.proxy # "none") /\ Works /\ docker' = d
            /\ launch' = [launch EXCEPT ![f].proxy = "failed"]
         \/ Fails /\ launch' = [launch EXCEPT ![f].proxy = "failed"] /\ docker' \in {docker, d}
  /\ UNCHANGED host /\ Untorn

Outfitted(f) ==
  /\ At(f, "outfit")
  /\ launch[f].fit # "todo" /\ launch[f].proxy \in {"done", "failed"}
  /\ IF "failed" \in {launch[f].fit, launch[f].proxy}
       THEN Throw(f) /\ host' = Thrown(host, f)
       ELSE Go(f, "net") /\ UNCHANGED host
  /\ UNCHANGED docker /\ Works /\ Untorn

(* Mutant: the switch is neither made nor asked about. *)
SwitchUnchecked(f) ==
  /\ At(f, "net") /\ Go(f, "push") /\ UNCHANGED <<host, docker>> /\ Works /\ Untorn

(* The container leaves the open network.  A container that is gone is not   *)
(* moved, which an internal session refuses.                                 *)
Switch(f) ==
  /\ At(f, "net")
  /\ LET i == launch[f].box
     IN  IF (i \in Existing /\ docker.network) \/ (i \notin Existing /\ ~Internal)
           THEN /\ docker' = [docker EXCEPT !.open = @ \ {i}]
                /\ Go(f, "push") /\ UNCHANGED host
           ELSE Throw(f) /\ host' = Thrown(host, f) /\ UNCHANGED docker
  /\ Works /\ Untorn

(* attachMcp: the scope is written before there is an agent to use it. *)
PushScope(f) ==
  /\ At(f, "push") /\ Go(f, "connect")
  /\ docker' = [docker EXCEPT !.scope = TRUE]
  /\ UNCHANGED host /\ Works /\ Untorn

(* connection: an agent in this very container is talked to again, even one  *)
(* that is just being killed; else one is spawned in it.  (An agent's exit   *)
(* is heard of before another container of its session is up.)               *)
Connect(f) ==
  /\ At(f, "connect") /\ host.conn \in {0, launch[f].box}
  /\ IF host.conn # 0 THEN Go(f, "load") /\ UNCHANGED host
     ELSE IF Up(launch[f].box) /\ launch[f].box \in host.installed \cup docker.adapter
       THEN Go(f, "init") /\ host' = [host EXCEPT !.installed = @ \cup {launch[f].box}]
       ELSE Throw(f) /\ host' = Thrown(host, f)
  /\ UNCHANGED docker /\ Works /\ Untorn

Initialize(f) ==
  /\ At(f, "init")
  /\ IF Up(launch[f].box) /\ host.session
       THEN /\ host' = [host EXCEPT !.conn = launch[f].box, !.alive = TRUE]
            /\ Go(f, "load")
       ELSE Throw(f) /\ host' = Thrown(host, f)
  /\ UNCHANGED docker /\ Works /\ Untorn

(* session/new or session/load. *)
Load(f) ==
  /\ At(f, "load")
  /\ IF host.alive /\ host.conn = launch[f].box
       THEN /\ host' = [host EXCEPT !.attached = TRUE, !.state = "started",
                                    !.attaching = IF @ = f THEN "none" ELSE @]
            /\ launch' = Settled(f)
       ELSE Throw(f) /\ host' = Thrown(host, f)
  /\ UNCHANGED docker /\ Works /\ Untorn

(* The turn ends, one way or another: the idle timer is armed. *)
TurnEnds ==
  /\ At("prompt", "turn") /\ launch' = [launch EXCEPT !["prompt"] = Asleep]
  /\ host' = [host EXCEPT !.timer = host.session]
  /\ UNCHANGED docker /\ Works /\ Untorn

Idle(h) == h.session /\ h.state # "starting" /\ At("prompt", "idle")

(* The agent's process has closed its pipe. *)
AgentExits ==
  /\ host.conn # 0 /\ ~host.alive
  /\ host' = [host EXCEPT !.conn = 0, !.attached = FALSE, !.timer = @ \/ Idle(host)]
  /\ UNCHANGED <<launch, docker>> /\ Works /\ Untorn

-----------------------------------------------------------------------------
(* Teardown: both ways detach first and cancel a pending stop.             *)

Detached(h) == [h EXCEPT !.timer = FALSE, !.alive = FALSE, !.attached = FALSE]

Elsewhere == UNCHANGED disk

(* Mutant: the timer does not look again. *)
IdleTimerBlind ==
  /\ host.timer /\ stop.at = "idle"
  /\ stop' = [at |-> "revoke", box |-> host.box, full |-> host.full] /\ host' = Detached(host)
  /\ UNCHANGED <<docker, launch, rm>> /\ Works /\ Elsewhere

(* autoStopIfIdle: idle and running are looked at again. *)
IdleTimer ==
  /\ host.timer /\ stop.at = "idle"
  /\ IF Idle(host) /\ host.status = "running"
       THEN stop' = [at |-> "revoke", box |-> host.box, full |-> host.full] /\ host' = Detached(host)
       ELSE UNCHANGED stop /\ host' = [host EXCEPT !.timer = FALSE]
  /\ UNCHANGED <<docker, launch, rm>> /\ Works /\ Elsewhere

StopByHand ==
  /\ "stop" \in Interrupts /\ host.session /\ stop.at = "idle"
  /\ host.status \notin {"none", "stopped", "error"}
  /\ Overlaps \/ \A f \in Flows : launch[f].at \in {"idle", "turn"}
  /\ stop' = [at |-> "revoke", box |-> host.box, full |-> host.full] /\ host' = Detached(host)
  /\ UNCHANGED <<docker, launch, rm>> /\ Works /\ Elsewhere

StopRevokes ==
  /\ stop.at = "revoke" /\ stop' = [stop EXCEPT !.at = "proxy"]
  /\ docker' = [docker EXCEPT !.scope = FALSE]
  /\ UNCHANGED <<host, launch, rm>> /\ Works /\ Elsewhere

StopProxy ==
  /\ stop.at = "proxy"
  /\ stop' = [stop EXCEPT !.at = IF stop.box = 0 THEN "idle" ELSE "docker"]
  /\ docker' = [docker EXCEPT !.proxy = IF @ = "up" THEN "down" ELSE @]
  /\ host' = Forgotten(host, {stop.box})
  /\ UNCHANGED <<launch, rm>> /\ Works /\ Elsewhere

(* A failed stop leaves the record as it is, and no timer behind. *)
StopDocker ==
  /\ stop.at = "docker" /\ stop' = [stop EXCEPT !.at = "idle"]
  /\ \/ /\ stop.box \in Existing /\ Works
        /\ docker' = [docker EXCEPT !.box[stop.box] = "down"]
        /\ host' = Patched(Killed(host, {stop.box}), "stopped", stop.box, stop.full)
     \/ /\ IF stop.box \in Existing THEN Fails ELSE Works
        /\ UNCHANGED <<host, docker>>
  /\ UNCHANGED <<launch, rm>> /\ Elsewhere

(* What asks for a removal: an edit of the draft, the user, the retention    *)
(* sweep (which has awaited the container's age and looks again) ...         *)
Edit ==
  /\ "edit" \in Interrupts /\ host.session
  /\ host.state = "draft" /\ host.status # "none" /\ rm.at = "idle"
  /\ rm' = [rm EXCEPT !.at = "settle", !.box = host.box] /\ host' = Detached(host)
  /\ UNCHANGED <<docker, launch, stop>> /\ Works /\ Elsewhere

(* Mutant: the sweep removes what it saw before it waited. *)
CollectStale ==
  /\ "collect" \in Interrupts /\ host.session /\ host.box \in Existing /\ rm.at = "idle"
  /\ rm' = [rm EXCEPT !.at = "settle", !.box = host.box] /\ host' = Detached(host)
  /\ UNCHANGED <<docker, launch, stop>> /\ Works /\ Elsewhere

Collect ==
  /\ "collect" \in Interrupts /\ host.session /\ host.status = "stopped" /\ host.box # 0
  /\ ~\E f \in Flows : Ensuring(f)
  /\ Overlaps \/ ~\E f \in Flows : At(f, "resolve")
  /\ rm.at = "idle"
  /\ rm' = [rm EXCEPT !.at = "settle", !.box = host.box] /\ host' = Detached(host)
  /\ UNCHANGED <<docker, launch, stop>> /\ Works /\ Elsewhere

(* ... and the session's deletion, which drops it at once. *)
Delete ==
  /\ "delete" \in Interrupts /\ host.session /\ rm.at = "idle"
  /\ rm' = [rm EXCEPT !.at = "settle", !.box = host.box]
  /\ host' = [Detached(host) EXCEPT !.session = FALSE, !.status = "none", !.box = 0,
                                 !.full = FALSE]
  /\ UNCHANGED <<docker, launch, stop>> /\ Works /\ Elsewhere

(* Mutant: the launch in flight is not waited for. *)
RemoveAtOnce ==
  /\ rm.at = "settle" /\ rm' = [rm EXCEPT !.at = "list"]
  /\ UNCHANGED <<host, docker, launch, stop>> /\ Works /\ Elsewhere

(* A launch in flight is waited for; it may have recorded a fresher id. *)
RemoveSettles ==
  /\ rm.at = "settle" /\ ~\E f \in Flows : Ensuring(f)
  /\ rm' = [rm EXCEPT !.at = "list", !.box = IF host.status # "none" THEN host.box ELSE @]
  /\ UNCHANGED <<host, docker, launch, stop>> /\ Works /\ Elsewhere

RemoveLists ==
  /\ rm.at = "list"
  /\ rm' = [rm EXCEPT !.at = "boxes", !.ids = Existing \cup ({rm.box} \cap Boxes)]
  /\ UNCHANGED <<host, docker, launch, stop>> /\ Works /\ Elsewhere

RemoveBoxes ==
  /\ rm.at = "boxes" /\ rm' = [rm EXCEPT !.at = "proxy"]
  /\ docker' = Removed(docker, rm.ids) /\ host' = Forgotten(Killed(host, rm.ids), rm.ids)
  /\ UNCHANGED <<launch, stop>> /\ Works /\ Elsewhere

RemoveProxy ==
  /\ rm.at = "proxy" /\ rm' = [rm EXCEPT !.at = "record"]
  /\ docker' = [docker EXCEPT !.proxy = "none", !.network = FALSE]
  /\ UNCHANGED <<host, launch, stop>> /\ Works /\ Elsewhere

RemoveRecord ==
  /\ rm.at = "record" /\ rm' = [at |-> "idle", box |-> 0, ids |-> {}]
  /\ docker' = [docker EXCEPT !.scope = FALSE] /\ host' = Patched(host, "none", 0, FALSE)
  /\ UNCHANGED <<launch, stop>> /\ Works /\ Elsewhere

-----------------------------------------------------------------------------
(* Crash, boot and reconcile.                                              *)

(* Mutant: a write keeps the phase a start is in. *)
WrittenAsIs ==
  [session |-> host.session, state |-> host.state, status |-> host.status,
   box |-> host.box, full |-> host.full]

(* What a write keeps: a start is a draft again, and a phase of it stopped.  *)
(* A store that could not be read is not written.  (What is written when no  *)
(* crash can follow is not looked at: a bound.)                              *)
Written ==
  [session |-> host.session,
   state   |-> IF host.state = "started" THEN "started" ELSE "draft",
   status  |-> IF host.status \in {"none", "running", "error"} THEN host.status ELSE "stopped",
   box     |-> host.box, full |-> host.full]

Persist ==
  /\ host.read /\ faults < MaxFaults /\ disk # Written /\ disk' = Written
  /\ UNCHANGED <<host, docker, launch, stop, rm, faults>>

(* The daemon is the registry: the record is made to agree with it. *)
Reconciled(r, actual) ==
  CASE r.status = "none" -> r
    [] r.status # "none" /\ actual = 0 -> [r EXCEPT !.status = "none", !.box = 0, !.full = FALSE]
    [] r.status # "none" /\ actual # 0
         /\ (r.box # actual \/ (r.status = "running") # Up(actual)) ->
         [r EXCEPT !.box = actual, !.status = IF Up(actual) THEN "running" ELSE "stopped"]
    [] OTHER -> r

(* Mutant: a store that could not be read is believed. *)
MayReapAlways(readable) == TRUE

(* The sweep trusts only a store it could read. *)
MayReap(readable) == readable

(* Of several containers that carry the session's label the boot sees one.   *)
Swept(actual) ==
  [Removed(docker, {actual} \cap Boxes) EXCEPT
     !.proxy = "none", !.network = FALSE, !.scope = @ /\ docker.proxy = "none"]

(* The app dies and boots: the store may be unreadable, the daemon silent. *)
Reboot(readable, answers) ==
  LET known == disk.session /\ readable
  IN  \E actual \in IF Existing = {} THEN {0} ELSE Existing :
        LET r == IF answers THEN Reconciled(disk, actual) ELSE disk
        IN  /\ host' = [session |-> known, state |-> disk.state,
                        status |-> IF known THEN r.status ELSE "none",
                        box |-> IF known THEN r.box ELSE 0,
                        full |-> known /\ r.full,
                        attaching |-> "none", installed |-> {}, conn |-> 0,
                        alive |-> FALSE, attached |-> FALSE, timer |-> FALSE,
                        read |-> readable, swept |-> readable /\ answers]
            /\ docker' = IF answers /\ ~known /\ MayReap(readable)
                           THEN Swept(actual) ELSE docker

Crash ==
  /\ Fails
  /\ \E readable, answers \in BOOLEAN : Reboot(readable, answers)
  /\ launch' = [f \in Flows |-> Asleep]
  /\ stop' = NoStop
  /\ rm' = [at |-> "idle", box |-> 0, ids |-> {}]
  /\ UNCHANGED disk

-----------------------------------------------------------------------------
LaunchStep(f) ==
  \/ Resolve(f) \/ Probe(f) \/ Sweep(f) \/ Clone(f) \/ Restart(f) \/ Create(f)
  \/ Setup(f) \/ Script(f) \/ EnsureUp(f) \/ Install(f) \/ ProxyLook(f)
  \/ ProxyReady(f) \/ Outfitted(f) \/ Switch(f) \/ PushScope(f) \/ Connect(f)
  \/ Initialize(f) \/ Load(f)

StopStep   == StopRevokes \/ StopProxy \/ StopDocker
RemoveStep == RemoveSettles \/ RemoveLists \/ RemoveBoxes \/ RemoveProxy \/ RemoveRecord
UserStep   == Run \/ (\E f \in Flows : Attach(f)) \/ StopByHand \/ Edit \/ Delete

Next ==
  \/ UserStep \/ StopStep \/ RemoveStep \/ TurnEnds \/ AgentExits \/ IdleTimer
  \/ Collect \/ Persist \/ Crash
  \/ \E f \in Flows : LaunchStep(f)

Spec == Init /\ [][Next]_vars

(* Every Docker command and every request to the agent has a timeout, and    *)
(* timers fire; nobody is made to type, and a turn may last for ever.        *)
FairSpec ==
  /\ Spec
  /\ \A f \in Flows : WF_vars(LaunchStep(f))
  /\ WF_vars(StopStep) /\ WF_vars(RemoveStep)
  /\ WF_vars(AgentExits) /\ WF_vars(IdleTimer)

-----------------------------------------------------------------------------
(* Properties.                                                             *)

Quiet ==
  /\ stop.at = "idle" /\ rm.at = "idle"
  /\ \A f \in Flows : At(f, "idle")

(* The agent's processes: the one talked to, and one just spawned. *)
Agents ==
  {i \in Boxes : host.alive /\ host.conn = i} \cup
  {launch[f].box : f \in {g \in Flows : At(g, "init") /\ Up(launch[g].box)}}

(* A container does not outlive its session: one that was deleted at any     *)
(* moment of a launch leaves none behind, recorded or not.                   *)
NoContainerOutlives == ~host.session /\ host.swept /\ Quiet => Existing = {}

(* The whole of what deleteSession says goes with a session does go.         *)
NothingOutlives ==
  ~host.session /\ host.swept /\ Quiet =>
    Existing = {} /\ docker.proxy = "none" /\ ~docker.network /\ ~docker.scope

(* A prompt and a pick that wake a session at once share one agent: there    *)
(* are never two of its processes.                                           *)
OneAgent ==
  /\ ~(host.alive /\ \E f \in Flows : At(f, "init") /\ Up(launch[f].box))
  /\ \A f, g \in Flows : At(f, "init") /\ At(g, "init") => f = g

(* No agent of an internal session runs while its container is on the open   *)
(* network its setup, start script and install needed.                       *)
AgentIsIsolated == Internal => Agents \cap docker.open = {}

(* An agent that answers turns has the proxy and the scope it was told of,   *)
(* however its wake-up and an idle stop overlapped (and Docker failed        *)
(* neither).                                                                 *)
AgentIsServed ==
  faults = 0 /\ host.attached /\ host.alive /\ stop.at = "idle" /\ rm.at = "idle" =>
    docker.scope /\ docker.proxy = "up" /\ docker.network

(* The container an agent runs in is the one on record, and running there:   *)
(* it is by the record that it is stopped, and that others see its clone     *)
(* is taken.                                                                 *)
AgentIsRecorded ==
  host.attached /\ host.alive /\ stop.at = "idle" /\ rm.at = "idle" =>
    host.status = "running" /\ host.box = host.conn

(* A container whose setup script never finished runs no agent. *)
UnfinishedIsNotAdopted == Agents \cap docker.half = {}

(* The boot removes no container of a session the store still has. *)
BootKeepsSessions ==
  [][Crash /\ disk.session => docker'.box = docker.box]_vars

(* A session nobody uses comes to rest: its container does not stay up.      *)
IdleRests ==
  (host.session /\ Quiet /\ host.status = "running")
    ~> (host.status # "running" \/ ~Quiet)
=============================================================================
