------------------------- MODULE McpServers_proofs --------------------------
(***************************************************************************)
(* What McpServers promises, for any sessions, requests, edits and faults. *)
(* That an agent is told of servers as they are needs nothing.  That a     *)
(* session has one process needs requests that do not overlap; that        *)
(* nothing is left needs, besides, that no session is stopped or deleted   *)
(* while it attaches (README.md).                                          *)
(***************************************************************************)
EXTENDS McpServers, FiniteSetTheorems, SequenceTheorems, TLAPS

-----------------------------------------------------------------------------
(* The invariants.                                                           *)

Entry    == [spec : Version, secret : Version]
Somebody == Session \cup {"nobody"}
Bridge   == [on : BOOLEAN, ready : BOOLEAN, spec : Version, secret : Version,
             child : BOOLEAN, stray : Nat]
Resolve  == [at : {"idle", "read", "wait", "serve"}, local : BOOLEAN, builtin : Mode,
             since : SUBSET Entry]
Attached == [at : {"down", "waking", "up", "gone"}, local : BOOLEAN, builtin : Mode]
Pass     == [at : {"idle", "registry", "secrets", "stops", "starts"}, for : Somebody,
             snap : SUBSET Session, spec : Version, left : SUBSET Session,
             want : [Session -> Version], stopping : Somebody]

Typing ==
  /\ registry \in Entry /\ session \in [Session -> Attached]
  /\ holders \in [Session -> {"none", "nothing", "local"}]
  /\ bridges \in [Session -> Bridge] /\ builtin \in [Session -> Mode]
  /\ pass \in Pass /\ queue \in Seq(Somebody) /\ resolve \in [Session -> Resolve]
  /\ request \in [Session -> [Request -> {"idle", "spawn", "late", "sent"}]]
  /\ edits \in 0..MaxEdits /\ faults \in 0..MaxFaults

(* An attach waits for one pass: it is in the queue once, or under way.      *)
Queued(s) == \E i \in 1..Len(queue) : queue[i] = s
InLine ==
  /\ \A i, j \in 1..Len(queue) : queue[i] = queue[j] /\ queue[i] # "nobody" => i = j
  /\ \A s \in Session : Queued(s) => resolve[s].at = "wait" /\ pass.for # s
  /\ \A s \in Session : pass.for = s => resolve[s].at = "wait"
  /\ pass.at = "idle" => pass = NoPass

(* A process is its bridge's, which is in the map and ready, or is being     *)
(* stopped; and who is about to start one does so for a bridge that is.      *)
Bridged ==
  /\ pass.stopping # "nobody" => pass.at = "stops"
  /\ \A s \in Session :
       /\ bridges[s].ready => bridges[s].on
       /\ bridges[s].child => bridges[s].ready \/ pass.stopping = s
       /\ \A r \in Request : request[s][r] = "spawn" => bridges[s].ready

(* What an attach may be told of by now: a registry and a secret it saw, so  *)
(* the pass it goes on with wants no others, nor does a bridge serve them.   *)
Saw(s, spec)     == \E was \in resolve[s].since : was.spec = spec
Knows(s, secret) == \E is \in resolve[s].since : is.secret = secret
Follows(s) ==
  /\ pass.at \in {"secrets", "stops", "starts"} => Saw(s, pass.spec)
  /\ \A t \in Session : pass.want[t] # 0 => Knows(s, pass.want[t])
Serves(s) == bridges[s].on => Saw(s, bridges[s].spec) /\ Knows(s, bridges[s].secret)

Current ==
  /\ pass.at = "starts" => \A t \in Session : ~Wrong(t)
  /\ \A s \in Session :
       /\ resolve[s].at # "idle" => registry \in resolve[s].since
       /\ resolve[s].at = "serve" \/ pass.for = s => Follows(s)
       /\ resolve[s].at = "serve" => Serves(s)

(* Without overlapping requests nobody starts a second process.              *)
Single == \A s \in Session : /\ bridges[s].stray = 0
                             /\ \A r \in Request : request[s][r] = "spawn" => ~bridges[s].child

(* Who lets go of the local entry queues a pass, and the last pass to look   *)
(* stops what nobody holds.                                                  *)
Released ==
  /\ \A s \in Session :
       /\ resolve[s].at # "idle" => session[s].at = "waking"
       /\ session[s].at \in {"down", "gone"} => holders[s] = "none" /\ builtin[s] = "none"
  /\ queue = <<>> =>
       \A s \in Session : holders[s] # "local" =>
         /\ s \notin pass.snap
         /\ bridges[s].on => pass.at \in {"registry", "secrets", "stops"}

(* Whose each pass in the queue is: the one of its attach, and before it the *)
(* one of the detach before.                                                 *)
Owes(w) ==
  /\ \A i \in 1..Len(queue) : queue[i] \in {"nobody", w[i]}
  /\ \A i, j \in 1..Len(queue) : i < j /\ w[i] = w[j] => queue[i] = "nobody" /\ queue[j] = w[j]
  /\ \A i \in 1..Len(queue) : /\ session[w[i]].at # "up" /\ resolve[w[i]].at # "serve"
                              /\ pass.for # w[i]
Owed == \E w \in [1..Len(queue) -> Session] : Owes(w)
-----------------------------------------------------------------------------
(* Types.                                                                    *)

LEMMA TypingInit == Init => Typing
<1> SUFFICES ASSUME Init PROVE Typing
  OBVIOUS
<1>1. 0 \in Version /\ 1 \in Version /\ "read" \in Mode /\ "none" \in Mode
  BY ServersAssumption DEF Version, Mode
<1>2. NoPass \in Pass /\ NoBridge \in Bridge /\ Aside \in Resolve
  BY <1>1 DEF NoPass, NoBridge, Aside, Pass, Bridge, Resolve, Somebody
<1>3. queue \in Seq(Somebody)
  BY EmptySeq DEF Init
<1> QED
  BY <1>1, <1>2, <1>3, ServersAssumption DEF Init, Typing, Entry, Attached

LEMMA Zero == 0 \in Version /\ Aside \in Resolve /\ NoPass \in Pass
BY ServersAssumption DEF Version, Mode, NoPass, Aside, Pass, Resolve, Somebody

(* One bridge changes.                                                       *)
LEMMA OneBridge ==
  ASSUME Typing, NEW s \in Session, NEW b \in Bridge, bridges' = [bridges EXCEPT ![s] = b]
  PROVE  /\ bridges' \in [Session -> Bridge] /\ bridges'[s] = b
         /\ \A t \in Session \ {s} : bridges'[t] = bridges[t]
BY DEF Typing

LEMMA TypingAttach ==
  ASSUME Typing, NEW s \in Session, Attach(s) PROVE Typing'
<1>1. session[s] \in Attached /\ registry \in Entry
  BY DEF Typing
<1>2. [at |-> "read", local |-> session[s].local, builtin |-> session[s].builtin,
       since |-> {registry}] \in Resolve
  BY <1>1 DEF Attached, Resolve
<1>3. [session[s] EXCEPT !.at = "waking"] \in Attached
  BY <1>1 DEF Attached
<1> QED
  BY <1>2, <1>3 DEF Typing, Attach

LEMMA TypingResolveReads ==
  ASSUME Typing, NEW s \in Session, ResolveReads(s) PROVE Typing'
<1> DEFINE local == resolve[s].local /\ registry.spec # 0
<1>1. resolve' = [resolve EXCEPT ![s].at = "wait", ![s].local = local]
  BY DEF ResolveReads
<1>2. local \in BOOLEAN
  BY DEF Typing, Resolve
<1> HIDE DEF local
<1>3. resolve' \in [Session -> Resolve]
  <2> DEFINE r == [resolve[s] EXCEPT !.at = "wait", !.local = local]
  <2>1. resolve[s] \in Resolve
    BY DEF Typing
  <2>2. r \in Resolve
    BY <1>2, <2>1 DEF Resolve
  <2>3. resolve' = [resolve EXCEPT ![s] = r]
    BY <1>1
  <2> HIDE DEF r
  <2> QED
    BY <2>2, <2>3 DEF Typing
<1>4. holders' \in [Session -> {"none", "nothing", "local"}]
  BY DEF Typing, ResolveReads
<1>5. queue' \in Seq(Somebody)
  BY AppendProperties DEF Typing, ResolveReads, Somebody
<1> QED
  BY <1>3, <1>4, <1>5 DEF Typing, ResolveReads

LEMMA TypingServe ==
  ASSUME Typing, NEW s \in Session, Serve(s) PROVE Typing'
<1>1. session' \in [Session -> Attached]
  <2>1. session[s] \in Attached /\ session \in [Session -> Attached]
    BY DEF Typing
  <2>2. \A at \in {"down", "waking", "up", "gone"} : [session[s] EXCEPT !.at = at] \in Attached
    BY <2>1 DEF Attached
  <2>3. session[s].at \in {"down", "waking", "up", "gone"}
    BY <2>1 DEF Attached
  <2>4. session' = [session EXCEPT ![s] = [session[s] EXCEPT !.at =
                      IF session[s].at = "waking" THEN "up" ELSE session[s].at]]
    BY DEF Serve
  <2> QED
    BY <2>1, <2>2, <2>3, <2>4
<1>2. builtin' \in [Session -> Mode]
  BY DEF Serve, Typing, Resolve
<1>3. resolve' \in [Session -> Resolve]
  BY Zero DEF Serve, Typing
<1> QED
  BY <1>1, <1>2, <1>3 DEF Typing, Serve

LEMMA TypingDetach ==
  ASSUME Typing, NEW s \in Session, Detach(s) PROVE Typing'
<1>1. session' \in [Session -> Attached]
  <2>1. session[s] \in Attached /\ session \in [Session -> Attached]
    BY DEF Typing
  <2>2. \A at \in {"down", "waking", "up", "gone"} : [session[s] EXCEPT !.at = at] \in Attached
    BY <2>1 DEF Attached
  <2>3. PICK at \in {"down", "gone"} :
          session' = [session EXCEPT ![s] = [session[s] EXCEPT !.at =
                        IF session[s].at = "waking" /\ at = "down" THEN session[s].at ELSE at]]
    BY DEF Detach
  <2>4. session[s].at \in {"down", "waking", "up", "gone"}
    BY <2>1 DEF Attached
  <2> QED
    BY <2>1, <2>2, <2>3, <2>4
<1>2. builtin' \in [Session -> Mode] /\ holders' \in [Session -> {"none", "nothing", "local"}]
  BY DEF Detach, Typing, Mode
<1>3. queue' \in Seq(Somebody)
  BY AppendProperties DEF Detach, Typing, Somebody
<1> QED
  BY <1>1, <1>2, <1>3 DEF Typing, Detach

LEMMA TypingPassBegins ==
  ASSUME Typing, PassBegins PROVE Typing'
<1>1. Head(queue) \in Somebody /\ Tail(queue) \in Seq(Somebody)
  BY HeadTailProperties DEF PassBegins, Typing
<1>2. {s \in Session : holders[s] = "local"} \in SUBSET Session
  OBVIOUS
<1>3. pass' \in Pass
  BY <1>1, <1>2, Zero DEF PassBegins, Pass, NoPass
<1> QED
  BY <1>1, <1>3 DEF Typing, PassBegins

LEMMA TypingPassReads ==
  ASSUME Typing, PassReads PROVE Typing'
<1>1. pass' \in Pass
  BY DEF PassReads, Typing, Pass, Entry
<1> QED
  BY <1>1 DEF Typing, PassReads

LEMMA TypingPassResolves ==
  ASSUME Typing, NEW s \in Session, PassResolves(s) PROVE Typing'
<1>1. pass' \in Pass
  BY DEF PassResolves, Typing, Pass, Entry
<1> QED
  BY <1>1 DEF Typing, PassResolves

LEMMA TypingPassTurns ==
  ASSUME Typing, PassTurns \/ StopsDone PROVE Typing'
<1>1. pass' \in Pass
  BY DEF PassTurns, StopsDone, Typing, Pass
<1> QED
  BY <1>1 DEF Typing, PassTurns, StopsDone

LEMMA AllFailTyped ==
  ASSUME Typing, NEW s \in Session, NEW late, AllFail(s, late)
  PROVE  /\ request' \in [Session -> [Request -> {"idle", "spawn", "late", "sent"}]]
         /\ \A t \in Session, r \in Request :
              request'[t][r] = "spawn" => request[t][r] = "spawn" /\ (t = s => ~late)
BY DEF AllFail, Typing

LEMMA StopBeginsBridge ==
  ASSUME Typing, NEW s \in Session, StopBegins(s)
  PROVE  /\ bridges' \in [Session -> Bridge]
         /\ ~bridges'[s].on /\ ~bridges'[s].ready
         /\ bridges'[s].spec = bridges[s].spec /\ bridges'[s].secret = bridges[s].secret
         /\ bridges'[s].child = bridges[s].child /\ bridges'[s].stray = bridges[s].stray
         /\ \A t \in Session \ {s} : bridges'[t] = bridges[t]
<1> DEFINE b == [bridges[s] EXCEPT !.on = FALSE, !.ready = FALSE]
<1>1. bridges[s] \in Bridge
  BY DEF Typing, Pass
<1>2. bridges' = [bridges EXCEPT ![s] = b]
  BY DEF StopBegins
<1>3. b \in Bridge
  BY <1>1 DEF Bridge
<1>4. /\ ~b.on /\ ~b.ready
      /\ b.spec = bridges[s].spec /\ b.secret = bridges[s].secret
      /\ b.child = bridges[s].child /\ b.stray = bridges[s].stray
  BY <1>1 DEF Bridge
<1> HIDE DEF b
<1>5. bridges' \in [Session -> Bridge] /\ bridges'[s] = b
      /\ \A t \in Session \ {s} : bridges'[t] = bridges[t]
  BY <1>2, <1>3, OneBridge
<1> QED
  BY <1>4, <1>5

LEMMA TypingStopBegins ==
  ASSUME Typing, NEW s \in Session, StopBegins(s) PROVE Typing'
<1>1. pass' \in Pass
  BY DEF StopBegins, Typing, Pass, Somebody
<1>2. bridges' \in [Session -> Bridge]
  BY StopBeginsBridge
<1> QED
  BY <1>1, <1>2, AllFailTyped DEF Typing, StopBegins

LEMMA StopEndsBridge ==
  ASSUME Typing, StopEnds, NEW s \in Session, pass.stopping = s
  PROVE  /\ bridges' \in [Session -> Bridge]
         /\ bridges'[s].on = bridges[s].on /\ bridges'[s].ready = bridges[s].ready
         /\ bridges'[s].spec = bridges[s].spec /\ bridges'[s].secret = bridges[s].secret
         /\ ~bridges'[s].child /\ bridges'[s].stray = bridges[s].stray
         /\ \A t \in Session \ {s} : bridges'[t] = bridges[t]
<1> DEFINE b == [bridges[s] EXCEPT !.child = FALSE]
<1>1. bridges[s] \in Bridge
  BY DEF Typing
<1>2. bridges' = [bridges EXCEPT ![s] = b]
  BY DEF StopEnds
<1>3. b \in Bridge
  BY <1>1 DEF Bridge
<1>4. /\ b.on = bridges[s].on /\ b.ready = bridges[s].ready
      /\ b.spec = bridges[s].spec /\ b.secret = bridges[s].secret
      /\ ~b.child /\ b.stray = bridges[s].stray
  BY <1>1 DEF Bridge
<1> HIDE DEF b
<1>5. bridges' \in [Session -> Bridge] /\ bridges'[s] = b
      /\ \A t \in Session \ {s} : bridges'[t] = bridges[t]
  BY <1>2, <1>3, OneBridge
<1> QED
  BY <1>4, <1>5

LEMMA Stopping == ASSUME Typing, StopEnds PROVE pass.stopping \in Session
BY DEF StopEnds, Typing, Pass, Somebody

LEMMA TypingStopEnds ==
  ASSUME Typing, StopEnds PROVE Typing'
<1>1. pass' \in Pass
  BY DEF StopEnds, Typing, Pass, Somebody
<1>2. bridges' \in [Session -> Bridge]
  BY StopEndsBridge, Stopping
<1> QED
  BY <1>1, <1>2 DEF Typing, StopEnds

LEMMA StartBeginsBridge ==
  ASSUME Typing, NEW s \in Session, StartBegins(s)
  PROVE  /\ bridges' \in [Session -> Bridge]
         /\ bridges'[s].on /\ bridges'[s].ready = bridges[s].ready
         /\ bridges'[s].spec = pass.spec /\ bridges'[s].secret = pass.want[s]
         /\ bridges'[s].child = bridges[s].child /\ bridges'[s].stray = bridges[s].stray
         /\ \A t \in Session \ {s} : bridges'[t] = bridges[t]
<1> DEFINE b == [bridges[s] EXCEPT !.on = TRUE, !.spec = pass.spec,
                                    !.secret = pass.want[s]]
<1>1. bridges[s] \in Bridge /\ pass.spec \in Version /\ pass.want[s] \in Version
  BY DEF Typing, Pass
<1>2. bridges' = [bridges EXCEPT ![s] = b]
  BY DEF StartBegins
<1>3. b \in Bridge
  BY <1>1 DEF Bridge
<1>4. /\ b.on /\ b.ready = bridges[s].ready
      /\ b.spec = pass.spec /\ b.secret = pass.want[s]
      /\ b.child = bridges[s].child /\ b.stray = bridges[s].stray
  BY <1>1 DEF Bridge
<1> HIDE DEF b
<1>5. bridges' \in [Session -> Bridge] /\ bridges'[s] = b
      /\ \A t \in Session \ {s} : bridges'[t] = bridges[t]
  BY <1>2, <1>3, OneBridge
<1> QED
  BY <1>4, <1>5

LEMMA TypingStartBegins ==
  ASSUME Typing, NEW s \in Session, StartBegins(s) PROVE Typing'
<1>1. pass' \in Pass
  BY DEF StartBegins, Typing, Pass
<1>2. bridges' \in [Session -> Bridge]
  BY StartBeginsBridge
<1> QED
  BY <1>1, <1>2 DEF Typing, StartBegins

LEMMA StartEndsBridge ==
  ASSUME Typing, NEW s \in Session, StartEnds(s)
  PROVE  /\ bridges' \in [Session -> Bridge]
         /\ \/ bridges'[s].on = bridges[s].on /\ bridges'[s].ready /\ bridges'[s].child
            \/ /\ ~bridges'[s].on /\ bridges'[s].ready = bridges[s].ready
               /\ bridges'[s].child = bridges[s].child
         /\ bridges'[s].spec = bridges[s].spec /\ bridges'[s].secret = bridges[s].secret
         /\ bridges'[s].stray = bridges[s].stray
         /\ \A t \in Session \ {s} : bridges'[t] = bridges[t]
<1> DEFINE b == [bridges[s] EXCEPT !.ready = TRUE, !.child = TRUE]
           c == [bridges[s] EXCEPT !.on = FALSE]
<1>1. bridges[s] \in Bridge
  BY DEF Typing
<1>2. \/ bridges' = [bridges EXCEPT ![s].ready = TRUE, ![s].child = TRUE]
      \/ bridges' = [bridges EXCEPT ![s].on = FALSE]
  BY DEF StartEnds
<1>3. bridges' = [bridges EXCEPT ![s] = b] \/ bridges' = [bridges EXCEPT ![s] = c]
  BY <1>2
<1>4. /\ b \in Bridge /\ b.on = bridges[s].on /\ b.ready /\ b.child
      /\ b.spec = bridges[s].spec /\ b.secret = bridges[s].secret /\ b.stray = bridges[s].stray
  BY <1>1 DEF Bridge
<1>5. /\ c \in Bridge /\ ~c.on /\ c.ready = bridges[s].ready /\ c.child = bridges[s].child
      /\ c.spec = bridges[s].spec /\ c.secret = bridges[s].secret /\ c.stray = bridges[s].stray
  BY <1>1 DEF Bridge
<1> HIDE DEF b, c
<1>6. /\ bridges' \in [Session -> Bridge] /\ (bridges'[s] = b \/ bridges'[s] = c)
      /\ \A t \in Session \ {s} : bridges'[t] = bridges[t]
  BY <1>3, <1>4, <1>5, OneBridge
<1> QED
  BY <1>4, <1>5, <1>6

LEMMA TypingStartEnds ==
  ASSUME Typing, NEW s \in Session, StartEnds(s) PROVE Typing'
<1>1. bridges' \in [Session -> Bridge]
  BY StartEndsBridge
<1>2. faults' \in 0..MaxFaults
  BY ServersAssumption DEF StartEnds, Typing, Works, Fails
<1> QED
  BY <1>1, <1>2 DEF Typing, StartEnds

LEMMA TypingPassEnds ==
  ASSUME Typing, PassEnds PROVE Typing'
<1>1. resolve' \in [Session -> Resolve]
  <2>1. CASE pass.for = "nobody"
    BY <2>1 DEF PassEnds, Typing
  <2>2. CASE pass.for # "nobody"
    <3>1. pass.for \in Session /\ resolve[pass.for] \in Resolve
      BY <2>2 DEF Typing, Pass, Somebody
    <3>2. [resolve[pass.for] EXCEPT !.at = "serve"] \in Resolve
      BY <3>1 DEF Resolve
    <3> QED
      BY <2>2, <3>1, <3>2 DEF PassEnds, Typing
  <2> QED
    BY <2>1, <2>2
<1> QED
  BY <1>1, Zero DEF Typing, PassEnds

LEMMA OneRequest ==
  ASSUME Typing, NEW s \in Session, NEW r \in Request, NEW v,
         request' = [request EXCEPT ![s][r] = v]
  PROVE  /\ v \in {"idle", "spawn", "late", "sent"} =>
              request' \in [Session -> [Request -> {"idle", "spawn", "late", "sent"}]]
         /\ \A t \in Session, q \in Request :
              request'[t][q] = IF t = s /\ q = r THEN v ELSE request[t][q]
<1>1. request[s] \in [Request -> {"idle", "spawn", "late", "sent"}]
  BY DEF Typing
<1>2. request' = [request EXCEPT ![s] = [request[s] EXCEPT ![r] = v]]
  OBVIOUS
<1> QED
  BY <1>1, <1>2 DEF Typing

LEMMA TypingRequest ==
  ASSUME Typing, NEW s \in Session, NEW r \in Request, Post(s, r) \/ Settle(s, r) PROVE Typing'
<1>1. PICK v \in {"idle", "spawn", "late", "sent"} : request' = [request EXCEPT ![s][r] = v]
  BY DEF Post, Settle
<1>2. request' \in [Session -> [Request -> {"idle", "spawn", "late", "sent"}]]
  BY <1>1, OneRequest
<1> QED
  BY <1>2 DEF Typing, Post, Settle

LEMMA RespawnBridge ==
  ASSUME Typing, NEW s \in Session, NEW r \in Request, Respawn(s, r)
  PROVE  /\ bridges' \in [Session -> Bridge]
         /\ \/ bridges' = bridges
            \/ /\ request[s][r] = "spawn" /\ bridges'[s].child
               /\ ~bridges[s].child => bridges'[s].stray = bridges[s].stray
               /\ bridges'[s].on = bridges[s].on /\ bridges'[s].ready = bridges[s].ready
               /\ bridges'[s].spec = bridges[s].spec /\ bridges'[s].secret = bridges[s].secret
               /\ \A t \in Session \ {s} : bridges'[t] = bridges[t]
<1> DEFINE n == IF bridges[s].child THEN bridges[s].stray + 1 ELSE bridges[s].stray
           b == [bridges[s] EXCEPT !.child = TRUE, !.stray = n]
<1>1. bridges[s] \in Bridge /\ bridges \in [Session -> Bridge]
  BY DEF Typing
<1>2. n \in Nat /\ (~bridges[s].child => n = bridges[s].stray)
  BY <1>1 DEF Bridge
<1>3. \/ bridges' = bridges
      \/ request[s][r] = "spawn" /\ bridges' = [bridges EXCEPT ![s] = b]
  BY DEF Respawn
<1> HIDE DEF n
<1>4. /\ b \in Bridge /\ b.child /\ b.stray = n
      /\ b.on = bridges[s].on /\ b.ready = bridges[s].ready
      /\ b.spec = bridges[s].spec /\ b.secret = bridges[s].secret
  BY <1>1, <1>2 DEF Bridge
<1> HIDE DEF b
<1>5. \/ bridges' = bridges
      \/ /\ request[s][r] = "spawn" /\ bridges' \in [Session -> Bridge] /\ bridges'[s] = b
         /\ \A t \in Session \ {s} : bridges'[t] = bridges[t]
  BY <1>3, <1>4, OneBridge
<1> QED
  BY <1>1, <1>2, <1>4, <1>5

LEMMA TypingRespawn ==
  ASSUME Typing, NEW s \in Session, NEW r \in Request, Respawn(s, r) PROVE Typing'
<1>1. bridges' \in [Session -> Bridge]
  BY RespawnBridge
<1>2. request' \in [Session -> [Request -> {"idle", "spawn", "late", "sent"}]]
  <2>1. PICK v \in {"idle", "spawn", "late", "sent"} : request' = [request EXCEPT ![s][r] = v]
    BY DEF Respawn
  <2> QED
    BY <2>1, OneRequest
<1> QED
  BY <1>1, <1>2 DEF Typing, Respawn

LEMMA DiesBridge ==
  ASSUME Typing, NEW s \in Session, Dies(s)
  PROVE  /\ bridges' \in [Session -> Bridge]
         /\ bridges'[s].on = bridges[s].on /\ bridges'[s].ready = bridges[s].ready
         /\ bridges'[s].spec = bridges[s].spec /\ bridges'[s].secret = bridges[s].secret
         /\ ~bridges'[s].child /\ bridges'[s].stray = bridges[s].stray
         /\ \A t \in Session \ {s} : bridges'[t] = bridges[t]
<1> DEFINE b == [bridges[s] EXCEPT !.child = FALSE]
<1>1. bridges[s] \in Bridge
  BY DEF Typing, Pass
<1>2. bridges' = [bridges EXCEPT ![s] = b]
  BY DEF Dies
<1>3. b \in Bridge
  BY <1>1 DEF Bridge
<1>4. /\ b.on = bridges[s].on /\ b.ready = bridges[s].ready
      /\ b.spec = bridges[s].spec /\ b.secret = bridges[s].secret
      /\ ~b.child /\ b.stray = bridges[s].stray
  BY <1>1 DEF Bridge
<1> HIDE DEF b
<1>5. bridges' \in [Session -> Bridge] /\ bridges'[s] = b
      /\ \A t \in Session \ {s} : bridges'[t] = bridges[t]
  BY <1>2, <1>3, OneBridge
<1> QED
  BY <1>4, <1>5

LEMMA TypingDies ==
  ASSUME Typing, NEW s \in Session, Dies(s) PROVE Typing'
<1>1. bridges' \in [Session -> Bridge]
  BY DiesBridge
<1>2. faults' \in 0..MaxFaults
  BY ServersAssumption DEF Dies, Typing, Fails
<1> QED
  BY <1>1, <1>2, AllFailTyped DEF Typing, Dies

LEMMA TypingEdit ==
  ASSUME Typing, Edit PROVE Typing'
<1>1. registry' \in Entry /\ edits' \in 0..MaxEdits
  BY ServersAssumption DEF Edit, Typing, Entry, Version
<1>2. session' \in [Session -> Attached]
  <2>1. CASE UNCHANGED session
    BY <2>1 DEF Typing
  <2>2. CASE \E s \in Session, local \in BOOLEAN, mode \in Mode :
               session' = [session EXCEPT ![s].local = local, ![s].builtin = mode]
    <3>1. PICK s \in Session, local \in BOOLEAN, mode \in Mode :
            session' = [session EXCEPT ![s].local = local, ![s].builtin = mode]
      BY <2>2
    <3>2. session[s] \in Attached
      BY DEF Typing
    <3>3. [session[s] EXCEPT !.local = local, !.builtin = mode] \in Attached
      BY <3>2 DEF Attached
    <3> QED
      BY <3>1, <3>3 DEF Typing
  <2> QED
    BY <2>1, <2>2 DEF Edit
<1>3. resolve' \in [Session -> Resolve]
  BY <1>1 DEF Edit, Typing, Resolve
<1> QED
  BY <1>1, <1>2, <1>3 DEF Typing, Edit

LEMMA TypingStep ==
  ASSUME Typing, [Next]_vars
  PROVE  Typing'
<1>1. CASE UNCHANGED vars
  BY <1>1 DEF vars, Typing
<1>2. CASE PassStep
  BY <1>2, TypingPassBegins, TypingPassReads, TypingPassTurns, TypingStopEnds, TypingPassEnds,
     TypingPassResolves, TypingStopBegins, TypingStartBegins, TypingStartEnds DEF PassStep
<1>3. CASE \E s \in Session : \/ Attach(s) \/ SessionStep(s) \/ Detach(s) \/ Dies(s)
                              \/ BridgeStep(s) \/ \E r \in Request : Post(s, r)
  BY <1>3, TypingAttach, TypingResolveReads, TypingServe, TypingDetach, TypingDies,
     TypingRespawn, TypingRequest DEF SessionStep, BridgeStep
<1> QED
  BY <1>1, <1>2, <1>3, TypingEdit DEF Next

-----------------------------------------------------------------------------
(* The line of passes.                                                       *)

LEMMA InLineInit == Init => InLine
BY ServersAssumption DEF Init, InLine, Queued, NoPass

(* Nobody joins, nobody leaves.                                              *)
LEMMA LineStays ==
  ASSUME InLine, queue' = queue, pass'.for = pass.for, pass'.at = "idle" => pass' = NoPass,
         \A s \in Session : resolve[s].at = "wait" => resolve'[s].at = "wait"
  PROVE  InLine'
BY DEF InLine, Queued

LEMMA LineResolves ==
  ASSUME Typing, InLine, NEW s \in Session, ResolveReads(s)
  PROVE  InLine'
<1>1. /\ resolve[s].at = "read" /\ queue' = Append(queue, s) /\ pass' = pass
      /\ queue \in Seq(Somebody) /\ s \in Somebody
  BY DEF ResolveReads, Typing, Somebody
<1>2. \A t \in Session : resolve'[t].at = IF t = s THEN "wait" ELSE resolve[t].at
  BY DEF ResolveReads, Typing, Resolve
<1>3. /\ Len(queue) \in Nat /\ Len(queue') = Len(queue) + 1
      /\ \A i \in 1..Len(queue) : queue'[i] = queue[i]
      /\ queue'[Len(queue) + 1] = s
  BY <1>1, AppendProperties, LenProperties
<1>4. ~Queued(s) /\ pass.for # s
  BY <1>1 DEF InLine
<1>5. \A i \in 1..Len(queue) : queue[i] # s
  BY <1>4 DEF Queued
<1>6. \A i, j \in 1..Len(queue') : queue'[i] = queue'[j] /\ queue'[i] # "nobody" => i = j
  <2> SUFFICES ASSUME NEW i \in 1..Len(queue'), NEW j \in 1..Len(queue'),
                      queue'[i] = queue'[j], queue'[i] # "nobody"
               PROVE  i = j
    OBVIOUS
  <2>1. CASE i \in 1..Len(queue) /\ j \in 1..Len(queue)
    BY <2>1, <1>3 DEF InLine
  <2>2. CASE i = Len(queue) + 1 \/ j = Len(queue) + 1
    BY <2>2, <1>3, <1>5
  <2> QED
    BY <2>1, <2>2, <1>3
<1>7. \A t \in Session : Queued(t)' => t = s \/ Queued(t)
  BY <1>3 DEF Queued
<1> QED
  BY <1>1, <1>2, <1>4, <1>6, <1>7 DEF InLine

LEMMA LineDetaches ==
  ASSUME Typing, InLine, NEW s \in Session, Detach(s)
  PROVE  InLine'
<1>1. pass' = pass /\ resolve' = resolve /\ queue \in Seq(Somebody) /\ "nobody" \in Somebody
  BY DEF Detach, Typing, Somebody
<1>2. CASE queue' = queue
  BY <1>1, <1>2, LineStays DEF InLine
<1>3. CASE queue' = Append(queue, "nobody")
  <2>1. /\ Len(queue) \in Nat /\ Len(queue') = Len(queue) + 1
        /\ \A i \in 1..Len(queue) : queue'[i] = queue[i]
        /\ queue'[Len(queue) + 1] = "nobody"
    BY <1>1, <1>3, AppendProperties, LenProperties
  <2>2. \A i \in 1..Len(queue') : i \in 1..Len(queue) \/ i = Len(queue) + 1
    BY <2>1
  <2>3. \A t \in Session : Queued(t)' => Queued(t)
    BY <2>1, <2>2, ServersAssumption DEF Queued
  <2>4. \A i, j \in 1..Len(queue') : queue'[i] = queue'[j] /\ queue'[i] # "nobody" => i = j
    BY <2>1, <2>2 DEF InLine
  <2> QED
    BY <1>1, <2>3, <2>4 DEF InLine
<1> QED
  BY <1>2, <1>3 DEF Detach

(* A pass that begins is the one that waited longest.                        *)
LEMMA LineBegins ==
  ASSUME Typing, InLine, PassBegins
  PROVE  InLine'
<1>1. /\ queue # <<>> /\ queue' = Tail(queue) /\ pass'.for = Head(queue)
      /\ pass'.at = "registry" /\ resolve' = resolve /\ queue \in Seq(Somebody)
  BY DEF PassBegins, Typing, NoPass
<1>2. /\ Len(queue) \in Nat \ {0} /\ Len(queue') = Len(queue) - 1
      /\ \A i \in 1..Len(queue') : queue'[i] = queue[i + 1]
      /\ pass'.for = queue[1]
  BY <1>1, HeadTailProperties, EmptySeq
<1>3. \A i \in 1..Len(queue') : i + 1 \in 1..Len(queue)
  BY <1>2
<1>4. \A t \in Session : Queued(t)' => Queued(t) /\ pass'.for # t
  <2> SUFFICES ASSUME NEW t \in Session, NEW i \in 1..Len(queue'), queue'[i] = t
               PROVE  Queued(t) /\ pass'.for # t
    BY DEF Queued
  <2>1. i + 1 \in 1..Len(queue) /\ 1 \in 1..Len(queue) /\ queue[i + 1] = t /\ t # "nobody"
    BY <1>2, <1>3, ServersAssumption
  <2>2. queue[1] # t
    BY <2>1 DEF InLine
  <2> QED
    BY <1>2, <2>1, <2>2 DEF Queued
<1>5. \A t \in Session : pass'.for = t => resolve[t].at = "wait"
  <2>1. 1 \in 1..Len(queue)
    BY <1>2
  <2> QED
    BY <1>2, <2>1 DEF InLine, Queued
<1>6. \A i, j \in 1..Len(queue') : queue'[i] = queue'[j] /\ queue'[i] # "nobody" => i = j
  BY <1>2, <1>3 DEF InLine
<1> QED
  BY <1>1, <1>4, <1>5, <1>6 DEF InLine

LEMMA LineEnds ==
  ASSUME Typing, InLine, PassEnds
  PROVE  InLine'
<1>1. pass' = NoPass /\ queue' = queue /\ NoPass.for = "nobody" /\ "nobody" \notin Session
  BY ServersAssumption DEF PassEnds, NoPass
<1>2. \A s \in Session : pass.for # s => resolve'[s] = resolve[s]
  BY DEF PassEnds, Typing
<1>3. \A s \in Session : Queued(s)' <=> Queued(s)
  BY <1>1 DEF Queued
<1> QED
  BY <1>1, <1>2, <1>3 DEF InLine

LEMMA InLineStep ==
  ASSUME Typing, InLine, [Next]_vars
  PROVE  InLine'
<1>1. CASE UNCHANGED vars
  BY <1>1, LineStays DEF vars, InLine
<1>2. CASE PassReads \/ PassTurns \/ StopsDone \/ StopEnds
           \/ \E s \in Session : PassResolves(s) \/ StopBegins(s) \/ StartBegins(s)
  <2>1. UNCHANGED <<queue, resolve>>
    BY <1>2 DEF PassReads, PassTurns, StopsDone, StopEnds, PassResolves, StopBegins, StartBegins
  <2>2. pass'.for = pass.for /\ (pass'.at = "idle" => pass.at = "idle" /\ pass.stopping # "nobody")
    BY <1>2 DEF PassReads, PassTurns, StopsDone, StopEnds, PassResolves, StopBegins,
                StartBegins, Typing, Pass
  <2>3. pass.at = "idle" => pass.stopping = "nobody"
    BY DEF InLine, NoPass
  <2> QED
    BY <2>1, <2>2, <2>3, LineStays
<1>3. CASE \E s \in Session : \/ StartEnds(s) \/ Dies(s)
                              \/ \E r \in Request : Post(s, r) \/ Respawn(s, r) \/ Settle(s, r)
  <2>1. UNCHANGED <<queue, resolve, pass>>
    BY <1>3 DEF StartEnds, Dies, Post, Respawn, Settle
  <2> QED
    BY <2>1, LineStays DEF InLine
<1>4. CASE \E s \in Session : Attach(s) \/ Serve(s)
  <2>1. PICK s \in Session : Attach(s) \/ Serve(s)
    BY <1>4
  <2>2. UNCHANGED <<queue, pass>> /\ resolve[s].at \in {"idle", "serve"}
    BY <2>1 DEF Attach, Serve
  <2>3. \A t \in Session : t # s => resolve'[t] = resolve[t]
    BY <2>1 DEF Attach, Serve, Typing
  <2> QED
    BY <2>2, <2>3, LineStays DEF InLine
<1>5. CASE Edit
  <2>1. UNCHANGED <<queue, pass>>
    BY <1>5 DEF Edit
  <2>2. \A t \in Session : resolve'[t].at = resolve[t].at
    BY <1>5 DEF Edit, Typing, Resolve
  <2> QED
    BY <2>1, <2>2, LineStays DEF InLine
<1> QED
  BY <1>1, <1>2, <1>3, <1>4, <1>5, LineResolves, LineDetaches, LineBegins, LineEnds
  DEF Next, PassStep, SessionStep, BridgeStep

-----------------------------------------------------------------------------
(* Bridges and processes.                                                    *)

LEMMA BridgedInit == Init => Bridged
BY DEF Init, Bridged, NoPass, NoBridge

LEMMA BridgedStays ==
  ASSUME Bridged, bridges' = bridges, pass'.stopping = pass.stopping,
         pass.stopping # "nobody" => pass'.at = "stops",
         \A s \in Session, r \in Request : request'[s][r] = "spawn" => request[s][r] = "spawn"
  PROVE  Bridged'
BY DEF Bridged

LEMMA BridgedStopBegins ==
  ASSUME Typing, Bridged, NEW s \in Session, StopBegins(s)
  PROVE  Bridged'
<1>1. pass.at = "stops" /\ pass'.at = "stops" /\ pass.stopping = "nobody" /\ pass'.stopping = s
  BY DEF StopBegins, Typing, Pass
<1>2. /\ ~bridges'[s].on /\ ~bridges'[s].ready /\ bridges'[s].child = bridges[s].child
      /\ \A t \in Session \ {s} : bridges'[t] = bridges[t]
  BY StopBeginsBridge
<1>3. \A t \in Session, r \in Request :
        request'[t][r] = "spawn" => request[t][r] = "spawn" /\ t # s
  BY AllFailTyped DEF StopBegins
<1> QED
  BY <1>1, <1>2, <1>3, ServersAssumption DEF Bridged

LEMMA BridgedStopEnds ==
  ASSUME Typing, Bridged, StopEnds
  PROVE  Bridged'
<1> DEFINE s == pass.stopping
<1>1. pass'.stopping = "nobody" /\ request' = request /\ s \in Session
  BY Stopping DEF StopEnds, Typing, Pass
<1>2. /\ bridges'[s].on = bridges[s].on /\ bridges'[s].ready = bridges[s].ready
      /\ ~bridges'[s].child
      /\ \A t \in Session \ {s} : bridges'[t] = bridges[t]
  BY StopEndsBridge, Stopping
<1> QED
  BY <1>1, <1>2 DEF Bridged

LEMMA BridgedStartBegins ==
  ASSUME Typing, Bridged, NEW s \in Session, StartBegins(s)
  PROVE  Bridged'
<1>1. pass.at = "starts" /\ pass'.at = "starts" /\ pass'.stopping = pass.stopping
      /\ request' = request
  BY DEF StartBegins, Typing, Pass
<1>2. /\ bridges'[s].on /\ bridges'[s].ready = bridges[s].ready
      /\ bridges'[s].child = bridges[s].child
      /\ \A t \in Session \ {s} : bridges'[t] = bridges[t]
  BY StartBeginsBridge
<1> QED
  BY <1>1, <1>2 DEF Bridged

LEMMA BridgedStartEnds ==
  ASSUME Typing, Bridged, NEW s \in Session, StartEnds(s)
  PROVE  Bridged'
<1>1. pass.at = "starts" /\ pass' = pass /\ request' = request /\ bridges[s].on
      /\ ~bridges[s].ready
  BY DEF StartEnds
<1>2. \/ bridges'[s].on = bridges[s].on /\ bridges'[s].ready /\ bridges'[s].child
      \/ bridges'[s].ready = bridges[s].ready /\ bridges'[s].child = bridges[s].child
  BY StartEndsBridge
<1>3. \A t \in Session \ {s} : bridges'[t] = bridges[t]
  BY StartEndsBridge
<1> QED
  BY <1>1, <1>2, <1>3 DEF Bridged

LEMMA BridgedPost ==
  ASSUME Typing, Bridged, NEW s \in Session, NEW r \in Request, Post(s, r)
  PROVE  Bridged'
<1>1. bridges' = bridges /\ pass' = pass /\ bridges[s].ready
  BY DEF Post
<1>2. PICK v \in {"sent", "spawn"} : request' = [request EXCEPT ![s][r] = v]
  BY DEF Post
<1>3. \A t \in Session, q \in Request :
        request'[t][q] = IF t = s /\ q = r THEN v ELSE request[t][q]
  BY <1>2, OneRequest
<1> QED
  BY <1>1, <1>3 DEF Bridged

LEMMA BridgedRespawn ==
  ASSUME Typing, Bridged, NEW s \in Session, NEW r \in Request, Respawn(s, r)
  PROVE  Bridged'
<1>1. pass' = pass
  BY DEF Respawn
<1>2. PICK v \in {"sent", "idle"} : request' = [request EXCEPT ![s][r] = v]
  BY DEF Respawn
<1>3. \A t \in Session, q \in Request : request'[t][q] = "spawn" => request[t][q] = "spawn"
  BY <1>2, OneRequest
<1>4. CASE bridges' = bridges
  BY <1>1, <1>3, <1>4, BridgedStays DEF Bridged
<1>5. CASE request[s][r] = "spawn"
  <2>1. bridges[s].ready
    BY <1>5 DEF Bridged
  <2>2. /\ bridges'[s].on = bridges[s].on /\ bridges'[s].ready = bridges[s].ready
        /\ \A t \in Session \ {s} : bridges'[t] = bridges[t]
    BY <1>5, RespawnBridge
  <2> QED
    BY <1>1, <1>3, <2>1, <2>2 DEF Bridged
<1> QED
  BY <1>4, <1>5, RespawnBridge

LEMMA BridgedDies ==
  ASSUME Typing, Bridged, NEW s \in Session, Dies(s)
  PROVE  Bridged'
<1>1. pass' = pass
  BY DEF Dies
<1>2. \A t \in Session, r \in Request : request'[t][r] = "spawn" => request[t][r] = "spawn"
  BY AllFailTyped DEF Dies
<1>3. /\ bridges'[s].on = bridges[s].on /\ bridges'[s].ready = bridges[s].ready
      /\ ~bridges'[s].child
      /\ \A t \in Session \ {s} : bridges'[t] = bridges[t]
  BY DiesBridge
<1> QED
  BY <1>1, <1>2, <1>3 DEF Bridged

LEMMA BridgedStep ==
  ASSUME Typing, InLine, Bridged, [Next]_vars
  PROVE  Bridged'
<1>1. CASE \/ UNCHANGED vars \/ Edit
           \/ \E s \in Session : Attach(s) \/ ResolveReads(s) \/ Serve(s) \/ Detach(s)
  <2>1. UNCHANGED <<bridges, request, pass>>
    BY <1>1 DEF vars, Edit, Attach, ResolveReads, Serve, Detach
  <2> QED
    BY <2>1, BridgedStays DEF Bridged
<1>2. CASE PassBegins \/ PassEnds
  <2>1. UNCHANGED <<bridges, request>> /\ pass.at # "stops"
    BY <1>2 DEF PassBegins, PassEnds
  <2>2. CASE PassBegins
    <3>1. pass' = [NoPass EXCEPT !.at = "registry", !.for = Head(queue),
                                 !.snap = {s \in Session : holders[s] = "local"}]
      BY <2>2 DEF PassBegins
    <3>2. pass'.stopping = NoPass.stopping
      BY <3>1, Zero DEF Pass
    <3> QED
      BY <2>1, <2>2, <3>2, BridgedStays DEF Bridged, InLine, PassBegins
  <2>3. CASE PassEnds
    <3>1. pass'.stopping = "nobody"
      BY <2>3 DEF PassEnds, NoPass
    <3> QED
      BY <2>1, <3>1, BridgedStays DEF Bridged
  <2> QED
    BY <1>2, <2>2, <2>3
<1>3. CASE PassReads \/ PassTurns \/ StopsDone \/ \E s \in Session : PassResolves(s)
  <2>1. UNCHANGED <<bridges, request>> /\ pass'.stopping = pass.stopping
    BY <1>3 DEF PassReads, PassTurns, StopsDone, PassResolves, Typing, Pass
  <2>2. pass.stopping = "nobody"
    BY <1>3 DEF PassReads, PassTurns, StopsDone, PassResolves, Bridged
  <2> QED
    BY <2>1, <2>2, BridgedStays
<1>4. CASE \E s \in Session, r \in Request : Settle(s, r)
  <2>1. PICK s \in Session, r \in Request : Settle(s, r)
    BY <1>4
  <2>2. UNCHANGED <<bridges, pass>> /\ request' = [request EXCEPT ![s][r] = "idle"]
    BY <2>1 DEF Settle
  <2>3. \A t \in Session, q \in Request : request'[t][q] = "spawn" => request[t][q] = "spawn"
    BY <2>2, OneRequest
  <2> QED
    BY <2>2, <2>3, BridgedStays DEF Bridged
<1> QED
  BY <1>1, <1>2, <1>3, <1>4, BridgedStopBegins, BridgedStopEnds, BridgedStartBegins,
     BridgedStartEnds, BridgedPost, BridgedRespawn, BridgedDies
  DEF Next, PassStep, SessionStep, BridgeStep

-----------------------------------------------------------------------------
(* One process: without overlapping requests.                                *)

LEMMA SingleStays ==
  ASSUME Single,
         \A s \in Session : bridges'[s].stray = bridges[s].stray
                            /\ (bridges'[s].child => bridges[s].child),
         \A s \in Session, r \in Request : request'[s][r] = "spawn" => request[s][r] = "spawn"
  PROVE  Single'
BY DEF Single

LEMMA SingleStep ==
  ASSUME Typing, InLine, Bridged, Single, [Next]_vars, \A q, r \in Request : q = r
  PROVE  Single'
<1>1. CASE UNCHANGED <<bridges, request>>
  BY <1>1, SingleStays
<1>2. ASSUME NEW s \in Session, StopBegins(s)
      PROVE  Single'
  <2>1. \A t \in Session : /\ bridges'[t].stray = bridges[t].stray
                           /\ bridges'[t].child = bridges[t].child
    BY <1>2, StopBeginsBridge
  <2> QED
    BY <1>2, <2>1, AllFailTyped, SingleStays DEF StopBegins
<1>3. CASE StopEnds
  <2> DEFINE s == pass.stopping
  <2>0. s \in Session
    BY <1>3, Stopping
  <2>1. \A t \in Session : /\ bridges'[t].stray = bridges[t].stray
                           /\ bridges'[t].child => bridges[t].child
    BY <1>3, <2>0, StopEndsBridge
  <2> QED
    BY <1>3, <2>1, SingleStays DEF StopEnds
<1>4. ASSUME NEW s \in Session, StartBegins(s)
      PROVE  Single'
  <2>1. \A t \in Session : /\ bridges'[t].stray = bridges[t].stray
                           /\ bridges'[t].child = bridges[t].child
    BY <1>4, StartBeginsBridge
  <2> QED
    BY <1>4, <2>1, SingleStays DEF StartBegins
<1>5. ASSUME NEW s \in Session, StartEnds(s)
      PROVE  Single'
  <2>1. ~bridges[s].ready /\ request' = request
    BY <1>5 DEF StartEnds
  <2>2. \A r \in Request : request[s][r] # "spawn"
    BY <2>1 DEF Bridged
  <2>3. bridges'[s].stray = bridges[s].stray /\ \A t \in Session \ {s} : bridges'[t] = bridges[t]
    BY <1>5, StartEndsBridge
  <2> QED
    BY <2>1, <2>2, <2>3 DEF Single
<1>6. ASSUME NEW s \in Session, NEW r \in Request, Post(s, r)
      PROVE  Single'
  <2>1. /\ bridges' = bridges
        /\ request' = [request EXCEPT ![s][r] = IF bridges[s].child THEN "sent" ELSE "spawn"]
    BY <1>6 DEF Post
  <2>2. \A t \in Session, q \in Request :
          request'[t][q] = IF t = s /\ q = r THEN IF bridges[s].child THEN "sent" ELSE "spawn"
                           ELSE request[t][q]
    BY <2>1, OneRequest, ZenonT(40)
  <2> QED
    BY <2>1, <2>2 DEF Single
<1>7. ASSUME NEW s \in Session, NEW r \in Request, Respawn(s, r)
      PROVE  Single'
  <2>1. PICK v \in {"sent", "idle"} : request' = [request EXCEPT ![s][r] = v]
    BY <1>7 DEF Respawn
  <2>2. \A t \in Session, q \in Request :
          request'[t][q] = IF t = s /\ q = r THEN v ELSE request[t][q]
    BY <2>1, OneRequest, ZenonT(40)
  <2>3. CASE bridges' = bridges
    BY <2>2, <2>3, SingleStays
  <2>4. CASE request[s][r] = "spawn"
    <3>1. ~bridges[s].child
      BY <2>4 DEF Single
    <3>2. /\ bridges'[s].stray = bridges[s].stray
          /\ \A t \in Session \ {s} : bridges'[t] = bridges[t]
      BY <1>7, <2>4, <3>1, RespawnBridge
    <3>3. \A q \in Request : request'[s][q] # "spawn"
      BY <2>2
    <3> QED
      BY <2>2, <3>2, <3>3 DEF Single
  <2> QED
    BY <1>7, <2>3, <2>4, RespawnBridge
<1>8. ASSUME NEW s \in Session, NEW r \in Request, Settle(s, r)
      PROVE  Single'
  <2>1. bridges' = bridges /\ request' = [request EXCEPT ![s][r] = "idle"]
    BY <1>8 DEF Settle
  <2>2. \A t \in Session, q \in Request : request'[t][q] = "spawn" => request[t][q] = "spawn"
    BY <2>1, OneRequest
  <2> QED
    BY <2>1, <2>2, SingleStays
<1>9. ASSUME NEW s \in Session, Dies(s)
      PROVE  Single'
  <2>1. \A t \in Session : /\ bridges'[t].stray = bridges[t].stray
                           /\ bridges'[t].child => bridges[t].child
    BY <1>9, DiesBridge
  <2> QED
    BY <1>9, <2>1, AllFailTyped, SingleStays DEF Dies
<1>10. CASE \/ UNCHANGED vars \/ Edit \/ PassBegins \/ PassEnds
            \/ PassReads \/ PassTurns \/ StopsDone \/ \E s \in Session : PassResolves(s)
            \/ \E s \in Session : Attach(s) \/ ResolveReads(s) \/ Serve(s) \/ Detach(s)
  BY <1>1, <1>10 DEF vars, Edit, Attach, ResolveReads, Serve, Detach, PassBegins, PassEnds,
                     PassReads, PassTurns, StopsDone, PassResolves
<1> QED
  BY <1>2, <1>3, <1>4, <1>5, <1>6, <1>7, <1>8, <1>9, <1>10
  DEF Next, PassStep, SessionStep, BridgeStep

LEMMA SingleInit == Init => Single
BY DEF Init, Single, NoBridge

-----------------------------------------------------------------------------
(* What is told is what the user had.                                        *)

LEMMA CurrentInit == Init => Current
BY ServersAssumption DEF Init, Current, NoPass, Aside

(* A step of the bridges that sets up none anew.                             *)
LEMMA CurrentBridges ==
  ASSUME Current, registry' = registry, resolve' = resolve, pass'.at = pass.at,
         pass'.for = pass.for, pass'.snap = pass.snap, pass'.spec = pass.spec,
         pass'.want = pass.want,
         \A t \in Session : bridges'[t].on => /\ bridges[t].on
                                              /\ bridges'[t].spec = bridges[t].spec
                                              /\ bridges'[t].secret = bridges[t].secret
  PROVE  Current'
<1>1. \A s \in Session : (Follows(s) => Follows(s)') /\ (Serves(s) => Serves(s)')
  BY DEF Follows, Serves, Saw, Knows
<1>2. \A t \in Session : Wrong(t)' => Wrong(t)
  BY DEF Wrong, Wants
<1> QED
  BY <1>1, <1>2 DEF Current

(* A step of an attach before it goes on, or after.                          *)
LEMMA CurrentAttaches ==
  ASSUME Current, registry' = registry, pass' = pass, bridges' = bridges,
         \A t \in Session : /\ resolve'[t].at # "idle" => registry \in resolve'[t].since
                            /\ resolve'[t].at = "serve" \/ pass.for = t =>
                                 resolve'[t].since = resolve[t].since
                            /\ resolve'[t].at = "serve" => resolve[t].at = "serve"
  PROVE  Current'
<1>1. \A s \in Session : resolve'[s].at = "serve" \/ pass.for = s =>
                           (Follows(s) => Follows(s)') /\ (Serves(s) => Serves(s)')
  BY DEF Follows, Serves, Saw, Knows
<1>2. \A t \in Session : Wrong(t)' <=> Wrong(t)
  BY DEF Wrong, Wants
<1> QED
  BY <1>1, <1>2 DEF Current

LEMMA CurrentSession ==
  ASSUME Typing, InLine, Current, NEW s \in Session, Attach(s) \/ ResolveReads(s) \/ Serve(s)
  PROVE  Current'
<1>1. UNCHANGED <<registry, pass, bridges>>
  BY DEF Attach, ResolveReads, Serve
<1>2. \A t \in Session \ {s} : resolve'[t] = resolve[t]
  BY DEF Attach, ResolveReads, Serve, Typing
<1>3. CASE Attach(s)
  <2>1. resolve'[s].at = "read" /\ resolve'[s].since = {registry} /\ resolve[s].at = "idle"
    BY <1>3 DEF Attach, Typing
  <2> QED
    BY <1>1, <1>2, <2>1, CurrentAttaches DEF Current, InLine
<1>4. CASE ResolveReads(s)
  <2>1. resolve[s] \in Resolve
    BY DEF Typing
  <2>2. resolve'[s] = [resolve[s] EXCEPT !.at = "wait",
                                         !.local = resolve[s].local /\ registry.spec # 0]
    BY <1>4 DEF ResolveReads, Typing
  <2>3. \A v : /\ [resolve[s] EXCEPT !.at = "wait", !.local = v].at = "wait"
               /\ [resolve[s] EXCEPT !.at = "wait", !.local = v].since = resolve[s].since
    BY <2>1 DEF Resolve
  <2>4. /\ resolve'[s].at = "wait" /\ resolve'[s].since = resolve[s].since
        /\ resolve[s].at = "read"
    BY <1>4, <2>2, <2>3 DEF ResolveReads
  <2> QED
    BY <1>1, <1>2, <2>4, CurrentAttaches DEF Current
<1>5. CASE Serve(s)
  <2>1. resolve'[s].at = "idle" /\ resolve[s].at = "serve"
    BY <1>5 DEF Serve, Typing, Aside
  <2> QED
    BY <1>1, <1>2, <2>1, CurrentAttaches DEF Current, InLine
<1> QED
  BY <1>3, <1>4, <1>5

(* An edit is one more thing that everybody who attaches has seen.           *)
LEMMA CurrentEdit ==
  ASSUME Typing, InLine, Current, Edit
  PROVE  Current'
<1>1. pass' = pass /\ bridges' = bridges
  BY DEF Edit
<1>2. \A s \in Session :
        /\ resolve[s].at = "idle" => resolve'[s] = resolve[s]
        /\ resolve[s].at # "idle" => resolve'[s] = [resolve[s] EXCEPT !.since = @ \cup {registry'}]
  BY DEF Edit
<1>3. \A s \in Session : /\ resolve'[s].at = resolve[s].at
                         /\ resolve[s].at # "idle" =>
                              resolve'[s].since = resolve[s].since \cup {registry'}
  <2> TAKE s \in Session
  <2> DEFINE is == registry'
  <2>1. resolve[s] \in Resolve
    BY DEF Typing
  <2>2. resolve[s].at # "idle" =>
          resolve'[s] = [resolve[s] EXCEPT !.since = resolve[s].since \cup {is}]
    BY <1>2
  <2> HIDE DEF is
  <2>3. resolve[s].at # "idle" => /\ resolve'[s].at = resolve[s].at
                                 /\ resolve'[s].since = resolve[s].since \cup {is}
    BY <2>1, <2>2 DEF Resolve
  <2> QED
    BY <1>2, <2>3 DEF is
<1>4. \A s \in Session : resolve[s].at # "idle" =>
        (Follows(s) => Follows(s)') /\ (Serves(s) => Serves(s)')
  BY <1>1, <1>3 DEF Follows, Serves, Saw, Knows
<1>5. \A t \in Session : Wrong(t)' <=> Wrong(t)
  BY <1>1 DEF Wrong, Wants
<1> QED
  BY <1>1, <1>3, <1>4, <1>5 DEF Current, InLine

(* A step of a pass up to its starts: it reads what is there.                *)
LEMMA CurrentReads ==
  ASSUME Typing, InLine, Current,
         PassBegins \/ PassReads \/ PassTurns \/ StopsDone \/ \E s \in Session : PassResolves(s)
  PROVE  Current'
<1>1. UNCHANGED <<registry, resolve, bridges>>
  BY DEF PassBegins, PassReads, PassTurns, StopsDone, PassResolves
<1>2. \A s \in Session : Serves(s) => Serves(s)'
  BY <1>1 DEF Serves, Saw, Knows
<1>3. \A s \in Session : resolve[s].at = "serve" \/ pass.for = s =>
        registry \in resolve[s].since
  BY DEF InLine, Current
<1>4. CASE PassBegins
  <2>1. pass' = [NoPass EXCEPT !.at = "registry", !.for = Head(queue),
                               !.snap = {s \in Session : holders[s] = "local"}]
    BY <1>4 DEF PassBegins
  <2>2. pass'.at = "registry" /\ \A t \in Session : pass'.want[t] = 0
    BY <2>1 DEF NoPass
  <2>3. \A s \in Session : Follows(s)'
    BY <2>2 DEF Follows
  <2> QED
    BY <1>1, <1>2, <2>2, <2>3 DEF Current
<1>5. CASE PassReads
  <2>1. /\ pass'.at = "secrets" /\ pass'.for = pass.for /\ pass'.want = pass.want
        /\ pass'.spec = registry.spec
    BY <1>5 DEF PassReads, Typing, Pass
  <2>2. \A s \in Session : resolve[s].at = "serve" \/ pass.for = s => Follows(s)'
    BY <1>1, <1>3, <2>1 DEF Follows, Saw, Knows, Current
  <2> QED
    BY <1>1, <1>2, <2>1, <2>2 DEF Current
<1>6. CASE PassTurns \/ StopsDone
  <2>1. /\ pass'.for = pass.for /\ pass'.want = pass.want /\ pass'.spec = pass.spec
        /\ pass'.snap = pass.snap
        /\ pass.at \in {"secrets", "stops"}
        /\ pass'.at = "starts" => \A t \in Session : ~Wrong(t)
    BY <1>6 DEF PassTurns, StopsDone, Typing, Pass
  <2>2. \A s \in Session : Follows(s) => Follows(s)'
    BY <1>1, <2>1 DEF Follows, Saw, Knows
  <2>3. \A t \in Session : Wrong(t)' <=> Wrong(t)
    BY <1>1, <2>1 DEF Wrong, Wants
  <2> QED
    BY <1>1, <1>2, <2>1, <2>2, <2>3 DEF Current
<1>7. ASSUME NEW s \in Session, PassResolves(s)
      PROVE  Current'
  <2>1. /\ pass'.for = pass.for /\ pass'.spec = pass.spec
        /\ pass.at = "secrets" /\ pass'.at = "secrets"
        /\ \A t \in Session : pass'.want[t] = IF t = s THEN registry.secret ELSE pass.want[t]
    BY <1>7 DEF PassResolves, Typing, Pass
  <2>2. \A t \in Session : resolve[t].at = "serve" \/ pass.for = t => Follows(t)'
    BY <1>1, <1>3, <2>1 DEF Follows, Saw, Knows, Current
  <2> QED
    BY <1>1, <1>2, <2>1, <2>2 DEF Current
<1> QED
  BY <1>4, <1>5, <1>6, <1>7

LEMMA CurrentStarts ==
  ASSUME Typing, InLine, Current, NEW s \in Session, StartBegins(s)
  PROVE  Current'
<1>1. UNCHANGED <<registry, resolve>> /\ pass.at = "starts" /\ Missing(s)
  BY DEF StartBegins
<1>2. /\ pass'.at = pass.at /\ pass'.for = pass.for /\ pass'.snap = pass.snap
      /\ pass'.spec = pass.spec /\ pass'.want = pass.want
  BY DEF StartBegins, Typing, Pass
<1>3. /\ bridges'[s].spec = pass.spec /\ bridges'[s].secret = pass.want[s]
      /\ \A t \in Session \ {s} : bridges'[t] = bridges[t]
  BY StartBeginsBridge
<1>4. \A t \in Session : ~Wrong(t)'
  <2>1. ~Wrong(s)'
    BY <1>1, <1>2, <1>3 DEF Wrong, Wants, Missing
  <2>2. \A t \in Session \ {s} : ~Wrong(t)'
    BY <1>1, <1>2, <1>3 DEF Wrong, Wants, Current
  <2> QED
    BY <2>1, <2>2
<1>5. \A t \in Session : Follows(t) => Follows(t)'
  BY <1>1, <1>2 DEF Follows, Saw, Knows
<1>6. \A t \in Session : resolve[t].at = "serve" => Serves(t)'
  <2>1. resolve[s].at = "serve" => Serves(s)'
    BY <1>1, <1>3 DEF Current, Follows, Serves, Saw, Knows, Missing
  <2>2. \A t \in Session \ {s} : resolve[t].at = "serve" => Serves(t)'
    BY <1>1, <1>3 DEF Current, Serves, Saw, Knows
  <2> QED
    BY <2>1, <2>2
<1> QED
  BY <1>1, <1>2, <1>4, <1>5, <1>6 DEF Current

(* Who queued the pass goes on, and its bridge is the one the pass wants.    *)
LEMMA CurrentEnds ==
  ASSUME Typing, InLine, Current, PassEnds
  PROVE  Current'
<1>1. UNCHANGED <<registry, bridges>> /\ pass.at = "starts" /\ pass' = NoPass
  BY DEF PassEnds
<1>2. \A s \in Session : /\ resolve'[s].since = resolve[s].since
                         /\ resolve'[s].at = IF pass.for = s THEN "serve" ELSE resolve[s].at
  BY ServersAssumption DEF PassEnds, Typing, Resolve
<1>3. \A s \in Session : Follows(s)'
  BY <1>1 DEF Follows, NoPass
<1>4. \A s \in Session : pass.for = s => Serves(s)'
  BY <1>1, <1>2 DEF Current, Follows, Serves, Saw, Knows, Wrong
<1>5. \A s \in Session : Serves(s) => Serves(s)'
  BY <1>1, <1>2 DEF Serves, Saw, Knows
<1>6. \A s \in Session : pass.for = s => resolve[s].at # "idle"
  BY DEF InLine
<1>7. pass'.at # "starts" /\ \A s \in Session : pass'.for # s
  BY <1>1, ServersAssumption DEF NoPass
<1> QED
  BY <1>1, <1>2, <1>3, <1>4, <1>5, <1>6, <1>7 DEF Current

LEMMA CurrentStep ==
  ASSUME Typing, InLine, Current, [Next]_vars
  PROVE  Current'
<1>1. CASE \/ UNCHANGED vars
           \/ \E s \in Session : \/ Detach(s)
                                 \/ \E r \in Request : Post(s, r) \/ Settle(s, r)
  <2>1. UNCHANGED <<registry, resolve, pass, bridges>>
    BY <1>1 DEF vars, Detach, Post, Settle
  <2> QED
    BY <2>1, CurrentBridges
<1>2. ASSUME NEW s \in Session,
             StartEnds(s) \/ Dies(s) \/ \E r \in Request : Respawn(s, r)
      PROVE  Current'
  <2>1. UNCHANGED <<registry, resolve, pass>>
    BY <1>2 DEF StartEnds, Dies, Respawn
  <2>2. bridges[s].on \in BOOLEAN
    BY DEF Typing, Bridge
  <2>3. \A t \in Session : bridges'[t].on => /\ bridges[t].on
                                             /\ bridges'[t].spec = bridges[t].spec
                                             /\ bridges'[t].secret = bridges[t].secret
    <3>1. CASE StartEnds(s)
      BY <2>2, <3>1, StartEndsBridge
    <3>2. CASE Dies(s)
      BY <2>2, <3>2, DiesBridge
    <3>3. CASE \E r \in Request : Respawn(s, r)
      BY <2>2, <3>3, RespawnBridge
    <3> QED
      BY <1>2, <3>1, <3>2, <3>3
  <2> QED
    BY <2>1, <2>3, CurrentBridges
<1>3. ASSUME NEW s \in Session, StopBegins(s)
      PROVE  Current'
  <2>1. /\ UNCHANGED <<registry, resolve>>
        /\ pass'.at = pass.at /\ pass'.for = pass.for /\ pass'.snap = pass.snap
        /\ pass'.spec = pass.spec /\ pass'.want = pass.want
    BY <1>3 DEF StopBegins, Typing, Pass
  <2> QED
    BY <1>3, <2>1, StopBeginsBridge, CurrentBridges
<1>4. CASE StopEnds
  <2>1. /\ UNCHANGED <<registry, resolve>>
        /\ pass'.at = pass.at /\ pass'.for = pass.for /\ pass'.snap = pass.snap
        /\ pass'.spec = pass.spec /\ pass'.want = pass.want
    BY <1>4 DEF StopEnds, Typing, Pass
  <2>2. PICK s \in Session : pass.stopping = s
    BY <1>4, Stopping
  <2>3. bridges[s].on \in BOOLEAN
    BY DEF Typing, Bridge
  <2> QED
    BY <1>4, <2>1, <2>2, <2>3, StopEndsBridge, CurrentBridges
<1> QED
  BY <1>1, <1>2, <1>3, <1>4, CurrentSession, CurrentEdit, CurrentReads, CurrentStarts, CurrentEnds
  DEF Next, PassStep, SessionStep, BridgeStep

-----------------------------------------------------------------------------
(* What is let go of is stopped: no session is stopped while it attaches.    *)

LEMMA ReleasedInit == Init => Released
BY DEF Init, Released, NoBridge, NoPass, Aside

(* A step of a pass, or of a bridge, that is not its start.                  *)
LEMMA ReleasedStays ==
  ASSUME Released, queue' = queue,
         \A s \in Session : /\ session'[s].at = session[s].at /\ builtin'[s] = builtin[s]
                            /\ holders'[s] = holders[s] /\ resolve'[s].at = resolve[s].at
                            /\ s \in pass'.snap => s \in pass.snap
                            /\ bridges'[s].on => bridges[s].on,
         pass.at \in {"registry", "secrets", "stops"} =>
           pass'.at \in {"registry", "secrets", "stops"}
  PROVE  Released'
BY DEF Released

LEMMA ReleasedSession ==
  ASSUME Typing, InLine, Released, ~Overlaps, NEW s \in Session,
         Attach(s) \/ ResolveReads(s) \/ Serve(s) \/ Detach(s)
  PROVE  Released'
<1>1. pass' = pass /\ bridges' = bridges
  BY DEF Attach, ResolveReads, Serve, Detach
<1>2. \A t \in Session \ {s} :
        /\ resolve'[t] = resolve[t] /\ session'[t] = session[t]
        /\ holders'[t] = holders[t] /\ builtin'[t] = builtin[t]
  BY DEF Attach, ResolveReads, Serve, Detach, Typing
<1>3. session[s] \in Attached /\ resolve[s] \in Resolve
  BY DEF Typing
<1>4. CASE Attach(s)
  <2>1. session'[s].at = "waking" /\ holders' = holders /\ queue' = queue
    BY <1>3, <1>4 DEF Attach, Typing, Attached
  <2> QED
    BY <1>1, <1>2, <2>1 DEF Released
<1>5. CASE ResolveReads(s)
  <2>1. session' = session /\ queue' # <<>> /\ resolve[s].at = "read"
    BY <1>5, AppendProperties DEF ResolveReads, Typing, Somebody
  <2> QED
    BY <1>1, <1>2, <2>1 DEF Released
<1>6. CASE Serve(s)
  <2>1. resolve[s].at = "serve" /\ session[s].at = "waking"
    BY <1>6 DEF Serve, Released
  <2>2. /\ resolve'[s].at = "idle" /\ session'[s].at = "up"
        /\ holders' = holders /\ queue' = queue
    BY <1>3, <1>6, <2>1 DEF Serve, Aside, Typing, Attached
  <2> QED
    BY <1>1, <1>2, <2>2 DEF Released
<1>7. CASE Detach(s)
  <2>1. session[s].at = "up" /\ resolve' = resolve
    BY <1>7 DEF Detach
  <2>2. resolve[s].at = "idle"
    BY <2>1 DEF Released
  <2>3. holders'[s] = "none" /\ builtin'[s] = "none"
    BY <1>7 DEF Detach, Typing
  <2>4. CASE holders[s] = "none"
    <3>1. queue' = queue
      BY <1>7, <2>4 DEF Detach
    <3> QED
      BY <1>1, <1>2, <2>1, <2>2, <2>3, <2>4, <3>1 DEF Released
  <2>5. CASE holders[s] # "none"
    <3>1. queue' # <<>>
      BY <1>7, <2>5, AppendProperties, SMTT(30) DEF Detach, Typing, Somebody
    <3> QED
      BY <1>1, <1>2, <2>1, <2>2, <2>3, <3>1 DEF Released
  <2> QED
    BY <2>4, <2>5
<1> QED
  BY <1>4, <1>5, <1>6, <1>7

LEMMA ReleasedPass ==
  ASSUME Typing, InLine, Released, PassBegins \/ PassReads \/ PassTurns \/ StopsDone \/ PassEnds
  PROVE  Released'
<1>1. UNCHANGED <<session, holders, bridges, builtin>>
  BY DEF PassBegins, PassReads, PassTurns, StopsDone, PassEnds
<1>2. CASE PassBegins
  <2>1. pass' = [NoPass EXCEPT !.at = "registry", !.for = Head(queue),
                               !.snap = {s \in Session : holders[s] = "local"}]
    BY <1>2 DEF PassBegins
  <2>2. pass'.at = "registry" /\ pass'.snap = {s \in Session : holders[s] = "local"}
    BY <2>1 DEF NoPass
  <2> QED
    BY <1>1, <1>2, <2>2 DEF Released, PassBegins
<1>3. CASE PassReads \/ PassTurns
  <2>1. /\ pass'.at \in {"secrets", "stops"} /\ pass'.snap = pass.snap
        /\ queue' = queue /\ resolve' = resolve
    BY <1>3 DEF PassReads, PassTurns, Typing, Pass
  <2> QED
    BY <1>1, <2>1, ReleasedStays
<1>4. CASE StopsDone
  <2>1. /\ pass'.snap = pass.snap /\ queue' = queue /\ resolve' = resolve
        /\ \A s \in Session : ~Wrong(s)
    BY <1>4 DEF StopsDone, Typing, Pass
  <2>2. \A s \in Session : bridges[s].on => s \in pass.snap
    BY <2>1 DEF Wrong, Wants
  <2> QED
    BY <1>1, <2>1, <2>2 DEF Released
<1>5. CASE PassEnds
  <2>1. pass' = NoPass /\ queue' = queue /\ pass.at = "starts" /\ NoPass.snap = {}
    BY <1>5 DEF PassEnds, NoPass
  <2>2. \A s \in Session : resolve'[s].at # "idle" => resolve[s].at # "idle"
    BY <1>5 DEF PassEnds, Typing, Resolve, InLine
  <2> QED
    BY <1>1, <2>1, <2>2 DEF Released
<1> QED
  BY <1>2, <1>3, <1>4, <1>5

LEMMA ReleasedBridge ==
  ASSUME Typing, InLine, Released, NEW s \in Session,
         \/ StopBegins(s) \/ StopEnds \/ StartBegins(s) \/ StartEnds(s) \/ Dies(s)
         \/ \E r \in Request : Respawn(s, r)
  PROVE  Released'
<1>1. UNCHANGED <<session, holders, builtin, queue, resolve>>
  BY DEF StopBegins, StopEnds, StartBegins, StartEnds, Dies, Respawn
<1>2. pass'.at = pass.at /\ pass'.snap = pass.snap
  BY DEF StopBegins, StopEnds, StartBegins, StartEnds, Dies, Respawn, Typing, Pass
<1>3. \A t \in Session : bridges[t].on \in BOOLEAN
  BY DEF Typing, Bridge
<1>4. CASE StartBegins(s)
  <2>1. s \in pass.snap /\ \A t \in Session \ {s} : bridges'[t] = bridges[t]
    BY <1>4, StartBeginsBridge DEF StartBegins, Missing, Wants
  <2> QED
    BY <1>1, <1>2, <2>1 DEF Released
<1>5. CASE StopEnds
  <2>1. PICK t \in Session : pass.stopping = t
    BY <1>5, Stopping
  <2>2. \A u \in Session : bridges'[u].on => bridges[u].on
    BY <1>3, <1>5, <2>1, StopEndsBridge
  <2> QED
    BY <1>1, <1>2, <2>2, ReleasedStays
<1>6. CASE StopBegins(s) \/ StartEnds(s) \/ Dies(s) \/ \E r \in Request : Respawn(s, r)
  <2>1. \A t \in Session : bridges'[t].on => bridges[t].on
    <3>1. CASE StopBegins(s)
      BY <1>3, <3>1, StopBeginsBridge
    <3>2. CASE StartEnds(s)
      BY <1>3, <3>2, StartEndsBridge
    <3>3. CASE Dies(s)
      BY <1>3, <3>3, DiesBridge
    <3>4. CASE \E r \in Request : Respawn(s, r)
      BY <1>3, <3>4, RespawnBridge
    <3> QED
      BY <1>6, <3>1, <3>2, <3>3, <3>4
  <2> QED
    BY <1>1, <1>2, <2>1, ReleasedStays
<1> QED
  BY <1>4, <1>5, <1>6

LEMMA ReleasedEdit ==
  ASSUME Typing, Released, Edit
  PROVE  Released'
<1>1. UNCHANGED <<holders, bridges, builtin, pass, queue>>
  BY DEF Edit
<1>2. \A t \in Session : resolve'[t].at = resolve[t].at
  BY DEF Edit, Typing, Resolve
<1>3. \A t \in Session : session'[t].at = session[t].at
  <2>1. CASE session' = session
    BY <2>1
  <2>2. ASSUME NEW s \in Session, NEW local \in BOOLEAN, NEW mode \in Mode,
               session' = [session EXCEPT ![s].local = local, ![s].builtin = mode]
        PROVE  \A t \in Session : session'[t].at = session[t].at
    BY <2>2 DEF Typing, Attached
  <2> QED
    BY <2>1, <2>2 DEF Edit
<1> QED
  BY <1>1, <1>2, <1>3, ReleasedStays

LEMMA ReleasedStep ==
  ASSUME Typing, InLine, Released, ~Overlaps, [Next]_vars
  PROVE  Released'
<1>1. CASE UNCHANGED vars \/ \E s \in Session, r \in Request : Post(s, r) \/ Settle(s, r)
  <2>1. UNCHANGED <<session, holders, bridges, builtin, pass, queue, resolve>>
    BY <1>1 DEF vars, Post, Settle
  <2> QED
    BY <2>1, ReleasedStays
<1>2. ASSUME NEW s \in Session, PassResolves(s)
      PROVE  Released'
  <2>1. /\ UNCHANGED <<session, holders, bridges, builtin, queue, resolve>>
        /\ pass'.at = pass.at /\ pass'.snap = pass.snap
    BY <1>2 DEF PassResolves, Typing, Pass
  <2> QED
    BY <2>1, ReleasedStays
<1>3. CASE StopEnds
  <2>1. \E s \in Session : TRUE
    BY <1>3, Stopping
  <2> QED
    BY <1>3, <2>1, ReleasedBridge
<1> QED
  BY <1>1, <1>2, <1>3, ReleasedSession, ReleasedPass, ReleasedBridge, ReleasedEdit
  DEF Next, PassStep, SessionStep, BridgeStep

-----------------------------------------------------------------------------
(* Whose the queued passes are.                                              *)

LEMMA OwedInit == Init => Owed
<1> SUFFICES ASSUME Init PROVE Owed
  OBVIOUS
<1>1. Len(queue) = 0 /\ 1..Len(queue) = {}
  BY EmptySeq DEF Init
<1>2. [i \in 1..Len(queue) |-> "nobody"] \in [1..Len(queue) -> Session]
  BY <1>1
<1>3. Owes([i \in 1..Len(queue) |-> "nobody"])
  BY <1>1 DEF Owes
<1> QED
  BY <1>2, <1>3 DEF Owed

(* The queue as it is: who waits in it has not gone on.                      *)
LEMMA OwedStays ==
  ASSUME Owed, queue' = queue,
         \A s \in Session : /\ session'[s].at = "up" => session[s].at = "up" \/ resolve[s].at = "serve"
                            /\ resolve'[s].at = "serve" => resolve[s].at = "serve" \/ pass.for = s
                            /\ pass'.for = s => pass.for = s
  PROVE  Owed'
<1>1. PICK w \in [1..Len(queue) -> Session] : Owes(w)
  BY DEF Owed
<1>2. \A i \in 1..Len(queue) : w[i] \in Session
  OBVIOUS
<1>3. Owes(w)'
  BY <1>1, <1>2 DEF Owes
<1> QED
  BY <1>3 DEF Owed

(* One more in the queue, of a session that has none but a detach's there.   *)
LEMMA OwedGrows ==
  ASSUME Typing, Owed, pass' = pass, NEW s \in Session, NEW e \in {"nobody", s},
         queue' = Append(queue, e), pass.for # s,
         session'[s].at # "up", resolve'[s].at # "serve",
         \A t \in Session \ {s} : session'[t].at = session[t].at /\ resolve'[t].at = resolve[t].at,
         \A w \in [1..Len(queue) -> Session] : Owes(w) =>
           \A i \in 1..Len(queue) : w[i] = s => e = s /\ queue[i] = "nobody"
  PROVE  Owed'
<1>1. PICK w \in [1..Len(queue) -> Session] : Owes(w)
  BY DEF Owed
<1>2. /\ Len(queue) \in Nat /\ Len(queue') = Len(queue) + 1
      /\ \A i \in 1..Len(queue) : queue'[i] = queue[i]
      /\ queue'[Len(queue) + 1] = e
  BY AppendProperties, LenProperties DEF Typing, Somebody
<1> DEFINE n == Len(queue)
           u == [i \in 1..(n + 1) |-> IF i = n + 1 THEN s ELSE w[i]]
<1>3. \A i \in 1..(n + 1) : i \in 1..n \/ i = n + 1
  BY <1>2
<1>4. PICK v \in [1..(n + 1) -> Session] : /\ \A i \in 1..n : v[i] = w[i]
                                           /\ v[n + 1] = s
  <2>1. u \in [1..(n + 1) -> Session] /\ (\A i \in 1..n : u[i] = w[i]) /\ u[n + 1] = s
    BY <1>2, <1>3
  <2> QED
    BY <2>1
<1>5. \A i \in 1..n : w[i] \in Session
  OBVIOUS
<1> HIDE DEF u
<1>6. \A i \in 1..(n + 1) : queue'[i] \in {"nobody", v[i]}
  BY <1>1, <1>2, <1>3, <1>4 DEF Owes
<1>7. \A i, j \in 1..(n + 1) : i < j /\ v[i] = v[j] => queue'[i] = "nobody" /\ queue'[j] = v[j]
  <2> SUFFICES ASSUME NEW i \in 1..(n + 1), NEW j \in 1..(n + 1), i < j, v[i] = v[j]
               PROVE  queue'[i] = "nobody" /\ queue'[j] = v[j]
    OBVIOUS
  <2>1. i \in 1..n
    BY <1>2
  <2>2. CASE j \in 1..n
    BY <1>1, <1>2, <1>4, <2>1, <2>2 DEF Owes
  <2>3. CASE j = n + 1
    BY <1>1, <1>2, <1>4, <2>1, <2>3
  <2> QED
    BY <1>3, <2>2, <2>3
<1>8. \A i \in 1..(n + 1) : /\ session'[v[i]].at # "up" /\ resolve'[v[i]].at # "serve"
                            /\ pass'.for # v[i]
  <2>1. \A i \in 1..n : /\ session[w[i]].at # "up" /\ resolve[w[i]].at # "serve"
                        /\ pass.for # w[i]
    BY <1>1 DEF Owes
  <2> QED
    BY <1>3, <1>4, <1>5, <2>1
<1>9. Owes(v)'
  BY <1>2, <1>6, <1>7, <1>8 DEF Owes
<1> QED
  BY <1>2, <1>4, <1>9 DEF Owed

LEMMA OwedBegins ==
  ASSUME Typing, Owed, PassBegins
  PROVE  Owed'
<1>1. PICK w \in [1..Len(queue) -> Session] : Owes(w)
  BY DEF Owed
<1>2. /\ queue # <<>> /\ queue' = Tail(queue) /\ queue \in Seq(Somebody)
      /\ session' = session /\ resolve' = resolve /\ pass'.for = Head(queue)
  BY DEF PassBegins, Typing, NoPass
<1>3. /\ Len(queue) \in Nat \ {0} /\ Len(queue') = Len(queue) - 1
      /\ \A i \in 1..Len(queue') : queue'[i] = queue[i + 1]
      /\ pass'.for = queue[1]
  BY <1>2, HeadTailProperties, EmptySeq
<1> DEFINE n == Len(queue')
           u == [i \in 1..n |-> w[i + 1]]
<1>4. \A i \in 1..n : i + 1 \in 1..Len(queue) /\ 1 \in 1..Len(queue) /\ 1 < i + 1
  BY <1>3
<1>5. PICK v \in [1..n -> Session] : \A i \in 1..n : v[i] = w[i + 1] /\ v[i] \in Session
  <2>1. u \in [1..n -> Session] /\ \A i \in 1..n : u[i] = w[i + 1] /\ u[i] \in Session
    BY <1>4
  <2> QED
    BY <2>1
<1> HIDE DEF u
<1>6. \A i \in 1..n : queue'[i] \in {"nobody", v[i]}
  BY <1>1, <1>3, <1>4, <1>5 DEF Owes
<1>7. \A i, j \in 1..n : i < j /\ v[i] = v[j] => queue'[i] = "nobody" /\ queue'[j] = v[j]
  <2> SUFFICES ASSUME NEW i \in 1..n, NEW j \in 1..n, i < j, v[i] = v[j]
               PROVE  queue'[i] = "nobody" /\ queue'[j] = v[j]
    OBVIOUS
  <2>1. i + 1 < j + 1
    BY <1>3
  <2> QED
    BY <1>1, <1>3, <1>4, <1>5, <2>1 DEF Owes
<1>8. \A i \in 1..n : /\ session[v[i]].at # "up" /\ resolve[v[i]].at # "serve"
                      /\ pass'.for # v[i]
  <2> SUFFICES ASSUME NEW i \in 1..n
               PROVE  /\ session[v[i]].at # "up" /\ resolve[v[i]].at # "serve"
                      /\ pass'.for # v[i]
    OBVIOUS
  <2>1. session[v[i]].at # "up" /\ resolve[v[i]].at # "serve"
    BY <1>1, <1>4, <1>5 DEF Owes
  <2>2. queue[1] \in {"nobody", w[1]} /\ (w[1] = w[i + 1] => queue[1] = "nobody")
    BY <1>1, <1>4 DEF Owes
  <2> QED
    BY <1>3, <1>5, <2>1, <2>2, ServersAssumption
<1>9. Owes(v)'
  BY <1>2, <1>6, <1>7, <1>8 DEF Owes
<1> QED
  BY <1>5, <1>9 DEF Owed

LEMMA OwedSession ==
  ASSUME Typing, InLine, Released, Owed, ~Overlaps, NEW s \in Session, ResolveReads(s) \/ Detach(s)
  PROVE  Owed'
<1>1. session[s] \in Attached /\ resolve[s] \in Resolve /\ pass' = pass
  BY DEF Typing, ResolveReads, Detach
<1>2. \A t \in Session \ {s} : session'[t] = session[t] /\ resolve'[t] = resolve[t]
  BY DEF ResolveReads, Detach, Typing
<1>3. CASE ResolveReads(s)
  <2>1. /\ resolve[s].at = "read" /\ session[s].at = "waking" /\ session' = session
        /\ queue' = Append(queue, s)
    BY <1>3 DEF ResolveReads, Released
  <2>2. resolve'[s].at = "wait"
    BY <1>1, <1>3 DEF ResolveReads, Typing, Resolve
  <2>3. pass.for # s /\ ~Queued(s)
    BY <2>1 DEF InLine
  <2>4. \A w \in [1..Len(queue) -> Session] : Owes(w) =>
          \A i \in 1..Len(queue) : w[i] = s => s = s /\ queue[i] = "nobody"
    BY <2>3 DEF Owes, Queued
  <2> QED
    BY <1>1, <1>2, <2>1, <2>2, <2>3, <2>4, OwedGrows
<1>4. CASE Detach(s)
  <2>1. session[s].at = "up" /\ resolve' = resolve
    BY <1>4 DEF Detach
  <2>2. resolve[s].at = "idle" /\ pass.for # s
    BY <2>1 DEF Released, InLine
  <2>3. session'[s].at # "up"
    <3>1. PICK at \in {"down", "gone"} : session' = [session EXCEPT ![s].at = at]
      BY <1>4, <2>1 DEF Detach
    <3> QED
      BY <1>1, <3>1 DEF Typing, Attached
  <2>4. CASE queue' = queue
    BY <1>1, <1>2, <2>1, <2>2, <2>3, <2>4, OwedStays
  <2>5. CASE queue' = Append(queue, "nobody")
    <3>1. \A w \in [1..Len(queue) -> Session] : Owes(w) =>
            \A i \in 1..Len(queue) : w[i] = s => "nobody" = s /\ queue[i] = "nobody"
      BY <2>1 DEF Owes
    <3> QED
      BY <1>1, <1>2, <2>1, <2>2, <2>3, <2>5, <3>1, OwedGrows
  <2> QED
    BY <1>4, <2>4, <2>5 DEF Detach
<1> QED
  BY <1>3, <1>4

LEMMA OwedStep ==
  ASSUME Typing, InLine, Released, Owed, ~Overlaps, [Next]_vars
  PROVE  Owed'
<1>1. CASE UNCHANGED <<queue, resolve>> /\ (\A s \in Session : session'[s].at = session[s].at)
           /\ pass'.for = pass.for
  BY <1>1, OwedStays
<1>2. ASSUME NEW s \in Session, Attach(s) \/ Serve(s)
      PROVE  Owed'
  <2>1. pass' = pass /\ queue' = queue
    BY <1>2 DEF Attach, Serve
  <2>2. \A t \in Session \ {s} : session'[t] = session[t] /\ resolve'[t] = resolve[t]
    BY <1>2 DEF Attach, Serve, Typing
  <2>3. /\ resolve'[s].at # "serve"
        /\ session'[s].at = "up" => resolve[s].at = "serve"
    BY <1>2 DEF Attach, Serve, Typing, Attached, Aside
  <2> QED
    BY <2>1, <2>2, <2>3, OwedStays
<1>3. CASE PassEnds
  <2>1. session' = session /\ queue' = queue /\ \A s \in Session : pass'.for # s
    BY <1>3, ServersAssumption DEF PassEnds, NoPass
  <2>2. \A s \in Session : resolve'[s].at = "serve" => resolve[s].at = "serve" \/ pass.for = s
    BY <1>3 DEF PassEnds, Typing, Resolve
  <2> QED
    BY <2>1, <2>2, OwedStays
<1>4. CASE Edit
  <2>1. pass' = pass /\ queue' = queue
    BY <1>4 DEF Edit
  <2>2. \A t \in Session : resolve'[t].at = resolve[t].at
    BY <1>4 DEF Edit, Typing, Resolve
  <2>3. \A t \in Session : session'[t].at = session[t].at
    <3>1. CASE session' = session
      BY <3>1
    <3>2. ASSUME NEW s \in Session, NEW local \in BOOLEAN, NEW mode \in Mode,
                 session' = [session EXCEPT ![s].local = local, ![s].builtin = mode]
          PROVE  \A t \in Session : session'[t].at = session[t].at
      BY <3>2 DEF Typing, Attached
    <3> QED
      BY <1>4, <3>1, <3>2 DEF Edit
  <2> QED
    BY <2>1, <2>2, <2>3, OwedStays
<1>5. CASE \/ UNCHANGED vars \/ PassReads \/ PassTurns \/ StopsDone \/ StopEnds
           \/ \E s \in Session : PassResolves(s) \/ StopBegins(s) \/ StartBegins(s)
  <2>1. UNCHANGED <<session, queue, resolve>> /\ pass'.for = pass.for
    BY <1>5 DEF vars, PassReads, PassTurns, StopsDone, StopEnds, PassResolves, StopBegins,
                StartBegins, Typing, Pass
  <2> QED
    BY <1>1, <2>1
<1>6. CASE \E s \in Session : \/ StartEnds(s) \/ Dies(s)
                              \/ \E r \in Request : Post(s, r) \/ Respawn(s, r) \/ Settle(s, r)
  <2>1. UNCHANGED <<session, queue, resolve, pass>>
    BY <1>6 DEF StartEnds, Dies, Post, Respawn, Settle
  <2> QED
    BY <1>1, <2>1
<1> QED
  BY <1>2, <1>3, <1>4, <1>5, <1>6, OwedSession, OwedBegins
  DEF Next, PassStep, SessionStep, BridgeStep

(* Two passes a session at most: its detach's, its attach's.                 *)
LEMMA QueueBound ==
  ASSUME Typing, Owed
  PROVE  Len(queue) <= 2 * Cardinality(Session)
<1>1. PICK w \in [1..Len(queue) -> Session] : Owes(w)
  BY DEF Owed
<1>2. Len(queue) \in Nat
  BY LenProperties DEF Typing
<1> DEFINE Bit == {0, 1}
           f == [i \in 1..Len(queue) |-> <<w[i], IF queue[i] = "nobody" THEN 0 ELSE 1>>]
<1>3. f \in [1..Len(queue) -> Session \X Bit]
  OBVIOUS
<1>4. ASSUME NEW i \in 1..Len(queue), NEW j \in 1..Len(queue), f[i] = f[j]
      PROVE  i = j
  <2>1. w[i] = w[j] /\ (queue[i] = "nobody" <=> queue[j] = "nobody") /\ w[i] # "nobody"
    BY <1>4, ServersAssumption
  <2>2. ~(i < j) /\ ~(j < i)
    BY <1>1, <2>1 DEF Owes
  <2> QED
    BY <1>2, <2>2
<1>5. f \in Injection(1..Len(queue), Session \X Bit)
  BY <1>3, <1>4 DEF Injection, IsInjective
<1>6. IsFiniteSet(Bit) /\ Cardinality(Bit) = 2
  <2>1. IsFiniteSet({0}) /\ Cardinality({0}) = 1
    BY FS_Singleton
  <2>2. Bit = {0} \cup {1} /\ 1 \notin {0}
    OBVIOUS
  <2> QED
    BY <2>1, <2>2, FS_AddElement
<1>7. /\ IsFiniteSet(Session \X Bit)
      /\ Cardinality(Session \X Bit) = Cardinality(Session) * 2
  BY <1>6, FS_Product, ServersAssumption
<1>8. Cardinality(1..Len(queue)) <= Cardinality(Session) * 2
  BY <1>5, <1>7, FS_Injection
<1>9. Cardinality(1..Len(queue)) = Len(queue)
  <2>1. 1 \in Int /\ Len(queue) \in Int
    BY <1>2
  <2>2. Cardinality(1..Len(queue)) = IF 1 > Len(queue) THEN 0 ELSE Len(queue) - 1 + 1
    BY <2>1, FS_Interval
  <2> QED
    BY <1>2, <2>2
<1>10. Cardinality(Session) \in Nat
  BY FS_CardinalityType, ServersAssumption
<1> QED
  BY <1>2, <1>8, <1>9, <1>10

-----------------------------------------------------------------------------
(* What servers promise.                                                     *)

(* An agent is told only of servers as the user has them: the built-in in    *)
(* the mode its selection grants, the local one as the process the entry and *)
(* its credential called for at some moment since the attach began           *)
(* (resolveMcpServers); whatever overlaps, whoever edits, whatever dies.     *)
THEOREM ToldAsItIs == Spec => ToldWhatIs
<1> DEFINE I == Typing /\ InLine /\ Current
           Fits == \A s \in Session : Serve(s) =>
                      /\ builtin'[s] = resolve[s].builtin
                      /\ Told(s) => \E was, is \in resolve[s].since :
                           bridges[s].spec = was.spec /\ bridges[s].secret = is.secret
<1>1. Init => I
  BY TypingInit, InLineInit, CurrentInit
<1>2. I /\ [Next]_vars => I'
  BY TypingStep, InLineStep, CurrentStep
<1>3. I /\ [Next]_vars => [Fits]_vars
  <2> SUFFICES ASSUME I, NEW s \in Session, Serve(s)
               PROVE  /\ builtin'[s] = resolve[s].builtin
                      /\ Told(s) => \E was, is \in resolve[s].since :
                           bridges[s].spec = was.spec /\ bridges[s].secret = is.secret
    OBVIOUS
  <2>1. builtin'[s] = resolve[s].builtin /\ resolve[s].at = "serve"
    BY DEF Serve, Typing
  <2>2. Told(s) => Saw(s, bridges[s].spec) /\ Knows(s, bridges[s].secret)
    BY <2>1 DEF Told, Current, Serves
  <2> QED
    BY <2>1, <2>2 DEF Saw, Knows
<1> QED
  BY <1>1, <1>2, <1>3, PTL DEF Spec, ToldWhatIs

(* A session has one process of the entry at most, through edits, rotated    *)
(* secrets, deaths and restarts, if its agent's requests do not overlap      *)
(* (two that do can each start one).                                         *)
THEOREM NeverTwo ==
  ASSUME \A q, r \in Request : q = r
  PROVE  Spec => []OneProcess
<1> DEFINE I == Typing /\ InLine /\ Bridged /\ Single
<1>1. Init => I
  BY TypingInit, InLineInit, BridgedInit, SingleInit
<1>2. I /\ [Next]_vars => I'
  BY TypingStep, InLineStep, BridgedStep, SingleStep
<1>3. I => OneProcess
  BY DEF Single, OneProcess, Processes, Typing, Bridge
<1> QED
  BY <1>1, <1>2, <1>3, PTL DEF Spec

(* When the passes have caught up, nothing of a session that was stopped or  *)
(* deleted listens or runs on the host, if none is while it attaches.        *)
THEOREM NothingIsLeft ==
  ASSUME ~Overlaps, \A q, r \in Request : q = r
  PROVE  Spec => []NothingLeft
<1> DEFINE I == Typing /\ InLine /\ Bridged /\ Single /\ Released
<1>1. Init => I
  BY TypingInit, InLineInit, BridgedInit, SingleInit, ReleasedInit
<1>2. I /\ [Next]_vars => I'
  BY TypingStep, InLineStep, BridgedStep, SingleStep, ReleasedStep
<1>3. I => NothingLeft
  <2> SUFFICES ASSUME I, Settled, NEW s \in Session, session[s].at \in {"down", "gone"}
               PROVE  /\ holders[s] = "none" /\ ~bridges[s].on /\ Processes(s) = 0
                      /\ builtin[s] = "none"
    BY DEF NothingLeft
  <2>1. holders[s] = "none" /\ builtin[s] = "none"
    BY DEF Released
  <2>2. ~bridges[s].on
    BY <2>1 DEF Released, Settled
  <2>3. pass.stopping = "nobody"
    BY DEF Settled, InLine, NoPass
  <2>4. ~bridges[s].child /\ bridges[s].stray = 0
    BY <2>2, <2>3, ServersAssumption DEF Bridged, Single
  <2> QED
    BY <2>1, <2>2, <2>4 DEF Processes
<1> QED
  BY <1>1, <1>2, <1>3, PTL DEF Spec

(* Every variable keeps its type, and the queue of passes two a session, if  *)
(* no session is stopped or deleted while it attaches.                       *)
THEOREM ServersTypeCorrect ==
  ASSUME ~Overlaps
  PROVE  Spec => []TypeOK
<1> DEFINE I == Typing /\ InLine /\ Released /\ Owed
<1>1. Init => I
  BY TypingInit, InLineInit, ReleasedInit, OwedInit
<1>2. I /\ [Next]_vars => I'
  BY TypingStep, InLineStep, ReleasedStep, OwedStep
<1>3. I => TypeOK
  BY QueueBound DEF Typing, TypeOK, Entry, Attached, Bridge, Pass, Somebody, Resolve
<1> QED
  BY <1>1, <1>2, <1>3, PTL DEF Spec
=============================================================================
