----------------------------- MODULE McpServers -----------------------------
(***************************************************************************)
(* The host MCP servers of sessions that share a workspace: the listener   *)
(* of the built-in server, and the bridge and process of the registry's    *)
(* one local entry, per session.                                           *)
(*                                                                         *)
(* What should run is derived, pass by pass, from who holds what; passes   *)
(* run one at a time, each on a snapshot, while sessions attach and detach *)
(* and the user edits the entry, its credential and the selections.  A     *)
(* process that died is started again by the next request for it.          *)
(***************************************************************************)
EXTENDS Naturals, Sequences, FiniteSets

CONSTANTS
  Session,
  Request,     \* the requests a session's agent may have under way at once
  MaxEdits,    \* bound on the edits of the entry, its credential, the selections
  MaxFaults,   \* bound on the starts that fail and the processes that die
  Overlaps     \* a session may be stopped or deleted while it attaches

ASSUME ServersAssumption ==
  /\ IsFiniteSet(Session) /\ "nobody" \notin Session /\ IsFiniteSet(Request)
  /\ MaxEdits \in Nat /\ MaxFaults \in Nat /\ Overlaps \in BOOLEAN

VARIABLES
  registry,   \* the entry's spec and its credential's secret; 0: no such entry,
              \* a credential that does not resolve
  session,    \* each session: what it selects, whether its container is up
  holders,    \* localHolders: which sessions hold the local entry
  bridges,    \* localBridges and the processes
  builtin,    \* the mode the built-in's listener serves
  pass,       \* the reconcile that runs
  queue,      \* whose reconciles wait behind it
  resolve,    \* resolveMcpServers in flight
  request,    \* what the agents have asked of their process
  edits, faults

vars == <<registry, session, holders, bridges, builtin, pass, queue, resolve,
          request, edits, faults>>

Version == 0..(MaxEdits + 1)
Mode    == {"none", "read", "write"}

(* A bridge that is not in the map may still have processes: ones that are   *)
(* dying, or that it lost sight of.                                          *)
NoBridge == [on |-> FALSE, ready |-> FALSE, spec |-> 0, secret |-> 0, child |-> FALSE,
             stray |-> 0]

NoPass == [at |-> "idle", for |-> "nobody", snap |-> {}, spec |-> 0, left |-> {},
           want |-> [s \in Session |-> 0], stopping |-> "nobody"]

Aside == [at |-> "idle", local |-> FALSE, builtin |-> "none", since |-> {}]

TypeOK ==
  /\ registry \in [spec : Version, secret : Version]
  /\ session \in [Session -> [at : {"down", "waking", "up", "gone"}, local : BOOLEAN,
                              builtin : Mode]]
  /\ holders \in [Session -> {"none", "nothing", "local"}]
  /\ bridges \in [Session -> [on : BOOLEAN, ready : BOOLEAN, spec : Version,
                              secret : Version, child : BOOLEAN,
                              stray : Nat]]
  /\ builtin \in [Session -> Mode]
  /\ pass \in [at : {"idle", "registry", "secrets", "stops", "starts"},
               for : Session \cup {"nobody"}, snap : SUBSET Session, spec : Version,
               left : SUBSET Session, want : [Session -> Version],
               stopping : Session \cup {"nobody"}]
  /\ Len(queue) <= 2 * Cardinality(Session)
  /\ \A s \in Session : resolve[s].at \in {"idle", "read", "wait", "serve"}
  /\ request \in [Session -> [Request -> {"idle", "spawn", "late", "sent"}]]
  /\ edits \in 0..MaxEdits /\ faults \in 0..MaxFaults

Init ==
  /\ registry = [spec |-> 1, secret |-> 1]
  /\ session = [s \in Session |-> [at |-> "down", local |-> TRUE, builtin |-> "read"]]
  /\ holders = [s \in Session |-> "none"]
  /\ bridges = [s \in Session |-> NoBridge] /\ builtin = [s \in Session |-> "none"]
  /\ pass = NoPass /\ queue = <<>> /\ resolve = [s \in Session |-> Aside]
  /\ request = [s \in Session |-> [r \in Request |-> "idle"]]
  /\ edits = 0 /\ faults = 0

Works == UNCHANGED faults
Fails == faults < MaxFaults /\ faults' = faults + 1

(* Whoever waits for an answer of this bridge is told that it is gone; who   *)
(* is about to start its process for it is late.                             *)
AllFail(s, late) == request' = [request EXCEPT ![s] = [r \in Request |->
                      CASE @[r] = "sent" -> "idle"
                        [] @[r] = "spawn" /\ late -> "late"
                        [] OTHER -> @[r]]]

-----------------------------------------------------------------------------
(* A session attaches: resolveMcpServers.                                  *)

Attach(s) ==
  /\ session[s].at \in {"down", "up"} /\ resolve[s].at = "idle"
  /\ session' = [session EXCEPT ![s].at = "waking"]
  /\ resolve' = [resolve EXCEPT ![s] = [at |-> "read", local |-> session[s].local,
                                        builtin |-> session[s].builtin, since |-> {registry}]]
  /\ UNCHANGED <<registry, holders, bridges, builtin, pass, queue, request, edits, faults>>

(* It is a holder before its reconcile is queued. *)
ResolveReads(s) ==
  /\ resolve[s].at = "read"
  /\ LET local == resolve[s].local /\ registry.spec # 0
     IN  /\ holders' = [holders EXCEPT ![s] = IF local THEN "local" ELSE "nothing"]
         /\ resolve' = [resolve EXCEPT ![s].at = "wait", ![s].local = local]
  /\ queue' = Append(queue, s)
  /\ UNCHANGED <<registry, session, bridges, builtin, pass, request, edits, faults>>

(* Servers the selection dropped, or granted in another mode, are stopped,   *)
(* and what is wanted started.  (Picked up at once: the listener is there    *)
(* within a tick.)                                                           *)
Serve(s) ==
  /\ resolve[s].at = "serve"
  /\ builtin' = [builtin EXCEPT ![s] = resolve[s].builtin]
  /\ resolve' = [resolve EXCEPT ![s] = Aside]
  /\ session' = [session EXCEPT ![s].at = IF @ = "waking" THEN "up" ELSE @]
  /\ UNCHANGED <<registry, holders, bridges, pass, queue, request, edits, faults>>

(* What it is told of: the local server, if its process came up. *)
Told(s) == resolve[s].local /\ bridges[s].on /\ bridges[s].ready

(* Mutant: the session lets go, and nobody looks. *)
DetachQuiet(s) ==
  /\ session[s].at = "up" /\ \E at \in {"down", "gone"} : session' = [session EXCEPT ![s].at = at]
  /\ builtin' = [builtin EXCEPT ![s] = "none"]
  /\ holders' = [holders EXCEPT ![s] = "none"]
  /\ UNCHANGED <<registry, bridges, pass, queue, resolve, request, edits, faults>>

(* stopMcpServers, as the container is stopped or the session deleted. *)
Detach(s) ==
  /\ session[s].at \in IF Overlaps THEN {"waking", "up"} ELSE {"up"}
  /\ \E at \in {"down", "gone"} : session' = [session EXCEPT ![s].at =
                                    IF @ = "waking" /\ at = "down" THEN @ ELSE at]
  /\ builtin' = [builtin EXCEPT ![s] = "none"]
  /\ holders' = [holders EXCEPT ![s] = "none"]
  /\ queue' = IF holders[s] = "none" THEN queue ELSE Append(queue, "nobody")
  /\ UNCHANGED <<registry, bridges, pass, resolve, request, edits, faults>>

-----------------------------------------------------------------------------
(* A reconcile.                                                            *)

Wants == {s \in pass.snap : pass.spec # 0}

(* Mutant: a pass that has begun is still queued. *)
PassBeginsAgain ==
  /\ pass.at = "idle" /\ queue # <<>>
  /\ pass' = [NoPass EXCEPT !.at = "registry", !.for = Head(queue),
                            !.snap = {s \in Session : holders[s] = "local"}]
  /\ UNCHANGED <<registry, session, holders, bridges, builtin, queue, resolve, request,
                 edits, faults>>

(* It starts when the one before has ended, and looks at who holds what. *)
PassBegins ==
  /\ pass.at = "idle" /\ queue # <<>>
  /\ pass' = [NoPass EXCEPT !.at = "registry", !.for = Head(queue),
                            !.snap = {s \in Session : holders[s] = "local"}]
  /\ queue' = Tail(queue)
  /\ UNCHANGED <<registry, session, holders, bridges, builtin, resolve, request, edits, faults>>

PassReads ==
  /\ pass.at = "registry"
  /\ pass' = [pass EXCEPT !.at = "secrets", !.spec = registry.spec,
                          !.left = IF registry.spec # 0 THEN pass.snap ELSE {}]
  /\ UNCHANGED <<registry, session, holders, bridges, builtin, queue, resolve, request,
                 edits, faults>>

(* A want's credential is resolved before anything is stopped or started. *)
PassResolves(s) ==
  /\ pass.at = "secrets" /\ s \in pass.left
  /\ pass' = [pass EXCEPT !.want[s] = registry.secret, !.left = @ \ {s}]
  /\ UNCHANGED <<registry, session, holders, bridges, builtin, queue, resolve, request,
                 edits, faults>>

PassTurns ==
  /\ pass.at = "secrets" /\ pass.left = {}
  /\ pass' = [pass EXCEPT !.at = "stops"]
  /\ UNCHANGED <<registry, session, holders, bridges, builtin, queue, resolve, request,
                 edits, faults>>

(* Mutant: a rotated secret is not noticed. *)
WrongSpecOnly(s) ==
  bridges[s].on /\ ~(s \in Wants /\ pass.want[s] # 0 /\ bridges[s].spec = pass.spec)

(* What nobody holds any more, or would be another process by now. *)
Wrong(s) ==
  bridges[s].on /\ ~(/\ s \in Wants /\ pass.want[s] # 0
                     /\ bridges[s].spec = pass.spec /\ bridges[s].secret = pass.want[s])

(* It leaves the map, its listener closes, its process is told to go. *)
StopBegins(s) ==
  /\ pass.at = "stops" /\ pass.stopping = "nobody" /\ Wrong(s)
  /\ pass' = [pass EXCEPT !.stopping = s]
  /\ bridges' = [bridges EXCEPT ![s].on = FALSE, ![s].ready = FALSE]
  /\ AllFail(s, TRUE)
  /\ UNCHANGED <<registry, session, holders, builtin, queue, resolve, edits, faults>>

(* It is gone, or has been killed after its grace. *)
StopEnds ==
  /\ pass.stopping # "nobody"
  /\ bridges' = [bridges EXCEPT ![pass.stopping].child = FALSE]
  /\ pass' = [pass EXCEPT !.stopping = "nobody"]
  /\ UNCHANGED <<registry, session, holders, builtin, queue, resolve, request, edits, faults>>

StopsDone ==
  /\ pass.at = "stops" /\ pass.stopping = "nobody" /\ \A s \in Session : ~Wrong(s)
  /\ pass' = [pass EXCEPT !.at = "starts"]
  /\ UNCHANGED <<registry, session, holders, bridges, builtin, queue, resolve, request,
                 edits, faults>>

Missing(s) == s \in Wants /\ pass.want[s] # 0 /\ ~bridges[s].on

StartBegins(s) ==
  /\ pass.at = "starts" /\ \A t \in Session : bridges[t].on => bridges[t].ready
  /\ Missing(s) /\ s \notin pass.left
  /\ bridges' = [bridges EXCEPT ![s] = [@ EXCEPT !.on = TRUE, !.spec = pass.spec,
                                          !.secret = pass.want[s]]]
  /\ pass' = [pass EXCEPT !.left = @ \cup {s}]
  /\ UNCHANGED <<registry, session, holders, builtin, queue, resolve, request, edits, faults>>

(* The package is installed, the process started; or it fails and leaves no  *)
(* bridge.                                                                   *)
StartEnds(s) ==
  /\ pass.at = "starts" /\ bridges[s].on /\ ~bridges[s].ready
  /\ \/ Works /\ bridges' = [bridges EXCEPT ![s].ready = TRUE, ![s].child = TRUE]
     \/ Fails /\ bridges' = [bridges EXCEPT ![s].on = FALSE]
  /\ UNCHANGED <<registry, session, holders, builtin, pass, queue, resolve, request, edits>>

(* Everything wanted has been tried: whoever queued this pass goes on. *)
PassEnds ==
  /\ pass.at = "starts"
  /\ \A s \in Session : (bridges[s].on => bridges[s].ready) /\ (Missing(s) => s \in pass.left)
  /\ pass' = NoPass
  /\ resolve' = IF pass.for = "nobody" THEN resolve
                ELSE [resolve EXCEPT ![pass.for].at = "serve"]
  /\ UNCHANGED <<registry, session, holders, bridges, builtin, queue, request, edits, faults>>

-----------------------------------------------------------------------------
(* The bridge: a request of the agent, and the process that answers it.    *)

(* The process is there, or the request is about to start one. *)
Post(s, r) ==
  /\ session[s].at = "up" /\ bridges[s].on /\ bridges[s].ready /\ request[s][r] = "idle"
  /\ request' = [request EXCEPT ![s][r] = IF bridges[s].child THEN "sent" ELSE "spawn"]
  /\ UNCHANGED <<registry, session, holders, bridges, builtin, pass, queue, resolve,
                 edits, faults>>

(* Mutant: a bridge that was stopped meanwhile starts its process all the same. *)
RespawnLate(s, r) ==
  /\ request[s][r] \in {"spawn", "late"}
  /\ bridges' = [bridges EXCEPT ![s].child = TRUE,
                                ![s].stray = IF bridges[s].child THEN @ + 1 ELSE @]
  /\ request' = [request EXCEPT ![s][r] = "sent"]
  /\ UNCHANGED <<registry, session, holders, builtin, pass, queue, resolve, edits, faults>>

(* A bridge that was stopped meanwhile starts nothing.  One that has a       *)
(* process by now starts another, and forgets the one it had.                *)
Respawn(s, r) ==
  /\ request[s][r] \in {"spawn", "late"}
  /\ IF request[s][r] = "spawn"
       THEN /\ bridges' = [bridges EXCEPT ![s].child = TRUE,
                                          ![s].stray = IF bridges[s].child THEN @ + 1 ELSE @]
            /\ request' = [request EXCEPT ![s][r] = "sent"]
       ELSE request' = [request EXCEPT ![s][r] = "idle"] /\ UNCHANGED bridges
  /\ UNCHANGED <<registry, session, holders, builtin, pass, queue, resolve, edits, faults>>

(* It is answered, or its time is up. *)
Settle(s, r) ==
  /\ request[s][r] = "sent" /\ request' = [request EXCEPT ![s][r] = "idle"]
  /\ UNCHANGED <<registry, session, holders, bridges, builtin, pass, queue, resolve,
                 edits, faults>>

Dies(s) ==
  /\ bridges[s].child /\ Fails
  /\ bridges' = [bridges EXCEPT ![s].child = FALSE] /\ AllFail(s, FALSE)
  /\ UNCHANGED <<registry, session, holders, builtin, pass, queue, resolve, edits>>

-----------------------------------------------------------------------------
(* The user.                                                               *)

Edit ==
  /\ edits < MaxEdits /\ edits' = edits + 1
  /\ \/ /\ registry' \in {[registry EXCEPT !.spec = edits + 2], [registry EXCEPT !.spec = 0],
                          [registry EXCEPT !.secret = edits + 2], [registry EXCEPT !.secret = 0]}
        /\ UNCHANGED session
     \/ /\ \E s \in Session, local \in BOOLEAN, mode \in Mode :
             session' = [session EXCEPT ![s].local = local, ![s].builtin = mode]
        /\ UNCHANGED registry
  /\ resolve' = [s \in Session |-> IF resolve[s].at = "idle" THEN resolve[s]
                   ELSE [resolve[s] EXCEPT !.since = @ \cup {registry'}]]
  /\ UNCHANGED <<holders, bridges, builtin, pass, queue, request, faults>>

PassStep ==
  \/ PassBegins \/ PassReads \/ PassTurns \/ StopEnds \/ StopsDone \/ PassEnds
  \/ \E s \in Session : PassResolves(s) \/ StopBegins(s) \/ StartBegins(s) \/ StartEnds(s)

SessionStep(s) == ResolveReads(s) \/ Serve(s)

BridgeStep(s) == \E r \in Request : Respawn(s, r) \/ Settle(s, r)

Next ==
  \/ PassStep \/ Edit
  \/ \E s \in Session : \/ Attach(s) \/ SessionStep(s) \/ Detach(s) \/ Dies(s) \/ BridgeStep(s)
                        \/ \E r \in Request : Post(s, r)

Spec == Init /\ [][Next]_vars

-----------------------------------------------------------------------------
(* Properties.                                                             *)

Settled == pass.at = "idle" /\ queue = <<>> /\ \A s \in Session : resolve[s].at = "idle"

Processes(s) == (IF bridges[s].child THEN 1 ELSE 0) + bridges[s].stray

(* When the passes have caught up, nothing of a session that was stopped or  *)
(* deleted listens or runs on the host.                                      *)
NothingLeft ==
  Settled => \A s \in Session : session[s].at \in {"down", "gone"} =>
               /\ holders[s] = "none" /\ ~bridges[s].on /\ Processes(s) = 0
               /\ builtin[s] = "none"

(* A session has one process of the entry at most, whatever restarts it: an  *)
(* edit, a rotated secret, a death with a request under way.                 *)
OneProcess == \A s \in Session : Processes(s) <= 1

(* An agent is told only of servers as the user has them: the built-in in    *)
(* the mode its selection grants, the local one as the process the entry and *)
(* its credential called for at some moment since the attach began.          *)
ToldWhatIs ==
  [][\A s \in Session : Serve(s) =>
       /\ builtin'[s] = resolve[s].builtin
       /\ Told(s) => \E was, is \in resolve[s].since :
                       bridges[s].spec = was.spec /\ bridges[s].secret = is.secret]_vars
=============================================================================
