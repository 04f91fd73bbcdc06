----------------------------- MODULE QueueViews -----------------------------
(***************************************************************************)
(* The handlers of the session queue as functions of the state.            *)
(*                                                                         *)
(* The main process runs its bus handlers synchronously, and they nest: an *)
(* enqueue reaps the idle holders and then schedules, a turn's end arms a  *)
(* timer, reaps, and goes on to the next prompt.  So the state of a task's *)
(* sessions is a record, a View, and a handler maps a View to the one it   *)
(* leaves.  SessionQueue makes actions of them.                            *)
(***************************************************************************)
EXTENDS CloneClaims, Naturals, FiniteSets

CONSTANTS
  Caps,           \* the task caps the user may set; 0 is "unlimited"
  MaxPend,        \* bound on the prompts waiting in one session
  Limitable,      \* sessions whose account may hit its plan limit
  Masking         \* whether what is sent to an agent is masked

ASSUME ViewAssumption ==
  /\ IsFiniteSet(Session) /\ Caps \subseteq Nat /\ 0 \in Caps
  /\ MaxPend \in Nat \ {0} /\ Limitable \subseteq Session /\ Masking \in BOOLEAN

SessionStates == {"absent", "draft", "queued", "starting", "started", "deleted"}

(* "inactive" is no record, "stopped" and "error", which the code here never *)
(* tells apart; "building" includes "post".                                  *)
ContStates == {"inactive", "building", "running"}
BoxStates  == {"none", "stopped", "up"}

(* A session is started and not yet busy while config: the agent of a start  *)
(* is told the session's picks and mode; open: the text of a start prompt or *)
(* a nudge is masked; mask: that of a waiting prompt is.                     *)
Lulls == {"config", "open", "mask"}

(* attach: about to check the clone; resolve: resolveLaunch before the       *)
(* container record changes; provision: the container is being brought up;   *)
(* wire: it is up, the adapter and the ACP session are not; turn: the agent  *)
(* is working; failed: an error is on its way to the handler's catch.        *)
Steps ==
  {"none", "attach", "resolve", "provision", "wire", "turn", "failed"} \cup Lulls

(* Who takes a container down: the idle policy, the queue handoff, the user, *)
(* or the user releasing it for good (or editing what its draft mounts).     *)
StopKinds == {"idle", "queue", "user", "release"}

(* begun: awaiting the proxy and docker; down: docker stop returned;         *)
(* settle: recorded, the handoff's own .finally is still to run.             *)
StopSteps == {"no", "begun", "down", "settle"}

View ==
  [state : [Session -> SessionStates], before : SUBSET (Session \X Session),
   cont : [Session -> ContStates], box : [Session -> BoxStates],
   step : [Session -> Steps], agent : SUBSET Session,
   pend : [Session -> 0..MaxPend], nudging : SUBSET Session,
   recovering : SUBSET Session, held : SUBSET Limitable, cap : Caps,
   armed : SUBSET Session, stop : [Session -> [StopKinds -> StopSteps]]]

-----------------------------------------------------------------------------
(* What the code reads off the records.                                    *)

Exists(v, s) == v.state[s] \notin {"absent", "deleted"}

(* Able to touch its clone and counting against the cap. *)
Active(v, s) == v.state[s] = "starting" \/ v.cont[s] \in {"building", "running"}

ActiveCount(v) == Cardinality({s \in Session : Active(v, s)})

(* Mutant: whole claim sets are compared, instead of clone by clone. *)
HoldersSame(v, s) ==
  {t \in Session \ {s} : Active(v, t) /\ Conflict(s, t) /\ Claims(s) = Claims(t)}

(* The sessions that keep s off one of its clones. *)
Holders(v, s) == {t \in Session \ {s} : Active(v, t) /\ Conflict(s, t)}

Busy(v, s) == v.state[s] = "started" /\ v.step[s] \notin Lulls \cup {"none"}

Idle(v, s) == Exists(v, s) /\ v.state[s] # "starting" /\ ~Busy(v, s)

-----------------------------------------------------------------------------
(* The scheduler's pass.                                                   *)

Unqueue(v, S) ==
  [v EXCEPT !.before = {p \in @ : p[1] \notin S /\ p[2] \notin S}]

(* The synchronous part of startSession for every session of S. *)
StartAll(v, S) ==
  [Unqueue(v, S) EXCEPT
     !.state = [s \in Session |-> IF s \in S THEN "starting" ELSE @[s]],
     !.step  = [s \in Session |-> IF s \in S THEN "resolve" ELSE @[s]],
     !.armed = @ \ S]

(* The queue items no plan limit holds: a held one reserves no claim. *)
Waiting(v) == {s \in Session : v.state[s] = "queued" /\ s \notin v.held}

(* Mutant: a blocked item reserves nothing. *)
StartableUnreserved(v) ==
  {s \in Waiting(v) :
     /\ Holders(v, s) = {}
     /\ \A t \in Waiting(v) :
          <<t, s>> \in v.before /\ Holders(v, t) = {} => ~Conflict(s, t)}

(* Blocked items reserve their claims, so an item starts only if it is free  *)
(* and nothing conflicting waits in front of it.                             *)
Startable(v) ==
  {s \in Waiting(v) :
     /\ Holders(v, s) = {}
     /\ \A t \in Waiting(v) : <<t, s>> \in v.before => ~Conflict(s, t)}

(* A session started in this pass is counted twice against the cap: it is    *)
(* already active, and startedThisPass counts it again.                      *)
Admitted(v) ==
  {s \in Startable(v) :
     LET ahead == {t \in Startable(v) : <<t, s>> \in v.before}
     IN  v.cap = 0 \/ ActiveCount(StartAll(v, ahead)) + Cardinality(ahead) < v.cap}

(* The start of a turn, up to its first await: masking its text, or attach. *)
Opening(lull) == IF Masking THEN lull ELSE "attach"

BeginTurn(v, S, lull) ==
  [v EXCEPT !.step = [s \in Session |-> IF s \in S THEN Opening(lull) ELSE @[s]],
            !.armed = @ \ S]

(* Mutants: the drain does not look for a waiting prompt; nor at the pause. *)
DrainableEmpty(v) ==
  {s \in Session :
     /\ v.state[s] = "started" /\ v.step[s] = "none"
     /\ s \notin v.recovering /\ s \notin v.held /\ Holders(v, s) = {}}

DrainableResumes(v) ==
  {s \in Session :
     /\ v.pend[s] > 0 /\ v.state[s] = "started" /\ v.step[s] = "none"
     /\ s \notin v.held /\ Holders(v, s) = {}}

(* The sessions drainPending would send a waiting prompt of: the loop is      *)
(* still in the last one's turn while that is masked.                        *)
Drainable(v) ==
  {s \in Session :
     /\ v.pend[s] > 0 /\ v.state[s] = "started" /\ v.step[s] = "none"
     /\ s \notin v.recovering /\ s \notin v.held /\ Holders(v, s) = {}}

Drain(v, S) ==
  LET D == S \cap Drainable(v)
  IN  [BeginTurn(v, D, "mask") EXCEPT
         !.pend = [s \in Session |-> IF s \in D THEN @[s] - 1 ELSE @[s]],
         !.nudging = @ \ D]

Schedule(v) == Drain(StartAll(v, Admitted(v)), Session)

-----------------------------------------------------------------------------
(* The kernel's queue handoff and idle policy.                             *)

(* Sessions waiting for a clone: queued ones, and started ones whose prompt  *)
(* is kept back by another session.                                          *)
Wanting(v) ==
  {s \in Session : \/ v.state[s] = "queued"
                   \/ /\ Exists(v, s) /\ v.pend[s] > 0 /\ ~Busy(v, s)
                      /\ Holders(v, s) # {}}

(* Mutant: a holder at work is listed too. *)
BlockingQueueBusy(v) ==
  {s \in Session :
     /\ v.state[s] # "queued" /\ v.cont[s] = "running"
     /\ \/ \E t \in Wanting(v) : Conflict(s, t)
        \/ v.cap > 0 /\ (\E t \in Session : v.state[t] = "queued")}

(* holdersBlockingQueue: idle sessions with a container up that something in *)
(* the queue is waiting on, for its clone or for a slot of a capped task.    *)
BlockingQueue(v) ==
  {s \in Session :
     /\ Idle(v, s) /\ v.state[s] # "queued" /\ v.cont[s] = "running"
     /\ \/ \E t \in Wanting(v) : Conflict(s, t)
        \/ v.cap > 0 /\ (\E t \in Session : v.state[t] = "queued")}

(* The synchronous part of a stop: the timer is dropped and the adapter      *)
(* detached; the exit of a live adapter arms the timer of an idle session.   *)
BeginStop(v, S, k) ==
  [v EXCEPT !.stop = [s \in Session |-> IF s \in S THEN [@[s] EXCEPT ![k] = "begun"]
                                        ELSE @[s]],
            !.armed = (@ \ S) \cup (S \cap v.agent),
            !.agent = @ \ S]

(* reapForQueue: one handoff stop per session at a time. *)
Reap(v) ==
  BeginStop(v, {s \in BlockingQueue(v) : v.stop[s]["queue"] = "no"}, "queue")

(* The kernel's idle(): arm the timer of an idle session, free the queue. *)
NoteIdle(v, s) ==
  Reap(IF Idle(v, s) THEN [v EXCEPT !.armed = @ \cup {s}] ELSE v)

(* Queued with a fresh queuedAt: behind everything already waiting. *)
Enqueued(v, s) ==
  LET behind == {<<t, s>> : t \in {t \in Session \ {s} : v.state[t] = "queued"}}
      q == [Unqueue(v, {s}) EXCEPT !.state[s] = "queued", !.before = @ \cup behind]
  IN  Schedule(Reap(q))

(* A start that failed, or was refused: back to draft. *)
FailedStart(v, s) ==
  Schedule(NoteIdle([Unqueue(v, {s}) EXCEPT
                       !.state[s] = "draft", !.step[s] = "none"], s))

(* The exit of a live adapter: its session is no longer busy when the idle   *)
(* policy looks at it, and the prompt in flight is then rejected.            *)
AgentGone(v, s) ==
  LET turn == v.step[s] = "turn"
      w == NoteIdle([v EXCEPT !.agent = @ \ {s},
                              !.step[s] = IF turn THEN "none" ELSE @], s)
  IN  IF turn THEN [w EXCEPT !.step[s] = "failed"] ELSE w

(* A turn is over: the session falls idle, the queue is served, and then     *)
(* comes what runPrompt does next - one nudge, a limit's own continuation,   *)
(* or the next waiting prompt.                                               *)
TurnOver(v, s, next) ==
  LET w == NoteIdle([v EXCEPT !.step[s] = "none"], s)
  IN  CASE next = "nudge" ->
             BeginTurn([w EXCEPT !.nudging = @ \cup {s}], {s}, "open")
        [] next = "limited" ->
             Schedule([w EXCEPT !.held = @ \cup {s}, !.nudging = @ \ {s},
                                !.pend[s] = IF @ = 0 THEN 1 ELSE @])
        [] OTHER -> Drain([w EXCEPT !.nudging = @ \ {s}], {s})
=============================================================================
