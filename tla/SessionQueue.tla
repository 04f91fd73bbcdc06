---------------------------- MODULE SessionQueue ----------------------------
(***************************************************************************)
(* The session queue of one task: SessionManager's scheduler and start     *)
(* path, the container records it reads, and the kernel's idle policy and  *)
(* queue handoff, which stop the containers the queue waits for.           *)
(*                                                                         *)
(* Claims and the concurrency cap are both keyed by task, so sessions of   *)
(* different tasks never constrain one another: one task is the system.    *)
(*                                                                         *)
(* An action is what runs between two awaits of the main process, with     *)
(* every bus handler it reaches synchronously.  Those handlers nest (an    *)
(* enqueue reaps idle holders, then schedules), so a handler is written as *)
(* a function from a View of the whole state to the View it leaves.        *)
(***************************************************************************)
EXTENDS QueueViews

CONSTANTS
  Contracted,     \* sessions whose role has the turn contract (may be nudged)
  Configured,     \* sessions with picks or a mode to tell the agent of a start
  Prompted,       \* sessions the user sends follow-up prompts to
  Faulty,         \* sessions whose launch may fail and whose adapter may die
  Handled,        \* sessions whose container the user stops and releases
  FailingStops,   \* the kinds of stop whose docker call may fail
  MaxCalls,       \* bound on the user's calls in flight on one container
  MaxRestarts     \* bound on the number of application restarts

ASSUME BoundsAssumption ==
  /\ MaxRestarts \in Nat /\ MaxCalls \in Nat /\ Contracted \subseteq Session
  /\ Configured \subseteq Session /\ Prompted \subseteq Session /\ Faulty \subseteq Session
  /\ Handled \subseteq Session /\ FailingStops \subseteq {"idle", "queue"}

VARIABLES
  state,        \* SessionInfo.state; "absent" not yet created, "deleted" gone
  before,       \* <<s, t>> : both queued, s's queuedAt earlier than t's
  cont,         \* SessionContainer.status as isActive reads it (see ContStates)
  box,          \* the session's container as the daemon has it
  step,         \* what the session's start, resume or turn is awaiting
  agent,        \* attached: a live adapter has this session open
  pend,         \* number of prompts waiting in the session
  nudging,      \* sessions whose turn in flight is the contract's nudge
  recovering,   \* sessions paused by a restart until the user resumes them
  held,         \* sessions a plan limit holds right now
  cap,          \* maxConcurrentSessions of the task
  armed,        \* sessions with an idle timer running
  stop,         \* each session's container stops in flight, by who asked
  restarts      \* number of restarts so far

vars == <<state, before, cont, box, step, agent, pend, nudging, recovering,
          held, cap, armed, stop, restarts>>

Now ==
  [state |-> state, before |-> before, cont |-> cont, box |-> box,
   step |-> step, agent |-> agent, pend |-> pend, nudging |-> nudging,
   recovering |-> recovering, held |-> held, cap |-> cap, armed |-> armed,
   stop |-> stop]

Become(v) ==
  /\ state' = v.state /\ before' = v.before /\ cont' = v.cont /\ box' = v.box
  /\ step' = v.step /\ agent' = v.agent /\ pend' = v.pend
  /\ nudging' = v.nudging /\ recovering' = v.recovering /\ held' = v.held
  /\ cap' = v.cap /\ armed' = v.armed /\ stop' = v.stop

TypeOK == Now \in View /\ restarts \in 0..MaxRestarts

Init ==
  /\ state = [s \in Session |-> "absent"] /\ before = {}
  /\ cont = [s \in Session |-> "inactive"] /\ box = [s \in Session |-> "none"]
  /\ step = [s \in Session |-> "none"] /\ agent = {}
  /\ pend = [s \in Session |-> 0] /\ nudging = {} /\ recovering = {}
  /\ held = {} /\ cap \in Caps /\ armed = {}
  /\ stop = [s \in Session |-> [k \in StopKinds |-> "no"]] /\ restarts = 0


-----------------------------------------------------------------------------
(* User operations.                                                        *)

CreateSession(s) ==
  /\ state[s] = "absent"
  /\ Become(NoteIdle([Now EXCEPT !.state[s] = "draft"], s))
  /\ UNCHANGED restarts

Enqueue(s) ==
  /\ state[s] \in {"draft", "queued"}
  /\ Become(Enqueued(Now, s)) /\ UNCHANGED restarts

(* Run now: queued at the cap or on a held account, refused while the clone  *)
(* is somebody else's, started otherwise.                                    *)
Run(s) ==
  /\ state[s] \in {"draft", "queued"}
  /\ LET v == [Now EXCEPT !.armed = @ \ {s}] IN
     Become(IF (cap > 0 /\ ActiveCount(Now) >= cap) \/ s \in held
              THEN Enqueued(Now, s)
            ELSE IF Holders(Now, s) # {} THEN FailedStart(v, s)
            ELSE StartAll(v, {s}))
  /\ UNCHANGED restarts

CancelQueue(s) ==
  /\ state[s] = "queued"
  /\ Become(NoteIdle([Unqueue(Now, {s}) EXCEPT !.state[s] = "draft"], s))
  /\ UNCHANGED restarts

(* The record goes at once, its container in the background.  The exit of a  *)
(* live adapter finds no session and only runs the handoff.                  *)
DeleteSession(s) ==
  /\ Exists(Now, s)
  /\ LET gone == [Unqueue(Now, {s}) EXCEPT
                    !.state[s] = "deleted", !.cont[s] = "inactive",
                    !.box[s] = "none", !.step[s] = "none", !.agent = @ \ {s},
                    !.pend[s] = 0, !.nudging = @ \ {s},
                    !.recovering = @ \ {s}, !.held = @ \ {s},
                    !.armed = @ \ {s}, !.stop[s] = [k \in StopKinds |-> "no"]]
     IN Become(IF s \in agent THEN Reap(Schedule(gone)) ELSE Schedule(gone))
  /\ UNCHANGED restarts

(* A prompt is accepted, ends a recovery pause, takes the place of the       *)
(* session's own continuation if that waits, and is sent or waits.  (None is *)
(* typed before a start has sent its own: two turns at once are SessionTurn's.) *)
Prompt(s) ==
  /\ s \in Prompted /\ state[s] = "started" /\ step[s] \notin {"config", "open"}
  /\ \E n \in {pend[s], pend[s] + 1} \cap 1..MaxPend :
       LET v == Drain([Now EXCEPT !.pend[s] = n, !.recovering = @ \ {s}], {s})
       IN  Become(IF v.pend[s] > 0 THEN Reap(v) ELSE v)
  /\ UNCHANGED restarts

(* Take every waiting prompt back; the session's own limit hold goes too. *)
ClearPending(s) ==
  /\ Exists(Now, s) /\ pend[s] > 0
  /\ \E h \in {held, held \ {s}} :
       Become([Now EXCEPT !.pend[s] = 0, !.held = h])
  /\ UNCHANGED restarts

(* Resume a paused session, with a continuation if a turn was interrupted. *)
ResumeInterrupted(s) ==
  /\ s \in recovering /\ state[s] = "started"
  /\ \E n \in {pend[s], pend[s] + 1} \cap 0..MaxPend :
       Become(Drain([Now EXCEPT !.pend[s] = n, !.recovering = @ \ {s}], {s}))
  /\ UNCHANGED restarts

SetTaskCap(n) ==
  /\ n # cap /\ Become(Schedule([Now EXCEPT !.cap = n])) /\ UNCHANGED restarts

(* Mutant: a lifted hold waits for the next event. *)
LimitsChangeQuiet(H) ==
  /\ H # held /\ H \subseteq {s \in Limitable : Exists(Now, s)}
  /\ Become([Now EXCEPT !.held = H]) /\ UNCHANGED restarts

(* A usage read, a reset passing or new limit settings change who is held. *)
LimitsChange(H) ==
  /\ H # held /\ H \subseteq {s \in Limitable : Exists(Now, s)}
  /\ Become(Schedule([Now EXCEPT !.held = H])) /\ UNCHANGED restarts

-----------------------------------------------------------------------------
(* Starts, resumes and turns.                                              *)

(* attach(): a session already open goes straight to its prompt; one that is *)
(* not must find its clones free before its container is woken.              *)
Attach(s) ==
  /\ step[s] = "attach"
  /\ step' = [step EXCEPT ![s] = IF s \in agent THEN "turn"
                                 ELSE IF Holders(Now, s) # {} THEN "failed"
                                 ELSE "resolve"]
  /\ UNCHANGED <<state, before, cont, box, agent, pend, nudging, recovering,
                 held, cap, armed, stop, restarts>>

(* Skills, agent registry, credentials, docker probes: then a container that *)
(* is up is reused, anything else is (re)built.                              *)
Resolve(s) ==
  /\ step[s] = "resolve"
  /\ IF cont[s] = "running" /\ box[s] = "up"
       THEN step' = [step EXCEPT ![s] = "wire"] /\ UNCHANGED cont
       ELSE /\ step' = [step EXCEPT ![s] = "provision"]
            /\ cont' = [cont EXCEPT ![s] = "building"]
  /\ UNCHANGED <<state, before, box, agent, pend, nudging, recovering, held,
                 cap, armed, stop, restarts>>

ResolveFails(s) ==
  /\ step[s] = "resolve" /\ step' = [step EXCEPT ![s] = "failed"]
  /\ UNCHANGED <<state, before, cont, box, agent, pend, nudging, recovering,
                 held, cap, armed, stop, restarts>>

(* The daemon serialises what it does to one container: a docker stop that   *)
(* took effect has returned before a later start of it has set it up again.  *)
Provisioned(s) ==
  /\ step[s] = "provision" /\ \A k \in StopKinds : stop[s][k] # "down"
  /\ step' = [step EXCEPT ![s] = "wire"]
  /\ cont' = [cont EXCEPT ![s] = "running"] /\ box' = [box EXCEPT ![s] = "up"]
  /\ UNCHANGED <<state, before, agent, pend, nudging, recovering, held, cap,
                 armed, stop, restarts>>

(* The record says "error" (which frees the clone) and the scheduler runs;   *)
(* the container may be left up, as after a failed start script, or be gone,  *)
(* when a leftover was removed and its replacement could not be created.     *)
ProvisionFails(s) ==
  /\ step[s] = "provision"
  /\ \E b \in {box[s], "none", "up"} :
       Become(Schedule([Now EXCEPT !.step[s] = "failed",
                                   !.cont[s] = "inactive", !.box[s] = b]))
  /\ UNCHANGED restarts

(* session/new or session/load answered.  A resume sends the prompt it was   *)
(* woken for; a start tells the agent what was picked for it, if anything    *)
(* was, and sends its start prompt.                                          *)
Wired(s) ==
  /\ step[s] = "wire" /\ box[s] = "up"
  /\ LET v == [Now EXCEPT !.agent = @ \cup {s}]
         up == [v EXCEPT !.state[s] = "started", !.nudging = @ \ {s}]
     IN Become(IF state[s] # "starting" THEN [v EXCEPT !.step[s] = "turn"]
               ELSE IF s \in Configured THEN [up EXCEPT !.step[s] = "config"]
               ELSE BeginTurn(up, {s}, "open"))
  /\ UNCHANGED restarts

(* applyStartConfig and applyAutoAllow are through.  Whatever they were told *)
(* is only noted, the death of the agent too: the start goes on.             *)
ConfigApplied(s) ==
  /\ step[s] = "config"
  /\ Become(BeginTurn(Now, {s}, "open")) /\ UNCHANGED restarts

(* mask.encode answered: only now is the session busy.                       *)
Masked(s) ==
  /\ step[s] \in {"open", "mask"} /\ step' = [step EXCEPT ![s] = "attach"]
  /\ UNCHANGED <<state, before, cont, box, agent, pend, nudging, recovering,
                 held, cap, armed, stop, restarts>>

MaskFails(s) ==
  /\ step[s] \in {"open", "mask"} /\ step' = [step EXCEPT ![s] = "failed"]
  /\ UNCHANGED <<state, before, cont, box, agent, pend, nudging, recovering,
                 held, cap, armed, stop, restarts>>

WireFails(s) ==
  /\ step[s] = "wire" /\ step' = [step EXCEPT ![s] = "failed"]
  /\ UNCHANGED <<state, before, cont, box, agent, pend, nudging, recovering,
                 held, cap, armed, stop, restarts>>

TurnEnds(s) ==
  /\ step[s] = "turn"
  /\ \E next \in {"done"} \cup (IF s \in Contracted \ nudging THEN {"nudge"} ELSE {})
                          \cup (IF s \in Limitable THEN {"limited"} ELSE {}) :
       Become(TurnOver(Now, s, next))
  /\ UNCHANGED restarts

(* The catch: a start goes back to draft, a turn ends with an error. *)
Fails(s) ==
  /\ step[s] = "failed"
  /\ Become(IF state[s] = "starting" THEN FailedStart(Now, s)
                                     ELSE TurnOver(Now, s, "done"))
  /\ UNCHANGED restarts

AgentExits(s) == s \in agent /\ Become(AgentGone(Now, s)) /\ UNCHANGED restarts

-----------------------------------------------------------------------------
(* Container stops.                                                        *)

(* autoStopIfIdle: idle and running are checked again when the timer fires.  *)
(* A docker stop does not outlast the grace period: one idle stop at a time. *)
IdleTimerFires(s) ==
  /\ s \in armed
  /\ LET v == [Now EXCEPT !.armed = @ \ {s}]
     IN Become(IF ~(Idle(v, s) /\ cont[s] = "running" /\ stop[s]["idle"] = "no")
                 THEN v
               ELSE IF s \in agent THEN Reap(BeginStop(v, {s}, "idle"))
               ELSE BeginStop(v, {s}, "idle"))
  /\ UNCHANGED restarts

(* The user takes a container down, whatever its session is doing: at most   *)
(* one call of each kind is in flight, and MaxCalls in all.                  *)
TakeDown(s, k) ==
  /\ s \in Handled /\ Exists(Now, s) /\ stop[s][k] = "no"
  /\ Cardinality({h \in {"user", "release"} : stop[s][h] # "no"}) < MaxCalls
  /\ box[s] # "none" \/ step[s] = "provision"
  /\ LET v == [Now EXCEPT !.stop[s][k] = "begun", !.armed = @ \ {s}]
     IN Become(IF s \in agent THEN AgentGone(v, s) ELSE v)
  /\ UNCHANGED restarts

(* A stop acts on the container the record names and fails without one.     *)
UserStop(s) == cont[s] # "inactive" /\ box[s] # "none" /\ TakeDown(s, "user")

Release(s) == TakeDown(s, "release")

(* Mutant: the death of an adapter with its container goes unnoticed. *)
ContainerStopsDeaf(s, k) ==
  /\ stop[s][k] = "begun"
  /\ IF k = "release" THEN step[s] # "provision" ELSE box[s] # "none"
  /\ Become([Now EXCEPT !.stop[s][k] = "down",
                        !.box[s] = IF k = "release" THEN "none" ELSE "stopped"])
  /\ UNCHANGED restarts

(* docker stop or docker rm returns; an adapter attached meanwhile dies with *)
(* the container, and a prompt in flight is rejected.  Only a release waits  *)
(* for a container still being brought up.                                   *)
ContainerStops(s, k) ==
  /\ stop[s][k] = "begun"
  /\ IF k = "release" THEN step[s] # "provision" ELSE box[s] # "none"
  /\ LET v == [Now EXCEPT !.stop[s][k] = "down",
                          !.box[s] = IF k = "release" THEN "none" ELSE "stopped"]
     IN Become(IF s \in agent THEN AgentGone(v, s) ELSE v)
  /\ UNCHANGED restarts

(* Mutant: the scheduler does not listen to container.status. *)
StopRecordedQuiet(s, k) ==
  /\ stop[s][k] = "down" /\ k # "release"
  /\ Become([Now EXCEPT !.stop[s][k] = IF k = "queue" THEN "settle" ELSE "no",
                        !.cont[s] = "inactive"])
  /\ UNCHANGED restarts

(* The record is written as "stopped", whatever it has become meanwhile, and *)
(* the scheduler runs off the event.                                         *)
StopRecorded(s, k) ==
  /\ stop[s][k] = "down" /\ k # "release"
  /\ Become(Schedule([Now EXCEPT
       !.stop[s][k] = IF k = "queue" THEN "settle" ELSE "no",
       !.cont[s] = "inactive"]))
  /\ UNCHANGED restarts

(* A release drops the record, which no event announces. *)
ReleaseRecorded(s) ==
  /\ stop[s]["release"] = "down"
  /\ Become([Now EXCEPT !.stop[s]["release"] = "no", !.cont[s] = "inactive"])
  /\ UNCHANGED restarts

(* The handoff's .finally: another pass. *)
HandoffSettles(s) ==
  /\ stop[s]["queue"] = "settle"
  /\ Become(Schedule([Now EXCEPT !.stop[s]["queue"] = "no"]))
  /\ UNCHANGED restarts

(* Mutant: a failed handoff leaves no timer behind. *)
StopFailsOnce(s, k) ==
  /\ k # "release" /\ stop[s][k] = "begun"
  /\ k \in FailingStops \/ box[s] = "none"
  /\ Become(Schedule([Now EXCEPT !.stop[s][k] = "no"]))
  /\ UNCHANGED restarts

(* A failed handoff re-arms the grace period; any other failed stop is only  *)
(* reported.  A container that was removed meanwhile cannot be stopped.      *)
StopFails(s, k) ==
  /\ k # "release" /\ stop[s][k] = "begun"
  /\ k \in FailingStops \/ box[s] = "none"
  /\ LET v == [Now EXCEPT !.stop[s][k] = "no"]
     IN Become(IF k = "queue" THEN Schedule([v EXCEPT !.armed = @ \cup {s}]) ELSE v)
  /\ UNCHANGED restarts

(* The application goes down at any point and comes back: a start in flight  *)
(* is a draft again (D: if it is not recorded as started by then), an        *)
(* interrupted turn and restored prompts are paused, container records are   *)
(* reconciled with the daemon, then the queue resumes.                       *)
Restart ==
  /\ restarts < MaxRestarts /\ restarts' = restarts + 1
  /\ \E D \in SUBSET {s \in Session : step[s] \in {"config", "open"} /\ s \notin nudging} :
     LET v == [Now EXCEPT
           !.state = [s \in Session |-> IF @[s] = "starting" \/ s \in D THEN "draft"
                                        ELSE @[s]],
           !.cont  = [s \in Session |-> IF box[s] = "up" THEN "running" ELSE "inactive"],
           !.step  = [s \in Session |-> "none"], !.agent = {}, !.nudging = {},
           !.recovering = {s \in Session : pend[s] > 0 \/ s \in @ \/ Busy(Now, s)
                                           \/ step[s] = "mask"},
           !.armed = {}, !.stop = [s \in Session |-> [k \in StopKinds |-> "no"]]]
     IN Become(Reap(Schedule(v)))

-----------------------------------------------------------------------------
UserStep ==
  \/ \E s \in Session :
       \/ CreateSession(s) \/ Enqueue(s) \/ CancelQueue(s) \/ DeleteSession(s)
       \/ Prompt(s) \/ ClearPending(s) \/ ResumeInterrupted(s)
       \/ UserStop(s) \/ Release(s)
  \/ \E n \in Caps : SetTaskCap(n)
  \/ \E H \in SUBSET Limitable : LimitsChange(H)

SystemStep(s) ==
  \/ Attach(s) \/ Resolve(s) \/ Provisioned(s) \/ Wired(s) \/ ConfigApplied(s)
  \/ Masked(s) \/ TurnEnds(s)
  \/ Fails(s) \/ IdleTimerFires(s)
  \/ \E k \in StopKinds : ContainerStops(s, k) \/ StopRecorded(s, k)
  \/ ReleaseRecorded(s) \/ HandoffSettles(s)
  \/ box[s] # "up" /\ WireFails(s)

Fault(s) ==
  \/ /\ s \in Faulty
     /\ ResolveFails(s) \/ ProvisionFails(s) \/ WireFails(s) \/ AgentExits(s)
        \/ MaskFails(s)
  \/ \E k \in StopKinds : StopFails(s, k)

Next ==
  \/ UserStep \/ Restart
  \/ \E s \in Session : Run(s) \/ SystemStep(s) \/ Fault(s)

Spec == Init /\ [][Next]_vars

(* No await lasts forever and an armed timer fires.  The agent's turns are    *)
(* assumed to end.  Said of the states, not as WF of the actions: the same   *)
(* thing here, where every step of a session can always go on.               *)
Fairness ==
  \A s \in Session :
    /\ []<>(s \notin armed)
    /\ \A p \in Steps \ {"none"} : []<>(step[s] # p)
    /\ \A k \in StopKinds, p \in StopSteps \ {"no"} : []<>(stop[s][k] # p)

(* Users who queue their sessions, prompt, cancel and delete, but neither    *)
(* jump the queue by Run nor queue a waiting session anew.                   *)
Orderly ==
  \/ \E s \in Session :
       \/ CreateSession(s) \/ CancelQueue(s) \/ DeleteSession(s) \/ Prompt(s)
       \/ state[s] = "draft" /\ Enqueue(s)
       \/ SystemStep(s) \/ Fault(s)

FairSpec == Init /\ [][Orderly]_vars /\ Fairness

-----------------------------------------------------------------------------
(* Properties.                                                             *)

(* A start never shares a clone with another session's claim on it: whoever  *)
(* is active beside a mid-start session it conflicts with is a session that  *)
(* had already run and was woken after the start was admitted.               *)
StartsNeverCollide ==
  \A s, t \in Session :
    s # t /\ Conflict(s, t) /\ state[s] = "starting" /\ Active(Now, t)
      => state[t] = "started"

(* No two agents work on one tree at once (README, "No two agents on one     *)
(* working tree").                                                           *)
CloneExclusive ==
  \A s, t \in agent : s # t => ~Conflict(s, t)

(* The queue keeps the task busy: between steps, no queued session is free   *)
(* to start.                                                                 *)
NothingOverlooked == Admitted(Now) = {}

(* Nothing in flight and no timer running that could still free a clone. *)
Quiet ==
  \A s \in Session : /\ step[s] = "none" /\ s \notin armed
                     /\ \A k \in StopKinds : stop[s][k] = "no"

(* The queue is never left waiting on something that will not happen: when   *)
(* the process is quiet, only a plan limit still holds a queued session.     *)
QueueMoves == Quiet => Waiting(Now) = {}

(* Nor is an accepted prompt: when the process is quiet, whatever waits is    *)
(* held by a limit or paused until the user resumes it after a restart.      *)
PromptsMove ==
  Quiet => \A s \in Session : pend[s] > 0 => s \in held \cup recovering

(* A stop is only begun for a session with nothing in flight, at the very    *)
(* end of a turn, or in a lull before one, where the code has it started and *)
(* not busy: never under a launch, a resume, or a turn in progress, save     *)
(* those that a restart has ended.                                           *)
StopsAtABoundary ==
  [][\A s \in Session, k \in {"idle", "queue"} :
       stop[s][k] = "no" /\ stop'[s][k] = "begun"
         => /\ state'[s] # "starting"
            /\ step[s] \in {"none", "turn", "failed"} \cup Lulls \/ restarts' # restarts]_vars

(* Nor in such a lull: a session whose agent is being configured, or whose    *)
(* text is being masked, is at work (holdersBlockingQueue: a holder that is  *)
(* mid-start or mid-turn "is doing real work and is never listed").          *)
StartsAreLeftAlone ==
  [][\A s \in Session :
       stop[s]["queue"] = "no" /\ stop'[s]["queue"] = "begun"
         => step[s] \notin Lulls]_vars

(* Restored work is asked for: a session paused by a restart takes up no     *)
(* turn until its user sends it a prompt or resumes it.                      *)
PausedUntilAsked ==
  [][\A s \in recovering :
       step[s] = "none" /\ step'[s] \in {"mask", "attach"}
         => Prompt(s) \/ ResumeInterrupted(s)]_vars

(* A queued session leaves the queue: no stream of readers keeps a writer    *)
(* waiting, and no holder keeps its container once its turn is over.         *)
EveryoneGetsATurn == \A s \in Session : state[s] = "queued" ~> state[s] # "queued"

(* A session the scheduler cannot see has no agent at work: whoever has a    *)
(* live agent is active, so nothing conflicting can be started beside it.    *)
AgentIsVisible == \A s \in agent : Active(Now, s)
=============================================================================
