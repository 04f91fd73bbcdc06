------------------------ MODULE SessionQueue_proofs ------------------------
(***************************************************************************)
(* Proofs about the session queue, for any sessions, clones, mounts, caps  *)
(* and bounds.                                                             *)
(*                                                                         *)
(* The handlers are functions of a View, so the proof has two layers.      *)
(* Lemmas say what each handler does to a View: that it leaves a View, and *)
(* that it leaves it Safe, the inductive invariant.  The theorems then go  *)
(* through the actions, each of which is one handler, or a few.            *)
(*                                                                         *)
(* In this order: types and collisions (Inv), agents that are seen         *)
(* (Visible), where stops begin and paused work (AtBoundary), the line of  *)
(* Admission it implements (Lined), and why it never stalls (Stands).      *)
(***************************************************************************)
EXTENDS QueueRefinement, FiniteSetTheorems, WellFoundedInduction, TLAPS

(***************************************************************************)
(* Every handler leaves a View.                                            *)
(***************************************************************************)
LEMMA UnqueueType ==
  ASSUME NEW v \in View, NEW S \in SUBSET Session
  PROVE  Unqueue(v, S) \in View
BY DEF Unqueue, View

LEMMA StartAllType ==
  ASSUME NEW v \in View, NEW S \in SUBSET Session
  PROVE  StartAll(v, S) \in View
<1> DEFINE u == Unqueue(v, S)
<1>1. u \in View
  BY UnqueueType
<1> HIDE DEF u
<1> QED
  BY <1>1 DEF StartAll, View, SessionStates, Steps, u

(* A turn opens with its text being masked, or with its attach.              *)
LEMMA Openings ==
  ASSUME NEW lull \in {"open", "mask"}
  PROVE  Opening(lull) \in {lull, "attach"}
BY DEF Opening

LEMMA BeginTurnType ==
  ASSUME NEW v \in View, NEW S \in SUBSET Session, NEW lull \in {"open", "mask"}
  PROVE  BeginTurn(v, S, lull) \in View
BY Openings DEF BeginTurn, View, Steps, Lulls

(* One session's turn is opened.                                             *)
LEMMA Opened ==
  ASSUME NEW v \in View, NEW s \in Session, NEW lull \in {"open", "mask"}
  PROVE  BeginTurn(v, {s}, lull) = [v EXCEPT !.step[s] = Opening(lull), !.armed = @ \ {s}]
<1> DEFINE o == Opening(lull)
<1> HIDE DEF o
<1>1. [t \in Session |-> IF t \in {s} THEN o ELSE v.step[t]] = [v.step EXCEPT ![s] = o]
  BY DEF View
<1> QED
  BY <1>1 DEF BeginTurn, o

LEMMA DrainType ==
  ASSUME NEW v \in View, NEW S \in SUBSET Session
  PROVE  Drain(v, S) \in View
<1> DEFINE D == S \cap Drainable(v)
           u == BeginTurn(v, D, "mask")
           p == [s \in Session |-> IF s \in D THEN u.pend[s] - 1 ELSE u.pend[s]]
<1>1. D \in SUBSET Session /\ \A s \in D : v.pend[s] > 0
  BY DEF Drainable
<1>2. Drain(v, S) = [u EXCEPT !.pend = p, !.nudging = @ \ D]
  BY DEF Drain
<1>3. u.pend = v.pend
  BY DEF BeginTurn, View
<1> HIDE DEF D
<1>4. u \in View
  BY <1>1, BeginTurnType
<1> HIDE DEF u
<1>5. p \in [Session -> 0..MaxPend]
  BY <1>1, <1>3, <1>4, ViewAssumption DEF View
<1> DEFINE n == u.nudging \ D
<1>6. n \in SUBSET Session
  BY <1>4 DEF View
<1>7. Drain(v, S) = [u EXCEPT !.pend = p, !.nudging = n]
  BY <1>2
<1> HIDE DEF p, n
<1>8. [u EXCEPT !.pend = p, !.nudging = n] \in View
  BY <1>4, <1>5, <1>6 DEF View
<1> QED
  BY <1>7, <1>8

LEMMA ScheduleType ==
  ASSUME NEW v \in View
  PROVE  Schedule(v) \in View
<1>1. Admitted(v) \in SUBSET Session
  BY DEF Admitted, Startable, Waiting
<1> QED
  BY <1>1, StartAllType, DrainType DEF Schedule

LEMMA BeginStopType ==
  ASSUME NEW v \in View, NEW S \in SUBSET Session, NEW k \in StopKinds
  PROVE  BeginStop(v, S, k) \in View
BY DEF BeginStop, View, StopSteps

LEMMA ReapType ==
  ASSUME NEW v \in View
  PROVE  Reap(v) \in View
<1>1. {s \in BlockingQueue(v) : v.stop[s]["queue"] = "no"} \in SUBSET Session
  BY DEF BlockingQueue
<1> QED
  BY <1>1, BeginStopType DEF Reap, StopKinds

LEMMA NoteIdleType ==
  ASSUME NEW v \in View, NEW s \in Session
  PROVE  NoteIdle(v, s) \in View
<1>1. [v EXCEPT !.armed = @ \cup {s}] \in View
  BY DEF View
<1> QED
  BY <1>1, ReapType DEF NoteIdle

LEMMA EnqueuedType ==
  ASSUME NEW v \in View, NEW s \in Session
  PROVE  Enqueued(v, s) \in View
<1> DEFINE behind == {<<t, s>> : t \in {t \in Session \ {s} : v.state[t] = "queued"}}
           u == Unqueue(v, {s})
           q == [u EXCEPT !.state[s] = "queued", !.before = @ \cup behind]
<1>1. u \in View /\ behind \in SUBSET (Session \X Session)
  BY UnqueueType
<1>2. q \in View
  <2> HIDE DEF u, behind
  <2> QED BY <1>1 DEF View, SessionStates
<1> HIDE DEF q
<1>3. Schedule(Reap(q)) \in View
  BY <1>2, ReapType, ScheduleType
<1> QED
  BY <1>3 DEF Enqueued, q

LEMMA FailedStartType ==
  ASSUME NEW v \in View, NEW s \in Session
  PROVE  FailedStart(v, s) \in View
<1> DEFINE u == Unqueue(v, {s})
           w == [u EXCEPT !.state[s] = "draft", !.step[s] = "none"]
<1>1. u \in View
  BY UnqueueType
<1>2. w \in View
  <2> HIDE DEF u
  <2> QED BY <1>1 DEF View, SessionStates, Steps
<1> HIDE DEF w
<1>3. Schedule(NoteIdle(w, s)) \in View
  BY <1>2, NoteIdleType, ScheduleType
<1> QED
  BY <1>3 DEF FailedStart, w

LEMMA AgentGoneType ==
  ASSUME NEW v \in View, NEW s \in Session
  PROVE  AgentGone(v, s) \in View
<1> DEFINE u == [v EXCEPT !.agent = @ \ {s},
                          !.step[s] = IF v.step[s] = "turn" THEN "none" ELSE @]
           w == NoteIdle(u, s)
<1>1. u \in View
  BY DEF View, Steps
<1> HIDE DEF u
<1>2. w \in View
  BY <1>1, NoteIdleType
<1> HIDE DEF w
<1>3. [w EXCEPT !.step[s] = "failed"] \in View
  BY <1>2 DEF View, Steps
<1> QED
  BY <1>2, <1>3 DEF AgentGone, w, u

LEMMA TurnOverType ==
  ASSUME NEW v \in View, NEW s \in Session, NEW next,
         next = "limited" => s \in Limitable
  PROVE  TurnOver(v, s, next) \in View
<1> DEFINE u == [v EXCEPT !.step[s] = "none"]
           w == NoteIdle(u, s)
<1>1. u \in View
  BY DEF View, Steps
<1> HIDE DEF u
<1>2. w \in View
  BY <1>1, NoteIdleType
<1> HIDE DEF w
<1>3. CASE next = "nudge"
  <2>1. [w EXCEPT !.nudging = @ \cup {s}] \in View
    BY <1>2 DEF View
  <2>2. BeginTurn([w EXCEPT !.nudging = @ \cup {s}], {s}, "open") \in View
    BY <2>1, BeginTurnType
  <2> QED BY <1>3, <2>2 DEF TurnOver, w, u
<1>4. CASE next = "limited"
  <2> DEFINE l == [w EXCEPT !.held = @ \cup {s}, !.nudging = @ \ {s},
                            !.pend[s] = IF @ = 0 THEN 1 ELSE @]
  <2>1. [w.pend EXCEPT ![s] = IF @ = 0 THEN 1 ELSE @] \in [Session -> 0..MaxPend]
    BY <1>2, ViewAssumption DEF View
  <2>2. s \in Limitable
    BY <1>4
  <2>3. l \in View
    BY <1>2, <2>1, <2>2 DEF View
  <2> HIDE DEF l
  <2>4. Schedule(l) \in View
    BY <2>3, ScheduleType
  <2> QED BY <1>4, <2>4 DEF TurnOver, w, u, l
<1>5. CASE next \notin {"nudge", "limited"}
  <2>1. [w EXCEPT !.nudging = @ \ {s}] \in View
    BY <1>2 DEF View
  <2>2. Drain([w EXCEPT !.nudging = @ \ {s}], {s}) \in View
    BY <2>1, DrainType
  <2> QED BY <1>5, <2>2 DEF TurnOver, w, u
<1> QED
  BY <1>3, <1>4, <1>5

(***************************************************************************)
(* The inductive invariant.  StartsNeverCollide alone is not inductive: a  *)
(* pass keeps two conflicting items apart by their order in the queue, so  *)
(* the queue must be ordered, and a container comes up under a session in  *)
(* the middle of a start or of a resume only.                              *)
(***************************************************************************)
Apart(v) ==
  \A s, t \in Session :
    s # t /\ Conflict(s, t) /\ v.state[s] = "starting" /\ Active(v, t)
      => v.state[t] = "started"

StepsFit(v) ==
  \A s \in Session : v.step[s] # "none" => v.state[s] \in {"starting", "started"}

Ordered(v) ==
  \A s, t \in Session :
    s # t /\ v.state[s] = "queued" /\ v.state[t] = "queued"
      => <<s, t>> \in v.before \/ <<t, s>> \in v.before

Safe(v) == Apart(v) /\ StepsFit(v) /\ Ordered(v)

LEMMA ConflictSymmetric ==
  ASSUME NEW s, NEW t
  PROVE  Conflict(s, t) <=> Conflict(t, s)
BY DEF Conflict

(* What Safe speaks of. *)
Core(v) == <<v.state, v.cont, v.step, v.before>>

LEMMA SafeByCore ==
  ASSUME NEW v, NEW w, Core(w) = Core(v), Safe(v)
  PROVE  Safe(w)
BY DEF Core, Safe, Apart, StepsFit, Ordered, Active

LEMMA ReapCore ==
  ASSUME NEW v \in View
  PROVE  Core(Reap(v)) = Core(v)
BY DEF Reap, BeginStop, Core, View

LEMMA NoteIdleCore ==
  ASSUME NEW v \in View, NEW s \in Session
  PROVE  Core(NoteIdle(v, s)) = Core(v)
<1> DEFINE a == [v EXCEPT !.armed = @ \cup {s}]
<1>1. a \in View /\ Core(a) = Core(v)
  BY DEF View, Core
<1> HIDE DEF a
<1> QED
  BY <1>1, ReapCore DEF NoteIdle, a

LEMMA DrainSafe ==
  ASSUME NEW v \in View, NEW S \in SUBSET Session, Safe(v)
  PROVE  Safe(Drain(v, S))
<1> DEFINE w == Drain(v, S)
<1>1. w.state = v.state /\ w.cont = v.cont /\ w.before = v.before
  BY DEF Drain, BeginTurn, View
<1>2. \A s \in Session : w.step[s] = v.step[s] \/ v.state[s] = "started"
  BY DEF Drain, BeginTurn, Drainable, View
<1> HIDE DEF w
<1>3. Safe(w)
  BY <1>1, <1>2 DEF Safe, Apart, StepsFit, Ordered, Active
<1> QED
  BY <1>3 DEF w

LEMMA StartAllSafe ==
  ASSUME NEW v \in View, NEW S \in SUBSET Session, Safe(v),
         \A s \in S : Holders(v, s) = {},
         \A s, t \in S : s # t => ~Conflict(s, t)
  PROVE  Safe(StartAll(v, S))
<1> DEFINE w == StartAll(v, S)
<1>1. /\ w.state = [s \in Session |-> IF s \in S THEN "starting" ELSE v.state[s]]
      /\ w.step = [s \in Session |-> IF s \in S THEN "resolve" ELSE v.step[s]]
      /\ w.cont = v.cont
      /\ w.before = {p \in v.before : p[1] \notin S /\ p[2] \notin S}
  BY DEF StartAll, Unqueue, View
<1> HIDE DEF w
<1>2. Apart(w)
  <2> SUFFICES ASSUME NEW s \in Session, NEW t \in Session, s # t, Conflict(s, t),
                      w.state[s] = "starting", Active(w, t)
               PROVE  w.state[t] = "started"
    BY DEF Apart
  <2>1. CASE s \in S
    <3>1. t \notin S
      BY <2>1
    <3>2. Active(v, t)
      BY <1>1, <3>1 DEF Active
    <3>3. t \in Holders(v, s)
      BY <3>2 DEF Holders
    <3> QED BY <2>1, <3>3
  <2>2. CASE s \notin S /\ t \in S
    <3>1. Active(v, s)
      BY <1>1, <2>2 DEF Active
    <3>2. s \in Holders(v, t)
      BY <3>1, ConflictSymmetric DEF Holders
    <3> QED BY <2>2, <3>2
  <2>3. CASE s \notin S /\ t \notin S
    BY <1>1, <2>3 DEF Safe, Apart, Active
  <2> QED BY <2>1, <2>2, <2>3
<1>3. StepsFit(w)
  BY <1>1 DEF Safe, StepsFit
<1>4. Ordered(w)
  BY <1>1 DEF Safe, Ordered
<1> QED
  BY <1>2, <1>3, <1>4 DEF Safe, w

(* The items a pass starts are free and do not conflict with one another. *)
LEMMA StartableApart ==
  ASSUME NEW v \in View, Ordered(v)
  PROVE  /\ \A s \in Startable(v) : Holders(v, s) = {}
         /\ \A s, t \in Startable(v) : s # t => ~Conflict(s, t)
<1>1. \A s \in Startable(v) : Holders(v, s) = {}
  BY DEF Startable
<1>2. ASSUME NEW s \in Startable(v), NEW t \in Startable(v), s # t
      PROVE  ~Conflict(s, t)
  <2>1. <<s, t>> \in v.before \/ <<t, s>> \in v.before
    BY <1>2 DEF Startable, Waiting, Ordered
  <2>2. CASE <<t, s>> \in v.before
    BY <2>2 DEF Startable
  <2>3. CASE <<s, t>> \in v.before
    BY <2>3, ConflictSymmetric DEF Startable
  <2> QED BY <2>1, <2>2, <2>3
<1> QED BY <1>1, <1>2

LEMMA ScheduleSafe ==
  ASSUME NEW v \in View, Safe(v)
  PROVE  Safe(Schedule(v))
<1> DEFINE A == Admitted(v)
<1>1. A \in SUBSET Session /\ A \subseteq Startable(v)
  BY DEF Admitted, Startable, Waiting
<1> HIDE DEF A
<1>2. StartAll(v, A) \in View
  BY <1>1, StartAllType
<1>3. Safe(StartAll(v, A))
  BY <1>1, StartableApart, StartAllSafe DEF Safe
<1> QED
  BY <1>2, <1>3, DrainSafe DEF Schedule, A

LEMMA EnqueuedSafe ==
  ASSUME NEW v \in View, NEW s \in Session, Safe(v), v.state[s] \in {"draft", "queued"}
  PROVE  Safe(Enqueued(v, s))
<1> DEFINE behind == {<<t, s>> : t \in {t \in Session \ {s} : v.state[t] = "queued"}}
           u == Unqueue(v, {s})
           q == [u EXCEPT !.state[s] = "queued", !.before = @ \cup behind]
<1>1. u \in View /\ behind \in SUBSET (Session \X Session)
  BY UnqueueType
<1>2. q \in View
  <2> HIDE DEF u, behind
  <2> QED BY <1>1 DEF View, SessionStates
<1>3. /\ q.state = [v.state EXCEPT ![s] = "queued"]
      /\ q.cont = v.cont /\ q.step = v.step
      /\ q.before = {p \in v.before : p[1] \notin {s} /\ p[2] \notin {s}} \cup behind
  BY DEF Unqueue, View
<1> HIDE DEF q
<1>4. Apart(q)
  BY <1>3 DEF Safe, Apart, Active, View
<1>5. StepsFit(q)
  BY <1>3 DEF Safe, StepsFit, View
<1>6. Ordered(q)
  BY <1>3 DEF Safe, Ordered, View
<1>7. Safe(Reap(q))
  BY <1>2, <1>4, <1>5, <1>6, ReapCore, SafeByCore DEF Safe
<1> QED
  BY <1>2, <1>7, ReapType, ScheduleSafe DEF Enqueued, q

LEMMA FailedStartSafe ==
  ASSUME NEW v \in View, NEW s \in Session, Safe(v), v.state[s] # "started"
  PROVE  Safe(FailedStart(v, s))
<1> DEFINE u == Unqueue(v, {s})
           w == [u EXCEPT !.state[s] = "draft", !.step[s] = "none"]
<1>1. u \in View
  BY UnqueueType
<1>2. w \in View
  <2> HIDE DEF u
  <2> QED BY <1>1 DEF View, SessionStates, Steps
<1>3. /\ w.state = [v.state EXCEPT ![s] = "draft"]
      /\ w.step = [v.step EXCEPT ![s] = "none"]
      /\ w.cont = v.cont
      /\ w.before = {p \in v.before : p[1] \notin {s} /\ p[2] \notin {s}}
  BY DEF Unqueue, View
<1> HIDE DEF w
<1>4. Apart(w)
  BY <1>3 DEF Safe, Apart, Active, View
<1>5. StepsFit(w)
  BY <1>3 DEF Safe, StepsFit, View
<1>6. Ordered(w)
  BY <1>3 DEF Safe, Ordered, View
<1>7. Safe(NoteIdle(w, s))
  BY <1>2, <1>4, <1>5, <1>6, NoteIdleCore, SafeByCore DEF Safe
<1> QED
  BY <1>2, <1>7, NoteIdleType, ScheduleSafe DEF FailedStart, w

(* A step of one session that leaves every state and container alone. *)
LEMMA StepSafe ==
  ASSUME NEW v, NEW w, NEW s \in Session, NEW p \in Steps, v.step \in [Session -> Steps],
         w.state = v.state, w.cont = v.cont, w.before = v.before,
         w.step = [v.step EXCEPT ![s] = p],
         p = "none" \/ v.state[s] \in {"starting", "started"}, Safe(v)
  PROVE  Safe(w)
BY DEF Safe, Apart, StepsFit, Ordered, Active

LEMMA AgentGoneSafe ==
  ASSUME NEW v \in View, NEW s \in Session, Safe(v)
  PROVE  Safe(AgentGone(v, s))
<1> DEFINE p == IF v.step[s] = "turn" THEN "none" ELSE v.step[s]
           u == [v EXCEPT !.agent = @ \ {s},
                          !.step[s] = IF v.step[s] = "turn" THEN "none" ELSE @]
           w == NoteIdle(u, s)
           f == [w EXCEPT !.step[s] = "failed"]
<1>1. u \in View
  BY DEF View, Steps
<1>2. /\ u.state = v.state /\ u.cont = v.cont /\ u.before = v.before
      /\ u.step = [v.step EXCEPT ![s] = p] /\ v.step \in [Session -> Steps]
      /\ p \in Steps
  BY DEF View, Steps
<1>3. p = "none" \/ v.state[s] \in {"starting", "started"}
  BY DEF Safe, StepsFit
<1> HIDE DEF u, p
<1>4. Safe(u)
  BY <1>2, <1>3, StepSafe
<1>5. w \in View /\ Safe(w) /\ Core(w) = Core(u)
  BY <1>1, <1>4, NoteIdleType, NoteIdleCore, SafeByCore
<1> HIDE DEF w
<1>6. CASE v.step[s] = "turn"
  <2>1. v.state[s] \in {"starting", "started"}
    BY <1>6 DEF Safe, StepsFit
  <2>2. w.state = v.state
    BY <1>2, <1>5 DEF Core
  <2>3. /\ f.state = w.state /\ f.cont = w.cont /\ f.before = w.before
        /\ f.step = [w.step EXCEPT ![s] = "failed"]
        /\ w.step \in [Session -> Steps] /\ "failed" \in Steps
    BY <1>5 DEF View, Steps
  <2> HIDE DEF f
  <2>4. Safe(f)
    BY <1>5, <2>1, <2>2, <2>3, StepSafe
  <2> QED BY <1>6, <2>4 DEF AgentGone, f, w, u
<1>7. CASE v.step[s] # "turn"
  BY <1>5, <1>7 DEF AgentGone, w, u
<1> QED BY <1>6, <1>7

LEMMA TurnOverSafe ==
  ASSUME NEW v \in View, NEW s \in Session, NEW next, Safe(v),
         next = "limited" => s \in Limitable, v.state[s] \in {"starting", "started"}
  PROVE  Safe(TurnOver(v, s, next))
<1> DEFINE u == [v EXCEPT !.step[s] = "none"]
           w == NoteIdle(u, s)
<1>1. u \in View
  BY DEF View, Steps
<1>2. /\ u.state = v.state /\ u.cont = v.cont /\ u.before = v.before
      /\ u.step = [v.step EXCEPT ![s] = "none"] /\ v.step \in [Session -> Steps]
      /\ "none" \in Steps
  BY DEF View, Steps
<1> HIDE DEF u
<1>3. Safe(u)
  BY <1>2, StepSafe
<1>4. w \in View /\ Safe(w) /\ w.state = v.state
  BY <1>1, <1>2, <1>3, NoteIdleType, NoteIdleCore, SafeByCore DEF Core
<1> HIDE DEF w
<1>5. CASE next = "nudge"
  <2> DEFINE n == [w EXCEPT !.nudging = @ \cup {s}]
             t == BeginTurn(n, {s}, "open")
  <2>1. /\ t.state = w.state /\ t.cont = w.cont /\ t.before = w.before
        /\ t.step = [w.step EXCEPT ![s] = Opening("open")]
        /\ w.step \in [Session -> Steps] /\ Opening("open") \in Steps
    BY <1>4, Openings, Opened DEF BeginTurn, View, Steps, Lulls
  <2> HIDE DEF t
  <2>2. Safe(t)
    BY <1>4, <2>1, StepSafe
  <2> QED BY <1>5, <2>2 DEF TurnOver, t, w, u
<1>6. CASE next = "limited"
  <2> DEFINE l == [w EXCEPT !.held = @ \cup {s}, !.nudging = @ \ {s},
                            !.pend[s] = IF @ = 0 THEN 1 ELSE @]
  <2>1. [w.pend EXCEPT ![s] = IF @ = 0 THEN 1 ELSE @] \in [Session -> 0..MaxPend]
    BY <1>4, ViewAssumption DEF View
  <2>2. l \in View /\ Core(l) = Core(w)
    BY <1>4, <1>6, <2>1 DEF View, Core
  <2> HIDE DEF l
  <2>3. Safe(Schedule(l))
    BY <1>4, <2>2, SafeByCore, ScheduleSafe
  <2> QED BY <1>6, <2>3 DEF TurnOver, w, u, l
<1>7. CASE next \notin {"nudge", "limited"}
  <2> DEFINE d == [w EXCEPT !.nudging = @ \ {s}]
  <2>1. d \in View /\ Core(d) = Core(w)
    BY <1>4 DEF View, Core
  <2> HIDE DEF d
  <2>2. Safe(Drain(d, {s}))
    BY <1>4, <2>1, SafeByCore, DrainSafe
  <2> QED BY <1>7, <2>2 DEF TurnOver, w, u, d
<1> QED
  BY <1>5, <1>6, <1>7

LEMMA BeginStopSafe ==
  ASSUME NEW v \in View, NEW S \in SUBSET Session, NEW k \in StopKinds, Safe(v)
  PROVE  Safe(BeginStop(v, S, k))
<1>1. Core(BeginStop(v, S, k)) = Core(v)
  BY DEF BeginStop, Core, View
<1> QED
  BY <1>1, SafeByCore

(***************************************************************************)
(* The actions.                                                            *)
(***************************************************************************)
Inv == TypeOK /\ Safe(Now)

LEMMA BecomeSafe ==
  ASSUME NEW w \in View, Safe(w), Become(w), restarts' \in 0..MaxRestarts
  PROVE  Inv'
<1>1. Now' = w
  BY DEF Become, Now, View
<1> QED
  BY <1>1 DEF Inv, TypeOK, Safe, Apart, StepsFit, Ordered

LEMMA InitSafe == Init => Inv
BY BoundsAssumption, ViewAssumption
   DEF Init, Inv, TypeOK, Now, View, SessionStates, ContStates, BoxStates, Steps,
       StopSteps, Safe, Apart, StepsFit, Ordered

LEMMA CreateSafe ==
  ASSUME Inv, NEW s \in Session, CreateSession(s)
  PROVE  Inv'
<1> DEFINE v == [Now EXCEPT !.state[s] = "draft"]
<1>1. Now \in View /\ Safe(Now) /\ state[s] = "absent" /\ restarts \in 0..MaxRestarts
  BY DEF Inv, TypeOK, CreateSession
<1>2. v \in View
  BY <1>1 DEF View, SessionStates
<1>3. Safe(v)
  BY <1>1 DEF Safe, Apart, StepsFit, Ordered, Active, Now, View
<1>4. Become(NoteIdle(v, s)) /\ restarts' = restarts
  BY DEF CreateSession
<1> HIDE DEF v
<1>5. NoteIdle(v, s) \in View /\ Safe(NoteIdle(v, s))
  BY <1>2, <1>3, NoteIdleType, NoteIdleCore, SafeByCore
<1> QED
  BY <1>1, <1>4, <1>5, BecomeSafe

LEMMA RunSafe ==
  ASSUME Inv, NEW s \in Session, Run(s)
  PROVE  Inv'
<1> DEFINE v == [Now EXCEPT !.armed = @ \ {s}]
<1>1. /\ Now \in View /\ Safe(Now) /\ restarts \in 0..MaxRestarts
      /\ Now.state[s] \in {"draft", "queued"} /\ restarts' = restarts
  BY DEF Inv, TypeOK, Run, Now
<1>2. v \in View /\ Core(v) = Core(Now)
  BY <1>1 DEF View, Core
<1>3. \/ Become(Enqueued(Now, s))
      \/ Become(FailedStart(v, s))
      \/ Become(StartAll(v, {s})) /\ Holders(Now, s) = {}
  BY DEF Run
<1> HIDE DEF v
<1>4. Safe(v) /\ v.state = Now.state /\ v.cont = Now.cont
  BY <1>1, <1>2, SafeByCore DEF Core
<1>5. CASE Become(Enqueued(Now, s))
  <2>1. Enqueued(Now, s) \in View /\ Safe(Enqueued(Now, s))
    BY <1>1, EnqueuedType, EnqueuedSafe
  <2> QED BY <1>1, <1>5, <2>1, BecomeSafe
<1>6. CASE Become(FailedStart(v, s))
  <2>1. FailedStart(v, s) \in View /\ Safe(FailedStart(v, s))
    BY <1>1, <1>2, <1>4, FailedStartType, FailedStartSafe
  <2> QED BY <1>1, <1>6, <2>1, BecomeSafe
<1>7. CASE Become(StartAll(v, {s})) /\ Holders(Now, s) = {}
  <2>1. Holders(v, s) = {}
    BY <1>4, <1>7 DEF Holders, Active
  <2>2. StartAll(v, {s}) \in View /\ Safe(StartAll(v, {s}))
    BY <1>2, <1>4, <2>1, StartAllType, StartAllSafe
  <2> QED BY <1>1, <1>7, <2>2, BecomeSafe
<1> QED BY <1>3, <1>5, <1>6, <1>7

LEMMA QueueEditsSafe ==
  ASSUME Inv, NEW s \in Session, Enqueue(s) \/ CancelQueue(s)
  PROVE  Inv'
<1>1. /\ Now \in View /\ Safe(Now) /\ restarts \in 0..MaxRestarts
      /\ Now.state[s] \in {"draft", "queued"} /\ restarts' = restarts
  BY DEF Inv, TypeOK, Enqueue, CancelQueue, Now
<1>2. CASE Enqueue(s)
  <2>1. Enqueued(Now, s) \in View /\ Safe(Enqueued(Now, s))
    BY <1>1, EnqueuedType, EnqueuedSafe
  <2>2. Become(Enqueued(Now, s))
    BY <1>2 DEF Enqueue
  <2> QED BY <1>1, <2>1, <2>2, BecomeSafe
<1>3. CASE CancelQueue(s)
  <2> DEFINE u == Unqueue(Now, {s})
             v == [u EXCEPT !.state[s] = "draft"]
  <2>1. u \in View
    BY <1>1, UnqueueType
  <2>2. v \in View
    <3> HIDE DEF u
    <3> QED BY <2>1 DEF View, SessionStates
  <2>3. Safe(v)
    <3>1. /\ v.state = [Now.state EXCEPT ![s] = "draft"]
          /\ v.cont = Now.cont /\ v.step = Now.step
          /\ v.before = {p \in Now.before : p[1] \notin {s} /\ p[2] \notin {s}}
      BY <1>1 DEF Unqueue, View
    <3> HIDE DEF v
    <3>2. Apart(v)
      BY <1>1, <3>1 DEF Safe, Apart, Active, View
    <3>3. StepsFit(v)
      BY <1>1, <3>1 DEF Safe, StepsFit, View
    <3>4. Ordered(v)
      BY <1>1, <3>1 DEF Safe, Ordered, View
    <3> QED BY <3>2, <3>3, <3>4 DEF Safe
  <2>4. Become(NoteIdle(v, s))
    BY <1>3 DEF CancelQueue
  <2> HIDE DEF v
  <2>5. NoteIdle(v, s) \in View /\ Safe(NoteIdle(v, s))
    BY <2>2, <2>3, NoteIdleType, NoteIdleCore, SafeByCore
  <2> QED BY <1>1, <2>4, <2>5, BecomeSafe
<1> QED BY <1>2, <1>3

LEMMA DeleteSafe ==
  ASSUME Inv, NEW s \in Session, DeleteSession(s)
  PROVE  Inv'
<1> DEFINE none == [k \in StopKinds |-> "no"]
           u == Unqueue(Now, {s})
           g == [u EXCEPT
                   !.state[s] = "deleted", !.cont[s] = "inactive",
                   !.box[s] = "none", !.step[s] = "none", !.agent = @ \ {s},
                   !.pend[s] = 0, !.nudging = @ \ {s},
                   !.recovering = @ \ {s}, !.held = @ \ {s},
                   !.armed = @ \ {s}, !.stop[s] = none]
<1>1. Now \in View /\ Safe(Now) /\ restarts \in 0..MaxRestarts /\ restarts' = restarts
  BY DEF Inv, TypeOK, DeleteSession
<1>2. u \in View
  BY <1>1, UnqueueType
<1>3. g \in View
  <2> DEFINE pends == [u.pend EXCEPT ![s] = 0]
             stops == [u.stop EXCEPT ![s] = none]
  <2>1. none \in [StopKinds -> StopSteps]
    BY DEF StopSteps
  <2> HIDE DEF u, none
  <2>2. g = [u EXCEPT
               !.state[s] = "deleted", !.cont[s] = "inactive",
               !.box[s] = "none", !.step[s] = "none", !.agent = @ \ {s},
               !.pend = pends, !.nudging = @ \ {s},
               !.recovering = @ \ {s}, !.held = @ \ {s},
               !.armed = @ \ {s}, !.stop = stops]
    BY <1>2 DEF View
  <2> HIDE DEF g
  <2>3. pends \in [Session -> 0..MaxPend]
    BY <1>2, ViewAssumption DEF View
  <2>4. stops \in [Session -> [StopKinds -> StopSteps]]
    BY <1>2, <2>1 DEF View
  <2> HIDE DEF pends, stops
  <2> QED
    BY <1>2, <2>2, <2>3, <2>4, ZenonT(40) DEF View, SessionStates, ContStates, BoxStates, Steps
<1>4. Safe(g)
  <2>1. /\ g.state = [Now.state EXCEPT ![s] = "deleted"]
        /\ g.cont = [Now.cont EXCEPT ![s] = "inactive"]
        /\ g.step = [Now.step EXCEPT ![s] = "none"]
        /\ g.before = {p \in Now.before : p[1] \notin {s} /\ p[2] \notin {s}}
    BY <1>1 DEF Unqueue, View
  <2> HIDE DEF g
  <2>2. Apart(g)
    BY <1>1, <2>1 DEF Safe, Apart, Active, View
  <2>3. StepsFit(g)
    BY <1>1, <2>1 DEF Safe, StepsFit, View
  <2>4. Ordered(g)
    BY <1>1, <2>1 DEF Safe, Ordered, View
  <2> QED BY <2>2, <2>3, <2>4 DEF Safe
<1>5. Become(Reap(Schedule(g))) \/ Become(Schedule(g))
  BY DEF DeleteSession
<1> HIDE DEF g
<1>6. Schedule(g) \in View /\ Safe(Schedule(g))
  BY <1>3, <1>4, ScheduleType, ScheduleSafe
<1>7. Reap(Schedule(g)) \in View /\ Safe(Reap(Schedule(g)))
  BY <1>6, ReapType, ReapCore, SafeByCore
<1> QED BY <1>1, <1>5, <1>6, <1>7, BecomeSafe

LEMMA PromptSafe ==
  ASSUME Inv, NEW s \in Session,
         Prompt(s) \/ ClearPending(s) \/ ResumeInterrupted(s)
  PROVE  Inv'
<1>1. Now \in View /\ Safe(Now) /\ restarts \in 0..MaxRestarts /\ restarts' = restarts
  BY DEF Inv, TypeOK, Prompt, ClearPending, ResumeInterrupted
<1>2. CASE Prompt(s)
  <2>1. PICK n \in {pend[s], pend[s] + 1} \cap 1..MaxPend :
          LET w == Drain([Now EXCEPT !.pend[s] = n, !.recovering = @ \ {s}], {s})
          IN  Become(IF w.pend[s] > 0 THEN Reap(w) ELSE w)
    BY <1>2 DEF Prompt
  <2> DEFINE v == [Now EXCEPT !.pend[s] = n, !.recovering = @ \ {s}]
             d == Drain(v, {s})
  <2>2. [Now.pend EXCEPT ![s] = n] \in [Session -> 0..MaxPend]
    BY <1>1, <2>1, ViewAssumption DEF View
  <2>3. v \in View /\ Core(v) = Core(Now)
    BY <1>1, <2>2 DEF View, Core
  <2>4. Become(d) \/ Become(Reap(d))
    BY <2>1
  <2> HIDE DEF v
  <2>5. d \in View /\ Safe(d)
    BY <1>1, <2>3, SafeByCore, DrainType, DrainSafe
  <2> HIDE DEF d
  <2>6. Reap(d) \in View /\ Safe(Reap(d))
    BY <2>5, ReapType, ReapCore, SafeByCore
  <2> QED BY <1>1, <2>4, <2>5, <2>6, BecomeSafe
<1>3. CASE ClearPending(s)
  <2> PICK h \in {held, held \ {s}} : Become([Now EXCEPT !.pend[s] = 0, !.held = h])
    BY <1>3 DEF ClearPending
  <2> DEFINE v == [Now EXCEPT !.pend[s] = 0, !.held = h]
  <2>1. h \in SUBSET Limitable
    BY <1>1 DEF Now, View
  <2>2. [Now.pend EXCEPT ![s] = 0] \in [Session -> 0..MaxPend]
    BY <1>1, ViewAssumption DEF View
  <2>3. v \in View /\ Core(v) = Core(Now)
    BY <1>1, <2>1, <2>2 DEF View, Core
  <2> HIDE DEF v
  <2>4. Safe(v)
    BY <1>1, <2>3, SafeByCore
  <2> QED BY <1>1, <2>3, <2>4, BecomeSafe DEF v
<1>4. CASE ResumeInterrupted(s)
  <2>0. PICK n \in {pend[s], pend[s] + 1} \cap 0..MaxPend :
          Become(Drain([Now EXCEPT !.pend[s] = n, !.recovering = @ \ {s}], {s}))
    BY <1>4 DEF ResumeInterrupted
  <2> DEFINE v == [Now EXCEPT !.pend[s] = n, !.recovering = @ \ {s}]
  <2>1. [Now.pend EXCEPT ![s] = n] \in [Session -> 0..MaxPend]
    BY <1>1, <2>0, ViewAssumption DEF View
  <2>2. v \in View /\ Core(v) = Core(Now)
    BY <1>1, <2>1 DEF View, Core
  <2>3. Become(Drain(v, {s}))
    BY <2>0
  <2> HIDE DEF v
  <2>4. Drain(v, {s}) \in View /\ Safe(Drain(v, {s}))
    BY <1>1, <2>2, SafeByCore, DrainType, DrainSafe
  <2> QED BY <1>1, <2>3, <2>4, BecomeSafe
<1> QED BY <1>2, <1>3, <1>4

LEMMA SettingsSafe ==
  ASSUME Inv,
         (\E n \in Caps : SetTaskCap(n)) \/ (\E H \in SUBSET Limitable : LimitsChange(H))
  PROVE  Inv'
<1>1. Now \in View /\ Safe(Now) /\ restarts \in 0..MaxRestarts /\ restarts' = restarts
  BY DEF Inv, TypeOK, SetTaskCap, LimitsChange
<1>2. ASSUME NEW v \in View, Core(v) = Core(Now), Become(Schedule(v))
      PROVE  Inv'
  <2>1. Schedule(v) \in View /\ Safe(Schedule(v))
    BY <1>1, <1>2, SafeByCore, ScheduleType, ScheduleSafe
  <2> QED BY <1>1, <1>2, <2>1, BecomeSafe
<1>3. ASSUME NEW n \in Caps, SetTaskCap(n)
      PROVE  Inv'
  <2>1. [Now EXCEPT !.cap = n] \in View /\ Core([Now EXCEPT !.cap = n]) = Core(Now)
    BY <1>1, <1>3 DEF View, Core
  <2> QED BY <1>2, <1>3, <2>1 DEF SetTaskCap
<1>4. ASSUME NEW H \in SUBSET Limitable, LimitsChange(H)
      PROVE  Inv'
  <2>1. [Now EXCEPT !.held = H] \in View /\ Core([Now EXCEPT !.held = H]) = Core(Now)
    BY <1>1, <1>4 DEF View, Core
  <2> QED BY <1>2, <1>4, <2>1 DEF LimitsChange
<1> QED BY <1>3, <1>4

(* A step of a start, a resume or a turn that leaves the container alone. *)
LEMMA WorkSafe ==
  ASSUME Inv, NEW s \in Session, Attach(s) \/ ResolveFails(s) \/ WireFails(s)
  PROVE  Inv'
<1>1. /\ Now \in View /\ Safe(Now) /\ restarts \in 0..MaxRestarts
      /\ restarts' = restarts /\ step[s] # "none"
  BY DEF Inv, TypeOK, Attach, ResolveFails, WireFails
<1>2. PICK p \in Steps : step' = [step EXCEPT ![s] = p]
  BY DEF Attach, ResolveFails, WireFails, Steps
<1> DEFINE w == [Now EXCEPT !.step[s] = p]
<1>3. Become(w)
  BY <1>2 DEF Attach, ResolveFails, WireFails, Become, Now
<1>4. w \in View
  BY <1>1 DEF View
<1>5. /\ w.state = Now.state /\ w.cont = Now.cont /\ w.before = Now.before
      /\ w.step = [Now.step EXCEPT ![s] = p]
      /\ Now.step \in [Session -> Steps]
  BY <1>1 DEF View
<1>6. Now.state[s] \in {"starting", "started"}
  BY <1>1 DEF Safe, StepsFit, Now
<1> HIDE DEF w
<1>7. Safe(w)
  BY <1>1, <1>5, <1>6, StepSafe
<1> QED BY <1>1, <1>3, <1>4, <1>7, BecomeSafe

(* A container comes up under a start or a resume: a start had the clone to *)
(* itself already, and a resumed session is a started one.                  *)
LEMMA ContainerUpSafe ==
  ASSUME NEW v \in View, NEW w, NEW s \in Session, NEW p \in Steps, NEW c \in ContStates,
         w.state = v.state, w.before = v.before,
         w.step = [v.step EXCEPT ![s] = p], w.cont = [v.cont EXCEPT ![s] = c],
         v.state[s] \in {"starting", "started"}, Safe(v)
  PROVE  Safe(w)
<1>1. v.step \in [Session -> Steps] /\ v.cont \in [Session -> ContStates]
  BY DEF View
<1>2. Apart(w)
  BY <1>1, ConflictSymmetric DEF Safe, Apart, Active
<1>3. StepsFit(w)
  BY <1>1 DEF Safe, StepsFit
<1>4. Ordered(w)
  BY DEF Safe, Ordered
<1> QED BY <1>2, <1>3, <1>4 DEF Safe

LEMMA LaunchSafe ==
  ASSUME Inv, NEW s \in Session, Resolve(s) \/ Provisioned(s)
  PROVE  Inv'
<1>1. /\ Now \in View /\ Safe(Now) /\ restarts \in 0..MaxRestarts
      /\ restarts' = restarts /\ step[s] # "none"
  BY DEF Inv, TypeOK, Resolve, Provisioned
<1>2. PICK p \in Steps, c \in ContStates, b \in BoxStates :
        /\ step' = [step EXCEPT ![s] = p] /\ cont' = [cont EXCEPT ![s] = c]
        /\ box' = [box EXCEPT ![s] = b]
  <2>1. CASE Resolve(s)
    <3>1. cont = [cont EXCEPT ![s] = cont[s]] /\ box = [box EXCEPT ![s] = box[s]]
          /\ cont[s] \in ContStates /\ box[s] \in BoxStates
      BY <1>1 DEF Now, View
    <3> QED BY <2>1, <3>1 DEF Resolve, Steps, ContStates
  <2>2. CASE Provisioned(s)
    BY <2>2 DEF Provisioned, Steps, ContStates, BoxStates
  <2> QED BY <2>1, <2>2
<1> DEFINE w == [Now EXCEPT !.step[s] = p, !.cont[s] = c, !.box[s] = b]
<1>3. Become(w)
  BY <1>2 DEF Resolve, Provisioned, Become, Now
<1>4. w \in View
  BY <1>1 DEF View
<1>5. /\ w.state = Now.state /\ w.before = Now.before
      /\ w.step = [Now.step EXCEPT ![s] = p] /\ w.cont = [Now.cont EXCEPT ![s] = c]
  BY <1>1 DEF View
<1>6. Now.state[s] \in {"starting", "started"}
  BY <1>1 DEF Safe, StepsFit, Now
<1> HIDE DEF w
<1>7. Safe(w)
  BY <1>1, <1>5, <1>6, ContainerUpSafe
<1> QED BY <1>1, <1>3, <1>4, <1>7, BecomeSafe

LEMMA ProvisionFailsSafe ==
  ASSUME Inv, NEW s \in Session, ProvisionFails(s)
  PROVE  Inv'
<1>1. /\ Now \in View /\ Safe(Now) /\ restarts \in 0..MaxRestarts
      /\ restarts' = restarts /\ step[s] # "none"
  BY DEF Inv, TypeOK, ProvisionFails
<1>2. PICK b \in {box[s], "none", "up"} :
        Become(Schedule([Now EXCEPT !.step[s] = "failed",
                                    !.cont[s] = "inactive", !.box[s] = b]))
  BY DEF ProvisionFails
<1> DEFINE w == [Now EXCEPT !.step[s] = "failed", !.cont[s] = "inactive", !.box[s] = b]
<1>3. b \in BoxStates /\ "failed" \in Steps /\ "inactive" \in ContStates
  BY <1>1 DEF Now, View, BoxStates, Steps, ContStates
<1>4. w \in View
  BY <1>1, <1>3 DEF View
<1>5. /\ w.state = Now.state /\ w.before = Now.before
      /\ w.step = [Now.step EXCEPT ![s] = "failed"]
      /\ w.cont = [Now.cont EXCEPT ![s] = "inactive"]
  BY <1>1 DEF View
<1>6. Now.state[s] \in {"starting", "started"}
  BY <1>1 DEF Safe, StepsFit, Now
<1>7. Become(Schedule(w))
  BY <1>2
<1> HIDE DEF w
<1>8. Safe(w)
  BY <1>1, <1>3, <1>5, <1>6, ContainerUpSafe
<1>9. Schedule(w) \in View /\ Safe(Schedule(w))
  BY <1>4, <1>8, ScheduleType, ScheduleSafe
<1> QED BY <1>1, <1>7, <1>9, BecomeSafe

(* What the answer to session/new or session/load makes of a session: a      *)
(* resume is in its turn, a start is started and about to send its prompt.   *)
LEMMA WiredTo ==
  ASSUME Now \in View, NEW s \in Session, Wired(s)
  PROVE  \/ /\ state[s] # "starting"
            /\ Become([Now EXCEPT !.agent = @ \cup {s}, !.step[s] = "turn"])
         \/ /\ state[s] = "starting"
            /\ \E p \in {"config", "open", "attach"}, A \in SUBSET {s} :
                 Become([Now EXCEPT !.agent = @ \cup {s}, !.state[s] = "started",
                                    !.nudging = @ \ {s}, !.step[s] = p, !.armed = @ \ A])
<1> DEFINE v == [Now EXCEPT !.agent = @ \cup {s}]
           f == [v EXCEPT !.state[s] = "started", !.nudging = @ \ {s}]
           W(p, A) == [Now EXCEPT !.agent = @ \cup {s}, !.state[s] = "started",
                                  !.nudging = @ \ {s}, !.step[s] = p, !.armed = @ \ A]
<1>1. Become(IF state[s] # "starting" THEN [v EXCEPT !.step[s] = "turn"]
             ELSE IF s \in Configured THEN [f EXCEPT !.step[s] = "config"]
             ELSE BeginTurn(f, {s}, "open"))
  BY DEF Wired
<1>2. [v EXCEPT !.step[s] = "turn"] = [Now EXCEPT !.agent = @ \cup {s}, !.step[s] = "turn"]
  BY DEF View
<1>3. [f EXCEPT !.step[s] = "config"] = W("config", {})
  BY DEF View
<1>4. \A p : [f EXCEPT !.step[s] = p, !.armed = @ \ {s}] = W(p, {s})
  BY DEF View
<1>5. f \in View
  BY DEF View, SessionStates
<1> HIDE DEF f
<1>6. BeginTurn(f, {s}, "open") = W(Opening("open"), {s})
  BY <1>4, <1>5, Opened
<1>7. Opening("open") \in {"open", "attach"}
  BY Openings
<1>8. state[s] = "starting" => Become(W("config", {})) \/ Become(W(Opening("open"), {s}))
  BY <1>1, <1>3, <1>6
<1> HIDE DEF W
<1>9. state[s] = "starting"
        => \E p \in {"config", "open", "attach"}, A \in SUBSET {s} : Become(W(p, A))
  BY <1>7, <1>8
<1> QED BY <1>1, <1>2, <1>9 DEF W

(* What the end of a lull makes of it: the next lull, or the turn.           *)
LEMMA LullTo ==
  ASSUME Now \in View, NEW s \in Session, ConfigApplied(s) \/ Masked(s) \/ MaskFails(s)
  PROVE  /\ step[s] \in Lulls /\ restarts' = restarts
         /\ \E p \in {"open", "attach", "failed"}, A \in SUBSET {s} :
              Become([Now EXCEPT !.step[s] = p, !.armed = @ \ A])
<1> DEFINE W(p, A) == [Now EXCEPT !.step[s] = p, !.armed = @ \ A]
<1>1. CASE ConfigApplied(s)
  <2>1. BeginTurn(Now, {s}, "open") = W(Opening("open"), {s})
    BY Opened
  <2>2. Opening("open") \in {"open", "attach"}
    BY Openings
  <2>3. Become(W(Opening("open"), {s}))
    BY <1>1, <2>1 DEF ConfigApplied
  <2>4. step[s] \in Lulls /\ restarts' = restarts
    BY <1>1 DEF ConfigApplied, Lulls
  <2> HIDE DEF W
  <2>5. \E p \in {"open", "attach", "failed"}, A \in SUBSET {s} : Become(W(p, A))
    BY <2>2, <2>3
  <2> QED BY <2>4, <2>5 DEF W
<1>2. CASE Masked(s) \/ MaskFails(s)
  <2>1. PICK p \in {"attach", "failed"} :
          /\ step' = [step EXCEPT ![s] = p]
          /\ UNCHANGED <<state, before, cont, box, agent, pend, nudging, recovering,
                         held, cap, armed, stop, restarts>>
    BY <1>2 DEF Masked, MaskFails
  <2>2. Become(W(p, {}))
    BY <2>1 DEF Become, Now, View
  <2>3. step[s] \in Lulls /\ restarts' = restarts
    BY <1>2 DEF Masked, MaskFails, Lulls
  <2> HIDE DEF W
  <2>4. \E q \in {"open", "attach", "failed"}, A \in SUBSET {s} : Become(W(q, A))
    BY <2>1, <2>2
  <2> QED BY <2>3, <2>4 DEF W
<1> QED BY <1>1, <1>2

LEMMA WiredSafe ==
  ASSUME Inv, NEW s \in Session, Wired(s)
  PROVE  Inv'
<1>1. /\ Now \in View /\ Safe(Now) /\ restarts \in 0..MaxRestarts
      /\ restarts' = restarts /\ step[s] # "none"
  BY DEF Inv, TypeOK, Wired
<1>2. Now.state[s] \in {"starting", "started"}
  BY <1>1 DEF Safe, StepsFit, Now
<1>3. CASE Become([Now EXCEPT !.agent = @ \cup {s}, !.step[s] = "turn"])
  <2> DEFINE r == [Now EXCEPT !.agent = @ \cup {s}, !.step[s] = "turn"]
  <2>1. /\ r.state = Now.state /\ r.cont = Now.cont /\ r.before = Now.before
        /\ r.step = [Now.step EXCEPT ![s] = "turn"]
        /\ Now.step \in [Session -> Steps] /\ "turn" \in Steps
    BY <1>1 DEF View, Steps
  <2>2. r \in View
    BY <1>1, <2>1 DEF View
  <2>3. Become(r)
    BY <1>3
  <2> HIDE DEF r
  <2>4. Safe(r)
    BY <1>1, <1>2, <2>1, StepSafe
  <2> QED BY <1>1, <2>2, <2>3, <2>4, BecomeSafe
<1>4. ASSUME NEW p \in {"config", "open", "attach"}, NEW A \in SUBSET {s},
             Become([Now EXCEPT !.agent = @ \cup {s}, !.state[s] = "started",
                                !.nudging = @ \ {s}, !.step[s] = p, !.armed = @ \ A])
      PROVE  Inv'
  <2> DEFINE b == [Now EXCEPT !.agent = @ \cup {s}, !.state[s] = "started",
                              !.nudging = @ \ {s}, !.step[s] = p, !.armed = @ \ A]
  <2>1. p \in Steps /\ "started" \in SessionStates
    BY DEF Steps, Lulls, SessionStates
  <2>2. b \in View
    BY <1>1, <2>1 DEF View
  <2>3. /\ b.state = [Now.state EXCEPT ![s] = "started"]
        /\ b.cont = Now.cont /\ b.before = Now.before
        /\ b.step = [Now.step EXCEPT ![s] = p]
    BY <1>1 DEF View
  <2>4. Become(b)
    BY <1>4
  <2> HIDE DEF b
  <2>5. Apart(b)
    BY <1>1, <2>3 DEF Safe, Apart, Active, View
  <2>6. StepsFit(b)
    BY <1>1, <2>3 DEF Safe, StepsFit, View
  <2>7. Ordered(b)
    BY <1>1, <2>3 DEF Safe, Ordered, View
  <2> QED BY <1>1, <2>2, <2>4, <2>5, <2>6, <2>7, BecomeSafe DEF Safe
<1> QED BY <1>1, <1>3, <1>4, WiredTo

LEMMA LullSafe ==
  ASSUME Inv, NEW s \in Session, ConfigApplied(s) \/ Masked(s) \/ MaskFails(s)
  PROVE  Inv'
<1>1. Now \in View /\ Safe(Now) /\ restarts \in 0..MaxRestarts
  BY DEF Inv, TypeOK
<1>2. step[s] \in Lulls /\ restarts' = restarts
  BY <1>1, LullTo
<1>3. PICK p \in {"open", "attach", "failed"}, A \in SUBSET {s} :
        Become([Now EXCEPT !.step[s] = p, !.armed = @ \ A])
  BY <1>1, LullTo
<1> DEFINE w == [Now EXCEPT !.step[s] = p, !.armed = @ \ A]
<1>4. p \in Steps
  BY DEF Steps, Lulls
<1>5. w \in View
  BY <1>1, <1>4 DEF View
<1>6. /\ w.state = Now.state /\ w.cont = Now.cont /\ w.before = Now.before
      /\ w.step = [Now.step EXCEPT ![s] = p]
      /\ Now.step \in [Session -> Steps]
  BY <1>1 DEF View
<1>7. Now.state[s] \in {"starting", "started"}
  BY <1>1, <1>2 DEF Safe, StepsFit, Now, Lulls
<1>8. Become(w)
  BY <1>3
<1> HIDE DEF w
<1>9. Safe(w)
  BY <1>1, <1>4, <1>6, <1>7, StepSafe
<1> QED BY <1>1, <1>2, <1>5, <1>8, <1>9, BecomeSafe

LEMMA TurnSafe ==
  ASSUME Inv, NEW s \in Session, TurnEnds(s) \/ Fails(s) \/ AgentExits(s)
  PROVE  Inv'
<1>1. Now \in View /\ Safe(Now) /\ restarts \in 0..MaxRestarts /\ restarts' = restarts
  BY DEF Inv, TypeOK, TurnEnds, Fails, AgentExits
<1>2. step[s] # "none" => Now.state[s] \in {"starting", "started"}
  BY <1>1 DEF Safe, StepsFit, Now
<1>3. ASSUME NEW next, next = "limited" => s \in Limitable, step[s] # "none",
             Become(TurnOver(Now, s, next))
      PROVE  Inv'
  <2>1. TurnOver(Now, s, next) \in View /\ Safe(TurnOver(Now, s, next))
    BY <1>1, <1>2, <1>3, TurnOverType, TurnOverSafe
  <2> QED BY <1>1, <1>3, <2>1, BecomeSafe
<1>4. CASE TurnEnds(s)
  <2> PICK next \in {"done"} \cup (IF s \in Contracted \ nudging THEN {"nudge"} ELSE {})
                            \cup (IF s \in Limitable THEN {"limited"} ELSE {}) :
           Become(TurnOver(Now, s, next))
    BY <1>4 DEF TurnEnds
  <2> QED BY <1>3, <1>4 DEF TurnEnds
<1>5. CASE Fails(s)
  <2>1. CASE state[s] = "starting"
    <3>1. FailedStart(Now, s) \in View /\ Safe(FailedStart(Now, s))
      BY <1>1, <2>1, FailedStartType, FailedStartSafe DEF Now
    <3>2. Become(FailedStart(Now, s))
      BY <1>5, <2>1 DEF Fails
    <3> QED BY <1>1, <3>1, <3>2, BecomeSafe
  <2>2. CASE state[s] # "starting"
    BY <1>3, <1>5, <2>2 DEF Fails
  <2> QED BY <2>1, <2>2
<1>6. CASE AgentExits(s)
  <2>1. AgentGone(Now, s) \in View /\ Safe(AgentGone(Now, s))
    BY <1>1, AgentGoneType, AgentGoneSafe
  <2> QED BY <1>1, <1>6, <2>1, BecomeSafe DEF AgentExits
<1> QED BY <1>4, <1>5, <1>6

LEMMA StopBegunSafe ==
  ASSUME Inv, NEW s \in Session,
         IdleTimerFires(s) \/ UserStop(s) \/ Release(s)
  PROVE  Inv'
<1>1. Now \in View /\ Safe(Now) /\ restarts \in 0..MaxRestarts /\ restarts' = restarts
  BY DEF Inv, TypeOK, IdleTimerFires, UserStop, Release, TakeDown
<1>2. CASE IdleTimerFires(s)
  <2> DEFINE v == [Now EXCEPT !.armed = @ \ {s}]
             b == BeginStop(v, {s}, "idle")
  <2>1. v \in View /\ Core(v) = Core(Now)
    BY <1>1 DEF View, Core
  <2>2. Become(v) \/ Become(b) \/ Become(Reap(b))
    BY <1>2 DEF IdleTimerFires
  <2> HIDE DEF v
  <2>3. Safe(v)
    BY <1>1, <2>1, SafeByCore
  <2>4. b \in View /\ Safe(b)
    BY <2>1, <2>3, BeginStopType, BeginStopSafe DEF StopKinds
  <2> HIDE DEF b
  <2>5. Reap(b) \in View /\ Safe(Reap(b))
    BY <2>4, ReapType, ReapCore, SafeByCore
  <2> QED BY <1>1, <2>1, <2>2, <2>3, <2>4, <2>5, BecomeSafe
<1>3. ASSUME NEW k \in StopKinds, TakeDown(s, k)
      PROVE  Inv'
  <2> DEFINE v == [Now EXCEPT !.stop[s][k] = "begun", !.armed = @ \ {s}]
  <2>1. v \in View /\ Core(v) = Core(Now)
    BY <1>1 DEF View, Core, StopSteps
  <2>2. Become(v) \/ Become(AgentGone(v, s))
    BY <1>3 DEF TakeDown
  <2> HIDE DEF v
  <2>3. Safe(v)
    BY <1>1, <2>1, SafeByCore
  <2>4. AgentGone(v, s) \in View /\ Safe(AgentGone(v, s))
    BY <2>1, <2>3, AgentGoneType, AgentGoneSafe
  <2> QED BY <1>1, <2>1, <2>2, <2>3, <2>4, BecomeSafe
<1> QED BY <1>2, <1>3 DEF UserStop, Release, StopKinds

(* A container record that becomes inactive. *)
LEMMA InactiveSafe ==
  ASSUME NEW v \in View, NEW w, NEW s \in Session, Safe(v),
         w.state = v.state, w.before = v.before, w.step = v.step,
         w.cont = [v.cont EXCEPT ![s] = "inactive"]
  PROVE  Safe(w)
BY DEF Safe, Apart, StepsFit, Ordered, Active, View

LEMMA StopOverSafe ==
  ASSUME Inv, NEW s \in Session,
         \/ \E k \in StopKinds : ContainerStops(s, k) \/ StopRecorded(s, k) \/ StopFails(s, k)
         \/ ReleaseRecorded(s) \/ HandoffSettles(s)
  PROVE  Inv'
<1>1. Now \in View /\ Safe(Now) /\ restarts \in 0..MaxRestarts /\ restarts' = restarts
  BY DEF Inv, TypeOK, ContainerStops, StopRecorded, StopFails, ReleaseRecorded,
         HandoffSettles
<1>2. ASSUME NEW v \in View, Safe(v),
             \/ Become(v) \/ Become(Schedule(v)) \/ Become(AgentGone(v, s))
      PROVE  Inv'
  <2>1. Schedule(v) \in View /\ Safe(Schedule(v))
    BY <1>2, ScheduleType, ScheduleSafe
  <2>2. AgentGone(v, s) \in View /\ Safe(AgentGone(v, s))
    BY <1>2, AgentGoneType, AgentGoneSafe
  <2> QED BY <1>1, <1>2, <2>1, <2>2, BecomeSafe
<1>3. ASSUME NEW k \in StopKinds, ContainerStops(s, k)
      PROVE  Inv'
  <2> DEFINE b == IF k = "release" THEN "none" ELSE "stopped"
             v == [Now EXCEPT !.stop[s][k] = "down", !.box[s] = b]
  <2>1. Become(v) \/ Become(AgentGone(v, s))
    BY <1>3 DEF ContainerStops
  <2>2. b \in BoxStates
    BY DEF BoxStates
  <2> HIDE DEF b
  <2>3. v \in View /\ Core(v) = Core(Now)
    BY <1>1, <2>2 DEF View, Core, StopSteps
  <2> HIDE DEF v
  <2> QED BY <1>1, <1>2, <2>1, <2>3, SafeByCore
<1>4. ASSUME NEW k \in StopKinds, StopRecorded(s, k)
      PROVE  Inv'
  <2> DEFINE p == IF k = "queue" THEN "settle" ELSE "no"
             v == [Now EXCEPT !.stop[s][k] = p, !.cont[s] = "inactive"]
  <2>1. Become(Schedule(v))
    BY <1>4 DEF StopRecorded
  <2>2. p \in StopSteps /\ "inactive" \in ContStates
    BY DEF StopSteps, ContStates
  <2> HIDE DEF p
  <2>3. v \in View
    BY <1>1, <2>2 DEF View
  <2>4. /\ v.state = Now.state /\ v.before = Now.before /\ v.step = Now.step
        /\ v.cont = [Now.cont EXCEPT ![s] = "inactive"]
    BY <1>1 DEF View
  <2> HIDE DEF v
  <2> QED BY <1>1, <1>2, <2>1, <2>3, <2>4, InactiveSafe
<1>5. ASSUME NEW k \in StopKinds, StopFails(s, k)
      PROVE  Inv'
  <2> DEFINE v == [Now EXCEPT !.stop[s][k] = "no"]
             a == [v EXCEPT !.armed = @ \cup {s}]
  <2>1. Become(v) \/ Become(Schedule(a))
    BY <1>5 DEF StopFails
  <2>2. v \in View /\ Core(v) = Core(Now)
    BY <1>1 DEF View, Core, StopSteps
  <2> HIDE DEF v
  <2>3. a \in View /\ Core(a) = Core(v)
    BY <2>2 DEF View, Core
  <2> HIDE DEF a
  <2> QED BY <1>1, <1>2, <2>1, <2>2, <2>3, SafeByCore
<1>6. CASE ReleaseRecorded(s)
  <2> DEFINE v == [Now EXCEPT !.stop[s]["release"] = "no", !.cont[s] = "inactive"]
  <2>1. Become(v)
    BY <1>6 DEF ReleaseRecorded
  <2>2. v \in View
    BY <1>1 DEF View, StopSteps, ContStates, StopKinds
  <2>3. /\ v.state = Now.state /\ v.before = Now.before /\ v.step = Now.step
        /\ v.cont = [Now.cont EXCEPT ![s] = "inactive"]
    BY <1>1 DEF View
  <2> HIDE DEF v
  <2> QED BY <1>1, <1>2, <2>1, <2>2, <2>3, InactiveSafe
<1>7. CASE HandoffSettles(s)
  <2> DEFINE v == [Now EXCEPT !.stop[s]["queue"] = "no"]
  <2>1. Become(Schedule(v))
    BY <1>7 DEF HandoffSettles
  <2>2. v \in View /\ Core(v) = Core(Now)
    BY <1>1 DEF View, Core, StopSteps, StopKinds
  <2> HIDE DEF v
  <2> QED BY <1>1, <1>2, <2>1, <2>2, SafeByCore
<1> QED BY <1>3, <1>4, <1>5, <1>6, <1>7

(* What a restart leaves for the first pass: nothing in flight, every start  *)
(* a draft again, and whoever was paused still paused.                       *)
LEMMA Restored ==
  ASSUME Now \in View, Restart
  PROVE  \E v \in View, D \in SUBSET {s \in Session : step[s] \in Lulls} :
           /\ Become(Reap(Schedule(v)))
           /\ v.state = [s \in Session |-> IF Now.state[s] = "starting" \/ s \in D THEN "draft"
                                           ELSE Now.state[s]]
           /\ v.before = Now.before /\ v.step = [s \in Session |-> "none"] /\ v.agent = {}
           /\ v.stop = [s \in Session |-> [k \in StopKinds |-> "no"]]
           /\ Now.recovering \subseteq v.recovering
<1> DEFINE st(D) == [s \in Session |-> IF Now.state[s] = "starting" \/ s \in D THEN "draft"
                                       ELSE Now.state[s]]
           co == [s \in Session |-> IF box[s] = "up" THEN "running" ELSE "inactive"]
           no == [s \in Session |-> "none"]
           re == {s \in Session : pend[s] > 0 \/ s \in Now.recovering \/ Busy(Now, s)
                                  \/ step[s] = "mask"}
           so == [s \in Session |-> [k \in StopKinds |-> "no"]]
           v(D) == [Now EXCEPT !.state = st(D), !.cont = co, !.step = no, !.agent = {},
                               !.nudging = {}, !.recovering = re, !.armed = {}, !.stop = so]
<1>1. PICK D \in SUBSET {s \in Session : step[s] \in {"config", "open"} /\ s \notin nudging} :
        Become(Reap(Schedule(v(D))))
  BY DEF Restart
<1>2. D \in SUBSET {s \in Session : step[s] \in Lulls}
  BY DEF Lulls
<1>3. st(D) \in [Session -> SessionStates] /\ co \in [Session -> ContStates]
  BY DEF View, SessionStates, ContStates
<1>4. no \in [Session -> Steps] /\ so \in [Session -> [StopKinds -> StopSteps]]
  BY DEF Steps, StopSteps
<1>5. re \in SUBSET Session /\ Now.recovering \subseteq re
  BY DEF View
<1>6. /\ v(D).state = st(D) /\ v(D).before = Now.before /\ v(D).step = no
      /\ v(D).agent = {} /\ v(D).stop = so /\ v(D).recovering = re
  BY DEF View
<1>7. v(D) \in View
  <2> DEFINE a == st(D)
  <2>1. v(D) = [Now EXCEPT !.state = a, !.cont = co, !.step = no, !.agent = {},
                           !.nudging = {}, !.recovering = re, !.armed = {}, !.stop = so]
    OBVIOUS
  <2> HIDE DEF a, v, co, no, re, so
  <2> QED BY <1>3, <1>4, <1>5, <2>1 DEF View, a
<1> HIDE DEF v, re
<1> QED BY <1>1, <1>2, <1>5, <1>6, <1>7

LEMMA RestartSafe ==
  ASSUME Inv, Restart
  PROVE  Inv'
<1>1. /\ Now \in View /\ Safe(Now) /\ restarts \in 0..MaxRestarts
      /\ restarts' = restarts + 1 /\ restarts < MaxRestarts
  BY DEF Inv, TypeOK, Restart
<1>2. restarts' \in 0..MaxRestarts
  BY <1>1, BoundsAssumption
<1>3. PICK v \in View, D \in SUBSET {s \in Session : step[s] \in Lulls} :
        /\ Become(Reap(Schedule(v)))
        /\ v.state = [s \in Session |-> IF Now.state[s] = "starting" \/ s \in D THEN "draft"
                                        ELSE Now.state[s]]
        /\ v.before = Now.before /\ v.step = [s \in Session |-> "none"]
  BY <1>1, Restored
<1>4. Safe(v)
  <2>1. Apart(v) /\ StepsFit(v)
    BY <1>3 DEF Apart, StepsFit
  <2>2. Ordered(v)
    BY <1>1, <1>3 DEF Safe, Ordered
  <2> QED BY <2>1, <2>2 DEF Safe
<1>5. Schedule(v) \in View /\ Safe(Schedule(v))
  BY <1>4, ScheduleType, ScheduleSafe
<1>6. Reap(Schedule(v)) \in View /\ Safe(Reap(Schedule(v)))
  BY <1>5, ReapType, ReapCore, SafeByCore
<1> QED BY <1>2, <1>3, <1>6, BecomeSafe

LEMMA NextSafe == Inv /\ [Next]_vars => Inv'
<1> SUFFICES ASSUME Inv, [Next]_vars
             PROVE  Inv'
  OBVIOUS
<1>1. CASE UserStep
  BY <1>1, CreateSafe, QueueEditsSafe, DeleteSafe, PromptSafe, StopBegunSafe,
     SettingsSafe DEF UserStep
<1>2. CASE Restart
  BY <1>2, RestartSafe
<1>3. ASSUME NEW s \in Session, SystemStep(s)
      PROVE  Inv'
  BY <1>3, WorkSafe, LaunchSafe, WiredSafe, LullSafe, TurnSafe, StopBegunSafe, StopOverSafe
     DEF SystemStep
<1>4. ASSUME NEW s \in Session, Fault(s)
      PROVE  Inv'
  BY <1>4, WorkSafe, ProvisionFailsSafe, LullSafe, TurnSafe, StopOverSafe DEF Fault
<1>5. CASE UNCHANGED vars
  BY <1>5 DEF vars, Inv, TypeOK, Now, Safe, Apart, StepsFit, Ordered, Active
<1> QED BY <1>1, <1>2, <1>3, <1>4, <1>5, RunSafe DEF Next

(* The state a task's sessions are in is always one of a View, and the       *)
(* restarts stay within their bound: type correctness of the whole queue.    *)
THEOREM TypeCorrect == Spec => []TypeOK
<1>1. Inv => TypeOK
  BY DEF Inv
<1> QED BY InitSafe, NextSafe, <1>1, PTL DEF Spec

(* For any sessions, clones, mounts and caps: a start admitted by the        *)
(* scheduler, by Run or after a restart never shares a clone with a session  *)
(* that claims it, save one that had run before and was woken meanwhile.     *)
THEOREM NoCollision == Spec => []StartsNeverCollide
<1>1. Inv => StartsNeverCollide
  BY DEF Inv, Safe, Apart, StartsNeverCollide, Now
<1> QED BY InitSafe, NextSafe, <1>1, PTL DEF Spec

(***************************************************************************)
(* AgentIsVisible.  It is not inductive: a record is written as inactive   *)
(* when a stop's docker call has returned, whatever the session has become *)
(* meanwhile, so no agent may be attached by then.  An agent's container   *)
(* is up and recorded as running, and a stop that took effect has left no  *)
(* such container.                                                         *)
(***************************************************************************)
Calm == {"none", "attach", "turn", "failed"} \cup Lulls

Visible(v) ==
  /\ \A s \in v.agent : /\ v.state[s] = "started" /\ v.step[s] \in Calm
                        /\ v.cont[s] = "running" /\ v.box[s] = "up"
  /\ \A s \in Session : v.step[s] = "wire" /\ v.box[s] = "up" => v.cont[s] = "running"
  /\ \A s \in Session, k \in StopKinds :
       v.stop[s][k] = "down" => ~(v.cont[s] = "running" /\ v.box[s] = "up")

(* What every handler does with the sessions that have run: none of them     *)
(* touches a container, attaches an agent, or takes a session back.          *)
Keeps(v, w) ==
  /\ w.cont = v.cont /\ w.box = v.box /\ w.agent \subseteq v.agent
  /\ \A s \in Session :
       /\ v.state[s] = "started" => w.state[s] = "started"
       /\ v.state[s] = "started" /\ v.step[s] \in Calm => w.step[s] \in Calm
       /\ w.step[s] = "wire" => v.step[s] = "wire"
       /\ \A k \in StopKinds : w.stop[s][k] = "down" => v.stop[s][k] = "down"

LEMMA KeepsVisible ==
  ASSUME NEW v \in View, NEW w, Keeps(v, w), Visible(v)
  PROVE  Visible(w)
BY DEF Keeps, Visible, View

LEMMA KeepsTransitive ==
  ASSUME NEW u, NEW v, NEW w, Keeps(u, v), Keeps(v, w)
  PROVE  Keeps(u, w)
BY DEF Keeps

(* Nothing that Keeps speaks of changes.                                     *)
LEMMA KeepsSame ==
  ASSUME NEW v, NEW w, w.state = v.state, w.cont = v.cont, w.box = v.box, w.step = v.step,
         w.agent = v.agent, w.stop = v.stop
  PROVE  Keeps(v, w)
BY DEF Keeps

LEMMA StartAllKeeps ==
  ASSUME NEW v \in View, NEW S \in SUBSET Session, \A s \in S : v.state[s] # "started"
  PROVE  Keeps(v, StartAll(v, S))
<1> DEFINE w == StartAll(v, S)
<1>1. /\ w.state = [s \in Session |-> IF s \in S THEN "starting" ELSE v.state[s]]
      /\ w.step = [s \in Session |-> IF s \in S THEN "resolve" ELSE v.step[s]]
      /\ w.cont = v.cont /\ w.box = v.box /\ w.agent = v.agent /\ w.stop = v.stop
  BY DEF StartAll, Unqueue, View
<1> HIDE DEF w
<1> QED
  BY <1>1 DEF Keeps, w

LEMMA BeginTurnKeeps ==
  ASSUME NEW v \in View, NEW S \in SUBSET Session, NEW lull \in {"open", "mask"}
  PROVE  Keeps(v, BeginTurn(v, S, lull))
<1> DEFINE w == BeginTurn(v, S, lull)
<1>1. /\ w.step = [s \in Session |-> IF s \in S THEN Opening(lull) ELSE v.step[s]]
      /\ w.state = v.state /\ w.cont = v.cont /\ w.box = v.box /\ w.agent = v.agent
      /\ w.stop = v.stop
  BY DEF BeginTurn, View
<1> HIDE DEF w
<1> QED
  BY <1>1, Openings DEF Keeps, Calm, Lulls, w

LEMMA DrainKeeps ==
  ASSUME NEW v \in View, NEW S \in SUBSET Session
  PROVE  Keeps(v, Drain(v, S))
<1> DEFINE D == S \cap Drainable(v)
           w == Drain(v, S)
<1>1. /\ w.step = [s \in Session |-> IF s \in D THEN Opening("mask") ELSE v.step[s]]
      /\ w.state = v.state /\ w.cont = v.cont /\ w.box = v.box /\ w.agent = v.agent
      /\ w.stop = v.stop
  BY DEF Drain, BeginTurn, View
<1> HIDE DEF w, D
<1> QED
  BY <1>1, Openings DEF Keeps, Calm, Lulls, w

LEMMA ScheduleKeeps ==
  ASSUME NEW v \in View
  PROVE  Keeps(v, Schedule(v))
<1> DEFINE A == Admitted(v)
           u == StartAll(v, A)
<1>1. A \in SUBSET Session /\ \A s \in A : v.state[s] # "started"
  BY DEF Admitted, Startable, Waiting
<1> HIDE DEF A
<1>2. u \in View /\ Keeps(v, u)
  BY <1>1, StartAllType, StartAllKeeps
<1> HIDE DEF u
<1>3. Keeps(u, Drain(u, Session))
  BY <1>2, DrainKeeps
<1> QED
  BY <1>2, <1>3, KeepsTransitive DEF Schedule, u, A

LEMMA BeginStopKeeps ==
  ASSUME NEW v \in View, NEW S \in SUBSET Session, NEW k \in StopKinds
  PROVE  Keeps(v, BeginStop(v, S, k))
<1> DEFINE w == BeginStop(v, S, k)
<1>1. /\ w.stop = [s \in Session |-> IF s \in S THEN [v.stop[s] EXCEPT ![k] = "begun"]
                                     ELSE v.stop[s]]
      /\ w.state = v.state /\ w.cont = v.cont /\ w.box = v.box /\ w.step = v.step
      /\ w.agent = v.agent \ S
  BY DEF BeginStop, View
<1>2. \A s \in Session : v.stop[s] \in [StopKinds -> StopSteps]
  BY DEF View
<1> HIDE DEF w
<1>3. \A s \in Session, h \in StopKinds : w.stop[s][h] = "down" => v.stop[s][h] = "down"
  BY <1>1, <1>2
<1> QED
  BY <1>1, <1>3 DEF Keeps, w

LEMMA ReapKeeps ==
  ASSUME NEW v \in View
  PROVE  Keeps(v, Reap(v))
<1>1. {s \in BlockingQueue(v) : v.stop[s]["queue"] = "no"} \in SUBSET Session
  BY DEF BlockingQueue
<1> QED
  BY <1>1, BeginStopKeeps DEF Reap, StopKinds

LEMMA NoteIdleKeeps ==
  ASSUME NEW v \in View, NEW s \in Session
  PROVE  Keeps(v, NoteIdle(v, s))
<1> DEFINE a == [v EXCEPT !.armed = @ \cup {s}]
<1>1. /\ a \in View /\ a.state = v.state /\ a.cont = v.cont /\ a.box = v.box
      /\ a.step = v.step /\ a.agent = v.agent /\ a.stop = v.stop
  BY DEF View
<1> HIDE DEF a
<1>2. Keeps(v, a)
  BY <1>1, KeepsSame
<1> QED
  BY <1>1, <1>2, ReapKeeps, KeepsTransitive DEF NoteIdle, a

LEMMA EnqueuedKeeps ==
  ASSUME NEW v \in View, NEW s \in Session, v.state[s] # "started"
  PROVE  Keeps(v, Enqueued(v, s))
<1> DEFINE behind == {<<t, s>> : t \in {t \in Session \ {s} : v.state[t] = "queued"}}
           u == Unqueue(v, {s})
           q == [u EXCEPT !.state[s] = "queued", !.before = @ \cup behind]
           r == Reap(q)
<1>1. u \in View /\ behind \in SUBSET (Session \X Session)
  BY UnqueueType
<1>2. q \in View
  <2> HIDE DEF u, behind
  <2> QED BY <1>1 DEF View, SessionStates
<1>3. /\ q.state = [v.state EXCEPT ![s] = "queued"]
      /\ q.cont = v.cont /\ q.step = v.step /\ q.box = v.box /\ q.agent = v.agent
      /\ q.stop = v.stop
  BY DEF Unqueue, View
<1> HIDE DEF q
<1>4. Keeps(v, q)
  BY <1>3 DEF Keeps, View
<1>5. r \in View /\ Keeps(q, r)
  BY <1>2, ReapType, ReapKeeps
<1> HIDE DEF r
<1>6. Keeps(r, Schedule(r))
  BY <1>5, ScheduleKeeps
<1>7. Keeps(v, Schedule(r))
  BY <1>4, <1>5, <1>6, KeepsTransitive
<1> QED
  BY <1>7 DEF Enqueued, q, r

LEMMA FailedStartKeeps ==
  ASSUME NEW v \in View, NEW s \in Session, v.state[s] # "started"
  PROVE  Keeps(v, FailedStart(v, s))
<1> DEFINE u == Unqueue(v, {s})
           w == [u EXCEPT !.state[s] = "draft", !.step[s] = "none"]
           n == NoteIdle(w, s)
<1>1. u \in View
  BY UnqueueType
<1>2. w \in View
  <2> HIDE DEF u
  <2> QED BY <1>1 DEF View, SessionStates, Steps
<1>3. /\ w.state = [v.state EXCEPT ![s] = "draft"]
      /\ w.step = [v.step EXCEPT ![s] = "none"]
      /\ w.cont = v.cont /\ w.box = v.box /\ w.agent = v.agent /\ w.stop = v.stop
  BY DEF Unqueue, View
<1> HIDE DEF w
<1>4. Keeps(v, w)
  BY <1>3 DEF Keeps, View
<1>5. n \in View /\ Keeps(w, n)
  BY <1>2, NoteIdleType, NoteIdleKeeps
<1> HIDE DEF n
<1>6. Keeps(n, Schedule(n))
  BY <1>5, ScheduleKeeps
<1>7. Keeps(v, Schedule(n))
  BY <1>4, <1>5, <1>6, KeepsTransitive
<1> QED
  BY <1>7 DEF FailedStart, w, n

LEMMA AgentGoneKeeps ==
  ASSUME NEW v \in View, NEW s \in Session
  PROVE  Keeps(v, AgentGone(v, s)) /\ s \notin AgentGone(v, s).agent
<1> DEFINE p == IF v.step[s] = "turn" THEN "none" ELSE v.step[s]
           u == [v EXCEPT !.agent = @ \ {s},
                          !.step[s] = IF v.step[s] = "turn" THEN "none" ELSE @]
           w == NoteIdle(u, s)
           f == [w EXCEPT !.step[s] = "failed"]
<1>1. u \in View
  BY DEF View, Steps
<1>2. /\ u.state = v.state /\ u.cont = v.cont /\ u.box = v.box /\ u.stop = v.stop
      /\ u.step = [v.step EXCEPT ![s] = p] /\ u.agent = v.agent \ {s}
  BY DEF View
<1> HIDE DEF u
<1>3. Keeps(v, u)
  BY <1>2 DEF Keeps, Calm, View
<1>4. w \in View /\ Keeps(u, w)
  BY <1>1, NoteIdleType, NoteIdleKeeps
<1> HIDE DEF w
<1>5. Keeps(v, w) /\ s \notin w.agent
  <2>1. Keeps(v, w)
    BY <1>3, <1>4, KeepsTransitive
  <2>2. w.agent \subseteq u.agent
    BY <1>4 DEF Keeps
  <2> QED
    BY <1>2, <2>1, <2>2
<1>6. Keeps(w, f) /\ f.agent = w.agent
  <2>1. /\ f.state = w.state /\ f.cont = w.cont /\ f.box = w.box /\ f.stop = w.stop
        /\ f.step = [w.step EXCEPT ![s] = "failed"] /\ f.agent = w.agent
    BY <1>4 DEF View
  <2> HIDE DEF f
  <2> QED
    BY <1>4, <2>1 DEF Keeps, Calm, View
<1> HIDE DEF f
<1>7. Keeps(v, f)
  BY <1>5, <1>6, KeepsTransitive
<1>8. AgentGone(v, s) = w \/ AgentGone(v, s) = f
  BY DEF AgentGone, f, w, u
<1> QED
  BY <1>5, <1>6, <1>7, <1>8

LEMMA TurnOverKeeps ==
  ASSUME NEW v \in View, NEW s \in Session, NEW next, next = "limited" => s \in Limitable
  PROVE  Keeps(v, TurnOver(v, s, next))
<1> DEFINE u == [v EXCEPT !.step[s] = "none"]
           w == NoteIdle(u, s)
<1>1. u \in View
  BY DEF View, Steps
<1>2. /\ u.state = v.state /\ u.cont = v.cont /\ u.box = v.box /\ u.stop = v.stop
      /\ u.step = [v.step EXCEPT ![s] = "none"] /\ u.agent = v.agent
  BY DEF View
<1> HIDE DEF u
<1>3. Keeps(v, u)
  BY <1>2 DEF Keeps, Calm, View
<1>4. w \in View /\ Keeps(u, w)
  BY <1>1, NoteIdleType, NoteIdleKeeps
<1> HIDE DEF w
<1>5. Keeps(v, w)
  BY <1>3, <1>4, KeepsTransitive
<1>6. CASE next = "nudge"
  <2> DEFINE n == [w EXCEPT !.nudging = @ \cup {s}]
  <2>1. n \in View /\ Keeps(w, n)
    BY <1>4, KeepsSame DEF View
  <2> HIDE DEF n
  <2>2. Keeps(n, BeginTurn(n, {s}, "open"))
    BY <2>1, BeginTurnKeeps
  <2>3. Keeps(v, BeginTurn(n, {s}, "open"))
    BY <1>5, <2>1, <2>2, KeepsTransitive
  <2> QED
    BY <1>6, <2>3 DEF TurnOver, n, w, u
<1>7. CASE next = "limited"
  <2> DEFINE l == [w EXCEPT !.held = @ \cup {s}, !.nudging = @ \ {s},
                            !.pend[s] = IF @ = 0 THEN 1 ELSE @]
  <2>1. [w.pend EXCEPT ![s] = IF @ = 0 THEN 1 ELSE @] \in [Session -> 0..MaxPend]
    BY <1>4, ViewAssumption DEF View
  <2>0. /\ l \in View /\ l.state = w.state /\ l.cont = w.cont /\ l.box = w.box
        /\ l.step = w.step /\ l.agent = w.agent /\ l.stop = w.stop
    BY <1>4, <1>7, <2>1 DEF View
  <2> HIDE DEF l
  <2>2. Keeps(w, l)
    BY <2>0, KeepsSame
  <2>3. Keeps(l, Schedule(l))
    BY <2>0, ScheduleKeeps
  <2>4. Keeps(v, Schedule(l))
    BY <1>5, <2>2, <2>3, KeepsTransitive
  <2> QED
    BY <1>7, <2>4 DEF TurnOver, l, w, u
<1>8. CASE next \notin {"nudge", "limited"}
  <2> DEFINE d == [w EXCEPT !.nudging = @ \ {s}]
  <2>1. d \in View /\ Keeps(w, d)
    BY <1>4, KeepsSame DEF View
  <2> HIDE DEF d
  <2>2. Keeps(d, Drain(d, {s}))
    BY <2>1, DrainKeeps
  <2>3. Keeps(v, Drain(d, {s}))
    BY <1>5, <2>1, <2>2, KeepsTransitive
  <2> QED
    BY <1>8, <2>3 DEF TurnOver, d, w, u
<1> QED
  BY <1>6, <1>7, <1>8

(* The actions.                                                              *)
LEMMA BecomeVisible ==
  ASSUME NEW w \in View, Visible(w), Become(w)
  PROVE  Visible(Now)'
<1>1. Now' = w
  BY DEF Become, Now, View
<1> QED
  BY <1>1 DEF Visible

LEMMA InitVisible == Init => Visible(Now)
BY DEF Init, Visible, Now

(* Actions that are a handler, or a few, and nothing else.                   *)
LEMMA HandlersVisible ==
  ASSUME Inv, Visible(Now), NEW w \in View, Keeps(Now, w), Become(w)
  PROVE  Visible(Now)'
BY KeepsVisible, BecomeVisible DEF Inv, TypeOK

LEMMA UserVisible ==
  ASSUME Inv, Visible(Now), NEW s \in Session,
         CreateSession(s) \/ Enqueue(s) \/ CancelQueue(s) \/ Run(s)
  PROVE  Visible(Now)'
<1>1. /\ Now \in View /\ Now.state[s] # "started"
  BY DEF Inv, TypeOK, CreateSession, Enqueue, CancelQueue, Run, Now
<1>2. CASE CreateSession(s) \/ CancelQueue(s)
  <2> DEFINE v == [Now EXCEPT !.state[s] = "draft"]
             u == Unqueue(Now, {s})
             c == [u EXCEPT !.state[s] = "draft"]
  <2>1. Become(NoteIdle(v, s)) \/ Become(NoteIdle(c, s))
    BY <1>2 DEF CreateSession, CancelQueue
  <2>2. ASSUME NEW w \in View, w.state = [Now.state EXCEPT ![s] = "draft"],
               w.cont = Now.cont, w.box = Now.box, w.step = Now.step,
               w.agent = Now.agent, w.stop = Now.stop, Become(NoteIdle(w, s))
        PROVE  Visible(Now)'
    <3>1. Keeps(Now, w)
      BY <1>1, <2>2 DEF Keeps, View
    <3>2. NoteIdle(w, s) \in View /\ Keeps(w, NoteIdle(w, s))
      BY NoteIdleType, NoteIdleKeeps
    <3> QED
      BY <2>2, <3>1, <3>2, KeepsTransitive, HandlersVisible
  <2>3. /\ v \in View /\ v.state = [Now.state EXCEPT ![s] = "draft"]
        /\ v.cont = Now.cont /\ v.box = Now.box /\ v.step = Now.step
        /\ v.agent = Now.agent /\ v.stop = Now.stop
    BY <1>1 DEF View, SessionStates
  <2>4. c \in View
    <3>1. u \in View
      BY <1>1, UnqueueType
    <3> HIDE DEF u
    <3> QED BY <3>1 DEF View, SessionStates
  <2>5. /\ c.state = [Now.state EXCEPT ![s] = "draft"]
        /\ c.cont = Now.cont /\ c.box = Now.box /\ c.step = Now.step
        /\ c.agent = Now.agent /\ c.stop = Now.stop
    BY <1>1 DEF Unqueue, View
  <2> HIDE DEF v, c
  <2> QED
    BY <2>1, <2>2, <2>3, <2>4, <2>5
<1>3. CASE Become(Enqueued(Now, s))
  BY <1>1, <1>3, EnqueuedType, EnqueuedKeeps, HandlersVisible
<1>4. CASE Run(s)
  <2> DEFINE v == [Now EXCEPT !.armed = @ \ {s}]
  <2>1. \/ Become(Enqueued(Now, s)) \/ Become(FailedStart(v, s)) \/ Become(StartAll(v, {s}))
    BY <1>4 DEF Run
  <2>2. /\ v \in View /\ v.state = Now.state
        /\ v.cont = Now.cont /\ v.box = Now.box /\ v.step = Now.step
        /\ v.agent = Now.agent /\ v.stop = Now.stop
    BY <1>1 DEF View
  <2> HIDE DEF v
  <2>3. Keeps(Now, v)
    BY <2>2, KeepsSame
  <2>4. CASE Become(FailedStart(v, s))
    BY <1>1, <2>2, <2>3, <2>4, FailedStartType, FailedStartKeeps, KeepsTransitive, HandlersVisible
  <2>5. CASE Become(StartAll(v, {s}))
    BY <1>1, <2>2, <2>3, <2>5, StartAllType, StartAllKeeps, KeepsTransitive, HandlersVisible
  <2> QED
    BY <1>3, <2>1, <2>4, <2>5
<1> QED
  BY <1>2, <1>3, <1>4 DEF Enqueue

LEMMA DeleteVisible ==
  ASSUME Inv, Visible(Now), NEW s \in Session, DeleteSession(s)
  PROVE  Visible(Now)'
<1> DEFINE none == [k \in StopKinds |-> "no"]
           u == Unqueue(Now, {s})
           g == [u EXCEPT
                   !.state[s] = "deleted", !.cont[s] = "inactive",
                   !.box[s] = "none", !.step[s] = "none", !.agent = @ \ {s},
                   !.pend[s] = 0, !.nudging = @ \ {s},
                   !.recovering = @ \ {s}, !.held = @ \ {s},
                   !.armed = @ \ {s}, !.stop[s] = none]
<1>1. Now \in View
  BY DEF Inv, TypeOK
<1>2. u \in View
  BY <1>1, UnqueueType
<1>3. g \in View
  <2> DEFINE pends == [u.pend EXCEPT ![s] = 0]
             stops == [u.stop EXCEPT ![s] = none]
  <2>1. none \in [StopKinds -> StopSteps]
    BY DEF StopSteps
  <2> HIDE DEF u, none
  <2>2. g = [u EXCEPT
               !.state[s] = "deleted", !.cont[s] = "inactive",
               !.box[s] = "none", !.step[s] = "none", !.agent = @ \ {s},
               !.pend = pends, !.nudging = @ \ {s},
               !.recovering = @ \ {s}, !.held = @ \ {s},
               !.armed = @ \ {s}, !.stop = stops]
    BY <1>2 DEF View
  <2> HIDE DEF g
  <2>3. pends \in [Session -> 0..MaxPend]
    BY <1>2, ViewAssumption DEF View
  <2>4. stops \in [Session -> [StopKinds -> StopSteps]]
    BY <1>2, <2>1 DEF View
  <2> HIDE DEF pends, stops
  <2> QED
    BY <1>2, <2>2, <2>3, <2>4, ZenonT(40) DEF View, SessionStates, ContStates, BoxStates, Steps
<1>4. Visible(g)
  <2>1. /\ g.state = [Now.state EXCEPT ![s] = "deleted"]
        /\ g.cont = [Now.cont EXCEPT ![s] = "inactive"]
        /\ g.box = [Now.box EXCEPT ![s] = "none"]
        /\ g.step = [Now.step EXCEPT ![s] = "none"]
        /\ g.agent = Now.agent \ {s}
        /\ g.stop = [Now.stop EXCEPT ![s] = none]
    BY <1>1 DEF Unqueue, View
  <2> HIDE DEF g
  <2> QED
    BY <1>1, <2>1 DEF Visible, View
<1>5. Become(Reap(Schedule(g))) \/ Become(Schedule(g))
  BY DEF DeleteSession
<1> HIDE DEF g
<1>6. Schedule(g) \in View /\ Visible(Schedule(g))
  BY <1>3, <1>4, ScheduleType, ScheduleKeeps, KeepsVisible
<1>7. Reap(Schedule(g)) \in View /\ Visible(Reap(Schedule(g)))
  BY <1>6, ReapType, ReapKeeps, KeepsVisible
<1> QED BY <1>5, <1>6, <1>7, BecomeVisible

(* A view that differs from the state in none of what Visible speaks of, and *)
(* what its handlers leave.                                                  *)
LEMMA QuietVisible ==
  ASSUME Inv, Visible(Now), NEW v \in View, NEW s \in Session,
         v.state = Now.state, v.cont = Now.cont, v.box = Now.box, v.step = Now.step,
         v.agent = Now.agent,
         \A t \in Session, k \in StopKinds : v.stop[t][k] = "down" => Now.stop[t][k] = "down",
         \/ Become(v) \/ Become(Schedule(v)) \/ Become(AgentGone(v, s))
         \/ Become(Drain(v, {s})) \/ Become(Reap(Drain(v, {s})))
         \/ Become(BeginStop(v, {s}, "idle")) \/ Become(Reap(BeginStop(v, {s}, "idle")))
  PROVE  Visible(Now)'
<1>1. Keeps(Now, v)
  BY DEF Keeps
<1>2. Schedule(v) \in View /\ Keeps(v, Schedule(v))
  BY ScheduleType, ScheduleKeeps
<1>3. AgentGone(v, s) \in View /\ Keeps(v, AgentGone(v, s))
  BY AgentGoneType, AgentGoneKeeps
<1>4. /\ Drain(v, {s}) \in View /\ Keeps(v, Drain(v, {s}))
      /\ Reap(Drain(v, {s})) \in View /\ Keeps(Drain(v, {s}), Reap(Drain(v, {s})))
  BY DrainType, DrainKeeps, ReapType, ReapKeeps
<1> DEFINE b == BeginStop(v, {s}, "idle")
<1>5. /\ b \in View /\ Keeps(v, b)
      /\ Reap(b) \in View /\ Keeps(b, Reap(b))
  BY BeginStopType, BeginStopKeeps, ReapType, ReapKeeps DEF StopKinds
<1> HIDE DEF b
<1>6. CASE Become(v)
  BY <1>1, <1>6, HandlersVisible
<1>7. CASE Become(Schedule(v))
  BY <1>1, <1>2, <1>7, KeepsTransitive, HandlersVisible
<1>8. CASE Become(AgentGone(v, s))
  BY <1>1, <1>3, <1>8, KeepsTransitive, HandlersVisible
<1>9. CASE Become(Drain(v, {s})) \/ Become(Reap(Drain(v, {s})))
  <2>1. Keeps(Now, Drain(v, {s}))
    BY <1>1, <1>4, KeepsTransitive
  <2>2. Keeps(Now, Reap(Drain(v, {s})))
    BY <1>4, <2>1, KeepsTransitive
  <2> QED
    BY <1>4, <1>9, <2>1, <2>2, HandlersVisible
<1>10. CASE Become(b) \/ Become(Reap(b))
  <2>1. Keeps(Now, b)
    BY <1>1, <1>5, KeepsTransitive
  <2>2. Keeps(Now, Reap(b))
    BY <1>5, <2>1, KeepsTransitive
  <2> QED
    BY <1>5, <1>10, <2>1, <2>2, HandlersVisible
<1> QED
  BY <1>6, <1>7, <1>8, <1>9, <1>10 DEF b

LEMMA PromptVisible ==
  ASSUME Inv, Visible(Now), NEW s \in Session,
         Prompt(s) \/ ClearPending(s) \/ ResumeInterrupted(s)
  PROVE  Visible(Now)'
<1>1. Now \in View
  BY DEF Inv, TypeOK
<1>2. CASE Prompt(s) \/ ResumeInterrupted(s)
  <2>1. PICK n \in 0..MaxPend :
          LET w == Drain([Now EXCEPT !.pend[s] = n, !.recovering = @ \ {s}], {s})
          IN  Become(w) \/ Become(Reap(w))
    <3>1. CASE Prompt(s)
      <4>1. PICK n \in {pend[s], pend[s] + 1} \cap 1..MaxPend :
              LET w == Drain([Now EXCEPT !.pend[s] = n, !.recovering = @ \ {s}], {s})
              IN  Become(IF w.pend[s] > 0 THEN Reap(w) ELSE w)
        BY <3>1 DEF Prompt
      <4>2. n \in 0..MaxPend
        BY <4>1
      <4> QED BY <4>1, <4>2
    <3>2. CASE ResumeInterrupted(s)
      BY <3>2 DEF ResumeInterrupted
    <3> QED BY <1>2, <3>1, <3>2
  <2> DEFINE v == [Now EXCEPT !.pend[s] = n, !.recovering = @ \ {s}]
  <2>2. [Now.pend EXCEPT ![s] = n] \in [Session -> 0..MaxPend]
    BY <1>1 DEF View
  <2>3. /\ v \in View /\ v.state = Now.state /\ v.cont = Now.cont /\ v.box = Now.box
        /\ v.step = Now.step /\ v.agent = Now.agent /\ v.stop = Now.stop
    BY <1>1, <2>2 DEF View
  <2>4. Become(Drain(v, {s})) \/ Become(Reap(Drain(v, {s})))
    BY <2>1
  <2> HIDE DEF v
  <2> QED
    BY <2>3, <2>4, QuietVisible
<1>3. CASE ClearPending(s)
  <2> PICK h \in {held, held \ {s}} : Become([Now EXCEPT !.pend[s] = 0, !.held = h])
    BY <1>3 DEF ClearPending
  <2> DEFINE v == [Now EXCEPT !.pend[s] = 0, !.held = h]
  <2>1. h \in SUBSET Limitable
    BY <1>1 DEF Now, View
  <2>2. [Now.pend EXCEPT ![s] = 0] \in [Session -> 0..MaxPend]
    BY <1>1, ViewAssumption DEF View
  <2>3. /\ v \in View /\ v.state = Now.state /\ v.cont = Now.cont /\ v.box = Now.box
        /\ v.step = Now.step /\ v.agent = Now.agent /\ v.stop = Now.stop
    BY <1>1, <2>1, <2>2 DEF View
  <2>4. Become(v)
    OBVIOUS
  <2> HIDE DEF v
  <2> QED
    BY <2>3, <2>4, QuietVisible
<1> QED BY <1>2, <1>3

LEMMA SettingsVisible ==
  ASSUME Inv, Visible(Now),
         (\E n \in Caps : SetTaskCap(n)) \/ (\E H \in SUBSET Limitable : LimitsChange(H))
  PROVE  Visible(Now)'
<1>1. Now \in View
  BY DEF Inv, TypeOK
<1>2. ASSUME NEW v \in View, v.state = Now.state, v.cont = Now.cont, v.box = Now.box,
             v.step = Now.step, v.agent = Now.agent, v.stop = Now.stop, Become(Schedule(v))
      PROVE  Visible(Now)'
  BY <1>2, KeepsSame, ScheduleType, ScheduleKeeps, KeepsTransitive, HandlersVisible
<1>3. ASSUME NEW n \in Caps, SetTaskCap(n)
      PROVE  Visible(Now)'
  <2> DEFINE v == [Now EXCEPT !.cap = n]
  <2>1. /\ v \in View /\ v.state = Now.state /\ v.cont = Now.cont /\ v.box = Now.box
        /\ v.step = Now.step /\ v.agent = Now.agent /\ v.stop = Now.stop
    BY <1>1 DEF View
  <2>2. Become(Schedule(v))
    BY <1>3 DEF SetTaskCap
  <2> HIDE DEF v
  <2> QED BY <1>2, <2>1, <2>2
<1>4. ASSUME NEW H \in SUBSET Limitable, LimitsChange(H)
      PROVE  Visible(Now)'
  <2> DEFINE v == [Now EXCEPT !.held = H]
  <2>1. /\ v \in View /\ v.state = Now.state /\ v.cont = Now.cont /\ v.box = Now.box
        /\ v.step = Now.step /\ v.agent = Now.agent /\ v.stop = Now.stop
    BY <1>1 DEF View
  <2>2. Become(Schedule(v))
    BY <1>4 DEF LimitsChange
  <2> HIDE DEF v
  <2> QED BY <1>2, <2>1, <2>2
<1> QED BY <1>3, <1>4

LEMMA TurnVisible ==
  ASSUME Inv, Visible(Now), NEW s \in Session, TurnEnds(s) \/ Fails(s) \/ AgentExits(s)
  PROVE  Visible(Now)'
<1>1. Now \in View
  BY DEF Inv, TypeOK
<1>2. ASSUME NEW next, next = "limited" => s \in Limitable, Become(TurnOver(Now, s, next))
      PROVE  Visible(Now)'
  BY <1>1, <1>2, TurnOverType, TurnOverKeeps, HandlersVisible
<1>3. CASE TurnEnds(s)
  BY <1>2, <1>3 DEF TurnEnds
<1>4. CASE Become(FailedStart(Now, s)) /\ state[s] = "starting"
  <2>1. Now.state[s] # "started"
    BY <1>4 DEF Now
  <2> QED
    BY <1>1, <1>4, <2>1, FailedStartType, FailedStartKeeps, HandlersVisible
<1>5. CASE Become(TurnOver(Now, s, "done"))
  BY <1>2, <1>5
<1>6. CASE AgentExits(s)
  BY <1>1, <1>6, AgentGoneType, AgentGoneKeeps, HandlersVisible DEF AgentExits
<1> QED
  BY <1>3, <1>4, <1>5, <1>6 DEF Fails

LEMMA StopBegunVisible ==
  ASSUME Inv, Visible(Now), NEW s \in Session,
         IdleTimerFires(s) \/ UserStop(s) \/ Release(s) \/ HandoffSettles(s)
         \/ \E k \in StopKinds : StopFails(s, k)
  PROVE  Visible(Now)'
<1>1. Now \in View
  BY DEF Inv, TypeOK
<1>2. CASE IdleTimerFires(s)
  <2> DEFINE v == [Now EXCEPT !.armed = @ \ {s}]
  <2>1. /\ v \in View /\ v.state = Now.state /\ v.cont = Now.cont /\ v.box = Now.box
        /\ v.step = Now.step /\ v.agent = Now.agent /\ v.stop = Now.stop
    BY <1>1 DEF View
  <2>2. Become(v) \/ Become(BeginStop(v, {s}, "idle")) \/ Become(Reap(BeginStop(v, {s}, "idle")))
    BY <1>2 DEF IdleTimerFires
  <2> HIDE DEF v
  <2> QED BY <2>1, <2>2, QuietVisible
<1>3. ASSUME NEW k \in StopKinds, NEW p \in {"no", "begun"}, NEW a \in SUBSET Session,
             LET v == [Now EXCEPT !.stop[s][k] = p, !.armed = a]
             IN  Become(v) \/ Become(Schedule(v)) \/ Become(AgentGone(v, s))
      PROVE  Visible(Now)'
  <2> DEFINE v == [Now EXCEPT !.stop[s][k] = p, !.armed = a]
  <2>1. /\ v \in View /\ v.state = Now.state /\ v.cont = Now.cont /\ v.box = Now.box
        /\ v.step = Now.step /\ v.agent = Now.agent
        /\ v.stop = [Now.stop EXCEPT ![s] = [Now.stop[s] EXCEPT ![k] = p]]
    BY <1>1 DEF View, StopSteps
  <2>2. Become(v) \/ Become(Schedule(v)) \/ Become(AgentGone(v, s))
    BY <1>3
  <2> HIDE DEF v
  <2>3. \A t \in Session, h \in StopKinds : v.stop[t][h] = "down" => Now.stop[t][h] = "down"
    BY <1>1, <2>1 DEF View
  <2> QED BY <2>1, <2>2, <2>3, QuietVisible
<1>4. Now.armed \in SUBSET Session
  BY <1>1 DEF View
<1>5. ASSUME NEW k \in StopKinds, TakeDown(s, k)
      PROVE  Visible(Now)'
  <2> DEFINE a == Now.armed \ {s}
  <2>1. LET v == [Now EXCEPT !.stop[s][k] = "begun", !.armed = a]
        IN  Become(v) \/ Become(AgentGone(v, s))
    BY <1>5 DEF TakeDown, Now
  <2>2. a \in SUBSET Session
    BY <1>4
  <2> HIDE DEF a
  <2> QED BY <1>3, <2>1, <2>2
<1>6. CASE HandoffSettles(s)
  <2> DEFINE v == [Now EXCEPT !.stop[s]["queue"] = "no"]
             w == [Now EXCEPT !.stop[s]["queue"] = "no", !.armed = Now.armed]
  <2>1. v = w
    BY <1>1 DEF View
  <2>2. Become(Schedule(v))
    BY <1>6 DEF HandoffSettles
  <2>3. Become(Schedule(w))
    BY <2>1, <2>2
  <2> QED BY <1>3, <1>4, <2>3 DEF StopKinds
<1>7. ASSUME NEW k \in StopKinds, StopFails(s, k)
      PROVE  Visible(Now)'
  <2> DEFINE v == [Now EXCEPT !.stop[s][k] = "no"]
             w == [Now EXCEPT !.stop[s][k] = "no", !.armed = Now.armed]
             x == [v EXCEPT !.armed = @ \cup {s}]
             b == Now.armed \cup {s}
             y == [Now EXCEPT !.stop[s][k] = "no", !.armed = b]
  <2>1. v = w /\ x = y
    BY <1>1 DEF View
  <2>2. Become(v) \/ Become(Schedule(x))
    BY <1>7 DEF StopFails
  <2>3. Become(w) \/ Become(Schedule(y))
    BY <2>1, <2>2
  <2>4. b \in SUBSET Session
    BY <1>4
  <2> HIDE DEF b
  <2> QED BY <1>3, <1>4, <2>3, <2>4
<1> QED
  BY <1>2, <1>5, <1>6, <1>7 DEF UserStop, Release, StopKinds

(* A launch goes on: only a container that is up is attached to.             *)
LEMMA LaunchVisible ==
  ASSUME Inv, Visible(Now), NEW s \in Session,
         Attach(s) \/ ResolveFails(s) \/ WireFails(s) \/ Resolve(s) \/ Provisioned(s)
  PROVE  Visible(Now)'
<1>1. Now \in View
  BY DEF Inv, TypeOK
<1>2. /\ state \in [Session -> SessionStates] /\ step \in [Session -> Steps]
      /\ cont \in [Session -> ContStates] /\ box \in [Session -> BoxStates]
  BY <1>1 DEF Now, View
<1>3. state' = state /\ agent' = agent /\ stop' = stop
  BY DEF Attach, ResolveFails, WireFails, Resolve, Provisioned
<1>4. /\ \A t \in agent : /\ state[t] = "started" /\ step[t] \in Calm
                          /\ cont[t] = "running" /\ box[t] = "up"
      /\ \A t \in Session : step[t] = "wire" /\ box[t] = "up" => cont[t] = "running"
      /\ \A t \in Session, k \in StopKinds :
           stop[t][k] = "down" => ~(cont[t] = "running" /\ box[t] = "up")
  BY DEF Visible, Now
<1>5. agent \subseteq Session
  BY <1>1 DEF Now, View
<1>6. SUFFICES
        /\ \A t \in agent : /\ step'[t] \in Calm /\ cont'[t] = "running" /\ box'[t] = "up"
        /\ \A t \in Session : step'[t] = "wire" /\ box'[t] = "up" => cont'[t] = "running"
        /\ \A t \in Session, k \in StopKinds :
             stop[t][k] = "down" => ~(cont'[t] = "running" /\ box'[t] = "up")
  BY <1>3, <1>4 DEF Visible, Now
<1>7. CASE Attach(s) \/ ResolveFails(s) \/ WireFails(s)
  <2>1. PICK p \in {"turn", "failed", "resolve"} :
          /\ step' = [step EXCEPT ![s] = p] /\ UNCHANGED <<cont, box>>
          /\ s \in agent => p \in {"turn", "failed"}
    BY <1>4, <1>7 DEF Attach, ResolveFails, WireFails, Calm
  <2> QED
    BY <1>2, <1>4, <1>5, <2>1 DEF Calm
<1>8. CASE Resolve(s)
  <2>1. s \notin agent
    BY <1>4, <1>8 DEF Resolve, Calm, Lulls
  <2>2. CASE cont[s] = "running" /\ box[s] = "up"
    <3>1. step' = [step EXCEPT ![s] = "wire"] /\ UNCHANGED <<cont, box>>
      BY <1>8, <2>2 DEF Resolve
    <3> QED
      BY <1>2, <1>4, <1>5, <2>1, <2>2, <3>1
  <2>3. CASE ~(cont[s] = "running" /\ box[s] = "up")
    <3>1. /\ step' = [step EXCEPT ![s] = "provision"] /\ cont' = [cont EXCEPT ![s] = "building"]
          /\ box' = box
      BY <1>8, <2>3 DEF Resolve
    <3> QED
      BY <1>2, <1>4, <1>5, <2>1, <3>1
  <2> QED BY <2>2, <2>3
<1>9. CASE Provisioned(s)
  <2>1. s \notin agent /\ \A k \in StopKinds : stop[s][k] # "down"
    BY <1>4, <1>9 DEF Provisioned, Calm, Lulls
  <2>2. /\ step' = [step EXCEPT ![s] = "wire"]
        /\ cont' = [cont EXCEPT ![s] = "running"] /\ box' = [box EXCEPT ![s] = "up"]
    BY <1>9 DEF Provisioned
  <2> QED
    BY <1>2, <1>4, <1>5, <2>1, <2>2
<1> QED
  BY <1>7, <1>8, <1>9

LEMMA ProvisionFailsVisible ==
  ASSUME Inv, Visible(Now), NEW s \in Session, ProvisionFails(s)
  PROVE  Visible(Now)'
<1>1. Now \in View /\ step[s] = "provision"
  BY DEF Inv, TypeOK, ProvisionFails
<1>2. PICK b \in {box[s], "none", "up"} :
        Become(Schedule([Now EXCEPT !.step[s] = "failed",
                                    !.cont[s] = "inactive", !.box[s] = b]))
  BY DEF ProvisionFails
<1> DEFINE w == [Now EXCEPT !.step[s] = "failed", !.cont[s] = "inactive", !.box[s] = b]
<1>3. b \in BoxStates /\ "failed" \in Steps /\ "inactive" \in ContStates
  BY <1>1 DEF Now, View, BoxStates, Steps, ContStates
<1>4. w \in View
  BY <1>1, <1>3 DEF View
<1>5. /\ w.state = Now.state /\ w.agent = Now.agent /\ w.stop = Now.stop
      /\ w.step = [Now.step EXCEPT ![s] = "failed"]
      /\ w.cont = [Now.cont EXCEPT ![s] = "inactive"]
      /\ w.box = [Now.box EXCEPT ![s] = b]
  BY <1>1 DEF View
<1>6. Become(Schedule(w))
  BY <1>2
<1> HIDE DEF w
<1>7. s \notin Now.agent
  BY <1>1 DEF Visible, Calm, Now, Lulls
<1>8. Visible(w)
  BY <1>1, <1>5, <1>7 DEF Visible, View
<1> QED
  BY <1>4, <1>6, <1>8, ScheduleType, ScheduleKeeps, KeepsVisible, BecomeVisible

LEMMA WiredVisible ==
  ASSUME Inv, Visible(Now), NEW s \in Session, Wired(s)
  PROVE  Visible(Now)'
<1>1. Now \in View /\ Safe(Now) /\ Now.step[s] = "wire" /\ Now.box[s] = "up"
  BY DEF Inv, TypeOK, Wired, Now
<1>2. Now.state[s] \in {"starting", "started"} /\ Now.cont[s] = "running"
  BY <1>1 DEF Safe, StepsFit, Visible
<1>3. CASE Now.state[s] = "started" /\ Become([Now EXCEPT !.agent = @ \cup {s}, !.step[s] = "turn"])
  <2> DEFINE r == [Now EXCEPT !.agent = @ \cup {s}, !.step[s] = "turn"]
  <2>1. /\ r.state = Now.state /\ r.cont = Now.cont /\ r.box = Now.box /\ r.stop = Now.stop
        /\ r.step = [Now.step EXCEPT ![s] = "turn"] /\ r.agent = Now.agent \cup {s}
    BY <1>1 DEF View
  <2>2. r \in View
    BY <1>1 DEF View, Steps
  <2>3. Become(r)
    BY <1>3
  <2> HIDE DEF r
  <2>4. Visible(r)
    BY <1>1, <1>2, <1>3, <2>1 DEF Visible, Calm, View
  <2> QED
    BY <2>2, <2>3, <2>4, BecomeVisible
<1>4. ASSUME NEW p \in {"config", "open", "attach"}, NEW A \in SUBSET {s},
             Become([Now EXCEPT !.agent = @ \cup {s}, !.state[s] = "started",
                                !.nudging = @ \ {s}, !.step[s] = p, !.armed = @ \ A])
      PROVE  Visible(Now)'
  <2> DEFINE b == [Now EXCEPT !.agent = @ \cup {s}, !.state[s] = "started",
                              !.nudging = @ \ {s}, !.step[s] = p, !.armed = @ \ A]
  <2>1. p \in Steps /\ p \in Calm /\ p # "wire" /\ "started" \in SessionStates
    BY DEF Steps, Calm, Lulls, SessionStates
  <2>2. b \in View
    BY <1>1, <2>1 DEF View
  <2>3. /\ b.state = [Now.state EXCEPT ![s] = "started"]
        /\ b.step = [Now.step EXCEPT ![s] = p]
        /\ b.cont = Now.cont /\ b.box = Now.box /\ b.stop = Now.stop
        /\ b.agent = Now.agent \cup {s}
    BY <1>1 DEF View
  <2>4. Become(b)
    BY <1>4
  <2> HIDE DEF b
  <2>5. Visible(b)
    BY <1>1, <1>2, <2>1, <2>3 DEF Visible, View
  <2> QED
    BY <2>2, <2>4, <2>5, BecomeVisible
<1>5. Now.state = state
  BY DEF Now
<1>6. CASE /\ state[s] # "starting"
           /\ Become([Now EXCEPT !.agent = @ \cup {s}, !.step[s] = "turn"])
  BY <1>2, <1>3, <1>5, <1>6
<1>7. CASE \E p \in {"config", "open", "attach"}, A \in SUBSET {s} :
              Become([Now EXCEPT !.agent = @ \cup {s}, !.state[s] = "started",
                                 !.nudging = @ \ {s}, !.step[s] = p, !.armed = @ \ A])
  BY <1>4, <1>7
<1> QED
  BY <1>1, <1>6, <1>7, WiredTo

LEMMA LullVisible ==
  ASSUME Inv, Visible(Now), NEW s \in Session, ConfigApplied(s) \/ Masked(s) \/ MaskFails(s)
  PROVE  Visible(Now)'
<1>1. Now \in View
  BY DEF Inv, TypeOK
<1>2. PICK p \in {"open", "attach", "failed"}, A \in SUBSET {s} :
        Become([Now EXCEPT !.step[s] = p, !.armed = @ \ A])
  BY <1>1, LullTo
<1> DEFINE w == [Now EXCEPT !.step[s] = p, !.armed = @ \ A]
<1>3. p \in Steps /\ p \in Calm /\ p # "wire"
  BY DEF Steps, Calm, Lulls
<1>4. w \in View
  BY <1>1, <1>3 DEF View
<1>5. /\ w.state = Now.state /\ w.cont = Now.cont /\ w.box = Now.box /\ w.agent = Now.agent
      /\ w.stop = Now.stop /\ w.step = [Now.step EXCEPT ![s] = p]
  BY <1>1 DEF View
<1>6. Become(w)
  BY <1>2
<1> HIDE DEF w
<1>7. Keeps(Now, w)
  BY <1>1, <1>3, <1>5 DEF Keeps, View
<1> QED BY <1>4, <1>6, <1>7, HandlersVisible

(* A container goes, and its adapter with it.                                *)
LEMMA StopsVisible ==
  ASSUME Inv, Visible(Now), NEW s \in Session, NEW k \in StopKinds, ContainerStops(s, k)
  PROVE  Visible(Now)'
<1>1. Now \in View
  BY DEF Inv, TypeOK
<1> DEFINE b == IF k = "release" THEN "none" ELSE "stopped"
           v == [Now EXCEPT !.stop[s][k] = "down", !.box[s] = b]
<1>2. IF s \in Now.agent THEN Become(AgentGone(v, s)) ELSE Become(v)
  BY DEF ContainerStops, Now
<1>3. b \in BoxStates /\ b # "up"
  BY DEF BoxStates
<1> HIDE DEF b
<1>4. v \in View
  BY <1>1, <1>3 DEF View, StopSteps
<1>5. /\ v.state = Now.state /\ v.step = Now.step /\ v.cont = Now.cont /\ v.agent = Now.agent
      /\ v.box = [Now.box EXCEPT ![s] = b]
      /\ v.stop = [Now.stop EXCEPT ![s] = [Now.stop[s] EXCEPT ![k] = "down"]]
  BY <1>1 DEF View
<1> HIDE DEF v
<1>6. /\ \A t \in Session : t # s => v.box[t] = Now.box[t]
      /\ v.box[s] # "up"
      /\ \A t \in Session, h \in StopKinds : t # s => v.stop[t][h] = Now.stop[t][h]
  BY <1>1, <1>3, <1>5 DEF View
<1>7. CASE s \notin Now.agent
  <2>1. Visible(v)
    BY <1>1, <1>5, <1>6, <1>7 DEF Visible, View
  <2> QED
    BY <1>2, <1>4, <1>7, <2>1, BecomeVisible
<1>8. CASE s \in Now.agent
  <2> DEFINE w == AgentGone(v, s)
  <2>1. w \in View /\ Keeps(v, w) /\ s \notin w.agent
    BY <1>4, AgentGoneType, AgentGoneKeeps
  <2> HIDE DEF w
  <2>2. Visible(w)
    BY <1>1, <1>5, <1>6, <2>1 DEF Visible, Keeps, View
  <2> QED
    BY <1>2, <1>8, <2>1, <2>2, BecomeVisible DEF w
<1> QED
  BY <1>7, <1>8

(* Whatever was attached when a stop took effect is gone by the time the     *)
(* record says so.                                                           *)
LEMMA RecordedVisible ==
  ASSUME Inv, Visible(Now), NEW s \in Session,
         ReleaseRecorded(s) \/ \E k \in StopKinds : StopRecorded(s, k)
  PROVE  Visible(Now)'
<1>1. Now \in View
  BY DEF Inv, TypeOK
<1>2. PICK k \in StopKinds, p \in {"settle", "no"} :
        /\ Now.stop[s][k] = "down"
        /\ LET v == [Now EXCEPT !.stop[s][k] = p, !.cont[s] = "inactive"]
           IN  Become(v) \/ Become(Schedule(v))
  BY DEF ReleaseRecorded, StopRecorded, Now, StopKinds
<1> DEFINE v == [Now EXCEPT !.stop[s][k] = p, !.cont[s] = "inactive"]
<1>3. v \in View
  BY <1>1 DEF View, StopSteps, ContStates
<1>4. /\ v.state = Now.state /\ v.step = Now.step /\ v.agent = Now.agent /\ v.box = Now.box
      /\ v.cont = [Now.cont EXCEPT ![s] = "inactive"]
      /\ v.stop = [Now.stop EXCEPT ![s] = [Now.stop[s] EXCEPT ![k] = p]]
  BY <1>1 DEF View
<1>5. Become(v) \/ Become(Schedule(v))
  BY <1>2
<1> HIDE DEF v
<1>6. \A t \in Session, h \in StopKinds : v.stop[t][h] = "down" => Now.stop[t][h] = "down"
  BY <1>1, <1>4 DEF View
<1>7. s \notin Now.agent /\ ~(Now.step[s] = "wire" /\ Now.box[s] = "up")
  BY <1>2 DEF Visible
<1>8. Visible(v)
  BY <1>1, <1>4, <1>6, <1>7 DEF Visible, View
<1> QED
  BY <1>3, <1>5, <1>8, ScheduleType, ScheduleKeeps, KeepsVisible, BecomeVisible

LEMMA RestartVisible ==
  ASSUME Inv, Restart
  PROVE  Visible(Now)'
<1>1. PICK v \in View :
        /\ Become(Reap(Schedule(v))) /\ v.agent = {}
        /\ v.step = [s \in Session |-> "none"]
        /\ v.stop = [s \in Session |-> [k \in StopKinds |-> "no"]]
  BY Restored DEF Inv, TypeOK
<1>2. Visible(v)
  BY <1>1 DEF Visible
<1>3. Schedule(v) \in View /\ Visible(Schedule(v))
  BY <1>2, ScheduleType, ScheduleKeeps, KeepsVisible
<1>4. Reap(Schedule(v)) \in View /\ Visible(Reap(Schedule(v)))
  BY <1>3, ReapType, ReapKeeps, KeepsVisible
<1> QED BY <1>1, <1>4, BecomeVisible

LEMMA NextVisible == Inv /\ Visible(Now) /\ [Next]_vars => Visible(Now)'
<1> SUFFICES ASSUME Inv, Visible(Now), [Next]_vars
             PROVE  Visible(Now)'
  OBVIOUS
<1>1. CASE UserStep
  BY <1>1, UserVisible, DeleteVisible, PromptVisible, StopBegunVisible, SettingsVisible
     DEF UserStep
<1>2. CASE Restart
  BY <1>2, RestartVisible
<1>3. ASSUME NEW s \in Session, SystemStep(s)
      PROVE  Visible(Now)'
  BY <1>3, LaunchVisible, WiredVisible, LullVisible, TurnVisible, StopBegunVisible, StopsVisible,
     RecordedVisible DEF SystemStep
<1>4. ASSUME NEW s \in Session, Fault(s)
      PROVE  Visible(Now)'
  BY <1>4, LaunchVisible, LullVisible, ProvisionFailsVisible, TurnVisible, StopBegunVisible
     DEF Fault
<1>5. CASE UNCHANGED vars
  BY <1>5 DEF vars, Visible, Now
<1> QED BY <1>1, <1>2, <1>3, <1>4, <1>5, UserVisible DEF Next

(* For any sessions, stops, releases, deaths and restarts: a session with a  *)
(* live agent is one the scheduler sees as active (isActive), though a stop  *)
(* writes the record as stopped whatever the session has become meanwhile;   *)
(* so nothing that claims one of its clones is started beside it.            *)
THEOREM AgentsAreSeen == Spec => []AgentIsVisible
<1>1. Inv /\ Visible(Now) => AgentIsVisible
  BY DEF Visible, AgentIsVisible, Active, Now
<1> QED BY InitSafe, NextSafe, InitVisible, NextVisible, <1>1, PTL DEF Spec

(***************************************************************************)
(* StopsAtABoundary and PausedUntilAsked.  Mannered says of two views what *)
(* the properties say of a step, R being whoever stays paused.  It does not *)
(* compose, so Courteous says more of a handler: whom it stops is out of   *)
(* the line and was at a boundary, whom it sends a prompt of was not       *)
(* paused, and the others it leaves as they are.                           *)
(***************************************************************************)
Boundary == {"none", "turn", "failed"} \cup Lulls
Lining == {"queued", "starting"}

(* The first step of a waiting prompt's turn.                                *)
Sending == {"mask", "attach"}

Mannered(v, w, R) ==
  \A s \in Session :
    /\ \A k \in {"idle", "queue"} :
         v.stop[s][k] = "no" /\ w.stop[s][k] = "begun"
           => w.state[s] # "starting" /\ v.step[s] \in Boundary
    /\ s \in R /\ v.step[s] = "none" => w.step[s] \notin Sending

Courteous(v, w) ==
  /\ v.recovering \subseteq w.recovering
  /\ \A s \in Session :
       /\ v.state[s] \notin Lining => w.state[s] \notin Lining
       /\ w.state[s] = "started" => v.state[s] = "started"
       /\ w.step[s] \in Boundary => v.step[s] \in Boundary
       /\ w.stop[s]["idle"] = v.stop[s]["idle"]
       /\ v.stop[s]["queue"] = "no" /\ w.stop[s]["queue"] # "no"
            => v.step[s] \in Boundary /\ w.state[s] \notin Lining \cup {"deleted"}
       /\ w.state[s] = "deleted" <=> v.state[s] = "deleted"
       /\ w.step[s] \in Sending =>
            v.step[s] \in Sending \/ (v.state[s] = "started" /\ s \notin v.recovering)

LEMMA CourteousTransitive ==
  ASSUME NEW u, NEW v, NEW w, Courteous(u, v), Courteous(v, w)
  PROVE  Courteous(u, w)
BY DEF Courteous

LEMMA CourteousSame ==
  ASSUME NEW v, NEW w, w.state = v.state, w.step = v.step, w.stop = v.stop,
         w.recovering = v.recovering
  PROVE  Courteous(v, w)
BY DEF Courteous

LEMMA DrainCourteous ==
  ASSUME NEW v \in View, NEW S \in SUBSET Session
  PROVE  Courteous(v, Drain(v, S))
<1> DEFINE D == S \cap Drainable(v)
           w == Drain(v, S)
<1>1. /\ w.step = [s \in Session |-> IF s \in D THEN Opening("mask") ELSE v.step[s]]
      /\ w.state = v.state /\ w.stop = v.stop /\ w.recovering = v.recovering
  BY DEF Drain, BeginTurn, View
<1>2. /\ D \subseteq S
      /\ \A s \in D : v.state[s] = "started" /\ s \notin v.recovering /\ v.step[s] = "none"
  BY DEF Drainable
<1>3. Opening("mask") \in Sending
  BY Openings DEF Sending
<1> HIDE DEF w, D
<1>4. \A s \in Session : w.step[s] = IF s \in D THEN Opening("mask") ELSE v.step[s]
  BY <1>1
<1>5. Courteous(v, w)
  BY <1>1, <1>2, <1>3, <1>4 DEF Courteous, Boundary
<1> QED
  BY <1>5 DEF w

LEMMA ScheduleCourteous ==
  ASSUME NEW v \in View
  PROVE  Courteous(v, Schedule(v))
<1> DEFINE A == Admitted(v)
           u == StartAll(v, A)
<1>1. A \in SUBSET Session /\ \A s \in A : v.state[s] = "queued"
  BY DEF Admitted, Startable, Waiting
<1> HIDE DEF A
<1>2. u \in View
  BY <1>1, StartAllType
<1>3. /\ u.state = [s \in Session |-> IF s \in A THEN "starting" ELSE v.state[s]]
      /\ u.step = [s \in Session |-> IF s \in A THEN "resolve" ELSE v.step[s]]
      /\ u.stop = v.stop /\ u.recovering = v.recovering
  BY DEF StartAll, Unqueue, View
<1> HIDE DEF u
<1>4. Courteous(v, u)
  BY <1>1, <1>3 DEF Courteous, Boundary, Lulls, Lining, Sending
<1>5. Courteous(u, Drain(u, Session))
  BY <1>2, DrainCourteous
<1> QED
  BY <1>4, <1>5, CourteousTransitive DEF Schedule, u, A

LEMMA ScheduleStops ==
  ASSUME NEW v \in View
  PROVE  Schedule(v).stop = v.stop
<1> DEFINE A == Admitted(v)
           u == StartAll(v, A)
<1>1. A \in SUBSET Session
  BY DEF Admitted, Startable, Waiting
<1> HIDE DEF A
<1>2. u \in View /\ u.stop = v.stop
  <2>1. u \in View
    BY <1>1, StartAllType
  <2>2. u.stop = v.stop
    BY DEF StartAll, Unqueue, View
  <2> QED BY <2>1, <2>2
<1> HIDE DEF u
<1>3. Drain(u, Session).stop = u.stop
  BY <1>2 DEF Drain, BeginTurn, View
<1> QED
  BY <1>2, <1>3 DEF Schedule, u, A

LEMMA ScheduleFits ==
  ASSUME NEW v \in View, StepsFit(v)
  PROVE  StepsFit(Schedule(v))
<1> DEFINE A == Admitted(v)
           u == StartAll(v, A)
<1>1. A \in SUBSET Session
  BY DEF Admitted, Startable, Waiting
<1> HIDE DEF A
<1>2. u \in View
  BY <1>1, StartAllType
<1>3. /\ u.state = [s \in Session |-> IF s \in A THEN "starting" ELSE v.state[s]]
      /\ u.step = [s \in Session |-> IF s \in A THEN "resolve" ELSE v.step[s]]
  BY DEF StartAll, Unqueue, View
<1> HIDE DEF u
<1>4. StepsFit(u)
  BY <1>3 DEF StepsFit
<1> DEFINE w == Drain(u, Session)
<1>5. /\ w.state = u.state
      /\ \A s \in Session : w.step[s] = u.step[s] \/ u.state[s] = "started"
  BY <1>2 DEF Drain, BeginTurn, Drainable, View
<1> HIDE DEF w
<1>6. StepsFit(w)
  BY <1>4, <1>5 DEF StepsFit
<1> QED
  BY <1>6 DEF Schedule, w, u, A

LEMMA ReapCourteous ==
  ASSUME NEW v \in View, StepsFit(v)
  PROVE  Courteous(v, Reap(v))
<1> DEFINE B == {s \in BlockingQueue(v) : v.stop[s]["queue"] = "no"}
           w == Reap(v)
<1>1. /\ w.stop = [s \in Session |-> IF s \in B THEN [v.stop[s] EXCEPT !["queue"] = "begun"]
                                     ELSE v.stop[s]]
      /\ w.state = v.state /\ w.step = v.step /\ w.recovering = v.recovering
  BY DEF Reap, BeginStop, View
<1>2. \A s \in Session : v.stop[s] \in [StopKinds -> StopSteps]
  BY DEF View
<1>3. \A s \in B : /\ v.state[s] \notin Lining /\ v.step[s] \in Boundary
                   /\ v.state[s] # "deleted"
  BY DEF BlockingQueue, Idle, Busy, Exists, Lining, StepsFit, Boundary
<1>4. \A s \in Session :
        /\ w.stop[s]["idle"] = v.stop[s]["idle"]
        /\ s \notin B => w.stop[s]["queue"] = v.stop[s]["queue"]
  BY <1>1, <1>2 DEF StopKinds
<1> HIDE DEF w, B
<1> QED
  BY <1>1, <1>3, <1>4 DEF Courteous, w

LEMMA NoteIdleCourteous ==
  ASSUME NEW v \in View, NEW s \in Session, StepsFit(v)
  PROVE  Courteous(v, NoteIdle(v, s))
<1> DEFINE a == [v EXCEPT !.armed = @ \cup {s}]
<1>1. /\ a \in View /\ a.state = v.state /\ a.step = v.step /\ a.stop = v.stop
      /\ a.recovering = v.recovering
  BY DEF View
<1> HIDE DEF a
<1>2. Courteous(v, a) /\ StepsFit(a)
  BY <1>1, CourteousSame DEF StepsFit
<1> QED
  BY <1>1, <1>2, ReapCourteous, CourteousTransitive DEF NoteIdle, a

LEMMA AgentGoneCourteous ==
  ASSUME NEW v \in View, NEW s \in Session, StepsFit(v)
  PROVE  Courteous(v, AgentGone(v, s))
<1> DEFINE p == IF v.step[s] = "turn" THEN "none" ELSE v.step[s]
           u == [v EXCEPT !.agent = @ \ {s},
                          !.step[s] = IF v.step[s] = "turn" THEN "none" ELSE @]
           w == NoteIdle(u, s)
           f == [w EXCEPT !.step[s] = "failed"]
<1>1. u \in View
  BY DEF View, Steps
<1>2. /\ u.state = v.state /\ u.stop = v.stop /\ u.recovering = v.recovering
      /\ u.step = [v.step EXCEPT ![s] = p]
  BY DEF View
<1> HIDE DEF u
<1>3. Courteous(v, u) /\ StepsFit(u)
  BY <1>2 DEF Courteous, Boundary, Sending, StepsFit, View
<1>4. w \in View /\ Courteous(u, w) /\ w.step = u.step
  <2>1. w \in View /\ Courteous(u, w)
    BY <1>1, <1>3, NoteIdleType, NoteIdleCourteous
  <2>2. w.step = u.step
    BY <1>1, NoteIdleCore DEF Core
  <2> QED BY <2>1, <2>2
<1> HIDE DEF w
<1>5. Courteous(v, w)
  BY <1>3, <1>4, CourteousTransitive
<1>6. CASE v.step[s] = "turn"
  <2>1. /\ f.state = w.state /\ f.stop = w.stop /\ f.recovering = w.recovering
        /\ f.step = [w.step EXCEPT ![s] = "failed"]
    BY <1>4 DEF View
  <2> HIDE DEF f
  <2>2. Courteous(w, f)
    BY <1>2, <1>4, <1>6, <2>1 DEF Courteous, Boundary, Sending, View
  <2> QED BY <1>5, <1>6, <2>2, CourteousTransitive DEF AgentGone, f, w, u
<1>7. CASE v.step[s] # "turn"
  BY <1>5, <1>7 DEF AgentGone, w, u
<1> QED BY <1>6, <1>7

(* From a handler to the step it is part of: u is the state as the action    *)
(* has it when the handler begins.                                           *)
Before(v, u, R) ==
  \A s \in Session :
    /\ u.step[s] \in Boundary => v.step[s] \in Boundary \/ u.state[s] = "deleted"
    /\ v.stop[s]["idle"] = "no" => u.stop[s]["idle"] = "no"
    /\ v.stop[s]["queue"] = "no" => u.stop[s]["queue"] = "no"
    /\ u.step[s] \in Sending => v.step[s] \in Sending
    /\ s \in R => s \in u.recovering \/ u.state[s] # "started"

LEMMA CourteousMannered ==
  ASSUME NEW v, NEW u, NEW w, NEW R, Before(v, u, R), Courteous(u, w)
  PROVE  Mannered(v, w, R)
<1> SUFFICES ASSUME NEW s \in Session
             PROVE  /\ \A k \in {"idle", "queue"} :
                         v.stop[s][k] = "no" /\ w.stop[s][k] = "begun"
                           => w.state[s] # "starting" /\ v.step[s] \in Boundary
                    /\ s \in R /\ v.step[s] = "none" => w.step[s] \notin Sending
  BY DEF Mannered
<1>1. v.stop[s]["idle"] = "no" => w.stop[s]["idle"] = "no"
  BY DEF Before, Courteous
<1>2. v.stop[s]["queue"] = "no" /\ w.stop[s]["queue"] = "begun"
        => w.state[s] # "starting" /\ v.step[s] \in Boundary
  BY DEF Before, Courteous, Lining
<1>3. s \in R /\ v.step[s] = "none" => w.step[s] \notin Sending
  BY DEF Before, Courteous, Sending
<1> QED BY <1>1, <1>2, <1>3

LEMMA TurnOverMannered ==
  ASSUME NEW v \in View, NEW s \in Session, NEW next, next = "limited" => s \in Limitable,
         StepsFit(v), v.step[s] \in {"turn", "failed"}
  PROVE  Mannered(v, TurnOver(v, s, next), v.recovering)
<1> DEFINE u == [v EXCEPT !.step[s] = "none"]
           w == NoteIdle(u, s)
<1>1. u \in View
  BY DEF View, Steps
<1>2. /\ u.state = v.state /\ u.stop = v.stop /\ u.recovering = v.recovering
      /\ u.step = [v.step EXCEPT ![s] = "none"]
  BY DEF View
<1> HIDE DEF u
<1>3. Before(v, u, v.recovering) /\ StepsFit(u)
  BY <1>2 DEF Before, Boundary, Sending, StepsFit, View
<1>4. w \in View /\ Courteous(u, w)
  BY <1>1, <1>3, NoteIdleType, NoteIdleCourteous
<1> HIDE DEF w
<1>5. CASE next = "nudge"
  <2> DEFINE t == BeginTurn([w EXCEPT !.nudging = @ \cup {s}], {s}, "open")
  <2>1. /\ t.state = w.state /\ t.stop = w.stop
        /\ \A r \in Session : t.step[r] = IF r = s THEN Opening("open") ELSE w.step[r]
    BY <1>4 DEF BeginTurn, View
  <2> HIDE DEF t
  <2>2. Mannered(v, w, v.recovering)
    BY <1>3, <1>4, CourteousMannered
  <2>3. Mannered(v, t, v.recovering)
    BY <2>1, <2>2 DEF Mannered
  <2> QED BY <1>5, <2>3 DEF TurnOver, t, w, u
<1>6. CASE next = "limited"
  <2> DEFINE l == [w EXCEPT !.held = @ \cup {s}, !.nudging = @ \ {s},
                            !.pend[s] = IF @ = 0 THEN 1 ELSE @]
  <2>1. [w.pend EXCEPT ![s] = IF @ = 0 THEN 1 ELSE @] \in [Session -> 0..MaxPend]
    BY <1>4, ViewAssumption DEF View
  <2>2. /\ l \in View /\ l.state = w.state /\ l.step = w.step /\ l.stop = w.stop
        /\ l.recovering = w.recovering
    BY <1>4, <1>6, <2>1 DEF View
  <2> HIDE DEF l
  <2>3. Courteous(u, Schedule(l))
    BY <1>4, <2>2, CourteousSame, ScheduleCourteous, CourteousTransitive
  <2>4. Mannered(v, Schedule(l), v.recovering)
    BY <1>3, <2>3, CourteousMannered
  <2> QED BY <1>6, <2>4 DEF TurnOver, l, w, u
<1>7. CASE next \notin {"nudge", "limited"}
  <2> DEFINE d == [w EXCEPT !.nudging = @ \ {s}]
  <2>1. /\ d \in View /\ d.state = w.state /\ d.step = w.step /\ d.stop = w.stop
        /\ d.recovering = w.recovering
    BY <1>4 DEF View
  <2> HIDE DEF d
  <2>2. Courteous(u, Drain(d, {s}))
    BY <1>4, <2>1, CourteousSame, DrainCourteous, CourteousTransitive
  <2>3. Mannered(v, Drain(d, {s}), v.recovering)
    BY <1>3, <2>2, CourteousMannered
  <2> QED BY <1>7, <2>3 DEF TurnOver, d, w, u
<1> QED
  BY <1>5, <1>6, <1>7

(* The actions.                                                              *)
AtBoundary ==
  \A s \in Session, k \in {"idle", "queue"} :
    stop[s][k] = "no" /\ stop'[s][k] = "begun"
      => /\ state'[s] # "starting"
         /\ step[s] \in {"none", "turn", "failed"} \cup Lulls \/ restarts' # restarts

StillPaused ==
  \A s \in recovering :
    step[s] = "none" /\ step'[s] \in {"mask", "attach"}
      => Prompt(s) \/ ResumeInterrupted(s)

LEMMA BecomeMannered ==
  ASSUME Now \in View, NEW w \in View, NEW R, Mannered(Now, w, R), Become(w),
         \A s \in recovering \ R : Prompt(s) \/ ResumeInterrupted(s)
  PROVE  AtBoundary /\ StillPaused
<1>1. /\ Now.stop = stop /\ Now.step = step /\ Now.recovering = recovering
      /\ stop' = w.stop /\ step' = w.step /\ state' = w.state /\ recovering \subseteq Session
  BY DEF Become, Now, View
<1> QED
  BY <1>1 DEF Mannered, AtBoundary, StillPaused, Boundary, Sending

LEMMA BecomeCourteous ==
  ASSUME Now \in View, NEW u, NEW w \in View, Before(Now, u, recovering), Courteous(u, w),
         Become(w)
  PROVE  AtBoundary /\ StillPaused
BY CourteousMannered, BecomeMannered

LEMMA UnderWay == Inv => Now \in View /\ StepsFit(Now)
BY DEF Inv, TypeOK, Safe

LEMMA UserMannered ==
  ASSUME Inv, NEW s \in Session,
         CreateSession(s) \/ Enqueue(s) \/ CancelQueue(s) \/ Run(s)
  PROVE  AtBoundary /\ StillPaused
<1>1. /\ Now \in View /\ StepsFit(Now) /\ Now.state[s] \in {"absent", "draft", "queued"}
      /\ Now.recovering = recovering
  BY UnderWay DEF CreateSession, Enqueue, CancelQueue, Run, Now
<1>2. Now.step[s] = "none"
  BY <1>1 DEF StepsFit
<1>3. ASSUME NEW u \in View, NEW q \in {"draft", "queued"},
             u.state = [Now.state EXCEPT ![s] = q], u.step = Now.step,
             u.stop = Now.stop, u.recovering = Now.recovering
      PROVE  Before(Now, u, recovering) /\ StepsFit(u)
  BY <1>1, <1>2, <1>3 DEF Before, StepsFit, View
<1>4. CASE CreateSession(s) \/ CancelQueue(s)
  <2> DEFINE v == [Now EXCEPT !.state[s] = "draft"]
             u == Unqueue(Now, {s})
             c == [u EXCEPT !.state[s] = "draft"]
  <2>1. Become(NoteIdle(v, s)) \/ Become(NoteIdle(c, s))
    BY <1>4 DEF CreateSession, CancelQueue
  <2>2. /\ v \in View /\ v.state = [Now.state EXCEPT ![s] = "draft"]
        /\ v.step = Now.step /\ v.stop = Now.stop /\ v.recovering = Now.recovering
    BY <1>1 DEF View, SessionStates
  <2>3. c \in View
    <3>1. u \in View
      BY <1>1, UnqueueType
    <3> HIDE DEF u
    <3> QED BY <3>1 DEF View, SessionStates
  <2>4. /\ c.state = [Now.state EXCEPT ![s] = "draft"]
        /\ c.step = Now.step /\ c.stop = Now.stop /\ c.recovering = Now.recovering
    BY <1>1 DEF Unqueue, View
  <2> HIDE DEF v, c
  <2>5. ASSUME NEW w \in {v, c}, Become(NoteIdle(w, s))
        PROVE  AtBoundary /\ StillPaused
    <3>1. w \in View /\ Before(Now, w, recovering) /\ StepsFit(w)
      BY <1>3, <2>2, <2>3, <2>4
    <3> QED
      BY <1>1, <2>5, <3>1, NoteIdleType, NoteIdleCourteous, BecomeCourteous
  <2> QED
    BY <2>1, <2>5
<1>5. CASE Become(Enqueued(Now, s))
  <2> DEFINE behind == {<<t, s>> : t \in {t \in Session \ {s} : Now.state[t] = "queued"}}
             u == Unqueue(Now, {s})
             q == [u EXCEPT !.state[s] = "queued", !.before = @ \cup behind]
             r == Reap(q)
  <2>1. u \in View /\ behind \in SUBSET (Session \X Session)
    BY <1>1, UnqueueType
  <2>2. q \in View
    <3> HIDE DEF u, behind
    <3> QED BY <2>1 DEF View, SessionStates
  <2>3. /\ q.state = [Now.state EXCEPT ![s] = "queued"]
        /\ q.step = Now.step /\ q.stop = Now.stop /\ q.recovering = Now.recovering
    BY <1>1 DEF Unqueue, View
  <2>4. Become(Schedule(r))
    BY <1>5 DEF Enqueued
  <2> HIDE DEF q
  <2>5. Before(Now, q, recovering) /\ StepsFit(q)
    BY <1>3, <2>2, <2>3
  <2>6. r \in View /\ Courteous(q, r)
    BY <2>2, <2>5, ReapType, ReapCourteous
  <2> HIDE DEF r
  <2>7. Schedule(r) \in View /\ Courteous(q, Schedule(r))
    BY <2>6, ScheduleType, ScheduleCourteous, CourteousTransitive
  <2> QED
    BY <1>1, <2>4, <2>5, <2>7, BecomeCourteous
<1>6. CASE Run(s)
  <2> DEFINE v == [Now EXCEPT !.armed = @ \ {s}]
  <2>1. \/ Become(Enqueued(Now, s)) \/ Become(FailedStart(v, s)) \/ Become(StartAll(v, {s}))
    BY <1>6 DEF Run
  <2>2. /\ v \in View /\ v.state = Now.state /\ v.step = Now.step /\ v.stop = Now.stop
        /\ v.recovering = Now.recovering
    BY <1>1 DEF View
  <2> HIDE DEF v
  <2>3. CASE Become(FailedStart(v, s))
    <3> DEFINE u == Unqueue(v, {s})
               w == [u EXCEPT !.state[s] = "draft", !.step[s] = "none"]
               n == NoteIdle(w, s)
    <3>1. u \in View
      BY <2>2, UnqueueType
    <3>2. w \in View
      <4> HIDE DEF u
      <4> QED BY <3>1 DEF View, SessionStates, Steps
    <3>3. /\ w.state = [v.state EXCEPT ![s] = "draft"]
          /\ w.step = [v.step EXCEPT ![s] = "none"]
          /\ w.stop = v.stop /\ w.recovering = v.recovering
      BY <2>2 DEF Unqueue, View
    <3>4. Become(Schedule(n))
      BY <2>3 DEF FailedStart
    <3> HIDE DEF w
    <3>5. w.step = Now.step
      BY <1>1, <1>2, <2>2, <3>3 DEF View
    <3>6. Before(Now, w, recovering) /\ StepsFit(w)
      BY <1>3, <2>2, <3>2, <3>3, <3>5
    <3>7. n \in View /\ Courteous(w, n)
      BY <3>2, <3>6, NoteIdleType, NoteIdleCourteous
    <3> HIDE DEF n
    <3>8. Schedule(n) \in View /\ Courteous(w, Schedule(n))
      BY <3>7, ScheduleType, ScheduleCourteous, CourteousTransitive
    <3> QED
      BY <1>1, <3>4, <3>6, <3>8, BecomeCourteous
  <2>4. CASE Become(StartAll(v, {s}))
    <3> DEFINE w == StartAll(v, {s})
    <3>1. /\ w.step = [t \in Session |-> IF t \in {s} THEN "resolve" ELSE v.step[t]]
          /\ w.stop = v.stop
      BY <2>2 DEF StartAll, Unqueue, View
    <3>2. w \in View
      BY <2>2, StartAllType
    <3> HIDE DEF w
    <3>3. Mannered(Now, w, recovering)
      BY <2>2, <3>1 DEF Mannered, Sending
    <3> QED
      BY <1>1, <2>4, <3>2, <3>3, BecomeMannered DEF w
  <2> QED
    BY <1>5, <2>1, <2>3, <2>4
<1> QED
  BY <1>4, <1>5, <1>6 DEF Enqueue

LEMMA DeleteMannered ==
  ASSUME Inv, NEW s \in Session, DeleteSession(s)
  PROVE  AtBoundary /\ StillPaused
<1> DEFINE none == [k \in StopKinds |-> "no"]
           u == Unqueue(Now, {s})
           g == [u EXCEPT
                   !.state[s] = "deleted", !.cont[s] = "inactive",
                   !.box[s] = "none", !.step[s] = "none", !.agent = @ \ {s},
                   !.pend[s] = 0, !.nudging = @ \ {s},
                   !.recovering = @ \ {s}, !.held = @ \ {s},
                   !.armed = @ \ {s}, !.stop[s] = none]
<1>1. Now \in View /\ StepsFit(Now)
  BY UnderWay
<1>2. u \in View
  BY <1>1, UnqueueType
<1>3. g \in View
  <2> DEFINE pends == [u.pend EXCEPT ![s] = 0]
             stops == [u.stop EXCEPT ![s] = none]
  <2>1. none \in [StopKinds -> StopSteps]
    BY DEF StopSteps
  <2> HIDE DEF u, none
  <2>2. g = [u EXCEPT
               !.state[s] = "deleted", !.cont[s] = "inactive",
               !.box[s] = "none", !.step[s] = "none", !.agent = @ \ {s},
               !.pend = pends, !.nudging = @ \ {s},
               !.recovering = @ \ {s}, !.held = @ \ {s},
               !.armed = @ \ {s}, !.stop = stops]
    BY <1>2 DEF View
  <2> HIDE DEF g
  <2>3. pends \in [Session -> 0..MaxPend]
    BY <1>2, ViewAssumption DEF View
  <2>4. stops \in [Session -> [StopKinds -> StopSteps]]
    BY <1>2, <2>1 DEF View
  <2> HIDE DEF pends, stops
  <2> QED
    BY <1>2, <2>2, <2>3, <2>4, ZenonT(40) DEF View, SessionStates, ContStates, BoxStates, Steps
<1>4. Become(Reap(Schedule(g))) \/ Become(Schedule(g))
  BY DEF DeleteSession
<1>5. /\ g.state = [Now.state EXCEPT ![s] = "deleted"]
      /\ g.step = [Now.step EXCEPT ![s] = "none"]
      /\ g.stop = [Now.stop EXCEPT ![s] = none] /\ g.recovering = Now.recovering \ {s}
  BY <1>1 DEF Unqueue, View
<1> HIDE DEF g
<1>6. \A t \in Session :
        /\ g.state[t] = IF t = s THEN "deleted" ELSE Now.state[t]
        /\ g.step[t] = IF t = s THEN "none" ELSE Now.step[t]
        /\ t # s => g.stop[t] = Now.stop[t]
        /\ \A k \in StopKinds : g.stop[s][k] = "no"
  BY <1>1, <1>5 DEF View
<1>7. Before(Now, g, recovering)
  BY <1>5, <1>6 DEF Before, Now, StopKinds, Sending
<1>8. StepsFit(g)
  BY <1>1, <1>6 DEF StepsFit
<1> DEFINE c == Schedule(g)
<1>9. c \in View /\ Courteous(g, c) /\ StepsFit(c)
  BY <1>3, <1>8, ScheduleType, ScheduleCourteous, ScheduleFits
<1> HIDE DEF c
<1>10. Reap(c) \in View /\ Courteous(g, Reap(c))
  BY <1>9, ReapType, ReapCourteous, CourteousTransitive
<1> QED
  BY <1>1, <1>4, <1>7, <1>9, <1>10, BecomeCourteous DEF c

LEMMA PromptMannered ==
  ASSUME Inv, NEW s \in Session,
         Prompt(s) \/ ClearPending(s) \/ ResumeInterrupted(s)
  PROVE  AtBoundary /\ StillPaused
<1>1. Now \in View /\ StepsFit(Now) /\ Now.recovering = recovering
  BY UnderWay DEF Now
<1>2. CASE Prompt(s) \/ ResumeInterrupted(s)
  <2>1. PICK n \in 0..MaxPend :
          LET w == Drain([Now EXCEPT !.pend[s] = n, !.recovering = @ \ {s}], {s})
          IN  Become(w) \/ Become(Reap(w))
    <3>1. CASE Prompt(s)
      <4>1. PICK n \in {pend[s], pend[s] + 1} \cap 1..MaxPend :
              LET w == Drain([Now EXCEPT !.pend[s] = n, !.recovering = @ \ {s}], {s})
              IN  Become(IF w.pend[s] > 0 THEN Reap(w) ELSE w)
        BY <3>1 DEF Prompt
      <4>2. n \in 0..MaxPend
        BY <4>1
      <4> QED BY <4>1, <4>2
    <3>2. CASE ResumeInterrupted(s)
      BY <3>2 DEF ResumeInterrupted
    <3> QED BY <1>2, <3>1, <3>2
  <2> DEFINE v == [Now EXCEPT !.pend[s] = n, !.recovering = @ \ {s}]
             d == Drain(v, {s})
             R == recovering \ {s}
  <2>2. [Now.pend EXCEPT ![s] = n] \in [Session -> 0..MaxPend]
    BY <1>1 DEF View
  <2>3. /\ v \in View /\ v.state = Now.state /\ v.step = Now.step /\ v.stop = Now.stop
        /\ v.recovering = R
    BY <1>1, <2>2 DEF View
  <2>4. Become(d) \/ Become(Reap(d))
    BY <2>1
  <2>5. \A t \in recovering \ R : Prompt(t) \/ ResumeInterrupted(t)
    BY <1>2
  <2> HIDE DEF v, R
  <2>6. Before(Now, v, R)
    BY <2>3 DEF Before
  <2>7. d \in View /\ Courteous(v, d) /\ StepsFit(d)
    <3>1. d \in View /\ Courteous(v, d)
      BY <2>3, DrainType, DrainCourteous
    <3>2. /\ d.state = v.state
          /\ \A t \in Session : d.step[t] = v.step[t] \/ v.state[t] = "started"
      BY <2>3 DEF Drain, BeginTurn, Drainable, View
    <3> HIDE DEF d
    <3> QED BY <1>1, <2>3, <3>1, <3>2 DEF StepsFit
  <2> HIDE DEF d
  <2>8. Reap(d) \in View /\ Courteous(v, Reap(d))
    BY <2>7, ReapType, ReapCourteous, CourteousTransitive
  <2>9. Mannered(Now, d, R) /\ Mannered(Now, Reap(d), R)
    BY <2>6, <2>7, <2>8, CourteousMannered
  <2> QED
    BY <1>1, <2>4, <2>5, <2>7, <2>8, <2>9, BecomeMannered
<1>3. CASE ClearPending(s)
  <2>1. step' = step /\ stop' = stop
    BY <1>1, <1>3 DEF ClearPending, Become, View, Now
  <2> QED BY <2>1 DEF AtBoundary, StillPaused
<1> QED BY <1>2, <1>3

(* A view that differs from the state in stops that are over, and in what    *)
(* neither property speaks of, and what its handlers leave.                  *)
LEMMA StoppedMannered ==
  ASSUME Inv, NEW v \in View, NEW s \in Session,
         v.state = Now.state, v.step = Now.step, v.recovering = Now.recovering,
         \A t \in Session, k \in {"idle", "queue"} :
           Now.stop[t][k] = "no" => v.stop[t][k] = "no",
         Become(v) \/ Become(Schedule(v)) \/ Become(AgentGone(v, s))
  PROVE  AtBoundary /\ StillPaused
<1>1. Now \in View /\ StepsFit(Now) /\ Now.recovering = recovering
  BY UnderWay DEF Now
<1>2. Before(Now, v, recovering) /\ StepsFit(v) /\ Courteous(v, v)
  BY <1>1 DEF Before, StepsFit, Courteous
<1>3. Schedule(v) \in View /\ Courteous(v, Schedule(v))
  BY ScheduleType, ScheduleCourteous
<1>4. AgentGone(v, s) \in View /\ Courteous(v, AgentGone(v, s))
  BY <1>2, AgentGoneType, AgentGoneCourteous
<1> QED
  BY <1>1, <1>2, <1>3, <1>4, BecomeCourteous

LEMMA SettingsMannered ==
  ASSUME Inv,
         (\E n \in Caps : SetTaskCap(n)) \/ (\E H \in SUBSET Limitable : LimitsChange(H))
  PROVE  AtBoundary /\ StillPaused
<1>1. Now \in View
  BY UnderWay
<1>2. ASSUME NEW v \in View, v.state = Now.state, v.step = Now.step, v.stop = Now.stop,
             v.recovering = Now.recovering, Become(Schedule(v))
      PROVE  AtBoundary /\ StillPaused
  <2>1. /\ Schedule(v) \in View /\ Courteous(v, Schedule(v))
    BY <1>2, ScheduleType, ScheduleCourteous
  <2>2. Before(Now, v, recovering)
    BY <1>2 DEF Before, Now
  <2> QED
    BY <1>1, <1>2, <2>1, <2>2, BecomeCourteous
<1>3. ASSUME NEW n \in Caps, SetTaskCap(n)
      PROVE  AtBoundary /\ StillPaused
  <2> DEFINE v == [Now EXCEPT !.cap = n]
  <2>1. /\ v \in View /\ v.state = Now.state /\ v.step = Now.step /\ v.stop = Now.stop
        /\ v.recovering = Now.recovering
    BY <1>1 DEF View
  <2>2. Become(Schedule(v))
    BY <1>3 DEF SetTaskCap
  <2> HIDE DEF v
  <2> QED BY <1>2, <2>1, <2>2
<1>4. ASSUME NEW H \in SUBSET Limitable, LimitsChange(H)
      PROVE  AtBoundary /\ StillPaused
  <2> DEFINE v == [Now EXCEPT !.held = H]
  <2>1. /\ v \in View /\ v.state = Now.state /\ v.step = Now.step /\ v.stop = Now.stop
        /\ v.recovering = Now.recovering
    BY <1>1 DEF View
  <2>2. Become(Schedule(v))
    BY <1>4 DEF LimitsChange
  <2> HIDE DEF v
  <2> QED BY <1>2, <2>1, <2>2
<1> QED BY <1>3, <1>4

LEMMA LaunchMannered ==
  ASSUME Inv, NEW s \in Session,
         \/ Attach(s) \/ ResolveFails(s) \/ WireFails(s) \/ Resolve(s) \/ Provisioned(s)
         \/ ProvisionFails(s) \/ Wired(s)
  PROVE  AtBoundary /\ StillPaused
<1>1. /\ Now \in View /\ StepsFit(Now) /\ Now.recovering = recovering
      /\ step \in [Session -> Steps] /\ stop \in [Session -> [StopKinds -> StopSteps]]
  BY UnderWay DEF Now, View
<1>2. CASE Attach(s) \/ ResolveFails(s) \/ WireFails(s) \/ Resolve(s) \/ Provisioned(s)
  <2>1. PICK p \in {"turn", "failed", "resolve", "wire", "provision"} :
          step' = [step EXCEPT ![s] = p] /\ stop' = stop
    BY <1>2 DEF Attach, ResolveFails, WireFails, Resolve, Provisioned
  <2> QED
    BY <1>1, <2>1 DEF AtBoundary, StillPaused, Now, View
<1>3. CASE ProvisionFails(s)
  <2>1. PICK b \in {box[s], "none", "up"} :
          Become(Schedule([Now EXCEPT !.step[s] = "failed",
                                      !.cont[s] = "inactive", !.box[s] = b]))
    BY <1>3 DEF ProvisionFails
  <2> DEFINE w == [Now EXCEPT !.step[s] = "failed", !.cont[s] = "inactive", !.box[s] = b]
  <2>2. b \in BoxStates /\ "failed" \in Steps /\ "inactive" \in ContStates
    BY <1>1 DEF Now, View, BoxStates, Steps, ContStates
  <2>3. w \in View
    BY <1>1, <2>2 DEF View
  <2>4. /\ w.state = Now.state /\ w.stop = Now.stop /\ w.recovering = Now.recovering
        /\ \A t \in Session : w.step[t] = IF t = s THEN "failed" ELSE Now.step[t]
    BY <1>1 DEF View
  <2>5. Become(Schedule(w))
    BY <2>1
  <2> HIDE DEF w
  <2> DEFINE x == Schedule(w)
  <2>6. x \in View /\ Courteous(w, x) /\ x.stop = w.stop
    BY <2>3, ScheduleType, ScheduleCourteous, ScheduleStops
  <2> HIDE DEF x
  <2>7. Mannered(Now, x, recovering)
    BY <1>1, <2>4, <2>6 DEF Mannered, Courteous, Sending, Now
  <2> QED
    BY <1>1, <2>5, <2>6, <2>7, BecomeMannered DEF x
<1>4. CASE Wired(s)
  <2>1. PICK p \in Steps : step' = [step EXCEPT ![s] = p] /\ stop' = stop
    BY <1>1, <1>4, WiredTo DEF Become, Now, View, Steps, Lulls
  <2>2. step[s] = "wire"
    BY <1>4 DEF Wired
  <2> QED
    BY <1>1, <2>1, <2>2 DEF AtBoundary, StillPaused, Now, View
<1> QED BY <1>2, <1>3, <1>4

LEMMA LullMannered ==
  ASSUME Inv, NEW s \in Session, ConfigApplied(s) \/ Masked(s) \/ MaskFails(s)
  PROVE  AtBoundary /\ StillPaused
<1>1. /\ Now \in View /\ step \in [Session -> Steps] /\ recovering \subseteq Session
      /\ stop \in [Session -> [StopKinds -> StopSteps]]
  BY UnderWay DEF Now, View
<1>2. PICK p \in {"open", "attach", "failed"} : step' = [step EXCEPT ![s] = p] /\ stop' = stop
  BY <1>1, LullTo DEF Become, Now, View
<1>3. step[s] # "none"
  BY <1>1, LullTo DEF Lulls
<1> QED
  BY <1>1, <1>2, <1>3 DEF AtBoundary, StillPaused

LEMMA TurnMannered ==
  ASSUME Inv, NEW s \in Session, TurnEnds(s) \/ Fails(s) \/ AgentExits(s)
  PROVE  AtBoundary /\ StillPaused
<1>1. Now \in View /\ StepsFit(Now) /\ Now.recovering = recovering /\ Now.step = step
  BY UnderWay DEF Now
<1>2. ASSUME NEW next, next = "limited" => s \in Limitable, Become(TurnOver(Now, s, next)),
             step[s] \in {"turn", "failed"}
      PROVE  AtBoundary /\ StillPaused
  <2>1. TurnOver(Now, s, next) \in View /\ Mannered(Now, TurnOver(Now, s, next), recovering)
    BY <1>1, <1>2, TurnOverType, TurnOverMannered
  <2> QED
    BY <1>1, <1>2, <2>1, BecomeMannered
<1>3. CASE TurnEnds(s)
  BY <1>2, <1>3 DEF TurnEnds
<1>4. CASE Become(FailedStart(Now, s)) /\ step[s] = "failed"
  <2> DEFINE u == Unqueue(Now, {s})
             w == [u EXCEPT !.state[s] = "draft", !.step[s] = "none"]
             n == NoteIdle(w, s)
  <2>1. u \in View
    BY <1>1, UnqueueType
  <2>2. w \in View
    <3> HIDE DEF u
    <3> QED BY <2>1 DEF View, SessionStates, Steps
  <2>3. /\ w.stop = Now.stop /\ w.recovering = Now.recovering
        /\ \A t \in Session : /\ w.state[t] = IF t = s THEN "draft" ELSE Now.state[t]
                              /\ w.step[t] = IF t = s THEN "none" ELSE Now.step[t]
    BY <1>1 DEF Unqueue, View
  <2>4. Become(Schedule(n))
    BY <1>4 DEF FailedStart
  <2> HIDE DEF w
  <2>5. Before(Now, w, recovering) /\ StepsFit(w)
    BY <1>1, <1>4, <2>3 DEF Before, Boundary, StepsFit, Sending
  <2>6. n \in View /\ Courteous(w, n)
    BY <2>2, <2>5, NoteIdleType, NoteIdleCourteous
  <2> HIDE DEF n
  <2>7. Schedule(n) \in View /\ Courteous(w, Schedule(n))
    BY <2>6, ScheduleType, ScheduleCourteous, CourteousTransitive
  <2> QED
    BY <1>1, <2>4, <2>5, <2>7, BecomeCourteous
<1>5. CASE Become(TurnOver(Now, s, "done")) /\ step[s] = "failed"
  BY <1>2, <1>5
<1>6. CASE AgentExits(s)
  <2>1. Become(AgentGone(Now, s))
    BY <1>6 DEF AgentExits
  <2> QED BY <1>1, <2>1, StoppedMannered
<1> QED
  BY <1>3, <1>4, <1>5, <1>6 DEF Fails

LEMMA StopMannered ==
  ASSUME Inv, NEW s \in Session,
         \/ IdleTimerFires(s) \/ UserStop(s) \/ Release(s)
         \/ \E k \in StopKinds : ContainerStops(s, k) \/ StopRecorded(s, k) \/ StopFails(s, k)
         \/ ReleaseRecorded(s) \/ HandoffSettles(s)
  PROVE  AtBoundary /\ StillPaused
<1>1. /\ Now \in View /\ StepsFit(Now) /\ Now.recovering = recovering
      /\ \A t \in Session : Now.stop[t] \in [StopKinds -> StopSteps]
  BY UnderWay DEF Now, View
<1>2. CASE IdleTimerFires(s)
  <2> DEFINE v == [Now EXCEPT !.armed = @ \ {s}]
             b == BeginStop(v, {s}, "idle")
  <2>1. /\ v \in View /\ v.state = Now.state /\ v.step = Now.step /\ v.stop = Now.stop
        /\ v.recovering = Now.recovering
    BY <1>1 DEF View
  <2>2. \/ Become(v)
        \/ Idle(v, s) /\ (Become(b) \/ Become(Reap(b)))
    BY <1>2 DEF IdleTimerFires
  <2> HIDE DEF v
  <2>3. CASE Become(v)
    BY <2>1, <2>3, StoppedMannered
  <2>4. CASE Idle(v, s) /\ (Become(b) \/ Become(Reap(b)))
    <3>1. /\ b.state = v.state /\ b.step = v.step /\ b.recovering = v.recovering
          /\ b.stop = [t \in Session |-> IF t \in {s} THEN [v.stop[t] EXCEPT !["idle"] = "begun"]
                                         ELSE v.stop[t]]
      BY <2>1 DEF BeginStop, View
    <3>2. b \in View
      BY <2>1, BeginStopType DEF StopKinds
    <3> HIDE DEF b
    <3>3. /\ v.state[s] # "starting" /\ v.step[s] \in Boundary
      BY <1>1, <2>1, <2>4 DEF Idle, Busy, StepsFit, Boundary
    <3>4. /\ \A t \in Session \ {s} : b.stop[t]["idle"] = Now.stop[t]["idle"]
          /\ \A t \in Session : b.stop[t]["queue"] = Now.stop[t]["queue"]
      BY <1>1, <2>1, <3>1 DEF StopKinds
    <3>5. Mannered(Now, b, recovering)
      BY <1>1, <2>1, <3>1, <3>3, <3>4 DEF Mannered, Sending
    <3> DEFINE x == Reap(b)
    <3>6. x \in View /\ Courteous(b, x) /\ x.state = b.state /\ x.step = b.step
      <4>1. x \in View /\ Core(x) = Core(b)
        BY <3>2, ReapType, ReapCore
      <4>2. StepsFit(b)
        BY <1>1, <2>1, <3>1 DEF StepsFit
      <4>3. Courteous(b, x)
        BY <3>2, <4>2, ReapCourteous
      <4> HIDE DEF x
      <4> QED BY <4>1, <4>3 DEF Core
    <3> HIDE DEF x
    <3>7. Mannered(Now, x, recovering)
      <4> SUFFICES ASSUME NEW t \in Session
                   PROVE  /\ \A k \in {"idle", "queue"} :
                               Now.stop[t][k] = "no" /\ x.stop[t][k] = "begun"
                                 => x.state[t] # "starting" /\ Now.step[t] \in Boundary
                          /\ t \in recovering /\ Now.step[t] = "none" => x.step[t] \notin Sending
        BY DEF Mannered
      <4>1. Now.stop[t]["idle"] = "no" /\ x.stop[t]["idle"] = "begun"
              => x.state[t] # "starting" /\ Now.step[t] \in Boundary
        BY <3>5, <3>6 DEF Mannered, Courteous
      <4>2. Now.stop[t]["queue"] = "no" /\ x.stop[t]["queue"] = "begun"
              => x.state[t] # "starting" /\ Now.step[t] \in Boundary
        BY <2>1, <3>1, <3>4, <3>6 DEF Courteous, Lining
      <4>3. t \in recovering /\ Now.step[t] = "none" => x.step[t] \notin Sending
        BY <3>5, <3>6 DEF Mannered
      <4> QED BY <4>1, <4>2, <4>3
    <3> QED
      BY <1>1, <2>4, <3>2, <3>5, <3>6, <3>7, BecomeMannered DEF x
  <2> QED BY <2>2, <2>3, <2>4
<1>3. ASSUME NEW k \in StopKinds, TakeDown(s, k), k \in {"user", "release"}
      PROVE  AtBoundary /\ StillPaused
  <2> DEFINE v == [Now EXCEPT !.stop[s][k] = "begun", !.armed = @ \ {s}]
  <2>1. /\ v \in View /\ v.state = Now.state /\ v.step = Now.step
        /\ v.recovering = Now.recovering
        /\ v.stop = [Now.stop EXCEPT ![s] = [Now.stop[s] EXCEPT ![k] = "begun"]]
    BY <1>1 DEF View, StopSteps
  <2>2. Become(v) \/ Become(AgentGone(v, s))
    BY <1>3 DEF TakeDown
  <2> HIDE DEF v
  <2>3. \A t \in Session, h \in {"idle", "queue"} : v.stop[t][h] = Now.stop[t][h]
    BY <1>1, <1>3, <2>1 DEF View, StopKinds
  <2> QED BY <2>1, <2>2, <2>3, StoppedMannered
<1>4. ASSUME NEW k \in StopKinds, NEW p \in StopSteps, NEW c \in [Session -> ContStates],
             NEW b \in [Session -> BoxStates], NEW a \in SUBSET Session,
             p = "no" \/ Now.stop[s][k] # "no",
             LET v == [Now EXCEPT !.stop[s][k] = p, !.cont = c, !.box = b, !.armed = a]
             IN  Become(v) \/ Become(Schedule(v)) \/ Become(AgentGone(v, s))
      PROVE  AtBoundary /\ StillPaused
  <2> DEFINE v == [Now EXCEPT !.stop[s][k] = p, !.cont = c, !.box = b, !.armed = a]
  <2>1. /\ v \in View /\ v.state = Now.state /\ v.step = Now.step
        /\ v.recovering = Now.recovering
        /\ v.stop = [Now.stop EXCEPT ![s] = [Now.stop[s] EXCEPT ![k] = p]]
    BY <1>1, <1>4 DEF View
  <2>2. Become(v) \/ Become(Schedule(v)) \/ Become(AgentGone(v, s))
    BY <1>4
  <2> HIDE DEF v
  <2>3. \A t \in Session, h \in {"idle", "queue"} : Now.stop[t][h] = "no" => v.stop[t][h] = "no"
    BY <1>1, <1>4, <2>1 DEF View, StopKinds
  <2> QED BY <2>1, <2>2, <2>3, StoppedMannered
<1>5. /\ Now.cont \in [Session -> ContStates] /\ Now.box \in [Session -> BoxStates]
      /\ Now.armed \in SUBSET Session /\ Now.stop = stop
      /\ "inactive" \in ContStates /\ "none" \in BoxStates /\ "stopped" \in BoxStates
      /\ \A p \in {"no", "down", "settle"} : p \in StopSteps
      /\ \A k \in {"idle", "queue", "user", "release"} : k \in StopKinds
  BY <1>1 DEF View, Now, ContStates, BoxStates, StopSteps, StopKinds
<1>6. ASSUME NEW k \in StopKinds, ContainerStops(s, k)
      PROVE  AtBoundary /\ StillPaused
  <2> DEFINE x == IF k = "release" THEN "none" ELSE "stopped"
             b == [Now.box EXCEPT ![s] = x]
             v == [Now EXCEPT !.stop[s][k] = "down", !.box[s] = x]
             w == [Now EXCEPT !.stop[s][k] = "down", !.cont = Now.cont, !.box = b,
                              !.armed = Now.armed]
  <2>1. Become(v) \/ Become(AgentGone(v, s))
    BY <1>6 DEF ContainerStops
  <2>2. v = w
    BY <1>1 DEF View
  <2>3. Become(w) \/ Become(AgentGone(w, s))
    BY <2>1, <2>2
  <2>4. b \in [Session -> BoxStates] /\ Now.stop[s][k] # "no"
    BY <1>5, <1>6 DEF ContainerStops
  <2> HIDE DEF b
  <2> QED BY <1>4, <1>5, <2>3, <2>4
<1>7. ASSUME NEW k \in StopKinds, StopRecorded(s, k) \/ (k = "release" /\ ReleaseRecorded(s))
      PROVE  AtBoundary /\ StillPaused
  <2> DEFINE c == [Now.cont EXCEPT ![s] = "inactive"]
  <2>1. PICK p \in {"no", "settle"} :
          LET v == [Now EXCEPT !.stop[s][k] = p, !.cont[s] = "inactive"]
          IN  Become(v) \/ Become(Schedule(v))
    BY <1>7 DEF StopRecorded, ReleaseRecorded
  <2> DEFINE v == [Now EXCEPT !.stop[s][k] = p, !.cont[s] = "inactive"]
             w == [Now EXCEPT !.stop[s][k] = p, !.cont = c, !.box = Now.box,
                              !.armed = Now.armed]
  <2>2. v = w
    BY <1>1 DEF View
  <2>3. Become(w) \/ Become(Schedule(w))
    BY <2>1, <2>2
  <2>4. c \in [Session -> ContStates] /\ Now.stop[s][k] # "no" /\ p \in StopSteps
    BY <1>5, <1>7, <2>1 DEF StopRecorded, ReleaseRecorded
  <2> HIDE DEF c
  <2> QED BY <1>4, <1>5, <2>3, <2>4
<1>8. ASSUME NEW k \in StopKinds, StopFails(s, k) \/ (k = "queue" /\ HandoffSettles(s))
      PROVE  AtBoundary /\ StillPaused
  <2> DEFINE v == [Now EXCEPT !.stop[s][k] = "no"]
             x == [v EXCEPT !.armed = @ \cup {s}]
             a == Now.armed \cup {s}
             w == [Now EXCEPT !.stop[s][k] = "no", !.cont = Now.cont, !.box = Now.box,
                              !.armed = Now.armed]
             y == [Now EXCEPT !.stop[s][k] = "no", !.cont = Now.cont, !.box = Now.box,
                              !.armed = a]
  <2>1. Become(v) \/ Become(Schedule(x)) \/ Become(Schedule(v))
    BY <1>8 DEF StopFails, HandoffSettles
  <2>2. v = w /\ x = y
    BY <1>1 DEF View
  <2>3. Become(w) \/ Become(Schedule(y)) \/ Become(Schedule(w))
    BY <2>1, <2>2
  <2>4. a \in SUBSET Session
    BY <1>5
  <2> HIDE DEF a
  <2> QED BY <1>4, <1>5, <2>3, <2>4
<1> QED
  BY <1>2, <1>3, <1>5, <1>6, <1>7, <1>8 DEF UserStop, Release

LEMMA RestartMannered ==
  ASSUME Inv, Restart
  PROVE  AtBoundary /\ StillPaused
<1>1. Now \in View /\ Now.recovering = recovering /\ recovering \subseteq Session
  BY UnderWay DEF Now, View
<1>2. restarts' # restarts
  BY DEF Restart, Inv, TypeOK
<1>3. PICK v \in View :
        /\ Become(Reap(Schedule(v))) /\ v.step = [s \in Session |-> "none"]
        /\ v.stop = [s \in Session |-> [k \in StopKinds |-> "no"]]
        /\ recovering \subseteq v.recovering
  BY <1>1, Restored
<1>4. StepsFit(v)
  BY <1>3 DEF StepsFit
<1> DEFINE c == Schedule(v)
<1>5. c \in View /\ Courteous(v, c) /\ StepsFit(c)
  BY <1>4, ScheduleType, ScheduleCourteous, ScheduleFits
<1> HIDE DEF c
<1> DEFINE x == Reap(c)
<1>6. x \in View /\ Courteous(v, x)
  BY <1>5, ReapType, ReapCourteous, CourteousTransitive
<1> HIDE DEF x
<1>7. stop' = x.stop /\ state' = x.state /\ step' = x.step
  BY <1>3 DEF Become, x, c
<1>8. \A s \in Session, k \in {"idle", "queue"} :
        x.stop[s][k] = "begun" => x.state[s] # "starting"
  BY <1>3, <1>6 DEF Courteous, StopKinds, Lining
<1>9. \A s \in recovering : x.step[s] \notin Sending
  BY <1>1, <1>3, <1>6 DEF Courteous, Sending
<1> QED
  BY <1>2, <1>7, <1>8, <1>9 DEF AtBoundary, StillPaused, Sending

LEMMA NextMannered == Inv /\ [Next]_vars => [AtBoundary]_vars /\ [StillPaused]_vars
<1> SUFFICES ASSUME Inv, Next
             PROVE  AtBoundary /\ StillPaused
  OBVIOUS
<1>1. CASE UserStep
  BY <1>1, UserMannered, DeleteMannered, PromptMannered, StopMannered, SettingsMannered
     DEF UserStep
<1>2. CASE Restart
  BY <1>2, RestartMannered
<1>3. ASSUME NEW s \in Session, SystemStep(s)
      PROVE  AtBoundary /\ StillPaused
  BY <1>3, LaunchMannered, LullMannered, TurnMannered, StopMannered DEF SystemStep
<1>4. ASSUME NEW s \in Session, Fault(s)
      PROVE  AtBoundary /\ StillPaused
  BY <1>4, LaunchMannered, LullMannered, TurnMannered, StopMannered DEF Fault
<1> QED BY <1>1, <1>2, <1>3, <1>4, UserMannered DEF Next

(* For any sessions, clones, limits and failures: neither the idle policy    *)
(* nor the queue handoff begins to stop the container of a session under a   *)
(* launch, a resume or a turn in progress; only at the end of a turn, in a   *)
(* lull before one, where the code has the session started and not yet busy, *)
(* or when a restart has ended whatever was in flight.                       *)
THEOREM WorkIsNotCut == Spec => StopsAtABoundary
<1>1. Inv /\ [Next]_vars => [AtBoundary]_vars
  BY NextMannered
<1> QED
  BY InitSafe, NextSafe, <1>1, PTL DEF Spec, StopsAtABoundary, AtBoundary

(* For any number of restarts, whatever passes, limits and turns there are   *)
(* in between: the prompts and the interrupted turn of a session that a      *)
(* restart paused are taken up only by a step in which its user asks for it. *)
THEOREM PausedWorkWaits == Spec => PausedUntilAsked
<1>1. Inv /\ [Next]_vars => [StillPaused]_vars
  BY NextMannered
<1> QED
  BY InitSafe, NextSafe, <1>1, PTL DEF Spec, PausedUntilAsked, StillPaused

(***************************************************************************)
(* The session queue implements the waiting line of AdmissionQueue.        *)
(*                                                                         *)
(* A handler edits the line, some leave it and one may join, and most then *)
(* run a pass of the scheduler.  Edited says what the edit did, Served     *)
(* that the pass after it lets in those next in line, within the cap; the  *)
(* theorem goes through the actions and finds the edit of each.            *)
(***************************************************************************)
Queued(v) == {s \in Session : v.state[s] = "queued"}

(* The line is a strict order of the queued sessions; Ordered has it total. *)
Lined(v) ==
  /\ \A s, t \in Session : <<s, t>> \in v.before =>
       s # t /\ v.state[s] = "queued" /\ v.state[t] = "queued"
  /\ \A s, t, r \in Session :
       <<s, t>> \in v.before /\ <<t, r>> \in v.before => <<s, r>> \in v.before

(* Who waits, and in which order, once some have left and joined. *)
Waits(v, left, joined) == (Queued(v) \ left) \cup joined
Order(v, left, joined) ==
  {p \in v.before : {p[1], p[2]} \cap (left \cup joined) = {}}
  \cup {p \in Waits(v, left, joined) \X joined : p[1] # p[2]}

Edited(v, u, left, joined) ==
  /\ u.before = Order(v, left, joined)
  /\ \A s \in Session :
       /\ u.state[s] = "queued" <=> s \in Waits(v, left, joined)
       /\ u.state[s] = "starting" <=>
            v.state[s] = "starting" /\ s \notin left \cup Waits(v, left, joined)

(* One session at a time joins. *)
Joins(J) == J = {} \/ \E s \in Session : J = {s}

LEMMA EditedLine ==
  ASSUME NEW v \in View, NEW u \in View, NEW L \in SUBSET Session, NEW J \in SUBSET Session,
         Joins(J), Edited(v, u, L, J), Ordered(v), Lined(v)
  PROVE  Ordered(u) /\ Lined(u)
<1>1. v.before \subseteq Session \X Session
  BY DEF View
<1>2. \A s, t \in Session : <<s, t>> \in u.before <=>
        \/ /\ <<s, t>> \in v.before /\ s \notin L \cup J /\ t \notin L \cup J
        \/ s \in Waits(v, L, J) /\ t \in J /\ s # t
  BY <1>1 DEF Edited, Order
<1>3. \A s \in Session : u.state[s] = "queued" <=>
        (v.state[s] = "queued" /\ s \notin L) \/ s \in J
  BY DEF Edited, Waits, Queued
<1>4. \A s \in Session : s \in Waits(v, L, J) <=> u.state[s] = "queued"
  BY DEF Edited
<1>5. \A s, t \in J : s = t
  BY DEF Joins
<1>6. Ordered(u)
  <2> SUFFICES ASSUME NEW s \in Session, NEW t \in Session, s # t,
                      u.state[s] = "queued", u.state[t] = "queued"
               PROVE  <<s, t>> \in u.before \/ <<t, s>> \in u.before
    BY DEF Ordered
  <2>1. CASE s \in J \/ t \in J
    BY <1>2, <1>4, <2>1
  <2>2. CASE s \notin J /\ t \notin J
    BY <1>2, <1>3, <2>2 DEF Ordered
  <2> QED BY <2>1, <2>2
<1>7. ASSUME NEW s \in Session, NEW t \in Session, <<s, t>> \in u.before
      PROVE  s # t /\ u.state[s] = "queued" /\ u.state[t] = "queued"
  BY <1>2, <1>3, <1>4, <1>7 DEF Lined
<1>8. ASSUME NEW s \in Session, NEW t \in Session, NEW r \in Session,
             <<s, t>> \in u.before, <<t, r>> \in u.before
      PROVE  <<s, r>> \in u.before
  <2>1. CASE r \in J
    <3>1. t \notin J /\ s \notin J
      BY <1>2, <1>5, <1>7, <1>8, <2>1
    <3>2. u.state[s] = "queued"
      BY <1>7, <1>8
    <3> QED BY <1>2, <1>4, <2>1, <3>1, <3>2
  <2>2. CASE r \notin J
    BY <1>2, <1>8, <2>2 DEF Lined
  <2> QED BY <2>1, <2>2
<1> QED BY <1>6, <1>7, <1>8 DEF Lined

(***************************************************************************)
(* A pass of the scheduler.                                                *)
(***************************************************************************)
LEMMA PassFace ==
  ASSUME NEW u \in View
  PROVE  LET w == Schedule(u)
             A == Admitted(u)
         IN  /\ w.state = [s \in Session |-> IF s \in A THEN "starting" ELSE u.state[s]]
             /\ w.before = {p \in u.before : p[1] \notin A /\ p[2] \notin A}
             /\ w.cont = u.cont /\ w.held = u.held /\ w.cap = u.cap
<1> DEFINE A == Admitted(u)
           x == StartAll(u, A)
<1>1. A \in SUBSET Session
  BY DEF Admitted, Startable, Waiting
<1> HIDE DEF A
<1>2. x \in View
  BY <1>1, StartAllType
<1>3. /\ x.state = [s \in Session |-> IF s \in A THEN "starting" ELSE u.state[s]]
      /\ x.before = {p \in u.before : p[1] \notin A /\ p[2] \notin A}
      /\ x.cont = u.cont /\ x.held = u.held /\ x.cap = u.cap
  BY DEF StartAll, Unqueue, View
<1> HIDE DEF x
<1>4. LET w == Drain(x, Session)
      IN  /\ w.state = x.state /\ w.before = x.before /\ w.cont = x.cont
          /\ w.held = x.held /\ w.cap = x.cap
  BY <1>2 DEF Drain, BeginTurn, View
<1>5. Schedule(u) = Drain(x, Session)
  BY DEF Schedule, x, A
<1> QED BY <1>3, <1>4, <1>5 DEF A

(* Of the items let in together one is the last in line. *)
LEMMA LastInLine ==
  ASSUME NEW u \in View, NEW S \in SUBSET Session, S # {}, Ordered(u), Lined(u),
         \A s \in S : u.state[s] = "queued"
  PROVE  \E m \in S : \A s \in S : s # m => <<s, m>> \in u.before
<1> DEFINE After(s) == {t \in S : <<s, t>> \in u.before}
           T == {After(s) : s \in S}
           R == StrictSubsetOrdering(Session)
<1>1. IsFiniteSet(Session)
  BY ViewAssumption
<1>2. IsWellFoundedOn(R, SUBSET Session)
  BY <1>1, FS_StrictSubsetOrderingWellFounded, FS_FiniteSubsetsOfFinite
<1>3. T \subseteq SUBSET Session /\ T # {}
  <2>1. PICK e \in S : TRUE
    OBVIOUS
  <2>2. After(e) \in T
    BY <2>1
  <2>3. \A s \in S : After(s) \in SUBSET Session
    OBVIOUS
  <2> HIDE DEF After
  <2> QED BY <2>2, <2>3
<1> HIDE DEF R
<1>4. \E x \in T : \A y \in T : ~ (<<y, x>> \in R)
  <2> HIDE DEF T
  <2> QED BY <1>2, <1>3, WFMin
<1>5. PICK m \in S : \A y \in T : <<y, After(m)>> \notin R
  BY <1>4
<1>6. ASSUME NEW s \in S, s # m, <<s, m>> \notin u.before
      PROVE  FALSE
  <2>1. <<m, s>> \in u.before
    BY <1>6 DEF Ordered
  <2>2. After(s) \subseteq After(m)
    <3> SUFFICES ASSUME NEW t \in S, <<s, t>> \in u.before
                 PROVE  <<m, t>> \in u.before
      OBVIOUS
    <3> QED BY <2>1 DEF Lined
  <2>3. s \in After(m) /\ s \notin After(s)
    BY <2>1 DEF Lined
  <2>4. After(s) \in SUBSET Session /\ After(m) \in SUBSET Session
    OBVIOUS
  <2>5. <<After(s), After(m)>> \in R
    <3> HIDE DEF After
    <3> QED BY <2>2, <2>3, <2>4 DEF R, StrictSubsetOrdering
  <2> QED BY <1>5, <2>5
<1> QED BY <1>6

(* What a pass lets in fits the cap, with all that is active already.  The   *)
(* last in line was let in with everything ahead of it counted.              *)
LEMMA Room ==
  ASSUME NEW u \in View, Ordered(u), Lined(u), Admitted(u) # {}, u.cap > 0
  PROVE  Cardinality({s \in Session : Active(u, s)} \cup Admitted(u)) <= u.cap
<1> DEFINE A == Admitted(u)
           B == {s \in Session : Active(u, s)}
<1>1. A \subseteq Startable(u) /\ A \in SUBSET Session /\ \A s \in A : u.state[s] = "queued"
  BY DEF Admitted, Startable, Waiting
<1>2. u.cap \in Nat
  BY ViewAssumption DEF View
<1>3. PICK m \in A : \A s \in A : s # m => <<s, m>> \in u.before
  <2> HIDE DEF A
  <2> QED BY <1>1, LastInLine DEF A
<1> DEFINE ahead == {t \in Startable(u) : <<t, m>> \in u.before}
           x == StartAll(u, ahead)
           C == {s \in Session : Active(x, s)}
<1>4. ActiveCount(x) + Cardinality(ahead) < u.cap
  BY <1>2, <1>3 DEF Admitted
<1>5. A \ {m} \subseteq ahead
  BY <1>1, <1>3
<1>6. ahead \in SUBSET Session
  BY DEF Startable, Waiting
<1> HIDE DEF A
<1>7. B \cup ahead = C
  <2> HIDE DEF ahead
  <2>1. /\ x.state = [s \in Session |-> IF s \in ahead THEN "starting" ELSE u.state[s]]
        /\ x.cont = u.cont
    BY <1>6 DEF StartAll, Unqueue, View
  <2> HIDE DEF x
  <2> QED BY <1>6, <2>1 DEF Active
<1>8. IsFiniteSet(C) /\ IsFiniteSet(ahead)
  BY <1>6, ViewAssumption, FS_Subset
<1>9. Cardinality(C) < u.cap
  <2>1. ActiveCount(x) = Cardinality(C)
    BY DEF ActiveCount
  <2> HIDE DEF x, C, ahead
  <2>2. Cardinality(C) \in Nat /\ Cardinality(ahead) \in Nat
    BY <1>8, FS_CardinalityType
  <2> QED BY <1>2, <1>4, <2>1, <2>2
<1>10. B \cup A \subseteq C \cup {m}
  <2> HIDE DEF B, C, ahead
  <2> QED BY <1>5, <1>7
<1> HIDE DEF B, C
<1>11. IsFiniteSet(C \cup {m}) /\ Cardinality(C \cup {m}) <= Cardinality(C) + 1
  <2>1. /\ IsFiniteSet(C \cup {m})
        /\ Cardinality(C \cup {m}) = IF m \in C THEN Cardinality(C) ELSE Cardinality(C) + 1
    BY <1>8, FS_AddElement
  <2> QED BY <1>8, <2>1, FS_CardinalityType
<1>12. Cardinality(B \cup A) <= Cardinality(C \cup {m}) /\ IsFiniteSet(B \cup A)
  BY <1>10, <1>11, FS_Subset
<1>13. /\ Cardinality(B \cup A) \in Nat /\ Cardinality(C \cup {m}) \in Nat
       /\ Cardinality(C) \in Nat
  BY <1>8, <1>11, <1>12, FS_CardinalityType
<1>14. Cardinality(B \cup A) <= u.cap
  BY <1>2, <1>9, <1>11, <1>12, <1>13
<1> QED BY <1>14 DEF A, B

(***************************************************************************)
(* A step of the queue is a step of the line.                              *)
(***************************************************************************)

(* What the line can see of a state. *)
Shows(x) ==
  /\ state' = x.state /\ before' = x.before /\ cont' = x.cont
  /\ held' = x.held /\ cap' = x.cap

LEMMA SameConflict ==
  ASSUME NEW s, NEW t
  PROVE  Admission!Conflict(s, t) <=> Conflict(s, t)
BY DEF Conflict, Claims, Exclusive, Admission!Conflict, Admission!Claims, Admission!Exclusive

LEMMA SameCardinality ==
  ASSUME NEW S
  PROVE  Admission!Cardinality(S) = Cardinality(S)
BY DEF Cardinality, IsFiniteSet, Admission!Cardinality, Admission!IsFiniteSet

(* Without a pass nobody is let in. *)
LEMMA Seated ==
  ASSUME Now \in View, Ordered(Now), Lined(Now), NEW u \in View,
         NEW L \in SUBSET Session, NEW J \in SUBSET Session, Joins(J),
         Edited(Now, u, L, J), Shows(u)
  PROVE  Lined(Now)' /\ Admission!Serve(L, J, {})
<1>1. Lined(u)
  BY EditedLine
<1>2. Lined(Now)'
  BY <1>1 DEF Lined, Shows, Now
<1>3. {s \in Session : Phase[s] = "waiting"} = Queued(Now)
  BY DEF Phase, Queued, Now
<1>4. Phase' = [s \in Session |-> IF s \in Waits(Now, L, J) THEN "waiting"
                                  ELSE IF s \in L THEN "out" ELSE Phase[s]]
  <2>1. \A s \in Session : Phase'[s] = IF s \in Waits(Now, L, J) THEN "waiting"
                                       ELSE IF s \in L THEN "out" ELSE Phase[s]
    BY DEF Phase, Waits, Queued, Edited, Shows, Now
  <2> QED BY <2>1 DEF Phase
<1>5. before' = Order(Now, L, J) /\ Now.before = before
  BY DEF Edited, Shows, Now
<1> QED
  BY <1>2, <1>3, <1>4, <1>5 DEF Admission!Serve, Admission!Fits, Waits, Order

(* A pass lets in those next in line. *)
LEMMA Served ==
  ASSUME Now \in View, Ordered(Now), Lined(Now), NEW u \in View,
         NEW L \in SUBSET Session, NEW J \in SUBSET Session, Joins(J),
         Edited(Now, u, L, J), Shows(Schedule(u))
  PROVE  Lined(Now)' /\ Admission!Serve(L, J, Admitted(u))
<1> DEFINE A == Admitted(u)
<1>1. Ordered(u) /\ Lined(u)
  BY EditedLine
<1>2. /\ state' = [s \in Session |-> IF s \in A THEN "starting" ELSE u.state[s]]
      /\ before' = {p \in u.before : p[1] \notin A /\ p[2] \notin A}
      /\ cont' = u.cont /\ held' = u.held /\ cap' = u.cap
  BY PassFace DEF Shows
<1>3. A \in SUBSET Session /\ \A s \in A : u.state[s] = "queued" /\ s \notin u.held
  BY DEF Admitted, Startable, Waiting
<1>4. /\ \A s \in A : Holders(u, s) = {}
      /\ \A s, t \in A : s # t => ~Conflict(s, t)
      /\ \A s \in A, t \in Waiting(u) : <<t, s>> \in u.before => ~Conflict(s, t)
  <2>1. A \subseteq Startable(u)
    BY DEF Admitted
  <2> HIDE DEF A
  <2> QED BY <1>1, <2>1, StartableApart DEF Startable
<1>5. A # {} /\ u.cap > 0 => Cardinality({s \in Session : Active(u, s)} \cup A) <= u.cap
  BY <1>1, Room
<1> HIDE DEF A
<1>6. Lined(Now)'
  <2>1. \A s, t \in Session : <<s, t>> \in before' <=>
          <<s, t>> \in u.before /\ s \notin A /\ t \notin A
    BY <1>2
  <2> QED BY <1>1, <1>2, <2>1 DEF Lined, Now
<1>7. {s \in Session : Phase[s] = "waiting"} = Queued(Now)
  BY DEF Phase, Queued, Now
<1>8. Phase' = [s \in Session |-> IF s \in A THEN "in"
                                  ELSE IF s \in Waits(Now, L, J) THEN "waiting"
                                  ELSE IF s \in L THEN "out" ELSE Phase[s]]
  <2>1. \A s \in Session : Phase'[s] = IF s \in A THEN "in"
                                       ELSE IF s \in Waits(Now, L, J) THEN "waiting"
                                       ELSE IF s \in L THEN "out" ELSE Phase[s]
    BY <1>2 DEF Phase, Waits, Queued, Edited, Now
  <2> QED BY <2>1 DEF Phase
<1>9. u.before = Order(Now, L, J) /\ Now.before = before
  BY DEF Edited, Now
<1>10. \A s \in Session : s \in Waits(Now, L, J) <=> u.state[s] = "queued"
  BY DEF Edited
<1>11. before' = {p \in Order(Now, L, J) : {p[1], p[2]} \cap A = {}}
  BY <1>2, <1>9
<1>12. Waits(Now, L, J) \subseteq Session
  BY DEF Waits, Queued
<1>13. /\ A \subseteq Waits(Now, L, J) \ held'
       /\ \A s \in A, t \in Waits(Now, L, J) \ held' :
            <<t, s>> \in Order(Now, L, J) => ~Admission!Conflict(s, t)
  BY <1>2, <1>3, <1>4, <1>9, <1>10, <1>12, SameConflict DEF Waiting
<1>14. {s \in Session : Phase'[s] = "in"} \cup Using' = {s \in Session : Active(u, s)} \cup A
  <2>1. \A s \in Session : Phase'[s] = "in" <=> state'[s] = "starting"
    BY DEF Phase
  <2>2. \A s \in Session : s \in Using' <=>
          state'[s] # "starting" /\ cont'[s] \in {"building", "running"}
    BY DEF Using, Active, Now
  <2>3. Using' \subseteq Session
    BY DEF Using
  <2>4. \A s \in Session : Phase'[s] = "in" \/ s \in Using' <=> Active(u, s) \/ s \in A
    BY <1>2, <1>3, <2>1, <2>2 DEF Active
  <2> QED BY <1>3, <2>3, <2>4
<1>15. Admission!Fits(A)
  <2>1. ASSUME NEW s \in A, NEW t \in A \cup {q \in Session : Phase'[q] = "in"} \cup Using', s # t
        PROVE  ~Admission!Conflict(s, t)
    <3>1. t \in A \/ (t \in Session /\ Active(u, t))
      BY <1>14, <2>1
    <3>2. ~Conflict(s, t)
      BY <1>4, <2>1, <3>1 DEF Holders
    <3> QED BY <3>2, SameConflict
  <2> DEFINE inside == A \cup {s \in Session : Phase'[s] = "in"}
  <2>2. inside \cup Using' = {s \in Session : Active(u, s)} \cup A
    BY <1>14
  <2>3. A # {} /\ cap' > 0 => Cardinality(inside \cup Using') <= cap'
    BY <1>2, <1>5, <2>2
  <2>4. Admission!Cardinality(inside \cup Using') = Cardinality(inside \cup Using')
    BY SameCardinality
  <2>5. \A s \in A, t \in inside \cup Using' : s # t => ~Admission!Conflict(s, t)
    BY <2>1
  <2> QED BY <2>3, <2>4, <2>5 DEF Admission!Fits
<1>16. Admission!Serve(L, J, A)
  BY <1>7, <1>8, <1>9, <1>11, <1>13, <1>15 DEF Admission!Serve, Waits, Order
<1> QED BY <1>6, <1>16 DEF A

(***************************************************************************)
(* The edits.                                                              *)
(***************************************************************************)
Step ==
  \/ Admission!Turnstile
  \/ \E s \in Session : \/ Run(s) /\ Admission!PassLine(s)
                        \/ Enqueue(s) /\ Admission!Rejoins(s)

InLine == Now \in View /\ Ordered(Now) /\ Lined(Now)

LEMMA Leaves ==
  ASSUME InLine, NEW u \in View, NEW L \in SUBSET Session, Edited(Now, u, L, {}),
         Shows(u) \/ Shows(Schedule(u))
  PROVE  Lined(Now)' /\ Step
<1>1. \E S \in SUBSET Session : Lined(Now)' /\ Admission!Serve(L, {}, S)
  <2>1. CASE Shows(u)
    <3>1. Lined(Now)' /\ Admission!Serve(L, {}, {})
      BY <2>1, Seated DEF InLine, Joins
    <3> QED BY <3>1
  <2>2. CASE Shows(Schedule(u))
    <3>1. Lined(Now)' /\ Admission!Serve(L, {}, Admitted(u))
      BY <2>2, Served DEF InLine, Joins
    <3>2. Admitted(u) \in SUBSET Session
      BY DEF Admitted, Startable, Waiting
    <3> QED BY <3>1, <3>2
  <2> QED BY <2>1, <2>2
<1> QED BY <1>1 DEF Step, Admission!Turnstile

(* One session, and no other, is no longer waiting or inside. *)
LEMMA LeavesOne ==
  ASSUME InLine, NEW u \in View, NEW s \in Session,
         NEW p \in SessionStates \ {"queued", "starting"},
         u.state = [Now.state EXCEPT ![s] = p],
         u.before = {q \in Now.before : q[1] # s /\ q[2] # s},
         Shows(u) \/ Shows(Schedule(u))
  PROVE  Lined(Now)' /\ Step
<1>1. Now.state \in [Session -> SessionStates]
  BY DEF InLine, View
<1>2. u.before = Order(Now, {s}, {})
  BY ZenonT(40) DEF Order
<1>3. Edited(Now, u, {s}, {})
  BY <1>1, <1>2 DEF Edited, Waits, Queued
<1> QED BY <1>3, Leaves

(* Nobody leaves and nobody joins. *)
LEMMA Unmoved ==
  ASSUME InLine, NEW u \in View, u.before = Now.before,
         \A s \in Session : /\ u.state[s] = "queued" <=> Now.state[s] = "queued"
                            /\ u.state[s] = "starting" <=> Now.state[s] = "starting",
         Shows(u) \/ Shows(Schedule(u))
  PROVE  Lined(Now)' /\ Step
<1>1. u.before = Order(Now, {}, {})
  BY DEF Order
<1>2. Edited(Now, u, {}, {})
  BY <1>1 DEF Edited, Waits, Queued
<1> QED BY <1>2, Leaves

LEMMA Still ==
  ASSUME InLine, Now' \in View, state' = state, before' = before
  PROVE  Lined(Now)' /\ Step
<1>1. PICK u \in View : u = Now'
  OBVIOUS
<1>2. Shows(u) /\ u.state = Now.state /\ u.before = Now.before
  BY <1>1 DEF Shows, Now
<1> QED BY <1>2, Unmoved

Face(v) == <<v.state, v.before, v.cont, v.held, v.cap>>

LEMMA FaceShows ==
  ASSUME NEW u, NEW w, Face(w) = Face(u), Shows(w)
  PROVE  Shows(u)
BY DEF Face, Shows

LEMMA BecomeShows ==
  ASSUME NEW u, Become(u)
  PROVE  Shows(u)
BY DEF Become, Shows

LEMMA DrainFace ==
  ASSUME NEW v \in View, NEW S
  PROVE  Face(Drain(v, S)) = Face(v)
BY DEF Drain, BeginTurn, Face, View

LEMMA ReapFace ==
  ASSUME NEW v \in View
  PROVE  Face(Reap(v)) = Face(v)
BY DEF Reap, BeginStop, Face, View

LEMMA NoteIdleFace ==
  ASSUME NEW v \in View, NEW s \in Session
  PROVE  Face(NoteIdle(v, s)) = Face(v)
<1> DEFINE a == [v EXCEPT !.armed = @ \cup {s}]
<1>1. a \in View /\ Face(a) = Face(v)
  BY DEF View, Face
<1> HIDE DEF a
<1> QED
  BY <1>1, ReapFace DEF NoteIdle, a

LEMMA FailedStartLine ==
  ASSUME InLine, NEW v \in View, NEW s \in Session, v.state = Now.state,
         v.before = Now.before, Become(FailedStart(v, s))
  PROVE  Lined(Now)' /\ Step
<1> DEFINE u == Unqueue(v, {s})
           w == [u EXCEPT !.state[s] = "draft", !.step[s] = "none"]
           i == NoteIdle(w, s)
<1>1. u \in View
  BY UnqueueType
<1>2. w \in View
  <2> HIDE DEF u
  <2> QED BY <1>1 DEF View, SessionStates, Steps
<1>3. /\ w.state = [Now.state EXCEPT ![s] = "draft"]
      /\ w.before = {q \in Now.before : q[1] # s /\ q[2] # s}
  BY DEF Unqueue, View
<1>4. Become(Schedule(i))
  BY DEF FailedStart
<1> HIDE DEF w
<1>5. i \in View /\ i.state = w.state /\ i.before = w.before
  BY <1>2, NoteIdleType, NoteIdleFace DEF Face
<1> HIDE DEF i
<1>6. "draft" \in SessionStates \ {"queued", "starting"}
  BY DEF SessionStates
<1> QED BY <1>3, <1>4, <1>5, <1>6, BecomeShows, LeavesOne

LEMMA EnqueuedLine ==
  ASSUME InLine, NEW s \in Session, state[s] \in {"draft", "queued"},
         Become(Enqueued(Now, s)), UNCHANGED restarts
  PROVE  Lined(Now)' /\ Step
<1> DEFINE behind == {<<t, s>> : t \in {t \in Session \ {s} : Now.state[t] = "queued"}}
           u == Unqueue(Now, {s})
           q == [u EXCEPT !.state[s] = "queued", !.before = @ \cup behind]
           r == Reap(q)
<1>0. Now \in View
  BY DEF InLine
<1>1. u \in View /\ behind \in SUBSET (Session \X Session)
  BY <1>0, UnqueueType
<1>2. q \in View
  <2> HIDE DEF u, behind
  <2> QED BY <1>1 DEF View, SessionStates
<1>3. /\ q.state = [Now.state EXCEPT ![s] = "queued"]
      /\ q.before = {p \in Now.before : p[1] # s /\ p[2] # s} \cup behind
  BY <1>0 DEF Unqueue, View
<1>4. Become(Schedule(r))
  BY DEF Enqueued
<1> HIDE DEF q
<1>5. r \in View /\ r.state = q.state /\ r.before = q.before
  BY <1>2, ReapType, ReapFace DEF Face
<1> HIDE DEF r
<1>6. Now.state \in [Session -> SessionStates]
  BY <1>0 DEF View
<1>7. Waits(Now, {}, {s}) = Queued(Now) \cup {s}
  BY DEF Waits
<1>8. r.before = Order(Now, {}, {s})
  <2>1. behind = {p \in (Queued(Now) \cup {s}) \X {s} : p[1] # p[2]}
    BY DEF Queued
  <2> HIDE DEF behind
  <2>2. {p \in Now.before : {p[1], p[2]} \cap ({} \cup {s}) = {}}
          = {p \in Now.before : p[1] # s /\ p[2] # s}
    OBVIOUS
  <2>3. r.before = {p \in Now.before : {p[1], p[2]} \cap ({} \cup {s}) = {}}
                   \cup {p \in (Queued(Now) \cup {s}) \X {s} : p[1] # p[2]}
    BY <1>3, <1>5, <2>1, <2>2
  <2> QED BY <1>7, <2>3 DEF Order
<1>9. Edited(Now, r, {}, {s})
  BY <1>3, <1>5, <1>6, <1>7, <1>8 DEF Edited, Queued
<1>10. Lined(Now)' /\ Admission!Serve({}, {s}, Admitted(r))
  BY <1>4, <1>5, <1>9, BecomeShows, Served DEF InLine, Joins
<1>11. Admitted(r) \in SUBSET Session
  BY DEF Admitted, Startable, Waiting
<1>12. CASE state[s] = "draft"
  <2>1. Phase[s] # "waiting"
    BY <1>12 DEF Phase
  <2>2. Admission!Turnstile
    BY <1>10, <1>11, <2>1 DEF Admission!Turnstile
  <2> QED BY <1>10, <2>2 DEF Step
<1>13. CASE state[s] = "queued"
  <2>1. Phase[s] = "waiting"
    BY <1>13 DEF Phase
  <2>2. Admission!Rejoins(s)
    BY <1>10, <1>11, <2>1 DEF Admission!Rejoins
  <2>3. Enqueue(s)
    BY DEF Enqueue
  <2> QED BY <1>10, <2>2, <2>3 DEF Step
<1> QED BY <1>12, <1>13

(***************************************************************************)
(* The actions.                                                            *)
(***************************************************************************)
LEMMA AgentGoneFace ==
  ASSUME NEW v \in View, NEW s \in Session
  PROVE  Face(AgentGone(v, s)) = Face(v)
<1> DEFINE u == [v EXCEPT !.agent = @ \ {s},
                          !.step[s] = IF v.step[s] = "turn" THEN "none" ELSE @]
           w == NoteIdle(u, s)
           f == [w EXCEPT !.step[s] = "failed"]
<1>1. u \in View /\ Face(u) = Face(v)
  BY DEF View, Steps, Face
<1>2. AgentGone(v, s) = f \/ AgentGone(v, s) = w
  BY DEF AgentGone
<1> HIDE DEF u
<1>3. w \in View /\ Face(w) = Face(u)
  BY <1>1, NoteIdleType, NoteIdleFace
<1> HIDE DEF w
<1>4. Face(f) = Face(w)
  BY <1>3 DEF View, Face
<1> HIDE DEF f
<1> QED BY <1>1, <1>2, <1>3, <1>4

(* A step that ends in v, or in a pass from v, where v has the line as it was. *)
LEMMA Kept ==
  ASSUME InLine, NEW v \in View, v.state = Now.state, v.before = Now.before,
         \/ Become(v) \/ Become(Schedule(v))
         \/ \E s \in Session : Become(AgentGone(v, s))
         \/ \E S \in SUBSET Session : \/ Become(Drain(v, S))
                                      \/ Become(Reap(Drain(v, S)))
  PROVE  Lined(Now)' /\ Step
<1>1. Shows(v) \/ Shows(Schedule(v))
  <2>1. CASE \E s \in Session : Become(AgentGone(v, s))
    BY <2>1, AgentGoneFace, BecomeShows, FaceShows
  <2>2. ASSUME NEW S \in SUBSET Session,
               Become(Drain(v, S)) \/ Become(Reap(Drain(v, S)))
        PROVE  Shows(v)
    <3>1. Drain(v, S) \in View /\ Face(Drain(v, S)) = Face(v)
      BY DrainType, DrainFace
    <3>2. Face(Reap(Drain(v, S))) = Face(v)
      BY <3>1, ReapFace
    <3> QED BY <2>2, <3>1, <3>2, BecomeShows, FaceShows
  <2> QED BY <2>1, <2>2, BecomeShows
<1> QED BY <1>1, Unmoved

LEMMA UserLine ==
  ASSUME InLine, NEW s \in Session,
         \/ CreateSession(s) \/ Prompt(s) \/ ClearPending(s) \/ ResumeInterrupted(s)
         \/ CancelQueue(s) \/ Enqueue(s)
  PROVE  Lined(Now)' /\ Step
<1>1. Now \in View
  BY DEF InLine
<1>2. CASE CreateSession(s)
  <2> DEFINE v == [Now EXCEPT !.state[s] = "draft"]
  <2>1. v \in View /\ v.before = Now.before
    BY <1>1 DEF View, SessionStates
  <2>2. v.state = [Now.state EXCEPT ![s] = "draft"] /\ Now.state[s] = "absent"
    BY <1>1, <1>2 DEF View, CreateSession, Now
  <2>3. Become(NoteIdle(v, s))
    BY <1>2 DEF CreateSession
  <2>4. \A t \in Session : /\ v.state[t] = "queued" <=> Now.state[t] = "queued"
                           /\ v.state[t] = "starting" <=> Now.state[t] = "starting"
    BY <1>1, <2>2 DEF View
  <2> HIDE DEF v
  <2>5. Shows(v)
    BY <2>1, <2>3, NoteIdleFace, BecomeShows, FaceShows
  <2> QED BY <2>1, <2>4, <2>5, Unmoved
<1>3. CASE Prompt(s)
  <2>1. PICK n \in {pend[s], pend[s] + 1} \cap 1..MaxPend :
          LET w == Drain([Now EXCEPT !.pend[s] = n, !.recovering = @ \ {s}], {s})
          IN  Become(IF w.pend[s] > 0 THEN Reap(w) ELSE w)
    BY <1>3 DEF Prompt
  <2> DEFINE v == [Now EXCEPT !.pend[s] = n, !.recovering = @ \ {s}]
  <2>2. [Now.pend EXCEPT ![s] = n] \in [Session -> 0..MaxPend]
    BY <1>1, <2>1, ViewAssumption DEF View
  <2>3. v \in View /\ v.state = Now.state /\ v.before = Now.before
    BY <1>1, <2>2 DEF View
  <2>4. Become(Drain(v, {s})) \/ Become(Reap(Drain(v, {s})))
    BY <2>1
  <2> HIDE DEF v
  <2> QED BY <2>3, <2>4, Kept
<1>4. CASE ClearPending(s)
  <2> PICK h \in {held, held \ {s}} : Become([Now EXCEPT !.pend[s] = 0, !.held = h])
    BY <1>4 DEF ClearPending
  <2> DEFINE v == [Now EXCEPT !.pend[s] = 0, !.held = h]
  <2>1. h \in SUBSET Limitable
    BY <1>1 DEF Now, View
  <2>2. [Now.pend EXCEPT ![s] = 0] \in [Session -> 0..MaxPend]
    BY <1>1, ViewAssumption DEF View
  <2>3. v \in View /\ v.state = Now.state /\ v.before = Now.before
    BY <1>1, <2>1, <2>2 DEF View
  <2> HIDE DEF v
  <2> QED BY <2>3, Kept DEF v
<1>5. CASE ResumeInterrupted(s)
  <2>0. PICK n \in {pend[s], pend[s] + 1} \cap 0..MaxPend :
          Become(Drain([Now EXCEPT !.pend[s] = n, !.recovering = @ \ {s}], {s}))
    BY <1>5 DEF ResumeInterrupted
  <2> DEFINE v == [Now EXCEPT !.pend[s] = n, !.recovering = @ \ {s}]
  <2>1. [Now.pend EXCEPT ![s] = n] \in [Session -> 0..MaxPend]
    BY <1>1, <2>0, ViewAssumption DEF View
  <2>2. v \in View /\ v.state = Now.state /\ v.before = Now.before
    BY <1>1, <2>1 DEF View
  <2>3. Become(Drain(v, {s}))
    BY <2>0
  <2> HIDE DEF v
  <2> QED BY <2>2, <2>3, Kept
<1>6. CASE CancelQueue(s)
  <2> DEFINE u == Unqueue(Now, {s})
             v == [u EXCEPT !.state[s] = "draft"]
  <2>1. u \in View
    BY <1>1, UnqueueType
  <2>2. v \in View
    <3> HIDE DEF u
    <3> QED BY <2>1 DEF View, SessionStates
  <2>3. /\ v.state = [Now.state EXCEPT ![s] = "draft"]
        /\ v.before = {p \in Now.before : p[1] # s /\ p[2] # s}
    BY <1>1 DEF Unqueue, View
  <2>4. Become(NoteIdle(v, s)) /\ "draft" \in SessionStates \ {"queued", "starting"}
    BY <1>6 DEF CancelQueue, SessionStates
  <2> HIDE DEF v
  <2>5. Shows(v)
    BY <2>2, <2>4, NoteIdleFace, BecomeShows, FaceShows
  <2> QED BY <2>2, <2>3, <2>4, <2>5, LeavesOne
<1>7. CASE Enqueue(s)
  BY <1>7, EnqueuedLine DEF Enqueue
<1> QED BY <1>2, <1>3, <1>4, <1>5, <1>6, <1>7

LEMMA RunLine ==
  ASSUME InLine, NEW s \in Session, Run(s)
  PROVE  Lined(Now)' /\ Step
<1> DEFINE v == [Now EXCEPT !.armed = @ \ {s}]
           w == StartAll(v, {s})
<1>1. Now \in View /\ state[s] \in {"draft", "queued"} /\ restarts' = restarts
  BY DEF InLine, Run
<1>2. v \in View /\ Face(v) = Face(Now)
  BY <1>1 DEF View, Face
<1>3. \/ Become(Enqueued(Now, s))
      \/ Become(FailedStart(v, s))
      \/ /\ Become(w) /\ Holders(Now, s) = {}
         /\ cap > 0 => ~(ActiveCount(Now) >= cap)
  BY DEF Run
<1> HIDE DEF v
<1>4. CASE Become(Enqueued(Now, s))
  BY <1>1, <1>4, EnqueuedLine
<1>5. CASE Become(FailedStart(v, s))
  BY <1>2, <1>5, FailedStartLine DEF Face
<1>6. CASE Become(w) /\ Holders(Now, s) = {} /\ (cap > 0 => ~(ActiveCount(Now) >= cap))
  <2>1. /\ w.state = [t \in Session |-> IF t = s THEN "starting" ELSE v.state[t]]
        /\ w.before = {p \in v.before : p[1] # s /\ p[2] # s}
        /\ w.cont = v.cont /\ w.held = v.held /\ w.cap = v.cap
    BY <1>2 DEF StartAll, Unqueue, View
  <2>2. v.state = state /\ v.before = before /\ v.cont = cont /\ v.cap = cap
    BY <1>2 DEF Face, Now
  <2>3. /\ state' = [t \in Session |-> IF t = s THEN "starting" ELSE state[t]]
        /\ before' = {p \in before : p[1] # s /\ p[2] # s}
        /\ cont' = cont /\ cap' = cap
    BY <1>6, <2>1, <2>2 DEF Become
  <2> HIDE DEF w
  <2>4. Lined(Now)'
    <3>1. \A t, r \in Session : <<t, r>> \in before' <=>
            <<t, r>> \in before /\ t # s /\ r # s
      BY <2>3
    <3> QED BY <2>3, <3>1 DEF InLine, Lined, Now
  <2>5. Phase[s] # "in"
    BY <1>1 DEF Phase
  <2>6. Phase' = [Phase EXCEPT ![s] = "in"]
    <3>1. \A t \in Session : Phase'[t] = IF t = s THEN "in" ELSE Phase[t]
      BY <2>3 DEF Phase
    <3> QED BY <3>1 DEF Phase
  <2>7. before' = {p \in before : s \notin {p[1], p[2]}}
    BY <2>3
  <2>8. Admission!Fits({s})
    <3> DEFINE inside == {s} \cup {t \in Session : Phase'[t] = "in"}
               B == {t \in Session : Active(Now, t)}
    <3>1. inside \cup Using' = B \cup {s}
      <4>1. Using' \subseteq Session
        BY DEF Using
      <4>2. \A t \in Session : Phase'[t] = "in" <=> state'[t] = "starting"
        BY DEF Phase
      <4>3. \A t \in Session : t \in Using' <=>
              state'[t] # "starting" /\ cont'[t] \in {"building", "running"}
        BY DEF Using, Active, Now
      <4>4. \A t \in Session : Phase'[t] = "in" \/ t \in Using' <=> Active(Now, t) \/ t = s
        BY <2>3, <4>2, <4>3 DEF Active, Now
      <4> QED BY <4>1, <4>4
    <3>2. \A t \in inside \cup Using' : s # t => ~Admission!Conflict(s, t)
      BY <1>6, <3>1, SameConflict DEF Holders
    <3>3. cap' > 0 => Admission!Cardinality(inside \cup Using') <= cap'
      <4>1. IsFiniteSet(B) /\ Cardinality(B) \in Nat
        BY ViewAssumption, FS_Subset, FS_CardinalityType
      <4>2. Cardinality(B \cup {s}) = IF s \in B THEN Cardinality(B) ELSE Cardinality(B) + 1
        BY <4>1, FS_AddElement
      <4>3. ActiveCount(Now) = Cardinality(B)
        BY DEF ActiveCount
      <4>4. cap \in Nat
        BY <1>1, ViewAssumption DEF View, Now
      <4> HIDE DEF B, inside
      <4>5. cap > 0 => Cardinality(B \cup {s}) <= cap
        BY <1>6, <4>1, <4>2, <4>3, <4>4
      <4> QED BY <2>3, <3>1, <4>5, SameCardinality
    <3> QED BY <3>2, <3>3 DEF Admission!Fits
  <2>9. Admission!PassLine(s)
    BY <2>5, <2>6, <2>7, <2>8 DEF Admission!PassLine
  <2> QED BY <2>4, <2>9 DEF Step
<1> QED BY <1>3, <1>4, <1>5, <1>6

LEMMA DeleteLine ==
  ASSUME InLine, NEW s \in Session, DeleteSession(s)
  PROVE  Lined(Now)' /\ Step
<1> DEFINE none == [k \in StopKinds |-> "no"]
           u == Unqueue(Now, {s})
           g == [u EXCEPT
                   !.state[s] = "deleted", !.cont[s] = "inactive",
                   !.box[s] = "none", !.step[s] = "none", !.agent = @ \ {s},
                   !.pend[s] = 0, !.nudging = @ \ {s},
                   !.recovering = @ \ {s}, !.held = @ \ {s},
                   !.armed = @ \ {s}, !.stop[s] = none]
<1>1. Now \in View
  BY DEF InLine
<1>2. u \in View
  BY <1>1, UnqueueType
<1>3. g \in View
  <2> DEFINE pends == [u.pend EXCEPT ![s] = 0]
             stops == [u.stop EXCEPT ![s] = none]
  <2>1. none \in [StopKinds -> StopSteps]
    BY DEF StopSteps
  <2> HIDE DEF u, none
  <2>2. g = [u EXCEPT
               !.state[s] = "deleted", !.cont[s] = "inactive",
               !.box[s] = "none", !.step[s] = "none", !.agent = @ \ {s},
               !.pend = pends, !.nudging = @ \ {s},
               !.recovering = @ \ {s}, !.held = @ \ {s},
               !.armed = @ \ {s}, !.stop = stops]
    BY <1>2 DEF View
  <2> HIDE DEF g
  <2>3. pends \in [Session -> 0..MaxPend]
    BY <1>2, ViewAssumption DEF View
  <2>4. stops \in [Session -> [StopKinds -> StopSteps]]
    BY <1>2, <2>1 DEF View
  <2> HIDE DEF pends, stops
  <2> QED
    BY <1>2, <2>2, <2>3, <2>4, ZenonT(40) DEF View, SessionStates, ContStates, BoxStates, Steps
<1>4. /\ g.state = [Now.state EXCEPT ![s] = "deleted"]
      /\ g.before = {p \in Now.before : p[1] # s /\ p[2] # s}
  BY <1>1 DEF Unqueue, View
<1>5. Become(Reap(Schedule(g))) \/ Become(Schedule(g))
  BY DEF DeleteSession
<1> HIDE DEF g
<1>6. Shows(Schedule(g))
  BY <1>3, <1>5, ScheduleType, ReapFace, BecomeShows, FaceShows
<1>7. "deleted" \in SessionStates \ {"queued", "starting"}
  BY DEF SessionStates
<1> QED BY <1>3, <1>4, <1>6, <1>7, LeavesOne

LEMMA SettingsLine ==
  ASSUME InLine,
         (\E n \in Caps : SetTaskCap(n)) \/ (\E H \in SUBSET Limitable : LimitsChange(H))
  PROVE  Lined(Now)' /\ Step
<1>1. Now \in View
  BY DEF InLine
<1>2. ASSUME NEW n \in Caps, SetTaskCap(n)
      PROVE  Lined(Now)' /\ Step
  <2> DEFINE v == [Now EXCEPT !.cap = n]
  <2>1. v \in View /\ v.state = Now.state /\ v.before = Now.before
    BY <1>1 DEF View
  <2>2. Become(Schedule(v))
    BY <1>2 DEF SetTaskCap
  <2> HIDE DEF v
  <2> QED BY <2>1, <2>2, Kept
<1>3. ASSUME NEW H \in SUBSET Limitable, LimitsChange(H)
      PROVE  Lined(Now)' /\ Step
  <2> DEFINE v == [Now EXCEPT !.held = H]
  <2>1. v \in View /\ v.state = Now.state /\ v.before = Now.before
    BY <1>1 DEF View
  <2>2. Become(Schedule(v))
    BY <1>3 DEF LimitsChange
  <2> HIDE DEF v
  <2> QED BY <2>1, <2>2, Kept
<1> QED BY <1>2, <1>3

LEMMA LaunchLine ==
  ASSUME InLine, Inv, Inv', NEW s \in Session,
         \/ Attach(s) \/ Resolve(s) \/ ResolveFails(s) \/ WireFails(s) \/ Provisioned(s)
         \/ ProvisionFails(s) \/ Wired(s)
  PROVE  Lined(Now)' /\ Step
<1>1. Now \in View /\ Now' \in View
  BY DEF InLine, Inv, TypeOK
<1>2. CASE Attach(s) \/ Resolve(s) \/ ResolveFails(s) \/ WireFails(s) \/ Provisioned(s)
  <2>1. state' = state /\ before' = before
    BY <1>2 DEF Attach, Resolve, ResolveFails, WireFails, Provisioned
  <2> QED BY <1>1, <2>1, Still
<1>3. CASE ProvisionFails(s)
  <2>1. PICK b \in {box[s], "none", "up"} :
          Become(Schedule([Now EXCEPT !.step[s] = "failed",
                                      !.cont[s] = "inactive", !.box[s] = b]))
    BY <1>3 DEF ProvisionFails
  <2> DEFINE w == [Now EXCEPT !.step[s] = "failed", !.cont[s] = "inactive", !.box[s] = b]
  <2>2. b \in BoxStates /\ "failed" \in Steps /\ "inactive" \in ContStates
    BY <1>1 DEF Now, View, BoxStates, Steps, ContStates
  <2>3. w \in View /\ w.state = Now.state /\ w.before = Now.before
    BY <1>1, <2>2 DEF View
  <2>4. Become(Schedule(w))
    BY <2>1
  <2> HIDE DEF w
  <2> QED BY <2>3, <2>4, Kept
<1>4. CASE Wired(s)
  <2>1. CASE Become([Now EXCEPT !.agent = @ \cup {s}, !.step[s] = "turn"])
    <3>1. state' = state /\ before' = before
      BY <1>1, <2>1 DEF Become, View, Now
    <3> QED BY <1>1, <3>1, Still
  <2>2. ASSUME NEW p \in {"config", "open", "attach"}, NEW A \in SUBSET {s},
               state[s] = "starting",
               Become([Now EXCEPT !.agent = @ \cup {s}, !.state[s] = "started",
                                  !.nudging = @ \ {s}, !.step[s] = p, !.armed = @ \ A])
        PROVE  Lined(Now)' /\ Step
    <3> DEFINE b == [Now EXCEPT !.agent = @ \cup {s}, !.state[s] = "started",
                                !.nudging = @ \ {s}, !.step[s] = p, !.armed = @ \ A]
    <3>1. p \in Steps /\ "started" \in SessionStates \ {"queued", "starting"}
      BY DEF Steps, Lulls, SessionStates
    <3>2. b \in View
      BY <1>1, <3>1 DEF View
    <3>3. b.state = [Now.state EXCEPT ![s] = "started"] /\ b.before = Now.before
      BY <1>1 DEF View
    <3>4. Become(b)
      BY <2>2
    <3> HIDE DEF b
    <3>5. Now.before = {q \in Now.before : q[1] # s /\ q[2] # s}
      <4>1. Now.before \subseteq Session \X Session /\ Now.state[s] = "starting"
        BY <1>1, <2>2 DEF View, Now
      <4>2. \A q \in Now.before : q[1] # s /\ q[2] # s
        BY <4>1 DEF InLine, Lined
      <4> QED BY <4>2
    <3> QED BY <3>1, <3>2, <3>3, <3>4, <3>5, BecomeShows, LeavesOne
  <2> QED BY <1>1, <1>4, <2>1, <2>2, WiredTo
<1> QED BY <1>2, <1>3, <1>4

LEMMA LullLine ==
  ASSUME InLine, Inv', NEW s \in Session, ConfigApplied(s) \/ Masked(s) \/ MaskFails(s)
  PROVE  Lined(Now)' /\ Step
<1>1. Now \in View /\ Now' \in View
  BY DEF InLine, Inv, TypeOK
<1>2. state' = state /\ before' = before
  BY <1>1, LullTo DEF Become, View, Now
<1> QED BY <1>1, <1>2, Still

LEMMA TurnOverLine ==
  ASSUME InLine, NEW s \in Session, NEW next, next = "limited" => s \in Limitable,
         Become(TurnOver(Now, s, next))
  PROVE  Lined(Now)' /\ Step
<1> DEFINE u == [Now EXCEPT !.step[s] = "none"]
           w == NoteIdle(u, s)
<1>0. Now \in View
  BY DEF InLine
<1>1. u \in View /\ Face(u) = Face(Now)
  BY <1>0 DEF View, Steps, Face
<1>2. \/ next = "nudge" /\ Become(BeginTurn([w EXCEPT !.nudging = @ \cup {s}], {s}, "open"))
      \/ next = "limited" /\ Become(Schedule([w EXCEPT !.held = @ \cup {s}, !.nudging = @ \ {s},
                                             !.pend[s] = IF @ = 0 THEN 1 ELSE @]))
      \/ Become(Drain([w EXCEPT !.nudging = @ \ {s}], {s}))
  BY DEF TurnOver
<1> HIDE DEF u
<1>3. w \in View /\ Face(w) = Face(Now)
  BY <1>1, NoteIdleType, NoteIdleFace
<1> HIDE DEF w
<1>4. w.state = Now.state /\ w.before = Now.before
  BY <1>3 DEF Face
<1>5. CASE Become(BeginTurn([w EXCEPT !.nudging = @ \cup {s}], {s}, "open"))
  <2> DEFINE n == [w EXCEPT !.nudging = @ \cup {s}]
             t == BeginTurn(n, {s}, "open")
  <2>1. n \in View /\ n.state = w.state /\ n.before = w.before
    BY <1>3 DEF View
  <2>2. Become(t)
    BY <1>5
  <2> HIDE DEF n
  <2>3. t \in View /\ t.state = w.state /\ t.before = w.before
    <3>1. t \in View
      BY <2>1, BeginTurnType
    <3>2. t.state = n.state /\ t.before = n.before
      BY <2>1 DEF BeginTurn, View
    <3> QED BY <2>1, <3>1, <3>2
  <2> HIDE DEF t
  <2> QED BY <1>4, <2>2, <2>3, Kept
<1>6. CASE /\ next = "limited"
           /\ Become(Schedule([w EXCEPT !.held = @ \cup {s}, !.nudging = @ \ {s},
                                        !.pend[s] = IF @ = 0 THEN 1 ELSE @]))
  <2> DEFINE l == [w EXCEPT !.held = @ \cup {s}, !.nudging = @ \ {s},
                            !.pend[s] = IF @ = 0 THEN 1 ELSE @]
  <2>1. [w.pend EXCEPT ![s] = IF @ = 0 THEN 1 ELSE @] \in [Session -> 0..MaxPend]
    BY <1>3, ViewAssumption DEF View
  <2>2. l \in View /\ l.state = w.state /\ l.before = w.before
    BY <1>3, <1>6, <2>1 DEF View
  <2>3. Become(Schedule(l))
    BY <1>6
  <2> HIDE DEF l
  <2> QED BY <1>4, <2>2, <2>3, Kept
<1>7. CASE Become(Drain([w EXCEPT !.nudging = @ \ {s}], {s}))
  <2> DEFINE d == [w EXCEPT !.nudging = @ \ {s}]
  <2>1. d \in View /\ d.state = w.state /\ d.before = w.before
    BY <1>3 DEF View
  <2>2. Become(Drain(d, {s}))
    BY <1>7
  <2> HIDE DEF d
  <2> QED BY <1>4, <2>1, <2>2, Kept
<1> QED BY <1>2, <1>5, <1>6, <1>7

LEMMA TurnLine ==
  ASSUME InLine, NEW s \in Session, TurnEnds(s) \/ Fails(s) \/ AgentExits(s)
  PROVE  Lined(Now)' /\ Step
<1>1. Now \in View
  BY DEF InLine
<1>2. CASE TurnEnds(s)
  <2> PICK next \in {"done"} \cup (IF s \in Contracted \ nudging THEN {"nudge"} ELSE {})
                            \cup (IF s \in Limitable THEN {"limited"} ELSE {}) :
           Become(TurnOver(Now, s, next))
    BY <1>2 DEF TurnEnds
  <2> QED BY TurnOverLine
<1>3. CASE Fails(s)
  <2>1. CASE state[s] = "starting"
    BY <1>1, <1>3, <2>1, FailedStartLine DEF Fails
  <2>2. CASE state[s] # "starting"
    <3>1. Become(TurnOver(Now, s, "done"))
      BY <1>3, <2>2 DEF Fails
    <3> QED BY <3>1, TurnOverLine
  <2> QED BY <2>1, <2>2
<1>4. CASE AgentExits(s)
  BY <1>1, <1>4, Kept DEF AgentExits
<1> QED BY <1>2, <1>3, <1>4

LEMMA StopLine ==
  ASSUME InLine, NEW s \in Session,
         \/ IdleTimerFires(s) \/ UserStop(s) \/ Release(s)
         \/ \E k \in StopKinds : ContainerStops(s, k) \/ StopRecorded(s, k) \/ StopFails(s, k)
         \/ ReleaseRecorded(s) \/ HandoffSettles(s)
  PROVE  Lined(Now)' /\ Step
<1>1. Now \in View
  BY DEF InLine
<1>2. CASE IdleTimerFires(s)
  <2> DEFINE v == [Now EXCEPT !.armed = @ \ {s}]
             b == BeginStop(v, {s}, "idle")
  <2>1. v \in View /\ v.state = Now.state /\ v.before = Now.before
    BY <1>1 DEF View
  <2>2. Become(v) \/ Become(b) \/ Become(Reap(b))
    BY <1>2 DEF IdleTimerFires
  <2> HIDE DEF v
  <2>3. b \in View /\ Face(b) = Face(v)
    <3>1. b \in View
      BY <2>1, BeginStopType DEF StopKinds
    <3>2. Face(b) = Face(v)
      BY <2>1 DEF BeginStop, Face, View
    <3> QED BY <3>1, <3>2
  <2> HIDE DEF b
  <2>4. Shows(v)
    BY <2>2, <2>3, ReapFace, BecomeShows, FaceShows
  <2> QED BY <2>1, <2>4, Unmoved
<1>3. ASSUME NEW k \in StopKinds, TakeDown(s, k)
      PROVE  Lined(Now)' /\ Step
  <2> DEFINE v == [Now EXCEPT !.stop[s][k] = "begun", !.armed = @ \ {s}]
  <2>1. v \in View /\ v.state = Now.state /\ v.before = Now.before
    BY <1>1 DEF View, StopSteps
  <2>2. Become(v) \/ Become(AgentGone(v, s))
    BY <1>3 DEF TakeDown
  <2> HIDE DEF v
  <2> QED BY <2>1, <2>2, Kept
<1>4. ASSUME NEW k \in StopKinds, ContainerStops(s, k)
      PROVE  Lined(Now)' /\ Step
  <2> DEFINE b == IF k = "release" THEN "none" ELSE "stopped"
             v == [Now EXCEPT !.stop[s][k] = "down", !.box[s] = b]
  <2>1. Become(v) \/ Become(AgentGone(v, s))
    BY <1>4 DEF ContainerStops
  <2>2. b \in BoxStates
    BY DEF BoxStates
  <2> HIDE DEF b
  <2>3. v \in View /\ v.state = Now.state /\ v.before = Now.before
    BY <1>1, <2>2 DEF View, StopSteps
  <2> HIDE DEF v
  <2> QED BY <2>1, <2>3, Kept
<1>5. ASSUME NEW k \in StopKinds, StopRecorded(s, k)
      PROVE  Lined(Now)' /\ Step
  <2> DEFINE p == IF k = "queue" THEN "settle" ELSE "no"
             v == [Now EXCEPT !.stop[s][k] = p, !.cont[s] = "inactive"]
  <2>1. Become(Schedule(v))
    BY <1>5 DEF StopRecorded
  <2>2. p \in StopSteps /\ "inactive" \in ContStates
    BY DEF StopSteps, ContStates
  <2> HIDE DEF p
  <2>3. v \in View /\ v.state = Now.state /\ v.before = Now.before
    BY <1>1, <2>2 DEF View
  <2> HIDE DEF v
  <2> QED BY <2>1, <2>3, Kept
<1>6. ASSUME NEW k \in StopKinds, StopFails(s, k)
      PROVE  Lined(Now)' /\ Step
  <2> DEFINE v == [Now EXCEPT !.stop[s][k] = "no"]
             a == [v EXCEPT !.armed = @ \cup {s}]
  <2>1. Become(v) \/ Become(Schedule(a))
    BY <1>6 DEF StopFails
  <2>2. v \in View /\ v.state = Now.state /\ v.before = Now.before
    BY <1>1 DEF View, StopSteps
  <2> HIDE DEF v
  <2>3. a \in View /\ a.state = Now.state /\ a.before = Now.before
    BY <2>2 DEF View
  <2> HIDE DEF a
  <2> QED BY <2>1, <2>2, <2>3, Kept
<1>7. CASE ReleaseRecorded(s)
  <2> DEFINE v == [Now EXCEPT !.stop[s]["release"] = "no", !.cont[s] = "inactive"]
  <2>1. Become(v)
    BY <1>7 DEF ReleaseRecorded
  <2>2. v \in View /\ v.state = Now.state /\ v.before = Now.before
    BY <1>1 DEF View, StopSteps, ContStates, StopKinds
  <2> HIDE DEF v
  <2> QED BY <2>1, <2>2, Kept
<1>8. CASE HandoffSettles(s)
  <2> DEFINE v == [Now EXCEPT !.stop[s]["queue"] = "no"]
  <2>1. Become(Schedule(v))
    BY <1>8 DEF HandoffSettles
  <2>2. v \in View /\ v.state = Now.state /\ v.before = Now.before
    BY <1>1 DEF View, StopSteps, StopKinds
  <2> HIDE DEF v
  <2> QED BY <2>1, <2>2, Kept
<1> QED
  BY <1>2, <1>3, <1>4, <1>5, <1>6, <1>7, <1>8 DEF UserStop, Release, StopKinds

LEMMA RestartLine ==
  ASSUME InLine, StepsFit(Now), Restart
  PROVE  Lined(Now)' /\ Step
<1>1. Now \in View
  BY DEF InLine
<1>2. PICK v \in View, D \in SUBSET {s \in Session : step[s] \in Lulls} :
        /\ Become(Reap(Schedule(v)))
        /\ v.state = [s \in Session |-> IF Now.state[s] = "starting" \/ s \in D THEN "draft"
                                        ELSE Now.state[s]]
        /\ v.before = Now.before
  BY <1>1, Restored
<1> DEFINE L == {s \in Session : Now.state[s] = "starting" \/ s \in D}
<1>3. \A s \in L : Now.state[s] # "queued"
  BY DEF StepsFit, Now, Lulls
<1>4. Shows(Schedule(v))
  BY <1>2, ScheduleType, ReapFace, BecomeShows, FaceShows
<1>5. v.before = Order(Now, L, {})
  <2>1. Now.before \subseteq Session \X Session
    BY <1>1 DEF View
  <2>2. \A p \in Now.before : {p[1], p[2]} \cap (L \cup {}) = {}
    <3> HIDE DEF L
    <3> QED BY <1>3, <2>1 DEF InLine, Lined
  <2> QED BY <1>2, <2>2 DEF Order
<1>6. Edited(Now, v, L, {})
  BY <1>2, <1>3, <1>5 DEF Edited, Waits, Queued
<1> QED BY <1>4, <1>6, Leaves

(***************************************************************************)
(* The theorem.                                                            *)
(***************************************************************************)
LEMMA NextLine ==
  Inv /\ Lined(Now) /\ [Next]_vars => Lined(Now)' /\ [Step]_(Admission!vars)
<1> SUFFICES ASSUME Inv, Lined(Now), [Next]_vars
             PROVE  Lined(Now)' /\ [Step]_(Admission!vars)
  OBVIOUS
<1>1. InLine /\ Inv'
  BY NextSafe DEF InLine, Inv, TypeOK, Safe
<1>2. CASE UserStep
  BY <1>1, <1>2, UserLine, DeleteLine, StopLine, SettingsLine DEF UserStep
<1>3. CASE Restart
  BY <1>1, <1>3, RestartLine DEF Inv, Safe
<1>4. ASSUME NEW s \in Session, SystemStep(s)
      PROVE  Lined(Now)' /\ Step
  BY <1>1, <1>4, LaunchLine, LullLine, TurnLine, StopLine DEF SystemStep
<1>5. ASSUME NEW s \in Session, Fault(s)
      PROVE  Lined(Now)' /\ Step
  BY <1>1, <1>5, LaunchLine, LullLine, TurnLine, StopLine DEF Fault
<1>6. CASE UNCHANGED vars
  BY <1>6 DEF vars, Lined, Now, Admission!vars, Phase, Using, Active
<1> QED BY <1>1, <1>2, <1>3, <1>4, <1>5, <1>6, RunLine DEF Next

LEMMA InitLine == Init => Lined(Now) /\ Admission!Init
BY DEF Init, Lined, Now, Admission!Init, Phase, Using, Active

LEMMA StepNext == Inv' /\ [Step]_(Admission!vars) => [Admission!Next]_(Admission!vars)
<1> SUFFICES ASSUME Inv', Step
             PROVE  Admission!Next
  OBVIOUS
<1>1. Using' \in SUBSET Session
  BY DEF Using
<1>2. held' \in SUBSET Session /\ cap' \in Caps
  BY ViewAssumption DEF Inv, TypeOK, Now, View
<1> QED BY <1>1, <1>2 DEF Step, Admission!Next

(* Every step of the queue is a step of the waiting line of AdmissionQueue,  *)
(* for any sessions, clones, mounts, caps, limits and failures: a pass lets  *)
(* in those next in line, as many as fit, and only Run lets one in past it.  *)
THEOREM QueueIsAdmission == Spec => ImplementsAdmission
<1>1. Init => Inv /\ Lined(Now) /\ Admission!Init
  BY InitSafe, InitLine
<1>2. Inv /\ Lined(Now) /\ [Next]_vars =>
        /\ (Inv /\ Lined(Now))' /\ [Step]_(Admission!vars)
        /\ [Admission!Next]_(Admission!vars)
  BY NextSafe, NextLine, StepNext
<1> QED
  BY <1>1, <1>2, PTL DEF Spec, ImplementsAdmission, Admission!Spec, Step

(***************************************************************************)
(* QueueMoves and PromptsMove, of a queue whose containers only the idle   *)
(* policy and the handoff stop, whose idle stops do not fail, and which no *)
(* restart interrupts.  Fit: whoever holds a clone has a step, a timer or  *)
(* a stop in flight that will end it.  Settled: once nobody holds one,     *)
(* nobody waits, and no prompt waits that could be sent.  A pass settles   *)
(* the state it leaves, and whatever frees a clone ends in a pass.         *)
(***************************************************************************)
Undisturbed == Handled = {} /\ FailingStops \subseteq {"queue"} /\ MaxRestarts = 0

Shaped(v, s) ==
  /\ v.pend[s] # 0 => v.state[s] = "started"
  /\ v.state[s] = "starting" => v.step[s] # "none"
  /\ v.step[s] \in {"attach", "turn"} \cup Lulls => v.state[s] = "started"
  /\ v.cont[s] = "building" => v.step[s] = "provision" /\ v.state[s] \in {"starting", "started"}
  /\ v.cont[s] = "running" => v.box[s] # "none" /\ Exists(v, s)
  /\ v.stop[s]["user"] = "no" /\ v.stop[s]["release"] = "no"
  /\ v.stop[s]["idle"] # "settle"

Watched(v, s) ==
  v.cont[s] = "running" =>
    \/ v.step[s] # "none" \/ s \in v.armed
    \/ v.stop[s]["idle"] # "no" \/ v.stop[s]["queue"] \in {"begun", "down"}

Fit(v) == \A s \in Session : Shaped(v, s) /\ Watched(v, s)

Settled(v) ==
  /\ (\A s \in Session : ~Active(v, s)) => Waiting(v) = {}
  /\ Drainable(v) = {}

(* What a handler may do: begin a start, a prompt, a handoff or a timer.     *)
Tends(v, w) ==
  /\ w.cont = v.cont /\ w.box = v.box
  /\ \A s \in Session :
       /\ w.pend[s] # 0 => v.pend[s] # 0
       /\ \/ w.state[s] = v.state[s] /\ w.step[s] = v.step[s]
          \/ /\ v.state[s] = "started" /\ w.state[s] = "started"
             /\ v.step[s] = "none" /\ w.step[s] \in {"attach"} \cup Lulls
          \/ v.state[s] = "queued" /\ w.state[s] = "starting" /\ w.step[s] = "resolve"
       /\ w.stop[s]["user"] = v.stop[s]["user"] /\ w.stop[s]["release"] = v.stop[s]["release"]
       /\ w.stop[s]["idle"] = v.stop[s]["idle"]
       /\ w.stop[s]["queue"] \in {v.stop[s]["queue"], "begun"}
       /\ s \in v.armed \ w.armed => w.step[s] # "none" \/ w.stop[s]["queue"] = "begun"

LEMMA TendsTransitive ==
  ASSUME NEW u, NEW v, NEW w, Tends(u, v), Tends(v, w)
  PROVE  Tends(u, w)
BY DEF Tends, Lulls

LEMMA TendsShaped ==
  ASSUME NEW v, NEW w, NEW s \in Session, Tends(v, w), Shaped(v, s)
  PROVE  Shaped(w, s)
<1>1. /\ w.pend[s] # 0 => w.state[s] = "started"
      /\ w.state[s] = "starting" => w.step[s] # "none"
      /\ w.step[s] \in {"attach", "turn"} \cup Lulls => w.state[s] = "started"
  BY DEF Tends, Shaped, Lulls
<1>2. w.cont[s] = "building" => w.step[s] = "provision" /\ w.state[s] \in {"starting", "started"}
  BY DEF Tends, Shaped
<1>3. w.cont[s] = "running" => w.box[s] # "none" /\ Exists(w, s)
  BY DEF Tends, Shaped, Exists
<1>4. /\ w.stop[s]["user"] = "no" /\ w.stop[s]["release"] = "no"
      /\ w.stop[s]["idle"] # "settle"
  BY DEF Tends, Shaped
<1> QED BY <1>1, <1>2, <1>3, <1>4 DEF Shaped

LEMMA TendsWatched ==
  ASSUME NEW v, NEW w, NEW s \in Session, Tends(v, w), Watched(v, s)
  PROVE  Watched(w, s)
BY DEF Tends, Watched, Lulls

LEMMA TendsFit ==
  ASSUME NEW v, NEW w, Tends(v, w), Fit(v)
  PROVE  Fit(w)
BY TendsShaped, TendsWatched DEF Fit

(* A session of which nothing changes but its timer.                         *)
Same(v, w, s) ==
  /\ w.state[s] = v.state[s] /\ w.step[s] = v.step[s] /\ w.cont[s] = v.cont[s]
  /\ w.box[s] = v.box[s] /\ w.pend[s] = v.pend[s]
  /\ \A k \in StopKinds : w.stop[s][k] = v.stop[s][k]

LEMMA SameShaped ==
  ASSUME NEW v, NEW w, NEW s, Same(v, w, s), Shaped(v, s)
  PROVE  Shaped(w, s)
BY DEF Same, Shaped, Exists, StopKinds

LEMMA SameFit ==
  ASSUME NEW v, NEW w, NEW s, Same(v, w, s), s \in v.armed => s \in w.armed,
         Shaped(v, s), Watched(v, s)
  PROVE  Shaped(w, s) /\ Watched(w, s)
<1>1. Shaped(w, s)
  BY SameShaped
<1>2. Watched(w, s)
  BY DEF Same, Watched, StopKinds
<1> QED BY <1>1, <1>2

LEMMA DrainTends ==
  ASSUME NEW v \in View, NEW S \in SUBSET Session
  PROVE  Tends(v, Drain(v, S))
<1> DEFINE D == S \cap Drainable(v)
           w == Drain(v, S)
<1>1. /\ w.step = [s \in Session |-> IF s \in D THEN Opening("mask") ELSE v.step[s]]
      /\ w.pend = [s \in Session |-> IF s \in D THEN v.pend[s] - 1 ELSE v.pend[s]]
      /\ w.state = v.state /\ w.cont = v.cont /\ w.box = v.box /\ w.stop = v.stop
      /\ w.armed = v.armed \ D
  BY DEF Drain, BeginTurn, View
<1>2. /\ D \subseteq Session
      /\ \A s \in D : v.state[s] = "started" /\ v.step[s] = "none" /\ v.pend[s] # 0
  BY DEF Drainable
<1> HIDE DEF w, D
<1>3. ASSUME NEW s \in Session
      PROVE  w.pend[s] # 0 => v.pend[s] # 0
  BY <1>1, <1>2
<1> QED
  BY <1>1, <1>2, <1>3, Openings DEF Tends, Lulls, w

LEMMA ScheduleTends ==
  ASSUME NEW v \in View
  PROVE  Tends(v, Schedule(v))
<1> DEFINE A == Admitted(v)
           u == StartAll(v, A)
<1>1. A \in SUBSET Session /\ \A s \in A : v.state[s] = "queued"
  BY DEF Admitted, Startable, Waiting
<1> HIDE DEF A
<1>2. u \in View
  BY <1>1, StartAllType
<1>3. /\ u.state = [s \in Session |-> IF s \in A THEN "starting" ELSE v.state[s]]
      /\ u.step = [s \in Session |-> IF s \in A THEN "resolve" ELSE v.step[s]]
      /\ u.cont = v.cont /\ u.box = v.box /\ u.stop = v.stop /\ u.pend = v.pend
      /\ u.armed = v.armed \ A
  BY DEF StartAll, Unqueue, View
<1> HIDE DEF u
<1>4. Tends(v, u)
  BY <1>1, <1>3 DEF Tends
<1>5. Tends(u, Drain(u, Session))
  BY <1>2, DrainTends
<1> QED
  BY <1>4, <1>5, TendsTransitive DEF Schedule, u, A

LEMMA ReapTends ==
  ASSUME NEW v \in View
  PROVE  Tends(v, Reap(v))
<1> DEFINE B == {s \in BlockingQueue(v) : v.stop[s]["queue"] = "no"}
           w == Reap(v)
<1>1. /\ w.stop = [s \in Session |-> IF s \in B THEN [v.stop[s] EXCEPT !["queue"] = "begun"]
                                     ELSE v.stop[s]]
      /\ w.state = v.state /\ w.step = v.step /\ w.cont = v.cont /\ w.box = v.box
      /\ w.pend = v.pend /\ w.armed = (v.armed \ B) \cup (B \cap v.agent)
  BY DEF Reap, BeginStop, View
<1>2. \A s \in Session : v.stop[s] \in [StopKinds -> StopSteps]
  BY DEF View
<1>3. ASSUME NEW s \in Session
      PROVE  /\ w.stop[s]["user"] = v.stop[s]["user"]
             /\ w.stop[s]["release"] = v.stop[s]["release"]
             /\ w.stop[s]["idle"] = v.stop[s]["idle"]
             /\ w.stop[s]["queue"] = IF s \in B THEN "begun" ELSE v.stop[s]["queue"]
  <2>1. v.stop[s] \in [StopKinds -> StopSteps]
    BY <1>2
  <2>2. w.stop[s] = IF s \in B THEN [v.stop[s] EXCEPT !["queue"] = "begun"] ELSE v.stop[s]
    BY <1>1
  <2> HIDE DEF w, B
  <2> QED BY <2>1, <2>2 DEF StopKinds
<1> HIDE DEF w, B
<1> QED
  BY <1>1, <1>3 DEF Tends, w

(* Once the idle policy has looked at a session, it is watched.              *)
LEMMA NoteIdleFit ==
  ASSUME NEW v \in View, NEW s \in Session, \A t \in Session : Shaped(v, t),
         \A t \in Session \ {s} : Watched(v, t)
  PROVE  Fit(NoteIdle(v, s))
<1> DEFINE a == IF Idle(v, s) THEN [v EXCEPT !.armed = @ \cup {s}] ELSE v
<1>1. /\ a \in View /\ a.state = v.state /\ a.step = v.step /\ a.cont = v.cont
      /\ a.box = v.box /\ a.stop = v.stop /\ a.pend = v.pend
      /\ a.armed = IF Idle(v, s) THEN v.armed \cup {s} ELSE v.armed
  BY DEF View
<1>2. NoteIdle(v, s) = Reap(a)
  BY DEF NoteIdle
<1> HIDE DEF a
<1>3. \A t \in Session : Same(v, a, t) /\ (t \in v.armed => t \in a.armed)
  BY <1>1 DEF Same
<1>4. Watched(a, s)
  BY <1>1 DEF Watched, Shaped, Idle, Busy, Lulls
<1>5. \A t \in Session : Shaped(a, t)
  BY <1>3, SameShaped
<1>6. \A t \in Session \ {s} : Watched(a, t)
  BY <1>3, SameFit
<1>7. Fit(a)
  BY <1>4, <1>5, <1>6 DEF Fit
<1> QED
  BY <1>1, <1>2, <1>7, ReapTends, TendsFit

LEMMA AgentGoneFit ==
  ASSUME NEW v \in View, NEW s \in Session, Fit(v)
  PROVE  Fit(AgentGone(v, s))
<1> DEFINE p == IF v.step[s] = "turn" THEN "none" ELSE v.step[s]
           u == [v EXCEPT !.agent = @ \ {s},
                          !.step[s] = IF v.step[s] = "turn" THEN "none" ELSE @]
           w == NoteIdle(u, s)
           f == [w EXCEPT !.step[s] = "failed"]
<1>1. u \in View
  BY DEF View, Steps
<1>2. /\ u.state = v.state /\ u.stop = v.stop /\ u.cont = v.cont /\ u.box = v.box
      /\ u.pend = v.pend /\ u.armed = v.armed
      /\ \A t \in Session : u.step[t] = IF t = s THEN p ELSE v.step[t]
  BY DEF View
<1> HIDE DEF u
<1>3. \A t \in Session \ {s} : Shaped(u, t) /\ Watched(u, t)
  BY <1>2, SameFit DEF Fit, Same
<1>4. Shaped(u, s)
  BY <1>2 DEF Fit, Shaped, Exists
<1>5. Fit(w) /\ w \in View /\ w.step = u.step
  <2>1. Fit(w)
    BY <1>1, <1>3, <1>4, NoteIdleFit
  <2>2. w \in View /\ w.step = u.step
    BY <1>1, NoteIdleType, NoteIdleCore DEF Core
  <2> QED BY <2>1, <2>2
<1>6. CASE v.step[s] = "turn"
  <2>0. w.step[s] = "none"
    BY <1>2, <1>5, <1>6
  <2> HIDE DEF w
  <2>1. /\ f.state = w.state /\ f.stop = w.stop /\ f.cont = w.cont /\ f.box = w.box
        /\ f.pend = w.pend /\ f.armed = w.armed
        /\ \A t \in Session : f.step[t] = IF t = s THEN "failed" ELSE w.step[t]
    BY <1>5 DEF View
  <2> HIDE DEF f
  <2>2. \A t \in Session \ {s} : Shaped(f, t) /\ Watched(f, t)
    BY <1>5, <2>1, SameFit DEF Fit, Same
  <2>3. Shaped(f, s) /\ Watched(f, s)
    BY <1>5, <2>0, <2>1 DEF Fit, Shaped, Watched, Exists, Lulls
  <2>4. Fit(f)
    BY <2>2, <2>3 DEF Fit
  <2> QED BY <1>6, <2>4 DEF AgentGone, f, w, u
<1>7. CASE v.step[s] # "turn"
  BY <1>5, <1>7 DEF AgentGone, w, u
<1> QED BY <1>6, <1>7

(***************************************************************************)
(* Settling.                                                               *)
(***************************************************************************)

(* Of the items that wait together one is the first in line.                 *)
LEMMA FirstInLine ==
  ASSUME NEW u \in View, NEW S \in SUBSET Session, S # {}, Ordered(u), Lined(u),
         \A s \in S : u.state[s] = "queued"
  PROVE  \E m \in S : \A s \in S : s # m => <<m, s>> \in u.before
<1> DEFINE back == {p \in Session \X Session : <<p[2], p[1]>> \in u.before}
           w == [u EXCEPT !.before = back]
<1>1. \A s, t \in Session : <<s, t>> \in back <=> <<t, s>> \in u.before
  OBVIOUS
<1>2. back \in SUBSET (Session \X Session)
  OBVIOUS
<1> HIDE DEF back
<1>3. w \in View /\ w.before = back /\ w.state = u.state
  BY <1>2 DEF View
<1> HIDE DEF w
<1>4. Ordered(w)
  BY <1>1, <1>3 DEF Ordered
<1>4a. Lined(w)
  <2>1. \A s, t \in Session : <<s, t>> \in w.before =>
          s # t /\ w.state[s] = "queued" /\ w.state[t] = "queued"
    BY <1>1, <1>3 DEF Lined
  <2>2. \A s, t, r \in Session :
          <<s, t>> \in w.before /\ <<t, r>> \in w.before => <<s, r>> \in w.before
    BY <1>1, <1>3 DEF Lined
  <2> QED BY <2>1, <2>2 DEF Lined
<1>5. PICK m \in S : \A s \in S : s # m => <<s, m>> \in w.before
  BY <1>3, <1>4, <1>4a, LastInLine
<1> QED
  BY <1>1, <1>3, <1>5

LEMMA DrainSettles ==
  ASSUME NEW v \in View, NEW S \in SUBSET Session, Drainable(v) \subseteq S
  PROVE  Drainable(Drain(v, S)) = {}
<1> DEFINE D == S \cap Drainable(v)
           w == Drain(v, S)
<1>1. /\ w.step = [s \in Session |-> IF s \in D THEN Opening("mask") ELSE v.step[s]]
      /\ w.pend = [s \in Session |-> IF s \in D THEN v.pend[s] - 1 ELSE v.pend[s]]
      /\ w.state = v.state /\ w.cont = v.cont /\ w.recovering = v.recovering
      /\ w.held = v.held
  BY DEF Drain, BeginTurn, View
<1>2. D = Drainable(v)
  OBVIOUS
<1> HIDE DEF w, D
<1>3. \A s \in Session : Holders(w, s) = Holders(v, s)
  BY <1>1 DEF Holders, Active
<1>4. \A s \in Session : s \in D => w.step[s] # "none"
  BY <1>1, <1>2, Openings
<1>5. \A s \in Session : s \notin D => w.step[s] = v.step[s] /\ w.pend[s] = v.pend[s]
  BY <1>1
<1>6. \A s \in Session : s \notin Drainable(w)
  BY <1>1, <1>2, <1>3, <1>4, <1>5 DEF Drainable
<1> QED
  BY <1>6 DEF Drainable, w

(* A pass leaves nobody waiting that could be let in into an idle task, and  *)
(* no prompt waiting that could be sent.                                     *)
LEMMA ScheduleSettles ==
  ASSUME NEW x \in View, Ordered(Schedule(x)), Lined(Schedule(x))
  PROVE  Settled(Schedule(x))
<1> DEFINE A == Admitted(x)
           u == StartAll(x, A)
           w == Schedule(x)
<1>1. A \in SUBSET Session
  BY DEF Admitted, Startable, Waiting
<1>2. u \in View
  <2> HIDE DEF A
  <2> QED BY <1>1, StartAllType
<1>3. Drainable(w) = {}
  <2>1. w = Drain(u, Session)
    BY DEF Schedule
  <2>2. Drainable(u) \subseteq Session
    BY DEF Drainable
  <2> HIDE DEF u, w
  <2> QED BY <1>2, <2>1, <2>2, DrainSettles
<1>4. /\ w.state = [s \in Session |-> IF s \in A THEN "starting" ELSE x.state[s]]
      /\ w.before = {p \in x.before : p[1] \notin A /\ p[2] \notin A}
      /\ w.cont = x.cont /\ w.held = x.held /\ w.cap = x.cap
  BY PassFace
<1>5. ASSUME \A s \in Session : ~Active(w, s), Waiting(w) # {}
      PROVE  FALSE
  <2>1. A = {}
    <3> HIDE DEF A, w
    <3> QED BY <1>1, <1>4, <1>5 DEF Active
  <2>2. \A s \in Session : w.state[s] = x.state[s]
    <3> HIDE DEF A, w
    <3> QED BY <1>4, <2>1
  <2>3. w.before = x.before
    <3> HIDE DEF A, w
    <3> QED BY <1>4, <2>1
  <2>4. w \in View
    BY ScheduleType
  <2> HIDE DEF w
  <2>5. Waiting(w) = Waiting(x) /\ Waiting(w) \in SUBSET Session
    BY <1>4, <2>2 DEF Waiting
  <2>6. \A s \in Session : ~Active(x, s)
    BY <1>4, <1>5, <2>2 DEF Active
  <2>7. PICK m \in Waiting(w) : \A s \in Waiting(w) : s # m => <<m, s>> \in w.before
    <3>1. \A s \in Waiting(w) : w.state[s] = "queued"
      BY DEF Waiting
    <3>2. Ordered(w) /\ Lined(w)
      BY DEF w
    <3> QED BY <1>5, <2>4, <2>5, <3>1, <3>2, FirstInLine
  <2>8. \A t \in Waiting(x) : <<t, m>> \notin x.before
    <3>1. Lined(w)
      BY DEF w
    <3>2. \A t \in Waiting(w) : t # m => <<m, t>> \in w.before
      BY <2>7
    <3>3. \A t \in Session : <<t, t>> \notin w.before
      BY <3>1 DEF Lined
    <3> QED BY <2>3, <2>5, <2>7, <3>1, <3>2, <3>3 DEF Lined
  <2>9. m \in Startable(x)
    BY <2>5, <2>6, <2>7, <2>8 DEF Startable, Holders
  <2> DEFINE ahead == {t \in Startable(x) : <<t, m>> \in x.before}
  <2>10. ahead = {}
    BY <2>8 DEF Startable
  <2>11. ActiveCount(StartAll(x, {})) + Cardinality({}) = 0
    <3> DEFINE e == StartAll(x, {})
    <3>1. \A s \in Session : e.state[s] = x.state[s] /\ e.cont[s] = x.cont[s]
      BY DEF StartAll, Unqueue, View
    <3> HIDE DEF e
    <3>2. {s \in Session : Active(e, s)} = {}
      BY <2>6, <3>1 DEF Active
    <3>3. ActiveCount(e) = 0
      BY <3>2, FS_EmptySet DEF ActiveCount
    <3> QED BY <3>3, FS_EmptySet DEF e
  <2>12. x.cap = 0 \/ 0 < x.cap
    <3>1. x.cap \in Nat
      BY ViewAssumption DEF View
    <3> QED BY <3>1
  <2>13. x.cap = 0 \/ ActiveCount(StartAll(x, ahead)) + Cardinality(ahead) < x.cap
    BY <2>10, <2>11, <2>12
  <2>14. m \in A
    BY <2>9, <2>13 DEF Admitted
  <2> QED BY <2>1, <2>14
<1> QED
  BY <1>3, <1>5 DEF Settled

(* What is neither let go of nor added to stays settled.                     *)
Eases(v, w) ==
  \A s \in Session :
    /\ Active(v, s) => Active(w, s)
    /\ w.state[s] = "queued" /\ s \notin w.held => v.state[s] = "queued" /\ s \notin v.held
    /\ /\ w.pend[s] > 0 /\ w.state[s] = "started" /\ w.step[s] = "none"
       /\ s \notin w.recovering \cup w.held
       => /\ v.pend[s] > 0 /\ v.state[s] = "started" /\ v.step[s] = "none"
          /\ s \notin v.recovering \cup v.held

LEMMA EasesSettled ==
  ASSUME NEW v, NEW w, Settled(v), Eases(v, w)
  PROVE  Settled(w)
<1>1. Waiting(w) \subseteq Waiting(v)
  BY DEF Eases, Waiting
<1>2. \A s \in Session : Holders(v, s) \subseteq Holders(w, s)
  BY DEF Eases, Holders
<1>3. Drainable(w) \subseteq Drainable(v)
  BY <1>2 DEF Eases, Drainable
<1> QED
  BY <1>1, <1>3 DEF Eases, Settled

(* What Settled speaks of.                                                   *)
Rest(v) == <<v.state, v.cont, v.step, v.pend, v.recovering, v.held>>

LEMMA RestEases ==
  ASSUME NEW v, NEW w, Rest(w) = Rest(v)
  PROVE  Eases(v, w)
BY DEF Rest, Eases, Active

LEMMA ReapRest ==
  ASSUME NEW v \in View
  PROVE  Rest(Reap(v)) = Rest(v)
BY DEF Reap, BeginStop, Rest, View

LEMMA NoteIdleRest ==
  ASSUME NEW v \in View, NEW s \in Session
  PROVE  Rest(NoteIdle(v, s)) = Rest(v)
<1> DEFINE a == [v EXCEPT !.armed = @ \cup {s}]
<1>1. a \in View /\ Rest(a) = Rest(v)
  BY DEF View, Rest
<1> HIDE DEF a
<1> QED
  BY <1>1, ReapRest DEF NoteIdle, a

LEMMA AgentGoneEases ==
  ASSUME NEW v \in View, NEW s \in Session
  PROVE  Eases(v, AgentGone(v, s))
<1> DEFINE p == IF v.step[s] = "turn" THEN "none" ELSE v.step[s]
           u == [v EXCEPT !.agent = @ \ {s},
                          !.step[s] = IF v.step[s] = "turn" THEN "none" ELSE @]
           w == NoteIdle(u, s)
           f == [w EXCEPT !.step[s] = "failed"]
<1>1. u \in View
  BY DEF View, Steps
<1>2. /\ u.state = v.state /\ u.cont = v.cont /\ u.pend = v.pend
      /\ u.recovering = v.recovering /\ u.held = v.held
      /\ \A t \in Session : u.step[t] = IF t = s THEN p ELSE v.step[t]
  BY DEF View
<1> HIDE DEF u
<1>3. w \in View /\ Rest(w) = Rest(u)
  BY <1>1, NoteIdleType, NoteIdleRest
<1> HIDE DEF w
<1>4. CASE v.step[s] = "turn"
  <2>1. /\ f.state = w.state /\ f.cont = w.cont /\ f.pend = w.pend
        /\ f.recovering = w.recovering /\ f.held = w.held
        /\ \A t \in Session : f.step[t] = IF t = s THEN "failed" ELSE w.step[t]
    BY <1>3 DEF View
  <2> HIDE DEF f
  <2>2. Eases(v, f)
    BY <1>2, <1>3, <2>1 DEF Rest, Eases, Active
  <2> QED BY <1>4, <2>2 DEF AgentGone, f, w, u
<1>5. CASE v.step[s] # "turn"
  <2>1. Eases(v, w)
    BY <1>2, <1>3, <1>5 DEF Rest, Eases, Active
  <2> QED BY <1>5, <2>1 DEF AgentGone, w, u
<1> QED BY <1>4, <1>5

(* The end of a turn, or a prompt: one session may have a prompt to send.    *)
LEMMA DrainOne ==
  ASSUME NEW v \in View, NEW u, NEW s \in Session, Fit(v), Settled(u),
         \A t \in Session : /\ Active(v, t) <=> Active(u, t)
                            /\ v.state[t] = u.state[t] /\ v.held = u.held,
         \A t \in Session \ {s} : /\ v.pend[t] = u.pend[t] /\ v.step[t] = u.step[t]
                                  /\ t \in v.recovering <=> t \in u.recovering
  PROVE  Fit(Drain(v, {s})) /\ Settled(Drain(v, {s}))
<1> DEFINE d == Drain(v, {s})
<1>1. Fit(d)
  BY DrainTends, TendsFit
<1>2. \A t \in Session : Holders(v, t) = Holders(u, t)
  BY DEF Holders
<1>3. Drainable(v) \subseteq {s}
  BY <1>2 DEF Drainable, Settled
<1>4. Drainable(d) = {}
  BY <1>3, DrainSettles
<1>5. d.state = v.state /\ d.cont = v.cont /\ d.held = v.held
  BY DEF Drain, BeginTurn, View
<1> HIDE DEF d
<1>6. Waiting(d) = Waiting(u) /\ \A t \in Session : Active(d, t) <=> Active(u, t)
  BY <1>5 DEF Waiting, Active
<1>7. Settled(d)
  BY <1>4, <1>6 DEF Settled
<1> QED
  BY <1>1, <1>7 DEF d

(* The actions.                                                              *)
Standing == Inv /\ Visible(Now) /\ Fit(Now) /\ Settled(Now) /\ Undisturbed

Stands == Fit(Now) /\ Settled(Now)

LEMMA BecomeIs ==
  ASSUME NEW w \in View, Become(w)
  PROVE  Now' = w
BY DEF Become, Now, View

LEMMA BecomeStands ==
  ASSUME NEW w \in View, Become(w), Fit(w), Settled(w)
  PROVE  Stands'
<1>1. Now' = w
  BY BecomeIs
<1>2. Fit(Now)'
  BY <1>1 DEF Fit, Shaped, Watched, Exists
<1>3. Settled(Now)'
  BY <1>1 DEF Settled, Active, Waiting, Drainable, Holders
<1> QED BY <1>2, <1>3 DEF Stands

LEMMA PassStands ==
  ASSUME NEW x \in View, Fit(x), Ordered(Now)', Lined(Now)',
         Become(Schedule(x)) \/ Become(Reap(Schedule(x)))
  PROVE  Stands'
<1> DEFINE w == Schedule(x)
           r == Reap(w)
<1>1. w \in View /\ Fit(w)
  BY ScheduleType, ScheduleTends, TendsFit
<1>2. Ordered(w) /\ Lined(w) => Settled(w)
  BY ScheduleSettles
<1>3. Become(w) \/ Become(r)
  OBVIOUS
<1> HIDE DEF w
<1>4. r \in View /\ Fit(r) /\ Core(r) = Core(w) /\ Rest(r) = Rest(w)
  BY <1>1, ReapType, ReapTends, TendsFit, ReapCore, ReapRest
<1> HIDE DEF r
<1>5. Now' = w \/ Now' = r
  BY <1>1, <1>3, <1>4, BecomeIs
<1>6. state' = w.state /\ before' = w.before
  BY <1>3, <1>4 DEF Become, Core
<1>7. Ordered(w) /\ Lined(w)
  BY <1>6 DEF Ordered, Lined, Now
<1>8. Settled(w) /\ Settled(r)
  BY <1>2, <1>4, <1>7, RestEases, EasesSettled
<1> QED
  BY <1>1, <1>3, <1>4, <1>8, BecomeStands

(* An action of one session, up to the handlers that follow.                 *)
LEMMA OthersFit ==
  ASSUME NEW v, NEW s \in Session, Fit(Now), Shaped(v, s), Watched(v, s),
         \A t \in Session \ {s} : Same(Now, v, t) /\ (t \in Now.armed => t \in v.armed)
  PROVE  Fit(v)
BY SameFit DEF Fit

LEMMA FailedStartStands ==
  ASSUME Standing, NEW v \in View, NEW s \in Session, Ordered(Now)', Lined(Now)',
         \A t \in Session : Same(Now, v, t),
         \A t \in Session \ {s} : t \in Now.armed => t \in v.armed,
         v.state[s] # "started", v.step[s] \in {"none", "failed"}, Exists(v, s),
         Become(FailedStart(v, s))
  PROVE  Stands'
<1> DEFINE u == Unqueue(v, {s})
           w == [u EXCEPT !.state[s] = "draft", !.step[s] = "none"]
           n == NoteIdle(w, s)
<1>1. u \in View
  BY UnqueueType
<1>2. w \in View
  <2> HIDE DEF u
  <2> QED BY <1>1 DEF View, SessionStates, Steps
<1>3. /\ \A t \in Session : /\ w.state[t] = IF t = s THEN "draft" ELSE v.state[t]
                            /\ w.step[t] = IF t = s THEN "none" ELSE v.step[t]
      /\ w.cont = v.cont /\ w.box = v.box /\ w.pend = v.pend /\ w.stop = v.stop
      /\ w.armed = v.armed
  BY DEF Unqueue, View
<1>4. Become(Schedule(n))
  BY DEF FailedStart
<1> HIDE DEF w
<1>5. \A t \in Session \ {s} : Shaped(w, t) /\ Watched(w, t)
  <2>1. \A t \in Session \ {s} : Same(Now, w, t) /\ (t \in Now.armed => t \in w.armed)
    BY <1>3 DEF Same
  <2> QED BY <2>1, SameFit DEF Standing, Fit
<1>6. Shaped(v, s)
  BY SameShaped DEF Standing, Fit
<1>7. Shaped(w, s)
  BY <1>3, <1>6 DEF Shaped, Exists, Lulls
<1>8. n \in View /\ Fit(n)
  <2>1. \A t \in Session : Shaped(w, t)
    BY <1>5, <1>7
  <2> QED BY <1>2, <1>5, <2>1, NoteIdleType, NoteIdleFit
<1> HIDE DEF n
<1> QED
  BY <1>4, <1>8, PassStands

LEMMA EnqueuedStands ==
  ASSUME Standing, NEW s \in Session, Ordered(Now)', Lined(Now)',
         state[s] \in {"draft", "queued"}, Become(Enqueued(Now, s))
  PROVE  Stands'
<1> DEFINE behind == {<<t, s>> : t \in {t \in Session \ {s} : Now.state[t] = "queued"}}
           u == Unqueue(Now, {s})
           q == [u EXCEPT !.state[s] = "queued", !.before = @ \cup behind]
           r == Reap(q)
<1>0. Now \in View /\ Fit(Now) /\ Now.state[s] \in {"draft", "queued"}
  BY DEF Standing, Inv, TypeOK, Now
<1>1. u \in View /\ behind \in SUBSET (Session \X Session)
  BY <1>0, UnqueueType
<1>2. q \in View
  <2> HIDE DEF u, behind
  <2> QED BY <1>1 DEF View, SessionStates
<1>3. /\ \A t \in Session : q.state[t] = IF t = s THEN "queued" ELSE Now.state[t]
      /\ q.step = Now.step /\ q.cont = Now.cont /\ q.box = Now.box /\ q.pend = Now.pend
      /\ q.stop = Now.stop /\ q.armed = Now.armed
  BY <1>0 DEF Unqueue, View
<1>4. Become(Schedule(r))
  BY DEF Enqueued
<1> HIDE DEF q
<1>5. Shaped(q, s) /\ Watched(q, s)
  BY <1>0, <1>3 DEF Fit, Shaped, Watched, Exists
<1>6. \A t \in Session \ {s} : Same(Now, q, t) /\ (t \in Now.armed => t \in q.armed)
  BY <1>3 DEF Same
<1>7. r \in View /\ Fit(r)
  BY <1>0, <1>2, <1>5, <1>6, OthersFit, ReapType, ReapTends, TendsFit
<1> HIDE DEF r
<1> QED
  BY <1>4, <1>7, PassStands

LEMMA UserStands ==
  ASSUME Standing, NEW s \in Session, Ordered(Now)', Lined(Now)',
         CreateSession(s) \/ Enqueue(s) \/ CancelQueue(s) \/ Run(s)
  PROVE  Stands'
<1>1. /\ Now \in View /\ Fit(Now) /\ Settled(Now) /\ StepsFit(Now)
      /\ Now.state = state /\ state[s] \in {"absent", "draft", "queued"}
  BY DEF Standing, Inv, TypeOK, Safe, CreateSession, Enqueue, CancelQueue, Run, Now
<1>2. Now.step[s] = "none"
  BY <1>1 DEF StepsFit
<1>3. CASE CreateSession(s) \/ CancelQueue(s)
  <2> DEFINE v == [Now EXCEPT !.state[s] = "draft"]
             u == Unqueue(Now, {s})
             c == [u EXCEPT !.state[s] = "draft"]
  <2>1. Become(NoteIdle(v, s)) \/ Become(NoteIdle(c, s))
    BY <1>3 DEF CreateSession, CancelQueue
  <2>2. ASSUME NEW x \in View, Become(NoteIdle(x, s)),
               \A t \in Session : x.state[t] = IF t = s THEN "draft" ELSE Now.state[t],
               x.step = Now.step, x.cont = Now.cont, x.box = Now.box, x.pend = Now.pend,
               x.stop = Now.stop, x.armed = Now.armed, x.held = Now.held,
               x.recovering = Now.recovering
        PROVE  Stands'
    <3>1. \A t \in Session \ {s} : Same(Now, x, t) /\ (t \in Now.armed => t \in x.armed)
      BY <2>2 DEF Same
    <3>2. Shaped(x, s)
      BY <1>1, <1>2, <2>2 DEF Fit, Shaped, Exists
    <3>3. \A t \in Session \ {s} : Shaped(x, t) /\ Watched(x, t)
      BY <1>1, <3>1, SameFit DEF Fit
    <3>4. Eases(Now, x)
      BY <1>1, <2>2 DEF Eases, Active
    <3> DEFINE n == NoteIdle(x, s)
    <3>5. n \in View /\ Fit(n) /\ Rest(n) = Rest(x)
      BY <2>2, <3>2, <3>3, NoteIdleType, NoteIdleFit, NoteIdleRest
    <3> HIDE DEF n
    <3>6. Settled(n)
      BY <1>1, <3>4, <3>5, RestEases, EasesSettled
    <3> QED
      BY <2>2, <3>5, <3>6, BecomeStands DEF n
  <2>3. /\ v \in View
        /\ \A t \in Session : v.state[t] = IF t = s THEN "draft" ELSE Now.state[t]
        /\ v.step = Now.step /\ v.cont = Now.cont /\ v.box = Now.box /\ v.pend = Now.pend
        /\ v.stop = Now.stop /\ v.armed = Now.armed /\ v.held = Now.held
        /\ v.recovering = Now.recovering
    BY <1>1 DEF View, SessionStates
  <2>4. c \in View
    <3>1. u \in View
      BY <1>1, UnqueueType
    <3> HIDE DEF u
    <3> QED BY <3>1 DEF View, SessionStates
  <2>5. /\ \A t \in Session : c.state[t] = IF t = s THEN "draft" ELSE Now.state[t]
        /\ c.step = Now.step /\ c.cont = Now.cont /\ c.box = Now.box /\ c.pend = Now.pend
        /\ c.stop = Now.stop /\ c.armed = Now.armed /\ c.held = Now.held
        /\ c.recovering = Now.recovering
    BY <1>1 DEF Unqueue, View
  <2> HIDE DEF v, c
  <2> QED
    BY <2>1, <2>2, <2>3, <2>4, <2>5
<1>4. CASE Become(Enqueued(Now, s)) /\ state[s] \in {"draft", "queued"}
  BY <1>4, EnqueuedStands
<1>5. CASE Run(s)
  <2> DEFINE v == [Now EXCEPT !.armed = @ \ {s}]
  <2>1. \/ Become(Enqueued(Now, s)) \/ Become(FailedStart(v, s)) \/ Become(StartAll(v, {s}))
    BY <1>5 DEF Run
  <2>2. /\ v \in View /\ v.state = Now.state /\ v.step = Now.step /\ v.cont = Now.cont
        /\ v.box = Now.box /\ v.pend = Now.pend /\ v.stop = Now.stop /\ v.held = Now.held
        /\ v.recovering = Now.recovering /\ v.armed = Now.armed \ {s}
        /\ state[s] \in {"draft", "queued"}
    BY <1>1, <1>5 DEF View, Run
  <2> HIDE DEF v
  <2>3. CASE Become(FailedStart(v, s))
    <3>1. \A t \in Session : Same(Now, v, t)
      BY <2>2 DEF Same
    <3>2. v.state[s] # "started" /\ Exists(v, s) /\ v.step[s] = "none"
      BY <1>1, <1>2, <2>2 DEF Exists
    <3>3. \A t \in Session \ {s} : t \in Now.armed => t \in v.armed
      BY <2>2
    <3> QED BY <2>2, <2>3, <3>1, <3>2, <3>3, FailedStartStands
  <2>4. CASE Become(StartAll(v, {s}))
    <3> DEFINE w == StartAll(v, {s})
    <3>1. /\ \A t \in Session : /\ w.state[t] = IF t = s THEN "starting" ELSE v.state[t]
                                /\ w.step[t] = IF t = s THEN "resolve" ELSE v.step[t]
          /\ w.cont = v.cont /\ w.box = v.box /\ w.pend = v.pend /\ w.stop = v.stop
          /\ w.held = v.held /\ w.recovering = v.recovering /\ w.armed = v.armed \ {s}
      BY <2>2 DEF StartAll, Unqueue, View
    <3>2. w \in View
      BY <2>2, StartAllType
    <3> HIDE DEF w
    <3>3. Shaped(w, s) /\ Watched(w, s)
      BY <1>1, <1>2, <2>2, <3>1 DEF Fit, Shaped, Watched, Exists, Lulls
    <3>4. \A t \in Session \ {s} : Same(Now, w, t) /\ (t \in Now.armed => t \in w.armed)
      BY <2>2, <3>1 DEF Same
    <3>5. Fit(w)
      BY <1>1, <3>3, <3>4, OthersFit
    <3>6. Eases(Now, w)
      BY <2>2, <3>1 DEF Eases, Active
    <3>7. Settled(w)
      BY <1>1, <3>6, EasesSettled
    <3> QED
      BY <2>4, <3>2, <3>5, <3>7, BecomeStands DEF w
  <2> QED
    BY <1>4, <2>1, <2>2, <2>3, <2>4
<1> QED
  BY <1>3, <1>4, <1>5 DEF Enqueue

(* A step of one session that lets go of nothing.                            *)
LEMMA StepStands ==
  ASSUME Standing, NEW v \in View, NEW s \in Session, Become(v), Shaped(v, s), Watched(v, s),
         \A t \in Session \ {s} : Same(Now, v, t) /\ (t \in Now.armed => t \in v.armed),
         Eases(Now, v)
  PROVE  Stands'
<1>1. Fit(v)
  BY OthersFit DEF Standing
<1>2. Settled(v)
  BY EasesSettled DEF Standing
<1> QED BY <1>1, <1>2, BecomeStands

(* A step of one session that ends in a pass.                                *)
LEMMA StepPasses ==
  ASSUME Standing, NEW x \in View, NEW s \in Session, Ordered(Now)', Lined(Now)',
         Become(Schedule(x)) \/ Become(Reap(Schedule(x))), Shaped(x, s), Watched(x, s),
         \A t \in Session \ {s} : Same(Now, x, t) /\ (t \in Now.armed => t \in x.armed)
  PROVE  Stands'
<1>1. Fit(x)
  BY OthersFit DEF Standing
<1> QED BY <1>1, PassStands

LEMMA DeleteStands ==
  ASSUME Standing, NEW s \in Session, Ordered(Now)', Lined(Now)', DeleteSession(s)
  PROVE  Stands'
<1> DEFINE none == [k \in StopKinds |-> "no"]
           u == Unqueue(Now, {s})
           g == [u EXCEPT
                   !.state[s] = "deleted", !.cont[s] = "inactive",
                   !.box[s] = "none", !.step[s] = "none", !.agent = @ \ {s},
                   !.pend[s] = 0, !.nudging = @ \ {s},
                   !.recovering = @ \ {s}, !.held = @ \ {s},
                   !.armed = @ \ {s}, !.stop[s] = none]
<1>1. Now \in View
  BY DEF Standing, Inv, TypeOK
<1>2. u \in View
  BY <1>1, UnqueueType
<1>3. g \in View
  <2> DEFINE pends == [u.pend EXCEPT ![s] = 0]
             stops == [u.stop EXCEPT ![s] = none]
  <2>1. none \in [StopKinds -> StopSteps]
    BY DEF StopSteps
  <2> HIDE DEF u, none
  <2>2. g = [u EXCEPT
               !.state[s] = "deleted", !.cont[s] = "inactive",
               !.box[s] = "none", !.step[s] = "none", !.agent = @ \ {s},
               !.pend = pends, !.nudging = @ \ {s},
               !.recovering = @ \ {s}, !.held = @ \ {s},
               !.armed = @ \ {s}, !.stop = stops]
    BY <1>2 DEF View
  <2> HIDE DEF g
  <2>3. pends \in [Session -> 0..MaxPend]
    BY <1>2, ViewAssumption DEF View
  <2>4. stops \in [Session -> [StopKinds -> StopSteps]]
    BY <1>2, <2>1 DEF View
  <2> HIDE DEF pends, stops
  <2> QED
    BY <1>2, <2>2, <2>3, <2>4, ZenonT(40) DEF View, SessionStates, ContStates, BoxStates, Steps
<1>4. /\ g.state = [Now.state EXCEPT ![s] = "deleted"]
      /\ g.cont = [Now.cont EXCEPT ![s] = "inactive"]
      /\ g.box = [Now.box EXCEPT ![s] = "none"]
      /\ g.step = [Now.step EXCEPT ![s] = "none"]
      /\ g.pend = [Now.pend EXCEPT ![s] = 0]
      /\ g.stop = [Now.stop EXCEPT ![s] = none]
      /\ g.armed = Now.armed \ {s}
  BY <1>1 DEF Unqueue, View
<1>5. Become(Schedule(g)) \/ Become(Reap(Schedule(g)))
  BY DEF DeleteSession
<1>6. none["user"] = "no" /\ none["release"] = "no" /\ none["idle"] = "no"
  BY DEF StopKinds
<1> HIDE DEF g, none
<1>7. /\ g.state[s] = "deleted" /\ g.cont[s] = "inactive" /\ g.step[s] = "none"
      /\ g.pend[s] = 0 /\ g.stop[s] = none
  BY <1>1, <1>4 DEF View
<1>8. Shaped(g, s) /\ Watched(g, s)
  BY <1>6, <1>7 DEF Shaped, Watched, Lulls
<1>9. \A t \in Session \ {s} : Same(Now, g, t) /\ (t \in Now.armed => t \in g.armed)
  BY <1>1, <1>4 DEF Same, View
<1> QED BY <1>3, <1>5, <1>8, <1>9, StepPasses

LEMMA PromptStands ==
  ASSUME Standing, NEW s \in Session,
         Prompt(s) \/ ClearPending(s) \/ ResumeInterrupted(s)
  PROVE  Stands'
<1>1. Now \in View /\ Fit(Now) /\ Settled(Now) /\ Now.state = state
  BY DEF Standing, Inv, TypeOK, Now
<1>2. ASSUME NEW n \in 0..MaxPend, state[s] = "started"
      PROVE  LET v == [Now EXCEPT !.pend[s] = n, !.recovering = @ \ {s}]
                 d == Drain(v, {s})
             IN  d \in View /\ Fit(d) /\ Settled(d)
  <2> DEFINE v == [Now EXCEPT !.pend[s] = n, !.recovering = @ \ {s}]
  <2>1. [Now.pend EXCEPT ![s] = n] \in [Session -> 0..MaxPend]
    BY <1>1, <1>2 DEF View
  <2>2. v \in View
    BY <1>1, <2>1 DEF View
  <2>3. /\ v.state = Now.state /\ v.cont = Now.cont /\ v.box = Now.box /\ v.step = Now.step
        /\ v.stop = Now.stop /\ v.armed = Now.armed /\ v.held = Now.held
        /\ v.recovering = Now.recovering \ {s}
        /\ \A t \in Session \ {s} : v.pend[t] = Now.pend[t]
    BY <1>1 DEF View
  <2> HIDE DEF v
  <2>4. Shaped(v, s) /\ Watched(v, s)
    BY <1>1, <1>2, <2>3 DEF Fit, Shaped, Watched, Exists
  <2>5. \A t \in Session \ {s} : Same(Now, v, t) /\ (t \in Now.armed => t \in v.armed)
    BY <2>3 DEF Same
  <2>6. Fit(v)
    BY <1>1, <2>4, <2>5, OthersFit
  <2>7. \A t \in Session : /\ Active(v, t) <=> Active(Now, t)
                           /\ v.state[t] = Now.state[t] /\ v.held = Now.held
    BY <2>3 DEF Active
  <2>8. Fit(Drain(v, {s})) /\ Settled(Drain(v, {s}))
    BY <1>1, <2>2, <2>3, <2>6, <2>7, DrainOne
  <2>9. Drain(v, {s}) \in View
    BY <2>2, DrainType
  <2> QED BY <2>8, <2>9 DEF v
<1>3. CASE Prompt(s)
  <2>1. PICK n \in {pend[s], pend[s] + 1} \cap 1..MaxPend :
          LET w == Drain([Now EXCEPT !.pend[s] = n, !.recovering = @ \ {s}], {s})
          IN  Become(IF w.pend[s] > 0 THEN Reap(w) ELSE w)
    BY <1>3 DEF Prompt
  <2> DEFINE d == Drain([Now EXCEPT !.pend[s] = n, !.recovering = @ \ {s}], {s})
  <2>2. n \in 0..MaxPend /\ state[s] = "started"
    <3>1. n \in 1..MaxPend
      OBVIOUS
    <3>2. n \in 0..MaxPend
      BY <3>1, ViewAssumption
    <3>3. state[s] = "started"
      BY <1>3 DEF Prompt
    <3> QED BY <3>2, <3>3
  <2>3. d \in View /\ Fit(d) /\ Settled(d)
    BY <1>2, <2>2
  <2>4. Become(d) \/ Become(Reap(d))
    BY <2>1
  <2> HIDE DEF d
  <2>5. Reap(d) \in View /\ Fit(Reap(d)) /\ Settled(Reap(d))
    BY <2>3, ReapType, ReapTends, TendsFit, ReapRest, RestEases, EasesSettled
  <2> QED BY <2>3, <2>4, <2>5, BecomeStands
<1>4. CASE ClearPending(s)
  <2> PICK h \in {held, held \ {s}} : Become([Now EXCEPT !.pend[s] = 0, !.held = h])
    BY <1>4 DEF ClearPending
  <2> DEFINE v == [Now EXCEPT !.pend[s] = 0, !.held = h]
  <2>1. h \in SUBSET Limitable
    BY <1>1 DEF Now, View
  <2>2. [Now.pend EXCEPT ![s] = 0] \in [Session -> 0..MaxPend]
    BY <1>1, ViewAssumption DEF View
  <2>3. v \in View
    BY <1>1, <2>1, <2>2 DEF View
  <2>4. /\ v.state = Now.state /\ v.cont = Now.cont /\ v.box = Now.box /\ v.step = Now.step
        /\ v.stop = Now.stop /\ v.armed = Now.armed /\ v.held = h
        /\ v.recovering = Now.recovering /\ v.pend[s] = 0
        /\ \A t \in Session \ {s} : v.pend[t] = Now.pend[t]
    BY <1>1 DEF View
  <2>5. Become(v)
    OBVIOUS
  <2> HIDE DEF v
  <2>6. Shaped(v, s) /\ Watched(v, s)
    BY <1>1, <2>4 DEF Fit, Shaped, Watched, Exists
  <2>7. \A t \in Session \ {s} : Same(Now, v, t) /\ (t \in Now.armed => t \in v.armed)
    BY <2>4 DEF Same
  <2>8. Now.state[s] = "started"
    <3>1. Now.pend[s] # 0
      BY <1>1, <1>4 DEF ClearPending, Now
    <3> QED BY <1>1, <3>1 DEF Fit, Shaped
  <2>9. Eases(Now, v)
    <3>1. \A t \in Session \ {s} : t \in Now.held <=> t \in h
      BY DEF Now
    <3> QED BY <2>4, <2>8, <3>1 DEF Eases, Active
  <2> QED BY <2>3, <2>5, <2>6, <2>7, <2>9, StepStands
<1>5. CASE ResumeInterrupted(s)
  <2>1. PICK n \in {pend[s], pend[s] + 1} \cap 0..MaxPend :
          Become(Drain([Now EXCEPT !.pend[s] = n, !.recovering = @ \ {s}], {s}))
    BY <1>5 DEF ResumeInterrupted
  <2> DEFINE d == Drain([Now EXCEPT !.pend[s] = n, !.recovering = @ \ {s}], {s})
  <2>2. state[s] = "started"
    BY <1>5 DEF ResumeInterrupted
  <2>3. d \in View /\ Fit(d) /\ Settled(d)
    BY <1>2, <2>1, <2>2
  <2>4. Become(d)
    BY <2>1
  <2> HIDE DEF d
  <2> QED BY <2>3, <2>4, BecomeStands
<1> QED BY <1>3, <1>4, <1>5

LEMMA SettingsStands ==
  ASSUME Standing, Ordered(Now)', Lined(Now)',
         (\E n \in Caps : SetTaskCap(n)) \/ (\E H \in SUBSET Limitable : LimitsChange(H))
  PROVE  Stands'
<1>1. Now \in View /\ Fit(Now)
  BY DEF Standing, Inv, TypeOK
<1>2. ASSUME NEW v \in View, \A t \in Session : Same(Now, v, t), v.armed = Now.armed,
             Become(Schedule(v))
      PROVE  Stands'
  <2>1. Fit(v)
    BY <1>1, <1>2, SameFit DEF Fit
  <2> QED BY <1>2, <2>1, PassStands
<1>3. ASSUME NEW n \in Caps, SetTaskCap(n)
      PROVE  Stands'
  <2> DEFINE v == [Now EXCEPT !.cap = n]
  <2>1. v \in View /\ (\A t \in Session : Same(Now, v, t)) /\ v.armed = Now.armed
    BY <1>1 DEF View, Same
  <2>2. Become(Schedule(v))
    BY <1>3 DEF SetTaskCap
  <2> HIDE DEF v
  <2> QED BY <1>2, <2>1, <2>2
<1>4. ASSUME NEW H \in SUBSET Limitable, LimitsChange(H)
      PROVE  Stands'
  <2> DEFINE v == [Now EXCEPT !.held = H]
  <2>1. v \in View /\ (\A t \in Session : Same(Now, v, t)) /\ v.armed = Now.armed
    BY <1>1 DEF View, Same
  <2>2. Become(Schedule(v))
    BY <1>4 DEF LimitsChange
  <2> HIDE DEF v
  <2> QED BY <1>2, <2>1, <2>2
<1> QED BY <1>3, <1>4

LEMMA LaunchStands ==
  ASSUME Standing, NEW s \in Session, Ordered(Now)', Lined(Now)',
         \/ Attach(s) \/ Resolve(s) \/ ResolveFails(s) \/ WireFails(s) \/ Provisioned(s)
         \/ ProvisionFails(s) \/ Wired(s)
  PROVE  Stands'
<1>1. /\ Now \in View /\ Fit(Now) /\ Settled(Now) /\ StepsFit(Now) /\ Visible(Now)
      /\ Shaped(Now, s)
  BY DEF Standing, Inv, TypeOK, Safe, Fit
<1>2. Now.step[s] # "none" => Now.state[s] \in {"starting", "started"}
  BY <1>1 DEF StepsFit
<1>3. ASSUME NEW p \in Steps \ {"none"}, NEW c \in ContStates, NEW b \in BoxStates,
             Become([Now EXCEPT !.step[s] = p, !.cont[s] = c, !.box[s] = b]),
             Now.step[s] # "none",
             p \in {"attach", "turn"} \cup Lulls => Now.state[s] = "started",
             c = "building" => p = "provision", c = "running" => b # "none",
             Active(Now, s) => Now.state[s] = "starting" \/ c # "inactive"
      PROVE  Stands'
  <2> DEFINE v == [Now EXCEPT !.step[s] = p, !.cont[s] = c, !.box[s] = b]
  <2>1. v \in View
    BY <1>1 DEF View
  <2>2. /\ v.state = Now.state /\ v.pend = Now.pend /\ v.stop = Now.stop
        /\ v.armed = Now.armed /\ v.held = Now.held /\ v.recovering = Now.recovering
        /\ v.step[s] = p /\ v.cont[s] = c /\ v.box[s] = b
        /\ \A t \in Session \ {s} : /\ v.step[t] = Now.step[t] /\ v.cont[t] = Now.cont[t]
                                    /\ v.box[t] = Now.box[t]
    BY <1>1 DEF View
  <2> HIDE DEF v
  <2>3. Shaped(v, s)
    <3>1. v.pend[s] # 0 => v.state[s] = "started"
      BY <1>1, <2>2 DEF Shaped
    <3>2. /\ v.state[s] = "starting" => v.step[s] # "none"
          /\ v.step[s] \in {"attach", "turn"} \cup Lulls => v.state[s] = "started"
          /\ v.cont[s] = "building" => v.step[s] = "provision"
                                       /\ v.state[s] \in {"starting", "started"}
          /\ v.cont[s] = "running" => v.box[s] # "none" /\ Exists(v, s)
      BY <1>2, <1>3, <2>2 DEF Exists
    <3>3. /\ v.stop[s]["user"] = "no" /\ v.stop[s]["release"] = "no"
          /\ v.stop[s]["idle"] # "settle"
      BY <1>1, <2>2 DEF Shaped
    <3> QED BY <3>1, <3>2, <3>3 DEF Shaped
  <2>4. Watched(v, s)
    BY <1>3, <2>2 DEF Watched
  <2>5. \A t \in Session \ {s} : Same(Now, v, t) /\ (t \in Now.armed => t \in v.armed)
    BY <2>2 DEF Same
  <2>6. Eases(Now, v)
    <3>1. Active(Now, s) => Active(v, s)
      BY <1>3, <2>2 DEF Active, ContStates
    <3> QED BY <1>3, <2>2, <3>1 DEF Eases, Active
  <2>7. Become(v)
    BY <1>3 DEF v
  <2> QED BY <2>1, <2>3, <2>4, <2>5, <2>6, <2>7, StepStands
<1>4. ASSUME NEW p \in Steps \ {"none"}, step[s] # "none", step' = [step EXCEPT ![s] = p],
             p \in {"attach", "turn"} \cup Lulls => state[s] = "started",
             step[s] # "provision" \/ p = "provision", UNCHANGED <<state, before, cont, box, agent, pend, nudging,
             recovering, held, cap, armed, stop>>
      PROVE  Stands'
  <2> DEFINE v == [Now EXCEPT !.step[s] = p, !.cont[s] = cont[s], !.box[s] = box[s]]
  <2>1. Become(v)
    <3>1. v.step = step' /\ v.cont = cont /\ v.box = box
      BY <1>1, <1>4 DEF Now, View
    <3>2. /\ v.state = state /\ v.before = before /\ v.agent = agent /\ v.pend = pend
          /\ v.nudging = nudging /\ v.recovering = recovering /\ v.held = held
          /\ v.cap = cap /\ v.armed = armed /\ v.stop = stop
      BY DEF Now
    <3> QED BY <1>4, <3>1, <3>2 DEF Become
  <2>2. cont[s] \in ContStates /\ box[s] \in BoxStates
    BY <1>1 DEF Now, View
  <2>3. /\ Now.step = step /\ Now.state = state /\ Now.cont = cont /\ Now.box = box
    BY DEF Now
  <2>4. /\ cont[s] = "building" => p = "provision"
        /\ cont[s] = "running" => box[s] # "none"
        /\ Active(Now, s) => Now.state[s] = "starting" \/ cont[s] # "inactive"
    BY <1>1, <1>4, <2>3 DEF Shaped, Active
  <2> HIDE DEF v
  <2> QED BY <1>3, <1>4, <2>1, <2>2, <2>3, <2>4 DEF v
<1>5. CASE Attach(s)
  <2> DEFINE p == IF s \in agent THEN "turn"
                  ELSE IF Holders(Now, s) # {} THEN "failed" ELSE "resolve"
  <2>1. p \in Steps \ {"none"} /\ step' = [step EXCEPT ![s] = p] /\ step[s] = "attach"
    BY <1>5 DEF Attach, Steps
  <2>2. state[s] = "started"
    BY <1>1, <2>1 DEF Shaped, Now
  <2>3. UNCHANGED <<state, before, cont, box, agent, pend, nudging,
             recovering, held, cap, armed, stop>>
    BY <1>5 DEF Attach
  <2> HIDE DEF p
  <2> QED BY <1>4, <2>1, <2>2, <2>3
<1>6. CASE ResolveFails(s) \/ WireFails(s)
  <2>1. "failed" \in Steps \ {"none"}
    BY DEF Steps
  <2> QED BY <1>4, <1>6, <2>1 DEF ResolveFails, WireFails, Lulls
<1>7. CASE Resolve(s)
  <2>1. CASE cont[s] = "running" /\ box[s] = "up"
    <3>1. "wire" \in Steps \ {"none"}
      BY DEF Steps
    <3> QED BY <1>4, <1>7, <2>1, <3>1 DEF Resolve, Lulls
  <2>2. CASE ~(cont[s] = "running" /\ box[s] = "up")
    <3> DEFINE v == [Now EXCEPT !.step[s] = "provision", !.cont[s] = "building",
                                !.box[s] = box[s]]
    <3>1. /\ step' = [step EXCEPT ![s] = "provision"] /\ cont' = [cont EXCEPT ![s] = "building"]
          /\ step[s] = "resolve"
          /\ UNCHANGED <<state, before, box, agent, pend, nudging, recovering, held, cap,
                         armed, stop>>
      BY <1>7, <2>2 DEF Resolve
    <3>2. Become(v)
      <4>1. v.step = step' /\ v.cont = cont' /\ v.box = box
        BY <1>1, <3>1 DEF Now, View
      <4>2. /\ v.state = state /\ v.before = before /\ v.agent = agent /\ v.pend = pend
            /\ v.nudging = nudging /\ v.recovering = recovering /\ v.held = held
            /\ v.cap = cap /\ v.armed = armed /\ v.stop = stop
        BY DEF Now
      <4> QED BY <3>1, <4>1, <4>2 DEF Become
    <3>3. /\ "provision" \in Steps \ {"none"} /\ "building" \in ContStates
          /\ box[s] \in BoxStates /\ Now.step[s] # "none"
      BY <1>1, <3>1 DEF Steps, ContStates, Now, View
    <3> HIDE DEF v
    <3> QED BY <1>3, <3>2, <3>3 DEF v, Lulls
  <2> QED BY <2>1, <2>2
<1>8. CASE Provisioned(s)
  <2> DEFINE v == [Now EXCEPT !.step[s] = "wire", !.cont[s] = "running", !.box[s] = "up"]
  <2>1. /\ step' = [step EXCEPT ![s] = "wire"] /\ cont' = [cont EXCEPT ![s] = "running"]
        /\ box' = [box EXCEPT ![s] = "up"] /\ step[s] = "provision"
        /\ UNCHANGED <<state, before, agent, pend, nudging, recovering, held, cap,
                       armed, stop>>
    BY <1>8 DEF Provisioned
  <2>2. Become(v)
    <3>1. v.step = step' /\ v.cont = cont' /\ v.box = box'
      BY <1>1, <2>1 DEF Now, View
    <3>2. /\ v.state = state /\ v.before = before /\ v.agent = agent /\ v.pend = pend
          /\ v.nudging = nudging /\ v.recovering = recovering /\ v.held = held
          /\ v.cap = cap /\ v.armed = armed /\ v.stop = stop
      BY DEF Now
    <3> QED BY <2>1, <3>1, <3>2 DEF Become
  <2>3. /\ "wire" \in Steps \ {"none"} /\ "running" \in ContStates /\ "up" \in BoxStates
        /\ Now.step[s] # "none"
    BY <2>1 DEF Steps, ContStates, BoxStates, Now
  <2>4. /\ "wire" \notin {"attach", "turn"} \cup Lulls /\ "running" # "building"
        /\ "up" # "none" /\ "running" # "inactive"
    BY DEF Lulls
  <2> QED BY <1>3, <2>2, <2>3, <2>4, Zenon
<1>9. CASE ProvisionFails(s)
  <2>1. PICK b \in {box[s], "none", "up"} :
          Become(Schedule([Now EXCEPT !.step[s] = "failed", !.cont[s] = "inactive",
                                      !.box[s] = b]))
    BY <1>9 DEF ProvisionFails
  <2> DEFINE x == [Now EXCEPT !.step[s] = "failed", !.cont[s] = "inactive", !.box[s] = b]
  <2>2. b \in BoxStates /\ "failed" \in Steps /\ "inactive" \in ContStates
    BY <1>1, <2>1 DEF Now, View, BoxStates, Steps, ContStates
  <2>3. x \in View
    BY <1>1, <2>2 DEF View
  <2>4. /\ x.state = Now.state /\ x.pend = Now.pend /\ x.stop = Now.stop
        /\ x.armed = Now.armed /\ x.step[s] = "failed" /\ x.cont[s] = "inactive"
        /\ \A t \in Session \ {s} : /\ x.step[t] = Now.step[t] /\ x.cont[t] = Now.cont[t]
                                    /\ x.box[t] = Now.box[t]
    BY <1>1 DEF View
  <2>5. Become(Schedule(x))
    BY <2>1
  <2> HIDE DEF x
  <2>6. Shaped(x, s) /\ Watched(x, s)
    BY <1>1, <2>4 DEF Shaped, Watched, Lulls
  <2>7. \A t \in Session \ {s} : Same(Now, x, t) /\ (t \in Now.armed => t \in x.armed)
    BY <2>4 DEF Same
  <2> QED BY <2>3, <2>5, <2>6, <2>7, StepPasses
<1>10. CASE Wired(s)
  <2>1. /\ Now.step[s] = "wire" /\ Now.box[s] = "up" /\ Now.cont[s] = "running"
        /\ Now.state = state /\ Now.state[s] \in {"starting", "started"}
    BY <1>1, <1>2, <1>10 DEF Wired, Visible, Now
  <2>2. CASE /\ state[s] # "starting"
             /\ Become([Now EXCEPT !.agent = @ \cup {s}, !.step[s] = "turn"])
    <3> DEFINE r == [Now EXCEPT !.agent = @ \cup {s}, !.step[s] = "turn"]
    <3>1. r \in View
      BY <1>1 DEF View, Steps
    <3>2. /\ \A t \in Session : r.step[t] = IF t = s THEN "turn" ELSE Now.step[t]
          /\ r.state = Now.state /\ r.cont = Now.cont /\ r.box = Now.box /\ r.pend = Now.pend
          /\ r.stop = Now.stop /\ r.armed = Now.armed /\ r.held = Now.held
          /\ r.recovering = Now.recovering
      BY <1>1 DEF View
    <3>3. Become(r)
      BY <2>2
    <3> HIDE DEF r
    <3>4. Shaped(r, s) /\ Watched(r, s)
      BY <1>1, <2>1, <2>2, <3>2 DEF Shaped, Watched, Exists
    <3>5. \A t \in Session \ {s} : Same(Now, r, t) /\ (t \in Now.armed => t \in r.armed)
      BY <3>2 DEF Same
    <3>6. Eases(Now, r)
      BY <3>2 DEF Eases, Active
    <3> QED BY <3>1, <3>3, <3>4, <3>5, <3>6, StepStands
  <2>3. ASSUME NEW p \in {"config", "open", "attach"}, NEW A \in SUBSET {s},
               Become([Now EXCEPT !.agent = @ \cup {s}, !.state[s] = "started",
                                  !.nudging = @ \ {s}, !.step[s] = p, !.armed = @ \ A])
        PROVE  Stands'
    <3> DEFINE b == [Now EXCEPT !.agent = @ \cup {s}, !.state[s] = "started",
                                !.nudging = @ \ {s}, !.step[s] = p, !.armed = @ \ A]
    <3>1. p \in Steps /\ p # "none" /\ "started" \in SessionStates
      BY DEF Steps, Lulls, SessionStates
    <3>2. b \in View
      BY <1>1, <3>1 DEF View
    <3>3. /\ b.cont = Now.cont /\ b.box = Now.box /\ b.pend = Now.pend
          /\ b.stop = Now.stop /\ b.held = Now.held /\ b.recovering = Now.recovering
          /\ b.armed = Now.armed \ A
          /\ \A t \in Session : b.state[t] = IF t = s THEN "started" ELSE Now.state[t]
          /\ \A t \in Session : b.step[t] = IF t = s THEN p ELSE Now.step[t]
      BY <1>1 DEF View
    <3>4. Become(b)
      BY <2>3
    <3> HIDE DEF b
    <3>5. Shaped(b, s) /\ Watched(b, s)
      BY <1>1, <2>1, <3>1, <3>3 DEF Shaped, Watched, Exists
    <3>6. \A t \in Session \ {s} : Same(Now, b, t) /\ (t \in Now.armed => t \in b.armed)
      BY <3>3 DEF Same
    <3>7. Eases(Now, b)
      BY <2>1, <3>1, <3>3 DEF Eases, Active
    <3> QED BY <3>2, <3>4, <3>5, <3>6, <3>7, StepStands
  <2> QED BY <1>1, <1>10, <2>2, <2>3, WiredTo
<1> QED
  BY <1>5, <1>6, <1>7, <1>8, <1>9, <1>10

LEMMA LullStands ==
  ASSUME Standing, NEW s \in Session, ConfigApplied(s) \/ Masked(s) \/ MaskFails(s)
  PROVE  Stands'
<1>1. /\ Now \in View /\ Shaped(Now, s) /\ Now.step = step /\ Now.state = state
  BY DEF Standing, Inv, TypeOK, Fit, Now
<1>2. step[s] \in Lulls
  BY <1>1, LullTo
<1>3. PICK p \in {"open", "attach", "failed"}, A \in SUBSET {s} :
        Become([Now EXCEPT !.step[s] = p, !.armed = @ \ A])
  BY <1>1, LullTo
<1> DEFINE w == [Now EXCEPT !.step[s] = p, !.armed = @ \ A]
<1>4. p \in Steps /\ p # "none"
  BY DEF Steps, Lulls
<1>5. w \in View
  BY <1>1, <1>4 DEF View
<1>6. /\ w.state = Now.state /\ w.cont = Now.cont /\ w.box = Now.box /\ w.pend = Now.pend
      /\ w.stop = Now.stop /\ w.held = Now.held /\ w.recovering = Now.recovering
      /\ w.armed = Now.armed \ A
      /\ \A t \in Session : w.step[t] = IF t = s THEN p ELSE Now.step[t]
  BY <1>1 DEF View
<1>7. Become(w)
  BY <1>3
<1> HIDE DEF w
<1>8. Now.state[s] = "started" /\ Now.cont[s] # "building"
  BY <1>1, <1>2 DEF Shaped, Lulls
<1>9. Shaped(w, s) /\ Watched(w, s)
  BY <1>1, <1>4, <1>6, <1>8 DEF Shaped, Watched, Exists
<1>10. \A t \in Session \ {s} : Same(Now, w, t) /\ (t \in Now.armed => t \in w.armed)
  BY <1>6 DEF Same
<1>11. Eases(Now, w)
  BY <1>4, <1>6 DEF Eases, Active
<1> QED BY <1>5, <1>7, <1>9, <1>10, <1>11, StepStands

LEMMA TurnOverStands ==
  ASSUME Standing, NEW s \in Session, NEW next, next = "limited" => s \in Limitable,
         Ordered(Now)', Lined(Now)', state[s] = "started", step[s] \in {"turn", "failed"},
         Become(TurnOver(Now, s, next))
  PROVE  Stands'
<1> DEFINE u == [Now EXCEPT !.step[s] = "none"]
           w == NoteIdle(u, s)
           n == [w EXCEPT !.nudging = @ \cup {s}]
           t == BeginTurn(n, {s}, "open")
           p == IF w.pend[s] = 0 THEN 1 ELSE w.pend[s]
           x == [w EXCEPT !.held = @ \cup {s}, !.nudging = @ \ {s},
                          !.pend[s] = IF @ = 0 THEN 1 ELSE @]
           y == [w EXCEPT !.nudging = @ \ {s}]
<1>1. /\ Now \in View /\ Fit(Now) /\ Settled(Now) /\ Now.state[s] = "started"
      /\ Now.step[s] \in {"turn", "failed"}
  BY DEF Standing, Inv, TypeOK, Now
<1>2. u \in View
  BY <1>1 DEF View, Steps
<1>3. /\ \A r \in Session : u.step[r] = IF r = s THEN "none" ELSE Now.step[r]
      /\ u.state = Now.state /\ u.cont = Now.cont /\ u.box = Now.box /\ u.pend = Now.pend
      /\ u.stop = Now.stop /\ u.armed = Now.armed /\ u.held = Now.held
      /\ u.recovering = Now.recovering
  BY <1>1 DEF View
<1>4. \/ next = "nudge" /\ Become(t)
      \/ next = "limited" /\ Become(Schedule(x))
      \/ Become(Drain(y, {s}))
  BY DEF TurnOver
<1> HIDE DEF u
<1>5. Shaped(u, s)
  BY <1>1, <1>3 DEF Fit, Shaped, Exists
<1>6. \A r \in Session \ {s} : Shaped(u, r) /\ Watched(u, r)
  BY <1>1, <1>3, SameFit DEF Fit, Same
<1>7. w \in View /\ Fit(w) /\ Rest(w) = Rest(u)
  <2>1. \A r \in Session : Shaped(u, r)
    BY <1>5, <1>6
  <2> QED BY <1>2, <1>6, <2>1, NoteIdleType, NoteIdleFit, NoteIdleRest
<1> HIDE DEF w
<1>8. /\ w.state = Now.state /\ w.cont = Now.cont /\ w.pend = Now.pend /\ w.held = Now.held
      /\ w.recovering = Now.recovering
      /\ \A r \in Session : w.step[r] = IF r = s THEN "none" ELSE Now.step[r]
  BY <1>3, <1>7 DEF Rest
<1>9. CASE Become(t)
  <2>1. n \in View
    BY <1>7 DEF View
  <2>2. /\ n.state = w.state /\ n.cont = w.cont /\ n.box = w.box /\ n.pend = w.pend
        /\ n.stop = w.stop /\ n.armed = w.armed /\ n.held = w.held
        /\ n.recovering = w.recovering /\ n.step = w.step
    BY <1>7 DEF View
  <2> HIDE DEF n
  <2>3. t \in View
    BY <2>1, BeginTurnType
  <2>4. /\ t.state = w.state /\ t.cont = w.cont /\ t.box = w.box /\ t.pend = w.pend
        /\ t.stop = w.stop /\ t.armed = w.armed \ {s} /\ t.held = w.held
        /\ t.recovering = w.recovering
        /\ \A r \in Session : t.step[r] = IF r = s THEN Opening("open") ELSE w.step[r]
    BY <2>1, <2>2 DEF BeginTurn, View
  <2> HIDE DEF t
  <2>5. Tends(w, t)
    BY <1>1, <1>8, <2>4, Openings DEF Tends, Lulls
  <2>6. Eases(Now, t)
    BY <1>8, <2>4, Openings DEF Eases, Active
  <2> QED
    BY <1>1, <1>7, <1>9, <2>3, <2>5, <2>6, TendsFit, EasesSettled, BecomeStands
<1>10. CASE next = "limited" /\ Become(Schedule(x))
  <2>1. s \in Limitable
    BY <1>10
  <2>2. [w.pend EXCEPT ![s] = p] \in [Session -> 0..MaxPend]
    <3>1. p \in 0..MaxPend
      <4>1. w.pend[s] \in 0..MaxPend
        BY <1>7 DEF View
      <4> QED BY <4>1, ViewAssumption
    <3> HIDE DEF p
    <3> QED BY <1>7, <3>1 DEF View
  <2>3. x = [w EXCEPT !.held = w.held \cup {s}, !.nudging = w.nudging \ {s},
                      !.pend = [w.pend EXCEPT ![s] = p]]
    BY <1>7 DEF View
  <2> HIDE DEF x
  <2>4. x \in View
    <3> HIDE DEF p
    <3> QED BY <1>7, <2>1, <2>2, <2>3 DEF View
  <2>5. /\ x.state = w.state /\ x.cont = w.cont /\ x.box = w.box /\ x.step = w.step
        /\ x.stop = w.stop /\ x.armed = w.armed
        /\ \A r \in Session \ {s} : x.pend[r] = w.pend[r]
    <3> HIDE DEF p
    <3> QED BY <1>7, <2>3 DEF View
  <2>6. Shaped(x, s) /\ Watched(x, s)
    BY <1>1, <1>7, <1>8, <2>5 DEF Fit, Shaped, Watched, Exists
  <2>7. \A r \in Session \ {s} : Same(w, x, r) /\ (r \in w.armed => r \in x.armed)
    BY <2>5 DEF Same
  <2>8. Fit(x)
    BY <1>7, <2>6, <2>7, SameFit DEF Fit
  <2> QED
    BY <1>10, <2>4, <2>8, PassStands
<1>11. CASE Become(Drain(y, {s}))
  <2>1. y \in View
    BY <1>7 DEF View
  <2>2. /\ y.state = w.state /\ y.cont = w.cont /\ y.box = w.box /\ y.pend = w.pend
        /\ y.stop = w.stop /\ y.armed = w.armed /\ y.held = w.held
        /\ y.recovering = w.recovering /\ y.step = w.step
    BY <1>7 DEF View
  <2> HIDE DEF y
  <2>3. \A r \in Session : Same(w, y, r) /\ (r \in w.armed => r \in y.armed)
    BY <2>2 DEF Same
  <2>4. Fit(y)
    BY <1>7, <2>3, SameFit DEF Fit
  <2>5. \A r \in Session : /\ Active(y, r) <=> Active(Now, r)
                           /\ y.state[r] = Now.state[r] /\ y.held = Now.held
    BY <1>8, <2>2 DEF Active
  <2>6. \A r \in Session \ {s} : /\ y.pend[r] = Now.pend[r] /\ y.step[r] = Now.step[r]
                                 /\ r \in y.recovering <=> r \in Now.recovering
    BY <1>8, <2>2
  <2>7. Fit(Drain(y, {s})) /\ Settled(Drain(y, {s}))
    BY <1>1, <2>1, <2>4, <2>5, <2>6, DrainOne
  <2>8. Drain(y, {s}) \in View
    BY <2>1, DrainType
  <2> QED BY <1>11, <2>7, <2>8, BecomeStands
<1> QED BY <1>4, <1>9, <1>10, <1>11

LEMMA TurnStands ==
  ASSUME Standing, NEW s \in Session, Ordered(Now)', Lined(Now)',
         TurnEnds(s) \/ Fails(s) \/ AgentExits(s)
  PROVE  Stands'
<1>1. /\ Now \in View /\ Fit(Now) /\ Settled(Now) /\ StepsFit(Now) /\ Shaped(Now, s)
      /\ Now.state = state /\ Now.step = step
  BY DEF Standing, Inv, TypeOK, Safe, Fit, Now
<1>2. CASE TurnEnds(s)
  <2>1. PICK next \in {"done"} \cup (IF s \in Contracted \ nudging THEN {"nudge"} ELSE {})
                               \cup (IF s \in Limitable THEN {"limited"} ELSE {}) :
              Become(TurnOver(Now, s, next))
    BY <1>2 DEF TurnEnds
  <2>2. step[s] = "turn" /\ state[s] = "started"
    BY <1>1, <1>2 DEF TurnEnds, Shaped
  <2>3. next = "limited" => s \in Limitable
    BY <2>1
  <2> QED BY <2>1, <2>2, <2>3, TurnOverStands
<1>3. CASE Fails(s)
  <2>1. step[s] = "failed" /\ state[s] \in {"starting", "started"}
    BY <1>1, <1>3 DEF Fails, StepsFit
  <2>2. CASE state[s] = "starting"
    <3>1. Become(FailedStart(Now, s))
      BY <1>3, <2>2 DEF Fails
    <3>2. \A t \in Session : Same(Now, Now, t)
      BY DEF Same
    <3>3. Now.state[s] # "started" /\ Now.step[s] \in {"none", "failed"} /\ Exists(Now, s)
      BY <1>1, <2>1, <2>2 DEF Exists
    <3> QED BY <1>1, <3>1, <3>2, <3>3, FailedStartStands
  <2>3. CASE state[s] # "starting"
    <3>1. Become(TurnOver(Now, s, "done"))
      BY <1>3, <2>3 DEF Fails
    <3> QED BY <2>1, <2>3, <3>1, TurnOverStands
  <2> QED BY <2>2, <2>3
<1>4. CASE AgentExits(s)
  <2>1. Become(AgentGone(Now, s))
    BY <1>4 DEF AgentExits
  <2> QED
    BY <1>1, <2>1, AgentGoneType, AgentGoneFit, AgentGoneEases, EasesSettled, BecomeStands
<1> QED BY <1>2, <1>3, <1>4

LEMMA TimerStands ==
  ASSUME Standing, NEW s \in Session, IdleTimerFires(s)
  PROVE  Stands'
<1> DEFINE v == [Now EXCEPT !.armed = @ \ {s}]
           b == BeginStop(v, {s}, "idle")
<1>1. /\ Now \in View /\ Fit(Now) /\ Settled(Now) /\ Shaped(Now, s)
      /\ Now.cont = cont /\ Now.stop = stop
  BY DEF Standing, Inv, TypeOK, Fit, Now
<1>2. /\ v \in View /\ v.state = Now.state /\ v.step = Now.step /\ v.cont = Now.cont
      /\ v.box = Now.box /\ v.pend = Now.pend /\ v.stop = Now.stop /\ v.held = Now.held
      /\ v.recovering = Now.recovering /\ v.armed = Now.armed \ {s} /\ v.agent = Now.agent
  BY <1>1 DEF View
<1>3. \/ Become(v) /\ ~(Idle(v, s) /\ cont[s] = "running" /\ stop[s]["idle"] = "no")
      \/ Become(b) \/ Become(Reap(b))
  BY DEF IdleTimerFires
<1> HIDE DEF v
<1>4. Shaped(v, s)
  BY <1>1, <1>2 DEF Shaped, Exists
<1>5. \A t \in Session \ {s} : Same(Now, v, t) /\ (t \in Now.armed => t \in v.armed)
  BY <1>2 DEF Same
<1>6. CASE Become(v) /\ ~(Idle(v, s) /\ cont[s] = "running" /\ stop[s]["idle"] = "no")
  <2>1. Watched(v, s)
    BY <1>1, <1>2, <1>4, <1>6 DEF Watched, Shaped, Idle, Busy, Lulls
  <2>2. Eases(Now, v)
    BY <1>2, RestEases DEF Rest
  <2> QED BY <1>2, <1>4, <1>5, <1>6, <2>1, <2>2, StepStands
<1>7. CASE Become(b) \/ Become(Reap(b))
  <2>1. /\ b.state = v.state /\ b.step = v.step /\ b.cont = v.cont /\ b.box = v.box
        /\ b.pend = v.pend /\ b.held = v.held /\ b.recovering = v.recovering
        /\ b.armed = (v.armed \ {s}) \cup ({s} \cap v.agent)
        /\ b.stop = [t \in Session |-> IF t \in {s} THEN [v.stop[t] EXCEPT !["idle"] = "begun"]
                                       ELSE v.stop[t]]
    BY <1>2 DEF BeginStop, View
  <2>2. b \in View
    BY <1>2, BeginStopType DEF StopKinds
  <2> HIDE DEF b
  <2>3. /\ b.stop[s]["idle"] = "begun" /\ b.stop[s]["queue"] = v.stop[s]["queue"]
        /\ b.stop[s]["user"] = v.stop[s]["user"] /\ b.stop[s]["release"] = v.stop[s]["release"]
    <3>1. v.stop[s] \in [StopKinds -> StopSteps]
      BY <1>2 DEF View
    <3>2. b.stop[s] = [v.stop[s] EXCEPT !["idle"] = "begun"]
      BY <2>1
    <3> QED BY <3>1, <3>2 DEF StopKinds
  <2>4. Shaped(b, s) /\ Watched(b, s)
    BY <1>4, <2>1, <2>3 DEF Shaped, Watched, Exists
  <2>5. \A t \in Session \ {s} : Same(Now, b, t) /\ (t \in Now.armed => t \in b.armed)
    <3>1. \A t \in Session \ {s} : b.stop[t] = Now.stop[t]
      BY <1>2, <2>1
    <3>2. \A t \in Session \ {s} : t \in Now.armed => t \in b.armed
      BY <1>2, <2>1
    <3>3. /\ b.state = Now.state /\ b.step = Now.step /\ b.cont = Now.cont
          /\ b.box = Now.box /\ b.pend = Now.pend
      BY <1>2, <2>1
    <3> QED BY <3>1, <3>2, <3>3 DEF Same
  <2>6. Fit(b) /\ Settled(b)
    <3>1. Rest(b) = Rest(Now)
      BY <1>2, <2>1 DEF Rest
    <3> QED BY <1>1, <2>4, <2>5, <3>1, OthersFit, RestEases, EasesSettled
  <2>7. Reap(b) \in View /\ Fit(Reap(b)) /\ Settled(Reap(b))
    BY <2>2, <2>6, ReapType, ReapTends, TendsFit, ReapRest, RestEases, EasesSettled
  <2> QED BY <1>7, <2>2, <2>6, <2>7, BecomeStands
<1> QED BY <1>3, <1>6, <1>7

(* What a step of a stop does to the stops and to the container.             *)
Moved(v, s, k, p, c, b) == [v EXCEPT !.stop[s][k] = p, !.cont[s] = c, !.box[s] = b]

LEMMA StopMoves ==
  ASSUME NEW v \in View, NEW s \in Session, NEW k \in StopKinds, NEW p \in StopSteps,
         NEW c \in ContStates, NEW b \in BoxStates
  PROVE  LET w == Moved(v, s, k, p, c, b)
         IN  /\ w \in View /\ w.state = v.state /\ w.step = v.step /\ w.pend = v.pend
             /\ w.armed = v.armed /\ w.held = v.held /\ w.recovering = v.recovering
             /\ w.agent = v.agent
             /\ w.cont = [v.cont EXCEPT ![s] = c] /\ w.box = [v.box EXCEPT ![s] = b]
             /\ \A t \in Session \ {s} : w.stop[t] = v.stop[t]
             /\ \A h \in StopKinds : w.stop[s][h] = IF h = k THEN p ELSE v.stop[s][h]
<1> DEFINE w == [v EXCEPT !.stop[s][k] = p, !.cont[s] = c, !.box[s] = b]
<1>1. v.stop[s] \in [StopKinds -> StopSteps]
  BY DEF View
<1>2. w \in View
  BY DEF View
<1>3. w.stop = [v.stop EXCEPT ![s] = [v.stop[s] EXCEPT ![k] = p]]
  BY DEF View
<1>4. /\ \A t \in Session \ {s} : w.stop[t] = v.stop[t]
      /\ w.stop[s] = [v.stop[s] EXCEPT ![k] = p]
  <2> HIDE DEF w
  <2> QED BY <1>3 DEF View
<1>5. \A h \in StopKinds : w.stop[s][h] = IF h = k THEN p ELSE v.stop[s][h]
  <2> HIDE DEF w
  <2> QED BY <1>1, <1>4
<1>6. /\ w.state = v.state /\ w.step = v.step /\ w.pend = v.pend
      /\ w.armed = v.armed /\ w.held = v.held /\ w.recovering = v.recovering
      /\ w.agent = v.agent
      /\ w.cont = [v.cont EXCEPT ![s] = c] /\ w.box = [v.box EXCEPT ![s] = b]
  BY DEF View
<1> HIDE DEF w
<1> QED BY <1>2, <1>4, <1>5, <1>6 DEF w, Moved

LEMMA StopStands ==
  ASSUME Standing, NEW s \in Session, Ordered(Now)', Lined(Now)',
         \/ IdleTimerFires(s) \/ UserStop(s) \/ Release(s)
         \/ \E k \in StopKinds : ContainerStops(s, k) \/ StopRecorded(s, k) \/ StopFails(s, k)
         \/ ReleaseRecorded(s) \/ HandoffSettles(s)
  PROVE  Stands'
<1>1. /\ Now \in View /\ Fit(Now) /\ Settled(Now) /\ Shaped(Now, s) /\ Watched(Now, s)
      /\ Now.cont = cont /\ Now.box = box /\ Now.stop = stop
  BY DEF Standing, Inv, TypeOK, Fit, Now
<1>2. stop[s]["user"] = "no" /\ stop[s]["release"] = "no" /\ stop[s]["idle"] # "settle"
  BY <1>1 DEF Shaped
<1>3. ~UserStop(s) /\ ~Release(s)
  BY DEF Standing, Undisturbed, UserStop, Release, TakeDown
<1>4. ~ReleaseRecorded(s)
  BY <1>2 DEF ReleaseRecorded
<1>5. cont[s] \in ContStates /\ box[s] \in BoxStates
  BY <1>1 DEF View
<1>6. ASSUME NEW k \in StopKinds, ContainerStops(s, k)
      PROVE  Stands'
  <2> DEFINE v == Moved(Now, s, k, "down", cont[s], "stopped")
  <2>1. k \in {"idle", "queue"}
    BY <1>2, <1>6 DEF ContainerStops, StopKinds
  <2>2. v = [Now EXCEPT !.stop[s][k] = "down",
                        !.box[s] = IF k = "release" THEN "none" ELSE "stopped"]
    BY <1>1, <2>1 DEF View, Moved
  <2>3. Become(v) \/ Become(AgentGone(v, s))
    <3> HIDE DEF v
    <3> QED BY <1>6, <2>2 DEF ContainerStops
  <2>4. "stopped" \in BoxStates /\ "down" \in StopSteps
    BY DEF BoxStates, StopSteps
  <2>5. /\ v \in View /\ v.state = Now.state /\ v.step = Now.step /\ v.pend = Now.pend
        /\ v.armed = Now.armed /\ v.held = Now.held /\ v.recovering = Now.recovering
        /\ v.cont = [Now.cont EXCEPT ![s] = cont[s]] /\ v.box = [Now.box EXCEPT ![s] = "stopped"]
        /\ \A t \in Session \ {s} : v.stop[t] = Now.stop[t]
        /\ \A h \in StopKinds : v.stop[s][h] = IF h = k THEN "down" ELSE Now.stop[s][h]
    BY <1>1, <1>5, <2>4, StopMoves
  <2> HIDE DEF v
  <2>6. /\ v.cont = Now.cont /\ v.box[s] = "stopped"
        /\ \A t \in Session \ {s} : v.box[t] = Now.box[t]
    BY <1>1, <2>5 DEF View
  <2>7. /\ v.stop[s]["user"] = "no" /\ v.stop[s]["release"] = "no"
        /\ v.stop[s]["idle"] = (IF k = "idle" THEN "down" ELSE Now.stop[s]["idle"])
        /\ v.stop[s]["queue"] = (IF k = "queue" THEN "down" ELSE Now.stop[s]["queue"])
    BY <1>1, <1>2, <2>1, <2>5 DEF StopKinds
  <2>8. Shaped(v, s)
    BY <1>1, <2>5, <2>6, <2>7 DEF Shaped, Exists
  <2>9. Watched(v, s)
    BY <1>1, <2>1, <2>5, <2>6, <2>7 DEF Watched
  <2>10. \A t \in Session \ {s} : Same(Now, v, t) /\ (t \in Now.armed => t \in v.armed)
    BY <2>5, <2>6 DEF Same
  <2>11. Fit(v) /\ Settled(v)
    <3>1. Rest(v) = Rest(Now)
      BY <2>5, <2>6 DEF Rest
    <3> QED BY <1>1, <2>8, <2>9, <2>10, <3>1, OthersFit, RestEases, EasesSettled
  <2> QED
    BY <2>3, <2>5, <2>11, AgentGoneType, AgentGoneFit, AgentGoneEases, EasesSettled, BecomeStands
<1>7. ASSUME NEW k \in StopKinds, StopRecorded(s, k)
      PROVE  Stands'
  <2> DEFINE p == IF k = "queue" THEN "settle" ELSE "no"
             v == Moved(Now, s, k, p, "inactive", box[s])
  <2>1. k \in {"idle", "queue"}
    BY <1>2, <1>7 DEF StopRecorded, StopKinds
  <2>2. v = [Now EXCEPT !.stop[s][k] = p, !.cont[s] = "inactive"]
    BY <1>1 DEF View, Moved
  <2>3. Become(Schedule(v))
    <3>1. Become(Schedule([Now EXCEPT !.stop[s][k] = p, !.cont[s] = "inactive"]))
      BY <1>7 DEF StopRecorded
    <3> HIDE DEF v
    <3> QED BY <2>2, <3>1
  <2>4. p \in StopSteps /\ "inactive" \in ContStates /\ (k = "idle" => p = "no")
    BY DEF StopSteps, ContStates
  <2> HIDE DEF p
  <2>5. /\ v \in View /\ v.state = Now.state /\ v.step = Now.step /\ v.pend = Now.pend
        /\ v.armed = Now.armed /\ v.held = Now.held /\ v.recovering = Now.recovering
        /\ v.cont = [Now.cont EXCEPT ![s] = "inactive"] /\ v.box = [Now.box EXCEPT ![s] = box[s]]
        /\ \A t \in Session \ {s} : v.stop[t] = Now.stop[t]
        /\ \A h \in StopKinds : v.stop[s][h] = IF h = k THEN p ELSE Now.stop[s][h]
    BY <1>1, <1>5, <2>4, StopMoves
  <2> HIDE DEF v
  <2>6. /\ v.cont[s] = "inactive" /\ v.box = Now.box
        /\ \A t \in Session \ {s} : v.cont[t] = Now.cont[t]
    BY <1>1, <2>5 DEF View
  <2>7. /\ v.stop[s]["user"] = "no" /\ v.stop[s]["release"] = "no"
        /\ v.stop[s]["idle"] # "settle"
    BY <1>1, <1>2, <2>1, <2>4, <2>5 DEF StopKinds
  <2>8. Shaped(v, s) /\ Watched(v, s)
    BY <1>1, <2>5, <2>6, <2>7 DEF Shaped, Watched
  <2>9. \A t \in Session \ {s} : Same(Now, v, t) /\ (t \in Now.armed => t \in v.armed)
    BY <2>5, <2>6 DEF Same
  <2> QED BY <2>3, <2>5, <2>8, <2>9, StepPasses
<1>8. ASSUME NEW k \in StopKinds, StopFails(s, k)
      PROVE  Stands'
  <2> DEFINE v == Moved(Now, s, k, "no", cont[s], box[s])
             a == [v EXCEPT !.armed = @ \cup {s}]
  <2>1. /\ k \in {"idle", "queue"} /\ stop[s][k] = "begun"
        /\ k = "idle" => box[s] = "none"
    BY <1>2, <1>8 DEF StopFails, StopKinds, Standing, Undisturbed
  <2>2. v = [Now EXCEPT !.stop[s][k] = "no"]
    BY <1>1 DEF View, Moved
  <2>3. IF k = "queue" THEN Become(Schedule(a)) ELSE Become(v)
    <3>1. LET w == [Now EXCEPT !.stop[s][k] = "no"]
          IN  IF k = "queue" THEN Become(Schedule([w EXCEPT !.armed = @ \cup {s}]))
              ELSE Become(w)
      BY <1>8 DEF StopFails
    <3> HIDE DEF v
    <3> QED BY <2>2, <3>1
  <2>4. "no" \in StopSteps
    BY DEF StopSteps
  <2>5. /\ v \in View /\ v.state = Now.state /\ v.step = Now.step /\ v.pend = Now.pend
        /\ v.armed = Now.armed /\ v.held = Now.held /\ v.recovering = Now.recovering
        /\ v.cont = [Now.cont EXCEPT ![s] = cont[s]] /\ v.box = [Now.box EXCEPT ![s] = box[s]]
        /\ \A t \in Session \ {s} : v.stop[t] = Now.stop[t]
        /\ \A h \in StopKinds : v.stop[s][h] = IF h = k THEN "no" ELSE Now.stop[s][h]
    BY <1>1, <1>5, <2>4, StopMoves
  <2> HIDE DEF v
  <2>6. v.cont = Now.cont /\ v.box = Now.box
    BY <1>1, <2>5 DEF View
  <2>7. /\ v.stop[s]["user"] = "no" /\ v.stop[s]["release"] = "no"
        /\ v.stop[s]["idle"] # "settle"
    BY <1>1, <1>2, <2>1, <2>5 DEF StopKinds
  <2>8. Shaped(v, s)
    BY <1>1, <2>5, <2>6, <2>7 DEF Shaped, Exists
  <2>9. \A t \in Session \ {s} : Same(Now, v, t) /\ (t \in Now.armed => t \in v.armed)
    BY <2>5, <2>6 DEF Same
  <2>10. CASE k = "queue"
    <3>1. /\ a \in View /\ a.state = v.state /\ a.step = v.step /\ a.cont = v.cont
          /\ a.box = v.box /\ a.pend = v.pend /\ a.stop = v.stop
          /\ a.armed = v.armed \cup {s}
      BY <2>5 DEF View
    <3>2. Become(Schedule(a))
      BY <2>3, <2>10
    <3> HIDE DEF a
    <3>3. Shaped(a, s) /\ Watched(a, s)
      BY <2>8, <3>1 DEF Shaped, Watched, Exists
    <3>4. \A t \in Session \ {s} : Same(Now, a, t) /\ (t \in Now.armed => t \in a.armed)
      BY <2>9, <3>1 DEF Same
    <3> QED BY <3>1, <3>2, <3>3, <3>4, StepPasses
  <2>11. CASE k = "idle"
    <3>1. Watched(v, s)
      BY <1>1, <2>1, <2>6, <2>11 DEF Watched, Shaped
    <3>2. Eases(Now, v)
      BY <2>5, <2>6, RestEases DEF Rest
    <3> QED BY <2>3, <2>5, <2>8, <2>9, <2>11, <3>1, <3>2, StepStands
  <2> QED BY <2>1, <2>10, <2>11
<1>9. CASE HandoffSettles(s)
  <2> DEFINE v == Moved(Now, s, "queue", "no", cont[s], box[s])
  <2>1. stop[s]["queue"] = "settle"
    BY <1>9 DEF HandoffSettles
  <2>2. v = [Now EXCEPT !.stop[s]["queue"] = "no"]
    BY <1>1 DEF View, Moved
  <2>3. Become(Schedule(v))
    <3> HIDE DEF v
    <3> QED BY <1>9, <2>2 DEF HandoffSettles
  <2>4. "no" \in StopSteps /\ "queue" \in StopKinds
    BY DEF StopSteps, StopKinds
  <2>5. /\ v \in View /\ v.state = Now.state /\ v.step = Now.step /\ v.pend = Now.pend
        /\ v.armed = Now.armed /\ v.held = Now.held /\ v.recovering = Now.recovering
        /\ v.cont = [Now.cont EXCEPT ![s] = cont[s]] /\ v.box = [Now.box EXCEPT ![s] = box[s]]
        /\ \A t \in Session \ {s} : v.stop[t] = Now.stop[t]
        /\ \A h \in StopKinds : v.stop[s][h] = IF h = "queue" THEN "no" ELSE Now.stop[s][h]
    BY <1>1, <1>5, <2>4, StopMoves
  <2> HIDE DEF v
  <2>6. v.cont = Now.cont /\ v.box = Now.box
    BY <1>1, <2>5 DEF View
  <2>7. /\ v.stop[s]["user"] = "no" /\ v.stop[s]["release"] = "no"
        /\ v.stop[s]["idle"] = Now.stop[s]["idle"] /\ v.stop[s]["queue"] = "no"
    BY <1>1, <1>2, <2>5 DEF StopKinds
  <2>8. Shaped(v, s)
    BY <1>1, <2>5, <2>6, <2>7 DEF Shaped, Exists
  <2>9. Watched(v, s)
    BY <1>1, <2>1, <2>5, <2>6, <2>7 DEF Watched
  <2>10. \A t \in Session \ {s} : Same(Now, v, t) /\ (t \in Now.armed => t \in v.armed)
    BY <2>5, <2>6 DEF Same
  <2> QED BY <2>3, <2>5, <2>8, <2>9, <2>10, StepPasses
<1> QED
  BY <1>3, <1>4, <1>6, <1>7, <1>8, <1>9, TimerStands

LEMMA InitStands == Init => Stands
BY DEF Init, Stands, Now, Fit, Shaped, Watched, Exists, Settled, Active, Waiting, Drainable,
       StopKinds, Lulls

LEMMA NextStands ==
  Inv /\ Visible(Now) /\ Lined(Now) /\ Stands /\ Undisturbed /\ [Next]_vars => Stands'
<1> SUFFICES ASSUME Inv, Visible(Now), Lined(Now), Stands, Undisturbed, [Next]_vars
             PROVE  Stands'
  OBVIOUS
<1>1. Standing
  BY DEF Standing, Stands
<1>2. Ordered(Now)' /\ Lined(Now)'
  BY NextSafe, NextLine DEF Inv, Safe
<1>3. CASE UserStep
  BY <1>1, <1>2, <1>3, UserStands, DeleteStands, PromptStands, StopStands, SettingsStands
     DEF UserStep
<1>4. ~Restart
  BY BoundsAssumption DEF Restart, Undisturbed, Inv, TypeOK
<1>5. ASSUME NEW s \in Session, SystemStep(s)
      PROVE  Stands'
  BY <1>1, <1>2, <1>5, LaunchStands, LullStands, TurnStands, StopStands DEF SystemStep
<1>6. ASSUME NEW s \in Session, Fault(s)
      PROVE  Stands'
  BY <1>1, <1>2, <1>6, LaunchStands, LullStands, TurnStands, StopStands DEF Fault
<1>7. CASE UNCHANGED vars
  BY <1>7 DEF vars, Stands, Now, Fit, Shaped, Watched, Exists, Settled, Active, Waiting,
              Drainable, Holders
<1> QED BY <1>1, <1>2, <1>3, <1>4, <1>5, <1>6, <1>7, UserStands DEF Next

LEMMA QuietFree ==
  ASSUME TypeOK, Stands, Quiet
  PROVE  \A s \in Session : ~Active(Now, s)
BY DEF Stands, Fit, Shaped, Watched, Active, Quiet, Now, StopKinds, TypeOK, View, ContStates

(* The queue is never left waiting on something that will not happen: once   *)
(* the process is quiet only a plan limit holds a queued session - where     *)
(* nobody takes a container down by hand, no idle stop fails and the         *)
(* application is not restarted, each of which may leave an idle session     *)
(* with its clone and nothing that would end it.                             *)
THEOREM QueueNeverStalls ==
  ASSUME Undisturbed
  PROVE  Spec => []QueueMoves
<1>1. Init => Inv /\ Visible(Now) /\ Lined(Now) /\ Stands
  BY InitSafe, InitVisible, InitLine, InitStands
<1>2. Inv /\ Visible(Now) /\ Lined(Now) /\ Stands /\ [Next]_vars
        => (Inv /\ Visible(Now) /\ Lined(Now) /\ Stands)'
  BY NextSafe, NextVisible, NextLine, NextStands
<1>3. Inv /\ Stands => QueueMoves
  <2> SUFFICES ASSUME Inv, Stands, Quiet
               PROVE  Waiting(Now) = {}
    BY DEF QueueMoves
  <2> QED BY QuietFree DEF Inv, Stands, Settled
<1> QED BY <1>1, <1>2, <1>3, PTL DEF Spec

(* Nor is an accepted prompt, under the same conditions: once the process is *)
(* quiet, whatever waits is held by a limit or paused.                       *)
THEOREM PromptsNeverStall ==
  ASSUME Undisturbed
  PROVE  Spec => []PromptsMove
<1>1. Init => Inv /\ Visible(Now) /\ Lined(Now) /\ Stands
  BY InitSafe, InitVisible, InitLine, InitStands
<1>2. Inv /\ Visible(Now) /\ Lined(Now) /\ Stands /\ [Next]_vars
        => (Inv /\ Visible(Now) /\ Lined(Now) /\ Stands)'
  BY NextSafe, NextVisible, NextLine, NextStands
<1>3. Inv /\ Stands => PromptsMove
  <2> SUFFICES ASSUME Inv, Stands, Quiet, NEW s \in Session, pend[s] > 0,
                      s \notin held \cup recovering
               PROVE  FALSE
    BY DEF PromptsMove
  <2>1. pend[s] # 0
    BY DEF Inv, TypeOK, Now, View
  <2>2. Now.state[s] = "started" /\ Now.step[s] = "none"
    BY <2>1 DEF Stands, Fit, Shaped, Quiet, Now
  <2>3. Holders(Now, s) = {}
    BY QuietFree DEF Holders, Inv
  <2>4. s \in Drainable(Now)
    BY <2>2, <2>3 DEF Drainable, Now
  <2> QED BY <2>4 DEF Stands, Settled
<1> QED BY <1>1, <1>2, <1>3, PTL DEF Spec
=============================================================================
