------------------------ MODULE SchedulerPass_proofs ------------------------
(***************************************************************************)
(* The loop of scheduleSync computes Schedule, for any sessions, clones,   *)
(* mounts, limits and caps.                                                *)
(*                                                                         *)
(* Of the items met so far, those the formula admits are started, and      *)
(* nothing else has changed.  As long as there is room, what the map holds *)
(* are the claims of those met that no limit holds; once there is none     *)
(* there is none for any item behind, whatever the map says.               *)
(***************************************************************************)
EXTENDS SchedulerPass, FiniteSetTheorems, TLAPS

(***************************************************************************)
(* The views of a pass.                                                    *)
(***************************************************************************)
LEMMA FoundType ==
  ASSUME NEW sit \in [Session -> Situation], NEW line \in Lines,
         NEW H \in SUBSET Limitable, NEW n \in Caps
  PROVE  Found(sit, line, H, n) \in View
<1> DEFINE v == Found(sit, line, H, n)
<1>1. \A s \in Session : /\ sit[s].state \in {"queued", "starting", "started"}
                         /\ sit[s].cont \in {"inactive", "running"}
                         /\ sit[s].step \in {"none", "resolve", "turn"}
                         /\ sit[s].pend \in {0, 1}
  <2> SUFFICES ASSUME NEW s \in Session
               PROVE  /\ sit[s].state \in {"queued", "starting", "started"}
                      /\ sit[s].cont \in {"inactive", "running"}
                      /\ sit[s].step \in {"none", "resolve", "turn"}
                      /\ sit[s].pend \in {0, 1}
    OBVIOUS
  <2>1. PICK x \in Situation : x = sit[s]
    OBVIOUS
  <2>2. /\ x.state \in {"queued", "starting", "started"}
        /\ x.cont \in {"inactive", "running"}
        /\ x.step \in {"none", "resolve", "turn"} /\ x.pend \in {0, 1}
    BY DEF Situation
  <2> QED BY <2>1, <2>2
<1>2. {0, 1} \subseteq 0..MaxPend
  BY ViewAssumption
<1>3. /\ v.state \in [Session -> SessionStates] /\ v.cont \in [Session -> ContStates]
      /\ v.step \in [Session -> Steps] /\ v.box \in [Session -> BoxStates]
  BY <1>1 DEF Found, SessionStates, ContStates, Steps, BoxStates
<1>4. v.pend \in [Session -> 0..MaxPend]
  BY <1>1, <1>2 DEF Found
<1>5. v.before \in SUBSET (Session \X Session)
  BY DEF Found, Lines
<1>6. v.stop \in [Session -> [StopKinds -> StopSteps]]
  BY DEF Found, StopSteps
<1>7. /\ v.agent \in SUBSET Session /\ v.nudging \in SUBSET Session
      /\ v.recovering \in SUBSET Session /\ v.held \in SUBSET Limitable /\ v.cap \in Caps
      /\ v.armed \in SUBSET Session
  BY DEF Found
<1>8. v = [state |-> v.state, before |-> v.before, cont |-> v.cont, box |-> v.box,
           step |-> v.step, agent |-> v.agent, pend |-> v.pend, nudging |-> v.nudging,
           recovering |-> v.recovering, held |-> v.held, cap |-> v.cap, armed |-> v.armed,
           stop |-> v.stop]
  BY DEF Found
<1> HIDE DEF v
<1>9. v \in View
  BY <1>3, <1>4, <1>5, <1>6, <1>7, <1>8 DEF View
<1> QED BY <1>9 DEF v

(* The queue of the view a pass finds is a strict total order.               *)
InLine(v) ==
  /\ \A s, t \in Session :
       v.state[s] = "queued" /\ v.state[t] = "queued"
         => (<<s, t>> \in v.before <=> s # t /\ <<t, s>> \notin v.before)
  /\ \A s, t \in Session : <<s, t>> \in v.before => v.state[s] = "queued" /\ v.state[t] = "queued"
  /\ \A s, t, r \in Session :
       <<s, t>> \in v.before /\ <<t, r>> \in v.before => <<s, r>> \in v.before

LEMMA FoundInLine ==
  ASSUME NEW sit \in [Session -> Situation], NEW line \in Lines, NEW H, NEW n
  PROVE  InLine(Found(sit, line, H, n))
<1> DEFINE v == Found(sit, line, H, n)
<1>1. /\ v.state = [s \in Session |-> sit[s].state]
      /\ v.before = {p \in line : sit[p[1]].state = "queued" /\ sit[p[2]].state = "queued"}
  BY DEF Found
<1> HIDE DEF v
<1>2. \A s, t \in Session :
        <<s, t>> \in v.before <=> /\ <<s, t>> \in line
                                  /\ v.state[s] = "queued" /\ v.state[t] = "queued"
  BY <1>1
<1>3. /\ \A s, t \in Session : <<s, t>> \in line <=> s # t /\ <<t, s>> \notin line
      /\ \A s, t, r \in Session : <<s, t>> \in line /\ <<t, r>> \in line => <<s, r>> \in line
  BY DEF Lines
<1> QED BY <1>2, <1>3 DEF InLine, v

(* The view with the sessions of S started, and with those of D at a turn.   *)
Began(v, S) ==
  [v EXCEPT !.before = {p \in v.before : p[1] \notin S /\ p[2] \notin S},
            !.state = [s \in Session |-> IF s \in S THEN "starting" ELSE v.state[s]],
            !.step = [s \in Session |-> IF s \in S THEN "resolve" ELSE v.step[s]],
            !.armed = v.armed \ S]

Sent(v, D) ==
  [v EXCEPT !.step = [s \in Session |-> IF s \in D THEN Opening("mask") ELSE v.step[s]],
            !.pend = [s \in Session |-> IF s \in D THEN v.pend[s] - 1 ELSE v.pend[s]],
            !.nudging = v.nudging \ D,
            !.armed = v.armed \ D]

LEMMA StartAllFace ==
  ASSUME NEW v \in View, NEW S \in SUBSET Session
  PROVE  LET w == StartAll(v, S)
         IN  /\ w = Began(v, S) /\ w \in View
             /\ w.before = {p \in v.before : p[1] \notin S /\ p[2] \notin S}
             /\ w.state = [s \in Session |-> IF s \in S THEN "starting" ELSE v.state[s]]
             /\ w.step = [s \in Session |-> IF s \in S THEN "resolve" ELSE v.step[s]]
             /\ w.armed = v.armed \ S
             /\ w.cont = v.cont /\ w.held = v.held /\ w.cap = v.cap
<1> DEFINE be == {p \in v.before : p[1] \notin S /\ p[2] \notin S}
           st == [s \in Session |-> IF s \in S THEN "starting" ELSE v.state[s]]
           sp == [s \in Session |-> IF s \in S THEN "resolve" ELSE v.step[s]]
           w  == [v EXCEPT !.before = be, !.state = st, !.step = sp, !.armed = v.armed \ S]
<1>1. StartAll(v, S) = w /\ Began(v, S) = w
  BY DEF StartAll, Unqueue, View, Began
<1>2. /\ be \in SUBSET (Session \X Session) /\ st \in [Session -> SessionStates]
      /\ sp \in [Session -> Steps]
  BY DEF View, SessionStates, Steps
<1> HIDE DEF be, st, sp
<1>3. w \in View
  BY <1>2 DEF View
<1>4. /\ w.before = be /\ w.state = st /\ w.step = sp /\ w.armed = v.armed \ S
      /\ w.cont = v.cont /\ w.held = v.held /\ w.cap = v.cap
  BY DEF View
<1> HIDE DEF w
<1> QED BY <1>1, <1>3, <1>4 DEF be, st, sp

LEMMA StartNone ==
  ASSUME NEW v \in View
  PROVE  StartAll(v, {}) = v
<1>1. StartAll(v, {}) = Began(v, {})
  BY StartAllFace
<1>2. {p \in v.before : p[1] \notin {} /\ p[2] \notin {}} = v.before /\ v.armed \ {} = v.armed
  OBVIOUS
<1>3. [s \in Session |-> IF s \in {} THEN "starting" ELSE v.state[s]] = v.state
  BY DEF View
<1>4. [s \in Session |-> IF s \in {} THEN "resolve" ELSE v.step[s]] = v.step
  BY DEF View
<1>5. Began(v, {}) = [v EXCEPT !.before = v.before, !.state = v.state, !.step = v.step,
                               !.armed = v.armed]
  BY <1>2, <1>3, <1>4 DEF Began
<1>6. [v EXCEPT !.before = v.before, !.state = v.state, !.step = v.step, !.armed = v.armed] = v
  BY DEF View
<1> QED BY <1>1, <1>5, <1>6

(* One item started after others is started with them.                       *)
LEMMA StartOneMore ==
  ASSUME NEW v \in View, NEW S \in SUBSET Session, NEW s \in Session
  PROVE  StartAll(StartAll(v, S), {s}) = StartAll(v, S \cup {s})
<1> DEFINE u == StartAll(v, S)
           T == S \cup {s}
           ub == {p \in v.before : p[1] \notin S /\ p[2] \notin S}
           us == [t \in Session |-> IF t \in S THEN "starting" ELSE v.state[t]]
           up == [t \in Session |-> IF t \in S THEN "resolve" ELSE v.step[t]]
           xb == {p \in v.before : p[1] \notin T /\ p[2] \notin T}
           xs == [t \in Session |-> IF t \in T THEN "starting" ELSE v.state[t]]
           xp == [t \in Session |-> IF t \in T THEN "resolve" ELSE v.step[t]]
<1>1. /\ u = Began(v, S) /\ u \in View
      /\ u.before = ub /\ u.state = us /\ u.step = up /\ u.armed = v.armed \ S
  BY StartAllFace
<1> HIDE DEF u
<1>2. {s} \in SUBSET Session /\ T \in SUBSET Session
  OBVIOUS
<1>3. StartAll(u, {s}) = Began(u, {s}) /\ StartAll(v, T) = Began(v, T)
  <2> HIDE DEF T
  <2> QED BY <1>1, <1>2, StartAllFace
<1>4. {p \in u.before : p[1] \notin {s} /\ p[2] \notin {s}} = xb
  BY <1>1
<1>5. [t \in Session |-> IF t \in {s} THEN "starting" ELSE u.state[t]] = xs
  BY <1>1
<1>6. [t \in Session |-> IF t \in {s} THEN "resolve" ELSE u.step[t]] = xp
  BY <1>1
<1>7. u.armed \ {s} = v.armed \ T
  BY <1>1
<1>8. Began(u, {s}) = [u EXCEPT !.before = xb, !.state = xs, !.step = xp, !.armed = v.armed \ T]
  BY <1>4, <1>5, <1>6, <1>7 DEF Began
<1>9. Began(v, T) = [v EXCEPT !.before = xb, !.state = xs, !.step = xp, !.armed = v.armed \ T]
  BY DEF Began
<1>10. u = [v EXCEPT !.before = ub, !.state = us, !.step = up, !.armed = v.armed \ S]
  BY <1>1 DEF Began
<1> HIDE DEF ub, us, up, xb, xs, xp
<1>11. Began(u, {s}) = Began(v, T)
  BY <1>8, <1>9, <1>10 DEF View
<1> QED BY <1>3, <1>11 DEF u, T

LEMMA DrainFace ==
  ASSUME NEW v \in View, NEW S \in SUBSET Session
  PROVE  LET w == Drain(v, S)
             D == S \cap Drainable(v)
         IN  /\ w = Sent(v, D) /\ w \in View
             /\ w.step = [s \in Session |-> IF s \in D THEN Opening("mask") ELSE v.step[s]]
             /\ w.pend = [s \in Session |-> IF s \in D THEN v.pend[s] - 1 ELSE v.pend[s]]
             /\ w.nudging = v.nudging \ D /\ w.armed = v.armed \ D
             /\ w.state = v.state /\ w.cont = v.cont /\ w.held = v.held /\ w.cap = v.cap
             /\ w.recovering = v.recovering
<1> DEFINE D == S \cap Drainable(v)
           sp == [s \in Session |-> IF s \in D THEN Opening("mask") ELSE v.step[s]]
           pe == [s \in Session |-> IF s \in D THEN v.pend[s] - 1 ELSE v.pend[s]]
           w  == [v EXCEPT !.step = sp, !.pend = pe, !.nudging = v.nudging \ D,
                           !.armed = v.armed \ D]
<1>1. Drain(v, S) = w /\ Sent(v, D) = w
  <2>1. Drain(v, S) = w
    BY DEF Drain, BeginTurn, View
  <2>2. Sent(v, D) = w
    BY DEF Sent
  <2> QED BY <2>1, <2>2
<1>2. sp \in [Session -> Steps]
  BY DEF View, Steps, Opening, Lulls
<1>3. pe \in [Session -> 0..MaxPend]
  <2>1. \A s \in D : v.pend[s] > 0
    BY DEF Drainable
  <2>2. \A s \in Session : v.pend[s] \in 0..MaxPend
    BY DEF View
  <2>3. \A s \in Session : v.pend[s] > 0 => v.pend[s] - 1 \in 0..MaxPend
    BY <2>2, ViewAssumption
  <2> HIDE DEF D
  <2> QED BY <2>1, <2>2, <2>3
<1> HIDE DEF sp, pe, D
<1>4. w \in View
  BY <1>2, <1>3 DEF View
<1>5. /\ w.step = sp /\ w.pend = pe /\ w.nudging = v.nudging \ D /\ w.armed = v.armed \ D
      /\ w.state = v.state /\ w.cont = v.cont /\ w.held = v.held /\ w.cap = v.cap
      /\ w.recovering = v.recovering
  BY DEF View
<1> HIDE DEF w
<1> QED BY <1>1, <1>4, <1>5 DEF sp, pe, D

LEMMA DrainNone ==
  ASSUME NEW v \in View
  PROVE  Drain(v, {}) = v
<1>1. Drain(v, {}) = Sent(v, {})
  <2>1. Drain(v, {}) = Sent(v, {} \cap Drainable(v))
    BY DrainFace
  <2>2. {} \cap Drainable(v) = {}
    OBVIOUS
  <2> QED BY <2>1, <2>2
<1>2. v.nudging \ {} = v.nudging /\ v.armed \ {} = v.armed
  OBVIOUS
<1>3. [s \in Session |-> IF s \in {} THEN Opening("mask") ELSE v.step[s]] = v.step
  BY DEF View
<1>4. [s \in Session |-> IF s \in {} THEN v.pend[s] - 1 ELSE v.pend[s]] = v.pend
  BY DEF View
<1>5. Sent(v, {}) = [v EXCEPT !.step = v.step, !.pend = v.pend, !.nudging = v.nudging,
                              !.armed = v.armed]
  BY <1>2, <1>3, <1>4 DEF Sent
<1>6. [v EXCEPT !.step = v.step, !.pend = v.pend, !.nudging = v.nudging, !.armed = v.armed] = v
  BY DEF View
<1> QED BY <1>1, <1>5, <1>6

(* One prompt sent after others is sent with them.                           *)
LEMMA DrainOneMore ==
  ASSUME NEW v \in View, NEW S \in SUBSET Session, NEW s \in Session \ S
  PROVE  Drain(Drain(v, S), {s}) = Drain(v, S \cup {s})
<1> DEFINE u == Drain(v, S)
           D == S \cap Drainable(v)
           E == {s} \cap Drainable(u)
           T == (S \cup {s}) \cap Drainable(v)
           us == [t \in Session |-> IF t \in D THEN Opening("mask") ELSE v.step[t]]
           up == [t \in Session |-> IF t \in D THEN v.pend[t] - 1 ELSE v.pend[t]]
           xs == [t \in Session |-> IF t \in T THEN Opening("mask") ELSE v.step[t]]
           xp == [t \in Session |-> IF t \in T THEN v.pend[t] - 1 ELSE v.pend[t]]
<1>1. /\ u = Sent(v, D) /\ u \in View
      /\ u.step = us /\ u.pend = up /\ u.nudging = v.nudging \ D /\ u.armed = v.armed \ D
      /\ u.state = v.state /\ u.cont = v.cont /\ u.held = v.held
      /\ u.recovering = v.recovering
  BY DrainFace
<1> HIDE DEF u
<1>2. s \in Drainable(u) <=> s \in Drainable(v)
  <2>1. u.step[s] = v.step[s] /\ u.pend[s] = v.pend[s]
    BY <1>1
  <2>2. Holders(u, s) = Holders(v, s)
    BY <1>1 DEF Holders, Active
  <2> QED BY <1>1, <2>1, <2>2 DEF Drainable
<1>3. T = D \cup E /\ s \notin D
  BY <1>2
<1>4. Drain(u, {s}) = Sent(u, E)
  <2>1. {s} \in SUBSET Session
    OBVIOUS
  <2> QED BY <1>1, <2>1, DrainFace
<1>5. Drain(v, S \cup {s}) = Sent(v, T)
  <2> DEFINE R == S \cup {s}
  <2>1. R \in SUBSET Session
    OBVIOUS
  <2> HIDE DEF R
  <2>2. Drain(v, R) = Sent(v, R \cap Drainable(v))
    BY <2>1, DrainFace
  <2> QED BY <2>2 DEF R
<1> HIDE DEF D, E, T
<1>6. [t \in Session |-> IF t \in E THEN Opening("mask") ELSE u.step[t]] = xs
  BY <1>1, <1>3
<1>7. [t \in Session |-> IF t \in E THEN u.pend[t] - 1 ELSE u.pend[t]] = xp
  <2>1. \A t \in E : t \notin D
    BY <1>3 DEF E
  <2> QED BY <1>1, <1>3, <2>1
<1>8. u.nudging \ E = v.nudging \ T /\ u.armed \ E = v.armed \ T
  BY <1>1, <1>3
<1>9. Sent(u, E) = [u EXCEPT !.step = xs, !.pend = xp, !.nudging = v.nudging \ T,
                             !.armed = v.armed \ T]
  BY <1>6, <1>7, <1>8 DEF Sent
<1>10. Sent(v, T) = [v EXCEPT !.step = xs, !.pend = xp, !.nudging = v.nudging \ T,
                              !.armed = v.armed \ T]
  BY DEF Sent
<1>11. u = [v EXCEPT !.step = us, !.pend = up, !.nudging = v.nudging \ D,
                     !.armed = v.armed \ D]
  BY <1>1 DEF Sent
<1> HIDE DEF us, up, xs, xp
<1>12. Sent(u, E) = Sent(v, T)
  BY <1>9, <1>10, <1>11 DEF View
<1> QED BY <1>4, <1>5, <1>12 DEF u

(***************************************************************************)
(* The loop.                                                               *)
(***************************************************************************)
Queue == {s \in Session : from.state[s] = "queued"}
Met   == Queue \ todo
Begun == Admitted(from) \cap Met
Bound == Waiting(from) \cap Met

(* The map, as those met and not held fill it. *)
Mapped(c) ==
  IF \E t \in Bound : c \in Exclusive(t) THEN "exclusive"
  ELSE IF \E t \in Bound : c \in Claims(t) THEN "shared" ELSE "free"

LoopInv ==
  /\ from \in View /\ InLine(from)
  /\ todo \subseteq Queue /\ drained \subseteq Session /\ (drained # {} => todo = {})
  /\ \A s \in Met, t \in todo : <<s, t>> \in from.before
  /\ view = Drain(StartAll(from, Begun), drained)
  /\ claimed \in [Clone -> {"free", "shared", "exclusive"}]
  /\ started = IF from.cap > 0 THEN Cardinality(Begun) ELSE 0
  /\ drained = {} =>
       AtCap \/ (Startable(from) \cap Met \subseteq Begun /\ \A c \in Clone : claimed[c] = Mapped(c))

LEMMA LoopInit == Init => LoopInv
<1> SUFFICES ASSUME Init
             PROVE  LoopInv
  OBVIOUS
<1>1. from \in View /\ InLine(from)
  BY FoundType, FoundInLine DEF Init
<1>2. todo = Queue /\ Met = {} /\ Begun = {} /\ Bound = {} /\ drained = {}
  BY DEF Init, Queue, Met, Begun, Bound
<1>3. view = Drain(StartAll(from, {}), {})
  BY <1>1, StartNone, DrainNone DEF Init
<1>4. Cardinality({}) = 0
  BY FS_EmptySet
<1>5. \A c \in Clone : claimed[c] = Mapped(c)
  BY <1>2 DEF Init, Mapped
<1> QED
  BY <1>1, <1>2, <1>3, <1>4, <1>5 DEF LoopInv, Init

(* While items are left the view is the one found, with what was started.    *)
LEMMA Opened ==
  ASSUME LoopInv, drained = {}
  PROVE  /\ view = StartAll(from, Begun) /\ view \in View /\ Begun \in SUBSET Session
         /\ view.state = [s \in Session |-> IF s \in Begun THEN "starting" ELSE from.state[s]]
         /\ view.cont = from.cont /\ view.held = from.held /\ view.cap = from.cap
<1>1. Begun \in SUBSET Session
  BY DEF Begun, Met, Queue
<1>2. StartAll(from, Begun) \in View
  BY <1>1, StartAllFace DEF LoopInv
<1>3. view = StartAll(from, Begun)
  BY <1>2, DrainNone DEF LoopInv
<1>4. from \in View
  BY DEF LoopInv
<1>5. /\ StartAll(from, Begun).cont = from.cont /\ StartAll(from, Begun).held = from.held
      /\ StartAll(from, Begun).cap = from.cap
      /\ StartAll(from, Begun).state
           = [s \in Session |-> IF s \in Begun THEN "starting" ELSE from.state[s]]
  BY <1>1, <1>4, StartAllFace
<1> QED BY <1>1, <1>2, <1>3, <1>5

(* The cap, of what the formula counts and of what the loop counts.          *)
Count(S) == ActiveCount(StartAll(from, S)) + Cardinality(S)

LEMMA CountIsMonotone ==
  ASSUME from \in View, NEW S \in SUBSET Session, NEW T \in SUBSET Session, S \subseteq T
  PROVE  Count(S) \in Nat /\ Count(T) \in Nat /\ Count(S) <= Count(T)
<1> DEFINE A(R) == {s \in Session : Active(StartAll(from, R), s)}
<1>1. A(S) \subseteq A(T)
  <2>1. /\ StartAll(from, S).cont = from.cont /\ StartAll(from, T).cont = from.cont
        /\ \A s \in Session : StartAll(from, S).state[s] = "starting"
                                => StartAll(from, T).state[s] = "starting"
    <3>1. /\ StartAll(from, S).cont = from.cont
          /\ StartAll(from, S).state
               = [s \in Session |-> IF s \in S THEN "starting" ELSE from.state[s]]
      BY StartAllFace
    <3>2. /\ StartAll(from, T).cont = from.cont
          /\ StartAll(from, T).state
               = [s \in Session |-> IF s \in T THEN "starting" ELSE from.state[s]]
      BY StartAllFace
    <3> QED BY <3>1, <3>2
  <2> QED BY <2>1 DEF Active
<1>2. IsFiniteSet(A(S)) /\ IsFiniteSet(A(T)) /\ IsFiniteSet(S) /\ IsFiniteSet(T)
  BY FS_Subset, ViewAssumption
<1>3. /\ Cardinality(A(S)) \in Nat /\ Cardinality(A(T)) \in Nat
      /\ Cardinality(S) \in Nat /\ Cardinality(T) \in Nat
  BY <1>2, FS_CardinalityType
<1>4. Cardinality(A(S)) <= Cardinality(A(T)) /\ Cardinality(S) <= Cardinality(T)
  BY <1>1, <1>2, FS_Subset
<1>5. Count(S) = Cardinality(A(S)) + Cardinality(S) /\ Count(T) = Cardinality(A(T)) + Cardinality(T)
  BY DEF Count, ActiveCount
<1> HIDE DEF A
<1> QED BY <1>3, <1>4, <1>5

LEMMA CapCounts ==
  ASSUME LoopInv, drained = {}
  PROVE  AtCap <=> from.cap > 0 /\ Count(Begun) >= from.cap
<1>1. view = StartAll(from, Begun) /\ view.cap = from.cap
  BY Opened
<1>2. from.cap > 0 => started = Cardinality(Begun)
  BY DEF LoopInv
<1> QED BY <1>1, <1>2 DEF AtCap, Count

(* Who is next: of those that wait, the ones met are those in front of it.   *)
LEMMA NextInLine ==
  ASSUME LoopInv, NEW s \in Session, IsNext(s)
  PROVE  /\ s \in Queue \ Met /\ drained = {}
         /\ \A t \in Queue : t \in Met <=> <<t, s>> \in from.before
<1>1. /\ s \in todo /\ todo \subseteq Queue /\ InLine(from)
      /\ \A t \in todo \ {s} : <<s, t>> \in from.before
      /\ \A t \in Met : <<t, s>> \in from.before
  BY DEF LoopInv, IsNext
<1>2. drained = {}
  BY <1>1 DEF LoopInv
<1>3. ASSUME NEW t \in Queue, <<t, s>> \in from.before
      PROVE  t \notin todo
  <2>1. t # s
    BY <1>1, <1>3 DEF InLine, Queue
  <2>2. t \in todo => <<s, t>> \in from.before
    BY <1>1, <2>1
  <2>3. s \in Session /\ t \in Session /\ from.state[s] = "queued" /\ from.state[t] = "queued"
    BY <1>1, <1>3 DEF Queue
  <2> QED BY <1>1, <1>3, <2>2, <2>3 DEF InLine
<1> QED BY <1>1, <1>2, <1>3 DEF Met

(* With room left, the item is free when nothing that waits in front of it   *)
(* and nobody active has a claim that conflicts with its own.                *)
LEMMA TakenIsBlocked ==
  ASSUME LoopInv, NEW s \in Session, IsNext(s), ~AtCap, s \notin view.held
  PROVE  Taken(s) <=> s \notin Startable(from)
<1>1. /\ s \in Queue /\ drained = {} /\ view.held = from.held /\ view.cont = from.cont
      /\ view.state = [t \in Session |-> IF t \in Begun THEN "starting" ELSE from.state[t]]
      /\ \A t \in Queue : t \in Met <=> <<t, s>> \in from.before
  BY NextInLine, Opened
<1>2. \A c \in Clone : claimed[c] = Mapped(c)
  BY <1>1 DEF LoopInv
<1>3. s \in Waiting(from)
  BY <1>1 DEF Waiting, Queue
<1>4. \A t \in Session : t \in Bound <=> t \in Waiting(from) /\ <<t, s>> \in from.before
  BY <1>1 DEF Bound, Waiting, Queue
<1>5. Claims(s) \subseteq Clone
  BY DEF Claims
<1>6. (\E c \in Claims(s) : claimed[c] = "exclusive" \/ (c \in Exclusive(s) /\ claimed[c] # "free"))
        <=> \E t \in Bound : Conflict(s, t)
  <2>1. ASSUME NEW c \in Claims(s)
        PROVE  (claimed[c] = "exclusive" \/ (c \in Exclusive(s) /\ claimed[c] # "free"))
                 <=> \E t \in Bound : c \in Claims(t) /\ c \in Exclusive(s) \cup Exclusive(t)
    <3>1. claimed[c] = Mapped(c) /\ \A t : c \in Exclusive(t) => c \in Claims(t)
      BY <1>2, <1>5 DEF Exclusive, Claims
    <3> QED BY <3>1 DEF Mapped
  <2> QED BY <2>1 DEF Conflict
<1>7. \A t \in Session : Active(view, t) <=> Active(from, t) \/ t \in Begun
  BY <1>1 DEF Active
<1>8. \A t \in Begun : t \in Bound
  BY DEF Begun, Bound, Admitted, Startable
<1>9. s \notin Bound
  BY NextInLine DEF Bound
<1>10. Taken(s) <=> Holders(from, s) # {} \/ \E t \in Bound : Conflict(s, t)
  <2>1. \A t : t \in Bound => t \in Session
    BY DEF Bound, Waiting
  <2>2. Holders(view, s) # {} <=> Holders(from, s) # {} \/ \E t \in Begun : Conflict(s, t)
    BY <1>7, <1>8, <1>9, <2>1 DEF Holders
  <2> QED BY <1>6, <1>8, <2>2 DEF Taken
<1>11. s \in Startable(from) <=>
         Holders(from, s) = {} /\ \A t \in Waiting(from) : <<t, s>> \in from.before => ~Conflict(s, t)
  BY <1>3 DEF Startable
<1>12. Bound \subseteq Session /\ Waiting(from) \subseteq Session
  BY DEF Bound, Waiting
<1>13. (\E t \in Bound : Conflict(s, t))
         <=> ~ \A t \in Waiting(from) : <<t, s>> \in from.before => ~Conflict(s, t)
  BY <1>4, <1>12
<1> QED
  BY <1>10, <1>11, <1>13

(* The formula admits what the loop would start next, and nothing else.      *)
LEMMA AdmittedNext ==
  ASSUME LoopInv, NEW s \in Session, IsNext(s)
  PROVE  s \in Admitted(from) <=> s \in Startable(from) /\ ~AtCap
<1> DEFINE ahead == {t \in Startable(from) : <<t, s>> \in from.before}
<1>1. /\ drained = {} /\ from \in View /\ Begun \in SUBSET Session
      /\ \A t \in Queue : t \in Met <=> <<t, s>> \in from.before
  BY NextInLine, Opened DEF LoopInv
<1>2. ahead = Startable(from) \cap Met /\ Begun \subseteq ahead /\ ahead \in SUBSET Session
  BY <1>1 DEF Startable, Waiting, Queue, Begun, Admitted
<1>3. s \in Admitted(from) <=> s \in Startable(from) /\ (from.cap = 0 \/ Count(ahead) < from.cap)
  BY DEF Admitted, Count
<1>4. AtCap <=> from.cap > 0 /\ Count(Begun) >= from.cap
  BY <1>1, CapCounts
<1>5. ~AtCap => ahead = Begun
  BY <1>1, <1>2 DEF LoopInv
<1>6. from.cap \in Nat
  BY <1>1, ViewAssumption DEF View
<1> HIDE DEF ahead
<1>7. Count(Begun) \in Nat /\ Count(ahead) \in Nat /\ Count(Begun) <= Count(ahead)
  BY <1>1, <1>2, CountIsMonotone
<1> QED
  BY <1>3, <1>4, <1>5, <1>6, <1>7

(* What an item that is met does to the sets the invariant speaks of.        *)
LEMMA MetNext ==
  ASSUME LoopInv, NEW s \in Session, IsNext(s), UNCHANGED <<from, drained>>
  PROVE  /\ Met' = Met \cup {s} /\ todo' \subseteq Queue' /\ drained' = {}
         /\ \A m \in Met', t \in todo' : <<m, t>> \in from'.before
         /\ Begun' = IF s \in Admitted(from) THEN Begun \cup {s} ELSE Begun
         /\ Bound' = IF s \in Waiting(from) THEN Bound \cup {s} ELSE Bound
<1>1. /\ s \in Queue \ Met /\ drained = {} /\ s \in todo /\ todo \subseteq Queue
      /\ Queue' = Queue /\ todo' = todo \ {s}
      /\ \A t \in todo \ {s} : <<s, t>> \in from.before
      /\ \A m \in Met, t \in todo : <<m, t>> \in from.before
  BY NextInLine DEF IsNext, LoopInv, Queue
<1>2. Met' = Met \cup {s}
  BY <1>1 DEF Met
<1>3. Admitted(from)' = Admitted(from) /\ Waiting(from)' = Waiting(from)
  BY DEF Admitted, Waiting, Startable
<1> QED BY <1>1, <1>2, <1>3 DEF Begun, Bound

LEMMA MapsNext ==
  ASSUME LoopInv, NEW s \in Session, IsNext(s), UNCHANGED <<from, drained>>,
         \A c \in Clone : claimed[c] = Mapped(c), claimed' = WithClaims(s), s \in Waiting(from)
  PROVE  \A c \in Clone : claimed'[c] = Mapped(c)'
<1>1. Bound' = Bound \cup {s}
  BY MetNext
<1>2. ASSUME NEW c \in Clone
      PROVE  claimed'[c] = Mapped(c)'
  <2>1. Mapped(c)' = IF \E t \in Bound \cup {s} : c \in Exclusive(t) THEN "exclusive"
                     ELSE IF \E t \in Bound \cup {s} : c \in Claims(t) THEN "shared" ELSE "free"
    BY <1>1 DEF Mapped
  <2>2. claimed'[c] = IF c \in Exclusive(s) \/ claimed[c] = "exclusive" THEN "exclusive"
                      ELSE IF c \in Claims(s) THEN "shared" ELSE claimed[c]
    BY DEF WithClaims
  <2>3. claimed[c] = Mapped(c)
    OBVIOUS
  <2> QED BY <2>1, <2>2, <2>3 DEF Mapped
<1> QED BY <1>2

LEMMA SkipLoop ==
  ASSUME LoopInv, NEW s \in Session, Skip(s)
  PROVE  LoopInv'
<1>1. /\ IsNext(s) /\ UNCHANGED <<from, view, claimed, started, drained>>
      /\ s \in from.held \/ AtCap
  BY NextInLine, Opened DEF Skip
<1>2. s \notin Admitted(from)
  BY <1>1, AdmittedNext DEF Startable, Waiting
<1>3. Begun' = Begun
  BY <1>1, <1>2, MetNext
<1>4. AtCap' <=> AtCap
  BY <1>1 DEF AtCap, ActiveCount, Active
<1>5. ASSUME ~AtCap
      PROVE  /\ (Startable(from) \cap Met \subseteq Begun)'
             /\ \A c \in Clone : claimed'[c] = Mapped(c)'
  <2>1. s \notin Waiting(from) /\ s \notin Startable(from)
    BY <1>1, <1>5 DEF Startable, Waiting
  <2>2. /\ Startable(from) \cap Met \subseteq Begun /\ \A c \in Clone : claimed[c] = Mapped(c)
    BY <1>1, <1>5, NextInLine DEF LoopInv
  <2>3. Met' = Met \cup {s} /\ Bound' = Bound
    BY <1>1, <2>1, MetNext
  <2>4. Startable(from)' = Startable(from)
    BY <1>1 DEF Startable, Waiting
  <2> QED BY <1>1, <1>3, <2>1, <2>2, <2>3, <2>4 DEF Mapped
<1>6. /\ from' \in View /\ InLine(from)' /\ view' = Drain(StartAll(from', Begun'), drained')
      /\ claimed' \in [Clone -> {"free", "shared", "exclusive"}]
      /\ started' = IF from'.cap > 0 THEN Cardinality(Begun') ELSE 0
  BY <1>1, <1>3 DEF LoopInv, InLine
<1> QED
  BY <1>1, <1>4, <1>5, <1>6, MetNext DEF LoopInv

LEMMA BlockLoop ==
  ASSUME LoopInv, NEW s \in Session, Block(s)
  PROVE  LoopInv'
<1>1. /\ IsNext(s) /\ UNCHANGED <<from, view, started, drained>> /\ claimed' = WithClaims(s)
      /\ s \notin view.held /\ ~AtCap /\ Taken(s)
  BY DEF Block
<1>2. s \notin Startable(from) /\ s \notin Admitted(from)
  BY <1>1, TakenIsBlocked, AdmittedNext
<1>3. s \in Waiting(from)
  BY <1>1, NextInLine, Opened DEF Waiting, Queue
<1>4. Begun' = Begun /\ Met' = Met \cup {s}
  BY <1>1, <1>2, MetNext
<1>5. Startable(from) \cap Met \subseteq Begun /\ \A c \in Clone : claimed[c] = Mapped(c)
  BY <1>1, NextInLine DEF LoopInv
<1>6. \A c \in Clone : claimed'[c] = Mapped(c)'
  BY <1>1, <1>3, <1>5, MapsNext
<1>7. (Startable(from) \cap Met \subseteq Begun)'
  <2>1. Startable(from)' = Startable(from)
    BY <1>1 DEF Startable, Waiting
  <2> QED BY <1>2, <1>4, <1>5, <2>1
<1>8. /\ from' \in View /\ InLine(from)' /\ view' = Drain(StartAll(from', Begun'), drained')
      /\ claimed' \in [Clone -> {"free", "shared", "exclusive"}]
      /\ started' = IF from'.cap > 0 THEN Cardinality(Begun') ELSE 0
  BY <1>1, <1>4 DEF LoopInv, InLine, WithClaims
<1> QED
  BY <1>1, <1>6, <1>7, <1>8, MetNext DEF LoopInv

LEMMA StartLoop ==
  ASSUME LoopInv, NEW s \in Session, Start(s)
  PROVE  LoopInv'
<1>1. /\ IsNext(s) /\ UNCHANGED <<from, drained>> /\ claimed' = WithClaims(s)
      /\ s \notin view.held /\ ~AtCap /\ ~Taken(s) /\ view' = StartAll(view, {s})
      /\ started' = IF view.cap > 0 THEN started + 1 ELSE started
  BY DEF Start
<1>2. s \in Startable(from) /\ s \in Admitted(from) /\ s \in Waiting(from)
  BY <1>1, TakenIsBlocked, AdmittedNext DEF Startable
<1>3. Begun' = Begun \cup {s} /\ Met' = Met \cup {s} /\ s \notin Begun /\ drained' = {}
  BY <1>1, <1>2, MetNext, NextInLine DEF Begun
<1>4. /\ view = StartAll(from, Begun) /\ Begun \in SUBSET Session /\ view.cap = from.cap
      /\ from \in View /\ drained = {}
  BY <1>1, NextInLine, Opened DEF LoopInv
<1>5. view' = Drain(StartAll(from', Begun'), drained')
  <2>1. view' = StartAll(from, Begun \cup {s})
    BY <1>1, <1>4, StartOneMore
  <2>2. StartAll(from, Begun \cup {s}) \in View
    <3> DEFINE R == Begun \cup {s}
    <3>1. R \in SUBSET Session
      BY <1>4
    <3> HIDE DEF R
    <3>2. StartAll(from, R) \in View
      BY <1>4, <3>1, StartAllFace
    <3> QED BY <3>2 DEF R
  <2> QED BY <1>1, <1>3, <2>1, <2>2, DrainNone
<1>6. started' = IF from'.cap > 0 THEN Cardinality(Begun') ELSE 0
  <2>1. IsFiniteSet(Begun)
    BY <1>4, FS_Subset, ViewAssumption
  <2>2. Cardinality(Begun \cup {s}) = Cardinality(Begun) + 1
    BY <1>3, <2>1, FS_AddElement
  <2> QED BY <1>1, <1>3, <1>4, <2>2 DEF LoopInv
<1>7. Startable(from) \cap Met \subseteq Begun /\ \A c \in Clone : claimed[c] = Mapped(c)
  BY <1>1, <1>4 DEF LoopInv
<1>8. \A c \in Clone : claimed'[c] = Mapped(c)'
  BY <1>1, <1>2, <1>7, MapsNext
<1>9. (Startable(from) \cap Met \subseteq Begun)'
  <2>1. Startable(from)' = Startable(from)
    BY <1>1 DEF Startable, Waiting
  <2> QED BY <1>3, <1>7, <2>1
<1>10. /\ from' \in View /\ InLine(from)'
       /\ claimed' \in [Clone -> {"free", "shared", "exclusive"}]
  BY <1>1 DEF LoopInv, InLine, WithClaims
<1> QED
  BY <1>1, <1>5, <1>6, <1>8, <1>9, <1>10, MetNext DEF LoopInv

LEMMA DrainLoop ==
  ASSUME LoopInv, NEW s \in Session, DrainPending(s)
  PROVE  LoopInv'
<1>1. /\ todo = {} /\ s \notin drained /\ UNCHANGED <<from, todo, claimed, started>>
      /\ view' = Drain(view, {s}) /\ drained' = drained \cup {s}
  BY DEF DrainPending
<1>2. Begun \in SUBSET Session /\ from \in View /\ drained \in SUBSET Session
  BY DEF Begun, Met, Queue, LoopInv
<1>3. Queue' = Queue /\ Met' = Met /\ Begun' = Begun
  BY <1>1 DEF Queue, Met, Begun, Admitted, Startable, Waiting
<1>4. StartAll(from, Begun) \in View
  BY <1>2, StartAllFace
<1>5. view' = Drain(StartAll(from', Begun'), drained')
  <2>1. view = Drain(StartAll(from, Begun), drained)
    BY DEF LoopInv
  <2>2. s \in Session \ drained
    BY <1>1
  <2> QED BY <1>1, <1>2, <1>3, <1>4, <2>1, <2>2, DrainOneMore
<1>6. drained' # {}
  BY <1>1
<1> QED
  BY <1>1, <1>2, <1>3, <1>5, <1>6 DEF LoopInv, InLine

(* The loop of scheduleSync - the map of claims, reserve() on what is not    *)
(* free, startedThisPass against the cap, and the prompts it sends behind    *)
(* the queue - leaves what Schedule says, for any number of sessions and     *)
(* clones.                                                                   *)
THEOREM LoopComputesPass == Spec => []PassIsSchedule
<1>1. LoopInv /\ [Next]_vars => LoopInv'
  <2> SUFFICES ASSUME LoopInv, [Next]_vars
               PROVE  LoopInv'
    OBVIOUS
  <2>1. CASE UNCHANGED vars
    BY <2>1 DEF vars, LoopInv, InLine, Queue, Met, Begun, Bound, Mapped, AtCap, Admitted,
                Startable, Waiting
  <2> QED BY <2>1, SkipLoop, BlockLoop, StartLoop, DrainLoop DEF Next
<1>2. LoopInv => PassIsSchedule
  <2> SUFFICES ASSUME LoopInv, todo = {}, drained = Session
               PROVE  view = Schedule(from)
    BY DEF PassIsSchedule
  <2>1. Begun = Admitted(from)
    BY DEF Begun, Met, Queue, Admitted, Startable, Waiting
  <2> QED BY <2>1 DEF LoopInv, Schedule
<1> QED BY LoopInit, <1>1, <1>2, PTL DEF Spec
=============================================================================
