--------------------------- MODULE SchedulerPass ---------------------------
(***************************************************************************)
(* scheduleSync as it is written: a loop over the queue that keeps the     *)
(* claims it has met in a map and counts what it started.  QueueViews says *)
(* what a pass does in one formula, Schedule; this is the algorithm.       *)
(***************************************************************************)
EXTENDS QueueViews

VARIABLES
  from,       \* the state the pass found
  view,       \* the state so far
  todo,       \* queue items left
  claimed,    \* each clone: whether an item met so far claims it, and how
  started,    \* startedThisPass, of a capped task
  drained     \* the sessions whose waiting prompts have been looked at

vars == <<from, view, todo, claimed, started, drained>>

(* The situations a pass may find a session in. *)
Situation ==
  {[state |-> "queued", cont |-> "inactive", step |-> "none", pend |-> 0],
   [state |-> "queued", cont |-> "running", step |-> "none", pend |-> 0],
   [state |-> "starting", cont |-> "inactive", step |-> "resolve", pend |-> 0],
   [state |-> "started", cont |-> "running", step |-> "turn", pend |-> 1]}
  \cup [state : {"started"}, cont : {"inactive", "running"}, step : {"none"}, pend : {0, 1}]

(* The orders in which they may have been queued. *)
Lines ==
  {line \in SUBSET (Session \X Session) :
     /\ \A s, t \in Session : <<s, t>> \in line <=> s # t /\ <<t, s>> \notin line
     /\ \A s, t, r \in Session : <<s, t>> \in line /\ <<t, r>> \in line => <<s, r>> \in line}

Found(sit, line, H, n) ==
  [state |-> [s \in Session |-> sit[s].state],
   before |-> {p \in line : sit[p[1]].state = "queued" /\ sit[p[2]].state = "queued"},
   cont |-> [s \in Session |-> sit[s].cont],
   box |-> [s \in Session |-> IF sit[s].cont = "running" THEN "up" ELSE "stopped"],
   step |-> [s \in Session |-> sit[s].step],
   agent |-> {s \in Session : sit[s].step = "turn"},
   pend |-> [s \in Session |-> sit[s].pend],
   nudging |-> {}, recovering |-> {}, held |-> H, cap |-> n, armed |-> {},
   stop |-> [s \in Session |-> [k \in StopKinds |-> "no"]]]

Init ==
  /\ \E sit \in [Session -> Situation], line \in Lines, H \in SUBSET Limitable, n \in Caps :
       from = Found(sit, line, H, n)
  /\ todo = {s \in Session : from.state[s] = "queued"}
  /\ \A s, t \in Session :
       s # t /\ Conflict(s, t) /\ from.state[s] = "starting" /\ Active(from, t)
         => from.state[t] = "started"
  /\ view = from /\ claimed = [c \in Clone |-> "free"] /\ started = 0 /\ drained = {}

(* Mutant: a reader's claim replaces a writer's. *)
WithClaimsLast(s) ==
  [c \in Clone |-> IF c \in Exclusive(s) THEN "exclusive"
                   ELSE IF c \in Claims(s) THEN "shared" ELSE claimed[c]]

WithClaims(s) ==
  [c \in Clone |-> IF c \in Exclusive(s) \/ claimed[c] = "exclusive" THEN "exclusive"
                   ELSE IF c \in Claims(s) THEN "shared" ELSE claimed[c]]

AtCap == view.cap > 0 /\ ActiveCount(view) + started >= view.cap

Taken(s) ==
  \/ \E c \in Claims(s) : claimed[c] = "exclusive" \/ (c \in Exclusive(s) /\ claimed[c] # "free")
  \/ Holders(view, s) # {}

(* The items are taken by queuedAt. *)
IsNext(s) ==
  /\ s \in todo /\ \A t \in todo \ {s} : <<s, t>> \in from.before
  /\ todo' = todo \ {s}

(* A held item, and one over the cap, stays queued and claims nothing. *)
Skip(s) ==
  /\ IsNext(s) /\ (s \in view.held \/ AtCap)
  /\ UNCHANGED <<from, view, claimed, started, drained>>

(* An item that is not free stays queued and reserves its claims: nothing    *)
(* behind it overtakes it on any of them.                                    *)
Block(s) ==
  /\ IsNext(s) /\ s \notin view.held /\ ~AtCap /\ Taken(s)
  /\ claimed' = WithClaims(s)
  /\ UNCHANGED <<from, view, started, drained>>

Start(s) ==
  /\ IsNext(s) /\ s \notin view.held /\ ~AtCap /\ ~Taken(s)
  /\ claimed' = WithClaims(s) /\ view' = StartAll(view, {s})
  /\ started' = IF view.cap > 0 THEN started + 1 ELSE started
  /\ UNCHANGED <<from, drained>>

(* Behind the queue, the waiting prompts of every session. *)
DrainPending(s) ==
  /\ todo = {} /\ s \notin drained
  /\ view' = Drain(view, {s}) /\ drained' = drained \cup {s}
  /\ UNCHANGED <<from, todo, claimed, started>>

Next == \E s \in Session : Skip(s) \/ Block(s) \/ Start(s) \/ DrainPending(s)

Spec == Init /\ [][Next]_vars

-----------------------------------------------------------------------------
(* The loop computes Schedule: its bookkeeping starts exactly the items that *)
(* are free, in the order of the queue and within the cap, and sends exactly *)
(* the prompts that nothing it has just started keeps back.                  *)
PassIsSchedule == todo = {} /\ drained = Session => view = Schedule(from)
=============================================================================
