---------------------------- MODULE SessionTurn ----------------------------
(***************************************************************************)
(* One session's prompts and turns, await by await: the prompt queue and   *)
(* the loop that drains it, the turn and its contract, the marker that     *)
(* makes an interrupted turn recoverable, and the chain of writes of the   *)
(* task's sessions.json, which may fail and which a crash may cut short.   *)
(*                                                                         *)
(* SessionQueue takes these writes as instantaneous; here each is a step,  *)
(* and what the process has in memory (mem) is told apart from what a      *)
(* crash leaves (disk).  At most two turns can be under way, each run by   *)
(* its own coroutine: the start prompt's and the drain loop's.  An action  *)
(* is again what runs between two awaits, as a function of mem.            *)
(***************************************************************************)
EXTENDS Naturals, Sequences, Functions

CONSTANTS
  Prompts,        \* the messages the user may send
  Starts,         \* the session at first: whether it is a draft, about to send its
                  \* start prompt, and whether its role has the turn contract
  Masking,        \* prompts are masked before they are sent
  FailingWrites,  \* the kinds of write that may fail
  MaxFailures,    \* bound on the number of writes that fail
  MaxRestarts     \* bound on the number of crashes

WriteKinds == {"mark", "clear", "prompt", "resume", "timer"}

ASSUME TurnAssumption ==
  /\ Starts \subseteq [fresh : BOOLEAN, contract : BOOLEAN] /\ Masking \in BOOLEAN
  /\ FailingWrites \subseteq WriteKinds
  /\ MaxFailures \in Nat /\ MaxRestarts \in Nat
  /\ Prompts \cap {"auto", "first", "resume", "timer", "start", "drain"} = {}

VARIABLES
  mem,            \* the process: the session's record and its coroutines
  disk,           \* the session's record in sessions.json
  typed,          \* the user's messages, in the order prompt() was called
  accepted,       \* those prompt() returned for, and those it threw for
  refused,
  taken,          \* those the user took back
  sent,           \* those put to the agent, in that order
  told,           \* those whose turn failed with an error on the timeline
  failures, restarts

history == <<typed, accepted, refused, taken, sent, told>>
bounds  == <<failures, restarts>>
vars    == <<mem, disk, history, bounds>>

Owners  == {"start", "drain"}
Entries == Prompts \cup {"auto", "first"}

(* A turn's coroutine.  open: the start's agent is being configured; mask:   *)
(* awaiting the detector; mark, clear: awaiting the write before and after   *)
(* the turn; attach: container and agent are being woken; agent: at work.    *)
NoRun == [at |-> "none", prompt |-> "auto", nudge |-> FALSE,
          outcome |-> "none", done |-> FALSE]

Run ==
  [at : {"none", "open", "mask", "mark", "attach", "agent", "clear"},
   prompt : Entries, nudge : BOOLEAN, done : BOOLEAN,
   outcome : {"none", "end_turn", "stopped", "threw", "limited"}]

Record ==
  [state : {"draft", "started"}, contract : BOOLEAN, pending : Seq(Entries),
   interrupted : BOOLEAN]

Memory ==
  [state : {"draft", "started"}, contract : BOOLEAN, pending : Seq(Entries),
   interrupted : BOOLEAN, draining : BOOLEAN, busy : BOOLEAN, recovering : BOOLEAN, resuming : BOOLEAN,
   previous : Record, turnComplete : BOOLEAN, incomplete : BOOLEAN,
   blocked : BOOLEAN, persist : BOOLEAN, announced : SUBSET Owners,
   run : [Owners -> Run],
   writes : Seq([by : Owners \cup Prompts \cup {"resume", "timer"}, record : Record])]

TypeOK ==
  /\ mem \in Memory /\ disk \in Record
  /\ typed \in Seq(Prompts) /\ sent \in Seq(Prompts)
  /\ accepted \cup refused \cup taken \cup told \subseteq Prompts
  /\ failures \in 0..MaxFailures /\ restarts \in 0..MaxRestarts

(* A session read from its record: unfinished work is paused. *)
Restored(d) ==
  [state |-> d.state, contract |-> d.contract, pending |-> d.pending, interrupted |-> d.interrupted,
   draining |-> FALSE, busy |-> FALSE,
   recovering |-> d.interrupted \/ d.pending # <<>>, resuming |-> FALSE,
   previous |-> d, turnComplete |-> FALSE, incomplete |-> FALSE,
   blocked |-> FALSE, persist |-> FALSE, announced |-> {},
   run |-> [f \in Owners |-> NoRun], writes |-> <<>>]

Init ==
  /\ \E start \in Starts :
       disk = [state |-> IF start.fresh THEN "draft" ELSE "started",
               contract |-> start.contract, pending |-> <<>>, interrupted |-> FALSE]
  /\ mem = Restored(disk)
  /\ typed = <<>> /\ sent = <<>>
  /\ accepted = {} /\ refused = {} /\ taken = {} /\ told = {}
  /\ failures = 0 /\ restarts = 0

-----------------------------------------------------------------------------
(* The turn.                                                               *)

(* Mutant: what only the process knows is written too. *)
SnapshotAll(m) == m

Snapshot(m) ==
  [state |-> m.state, contract |-> m.contract, pending |-> m.pending, interrupted |-> m.interrupted]

(* The record is read when the write is asked for; writes land in order. *)
Write(m, by) ==
  [m EXCEPT !.writes = Append(@, [by |-> by, record |-> Snapshot(m)])]

(* Mutant: the previous turn's `complete` is not forgotten. *)
MarkTurnStale(m, f) ==
  Write([m EXCEPT !.busy = TRUE, !.interrupted = TRUE, !.incomplete = FALSE,
                  !.announced = @ \cup {f}, !.run[f].at = "mark"], f)

(* Mutant: the marker's write is not awaited. *)
MarkTurnEager(m, f) ==
  Write([m EXCEPT !.busy = TRUE, !.interrupted = TRUE, !.incomplete = FALSE,
                  !.turnComplete = FALSE, !.announced = @ \cup {f},
                  !.run[f].at = "attach"], f)

(* The turn is announced and its marker written before any work. *)
MarkTurn(m, f) ==
  Write([m EXCEPT !.busy = TRUE, !.interrupted = TRUE, !.incomplete = FALSE,
                  !.turnComplete = FALSE, !.announced = @ \cup {f},
                  !.run[f].at = "mark"], f)

SendTurn(m, f, p, nudge) ==
  LET r == [NoRun EXCEPT !.at = "mask", !.prompt = p, !.nudge = nudge]
      n == [m EXCEPT !.run[f] = r]
  IN  IF Masking THEN n ELSE MarkTurn(n, f)

Ready(m) ==
  m.pending # <<>> /\ ~m.busy /\ m.state = "started" /\ ~m.blocked

(* Mutant: the loop takes the message that waited least. *)
TakeNextLast(m) ==
  SendTurn([m EXCEPT !.pending = SubSeq(@, 1, Len(@) - 1), !.interrupted = TRUE],
           "drain", m.pending[Len(m.pending)], FALSE)

TakeNext(m) ==
  SendTurn([m EXCEPT !.pending = Tail(@), !.interrupted = TRUE],
           "drain", Head(m.pending), FALSE)

(* drainPending, and its loop's next round. *)
Drain(m) ==
  IF ~m.draining /\ ~m.recovering /\ Ready(m)
    THEN TakeNext([m EXCEPT !.draining = TRUE]) ELSE m

(* Mutant: one message is drained at a time. *)
DrainOnce(m) == [m EXCEPT !.draining = FALSE]

DrainOn(m) == IF Ready(m) THEN TakeNext(m) ELSE [m EXCEPT !.draining = FALSE]

(* runPrompt returns: the loop goes on, the start drains what was typed. *)
Return(m, f) ==
  LET n == [m EXCEPT !.run[f] = NoRun]
  IN  IF f = "drain" THEN DrainOn(n) ELSE Drain(n)

(* runPrompt throws: the loop gives up, the start goes back to draft. *)
Throw(m, f) ==
  LET n == [m EXCEPT !.run[f] = NoRun]
  IN  IF f = "drain" THEN [n EXCEPT !.draining = FALSE]
                     ELSE [Drain(n) EXCEPT !.state = "draft", !.persist = TRUE]

(* The turn is over, for one reason or another: its marker is cleared. *)
ClearTurn(m, f, outcome) ==
  Write([m EXCEPT !.busy = FALSE, !.interrupted = FALSE, !.run[f].at = "clear",
                  !.run[f].outcome = outcome], f)

(* Cleared: a limit queues its own continuation, a turn that ended without   *)
(* `complete` is nudged once, and marked incomplete the second time.         *)
TurnOver(m, f) ==
  LET r == m.run[f]
      n == [m EXCEPT !.announced = @ \ {f}, !.persist = TRUE]
      unfinished == m.contract /\ r.outcome = "end_turn" /\ ~m.turnComplete
  IN  CASE r.outcome = "limited" ->
             Return([n EXCEPT !.blocked = TRUE,
                              !.pending = IF @ = <<>> THEN <<"auto">> ELSE @], f)
        [] unfinished /\ ~r.nudge -> SendTurn(n, f, r.prompt, TRUE)
        [] unfinished /\ r.nudge  -> Return([n EXCEPT !.incomplete = TRUE], f)
        [] OTHER                  -> Return(n, f)

-----------------------------------------------------------------------------
(* Actions.                                                                *)

RunNow ==
  /\ mem.state = "draft" /\ mem.run["start"].at = "none"
  /\ mem' = [mem EXCEPT !.state = "started",
                        !.run["start"] = [NoRun EXCEPT !.at = "open", !.prompt = "first"]]
  /\ UNCHANGED <<disk, history, bounds>>

Opened ==
  /\ mem.run["start"].at = "open"
  /\ mem' = SendTurn([mem EXCEPT !.persist = TRUE], "start", "first", FALSE)
  /\ UNCHANGED <<disk, history, bounds>>

Masked(f) ==
  /\ mem.run[f].at = "mask" /\ mem' = MarkTurn(mem, f)
  /\ UNCHANGED <<disk, history, bounds>>

Attached(f) ==
  /\ mem.run[f].at = "attach"
  /\ mem' = [mem EXCEPT !.run[f].at = "agent"]
  /\ sent' = IF mem.run[f].prompt \in Prompts /\ ~mem.run[f].nudge
               THEN Append(sent, mem.run[f].prompt) ELSE sent
  /\ UNCHANGED <<disk, typed, accepted, refused, taken, told, bounds>>

(* The detector is down, the clone is taken, or the agent cannot be resumed. *)
AttachFails(f) ==
  /\ mem.run[f].at = "attach" /\ mem' = ClearTurn(mem, f, "threw")
  /\ told' = told \cup ({mem.run[f].prompt} \cap Prompts)
  /\ UNCHANGED <<disk, typed, accepted, refused, taken, sent, bounds>>

(* The agent calls `complete`; its answer may arrive late. *)
Completes(f) ==
  /\ mem.run[f].at \in {"agent", "clear"} /\ ~mem.run[f].done
  /\ mem' = [mem EXCEPT !.turnComplete = TRUE, !.run[f].done = TRUE]
  /\ UNCHANGED <<disk, history, bounds>>

TurnStops(f) ==
  /\ mem.run[f].at = "agent"
  /\ \E o \in {"end_turn", "stopped", "threw", "limited"} : mem' = ClearTurn(mem, f, o)
  /\ UNCHANGED <<disk, history, bounds>>

(* The queue without an entry: a filter. *)
Without(q, e) ==
  LET kept[n \in 0..Len(q)] ==
        IF n = 0 THEN <<>>
        ELSE IF q[n] = e THEN kept[n - 1] ELSE Append(kept[n - 1], q[n])
  IN  kept[Len(q)]

(* What the user types replaces the session's own continuation. *)
Prompt(p) ==
  /\ mem.state = "started" /\ p \notin Range(typed)
  /\ mem' = Write([mem EXCEPT !.pending = Append(Without(@, "auto"), p)], p)
  /\ typed' = Append(typed, p)
  /\ UNCHANGED <<disk, accepted, refused, taken, sent, told, bounds>>

(* The continuation goes first, and is safe before it is sent. *)
ResumeInterrupted ==
  /\ mem.recovering /\ ~mem.resuming /\ mem.state = "started"
  /\ mem' = Write([mem EXCEPT
       !.resuming = TRUE, !.previous = Snapshot(mem), !.interrupted = FALSE,
       !.pending = IF mem.interrupted THEN <<"auto">> \o @ ELSE @], "resume")
  /\ UNCHANGED <<disk, history, bounds>>

(* The session's own limit hold goes with its continuation. *)
ClearPending ==
  /\ mem.pending # <<>>
  /\ \E b \in {mem.blocked, FALSE} :
       mem' = [mem EXCEPT !.pending = <<>>, !.blocked = b, !.persist = TRUE]
  /\ taken' = taken \cup (Range(mem.pending) \cap Prompts)
  /\ UNCHANGED <<disk, typed, accepted, refused, sent, told, bounds>>

CancelPending(p) ==
  /\ p \in Range(mem.pending)
  /\ \E b \in {mem.blocked, mem.blocked /\ p # "auto"} :
       mem' = [mem EXCEPT !.pending = Without(@, p), !.blocked = b, !.persist = TRUE]
  /\ taken' = taken \cup ({p} \cap Prompts)
  /\ UNCHANGED <<disk, typed, accepted, refused, sent, told, bounds>>

(* Another session takes the clone, or a limit holds the account; then it is *)
(* over and the scheduler drains what waits.  Any other pass drains too.     *)
Block ==
  /\ ~mem.blocked /\ mem' = [mem EXCEPT !.blocked = TRUE]
  /\ UNCHANGED <<disk, history, bounds>>

(* Mutant: what waited is not drained. *)
UnblockQuiet ==
  /\ mem.blocked /\ mem' = [mem EXCEPT !.blocked = FALSE]
  /\ UNCHANGED <<disk, history, bounds>>

Unblock ==
  /\ mem.blocked /\ mem' = Drain([mem EXCEPT !.blocked = FALSE])
  /\ UNCHANGED <<disk, history, bounds>>

Pass ==
  /\ mem.pending # <<>> /\ mem' = Drain(mem) /\ UNCHANGED <<disk, history, bounds>>

-----------------------------------------------------------------------------
(* Writes.                                                                 *)

(* The debounced write; one at a time is in the chain (a bound). *)
PersistTimer ==
  /\ mem.persist /\ \A i \in DOMAIN mem.writes : mem.writes[i].by # "timer"
  /\ mem' = Write([mem EXCEPT !.persist = FALSE], "timer")
  /\ UNCHANGED <<disk, history, bounds>>

Kind(w) ==
  IF w.by \in Owners THEN mem.run[w.by].at
  ELSE IF w.by \in Prompts THEN "prompt" ELSE w.by

(* What the caller of a write goes on to do once it has landed ... *)
Landed(m, by, kind) ==
  CASE kind = "mark"   -> [m EXCEPT !.run[by].at = "attach"]
    [] kind = "clear"  -> TurnOver(m, by)
    [] kind = "prompt" -> Drain([m EXCEPT !.recovering = FALSE])
    [] kind = "resume" -> Drain([m EXCEPT !.recovering = FALSE, !.resuming = FALSE])
    [] OTHER           -> m

(* ... and when it failed. *)
Rejected(m, by, kind) ==
  CASE kind = "mark"   -> Throw([m EXCEPT !.busy = FALSE, !.recovering = TRUE], by)
    [] kind = "clear"  -> Throw(m, by)
    [] kind = "resume" -> [m EXCEPT !.pending = m.previous.pending,
                                    !.interrupted = m.previous.interrupted,
                                    !.resuming = FALSE]
    [] OTHER           -> m

(* Mutant: the writes are not chained, and land in any order. *)
WriteLandsUnchained ==
  /\ \E i \in DOMAIN mem.writes :
       LET w == mem.writes[i]
           m == [mem EXCEPT !.writes = SubSeq(@, 1, i - 1) \o SubSeq(@, i + 1, Len(@))]
       IN /\ disk' = w.record /\ mem' = Landed(m, w.by, Kind(w))
          /\ accepted' = accepted \cup ({w.by} \cap Prompts)
  /\ UNCHANGED <<typed, refused, taken, sent, told, bounds>>

WriteLands ==
  /\ mem.writes # <<>>
  /\ LET w == Head(mem.writes)
         m == [mem EXCEPT !.writes = Tail(@)]
     IN /\ disk' = w.record /\ mem' = Landed(m, w.by, Kind(w))
        /\ accepted' = accepted \cup ({w.by} \cap Prompts)
  /\ UNCHANGED <<typed, refused, taken, sent, told, bounds>>

(* A write may fail after its rename, on the directory's fsync. *)
WriteFails ==
  /\ mem.writes # <<>> /\ failures < MaxFailures /\ failures' = failures + 1
  /\ LET w == Head(mem.writes)
         m == [mem EXCEPT !.writes = Tail(@)]
     IN /\ Kind(w) \in FailingWrites /\ disk' \in {disk, w.record}
        /\ mem' = Rejected(m, w.by, Kind(w))
        /\ refused' = refused \cup ({w.by} \cap Prompts)
  /\ UNCHANGED <<typed, accepted, taken, sent, told, restarts>>

(* The process dies at any point, perhaps between a rename and its await. *)
Crash ==
  /\ restarts < MaxRestarts /\ restarts' = restarts + 1
  /\ disk' \in {disk} \cup (IF mem.writes = <<>> THEN {} ELSE {Head(mem.writes).record})
  /\ mem' = Restored(disk')
  /\ UNCHANGED <<history, failures>>

-----------------------------------------------------------------------------
Turn(f) == Masked(f) \/ Attached(f) \/ AttachFails(f) \/ TurnStops(f)

Next ==
  \/ RunNow \/ Opened \/ ResumeInterrupted \/ ClearPending
  \/ \E p \in Prompts : Prompt(p) \/ CancelPending(p)
  \/ CancelPending("auto")
  \/ \E f \in Owners : Turn(f) \/ Completes(f)
  \/ Block \/ Unblock \/ Pass
  \/ PersistTimer \/ WriteLands \/ WriteFails \/ Crash

Spec == Init /\ [][Next]_vars

(* Every await ends, and what keeps the session from its clone passes. *)
FairSpec ==
  /\ Spec /\ WF_vars(WriteLands) /\ WF_vars(Unblock) /\ WF_vars(Opened)
  /\ \A f \in Owners : WF_vars(Turn(f))

-----------------------------------------------------------------------------
(* Properties.                                                             *)

(* While the agent works, the disk says so: a crash leaves a session that    *)
(* can be resumed.                                                           *)
MarkedWhileWorking ==
  (\E f \in Owners : mem.run[f].at = "agent") => disk.interrupted

(* Messages reach the agent in the order they were typed, and none of them   *)
(* twice, whatever fails and however often the application restarts.         *)
SentInOrder ==
  \A i, j \in DOMAIN sent, k, l \in DOMAIN typed :
    i < j /\ sent[i] = typed[k] /\ sent[j] = typed[l] => k < l

(* Accepted means safe: as long as its turn has not begun, a crash brings    *)
(* the message back.                                                         *)
AcceptedIsSafe ==
  \A p \in accepted : p \in Range(mem.pending) => p \in Range(disk.pending)

(* No wake-up is lost: a session that has something to send and nothing in   *)
(* its way is sending, and a turn that was announced as started is under way *)
(* until it is announced as ended, the event the idle policy waits for.      *)
NothingStalls ==
  /\ Ready(mem) /\ ~mem.recovering =>
       \/ \E f \in Owners : mem.run[f].at # "none"
       \/ \E i \in DOMAIN mem.writes : mem.writes[i].by \in Prompts \cup {"resume"}
  /\ \A f \in mem.announced : mem.run[f].at # "none"

(* The contract judges a turn by its own `complete`: one that called it is   *)
(* never nudged nor marked, and one that did not never gets by.              *)
ContractPerTurn ==
  [][\A f \in Owners :
       /\ mem.run[f].at = "clear" /\ mem.run[f].outcome = "end_turn" /\ mem.contract
       /\ WriteLands /\ Head(mem.writes).by = f
       => LET nudged == mem'.run[f].nudge /\ ~mem.run[f].nudge
          IN  IF mem.run[f].done THEN ~nudged /\ ~mem'.incomplete
              ELSE nudged \/ mem.run[f].nudge]_vars

(* An accepted message is sent, given back or reported - or waits for the    *)
(* user, after a restart or a failed write.                                  *)
EveryPromptSettles ==
  \A p \in Prompts :
    p \in accepted ~> p \in Range(sent) \cup taken \cup told \/ mem.recovering
-----------------------------------------------------------------------------
(* What the code does not keep once it may crash, or once the writes that    *)
(* FailingWrites names fail: no run checks these, README.md says what shows  *)
(* each of them.                                                             *)

(* An accepted message is nowhere but queued, under way or settled.          *)
AcceptedIsKept ==
  accepted \subseteq Range(mem.pending) \cup Range(sent) \cup taken \cup told
                     \cup {mem.run[f].prompt : f \in Owners}

(* A message whose sender was told that it failed is not sent after all.     *)
RefusedIsNotSent == refused \cap Range(sent) = {}
=============================================================================
