---------------------------- MODULE ProactiveRuns ---------------------------
(***************************************************************************)
(* A proactive agent: its runs, and the scopes they raise.  A scope is     *)
(* bound to the refs it was raised for (the ids of a mail, an issue, ...): *)
(* the binding is in the scope's task.json, an index of it in memory.      *)
(* Calls of a run decide on refs under the workspace's lock; the user      *)
(* renames, deletes, archives and restores scopes without it.              *)
(***************************************************************************)
EXTENDS Naturals, FiniteSets

CONSTANTS
  Ref, Name,      \* refs, and the names raised scopes may have
  Call,           \* the calls of propose_scope and attach that may overlap
  MaxRuns,        \* bound on the runs of the agent
  KeepRuns,       \* keepRuns
  MaxPending,     \* maxPendingScopes
  MaxMoves,       \* bound on the renames, deletes, archives, restores and edits
  MaxRestarts,    \* bound on the restarts of the application
  Windows         \* what may fall between two awaits: "moving", a call on a scope
                  \* being renamed or archived; "deleting", a crash before a deleted
                  \* scope's directory goes; "edited", a scope's settings written
                  \* while its task.json changes; "restored", refs raised again
                  \* that are in an archive or came back from one; and "opening", a
                  \* run overdue while no prompt is with its agent, or whose turn
                  \* ends before the cancel is there

ASSUME ProactiveAssumption ==
  /\ IsFiniteSet(Ref) /\ IsFiniteSet(Name) /\ IsFiniteSet(Call) /\ "none" \notin Name
  /\ MaxRuns \in Nat /\ KeepRuns \in Nat \ {0} /\ MaxPending \in Nat \ {0}
  /\ MaxMoves \in Nat /\ MaxRestarts \in Nat
  /\ Windows \subseteq {"moving", "deleting", "edited", "restored", "opening"}

VARIABLES
  active,     \* Agent.active: the run in progress, 0 for none
  outcome,    \* the run history: a run is over however it ended
  sess,       \* the runs' sessions
  dir,        \* the task.json of the scopes, with the refs of their origin
  origin,     \* origins: the refs of each raised scope
  index,      \* refIndex: the scope of each ref
  box,        \* the sessions of each scope, as far as they are drafts
  kept,       \* the scopes whose sessions are on disk
  call,       \* the calls under the lock
  move,       \* the rename, delete or archive under way
  edit,       \* setTaskMaxConcurrentSessions under way, with what it read
  vault,      \* the archived scopes
  unindexed,  \* history: the scopes restored since the application started
  spent       \* how much of the bounds is used up

runs   == <<active, outcome, sess>>
scopes == <<dir, origin, index, box, kept, vault, unindexed>>
vars   == <<runs, scopes, call, move, edit, spent>>

Run      == 1..MaxRuns
NoFile   == [on |-> FALSE, refs |-> {}]
NoCall   == [at |-> "idle", name |-> "none", refs |-> {}]
NoMove   == [kind |-> "idle", from |-> "none", to |-> "none"]
NoEdit   == [name |-> "none", refs |-> {}]
NoVault  == [on |-> FALSE, refs |-> {}, box |-> "empty"]

(* A bound ref's scope has an origin that holds it.                          *)
TypeOK ==
  /\ active \in Run \cup {0}
  /\ outcome \in [Run -> {"none", "running", "over"}]
  /\ sess \in [Run -> {"none", "queued", "starting", "opening", "working", "stopping", "idle",
                       "draft", "gone"}]
  /\ dir \in [Name -> [on : BOOLEAN, refs : SUBSET Ref]]
  /\ origin \in [Name -> SUBSET Ref] /\ index \in [Ref -> Name \cup {"none"}]
  /\ \A r \in Ref : index[r] # "none" => r \in origin[index[r]]
  /\ box \in [Name -> {"empty", "drafts", "back", "acted"}] /\ kept \subseteq Name
  /\ call \in [Call -> [at : {"idle", "preparing", "refilling", "writing", "saving"},
                        name : Name \cup {"none"}, refs : SUBSET Ref]]
  /\ move \in [kind : {"idle", "delete", "rename", "archive"},
               from : Name \cup {"none"}, to : Name \cup {"none"}]
  /\ edit \in [name : Name \cup {"none"}, refs : SUBSET Ref]
  /\ vault \in [Name -> [on : BOOLEAN, refs : SUBSET Ref, box : {"empty", "back", "acted"}]]
  /\ unindexed \subseteq Name /\ spent \in [moves : 0..MaxMoves, restarts : 0..MaxRestarts]

Init ==
  /\ active = 0 /\ outcome = [r \in Run |-> "none"] /\ sess = outcome
  /\ dir = [n \in Name |-> NoFile] /\ origin = [n \in Name |-> {}]
  /\ index = [r \in Ref |-> "none"]
  /\ box = [n \in Name |-> "empty"] /\ kept = {}
  /\ call = [c \in Call |-> NoCall] /\ move = NoMove /\ edit = NoEdit
  /\ vault = [n \in Name |-> NoVault] /\ unindexed = {} /\ spent = [moves |-> 0, restarts |-> 0]

-----------------------------------------------------------------------------
(* Helpers.                                                                  *)

(* locked: nothing else of the workspace is under its lock.                  *)
UnlockedAlways == TRUE  (* Mutant: the lock lets a second call in. *)
Unlocked == \A c \in Call : call[c].at = "idle"

(* pendingCount: raised scopes that still wait for the user.                 *)
Pending == {n \in Name : origin[n] # {} /\ box[n] \in {"drafts", "back"}}

HasRoomAtLimit == Cardinality(Pending) <= MaxPending  (* Mutant: one too many. *)
HasRoom == Cardinality(Pending) < MaxPending

(* The bound on what the user does to a scope.                               *)
Moves == spent.moves < MaxMoves /\ spent' = [spent EXCEPT !.moves = @ + 1]

(* What the windows leave out.                                               *)
Still(n)  == move.kind # "idle" /\ n \in {move.from, move.to} => "moving" \in Windows
Unread(n) == edit.name = n => "edited" \in Windows
Unused(n) == "moving" \in Windows \/ \A c \in Call : call[c].name # n
Unsaved(n) == "edited" \in Windows \/ \A c \in Call : call[c].name # n
Elsewhere(refs) ==
  \/ "restored" \in Windows
  \/ \A n \in Name : n \in unindexed => dir[n].refs \cap refs = {}

(* collectRuns: all but the newest sessions of ended runs are deleted.       *)
Collect(s) ==
  LET ended == {r \in Run : s[r] \notin {"none", "gone"}} IN
  [r \in Run |-> IF r \in ended /\ Cardinality({q \in ended : q > r}) >= KeepRuns
                   THEN "gone" ELSE s[r]]

(* finishRun, with what else becomes of the session.                         *)
FinishRun(r, s) ==
  /\ active' = 0
  /\ outcome' = [outcome EXCEPT ![r] = "over"]
  /\ sess' = Collect(s)

(* The handlers of session.turn, session.state and session.deleted: runOf.   *)
Settles(r, s) ==
  IF active = r THEN FinishRun(r, s) ELSE sess' = s /\ UNCHANGED <<active, outcome>>

-----------------------------------------------------------------------------
(* Runs.                                                                     *)

(* startRun, by the clock or by the user.  The clock starts none while the   *)
(* inbox is full, the user may, so its guard leaves nothing out.             *)
StartRun(r) ==
  /\ active = 0 /\ sess[r] = "none" /\ \A q \in 1..(r - 1) : sess[q] # "none"
  /\ active' = r
  /\ outcome' = [outcome EXCEPT ![r] = "running"]
  /\ sess' = [sess EXCEPT ![r] = "queued"]
  /\ UNCHANGED <<scopes, call, move, edit, spent>>

Goes(r, from, to) == sess[r] = from /\ sess' = [sess EXCEPT ![r] = to]

(* The queue reaches the session, and it is started: opening, until its      *)
(* agent has been told the settings, and the turn is marked, attached and    *)
(* with the agent.  The start fails where it comes up or at the mark.        *)
Starts(r) ==
  /\ \/ Goes(r, "queued", "starting") \/ Goes(r, "starting", "opening")
     \/ Goes(r, "opening", "working")
  /\ UNCHANGED <<active, outcome, scopes, call, move, edit, spent>>

StartFails(r) ==
  /\ sess[r] \in {"starting", "opening"}
  /\ Settles(r, [sess EXCEPT ![r] = "draft"])
  /\ UNCHANGED <<scopes, call, move, edit, spent>>

(* A turn ends without finish_run, and another opens to ask for it.          *)
Nudges(r) ==
  /\ \/ Goes(r, "working", "opening")
     \/ "opening" \in Windows /\ Goes(r, "stopping", "opening")
  /\ UNCHANGED <<active, outcome, scopes, call, move, edit, spent>>

(* The last turn of the run ends, or that of a run already cancelled.        *)
TurnEnds(r) ==
  /\ sess[r] \in {"opening", "working", "stopping"}
  /\ Settles(r, [sess EXCEPT ![r] = "idle"])
  /\ UNCHANGED <<scopes, call, move, edit, spent>>

(* tick: the run is overdue.  A started one is cancelled, which ends nothing *)
(* of a turn that is not with the agent yet; any other is deleted.           *)
OverdueCancels(r) ==  (* Mutant: a run still starting is cancelled as well. *)
  /\ active = r
  /\ FinishRun(r, IF sess[r] = "working" THEN [sess EXCEPT ![r] = "stopping"]
                             ELSE sess)
  /\ UNCHANGED <<scopes, call, move, edit, spent>>

Overdue(r) ==
  /\ active = r
  /\ sess[r] = "opening" => "opening" \in Windows
  /\ FinishRun(r, [sess EXCEPT ![r] = CASE @ = "opening" -> "opening"
                                         [] @ = "working" -> "stopping"
                                         [] OTHER         -> "gone"])
  /\ UNCHANGED <<scopes, call, move, edit, spent>>

(* The user deletes a run's session, takes it out of the queue, or puts it   *)
(* back in while the run is in progress: a session of an ended run that he   *)
(* starts is his own, and no longer the agent's business.                    *)
DeletesRun(r) ==
  /\ sess[r] \notin {"none", "gone"}
  /\ Settles(r, [sess EXCEPT ![r] = "gone"])
  /\ UNCHANGED <<scopes, call, move, edit, spent>>

TakesRun(r) ==
  /\ \/ Goes(r, "queued", "draft")
     \/ active = r /\ Goes(r, "draft", "queued")
  /\ UNCHANGED <<active, outcome, scopes, call, move, edit, spent>>

-----------------------------------------------------------------------------
(* The calls of the run in progress.                                         *)

Calls(c, at, n, refs) ==
  call' = [call EXCEPT ![c] = [at |-> at, name |-> n, refs |-> refs]]

Enters(c) == active # 0 /\ sess[active] = "working" /\ call[c].at = "idle" /\ Unlocked

(* proposeScope: a bound ref answers with its scope, and only a scope that   *)
(* has no sessions is drafted into; otherwise the inbox must have room.      *)
Proposes(c, refs) ==
  LET bound == {r \in refs : index[r] # "none"} IN
  /\ Enters(c) /\ Elsewhere(refs)
  /\ \/ /\ bound = {} /\ HasRoom
        /\ Calls(c, "preparing", "none", refs)
     \/ \E r \in bound :
          /\ box[index[r]] = "empty" /\ origin[index[r]] # {}
          /\ Still(index[r])
          /\ Calls(c, "refilling", index[r], {})
  /\ UNCHANGED <<runs, scopes, move, edit, spent>>

(* A session of the proposal cannot be prepared: nothing is created.         *)
PrepareFails(c) ==
  /\ call[c].at \in {"preparing", "refilling"}
  /\ call' = [call EXCEPT ![c] = NoCall]
  /\ UNCHANGED <<runs, scopes, move, edit, spent>>

Refilled(c) ==
  /\ call[c].at = "refilling"
  /\ box' = [box EXCEPT ![call[c].name] = "back"] /\ kept' = kept \ {call[c].name}
  /\ call' = [call EXCEPT ![c] = NoCall]
  /\ UNCHANGED <<runs, dir, origin, index, vault, unindexed, move, edit, spent>>

(* The sessions are prepared: the scope's name is chosen, and createTask     *)
(* writes its task.json with its origin.                                     *)
WritesScope(c, n) ==
  /\ call[c].at = "preparing"
  /\ ~dir[n].on /\ Still(n) /\ Unread(n)
  /\ dir' = [dir EXCEPT ![n] = [on |-> TRUE, refs |-> call[c].refs]]
  /\ Calls(c, "writing", n, call[c].refs)
  /\ UNCHANGED <<runs, origin, index, box, kept, vault, unindexed, move, edit, spent>>

(* indexOrigin.                                                              *)
Bind(n, refs) ==
  /\ origin' = [origin EXCEPT ![n] = refs]
  /\ index' = [r \in Ref |-> IF r \in refs THEN n ELSE index[r]]

Raised(c) ==
  LET n == call[c].name IN
  /\ call[c].at = "writing"
  /\ Bind(n, call[c].refs)
  /\ box' = [box EXCEPT ![n] = "drafts"] /\ kept' = kept \ {n}
  /\ call' = [call EXCEPT ![c] = NoCall]
  /\ UNCHANGED <<runs, dir, vault, unindexed, move, edit, spent>>

(* attach: refs of another scope are refused; the scope's task.json is read  *)
(* and written back with the fresh ones.                                     *)
Attaches(c, n, refs) ==
  /\ Enters(c) /\ origin[n] # {} /\ Elsewhere(refs)
  /\ \A r \in refs : index[r] \in {n, "none"}
  /\ ~(refs \subseteq origin[n])
  /\ Still(n) /\ Unread(n)
  /\ Calls(c, "saving", n, origin[n] \cup refs)
  /\ UNCHANGED <<runs, scopes, move, edit, spent>>

Attached(c) ==
  LET n == call[c].name IN
  /\ call[c].at = "saving"
  /\ dir' = [dir EXCEPT ![n] = [on |-> TRUE, refs |-> call[c].refs]]
  /\ Bind(n, call[c].refs)
  /\ call' = [call EXCEPT ![c] = NoCall]
  /\ UNCHANGED <<runs, box, kept, vault, unindexed, move, edit, spent>>

-----------------------------------------------------------------------------
(* The user and the raised scopes.                                           *)

(* The drafts, written by then, are launched, taken back, or deleted.        *)
ActsOn(n) ==
  /\ move.from # n /\ n \in kept
  /\ \/ box[n] \in {"drafts", "back"} /\ box' = [box EXCEPT ![n] = "acted"] /\ UNCHANGED kept
     \/ box[n] = "acted" /\ box' = [box EXCEPT ![n] = "back"] /\ UNCHANGED kept
     \/ box[n] # "acted" /\ box' = [box EXCEPT ![n] = "empty"] /\ kept' = kept \ {n}
  /\ UNCHANGED <<runs, dir, origin, index, vault, unindexed, call, move, edit, spent>>

(* The scope's sessions.json is written.                                     *)
SavesDrafts(n) ==
  /\ box[n] # "empty" /\ n \notin kept /\ kept' = kept \cup {n}
  /\ UNCHANGED <<runs, dir, origin, index, box, vault, unindexed, call, move, edit, spent>>

(* setTaskMaxConcurrentSessions reads the task.json, then writes it.         *)
Edits(n) ==
  /\ edit = NoEdit /\ dir[n].on /\ move.from # n /\ Unsaved(n) /\ Moves
  /\ edit' = [name |-> n, refs |-> dir[n].refs]
  /\ UNCHANGED <<runs, scopes, call, move>>

Edited ==
  /\ edit # NoEdit
  /\ dir' = [dir EXCEPT ![edit.name] = [on |-> TRUE, refs |-> edit.refs]]
  /\ edit' = NoEdit
  /\ UNCHANGED <<runs, origin, index, box, kept, vault, unindexed, call, move, spent>>

(* onScopeDeleted: the refs of a raised scope are free again.                *)
ForgetOrigin(n) ==  (* Mutant: the index keeps them. *)
  origin' = [origin EXCEPT ![n] = {}] /\ UNCHANGED index

Forget(n) ==
  /\ origin' = [origin EXCEPT ![n] = {}]
  /\ index' = [r \in Ref |-> IF r \in origin[n] /\ index[r] = n THEN "none" ELSE index[r]]

MayMove(n) == move = NoMove /\ dir[n].on /\ Unread(n) /\ Unused(n)

(* deleteTask: under the lock the refs are freed, then the directory goes.   *)
Deletes(n) ==
  /\ MayMove(n) /\ Unlocked /\ Moves
  /\ Forget(n)
  /\ move' = [kind |-> "delete", from |-> n, to |-> "none"]
  /\ UNCHANGED <<runs, dir, box, kept, vault, unindexed, call, edit>>

Deleted ==
  /\ move.kind = "delete"
  /\ dir' = [dir EXCEPT ![move.from] = NoFile]
  /\ box' = [box EXCEPT ![move.from] = "empty"]
  /\ kept' = kept \ {move.from} /\ unindexed' = unindexed \ {move.from}
  /\ move' = NoMove
  /\ UNCHANGED <<runs, origin, index, vault, call, edit, spent>>

(* renameTask: the directory is moved; once the branches have been renamed,  *)
(* the sessions and the origin follow it.                                    *)
Renames(n, to) ==
  /\ MayMove(n) /\ ~dir[to].on /\ Unread(to) /\ Unused(to) /\ Moves
  /\ dir' = [dir EXCEPT ![to] = dir[n], ![n] = NoFile]
  /\ unindexed' = IF n \in unindexed THEN (unindexed \ {n}) \cup {to} ELSE unindexed
  /\ move' = [kind |-> "rename", from |-> n, to |-> to]
  /\ UNCHANGED <<runs, origin, index, box, kept, vault, call, edit>>

Renamed ==
  LET n == move.from  to == move.to IN
  /\ move.kind = "rename"
  /\ box' = [box EXCEPT ![to] = box[n], ![n] = "empty"]
  /\ kept' = IF n \in kept THEN (kept \ {n}) \cup {to} ELSE kept \ {to}
  /\ IF origin[n] = {} THEN UNCHANGED <<origin, index>>
     ELSE /\ origin' = [origin EXCEPT ![to] = origin[n], ![n] = {}]
          /\ index' = [r \in Ref |-> IF r \in origin[n] THEN to ELSE index[r]]
  /\ move' = NoMove
  /\ UNCHANGED <<runs, dir, vault, unindexed, call, edit, spent>>

(* archive: the directory is packed and set aside with its sessions, then,   *)
(* under the lock, the refs are freed.                                       *)
Archives(n) ==
  /\ MayMove(n) /\ ~vault[n].on /\ Moves
  /\ vault' = [vault EXCEPT ![n] =
                 [on |-> TRUE, refs |-> dir[n].refs,
                  box |-> IF box[n] = "drafts" THEN "back" ELSE box[n]]]
  /\ dir' = [dir EXCEPT ![n] = NoFile]
  /\ box' = [box EXCEPT ![n] = "empty"] /\ kept' = kept \ {n}
  /\ unindexed' = unindexed \ {n}
  /\ move' = [kind |-> "archive", from |-> n, to |-> "none"]
  /\ UNCHANGED <<runs, origin, index, call, edit>>

Archived ==
  /\ move.kind = "archive" /\ Unlocked
  /\ Forget(move.from)
  /\ move' = NoMove
  /\ UNCHANGED <<runs, dir, box, kept, vault, unindexed, call, edit, spent>>

(* restore: the scope is back on disk and in memory, but not in the index.   *)
Restores(n) ==
  /\ vault[n].on /\ ~dir[n].on /\ Still(n) /\ move.from # n /\ Moves
  /\ "restored" \in Windows
       \/ /\ \A m \in Name : dir[m].refs \cap vault[n].refs = {}
          /\ \A c \in Call : call[c].refs \cap vault[n].refs = {}
  /\ dir' = [dir EXCEPT ![n] = [on |-> TRUE, refs |-> vault[n].refs]]
  /\ box' = [box EXCEPT ![n] = vault[n].box]
  /\ kept' = IF vault[n].box = "empty" THEN kept ELSE kept \cup {n}
  /\ vault' = [vault EXCEPT ![n] = NoVault]
  /\ unindexed' = unindexed \cup {n}
  /\ UNCHANGED <<runs, origin, index, call, move, edit>>

-----------------------------------------------------------------------------
(* The application dies and starts again.  load: the index is rebuilt from   *)
(* the task.json files, runs that were running are interrupted, and a run    *)
(* that was queued goes back to a draft, as one that was starting does.      *)
Restart ==
  /\ spent.restarts < MaxRestarts /\ spent' = [spent EXCEPT !.restarts = @ + 1]
  /\ move.kind = "delete" => "deleting" \in Windows
  /\ move.kind = "rename" => "moving" \in Windows
  /\ active' = 0
  /\ outcome' \in {[r \in Run |-> IF outcome[r] = "none" \/ r = lost THEN "none" ELSE "over"]
                      : lost \in {0, active}}
  /\ sess' = [r \in Run |-> CASE sess[r] \in {"queued", "starting", "draft"} -> "draft"
                              [] sess[r] \in {"none", "gone"} -> sess[r]
                              [] OTHER -> "idle"]
  /\ origin' = [n \in Name |-> dir[n].refs]
  /\ index' \in [Ref -> Name \cup {"none"}]
  /\ \A r \in Ref : IF \E n \in Name : r \in dir[n].refs
                      THEN index'[r] # "none" /\ r \in dir[index'[r]].refs
                      ELSE index'[r] = "none"
  /\ box' = [n \in Name |-> IF n \in kept THEN box[n] ELSE "empty"]
  /\ kept' = {n \in kept : box[n] # "empty"}
  /\ call' = [c \in Call |-> NoCall] /\ move' = NoMove /\ edit' = NoEdit
  /\ unindexed' = {}
  /\ UNCHANGED <<dir, vault>>

Next ==
  \/ \E r \in Run : \/ StartRun(r) \/ Starts(r) \/ StartFails(r) \/ Nudges(r) \/ TurnEnds(r)
                    \/ Overdue(r) \/ DeletesRun(r) \/ TakesRun(r)
  \/ \E c \in Call : \/ \E refs \in (SUBSET Ref) \ {{}} : Proposes(c, refs)
                     \/ \E n \in Name, refs \in (SUBSET Ref) \ {{}} : Attaches(c, n, refs)
                     \/ \E n \in Name : WritesScope(c, n)
                     \/ PrepareFails(c) \/ Refilled(c) \/ Raised(c) \/ Attached(c)
  \/ \E n \in Name : \/ ActsOn(n) \/ SavesDrafts(n) \/ Edits(n) \/ Deletes(n) \/ Archives(n)
                     \/ Restores(n) \/ \E to \in Name \ {n} : Renames(n, to)
  \/ Edited \/ Deleted \/ Renamed \/ Archived
  \/ Restart

Spec == Init /\ [][Next]_vars

-----------------------------------------------------------------------------
(* Safety.                                                                   *)

(* "While a scope exists, each of its refs is bound to it alone": no two     *)
(* scopes hold one ref, and when nothing is under way memory agrees with the *)
(* disk, so that the next proposal of a ref finds its scope: through renames,*)
(* deletes, archives, failed and overlapping calls and restarts.             *)
Existing == {n \in Name : dir[n].on /\ ~(move.kind = "delete" /\ move.from = n)}
RefsBelong ==
  /\ \A n, m \in Existing : n # m => dir[n].refs \cap dir[m].refs = {}
  /\ move = NoMove /\ (\A c \in Call : call[c].at = "idle") =>
       \A r \in Ref, n \in Existing \ unindexed : r \in dir[n].refs <=> index[r] = n

(* A run is recorded as running exactly while it is the agent's, and until   *)
(* then its session is one that can still end it.  Nothing of an ended run   *)
(* comes up on its own: no session that is queued, starting or at a turn is  *)
(* left that nobody watches and whose tools are closed.                      *)
RunsSettle ==
  /\ \A r \in Run : outcome[r] = "running" <=> active = r
  /\ \A r \in Run : sess[r] \in {"queued", "starting", "opening", "working"} => active = r
  /\ active # 0 => sess[active] \in {"queued", "starting", "opening", "working", "draft"}

(* The inbox holds no more untouched scopes than the limit, counted while a  *)
(* proposal was prepared, named and written.  Scopes the user put back, and  *)
(* those drafted into again, are not counted.                                *)
InboxBounded == Cardinality({n \in Existing : box[n] = "drafts"}) <= MaxPending
=============================================================================
