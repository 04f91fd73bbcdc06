----------------------------- MODULE ScopeFiles -----------------------------
(***************************************************************************)
(* Where the sessions of a scope live: in memory, in the sessions.json and *)
(* the append-only logs of the scope's directory, or in an archive.        *)
(*                                                                         *)
(* Memory reaches the disk late: sessions.json by a debounced timer and a  *)
(* chain of writes, the log by a flush of its tail.  Meanwhile scopes are  *)
(* renamed, deleted, archived and restored, and the process may die.  Both *)
(* timers and chains are kept by the scope's name, which these operations  *)
(* take away from under them.                                              *)
(***************************************************************************)
EXTENDS Naturals, Sequences, FiniteSets

CONSTANTS
  Session,
  Name,         \* the names a scope may have
  Home,         \* the name of the scope there is at first
  Id,           \* archives
  MaxRecords,   \* bound on the records of a session's log
  MaxOps,       \* bound on the scopes' and archives' operations
  MaxTroubles,  \* bound on the appends and the archive operations that fail and
                \* the restarts of the application
  Windows       \* what may fall between two awaits: "branches", work while a
                \* renamed scope's branches are renamed; "unsaved", a crash
                \* before the records of a renamed scope, or those a restored
                \* session was deleted from, are written; "queued", a
                \* directory that goes with two writes of its records pending;
                \* "restoring", a timer between a restored session's write and
                \* its return to memory; "changing", a session that is archived
                \* or comes back, a scope that is restored or created, under a
                \* name of a delete or a rename under way; "emptied", a session
                \* that comes back before the records of a scope all of whose
                \* sessions were deleted are written

ASSUME FilesAssumption ==
  /\ IsFiniteSet(Session) /\ IsFiniteSet(Name) /\ Home \in Name /\ "none" \notin Name
  /\ IsFiniteSet(Id) /\ MaxRecords \in Nat /\ MaxOps \in Nat /\ MaxTroubles \in Nat
  /\ Windows \subseteq {"branches", "unsaved", "queued", "restoring", "changing", "emptied"}

VARIABLES
  live,      \* the sessions in memory, and how far their logs are flushed
  flush,     \* the append of a session's tail under way
  erase,     \* the logs to be deleted once their appends settle
  timers,    \* persistTimers: the names with a debounced write
  writes,    \* writeChains: the records on their way to a sessions.json
  disk,      \* the directories of the workspace
  archive,   \* the archives
  scope,     \* the delete or the rename of a scope under way
  op,        \* the archive operation under way
  fate,      \* history: which sessions the user deleted
  spent      \* how much of the bounds is used up

vars == <<live, flush, erase, timers, writes, disk, archive, scope, op, fate, spent>>

Records == 0..MaxRecords
Log     == Seq(1..MaxRecords)
Saved   == [Session -> Name \cup {"none"}]

Nothing == [s \in Session |-> "none"]
NoLogs  == [s \in Session |-> <<>>]
NoDir   == [there |-> FALSE, scope |-> FALSE, saved |-> Nothing, log |-> NoLogs]
NoFlush == [on |-> FALSE, name |-> Home, from |-> 0, upTo |-> 0]
NoFile  == [data |-> FALSE, meta |-> FALSE, kind |-> "scope", name |-> Home,
            saved |-> {}, log |-> NoLogs]
NoMove  == [kind |-> "idle", at |-> "idle", from |-> Home, to |-> Home]

TypeOK ==
  /\ live \in [Session -> [name : Name \cup {"none"}, busy : BOOLEAN, seq : Records,
                           flushed : Records]]
  /\ flush \in [Session -> [on : BOOLEAN, name : Name, from : Records, upTo : Records]]
  /\ erase \subseteq Session \X Name
  /\ timers \subseteq Name
  /\ \A n \in Name : Len(writes[n]) <= 4 /\ \A i \in DOMAIN writes[n] : writes[n][i] \in Saved
  /\ \A n \in Name :
       /\ disk[n].there \in BOOLEAN /\ disk[n].scope \in BOOLEAN /\ disk[n].saved \in Saved
       /\ disk[n].scope => disk[n].there
       /\ \A s \in Session : disk[n].log[s] \in Log
  /\ \A i \in Id :
       /\ archive[i].meta => archive[i].kind \in {"scope", "session"}
       /\ archive[i].saved \subseteq Session /\ archive[i].name \in Name
  /\ scope.kind \in {"idle", "delete", "rename"}
  /\ op.kind \in {"idle", "scope", "session", "restore", "return", "delete"}
  /\ fate \in [Session -> {"kept", "deleted"}]
  /\ spent \in [ops : 0..MaxOps, troubles : 0..MaxTroubles]

-----------------------------------------------------------------------------
(* Helpers.                                                                  *)

SessionsFor(n) == {s \in Session : live[s].name = n}

(* recordsFor: what a sessions.json would hold now.  Every record names its  *)
(* scope.                                                                    *)
RecordsFor(l, n) == [s \in Session |-> IF l[s].name = n THEN n ELSE "none"]

(* readSessionLog: a record that does not advance is skipped, so a tail that *)
(* was appended twice reads once.                                            *)
Advances(log, i) == \A j \in 1..(i - 1) : log[j] < log[i]
ReadLog(log) == {log[i] : i \in {i \in DOMAIN log : Advances(log, i)}}

(* The records flushLog appends, if it starts a flush at all.                *)
Batch(f) == [i \in 1..(f.upTo - f.from) |-> f.from + i]
FlushOf(l, f, s) ==
  IF f.on \/ l[s].name = "none" \/ l[s].seq <= l[s].flushed THEN f
  ELSE [on |-> TRUE, name |-> l[s].name, from |-> l[s].flushed, upTo |-> l[s].seq]
FlushAll(l, n) ==
  [s \in Session |-> IF l[s].name = n THEN FlushOf(l, flush[s], s) ELSE flush[s]]

(* The scopes an archive operation has frozen or hides from the user: a      *)
(* delete and a rename look once, when they begin.  The scope whose          *)
(* terminals are blocked for one of them: an archive of the scope blocks     *)
(* them as well.                                                             *)
Protected(n) == op.kind \notin {"idle", "delete"} /\ op.name = n
Changing(n)  == scope.kind # "idle" /\ scope.from = n
Named(n)     == scope.kind # "idle" /\ n \in {scope.from, scope.to}
Branches(n)  == scope.at = "branches" /\ n \in {scope.from, scope.to}
Aside(n)     == Branches(n) => "branches" \in Windows
Steady(n)    == Named(n) => "changing" \in Windows

(* Mutant: an archive does not look for work.                                *)
PendingWorkUnseen(n) == FALSE

(* taskHasPendingWork.                                                       *)
PendingWork(n) == \E s \in SessionsFor(n) : live[s].busy

(* The bounds.                                                               *)
Spends   == spent.ops < MaxOps /\ spent' = [spent EXCEPT !.ops = @ + 1]
Troubles == spent.troubles < MaxTroubles /\ spent' = [spent EXCEPT !.troubles = @ + 1]

Complete(i) == archive[i].data /\ archive[i].meta

Init ==
  /\ live = [s \in Session |-> [name |-> Home, busy |-> FALSE, seq |-> 0, flushed |-> 0]]
  /\ flush = [s \in Session |-> NoFlush]
  /\ erase = {} /\ timers = {} /\ writes = [n \in Name |-> <<>>]
  /\ disk = [n \in Name |-> IF n # Home THEN NoDir
               ELSE [NoDir EXCEPT !.there = TRUE, !.scope = TRUE,
                                  !.saved = [s \in Session |-> Home]]]
  /\ archive = [i \in Id |-> NoFile]
  /\ scope = NoMove
  /\ op = [kind |-> "idle", at |-> "idle", name |-> Home, who |-> {}, id |-> CHOOSE i \in Id : TRUE]
  /\ fate = [s \in Session |-> "kept"]
  /\ spent = [ops |-> 0, troubles |-> 0]

-----------------------------------------------------------------------------
(* Sessions at work.                                                         *)

(* The user prompts a session: the prompt is saved at once.                  *)
Prompt(s) ==
  LET n == live[s].name IN
  /\ n # "none" /\ ~Protected(n) /\ ~live[s].busy
  /\ Aside(n)
  /\ writes[n] = <<>>
  /\ live' = [live EXCEPT ![s].busy = TRUE]
  /\ writes' = [writes EXCEPT ![n] = Append(@, RecordsFor(live, n))]
  /\ UNCHANGED <<flush, erase, timers, disk, archive, scope, op, fate, spent>>

(* append: its turn writes to the timeline.                                  *)
Record(s) ==
  /\ live[s].name # "none" /\ live[s].busy /\ live[s].seq < MaxRecords
  /\ Aside(live[s].name)
  /\ live' = [live EXCEPT ![s].seq = @ + 1]
  /\ timers' = timers \cup {live[s].name}
  /\ UNCHANGED <<flush, erase, writes, disk, archive, scope, op, fate, spent>>

TurnEnds(s) ==
  /\ live[s].busy
  /\ Aside(live[s].name)
  /\ live' = [live EXCEPT ![s].busy = FALSE]
  /\ timers' = timers \cup {live[s].name}
  /\ UNCHANGED <<flush, erase, writes, disk, archive, scope, op, fate, spent>>

(* A container's status changes: its record is patched, whoever has frozen   *)
(* the scope.  A scope being archived has no containers left.  (Outside of    *)
(* these operations a turn's end sets the same timer.)                       *)
StatusChanges(n) ==
  /\ SessionsFor(n) # {} /\ n \notin timers
  /\ op.kind # "idle" \/ scope.kind # "idle"
  /\ ~(op.kind = "scope" /\ op.name = n /\ op.at # "teardown")
  /\ Aside(n)
  /\ timers' = timers \cup {n}
  /\ UNCHANGED <<live, flush, erase, writes, disk, archive, scope, op, fate, spent>>

(* deleteSession: the log goes once its appends have settled; the record by  *)
(* the debounced write.                                                      *)
DeleteSession(s) ==
  LET n == live[s].name IN
  /\ n # "none" /\ ~Protected(n)
  /\ Aside(n)
  /\ live' = [live EXCEPT ![s].name = "none", ![s].busy = FALSE]
  /\ erase' = erase \cup {<<s, n>>}
  /\ timers' = timers \cup {n}
  /\ fate' = [fate EXCEPT ![s] = "deleted"]
  /\ UNCHANGED <<flush, writes, disk, archive, scope, op, spent>>

-----------------------------------------------------------------------------
(* The way to the disk.                                                      *)

(* The debounced write: the records as they are now, under the name the      *)
(* timer was set for, and a flush of every log.                              *)
TimerFires(n) ==
  /\ n \in timers /\ Len(writes[n]) < 2
  /\ Aside(n)
  /\ (op.kind = "return" /\ op.name = n /\ op.at = "written") => "restoring" \in Windows
  /\ timers' = timers \ {n}
  /\ writes' = [writes EXCEPT ![n] = Append(@, RecordsFor(live, n))]
  /\ flush' = FlushAll(live, n)
  /\ UNCHANGED <<live, erase, disk, archive, scope, op, fate, spent>>

(* writeJson makes the directory if need be and renames a complete file over *)
(* the old one.                                                              *)
WriteLands(n) ==
  /\ writes[n] # <<>>
  /\ disk' = [disk EXCEPT ![n].there = TRUE, ![n].saved = Head(writes[n])]
  /\ writes' = [writes EXCEPT ![n] = Tail(@)]
  /\ UNCHANGED <<live, flush, erase, timers, archive, scope, op, fate, spent>>

(* flushLog's completion: what is confirmed moves on, and what landed in the *)
(* meantime is flushed next, unless the session is gone.                     *)
Settled(s, flushed) ==
  LET l == IF live[s].name = "none" THEN live ELSE [live EXCEPT ![s].flushed = flushed] IN
  /\ live' = l
  /\ flush' = [flush EXCEPT ![s] = IF l[s].seq > @.upTo THEN FlushOf(l, NoFlush, s) ELSE NoFlush]

AppendLands(s) ==
  /\ flush[s].on
  /\ disk' = [disk EXCEPT ![flush[s].name].there = TRUE,
                          ![flush[s].name].log[s] = @ \o Batch(flush[s])]
  /\ Settled(s, flush[s].upTo)
  /\ UNCHANGED <<erase, timers, writes, archive, scope, op, fate, spent>>

(* Mutant: the tail counts as flushed once it is handed over.                *)
AppendFailsQuiet(s) ==
  /\ flush[s].on /\ Troubles
  /\ disk' = disk
  /\ Settled(s, flush[s].upTo)
  /\ UNCHANGED <<erase, timers, writes, archive, scope, op, fate>>

(* An append that fails may have written a part of its tail.                 *)
AppendFails(s) ==
  /\ flush[s].on /\ Troubles
  /\ \E k \in 0..(flush[s].upTo - flush[s].from - 1) :
       disk' = [disk EXCEPT ![flush[s].name].there = TRUE,
                            ![flush[s].name].log[s] = @ \o SubSeq(Batch(flush[s]), 1, k)]
  /\ Settled(s, live[s].flushed)
  /\ UNCHANGED <<erase, timers, writes, archive, scope, op, fate>>

(* deleteSessionLog.                                                         *)
EraseLog(s, n) ==
  /\ <<s, n>> \in erase /\ ~flush[s].on
  /\ erase' = erase \ {<<s, n>>}
  /\ disk' = [disk EXCEPT ![n].log[s] = <<>>]
  /\ UNCHANGED <<live, flush, timers, writes, archive, scope, op, fate, spent>>

(* drainAppends.                                                             *)
Drained(n) == \A s \in Session : flush[s].on => flush[s].name # n

(* A directory goes: a write under way fails with it, one behind it makes    *)
(* the directory again.                                                      *)
Going(n) ==
  /\ "queued" \in Windows \/ (Len(writes[n]) <= 1 /\ Drained(n))
  /\ writes' = [writes EXCEPT ![n] = IF @ = <<>> THEN @ ELSE Tail(@)]

-----------------------------------------------------------------------------
(* Deleting and renaming a scope.                                            *)

CreateTask(n) ==
  /\ ~disk[n].scope /\ ~Protected(n) /\ Steady(n)
  /\ disk' = [disk EXCEPT ![n].there = TRUE, ![n].scope = TRUE]
  /\ Spends
  /\ UNCHANGED <<live, flush, erase, timers, writes, archive, scope, op, fate>>

DeleteTask(n) ==
  /\ scope.kind = "idle" /\ ~Protected(n) /\ disk[n].scope
  /\ scope' = [kind |-> "delete", at |-> "teardown", from |-> n, to |-> n]
  /\ Spends
  /\ UNCHANGED <<live, flush, erase, timers, writes, disk, archive, op, fate>>

RenameTask(n, m) ==
  /\ scope.kind = "idle" /\ ~Protected(n) /\ disk[n].scope /\ ~disk[m].there /\ n # m
  /\ Protected(m) => "changing" \in Windows
  /\ scope' = [kind |-> "rename", at |-> "teardown", from |-> n, to |-> m]
  /\ Spends
  /\ UNCHANGED <<live, flush, erase, timers, writes, disk, archive, op, fate>>

(* teardownTask and stopTask: every container's record is patched.           *)
ScopeStops ==
  /\ scope.at = "teardown"
  /\ scope' = [scope EXCEPT !.at = "stopped"]
  /\ timers' = IF SessionsFor(scope.from) = {} THEN timers ELSE timers \cup {scope.from}
  /\ UNCHANGED <<live, flush, erase, writes, disk, archive, op, fate, spent>>

(* Mutant: the timer outlives the sessions of its scope.                     *)
DropTaskSessionsOnly(n) ==
  /\ timers' = timers
  /\ live' = [s \in Session |-> IF live[s].name # n THEN live[s]
                                ELSE [live[s] EXCEPT !.name = "none", !.busy = FALSE]]

(* dropTaskSessions.                                                         *)
DropTaskSessions(n) ==
  /\ timers' = timers \ {n}
  /\ live' = [s \in Session |-> IF live[s].name # n THEN live[s]
                                ELSE [live[s] EXCEPT !.name = "none", !.busy = FALSE]]

DeleteDrops ==
  /\ scope.kind = "delete" /\ scope.at = "stopped"
  /\ DropTaskSessions(scope.from)
  /\ fate' = [s \in Session |-> IF live[s].name = scope.from THEN "deleted" ELSE fate[s]]
  /\ scope' = [scope EXCEPT !.at = "removing"]
  /\ UNCHANGED <<flush, erase, writes, disk, archive, op, spent>>

(* removeTaskDir.                                                            *)
DeleteRemoves ==
  /\ scope.at = "removing" /\ Drained(scope.from)
  /\ Going(scope.from)
  /\ disk' = [disk EXCEPT ![scope.from] = NoDir]
  /\ scope' = NoMove
  /\ UNCHANGED <<live, flush, erase, timers, archive, op, fate, spent>>

(* Mutant: the scope is still listed under the name it had.                  *)
RenameMovesTwice ==
  /\ scope.kind = "rename" /\ scope.at = "stopped"
  /\ IF disk[scope.to].there
       THEN scope' = NoMove /\ UNCHANGED <<writes, disk>>
       ELSE /\ Drained(scope.from) /\ Going(scope.from)
            /\ disk' = [disk EXCEPT ![scope.from].there = FALSE, ![scope.to] = disk[scope.from]]
            /\ scope' = [scope EXCEPT !.at = "branches"]
  /\ UNCHANGED <<live, flush, erase, timers, archive, op, fate, spent>>

(* store.renameTask, which looks again whether the name is taken.            *)
RenameMoves ==
  /\ scope.kind = "rename" /\ scope.at = "stopped"
  /\ IF disk[scope.to].there
       THEN scope' = NoMove /\ UNCHANGED <<writes, disk>>
       ELSE /\ Drained(scope.from) /\ Going(scope.from)
            /\ disk' = [disk EXCEPT ![scope.from] = NoDir, ![scope.to] = disk[scope.from]]
            /\ scope' = [scope EXCEPT !.at = "branches"]
  /\ UNCHANGED <<live, flush, erase, timers, archive, op, fate, spent>>

(* sessions.renameTask, once the branches are renamed.                       *)
RenameEnds ==
  LET n == scope.from  m == scope.to
      l == [s \in Session |-> IF live[s].name = n THEN [live[s] EXCEPT !.name = m] ELSE live[s]]
  IN
  /\ scope.at = "branches"
  /\ timers' = timers \ {n}
  /\ live' = l
  /\ writes' = [writes EXCEPT ![m] = Append(@, RecordsFor(l, m))]
  /\ scope' = NoMove
  /\ UNCHANGED <<flush, erase, disk, archive, op, fate, spent>>

-----------------------------------------------------------------------------
(* Archiving.  One archive operation at a time.                              *)

Begins(kind, n, who, i, at) ==
  /\ op.kind = "idle" /\ Spends
  /\ op' = [kind |-> kind, at |-> at, name |-> n, who |-> who, id |-> i]

Op(at) == op' = [op EXCEPT !.at = at]
OpEnds == op' = [op EXCEPT !.kind = "idle", !.at = "idle", !.who = {}]

(* archive: freeze, then look for work.                                      *)
ArchiveScope(n, i) ==
  /\ disk[n].scope /\ ~Changing(n) /\ Aside(n) /\ ~PendingWork(n)
  /\ ~archive[i].data /\ ~archive[i].meta
  /\ Begins("scope", n, {}, i, "teardown")
  /\ UNCHANGED <<live, flush, erase, timers, writes, disk, archive, scope, fate>>

ArchiveSession(s, i) ==
  LET n == live[s].name IN
  /\ n # "none" /\ Steady(n) /\ Aside(n) /\ ~PendingWork(n)
  /\ ~archive[i].data /\ ~archive[i].meta
  /\ Begins("session", n, {s}, i, "teardown")
  /\ UNCHANGED <<live, flush, erase, timers, writes, disk, archive, scope, fate>>

OpTeardown ==
  /\ op.at = "teardown"
  /\ timers' = IF SessionsFor(op.name) = {} THEN timers ELSE timers \cup {op.name}
  /\ Op("flush")
  /\ UNCHANGED <<live, flush, erase, writes, disk, archive, scope, fate, spent>>

(* flushTask: the timer is cancelled, the records and the logs are written   *)
(* now and waited for.  For a scope without sessions it writes nothing; two  *)
(* of its callers then write the empty file themselves.                      *)
FlushTask(l, n, empty) ==
  /\ timers' = timers \ {n}
  /\ writes' = IF empty \/ (\E s \in Session : l[s].name = n)
                 THEN [writes EXCEPT ![n] = Append(@, RecordsFor(l, n))] ELSE writes
  /\ flush' = FlushAll(l, n)

Flushed(n) == writes[n] = <<>> /\ \A s \in SessionsFor(n) : ~flush[s].on

Written(n) == op.kind = "scope" \/ SessionsFor(n) # {}
OpFlushes ==
  /\ op.at = "flush"
  /\ Written(op.name) \/ "emptied" \in Windows \/ (op.name \notin timers /\ writes[op.name] = <<>>)
  /\ FlushTask(live, op.name, op.kind = "scope")
  /\ Op("flushing")
  /\ UNCHANGED <<live, erase, disk, archive, scope, fate, spent>>

(* A log that is not flushed refuses the operation, and so does a session to *)
(* be archived that has no record.                                           *)
OpFlushed ==
  /\ op.at = "flushing"
  /\ Written(op.name) => Flushed(op.name)
  /\ IF /\ \A s \in SessionsFor(op.name) : live[s].flushed = live[s].seq
        /\ op.kind = "session" => \A s \in op.who : disk[op.name].saved[s] # "none"
     THEN Op(IF op.kind = "return" THEN "copy" ELSE "pack") ELSE OpEnds
  /\ UNCHANGED <<live, flush, erase, timers, writes, disk, archive, scope, fate, spent>>

(* Pack, verify and rename into place; then the metadata, which makes it an  *)
(* archive.                                                                  *)
OpPacks ==
  /\ op.at = "pack"
  /\ LET who == IF op.kind = "session" THEN op.who
                ELSE {s \in Session : disk[op.name].saved[s] # "none"}
     IN archive' = [archive EXCEPT ![op.id] =
          [data |-> TRUE, meta |-> FALSE, kind |-> op.kind, name |-> op.name, saved |-> who,
           log |-> [s \in Session |-> IF s \in who THEN disk[op.name].log[s] ELSE <<>>]]]
  /\ Op("packed")
  /\ UNCHANGED <<live, flush, erase, timers, writes, disk, scope, fate, spent>>

OpCommits ==
  /\ op.at = "packed"
  /\ archive' = [archive EXCEPT ![op.id].meta = TRUE]
  /\ Op("committed")
  /\ UNCHANGED <<live, flush, erase, timers, writes, disk, scope, fate, spent>>

(* The scope's directory is moved away; its sessions leave memory after.     *)
ScopeRetires ==
  /\ op.kind = "scope" /\ op.at = "committed"
  /\ Going(op.name)
  /\ disk' = [disk EXCEPT ![op.name] = NoDir]
  /\ Op("retired")
  /\ UNCHANGED <<live, flush, erase, timers, archive, scope, fate, spent>>

ScopeDrops ==
  /\ op.at = "retired"
  /\ DropTaskSessions(op.name)
  /\ OpEnds
  /\ UNCHANGED <<flush, erase, writes, disk, archive, scope, fate, spent>>

(* dropArchivedSession, then flushTask for those that stay.                  *)
SessionDrops ==
  /\ op.kind = "session" /\ op.at = "committed"
  /\ LET l == [s \in Session |-> IF s \in op.who THEN [live[s] EXCEPT !.name = "none"] ELSE live[s]]
     IN live' = l /\ FlushTask(l, op.name, TRUE)
  /\ Op("dropped")
  /\ UNCHANGED <<erase, disk, archive, scope, fate, spent>>

SessionErases ==
  /\ op.at = "dropped" /\ Flushed(op.name)
  /\ disk' = [disk EXCEPT ![op.name].log =
                [s \in Session |-> IF s \in op.who THEN <<>> ELSE @[s]]]
  /\ OpEnds
  /\ UNCHANGED <<live, flush, erase, timers, writes, archive, scope, fate, spent>>

(* The operation fails: what was not committed is removed.                   *)
OpFails ==
  /\ op.at \in {"flush", "pack", "packed", "committed", "unpacked", "copy"} /\ Troubles
  /\ archive' = IF op.at = "packed" THEN [archive EXCEPT ![op.id] = NoFile] ELSE archive
  /\ OpEnds
  /\ UNCHANGED <<live, flush, erase, timers, writes, disk, scope, fate>>

-----------------------------------------------------------------------------
(* Restoring and deleting an archive.                                        *)

NoneLive(i) == \A s \in archive[i].saved : live[s].name = "none"

(* restore: a whole scope, or a session whose scope is gone, comes back as a *)
(* directory.                                                                *)
Restore(i) ==
  LET n == archive[i].name IN
  /\ Complete(i) /\ NoneLive(i) /\ ~disk[n].there /\ Steady(n)
  /\ Begins("restore", n, archive[i].saved, i, "unpacked")
  /\ UNCHANGED <<live, flush, erase, timers, writes, disk, archive, scope, fate>>

(* Bound: unpacking takes longer than deleting the log of a session that was *)
(* live a moment ago.                                                        *)
Erased == \A s \in op.who : ~flush[s].on /\ ~\E n \in Name : <<s, n>> \in erase

(* History: what comes back is kept again, as it was when it was archived.   *)
BringsBack ==
  LET k(s) == Cardinality(ReadLog(archive[op.id].log[s]))
  IN /\ fate' = [s \in Session |-> IF s \in op.who THEN "kept" ELSE fate[s]]
     /\ live' = [s \in Session |-> IF s \in op.who /\ fate[s] = "deleted"
                                   THEN [live[s] EXCEPT !.seq = k(s), !.flushed = k(s)] ELSE live[s]]

RestoreMoves ==
  /\ op.at = "unpacked" /\ ~disk[op.name].there /\ Erased
  /\ disk' = [disk EXCEPT ![op.name] =
                [there |-> TRUE, scope |-> TRUE, log |-> archive[op.id].log,
                 saved |-> [s \in Session |-> IF s \in op.who THEN op.name ELSE "none"]]]
  /\ BringsBack
  /\ Op("moved")
  /\ UNCHANGED <<flush, erase, timers, writes, archive, scope, spent>>

(* sessions.restore.                                                         *)
Restored(s, n) ==
  LET k == Cardinality(ReadLog(disk[n].log[s])) IN
  [name |-> n, busy |-> FALSE, seq |-> k, flushed |-> k]

RestoreReturns ==
  /\ op.at \in {"moved", "written"}
  /\ op.at = "written" => writes[op.name] = <<>>
  /\ live' = [s \in Session |-> IF s \in op.who THEN Restored(s, op.name) ELSE live[s]]
  /\ Op("returned")
  /\ UNCHANGED <<flush, erase, timers, writes, disk, archive, scope, fate, spent>>

(* restoreSessionIntoScope: the scope is there and keeps its sessions.       *)
ReturnSession(i) ==
  LET n == archive[i].name IN
  /\ Complete(i) /\ archive[i].kind = "session" /\ NoneLive(i)
  /\ disk[n].scope /\ Steady(n) /\ Aside(n) /\ ~PendingWork(n)
  /\ Begins("return", n, archive[i].saved, i, "flush")
  /\ UNCHANGED <<live, flush, erase, timers, writes, disk, archive, scope, fate>>

ReturnWrites ==
  /\ op.at = "copy" /\ Erased
  /\ disk' = [disk EXCEPT ![op.name].there = TRUE, ![op.name].log =
                [s \in Session |-> IF s \in op.who THEN archive[op.id].log[s] ELSE @[s]]]
  /\ writes' = [writes EXCEPT ![op.name] = Append(@,
                  [s \in Session |-> IF s \in op.who THEN op.name ELSE disk[op.name].saved[s]])]
  /\ BringsBack
  /\ Op("written")
  /\ UNCHANGED <<flush, erase, timers, archive, scope, spent>>

(* A complete archive with everything the session ever had: what the user    *)
(* deletes when he deletes the last of them.                                 *)
Holds(i, s) ==
  Complete(i) /\ s \in archive[i].saved /\ ReadLog(archive[i].log[s]) = 1..live[s].seq

DeleteArchive(i) ==
  /\ Complete(i)
  /\ Begins("delete", archive[i].name, {s \in archive[i].saved : live[s].name = "none"}, i, "returned")
  /\ fate' = [s \in Session |-> IF s \in archive[i].saved /\ live[s].name = "none"
                                   /\ ~\E j \in Id \ {i} : Holds(j, s)
                                THEN "deleted" ELSE fate[s]]
  /\ UNCHANGED <<live, flush, erase, timers, writes, disk, archive, scope>>

(* removeFiles: the data, then the metadata.                                 *)
OpRemovesData ==
  /\ op.at = "returned"
  /\ archive' = [archive EXCEPT ![op.id].data = FALSE]
  /\ Op("emptied")
  /\ UNCHANGED <<live, flush, erase, timers, writes, disk, scope, fate, spent>>

OpRemovesMeta ==
  /\ op.at = "emptied"
  /\ archive' = [archive EXCEPT ![op.id] = NoFile]
  /\ OpEnds
  /\ UNCHANGED <<live, flush, erase, timers, writes, disk, scope, fate, spent>>

-----------------------------------------------------------------------------
(* The process dies and comes back: memory is what the scopes' files say.  A *)
(* session two of them hold is taken from the first.                         *)

Homes(s) == {n \in Name : disk[n].scope /\ disk[n].saved[s] # "none"}

Crash ==
  /\ Troubles
  /\ "unsaved" \in Windows
       \/ \A s \in Session : \A n, m \in Homes(s) : disk[n].saved[s] = n /\ n = m
  /\ \E from \in [Session -> Name] :
       /\ \A s \in Session : Homes(s) # {} => from[s] \in Homes(s)
       /\ live' = [s \in Session |->
            IF Homes(s) = {} THEN [live[s] EXCEPT !.name = "none", !.busy = FALSE]
            ELSE [Restored(s, from[s]) EXCEPT !.name = disk[from[s]].saved[s]]]
  /\ fate' = [s \in Session |-> IF Homes(s) = {} THEN fate[s] ELSE "kept"]
  /\ flush' = [s \in Session |-> NoFlush] /\ erase' = {} /\ timers' = {}
  /\ writes' = [n \in Name |-> <<>>]
  /\ scope' = NoMove /\ OpEnds
  /\ UNCHANGED <<disk, archive>>

Next ==
  \/ \E s \in Session : Prompt(s) \/ Record(s) \/ TurnEnds(s) \/ DeleteSession(s)
                        \/ AppendLands(s) \/ AppendFails(s)
  \/ \E n \in Name : StatusChanges(n) \/ TimerFires(n) \/ WriteLands(n) \/ CreateTask(n)
                     \/ DeleteTask(n) \/ \E m \in Name : RenameTask(n, m)
  \/ \E s \in Session, n \in Name : EraseLog(s, n)
  \/ ScopeStops \/ DeleteDrops \/ DeleteRemoves \/ RenameMoves \/ RenameEnds
  \/ \E i \in Id : \/ \E n \in Name : ArchiveScope(n, i)
                   \/ \E s \in Session : ArchiveSession(s, i)
                   \/ Restore(i) \/ ReturnSession(i) \/ DeleteArchive(i)
  \/ OpTeardown \/ OpFlushes \/ OpFlushed \/ OpPacks \/ OpCommits \/ ScopeRetires \/ ScopeDrops
  \/ SessionDrops \/ SessionErases \/ OpFails \/ RestoreMoves \/ RestoreReturns
  \/ ReturnWrites \/ OpRemovesData \/ OpRemovesMeta
  \/ Crash

Spec == Init /\ [][Next]_vars

-----------------------------------------------------------------------------
(* Properties.                                                               *)

(* A log that holds everything up to a record, once read, and nothing out of *)
(* order.                                                                    *)
Whole(log, k) == \E m \in k..MaxRecords : ReadLog(log) = 1..m

(* At every moment, were the process to die, each session the user has not   *)
(* deleted is found on the disk with every record its flush was confirmed    *)
(* for: in a scope, or in a complete archive (archive.ts: "A crash before    *)
(* this rename leaves a harmless archive copy beside the live scope. A crash *)
(* after it leaves a complete usable archive."; store.ts: one task lost      *)
(* every session record on 2026-08-27).                                      *)
Stored(s) ==
  \/ \E n \in Homes(s) : Whole(disk[n].log[s], live[s].flushed)
  \/ \E i \in Id : Complete(i) /\ s \in archive[i].saved
                    /\ Whole(archive[i].log[s], live[s].flushed)

NothingLost == \A s \in Session : fate[s] = "kept" => Stored(s)

(* When nothing is on its way to a directory, its sessions.json names the    *)
(* sessions in memory, and no directory is there that is no scope: no write  *)
(* that was debounced or waited brings back a session, or a scope, that was  *)
(* deleted, renamed or archived (sessions.ts: left alone it fires after the  *)
(* directory is gone, "silently resurrecting the deleted task").             *)
AtRest(n) ==
  /\ n \notin timers /\ writes[n] = <<>> /\ ~(op.kind # "idle" /\ op.name = n)
  /\ ~(scope.kind # "idle" /\ n \in {scope.from, scope.to})

DiskIsMemory ==
  \A n \in Name : AtRest(n) =>
    /\ disk[n].saved = RecordsFor(live, n)
    /\ disk[n].there => disk[n].scope

(* A session out of memory is in an archive with every record it ever had:   *)
(* nothing is written to a scope between its copy and its retirement         *)
(* (archive.ts: "Finish or cancel queued/running work").                     *)
ArchivedWhole ==
  \A s \in Session : fate[s] = "kept" /\ live[s].name = "none" => \E i \in Id : Holds(i, s)

(* A session in memory belongs to a scope the user can see, unless the scope *)
(* is being renamed or deleted: after a restart too.                         *)
InAScope ==
  \A s \in Session : live[s].name # "none" /\ scope.kind = "idle" /\ op.kind = "idle"
    => disk[live[s].name].scope
=============================================================================
